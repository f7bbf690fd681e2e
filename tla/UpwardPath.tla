----------------------------- MODULE UpwardPath -----------------------------
(***************************************************************************)
(* The way of a packet up a host: from the MAC through                     *)
(* EthernetEncapsulation, Ipv4 and Udp to the application, each of them    *)
(* with a queue that a timer paces in front of a channel with a data rate. *)
(* What arrives at the end of a channel is handled by the module above in  *)
(* the same event.                                                         *)
(***************************************************************************)
EXTENDS Integers, FiniteSets, Sequences, SequencesExt

CONSTANTS
  Kinds,                   (* of datagrams: [ethertype, protocol, parts,   *)
                           (* copies], copies the UDP sockets it matches   *)
  EthernetSockets, RawSockets, NoSocket, NoPacket,
  MaxDatagrams,            (* bound: datagrams that arrive                 *)
  MaxDisturbances          (* bound: sockets opened, buffers grown old and *)
                           (* stops of the node, together                  *)

(* What the MAC, Ipv4 and Udp pass up.                                     *)
Parts ==
  [ datagram : Nat \ {0}, protocol : { k.protocol : k \in Kinds }, part : Nat \ {0},
    parts : Nat \ {0}, copies : Nat ]
Frames == [ protocol : { k.ethertype : k \in Kinds }, payload : Parts ]
ForApp == [ datagram : Nat \ {0}, copy : Nat \ {0} ]

Carried(packets) == [ packet : packets, to : {"protocol", "socket"} ]

(* The null pointers are none of these.                                    *)
ASSUME UpwardAssumption ==
  /\ \A k \in Kinds : k.parts \in Nat \ {0} /\ k.copies \in Nat
  /\ NoPacket \notin Carried(Frames) \cup Carried(Parts) \cup ForApp
  /\ NoSocket \notin { k.protocol : k \in Kinds }
  /\ MaxDatagrams \in Nat /\ MaxDisturbances \in Nat

VARIABLES
  encapQueue, encapChannel, encapTimer, encapSockets,
  bufs, old, checkDue, timeExceeded, unreachable,
  ipv4Queue, ipv4Channel, ipv4Timer, ipv4Sockets,
  udpQueue, udpChannel, udpTimer,
  up,
  error,                   (* the cRuntimeError that ended the simulation  *)
  begun,                   (* datagrams of which a frame has arrived       *)
  missing,                 (* their fragments that may still come          *)
  handed,                  (* history: payloads given to the application   *)
  tied,                    (* history: the error came with a packet that   *)
                           (* met a timer due in the same instant          *)
  disturbances             (* history: which of them there were            *)

Encap == INSTANCE EthernetEncapsulation WITH
  SocketIds <- EthernetSockets, upperProtocols <- {"ipv4", "arp"},
  queue <- encapQueue, channel <- encapChannel, timer <- encapTimer,
  sockets <- encapSockets

Ip == INSTANCE Ipv4Upward WITH
  SocketIds <- RawSockets, upperProtocols <- {"udp"},
  queue <- ipv4Queue, channel <- ipv4Channel, timer <- ipv4Timer,
  sockets <- ipv4Sockets

Udp == INSTANCE UdpQueue WITH
  queue <- udpQueue, channel <- udpChannel, timer <- udpTimer

encapVars == <<encapQueue, encapChannel, encapTimer, encapSockets>>
ipv4Vars  == <<bufs, old, checkDue, timeExceeded, unreachable, ipv4Queue, ipv4Channel,
               ipv4Timer, ipv4Sockets>>
udpVars   == <<udpQueue, udpChannel, udpTimer>>
netVars   == <<begun, missing>>
vars      == <<encapVars, ipv4Vars, udpVars, up, error, netVars, handed, tied, disturbances>>

Running == error = "none"

Disturb(what) ==
  /\ Len(disturbances) < MaxDisturbances
  /\ disturbances' = Append(disturbances, what)

-----------------------------------------------------------------------------
(***************************************************************************)
(* Frames from the MAC.  The fragments of a datagram come in their order,  *)
(* among those of other datagrams; any of them may have been lost.         *)
(***************************************************************************)
Part(n, kind, i) ==
  [ datagram |-> n, protocol |-> kind.protocol, part |-> i, parts |-> kind.parts,
    copies |-> kind.copies ]

Frame(ethertype, p) == [ protocol |-> ethertype, payload |-> p ]

NewFrame(kind, i) ==
  LET n == begun + 1
  IN  /\ begun < MaxDatagrams
      /\ begun' = n
      /\ missing' = missing \cup { Frame(kind.ethertype, Part(n, kind, j)) :
                                     j \in i + 1 .. kind.parts }

(* The MAC of a node that is down ignores frames.                          *)
FrameArrives(f) ==
  /\ IF up THEN Encap!ProcessPacketFromMac(f) ELSE UNCHANGED <<encapVars, error>>
  /\ tied' = (error' # error /\ encapTimer = "due")
  /\ UNCHANGED <<ipv4Vars, udpVars, up, handed, disturbances>>

NewDatagramArrives(kind, i) ==
  /\ Running
  /\ NewFrame(kind, i)
  /\ FrameArrives(Frame(kind.ethertype, Part(begun + 1, kind, i)))

FragmentArrives(f) ==
  /\ Running
  /\ missing' = { g \in missing :
                   g.payload.datagram = f.payload.datagram => g.payload.part > f.payload.part }
  /\ UNCHANGED begun
  /\ FrameArrives(f)

-----------------------------------------------------------------------------
(***************************************************************************)
(* The hand-overs between the modules.                                     *)
(***************************************************************************)
(* Only IPv4 is modelled above the Ethernet encapsulation.                 *)
ForIpv4(x) == x.to = "protocol" /\ x.packet.protocol = "ipv4"

(* A module that is down drops what reaches it in the instant of the stop; *)
(* what reaches it later ends the simulation.                              *)
HandleMessageWhenDown == ~up /\ error' \in {error, "message when down"}

EncapToIpv4 ==
  /\ Running
  /\ Encap!TransmissionEnds
  /\ \/ up /\ ForIpv4(encapChannel) /\ Ip!ReassembleAndDeliver(encapChannel.packet.payload)
     \/ up /\ ~ForIpv4(encapChannel) /\ UNCHANGED <<ipv4Vars, error>>
     \/ HandleMessageWhenDown /\ UNCHANGED ipv4Vars
  /\ UNCHANGED <<udpVars, up, netVars, handed, tied, disturbances>>

(* What Udp::processUDPPacket sends up: one payload for each socket.       *)
Payloads(p) == [ i \in 1 .. p.copies |-> [datagram |-> p.datagram, copy |-> i] ]

ForUdp(x) == x.to = "protocol" /\ x.packet.copies > 0

Ipv4ToUdp ==
  /\ Running
  /\ Ip!TransmissionEnds
  /\ \/ up /\ ForUdp(ipv4Channel) /\ Udp!Insert(Payloads(ipv4Channel.packet))
     \/ up /\ ~ForUdp(ipv4Channel) /\ UNCHANGED <<udpVars, error>>
     \/ HandleMessageWhenDown /\ UNCHANGED udpVars
  /\ tied' = (error' # error /\ udpTimer = "due")
  /\ UNCHANGED <<encapVars, up, netVars, handed, disturbances>>

UdpToApp ==
  /\ Running
  /\ Udp!TransmissionEnds
  /\ \/ up /\ handed' = Append(handed, udpChannel) /\ UNCHANGED error
     \/ HandleMessageWhenDown /\ UNCHANGED handed
  /\ UNCHANGED <<encapVars, ipv4Vars, up, netVars, tied, disturbances>>

-----------------------------------------------------------------------------
(***************************************************************************)
(* Timers run, buffers grow old.                                           *)
(***************************************************************************)
EncapTimerRuns ==
  /\ Running /\ up /\ Encap!HandleEndTxPeriod
  /\ UNCHANGED <<ipv4Vars, udpVars, up, netVars, handed, tied, disturbances>>

Ipv4TimerRuns ==
  /\ Running /\ up /\ Ip!HandleEndUpperTxPeriod
  /\ UNCHANGED <<encapVars, udpVars, up, netVars, handed, tied, disturbances>>

UdpTimerRuns ==
  /\ Running /\ up /\ Udp!HandleEndTxPeriod
  /\ UNCHANGED <<encapVars, ipv4Vars, up, netVars, handed, tied, disturbances>>

BuffersGrowOld ==
  /\ Running
  /\ Disturb("ageing")
  /\ Ip!BufferAges
  /\ UNCHANGED <<encapVars, udpVars, up, netVars, handed, tied>>

-----------------------------------------------------------------------------
BindEthernetSocket(s) ==
  /\ Running /\ up
  /\ Disturb("bind")
  /\ \E protocol \in {"any", "unknown"}, steal \in BOOLEAN : Encap!Bind(s, protocol, steal)
  /\ UNCHANGED <<ipv4Vars, udpVars, up, netVars, handed, tied>>

CloseEthernetSocket(s) ==
  /\ Running /\ up /\ Encap!Close(s)
  /\ UNCHANGED <<ipv4Vars, udpVars, up, netVars, handed, tied, disturbances>>

BindRawSocket(s) ==
  /\ Running /\ up
  /\ Disturb("bind")
  /\ \E protocol \in {"udp", "other"} : Ip!Bind(s, protocol)
  /\ UNCHANGED <<encapVars, udpVars, up, netVars, handed, tied>>

CloseRawSocket(s) ==
  /\ Running /\ up /\ Ip!Close(s)
  /\ UNCHANGED <<encapVars, udpVars, up, netVars, handed, tied, disturbances>>

(* Timers and queues outlive the stop, and so do the Ethernet sockets.     *)
NodeStops ==
  /\ Running /\ up
  /\ Disturb("stop")
  /\ up' = FALSE
  /\ Ip!Stop
  /\ UNCHANGED <<encapVars, udpVars, error, netVars, handed, tied>>

NodeStarts ==
  /\ Running /\ ~up
  /\ up' = TRUE
  /\ UNCHANGED <<encapVars, ipv4Vars, udpVars, error, netVars, handed, tied, disturbances>>

TimerWhenDown ==
  /\ Running /\ ~up
  /\ "due" \in {encapTimer, ipv4Timer, udpTimer}
  /\ error' = "self message when down"
  /\ UNCHANGED <<encapVars, ipv4Vars, udpVars, up, netVars, handed, tied, disturbances>>

Init ==
  /\ Encap!Init /\ Ip!Init /\ Udp!Init
  /\ up = TRUE /\ error = "none"
  /\ begun = 0 /\ missing = {}
  /\ handed = <<>> /\ tied = FALSE
  /\ disturbances = <<>>

(* The events the simulator has scheduled.                                 *)
ScheduledEvent ==
  \/ EncapToIpv4 \/ Ipv4ToUdp \/ UdpToApp
  \/ EncapTimerRuns \/ Ipv4TimerRuns \/ UdpTimerRuns
  \/ TimerWhenDown

Next ==
  \/ \E kind \in Kinds : \E i \in 1 .. kind.parts : NewDatagramArrives(kind, i)
  \/ \E f \in missing : FragmentArrives(f)
  \/ ScheduledEvent
  \/ BuffersGrowOld
  \/ \E s \in EthernetSockets : BindEthernetSocket(s) \/ CloseEthernetSocket(s)
  \/ \E s \in RawSockets : BindRawSocket(s) \/ CloseRawSocket(s)
  \/ NodeStops \/ NodeStarts

Spec == Init /\ [][Next]_vars

(* The simulation does not end while an event is scheduled.                *)
FairSpec == Spec /\ WF_vars(ScheduledEvent)

-----------------------------------------------------------------------------
(* A timer is scheduled only for a transmission; errors are known.         *)
TypeOK ==
  /\ {encapTimer, ipv4Timer, udpTimer} \subseteq {"idle", "scheduled", "due"}
  /\ Running => /\ encapTimer = "scheduled" => encapChannel # NoPacket
                /\ ipv4Timer = "scheduled" => ipv4Channel # NoPacket
                /\ udpTimer = "scheduled" <=> udpChannel # NoPacket
  /\ error \in {"none", "already scheduled", "channel busy", "message when down",
               "self message when down"}
  /\ begun \in 0 .. MaxDatagrams
  /\ old \subseteq { f.datagram : f \in bufs }

(* scheduleAt finds a timer scheduled only where a packet arrives in the   *)
(* instant at which the transmission before it ends: everywhere else       *)
(* isBusy and the timer agree.                                             *)
DoubleScheduleOnlyAtTie == error = "already scheduled" => tied

NoSocketBound == "bind" \notin ToSet(disturbances)

(* A queue that is not empty has a timer that will serve it, as long as    *)
(* nothing went up without a timer: a copy for a socket, or a datagram     *)
(* whose protocol is not connected.                                        *)
QueuesAreServed ==
  Running =>
    /\ udpQueue # <<>> => udpTimer # "idle"
    /\ NoSocketBound /\ encapQueue # <<>> => encapTimer # "idle"
    /\ NoSocketBound /\ unreachable = {} /\ ipv4Queue # <<>> => ipv4Timer # "idle"

(* What Udp has for the application and Ipv4 for UDP, first what is due    *)
(* first.                                                                  *)
On(channel) == IF channel = NoPacket THEN <<>> ELSE <<channel>>

OfChannel(x) == IF x # NoPacket /\ ForUdp(x) THEN Payloads(x.packet) ELSE <<>>
OfQueued(p)  == IF p.protocol = "udp" THEN Payloads(p) ELSE <<>>

Path == On(udpChannel) \o udpQueue
          \o OfChannel(ipv4Channel)
          \o FlattenSeq([ i \in DOMAIN ipv4Queue |-> OfQueued(ipv4Queue[i]) ])

(* Through two queues, two channels and their timers, with ties, copies    *)
(* for sockets and restarts of the node, payloads reach the application in *)
(* the order in which Ipv4 completed their datagrams, each of them once.   *)
PathAsPipe == INSTANCE FifoPipe WITH pipe <- Path, handed <- handed, failed <- ~Running

PathIsFifo == PathAsPipe!Spec

(* A datagram that was given up, its source told by ICMP that its time is  *)
(* exceeded, is never handed to the application by a late fragment.        *)
GivenUpIsNotHanded ==
  \A i \in DOMAIN handed : handed[i].datagram \notin timeExceeded

Stalled == ipv4Queue # <<>> /\ ipv4Timer = "idle" /\ ipv4Channel = NoPacket

(* When no more frames come, what Ipv4 has completed for UDP has all left  *)
(* for the application in the end, unless the queue of Ipv4 stalls behind  *)
(* something that had no timer.                                            *)
PathDrains == []<>(Path = <<>> \/ Stalled \/ ~Running)

=============================================================================
