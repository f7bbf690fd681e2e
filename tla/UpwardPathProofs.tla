-------------------------- MODULE UpwardPathProofs --------------------------
(***************************************************************************)
(* On the way up, scheduleAt meets a scheduled timer only at a tie, and a  *)
(* queue that is not empty has a timer to serve it, for any kinds of       *)
(* datagrams, any number of sockets and any bounds.  The inductive         *)
(* invariant has one part for each of the three queues and one for the     *)
(* rest; a step of one module leaves the parts of the others alone.        *)
(* The second invariant follows the fragments of a datagram from the frame *)
(* to the application: none is handed on that Ipv4 has given up.           *)
(* Last, the way from Ipv4 to the application is shown to be a FIFO pipe.  *)
(***************************************************************************)
EXTENDS UpwardPath, SequenceTheorems, FiniteSetTheorems, WellFoundedInduction, TLAPS

TimerStates == {"idle", "scheduled", "due"}

(* The queue of EthernetEncapsulation: a scheduled timer belongs to a      *)
(* transmission, and as long as no socket has been bound every             *)
(* transmission has its timer.                                             *)
EncapInv ==
  /\ encapQueue \in Seq(Frames)
  /\ encapChannel \in Carried(Frames) \cup {NoPacket}
  /\ encapTimer \in TimerStates
  /\ encapSockets = [s \in EthernetSockets |-> encapSockets[s]]
  /\ NoSocketBound => \A s \in EthernetSockets : encapSockets[s] = NoSocket
  /\ Running => /\ encapTimer = "scheduled" => encapChannel # NoPacket
                /\ NoSocketBound =>
                     /\ encapChannel # NoPacket => encapTimer = "scheduled"
                     /\ encapQueue # <<>> => encapTimer # "idle"

(* The queue of Ipv4, which also stalls behind a datagram that has no      *)
(* protocol above.                                                         *)
Ipv4Inv ==
  /\ bufs \subseteq Parts /\ old \subseteq { f.datagram : f \in bufs }
  /\ ipv4Queue \in Seq(Parts)
  /\ ipv4Channel \in Carried(Parts) \cup {NoPacket}
  /\ ipv4Timer \in TimerStates
  /\ ipv4Sockets = [s \in RawSockets |-> ipv4Sockets[s]]
  /\ NoSocketBound => \A s \in RawSockets : ipv4Sockets[s] = NoSocket
  /\ Running => /\ ipv4Timer = "scheduled" => ipv4Channel # NoPacket
                /\ NoSocketBound =>
                     /\ ipv4Channel # NoPacket => ipv4Timer = "scheduled"
                     /\ unreachable = {} /\ ipv4Queue # <<>> => ipv4Timer # "idle"

(* The queue of Udp, in which timer and transmission always agree.         *)
UdpInv ==
  /\ udpQueue \in Seq(ForApp)
  /\ udpChannel \in ForApp \cup {NoPacket}
  /\ udpTimer \in TimerStates
  /\ Running => /\ udpTimer = "scheduled" <=> udpChannel # NoPacket
                /\ udpQueue # <<>> => udpTimer # "idle"

RestInv ==
  /\ error \in {"none", "already scheduled", "channel busy", "message when down",
               "self message when down"}
  /\ DoubleScheduleOnlyAtTie
  /\ begun \in 0 .. MaxDatagrams
  /\ missing \subseteq Frames
  /\ up \in BOOLEAN
  /\ disturbances \in Seq({"ageing", "bind", "stop"})

UpwardInv == EncapInv /\ Ipv4Inv /\ UdpInv /\ RestInv

-----------------------------------------------------------------------------
(* What is passed up is no null pointer.                                   *)
LEMMA NotNull ==
  /\ \A p \in Frames : /\ [packet |-> p, to |-> "protocol"] \in Carried(Frames) \ {NoPacket}
                       /\ [packet |-> p, to |-> "socket"] \in Carried(Frames) \ {NoPacket}
  /\ \A p \in Parts : /\ [packet |-> p, to |-> "protocol"] \in Carried(Parts) \ {NoPacket}
                      /\ [packet |-> p, to |-> "socket"] \in Carried(Parts) \ {NoPacket}
  /\ NoPacket \notin ForApp
BY UpwardAssumption DEF Carried

(* Cardinality as the instanced modules know it.                           *)
LEMMA SameCardinality ==
  ASSUME NEW S
  PROVE  Encap!Cardinality(S) = Cardinality(S) /\ Ip!Cardinality(S) = Cardinality(S)
<1>1. Encap!Cardinality(S) = Cardinality(S)
  BY DEF Encap!Cardinality, Cardinality
<1>2. Ip!Cardinality(S) = Cardinality(S)
  BY DEF Ip!Cardinality, Cardinality
<1> QED
  BY <1>1, <1>2

(* A queue to which something is added and whose head is taken.            *)
LEMMA QueueFacts ==
  ASSUME NEW S, NEW q \in Seq(S), NEW e \in S
  PROVE  /\ Append(q, e) \in Seq(S) /\ Append(q, e) # <<>>
         /\ Tail(Append(q, e)) \in Seq(S) /\ Head(Append(q, e)) \in S
         /\ q = <<>> => Tail(Append(q, e)) = <<>>
         /\ q # <<>> => Tail(q) \in Seq(S) /\ Head(q) \in S
<1>1. Append(q, e) \in Seq(S) /\ Append(q, e) # <<>>
  BY AppendProperties
<1>2. Tail(Append(q, e)) \in Seq(S) /\ Head(Append(q, e)) \in S
  BY <1>1, HeadTailProperties
<1>3. q = <<>> => Tail(Append(q, e)) = <<>>
  BY HeadTailAppend
<1>4. q # <<>> => Tail(q) \in Seq(S) /\ Head(q) \in S
  BY HeadTailProperties
<1> QED
  BY <1>1, <1>2, <1>3, <1>4

(* A disturbance that is no bind leaves NoSocketBound as it was, and none  *)
(* makes it true again.                                                    *)
LEMMA DisturbFacts ==
  ASSUME RestInv, NEW what \in {"ageing", "bind", "stop"}, Disturb(what)
  PROVE  /\ disturbances' \in Seq({"ageing", "bind", "stop"})
         /\ NoSocketBound' => NoSocketBound
         /\ what = "bind" => ~NoSocketBound'
<1>1. disturbances' = Append(disturbances, what)
  BY DEF Disturb
<1>2. disturbances \in Seq({"ageing", "bind", "stop"})
  BY DEF RestInv
<1>3. /\ disturbances' \in Seq({"ageing", "bind", "stop"})
      /\ \A i \in DOMAIN disturbances :
           i \in DOMAIN disturbances' /\ disturbances'[i] = disturbances[i]
      /\ Len(disturbances) + 1 \in DOMAIN disturbances'
      /\ disturbances'[Len(disturbances) + 1] = what
  BY <1>1, <1>2
<1> QED
  BY <1>3 DEF NoSocketBound, ToSet

(* No socket has been bound by a step that disturbs nothing.               *)
LEMMA SameDisturbances ==
  ASSUME UNCHANGED disturbances
  PROVE  NoSocketBound' <=> NoSocketBound
BY DEF NoSocketBound, ToSet

(* A step that leaves the variables of a queue alone preserves its part of *)
(* the invariant: the step began without an error.                         *)
LEMMA EncapUnchanged ==
  ASSUME EncapInv, Running, UNCHANGED encapVars, NoSocketBound' => NoSocketBound
  PROVE  EncapInv'
BY DEF EncapInv, encapVars, Running

(* The same for the queue of Ipv4.                                         *)
LEMMA Ipv4Unchanged ==
  ASSUME Ipv4Inv, Running, UNCHANGED ipv4Vars, NoSocketBound' => NoSocketBound
  PROVE  Ipv4Inv'
BY DEF Ipv4Inv, ipv4Vars, Running

(* The same for the queue of Udp.                                          *)
LEMMA UdpUnchanged ==
  ASSUME UdpInv, Running, UNCHANGED udpVars
  PROVE  UdpInv'
BY DEF UdpInv, udpVars, Running

-----------------------------------------------------------------------------
(***************************************************************************)
(* EthernetEncapsulation.                                                  *)
(***************************************************************************)
(* Without sockets a frame has no copies.                                  *)
LEMMA NoCopies ==
  ASSUME EncapInv, NoSocketBound, NEW f
  PROVE  Cardinality(Encap!Matching(f)) = 0
<1>1. Encap!Matching(f) = {}
  BY DEF EncapInv, Encap!Matching
<1> QED
  BY <1>1, FS_EmptySet

(* A frame from the MAC: scheduleAt meets a timer only if it is due.       *)
LEMMA FrameFromMac ==
  ASSUME EncapInv, Running, NEW f \in Frames, Encap!ProcessPacketFromMac(f),
         UNCHANGED disturbances
  PROVE  /\ EncapInv'
         /\ error' \in {"none", "already scheduled", "channel busy"}
         /\ error' = "already scheduled" => encapTimer = "due"
<1> DEFINE copies == Cardinality(Encap!Matching(f))
<1>0. (NoSocketBound' <=> NoSocketBound) /\ encapSockets' = encapSockets
  BY SameDisturbances DEF Encap!ProcessPacketFromMac
<1>1. CASE Encap!SendOnBusyChannel
  BY <1>0, <1>1 DEF Encap!SendOnBusyChannel, EncapInv, Running
<1>2. CASE copies = 1 /\ ~Encap!Busy /\ Encap!CopyToSocket(f)
  <2>1. ~NoSocketBound
    BY <1>2, NoCopies
  <2>2. encapChannel' \in Carried(Frames) \ {NoPacket}
    BY <1>2, NotNull DEF Encap!CopyToSocket, Encap!ToSocket
  <2>3. encapQueue' \in Seq(Frames)
    BY <1>2, QueueFacts DEF Encap!CopyToSocket, EncapInv
  <2>4. encapTimer' = encapTimer /\ error' = error
    BY <1>2 DEF Encap!CopyToSocket
  <2> QED
    BY <1>0, <2>1, <2>2, <2>3, <2>4 DEF EncapInv, Running
<1>3. CASE Encap!Enqueue(f)
  <2>1. CASE Encap!Busy
    <3>1. encapQueue' \in Seq(Frames) /\ UNCHANGED <<encapChannel, encapTimer, error>>
      BY <1>3, <2>1, QueueFacts DEF Encap!Enqueue, EncapInv
    <3> QED
      BY <1>0, <2>1, <3>1 DEF EncapInv, Running, Encap!Busy
  <2>2. CASE ~Encap!Busy
    <3>1. /\ encapQueue' = Tail(Append(encapQueue, f))
          /\ Encap!SendPacket(Head(Append(encapQueue, f)), encapTimer)
      BY <1>3, <2>2 DEF Encap!Enqueue
    <3>2. encapQueue' \in Seq(Frames) /\ Head(Append(encapQueue, f)) \in Frames
      BY <3>1, QueueFacts DEF EncapInv
    <3>3. encapChannel' \in Carried(Frames) \ {NoPacket} /\ encapTimer' = "scheduled"
      BY <3>1, <3>2, NotNull DEF Encap!SendPacket, Encap!ToProtocol
    <3>4. error' = IF encapTimer = "idle" THEN error ELSE "already scheduled"
      BY <3>1 DEF Encap!SendPacket
    <3>5. encapTimer # "scheduled"
      BY <2>2 DEF EncapInv, Encap!Busy
    <3>6. EncapInv'
      BY <1>0, <3>2, <3>3 DEF EncapInv, TimerStates
    <3> QED
      BY <3>4, <3>5, <3>6 DEF EncapInv, TimerStates, Running
  <2> QED
    BY <2>1, <2>2
<1>4. CASE UNCHANGED <<encapQueue, encapChannel, encapTimer, error>>
  BY <1>0, <1>4 DEF EncapInv, Running
<1> QED
  BY <1>1, <1>2, <1>3, <1>4, SameCardinality DEF Encap!ProcessPacketFromMac

(* endTxTimer runs.                                                        *)
LEMMA EncapTimer ==
  ASSUME EncapInv, Running, Encap!HandleEndTxPeriod, UNCHANGED disturbances
  PROVE  EncapInv' /\ error' \in {"none", "channel busy"}
<1>0. (NoSocketBound' <=> NoSocketBound) /\ encapSockets' = encapSockets /\ encapTimer = "due"
  BY SameDisturbances DEF Encap!HandleEndTxPeriod
<1>1. CASE encapQueue = <<>>
  BY <1>0, <1>1 DEF Encap!HandleEndTxPeriod, EncapInv, Running, TimerStates
<1>2. CASE encapQueue # <<>> /\ Encap!Busy
  BY <1>0, <1>2 DEF Encap!HandleEndTxPeriod, Encap!SendOnBusyChannel, EncapInv, Running
<1>3. CASE encapQueue # <<>> /\ ~Encap!Busy
  <2>1. encapQueue' = Tail(encapQueue) /\ Encap!SendPacket(Head(encapQueue), "idle")
    BY <1>3 DEF Encap!HandleEndTxPeriod
  <2>2. encapQueue' \in Seq(Frames) /\ Head(encapQueue) \in Frames
    BY <1>3, <2>1, HeadTailProperties DEF EncapInv
  <2>3. /\ encapChannel' \in Carried(Frames) \ {NoPacket} /\ encapTimer' = "scheduled"
        /\ error' = error
    BY <2>1, <2>2, NotNull DEF Encap!SendPacket, Encap!ToProtocol
  <2> QED
    BY <1>0, <2>2, <2>3 DEF EncapInv, TimerStates, Running
<1> QED
  BY <1>1, <1>2, <1>3

(* A transmission ends; what Ipv4 does with it may be an error.            *)
LEMMA EncapTransmissionEnds ==
  ASSUME EncapInv, Running, Encap!TransmissionEnds, UNCHANGED disturbances
  PROVE  EncapInv'
<1>1. (NoSocketBound' <=> NoSocketBound) /\ encapSockets' = encapSockets
  BY SameDisturbances DEF Encap!TransmissionEnds
<1> QED
  BY <1>1 DEF Encap!TransmissionEnds, Encap!Busy, EncapInv, TimerStates, Running

-----------------------------------------------------------------------------
(***************************************************************************)
(* Ipv4.                                                                   *)
(***************************************************************************)
LEMMA NoRawCopies ==
  ASSUME Ipv4Inv, NoSocketBound, NEW p \in Parts
  PROVE  Cardinality(Ip!Raw(p)) = 0
<1>1. p.protocol # NoSocket
  BY UpwardAssumption DEF Parts
<1>2. Ip!Raw(p) = {}
  BY <1>1 DEF Ipv4Inv, Ip!Raw
<1> QED
  BY <1>2, FS_EmptySet

(* A complete datagram leaves Ipv4 with timer t; Ipv4 uses rescheduleAt,   *)
(* so there is no second schedule.                                         *)
LEMMA PassedUp ==
  ASSUME Ipv4Inv, Running, NEW p \in Parts, NEW t \in {"idle", "due"},
         Ip!ReassembleAndDeliverFinish(p, t), UNCHANGED <<ipv4Sockets, disturbances>>
  PROVE  /\ error' \in {"none", "channel busy"}
         /\ ipv4Channel' \in Carried(Parts) \cup {NoPacket} /\ ipv4Timer' \in TimerStates
         /\ error' = "none" =>
              \/ ipv4Timer' = "scheduled" /\ ipv4Channel' # NoPacket
              \/ /\ NoSocketBound => unreachable' # {} /\ ipv4Channel' = ipv4Channel
                 /\ ipv4Timer' = t
<1> DEFINE connected == p.protocol \in {"udp"}
           copies == Cardinality(Ip!Raw(p)) + IF connected THEN 1 ELSE 0
<1>1. CASE copies = 0 /\ Ip!NotConnected(p, t)
  BY <1>1 DEF Ip!NotConnected, Ipv4Inv, TimerStates, Running
<1>2. CASE error' = "channel busy" /\ UNCHANGED <<ipv4Channel, ipv4Timer>>
  BY <1>2 DEF Ipv4Inv
<1>3. CASE Ip!PassUpToProtocol(p, t)
  BY <1>3, NotNull DEF Ip!PassUpToProtocol, Ip!ToProtocol, TimerStates, Running
<1>4. CASE copies = 1 /\ ~connected /\ Ip!PassUpToSocket(p, t)
  <2>1. ~NoSocketBound
    BY <1>4, NoRawCopies
  <2> QED
    BY <1>4, <2>1, NotNull DEF Ip!PassUpToSocket, Ip!ToSocket, TimerStates, Running
<1> QED
  BY <1>1, <1>2, <1>3, <1>4, SameCardinality DEF Ip!ReassembleAndDeliverFinish

(* A step of Ipv4 that leaves its part of the invariant to what PassedUp   *)
(* says.                                                                   *)
LEMMA AfterPassedUp ==
  ASSUME Ipv4Inv, Running, NEW p \in Parts, NEW t \in {"idle", "due"},
         ipv4Timer = "due" \/ (t = ipv4Timer /\ ~Ip!Busy),
         Ip!ReassembleAndDeliverFinish(p, t), UNCHANGED <<ipv4Sockets, disturbances>>,
         bufs' \subseteq Parts, old' \subseteq { f.datagram : f \in bufs' },
         ipv4Queue' \in Seq(Parts)
  PROVE  Ipv4Inv' /\ error' \in {"none", "channel busy"}
<1>1. /\ error' \in {"none", "channel busy"}
      /\ ipv4Channel' \in Carried(Parts) \cup {NoPacket} /\ ipv4Timer' \in TimerStates
      /\ error' = "none" =>
           \/ ipv4Timer' = "scheduled" /\ ipv4Channel' # NoPacket
           \/ /\ NoSocketBound => unreachable' # {} /\ ipv4Channel' = ipv4Channel
              /\ ipv4Timer' = t
  BY PassedUp
<1>2. NoSocketBound' <=> NoSocketBound
  BY SameDisturbances
<1>3. NoSocketBound => ipv4Channel = NoPacket
  BY DEF Ipv4Inv, Running, Ip!Busy
<1>4. Running' => /\ ipv4Timer' = "scheduled" => ipv4Channel' # NoPacket
                  /\ NoSocketBound =>
                       /\ ipv4Channel' # NoPacket => ipv4Timer' = "scheduled"
                       /\ unreachable' = {} => ipv4Timer' # "idle"
  BY <1>1, <1>3 DEF Running
<1> QED
  BY <1>1, <1>2, <1>4 DEF Ipv4Inv

(* Ipv4::handleEndUpperTxPeriod serves the queue or leaves it empty.       *)
LEMMA Ipv4Timer ==
  ASSUME Ipv4Inv, Running, Ip!HandleEndUpperTxPeriod, UNCHANGED disturbances
  PROVE  Ipv4Inv' /\ error' \in {"none", "channel busy"}
<1>0. ipv4Timer = "due" /\ UNCHANGED <<bufs, old, ipv4Sockets>>
  BY DEF Ip!HandleEndUpperTxPeriod, Ip!bufferVars
<1>1. CASE ipv4Queue = <<>>
  <2>1. ipv4Timer' = "idle" /\ UNCHANGED <<ipv4Queue, ipv4Channel, unreachable, error>>
    BY <1>1 DEF Ip!HandleEndUpperTxPeriod
  <2> QED
    BY <1>0, <1>1, <2>1, SameDisturbances DEF Ipv4Inv, Running, TimerStates
<1>2. CASE ipv4Queue # <<>>
  <2>1. ipv4Queue' = Tail(ipv4Queue) /\ Ip!ReassembleAndDeliverFinish(Head(ipv4Queue), "idle")
    BY <1>2 DEF Ip!HandleEndUpperTxPeriod
  <2>2. ipv4Queue' \in Seq(Parts) /\ Head(ipv4Queue) \in Parts
    BY <1>2, <2>1, HeadTailProperties DEF Ipv4Inv
  <2>3. bufs' \subseteq Parts /\ old' \subseteq { f.datagram : f \in bufs' }
    BY <1>0 DEF Ipv4Inv
  <2> QED
    BY <1>0, <2>1, <2>2, <2>3, AfterPassedUp
<1> QED
  BY <1>1, <1>2

(* Buffers hold parts, before and after a purge; those that are old exist. *)
LEMMA ReassemblyBuffers ==
  ASSUME Ipv4Inv, NEW p \in Parts, Ip!ReassembleAndDeliver(p)
  PROVE  bufs' \subseteq Parts /\ old' \subseteq { f.datagram : f \in bufs' }
<1>1. CASE Ip!Buffer(p)
  <2>1. bufs' = { f \in bufs : f.datagram \notin Ip!Purged } \cup {p}
    BY <1>1 DEF Ip!Buffer, Ip!Kept
  <2>2. old' = old \ (Ip!Purged \cup {p.datagram})
    BY <1>1 DEF Ip!Buffer
  <2> QED
    BY <2>1, <2>2 DEF Ipv4Inv
<1>2. CASE Ip!Deliver(p)
  <2>1. bufs' = IF Ip!IsFragment(p)
                  THEN { f \in bufs : f.datagram \notin Ip!Purged \cup {p.datagram} } ELSE bufs
    BY <1>2 DEF Ip!Deliver, Ip!Kept
  <2>2. old' = IF Ip!IsFragment(p) THEN old \ (Ip!Purged \cup {p.datagram}) ELSE old
    BY <1>2 DEF Ip!Deliver
  <2> QED
    BY <2>1, <2>2 DEF Ipv4Inv
<1> QED
  BY <1>1, <1>2 DEF Ip!ReassembleAndDeliver

(* What is put together belongs to the datagram of its last part.          *)
LEMMA ReassembledIsPart ==
  ASSUME NEW p \in Parts
  PROVE  /\ Ip!Reassembled(p) \in Parts
         /\ Ip!Reassembled(p).datagram = p.datagram
         /\ Ip!Reassembled(p).copies = p.copies
<1> DEFINE protocols == { k.protocol : k \in Kinds }
           numbers == Nat \ {0}
           records == [ datagram : numbers, protocol : protocols, part : numbers,
                        parts : numbers, copies : Nat ]
<1>0. Parts = records /\ 1 \in numbers
  BY DEF Parts
<1> HIDE DEF protocols, numbers
<1>1. ASSUME NEW q \in records
      PROVE  [q EXCEPT !.part = 1, !.parts = 1] \in records
  BY <1>0, <1>1
<1>2. ASSUME NEW q \in records
      PROVE  /\ [q EXCEPT !.part = 1, !.parts = 1].datagram = q.datagram
             /\ [q EXCEPT !.part = 1, !.parts = 1].copies = q.copies
  BY <1>2
<1> QED
  BY <1>0, <1>1, <1>2 DEF Ip!Reassembled

(* Ipv4::reassembleAndDeliver keeps the queue, buffers and timer in order. *)
LEMMA DatagramToIpv4 ==
  ASSUME Ipv4Inv, Running, NEW p \in Parts, Ip!ReassembleAndDeliver(p),
         UNCHANGED disturbances
  PROVE  Ipv4Inv' /\ error' \in {"none", "channel busy"}
<1>0. /\ bufs' \subseteq Parts /\ old' \subseteq { f.datagram : f \in bufs' }
      /\ ipv4Sockets' = ipv4Sockets
      /\ NoSocketBound' <=> NoSocketBound
  BY ReassemblyBuffers, SameDisturbances DEF Ip!ReassembleAndDeliver, Ip!Buffer, Ip!Deliver
<1>1. CASE Ip!Buffer(p)
  <2>1. UNCHANGED <<ipv4Queue, ipv4Channel, ipv4Timer, unreachable, error>>
    BY <1>1 DEF Ip!Buffer
  <2> QED
    BY <1>0, <2>1 DEF Ipv4Inv, Running
<1>2. CASE Ip!Deliver(p)
  <2> DEFINE d == Ip!Reassembled(p)
  <2>1. d \in Parts
    BY ReassembledIsPart
  <2>2. Ip!Enqueue(d)
    BY <1>2 DEF Ip!Deliver
  <2>3. CASE Ip!Busy
    <3>1. /\ ipv4Queue' = Append(ipv4Queue, d)
          /\ UNCHANGED <<ipv4Channel, ipv4Timer, unreachable, error>>
      BY <2>2, <2>3 DEF Ip!Enqueue
    <3>2. ipv4Queue' \in Seq(Parts)
      BY <2>1, <3>1, QueueFacts DEF Ipv4Inv
    <3> QED
      BY <1>0, <2>3, <3>1, <3>2 DEF Ipv4Inv, Running, Ip!Busy
  <2>4. CASE ~Ip!Busy
    <3>1. /\ ipv4Queue' = Tail(Append(ipv4Queue, d))
          /\ Ip!ReassembleAndDeliverFinish(Head(Append(ipv4Queue, d)), ipv4Timer)
      BY <2>2, <2>4 DEF Ip!Enqueue
    <3>2. ipv4Queue' \in Seq(Parts) /\ Head(Append(ipv4Queue, d)) \in Parts
      BY <2>1, <3>1, QueueFacts DEF Ipv4Inv
    <3>3. ipv4Timer \in {"idle", "due"}
      BY <2>4 DEF Ipv4Inv, Running, Ip!Busy, TimerStates
    <3> QED
      BY <1>0, <2>4, <3>1, <3>2, <3>3, AfterPassedUp
  <2> QED
    BY <2>3, <2>4
<1> QED
  BY <1>1, <1>2 DEF Ip!ReassembleAndDeliver

(* A transmission ends; what Udp does with it may be an error.             *)
LEMMA Ipv4TransmissionEnds ==
  ASSUME Ipv4Inv, Running, Ip!TransmissionEnds, UNCHANGED disturbances
  PROVE  Ipv4Inv'
<1>1. NoSocketBound' <=> NoSocketBound
  BY SameDisturbances
<1> QED
  BY <1>1 DEF Ip!TransmissionEnds, Ip!Busy, Ip!bufferVars, Ipv4Inv, TimerStates, Running

-----------------------------------------------------------------------------
(***************************************************************************)
(* Udp.                                                                    *)
(***************************************************************************)
LEMMA PayloadsToUdp ==
  ASSUME UdpInv, Running, NEW p \in Parts, p.copies > 0, Udp!Insert(Payloads(p))
  PROVE  /\ UdpInv'
         /\ error' \in {"none", "already scheduled"}
         /\ error' = "already scheduled" => udpTimer = "due"
<1> DEFINE all == udpQueue \o Payloads(p)
<1>1. Payloads(p) \in Seq(ForApp) /\ Len(Payloads(p)) > 0
  <2>1. /\ p.copies \in Nat /\ p.datagram \in Nat \ {0}
    BY DEF Parts
  <2>2. Payloads(p) \in [1 .. p.copies -> ForApp]
    BY <2>1 DEF Payloads, ForApp
  <2>3. Payloads(p) \in Seq(ForApp)
    BY <2>1, <2>2, SeqDef
  <2> QED
    BY <2>1, <2>2, <2>3
<1>2. all \in Seq(ForApp) /\ all # <<>>
  BY <1>1, ConcatProperties DEF UdpInv
<1>3. Tail(all) \in Seq(ForApp) /\ Head(all) \in ForApp
  BY <1>2, HeadTailProperties
<1>4. CASE Udp!Busy
  BY <1>2, <1>4 DEF Udp!Insert, Udp!Busy, UdpInv, Running
<1>5. CASE ~Udp!Busy
  BY <1>3, <1>5, NotNull DEF Udp!Insert, Udp!Busy, UdpInv, Running, TimerStates
<1> QED
  BY <1>4, <1>5

(* Udp::handleEndUpperTxPeriod serves the queue or leaves it empty.        *)
LEMMA UdpTimer ==
  ASSUME UdpInv, Running, Udp!HandleEndTxPeriod
  PROVE  UdpInv' /\ error' = error
<1>1. CASE udpQueue = <<>>
  BY <1>1 DEF Udp!HandleEndTxPeriod, UdpInv, Running, TimerStates
<1>2. CASE udpQueue # <<>>
  <2>1. Tail(udpQueue) \in Seq(ForApp) /\ Head(udpQueue) \in ForApp
    BY <1>2, HeadTailProperties DEF UdpInv
  <2> QED
    BY <1>2, <2>1, NotNull DEF Udp!HandleEndTxPeriod, UdpInv, Running, TimerStates
<1> QED
  BY <1>1, <1>2

(* The channel to the application becomes free, the timer due.             *)
LEMMA UdpTransmissionEnds ==
  ASSUME UdpInv, Running, Udp!TransmissionEnds
  PROVE  UdpInv'
BY DEF Udp!TransmissionEnds, Udp!Busy, UdpInv, TimerStates, Running

-----------------------------------------------------------------------------
(***************************************************************************)
(* The actions.                                                            *)
(***************************************************************************)
LEMMA InitUpward == Init => UpwardInv
<1> SUFFICES ASSUME Init
             PROVE  UpwardInv
  OBVIOUS
<1> USE DEF Init
<1>1. EncapInv
  BY DEF EncapInv, Encap!Init, TimerStates
<1>2. Ipv4Inv
  BY DEF Ipv4Inv, Ip!Init, TimerStates
<1>3. UdpInv
  BY DEF UdpInv, Udp!Init, TimerStates
<1>4. RestInv
  BY UpwardAssumption DEF RestInv, DoubleScheduleOnlyAtTie
<1> QED
  BY <1>1, <1>2, <1>3, <1>4 DEF UpwardInv

(* The fragments of a datagram are frames.                                 *)
LEMMA FrameIsFrame ==
  ASSUME NEW kind \in Kinds, NEW n \in Nat \ {0}, NEW i \in Nat \ {0}
  PROVE  Frame(kind.ethertype, Part(n, kind, i)) \in Frames
BY UpwardAssumption DEF Frame, Part, Frames, Parts

(* A frame that arrives: the error of a second schedule is one of a tie.   *)
LEMMA FrameStep ==
  ASSUME UpwardInv, Running, NEW f \in Frames, FrameArrives(f),
         begun' \in 0 .. MaxDatagrams, missing' \subseteq Frames
  PROVE  UpwardInv'
<1>0. UNCHANGED <<ipv4Vars, udpVars, up, handed, disturbances>>
  BY DEF FrameArrives
<1>1. Ipv4Inv' /\ UdpInv'
  BY <1>0, Ipv4Unchanged, UdpUnchanged, SameDisturbances DEF UpwardInv
<1>2. CASE up
  <2>1. Encap!ProcessPacketFromMac(f)
    BY <1>2 DEF FrameArrives
  <2>2. /\ EncapInv'
        /\ error' \in {"none", "already scheduled", "channel busy"}
        /\ error' = "already scheduled" => encapTimer = "due"
    BY <1>0, <2>1, FrameFromMac DEF UpwardInv
  <2>3. DoubleScheduleOnlyAtTie'
    BY <2>2 DEF FrameArrives, DoubleScheduleOnlyAtTie, Running
  <2> QED
    BY <1>0, <1>1, <2>2, <2>3 DEF UpwardInv, RestInv
<1>3. CASE ~up
  <2>1. UNCHANGED <<encapVars, error>>
    BY <1>3 DEF FrameArrives
  <2>2. EncapInv'
    BY <1>0, <2>1, EncapUnchanged, SameDisturbances DEF UpwardInv
  <2> QED
    BY <1>0, <1>1, <2>1, <2>2 DEF UpwardInv, RestInv, DoubleScheduleOnlyAtTie, Running
<1> QED
  BY <1>2, <1>3

(* The first fragment that arrives of a datagram.                          *)
LEMMA NewDatagramStep ==
  ASSUME UpwardInv, NEW kind \in Kinds, NEW i \in 1 .. kind.parts,
         NewDatagramArrives(kind, i)
  PROVE  UpwardInv'
<1>1. Running /\ NewFrame(kind, i) /\ FrameArrives(Frame(kind.ethertype, Part(begun + 1, kind, i)))
  BY DEF NewDatagramArrives
<1>2. begun \in Nat /\ kind.parts \in Nat /\ MaxDatagrams \in Nat
  <2>1. \A k \in Kinds : k.parts \in Nat
    BY UpwardAssumption
  <2>2. MaxDatagrams \in Nat /\ begun \in 0 .. MaxDatagrams
    BY UpwardAssumption DEF UpwardInv, RestInv
  <2> QED
    BY <2>1, <2>2
<1>3. begun' \in 0 .. MaxDatagrams
  BY <1>1, <1>2 DEF NewFrame
<1>4. \A j \in i .. kind.parts : Frame(kind.ethertype, Part(begun + 1, kind, j)) \in Frames
  BY <1>2, FrameIsFrame
<1>5. missing' \subseteq Frames
  <2>1. missing \subseteq Frames
    BY DEF UpwardInv, RestInv
  <2>2. \A j \in i + 1 .. kind.parts : j \in i .. kind.parts
    BY <1>2
  <2>3. missing' = missing \cup { Frame(kind.ethertype, Part(begun + 1, kind, j)) :
                                    j \in i + 1 .. kind.parts }
    BY <1>1 DEF NewFrame
  <2> QED
    BY <1>4, <2>1, <2>2, <2>3
<1> QED
  BY <1>1, <1>2, <1>3, <1>4, <1>5, FrameStep

(* A further fragment.                                                     *)
LEMMA FragmentStep ==
  ASSUME UpwardInv, NEW f \in missing, FragmentArrives(f)
  PROVE  UpwardInv'
BY FrameStep DEF FragmentArrives, UpwardInv, RestInv

(* A frame leaves the encapsulation and meets Ipv4 in the same step.       *)
LEMMA EncapToIpv4Step ==
  ASSUME UpwardInv, EncapToIpv4
  PROVE  UpwardInv'
<1>0. /\ Running /\ Encap!TransmissionEnds
      /\ UNCHANGED <<udpVars, up, netVars, handed, tied, disturbances>>
  BY DEF EncapToIpv4
<1>1. EncapInv' /\ UdpInv'
  BY <1>0, EncapTransmissionEnds, UdpUnchanged DEF UpwardInv
<1>2. Ipv4Inv' /\ error' \in {"none", "channel busy", "message when down"}
  <2>1. CASE ForIpv4(encapChannel) /\ Ip!ReassembleAndDeliver(encapChannel.packet.payload)
    <3>1. encapChannel \in Carried(Frames)
      BY <1>0 DEF UpwardInv, EncapInv, Encap!TransmissionEnds, Encap!Busy
    <3>2. encapChannel.packet.payload \in Parts
      BY <3>1 DEF Carried, Frames
    <3> QED
      BY <1>0, <2>1, <3>2, DatagramToIpv4 DEF UpwardInv
  <2>2. CASE UNCHANGED ipv4Vars /\ error' \in {error, "message when down"}
    BY <1>0, <2>2, Ipv4Unchanged, SameDisturbances DEF UpwardInv, Running
  <2> QED
    BY <2>1, <2>2 DEF EncapToIpv4, HandleMessageWhenDown
<1> QED
  BY <1>0, <1>1, <1>2 DEF UpwardInv, RestInv, netVars, DoubleScheduleOnlyAtTie, Running

(* What leaves the channel of Ipv4 meets Udp in the same step.             *)
LEMMA Ipv4ToUdpStep ==
  ASSUME UpwardInv, Ipv4ToUdp
  PROVE  UpwardInv'
<1>0. /\ Running /\ Ip!TransmissionEnds
      /\ UNCHANGED <<encapVars, up, netVars, handed, disturbances>>
      /\ tied' = (error' # error /\ udpTimer = "due")
  BY DEF Ipv4ToUdp
<1>1. EncapInv' /\ Ipv4Inv'
  BY <1>0, Ipv4TransmissionEnds, EncapUnchanged, SameDisturbances DEF UpwardInv
<1>2. /\ UdpInv' /\ error' \in {"none", "already scheduled", "message when down"}
      /\ error' = "already scheduled" => udpTimer = "due"
  <2>1. CASE ForUdp(ipv4Channel) /\ Udp!Insert(Payloads(ipv4Channel.packet))
    <3>1. ipv4Channel \in Carried(Parts)
      BY <1>0 DEF UpwardInv, Ipv4Inv, Ip!TransmissionEnds, Ip!Busy
    <3>2. ipv4Channel.packet \in Parts
      BY <3>1 DEF Carried
    <3> QED
      BY <1>0, <2>1, <3>2, PayloadsToUdp DEF UpwardInv, ForUdp
  <2>2. CASE UNCHANGED udpVars /\ error' \in {error, "message when down"}
    BY <1>0, <2>2, UdpUnchanged DEF UpwardInv, Running
  <2> QED
    BY <2>1, <2>2 DEF Ipv4ToUdp, HandleMessageWhenDown
<1> QED
  BY <1>0, <1>1, <1>2 DEF UpwardInv, RestInv, netVars, DoubleScheduleOnlyAtTie, Running

(* What leaves the channel of Udp is handed to the application.            *)
LEMMA UdpToAppStep ==
  ASSUME UpwardInv, UdpToApp
  PROVE  UpwardInv'
<1>0. /\ Running /\ Udp!TransmissionEnds
      /\ UNCHANGED <<encapVars, ipv4Vars, up, netVars, tied, disturbances>>
      /\ error' \in {error, "message when down"}
  BY DEF UdpToApp, HandleMessageWhenDown
<1>1. EncapInv' /\ Ipv4Inv' /\ UdpInv'
  BY <1>0, UdpTransmissionEnds, EncapUnchanged, Ipv4Unchanged, SameDisturbances DEF UpwardInv
<1> QED
  BY <1>0, <1>1 DEF UpwardInv, RestInv, netVars, DoubleScheduleOnlyAtTie, Running

(* The three timers, and one that fires in a node that is down.            *)
LEMMA TimerStep ==
  ASSUME UpwardInv, EncapTimerRuns \/ Ipv4TimerRuns \/ UdpTimerRuns \/ TimerWhenDown
  PROVE  UpwardInv'
<1>1. CASE EncapTimerRuns
  <2>1. EncapInv' /\ error' \in {"none", "channel busy"} /\ Ipv4Inv' /\ UdpInv'
    BY <1>1, EncapTimer, Ipv4Unchanged, UdpUnchanged, SameDisturbances
    DEF EncapTimerRuns, UpwardInv
  <2> QED
    BY <1>1, <2>1
    DEF EncapTimerRuns, UpwardInv, RestInv, netVars, DoubleScheduleOnlyAtTie
<1>2. CASE Ipv4TimerRuns
  <2>1. Ipv4Inv' /\ error' \in {"none", "channel busy"} /\ EncapInv' /\ UdpInv'
    BY <1>2, Ipv4Timer, EncapUnchanged, UdpUnchanged, SameDisturbances
    DEF Ipv4TimerRuns, UpwardInv
  <2> QED
    BY <1>2, <2>1
    DEF Ipv4TimerRuns, UpwardInv, RestInv, netVars, DoubleScheduleOnlyAtTie
<1>3. CASE UdpTimerRuns
  <2>1. UdpInv' /\ error' = error /\ EncapInv' /\ Ipv4Inv'
    BY <1>3, UdpTimer, EncapUnchanged, Ipv4Unchanged, SameDisturbances
    DEF UdpTimerRuns, UpwardInv
  <2> QED
    BY <1>3, <2>1
    DEF UdpTimerRuns, UpwardInv, RestInv, netVars, DoubleScheduleOnlyAtTie
<1>4. CASE TimerWhenDown
  <2>1. UdpInv' /\ EncapInv' /\ Ipv4Inv'
    BY <1>4, UdpUnchanged, EncapUnchanged, Ipv4Unchanged, SameDisturbances
    DEF TimerWhenDown, UpwardInv
  <2> QED
    BY <1>4, <2>1
    DEF TimerWhenDown, UpwardInv, RestInv, netVars, DoubleScheduleOnlyAtTie
<1> QED
  BY <1>1, <1>2, <1>3, <1>4

(* Ageing buffers, stops and starts.                                       *)
LEMMA DisturbanceStep ==
  ASSUME UpwardInv, BuffersGrowOld \/ NodeStops \/ NodeStarts
  PROVE  UpwardInv'
<1>1. CASE BuffersGrowOld
  <2>1. /\ Running /\ Disturb("ageing") /\ UNCHANGED <<encapVars, udpVars, up, netVars, handed, tied>>
        /\ UNCHANGED <<bufs, ipv4Queue, ipv4Channel, ipv4Timer, ipv4Sockets, unreachable, error>>
        /\ \E f \in bufs : old' = old \cup {f.datagram}
    BY <1>1 DEF BuffersGrowOld, Ip!BufferAges
  <2>2. disturbances' \in Seq({"ageing", "bind", "stop"}) /\ (NoSocketBound' => NoSocketBound)
    BY <2>1, DisturbFacts DEF UpwardInv
  <2>3. EncapInv' /\ UdpInv'
    BY <2>1, <2>2, EncapUnchanged, UdpUnchanged DEF UpwardInv
  <2>4. Ipv4Inv'
    BY <2>1, <2>2 DEF UpwardInv, Ipv4Inv, Running
  <2> QED
    BY <2>1, <2>2, <2>3, <2>4 DEF UpwardInv, RestInv, netVars, DoubleScheduleOnlyAtTie
<1>2. CASE NodeStops
  <2>1. /\ Running /\ Disturb("stop") /\ up' = FALSE
        /\ UNCHANGED <<encapVars, udpVars, error, netVars, handed, tied>>
        /\ UNCHANGED <<ipv4Queue, ipv4Channel, ipv4Timer, unreachable>>
        /\ bufs' = {} /\ old' = {} /\ ipv4Sockets' = [s \in RawSockets |-> NoSocket]
    BY <1>2 DEF NodeStops, Ip!Stop
  <2>2. disturbances' \in Seq({"ageing", "bind", "stop"}) /\ (NoSocketBound' => NoSocketBound)
    BY <2>1, DisturbFacts DEF UpwardInv
  <2>3. EncapInv' /\ UdpInv'
    BY <2>1, <2>2, EncapUnchanged, UdpUnchanged DEF UpwardInv
  <2>4. Ipv4Inv'
    BY <2>1, <2>2 DEF UpwardInv, Ipv4Inv, Running
  <2> QED
    BY <2>1, <2>2, <2>3, <2>4 DEF UpwardInv, RestInv, netVars, DoubleScheduleOnlyAtTie
<1>3. CASE NodeStarts
  <2>1. EncapInv' /\ Ipv4Inv' /\ UdpInv'
    BY <1>3, EncapUnchanged, Ipv4Unchanged, UdpUnchanged, SameDisturbances
    DEF NodeStarts, UpwardInv
  <2> QED
    BY <1>3, <2>1 DEF NodeStarts, UpwardInv, RestInv, netVars, DoubleScheduleOnlyAtTie
<1> QED
  BY <1>1, <1>2, <1>3

(* Sockets of the encapsulation come and go.                               *)
LEMMA EthernetSocketStep ==
  ASSUME UpwardInv, NEW s \in EthernetSockets, BindEthernetSocket(s) \/ CloseEthernetSocket(s)
  PROVE  UpwardInv'
<1>1. CASE BindEthernetSocket(s)
  <2>1. PICK protocol \in {"any", "unknown"}, steal \in BOOLEAN : Encap!Bind(s, protocol, steal)
    BY <1>1 DEF BindEthernetSocket
  <2>2. /\ Running /\ Disturb("bind") /\ UNCHANGED <<ipv4Vars, udpVars, up, netVars, handed, tied>>
        /\ UNCHANGED <<encapQueue, encapChannel, encapTimer, error>>
        /\ encapSockets' = [encapSockets EXCEPT ![s] = [protocol |-> protocol, steal |-> steal]]
    BY <1>1, <2>1 DEF BindEthernetSocket, Encap!Bind
  <2>3. disturbances' \in Seq({"ageing", "bind", "stop"}) /\ ~NoSocketBound'
    BY <2>2, DisturbFacts DEF UpwardInv
  <2>4. Ipv4Inv' /\ UdpInv'
    BY <2>2, <2>3, Ipv4Unchanged, UdpUnchanged DEF UpwardInv
  <2>5. EncapInv'
    BY <2>2, <2>3 DEF UpwardInv, EncapInv, Running
  <2> QED
    BY <2>2, <2>3, <2>4, <2>5 DEF UpwardInv, RestInv, netVars, DoubleScheduleOnlyAtTie
<1>2. CASE CloseEthernetSocket(s)
  <2>1. /\ Running /\ UNCHANGED <<ipv4Vars, udpVars, up, netVars, handed, tied, disturbances>>
        /\ UNCHANGED <<encapQueue, encapChannel, encapTimer, error>>
        /\ encapSockets' = [encapSockets EXCEPT ![s] = NoSocket]
    BY <1>2 DEF CloseEthernetSocket, Encap!Close
  <2>2. Ipv4Inv' /\ UdpInv'
    BY <2>1, Ipv4Unchanged, UdpUnchanged, SameDisturbances DEF UpwardInv
  <2>3. EncapInv'
    BY <2>1, SameDisturbances DEF UpwardInv, EncapInv, Running
  <2> QED
    BY <2>1, <2>2, <2>3 DEF UpwardInv, RestInv, netVars, DoubleScheduleOnlyAtTie
<1> QED
  BY <1>1, <1>2

(* Sockets of Ipv4 come and go.                                            *)
LEMMA RawSocketStep ==
  ASSUME UpwardInv, NEW s \in RawSockets, BindRawSocket(s) \/ CloseRawSocket(s)
  PROVE  UpwardInv'
<1>1. CASE BindRawSocket(s)
  <2>1. PICK protocol \in {"udp", "other"} : Ip!Bind(s, protocol)
    BY <1>1 DEF BindRawSocket
  <2>2. /\ Running /\ Disturb("bind") /\ UNCHANGED <<encapVars, udpVars, up, netVars, handed, tied>>
        /\ UNCHANGED <<bufs, old, ipv4Queue, ipv4Channel, ipv4Timer, unreachable, error>>
        /\ ipv4Sockets' = [ipv4Sockets EXCEPT ![s] = protocol]
    BY <1>1, <2>1 DEF BindRawSocket, Ip!Bind, Ip!bufferVars
  <2>3. disturbances' \in Seq({"ageing", "bind", "stop"}) /\ ~NoSocketBound'
    BY <2>2, DisturbFacts DEF UpwardInv
  <2>4. EncapInv' /\ UdpInv'
    BY <2>2, <2>3, EncapUnchanged, UdpUnchanged DEF UpwardInv
  <2>5. Ipv4Inv'
    BY <2>2, <2>3 DEF UpwardInv, Ipv4Inv, Running
  <2> QED
    BY <2>2, <2>3, <2>4, <2>5 DEF UpwardInv, RestInv, netVars, DoubleScheduleOnlyAtTie
<1>2. CASE CloseRawSocket(s)
  <2>1. /\ Running /\ UNCHANGED <<encapVars, udpVars, up, netVars, handed, tied, disturbances>>
        /\ UNCHANGED <<bufs, old, ipv4Queue, ipv4Channel, ipv4Timer, unreachable, error>>
        /\ ipv4Sockets' = [ipv4Sockets EXCEPT ![s] = NoSocket]
    BY <1>2 DEF CloseRawSocket, Ip!Close, Ip!bufferVars
  <2>2. EncapInv' /\ UdpInv'
    BY <2>1, EncapUnchanged, UdpUnchanged, SameDisturbances DEF UpwardInv
  <2>3. Ipv4Inv'
    BY <2>1, SameDisturbances DEF UpwardInv, Ipv4Inv, Running
  <2> QED
    BY <2>1, <2>2, <2>3 DEF UpwardInv, RestInv, netVars, DoubleScheduleOnlyAtTie
<1> QED
  BY <1>1, <1>2

(* Each action keeps the parts of the invariant.                           *)
LEMMA NextUpward == UpwardInv /\ [Next]_vars => UpwardInv'
<1> SUFFICES ASSUME UpwardInv, [Next]_vars
             PROVE  UpwardInv'
  OBVIOUS
<1>1. ASSUME NEW kind \in Kinds, NEW i \in 1 .. kind.parts, NewDatagramArrives(kind, i)
      PROVE  UpwardInv'
  BY <1>1, NewDatagramStep
<1>2. ASSUME NEW f \in missing, FragmentArrives(f)
      PROVE  UpwardInv'
  BY <1>2, FragmentStep
<1>3. CASE ScheduledEvent
  BY <1>3, EncapToIpv4Step, Ipv4ToUdpStep, UdpToAppStep, TimerStep DEF ScheduledEvent
<1>4. CASE BuffersGrowOld \/ NodeStops \/ NodeStarts
  BY <1>4, DisturbanceStep
<1>5. ASSUME NEW s \in EthernetSockets, BindEthernetSocket(s) \/ CloseEthernetSocket(s)
      PROVE  UpwardInv'
  BY <1>5, EthernetSocketStep
<1>6. ASSUME NEW s \in RawSockets, BindRawSocket(s) \/ CloseRawSocket(s)
      PROVE  UpwardInv'
  BY <1>6, RawSocketStep
<1>7. CASE UNCHANGED vars
  <2>1. UNCHANGED <<encapVars, ipv4Vars, udpVars, up, error, netVars, tied, disturbances>>
    BY <1>7 DEF vars
  <2>2. NoSocketBound' <=> NoSocketBound
    BY <2>1, SameDisturbances
  <2>3. EncapInv'
    BY <2>1, <2>2 DEF UpwardInv, EncapInv, encapVars, Running
  <2>4. Ipv4Inv'
    BY <2>1, <2>2 DEF UpwardInv, Ipv4Inv, ipv4Vars, Running
  <2>5. UdpInv'
    BY <2>1 DEF UpwardInv, UdpInv, udpVars, Running
  <2> QED
    BY <2>1, <2>3, <2>4, <2>5 DEF UpwardInv, RestInv, netVars, DoubleScheduleOnlyAtTie
<1> QED
  BY <1>1, <1>2, <1>3, <1>4, <1>5, <1>6, <1>7 DEF Next

(* The four parts hold in every state.                                     *)
THEOREM UpwardInvariant == Spec => []UpwardInv
<1> QED
  BY InitUpward, NextUpward, PTL DEF Spec

(* Timers belong to transmissions, errors are known, and buffers that grow *)
(* old exist.                                                              *)
THEOREM UpwardTypeCorrect == Spec => []TypeOK
<1>1. UpwardInv => TypeOK
  BY DEF UpwardInv, EncapInv, Ipv4Inv, UdpInv, RestInv, TypeOK, TimerStates
<1> QED
  BY <1>1, UpwardInvariant, PTL

(* scheduleAt of EthernetEncapsulation and Udp throws only where a packet  *)
(* comes in the instant in which the transmission before it ends.          *)
THEOREM DoubleScheduleOnlyAtTieHolds == Spec => []DoubleScheduleOnlyAtTie
<1>1. UpwardInv => DoubleScheduleOnlyAtTie
  BY DEF UpwardInv, RestInv
<1> QED
  BY <1>1, UpwardInvariant, PTL

(* None of the three queues waits without a timer, unless something went   *)
(* up without one.                                                         *)
THEOREM QueuesAreServedHolds == Spec => []QueuesAreServed
<1>1. UpwardInv => QueuesAreServed
  BY DEF UpwardInv, EncapInv, Ipv4Inv, UdpInv, QueuesAreServed
<1> QED
  BY <1>1, UpwardInvariant, PTL

-----------------------------------------------------------------------------
(***************************************************************************)
(* A datagram that was given up is not handed to the application.  The     *)
(* fragments on their way to Ipv4 are those that may still come, those in  *)
(* the Ethernet encapsulation and those in fragbuf; each is in one place   *)
(* only.  What Ipv4 has completed leaves no fragment behind, and of what   *)
(* it has given up a fragment is missing for good.                         *)
(***************************************************************************)
OnLine == IF encapChannel # NoPacket /\ encapChannel.to = "protocol"
            THEN <<encapChannel.packet>> ELSE <<>>

Line == OnLine \o encapQueue

Upstream == { f.payload : f \in missing } \cup { Line[i].payload : i \in DOMAIN Line } \cup bufs

DatagramsIn(q) == { q[i].datagram : i \in DOMAIN q }

(* The queue and the channel of Ipv4, and those of Udp with what the       *)
(* application has.                                                        *)
InIpv4Queue ==
  DatagramsIn(ipv4Queue) \cup (IF ipv4Channel = NoPacket THEN {} ELSE {ipv4Channel.packet.datagram})

AboveIpv4 ==
  DatagramsIn(udpQueue) \cup (IF udpChannel = NoPacket THEN {} ELSE {udpChannel.datagram})
    \cup DatagramsIn(handed)

Downstream == InIpv4Queue \cup AboveIpv4

SamePart(x, y) == x.datagram = y.datagram /\ x.part = y.part

InOnePlace ==
  /\ \A f \in missing : \A x \in bufs : ~SamePart(f.payload, x)
  /\ \A i \in DOMAIN Line :
       /\ \A f \in missing : ~SamePart(f.payload, Line[i].payload)
       /\ \A x \in bufs : ~SamePart(x, Line[i].payload)
       /\ \A j \in DOMAIN Line : i # j => ~SamePart(Line[i].payload, Line[j].payload)

(* The fragments of a datagram know of how many there are.                 *)
PartsAgree ==
  /\ \A x \in Upstream : x.datagram <= begun /\ x.part <= x.parts
  /\ \A x, y \in Upstream : x.datagram = y.datagram => x.parts = y.parts

CompletedLeftNothing ==
  \A d \in Downstream : d \in 1 .. begun /\ \A x \in Upstream : x.datagram # d

Lacks(d, i) == \A x \in Upstream : x.datagram = d => x.part # i /\ i <= x.parts

GivenUpLacksPart ==
  \A d \in timeExceeded :
    /\ d \in 1 .. begun /\ d \notin Downstream
    /\ \E i \in Nat \ {0} : Lacks(d, i)

DatagramInv ==
  /\ handed \in Seq(ForApp)
  /\ InOnePlace /\ PartsAgree /\ CompletedLeftNothing /\ GivenUpLacksPart

-----------------------------------------------------------------------------
(* The frames on the way up the Ethernet encapsulation.                    *)
LEMMA LineType ==
  ASSUME EncapInv
  PROVE  OnLine \in Seq(Frames) /\ Line \in Seq(Frames)
<1>1. encapChannel # NoPacket => encapChannel.packet \in Frames
  BY DEF EncapInv, Carried
<1>2. OnLine \in Seq(Frames)
  BY <1>1 DEF OnLine
<1> QED
  BY <1>2, ConcatProperties DEF Line, EncapInv

(* A sequence, its head and its tail; the empty sequence in front.         *)
LEMMA ConcatFacts ==
  ASSUME NEW S, NEW q \in Seq(S), NEW e \in S
  PROVE  /\ <<>> \o q = q
         /\ q # <<>> => <<Head(q)>> \o Tail(q) = q
         /\ Tail(<<e>> \o q) = q /\ <<e>> \o q # <<>> /\ Head(<<e>> \o q) = e
         /\ \A s \in Seq(S) : s \o Append(q, e) = Append(s \o q, e)
<1>1. <<>> \o q = q
  BY ConcatEmptySeq
<1>2. ASSUME q # <<>>
      PROVE  <<Head(q)>> \o Tail(q) = q
  BY <1>2, SMTT(30)
<1>3. Tail(<<e>> \o q) = q /\ <<e>> \o q # <<>> /\ Head(<<e>> \o q) = e
  BY SMTT(30)
<1>4. ASSUME NEW s \in Seq(S)
      PROVE  s \o Append(q, e) = Append(s \o q, e)
  BY SMTT(30)
<1> QED
  BY <1>1, <1>2, <1>3, <1>4

(* A frame that arrives goes to the end of the line, or is lost.           *)
LEMMA LineGrows ==
  ASSUME EncapInv, NEW f \in Frames, FrameArrives(f)
  PROVE  Line' = Line \/ Line' = Append(Line, f)
<1>0. encapQueue \in Seq(Frames) /\ OnLine \in Seq(Frames)
  BY LineType DEF EncapInv
<1>1. CASE UNCHANGED <<encapQueue, encapChannel>>
  BY <1>1 DEF Line, OnLine
<1>2. CASE ~Encap!Busy /\ Encap!CopyToSocket(f)
  <2>1. OnLine = <<>> /\ OnLine' = <<>> /\ encapQueue' \in {encapQueue, Append(encapQueue, f)}
    BY <1>2 DEF Encap!Busy, Encap!CopyToSocket, Encap!ToSocket, OnLine
  <2> QED
    BY <1>0, <2>1, ConcatFacts DEF Line
<1>3. CASE Encap!Enqueue(f)
  <2>1. CASE Encap!Busy
    <3>1. encapQueue' = Append(encapQueue, f) /\ OnLine' = OnLine
      BY <1>3, <2>1 DEF Encap!Enqueue, OnLine
    <3>2. OnLine \o Append(encapQueue, f) = Append(OnLine \o encapQueue, f)
      BY <1>0, ConcatFacts
    <3> QED
      BY <3>1, <3>2 DEF Line
  <2>2. CASE ~Encap!Busy
    <3> DEFINE all == Append(encapQueue, f)
    <3>1. all \in Seq(Frames) /\ all # <<>> /\ Head(all) \in Frames
      BY <1>0, QueueFacts
    <3>2. encapQueue' = Tail(all) /\ encapChannel' = [packet |-> Head(all), to |-> "protocol"]
      BY <1>3, <2>2 DEF Encap!Enqueue, Encap!SendPacket, Encap!ToProtocol
    <3>3. encapChannel' # NoPacket
      BY <3>1, <3>2, NotNull
    <3>4. OnLine' = <<Head(all)>> /\ OnLine = <<>>
      BY <2>2, <3>2, <3>3 DEF OnLine, Encap!Busy
    <3>5. Line' = <<Head(all)>> \o Tail(all)
      BY <3>2, <3>4 DEF Line
    <3> QED
      BY <1>0, <3>1, <3>4, <3>5, ConcatFacts DEF Line
  <2> QED
    BY <2>1, <2>2
<1>4. CASE up
  <2>1. Encap!ProcessPacketFromMac(f)
    BY <1>4 DEF FrameArrives
  <2> QED
    BY <1>1, <1>2, <1>3, <2>1 DEF Encap!ProcessPacketFromMac, Encap!SendOnBusyChannel
<1>5. CASE ~up
  BY <1>1, <1>5 DEF FrameArrives, encapVars
<1> QED
  BY <1>4, <1>5

(* endTxTimer moves the head of the queue to the channel.                  *)
LEMMA LineKept ==
  ASSUME EncapInv, Encap!HandleEndTxPeriod
  PROVE  Line' = Line
<1>1. CASE UNCHANGED <<encapQueue, encapChannel>>
  BY <1>1 DEF Line, OnLine
<1>2. CASE encapQueue # <<>> /\ ~Encap!Busy
  <2>1. encapQueue \in Seq(Frames) /\ Head(encapQueue) \in Frames
    BY <1>2, HeadTailProperties DEF EncapInv
  <2>2. /\ encapQueue' = Tail(encapQueue)
        /\ encapChannel' = [packet |-> Head(encapQueue), to |-> "protocol"]
    BY <1>2 DEF Encap!HandleEndTxPeriod, Encap!SendPacket, Encap!ToProtocol
  <2>3. encapChannel' # NoPacket
    BY <2>1, <2>2, NotNull
  <2>4. OnLine' = <<Head(encapQueue)>> /\ OnLine = <<>>
    BY <1>2, <2>2, <2>3 DEF OnLine, Encap!Busy
  <2>5. Line' = <<Head(encapQueue)>> \o Tail(encapQueue)
    BY <2>2, <2>4 DEF Line
  <2> QED
    BY <1>2, <2>1, <2>4, <2>5, ConcatFacts DEF Line
<1>3. CASE encapQueue = <<>> \/ Encap!Busy
  <2>1. UNCHANGED <<encapQueue, encapChannel>>
    BY <1>3 DEF Encap!HandleEndTxPeriod, Encap!SendOnBusyChannel
  <2> QED
    BY <1>1, <2>1
<1> QED
  BY <1>2, <1>3

(* What goes to a protocol leaves the line at its head.                    *)
LEMMA LineShrinks ==
  ASSUME EncapInv, Encap!TransmissionEnds
  PROVE  IF encapChannel.to = "protocol"
           THEN Line # <<>> /\ Line' = Tail(Line) /\ Line[1] = encapChannel.packet
           ELSE Line' = Line
<1>0. /\ encapChannel # NoPacket /\ encapChannel \in Carried(Frames)
      /\ encapQueue \in Seq(Frames) /\ encapQueue' = encapQueue /\ encapChannel' = NoPacket
  BY DEF EncapInv, Encap!TransmissionEnds, Encap!Busy
<1>1. OnLine' = <<>> /\ Line' = encapQueue
  <2>1. OnLine' = <<>>
    BY <1>0 DEF OnLine
  <2> QED
    BY <1>0, <2>1, ConcatEmptySeq DEF Line
<1>2. CASE encapChannel.to = "protocol"
  <2>1. OnLine = <<encapChannel.packet>> /\ encapChannel.packet \in Frames
    BY <1>0, <1>2 DEF OnLine, Carried
  <2>2. Tail(Line) = encapQueue /\ Line # <<>> /\ Head(Line) = encapChannel.packet
    BY <1>0, <2>1, ConcatFacts DEF Line
  <2>3. Line[1] = encapChannel.packet
    BY <2>2, LineType
  <2> QED
    BY <1>1, <1>2, <2>2, <2>3
<1>3. CASE encapChannel.to # "protocol"
  <2>1. OnLine = <<>>
    BY <1>3 DEF OnLine
  <2> QED
    BY <1>0, <1>1, <1>3, <2>1, ConcatEmptySeq DEF Line
<1> QED
  BY <1>2, <1>3

-----------------------------------------------------------------------------
(* Datagrams in queues.                                                    *)
LEMMA DatagramsInFacts ==
  ASSUME NEW S, NEW q \in Seq(S), NEW e \in S
  PROVE  /\ DatagramsIn(Append(q, e)) = DatagramsIn(q) \cup {e.datagram}
         /\ q # <<>> => /\ DatagramsIn(Tail(q)) \subseteq DatagramsIn(q)
                        /\ Head(q).datagram \in DatagramsIn(q)
         /\ \A s \in Seq(S) : DatagramsIn(q \o s) \subseteq DatagramsIn(q) \cup DatagramsIn(s)
<1>1. DatagramsIn(Append(q, e)) = DatagramsIn(q) \cup {e.datagram}
  <2>1. /\ \A i \in DOMAIN q : i \in DOMAIN Append(q, e) /\ Append(q, e)[i] = q[i]
        /\ Len(q) + 1 \in DOMAIN Append(q, e) /\ Append(q, e)[Len(q) + 1] = e
        /\ \A i \in DOMAIN Append(q, e) : i \in DOMAIN q \/ i = Len(q) + 1
    OBVIOUS
  <2> QED
    BY <2>1 DEF DatagramsIn
<1>2. ASSUME q # <<>>
      PROVE  /\ DatagramsIn(Tail(q)) \subseteq DatagramsIn(q)
             /\ Head(q).datagram \in DatagramsIn(q)
  <2>1. /\ \A i \in DOMAIN Tail(q) : i + 1 \in DOMAIN q /\ Tail(q)[i] = q[i + 1]
        /\ 1 \in DOMAIN q /\ Head(q) = q[1]
    BY <1>2
  <2> QED
    BY <2>1 DEF DatagramsIn
<1>3. ASSUME NEW s \in Seq(S)
      PROVE  DatagramsIn(q \o s) \subseteq DatagramsIn(q) \cup DatagramsIn(s)
  <2>1. /\ \A i \in DOMAIN q : i \in DOMAIN (q \o s) /\ (q \o s)[i] = q[i]
        /\ \A i \in DOMAIN s : (q \o s)[Len(q) + i] = s[i]
        /\ \A i \in DOMAIN (q \o s) : i \in DOMAIN q \/ i - Len(q) \in DOMAIN s
    OBVIOUS
  <2>2. \A i \in DOMAIN (q \o s) : (q \o s)[i].datagram \in DatagramsIn(q) \cup DatagramsIn(s)
    <3> SUFFICES ASSUME NEW i \in DOMAIN (q \o s)
                 PROVE  (q \o s)[i].datagram \in DatagramsIn(q) \cup DatagramsIn(s)
      OBVIOUS
    <3>1. CASE i \in DOMAIN q
      BY <2>1, <3>1 DEF DatagramsIn
    <3>2. CASE i - Len(q) \in DOMAIN s
      <4>1. i = Len(q) + (i - Len(q))
        OBVIOUS
      <4> QED
        BY <2>1, <3>2, <4>1 DEF DatagramsIn
    <3> QED
      BY <2>1, <3>1, <3>2
  <2> QED
    BY <2>2 DEF DatagramsIn
<1> QED
  BY <1>1, <1>2, <1>3

(* What Ipv4 sends up is on the channel then, unless it is dropped.        *)
LEMMA FinishChannel ==
  ASSUME NEW p \in Parts, NEW t, Ip!ReassembleAndDeliverFinish(p, t)
  PROVE  ipv4Channel' = ipv4Channel \/ (ipv4Channel' # NoPacket /\ ipv4Channel'.packet = p)
<1>1. CASE UNCHANGED ipv4Channel
  BY <1>1
<1>2. CASE ipv4Channel' = [packet |-> p, to |-> "protocol"]
  <2>1. ipv4Channel' # NoPacket
    BY <1>2, NotNull
  <2> QED
    BY <1>2, <2>1
<1>3. CASE ipv4Channel' = [packet |-> p, to |-> "socket"]
  <2>1. ipv4Channel' # NoPacket
    BY <1>3, NotNull
  <2> QED
    BY <1>3, <2>1
<1> QED
  BY <1>1, <1>2, <1>3
  DEF Ip!ReassembleAndDeliverFinish, Ip!NotConnected, Ip!PassUpToProtocol, Ip!PassUpToSocket,
      Ip!ToProtocol, Ip!ToSocket

(* The head of the queue goes up, or is dropped.                           *)
LEMMA HeadGoesUp ==
  ASSUME NEW q \in Seq(Parts), q # <<>>, NEW t, ipv4Queue' = Tail(q),
         Ip!ReassembleAndDeliverFinish(Head(q), t)
  PROVE  InIpv4Queue' \subseteq InIpv4Queue \cup DatagramsIn(q)
<1>1. Head(q) \in Parts /\ Tail(q) \in Seq(Parts)
  BY HeadTailProperties
<1>2. ipv4Channel' = ipv4Channel \/ (ipv4Channel' # NoPacket /\ ipv4Channel'.packet = Head(q))
  BY <1>1, FinishChannel
<1>3. DatagramsIn(Tail(q)) \subseteq DatagramsIn(q) /\ Head(q).datagram \in DatagramsIn(q)
  BY <1>1, DatagramsInFacts
<1>4. DatagramsIn(ipv4Queue)' = DatagramsIn(Tail(q))
  BY DEF DatagramsIn
<1> QED
  BY <1>2, <1>3, <1>4 DEF InIpv4Queue

(* Ipv4 queues no datagram but the one that is delivered.                  *)
LEMMA DeliverQueues ==
  ASSUME Ipv4Inv, NEW p \in Parts, Ip!Deliver(p)
  PROVE  InIpv4Queue' \subseteq InIpv4Queue \cup {p.datagram}
<1> DEFINE d == Ip!Reassembled(p)
           all == Append(ipv4Queue, d)
<1>1. d \in Parts /\ d.datagram = p.datagram
  BY ReassembledIsPart
<1>2. Ip!Enqueue(d) /\ ipv4Queue \in Seq(Parts)
  BY DEF Ip!Deliver, Ipv4Inv
<1> HIDE DEF d
<1>3. DatagramsIn(all) = DatagramsIn(ipv4Queue) \cup {p.datagram}
  BY <1>1, <1>2, DatagramsInFacts
<1>4. CASE Ip!Busy
  <2>1. ipv4Queue' = all /\ ipv4Channel' = ipv4Channel
    BY <1>2, <1>4 DEF Ip!Enqueue
  <2>2. DatagramsIn(ipv4Queue)' = DatagramsIn(all)
    BY <2>1 DEF DatagramsIn
  <2> QED
    BY <1>3, <2>1, <2>2 DEF InIpv4Queue
<1>5. CASE ~Ip!Busy
  <2>1. ipv4Queue' = Tail(all) /\ Ip!ReassembleAndDeliverFinish(Head(all), ipv4Timer)
    BY <1>2, <1>5 DEF Ip!Enqueue
  <2>2. all \in Seq(Parts) /\ all # <<>>
    BY <1>1, <1>2, QueueFacts
  <2>3. InIpv4Queue' \subseteq InIpv4Queue \cup DatagramsIn(all)
    BY <2>1, <2>2, HeadGoesUp
  <2> QED
    BY <1>3, <2>3 DEF InIpv4Queue
<1> QED
  BY <1>4, <1>5

(* The timer of Ipv4 moves datagrams of the queue only.                    *)
LEMMA TimerQueues ==
  ASSUME Ipv4Inv, Ip!HandleEndUpperTxPeriod
  PROVE  InIpv4Queue' \subseteq InIpv4Queue
<1>1. CASE ipv4Queue = <<>>
  <2>1. UNCHANGED <<ipv4Queue, ipv4Channel>>
    BY <1>1 DEF Ip!HandleEndUpperTxPeriod
  <2> QED
    BY <2>1 DEF InIpv4Queue, DatagramsIn
<1>2. CASE ipv4Queue # <<>>
  <2>1. ipv4Queue' = Tail(ipv4Queue) /\ Ip!ReassembleAndDeliverFinish(Head(ipv4Queue), "idle")
    BY <1>2 DEF Ip!HandleEndUpperTxPeriod
  <2> QED
    BY <1>2, <2>1, HeadGoesUp DEF Ipv4Inv, InIpv4Queue
<1> QED
  BY <1>1, <1>2

(* What Udp gets from Ipv4.                                                *)
LEMMA InsertQueues ==
  ASSUME UdpInv, NEW p \in Parts, p.copies > 0, Udp!Insert(Payloads(p)), UNCHANGED handed
  PROVE  AboveIpv4' \subseteq AboveIpv4 \cup {p.datagram}
<1> DEFINE new == Payloads(p)
           all == udpQueue \o new
<1>1. p.copies \in Nat /\ p.datagram \in Nat \ {0}
  BY DEF Parts
<1>2. new \in [1 .. p.copies -> ForApp] /\ \A i \in 1 .. p.copies : new[i].datagram = p.datagram
  BY <1>1 DEF Payloads, ForApp
<1>3. new \in Seq(ForApp) /\ Len(new) > 0 /\ udpQueue \in Seq(ForApp)
  <2>1. new \in Seq(ForApp)
    BY <1>1, <1>2, SeqDef
  <2> QED
    BY <1>1, <1>2, <2>1 DEF UdpInv
<1>4. DatagramsIn(new) \subseteq {p.datagram}
  BY <1>2 DEF DatagramsIn
<1> HIDE DEF new
<1>5. new # <<>> /\ new[1] \in ForApp
  BY <1>3
<1>6. DatagramsIn(all) \subseteq DatagramsIn(udpQueue) \cup DatagramsIn(new)
  BY <1>3, <1>5, DatagramsInFacts
<1>7. all \in Seq(ForApp) /\ all # <<>>
  BY <1>3, ConcatProperties
<1>8. CASE Udp!Busy
  <2>1. udpQueue' = all /\ udpChannel' = udpChannel
    BY <1>8 DEF Udp!Insert, new
  <2>2. DatagramsIn(udpQueue)' = DatagramsIn(all) /\ DatagramsIn(handed)' = DatagramsIn(handed)
    BY <2>1 DEF DatagramsIn
  <2> QED
    BY <1>4, <1>6, <2>1, <2>2 DEF AboveIpv4
<1>9. CASE ~Udp!Busy
  <2>1. udpQueue' = Tail(all) /\ udpChannel' = Head(all)
    BY <1>9 DEF Udp!Insert, new
  <2>2. DatagramsIn(udpQueue)' = DatagramsIn(Tail(all)) /\ DatagramsIn(handed)' = DatagramsIn(handed)
    BY <2>1 DEF DatagramsIn
  <2>3. DatagramsIn(Tail(all)) \subseteq DatagramsIn(all) /\ Head(all).datagram \in DatagramsIn(all)
    BY <1>5, <1>7, DatagramsInFacts
  <2> QED
    BY <1>4, <1>6, <2>1, <2>2, <2>3 DEF AboveIpv4
<1> QED
  BY <1>8, <1>9

(* The timer of Udp moves payloads of the queue only.                      *)
LEMMA UdpTimerQueues ==
  ASSUME UdpInv, Udp!HandleEndTxPeriod, UNCHANGED handed
  PROVE  AboveIpv4' \subseteq AboveIpv4
<1>0. DatagramsIn(handed)' = DatagramsIn(handed)
  BY DEF DatagramsIn
<1>1. CASE udpQueue = <<>>
  <2>1. UNCHANGED <<udpQueue, udpChannel>>
    BY <1>1 DEF Udp!HandleEndTxPeriod
  <2> QED
    BY <1>0, <2>1 DEF AboveIpv4, DatagramsIn
<1>2. CASE udpQueue # <<>>
  <2>1. udpQueue' = Tail(udpQueue) /\ udpChannel' = Head(udpQueue)
    BY <1>2 DEF Udp!HandleEndTxPeriod
  <2>2. udpQueue \in Seq(ForApp) /\ Head(udpQueue) \in ForApp
    BY <1>2, HeadTailProperties DEF UdpInv
  <2>3. /\ DatagramsIn(Tail(udpQueue)) \subseteq DatagramsIn(udpQueue)
        /\ Head(udpQueue).datagram \in DatagramsIn(udpQueue)
    BY <1>2, <2>2, DatagramsInFacts
  <2>4. DatagramsIn(udpQueue)' = DatagramsIn(Tail(udpQueue))
    BY <2>1 DEF DatagramsIn
  <2> QED
    BY <1>0, <2>1, <2>3, <2>4 DEF AboveIpv4
<1> QED
  BY <1>1, <1>2

(* What is handed to the application was on the channel of Udp.            *)
LEMMA HandedQueues ==
  ASSUME UdpInv, handed \in Seq(ForApp), Udp!TransmissionEnds,
         handed' = handed \/ handed' = Append(handed, udpChannel)
  PROVE  AboveIpv4' \subseteq AboveIpv4 /\ handed' \in Seq(ForApp)
<1>1. udpChannel \in ForApp /\ udpChannel # NoPacket /\ udpQueue' = udpQueue /\ udpChannel' = NoPacket
  BY DEF Udp!TransmissionEnds, Udp!Busy, UdpInv
<1>2. DatagramsIn(udpQueue)' = DatagramsIn(udpQueue)
  BY <1>1 DEF DatagramsIn
<1>3. DatagramsIn(handed)' \subseteq DatagramsIn(handed) \cup {udpChannel.datagram}
  <2>1. DatagramsIn(Append(handed, udpChannel)) = DatagramsIn(handed) \cup {udpChannel.datagram}
    BY <1>1, DatagramsInFacts
  <2>2. CASE handed' = handed
    BY <2>2 DEF DatagramsIn
  <2>3. CASE handed' = Append(handed, udpChannel)
    <3>1. DatagramsIn(handed)' = DatagramsIn(Append(handed, udpChannel))
      BY <2>3 DEF DatagramsIn
    <3> QED
      BY <2>1, <3>1
  <2> QED
    BY <2>2, <2>3
<1>4. handed' \in Seq(ForApp)
  BY <1>1, QueueFacts
<1> QED
  BY <1>1, <1>2, <1>3, <1>4 DEF AboveIpv4

-----------------------------------------------------------------------------
(* The fragments on their way to Ipv4 are parts.                           *)
LEMMA UpstreamType ==
  ASSUME UpwardInv
  PROVE  Upstream \subseteq Parts /\ Line \in Seq(Frames) /\ begun \in Nat
<1>1. Line \in Seq(Frames) /\ missing \subseteq Frames /\ bufs \subseteq Parts /\ begun \in Nat
  <2>1. Line \in Seq(Frames)
    BY LineType DEF UpwardInv
  <2>2. missing \subseteq Frames /\ begun \in 0 .. MaxDatagrams
    BY DEF UpwardInv, RestInv
  <2>3. bufs \subseteq Parts
    BY DEF UpwardInv, Ipv4Inv
  <2>4. MaxDatagrams \in Nat
    BY UpwardAssumption
  <2> QED
    BY <2>1, <2>2, <2>3, <2>4
<1>2. \A f \in Frames : f.payload \in Parts
  BY DEF Frames
<1>3. \A i \in DOMAIN Line : Line[i] \in Frames
  BY <1>1
<1> QED
  BY <1>1, <1>2, <1>3 DEF Upstream

(* Nothing new on the way to Ipv4 nor above it.                            *)
LEMMA NothingNew ==
  ASSUME PartsAgree, CompletedLeftNothing, GivenUpLacksPart,
         Upstream' \subseteq Upstream, Downstream' \subseteq Downstream,
         UNCHANGED <<begun, timeExceeded>>
  PROVE  PartsAgree' /\ CompletedLeftNothing' /\ GivenUpLacksPart'
<1>1. PartsAgree'
  BY DEF PartsAgree
<1>2. CompletedLeftNothing'
  BY DEF CompletedLeftNothing
<1>3. \A d, i : Lacks(d, i) => Lacks(d, i)'
  BY DEF Lacks
<1>4. GivenUpLacksPart'
  BY <1>3 DEF GivenUpLacksPart
<1> QED
  BY <1>1, <1>2, <1>4

(* Fragments that leave the line, the buffers or the network.              *)
LEMMA FragmentsLeave ==
  ASSUME InOnePlace, Line \in Seq(Frames), missing' \subseteq missing, bufs' \subseteq bufs,
         Line' = Line \/ (Line # <<>> /\ Line' = Tail(Line))
  PROVE  InOnePlace' /\ Upstream' \subseteq Upstream
<1>1. CASE Line' = Line
  <2>1. InOnePlace'
    BY <1>1 DEF InOnePlace
  <2> QED
    BY <1>1, <2>1 DEF Upstream
<1>2. CASE Line # <<>> /\ Line' = Tail(Line)
  <2>1. \A i \in DOMAIN Tail(Line) : i \in Int /\ i + 1 \in DOMAIN Line /\ Tail(Line)[i] = Line[i + 1]
    BY <1>2
  <2>2. \A i \in DOMAIN Line' : i \in Int /\ i + 1 \in DOMAIN Line /\ Line'[i] = Line[i + 1]
    BY <1>2, <2>1
  <2>3. InOnePlace'
    <3>1. \A f \in missing' : \A x \in bufs' : ~SamePart(f.payload, x)
      BY DEF InOnePlace
    <3>2. ASSUME NEW i \in DOMAIN Line'
          PROVE  /\ \A f \in missing' : ~SamePart(f.payload, Line'[i].payload)
                 /\ \A x \in bufs' : ~SamePart(x, Line'[i].payload)
      BY <2>2 DEF InOnePlace
    <3>3. ASSUME NEW i \in DOMAIN Line', NEW j \in DOMAIN Line', i # j
          PROVE  ~SamePart(Line'[i].payload, Line'[j].payload)
      <4>1. i + 1 # j + 1
        BY <2>2, <3>3
      <4> QED
        BY <2>2, <4>1 DEF InOnePlace
    <3> QED
      BY <3>1, <3>2, <3>3 DEF InOnePlace, SamePart
  <2>4. Upstream' \subseteq Upstream
    BY <2>2 DEF Upstream
  <2> QED
    BY <2>3, <2>4
<1> QED
  BY <1>1, <1>2

(* A frame at the end of the line that is nowhere else.                    *)
LEMMA FragmentOnLine ==
  ASSUME InOnePlace, Line \in Seq(Frames), NEW f \in Frames, Line' = Append(Line, f),
         bufs' = bufs,
         \A g \in missing' : ~SamePart(g.payload, f.payload),
         \A g \in missing' : \A x \in bufs : ~SamePart(g.payload, x),
         \A g \in missing' : \A i \in DOMAIN Line : ~SamePart(g.payload, Line[i].payload),
         \A x \in bufs : ~SamePart(x, f.payload),
         \A i \in DOMAIN Line : ~SamePart(Line[i].payload, f.payload)
  PROVE  InOnePlace'
<1>1. \A i \in DOMAIN Line' : (i \in DOMAIN Line /\ Line'[i] = Line[i])
                              \/ (i = Len(Line) + 1 /\ Line'[i] = f)
  OBVIOUS
<1>2. ASSUME NEW i \in DOMAIN Line'
      PROVE  /\ \A g \in missing' : ~SamePart(g.payload, Line'[i].payload)
             /\ \A x \in bufs' : ~SamePart(x, Line'[i].payload)
  BY <1>1 DEF InOnePlace
<1>3. \A x, y : SamePart(x, y) => SamePart(y, x)
  BY DEF SamePart
<1>4. ASSUME NEW i \in DOMAIN Line', NEW j \in DOMAIN Line', i # j
      PROVE  ~SamePart(Line'[i].payload, Line'[j].payload)
  BY <1>1, <1>3, <1>4 DEF InOnePlace
<1> QED
  BY <1>2, <1>4 DEF InOnePlace, SamePart

(* A fragment of a datagram that has begun.                                *)
LEMMA FragmentDatagrams ==
  ASSUME UpwardInv, DatagramInv, NEW f \in missing, FragmentArrives(f)
  PROVE  DatagramInv'
<1>0. /\ UNCHANGED <<begun, bufs, timeExceeded, ipv4Queue, ipv4Channel, udpQueue, udpChannel, handed>>
      /\ FrameArrives(f) /\ f \in Frames /\ Line \in Seq(Frames)
      /\ missing' = { g \in missing :
           g.payload.datagram = f.payload.datagram => g.payload.part > f.payload.part }
  BY UpstreamType DEF FragmentArrives, FrameArrives, ipv4Vars, udpVars, UpwardInv, RestInv
<1>1. Downstream' = Downstream
  BY <1>0 DEF Downstream, InIpv4Queue, AboveIpv4, DatagramsIn
<1>2. \A g \in missing' : g \in missing /\ ~SamePart(g.payload, f.payload)
  <2>1. \A g \in missing : g.payload.part \in Nat
    BY DEF UpwardInv, RestInv, Frames, Parts
  <2> QED
    BY <1>0, <2>1 DEF SamePart
<1>3. \A x, y : SamePart(x, y) => SamePart(y, x)
  BY DEF SamePart
<1>4. InOnePlace' /\ Upstream' \subseteq Upstream
  <2>1. CASE Line' = Line
    BY <1>0, <1>2, <2>1, FragmentsLeave DEF DatagramInv
  <2>2. CASE Line' = Append(Line, f)
    <3>1. InOnePlace'
      BY <1>0, <1>2, <1>3, <2>2, FragmentOnLine DEF DatagramInv, InOnePlace
    <3>2. \A i \in DOMAIN Line' : (i \in DOMAIN Line /\ Line'[i] = Line[i]) \/ Line'[i] = f
      BY <1>0, <2>2
    <3>3. Upstream' \subseteq Upstream
      BY <1>0, <1>2, <3>2 DEF Upstream
    <3> QED
      BY <3>1, <3>3
  <2> QED
    BY <1>0, <2>1, <2>2, LineGrows DEF UpwardInv
<1> QED
  BY <1>0, <1>1, <1>4, NothingNew DEF DatagramInv

(* The first fragment of a datagram.                                       *)
LEMMA NewDatagrams ==
  ASSUME UpwardInv, DatagramInv, NEW kind \in Kinds, NEW i \in 1 .. kind.parts,
         NewDatagramArrives(kind, i)
  PROVE  DatagramInv'
<1> DEFINE n == begun + 1
           f == Frame(kind.ethertype, Part(n, kind, i))
           new(j) == Frame(kind.ethertype, Part(n, kind, j))
<1>0. /\ UNCHANGED <<bufs, timeExceeded, ipv4Queue, ipv4Channel, udpQueue, udpChannel, handed>>
      /\ FrameArrives(f) /\ begun' = n
      /\ missing' = missing \cup { new(j) : j \in i + 1 .. kind.parts }
  BY DEF NewDatagramArrives, NewFrame, FrameArrives, ipv4Vars, udpVars
<1>1. begun \in Nat /\ kind.parts \in Nat /\ Line \in Seq(Frames) /\ Upstream \subseteq Parts
  <2>1. \A k \in Kinds : k.parts \in Nat
    BY UpwardAssumption
  <2> QED
    BY <2>1, UpstreamType
<1>2. /\ \A j : new(j).payload.datagram = n /\ new(j).payload.part = j
                /\ new(j).payload.parts = kind.parts
      /\ f = new(i)
  BY DEF Frame, Part
<1>3. f \in Frames
  BY <1>1, FrameIsFrame
<1> HIDE DEF f, new
<1>4. \A x \in Upstream : x.datagram \in Nat /\ x.datagram <= begun /\ x.part \in Nat
  BY <1>1 DEF DatagramInv, PartsAgree, Parts
<1>5. \A x \in Upstream : x.datagram # n
  BY <1>1, <1>4
<1>6. /\ \A g \in missing : g.payload \in Upstream
      /\ \A k \in DOMAIN Line : Line[k].payload \in Upstream
      /\ \A x \in bufs : x \in Upstream
  BY DEF Upstream
<1>7. /\ \A x \in Upstream : ~SamePart(x, f.payload) /\ \A j : ~SamePart(new(j).payload, x)
      /\ \A j \in i + 1 .. kind.parts : ~SamePart(new(j).payload, f.payload)
  BY <1>1, <1>2, <1>5 DEF SamePart
<1>8. /\ \A g \in missing' : ~SamePart(g.payload, f.payload)
      /\ \A g \in missing' : \A x \in bufs : ~SamePart(g.payload, x)
      /\ \A g \in missing' : \A k \in DOMAIN Line : ~SamePart(g.payload, Line[k].payload)
  BY <1>0, <1>6, <1>7 DEF DatagramInv, InOnePlace
<1>9. /\ InOnePlace'
      /\ \A x \in Upstream' : x \in Upstream
           \/ (x.datagram = n /\ x.parts = kind.parts /\ x.part \in i .. kind.parts)
  <2>1. CASE Line' = Line
    <3>1. InOnePlace'
      BY <1>0, <1>8, <2>1 DEF DatagramInv, InOnePlace
    <3> QED
      BY <1>0, <1>1, <1>2, <2>1, <3>1 DEF Upstream
  <2>2. CASE Line' = Append(Line, f)
    <3>1. InOnePlace'
      BY <1>0, <1>1, <1>3, <1>6, <1>7, <1>8, <2>2, FragmentOnLine DEF DatagramInv
    <3>2. \A k \in DOMAIN Line' : (k \in DOMAIN Line /\ Line'[k] = Line[k]) \/ Line'[k] = f
      BY <1>1, <1>3, <2>2
    <3> QED
      BY <1>0, <1>1, <1>2, <3>1, <3>2 DEF Upstream
  <2> QED
    BY <1>0, <1>3, <2>1, <2>2, LineGrows DEF UpwardInv
<1>10. Downstream' = Downstream
  BY <1>0 DEF Downstream, InIpv4Queue, AboveIpv4, DatagramsIn
<1>11. PartsAgree'
  <2>1. \A x \in Upstream : x.parts \in Nat
    BY <1>1 DEF Parts
  <2>2. \A x \in Upstream' : x.datagram <= begun' /\ x.part <= x.parts
    BY <1>0, <1>1, <1>4, <1>9 DEF DatagramInv, PartsAgree
  <2>3. \A x, y \in Upstream' : x.datagram = y.datagram => x.parts = y.parts
    BY <1>5, <1>9 DEF DatagramInv, PartsAgree
  <2> QED
    BY <2>2, <2>3 DEF PartsAgree
<1>12. CompletedLeftNothing'
  BY <1>0, <1>1, <1>9, <1>10 DEF DatagramInv, CompletedLeftNothing
<1>13. GivenUpLacksPart'
  <2> SUFFICES ASSUME NEW d \in timeExceeded'
               PROVE  d \in 1 .. begun' /\ d \notin Downstream' /\ \E k \in Nat \ {0} : Lacks(d, k)'
    BY DEF GivenUpLacksPart
  <2>1. d \in 1 .. begun /\ d \notin Downstream /\ \E k \in Nat \ {0} : Lacks(d, k)
    BY <1>0 DEF DatagramInv, GivenUpLacksPart
  <2>2. ASSUME NEW k, Lacks(d, k)
        PROVE  Lacks(d, k)'
    BY <1>1, <1>9, <2>1, <2>2 DEF Lacks
  <2> QED
    BY <1>0, <1>1, <1>10, <2>1, <2>2
<1> QED
  BY <1>0, <1>9, <1>11, <1>12, <1>13 DEF DatagramInv

(* A fragment that is buffered: of the datagrams that are given up with it *)
(* the purged fragments are missing for good.                              *)
LEMMA BufferDatagrams ==
  ASSUME UpwardInv, DatagramInv, Line # <<>>, Line' = Tail(Line), Ip!Buffer(Line[1].payload),
         UNCHANGED <<begun, missing>>, Downstream' = Downstream
  PROVE  InOnePlace' /\ PartsAgree' /\ CompletedLeftNothing' /\ GivenUpLacksPart'
<1> DEFINE p == Line[1].payload
<1>0. /\ bufs' = { f \in bufs : f.datagram \notin Ip!Purged } \cup {p}
      /\ timeExceeded' = timeExceeded
           \cup { d \in Ip!Purged : \E f \in bufs : f.datagram = d }
  BY DEF Ip!Buffer, Ip!Kept, Ip!Reported
<1>1. Line \in Seq(Frames) /\ Upstream \subseteq Parts /\ begun \in Nat
  BY UpstreamType
<1>2. /\ 1 \in DOMAIN Line
      /\ \A i \in DOMAIN Line' : /\ i \in Nat \ {0} /\ i + 1 \in DOMAIN Line
                                 /\ Line'[i] = Line[i + 1]
  BY <1>1
<1>3. /\ \A f \in missing : f.payload \in Upstream /\ ~SamePart(f.payload, p)
      /\ \A i \in DOMAIN Line' : Line'[i].payload \in Upstream /\ ~SamePart(p, Line'[i].payload)
      /\ \A x \in bufs : x \in Upstream /\ ~SamePart(x, p)
      /\ p \in Upstream
  <2>1. \A i \in DOMAIN Line' : 1 # i + 1
    BY <1>2
  <2> QED
    BY <1>2, <2>1 DEF DatagramInv, InOnePlace, Upstream
<1>4. Upstream' \subseteq Upstream
  BY <1>0, <1>3 DEF Upstream
<1> HIDE DEF p
<1>5. InOnePlace'
  <2>1. \A f \in missing' : \A x \in bufs' : ~SamePart(f.payload, x)
    BY <1>0, <1>3 DEF DatagramInv, InOnePlace
  <2>2. ASSUME NEW i \in DOMAIN Line'
        PROVE  /\ \A f \in missing' : ~SamePart(f.payload, Line'[i].payload)
               /\ \A x \in bufs' : ~SamePart(x, Line'[i].payload)
    BY <1>0, <1>2, <1>3 DEF DatagramInv, InOnePlace
  <2>3. ASSUME NEW i \in DOMAIN Line', NEW j \in DOMAIN Line', i # j
        PROVE  ~SamePart(Line'[i].payload, Line'[j].payload)
    <3>1. i + 1 # j + 1
      BY <1>2, <2>3
    <3> QED
      BY <1>2, <3>1 DEF DatagramInv, InOnePlace
  <2> QED
    BY <2>1, <2>2, <2>3 DEF InOnePlace, SamePart
<1>6. PartsAgree'
  BY <1>4 DEF DatagramInv, PartsAgree
<1>7. CompletedLeftNothing'
  BY <1>4 DEF DatagramInv, CompletedLeftNothing
<1>8. GivenUpLacksPart'
  <2> SUFFICES ASSUME NEW d \in timeExceeded'
               PROVE  d \in 1 .. begun /\ d \notin Downstream /\ \E i \in Nat \ {0} : Lacks(d, i)'
    BY DEF GivenUpLacksPart
  <2>1. CASE d \in timeExceeded
    <3>1. \A i : Lacks(d, i) => Lacks(d, i)'
      BY <1>4 DEF Lacks
    <3> QED
      BY <2>1, <3>1 DEF DatagramInv, GivenUpLacksPart
  <2>2. CASE d \in Ip!Purged /\ \E f \in bufs : f.datagram = d
    <3>1. PICK f \in bufs : f.datagram = d
      BY <2>2
    <3>2. f \in Upstream /\ f \in Parts /\ f.part \in Nat \ {0} /\ d \in Nat \ {0}
      BY <1>1, <1>3, <3>1 DEF Parts
    <3>3. d \in 1 .. begun /\ d \notin Downstream
      BY <1>1, <3>1, <3>2 DEF DatagramInv, PartsAgree, CompletedLeftNothing
    <3>4. ASSUME NEW x \in Upstream', x.datagram = d
          PROVE  x.part # f.part /\ f.part <= x.parts
      <4>1. x \in Upstream /\ x.parts = f.parts /\ f.part <= f.parts
        BY <1>4, <3>1, <3>2, <3>4 DEF DatagramInv, PartsAgree
      <4>2. \/ \E g \in missing : x = g.payload
            \/ \E i \in DOMAIN Line' : x = Line'[i].payload
            \/ x \in bufs'
        BY <3>4 DEF Upstream
      <4>3. ~SamePart(x, f)
        <5>1. ASSUME NEW g \in missing, x = g.payload
              PROVE  ~SamePart(x, f)
          BY <5>1 DEF DatagramInv, InOnePlace
        <5>2. ASSUME NEW i \in DOMAIN Line', x = Line'[i].payload
              PROVE  ~SamePart(x, f)
          BY <1>2, <5>2 DEF DatagramInv, InOnePlace, SamePart
        <5>3. CASE x \in bufs'
          <6>1. x = p
            BY <1>0, <2>2, <3>4, <5>3
          <6> QED
            BY <1>3, <6>1 DEF SamePart
        <5> QED
          BY <4>2, <5>1, <5>2, <5>3
      <4> QED
        BY <3>1, <3>4, <4>1, <4>3 DEF SamePart
    <3>5. Lacks(d, f.part)'
      BY <3>4 DEF Lacks
    <3> QED
      BY <3>2, <3>3, <3>5
  <2> QED
    BY <1>0, <2>1, <2>2
<1> QED
  BY <1>5, <1>6, <1>7, <1>8

(* A datagram that is complete: nothing of it is left, and it has not been *)
(* given up.                                                               *)
LEMMA DeliverDatagrams ==
  ASSUME UpwardInv, DatagramInv, Line # <<>>, Line' = Tail(Line), Ip!Deliver(Line[1].payload),
         UNCHANGED <<begun, missing>>,
         Downstream' \subseteq Downstream \cup {Line[1].payload.datagram}
  PROVE  InOnePlace' /\ PartsAgree' /\ CompletedLeftNothing' /\ GivenUpLacksPart'
<1> DEFINE p == Line[1].payload
           purged == IF Ip!IsFragment(p) THEN Ip!Purged ELSE {}
<1>1. Line \in Seq(Frames) /\ Upstream \subseteq Parts /\ begun \in Nat
  BY UpstreamType
<1>2. /\ 1 \in DOMAIN Line
      /\ \A i \in DOMAIN Line' : /\ i \in Nat \ {0} /\ i + 1 \in DOMAIN Line
                                 /\ Line'[i] = Line[i + 1]
  BY <1>1
<1>3. /\ \A f \in missing : f.payload \in Upstream /\ ~SamePart(f.payload, p)
      /\ \A i \in DOMAIN Line' : Line'[i].payload \in Upstream /\ ~SamePart(p, Line'[i].payload)
      /\ \A x \in bufs : x \in Upstream /\ ~SamePart(x, p)
      /\ p \in Upstream
  <2>1. \A i \in DOMAIN Line' : 1 # i + 1
    BY <1>2
  <2> QED
    BY <1>2, <2>1 DEF DatagramInv, InOnePlace, Upstream
<1>4. p \in Parts /\ p.datagram \in Nat \ {0} /\ p.parts \in Nat \ {0} /\ p.part \in Nat \ {0}
  BY <1>1, <1>3 DEF Parts
<1>5. /\ bufs' = { f \in bufs : f.datagram \notin purged \cup (IF Ip!IsFragment(p) THEN {p.datagram} ELSE {}) }
      /\ timeExceeded' = timeExceeded \cup { d \in purged : \E f \in bufs : f.datagram = d }
      /\ Ip!IsFragment(p) => \A i \in 1 .. p.parts :
           \E f \in { f \in bufs : f.datagram \notin purged } \cup {p} :
             f.datagram = p.datagram /\ f.part = i
  BY DEF Ip!Deliver, Ip!Kept, Ip!Reported, Ip!Complete
<1> HIDE DEF p, purged
<1>6. \A i \in 1 .. p.parts : \E f \in { f \in bufs : f.datagram \notin purged } \cup {p} :
        f.datagram = p.datagram /\ f.part = i
  <2>1. CASE ~Ip!IsFragment(p)
    <3>1. p.parts = 1 /\ p.part = 1
      BY <1>3, <1>4, <2>1 DEF Ip!IsFragment, DatagramInv, PartsAgree
    <3> QED
      BY <3>1
  <2> QED
    BY <1>5, <2>1
<1>7. Upstream' \subseteq Upstream /\ InOnePlace'
  BY <1>1, <1>5, FragmentsLeave DEF DatagramInv
<1>8. \A x \in Upstream' : x.datagram # p.datagram
  <2> SUFFICES ASSUME NEW x \in Upstream', x.datagram = p.datagram
               PROVE  FALSE
    OBVIOUS
  <2>1. x \in Upstream /\ x.part \in 1 .. p.parts
    <3>1. x \in Upstream /\ x \in Parts
      BY <1>1, <1>7
    <3>2. x.part \in Nat \ {0} /\ x.parts = p.parts /\ x.part <= x.parts
      BY <1>3, <3>1 DEF DatagramInv, PartsAgree, Parts
    <3> QED
      BY <1>4, <3>1, <3>2
  <2>2. PICK f \in bufs \cup {p} : f.datagram = p.datagram /\ f.part = x.part
    BY <1>6, <2>1
  <2>3. SamePart(x, f) /\ SamePart(f, x)
    BY <2>2 DEF SamePart
  <2>4. ASSUME NEW g \in missing, x = g.payload
        PROVE  FALSE
    BY <1>3, <2>2, <2>3, <2>4 DEF DatagramInv, InOnePlace
  <2>5. ASSUME NEW i \in DOMAIN Line', x = Line'[i].payload
        PROVE  FALSE
    BY <1>2, <1>3, <2>2, <2>3, <2>5 DEF DatagramInv, InOnePlace
  <2>6. CASE x \in bufs'
    <3>1. x \in bufs /\ ~Ip!IsFragment(p)
      BY <1>5, <2>6
    <3>2. p.parts = 1 /\ p.part = 1
      BY <1>3, <1>4, <3>1 DEF Ip!IsFragment, DatagramInv, PartsAgree
    <3>3. SamePart(x, p)
      BY <2>1, <3>2 DEF SamePart
    <3> QED
      BY <1>3, <3>1, <3>3
  <2>7. \/ \E g \in missing : x = g.payload
        \/ \E i \in DOMAIN Line' : x = Line'[i].payload
        \/ x \in bufs'
    BY DEF Upstream
  <2> QED
    BY <2>4, <2>5, <2>6, <2>7
<1>9. p.datagram \in 1 .. begun
  BY <1>1, <1>3, <1>4 DEF DatagramInv, PartsAgree
<1>10. PartsAgree'
  BY <1>7 DEF DatagramInv, PartsAgree
<1>11. Downstream' \subseteq Downstream \cup {p.datagram}
  BY DEF p
<1>12. CompletedLeftNothing'
  BY <1>7, <1>8, <1>9, <1>11 DEF DatagramInv, CompletedLeftNothing
<1>13. p.datagram \notin timeExceeded
  <2> SUFFICES ASSUME p.datagram \in timeExceeded
               PROVE  FALSE
    OBVIOUS
  <2>1. PICK i \in Nat \ {0} : Lacks(p.datagram, i)
    BY DEF DatagramInv, GivenUpLacksPart
  <2>2. i \in 1 .. p.parts
    BY <1>3, <1>4, <2>1 DEF Lacks
  <2>3. PICK f \in bufs \cup {p} : f.datagram = p.datagram /\ f.part = i
    BY <1>6, <2>2
  <2> QED
    BY <1>3, <2>1, <2>3 DEF Lacks
<1>14. ASSUME NEW f \in bufs, f.datagram \in purged
       PROVE  f.datagram # p.datagram
  <2> SUFFICES ASSUME f.datagram = p.datagram
               PROVE  FALSE
    OBVIOUS
  <2>1. p.parts > 1
    BY <1>14 DEF purged, Ip!IsFragment
  <2>2. 1 \in 1 .. p.parts /\ 2 \in 1 .. p.parts
    BY <1>4, <2>1
  <2>3. p.part = 1 /\ p.part = 2
    BY <1>6, <1>14, <2>2
  <2> QED
    BY <2>3
<1>15. GivenUpLacksPart'
  <2> SUFFICES ASSUME NEW d \in timeExceeded'
               PROVE  d \in 1 .. begun /\ d \notin Downstream' /\ \E i \in Nat \ {0} : Lacks(d, i)'
    BY DEF GivenUpLacksPart
  <2>1. CASE d \in timeExceeded
    <3>1. \A i : Lacks(d, i) => Lacks(d, i)'
      BY <1>7 DEF Lacks
    <3> QED
      BY <1>11, <1>13, <2>1, <3>1 DEF DatagramInv, GivenUpLacksPart
  <2>2. CASE d \in purged /\ \E f \in bufs : f.datagram = d
    <3>1. PICK f \in bufs : f.datagram = d
      BY <2>2
    <3>2. f \in Upstream /\ f \in Parts /\ f.part \in Nat \ {0} /\ d \in Nat \ {0}
      BY <1>1, <1>3, <3>1 DEF Parts
    <3>3. d \in 1 .. begun /\ d \notin Downstream'
      BY <1>1, <1>11, <1>14, <2>2, <3>1, <3>2 DEF DatagramInv, PartsAgree, CompletedLeftNothing
    <3>4. ASSUME NEW x \in Upstream', x.datagram = d
          PROVE  x.part # f.part /\ f.part <= x.parts
      <4>1. x \in Upstream /\ x.parts = f.parts /\ f.part <= f.parts
        BY <1>7, <3>1, <3>2, <3>4 DEF DatagramInv, PartsAgree
      <4>2. x \notin bufs'
        BY <1>5, <2>2, <3>4
      <4>3. ~SamePart(x, f)
        <5>1. ASSUME NEW g \in missing, x = g.payload
              PROVE  ~SamePart(x, f)
          BY <5>1 DEF DatagramInv, InOnePlace
        <5>2. ASSUME NEW i \in DOMAIN Line', x = Line'[i].payload
              PROVE  ~SamePart(x, f)
          BY <1>2, <5>2 DEF DatagramInv, InOnePlace, SamePart
        <5> QED
          BY <3>4, <4>2, <5>1, <5>2 DEF Upstream
      <4> QED
        BY <3>1, <3>4, <4>1, <4>3 DEF SamePart
    <3>5. Lacks(d, f.part)'
      BY <3>4 DEF Lacks
    <3> QED
      BY <3>2, <3>3, <3>5
  <2> QED
    BY <1>5, <2>1, <2>2
<1> QED
  BY <1>7, <1>10, <1>12, <1>15

(* A fragment leaves the encapsulation and joins a buffer.                 *)
LEMMA EncapToIpv4Datagrams ==
  ASSUME UpwardInv, DatagramInv, EncapToIpv4
  PROVE  DatagramInv'
<1>0. /\ Encap!TransmissionEnds /\ EncapInv /\ Ipv4Inv
      /\ UNCHANGED <<udpQueue, udpChannel, begun, missing, handed>>
  BY DEF EncapToIpv4, udpVars, netVars, UpwardInv
<1>1. AboveIpv4' = AboveIpv4
  BY <1>0 DEF AboveIpv4, DatagramsIn
<1>2. CASE ForIpv4(encapChannel) /\ Ip!ReassembleAndDeliver(encapChannel.packet.payload)
  <2>1. Line # <<>> /\ Line' = Tail(Line) /\ Line[1] = encapChannel.packet
    BY <1>0, <1>2, LineShrinks DEF ForIpv4
  <2>2. CASE Ip!Buffer(Line[1].payload)
    <3>1. UNCHANGED <<ipv4Queue, ipv4Channel>>
      BY <2>2 DEF Ip!Buffer
    <3>2. InIpv4Queue' = InIpv4Queue
      BY <3>1 DEF InIpv4Queue, DatagramsIn
    <3>3. Downstream' = Downstream
      BY <1>1, <3>2 DEF Downstream
    <3> QED
      BY <1>0, <2>1, <2>2, <3>3, BufferDatagrams DEF DatagramInv
  <2>3. CASE Ip!Deliver(Line[1].payload)
    <3>1. Line[1].payload \in Parts
      <4>1. Line \in Seq(Frames)
        BY UpstreamType
      <4>2. Line[1] \in Frames
        BY <2>1, <4>1
      <4> QED
        BY <4>2 DEF Frames
    <3>2. InIpv4Queue' \subseteq InIpv4Queue \cup {Line[1].payload.datagram}
      BY <1>0, <2>3, <3>1, DeliverQueues
    <3>3. Downstream' \subseteq Downstream \cup {Line[1].payload.datagram}
      BY <1>1, <3>2 DEF Downstream
    <3> QED
      BY <1>0, <2>1, <2>3, <3>3, DeliverDatagrams DEF DatagramInv
  <2> QED
    BY <1>2, <2>1, <2>2, <2>3 DEF Ip!ReassembleAndDeliver
<1>3. CASE UNCHANGED ipv4Vars
  <2>1. UNCHANGED <<bufs, timeExceeded>> /\ Downstream' = Downstream
    BY <1>0, <1>3 DEF ipv4Vars, Downstream, InIpv4Queue, AboveIpv4, DatagramsIn
  <2>2. InOnePlace' /\ Upstream' \subseteq Upstream
    BY <1>0, <2>1, LineShrinks, FragmentsLeave, UpstreamType DEF DatagramInv
  <2> QED
    BY <1>0, <2>1, <2>2, NothingNew DEF DatagramInv
<1> QED
  BY <1>2, <1>3 DEF EncapToIpv4

(* A step that leaves fragments where they are and lets nothing new up.    *)
LEMMA OtherDatagrams ==
  ASSUME UpwardInv, DatagramInv, Line' = Line, bufs' \subseteq bufs,
         UNCHANGED <<begun, missing, timeExceeded>>, handed' \in Seq(ForApp),
         Downstream' \subseteq Downstream
  PROVE  DatagramInv'
<1>1. InOnePlace' /\ Upstream' \subseteq Upstream
  BY FragmentsLeave, UpstreamType DEF DatagramInv
<1> QED
  BY <1>1, NothingNew DEF DatagramInv

(* The steps after which only the queues have changed.                     *)
LEMMA QueueDatagrams ==
  ASSUME UpwardInv, DatagramInv, Ipv4ToUdp \/ UdpToApp \/ EncapTimerRuns \/ Ipv4TimerRuns
                                   \/ UdpTimerRuns \/ TimerWhenDown
  PROVE  DatagramInv'
<1>0. EncapInv /\ Ipv4Inv /\ UdpInv /\ handed \in Seq(ForApp)
  BY DEF UpwardInv, DatagramInv
<1>1. CASE Ipv4ToUdp
  <2>1. /\ Ip!TransmissionEnds
        /\ UNCHANGED <<encapQueue, encapChannel, bufs, timeExceeded, ipv4Queue, begun, missing, handed>>
    BY <1>1 DEF Ipv4ToUdp, Ip!TransmissionEnds, Ip!bufferVars, encapVars, netVars
  <2>2. /\ ipv4Channel # NoPacket /\ ipv4Channel.packet \in Parts /\ ipv4Channel' = NoPacket
    BY <1>0, <2>1 DEF Ip!TransmissionEnds, Ip!Busy, Ipv4Inv, Carried
  <2>3. AboveIpv4' \subseteq AboveIpv4 \cup {ipv4Channel.packet.datagram}
    <3>1. CASE ForUdp(ipv4Channel) /\ Udp!Insert(Payloads(ipv4Channel.packet))
      BY <1>0, <2>1, <2>2, <3>1, InsertQueues DEF ForUdp
    <3>2. CASE UNCHANGED udpVars
      BY <2>1, <3>2 DEF AboveIpv4, DatagramsIn, udpVars
    <3> QED
      BY <1>1, <3>1, <3>2 DEF Ipv4ToUdp
  <2>4. Downstream' \subseteq Downstream
    <3>1. DatagramsIn(ipv4Queue)' = DatagramsIn(ipv4Queue)
      BY <2>1 DEF DatagramsIn
    <3>2. InIpv4Queue' \subseteq InIpv4Queue /\ ipv4Channel.packet.datagram \in InIpv4Queue
      BY <2>2, <3>1 DEF InIpv4Queue
    <3> QED
      BY <2>3, <3>2 DEF Downstream
  <2>5. Line' = Line
    BY <2>1 DEF Line, OnLine
  <2> QED
    BY <1>0, <2>1, <2>4, <2>5, OtherDatagrams
<1>2. CASE UdpToApp
  <2>1. /\ Udp!TransmissionEnds
        /\ UNCHANGED <<encapQueue, encapChannel, bufs, timeExceeded, ipv4Queue, ipv4Channel, begun, missing>>
        /\ handed' = handed \/ handed' = Append(handed, udpChannel)
    BY <1>2 DEF UdpToApp, encapVars, ipv4Vars, netVars
  <2>2. AboveIpv4' \subseteq AboveIpv4 /\ handed' \in Seq(ForApp)
    BY <1>0, <2>1, HandedQueues
  <2>3. InIpv4Queue' = InIpv4Queue /\ Line' = Line
    BY <2>1 DEF InIpv4Queue, DatagramsIn, Line, OnLine
  <2>4. Downstream' \subseteq Downstream
    BY <2>2, <2>3 DEF Downstream
  <2> QED
    BY <2>1, <2>2, <2>3, <2>4, OtherDatagrams
<1>3. CASE EncapTimerRuns
  <2>1. /\ Encap!HandleEndTxPeriod
        /\ UNCHANGED <<bufs, timeExceeded, ipv4Queue, ipv4Channel, udpQueue, udpChannel, begun, missing, handed>>
    BY <1>3 DEF EncapTimerRuns, ipv4Vars, udpVars, netVars
  <2>2. Line' = Line /\ Downstream' = Downstream
    BY <1>0, <2>1, LineKept DEF Downstream, InIpv4Queue, AboveIpv4, DatagramsIn
  <2> QED
    BY <1>0, <2>1, <2>2, OtherDatagrams
<1>4. CASE Ipv4TimerRuns
  <2>1. /\ Ip!HandleEndUpperTxPeriod
        /\ UNCHANGED <<encapQueue, encapChannel, bufs, timeExceeded, udpQueue, udpChannel, begun, missing, handed>>
    BY <1>4 DEF Ipv4TimerRuns, Ip!HandleEndUpperTxPeriod, Ip!bufferVars, encapVars, udpVars, netVars
  <2>2. InIpv4Queue' \subseteq InIpv4Queue
    BY <1>0, <2>1, TimerQueues
  <2>3. AboveIpv4' = AboveIpv4 /\ Line' = Line
    BY <2>1 DEF AboveIpv4, DatagramsIn, Line, OnLine
  <2>4. Downstream' \subseteq Downstream
    BY <2>2, <2>3 DEF Downstream
  <2> QED
    BY <1>0, <2>1, <2>3, <2>4, OtherDatagrams
<1>5. CASE UdpTimerRuns
  <2>1. /\ Udp!HandleEndTxPeriod
        /\ UNCHANGED <<encapQueue, encapChannel, bufs, timeExceeded, ipv4Queue, ipv4Channel, begun, missing, handed>>
    BY <1>5 DEF UdpTimerRuns, encapVars, ipv4Vars, netVars
  <2>2. AboveIpv4' \subseteq AboveIpv4
    BY <1>0, <2>1, UdpTimerQueues
  <2>3. InIpv4Queue' = InIpv4Queue /\ Line' = Line
    BY <2>1 DEF InIpv4Queue, DatagramsIn, Line, OnLine
  <2>4. Downstream' \subseteq Downstream
    BY <2>2, <2>3 DEF Downstream
  <2> QED
    BY <1>0, <2>1, <2>3, <2>4, OtherDatagrams
<1>6. CASE TimerWhenDown
  <2>1. UNCHANGED <<encapQueue, encapChannel, bufs, timeExceeded, ipv4Queue, ipv4Channel, udpQueue,
                    udpChannel, begun, missing, handed>>
    BY <1>6 DEF TimerWhenDown, encapVars, ipv4Vars, udpVars, netVars
  <2>2. Line' = Line /\ Downstream' = Downstream
    BY <2>1 DEF Downstream, InIpv4Queue, AboveIpv4, DatagramsIn, Line, OnLine
  <2> QED
    BY <1>0, <2>1, <2>2, OtherDatagrams
<1> QED
  BY <1>1, <1>2, <1>3, <1>4, <1>5, <1>6

(* Each action keeps each fragment in one place.                           *)
LEMMA NextDatagrams == UpwardInv /\ DatagramInv /\ [Next]_vars => DatagramInv'
<1> SUFFICES ASSUME UpwardInv, DatagramInv, [Next]_vars
             PROVE  DatagramInv'
  OBVIOUS
<1>1. ASSUME NEW kind \in Kinds, NEW i \in 1 .. kind.parts, NewDatagramArrives(kind, i)
      PROVE  DatagramInv'
  BY <1>1, NewDatagrams
<1>2. ASSUME NEW f \in missing, FragmentArrives(f)
      PROVE  DatagramInv'
  BY <1>2, FragmentDatagrams
<1>3. CASE ScheduledEvent
  BY <1>3, EncapToIpv4Datagrams, QueueDatagrams DEF ScheduledEvent
<1>4. ASSUME UNCHANGED <<encapQueue, encapChannel, timeExceeded, ipv4Queue, ipv4Channel, udpQueue,
                         udpChannel, begun, missing, handed>>,
             bufs' \subseteq bufs
      PROVE  DatagramInv'
  <2>1. Line' = Line /\ Downstream' = Downstream /\ handed' \in Seq(ForApp)
    BY <1>4 DEF Downstream, InIpv4Queue, AboveIpv4, DatagramsIn, Line, OnLine, DatagramInv
  <2> QED
    BY <1>4, <2>1, OtherDatagrams
<1>5. CASE BuffersGrowOld \/ NodeStops \/ NodeStarts
  BY <1>4, <1>5
  DEF BuffersGrowOld, NodeStops, NodeStarts, Ip!BufferAges, Ip!Stop, encapVars, ipv4Vars, udpVars, netVars
<1>6. ASSUME NEW s \in EthernetSockets, BindEthernetSocket(s) \/ CloseEthernetSocket(s)
      PROVE  DatagramInv'
  BY <1>4, <1>6
  DEF BindEthernetSocket, CloseEthernetSocket, Encap!Bind, Encap!Close, ipv4Vars, udpVars, netVars
<1>7. ASSUME NEW s \in RawSockets, BindRawSocket(s) \/ CloseRawSocket(s)
      PROVE  DatagramInv'
  BY <1>4, <1>7
  DEF BindRawSocket, CloseRawSocket, Ip!Bind, Ip!Close, Ip!bufferVars, encapVars, udpVars, netVars
<1>8. CASE UNCHANGED vars
  BY <1>4, <1>8 DEF vars, encapVars, ipv4Vars, udpVars, netVars
<1> QED
  BY <1>1, <1>2, <1>3, <1>5, <1>6, <1>7, <1>8 DEF Next

(* Nothing has arrived.                                                    *)
LEMMA InitDatagrams == Init => DatagramInv
<1> SUFFICES ASSUME Init
             PROVE  DatagramInv
  OBVIOUS
<1>1. /\ missing = {} /\ bufs = {} /\ timeExceeded = {} /\ handed = <<>>
      /\ encapQueue = <<>> /\ encapChannel = NoPacket /\ ipv4Queue = <<>> /\ ipv4Channel = NoPacket
      /\ udpQueue = <<>> /\ udpChannel = NoPacket
  BY DEF Init, Encap!Init, Ip!Init, Udp!Init
<1>2. Line = <<>>
  BY <1>1 DEF Line, OnLine
<1>3. Upstream = {} /\ Downstream = {}
  BY <1>1, <1>2 DEF Upstream, Downstream, InIpv4Queue, AboveIpv4, DatagramsIn
<1> QED
  BY <1>1, <1>2, <1>3
  DEF DatagramInv, InOnePlace, PartsAgree, CompletedLeftNothing, GivenUpLacksPart

(* A datagram for which Ipv4 has sent "time exceeded" never reaches the    *)
(* application, whatever comes late, is lost, or waits in the queues.      *)
THEOREM GivenUpIsNotHandedHolds == Spec => []GivenUpIsNotHanded
<1>1. DatagramInv => GivenUpIsNotHanded
  BY DEF DatagramInv, GivenUpLacksPart, Downstream, InIpv4Queue, AboveIpv4, DatagramsIn, GivenUpIsNotHanded
<1>2. Spec => []DatagramInv
  BY UpwardInvariant, InitDatagrams, NextDatagrams, PTL DEF Spec
<1> QED
  BY <1>1, <1>2, PTL

-----------------------------------------------------------------------------
(***************************************************************************)
(* The way from Ipv4 to the application as a pipe.                         *)
(***************************************************************************)
(* Natural numbers: the library's induction theorems have an operator for  *)
(* a parameter; as a fact about a set induction follows from the least     *)
(* element.                                                                *)
NatLess == OpToRel(<, Nat)

(* A set of natural numbers that is not empty has a least element.         *)
LEMMA LeastElement ==
  ASSUME NEW S, S \subseteq Nat, S # {}
  PROVE  \E n \in S : \A m \in S : n <= m
<1>1. IsWellFoundedOn(NatLess, Nat)
  BY NatLessThanWellFounded DEF OpToRel, NatLess
<1>2. PICK n \in S : \A m \in S : ~ (<<m, n>> \in NatLess)
  BY <1>1, WFMin
<1>3. \A m, k \in Nat : <<m, k>> \in NatLess <=> m < k
  BY DEF NatLess, OpToRel
<1>4. \A m \in S : ~(m < n)
  BY <1>2, <1>3
<1> QED
  BY <1>4

(* A set that has 0 and with each number the next has them all.            *)
LEMMA SetInduction ==
  ASSUME NEW S, 0 \in S, \A n \in Nat : n \in S => n + 1 \in S
  PROVE  Nat \subseteq S
<1> DEFINE T == Nat \ S
<1> SUFFICES ASSUME T # {} PROVE FALSE
  OBVIOUS
<1>1. T \subseteq Nat
  OBVIOUS
<1> HIDE DEF T
<1>2. PICK n \in T : \A m \in T : n <= m
  BY <1>1, LeastElement
<1>3. n \in Nat /\ n # 0 /\ n \notin S
  BY <1>1, <1>2 DEF T
<1>4. n - 1 \in Nat /\ n - 1 \notin T
  BY <1>2, <1>3
<1>5. n - 1 \in S /\ (n - 1) + 1 = n
  BY <1>3, <1>4 DEF T
<1> QED
  BY <1>3, <1>4, <1>5

-----------------------------------------------------------------------------
(* FlattenSeq adds up from the front.                                      *)
IsSums(f, ss) ==
  \A i \in DOMAIN ss : f[i] = IF i = 1 THEN ss[i] ELSE f[i - 1] \o ss[i]

(* FlattenSeq ends in such a sum.                                          *)
LEMMA SumsExist ==
  ASSUME NEW T, NEW ss \in Seq(Seq(T)), ss # <<>>
  PROVE  \E f : IsSums(f, ss) /\ FlattenSeq(ss) = f[Len(ss)]
<1> DEFINE Joined(f, m) ==
             f = [ i \in 1 .. m |-> IF i = 1 THEN ss[i] ELSE f[i - 1] \o ss[i] ]
           flatten == CHOOSE f : Joined(f, Len(ss))
<1>1. \A m \in Nat : \E f : Joined(f, m)
  <2> DEFINE S == { m \in Nat : \E f : Joined(f, m) }
  <2>1. 0 \in S
    <3>1. Joined([ i \in 1 .. 0 |-> 0 ], 0)
      OBVIOUS
    <3> QED
      BY <3>1
  <2>2. ASSUME NEW m \in Nat, m \in S
        PROVE  m + 1 \in S
    <3>1. PICK f : Joined(f, m)
      BY <2>2
    <3> DEFINE h == [ i \in 1 .. m + 1 |->
                        IF i = 1 THEN ss[i] ELSE f[i - 1] \o ss[i] ]
    <3>2. \A i \in 1 .. m : h[i] = f[i]
      <4>1. \A i \in 1 .. m : f[i] = IF i = 1 THEN ss[i] ELSE f[i - 1] \o ss[i]
        BY <3>1
      <4>2. \A i \in 1 .. m : i \in 1 .. m + 1
        OBVIOUS
      <4> QED
        BY <4>1, <4>2
    <3>3. \A i \in 1 .. m + 1 : i # 1 => h[i - 1] = f[i - 1]
      <4>1. \A i \in 1 .. m + 1 : i # 1 => i - 1 \in 1 .. m
        OBVIOUS
      <4> HIDE DEF h
      <4> QED
        BY <3>2, <4>1
    <3>4. h = [ i \in 1 .. m + 1 |-> IF i = 1 THEN ss[i] ELSE h[i - 1] \o ss[i] ]
      <4>1. \A i \in 1 .. m + 1 :
              (IF i = 1 THEN ss[i] ELSE h[i - 1] \o ss[i])
                = (IF i = 1 THEN ss[i] ELSE f[i - 1] \o ss[i])
        <5> HIDE DEF h
        <5> QED
          BY <3>3
      <4>2. [ i \in 1 .. m + 1 |-> IF i = 1 THEN ss[i] ELSE h[i - 1] \o ss[i] ]
             = [ i \in 1 .. m + 1 |-> IF i = 1 THEN ss[i] ELSE f[i - 1] \o ss[i] ]
        <5> HIDE DEF h
        <5> QED
          BY <4>1
      <4> QED
        BY <4>2
    <3>5. Joined(h, m + 1)
      BY <3>4
    <3> HIDE DEF h, Joined
    <3>6. \E k : Joined(k, m + 1)
      BY <3>5
    <3> QED
      BY <3>6
  <2> HIDE DEF S
  <2>3. \A m \in Nat : m \in S => m + 1 \in S
    BY <2>2
  <2>4. Nat \subseteq S
    BY <2>1, <2>3, SetInduction
  <2> QED
    BY <2>4 DEF S
<1>2. Joined(flatten, Len(ss))
  <2>1. Len(ss) \in Nat
    OBVIOUS
  <2> HIDE DEF Joined
  <2>2. \E f : Joined(f, Len(ss))
    BY <1>1, <2>1
  <2> QED
    BY <2>2, Zenon
<1>3. FlattenSeq(ss) = flatten[Len(ss)]
  <2>1. Len(ss) # 0
    OBVIOUS
  <2> QED
    BY <2>1, Zenon DEF FlattenSeq
<1> HIDE DEF flatten
<1>4. IsSums(flatten, ss)
  <2>1. DOMAIN ss = 1 .. Len(ss)
    OBVIOUS
  <2> QED
    BY <1>2, <2>1 DEF IsSums
<1> QED
  BY <1>3, <1>4

(* Two sums of sequences that agree up to n agree up to n.                 *)
AgreeUpTo(f, g, n) == \A i \in 1 .. n : f[i] = g[i]

(* The sums up to n depend on the first n sequences only.                  *)
LEMMA SumsAgree ==
  ASSUME NEW T, NEW ss \in Seq(Seq(T)), NEW tt \in Seq(Seq(T)), NEW f, NEW g,
         IsSums(f, ss), IsSums(g, tt),
         NEW n \in Nat, n <= Len(ss), n <= Len(tt), AgreeUpTo(ss, tt, n)
  PROVE  AgreeUpTo(f, g, n)
<1> DEFINE S == { m \in Nat : m + 1 <= n => f[m + 1] = g[m + 1] }
<1>1. \A i \in 1 .. n : i \in DOMAIN ss /\ i \in DOMAIN tt /\ ss[i] = tt[i]
  BY DEF AgreeUpTo
<1>2. 0 \in S
  <2>1. ASSUME 1 <= n
        PROVE  f[1] = g[1]
    <3>1. 1 \in DOMAIN ss /\ 1 \in DOMAIN tt /\ ss[1] = tt[1]
      BY <1>1, <2>1
    <3>2. f[1] = ss[1] /\ g[1] = tt[1]
      BY <3>1, Zenon DEF IsSums
    <3> QED
      BY <3>1, <3>2
  <2> QED
    BY <2>1
<1>3. ASSUME NEW m \in Nat, m \in S
      PROVE  m + 1 \in S
  <2> SUFFICES ASSUME (m + 1) + 1 <= n
               PROVE  f[(m + 1) + 1] = g[(m + 1) + 1]
    OBVIOUS
  <2> DEFINE k == (m + 1) + 1
  <2>1. k \in 1 .. n /\ k # 1 /\ k - 1 = m + 1 /\ m + 1 <= n
    OBVIOUS
  <2>2. f[m + 1] = g[m + 1]
    BY <1>3, <2>1
  <2> HIDE DEF k
  <2>3. k \in DOMAIN ss /\ k \in DOMAIN tt /\ ss[k] = tt[k]
    BY <1>1, <2>1
  <2>4. f[k] = f[k - 1] \o ss[k] /\ g[k] = g[k - 1] \o tt[k]
    BY <2>1, <2>3 DEF IsSums
  <2>5. f[k] = g[k]
    BY <2>1, <2>2, <2>3, <2>4
  <2> QED
    BY <2>5 DEF k
<1> HIDE DEF S
<1>4. Nat \subseteq S
  BY <1>2, <1>3, SetInduction
<1>5. \A i \in 1 .. n : i - 1 \in S /\ (i - 1) + 1 = i /\ i <= n
  BY <1>4
<1> QED
  BY <1>5 DEF S, AgreeUpTo

(* The sums are sequences.                                                 *)
LEMMA SumsType ==
  ASSUME NEW T, NEW ss \in Seq(Seq(T)), NEW f, IsSums(f, ss)
  PROVE  \A i \in 1 .. Len(ss) : f[i] \in Seq(T)
<1> DEFINE n == Len(ss)
           S == { m \in Nat : m + 1 <= n => f[m + 1] \in Seq(T) }
<1>1. n \in Nat /\ \A i \in 1 .. n : i \in DOMAIN ss /\ ss[i] \in Seq(T)
  OBVIOUS
<1> HIDE DEF n
<1>2. 0 \in S
  <2>1. ASSUME 1 <= n
        PROVE  f[1] \in Seq(T)
    <3>1. 1 \in DOMAIN ss /\ ss[1] \in Seq(T)
      BY <1>1, <2>1
    <3>2. f[1] = ss[1]
      BY <3>1, Zenon DEF IsSums
    <3> QED
      BY <3>1, <3>2
  <2> QED
    BY <2>1
<1>3. ASSUME NEW m \in Nat, m \in S
      PROVE  m + 1 \in S
  <2> SUFFICES ASSUME (m + 1) + 1 <= n
               PROVE  f[(m + 1) + 1] \in Seq(T)
    OBVIOUS
  <2> DEFINE k == (m + 1) + 1
  <2>1. k \in 1 .. n /\ k # 1 /\ k - 1 = m + 1 /\ m + 1 <= n
    BY <1>1
  <2>2. f[m + 1] \in Seq(T)
    BY <1>3, <2>1
  <2> HIDE DEF k
  <2>3. k \in DOMAIN ss /\ ss[k] \in Seq(T)
    BY <1>1, <2>1
  <2>4. f[k] = f[k - 1] \o ss[k]
    BY <2>1, <2>3 DEF IsSums
  <2>5. f[k] \in Seq(T)
    BY <2>1, <2>2, <2>3, <2>4, ConcatProperties
  <2> QED
    BY <2>5 DEF k
<1> HIDE DEF S
<1>4. Nat \subseteq S
  BY <1>2, <1>3, SetInduction
<1>5. \A i \in 1 .. n : i - 1 \in S /\ (i - 1) + 1 = i /\ i <= n
  BY <1>1, <1>4
<1>6. \A i \in 1 .. n : f[i] \in Seq(T)
  BY <1>5 DEF S
<1> QED
  BY <1>6 DEF n

(* What FlattenSeq makes of a sequence that grows at its end and shrinks   *)
(* at its front.                                                           *)
LEMMA FlattenAppend ==
  ASSUME NEW T, NEW ss \in Seq(Seq(T)), NEW x \in Seq(T)
  PROVE  FlattenSeq(Append(ss, x)) = FlattenSeq(ss) \o x
<1> DEFINE tt == Append(ss, x)
           n == Len(ss)
<1>1. /\ tt \in Seq(Seq(T)) /\ tt # <<>> /\ Len(tt) = n + 1 /\ n \in Nat
      /\ tt[n + 1] = x /\ \A i \in 1 .. n : tt[i] = ss[i]
  BY AppendProperties
<1>2. n + 1 \in DOMAIN tt
  BY <1>1
<1> HIDE DEF tt
<1>3. PICK g : IsSums(g, tt) /\ FlattenSeq(tt) = g[Len(tt)]
  BY <1>1, SumsExist
<1>4. CASE ss = <<>>
  <2>1. n = 0 /\ FlattenSeq(ss) = <<>>
    BY <1>4 DEF FlattenSeq
  <2>2. g[1] = x
    BY <1>1, <1>2, <1>3, <2>1 DEF IsSums
  <2>3. FlattenSeq(tt) = x
    BY <1>1, <1>3, <2>1, <2>2
  <2>4. <<>> \o x = x
    BY ConcatEmptySeq
  <2> QED
    BY <2>1, <2>3, <2>4 DEF tt
<1>5. CASE ss # <<>>
  <2>1. n # 0 /\ n \in 1 .. n
    BY <1>1, <1>5
  <2>2. PICK f : IsSums(f, ss) /\ FlattenSeq(ss) = f[n]
    BY <1>5, SumsExist
  <2>3. AgreeUpTo(ss, tt, n)
    BY <1>1 DEF AgreeUpTo
  <2> HIDE DEF n
  <2>4. n <= Len(ss) /\ n <= Len(tt)
    BY <1>1 DEF n
  <2>5. AgreeUpTo(f, g, n)
    <3>1. tt \in Seq(Seq(T)) /\ n \in Nat
      BY <1>1
    <3>2. IsSums(f, ss) /\ IsSums(g, tt)
      BY <1>3, <2>2
    <3> QED
      BY <2>3, <2>4, <3>1, <3>2, SumsAgree
  <2>6. f[n] = g[n]
    BY <2>1, <2>5 DEF AgreeUpTo
  <2>7. n + 1 # 1 /\ (n + 1) - 1 = n
    BY <1>1, <2>1
  <2>8. g[n + 1] = g[n] \o x
    BY <1>1, <1>2, <1>3, <2>7 DEF IsSums
  <2>9. FlattenSeq(tt) = FlattenSeq(ss) \o x
    BY <1>1, <1>3, <2>2, <2>6, <2>8
  <2> QED
    BY <2>9 DEF tt
<1> QED
  BY <1>4, <1>5

Associate(u, v, w) == (u \o v) \o w = u \o (v \o w)

(* Concatenation is associative.                                           *)
LEMMA ConcatAssociates ==
  ASSUME NEW T, NEW u \in Seq(T), NEW v \in Seq(T), NEW w \in Seq(T)
  PROVE  Associate(u, v, w)
BY DEF Associate

(* The first sequence comes first.                                         *)
LEMMA FlattenHead ==
  ASSUME NEW T, NEW ss \in Seq(Seq(T)), ss # <<>>
  PROVE  FlattenSeq(ss) = Head(ss) \o FlattenSeq(Tail(ss))
<1> DEFINE tt == Tail(ss)
           n == Len(tt)
           x == Head(ss)
<1>1. /\ tt \in Seq(Seq(T)) /\ Len(ss) = n + 1 /\ n \in Nat /\ x \in Seq(T)
      /\ x = ss[1] /\ \A i \in 1 .. n : tt[i] = ss[i + 1]
  BY HeadTailProperties
<1>2. \A i \in 1 .. n + 1 : i \in DOMAIN ss
  BY <1>1
<1>3. PICK f : IsSums(f, ss) /\ FlattenSeq(ss) = f[n + 1]
  BY <1>1, SumsExist
<1>4. 1 \in 1 .. n + 1
  BY <1>1
<1>5. f[1] = x
  BY <1>1, <1>2, <1>3, <1>4 DEF IsSums
<1> HIDE DEF tt, x
<1>6. CASE tt = <<>>
  <2>1. n = 0 /\ FlattenSeq(tt) = <<>>
    BY <1>6 DEF FlattenSeq
  <2>2. x \o <<>> = x
    BY <1>1, ConcatEmptySeq
  <2>3. FlattenSeq(ss) = x \o FlattenSeq(tt)
    BY <1>3, <1>5, <2>1, <2>2
  <2> QED
    BY <2>3 DEF x, tt
<1>7. CASE tt # <<>>
  <2>1. n # 0 /\ DOMAIN tt = 1 .. n
    BY <1>1, <1>7
  <2>2. PICK g : IsSums(g, tt) /\ FlattenSeq(tt) = g[n]
    BY <1>1, <1>7, SumsExist
  <2>3. \A i \in 1 .. n : g[i] \in Seq(T) /\ tt[i] \in Seq(T)
    BY <1>1, <2>2, SumsType
  <2> HIDE DEF n
  <2> DEFINE S == { m \in Nat : m + 1 <= n => f[(m + 1) + 1] = x \o g[m + 1] }
  <2>4. 0 \in S
    <3>1. 1 \in 1 .. n /\ 2 \in 1 .. n + 1 /\ 2 - 1 = 1 /\ 2 # 1
      BY <1>1, <2>1
    <3>2. g[1] = tt[1]
      BY <2>1, <2>2, <3>1 DEF IsSums
    <3>3. f[2] = f[1] \o ss[2]
      BY <1>2, <1>3, <3>1 DEF IsSums
    <3>4. ss[2] = tt[1]
      BY <1>1, <3>1
    <3>5. f[2] = x \o g[1]
      BY <1>5, <3>2, <3>3, <3>4
    <3> QED
      BY <3>5
  <2>5. ASSUME NEW m \in Nat, m \in S
        PROVE  m + 1 \in S
    <3> SUFFICES ASSUME (m + 1) + 1 <= n
                 PROVE  f[((m + 1) + 1) + 1] = x \o g[(m + 1) + 1]
      OBVIOUS
    <3> DEFINE k == (m + 1) + 1
    <3>1. /\ k \in 1 .. n /\ k # 1 /\ k - 1 = m + 1 /\ m + 1 <= n /\ m + 1 \in 1 .. n
          /\ k + 1 \in 1 .. n + 1 /\ k + 1 # 1 /\ (k + 1) - 1 = k
      BY <1>1
    <3>2. f[k] = x \o g[m + 1]
      BY <2>5, <3>1
    <3> HIDE DEF k, S
    <3>3. f[k + 1] = f[k] \o ss[k + 1]
      BY <1>2, <1>3, <3>1 DEF IsSums
    <3>4. g[k] = g[m + 1] \o tt[k]
      BY <2>1, <2>2, <3>1 DEF IsSums
    <3>5. ss[k + 1] = tt[k] /\ g[m + 1] \in Seq(T) /\ tt[k] \in Seq(T)
      BY <1>1, <2>3, <3>1
    <3>6. (x \o g[m + 1]) \o tt[k] = x \o (g[m + 1] \o tt[k])
      <4>1. x \in Seq(T)
        BY <1>1
      <4>2. Associate(x, g[m + 1], tt[k])
        BY <3>5, <4>1, ConcatAssociates
      <4> QED
        BY <4>2 DEF Associate
    <3>7. f[k + 1] = x \o g[k]
      BY <3>2, <3>3, <3>4, <3>5, <3>6
    <3> QED
      BY <3>7 DEF k
  <2> HIDE DEF S
  <2>6. Nat \subseteq S
    BY <2>4, <2>5, SetInduction
  <2>7. n - 1 \in S /\ (n - 1) + 1 = n /\ n <= n
    BY <1>1, <2>1, <2>6
  <2>8. f[n + 1] = x \o g[n]
    BY <2>7 DEF S
  <2>9. FlattenSeq(ss) = x \o FlattenSeq(tt)
    BY <1>3, <2>2, <2>8
  <2> QED
    BY <2>9 DEF x, tt
<1> QED
  BY <1>6, <1>7

(* What is flattened is a sequence.                                        *)
LEMMA FlattenType ==
  ASSUME NEW T, NEW ss \in Seq(Seq(T))
  PROVE  FlattenSeq(ss) \in Seq(T)
<1>1. CASE ss = <<>>
  <2>1. FlattenSeq(ss) = <<>>
    BY <1>1 DEF FlattenSeq
  <2> QED
    BY <2>1
<1>2. CASE ss # <<>>
  <2>1. PICK f : IsSums(f, ss) /\ FlattenSeq(ss) = f[Len(ss)]
    BY <1>2, SumsExist
  <2>2. Len(ss) \in 1 .. Len(ss)
    BY <1>2
  <2> QED
    BY <2>1, <2>2, SumsType
<1> QED
  BY <1>1, <1>2

-----------------------------------------------------------------------------
(* What waits in the queue of Ipv4 for the application.                    *)
Awaiting(q) == FlattenSeq([ i \in DOMAIN q |-> OfQueued(q[i]) ])

(* What Udp makes of a datagram.                                           *)
LEMMA PayloadsType ==
  ASSUME NEW p \in Parts
  PROVE  /\ Payloads(p) \in Seq(ForApp) /\ OfQueued(p) \in Seq(ForApp)
         /\ p.copies > 0 => Len(Payloads(p)) > 0
         /\ ~(p.copies > 0) => Payloads(p) = <<>>
<1>1. p.copies \in Nat /\ p.datagram \in Nat \ {0}
  BY DEF Parts
<1>2. Payloads(p) \in [1 .. p.copies -> ForApp]
  BY <1>1 DEF Payloads, ForApp
<1>3. Payloads(p) \in Seq(ForApp) /\ Len(Payloads(p)) = p.copies
  BY <1>1, <1>2, SeqDef
<1> QED
  BY <1>1, <1>3 DEF OfQueued

(* What awaits grows and shrinks with the queue.                           *)
LEMMA AwaitingFacts ==
  ASSUME NEW q \in Seq(Parts), NEW p \in Parts
  PROVE  /\ Awaiting(<<>>) = <<>>
         /\ Awaiting(q) \in Seq(ForApp)
         /\ Awaiting(Append(q, p)) = Awaiting(q) \o OfQueued(p)
         /\ q # <<>> => Awaiting(q) = OfQueued(Head(q)) \o Awaiting(Tail(q))
<1> DEFINE M(r) == [ i \in DOMAIN r |-> OfQueued(r[i]) ]
<1>1. ASSUME NEW r \in Seq(Parts)
      PROVE  M(r) \in Seq(Seq(ForApp)) /\ Len(M(r)) = Len(r)
  <2>1. \A i \in 1 .. Len(r) : r[i] \in Parts
    OBVIOUS
  <2>2. \A i \in 1 .. Len(r) : OfQueued(r[i]) \in Seq(ForApp)
    BY <2>1, PayloadsType
  <2>3. DOMAIN r = 1 .. Len(r) /\ Len(r) \in Nat
    OBVIOUS
  <2>4. M(r) \in [1 .. Len(r) -> Seq(ForApp)]
    BY <2>2, <2>3
  <2> HIDE DEF M
  <2> QED
    BY <2>3, <2>4, SeqDef
<1>2. Awaiting(<<>>) = <<>>
  <2>1. M(<<>>) = <<>>
    OBVIOUS
  <2>2. FlattenSeq(<<>>) = <<>>
    BY DEF FlattenSeq
  <2> QED
    BY <2>1, <2>2 DEF Awaiting
<1>3. Awaiting(q) \in Seq(ForApp)
  BY <1>1, FlattenType DEF Awaiting
<1>4. Awaiting(Append(q, p)) = Awaiting(q) \o OfQueued(p)
  <2>1. /\ Append(q, p) \in Seq(Parts) /\ Len(Append(q, p)) = Len(q) + 1
        /\ Append(q, p)[Len(q) + 1] = p /\ \A i \in 1 .. Len(q) : Append(q, p)[i] = q[i]
    BY AppendProperties
  <2>2. /\ DOMAIN Append(q, p) = 1 .. Len(q) + 1 /\ DOMAIN q = 1 .. Len(q) /\ Len(q) \in Nat
    BY <2>1
  <2>3. /\ M(q) \in Seq(Seq(ForApp)) /\ Len(M(q)) = Len(q) /\ OfQueued(p) \in Seq(ForApp)
        /\ M(Append(q, p)) \in Seq(Seq(ForApp)) /\ Len(M(Append(q, p))) = Len(q) + 1
    BY <1>1, <2>1, PayloadsType
  <2>4. \A i \in 1 .. Len(q) + 1 :
          M(Append(q, p))[i] = IF i = Len(q) + 1 THEN OfQueued(p) ELSE M(q)[i]
    <3>1. ASSUME NEW i \in 1 .. Len(q) + 1, i # Len(q) + 1
          PROVE  i \in 1 .. Len(q)
      BY <3>1
    <3> QED
      BY <2>1, <2>2, <3>1
  <2> HIDE DEF M
  <2>5. M(Append(q, p)) = Append(M(q), OfQueued(p))
    <3>1. /\ Append(M(q), OfQueued(p)) \in Seq(Seq(ForApp))
          /\ Len(Append(M(q), OfQueued(p))) = Len(q) + 1
          /\ \A i \in 1 .. Len(q) + 1 : Append(M(q), OfQueued(p))[i]
                                          = IF i = Len(q) + 1 THEN OfQueued(p) ELSE M(q)[i]
      BY <2>2, <2>3
    <3> QED
      BY <2>3, <2>4, <3>1, SeqEqual
  <2>6. FlattenSeq(Append(M(q), OfQueued(p))) = FlattenSeq(M(q)) \o OfQueued(p)
    BY <2>3, FlattenAppend
  <2> QED
    BY <2>5, <2>6 DEF Awaiting, M
<1>5. ASSUME q # <<>>
      PROVE  Awaiting(q) = OfQueued(Head(q)) \o Awaiting(Tail(q))
  <2>1. /\ Tail(q) \in Seq(Parts) /\ Len(Tail(q)) = Len(q) - 1
        /\ \A i \in 1 .. Len(Tail(q)) : Tail(q)[i] = q[i + 1]
        /\ Head(q) = q[1] /\ Len(q) \in Nat /\ Len(q) > 0
    BY <1>5, HeadTailProperties
  <2>2. /\ M(q) \in Seq(Seq(ForApp)) /\ Len(M(q)) = Len(q)
        /\ M(Tail(q)) \in Seq(Seq(ForApp)) /\ Len(M(Tail(q))) = Len(q) - 1
    BY <1>1, <2>1
  <2>3. /\ DOMAIN q = 1 .. Len(q) /\ DOMAIN Tail(q) = 1 .. Len(q) - 1
    BY <2>1
  <2>4. M(q)[1] = OfQueued(Head(q))
    BY <2>1, <2>3
  <2>5. \A i \in 1 .. Len(q) - 1 : M(Tail(q))[i] = M(q)[i + 1]
    BY <2>1, <2>3
  <2> HIDE DEF M
  <2>6. M(q) # <<>> /\ Head(M(q)) = OfQueued(Head(q))
    BY <2>1, <2>2, <2>4
  <2>7. Tail(M(q)) = M(Tail(q))
    <3>1. /\ Tail(M(q)) \in Seq(Seq(ForApp)) /\ Len(Tail(M(q))) = Len(q) - 1
          /\ \A i \in 1 .. Len(q) - 1 : Tail(M(q))[i] = M(q)[i + 1]
      BY <2>2, <2>6, HeadTailProperties
    <3> QED
      BY <2>2, <2>5, <3>1, SeqEqual
  <2>8. FlattenSeq(M(q)) = Head(M(q)) \o FlattenSeq(Tail(M(q)))
    BY <2>2, <2>6, FlattenHead
  <2> QED
    BY <2>6, <2>7, <2>8 DEF Awaiting, M
<1> QED
  BY <1>2, <1>3, <1>4, <1>5

-----------------------------------------------------------------------------
(* The four stages of the pipe, and what a step may do to them.            *)
Stages(a, b, c, d) == a \o b \o c \o d

StagesGrowBy(a, b, c, d, x) == Stages(a, b, c, d \o x) = Stages(a, b, c, d) \o x

SameStages(a, b, c, d, e, f, g, h) == Stages(a, b, c, d) = Stages(e, f, g, h)

HeadStage(x, a, b, c) ==
  /\ Stages(<<x>>, a, b, c) # <<>>
  /\ Head(Stages(<<x>>, a, b, c)) = x
  /\ Tail(Stages(<<x>>, a, b, c)) = Stages(<<>>, a, b, c)

CutFrom(s, t) ==
  \E i, j \in DOMAIN s : i <= j /\ t = SubSeq(s, 1, i - 1) \o SubSeq(s, j + 1, Len(s))

(* The stages together are a sequence.                                     *)
LEMMA StagesType ==
  ASSUME NEW T, NEW a \in Seq(T), NEW b \in Seq(T), NEW c \in Seq(T), NEW d \in Seq(T)
  PROVE  Stages(a, b, c, d) \in Seq(T)
BY DEF Stages

(* What the last stage gets comes at the end.                              *)
LEMMA StagesGrow ==
  ASSUME NEW T, NEW a \in Seq(T), NEW b \in Seq(T), NEW c \in Seq(T), NEW d \in Seq(T),
         NEW x \in Seq(T)
  PROVE  StagesGrowBy(a, b, c, d, x)
<1> DEFINE u == a \o b \o c
<1>1. u \in Seq(T)
  OBVIOUS
<1> HIDE DEF u
<1>2. Associate(u, d, x)
  BY <1>1, ConcatAssociates
<1> QED
  BY <1>2 DEF Associate, Stages, StagesGrowBy, u

(* From the last stage to the one before it.                               *)
LEMMA StagesMoveUp ==
  ASSUME NEW T, NEW a \in Seq(T), NEW b \in Seq(T), NEW c \in Seq(T), NEW d \in Seq(T),
         NEW e \in Seq(T), NEW f \in Seq(T), c \o d = e \o f
  PROVE  SameStages(a, b, c, d, a, b, e, f)
<1> DEFINE u == a \o b
<1>1. u \in Seq(T)
  OBVIOUS
<1> HIDE DEF u
<1>2. Associate(u, c, d) /\ Associate(u, e, f)
  BY <1>1, ConcatAssociates
<1> QED
  BY <1>2 DEF Associate, Stages, SameStages, u

(* From the third stage to the first two.                                  *)
LEMMA StagesMoveOn ==
  ASSUME NEW T, NEW a \in Seq(T), NEW b \in Seq(T), NEW c \in Seq(T), NEW d \in Seq(T),
         NEW e \in Seq(T), NEW f \in Seq(T), a \o b \o c = e \o f
  PROVE  SameStages(a, b, c, d, e, f, <<>>, d)
<1>1. e \o f \in Seq(T)
  OBVIOUS
<1>2. (e \o f) \o <<>> = e \o f
  BY <1>1, ConcatEmptySeq
<1> QED
  BY <1>2 DEF Stages, SameStages

(* What leaves the first stage is the head.                                *)
LEMMA StagesHead ==
  ASSUME NEW T, NEW a \in Seq(T), NEW b \in Seq(T), NEW c \in Seq(T), NEW x \in T
  PROVE  HeadStage(x, a, b, c)
<1> DEFINE r == a \o b \o c
<1>1. r \in Seq(T) /\ <<x>> \in Seq(T) /\ a \o b \in Seq(T)
  OBVIOUS
<1>2. Associate(<<x>>, a, b) /\ Associate(<<x>>, a \o b, c)
  BY <1>1, ConcatAssociates
<1>3. Stages(<<x>>, a, b, c) = <<x>> \o r
  BY <1>2 DEF Associate, Stages
<1>4. Stages(<<>>, a, b, c) = r
  BY ConcatEmptySeq DEF Stages
<1> HIDE DEF r
<1>5. <<x>> \o r # <<>> /\ Head(<<x>> \o r) = x /\ Tail(<<x>> \o r) = r
  BY <1>1
<1> QED
  BY <1>3, <1>4, <1>5 DEF HeadStage

(* A stage that is cut out leaves what was before it and after it.         *)
LEMMA StagesCut ==
  ASSUME NEW T, NEW a \in Seq(T), NEW b \in Seq(T), NEW c \in Seq(T), NEW d \in Seq(T), c # <<>>
  PROVE  CutFrom(Stages(a, b, c, d), Stages(a, b, <<>>, d))
<1> DEFINE u == a \o b
           all == u \o c \o d
<1>1. u \in Seq(T)
  OBVIOUS
<1>2. Stages(a, b, c, d) = all
  BY DEF Stages
<1>3. Stages(a, b, <<>>, d) = u \o d
  <2>1. u \o <<>> = u
    BY <1>1, ConcatEmptySeq
  <2> QED
    BY <2>1 DEF Stages
<1> HIDE DEF u
<1> DEFINE k == Len(u)
           m == Len(c)
           n == Len(d)
<1>4. k \in Nat /\ m \in Nat /\ m > 0 /\ n \in Nat
  BY <1>1
<1>5. /\ all \in Seq(T) /\ Len(all) = (k + m) + n
      /\ \A i \in 1 .. k : all[i] = u[i]
      /\ \A i \in 1 .. n : all[(k + m) + i] = d[i]
  <2>1. /\ u \o c \in Seq(T) /\ Len(u \o c) = k + m
        /\ \A i \in 1 .. k : (u \o c)[i] = u[i]
    BY <1>1
  <2> DEFINE w == u \o c
  <2> HIDE DEF w
  <2>2. /\ w \in Seq(T) /\ Len(w) = k + m /\ \A i \in 1 .. k : w[i] = u[i]
    BY <2>1 DEF w
  <2>3. /\ w \o d \in Seq(T) /\ Len(w \o d) = Len(w) + n
        /\ \A i \in 1 .. Len(w) : (w \o d)[i] = w[i]
        /\ \A i \in 1 .. n : (w \o d)[Len(w) + i] = d[i]
    <3>1. w \in Seq(T)
      BY <2>2
    <3> QED
      BY <3>1
  <2>4. \A i \in 1 .. k : i \in 1 .. k + m
    BY <1>4
  <2> QED
    BY <2>2, <2>3, <2>4 DEF w
<1> HIDE DEF all
<1>6. SubSeq(all, 1, (k + 1) - 1) = u
  <2> HIDE DEF m, n
  <2>1. (k + 1) - 1 = k /\ k <= Len(all)
    BY <1>4, <1>5
  <2>2. /\ SubSeq(all, 1, k) \in Seq(T) /\ Len(SubSeq(all, 1, k)) = k
        /\ \A i \in 1 .. k : SubSeq(all, 1, k)[i] = all[i]
    BY <1>4, <1>5, <2>1
  <2>3. SubSeq(all, 1, k) = u
    BY <1>1, <1>5, <2>2, SeqEqual
  <2> QED
    BY <2>1, <2>3
<1>7. SubSeq(all, (k + m) + 1, Len(all)) = d
  <2> HIDE DEF k, m
  <2>1. /\ (k + m) + 1 \in 1 .. Len(all) + 1 /\ Len(all) \in Nat
        /\ Len(all) - ((k + m) + 1) + 1 = n
    BY <1>4, <1>5
  <2> DEFINE r == SubSeq(all, (k + m) + 1, Len(all))
  <2>2. r \in Seq(T)
    BY <1>4, <1>5, <2>1
  <2>3. Len(r) = n
    BY <1>4, <1>5, <2>1
  <2>4. \A i \in 1 .. n : r[i] = all[(k + m) + i]
    <3> SUFFICES ASSUME NEW i \in 1 .. n
                 PROVE  r[i] = all[(k + m) + i]
      OBVIOUS
    <3> DEFINE s == (k + m) + 1
    <3>1. s \in 1 .. Len(all) + 1 /\ Len(all) - s + 1 = n /\ s \in Nat
      BY <1>4, <2>1
    <3> HIDE DEF s
    <3>2. SubSeq(all, s, Len(all))[i] = all[s + i - 1]
      BY <1>4, <1>5, <2>1, <3>1
    <3>3. s + i - 1 = (k + m) + i
      BY <1>4 DEF s
    <3> QED
      BY <3>2, <3>3 DEF s
  <2> HIDE DEF r
  <2> QED
    BY <1>5, <2>2, <2>3, <2>4, SeqEqual DEF r
<1>8. /\ k + 1 \in DOMAIN all /\ k + m \in DOMAIN all /\ k + 1 <= k + m
  <2> HIDE DEF k, m, n
  <2>1. DOMAIN all = 1 .. (k + m) + n
    BY <1>5
  <2> QED
    BY <1>4, <2>1
<1> HIDE DEF k, m, n
<1>9. u \o d = SubSeq(all, 1, (k + 1) - 1) \o SubSeq(all, (k + m) + 1, Len(all))
  BY <1>6, <1>7
<1> QED
  BY <1>2, <1>3, <1>8, <1>9 DEF CutFrom

-----------------------------------------------------------------------------
(* Only finitely many raw sockets are ever bound, so that the copies of a  *)
(* datagram can be counted.                                                *)
SocketsFinite == IsFiniteSet({ s \in RawSockets : ipv4Sockets[s] # NoSocket })

(* No socket is bound at first.                                            *)
LEMMA InitSockets == Init => SocketsFinite
<1> SUFFICES ASSUME Init
             PROVE  SocketsFinite
  OBVIOUS
<1>1. { s \in RawSockets : ipv4Sockets[s] # NoSocket } = {}
  BY DEF Init, Ip!Init
<1> QED
  BY <1>1, FS_EmptySet DEF SocketsFinite

(* A step binds at most one socket more.                                   *)
LEMMA NextSockets == UpwardInv /\ SocketsFinite /\ [Next]_vars => SocketsFinite'
<1> SUFFICES ASSUME UpwardInv, SocketsFinite, [Next]_vars
             PROVE  SocketsFinite'
  OBVIOUS
<1> DEFINE bound == { s \in RawSockets : ipv4Sockets[s] # NoSocket }
<1>0. IsFiniteSet(bound) /\ ipv4Sockets = [s \in RawSockets |-> ipv4Sockets[s]]
  BY DEF SocketsFinite, UpwardInv, Ipv4Inv
<1>1. CASE UNCHANGED ipv4Sockets
  BY <1>1 DEF SocketsFinite
<1>2. ASSUME NEW s \in RawSockets, NEW protocol, ipv4Sockets' = [ipv4Sockets EXCEPT ![s] = protocol]
      PROVE  SocketsFinite'
  <2>1. bound' \subseteq bound \cup {s}
    BY <1>0, <1>2
  <2>2. IsFiniteSet(bound \cup {s})
    BY <1>0, FS_AddElement
  <2>3. IsFiniteSet(bound')
    BY <2>1, <2>2, FS_Subset
  <2> QED
    BY <2>3 DEF SocketsFinite
<1>3. ASSUME ipv4Sockets' = [s \in RawSockets |-> NoSocket]
      PROVE  SocketsFinite'
  <2>1. bound' = {}
    BY <1>3
  <2> QED
    BY <2>1, FS_EmptySet DEF SocketsFinite
<1>4. CASE \E s \in RawSockets : BindRawSocket(s) \/ CloseRawSocket(s)
  BY <1>2, <1>4 DEF BindRawSocket, CloseRawSocket, Ip!Bind, Ip!Close
<1>5. CASE NodeStops
  BY <1>3, <1>5 DEF NodeStops, Ip!Stop
<1>6. CASE ScheduledEvent
  BY <1>1, <1>6
  DEF ScheduledEvent, EncapToIpv4, Ipv4ToUdp, UdpToApp, EncapTimerRuns, Ipv4TimerRuns, UdpTimerRuns,
      TimerWhenDown, Ip!ReassembleAndDeliver, Ip!Buffer, Ip!Deliver, Ip!TransmissionEnds,
      Ip!HandleEndUpperTxPeriod, ipv4Vars
<1>7. CASE \/ \E kind \in Kinds : \E i \in 1 .. kind.parts : NewDatagramArrives(kind, i)
           \/ \E f \in missing : FragmentArrives(f)
           \/ BuffersGrowOld
           \/ \E s \in EthernetSockets : BindEthernetSocket(s) \/ CloseEthernetSocket(s)
           \/ NodeStarts
  BY <1>1, <1>7
  DEF NewDatagramArrives, FragmentArrives, FrameArrives, BuffersGrowOld, Ip!BufferAges,
      BindEthernetSocket, CloseEthernetSocket, NodeStarts, ipv4Vars
<1>8. CASE UNCHANGED vars
  BY <1>1, <1>8 DEF vars, ipv4Vars
<1> QED
  BY <1>4, <1>5, <1>6, <1>7, <1>8 DEF Next

-----------------------------------------------------------------------------
(* The stages are sequences.                                               *)
LEMMA PathStages ==
  ASSUME UpwardInv
  PROVE  /\ On(udpChannel) \in Seq(ForApp) /\ udpQueue \in Seq(ForApp)
         /\ OfChannel(ipv4Channel) \in Seq(ForApp)
         /\ ipv4Queue \in Seq(Parts) /\ Awaiting(ipv4Queue) \in Seq(ForApp)
         /\ Path = Stages(On(udpChannel), udpQueue, OfChannel(ipv4Channel), Awaiting(ipv4Queue))
<1>1. On(udpChannel) \in Seq(ForApp) /\ udpQueue \in Seq(ForApp) /\ ipv4Queue \in Seq(Parts)
  BY DEF UpwardInv, UdpInv, Ipv4Inv, On
<1>2. OfChannel(ipv4Channel) \in Seq(ForApp)
  <2>1. ipv4Channel # NoPacket => ipv4Channel.packet \in Parts
    BY DEF UpwardInv, Ipv4Inv, Carried
  <2> QED
    BY <2>1, PayloadsType DEF OfChannel
<1>3. Awaiting(ipv4Queue) \in Seq(ForApp)
  <2>1. CASE ipv4Queue = <<>>
    <3>1. Awaiting(<<>>) = <<>>
      BY DEF Awaiting, FlattenSeq
    <3>2. Awaiting(ipv4Queue) = <<>>
      BY <2>1, <3>1, Zenon
    <3>3. <<>> \in Seq(ForApp)
      OBVIOUS
    <3> QED
      BY <3>2, <3>3, Zenon
  <2>2. CASE ipv4Queue # <<>>
    <3>1. ipv4Queue[1] \in Parts
      BY <1>1, <2>2
    <3> QED
      BY <1>1, <3>1, AwaitingFacts
  <2> QED
    BY <2>1, <2>2
<1>4. Path = Stages(On(udpChannel), udpQueue, OfChannel(ipv4Channel), Awaiting(ipv4Queue))
  BY DEF Path, Stages, Awaiting
<1> QED
  BY <1>1, <1>2, <1>3, <1>4

(* Where the pipe stays as it is, and where an error ends the simulation.  *)
PipeStep == [PathAsPipe!Next]_<<Path, handed, ~Running>>

(* A step that hands nothing over and keeps the path, or fails.            *)
LEMMA PipeRests ==
  ASSUME Running, UNCHANGED handed, Path' = Path \/ ~Running'
  PROVE  PipeStep
<1>1. CASE Running'
  <2>1. (~Running)' = ~Running /\ Path' = Path
    BY <1>1
  <2> QED
    BY <2>1 DEF PipeStep
<1>2. CASE ~Running'
  <2>1. (~Running)' = TRUE /\ (~Running) = FALSE
    BY <1>2
  <2>2. PathAsPipe!Fail
    BY <2>1 DEF PathAsPipe!Fail
  <2> QED
    BY <2>2 DEF PipeStep, PathAsPipe!Next
<1> QED
  BY <1>1, <1>2

(* The queues and channels decide the path.                                *)
LEMMA SamePath ==
  ASSUME UNCHANGED <<ipv4Queue, ipv4Channel, udpQueue, udpChannel>>
  PROVE  Path' = Path
BY DEF Path

-----------------------------------------------------------------------------
(* A datagram on its way up goes from the queue to the channel, unless no  *)
(* protocol is connected.                                                  *)
LEMMA FinishMoves ==
  ASSUME UpwardInv, SocketsFinite, Running', NEW p \in Parts, NEW t,
         Ip!ReassembleAndDeliverFinish(p, t)
  PROVE  OfChannel(ipv4Channel)' = OfChannel(ipv4Channel) \o OfQueued(p)
<1> DEFINE raw == Cardinality(Ip!Raw(p))
           copies == raw + IF p.protocol \in {"udp"} THEN 1 ELSE 0
<1>1. raw \in Nat
  <2>1. p.protocol # NoSocket
    BY UpwardAssumption DEF Parts
  <2>2. Ip!Raw(p) \subseteq { s \in RawSockets : ipv4Sockets[s] # NoSocket }
    BY <2>1 DEF Ip!Raw
  <2>3. IsFiniteSet(Ip!Raw(p))
    BY <2>2, FS_Subset DEF SocketsFinite
  <2> QED
    BY <2>3, FS_CardinalityType
<1>2. \/ copies = 0 /\ ipv4Channel' = ipv4Channel
      \/ copies = 1 /\ ~Ip!Busy /\ p.protocol = "udp"
           /\ ipv4Channel' = [packet |-> p, to |-> "protocol"]
      \/ copies = 1 /\ ~Ip!Busy /\ p.protocol # "udp"
           /\ ipv4Channel' = [packet |-> p, to |-> "socket"]
  <2>1. Ip!Cardinality(Ip!Raw(p)) = raw
    BY SameCardinality
  <2>2. error' # "channel busy"
    BY DEF Running
  <2> HIDE DEF raw
  <2> QED
    BY <2>1, <2>2
    DEF Ip!ReassembleAndDeliverFinish, Ip!NotConnected, Ip!PassUpToProtocol, Ip!PassUpToSocket,
        Ip!ToProtocol, Ip!ToSocket
<1> HIDE DEF raw
<1>3. OfChannel(ipv4Channel) \in Seq(ForApp) /\ Payloads(p) \in Seq(ForApp)
  BY PathStages, PayloadsType
<1>4. CASE copies = 0 /\ ipv4Channel' = ipv4Channel
  <2>1. OfQueued(p) = <<>>
    BY <1>1, <1>4 DEF OfQueued
  <2>2. OfChannel(ipv4Channel)' = OfChannel(ipv4Channel)
    BY <1>4 DEF OfChannel
  <2> QED
    BY <1>3, <2>1, <2>2, ConcatEmptySeq
<1>5. ASSUME ~Ip!Busy
      PROVE  OfChannel(ipv4Channel) \o OfQueued(p) = OfQueued(p)
  <2>1. OfChannel(ipv4Channel) = <<>>
    BY <1>5 DEF Ip!Busy, OfChannel
  <2>2. OfQueued(p) \in Seq(ForApp)
    BY PayloadsType
  <2> QED
    BY <2>1, <2>2, ConcatEmptySeq
<1>6. CASE ~Ip!Busy /\ p.protocol = "udp" /\ ipv4Channel' = [packet |-> p, to |-> "protocol"]
  <2>1. ipv4Channel' # NoPacket
    BY <1>6, NotNull
  <2>2. OfQueued(p) = Payloads(p)
    BY <1>6 DEF OfQueued
  <2>3. OfChannel(ipv4Channel') = Payloads(p)
    <3>1. CASE p.copies > 0
      BY <1>6, <2>1, <3>1 DEF OfChannel, ForUdp
    <3>2. CASE ~(p.copies > 0)
      <4>1. Payloads(p) = <<>>
        BY <3>2, PayloadsType
      <4> QED
        BY <1>6, <3>2, <4>1 DEF OfChannel, ForUdp
    <3> QED
      BY <3>1, <3>2
  <2>4. OfChannel(ipv4Channel)' = OfChannel(ipv4Channel')
    BY DEF OfChannel
  <2> QED
    BY <1>5, <1>6, <2>2, <2>3, <2>4
<1>7. CASE ~Ip!Busy /\ p.protocol # "udp" /\ ipv4Channel' = [packet |-> p, to |-> "socket"]
  <2>1. OfQueued(p) = <<>>
    BY <1>7 DEF OfQueued
  <2>2. OfChannel(ipv4Channel') = <<>>
    BY <1>7 DEF OfChannel, ForUdp
  <2>3. OfChannel(ipv4Channel)' = OfChannel(ipv4Channel')
    BY DEF OfChannel
  <2> QED
    BY <1>5, <1>7, <2>1, <2>2, <2>3
<1> QED
  BY <1>2, <1>4, <1>6, <1>7

(* The same for what Ipv4 takes from the front of its queue.               *)
LEMMA HeadMoves ==
  ASSUME UpwardInv, SocketsFinite, Running', NEW q \in Seq(Parts), q # <<>>, NEW t,
         ipv4Queue' = Tail(q), Ip!ReassembleAndDeliverFinish(Head(q), t)
  PROVE  /\ OfChannel(ipv4Channel') \in Seq(ForApp) /\ Awaiting(ipv4Queue') \in Seq(ForApp)
         /\ OfChannel(ipv4Channel') \o Awaiting(ipv4Queue') = OfChannel(ipv4Channel) \o Awaiting(q)
<1> DEFINE c == OfChannel(ipv4Channel)
           h == OfQueued(Head(q))
           r == Awaiting(Tail(q))
<1>1. Head(q) \in Parts /\ Tail(q) \in Seq(Parts)
  BY HeadTailProperties
<1>2. c \in Seq(ForApp) /\ h \in Seq(ForApp) /\ r \in Seq(ForApp)
  BY <1>1, PathStages, PayloadsType, AwaitingFacts
<1>3. OfChannel(ipv4Channel') = c \o h
  <2>1. OfChannel(ipv4Channel)' = c \o h
    BY <1>1, FinishMoves
  <2> QED
    BY <2>1 DEF OfChannel
<1>4. Awaiting(ipv4Queue') = r
  OBVIOUS
<1>5. Awaiting(q) = h \o r
  BY <1>1, AwaitingFacts
<1> HIDE DEF c, h, r
<1>6. Associate(c, h, r)
  BY <1>2, ConcatAssociates
<1>7. (c \o h) \o r = c \o Awaiting(q) /\ c \o h \in Seq(ForApp)
  BY <1>2, <1>5, <1>6 DEF Associate
<1>8. OfChannel(ipv4Channel') \o Awaiting(ipv4Queue') = c \o Awaiting(q)
  BY <1>3, <1>4, <1>7
<1> QED
  BY <1>2, <1>3, <1>4, <1>7, <1>8 DEF c

(* The path after a step, from the stages after it.                        *)
LEMMA NextPath ==
  Path' = Stages(On(udpChannel'), udpQueue', OfChannel(ipv4Channel'), Awaiting(ipv4Queue'))
BY DEF Path, Stages, Awaiting, On, OfChannel

(* Ipv4 gets a frame: what it completes joins the end of the path.         *)
LEMMA DeliverPuts ==
  ASSUME UpwardInv, SocketsFinite, Running', NEW p \in Parts, Ip!Deliver(p),
         UNCHANGED <<udpQueue, udpChannel>>
  PROVE  \E x \in Seq(ForApp) : Path' = Path \o x
<1> DEFINE d == Ip!Reassembled(p)
           q == Append(ipv4Queue, d)
           x == OfQueued(d)
           a == On(udpChannel)
           c == OfChannel(ipv4Channel)
           w == Awaiting(ipv4Queue)
<1>1. d \in Parts /\ Ip!Enqueue(d)
  BY ReassembledIsPart DEF Ip!Deliver
<1> HIDE DEF d
<1>2. /\ a \in Seq(ForApp) /\ udpQueue \in Seq(ForApp) /\ c \in Seq(ForApp) /\ w \in Seq(ForApp)
      /\ ipv4Queue \in Seq(Parts) /\ Path = Stages(a, udpQueue, c, w)
  BY PathStages
<1>3. x \in Seq(ForApp) /\ Awaiting(q) = w \o x
  BY <1>1, <1>2, PayloadsType, AwaitingFacts
<1>4. q \in Seq(Parts) /\ q # <<>>
  BY <1>1, <1>2, QueueFacts
<1>5. Path' = Stages(a, udpQueue, OfChannel(ipv4Channel'), Awaiting(ipv4Queue'))
  BY NextPath
<1> HIDE DEF x, a, c, w
<1>6. Stages(a, udpQueue, c, w \o x) = Path \o x
  <2>1. StagesGrowBy(a, udpQueue, c, w, x)
    BY <1>2, <1>3, StagesGrow
  <2> QED
    BY <1>2, <2>1 DEF StagesGrowBy
<1>7. CASE Ip!Busy
  <2>1. ipv4Queue' = q /\ ipv4Channel' = ipv4Channel
    BY <1>1, <1>7 DEF Ip!Enqueue
  <2> HIDE DEF q
  <2>2. Path' = Stages(a, udpQueue, c, w \o x)
    BY <1>3, <1>5, <2>1 DEF c
  <2> QED
    BY <1>3, <1>6, <2>2
<1>8. CASE ~Ip!Busy
  <2>1. ipv4Queue' = Tail(q) /\ Ip!ReassembleAndDeliverFinish(Head(q), ipv4Timer)
    BY <1>1, <1>8 DEF Ip!Enqueue
  <2> HIDE DEF q
  <2> DEFINE e == OfChannel(ipv4Channel')
             f == Awaiting(ipv4Queue')
  <2>2. e \in Seq(ForApp) /\ f \in Seq(ForApp) /\ e \o f = c \o Awaiting(q)
    BY <1>4, <2>1, HeadMoves DEF c
  <2>3. Path' = Stages(a, udpQueue, e, f)
    BY <1>5
  <2> HIDE DEF e, f
  <2> DEFINE wx == w \o x
  <2>4. wx \in Seq(ForApp) /\ c \o wx = e \o f
    BY <1>2, <1>3, <2>2
  <2> HIDE DEF wx
  <2>5. SameStages(a, udpQueue, c, wx, a, udpQueue, e, f)
    BY <1>2, <2>2, <2>4, StagesMoveUp
  <2> QED
    BY <1>3, <1>6, <2>3, <2>5 DEF wx, SameStages
<1> QED
  BY <1>7, <1>8

(* Ipv4 gets a frame: a put, or an error.                                  *)
LEMMA EncapToIpv4Pipe ==
  ASSUME UpwardInv, SocketsFinite, EncapToIpv4
  PROVE  PipeStep
<1>1. Running /\ UNCHANGED <<udpQueue, udpChannel, handed>> /\ Encap!TransmissionEnds
  BY DEF EncapToIpv4, udpVars
<1>2. CASE ~Running'
  BY <1>1, <1>2, PipeRests
<1>3. CASE Running' /\ UNCHANGED <<ipv4Queue, ipv4Channel>>
  BY <1>1, <1>3, SamePath, PipeRests
<1>4. ASSUME Running', ForIpv4(encapChannel), Ip!Deliver(encapChannel.packet.payload)
      PROVE  PipeStep
  <2>1. encapChannel.packet.payload \in Parts
    BY <1>1 DEF Encap!TransmissionEnds, Encap!Busy, UpwardInv, EncapInv, Carried, Frames
  <2>2. PICK x \in Seq(ForApp) : Path' = Path \o x
    BY <1>1, <1>4, <2>1, DeliverPuts
  <2>3. Path \in Seq(ForApp)
    BY PathStages, StagesType
  <2>4. PathAsPipe!IsPrefix(Path, Path')
    <3>1. ASSUME NEW y \in Seq(ForApp)
          PROVE  PathAsPipe!IsPrefix(y, y \o x)
      <4>1. y \o x \in Seq(ForApp) /\ Len(y) \in Nat /\ Len(y \o x) = Len(y) + Len(x) /\ Len(x) \in Nat
        BY <3>1
      <4>2. Len(y) <= Len(y \o x)
        BY <4>1
      <4>3. /\ SubSeq(y, 1, Len(y)) \in Seq(ForApp) /\ Len(SubSeq(y, 1, Len(y))) = Len(y)
            /\ \A i \in 1 .. Len(y) : SubSeq(y, 1, Len(y))[i] = y[i]
        BY <3>1
      <4>4. /\ SubSeq(y \o x, 1, Len(y)) \in Seq(ForApp) /\ Len(SubSeq(y \o x, 1, Len(y))) = Len(y)
            /\ \A i \in 1 .. Len(y) : SubSeq(y \o x, 1, Len(y))[i] = y[i]
        <5> DEFINE z == y \o x
        <5>1. \A i \in 1 .. Len(y) : z[i] = y[i]
          BY <3>1
        <5> HIDE DEF z
        <5>2. /\ SubSeq(z, 1, Len(y)) \in Seq(ForApp) /\ Len(SubSeq(z, 1, Len(y))) = Len(y)
              /\ \A i \in 1 .. Len(y) : SubSeq(z, 1, Len(y))[i] = z[i]
          BY <4>1, <4>2 DEF z
        <5> QED
          BY <5>1, <5>2 DEF z
      <4>5. SubSeq(y, 1, Len(y)) = SubSeq(y \o x, 1, Len(y))
        BY <4>3, <4>4, SeqEqual
      <4> QED
        BY <4>2, <4>5 DEF PathAsPipe!IsPrefix
    <3> QED
      BY <2>2, <2>3, <3>1
  <2>5. (~Running)' = ~Running
    BY <1>1, <1>4
  <2>6. PathAsPipe!Put
    BY <1>1, <2>4, <2>5 DEF PathAsPipe!Put
  <2> QED
    BY <2>6 DEF PipeStep, PathAsPipe!Next
<1> QED
  BY <1>2, <1>3, <1>4
  DEF EncapToIpv4, Ip!ReassembleAndDeliver, Ip!Buffer, ipv4Vars

(* Ipv4's timer moves what is at the front of its queue, or nothing.       *)
LEMMA Ipv4TimerPipe ==
  ASSUME UpwardInv, SocketsFinite, Ipv4TimerRuns
  PROVE  PipeStep
<1>1. Running /\ UNCHANGED <<udpQueue, udpChannel, handed>> /\ Ip!HandleEndUpperTxPeriod
  BY DEF Ipv4TimerRuns, udpVars
<1>2. CASE ~Running'
  BY <1>1, <1>2, PipeRests
<1>3. CASE ipv4Queue = <<>>
  <2>1. UNCHANGED <<ipv4Queue, ipv4Channel>>
    BY <1>1, <1>3 DEF Ip!HandleEndUpperTxPeriod
  <2> QED
    BY <1>1, <2>1, SamePath, PipeRests
<1>4. CASE Running' /\ ipv4Queue # <<>>
  <2> DEFINE a == On(udpChannel)
             c == OfChannel(ipv4Channel)
             w == Awaiting(ipv4Queue)
             e == OfChannel(ipv4Channel')
             f == Awaiting(ipv4Queue')
  <2>1. ipv4Queue' = Tail(ipv4Queue) /\ Ip!ReassembleAndDeliverFinish(Head(ipv4Queue), "idle")
    BY <1>1, <1>4 DEF Ip!HandleEndUpperTxPeriod
  <2>2. /\ a \in Seq(ForApp) /\ udpQueue \in Seq(ForApp) /\ c \in Seq(ForApp) /\ w \in Seq(ForApp)
        /\ ipv4Queue \in Seq(Parts) /\ Path = Stages(a, udpQueue, c, w)
    BY PathStages
  <2>3. e \in Seq(ForApp) /\ f \in Seq(ForApp) /\ e \o f = c \o w
    BY <1>4, <2>1, <2>2, HeadMoves
  <2>4. Path' = Stages(a, udpQueue, e, f)
    BY <1>1, NextPath
  <2> HIDE DEF a, c, w, e, f
  <2>5. SameStages(a, udpQueue, c, w, a, udpQueue, e, f)
    BY <2>2, <2>3, StagesMoveUp
  <2>6. Path' = Path
    BY <2>2, <2>4, <2>5 DEF SameStages
  <2> QED
    BY <1>1, <2>6, PipeRests
<1> QED
  BY <1>2, <1>3, <1>4

(* Udp takes what it is given to its channel or to the end of its queue.   *)
Inserted(p) ==
  /\ On(udpChannel') \in Seq(ForApp) /\ udpQueue' \in Seq(ForApp)
  /\ On(udpChannel) \o udpQueue \o Payloads(p) = On(udpChannel') \o udpQueue'

(* Udp::processUDPPacket inserts all of its payloads.                      *)
LEMMA InsertMoves ==
  ASSUME UpwardInv, NEW p \in Parts, p.copies > 0, Udp!Insert(Payloads(p))
  PROVE  Inserted(p)
<1> DEFINE x == Payloads(p)
           a == On(udpChannel)
           all == udpQueue \o x
<1>1. /\ a \in Seq(ForApp) /\ udpQueue \in Seq(ForApp) /\ x \in Seq(ForApp) /\ Len(x) > 0
  BY PathStages, PayloadsType
<1> HIDE DEF x
<1>2. all \in Seq(ForApp) /\ all # <<>>
  BY <1>1, ConcatProperties
<1>3. CASE Udp!Busy
  <2>1. udpQueue' = all /\ udpChannel' = udpChannel
    BY <1>3 DEF Udp!Insert, x
  <2>2. On(udpChannel') = a
    BY <2>1
  <2> HIDE DEF a
  <2>3. Associate(a, udpQueue, x)
    BY <1>1, ConcatAssociates
  <2>4. a \o udpQueue \o x = On(udpChannel') \o udpQueue'
    BY <2>1, <2>2, <2>3 DEF Associate
  <2> QED
    BY <1>1, <1>2, <2>1, <2>2, <2>4 DEF Inserted, a, x
<1>4. CASE ~Udp!Busy
  <2>1. udpQueue' = Tail(all) /\ udpChannel' = Head(all) /\ a = <<>>
    BY <1>4 DEF Udp!Insert, Udp!Busy, On, x
  <2> HIDE DEF a, all
  <2>2. Head(all) \in ForApp /\ Tail(all) \in Seq(ForApp)
    BY <1>2, HeadTailProperties
  <2>3. On(udpChannel') = <<Head(all)>>
    BY <2>1, <2>2, NotNull DEF On
  <2>4. <<Head(all)>> \o Tail(all) = all
    <3>1. /\ <<Head(all)>> \o Tail(all) \in Seq(ForApp)
          /\ Len(<<Head(all)>> \o Tail(all)) = 1 + Len(Tail(all)) /\ Len(Tail(all)) = Len(all) - 1
          /\ Len(all) \in Nat
      BY <1>2, <2>2, HeadTailProperties
    <3>2. \A i \in 1 .. Len(all) : (<<Head(all)>> \o Tail(all))[i] = all[i]
      BY <1>2, <2>2
    <3> QED
      BY <1>2, <3>1, <3>2, SeqEqual
  <2>5. a \o udpQueue = udpQueue
    BY <1>1, <2>1, ConcatEmptySeq
  <2>6. a \o udpQueue \o x = On(udpChannel') \o udpQueue'
    BY <2>1, <2>3, <2>4, <2>5 DEF all
  <2>7. On(udpChannel') \in Seq(ForApp) /\ udpQueue' \in Seq(ForApp)
    <3>1. \A h \in ForApp : <<h>> \in Seq(ForApp)
      OBVIOUS
    <3> QED
      BY <2>1, <2>2, <2>3, <3>1, Zenon
  <2> QED
    BY <2>6, <2>7 DEF Inserted, a, x
<1> QED
  BY <1>3, <1>4

(* Udp gets a datagram: it moves on, or a node that is down drops it.      *)
LEMMA Ipv4ToUdpPipe ==
  ASSUME UpwardInv, Ipv4ToUdp
  PROVE  PipeStep
<1> DEFINE a == On(udpChannel)
           c == OfChannel(ipv4Channel)
           w == Awaiting(ipv4Queue)
<1>1. /\ Running /\ UNCHANGED <<ipv4Queue, handed>>
      /\ ipv4Channel # NoPacket /\ ipv4Channel' = NoPacket
  BY DEF Ipv4ToUdp, Ip!TransmissionEnds, Ip!Busy
<1>2. /\ a \in Seq(ForApp) /\ udpQueue \in Seq(ForApp) /\ c \in Seq(ForApp) /\ w \in Seq(ForApp)
      /\ Path = Stages(a, udpQueue, c, w)
  BY PathStages
<1>3. OfChannel(ipv4Channel') = <<>> /\ Awaiting(ipv4Queue') = w
  BY <1>1 DEF OfChannel
<1>4. CASE ~Running'
  BY <1>1, <1>4, PipeRests
<1>5. CASE ForUdp(ipv4Channel) /\ Udp!Insert(Payloads(ipv4Channel.packet))
  <2> DEFINE e == On(udpChannel')
             f == udpQueue'
  <2>1. ipv4Channel.packet \in Parts /\ ipv4Channel.packet.copies > 0
    BY <1>1, <1>5 DEF UpwardInv, Ipv4Inv, Carried, ForUdp
  <2>2. c = Payloads(ipv4Channel.packet)
    BY <1>1, <1>5 DEF OfChannel
  <2>3. /\ e \in Seq(ForApp) /\ f \in Seq(ForApp) /\ a \o udpQueue \o c = e \o f
    <3>1. Inserted(ipv4Channel.packet)
      BY <1>5, <2>1, InsertMoves
    <3> QED
      BY <2>2, <3>1 DEF Inserted
  <2>4. Path' = Stages(e, f, <<>>, w)
    BY <1>3, NextPath
  <2> HIDE DEF a, c, w, e, f
  <2>5. SameStages(a, udpQueue, c, w, e, f, <<>>, w)
    BY <1>2, <2>3, StagesMoveOn
  <2>6. Path' = Path
    BY <1>2, <2>4, <2>5 DEF SameStages
  <2> QED
    BY <1>1, <2>6, PipeRests
<1>6. ASSUME UNCHANGED udpVars
      PROVE  Path' = Stages(a, udpQueue, <<>>, w)
  <2>1. udpQueue' = udpQueue /\ udpChannel' = udpChannel
    BY <1>6 DEF udpVars
  <2> QED
    BY <1>3, <2>1, NextPath
<1>7. CASE UNCHANGED udpVars /\ c = <<>>
  <2>1. Path' = Path
    BY <1>2, <1>6, <1>7
  <2> QED
    BY <1>1, <2>1, PipeRests
<1>8. CASE UNCHANGED udpVars /\ c # <<>> /\ Running'
  <2>1. Path' = Stages(a, udpQueue, <<>>, w)
    BY <1>6, <1>8
  <2> HIDE DEF a, c, w
  <2>2. \E i, j \in DOMAIN Path :
          i <= j /\ Path' = SubSeq(Path, 1, i - 1) \o SubSeq(Path, j + 1, Len(Path))
    <3>1. CutFrom(Stages(a, udpQueue, c, w), Stages(a, udpQueue, <<>>, w))
      BY <1>2, <1>8, StagesCut
    <3>2. CutFrom(Path, Path')
      BY <1>2, <2>1, <3>1
    <3> QED
      BY <3>2 DEF CutFrom
  <2>3. (~Running)' = ~Running
    BY <1>1, <1>8
  <2>4. PathAsPipe!Lose
    BY <1>1, <2>2, <2>3 DEF PathAsPipe!Lose
  <2> QED
    BY <2>4 DEF PipeStep, PathAsPipe!Next
<1>9. CASE ~ForUdp(ipv4Channel) /\ UNCHANGED udpVars
  <2>1. c = <<>>
    BY <1>9 DEF OfChannel
  <2> QED
    BY <1>7, <1>9, <2>1
<1> QED
  BY <1>4, <1>5, <1>7, <1>8, <1>9 DEF Ipv4ToUdp

(* The head of the path reaches the application, or is dropped by it.      *)
LEMMA UdpToAppPipe ==
  ASSUME UpwardInv, UdpToApp
  PROVE  PipeStep
<1> DEFINE c == OfChannel(ipv4Channel)
           w == Awaiting(ipv4Queue)
<1>1. /\ Running /\ UNCHANGED <<ipv4Queue, ipv4Channel, udpQueue>>
      /\ udpChannel # NoPacket /\ udpChannel' = NoPacket
  BY DEF UdpToApp, Udp!TransmissionEnds, Udp!Busy, ipv4Vars
<1>2. /\ udpChannel \in ForApp /\ On(udpChannel) = <<udpChannel>> /\ On(udpChannel') = <<>>
  BY <1>1 DEF UpwardInv, UdpInv, On
<1>3. /\ udpQueue \in Seq(ForApp) /\ c \in Seq(ForApp) /\ w \in Seq(ForApp)
      /\ Path = Stages(<<udpChannel>>, udpQueue, c, w)
  BY <1>2, PathStages
<1>4. Path' = Stages(<<>>, udpQueue, c, w)
  BY <1>1, <1>2, NextPath
<1> HIDE DEF c, w
<1>5. Path # <<>> /\ Head(Path) = udpChannel /\ Tail(Path) = Path'
  <2>1. HeadStage(udpChannel, udpQueue, c, w)
    BY <1>2, <1>3, StagesHead
  <2> QED
    BY <1>3, <1>4, <2>1 DEF HeadStage
<1>6. CASE Running' /\ handed' = Append(handed, udpChannel)
  <2>1. (~Running)' = ~Running
    BY <1>1, <1>6
  <2>2. PathAsPipe!Get
    BY <1>5, <1>6, <2>1 DEF PathAsPipe!Get
  <2> QED
    BY <2>2 DEF PipeStep, PathAsPipe!Next
<1>7. CASE Running' /\ UNCHANGED handed
  <2>1. Path \in Seq(ForApp)
    BY PathStages, StagesType
  <2>2. /\ SubSeq(Path, 1, 1 - 1) = <<>> /\ SubSeq(Path, 1 + 1, Len(Path)) = Tail(Path)
        /\ 1 \in DOMAIN Path
    BY <1>5, <2>1
  <2>3. <<>> \o Tail(Path) = Tail(Path)
    <3>1. Tail(Path) \in Seq(ForApp)
      BY <1>5, <2>1, HeadTailProperties
    <3> QED
      BY <3>1, ConcatEmptySeq
  <2>4. \E i, j \in DOMAIN Path :
          i <= j /\ Path' = SubSeq(Path, 1, i - 1) \o SubSeq(Path, j + 1, Len(Path))
    <3>1. Path' = SubSeq(Path, 1, 1 - 1) \o SubSeq(Path, 1 + 1, Len(Path))
      BY <1>5, <2>2, <2>3
    <3>2. 1 <= 1
      OBVIOUS
    <3> QED
      BY <2>2, <3>1, <3>2, Zenon
  <2>5. (~Running)' = ~Running
    BY <1>1, <1>7
  <2>6. PathAsPipe!Lose
    BY <1>7, <2>4, <2>5 DEF PathAsPipe!Lose
  <2> QED
    BY <2>6 DEF PipeStep, PathAsPipe!Next
<1>8. CASE ~Running' /\ UNCHANGED handed
  BY <1>1, <1>8, PipeRests
<1>9. Running' \/ UNCHANGED handed
  BY <1>1 DEF UdpToApp, Running
<1> QED
  BY <1>6, <1>7, <1>8, <1>9 DEF UdpToApp

(* The timer of Udp moves the head of its queue to the channel, which is   *)
(* free when the timer is due.                                             *)
LEMMA UdpTimerPipe ==
  ASSUME UpwardInv, UdpTimerRuns
  PROVE  PipeStep
<1> DEFINE a == On(udpChannel)
           c == OfChannel(ipv4Channel)
           w == Awaiting(ipv4Queue)
<1>1. /\ Running /\ UNCHANGED <<ipv4Queue, ipv4Channel, handed>> /\ Udp!HandleEndTxPeriod
  BY DEF UdpTimerRuns, ipv4Vars
<1>2. udpChannel = NoPacket
  BY <1>1 DEF Udp!HandleEndTxPeriod, UpwardInv, UdpInv
<1>3. CASE udpQueue = <<>>
  <2>1. UNCHANGED <<udpQueue, udpChannel>>
    BY <1>1, <1>3 DEF Udp!HandleEndTxPeriod
  <2> QED
    BY <1>1, <2>1, SamePath, PipeRests
<1>4. CASE udpQueue # <<>>
  <2> DEFINE h == Head(udpQueue)
             r == Tail(udpQueue)
  <2>1. udpQueue' = r /\ udpChannel' = h
    BY <1>1, <1>4 DEF Udp!HandleEndTxPeriod
  <2>2. /\ udpQueue \in Seq(ForApp) /\ c \in Seq(ForApp) /\ w \in Seq(ForApp)
        /\ Path = Stages(<<>>, udpQueue, c, w)
    BY <1>2, PathStages DEF On
  <2>3. h \in ForApp /\ r \in Seq(ForApp)
    BY <1>4, <2>2, HeadTailProperties
  <2>4. On(udpChannel') = <<h>>
    BY <2>1, <2>3, NotNull DEF On
  <2>5. Path' = Stages(<<h>>, r, c, w)
    BY <1>1, <2>1, <2>4, NextPath
  <2>6. <<>> \o udpQueue = <<h>> \o r
    <3>1. /\ <<h>> \o r \in Seq(ForApp) /\ Len(<<h>> \o r) = Len(udpQueue)
          /\ \A i \in 1 .. Len(udpQueue) : (<<h>> \o r)[i] = udpQueue[i]
      BY <1>4, <2>2, <2>3
    <3>2. <<h>> \o r = udpQueue
      BY <2>2, <3>1, SeqEqual
    <3> QED
      BY <2>2, <3>2, ConcatEmptySeq
  <2> HIDE DEF h, r, c, w
  <2>7. Stages(<<>>, udpQueue, c, w) = Stages(<<h>>, r, c, w)
    BY <2>6, Zenon DEF Stages
  <2>8. Path' = Path
    BY <2>2, <2>5, <2>7
  <2> QED
    BY <1>1, <2>8, PipeRests
<1> QED
  BY <1>3, <1>4

(* Each step of the path is one of the pipe.                               *)
LEMMA NextPipe == UpwardInv /\ SocketsFinite /\ [Next]_vars => PipeStep
<1> SUFFICES ASSUME UpwardInv, SocketsFinite, [Next]_vars
             PROVE  PipeStep
  OBVIOUS
<1>1. CASE ScheduledEvent
  <2>1. CASE EncapTimerRuns \/ TimerWhenDown
    <3>1. Running /\ UNCHANGED <<ipv4Queue, ipv4Channel, udpQueue, udpChannel, handed>>
      BY <2>1 DEF EncapTimerRuns, TimerWhenDown, ipv4Vars, udpVars
    <3> QED
      BY <3>1, SamePath, PipeRests
  <2> QED
    BY <1>1, <2>1, EncapToIpv4Pipe, Ipv4ToUdpPipe, UdpToAppPipe, Ipv4TimerPipe, UdpTimerPipe
    DEF ScheduledEvent
<1>2. ASSUME Running, UNCHANGED <<ipv4Queue, ipv4Channel, udpQueue, udpChannel, handed>>
      PROVE  PipeStep
  BY <1>2, SamePath, PipeRests
<1>3. CASE \/ \E kind \in Kinds : \E i \in 1 .. kind.parts : NewDatagramArrives(kind, i)
           \/ \E f \in missing : FragmentArrives(f)
  BY <1>2, <1>3 DEF NewDatagramArrives, FragmentArrives, FrameArrives, ipv4Vars, udpVars
<1>4. CASE BuffersGrowOld \/ NodeStops \/ NodeStarts
  BY <1>2, <1>4 DEF BuffersGrowOld, NodeStops, NodeStarts, Ip!BufferAges, Ip!Stop, ipv4Vars, udpVars
<1>5. CASE \E s \in EthernetSockets : BindEthernetSocket(s) \/ CloseEthernetSocket(s)
  BY <1>2, <1>5 DEF BindEthernetSocket, CloseEthernetSocket, ipv4Vars, udpVars
<1>6. CASE \E s \in RawSockets : BindRawSocket(s) \/ CloseRawSocket(s)
  BY <1>2, <1>6 DEF BindRawSocket, CloseRawSocket, Ip!Bind, Ip!Close, udpVars
<1>7. CASE UNCHANGED vars
  <2>1. (~Running)' = ~Running /\ Path' = Path /\ UNCHANGED handed
    BY <1>7, SamePath DEF vars, ipv4Vars, udpVars, Running
  <2> QED
    BY <2>1 DEF PipeStep
<1> QED
  BY <1>1, <1>3, <1>4, <1>5, <1>6, <1>7 DEF Next

(* The pipe is empty at first.                                             *)
LEMMA InitPipe == Init => PathAsPipe!Init
<1> SUFFICES ASSUME Init
             PROVE  PathAsPipe!Init
  OBVIOUS
<1>1. /\ ipv4Queue = <<>> /\ ipv4Channel = NoPacket /\ udpQueue = <<>> /\ udpChannel = NoPacket
      /\ handed = <<>> /\ (~Running) = FALSE
  BY DEF Init, Ip!Init, Udp!Init, Running
<1>2. Awaiting(<<>>) = <<>>
  BY DEF Awaiting, FlattenSeq
<1>3. On(udpChannel) = <<>> /\ OfChannel(ipv4Channel) = <<>>
  BY <1>1 DEF On, OfChannel
<1>4. Path = Stages(<<>>, <<>>, <<>>, <<>>)
  BY <1>1, <1>2, <1>3, Zenon DEF Path, Awaiting, Stages
<1>5. Stages(<<>>, <<>>, <<>>, <<>>) = <<>>
  BY ConcatEmptySeq DEF Stages
<1> QED
  BY <1>1, <1>4, <1>5 DEF PathAsPipe!Init

(* From Ipv4 on, through two queues, two channels and their timers, the    *)
(* way up is a FIFO pipe for any datagrams, sockets and disturbances:      *)
(* reassembleAndDeliver puts at its end, the application gets from its     *)
(* head, a stop of the node may lose neighbours, and nothing is            *)
(* duplicated, made up or moved past another.                              *)
THEOREM PathIsFifoHolds == Spec => PathIsFifo
<1>1. UpwardInv /\ SocketsFinite /\ [Next]_vars
        => [PathAsPipe!Next]_<<Path, handed, ~Running>>
  BY NextPipe DEF PipeStep
<1>2. Spec => []UpwardInv
  BY UpwardInvariant
<1>3. Spec => [](UpwardInv /\ SocketsFinite)
  BY <1>2, InitSockets, NextSockets, PTL DEF Spec
<1>4. Spec => PathAsPipe!Spec
  BY <1>1, <1>3, InitPipe, PTL DEF Spec, PathAsPipe!Spec
<1> QED
  BY <1>4 DEF PathIsFifo
=============================================================================
