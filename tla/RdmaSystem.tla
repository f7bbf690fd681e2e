----------------------------- MODULE RdmaSystem -----------------------------
(***************************************************************************)
(* Hosts running RdmaBasicApp over the Rdma transport module and a lossy   *)
(* Ethernet.  The applications' timers and lifecycle, the fragmentation of *)
(* messages by Rdma and again by IPv4, the loss of frames in the network,  *)
(* and the two reassemblies done by RdmaBasicApp::processPacket.           *)
(*                                                                         *)
(* Simulated time is abstracted: a timer that is scheduled may fire at any *)
(* moment, and whether the next send still lies before stopTime is a free  *)
(* choice (module RdmaBasicApp keeps the clock).  The zero-delay hand-over *)
(* from the application through Rdma and Ipv4 to the MAC is one step.      *)
(***************************************************************************)
EXTENDS RdmaFragBuf, FiniteSets, Sequences

CONSTANTS
  Hosts,
  DestAddresses,           (* destAddresses of each host, [Hosts -> SUBSET Hosts] *)
  Lengths,                 (* values of the volatile messageLength         *)
  LocalPort, DestPort,     (* the ports of each host, -1 for "none given"  *)
  MaxPort,                 (* largest port: 65535                          *)
  ModuleId,                (* getParentModule()->getId() of each host      *)
  Mtu,                     (* MTU of the Ethernet interfaces, 0: infinite  *)
  IPV4_HEADER_LENGTH,      (* bytes of an Ipv4Header without options       *)
  MaxSent,                 (* bound: messages per host                     *)
  MaxLosses,               (* bound: frames lost                           *)
  MaxLifecycle             (* bound: stop and crash operations             *)

ASSUME SystemAssumption ==
  /\ IsFiniteSet(Hosts)
  /\ DestAddresses \in [Hosts -> SUBSET Hosts]
  /\ Lengths \subseteq Nat \ {0}
  /\ MaxPort \in Nat \ {0}
  /\ LocalPort \in [Hosts -> -1 .. MaxPort]
  /\ DestPort \in [Hosts -> -1 .. MaxPort]
  /\ ModuleId \in [Hosts -> Nat]
  /\ Mtu \in Nat
  /\ IPV4_HEADER_LENGTH \in Nat \ {0}
  /\ Mtu = 0 \/ Mtu >= IPV4_HEADER_LENGTH + FragmentUnit
  /\ MaxSent \in Nat /\ MaxLosses \in Nat /\ MaxLifecycle \in Nat

VARIABLES
  operationalState,        (* OperationalBase state of each application    *)
  selfMsg,                 (* kind of the timer of each app, NONE if idle  *)
  numSent,                 (* RdmaBasicApp::numSent                        *)
  rdmaNumSent,             (* Rdma::numSent                                *)
  network,                 (* IPv4 datagrams and fragments in flight       *)
  fragbufIpv4,             (* incomplete IPv4 datagrams at each app        *)
  fragbufRdma,             (* incomplete messages at each app              *)
  numReceived,             (* RdmaBasicApp::numReceived                    *)
  failed,                  (* a cRuntimeError ended the simulation         *)
  sent,                    (* history: messages given to Ipv4              *)
  arrived,                 (* history: RDMA packets that reached an app    *)
  delivered,               (* history: what each app counted as received   *)
  losses, lifecycleOps     (* how much of the bounds is used up            *)

appVars  == <<operationalState, selfMsg, numSent>>
history  == <<sent, arrived, delivered>>
bounds   == <<losses, lifecycleOps>>
vars     == <<appVars, rdmaNumSent, network, fragbufIpv4, fragbufRdma,
              numReceived, failed, history, bounds>>

-----------------------------------------------------------------------------
(***************************************************************************)
(* IPv4 below Rdma.  A packet that fits the MTU is one datagram, otherwise *)
(* fragmentAndSend cuts it.  The packet itself stands for the datagram's   *)
(* (src, dst, identification): Ipv4 numbers its datagrams with a 16-bit    *)
(* counter, distinct for fewer than 2^16 of them.                          *)
(***************************************************************************)
Ipv4FragmentLength == ((Mtu - IPV4_HEADER_LENGTH) \div FragmentUnit) * FragmentUnit

Ipv4Offsets(p) ==
  IF Mtu = 0 \/ IPV4_HEADER_LENGTH + ByteLength(p) <= Mtu
    THEN {0}
    ELSE { offset \in 0 .. ByteLength(p) - 1 : offset % Ipv4FragmentLength = 0 }

Ipv4Datagrams(p) == { [pkt |-> p, offset |-> offset] : offset \in Ipv4Offsets(p) }

(* One path joins a pair of hosts and its queues are FIFO: d is overtaken  *)
(* by nothing that was sent before it on the same path.                    *)
SentBefore(c, d) ==
  \/ c.pkt.msg.seq < d.pkt.msg.seq
  \/ /\ c.pkt.msg.seq = d.pkt.msg.seq
     /\ \/ c.pkt.hdr.fragmentOffset < d.pkt.hdr.fragmentOffset
        \/ /\ c.pkt.hdr.fragmentOffset = d.pkt.hdr.fragmentOffset
           /\ c.offset < d.offset

IsNext(d) ==
  \A c \in network : /\ c.pkt.msg.src = d.pkt.msg.src
                     /\ c.pkt.msg.dst = d.pkt.msg.dst
                     => ~SentBefore(c, d)

-----------------------------------------------------------------------------
(***************************************************************************)
(* Sending: RdmaBasicApp::sendPacket followed by Rdma::handleUpperPacket.  *)
(***************************************************************************)

(* A port of -1 is replaced by rand() % 65535.                             *)
ResolvedPort(port) == IF port = -1 THEN 0 .. MaxPort - 1 ELSE {port}

NewMessage(h, dst, len, srcPort, destPort) ==
  [ src |-> h, dst |-> dst, seq |-> numSent[h], len |-> len,
    srcPort |-> srcPort, destPort |-> destPort,
    id |-> ModuleId[h] * 10 + rdmaNumSent[h] ]

Accepted(m) ==
  /\ rdmaNumSent' = [rdmaNumSent EXCEPT ![m.src] = @ + 1]
  /\ network' = network \cup UNION { Ipv4Datagrams(p) : p \in HandleUpperPacket(m) }
  /\ sent' = sent \cup {m}
  /\ UNCHANGED failed

(* handleUpperPacket throws on a port outside 1 .. 65535.                  *)
Refused ==
  /\ failed' = TRUE
  /\ UNCHANGED <<rdmaNumSent, network, sent>>

SendPacket(h) ==
  \E dst \in DestAddresses[h], len \in Lengths,
     srcPort \in ResolvedPort(LocalPort[h]), destPort \in ResolvedPort(DestPort[h]) :
    /\ IF destPort = 0 THEN Refused
                       ELSE Accepted(NewMessage(h, dst, len, srcPort, destPort))
    /\ numSent' = [numSent EXCEPT ![h] = @ + 1]

(* processSend: one packet, then SEND again or STOP at stopTime.           *)
ProcessSend(h) ==
  /\ numSent[h] < MaxSent
  /\ SendPacket(h)
  /\ \E kind \in {"SEND", "STOP"} : selfMsg' = [selfMsg EXCEPT ![h] = kind]
  /\ UNCHANGED <<operationalState, fragbufIpv4, fragbufRdma, numReceived,
                 arrived, delivered, bounds>>

-----------------------------------------------------------------------------
(***************************************************************************)
(* The self message of RdmaBasicApp.                                       *)
(***************************************************************************)
TimerFires(h, kind) == ~failed /\ selfMsg[h] = kind

HandleSend(h) == TimerFires(h, "SEND") /\ ProcessSend(h)

HandleStart(h) ==
  /\ TimerFires(h, "START")
  /\ DestAddresses[h] # {}
  /\ ProcessSend(h)

(* Nothing to send to: wait for stopTime, if there is one.                 *)
HandleStartNoDestination(h) ==
  /\ TimerFires(h, "START")
  /\ DestAddresses[h] = {}
  /\ \E kind \in {"STOP", "NONE"} : selfMsg' = [selfMsg EXCEPT ![h] = kind]
  /\ UNCHANGED <<operationalState, numSent, rdmaNumSent, network, fragbufIpv4,
                 fragbufRdma, numReceived, failed, history, bounds>>

HandleStop(h) ==
  /\ TimerFires(h, "STOP")
  /\ selfMsg' = [selfMsg EXCEPT ![h] = "NONE"]
  /\ UNCHANGED <<operationalState, numSent, rdmaNumSent, network, fragbufIpv4,
                 fragbufRdma, numReceived, failed, history, bounds>>

-----------------------------------------------------------------------------
(***************************************************************************)
(* Lifecycle.  No operation touches the reassembly buffers.                *)
(***************************************************************************)
ChangeState(h, new, kind) ==
  /\ operationalState' = [operationalState EXCEPT ![h] = new]
  /\ selfMsg' = [selfMsg EXCEPT ![h] = kind]
  /\ UNCHANGED <<numSent, rdmaNumSent, network, fragbufIpv4, fragbufRdma,
                 numReceived, failed, history, losses>>

(* The START timer is not set when stopTime has passed.                    *)
HandleStartOperation(h) ==
  /\ ~failed /\ operationalState[h] = "NOT_OPERATING"
  /\ \E kind \in {"START", "NONE"} : ChangeState(h, "OPERATING", kind)
  /\ UNCHANGED lifecycleOps

(* The operation stays active until stopOperationTimeout.                  *)
HandleStopOperation(h) ==
  /\ ~failed /\ operationalState[h] = "OPERATING"
  /\ lifecycleOps < MaxLifecycle
  /\ ChangeState(h, "STOPPING_OPERATION", "NONE")
  /\ lifecycleOps' = lifecycleOps + 1

HandleActiveOperationTimeout(h) ==
  /\ ~failed /\ operationalState[h] = "STOPPING_OPERATION"
  /\ ChangeState(h, "NOT_OPERATING", "NONE")
  /\ UNCHANGED lifecycleOps

HandleCrashOperation(h) ==
  /\ ~failed /\ operationalState[h] = "OPERATING"
  /\ lifecycleOps < MaxLifecycle
  /\ ChangeState(h, "NOT_OPERATING", "NONE")
  /\ lifecycleOps' = lifecycleOps + 1

-----------------------------------------------------------------------------
(***************************************************************************)
(* Receiving: RdmaBasicApp::processPacket.                                 *)
(***************************************************************************)

(* The IPv4 fragments at h of d's datagram, d included.                    *)
Gathered(h, d) == { c \in fragbufIpv4[h] : c.pkt = d.pkt } \cup {d}

CompletesIpv4AtOnce(h, d) == Gathered(h, d) \subseteq Ipv4Datagrams(d.pkt)

CompletesIpv4(h, d) == Gathered(h, d) = Ipv4Datagrams(d.pkt)

IsRdmaFragment(p) == p.hdr.fragmentOffset # 0 \/ p.hdr.moreFragments

(* emit, numReceived++ and the latency of packet, whose creation time is   *)
(* the one that is measured.                                               *)
CountReception(h, packet, content) ==
  /\ numReceived' = [numReceived EXCEPT ![h] = @ + 1]
  /\ delivered' = [delivered EXCEPT ![h] =
                     Append(@, [packet |-> packet.msg, content |-> content])]

(* The content of an unfragmented packet: what follows its header.         *)
WholeContent(p) == [ i \in 0 .. p.len - 1 |-> PacketByte(p, RDMA_HEADER_LENGTH + i) ]

ProcessRdma(h, p) ==
  IF IsRdmaFragment(p)
    THEN /\ fragbufRdma' = [fragbufRdma EXCEPT ![h] = AddFragment(@, p)]
         /\ LET buf == Reassembly(fragbufRdma[h], p)
            IN IF IsComplete(buf) THEN CountReception(h, buf.packet, buf.bytes)
                                  ELSE UNCHANGED <<numReceived, delivered>>
    ELSE /\ CountReception(h, p, WholeContent(p))
         /\ UNCHANGED fragbufRdma

ProcessPacket(h, d) ==
  IF CompletesIpv4(h, d)
    THEN /\ fragbufIpv4' = [fragbufIpv4 EXCEPT ![h] = @ \ Gathered(h, d)]
         /\ arrived' = arrived \cup {d.pkt}
         /\ ProcessRdma(h, d.pkt)
    ELSE /\ fragbufIpv4' = [fragbufIpv4 EXCEPT ![h] = @ \cup {d}]
         /\ UNCHANGED <<arrived, fragbufRdma, numReceived, delivered>>

(* handleMessage: a module that is stopping still takes messages.          *)
IsUp(h) == operationalState[h] # "NOT_OPERATING"

Receive(h) ==
  \E d \in network :
    /\ d.pkt.msg.dst = h
    /\ IsNext(d)
    /\ ~failed /\ IsUp(h)
    /\ network' = network \ {d}
    /\ ProcessPacket(h, d)
    /\ UNCHANGED <<appVars, rdmaNumSent, failed, sent, bounds>>

(* A switch queue overflows, or the frame reaches a host that is down.     *)
Lose ==
  \E d \in network :
    /\ ~failed
    /\ \/ /\ losses < MaxLosses
          /\ losses' = losses + 1
       \/ /\ operationalState[d.pkt.msg.dst] = "NOT_OPERATING"
          /\ UNCHANGED losses
    /\ network' = network \ {d}
    /\ UNCHANGED <<appVars, rdmaNumSent, fragbufIpv4, fragbufRdma, numReceived,
                   failed, history, lifecycleOps>>

-----------------------------------------------------------------------------
(* Nodes are up at the start: initialize calls handleStartOperation.       *)
Init ==
  /\ operationalState = [h \in Hosts |-> "OPERATING"]
  /\ selfMsg = [h \in Hosts |-> "START"]
  /\ numSent = [h \in Hosts |-> 0]
  /\ rdmaNumSent = [h \in Hosts |-> 0]
  /\ network = {}
  /\ fragbufIpv4 = [h \in Hosts |-> {}]
  /\ fragbufRdma = [h \in Hosts |-> NoBuffers]
  /\ numReceived = [h \in Hosts |-> 0]
  /\ failed = FALSE
  /\ sent = {}
  /\ arrived = {}
  /\ delivered = [h \in Hosts |-> <<>>]
  /\ losses = 0
  /\ lifecycleOps = 0

HostStep(h) ==
  \/ HandleStart(h)
  \/ HandleStartNoDestination(h)
  \/ HandleSend(h)
  \/ HandleStop(h)
  \/ HandleStartOperation(h)
  \/ HandleStopOperation(h)
  \/ HandleActiveOperationTimeout(h)
  \/ HandleCrashOperation(h)
  \/ Receive(h)

Next == (\E h \in Hosts : HostStep(h)) \/ Lose

Spec == Init /\ [][Next]_vars

(* The simulator runs every event that is scheduled: frames in flight      *)
(* reach their host.                                                       *)
FairSpec == Spec /\ \A h \in Hosts : WF_vars(Receive(h))

-----------------------------------------------------------------------------
(***************************************************************************)
(* Properties.                                                             *)
(***************************************************************************)
Ports == 0 .. MaxPort

Message ==
  [ src : Hosts, dst : Hosts, seq : Nat, len : Lengths,
    srcPort : Ports, destPort : Ports, id : Nat ]

Header ==
  [ srcPort : Ports, destPort : Ports, identification : 0 .. IdModulus - 1,
    totalLengthField : Nat, fragmentOffset : Nat, moreFragments : BOOLEAN ]

Packet == [ msg : Message, hdr : Header, hdrs : {1, 2}, from : Nat, len : Nat ]

Datagram == [ pkt : Packet, offset : Nat ]

BufferKey == [ id : 0 .. IdModulus - 1, localPort : Ports, remotePort : Ports ]

(* Timers, counters and queues keep their types, and an identification     *)
(* fits the 16 bits it has in the header.                                  *)
TypeOK ==
  /\ operationalState \in [Hosts -> {"OPERATING", "STOPPING_OPERATION", "NOT_OPERATING"}]
  /\ selfMsg \in [Hosts -> {"NONE", "START", "SEND", "STOP"}]
  /\ numSent \in [Hosts -> Nat]
  /\ rdmaNumSent \in [Hosts -> Nat]
  /\ network \subseteq Datagram
  /\ fragbufIpv4 \in [Hosts -> SUBSET Datagram]
  /\ DOMAIN fragbufRdma = Hosts
  /\ \A h \in Hosts : DOMAIN fragbufRdma[h] \subseteq BufferKey
  /\ \A h \in Hosts : \A key \in DOMAIN fragbufRdma[h] :
       fragbufRdma[h][key].expectedLength \in Int
  /\ numReceived \in [Hosts -> Nat]
  /\ failed \in BOOLEAN
  /\ sent \subseteq Message
  /\ arrived \subseteq Packet
  /\ DOMAIN delivered = Hosts
  /\ losses \in 0 .. MaxLosses
  /\ lifecycleOps \in 0 .. MaxLifecycle

(* The packets at h that carry the first byte, and the last byte, of a     *)
(* message (an unfragmented message is both).                              *)
ArrivedHeads(h) == { p \in arrived : p.msg.dst = h /\ p.hdr.fragmentOffset = 0 }
ArrivedTails(h) == { p \in arrived : p.msg.dst = h /\ ~p.hdr.moreFragments }

(* However fragments are lost, interleaved and mixed up in the buffers of  *)
(* addFragment, an application never counts more receptions than first     *)
(* fragments, nor more than last fragments, that reached it: numReceived   *)
(* cannot exceed the messages sent to it.                                  *)
ReceptionsBounded ==
  \A h \in Hosts : /\ numReceived[h] <= Cardinality(ArrivedHeads(h))
                   /\ numReceived[h] <= Cardinality(ArrivedTails(h))

(* The buffers at h that hold the first byte of a datagram, and those      *)
(* whose length is known.                                                  *)
HeadKeys(h) == { key \in DOMAIN fragbufRdma[h] : 0 \in DOMAIN fragbufRdma[h][key].bytes }
TailKeys(h) == { key \in DOMAIN fragbufRdma[h] : fragbufRdma[h][key].expectedLength # -1 }

(* Why ReceptionsBounded holds: a first fragment that arrived is either    *)
(* still in a buffer or was used up, at most once, by a reception, and so  *)
(* is a last one (overwritten and stuck fragments account for the <=); for *)
(* this no packet may arrive twice.                                        *)
ReceptionAccounting ==
  /\ \A m \in sent : m.seq < numSent[m.src]
  /\ \A d \in network : /\ d \in Ipv4Datagrams(d.pkt)
                        /\ d.pkt.msg \in sent
                        /\ d.pkt \notin arrived
                        /\ d \notin fragbufIpv4[d.pkt.msg.dst]
  /\ \A h \in Hosts : \A d \in fragbufIpv4[h] : d.pkt.msg \in sent
  /\ \A p \in arrived : p.msg \in sent
  /\ IsFiniteSet(arrived)
  /\ \A h \in Hosts :
       /\ IsFiniteSet(DOMAIN fragbufRdma[h])
       /\ numReceived[h] + Cardinality(HeadKeys(h)) <= Cardinality(ArrivedHeads(h))
       /\ numReceived[h] + Cardinality(TailKeys(h)) <= Cardinality(ArrivedTails(h))

(* The loop of handleUpperPacket cuts the bytes after the first            *)
(* RDMA_HEADER_LENGTH of a message into fragments without gap or overlap,  *)
(* and MORE is off in the fragment with the last byte and only there.      *)
FragmentsTile ==
  \A m \in sent : NeedsFragmentation(m) =>
    \A i \in RDMA_HEADER_LENGTH .. m.len - 1 :
      \E p \in HandleUpperPacket(m) :
        /\ i \in p.from .. p.from + p.len - 1
        /\ i = m.len - 1 <=> ~p.hdr.moreFragments /\ i = p.from + p.len - 1
        /\ \A q \in HandleUpperPacket(m) \ {p} : i \notin q.from .. q.from + q.len - 1

(* The message whose bytes a reassembled datagram holds, and no other.     *)
From(datagram, m) == \A i \in DOMAIN datagram.content : datagram.content[i].msg = m

(* What its own fragments make of a message when nothing else interferes.  *)
OwnContent(m) ==
  IF NeedsFragmentation(m)
    THEN [ i \in 0 .. PayloadLength(m) - 1 |->
             LET offset == i - (i % FragmentLength)
             IN PacketByte(Fragment(m, offset), RDMA_HEADER_LENGTH + (i - offset)) ]
    ELSE WholeContent(WholePacket(m))

(* "If this fragment completes a datagram, the full reassembled datagram   *)
(* is returned": all of what addFragment returns is of one message.        *)
FullDatagram ==
  \A h \in Hosts : \A i \in 1 .. Len(delivered[h]) :
    \E m \in sent : m.dst = h /\ From(delivered[h][i], m)

(* A message all of whose packets have reached the application has been    *)
(* counted, and its own bytes are what was handed over.                    *)
ArrivedIsDelivered ==
  \A m \in sent : HandleUpperPacket(m) \subseteq arrived =>
    \E i \in 1 .. Len(delivered[m.dst]) :
      delivered[m.dst][i] = [packet |-> m, content |-> OwnContent(m)]

(* Each application receives the messages of a sender in the order they    *)
(* were sent, each at most once, and measures the latency of that message. *)
DeliveredInOrder ==
  \A h \in Hosts : \A i, j \in 1 .. Len(delivered[h]) :
    LET m == delivered[h][i].packet
        n == delivered[h][j].packet
    IN /\ From(delivered[h][i], m)
       /\ i < j /\ m.src = n.src => m.seq < n.seq

(* Every message sent is in the end received.                              *)
EventuallyReceived ==
  \A h \in Hosts : \A k \in 0 .. MaxSent - 1 :
    (\E m \in sent : m.src = h /\ m.seq = k)
      ~> (\E g \in Hosts : \E i \in 1 .. Len(delivered[g]) :
            delivered[g][i].packet.src = h /\ delivered[g][i].packet.seq = k)

=============================================================================
