----------------------------- MODULE Ipv4Output -----------------------------
(***************************************************************************)
(* The output side of Ipv4 (src/inet/networklayer/ipv4/Ipv4.cc): the FIFO  *)
(* of routed datagrams, the one datagram in work, its fragments, the       *)
(* packets that wait for ARP, and endTxTimer, which paces the output where *)
(* queueOut is connected by a channel with a data rate.  In an RDMA host   *)
(* the channel is left out and isRdma makes fragmentAndSend finish each    *)
(* datagram at once.                                                       *)
(*                                                                         *)
(* Routes lead to Ethernet interfaces of one MTU; fragments are numbered   *)
(* by the byte of the payload with which they begin.                       *)
(***************************************************************************)
EXTENDS Integers, FiniteSets, Sequences, SequencesExt

CONSTANTS
  NextHops,
  PayloadLengths,          (* bytes after the IPv4 header                  *)
  Protocols,               (* of the datagrams: "rdma" and "other"         *)
  DontFragment,            (* values of the dontFragment bit               *)
  Forwarding,              (* TRUE in a router                             *)
  HasChannel,              (* FALSE where Ipv4NetworkLayer.isRdma is set   *)
  ArpMayFail,
  Mtu, HeaderLength, FragmentUnit,
  UninitializedLengths,    (* what payloadLength may hold at the start     *)
  NoPacket,                (* the null pointer                             *)
  MaxDatagrams,            (* bound: datagrams routed                      *)
  MaxLifecycle             (* bound: stops and crashes of the node         *)

(* The ini files leave the channel out exactly in the hosts that run the   *)
(* RDMA application.                                                       *)
ASSUME OutputAssumption ==
  /\ PayloadLengths \subseteq Nat \ {0}
  /\ Protocols \subseteq {"rdma", "other"}
  /\ HasChannel \in BOOLEAN
  /\ HasChannel => "rdma" \notin Protocols
  /\ DontFragment \subseteq BOOLEAN
  /\ Forwarding \in BOOLEAN /\ ArpMayFail \in BOOLEAN
  /\ HeaderLength \in Nat \ {0} /\ FragmentUnit \in Nat \ {0}
  /\ Mtu \in Nat /\ Mtu >= HeaderLength + FragmentUnit
  /\ UninitializedLengths \subseteq Int
  /\ MaxDatagrams \in Nat /\ MaxLifecycle \in Nat

Datagram ==
  [ id : 1 .. MaxDatagrams, hop : NextHops, len : PayloadLengths,
    protocol : Protocols, df : DontFragment, ttl : 0 .. 1 ]

ASSUME NoPacketAssumption == NoPacket \notin Datagram

VARIABLES
  up,                      (* the module is operating                      *)
  isRdma,
  queue,                   (* routed datagrams that wait                   *)
  packet,                  (* the datagram in work                         *)
  offset, payloadLength,
  pendingPackets,          (* packets waiting for the MAC address of a hop *)
  arpCache,                (* hops whose MAC address is known              *)
  endTxTimer,              (* scheduled or not                             *)
  error,                   (* the cRuntimeError that ended the simulation  *)
  routed,                  (* history: all datagrams that were routed      *)
  sent,                    (* history: packets sent to queueOut, in order  *)
  dropped,                 (* history: datagrams thrown away               *)
  lifecycleOps

vars == <<up, isRdma, queue, packet, offset, payloadLength, pendingPackets, arpCache,
          endTxTimer, error, routed, sent, dropped, lifecycleOps>>

Running == error = "none"

-----------------------------------------------------------------------------
(***************************************************************************)
(* Fragments of a datagram.                                                *)
(***************************************************************************)
ByteLength(d) == HeaderLength + d.len

FragmentLength == ((Mtu - HeaderLength) \div FragmentUnit) * FragmentUnit

LastFragment(d, from) == from + FragmentLength >= d.len

FragmentAt(d, from) ==
  [ datagram |-> d, offset |-> from,
    length   |-> IF LastFragment(d, from) THEN d.len - from ELSE FragmentLength ]

Whole(d) == [ datagram |-> d, offset |-> 0, length |-> d.len ]

(* What the while loop of the RDMA branch sends.                           *)
FragmentsFrom(d, from) ==
  [ i \in 1 .. (d.len - from + FragmentLength - 1) \div FragmentLength |->
      FragmentAt(d, from + (i - 1) * FragmentLength) ]

-----------------------------------------------------------------------------
(***************************************************************************)
(* sendPacketToNIC for each of packets; timer says whether endTxTimer is   *)
(* scheduled before.  The simulator refuses to schedule it once more.      *)
(***************************************************************************)
SendPacketsToNIC(packets, timer) ==
  /\ sent' = sent \o packets
  /\ endTxTimer' = (timer \/ (HasChannel /\ packets # <<>>))
  /\ error' = IF HasChannel /\ packets # <<>> /\ (timer \/ Len(packets) > 1)
                THEN "already scheduled" ELSE error

(* With the MAC address of the hop, or else into its pending packets.      *)
SendDatagramToOutput(hop, packets, timer) ==
  IF hop \in arpCache
    THEN /\ SendPacketsToNIC(packets, timer)
         /\ UNCHANGED pendingPackets
    ELSE /\ pendingPackets' = [pendingPackets EXCEPT ![hop] = @ \o packets]
         /\ endTxTimer' = timer
         /\ UNCHANGED <<sent, error>>

(* An early return of fragmentAndSend: packet still points to what is gone. *)
Discard(d, timer) ==
  /\ dropped' = dropped \cup {d}
  /\ packet' = d
  /\ endTxTimer' = timer
  /\ UNCHANGED <<payloadLength, pendingPackets, sent, error>>

TooLarge(d) == ByteLength(d) > Mtu

Undeliverable(d) == d.ttl = 0 \/ (TooLarge(d) /\ d.df)

SendStraightOutNoReset(d, from, rdma, timer) ==
  /\ SendDatagramToOutput(d.hop, <<Whole(d)>>, timer)
  /\ packet' = d
  /\ offset' = from
  /\ UNCHANGED <<payloadLength, dropped>>

SendStraightOut(d, from, rdma, timer) ==
  /\ SendDatagramToOutput(d.hop, <<Whole(d)>>, timer)
  /\ packet' = IF rdma THEN NoPacket ELSE d
  /\ offset' = IF rdma THEN 0 ELSE from
  /\ UNCHANGED <<payloadLength, dropped>>

SendAllFragments(d, from, timer) ==
  /\ SendDatagramToOutput(d.hop, FragmentsFrom(d, from), timer)
  /\ packet' = NoPacket
  /\ offset' = 0
  /\ payloadLength' = d.len
  /\ UNCHANGED dropped

SendNextFragment(d, from, timer) ==
  /\ SendDatagramToOutput(d.hop, <<FragmentAt(d, from)>>, timer)
  /\ packet' = d
  /\ offset' = from + FragmentAt(d, from).length
  /\ payloadLength' = d.len
  /\ UNCHANGED dropped

FragmentAndSend(d, from, rdma, timer) ==
  \/ Undeliverable(d) /\ Discard(d, timer) /\ offset' = from
  \/ ~Undeliverable(d) /\ ~TooLarge(d) /\ SendStraightOut(d, from, rdma, timer)
  \/ ~Undeliverable(d) /\ TooLarge(d) /\ rdma /\ SendAllFragments(d, from, timer)
  \/ ~Undeliverable(d) /\ TooLarge(d) /\ ~rdma /\ SendNextFragment(d, from, timer)

FragmentPostRoutingAtOnce(d, rdma) ==
  /\ UNCHANGED queue
  /\ FragmentAndSend(d, offset, rdma, endTxTimer)

(* The datagram goes through the queue; the head is taken if none is in    *)
(* work.  offset is not reset here.                                        *)
FragmentPostRouting(d, rdma) ==
  IF packet = NoPacket
    THEN /\ queue' = Tail(Append(queue, d))
         /\ FragmentAndSend(Head(Append(queue, d)), offset, rdma, endTxTimer)
    ELSE /\ queue' = Append(queue, d)
         /\ UNCHANGED <<packet, offset, payloadLength, pendingPackets, endTxTimer,
                        error, sent, dropped>>

-----------------------------------------------------------------------------
(***************************************************************************)
(* Handlers.                                                               *)
(***************************************************************************)
(* Datagrams are numbered in the order of their routing.                   *)
NewDatagram(d) == d.id = Cardinality(routed) + 1

(* handleMessageWhenUp: the first RDMA packet sets isRdma for good.        *)
RdmaSeen(d) == isRdma \/ d.protocol = "rdma"

(* encapsulate: a fresh identification and a TTL of at least 1.            *)
Encapsulated(d) == NewDatagram(d) /\ d.ttl > 0

(* From the transport layer.                                               *)
HandlePacketFromHL(d) ==
  /\ Running /\ up
  /\ Encapsulated(d)
  /\ isRdma' = RdmaSeen(d)
  /\ FragmentPostRouting(d, isRdma')
  /\ routed' = routed \cup {d}
  /\ UNCHANGED <<up, arpCache, lifecycleOps>>

(* From the network, to be forwarded, its TTL decremented already.         *)
HandleIncomingDatagram(d) ==
  /\ Running /\ up /\ Forwarding
  /\ NewDatagram(d)
  /\ FragmentPostRouting(d, isRdma)
  /\ routed' = routed \cup {d}
  /\ UNCHANGED <<up, isRdma, arpCache, lifecycleOps>>

EndTxKeepsOffset ==
  IF offset < payloadLength /\ Mtu < ByteLength(packet)
    THEN /\ FragmentAndSend(packet, offset, isRdma, FALSE)
         /\ UNCHANGED queue
  ELSE IF queue # <<>>
    THEN /\ queue' = Tail(queue)
         /\ FragmentAndSend(Head(queue), offset, isRdma, FALSE)
  ELSE /\ packet' = NoPacket
       /\ endTxTimer' = FALSE
       /\ UNCHANGED <<queue, offset, payloadLength, pendingPackets, error, sent, dropped>>

EndTxNewestFirst ==
  IF offset < payloadLength /\ Mtu < ByteLength(packet)
    THEN /\ FragmentAndSend(packet, offset, isRdma, FALSE)
         /\ UNCHANGED queue
  ELSE IF queue # <<>>
    THEN /\ queue' = Front(queue)
         /\ FragmentAndSend(Last(queue), 0, isRdma, FALSE)
  ELSE /\ packet' = NoPacket
       /\ offset' = 0
       /\ endTxTimer' = FALSE
       /\ UNCHANGED <<queue, payloadLength, pendingPackets, error, sent, dropped>>

(* The next fragment of packet, or the next datagram, or nothing.          *)
EndTx ==
  IF offset < payloadLength /\ Mtu < ByteLength(packet)
    THEN /\ FragmentAndSend(packet, offset, isRdma, FALSE)
         /\ UNCHANGED queue
  ELSE IF queue # <<>>
    THEN /\ queue' = Tail(queue)
         /\ FragmentAndSend(Head(queue), 0, isRdma, FALSE)
  ELSE /\ packet' = NoPacket
       /\ offset' = 0
       /\ endTxTimer' = FALSE
       /\ UNCHANGED <<queue, payloadLength, pendingPackets, error, sent, dropped>>

HandleEndTxPeriod ==
  /\ Running /\ up /\ endTxTimer
  /\ EndTx
  /\ UNCHANGED <<up, isRdma, arpCache, routed, lifecycleOps>>

(* OperationalMixin::handleMessageWhenDown throws on a self message.       *)
EndTxWhenDown ==
  /\ Running /\ ~up /\ endTxTimer
  /\ endTxTimer' = FALSE
  /\ error' = "self message when down"
  /\ UNCHANGED <<up, isRdma, queue, packet, offset, payloadLength, pendingPackets,
                 arpCache, routed, sent, dropped, lifecycleOps>>

-----------------------------------------------------------------------------
(***************************************************************************)
(* Arp.                                                                    *)
(***************************************************************************)
ArpResolutionCompletedNoErase(hop) ==
  /\ Running /\ up
  /\ hop \notin arpCache
  /\ arpCache' = arpCache \cup {hop}
  /\ SendPacketsToNIC(pendingPackets[hop], endTxTimer)
  /\ UNCHANGED <<up, isRdma, queue, packet, offset, payloadLength, pendingPackets, routed,
                 dropped, lifecycleOps>>

(* All that waited for the hop leaves at once.                             *)
ArpResolutionCompleted(hop) ==
  /\ Running /\ up
  /\ hop \notin arpCache
  /\ arpCache' = arpCache \cup {hop}
  /\ SendPacketsToNIC(pendingPackets[hop], endTxTimer)
  /\ pendingPackets' = [pendingPackets EXCEPT ![hop] = <<>>]
  /\ UNCHANGED <<up, isRdma, queue, packet, offset, payloadLength, routed, dropped,
                 lifecycleOps>>

Waiting(hop) == { pendingPackets[hop][i].datagram : i \in DOMAIN pendingPackets[hop] }

(* packet may still point to the datagram whose packets are thrown away.   *)
ArpResolutionTimedOut(hop) ==
  /\ Running /\ up /\ ArpMayFail
  /\ pendingPackets[hop] # <<>>
  /\ dropped' = dropped \cup Waiting(hop)
  /\ pendingPackets' = [pendingPackets EXCEPT ![hop] = <<>>]
  /\ UNCHANGED <<up, isRdma, queue, packet, offset, payloadLength, arpCache, endTxTimer,
                 error, routed, sent, lifecycleOps>>

(* An entry of the cache grows too old.                                    *)
ArpExpires(hop) ==
  /\ Running /\ up
  /\ hop \in arpCache
  /\ arpCache' = arpCache \ {hop}
  /\ UNCHANGED <<up, isRdma, queue, packet, offset, payloadLength, pendingPackets,
                 endTxTimer, error, routed, sent, dropped, lifecycleOps>>

-----------------------------------------------------------------------------
(***************************************************************************)
(* Lifecycle: stop() flushes the packets that wait for ARP; queue, packet  *)
(* and endTxTimer stay as they are.                                        *)
(***************************************************************************)
Stop ==
  /\ Running /\ up
  /\ lifecycleOps < MaxLifecycle
  /\ lifecycleOps' = lifecycleOps + 1
  /\ up' = FALSE
  /\ dropped' = dropped \cup UNION { Waiting(hop) : hop \in NextHops }
  /\ pendingPackets' = [hop \in NextHops |-> <<>>]
  /\ arpCache' = {}
  /\ UNCHANGED <<isRdma, queue, packet, offset, payloadLength, endTxTimer, error,
                 routed, sent>>

Start ==
  /\ Running /\ ~up
  /\ up' = TRUE
  /\ UNCHANGED <<isRdma, queue, packet, offset, payloadLength, pendingPackets, arpCache,
                 endTxTimer, error, routed, sent, dropped, lifecycleOps>>

Init ==
  /\ up = TRUE
  /\ isRdma = FALSE
  /\ queue = <<>>
  /\ packet = NoPacket
  /\ offset = 0
  /\ payloadLength \in UninitializedLengths
  /\ pendingPackets = [hop \in NextHops |-> <<>>]
  /\ arpCache = {}
  /\ endTxTimer = FALSE
  /\ error = "none"
  /\ routed = {}
  /\ sent = <<>>
  /\ dropped = {}
  /\ lifecycleOps = 0

Next ==
  \/ \E d \in Datagram : HandlePacketFromHL(d) \/ HandleIncomingDatagram(d)
  \/ HandleEndTxPeriod
  \/ EndTxWhenDown
  \/ \E hop \in NextHops : \/ ArpResolutionCompleted(hop)
                           \/ ArpResolutionTimedOut(hop)
                           \/ ArpExpires(hop)
  \/ Stop
  \/ Start

Spec == Init /\ [][Next]_vars

(* The simulator runs the timer, and ARP answers what waits for it.        *)
FairSpec ==
  /\ Spec
  /\ WF_vars(HandleEndTxPeriod)
  /\ \A hop \in NextHops :
       WF_vars(pendingPackets[hop] # <<>> /\ ArpResolutionCompleted(hop))

-----------------------------------------------------------------------------
(* Whatever the order of new datagrams, timer events and ARP answers,      *)
(* endTxTimer is never scheduled while it is scheduled, so nothing is sent *)
(* into a channel that is busy.                                            *)
NoDoubleSchedule == error # "already scheduled"

(* The datagram in work accounts for all of the output, in every kind of   *)
(* node: with none, nothing waits in the queue, offset has been reset and  *)
(* no timer runs; while endTxTimer runs nothing waits for ARP and no RDMA  *)
(* packet has been seen.                                                   *)
OneInWork ==
  /\ packet = NoPacket => queue = <<>> /\ offset = 0 /\ ~endTxTimer
  /\ endTxTimer => ~isRdma /\ \A hop \in NextHops : pendingPackets[hop] = <<>>
  /\ NoDoubleSchedule

(* The ASSERT2 of sendDatagramToOutput: nothing waits for the MAC address  *)
(* of a hop that ARP has resolved, whatever was resolved, forgotten or     *)
(* given up before.                                                        *)
NoneWaitsForKnownHop == \A hop \in arpCache : pendingPackets[hop] = <<>>

(* Through fragmentation, the queue and the wait for ARP, what leaves for  *)
(* one next hop leaves in the order in which the datagrams were routed,    *)
(* and the fragments of a datagram in the order of their offsets.          *)
DatagramsInOrder ==
  \A i, j \in DOMAIN sent :
    i < j /\ sent[i].datagram.hop = sent[j].datagram.hop =>
      \/ sent[i].datagram.id < sent[j].datagram.id
      \/ /\ sent[i].datagram.id = sent[j].datagram.id
         /\ sent[i].offset < sent[j].offset

PacketsOf(d) == IF TooLarge(d) THEN FragmentsFrom(d, 0) ELSE <<Whole(d)>>

SentInFull(d) ==
  LET own == { i \in DOMAIN sent : sent[i].datagram = d }
  IN /\ { sent[i] : i \in own } = ToSet(PacketsOf(d))
     /\ \A i, j \in own : sent[i] = sent[j] => i = j

Pending(d) ==
  \/ d = packet
  \/ d \in ToSet(queue)
  \/ \E hop \in NextHops : d \in Waiting(hop)

(* A datagram the module has finished with and did not drop has left       *)
(* completely: all its fragments, each of them once.                       *)
SentWhole == \A d \in routed \ dropped : Pending(d) \/ SentInFull(d)

(* A routed datagram is sent in the end, unless it is dropped itself.      *)
RoutedIsSent ==
  \A i \in 1 .. MaxDatagrams :
    (\E d \in routed : d.id = i)
      ~> (\E d \in routed : d.id = i /\ (d \in dropped \/ SentInFull(d)))
=============================================================================
