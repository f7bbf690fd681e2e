# TLA+ verification of the RDMA additions to INET

The repository is a copy of the INET framework for OMNeT++ with an RDMA stack
added to it (`inet/applications/rdmaapp`, `inet/transportlayer/rdma`) and with
pacing timers put into `Ipv4`, `Udp`, `EthernetEncapsulation` and a UDP test
application, so that the latency of RDMA and of the ordinary stack can be
compared. This directory models the code that was added or changed: what it
does to messages, buffers and timers, under loss, interleaving and restarts.

## 1. Inventory

| Component | State | Operations | Interacts with |
|---|---|---|---|
| `RdmaBasicApp` | `selfMsg` (START, SEND, STOP), `destAddressStr`, `destAddresses`, `numSent`, `numReceived`, `fragbuf` (IPv4), `fragbufRdma` | timer handlers, `processPacket`, start, stop, crash | sends to `Rdma`; gets frames directly from `EthernetEncapsulation` |
| `Rdma` | `numSent`; everything else is local to `handleUpperPacket` | `handleUpperPacket` | from the application, to `Ipv4` |
| `RdmaHeader` | ports, identification, fragment fields, length | copy, setters | `Rdma`, `RdmaAppFragBuf` |
| `RdmaAppFragBuf` | `bufs`: key to (regions, expected length, packet) | `addFragment`, `flush` | called by `RdmaBasicApp::processPacket` |
| `ChunkBuffer`, `ReassemblyBuffer` | sorted list of regions | `replace`, `clear`, `isComplete` | under every reassembly |
| `Ipv4`, output | `queue`, `packet`, `offset`, `payloadLength`, `pendingPackets`, `endTxTimer`, `isRdma` | datagram from above or to be forwarded, end of transmission, ARP signals, start, stop, crash | `Rdma`/`Udp` above, `Arp` beside (signals), the interface below |
| `Ipv4`, upward | `fragbuf`, `lastCheckTime`, `queueToUpperLayer`, `packetToUpperLayer`, `endUpperTxTimer`, raw sockets | `reassembleAndDeliver`, end of upper transmission, bind and close of sockets, stop | `EthernetEncapsulation` below, `Udp` above |
| `EthernetEncapsulation` | `queueToUpperLayer`, `packet`, `endTxTimer`, `socketIdToSocketMap` | frames from above and from the MAC, socket commands, pause, end of transmission | hands frames of RDMA hosts to the application, those of other hosts to `Ipv4` |
| `Udp`, queues | `queue`, `endTxTimer`, `queueToUpperLayer`, `endUpperTxTimer` | packets from above and below, end of transmission | applications above, `Ipv4` below |
| `Udp`, sockets | `socketsByIdMap`, `socketsByPortMap`, `lastEphemeralPort` | bind, connect, options, close, destroy, stop; choice of the socket of a packet | commands of the applications |
| `MyUdpBasicApp`, `UdpSocket` | `selfMsg`, `endTxTimer`, `offset`, `messageLength`, `destAddr`, `numSent`, `numReceived`, state of the socket | timer handlers, one fragment per end of transmission, `processPacket`, start, stop, crash | `Udp` |
| `UdpAppFragBuf` | `bufs`: id to (regions, expected length, packet) | `addFragment` | called by `MyUdpBasicApp::processPacket` |
| `OperationalBase` | operational state, active operation, its timeout | start, stop, crash, timeout | all modules above |
| serializer, dissector, printer; topology scripts; rest of INET | - | - | - |

What is hard here:

* **Interleaving.** Fragments of several senders and of several messages meet
  in the buffers of one receiver. Timers, lifecycle operations, ARP answers
  and new datagrams reach the same state in any order.
* **Ties.** The timer that ends a transmission is an event of the instant at
  which the channel becomes free; a packet that comes in that instant may be
  handled first, and finds a free channel and a timer that is still scheduled.
* **Failure.** Switch queues drop frames, so any fragment may be missing.
  A node may be stopped, crashed and restarted. ARP may fail and its entries
  expire.
* **Stale state.** `Ipv4` keeps `offset`, `payloadLength` and `packet` from
  one event to the next; the RDMA application keeps two lists whose indices
  should agree, the UDP application the rest of a message, and `Udp` a flag
  that was computed when a socket was created.
* **Boundaries.** A payload that is a multiple of the fragment length,
  `startTime = stopTime`, a send at exactly `stopTime`, 16-bit fields.

What correct means: messages are cut without gap and put together again from
their own bytes, once, in order; no reception is invented; timers are never
scheduled twice, in the past or left behind in a module that is down; the
output sends every datagram it does not drop, whole and in order; what goes up
reaches the application in order, once, and in the end; a packet reaches the
socket it is addressed to, and a port has one owner.
`PROJECT.json` lists the hazards line by line with the properties for each.

## 2. Modules

| Module | Models | Notes |
|---|---|---|
| `Rdma` | `Rdma::handleUpperPacket`, `RdmaHeader` | operators: a message to the set of packets sent for it |
| `RdmaFragBuf` | `RdmaAppFragBuf` | operators on `bufs` |
| `RdmaSystem` | hosts with application, `Rdma`, the IPv4 cut, a lossy network and both reassemblies | composes the two above; the clock is abstracted |
| `RdmaBasicApp` | the application's timers, clock, lifecycle and destination lists | one host, with explicit time |
| `ChunkBuffer`, `ByteStore` | the region list, and the byte map it promises to be | refinement |
| `Ipv4Output` | the output path of `Ipv4` | paced (with a channel) or unpaced (RDMA host) |
| `EthernetEncapsulation`, `Ipv4Upward`, `UdpQueue` | one step each of the way up a host | the three paced queues, with their channel and timer |
| `UpwardPath` | the way up as a whole | composes the three above by `INSTANCE`; what leaves one channel is handled by the module above in the same step |
| `FifoPipe` | what a chain of queues promises | `UpwardPath` from the queue of `Ipv4` on is shown to implement it |
| `UdpSockets` | the sockets of `Udp` | commands, tables, ports, choice of a socket |
| `MyUdpBasicApp`, `UdpAppFragBuf` | the UDP application and its reassembly | hosts over a lossy network |
| `MC...` | values of constants for TLC | |
| `...Proofs` | theorems | section 5 |

### Correspondence with the code

`RdmaSystem`. A message is a record, its bytes are numbered; a packet says
which bytes of which message it carries and how many copies of its header
stand before them (`Fragment`: two, because the code inserts the header by
`insertTransportProtocolHeader` and by `insertAtFront`). `Dup` is the copy
constructor of `RdmaHeader`, which leaves the three fragmentation fields at
their initial values. The step from the application's timer through `Rdma` and
`Ipv4` to the interface takes no simulated time in an RDMA host and is one
action (`HandleStart`, `HandleSend`). `network` holds the IPv4 datagrams in
flight; those of one pair of hosts arrive in order, those of different senders
in any order (`IsNext`), and any may be lost (`Lose`). `Receive` is all of
`processPacket`: IPv4 reassembly, then RDMA reassembly, then the count. An IPv4
datagram is identified by the packet it carries, which stands for its source,
destination and 16-bit identification. The chance whether the next send lies
before `stopTime` is free here and exact in `RdmaBasicApp`.

`RdmaFragBuf`. A buffer's regions are the function from the offsets held to
the bytes held there; `ChunkBuffer` justifies it.

`RdmaBasicApp`. Times are whole ticks; `Tick` moves the clock only when no
event is due, as the simulation kernel does, and events of one moment come in
any order. `Schedule` states the kernel's two errors. A name resolves to an
address from the moment on when the interface has one (`AddressAssigned`).

`ChunkBuffer`. One operator per loop of the code; iterators are indices. The
three ways to join two chunks give the same bytes and are one case. `replace`
of an empty chunk does nothing. The run starts lengths at 1, as every caller of
`clear` does; the assumption of the module also allows 0, and section 5 says
which results hold for it.

`Ipv4Output`. `FragmentAndSend` has one disjunct per exit of the function:
early return (`Discard`), straight out, all fragments (`isRdma`), one fragment.
The loop of the RDMA branch is the sequence `FragmentsFrom`. `packet` is kept by
the early returns, `offset` is not reset by `FragmentPostRouting`, and
`payloadLength` starts with any of a few values since the code does not
initialise it. `currentFragment` always equals `packet` where it is read.
`pendingPacket` is never filled and is left out. Datagrams may have been
rejected before this point (hooks, no route); those are not routed and not part
of the model. Routes lead to broadcast interfaces of one MTU greater than 0.
Where the channel is left out, the simulation files run RDMA only, which is the
assumption `HasChannel => "rdma" \notin Protocols` of the module, and the choice of
`Protocols` in the run without a channel: a datagram of another protocol sent first by such a host would leave `packet`
set for good.

The way up. Channel and timer are abstract: a transmission ends at any moment,
and a timer that was scheduled for its end is then "due" until its event; other
events may come before it, which is the tie described above. A channel that is
not free refuses a packet (`SendOnBusyChannel`), `scheduleAt` refuses a timer
that is scheduled (`SendPacket`), and `rescheduleAt`, used by `Ipv4` only, does
not (`PassUpToProtocol`). Several channels in a row, with message dispatchers
between them, are one: a dispatcher passes a packet on when it is sent, not when
it arrives, so all of them are busy for the same time. Propagation delays are
left out. `packet` and `packetToUpperLayer` are set to null just before they are
tested and therefore no state. `Ipv4Upward` keeps fragments as a set; that the
buffer is complete when all parts are there is what `ChunkBuffer` shows. The age
of a buffer is a flag, `checkDue` the 10 seconds between two purges. A socket
matches by protocol. `UpwardPath` bounds what disturbs the path (sockets, aged
buffers, stops) by one constant; `NodeStops` is the stop of all modules, which
leaves timers and queues as they are; a packet or timer event that reaches a
module that is down ends the simulation, unless it is a packet of the very
instant of the stop (`HandleMessageWhenDown`, `TimerWhenDown`).

`UdpSockets`. The lists of `socketsByPortMap` are sequences. Every command but
`bind` creates the socket it names (`OnSocket`, `SocketOf`); a
`bind` to port -1 searches the list of port 65535, since the argument is a
`ushort`; options that change nothing of
the modelled state are one action, `UseSocket`. The loop of `getEphemeralPort`
is the least i for which the i-th port tried is free. `remotePort` always goes
with `remoteAddr` and is left out.

`MyUdpBasicApp`. `SendPacket` returns the new fields, the packets and the error
of `sendPacket()`, which is called from two handlers (`ProcessSend` for the SEND
timer, `HandleEndTxPeriod` for the next fragment). The state of the socket is
kept twice, as `sockState` in `UdpSocket` and as `udpSocket` in `Udp`, since
`close()` and `sendTo()` change them at different times. What lies between
`sendTo` and the peer's `Udp` is a FIFO for each pair of hosts that may lose
packets; what is inside a host that stops, where the simulation might end
instead, counts as lost. The release build is modelled: in a debug build chunks
are immutable once they are in a packet, and the change of the payload at line
213 would throw at the first paced fragment. At most one length of a host exceeds
`fragmentSize` (`UdpAppAssumption`): with two of them a second draw may lie below
`offset`, and `messageLength - offset` is negative.

## 3. Runs

All runs set `CHECK_DEADLOCK FALSE`: a simulation stops when no event is left,
when a bound is used up or after a `cRuntimeError`.

| Run | Instance | Shows |
|---|---|---|
| `rdma_lossy` | one sender, up to 3 messages sent whole or in two fragments, an MTU that cuts the fragments again, random destination ports (one of them refused), 2 losses, 1 stop or crash | `TypeOK`, `ReceptionsBounded`, `ReceptionAccounting` |
| `rdma_senders` | two senders with different local ports, messages whole or in fragments, no loss, fairness | `FragmentsTile`, `DeliveredInOrder`, `ArrivedIsDelivered`, `FullDatagram`, `EventuallyReceived` |
| `rdma_mixed` | two senders with the same ports | violation, section 4 |
| `app_timers` | start 1, stop 4, intervals 1 to 3, two lifecycle operations, three names of which two get their address at any time | `NoTimerError`, `SendsWithinWindow`, `TimerInv`, `ListsCover`, `StopsForGood` |
| `app_late` | the host's own name listed, another resolved late | violation |
| `chunk_buffer` | all sequences of `replace` and `clear` up to the bound | `ImplementsByteStore`, `CompleteIffCovered` |
| `ipv4_hosts` | three kinds of node, chosen in the initial state (`MCIpv4Hosts`): a router with two hops, TTL 0, dontFragment, an ARP that may fail and one stop or crash; a paced host and an RDMA host with three datagrams, ARP entries that expire, fairness | `OneInWork`, `NoneWaitsForKnownHop`, `DatagramsInOrder`, `SentWhole`, `HostsSend` |
| `ipv4_discard` | router, a datagram whose TTL is 0, fairness | violation |
| `upward_path` | three datagrams out of four kinds (whole, two fragments to two sockets, a protocol not connected, an unknown ethertype), one socket, aged buffer or stop, fairness | `TypeOK`, `DoubleScheduleOnlyAtTie`, `QueuesAreServed`, `GivenUpIsNotHanded`, `PathIsFifo`, `PathDrains` |
| `udp_sockets` | three sockets, two addresses, two peers, two ephemeral ports of which one is also asked for by number | `TablesAgree`, `OneOwner`, `ExhaustionExplained`, `ConnectedPeerOnly`, `MisdirectedOnlyIfEarly` |
| `udp_reuse` | the same instance | violation |
| `udp_app` | two scenarios, chosen in the initial state (`MCMyUdpBasicApp`): a paced sender of up to three messages of one or three fragments that stops, crashes, restarts and draws lengths anew; the same sender with an unpaced one, whose ids meet, and one loss; fairness | `TypeOK`, `MessagesInSequence`, `MixedOnlyByIdCollision`, `ReceivedInFull`, `CountedOnce`, `ArrivedIsCounted`, `SwallowedIsFirst`, `OpensAgainOnlyMidMessage`, `BegunIsFinished` |

Bounds. Lengths are scaled down, not simplified: with a header of 2 bytes, a
unit of 2 and a maximum of 6 there are messages that are sent whole, that make
a single "fragment", that fill their last fragment and that do not. Two senders
or three messages are what mixing in one buffer needs; two losses allow a
message to lose its first and another its last fragment. In `RdmaBasicApp` two
lifecycle operations give a restart that is interrupted again. In `Ipv4Output`
three datagrams are one in work and two in the queue. In `UpwardPath` three
datagrams let one be on each channel with another behind it, or two in the
queue of one module behind a third; each disturbance is combined with all of
their interleavings, two disturbances with each other are not. In `UdpSockets`
three sockets exhaust two ephemeral ports, and are the least for which the first
of a list hides another from `bind`. In `MyUdpBasicApp` three fragments give a
first, a middle and a last one, and a stride of 1 instead of 10 lets the ids of
the second message of one host and of the third of the other meet as the tenth
messages do in the code; the two scenarios are apart because together they
exceed what TLC can explore, and each property that needs both a second sender
and a loss is met by the second one. The router of `ipv4_hosts` is not fair and
not part of `HostsSend`, see section 4. Every named bound is a
constant `Max...` in the guard of the action it limits.

Fairness. The simulation kernel runs every scheduled event, so frames in flight
arrive (`Receive`), the application's timers fire and time advances
(`SelfMessage`, `HandleActiveOperationTimeout`, `Tick`), and `endTxTimer` fires
(`HandleEndTxPeriod`): weak fairness of each. In `UpwardPath` the scheduled
events together are weakly fair, which is less: the simulator runs one after the
other, the order is left open. In `MyUdpBasicApp` only the ends of transmissions
and `endTxTimer` are. For ARP, weak fairness says that a
request is answered while packets wait for it; with `ArpMayFail` it may be given
up instead. Nothing is assumed of new datagrams, losses, starts, stops or
crashes.

## 4. Where code and documentation disagree

* `rdma_mixed`: fragments carry identification 0 because `RdmaHeader::copy`
  does not copy it, and the key has no source address. Two senders with the
  same ports have their messages mixed. `rdma_senders` says when this cannot
  happen. The same cause makes `ArrivedIsDelivered` fail for a single sender as
  soon as one frame is lost (`MaxLosses = 1`): what is left of the damaged
  message shares the buffer of the following ones.
* `app_late`: the two lists of the application have different indices once a
  local address is skipped.
* `ipv4_discard`: after a drop inside `fragmentAndSend`, `packet` stays set with
  no timer to clear it, and the output stops for all next hops. The same
  property fails with `ArpMayFail = TRUE` alone (`arpResolutionTimedOut` drops
  the packet in work), and after a stop that throws away the packet in work.
* `udp_reuse`: of two sockets that share a port without an address the one
  bound first receives. With an address it is the last one, as the comment says.

Met while modelling, without a run of their own:

* The first bytes of a fragmented RDMA message are in no fragment
  (`Rdma.cc:227`, `258`); `FragmentsTile` is about the bytes after those. The
  doubled header also makes a fragment longer than its `totalLengthField`
  ("RDMA header + payload in bytes", `RdmaHeader.msg:23`).
* `endTxTimer` of `Ipv4`, and the timers of the way up and of `MyUdpBasicApp`,
  are not cancelled by a stop; `OperationalMixinImpl.h:84` throws if one of them
  fires while the module is down. The models end in this error.
* A packet that arrives in the very instant at which a transmission ends can make
  `scheduleAt` throw, in `Udp` and in `EthernetEncapsulation`
  (`DoubleScheduleOnlyAtTie` says that this is the only way). `Ipv4` uses
  `rescheduleAt` and is not affected.
* A copy for a socket, or a datagram for a protocol that is not connected, leaves
  the queue behind it without a timer until the next packet comes
  (`QueuesAreServed` and `PathDrains` name these exceptions). Two matching sockets,
  or one and the protocol in `Ipv4`, send twice on one channel, which throws.
* A bind that moves a socket leaves an empty list, and the old port stays taken
  (`ExhaustionExplained` counts it in `abandoned`).
* The SEND timer that fires while a message is being paced ends the simulation:
  `MyUdpBasicApp` relies on a `sendInterval` longer than the transmission.
* `clear(offset, 0)` inside a region splits it into two regions that touch
  (`ChunkBuffer.cc:66`), which the assertion at line 162 allows and the comment
  in `ChunkBuffer.h:74` ("non-overlapping, non-connecting") does not; `isComplete`
  is false then although all bytes are there. Nothing in the repository clears a
  length of 0, so there is no run; `NonConnectingHolds` and
  `CompleteIffCoveredHolds` exclude it by hypothesis.
* A source port of -1 becomes `rand() % 65535` (`Rdma.cc:172`) and not an
  ephemeral port, as `RdmaBasicApp.ned:25` says; `ResolvedPort` models what the
  code does.

## 5. Proofs

TLAPS proves the following for every value of the constants that satisfies the
named assumptions of the modules (`RdmaAssumption`, `SystemAssumption`,
`AppAssumption`, `OutputAssumption`, `NoPacketAssumption`, `UpwardAssumption`,
`SocketAssumption`, `UdpAppAssumption`, `ChunkAssumption`). These give the types
of the parameters, say that a fragment holds at least one unit, and state the two
facts about the simulation files that section 2 names: no RDMA in a paced output,
and at most one length above `fragmentSize`. Where a theorem has hypotheses of its
own, its row names them.

| Theorem | Module | Argument |
|---|---|---|
| `TypeCorrect`, `FragmentsTileHolds` | `RdmaProofs` | types by action; tiling from the arithmetic of `FragmentLength`: byte i lies in the fragment at the greatest multiple of `FragmentLength` not above it, and multiples do not overlap |
| `AccountingHolds`, `ReceptionsBoundedHolds` | `RdmaProofs` | `ReceptionsBounded` is not inductive: a reception takes its first and its last fragment from a buffer. `ReceptionAccounting` counts these too: receptions plus buffers that hold byte 0 are at most the first fragments that arrived, likewise for last fragments; and a packet arrives at most once, since its parts are in the network, in `fragbufIpv4` or gone |
| `DeliveredInOrderHolds`, `ArrivedIsDeliveredHolds`, `FullDatagramHolds` | `RdmaProofs` | Hypotheses `NoLoss` (no frame is lost, no application stops) and `PortsApart` (hosts with a destination in common can pick no local port in common); `rdma_mixed` shows what happens without the second. Three layers. `PathInv`: datagrams leave the network in the order they were sent, so the packets of a path arrive in order even when IPv4 cuts them. `BufferInv`: hence a buffer holds the first fragments of the one message of its sender that is incomplete, and nothing else. `DeliveryInv`: what was handed over are the messages that are completely there. An arrival has one of two outcomes (`ArrivalOutcome`), and each keeps the invariant |
| `TimerInvariant`, `NoTimerErrorHolds`, `SendsWithinWindowHolds` | `RdmaBasicAppProofs` | `TimerInv`: a timer lies between now and the end of the window and exists only while operating; this covers the special case `startTime = stopTime` of `handleStartOperation`, which no run fixes |
| `ListsCoverHolds` | `RdmaBasicAppProofs` | `ListsInv`: each start adds all names to one list and the addresses of some of them to the other (`KeptCount`), and a send replaces an address |
| `OneInWorkHolds`, `NoneWaitsForKnownHopHolds` | `Ipv4OutputProofs` | `InWorkAccounts` with the shape of the variables: with no datagram in work nothing waits and `offset` is 0; in a paced output at most one packet waits for ARP and the timer is then free, in an unpaced one there is no timer. `OneInWork` is the part of it that is the same for both |
| `DatagramsInOrderHolds`, `SentWholeHolds` | `Ipv4OutputProofs` | `OrderInv`, on top of the invariant of the row above. The datagram in work stands between what is out and what is queued: all that was sent or waits for ARP comes before it, or is a fragment of it from before `offset` (`AllBehind`), and the queue comes after it. Of a datagram that left the queue and was not dropped all packets are out or wait, those from `offset` on excepted (`NothingMissing`). That `payloadLength` is the length of the datagram in work holds just where the code depends on it, when fragments of it are left (`WorkInLine`) |
| `UpwardTypeCorrect`, `DoubleScheduleOnlyAtTieHolds`, `QueuesAreServedHolds` | `UpwardPathProofs` | `UpwardInvariant`, one part for each of the three queues: a queue with packets has a timer or one of the named exceptions, and a timer is scheduled only with its channel busy, or free again in the same instant |
| `GivenUpIsNotHandedHolds` | `UpwardPathProofs` | a second invariant: each fragment of a datagram is in one place, a datagram that was put together leaves nothing behind in the buffer, and one that was given up lacks a part |
| `PathIsFifoHolds` (`UpwardPath` implements `FifoPipe`) | `UpwardPathProofs` | the pipe has four stages, the channel and the queue of Udp, the channel and the queue of Ipv4 (`Stages`). A timer or the end of a transmission moves what is between two stages (`StagesMoveUp`, `StagesMoveOn`), a completed datagram is added to the last, the application takes the head of the first, and a stop cuts one stage out (`StagesCut`); any other outcome is an error and ends the simulation. That the copies of a datagram can be counted needs that only finitely many raw sockets are bound (`SocketsFinite`), which is proved too and not assumed |
| `TablesAgreeHolds`, `OneOwnerHolds`, `ExhaustionExplainedHolds`, `ConnectedPeerOnlyHolds`, `MisdirectedOnlyIfEarlyHolds` | `UdpSocketsProofs` | `SocketInvariant`: the two tables agree, and every socket of a list but the first came by a bind (`Follows`). That is why it is enough that `bind` asks only the first socket that matches, and why `ExhaustionExplained` can name who holds each port. The search of `getEphemeralPort` is covered for any range within 0 to 65535, with the wrap |
| `UdpAppTypeCorrect`, `MessagesInSequenceHolds`, `OpensAgainOnlyMidMessageHolds` (an action property) | `MyUdpBasicAppProofs` | `UdpAppInvariant`, one invariant for each host over its fields and the packets it has sent (`HostInv`): the fields go on where the last packet ended, and while a message is unfinished either `endTxTimer` is set or `offset` has passed the length. `sendPacket` is analysed in its three cases (`WholeFacts`, `NextFragmentFacts`, `AllFragmentsFacts`) |
| `SwallowedIsFirstHolds` | `MyUdpBasicAppProofs` | the first packet of a host is gone, counted, or at the head of its queue (`NetworkInv`, `FirstInv`) |
| `MixedOnlyByIdCollisionHolds` | `MyUdpBasicAppProofs` | all bytes of a buffer have its key (`ReceivedInv`). Hypothesis `IdsFit`: the ids of all packets fit the 16 bits of the key; beyond that the identification wraps and the theorem says nothing |
| `CountedOnceHolds`, `ReceivedInFullHolds`, `ArrivedIsCountedHolds` | `UdpReceptionProofs` | `UdpReceptionInvariant`, five layers. `HostsInv`, strengthened by `Apart`: the packets of a host are sent in a strict order (`Earlier`), cut at multiples of `fragmentSize`, and fragments of one message do not overlap. `NetworkInv` and `PathInv`: what is under way between two hosts was sent by the one, is in its order, and comes after all that is no more under way. `GoneInv`: what was lost, or counted unread, is not under way. `HeardInv`: the bytes of a buffer, and of a datagram put together from one, come from fragments with its key that have landed; a byte of the fragment that completed a datagram is in no buffer any more, so it cannot complete another; and a fragment whose key no other message shares waits in the buffer of that key until its message has been counted. No hypothesis: unlike the row above these do not need the ids to fit their 16 bits |
| `RegionsInvariant`, `NonConnectingHolds`, `CompleteIffCoveredHolds`, `ImplementsByteStoreHolds` (`ChunkBuffer` implements `ByteStore`) | `ChunkBufferProofs` | `RegionsInv`: the regions are in order and do not overlap, with a gap between them unless lengths of 0 are cleared. The bytes of a list of regions are a set of pairs of offset and byte; cutting a stretch out removes the pairs in it (`Outside`), joining two chunks unites their pairs, and of regions in order each offset has one byte, so the set is the byte map (`ContentIsMap`). The refinement holds without a hypothesis; that regions do not touch, and that `isComplete` tests what it should, need `0 \notin Lengths` (section 4) |

Some of these arguments are inductions over data: the sums of `FlattenSeq` in
`UpwardPathProofs` and `ChunkBufferProofs`, the arrivals in `UdpReceptionProofs`.
The library's induction theorems take an operator as a parameter, which the
provers cannot instantiate. The lemmas `LeastElement` and `SetInduction` state
the same as a fact about a set of natural numbers, from the well-foundedness of
their order, and the induction is on membership of that set.

Every safety property that a passing run checks, and both refinements, are
theorems. Only model-checked are the liveness properties (`EventuallyReceived`,
`StopsForGood`, `HostsSend`, `PathDrains`, `BegunIsFinished`), which the prover
does not cover since they rest on fairness. `NonConnecting` is the one property
that is only proved: it implies what `CompleteIffCovered` needs, which is
checked.

## 6. Not modelled

Latency statistics (`finish`), the CRC (inserted, never verified by the RDMA
stack), serializer, dissector and printer, IPv4 multicast, broadcast and hooks,
interfaces with an MTU of 0 in `Ipv4Output`, UDP multicast memberships and ICMP
errors, the addresses of Ethernet and raw sockets, pause commands and LLC frames
of the encapsulation, a crash while a stop operation is active (the lifecycle
code forbids it by an assertion), the MAC, and the topology scripts.

The rest of INET, by far the most of the source lines (TCP, SCTP, routing
protocols, wireless, generated message classes), is an unchanged third-party
library. It is modelled only where the code above relies on it, by external
actions; the project therefore covers the code this repository is about and a
small share of all its lines.

## 7. Plan

1. *Done:* `Rdma`, `RdmaFragBuf`, `RdmaSystem`, `ChunkBuffer`, `RdmaBasicApp`,
   `Ipv4Output`, their runs and the theorems above.
2. *Done:* the way up (`EthernetEncapsulation`, `Ipv4Upward`, `UdpQueue`,
   `UpwardPath`, `FifoPipe`), `UdpSockets`, `MyUdpBasicApp` and `UdpAppFragBuf`.
3. *Done:* the proofs: all safety properties of the runs, and the refinements of
   `ByteStore` and `FifoPipe` (section 5).
4. Further modelling: the pause state of the MAC; multicast memberships of `Udp`.
