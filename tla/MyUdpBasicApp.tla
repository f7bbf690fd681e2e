--------------------------- MODULE MyUdpBasicApp ----------------------------
(***************************************************************************)
(* Hosts running MyUdpBasicApp (src/inet/applications/udpapp/              *)
(* MyUdpBasicApp.cc) over UdpSocket and a lossy network.  A message longer *)
(* than fragmentSize is cut by the application itself; where socketOut has *)
(* a channel (no TCP in the host), one fragment is sent in each event of   *)
(* endTxTimer and offset is kept between them, else all at once.           *)
(*                                                                         *)
(* A timer that is scheduled may fire at any moment; whether the next send *)
(* lies before stopTime is a free choice.  endTxTimer is "due" from the    *)
(* end of a transmission, when the channel is free already, to its event:  *)
(* other events of that moment may come in between.  What lies between     *)
(* sendTo and the peer's Udp is a FIFO for each pair of hosts.             *)
(***************************************************************************)
EXTENDS UdpAppFragBuf, FiniteSets, Sequences, SequencesExt

CONSTANTS
  Hosts,
  ModuleId,                (* getParentModule()->getId() of each host      *)
  IdStride,                (* 10 in the code                               *)
  DestAddresses,           (* [Hosts -> SUBSET Hosts]                      *)
  HasChannel,              (* [Hosts -> BOOLEAN]: FALSE where hasTcp       *)
  MessageLengths,          (* values of the volatile messageLength         *)
  FirstPacket,             (* length of message 0 under isGlobalArp        *)
  FragmentSize,
  IsGlobalArp,
  HasStopTime,             (* [Hosts -> BOOLEAN]: FALSE where it is -1     *)
  PacketsToSend,           (* [Hosts -> Nat]                               *)
  NoHost,
  MaxLosses,               (* bound: packets lost in the network           *)
  MaxLifecycle             (* bound: stops and crashes                     *)

(* At most one of the lengths of a host needs fragments: a draw below the  *)
(* bytes already sent would make a fragment of negative length.            *)
ASSUME UdpAppAssumption ==
  /\ ModuleId \in [Hosts -> Nat] /\ IsInjective(ModuleId) /\ IdStride \in Nat \ {0}
  /\ DestAddresses \in [Hosts -> SUBSET Hosts]
  /\ HasChannel \in [Hosts -> BOOLEAN] /\ HasStopTime \in [Hosts -> BOOLEAN]
  /\ MessageLengths \in [Hosts -> SUBSET (Nat \ {0})]
  /\ FragmentSize \in Nat \ {0} /\ FirstPacket \in 1 .. FragmentSize
  /\ \A h \in Hosts : \A m, n \in MessageLengths[h] :
       m > FragmentSize /\ n > FragmentSize => m = n
  /\ IsGlobalArp \in BOOLEAN /\ PacketsToSend \in [Hosts -> Nat] /\ NoHost \notin Hosts
  /\ MaxLosses \in Nat /\ MaxLifecycle \in Nat

VARIABLES
  app,                     (* the fields of each application, see Fields   *)
  network,                 (* packets between two hosts, in order          *)
  error,                   (* the cRuntimeError that ended the simulation  *)
  sentTo,                  (* history: packets of each host, in order      *)
  delivered,               (* history: datagrams each host has received    *)
  swallowed,               (* history: the first packet of each host,      *)
                           (* counted without being looked at              *)
  gone,                    (* history: packets lost, or without a socket   *)
  redrawn,                 (* history: hosts where messageLength changed   *)
                           (* in the middle of a message                   *)
  losses, lifecycleOps

history == <<sentTo, delivered, swallowed, gone, redrawn>>

vars == <<app, network, error, history, losses, lifecycleOps>>

Running == error = "none"

Up(h) == app[h].state # "NOT_OPERATING"

Fails(what) ==
  /\ error' = what
  /\ UNCHANGED <<app, network, history, losses, lifecycleOps>>

-----------------------------------------------------------------------------
(***************************************************************************)
(* sendPacket, for the fields a of h, as [app, packets, error]: what it    *)
(* leaves in the fields, what it gives to the socket, and what it throws.  *)
(***************************************************************************)
IdWithoutNumSent(h, a) == ModuleId[h] * IdStride

Id(h, a) == ModuleId[h] * IdStride + a.numSent

Fragment(h, a, from, n, more) ==
  [ src |-> h, seq |-> a.numSent, id |-> Id(h, a), dst |-> a.destAddr,
    offset |-> from, len |-> n, more |-> more ]

(* sendTo opens the socket again if it is closed: Udp makes a new one.     *)
Using(h, a) ==
  [ a EXCEPT !.sockState = "CONNECTED", !.busy = HasChannel[h],
             !.udpSocket = IF @ = "none" THEN "ephemeral" ELSE @ ]

(* The channel refuses a packet while it is busy.                          *)
Result(h, a, after, packets) ==
  [ app |-> after, packets |-> packets,
    error |-> IF a.busy /\ packets # <<>> THEN "channel is busy" ELSE "none" ]

Nothing(h, a) == Result(h, a, a, <<>>)

Whole(h, a, len) ==
  Result(h, a, [ Using(h, a) EXCEPT !.messageLength = len, !.numSent = @ + 1 ],
         << Fragment(h, a, 0, len, FALSE) >>)

FragmentLength(from, len) == IF from + FragmentSize >= len THEN len - from ELSE FragmentSize

NextFragmentNoOffset(h, a, len) ==
  LET n    == FragmentLength(a.offset, len)
      more == a.offset + FragmentSize < len
  IN  Result(h, a,
             [ Using(h, a) EXCEPT !.messageLength = len, !.endTxTimer = "scheduled",
                                  !.offset = @ + n, !.numSent = IF more THEN @ ELSE @ + 1 ],
             << Fragment(h, a, 0, n, more) >>)

NextFragmentCountsEach(h, a, len) ==
  LET n    == FragmentLength(a.offset, len)
      more == a.offset + FragmentSize < len
  IN  Result(h, a,
             [ Using(h, a) EXCEPT !.messageLength = len, !.endTxTimer = "scheduled",
                                  !.offset = @ + n, !.numSent = @ + 1 ],
             << Fragment(h, a, a.offset, n, more) >>)

(* One fragment; the timer of the next is scheduled.                       *)
NextFragment(h, a, len) ==
  LET n    == FragmentLength(a.offset, len)
      more == a.offset + FragmentSize < len
      sent == Result(h, a,
                [ Using(h, a) EXCEPT !.messageLength = len, !.endTxTimer = "scheduled",
                                     !.offset = @ + n, !.numSent = IF more THEN @ ELSE @ + 1 ],
                << Fragment(h, a, a.offset, n, more) >>)
  IN  IF sent.error = "none" /\ a.endTxTimer # "idle"
        THEN [ sent EXCEPT !.error = "already scheduled" ] ELSE sent

(* The loop where there is no channel.                                     *)
AllFragments(h, a, len) ==
  Result(h, a, [ Using(h, a) EXCEPT !.messageLength = len, !.offset = 0, !.numSent = @ + 1 ],
         [ i \in 1 .. (len - a.offset + FragmentSize - 1) \div FragmentSize |->
             LET from == a.offset + (i - 1) * FragmentSize
             IN  Fragment(h, a, from, FragmentLength(from, len), from + FragmentSize < len) ])

Draws(h, a) ==
  IF a.numSent = 0 /\ IsGlobalArp THEN {FirstPacket} ELSE MessageLengths[h]

SendPacket(h, a, len) ==
  IF a.numSent >= PacketsToSend[h] THEN Nothing(h, a)
  ELSE IF len <= FragmentSize   THEN Whole(h, a, len)
  ELSE IF HasChannel[h]         THEN NextFragment(h, a, len)
                                ELSE AllFragments(h, a, len)

(* An event that ends in sendPacket, with the fields a, or in its error.   *)
Sends(h, a, len) ==
  LET result == SendPacket(h, a, len)
  IN  \/ result.error # "none" /\ Fails(result.error)
      \/ /\ result.error = "none"
         /\ app' = [app EXCEPT ![h] = result.app]
         /\ network' = [network EXCEPT ![<<h, a.destAddr>>] = @ \o result.packets]
         /\ sentTo' = [sentTo EXCEPT ![h] = @ \o result.packets]
         /\ redrawn' = IF result.packets # <<>> /\ a.offset # 0 /\ len <= FragmentSize
                         THEN redrawn \cup {h} ELSE redrawn
         /\ UNCHANGED <<error, delivered, swallowed, gone, losses, lifecycleOps>>

-----------------------------------------------------------------------------
(***************************************************************************)
(* The timers of the application.                                          *)
(***************************************************************************)
NextTimer(h) == {"SEND"} \cup IF HasStopTime[h] THEN {"STOP"} ELSE {}

(* processSend: the destination is chosen for the whole message.           *)
ProcessSend(h, a) ==
  \E dst \in DestAddresses[h], len \in Draws(h, a), kind \in NextTimer(h) :
    Sends(h, [ a EXCEPT !.destAddr = dst, !.selfMsg = kind ], len)

Quietly(h, a) ==
  /\ app' = [app EXCEPT ![h] = a]
  /\ UNCHANGED <<network, error, history, losses, lifecycleOps>>

Bound(a) == [ a EXCEPT !.udpSocket = "bound", !.sockState = "CONNECTED" ]

(* processStart: bind, then the first send, or nothing but the STOP timer. *)
(* The bind does not fail: see TypeOK.                                     *)
ProcessStart(h) ==
  /\ Running /\ Up(h)
  /\ app[h].selfMsg = "START"
  /\ \/ DestAddresses[h] # {} /\ ProcessSend(h, Bound(app[h]))
     \/ /\ DestAddresses[h] = {}
        /\ Quietly(h, [ Bound(app[h]) EXCEPT
                          !.selfMsg = IF HasStopTime[h] THEN "STOP" ELSE "NONE" ])

SendTimer(h) ==
  /\ Running /\ Up(h)
  /\ app[h].selfMsg = "SEND"
  /\ ProcessSend(h, app[h])

(* UdpSocket::close: nothing if it is closed, else Udp will answer.        *)
Closed(a) ==
  IF a.sockState = "CLOSED" THEN a
    ELSE [ a EXCEPT !.sockState = "CLOSED", !.udpSocket = "none", !.closing = TRUE ]

ProcessStop(h) ==
  /\ Running /\ Up(h)
  /\ app[h].selfMsg = "STOP"
  /\ Quietly(h, Closed([ app[h] EXCEPT !.selfMsg = "NONE" ]))

TransmissionEnds(h) ==
  /\ Running
  /\ app[h].busy /\ app[h].endTxTimer # "due"
  /\ Quietly(h, [ app[h] EXCEPT !.busy = FALSE,
                                !.endTxTimer = IF @ = "scheduled" THEN "due" ELSE @ ])

HandleEndTxForgets(h) ==
  /\ Running /\ app[h].endTxTimer = "due"
  /\ Quietly(h, [ app[h] EXCEPT !.endTxTimer = "idle" ])

HandleEndTxOneMore(h) ==
  LET a == [ app[h] EXCEPT !.endTxTimer = "idle" ]
  IN  /\ Running /\ app[h].endTxTimer = "due"
      /\ \/ ~Up(h) /\ Fails("self message when down")
         \/ /\ Up(h) /\ a.offset <= a.messageLength
            /\ \E len \in Draws(h, a) : Sends(h, a, len)
         \/ Up(h) /\ a.offset > a.messageLength /\ Quietly(h, [ a EXCEPT !.offset = 0 ])

(* handleEndTxPeriod, or the error of a module that is down.               *)
HandleEndTxPeriod(h) ==
  LET a == [ app[h] EXCEPT !.endTxTimer = "idle" ]
  IN  /\ Running /\ app[h].endTxTimer = "due"
      /\ \/ ~Up(h) /\ Fails("self message when down")
         \/ /\ Up(h) /\ a.offset < a.messageLength
            /\ \E len \in Draws(h, a) : Sends(h, a, len)
         \/ Up(h) /\ a.offset >= a.messageLength /\ Quietly(h, [ a EXCEPT !.offset = 0 ])

-----------------------------------------------------------------------------
(***************************************************************************)
(* Lifecycle.  Nothing cancels endTxTimer or resets offset.                *)
(***************************************************************************)
(* The operation ends; Udp, stopped next, drops its sockets.               *)
Down(a) ==
  [ a EXCEPT !.state = "NOT_OPERATING", !.selfMsg = "NONE", !.udpSocket = "none",
             !.closing = FALSE ]

HandleStartOperation(h) ==
  /\ Running /\ ~Up(h)
  /\ \E kind \in {"START"} \cup IF HasStopTime[h] THEN {"NONE"} ELSE {} :
       Quietly(h, [ app[h] EXCEPT !.state = "OPERATING", !.selfMsg = kind ])

Operates(h) ==
  /\ Running /\ app[h].state = "OPERATING"
  /\ lifecycleOps < MaxLifecycle
  /\ lifecycleOps' = lifecycleOps + 1
  /\ UNCHANGED <<network, error, history, losses>>

HandleStopOperationKeepsTimer(h) ==
  /\ Operates(h)
  /\ app' = [app EXCEPT ![h] = Closed([ app[h] EXCEPT !.state = "STOPPING" ])]

HandleStopOperation(h) ==
  /\ Operates(h)
  /\ app' = [app EXCEPT ![h] = Closed([ app[h] EXCEPT !.state = "STOPPING",
                                                       !.selfMsg = "NONE" ])]

HandleCrashOperation(h) ==
  /\ Operates(h)
  /\ app' = [app EXCEPT ![h] = Down(app[h])]

(* The answer of Udp; it ends a stop operation.                            *)
SocketClosed(h) ==
  /\ Running /\ app[h].closing
  /\ Quietly(h, IF app[h].state = "STOPPING" THEN Down(app[h])
                                             ELSE [ app[h] EXCEPT !.closing = FALSE ])

(* A stop of which Udp was not told ends by its timeout, as a crash.       *)
HandleActiveOperationTimeout(h) ==
  /\ Running /\ app[h].state = "STOPPING" /\ ~app[h].closing
  /\ Quietly(h, Down(app[h]))

-----------------------------------------------------------------------------
(***************************************************************************)
(* Reception.                                                              *)
(***************************************************************************)
Datagram(bytes, len) == [ bytes |-> bytes, len |-> len ]

Counted(h, bufs, datagram) ==
  /\ app' = [app EXCEPT ![h].numReceived = @ + 1, ![h].bufs = bufs]
  /\ delivered' = [delivered EXCEPT ![h] = @ \cup {datagram}]
  /\ UNCHANGED swallowed

KeptCounted(h, bufs) ==
  /\ app' = [app EXCEPT ![h].numReceived = @ + 1, ![h].bufs = bufs]
  /\ UNCHANGED <<delivered, swallowed>>

(* No complete datagram yet.                                               *)
Kept(h, bufs) ==
  /\ app' = [app EXCEPT ![h].bufs = bufs]
  /\ UNCHANGED <<delivered, swallowed>>

IsFirstOrSecond(h) == app[h].numReceived <= 1 /\ IsGlobalArp

(* Under isGlobalArp the first packet, whatever it is, is only counted.    *)
IsFirst(h) == app[h].numReceived = 0 /\ IsGlobalArp

ProcessPacket(h, p) ==
  LET bufs == app[h].bufs
      buf  == Reassembly(bufs, p)
      isFragment == p.offset # 0 \/ p.more
  IN  \/ /\ IsFirst(h)
         /\ app' = [app EXCEPT ![h].numReceived = @ + 1]
         /\ swallowed' = swallowed \cup {p}
         /\ UNCHANGED delivered
      \/ /\ ~IsFirst(h) /\ ~isFragment
         /\ Counted(h, bufs, Datagram([ i \in 0 .. p.len - 1 |-> PacketByte(p, i) ], p.len))
      \/ /\ ~IsFirst(h) /\ isFragment /\ IsComplete(buf)
         /\ Counted(h, AddFragment(bufs, p), Datagram(buf.bytes, buf.expectedLength))
      \/ /\ ~IsFirst(h) /\ isFragment /\ ~IsComplete(buf)
         /\ Kept(h, AddFragment(bufs, p))

(* Udp has a socket on destPort only between bind and close.               *)
Arrive(g, h) ==
  /\ Running /\ network[<<g, h>>] # <<>>
  /\ network' = [network EXCEPT ![<<g, h>>] = Tail(@)]
  /\ \/ /\ Up(h) /\ app[h].udpSocket = "bound"
        /\ ProcessPacket(h, Head(network[<<g, h>>]))
        /\ UNCHANGED gone
     \/ /\ ~(Up(h) /\ app[h].udpSocket = "bound")
        /\ gone' = gone \cup {Head(network[<<g, h>>])}
        /\ UNCHANGED <<app, delivered, swallowed>>
  /\ UNCHANGED <<error, sentTo, redrawn, losses, lifecycleOps>>

Lose(g, h) ==
  /\ Running /\ network[<<g, h>>] # <<>> /\ losses < MaxLosses
  /\ losses' = losses + 1
  /\ network' = [network EXCEPT ![<<g, h>>] = Tail(@)]
  /\ gone' = gone \cup {Head(network[<<g, h>>])}
  /\ UNCHANGED <<app, error, sentTo, delivered, swallowed, redrawn, lifecycleOps>>

-----------------------------------------------------------------------------
Fields ==
  [ state |-> "OPERATING", selfMsg |-> "START", sockState |-> "CLOSED",
    udpSocket |-> "none", closing |-> FALSE, numSent |-> 0, offset |-> 0,
    messageLength |-> 0, destAddr |-> NoHost, endTxTimer |-> "idle", busy |-> FALSE,
    numReceived |-> 0, bufs |-> NoBuffers ]

Init ==
  /\ app = [h \in Hosts |-> Fields]
  /\ network = [c \in Hosts \X Hosts |-> <<>>]
  /\ error = "none"
  /\ sentTo = [h \in Hosts |-> <<>>]
  /\ delivered = [h \in Hosts |-> {}]
  /\ swallowed = {} /\ gone = {} /\ redrawn = {}
  /\ losses = 0 /\ lifecycleOps = 0

Next ==
  \E h \in Hosts :
    \/ ProcessStart(h) \/ SendTimer(h) \/ ProcessStop(h)
    \/ TransmissionEnds(h) \/ HandleEndTxPeriod(h)
    \/ HandleStartOperation(h) \/ HandleStopOperation(h) \/ HandleCrashOperation(h)
    \/ SocketClosed(h) \/ HandleActiveOperationTimeout(h)
    \/ \E g \in Hosts : Arrive(g, h) \/ Lose(g, h)

Spec == Init /\ [][Next]_vars

(* The simulator runs what is scheduled: the end of a transmission and the *)
(* timer of that moment.                                                   *)
Fairness == \A h \in Hosts : WF_vars(TransmissionEnds(h)) /\ WF_vars(HandleEndTxPeriod(h))

FairSpec == Spec /\ Fairness

-----------------------------------------------------------------------------
Packet ==
  [ src : Hosts, seq : Nat, id : Nat, dst : Hosts, offset : Nat, len : Nat \ {0},
    more : BOOLEAN ]

(* Every packet carries at least a byte, the fields keep their ranges, and *)
(* bind never meets a socket of the application that is bound.             *)
TypeOK ==
  /\ \A h \in Hosts :
       /\ app[h].state \in {"OPERATING", "STOPPING", "NOT_OPERATING"}
       /\ app[h].selfMsg \in {"NONE", "START", "SEND", "STOP"}
       /\ app[h].sockState \in {"CLOSED", "CONNECTED"}
       /\ app[h].udpSocket \in {"none", "ephemeral", "bound"}
       /\ app[h].selfMsg = "START" => app[h].udpSocket # "bound"
       /\ app[h].endTxTimer \in {"idle", "scheduled", "due"}
       /\ app[h].numSent \in 0 .. PacketsToSend[h]
       /\ {app[h].offset, app[h].messageLength, app[h].numReceived} \subseteq Nat
       /\ ToSet(sentTo[h]) \subseteq Packet
  /\ losses \in 0 .. MaxLosses /\ lifecycleOps \in 0 .. MaxLifecycle
  /\ redrawn \subseteq Hosts

Follows(p, q) ==
  IF p.more
    THEN q.seq = p.seq /\ q.dst = p.dst /\ q.offset = p.offset + p.len
    ELSE q.seq = p.seq + 1 /\ q.offset = 0

(* Though the fragments of a message are sent in separate events, with     *)
(* offset, destAddr and numSent kept in the module, and SEND, stops,       *)
(* crashes and restarts may come in between, the packets of a host are its *)
(* messages one after the other, each to one host and cut without a gap:   *)
(* what would disturb that ends the simulation.  The exception is a host   *)
(* whose messageLength was drawn anew in the middle of a message.          *)
MessagesInSequence ==
  \A h \in Hosts \ redrawn :
    \A i \in 1 .. Len(sentTo[h]) - 1 : Follows(sentTo[h][i], sentTo[h][i + 1])

OwnersOf(datagram) ==
  { [ src |-> datagram.bytes[i].src, seq |-> datagram.bytes[i].seq ] :
      i \in DOMAIN datagram.bytes }

(* A datagram that is put together holds bytes of two messages only if     *)
(* they are messages of two hosts whose numbers lie as far apart as their  *)
(* module ids do, ten messages for each; losses, which leave buffers that  *)
(* are never purged, restarts and redrawn lengths do not mix messages.     *)
MixedOnlyByIdCollision ==
  \A h \in Hosts : \A datagram \in delivered[h] : \A m, n \in OwnersOf(datagram) :
    m # n => /\ m.src # n.src
             /\ m.seq - n.seq = IdStride * (ModuleId[n.src] - ModuleId[m.src])

LastByte(h, k) ==
  CHOOSE n \in { p.offset + p.len - 1 : p \in ToSet(sentTo[h]) } :
    \E p \in ToSet(sentTo[h]) : p.seq = k /\ ~p.more /\ n = p.offset + p.len - 1

(* A datagram of one message holds all of it, each byte at its place, and  *)
(* nothing else.                                                           *)
ReceivedInFull ==
  \A h \in Hosts : \A datagram \in delivered[h] :
    \A m \in OwnersOf(datagram) :
      OwnersOf(datagram) = {m} /\ m.src \notin redrawn =>
        /\ DOMAIN datagram.bytes = 0 .. LastByte(m.src, m.seq)
        /\ \A i \in DOMAIN datagram.bytes : datagram.bytes[i].at = i

(* No datagram is counted twice: numReceived is the number of different    *)
(* datagrams received and of the first packet, which finish() subtracts.   *)
CountedOnce ==
  \A h \in Hosts :
    app[h].numReceived
      = Cardinality(delivered[h]) + Cardinality({ p \in swallowed : p.dst = h })

AllSent == UNION { ToSet(sentTo[h]) : h \in Hosts }

InFlight == UNION { ToSet(network[c]) : c \in Hosts \X Hosts }

(* The packets that go into the buffer of p.                               *)
SharesKey(p) == { q \in AllSent : Key(q) = Key(p) /\ q.dst = p.dst }

(* A message of which every packet has arrived has been received, however  *)
(* the fragments of other messages came in between, unless another one     *)
(* whose id has the same 16 bits was sent to the same host.                *)
ArrivedIsCounted ==
  \A p \in AllSent :
    /\ ~p.more /\ p.src \notin redrawn
    /\ \A q \in SharesKey(p) : q.src = p.src /\ q.seq = p.seq
    /\ SharesKey(p) \cap (InFlight \cup gone \cup swallowed) = {}
    => \E datagram \in delivered[p.dst] :
         OwnersOf(datagram) = {[ src |-> p.src, seq |-> p.seq ]}

(* The packet that a host counts without looking at it, and that finish()  *)
(* leaves out of the statistics, is the first one of its sender, unless    *)
(* that one went to another host, was lost or came before the socket was   *)
(* bound.                                                                  *)
SwallowedIsFirst ==
  \A p \in swallowed :
    \/ p.seq = 0
    \/ \E q \in gone : q.src = p.src
    \/ \E q \in AllSent : q.src = p.src /\ q.seq = 0 /\ q.dst # p.dst

(* After close() the application gives a packet to the socket, which opens *)
(* it again under another port, only to go on with a message it had begun. *)
OpensAgainOnlyMidMessage ==
  [][ \A h \in Hosts :
        /\ sentTo'[h] # sentTo[h] /\ app[h].sockState = "CLOSED"
        /\ app[h].selfMsg # "START" /\ h \notin redrawn
        => sentTo[h] # <<>> /\ Last(sentTo[h]).more ]_vars

(* A message that has begun is sent to its end by endTxTimer alone, also   *)
(* after close() and over a restart, if no error ends the simulation.      *)
BegunIsFinished ==
  \A h \in Hosts : \A k \in 0 .. PacketsToSend[h] - 1 :
    (sentTo[h] # <<>> /\ Last(sentTo[h]).more /\ Last(sentTo[h]).seq = k)
      ~> (app[h].numSent > k \/ error # "none" \/ h \in redrawn)

=============================================================================
