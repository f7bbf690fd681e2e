----------------------------- MODULE Ipv4Upward -----------------------------
(***************************************************************************)
(* The way up through Ipv4 (src/inet/networklayer/ipv4/Ipv4.cc and         *)
(* Ipv4FragBuf.cc): fragments for this host are reassembled, complete      *)
(* datagrams go through queueToUpperLayer to the raw sockets and to the    *)
(* transport protocol, paced by endUpperTxTimer.  Channel and timer are    *)
(* those of module EthernetEncapsulation.                                  *)
(*                                                                         *)
(* A packet p is part p.part of the p.parts fragments of datagram          *)
(* p.datagram.  The age of a buffer is kept as a flag: it is old once      *)
(* fragmentTimeout has passed since its last fragment.                     *)
(***************************************************************************)
EXTENDS Integers, FiniteSets, Sequences

CONSTANTS
  SocketIds,
  upperProtocols,          (* transport protocols that are connected       *)
  NoSocket, NoPacket       (* null pointers                                *)

VARIABLES
  bufs,                    (* fragments held by fragbuf                    *)
  old,                     (* datagrams whose buffer is too old            *)
  checkDue,                (* 10 s have passed since lastCheckTime         *)
  queue,                   (* queueToUpperLayer                            *)
  channel, timer,          (* transportOut and endUpperTxTimer             *)
  sockets,                 (* protocol of each raw socket                  *)
  timeExceeded,            (* datagrams reported to their source by ICMP:  *)
  unreachable,             (* given up, and without a protocol or socket   *)
  error

bufferVars == <<bufs, old, checkDue>>
ipv4Vars == <<bufferVars, queue, channel, timer, sockets, timeExceeded, unreachable>>

ToProtocol(p) == [packet |-> p, to |-> "protocol"]
ToSocket(p)   == [packet |-> p, to |-> "socket"]

-----------------------------------------------------------------------------
Busy == channel # NoPacket

(***************************************************************************)
(* Raw sockets.                                                            *)
(***************************************************************************)
Bind(s, protocol) ==
  /\ sockets[s] = NoSocket
  /\ sockets' = [sockets EXCEPT ![s] = protocol]
  /\ UNCHANGED <<bufferVars, queue, channel, timer, timeExceeded, unreachable, error>>

Close(s) ==
  /\ sockets[s] # NoSocket
  /\ sockets' = [sockets EXCEPT ![s] = NoSocket]
  /\ UNCHANGED <<bufferVars, queue, channel, timer, timeExceeded, unreachable, error>>

Raw(p) == { s \in SocketIds : sockets[s] = p.protocol }

-----------------------------------------------------------------------------
(***************************************************************************)
(* reassembleAndDeliverFinish: t is the state of the timer.                *)
(***************************************************************************)
(* To the protocol, and the timer is moved to the end of the transmission. *)
PassUpToProtocol(p, t) ==
  /\ channel' = ToProtocol(p)
  /\ timer' = "scheduled"
  /\ UNCHANGED <<unreachable, error>>

(* To a raw socket only: no timer will end this transmission.              *)
PassUpToSocket(p, t) ==
  /\ channel' = ToSocket(p)
  /\ timer' = t
  /\ UNCHANGED <<unreachable, error>>

(* Protocol unreachable: the next of the queue waits without a timer.      *)
NotConnected(p, t) ==
  /\ unreachable' = unreachable \cup {p.datagram}
  /\ timer' = t
  /\ UNCHANGED <<channel, error>>

ReassembleAndDeliverFinish(p, t) ==
  LET connected == p.protocol \in upperProtocols
      copies == Cardinality(Raw(p)) + IF connected THEN 1 ELSE 0
  IN  \/ copies = 0 /\ NotConnected(p, t)
      \/ /\ copies > 1 \/ (copies = 1 /\ Busy)
         /\ error' = "channel busy"
         /\ UNCHANGED <<channel, timer, unreachable>>
      \/ copies = 1 /\ ~Busy /\ connected /\ PassUpToProtocol(p, t)
      \/ copies = 1 /\ ~Busy /\ ~connected /\ PassUpToSocket(p, t)

Enqueue(p) ==
  IF Busy
    THEN queue' = Append(queue, p) /\ UNCHANGED <<channel, timer, unreachable, error>>
    ELSE /\ queue' = Tail(Append(queue, p))
         /\ ReassembleAndDeliverFinish(Head(Append(queue, p)), timer)

HandleEndUpperTxPeriod ==
  /\ timer = "due"
  /\ IF queue = <<>>
       THEN timer' = "idle" /\ UNCHANGED <<queue, channel, unreachable, error>>
       ELSE queue' = Tail(queue) /\ ReassembleAndDeliverFinish(Head(queue), "idle")
  /\ UNCHANGED <<bufferVars, sockets, timeExceeded>>

-----------------------------------------------------------------------------
(***************************************************************************)
(* Ipv4FragBuf.                                                            *)
(***************************************************************************)
IsFragment(p) == p.parts > 1

(* purgeStaleFragments, at most every 10 s and before the fragment that    *)
(* occasions it is added.                                                  *)
Purged == IF checkDue THEN old ELSE {}

KeptThoughPurged(purged) == bufs

(* addFragment.                                                            *)
Kept(purged) == { f \in bufs : f.datagram \notin purged }

Complete(p, kept) ==
  \A i \in 1 .. p.parts : \E f \in kept \cup {p} : f.datagram = p.datagram /\ f.part = i

Reassembled(p) == [p EXCEPT !.part = 1, !.parts = 1]

Reported(purged) == { d \in purged : \E f \in bufs : f.datagram = d }

(* A fragment that leaves its datagram incomplete.                         *)
Buffer(p) ==
  /\ IsFragment(p) /\ ~Complete(p, Kept(Purged))
  /\ bufs' = Kept(Purged) \cup {p}
  /\ old' = old \ (Purged \cup {p.datagram})
  /\ checkDue' = FALSE
  /\ timeExceeded' = timeExceeded \cup Reported(Purged)
  /\ UNCHANGED <<queue, channel, timer, sockets, unreachable, error>>

(* A whole datagram, or the fragment that completes one.                   *)
Deliver(p) ==
  /\ IsFragment(p) => Complete(p, Kept(Purged))
  /\ bufs' = IF IsFragment(p) THEN Kept(Purged \cup {p.datagram}) ELSE bufs
  /\ old' = IF IsFragment(p) THEN old \ (Purged \cup {p.datagram}) ELSE old
  /\ checkDue' = (checkDue /\ ~IsFragment(p))
  /\ timeExceeded' = timeExceeded \cup (IF IsFragment(p) THEN Reported(Purged) ELSE {})
  /\ Enqueue(Reassembled(p))
  /\ UNCHANGED sockets

ReassembleAndDeliver(p) == Buffer(p) \/ Deliver(p)

(* fragmentTimeout passes; whether a check is due then depends on when the *)
(* last one was.                                                           *)
BufferAges ==
  /\ \E f \in bufs : f.datagram \notin old /\ old' = old \cup {f.datagram}
  /\ checkDue' \in {checkDue, TRUE}
  /\ UNCHANGED <<bufs, queue, channel, timer, sockets, timeExceeded, unreachable,
                 error>>

-----------------------------------------------------------------------------
TransmissionEnds ==
  /\ Busy /\ timer # "due"
  /\ channel' = NoPacket
  /\ timer' = IF timer = "scheduled" THEN "due" ELSE timer
  /\ UNCHANGED <<bufferVars, queue, sockets, timeExceeded, unreachable>>

(* stop(): the buffers and the sockets go, queue and timer stay.           *)
Stop ==
  /\ bufs' = {} /\ old' = {}
  /\ sockets' = [s \in SocketIds |-> NoSocket]
  /\ UNCHANGED <<checkDue, queue, channel, timer, timeExceeded, unreachable>>

Init ==
  /\ bufs = {} /\ old = {} /\ checkDue = FALSE
  /\ queue = <<>> /\ channel = NoPacket /\ timer = "idle"
  /\ sockets = [s \in SocketIds |-> NoSocket]
  /\ timeExceeded = {} /\ unreachable = {}
=============================================================================
