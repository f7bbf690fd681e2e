------------------------------ MODULE UdpQueue ------------------------------
(***************************************************************************)
(* A paced queue of Udp (src/inet/transportlayer/udp/Udp.cc).  There are   *)
(* two of them, alike: queueToUpperLayer with endUpperTxTimer on appOut,   *)
(* filled by sendUp, and queue with endTxTimer on ipOut, filled by the     *)
(* packets of the applications.  Channel and timer are those of module     *)
(* EthernetEncapsulation.                                                  *)
(***************************************************************************)
EXTENDS Integers, Sequences

CONSTANT NoPacket

VARIABLES queue, channel, timer, error

Busy == channel # NoPacket

(* Each of packets is inserted; a channel that is not busy gets the head   *)
(* of the queue, after which it is busy.                                   *)
Insert(packets) ==
  IF Busy
    THEN queue' = queue \o packets /\ UNCHANGED <<channel, timer, error>>
    ELSE /\ queue' = Tail(queue \o packets)
         /\ channel' = Head(queue \o packets)
         /\ timer' = "scheduled"
         /\ error' = IF timer = "idle" THEN error ELSE "already scheduled"

HandleEndLeavesQueue ==
  /\ timer = "due"
  /\ timer' = "idle"
  /\ UNCHANGED <<queue, channel, error>>

HandleEndNewestFirst ==
  /\ timer = "due"
  /\ IF queue = <<>>
       THEN timer' = "idle" /\ UNCHANGED <<queue, channel, error>>
       ELSE /\ queue' = SubSeq(queue, 1, Len(queue) - 1)
            /\ channel' = queue[Len(queue)]
            /\ timer' = "scheduled"
            /\ UNCHANGED error

HandleEndNotRescheduled ==
  /\ timer = "due"
  /\ IF queue = <<>>
       THEN timer' = "idle" /\ UNCHANGED <<queue, channel, error>>
       ELSE /\ queue' = Tail(queue)
            /\ channel' = Head(queue)
            /\ timer' = "idle"
            /\ UNCHANGED error

(* handleEndTxPeriod and handleEndUpperTxPeriod.                           *)
HandleEndTxPeriod ==
  /\ timer = "due"
  /\ IF queue = <<>>
       THEN timer' = "idle" /\ UNCHANGED <<queue, channel, error>>
       ELSE /\ queue' = Tail(queue)
            /\ channel' = Head(queue)
            /\ timer' = "scheduled"
            /\ UNCHANGED error

TransmissionEnds ==
  /\ Busy /\ timer # "due"
  /\ channel' = NoPacket
  /\ timer' = "due"
  /\ UNCHANGED queue

Init == queue = <<>> /\ channel = NoPacket /\ timer = "idle"
=============================================================================
