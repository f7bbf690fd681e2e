----------------------- MODULE EthernetEncapsulation -----------------------
(***************************************************************************)
(* The way up through EthernetEncapsulation                                *)
(* (src/inet/linklayer/ethernet/basic/EthernetEncapsulation.cc) in a host  *)
(* whose upperLayerOut has a channel with a data rate (isRdma false):      *)
(* frames from the MAC go to the Ethernet sockets and through              *)
(* queueToUpperLayer, which endTxTimer paces.                              *)
(*                                                                         *)
(* There is no clock.  A transmission ends at any moment, and timer is     *)
(* "due" in the instant at which the one it was scheduled for ends:        *)
(* cDatarateChannel::isBusy is FALSE in that instant already, before the   *)
(* timer has run.                                                          *)
(***************************************************************************)
EXTENDS Integers, FiniteSets, Sequences

CONSTANTS
  SocketIds,
  upperProtocols,          (* protocols registered above                   *)
  NoSocket, NoPacket       (* null pointers                                *)

VARIABLES
  queue,                   (* queueToUpperLayer                            *)
  channel,                 (* what is transmitted on upperLayerOut         *)
  timer,                   (* endTxTimer: "idle", "scheduled" or "due"     *)
  sockets,                 (* socketIdToSocketMap                          *)
  error

Busy == channel # NoPacket

(* To the protocol or, as a copy, to a socket.                             *)
ToProtocol(p) == [packet |-> p, to |-> "protocol"]
ToSocket(p)   == [packet |-> p, to |-> "socket"]

-----------------------------------------------------------------------------
Bind(s, protocol, steal) ==
  /\ sockets[s] = NoSocket
  /\ sockets' = [sockets EXCEPT ![s] = [protocol |-> protocol, steal |-> steal]]
  /\ UNCHANGED <<queue, channel, timer, error>>

(* Close and destroy; the indication of a close takes no time to pass.     *)
Close(s) ==
  /\ sockets[s] # NoSocket
  /\ sockets' = [sockets EXCEPT ![s] = NoSocket]
  /\ UNCHANGED <<queue, channel, timer, error>>

Matching(p) ==
  { s \in SocketIds : sockets[s] # NoSocket /\ sockets[s].protocol \in {"any", p.protocol} }

Stolen(p) == \E s \in Matching(p) : sockets[s].steal

-----------------------------------------------------------------------------
SendPacketNoTimer(p, t) ==
  /\ channel' = ToProtocol(p)
  /\ timer' = "idle"
  /\ UNCHANGED error

(* sendPacket: t is the state of the timer; scheduleAt refuses a message   *)
(* that is scheduled.                                                      *)
SendPacket(p, t) ==
  /\ channel' = ToProtocol(p)
  /\ timer' = "scheduled"
  /\ error' = IF t = "idle" THEN error ELSE "already scheduled"

(* A send on a channel that is busy ends the simulation.                   *)
SendOnBusyChannel ==
  /\ error' = "channel busy"
  /\ UNCHANGED <<queue, channel, timer>>

(* After the copy to the socket the channel is busy: p has to wait, with   *)
(* no timer to take it from the queue.                                     *)
CopyToSocket(p) ==
  /\ channel' = ToSocket(p)
  /\ queue' = IF ~Stolen(p) /\ p.protocol \in upperProtocols THEN Append(queue, p) ELSE queue
  /\ UNCHANGED <<timer, error>>

EnqueueUnchecked(p) ==
  /\ queue' = Tail(Append(queue, p))
  /\ SendPacket(Head(Append(queue, p)), timer)

Enqueue(p) ==
  IF Busy
    THEN queue' = Append(queue, p) /\ UNCHANGED <<channel, timer, error>>
    ELSE /\ queue' = Tail(Append(queue, p))
         /\ SendPacket(Head(Append(queue, p)), timer)

ProcessPacketFromMac(p) ==
  /\ LET copies == Cardinality(Matching(p))
     IN  \/ (copies > 1 \/ (copies = 1 /\ Busy)) /\ SendOnBusyChannel
         \/ copies = 1 /\ ~Busy /\ CopyToSocket(p)
         \/ copies = 0 /\ p.protocol \in upperProtocols /\ Enqueue(p)
         \/ /\ copies = 0 /\ p.protocol \notin upperProtocols
            /\ UNCHANGED <<queue, channel, timer, error>>
  /\ UNCHANGED sockets

HandleEndTxPeriod ==
  /\ timer = "due"
  /\ IF queue = <<>>
       THEN timer' = "idle" /\ UNCHANGED <<queue, channel, error>>
     ELSE IF Busy
       THEN SendOnBusyChannel
     ELSE queue' = Tail(queue) /\ SendPacket(Head(queue), "idle")
  /\ UNCHANGED sockets

(* The channel; what it carried reaches the module above.                  *)
TransmissionEnds ==
  /\ Busy /\ timer # "due"
  /\ channel' = NoPacket
  /\ timer' = IF timer = "scheduled" THEN "due" ELSE timer
  /\ UNCHANGED <<queue, sockets>>

Init ==
  /\ queue = <<>> /\ channel = NoPacket /\ timer = "idle"
  /\ sockets = [s \in SocketIds |-> NoSocket]
=============================================================================
