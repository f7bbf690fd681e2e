-------------------------- MODULE MCMyUdpBasicApp ---------------------------
(***************************************************************************)
(* Two senders and a receiver of MyUdpBasicApp for TLC.  The first sender  *)
(* is paced by a channel and sends 1 or 5 bytes, one or three fragments;   *)
(* the second sends 3 bytes, in two fragments, at once.  With a stride of  *)
(* 1 the message 2 of the first has the id of message 1 of the second.     *)
(*                                                                         *)
(* Two scenarios share the run.  Alone, the first sender draws its lengths *)
(* anew for each fragment, stops or crashes and starts again; the receiver *)
(* may bind its socket late.  Together, both send messages of one length,  *)
(* nothing stops, and the network loses a packet.                          *)
(***************************************************************************)
EXTENDS MyUdpBasicApp, TLC

CONSTANTS h1, h2, r

VARIABLE scenario

MCModuleId == h1 :> 1 @@ h2 :> 2 @@ r :> 9
MCDestAddresses == h1 :> {r} @@ h2 :> {r} @@ r :> {}
MCHasChannel == h1 :> TRUE @@ h2 :> FALSE @@ r :> TRUE
MCHasStopTime == h1 :> TRUE @@ h2 :> FALSE @@ r :> FALSE
MCPacketsToSend == h1 :> 3 @@ h2 :> 2 @@ r :> 0
MCMessageLengths == h1 :> {1, 5} @@ h2 :> {3} @@ r :> {1}

MCInit == Init /\ scenario \in {"alone", "together"}

Steady ==
  /\ lifecycleOps' = 0
  /\ app'[h1].selfMsg # "STOP"
  /\ app[h1].numSent > 0 => app'[h1].messageLength \in {app[h1].messageLength, 5}

Changing ==
  /\ losses' = 0
  /\ app'[h2] = app[h2] /\ app'[r].state = "OPERATING"

MCNext ==
  /\ Next
  /\ scenario = "alone" => Changing
  /\ scenario = "together" => Steady
  /\ UNCHANGED scenario

MCSpec == MCInit /\ [][MCNext]_<<vars, scenario>> /\ Fairness
=============================================================================
