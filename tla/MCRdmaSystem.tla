---------------------------- MODULE MCRdmaSystem ----------------------------
(***************************************************************************)
(* Instances of RdmaSystem for TLC.  Lengths are scaled: with a header of  *)
(* 2 bytes, a unit of 2 and a maximum of 6, a message of up to 4 bytes is  *)
(* sent whole, 5 bytes make one "fragment", 8 make two and 11 make three   *)
(* of which the last is shorter than a header.                             *)
(***************************************************************************)
EXTENDS RdmaSystem, TLC

CONSTANTS a, b, c

OneToOne == (a :> {b}) @@ (b :> {})
TwoToOne == (a :> {c}) @@ (b :> {c}) @@ (c :> {})

Port1 == [h \in Hosts |-> 1]
NoPort == [h \in Hosts |-> -1]
DistinctPorts == (a :> 1) @@ (b :> 2) @@ (c :> 3)

(* Module ids are consecutive when the hosts are.                          *)
Ids == [h \in Hosts |-> CHOOSE n \in 1 .. 3 :
          (n = 1 <=> h = a) /\ (n = 2 <=> h = b) /\ (n = 3 <=> h = c)]
=============================================================================
