----------------------------- MODULE ByteStore ------------------------------
(***************************************************************************)
(* What ChunkBuffer promises: a partial map from offsets to bytes, in      *)
(* which replace overwrites and clear erases ("Already existing data gets  *)
(* overwritten", "Erases the stored data at the provided offset and        *)
(* length", ChunkBuffer.h).                                                *)
(***************************************************************************)
EXTENDS Integers, Sequences

CONSTANTS Offsets, Lengths, Data(_, _)

VARIABLES bytes, step

Replace(offset, data) ==
  bytes' = [ i \in DOMAIN bytes \cup (offset .. offset + Len(data) - 1) |->
               IF i \in offset .. offset + Len(data) - 1 THEN data[i - offset + 1]
                                                         ELSE bytes[i] ]

Clear(offset, length) ==
  bytes' = [ i \in DOMAIN bytes \ (offset .. offset + length - 1) |-> bytes[i] ]

Init == bytes = [i \in {} |-> 0] /\ step = 0

Next ==
  /\ step' = step + 1
  /\ \E offset \in Offsets, length \in Lengths :
       \/ Replace(offset, Data(step, length))
       \/ Clear(offset, length)

Spec == Init /\ [][Next]_<<bytes, step>>

=============================================================================
