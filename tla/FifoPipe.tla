------------------------------ MODULE FifoPipe ------------------------------
(***************************************************************************)
(* What a chain of queues and channels promises to those at its ends: what *)
(* is put in comes out in the order in which it was put in, and nothing    *)
(* else comes out.  Something may be lost on the way, and an error may end *)
(* the simulation.                                                         *)
(***************************************************************************)
EXTENDS Naturals, Sequences, SequencesExt

VARIABLES pipe, handed, failed

Put  == /\ IsPrefix(pipe, pipe')
        /\ UNCHANGED <<handed, failed>>

Get  == /\ pipe # <<>>
        /\ pipe' = Tail(pipe)
        /\ handed' = Append(handed, Head(pipe))
        /\ UNCHANGED failed

(* Neighbours are lost together.                                           *)
Lose == /\ \E i, j \in DOMAIN pipe :
             i <= j /\ pipe' = SubSeq(pipe, 1, i - 1) \o SubSeq(pipe, j + 1, Len(pipe))
        /\ UNCHANGED <<handed, failed>>

Fail == /\ ~failed /\ failed' = TRUE
        /\ UNCHANGED handed

Init == pipe = <<>> /\ handed = <<>> /\ failed = FALSE
Next == Put \/ Get \/ Lose \/ Fail

Spec == Init /\ [][Next]_<<pipe, handed, failed>>
=============================================================================
