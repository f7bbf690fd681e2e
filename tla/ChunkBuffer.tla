---------------------------- MODULE ChunkBuffer -----------------------------
(***************************************************************************)
(* ChunkBuffer (src/inet/common/packet/ChunkBuffer.cc), the list of        *)
(* regions under every reassembly buffer, and the test that                *)
(* ReassemblyBuffer::isComplete does on it.  A chunk is the sequence of    *)
(* its bytes; the three ways in which mergeRegions joins two chunks differ *)
(* in the representation only.  The iterators of the code are indices.     *)
(***************************************************************************)
EXTENDS Integers, SequencesExt

CONSTANTS
  Offsets,                 (* offsets given to replace and clear           *)
  Lengths,                 (* lengths given to replace and clear           *)
  MaxSteps                 (* bound: operations on the buffer              *)

(* What CHUNK_CHECK_USAGE demands of the arguments: clear takes length 0.  *)
ASSUME ChunkAssumption ==
  Offsets \subseteq Nat /\ Lengths \subseteq Nat /\ MaxSteps \in Nat

VARIABLES regions, step

(* The bytes of the chunk put in by an operation, all different.           *)
Data(n, length) == [ i \in 1 .. length |-> <<n, i>> ]

StartOffset(region) == region.offset
EndOffset(region) == region.offset + Len(region.data)

-----------------------------------------------------------------------------
(* The first index of rs whose region satisfies Test, Len(rs) + 1 if none: *)
(* lower_bound and upper_bound on a sorted list.                           *)
FirstIndex(rs, Test(_)) ==
  CHOOSE i \in 1 .. Len(rs) + 1 :
    /\ i <= Len(rs) => Test(rs[i])
    /\ \A j \in 1 .. i - 1 : ~Test(rs[j])

(* The part of old that new leaves: peek() of what lies before and after.  *)
Before(old, new) ==
  [ offset |-> old.offset,
    data   |-> SubSeq(old.data, 1, StartOffset(new) - StartOffset(old)) ]

After(old, new) ==
  [ offset |-> EndOffset(new),
    data   |-> SubSeq(old.data, EndOffset(new) - StartOffset(old) + 1, Len(old.data)) ]

SliceNoTail(old, new) ==
  IF EndOffset(new) <= StartOffset(old) \/ EndOffset(old) <= StartOffset(new) THEN <<old>>
  ELSE IF StartOffset(new) <= StartOffset(old) THEN <<>>
  ELSE <<Before(old, new)>>

Slice(old, new) ==
  CASE EndOffset(new) <= StartOffset(old) \/ EndOffset(old) <= StartOffset(new) -> <<old>>
    [] StartOffset(new) <= StartOffset(old) /\ EndOffset(old) <= EndOffset(new) -> <<>>
    [] StartOffset(old) < StartOffset(new) /\ EndOffset(new) < EndOffset(old) ->
         <<Before(old, new), After(old, new)>>
    [] OTHER -> IF EndOffset(old) <= EndOffset(new) THEN <<Before(old, new)>>
                                                    ELSE <<After(old, new)>>

(* The regions that the loop looks at: from the one before lower_bound to  *)
(* the one at upper_bound.                                                 *)
Window(rs, new) ==
  LET StartsAtOrAfter(r) == ~(StartOffset(r) < StartOffset(new))
      EndsAfter(r) == EndOffset(new) < EndOffset(r)
      lower == FirstIndex(rs, StartsAtOrAfter)
      upper == FirstIndex(rs, EndsAfter)
  IN { i \in 1 .. Len(rs) : (lower = 1 \/ lower - 1 <= i) /\ i <= upper }

SliceRegions(rs, new) ==
  FlattenSeq([ i \in 1 .. Len(rs) |->
                 IF i \in Window(rs, new) THEN Slice(rs[i], new) ELSE <<rs[i]>> ])

MergeRegions(previous, next) ==
  IF EndOffset(previous) = StartOffset(next)
    THEN <<[ offset |-> previous.offset, data |-> previous.data \o next.data ]>>
    ELSE <<previous, next>>

InsertNoMergeWithNext(rs, new) ==
  LET StartsAfter(r) == StartOffset(new) < StartOffset(r)
      it == FirstIndex(rs, StartsAfter)
  IN SubSeq(rs, 1, it - 2) \o MergeRegions(rs[it - 1], new) \o SubSeq(rs, it, Len(rs))

(* In between: new goes before upper_bound and is merged with the region   *)
(* before it, and what comes of that with the region after it.             *)
Insert(rs, new) ==
  LET StartsAfter(r) == StartOffset(new) < StartOffset(r)
      it == FirstIndex(rs, StartsAfter)
      merged == MergeRegions(rs[it - 1], new)
  IN SubSeq(rs, 1, it - 2)
     \o Front(merged) \o MergeRegions(Last(merged), rs[it])
     \o SubSeq(rs, it + 1, Len(rs))

(* The regions after replace(offset, chunk).                               *)
Replaced(offset, data) ==
  LET new == [offset |-> offset, data |-> data]
      rs == SliceRegions(regions, new)
  IN IF rs = <<>> THEN <<new>>
     ELSE IF EndOffset(Last(rs)) <= offset THEN Front(rs) \o MergeRegions(Last(rs), new)
     ELSE IF EndOffset(new) <= StartOffset(Head(rs)) THEN MergeRegions(new, Head(rs)) \o Tail(rs)
     ELSE Insert(rs, new)

ReplaceStep(offset, length) ==
  /\ length > 0
  /\ regions' = Replaced(offset, Data(step, length))

(* A region that is cleared exactly is erased, otherwise the cleared       *)
(* stretch is sliced out.                                                  *)
ClearStep(offset, length) ==
  LET exact == { i \in 1 .. Len(regions) : /\ StartOffset(regions[i]) = offset
                                           /\ Len(regions[i].data) = length }
  IN regions' = IF exact # {}
                  THEN RemoveAt(regions, CHOOSE i \in exact : \A j \in exact : i <= j)
                  ELSE SliceRegions(regions, [offset |-> offset, data |-> Data(step, length)])

(* ReassemblyBuffer::isComplete.                                           *)
IsComplete(expectedLength) ==
  /\ Len(regions) = 1
  /\ StartOffset(regions[1]) = 0
  /\ Len(regions[1].data) = expectedLength

Init == regions = <<>> /\ step = 0

Next ==
  /\ step < MaxSteps
  /\ step' = step + 1
  /\ \E offset \in Offsets, length \in Lengths :
       ReplaceStep(offset, length) \/ ClearStep(offset, length)

Spec == Init /\ [][Next]_<<regions, step>>

-----------------------------------------------------------------------------
(* The byte map that the regions stand for.                                *)
Covered == UNION { StartOffset(regions[i]) .. EndOffset(regions[i]) - 1 : i \in DOMAIN regions }

Content ==
  [ o \in Covered |->
      LET r == CHOOSE i \in DOMAIN regions :
                 o \in StartOffset(regions[i]) .. EndOffset(regions[i]) - 1
      IN regions[r].data[o - StartOffset(regions[r]) + 1] ]

Store == INSTANCE ByteStore WITH bytes <- Content

(* replace and clear do to the region list what they do to a byte map:     *)
(* nothing is lost, shifted or left over when regions are cut, split and   *)
(* joined.                                                                 *)
ImplementsByteStore == Store!Spec

(* isComplete holds exactly when all bytes up to the expected length are   *)
(* there and no others, which is how module RdmaFragBuf states it.         *)
CompleteIffCovered ==
  \A e \in { o + 1 : o \in Covered } : IsComplete(e) <=> Covered = 0 .. e - 1

=============================================================================
