------------------------- MODULE ChunkBufferProofs --------------------------
(***************************************************************************)
(* The regions of a ChunkBuffer stand for a byte map, for any offsets and  *)
(* lengths and any number of operations (module ChunkBuffer).              *)
(*                                                                         *)
(* The argument is about the bytes of a list of regions, a set of pairs of *)
(* offset and byte: slicing takes the pairs of a stretch away, joining     *)
(* adds no pair and loses none, and regions that do not overlap give each  *)
(* offset one byte.                                                        *)
(***************************************************************************)
EXTENDS ChunkBuffer, SequenceTheorems, WellFoundedInduction, TLAPS

(* Regions as the buffer keeps them; the offsets and the bytes of one, and *)
(* the bytes of a list.                                                    *)
Region == { r \in [ offset : Nat, data : Seq(Nat \X Nat) ] : Len(r.data) > 0 }

Extent(r) == StartOffset(r) .. EndOffset(r) - 1

ByteAt(r, o) == r.data[o - r.offset + 1]

BytesOf(r) == { <<o, ByteAt(r, o)>> : o \in Extent(r) }

Bytes(rs) == UNION { BytesOf(r) : r \in ToSet(rs) }

(* The bytes outside of r.                                                 *)
Outside(bytes, r) == { x \in bytes : x[1] \notin Extent(r) }

(* Regions one after the other, with a gap of at least g between them.     *)
Below(S, T, g) == \A a \in S, b \in T : EndOffset(a) + g <= StartOffset(b)

Apart(rs, g) ==
  \A i, j \in DOMAIN rs : i < j => EndOffset(rs[i]) + g <= StartOffset(rs[j])

Pile(rs, g) == rs \in Seq(Region) /\ Apart(rs, g)

(* All of S lie on one side of r.                                          *)
ClearOf(S, r) ==
  \A a \in S : EndOffset(a) <= StartOffset(r) \/ EndOffset(r) <= StartOffset(a)

-----------------------------------------------------------------------------
(***************************************************************************)
(* Natural numbers: the library's induction theorems have an operator for  *)
(* a parameter; as a fact about a set induction follows from the least     *)
(* element.                                                                *)
(***************************************************************************)
NatLess == OpToRel(<, Nat)

LEMMA LeastElement ==
  ASSUME NEW S, S \subseteq Nat, S # {}
  PROVE  \E n \in S : \A m \in S : n <= m
<1>1. IsWellFoundedOn(NatLess, Nat)
  BY NatLessThanWellFounded DEF OpToRel, NatLess
<1>2. PICK n \in S : \A m \in S : ~ (<<m, n>> \in NatLess)
  BY <1>1, WFMin
<1>3. \A m, k \in Nat : <<m, k>> \in NatLess <=> m < k
  BY DEF NatLess, OpToRel
<1>4. \A m \in S : ~(m < n)
  BY <1>2, <1>3
<1> QED
  BY <1>4

LEMMA SetInduction ==
  ASSUME NEW S, 0 \in S, \A n \in Nat : n \in S => n + 1 \in S
  PROVE  Nat \subseteq S
<1> DEFINE T == Nat \ S
<1> SUFFICES ASSUME T # {} PROVE FALSE
  OBVIOUS
<1>1. T \subseteq Nat
  OBVIOUS
<1> HIDE DEF T
<1>2. PICK n \in T : \A m \in T : n <= m
  BY <1>1, LeastElement
<1>3. n \in Nat /\ n # 0 /\ n \notin S
  BY <1>1, <1>2 DEF T
<1>4. n - 1 \in Nat /\ n - 1 \notin T
  BY <1>2, <1>3
<1>5. n - 1 \in S /\ (n - 1) + 1 = n
  BY <1>3, <1>4 DEF T
<1> QED
  BY <1>3, <1>4, <1>5

-----------------------------------------------------------------------------
(***************************************************************************)
(* Lists of regions.                                                       *)
(***************************************************************************)
LEMMA RegionFacts ==
  ASSUME NEW r \in Region
  PROVE  /\ r.offset \in Nat /\ r.data \in Seq(Nat \X Nat)
         /\ Len(r.data) \in Nat /\ Len(r.data) > 0
         /\ StartOffset(r) = r.offset /\ EndOffset(r) = r.offset + Len(r.data)
         /\ StartOffset(r) \in Nat /\ EndOffset(r) \in Nat
         /\ StartOffset(r) < EndOffset(r)
BY LenProperties DEF Region, StartOffset, EndOffset

LEMMA ListFacts ==
  ASSUME NEW rs \in Seq(Region)
  PROVE  /\ Len(rs) \in Nat /\ DOMAIN rs = 1 .. Len(rs)
         /\ \A i \in 1 .. Len(rs) : rs[i] \in Region /\ rs[i] \in ToSet(rs)
         /\ \A r \in ToSet(rs) : r \in Region /\ \E i \in 1 .. Len(rs) : r = rs[i]
BY LenProperties, ElementOfSeq DEF ToSet

(* A list of none and of one region.                                       *)
LEMMA ShortLists ==
  ASSUME NEW g \in Nat
  PROVE  /\ Pile(<<>>, g) /\ ToSet(<<>>) = {}
         /\ \A r \in Region : Pile(<<r>>, g) /\ ToSet(<<r>>) = {r}
BY DEF Pile, Apart, ToSet

LEMMA PairLists ==
  ASSUME NEW g \in Nat, NEW a \in Region, NEW b \in Region,
         EndOffset(a) + g <= StartOffset(b)
  PROVE  Pile(<<a, b>>, g) /\ ToSet(<<a, b>>) = {a, b}
BY DEF Pile, Apart, ToSet

LEMMA ConcatPile ==
  ASSUME NEW g \in Nat, NEW s, NEW t, Pile(s, g), Pile(t, g),
         Below(ToSet(s), ToSet(t), g)
  PROVE  Pile(s \o t, g) /\ ToSet(s \o t) = ToSet(s) \cup ToSet(t)
<1> DEFINE u == s \o t
<1>1. s \in Seq(Region) /\ t \in Seq(Region) /\ Apart(s, g) /\ Apart(t, g)
  BY DEF Pile
<1>2. /\ u \in Seq(Region) /\ Len(u) = Len(s) + Len(t)
      /\ Len(s) \in Nat /\ Len(t) \in Nat
      /\ DOMAIN u = 1 .. Len(u) /\ DOMAIN s = 1 .. Len(s) /\ DOMAIN t = 1 .. Len(t)
  BY <1>1, ConcatProperties, LenProperties
<1>3. \A i \in 1 .. Len(s) : u[i] = s[i]
  BY <1>1, ConcatProperties
<1>4. \A i \in 1 .. Len(t) : u[Len(s) + i] = t[i]
  BY <1>1, <1>2
<1>5. \A i \in DOMAIN u : \/ i \in DOMAIN s /\ u[i] = s[i]
                          \/ i > Len(s) /\ i - Len(s) \in DOMAIN t /\ u[i] = t[i - Len(s)]
  <2> TAKE i \in DOMAIN u
  <2>1. CASE i <= Len(s)
    BY <2>1, <1>2, <1>3
  <2>2. CASE i > Len(s)
    <3>1. i - Len(s) \in 1 .. Len(t) /\ Len(s) + (i - Len(s)) = i
      BY <2>2, <1>2
    <3> QED
      BY <2>2, <3>1, <1>2, <1>4
  <2> QED
    BY <2>1, <2>2, <1>2
<1> HIDE DEF u
<1>6. Apart(u, g)
  <2> SUFFICES ASSUME NEW i \in DOMAIN u, NEW j \in DOMAIN u, i < j
               PROVE  EndOffset(u[i]) + g <= StartOffset(u[j])
    BY DEF Apart
  <2>1. CASE i \in DOMAIN s /\ j \in DOMAIN s /\ u[i] = s[i] /\ u[j] = s[j]
    BY <2>1, <1>1 DEF Apart
  <2>2. CASE i \in DOMAIN s /\ u[i] = s[i] /\ j - Len(s) \in DOMAIN t /\ u[j] = t[j - Len(s)]
    BY <2>2 DEF Below, ToSet
  <2>3. CASE /\ i - Len(s) \in DOMAIN t /\ u[i] = t[i - Len(s)]
             /\ j - Len(s) \in DOMAIN t /\ u[j] = t[j - Len(s)]
    <3>1. i - Len(s) < j - Len(s)
      BY <1>2
    <3> QED
      BY <2>3, <3>1, <1>1 DEF Apart
  <2>4. i \in DOMAIN s \/ j \notin DOMAIN s
    BY <1>2
  <2> QED
    BY <2>1, <2>2, <2>3, <2>4, <1>5
<1>7. ToSet(u) = ToSet(s) \cup ToSet(t)
  <2>1. ToSet(u) \subseteq ToSet(s) \cup ToSet(t)
    BY <1>5 DEF ToSet
  <2>2. \A i \in DOMAIN s : i \in DOMAIN u /\ u[i] = s[i]
    BY <1>2, <1>3 DEF u
  <2>3. \A i \in DOMAIN t : Len(s) + i \in DOMAIN u /\ u[Len(s) + i] = t[i]
    BY <1>2, <1>4 DEF u
  <2> QED
    BY <2>1, <2>2, <2>3 DEF ToSet
<1> QED
  BY <1>2, <1>6, <1>7 DEF u, Pile

(* A part of a list, and the list without one region.                      *)
LEMMA PartOfPile ==
  ASSUME NEW g \in Nat, NEW rs, Pile(rs, g),
         NEW a \in Nat \ {0}, NEW b \in Nat, b <= Len(rs)
  PROVE  /\ Pile(SubSeq(rs, a, b), g)
         /\ ToSet(SubSeq(rs, a, b)) = { rs[i] : i \in a .. b }
<1> DEFINE u == SubSeq(rs, a, b)
<1>1. rs \in Seq(Region) /\ Apart(rs, g) /\ Len(rs) \in Nat /\ DOMAIN rs = 1 .. Len(rs)
  BY LenProperties DEF Pile
<1>2. CASE a > b
  <2>1. u = <<>> /\ a .. b = {}
    BY <1>1, <1>2, SubSeqEmpty
  <2> QED
    BY <2>1, ShortLists
<1>3. CASE a <= b
  <2>1. /\ u \in Seq(Region) /\ Len(u) = b - a + 1 /\ DOMAIN u = 1 .. b - a + 1
        /\ \A i \in 1 .. b - a + 1 : u[i] = rs[a + i - 1]
    <3>1. a \in 1 .. Len(rs) + 1 /\ b \in a - 1 .. Len(rs)
      BY <1>1, <1>3
    <3> QED
      BY <1>1, <1>3, <3>1, SubSeqProperties, LenProperties
  <2>2. \A i \in 1 .. b - a + 1 : a + i - 1 \in a .. b /\ a + i - 1 \in DOMAIN rs
    BY <1>1, <1>3
  <2>3. \A i \in a .. b : i - a + 1 \in 1 .. b - a + 1 /\ a + (i - a + 1) - 1 = i
    BY <1>3
  <2> HIDE DEF u
  <2>4. Apart(u, g)
    <3> SUFFICES ASSUME NEW i \in DOMAIN u, NEW j \in DOMAIN u, i < j
                 PROVE  EndOffset(u[i]) + g <= StartOffset(u[j])
      BY DEF Apart
    <3>1. /\ u[i] = rs[a + i - 1] /\ u[j] = rs[a + j - 1]
          /\ a + i - 1 \in DOMAIN rs /\ a + j - 1 \in DOMAIN rs
      BY <2>1, <2>2
    <3>2. a + i - 1 < a + j - 1
      BY <2>1
    <3> QED
      BY <1>1, <3>1, <3>2 DEF Apart
  <2>5. ToSet(u) = { rs[i] : i \in a .. b }
    <3>1. ToSet(u) = { u[i] : i \in 1 .. b - a + 1 }
      BY <2>1 DEF ToSet
    <3>2. ASSUME NEW i \in a .. b
          PROVE  rs[i] \in ToSet(u)
      <4>1. i - a + 1 \in 1 .. b - a + 1 /\ a + (i - a + 1) - 1 = i
        BY <2>3
      <4>2. u[i - a + 1] = rs[i]
        BY <2>1, <4>1
      <4> QED
        BY <3>1, <4>1, <4>2
    <3>3. \A i \in 1 .. b - a + 1 : u[i] \in { rs[k] : k \in a .. b }
      BY <2>1, <2>2
    <3> QED
      BY <3>1, <3>2, <3>3
  <2> QED
    BY <2>1, <2>4, <2>5 DEF u, Pile
<1> QED
  BY <1>2, <1>3

(* FlattenSeq joins piles, each of which lies below the later ones.        *)
LEMMA FlattenPile ==
  ASSUME NEW g \in Nat, NEW n \in Nat, NEW ss,
         DOMAIN ss = 1 .. n, Len(ss) = n, n > 0,
         \A i \in 1 .. n : Pile(ss[i], g),
         \A i, j \in 1 .. n : i < j => Below(ToSet(ss[i]), ToSet(ss[j]), g)
  PROVE  /\ Pile(FlattenSeq(ss), g)
         /\ ToSet(FlattenSeq(ss)) = UNION { ToSet(ss[i]) : i \in 1 .. n }
<1> DEFINE Joined(f, m) ==
             f = [ i \in 1 .. m |-> IF i = 1 THEN ss[i] ELSE f[i - 1] \o ss[i] ]
           flatten == CHOOSE f : Joined(f, Len(ss))
<1>1. \A m \in Nat : \E f : Joined(f, m)
  <2> DEFINE S == { m \in Nat : \E f : Joined(f, m) }
  <2>1. 0 \in S
    <3>1. Joined([ i \in 1 .. 0 |-> 0 ], 0)
      OBVIOUS
    <3> QED
      BY <3>1
  <2>2. ASSUME NEW m \in Nat, m \in S
        PROVE  m + 1 \in S
    <3>1. PICK f : Joined(f, m)
      BY <2>2
    <3> DEFINE h == [ i \in 1 .. m + 1 |->
                        IF i = 1 THEN ss[i] ELSE f[i - 1] \o ss[i] ]
    <3>2. \A i \in 1 .. m : h[i] = f[i]
      <4>1. \A i \in 1 .. m : f[i] = IF i = 1 THEN ss[i] ELSE f[i - 1] \o ss[i]
        BY <3>1
      <4>2. \A i \in 1 .. m : i \in 1 .. m + 1
        OBVIOUS
      <4> QED
        BY <4>1, <4>2
    <3>3. \A i \in 1 .. m + 1 : i # 1 => h[i - 1] = f[i - 1]
      <4>1. \A i \in 1 .. m + 1 : i # 1 => i - 1 \in 1 .. m
        OBVIOUS
      <4> HIDE DEF h
      <4> QED
        BY <3>2, <4>1
    <3>4. h = [ i \in 1 .. m + 1 |-> IF i = 1 THEN ss[i] ELSE h[i - 1] \o ss[i] ]
      <4> DEFINE k == [ i \in 1 .. m + 1 |-> IF i = 1 THEN ss[i] ELSE h[i - 1] \o ss[i] ]
      <4>1. \A i \in 1 .. m + 1 :
              (IF i = 1 THEN ss[i] ELSE h[i - 1] \o ss[i])
                = (IF i = 1 THEN ss[i] ELSE f[i - 1] \o ss[i])
        <5> HIDE DEF h
        <5> QED
          BY <3>3
      <4>2. [ i \in 1 .. m + 1 |-> IF i = 1 THEN ss[i] ELSE h[i - 1] \o ss[i] ]
             = [ i \in 1 .. m + 1 |-> IF i = 1 THEN ss[i] ELSE f[i - 1] \o ss[i] ]
        <5> HIDE DEF h
        <5> QED
          BY <4>1
      <4> QED
        BY <4>2
    <3>5. Joined(h, m + 1)
      BY <3>4
    <3> HIDE DEF h, Joined
    <3>6. \E k : Joined(k, m + 1)
      BY <3>5
    <3> QED
      BY <3>6
  <2> HIDE DEF S
  <2>3. \A m \in Nat : m \in S => m + 1 \in S
    BY <2>2
  <2>4. Nat \subseteq S
    BY <2>1, <2>3, SetInduction
  <2> QED
    BY <2>4 DEF S
<1>2. Joined(flatten, n)
  BY <1>1
<1>3. FlattenSeq(ss) = flatten[n]
  <2>1. Len(ss) # 0
    OBVIOUS
  <2>2. FlattenSeq(ss) = flatten[Len(ss)]
    BY <2>1, Zenon DEF FlattenSeq
  <2> QED
    BY <2>2
<1> HIDE DEF flatten
<1>4. \A i \in 1 .. n : flatten[i] = IF i = 1 THEN ss[i] ELSE flatten[i - 1] \o ss[i]
  BY <1>2
<1> HIDE DEF Joined
<1> DEFINE Parts(m) == UNION { ToSet(ss[i]) : i \in 1 .. m }
           T == { m \in Nat : m + 1 \in 1 .. n =>
                    Pile(flatten[m + 1], g) /\ ToSet(flatten[m + 1]) = Parts(m + 1) }
<1>5. 0 \in T
  <2>1. flatten[1] = ss[1] /\ 1 \in 1 .. n
    BY <1>4
  <2>2. Parts(1) = ToSet(ss[1])
    OBVIOUS
  <2> QED
    BY <2>1, <2>2
<1>6. ASSUME NEW m \in Nat, m \in T
      PROVE  m + 1 \in T
  <2> SUFFICES ASSUME (m + 1) + 1 \in 1 .. n
               PROVE  /\ Pile(flatten[(m + 1) + 1], g)
                      /\ ToSet(flatten[(m + 1) + 1]) = Parts((m + 1) + 1)
    OBVIOUS
  <2> DEFINE k == m + 1
  <2>1. k \in 1 .. n /\ k + 1 \in 1 .. n /\ (k + 1) - 1 = k /\ k + 1 # 1
    OBVIOUS
  <2>2. Pile(flatten[k], g) /\ ToSet(flatten[k]) = Parts(k)
    BY <1>6, <2>1
  <2> HIDE DEF k, T
  <2>3. flatten[k + 1] = flatten[k] \o ss[k + 1]
    BY <1>4, <2>1
  <2>4. Below(Parts(k), ToSet(ss[k + 1]), g)
    <3> SUFFICES ASSUME NEW a \in Parts(k), NEW b \in ToSet(ss[k + 1])
                 PROVE  EndOffset(a) + g <= StartOffset(b)
      BY DEF Below
    <3>1. PICK i \in 1 .. k : a \in ToSet(ss[i])
      OBVIOUS
    <3>2. i \in 1 .. n /\ i < k + 1
      BY <2>1
    <3>3. Below(ToSet(ss[i]), ToSet(ss[k + 1]), g)
      BY <2>1, <3>2
    <3> QED
      BY <3>1, <3>3 DEF Below
  <2>5. Parts(k + 1) = Parts(k) \cup ToSet(ss[k + 1])
    <3>1. 1 .. k + 1 = 1 .. k \cup {k + 1}
      BY <2>1
    <3> QED
      BY <3>1
  <2> HIDE DEF Parts
  <2>6. Below(ToSet(flatten[k]), ToSet(ss[k + 1]), g) /\ Pile(ss[k + 1], g)
    BY <2>1, <2>2, <2>4
  <2>7. /\ Pile(flatten[k] \o ss[k + 1], g)
        /\ ToSet(flatten[k] \o ss[k + 1]) = ToSet(flatten[k]) \cup ToSet(ss[k + 1])
    BY <2>2, <2>6, ConcatPile
  <2> QED
    BY <2>2, <2>3, <2>5, <2>7 DEF k
<1> HIDE DEF Parts
<1>7. n - 1 \in T
  <2> HIDE DEF T
  <2>1. Nat \subseteq T
    BY <1>5, <1>6, SetInduction
  <2> QED
    BY <2>1
<1>8. (n - 1) + 1 = n /\ n \in 1 .. n
  OBVIOUS
<1>9. Pile(flatten[n], g) /\ ToSet(flatten[n]) = Parts(n)
  BY <1>7, <1>8
<1> QED
  BY <1>3, <1>9 DEF Parts

-----------------------------------------------------------------------------
(***************************************************************************)
(* Slicing.                                                                *)
(***************************************************************************)

(* The stretch that is sliced out: a region, or an empty one for clear.    *)
Stretch == [ offset : Nat, data : Seq(Nat \X Nat) ]

LEMMA StretchFacts ==
  ASSUME NEW r \in Stretch
  PROVE  /\ StartOffset(r) \in Nat /\ EndOffset(r) \in Nat
         /\ StartOffset(r) <= EndOffset(r)
         /\ Len(r.data) > 0 => r \in Region
BY LenProperties DEF Stretch, Region, StartOffset, EndOffset

LEMMA BytesOfPart ==
  ASSUME NEW r, NEW p, Extent(p) \subseteq Extent(r),
         \A o \in Extent(p) : ByteAt(p, o) = ByteAt(r, o)
  PROVE  BytesOf(p) = { x \in BytesOf(r) : x[1] \in Extent(p) }
<1>1. \A x \in BytesOf(p) : x \in BytesOf(r) /\ x[1] \in Extent(p)
  BY DEF BytesOf
<1>2. \A x \in BytesOf(r) : x[1] \in Extent(p) => x \in BytesOf(p)
  BY DEF BytesOf
<1> QED
  BY <1>1, <1>2

LEMMA BeforeFacts ==
  ASSUME NEW old \in Region, NEW new \in Stretch,
         StartOffset(old) < StartOffset(new), StartOffset(new) < EndOffset(old)
  PROVE  /\ Before(old, new) \in Region
         /\ StartOffset(Before(old, new)) = StartOffset(old)
         /\ EndOffset(Before(old, new)) = StartOffset(new)
         /\ BytesOf(Before(old, new))
              = { x \in BytesOf(old) : x[1] \in Extent(Before(old, new)) }
<1> DEFINE p == Before(old, new)
           len == StartOffset(new) - StartOffset(old)
<1>1. /\ StartOffset(new) \in Nat /\ StartOffset(old) \in Nat /\ EndOffset(old) \in Nat
      /\ old.offset \in Nat /\ Len(old.data) \in Nat /\ old.data \in Seq(Nat \X Nat)
      /\ StartOffset(old) = old.offset /\ EndOffset(old) = old.offset + Len(old.data)
  BY RegionFacts, StretchFacts
<1>2. len \in Nat /\ len > 0 /\ len <= Len(old.data)
  BY <1>1, SMTT(20)
<1>3. p.offset = old.offset /\ p.data = SubSeq(old.data, 1, len)
  BY <1>1 DEF Before
<1>4. /\ p.data \in Seq(Nat \X Nat) /\ Len(p.data) = len
      /\ \A k \in 1 .. len : p.data[k] = old.data[k]
  <2>1. \A i \in 1 .. len : old.data[i] \in Nat \X Nat
    <3>1. \A i \in 1 .. len : i \in 1 .. Len(old.data)
      BY <1>1, <1>2
    <3> QED
      BY <1>1, <3>1, ElementOfSeq
  <2>2. \A k \in 1 .. len - 1 + 1 : SubSeq(old.data, 1, len)[k] = old.data[1 + k - 1]
    BY <1>1, <1>2, <2>1, SubSeqProperties
  <2>3. SubSeq(old.data, 1, len) \in Seq(Nat \X Nat) /\ Len(SubSeq(old.data, 1, len)) = len
    BY <1>1, <1>2, <2>1, SubSeqProperties
  <2>4. \A k \in 1 .. len : k \in 1 .. len - 1 + 1 /\ 1 + k - 1 = k
    BY <1>2
  <2> HIDE DEF len
  <2> QED
    BY <1>3, <2>2, <2>3, <2>4
<1>5. p \in Region
  <2>1. p \in [ offset : Nat, data : Seq(Nat \X Nat) ]
    BY <1>1, <1>3, <1>4 DEF Before
  <2> QED
    BY <1>2, <1>4, <2>1 DEF Region
<1> HIDE DEF p
<1>6. StartOffset(p) = StartOffset(old) /\ EndOffset(p) = StartOffset(new)
  BY <1>1, <1>3, <1>4 DEF StartOffset, EndOffset
<1>7. Extent(p) \subseteq Extent(old)
  BY <1>1, <1>6 DEF Extent
<1>8. \A o \in Extent(p) : ByteAt(p, o) = ByteAt(old, o)
  <2>1. \A o \in Extent(p) : o - old.offset + 1 \in 1 .. len
    BY <1>1, <1>6 DEF Extent
  <2> QED
    BY <1>3, <1>4, <2>1 DEF ByteAt
<1> QED
  BY <1>5, <1>6, <1>7, <1>8, BytesOfPart DEF p

LEMMA AfterFacts ==
  ASSUME NEW old \in Region, NEW new \in Stretch,
         StartOffset(old) <= EndOffset(new), EndOffset(new) < EndOffset(old)
  PROVE  /\ After(old, new) \in Region
         /\ StartOffset(After(old, new)) = EndOffset(new)
         /\ EndOffset(After(old, new)) = EndOffset(old)
         /\ BytesOf(After(old, new))
              = { x \in BytesOf(old) : x[1] \in Extent(After(old, new)) }
<1> DEFINE p == After(old, new)
           cut == EndOffset(new) - StartOffset(old)
           n == Len(old.data)
<1>1. /\ EndOffset(new) \in Nat /\ StartOffset(old) \in Nat /\ EndOffset(old) \in Nat
      /\ old.offset \in Nat /\ n \in Nat /\ old.data \in Seq(Nat \X Nat)
      /\ StartOffset(old) = old.offset /\ EndOffset(old) = old.offset + n
  BY RegionFacts, StretchFacts
<1>2. cut \in Nat /\ cut < n
  BY <1>1
<1>3. p.offset = EndOffset(new) /\ p.data = SubSeq(old.data, cut + 1, n)
  BY <1>1 DEF After
<1>4. /\ p.data \in Seq(Nat \X Nat) /\ Len(p.data) = n - cut
      /\ \A k \in 1 .. n - cut : p.data[k] = old.data[cut + k]
  <2>1. \A i \in cut + 1 .. n : old.data[i] \in Nat \X Nat
    BY <1>1, <1>2, ElementOfSeq, SMTT(20)
  <2> HIDE DEF cut, n
  <2>2. \A k \in 1 .. n - (cut + 1) + 1 :
          SubSeq(old.data, cut + 1, n)[k] = old.data[(cut + 1) + k - 1]
    BY <1>1, <1>2, <2>1, SubSeqProperties
  <2>3. SubSeq(old.data, cut + 1, n) \in Seq(Nat \X Nat)
    BY <1>1, <1>2, <2>1, SubSeqProperties
  <2>4. Len(SubSeq(old.data, cut + 1, n)) = n - cut
    <3>1. Len(SubSeq(old.data, cut + 1, n)) = n - (cut + 1) + 1
      BY <1>1, <1>2, <2>1, SubSeqProperties
    <3> QED
      BY <1>1, <1>2, <3>1
  <2>5. \A k \in 1 .. n - cut : k \in 1 .. n - (cut + 1) + 1 /\ (cut + 1) + k - 1 = cut + k
    BY <1>1, <1>2
  <2> QED
    BY <1>3, <2>2, <2>3, <2>4, <2>5
<1>5. p \in Region
  <2>1. p \in [ offset : Nat, data : Seq(Nat \X Nat) ]
    BY <1>1, <1>3, <1>4 DEF After
  <2> QED
    BY <1>1, <1>2, <1>4, <2>1 DEF Region
<1> HIDE DEF p
<1>6. StartOffset(p) = EndOffset(new) /\ EndOffset(p) = EndOffset(old)
  <2>1. StartOffset(p) = EndOffset(new) /\ EndOffset(p) = EndOffset(new) + (n - cut)
    BY <1>3, <1>4 DEF StartOffset, EndOffset
  <2> QED
    BY <1>1, <2>1
<1>7. Extent(p) \subseteq Extent(old)
  BY <1>1, <1>6 DEF Extent
<1>8. ASSUME NEW o \in Extent(p)
      PROVE  ByteAt(p, o) = ByteAt(old, o)
  <2>1. o \in Nat /\ o - EndOffset(new) + 1 \in 1 .. n - cut
    BY <1>1, <1>6 DEF Extent
  <2>2. cut + (o - EndOffset(new) + 1) = o - old.offset + 1
    BY <1>1, <2>1
  <2>3. p.data[o - EndOffset(new) + 1] = old.data[o - old.offset + 1]
    BY <1>4, <2>1, <2>2
  <2> QED
    BY <1>3, <2>3 DEF ByteAt
<1> QED
  BY <1>5, <1>6, <1>7, <1>8, BytesOfPart DEF p

(* What slicing leaves of a list of regions: they are in the same stretch, *)
(* clear of new, and have the bytes of before that are not in new.         *)
Sliced(rs, S, new, g) ==
  /\ Pile(rs, g)
  /\ \A r \in ToSet(rs) : \E old \in S : /\ StartOffset(old) <= StartOffset(r)
                                         /\ EndOffset(r) <= EndOffset(old)
  /\ ClearOf(ToSet(rs), new)
  /\ Bytes(rs) = Outside(UNION { BytesOf(old) : old \in S }, new)

LEMMA SliceSliced ==
  ASSUME NEW old \in Region, NEW new \in Stretch,
         NEW g \in {0, 1}, g = 1 => Len(new.data) > 0
  PROVE  Sliced(Slice(old, new), {old}, new, g)
<1>1. /\ StartOffset(old) \in Nat /\ EndOffset(old) \in Nat
      /\ StartOffset(old) < EndOffset(old)
      /\ StartOffset(new) \in Nat /\ EndOffset(new) \in Nat
      /\ StartOffset(new) <= EndOffset(new)
      /\ g \in Nat
  BY RegionFacts, StretchFacts
<1>2. StartOffset(new) + g <= EndOffset(new)
  <2>1. CASE g = 0
    BY <1>1, <2>1
  <2>2. CASE g = 1
    <3>1. Len(new.data) > 0
      BY <2>2
    <3> QED
      BY <2>2, <3>1, RegionFacts, StretchFacts
  <2> QED
    BY <2>1, <2>2
<1>3. UNION { BytesOf(r) : r \in {old} } = BytesOf(old)
  OBVIOUS
<1>4. \A x \in BytesOf(old) : x[1] \in Extent(old)
  BY DEF BytesOf
<1> DEFINE apart == EndOffset(new) <= StartOffset(old) \/ EndOffset(old) <= StartOffset(new)
           covered == StartOffset(new) <= StartOffset(old) /\ EndOffset(old) <= EndOffset(new)
           split == StartOffset(old) < StartOffset(new) /\ EndOffset(new) < EndOffset(old)
           b == Before(old, new)
           a == After(old, new)
<1>5. CASE apart
  <2>1. Slice(old, new) = <<old>>
    BY <1>1, <1>5 DEF Slice
  <2>2. Pile(<<old>>, g) /\ ToSet(<<old>>) = {old}
    BY <1>1, ShortLists
  <2>3. Outside(BytesOf(old), new) = BytesOf(old)
    BY <1>1, <1>4, <1>5 DEF Outside, Extent
  <2>4. ClearOf({old}, new)
    BY <1>5 DEF ClearOf
  <2>5. Bytes(<<old>>) = BytesOf(old)
    BY <2>2 DEF Bytes
  <2>6. \A r \in {old} : StartOffset(old) <= StartOffset(r) /\ EndOffset(r) <= EndOffset(old)
    BY <1>1
  <2> QED
    BY <1>3, <2>1, <2>2, <2>3, <2>4, <2>5, <2>6 DEF Sliced
<1>6. CASE ~apart /\ covered
  <2>1. Slice(old, new) = <<>>
    BY <1>1, <1>6 DEF Slice
  <2>2. Pile(<<>>, g) /\ ToSet(<<>>) = {}
    BY <1>1, ShortLists
  <2>3. Outside(BytesOf(old), new) = {}
    BY <1>1, <1>4, <1>6 DEF Outside, Extent
  <2> QED
    BY <1>3, <2>1, <2>2, <2>3 DEF Sliced, ClearOf, Bytes
<1>7. CASE ~apart /\ ~covered /\ split
  <2>1. Slice(old, new) = <<b, a>>
    BY <1>7 DEF Slice
  <2>2. /\ b \in Region /\ StartOffset(b) = StartOffset(old) /\ EndOffset(b) = StartOffset(new)
        /\ BytesOf(b) = { x \in BytesOf(old) : x[1] \in Extent(b) }
    BY <1>1, <1>7, BeforeFacts
  <2>3. /\ a \in Region /\ StartOffset(a) = EndOffset(new) /\ EndOffset(a) = EndOffset(old)
        /\ BytesOf(a) = { x \in BytesOf(old) : x[1] \in Extent(a) }
    BY <1>1, <1>7, AfterFacts
  <2> HIDE DEF a, b
  <2>4. Pile(<<b, a>>, g) /\ ToSet(<<b, a>>) = {b, a}
    BY <1>1, <1>2, <2>2, <2>3, PairLists
  <2>5. Outside(BytesOf(old), new) = BytesOf(b) \cup BytesOf(a)
    <3>1. \A o \in Extent(old) : o \notin Extent(new) <=> o \in Extent(b) \/ o \in Extent(a)
      BY <1>1, <1>7, <2>2, <2>3 DEF Extent
    <3> QED
      BY <1>4, <2>2, <2>3, <3>1 DEF Outside
  <2>6. Bytes(<<b, a>>) = BytesOf(b) \cup BytesOf(a)
    BY <2>4 DEF Bytes
  <2>7. ClearOf({b, a}, new)
    BY <1>1, <2>2, <2>3 DEF ClearOf
  <2>8. \A r \in {b, a} : StartOffset(old) <= StartOffset(r) /\ EndOffset(r) <= EndOffset(old)
    BY <1>1, <1>7, <2>2, <2>3
  <2> QED
    BY <1>3, <2>1, <2>4, <2>5, <2>6, <2>7, <2>8 DEF Sliced
<1>8. CASE ~apart /\ ~covered /\ ~split /\ EndOffset(old) <= EndOffset(new)
  <2>1. Slice(old, new) = <<b>>
    BY <1>8 DEF Slice
  <2>2. /\ b \in Region /\ StartOffset(b) = StartOffset(old) /\ EndOffset(b) = StartOffset(new)
        /\ BytesOf(b) = { x \in BytesOf(old) : x[1] \in Extent(b) }
    BY <1>1, <1>8, BeforeFacts
  <2> HIDE DEF b
  <2>3. Pile(<<b>>, g) /\ ToSet(<<b>>) = {b}
    BY <1>1, <2>2, ShortLists
  <2>4. Outside(BytesOf(old), new) = BytesOf(b)
    <3>1. \A o \in Extent(old) : o \notin Extent(new) <=> o \in Extent(b)
      BY <1>1, <1>8, <2>2 DEF Extent
    <3> QED
      BY <1>4, <2>2, <3>1 DEF Outside
  <2>5. Bytes(<<b>>) = BytesOf(b)
    BY <2>3 DEF Bytes
  <2>6. ClearOf({b}, new)
    BY <1>1, <2>2 DEF ClearOf
  <2>7. \A r \in {b} : StartOffset(old) <= StartOffset(r) /\ EndOffset(r) <= EndOffset(old)
    BY <1>1, <1>8, <2>2
  <2> QED
    BY <1>3, <2>1, <2>3, <2>4, <2>5, <2>6, <2>7 DEF Sliced
<1>9. CASE ~apart /\ ~covered /\ ~split /\ ~(EndOffset(old) <= EndOffset(new))
  <2>1. Slice(old, new) = <<a>>
    BY <1>9 DEF Slice
  <2>2. /\ a \in Region /\ StartOffset(a) = EndOffset(new) /\ EndOffset(a) = EndOffset(old)
        /\ BytesOf(a) = { x \in BytesOf(old) : x[1] \in Extent(a) }
    BY <1>1, <1>9, AfterFacts
  <2> HIDE DEF a
  <2>3. Pile(<<a>>, g) /\ ToSet(<<a>>) = {a}
    BY <1>1, <2>2, ShortLists
  <2>4. Outside(BytesOf(old), new) = BytesOf(a)
    <3>1. \A o \in Extent(old) : o \notin Extent(new) <=> o \in Extent(a)
      BY <1>1, <1>9, <2>2 DEF Extent
    <3> QED
      BY <1>4, <2>2, <3>1 DEF Outside
  <2>5. Bytes(<<a>>) = BytesOf(a)
    BY <2>3 DEF Bytes
  <2>6. ClearOf({a}, new)
    BY <1>1, <2>2 DEF ClearOf
  <2>7. \A r \in {a} : StartOffset(old) <= StartOffset(r) /\ EndOffset(r) <= EndOffset(old)
    BY <1>1, <1>9, <2>2
  <2> QED
    BY <1>3, <2>1, <2>3, <2>4, <2>5, <2>6, <2>7 DEF Sliced
<1> QED
  BY <1>5, <1>6, <1>7, <1>8, <1>9

(* A region outside of the window does not meet new.                       *)
LEMMA OutsideWindow ==
  ASSUME NEW g \in Nat, NEW rs, Pile(rs, g), NEW new \in Stretch,
         NEW i \in 1 .. Len(rs), i \notin Window(rs, new)
  PROVE  EndOffset(new) <= StartOffset(rs[i]) \/ EndOffset(rs[i]) <= StartOffset(new)
<1> DEFINE n == Len(rs)
           lower == CHOOSE k \in 1 .. n + 1 :
                      /\ k <= n => ~(StartOffset(rs[k]) < StartOffset(new))
                      /\ \A j \in 1 .. k - 1 : ~ ~(StartOffset(rs[j]) < StartOffset(new))
           upper == CHOOSE k \in 1 .. n + 1 :
                      /\ k <= n => EndOffset(new) < EndOffset(rs[k])
                      /\ \A j \in 1 .. k - 1 : ~(EndOffset(new) < EndOffset(rs[j]))
<1>1. rs \in Seq(Region) /\ Apart(rs, g) /\ n \in Nat /\ DOMAIN rs = 1 .. n
  BY ListFacts DEF Pile
<1>2. \A k \in 1 .. n : /\ StartOffset(rs[k]) \in Nat /\ EndOffset(rs[k]) \in Nat
                        /\ StartOffset(rs[k]) < EndOffset(rs[k])
  BY <1>1, ListFacts, RegionFacts
<1>3. StartOffset(new) \in Nat /\ EndOffset(new) \in Nat /\ StartOffset(new) <= EndOffset(new)
  BY StretchFacts
<1>4. Window(rs, new) = { k \in 1 .. n : (lower = 1 \/ lower - 1 <= k) /\ k <= upper }
  BY DEF Window, FirstIndex
<1>5. \E k \in 1 .. n + 1 :
        /\ k <= n => ~(StartOffset(rs[k]) < StartOffset(new))
        /\ \A j \in 1 .. k - 1 : ~ ~(StartOffset(rs[j]) < StartOffset(new))
  <2> DEFINE S == { k \in 1 .. n + 1 : k <= n => ~(StartOffset(rs[k]) < StartOffset(new)) }
  <2>1. S \subseteq Nat /\ n + 1 \in S
    BY <1>1
  <2>2. PICK k \in S : \A m \in S : k <= m
    <3> HIDE DEF S
    <3> QED
      BY <2>1, LeastElement
  <2>3. \A j \in 1 .. k - 1 : j \in 1 .. n + 1 /\ j \notin S
    BY <1>1, <2>1, <2>2
  <2> QED
    BY <1>1, <2>2, <2>3
<1>6. \E k \in 1 .. n + 1 :
        /\ k <= n => EndOffset(new) < EndOffset(rs[k])
        /\ \A j \in 1 .. k - 1 : ~(EndOffset(new) < EndOffset(rs[j]))
  <2> DEFINE S == { k \in 1 .. n + 1 : k <= n => EndOffset(new) < EndOffset(rs[k]) }
  <2>1. S \subseteq Nat /\ n + 1 \in S
    BY <1>1
  <2>2. PICK k \in S : \A m \in S : k <= m
    <3> HIDE DEF S
    <3> QED
      BY <2>1, LeastElement
  <2>3. \A j \in 1 .. k - 1 : j \in 1 .. n + 1 /\ j \notin S
    BY <1>1, <2>1, <2>2
  <2> QED
    BY <1>1, <2>2, <2>3
<1>7. /\ lower \in 1 .. n + 1
      /\ \A j \in 1 .. lower - 1 : ~ ~(StartOffset(rs[j]) < StartOffset(new))
  BY <1>5
<1>8. upper \in 1 .. n + 1 /\ (upper <= n => EndOffset(new) < EndOffset(rs[upper]))
  BY <1>6
<1> HIDE DEF lower, upper, n
<1>9. \/ lower # 1 /\ i < lower - 1
      \/ i > upper
  BY <1>1, <1>4, <1>7, <1>8 DEF n
<1>10. CASE lower # 1 /\ i < lower - 1
  <2>1. i \in 1 .. n /\ i + 1 \in 1 .. n /\ i + 1 \in 1 .. lower - 1 /\ i < i + 1
    BY <1>1, <1>7, <1>10 DEF n
  <2>2. EndOffset(rs[i]) + g <= StartOffset(rs[i + 1])
    BY <1>1, <2>1 DEF Apart
  <2>3. StartOffset(rs[i + 1]) < StartOffset(new)
    BY <1>7, <2>1
  <2> QED
    BY <1>2, <1>3, <2>1, <2>2, <2>3
<1>11. CASE i > upper
  <2>1. i \in 1 .. n /\ upper \in 1 .. n
    BY <1>1, <1>8, <1>11 DEF n
  <2>2. EndOffset(rs[upper]) + g <= StartOffset(rs[i])
    BY <1>1, <1>11, <2>1 DEF Apart
  <2>3. EndOffset(new) < EndOffset(rs[upper])
    BY <1>1, <1>8, <2>1
  <2> QED
    BY <1>2, <1>3, <2>1, <2>2, <2>3
<1> QED
  BY <1>9, <1>10, <1>11

(* sliceRegions, whatever its window leaves aside.                         *)
LEMMA SliceRegionsSliced ==
  ASSUME NEW g \in {0, 1}, NEW rs, Pile(rs, g), NEW new \in Stretch,
         g = 1 => Len(new.data) > 0
  PROVE  Sliced(SliceRegions(rs, new), ToSet(rs), new, g)
<1> DEFINE n == Len(rs)
           Piece(i) == IF i \in Window(rs, new) THEN Slice(rs[i], new) ELSE <<rs[i]>>
           ss == [ i \in 1 .. n |-> Piece(i) ]
           cut == SliceRegions(rs, new)
<1>1. /\ rs \in Seq(Region) /\ Apart(rs, g) /\ n \in Nat /\ DOMAIN rs = 1 .. n
      /\ g \in Nat
  BY ListFacts DEF Pile
<1>2. \A i \in 1 .. n : Sliced(Piece(i), {rs[i]}, new, g)
  <2> SUFFICES ASSUME NEW i \in 1 .. n
               PROVE  Sliced(Piece(i), {rs[i]}, new, g)
    OBVIOUS
  <2>1. rs[i] \in Region
    BY <1>1, ListFacts
  <2>2. Sliced(Slice(rs[i], new), {rs[i]}, new, g)
    BY <2>1, SliceSliced
  <2>3. CASE i \notin Window(rs, new)
    <3>1. EndOffset(new) <= StartOffset(rs[i]) \/ EndOffset(rs[i]) <= StartOffset(new)
      BY <1>1, <2>3, OutsideWindow
    <3>2. Slice(rs[i], new) = <<rs[i]>>
      <4>1. /\ StartOffset(rs[i]) \in Nat /\ EndOffset(rs[i]) \in Nat
            /\ StartOffset(rs[i]) < EndOffset(rs[i])
            /\ StartOffset(new) \in Nat /\ EndOffset(new) \in Nat
            /\ StartOffset(new) <= EndOffset(new)
        BY <2>1, RegionFacts, StretchFacts
      <4> QED
        BY <3>1, <4>1 DEF Slice
    <3> QED
      BY <2>2, <2>3, <3>2
  <2> QED
    BY <2>2, <2>3
<1>3. cut = FlattenSeq(ss)
  BY DEF SliceRegions
<1> HIDE DEF Piece
<1>4. DOMAIN ss = 1 .. n /\ Len(ss) = n /\ \A i \in 1 .. n : ss[i] = Piece(i)
  BY <1>1
<1> HIDE DEF ss, cut
<1>5. CASE n = 0
  <2>1. ss = <<>> /\ ToSet(rs) = {}
    BY <1>1, <1>4, <1>5 DEF ss, ToSet
  <2>2. cut = <<>>
    BY <1>3, <2>1 DEF FlattenSeq
  <2>3. Pile(<<>>, g) /\ ToSet(<<>>) = {}
    BY <1>1, ShortLists
  <2>4. Outside(UNION { BytesOf(old) : old \in {} }, new) = {}
    BY DEF Outside
  <2> QED
    BY <2>1, <2>2, <2>3, <2>4 DEF cut, Sliced, ClearOf, Bytes
<1>6. CASE n > 0
  <2>1. \A i \in 1 .. n : Pile(ss[i], g)
    BY <1>2, <1>4 DEF Sliced
  <2>2. ASSUME NEW i \in 1 .. n, NEW j \in 1 .. n, i < j
        PROVE  Below(ToSet(ss[i]), ToSet(ss[j]), g)
    <3> SUFFICES ASSUME NEW a \in ToSet(ss[i]), NEW b \in ToSet(ss[j])
                 PROVE  EndOffset(a) + g <= StartOffset(b)
      BY DEF Below
    <3>1. EndOffset(a) <= EndOffset(rs[i]) /\ StartOffset(rs[j]) <= StartOffset(b)
      BY <1>2, <1>4 DEF Sliced
    <3>2. EndOffset(rs[i]) + g <= StartOffset(rs[j])
      BY <1>1, <2>2 DEF Apart
    <3>3. /\ a \in Region /\ b \in Region /\ rs[i] \in Region /\ rs[j] \in Region
      BY <1>1, <2>1, ListFacts DEF Pile
    <3>4. /\ EndOffset(a) \in Nat /\ StartOffset(b) \in Nat
          /\ EndOffset(rs[i]) \in Nat /\ StartOffset(rs[j]) \in Nat
      BY <3>3, RegionFacts
    <3> QED
      BY <1>1, <3>1, <3>2, <3>4
  <2>3. Pile(cut, g) /\ ToSet(cut) = UNION { ToSet(ss[i]) : i \in 1 .. n }
    BY <1>1, <1>3, <1>4, <1>6, <2>1, <2>2, FlattenPile
  <2>4. \A r \in ToSet(cut) : \E i \in 1 .. n : r \in ToSet(Piece(i))
    BY <1>4, <2>3
  <2>5. \A i \in 1 .. n : rs[i] \in ToSet(rs)
    BY <1>1 DEF ToSet
  <2>6. \A r \in ToSet(cut) :
          \E old \in ToSet(rs) : /\ StartOffset(old) <= StartOffset(r)
                                 /\ EndOffset(r) <= EndOffset(old)
    BY <1>2, <2>4, <2>5 DEF Sliced
  <2>7. ClearOf(ToSet(cut), new)
    BY <1>2, <2>4 DEF Sliced, ClearOf
  <2>8. Bytes(cut) = Outside(UNION { BytesOf(old) : old \in ToSet(rs) }, new)
    <3>1. \A i \in 1 .. n : Bytes(Piece(i)) = Outside(BytesOf(rs[i]), new)
      BY <1>2 DEF Sliced
    <3>2. Bytes(cut) = UNION { Bytes(Piece(i)) : i \in 1 .. n }
      <4>1. \A r \in ToSet(cut) : BytesOf(r) \subseteq UNION { Bytes(Piece(i)) : i \in 1 .. n }
        BY <2>4 DEF Bytes
      <4>2. \A i \in 1 .. n : \A r \in ToSet(Piece(i)) : r \in ToSet(cut)
        BY <1>4, <2>3
      <4>3. \A i \in 1 .. n : Bytes(Piece(i)) \subseteq Bytes(cut)
        BY <4>2 DEF Bytes
      <4> QED
        BY <4>1, <4>3 DEF Bytes
    <3>3. ToSet(rs) = { rs[i] : i \in 1 .. n }
      BY <1>1 DEF ToSet
    <3> HIDE DEF n
    <3>4. Bytes(cut) = UNION { Outside(BytesOf(rs[i]), new) : i \in 1 .. n }
      BY <3>1, <3>2
    <3>5. UNION { BytesOf(old) : old \in ToSet(rs) } = UNION { BytesOf(rs[i]) : i \in 1 .. n }
      BY <3>3
    <3>6. Outside(UNION { BytesOf(rs[i]) : i \in 1 .. n }, new)
            = UNION { Outside(BytesOf(rs[i]), new) : i \in 1 .. n }
      BY DEF Outside
    <3> QED
      BY <3>4, <3>5, <3>6
  <2> QED
    BY <2>3, <2>6, <2>7, <2>8 DEF Sliced, cut
<1> QED
  BY <1>1, <1>5, <1>6

-----------------------------------------------------------------------------
(***************************************************************************)
(* Joining and inserting.                                                  *)
(***************************************************************************)
BytesIn(S) == UNION { BytesOf(r) : r \in S }

LEMMA BytesInUnion ==
  /\ \A rs : Bytes(rs) = BytesIn(ToSet(rs))
  /\ \A S, T : BytesIn(S \cup T) = BytesIn(S) \cup BytesIn(T)
  /\ \A r : BytesIn({r}) = BytesOf(r)
  /\ \A S, r : BytesIn(S \cup {r}) = BytesIn(S) \cup BytesOf(r)
  /\ BytesIn({}) = {}
BY DEF Bytes, BytesIn

(* Two regions that touch become one with the bytes of both.               *)
IsJoin(j, p, n) ==
  /\ j \in Region
  /\ StartOffset(j) = StartOffset(p) /\ EndOffset(j) = EndOffset(n)
  /\ BytesOf(j) = BytesOf(p) \cup BytesOf(n)

LEMMA JoinFacts ==
  ASSUME NEW p \in Region, NEW n \in Region, EndOffset(p) = StartOffset(n)
  PROVE  IsJoin([ offset |-> p.offset, data |-> p.data \o n.data ], p, n)
<1> DEFINE j == [ offset |-> p.offset, data |-> p.data \o n.data ]
           a == Len(p.data)
           b == Len(n.data)
           d == p.data \o n.data
<1>1. /\ p.offset \in Nat /\ n.offset \in Nat /\ a \in Nat /\ b \in Nat /\ a > 0 /\ b > 0
      /\ p.data \in Seq(Nat \X Nat) /\ n.data \in Seq(Nat \X Nat)
  BY RegionFacts
<1>2. /\ StartOffset(p) = p.offset /\ EndOffset(p) = p.offset + a
      /\ StartOffset(n) = n.offset /\ EndOffset(n) = n.offset + b
  BY RegionFacts
<1>3. d \in Seq(Nat \X Nat) /\ Len(d) = a + b
  BY <1>1, ConcatProperties
<1>4. /\ \A k \in 1 .. a : d[k] = p.data[k]
      /\ \A k \in 1 .. a + b : k > a => d[k] = n.data[k - a]
  <2>1. \A k \in 1 .. Len(p.data) + Len(n.data) :
          d[k] = IF k <= Len(p.data) THEN p.data[k] ELSE n.data[k - Len(p.data)]
    BY <1>1, ConcatProperties
  <2> HIDE DEF a, b, d
  <2>2. \A k \in 1 .. a : k \in 1 .. a + b /\ k <= a
    BY <1>1
  <2>3. \A k \in 1 .. a + b : k > a => ~(k <= a)
    BY <1>1
  <2> QED
    BY <2>1, <2>2, <2>3 DEF a, b
<1>5. j.offset = p.offset /\ j.data = d
  OBVIOUS
<1> HIDE DEF d, a, b
<1>6. j \in Region
  <2>1. Len(d) > 0
    BY <1>1, <1>3
  <2> QED
    BY <1>1, <1>3, <2>1 DEF Region, d
<1> HIDE DEF j
<1>7. StartOffset(j) = p.offset /\ EndOffset(j) = p.offset + (a + b)
  BY <1>3, <1>5 DEF StartOffset, EndOffset
<1>8. n.offset = p.offset + a
  BY <1>2
<1>9. /\ Extent(p) = p.offset .. p.offset + a - 1
      /\ Extent(n) = p.offset + a .. p.offset + a + b - 1
      /\ Extent(j) = p.offset .. p.offset + a + b - 1
  <2>1. Extent(p) = p.offset .. (p.offset + a) - 1
    BY <1>2 DEF Extent
  <2>2. Extent(n) = p.offset + a .. ((p.offset + a) + b) - 1
    BY <1>2, <1>8 DEF Extent
  <2>3. Extent(j) = p.offset .. (p.offset + (a + b)) - 1
    BY <1>7 DEF Extent
  <2>4. /\ (p.offset + a) - 1 = p.offset + a - 1
        /\ ((p.offset + a) + b) - 1 = p.offset + a + b - 1
        /\ (p.offset + (a + b)) - 1 = p.offset + a + b - 1
    BY <1>1
  <2> QED
    BY <2>1, <2>2, <2>3, <2>4
<1>10. /\ Extent(p) \subseteq Extent(j) /\ Extent(n) \subseteq Extent(j)
       /\ \A o \in Extent(j) : o \in Extent(p) \/ o \in Extent(n)
  BY <1>1, <1>9
<1>11. ASSUME NEW o \in Extent(p)
       PROVE  ByteAt(p, o) = ByteAt(j, o)
  <2>1. o - p.offset + 1 \in 1 .. a
    BY <1>1, <1>9
  <2>2. d[o - p.offset + 1] = p.data[o - p.offset + 1]
    BY <1>4, <2>1
  <2> QED
    BY <1>5, <2>2 DEF ByteAt
<1>12. ASSUME NEW o \in Extent(n)
       PROVE  ByteAt(n, o) = ByteAt(j, o)
  <2>1. o \in Int /\ p.offset + a <= o /\ o <= p.offset + a + b - 1
    BY <1>1, <1>9
  <2>2. /\ o - p.offset + 1 \in 1 .. a + b /\ o - p.offset + 1 > a
        /\ (o - p.offset + 1) - a = o - (p.offset + a) + 1
    BY <1>1, <2>1, SMTT(20)
  <2>3. d[o - p.offset + 1] = n.data[(o - p.offset + 1) - a]
    BY <1>4, <2>2
  <2>4. ByteAt(n, o) = n.data[o - (p.offset + a) + 1]
    BY <1>8 DEF ByteAt
  <2> QED
    BY <1>5, <1>7, <2>2, <2>3, <2>4 DEF ByteAt
<1>13. /\ BytesOf(p) = { x \in BytesOf(j) : x[1] \in Extent(p) }
       /\ BytesOf(n) = { x \in BytesOf(j) : x[1] \in Extent(n) }
  BY <1>10, <1>11, <1>12, BytesOfPart
<1>14. \A x \in BytesOf(j) : x[1] \in Extent(j)
  BY DEF BytesOf
<1>15. BytesOf(j) = BytesOf(p) \cup BytesOf(n)
  BY <1>10, <1>13, <1>14
<1>16. StartOffset(j) = StartOffset(p) /\ EndOffset(j) = EndOffset(n)
  BY <1>1, <1>2, <1>7, <1>8
<1> QED
  BY <1>6, <1>15, <1>16 DEF j, d, IsJoin

LEMMA MergeFacts ==
  ASSUME NEW g \in {0, 1}, NEW p \in Region, NEW n \in Region,
         EndOffset(p) <= StartOffset(n)
  PROVE  /\ EndOffset(p) = StartOffset(n) =>
              \E j : IsJoin(j, p, n) /\ MergeRegions(p, n) = <<j>>
         /\ EndOffset(p) # StartOffset(n) =>
              EndOffset(p) + g <= StartOffset(n) /\ MergeRegions(p, n) = <<p, n>>
<1>1. EndOffset(p) \in Nat /\ StartOffset(n) \in Nat
  BY RegionFacts
<1>2. CASE EndOffset(p) = StartOffset(n)
  BY <1>2, JoinFacts DEF MergeRegions
<1>3. CASE EndOffset(p) # StartOffset(n)
  BY <1>1, <1>3 DEF MergeRegions
<1> QED
  BY <1>2, <1>3

(* In either case the result is a pile in the place of the two.            *)
LEMMA MergePile ==
  ASSUME NEW g \in {0, 1}, NEW p \in Region, NEW n \in Region,
         EndOffset(p) <= StartOffset(n)
  PROVE  /\ Pile(MergeRegions(p, n), g)
         /\ \A r \in ToSet(MergeRegions(p, n)) :
              StartOffset(p) <= StartOffset(r) /\ EndOffset(r) <= EndOffset(n)
         /\ BytesIn(ToSet(MergeRegions(p, n))) = BytesOf(p) \cup BytesOf(n)
<1>1. /\ g \in Nat
      /\ StartOffset(p) \in Nat /\ EndOffset(p) \in Nat /\ StartOffset(p) < EndOffset(p)
      /\ StartOffset(n) \in Nat /\ EndOffset(n) \in Nat /\ StartOffset(n) < EndOffset(n)
  BY RegionFacts
<1>2. CASE EndOffset(p) = StartOffset(n)
  <2>1. PICK j : IsJoin(j, p, n) /\ MergeRegions(p, n) = <<j>>
    BY <1>2, MergeFacts
  <2>2. j \in Region /\ StartOffset(j) = StartOffset(p) /\ EndOffset(j) = EndOffset(n)
    BY <2>1 DEF IsJoin
  <2>3. Pile(<<j>>, g) /\ ToSet(<<j>>) = {j}
    BY <1>1, <2>2, ShortLists
  <2> QED
    BY <1>1, <2>1, <2>2, <2>3, BytesInUnion DEF IsJoin
<1>3. CASE EndOffset(p) # StartOffset(n)
  <2>1. EndOffset(p) + g <= StartOffset(n) /\ MergeRegions(p, n) = <<p, n>>
    BY <1>3, MergeFacts
  <2>2. Pile(<<p, n>>, g) /\ ToSet(<<p, n>>) = {p, n}
    BY <1>1, <2>1, PairLists
  <2>3. \A r \in {p, n} : StartOffset(p) <= StartOffset(r) /\ EndOffset(r) <= EndOffset(n)
    BY <1>1
  <2>4. BytesIn({p, n}) = BytesOf(p) \cup BytesOf(n)
    BY DEF BytesIn
  <2> QED
    BY <2>1, <2>2, <2>3, <2>4
<1> QED
  BY <1>2, <1>3

(* Three piles, the middle one between two offsets.                        *)
Stack(L, M, R, lo, hi, g) ==
  /\ Pile(L, g) /\ Pile(M, g) /\ Pile(R, g)
  /\ lo \in Nat /\ hi \in Nat /\ lo <= hi
  /\ \A a \in ToSet(L) : EndOffset(a) + g <= lo
  /\ \A m \in ToSet(M) : lo <= StartOffset(m) /\ EndOffset(m) <= hi
  /\ \A b \in ToSet(R) : hi + g <= StartOffset(b)

LEMMA ThreePiles ==
  ASSUME NEW g \in Nat, NEW L, NEW M, NEW R, NEW lo, NEW hi, Stack(L, M, R, lo, hi, g)
  PROVE  /\ Pile(L \o M \o R, g)
         /\ BytesIn(ToSet(L \o M \o R))
              = BytesIn(ToSet(L)) \cup BytesIn(ToSet(M)) \cup BytesIn(ToSet(R))
<1>0. /\ Pile(L, g) /\ Pile(M, g) /\ Pile(R, g)
      /\ lo \in Nat /\ hi \in Nat /\ lo <= hi
      /\ \A a \in ToSet(L) : EndOffset(a) + g <= lo
      /\ \A m \in ToSet(M) : lo <= StartOffset(m) /\ EndOffset(m) <= hi
      /\ \A b \in ToSet(R) : hi + g <= StartOffset(b)
  BY DEF Stack
<1>1. \A r \in ToSet(L) \cup ToSet(M) \cup ToSet(R) :
        StartOffset(r) \in Nat /\ EndOffset(r) \in Nat
  BY <1>0, ListFacts, RegionFacts DEF Pile
<1>2. Below(ToSet(L), ToSet(M), g)
  BY <1>0, <1>1 DEF Below
<1>3. Pile(L \o M, g) /\ ToSet(L \o M) = ToSet(L) \cup ToSet(M)
  BY <1>0, <1>2, ConcatPile
<1>4. Below(ToSet(L) \cup ToSet(M), ToSet(R), g)
  BY <1>0, <1>1 DEF Below
<1> DEFINE LM == L \o M
<1> HIDE DEF LM
<1>5. Pile(LM \o R, g) /\ ToSet(LM \o R) = ToSet(LM) \cup ToSet(R)
  <2>1. Pile(LM, g) /\ Below(ToSet(LM), ToSet(R), g)
    BY <1>3, <1>4 DEF LM
  <2> QED
    BY <1>0, <2>1, ConcatPile
<1>6. BytesIn(ToSet(LM \o R)) = BytesIn(ToSet(LM)) \cup BytesIn(ToSet(R))
  BY <1>5, BytesInUnion
<1>7. BytesIn(ToSet(LM)) = BytesIn(ToSet(L)) \cup BytesIn(ToSet(M))
  BY <1>3, BytesInUnion DEF LM
<1> QED
  BY <1>5, <1>6, <1>7 DEF LM

LEMMA PairFront ==
  ASSUME NEW a, NEW b
  PROVE  Front(<<a, b>>) = <<a>> /\ Last(<<a, b>>) = b
<1> DEFINE s == <<a, b>>
           t == SubSeq(s, 1, 1)
<1>1. s \in Seq({a, b}) /\ Len(s) = 2 /\ s[1] = a /\ s[2] = b
  OBVIOUS
<1>2. Front(s) = t /\ Last(s) = b
  <2>1. Len(s) - 1 = 1
    BY <1>1
  <2> QED
    BY <1>1, <2>1 DEF Front, Last
<1> HIDE DEF s
<1>3. \A i \in 1 .. 1 : s[i] \in {a, b}
  BY <1>1
<1>4. t \in Seq({a, b}) /\ Len(t) = 1
  BY <1>3, SubSeqProperties
<1>5. \A i \in 1 .. 1 - 1 + 1 : t[i] = s[1 + i - 1]
  BY <1>3, SubSeqProperties
<1>6. t[1] = a
  <2>1. 1 \in 1 .. 1 - 1 + 1 /\ 1 + 1 - 1 = 1
    OBVIOUS
  <2> HIDE DEF t
  <2> QED
    BY <1>1, <1>5, <2>1
<1> HIDE DEF t
<1>7. t = <<a>>
  <2>1. <<a>> \in Seq({a, b}) /\ Len(<<a>>) = 1 /\ <<a>>[1] = a
    OBVIOUS
  <2> QED
    BY <1>4, <1>6, <2>1, SeqEqual
<1> QED
  BY <1>2, <1>7 DEF s

(* A list grows by a region that is clear of it.                           *)
Grown(rs, S, new, g) ==
  Pile(rs, g) /\ BytesIn(ToSet(rs)) = BytesIn(S) \cup BytesOf(new)

(* new at the end of the list, and before it.                              *)
LEMMA PushBack ==
  ASSUME NEW g \in {0, 1}, NEW rs, Pile(rs, g), rs # <<>>, NEW new \in Region,
         EndOffset(Last(rs)) <= StartOffset(new)
  PROVE  Grown(Front(rs) \o MergeRegions(Last(rs), new), ToSet(rs), new, g)
<1> DEFINE n == Len(rs)
           F == Front(rs)
           M == MergeRegions(Last(rs), new)
<1>1. /\ rs \in Seq(Region) /\ Apart(rs, g) /\ n \in Nat /\ DOMAIN rs = 1 .. n
      /\ g \in Nat
  BY ListFacts DEF Pile
<1>2. n > 0
  BY <1>1, EmptySeq
<1>3. Last(rs) = rs[n] /\ Last(rs) \in Region
  BY <1>1, <1>2, ListFacts DEF Last
<1>4. Pile(F, g) /\ ToSet(F) = { rs[i] : i \in 1 .. n - 1 }
  <2>1. n - 1 \in Nat /\ n - 1 <= Len(rs)
    BY <1>1, <1>2
  <2> HIDE DEF n
  <2>2. /\ Pile(SubSeq(rs, 1, n - 1), g)
        /\ ToSet(SubSeq(rs, 1, n - 1)) = { rs[i] : i \in 1 .. n - 1 }
    BY <1>1, <2>1, PartOfPile
  <2>3. F = SubSeq(rs, 1, n - 1)
    BY DEF Front, n
  <2> QED
    BY <2>2, <2>3
<1>5. /\ Pile(M, g)
      /\ \A r \in ToSet(M) : StartOffset(rs[n]) <= StartOffset(r)
      /\ BytesIn(ToSet(M)) = BytesOf(rs[n]) \cup BytesOf(new)
  BY <1>3, MergePile
<1> HIDE DEF F, M
<1>6. Below(ToSet(F), ToSet(M), g)
  <2> SUFFICES ASSUME NEW a \in ToSet(F), NEW b \in ToSet(M)
               PROVE  EndOffset(a) + g <= StartOffset(b)
    BY DEF Below
  <2>1. PICK i \in 1 .. n - 1 : a = rs[i]
    BY <1>4
  <2>2. i \in 1 .. n /\ n \in 1 .. n /\ i < n
    BY <1>1, <1>2
  <2>3. EndOffset(a) + g <= StartOffset(rs[n])
    BY <1>1, <2>1, <2>2 DEF Apart
  <2>4. a \in Region /\ b \in Region /\ rs[n] \in Region
    BY <1>3, <1>4, <1>5, ListFacts DEF Pile
  <2> HIDE DEF n
  <2>5. EndOffset(a) \in Nat /\ StartOffset(b) \in Nat /\ StartOffset(rs[n]) \in Nat
    BY <2>4, RegionFacts
  <2> QED
    BY <1>1, <1>5, <2>3, <2>5
<1>7. Pile(F \o M, g) /\ ToSet(F \o M) = ToSet(F) \cup ToSet(M)
  BY <1>1, <1>4, <1>5, <1>6, ConcatPile
<1>8. ToSet(rs) = ToSet(F) \cup {rs[n]}
  <2>1. ToSet(rs) = { rs[i] : i \in 1 .. n }
    BY <1>1 DEF ToSet
  <2>2. 1 .. n = 1 .. n - 1 \cup {n}
    BY <1>1, <1>2
  <2> QED
    BY <1>4, <2>1, <2>2
<1> HIDE DEF n
<1>9. BytesIn(ToSet(rs)) = BytesIn(ToSet(F)) \cup BytesOf(rs[n])
  BY <1>8, BytesInUnion
<1>10. BytesIn(ToSet(F \o M)) = BytesIn(ToSet(F)) \cup BytesIn(ToSet(M))
  BY <1>7, BytesInUnion
<1> QED
  BY <1>5, <1>7, <1>9, <1>10 DEF Grown, F, M

LEMMA PushFront ==
  ASSUME NEW g \in {0, 1}, NEW rs, Pile(rs, g), rs # <<>>, NEW new \in Region,
         EndOffset(new) <= StartOffset(Head(rs))
  PROVE  Grown(MergeRegions(new, Head(rs)) \o Tail(rs), ToSet(rs), new, g)
<1> DEFINE n == Len(rs)
           T == Tail(rs)
           M == MergeRegions(new, Head(rs))
<1>1. /\ rs \in Seq(Region) /\ Apart(rs, g) /\ n \in Nat /\ DOMAIN rs = 1 .. n
      /\ g \in Nat
  BY ListFacts DEF Pile
<1>2. n > 0
  BY <1>1, EmptySeq
<1>3. Head(rs) = rs[1] /\ rs[1] \in Region /\ 1 \in 1 .. n
  BY <1>1, <1>2, ListFacts
<1>4. Pile(T, g) /\ ToSet(T) = { rs[i] : i \in 2 .. n }
  <2>1. T = SubSeq(rs, 2, n)
    BY <1>1, TailIsSubSeq
  <2>2. 2 \in Nat \ {0} /\ n <= Len(rs)
    BY <1>1
  <2> HIDE DEF n
  <2>3. Pile(SubSeq(rs, 2, n), g) /\ ToSet(SubSeq(rs, 2, n)) = { rs[i] : i \in 2 .. n }
    BY <1>1, <2>2, PartOfPile
  <2> QED
    BY <2>1, <2>3
<1>5. /\ Pile(M, g)
      /\ \A r \in ToSet(M) : EndOffset(r) <= EndOffset(rs[1])
      /\ BytesIn(ToSet(M)) = BytesOf(new) \cup BytesOf(rs[1])
  BY <1>3, MergePile
<1> HIDE DEF T, M
<1>6. Below(ToSet(M), ToSet(T), g)
  <2> SUFFICES ASSUME NEW a \in ToSet(M), NEW b \in ToSet(T)
               PROVE  EndOffset(a) + g <= StartOffset(b)
    BY DEF Below
  <2>1. PICK i \in 2 .. n : b = rs[i]
    BY <1>4
  <2>2. i \in 1 .. n /\ 1 < i
    BY <1>1
  <2>3. EndOffset(rs[1]) + g <= StartOffset(b)
    BY <1>1, <1>3, <2>1, <2>2 DEF Apart
  <2>4. a \in Region /\ b \in Region
    BY <1>4, <1>5, ListFacts DEF Pile
  <2>5. EndOffset(a) \in Nat /\ StartOffset(b) \in Nat /\ EndOffset(rs[1]) \in Nat
    BY <1>3, <2>4, RegionFacts
  <2> QED
    BY <1>1, <1>5, <2>3, <2>5
<1>7. Pile(M \o T, g) /\ ToSet(M \o T) = ToSet(M) \cup ToSet(T)
  BY <1>1, <1>4, <1>5, <1>6, ConcatPile, ZenonT(30)
<1>8. ToSet(rs) = ToSet(T) \cup {rs[1]}
  <2>1. ToSet(rs) = { rs[i] : i \in 1 .. n }
    BY <1>1 DEF ToSet
  <2>2. 1 .. n = {1} \cup 2 .. n
    BY <1>1, <1>2
  <2> QED
    BY <1>4, <2>1, <2>2
<1>9. BytesIn(ToSet(rs)) = BytesOf(rs[1]) \cup BytesIn(ToSet(T))
  BY <1>8, BytesInUnion
<1>10. BytesIn(ToSet(M \o T)) = BytesIn(ToSet(M)) \cup BytesIn(ToSet(T))
  BY <1>7, BytesInUnion
<1> QED
  BY <1>5, <1>7, <1>9, <1>10 DEF Grown, T, M

(* new between two regions of the list.                                    *)
LEMMA InsertBetween ==
  ASSUME NEW g \in {0, 1}, NEW rs, Pile(rs, g), rs # <<>>, NEW new \in Region,
         ClearOf(ToSet(rs), new),
         ~(EndOffset(Last(rs)) <= StartOffset(new)),
         ~(EndOffset(new) <= StartOffset(Head(rs)))
  PROVE  Grown(Insert(rs, new), ToSet(rs), new, g)
<1> DEFINE n == Len(rs)
           it == CHOOSE k \in 1 .. n + 1 :
                   /\ k <= n => StartOffset(new) < StartOffset(rs[k])
                   /\ \A j \in 1 .. k - 1 : ~(StartOffset(new) < StartOffset(rs[j]))
           merged == MergeRegions(rs[it - 1], new)
           A == SubSeq(rs, 1, it - 2)
           L == A \o Front(merged)
           M == MergeRegions(Last(merged), rs[it])
           R == SubSeq(rs, it + 1, n)
<1>1. /\ rs \in Seq(Region) /\ Apart(rs, g) /\ n \in Nat /\ DOMAIN rs = 1 .. n
      /\ g \in Nat
  BY ListFacts DEF Pile
<1>2. n > 0
  BY <1>1, EmptySeq
<1>3. Insert(rs, new) = L \o M \o R
  BY DEF Insert, FirstIndex
<1>4. \A k \in 1 .. n : /\ rs[k] \in Region /\ rs[k] \in ToSet(rs)
                        /\ StartOffset(rs[k]) \in Nat /\ EndOffset(rs[k]) \in Nat
                        /\ StartOffset(rs[k]) < EndOffset(rs[k])
  BY <1>1, ListFacts, RegionFacts
<1>5. /\ StartOffset(new) \in Nat /\ EndOffset(new) \in Nat
      /\ StartOffset(new) < EndOffset(new)
  BY RegionFacts
<1>6. \E k \in 1 .. n + 1 :
        /\ k <= n => StartOffset(new) < StartOffset(rs[k])
        /\ \A j \in 1 .. k - 1 : ~(StartOffset(new) < StartOffset(rs[j]))
  <2> DEFINE S == { k \in 1 .. n + 1 : k <= n => StartOffset(new) < StartOffset(rs[k]) }
  <2>1. S \subseteq Nat /\ n + 1 \in S
    BY <1>1
  <2>2. PICK k \in S : \A m \in S : k <= m
    <3> HIDE DEF S
    <3> QED
      BY <2>1, LeastElement
  <2>3. \A j \in 1 .. k - 1 : j \in 1 .. n + 1 /\ j \notin S
    BY <1>1, <2>1, <2>2
  <2> QED
    BY <1>1, <2>2, <2>3
<1>7. /\ it \in 1 .. n + 1
      /\ it <= n => StartOffset(new) < StartOffset(rs[it])
      /\ \A j \in 1 .. it - 1 : ~(StartOffset(new) < StartOffset(rs[j]))
  BY <1>6
<1>8. Last(rs) = rs[n] /\ Head(rs) = rs[1] /\ 1 \in 1 .. n /\ n \in 1 .. n
  BY <1>1, <1>2 DEF Last
<1> HIDE DEF it, n
<1>9. \A k \in 1 .. n : \/ EndOffset(rs[k]) <= StartOffset(new)
                        \/ EndOffset(new) <= StartOffset(rs[k])
  BY <1>4 DEF ClearOf
<1>10. it <= n
  <2>1. EndOffset(new) <= StartOffset(rs[n])
    BY <1>8, <1>9
  <2>2. StartOffset(new) < StartOffset(rs[n])
    BY <1>4, <1>5, <1>8, <2>1
  <2>3. ~(n \in 1 .. it - 1)
    BY <1>7, <2>2
  <2> QED
    BY <1>1, <1>2, <1>7, <2>3
<1>11. it # 1
  <2>1. EndOffset(rs[1]) <= StartOffset(new)
    BY <1>8, <1>9
  <2>2. ~(StartOffset(new) < StartOffset(rs[1]))
    BY <1>4, <1>5, <1>8, <2>1
  <2> QED
    BY <1>7, <1>10, <2>2
<1>12. it \in 1 .. n /\ it - 1 \in 1 .. n /\ it - 2 \in Nat
  BY <1>1, <1>7, <1>10, <1>11
<1> DEFINE p == rs[it - 1]
           q == rs[it]
<1>13. p \in Region /\ q \in Region
  BY <1>4, <1>12
<1>14. EndOffset(p) <= StartOffset(new)
  <2>1. it - 1 \in 1 .. it - 1
    BY <1>12
  <2>2. ~(StartOffset(new) < StartOffset(p))
    BY <1>7, <2>1
  <2>3. \/ EndOffset(p) <= StartOffset(new)
        \/ EndOffset(new) <= StartOffset(p)
    BY <1>9, <1>12
  <2> QED
    BY <1>5, <1>13, <2>2, <2>3, RegionFacts
<1>15. EndOffset(new) <= StartOffset(q)
  <2>1. StartOffset(new) < StartOffset(q)
    BY <1>7, <1>10
  <2>2. \/ EndOffset(q) <= StartOffset(new)
        \/ EndOffset(new) <= StartOffset(q)
    BY <1>9, <1>12
  <2> QED
    BY <1>5, <1>13, <2>1, <2>2, RegionFacts
<1>16. /\ Pile(A, g) /\ ToSet(A) = { rs[i] : i \in 1 .. it - 2 }
       /\ Pile(R, g) /\ ToSet(R) = { rs[i] : i \in it + 1 .. n }
  <2>1. 1 \in Nat \ {0} /\ it - 2 <= Len(rs) /\ it + 1 \in Nat \ {0} /\ n <= Len(rs)
    BY <1>1, <1>12 DEF n
  <2>2. Pile(A, g) /\ ToSet(A) = { rs[i] : i \in 1 .. it - 2 }
    BY <1>1, <1>12, <2>1, PartOfPile
  <2>3. Pile(R, g) /\ ToSet(R) = { rs[i] : i \in it + 1 .. n }
    BY <1>1, <1>12, <2>1, PartOfPile
  <2> QED
    BY <2>2, <2>3
<1>17. \A a \in ToSet(A) : EndOffset(a) + g <= StartOffset(p)
  <2> SUFFICES ASSUME NEW i \in 1 .. it - 2
               PROVE  EndOffset(rs[i]) + g <= StartOffset(p)
    BY <1>16
  <2>1. i \in 1 .. n /\ i < it - 1
    BY <1>1, <1>12
  <2> QED
    BY <1>1, <1>12, <2>1 DEF Apart
<1>18. \A b \in ToSet(R) : EndOffset(q) + g <= StartOffset(b)
  <2> SUFFICES ASSUME NEW i \in it + 1 .. n
               PROVE  EndOffset(q) + g <= StartOffset(rs[i])
    BY <1>16
  <2>1. i \in 1 .. n /\ it < i
    BY <1>1, <1>12
  <2> QED
    BY <1>1, <1>12, <2>1 DEF Apart
<1>19. BytesIn(ToSet(rs))
         = BytesIn(ToSet(A)) \cup BytesOf(p) \cup BytesOf(q) \cup BytesIn(ToSet(R))
  <2>1. ToSet(rs) = { rs[i] : i \in 1 .. n }
    BY <1>1 DEF ToSet
  <2>2. 1 .. n = 1 .. it - 2 \cup {it - 1} \cup {it} \cup it + 1 .. n
    BY <1>1, <1>12
  <2>3. ToSet(rs) = ((ToSet(A) \cup {p}) \cup {q}) \cup ToSet(R)
    BY <1>16, <2>1, <2>2
  <2> HIDE DEF p, q, A, R
  <2>4. BytesIn(ToSet(rs)) = BytesIn((ToSet(A) \cup {p}) \cup {q}) \cup BytesIn(ToSet(R))
    BY <2>3, BytesInUnion
  <2>5. BytesIn((ToSet(A) \cup {p}) \cup {q}) = BytesIn(ToSet(A) \cup {p}) \cup BytesOf(q)
    BY BytesInUnion
  <2>6. BytesIn(ToSet(A) \cup {p}) = BytesIn(ToSet(A)) \cup BytesOf(p)
    BY BytesInUnion
  <2> QED
    BY <2>4, <2>5, <2>6
<1> HIDE DEF A, R, p, q
<1>20. CASE EndOffset(p) = StartOffset(new)
  <2>1. PICK j : IsJoin(j, p, new) /\ MergeRegions(p, new) = <<j>>
    BY <1>13, <1>14, <1>20, MergeFacts
  <2>2. /\ j \in Region /\ StartOffset(j) = StartOffset(p) /\ EndOffset(j) = EndOffset(new)
        /\ BytesOf(j) = BytesOf(p) \cup BytesOf(new)
    BY <2>1 DEF IsJoin
  <2>3. merged = <<j>>
    BY <2>1 DEF p
  <2>4. Front(merged) = <<>> /\ Last(merged) = j
    BY <2>3 DEF Front, Last
  <2>5. L = A
    <3>1. A \in Seq(Region)
      BY <1>16 DEF Pile
    <3> QED
      BY <2>4, <3>1, ConcatEmptySeq
  <2>6. M = MergeRegions(j, q)
    BY <2>4 DEF q
  <2> HIDE DEF merged, L, M
  <2>7. /\ Pile(M, g) /\ BytesIn(ToSet(M)) = BytesOf(j) \cup BytesOf(q)
        /\ \A r \in ToSet(M) : StartOffset(p) <= StartOffset(r) /\ EndOffset(r) <= EndOffset(q)
    BY <1>13, <1>15, <2>2, <2>6, MergePile
  <2>8. StartOffset(p) \in Nat /\ EndOffset(q) \in Nat /\ StartOffset(p) <= EndOffset(q)
    BY <1>5, <1>13, <1>14, <1>15, RegionFacts
  <2>10. Stack(A, M, R, StartOffset(p), EndOffset(q), g)
    BY <1>16, <1>17, <1>18, <2>7, <2>8 DEF Stack
  <2>9. /\ Pile(A \o M \o R, g)
        /\ BytesIn(ToSet(A \o M \o R))
             = BytesIn(ToSet(A)) \cup BytesIn(ToSet(M)) \cup BytesIn(ToSet(R))
    BY <1>1, <2>10, ThreePiles
  <2> QED
    BY <1>3, <1>19, <2>2, <2>5, <2>7, <2>9 DEF Grown
<1>21. CASE EndOffset(p) # StartOffset(new)
  <2>1. EndOffset(p) + g <= StartOffset(new) /\ MergeRegions(p, new) = <<p, new>>
    BY <1>13, <1>14, <1>21, MergeFacts
  <2>2. merged = <<p, new>>
    BY <2>1 DEF p
  <2>3. Front(merged) = <<p>> /\ Last(merged) = new
    BY <2>2, PairFront
  <2>4. M = MergeRegions(new, q)
    BY <2>3 DEF q
  <2>5. L = A \o <<p>>
    BY <2>3
  <2> HIDE DEF merged, L, M
  <2>6. /\ Pile(M, g) /\ BytesIn(ToSet(M)) = BytesOf(new) \cup BytesOf(q)
        /\ \A r \in ToSet(M) : StartOffset(new) <= StartOffset(r) /\ EndOffset(r) <= EndOffset(q)
    BY <1>13, <1>15, <2>4, MergePile
  <2>7. Pile(<<p>>, g) /\ ToSet(<<p>>) = {p}
    BY <1>1, <1>13, ShortLists
  <2>8. Below(ToSet(A), {p}, g)
    BY <1>17 DEF Below
  <2>9. Pile(L, g) /\ ToSet(L) = ToSet(A) \cup {p}
    <3> DEFINE P == <<p>>
    <3>1. Pile(P, g) /\ ToSet(P) = {p} /\ L = A \o P
      BY <2>5, <2>7
    <3> HIDE DEF P
    <3>2. g \in Nat /\ Pile(A, g) /\ Pile(P, g) /\ Below(ToSet(A), ToSet(P), g)
      BY <1>1, <1>16, <2>8, <3>1
    <3>3. Pile(A \o P, g) /\ ToSet(A \o P) = ToSet(A) \cup ToSet(P)
      BY <3>2, ConcatPile
    <3> QED
      BY <3>1, <3>3
  <2>10. \A a \in ToSet(L) : EndOffset(a) + g <= StartOffset(new)
    <3>1. \A a \in ToSet(A) : a \in Region
      BY <1>16, ListFacts DEF Pile
    <3>2. ASSUME NEW a \in ToSet(A)
          PROVE  EndOffset(a) + g <= StartOffset(new)
      <4>1. EndOffset(a) \in Nat /\ EndOffset(a) + g <= StartOffset(p)
        BY <1>17, <3>1, RegionFacts
      <4>2. /\ StartOffset(p) \in Nat /\ EndOffset(p) \in Nat
            /\ StartOffset(p) < EndOffset(p)
        BY <1>13, RegionFacts
      <4> QED
        BY <1>1, <1>5, <1>14, <4>1, <4>2
    <3> QED
      BY <2>1, <2>9, <3>2
  <2>11. EndOffset(q) \in Nat /\ StartOffset(new) <= EndOffset(q)
    BY <1>5, <1>13, <1>15, RegionFacts
  <2>14. Stack(L, M, R, StartOffset(new), EndOffset(q), g)
    BY <1>5, <1>16, <1>18, <2>6, <2>9, <2>10, <2>11 DEF Stack
  <2>12. /\ Pile(L \o M \o R, g)
         /\ BytesIn(ToSet(L \o M \o R))
              = BytesIn(ToSet(L)) \cup BytesIn(ToSet(M)) \cup BytesIn(ToSet(R))
    BY <1>1, <2>14, ThreePiles
  <2>13. BytesIn(ToSet(L)) = BytesIn(ToSet(A)) \cup BytesOf(p)
    BY <2>9, BytesInUnion
  <2> QED
    BY <1>3, <1>19, <2>6, <2>12, <2>13 DEF Grown
<1> QED
  BY <1>20, <1>21

-----------------------------------------------------------------------------
(***************************************************************************)
(* The operations.  A buffer keeps a gap of one byte between its regions,  *)
(* unless it may be asked to clear nothing: that splits a region in two.   *)
(***************************************************************************)
Gap == IF 0 \in Lengths THEN 0 ELSE 1

LEMMA GapFacts == Gap \in {0, 1} /\ Gap \in Nat /\ (Gap = 1 => 0 \notin Lengths)
BY DEF Gap

RegionsInv == Pile(regions, Gap) /\ step \in Nat

(* After replace: what was there and is not under the new chunk, and it.   *)
LEMMA ReplacedBytes ==
  ASSUME NEW g \in {0, 1}, Pile(regions, g), NEW offset, NEW data,
         [ offset |-> offset, data |-> data ] \in Region
  PROVE  LET new == [ offset |-> offset, data |-> data ]
         IN  /\ Pile(Replaced(offset, data), g)
             /\ Bytes(Replaced(offset, data)) = Outside(Bytes(regions), new) \cup BytesOf(new)
<1> DEFINE new == [ offset |-> offset, data |-> data ]
           rs == SliceRegions(regions, new)
           after == Replaced(offset, data)
<1>1. new \in Region /\ new \in Stretch /\ Len(new.data) > 0
  BY DEF Region, Stretch
<1>2. StartOffset(new) = offset
  BY DEF StartOffset
<1>3. after = IF rs = <<>> THEN <<new>>
              ELSE IF EndOffset(Last(rs)) <= offset
                     THEN Front(rs) \o MergeRegions(Last(rs), new)
              ELSE IF EndOffset(new) <= StartOffset(Head(rs))
                     THEN MergeRegions(new, Head(rs)) \o Tail(rs)
              ELSE Insert(rs, new)
  BY DEF Replaced
<1> HIDE DEF new
<1>4. Sliced(rs, ToSet(regions), new, g)
  BY <1>1, SliceRegionsSliced
<1>5. /\ Pile(rs, g) /\ ClearOf(ToSet(rs), new)
      /\ BytesIn(ToSet(rs)) = Outside(Bytes(regions), new)
  BY <1>4 DEF Sliced, Bytes, BytesIn
<1> HIDE DEF rs, after
<1>6. Grown(after, ToSet(rs), new, g)
  <2>1. CASE rs = <<>>
    <3>1. after = <<new>> /\ ToSet(rs) = {}
      BY <1>3, <2>1, ShortLists
    <3>2. Pile(<<new>>, g) /\ ToSet(<<new>>) = {new}
      BY <1>1, ShortLists
    <3> QED
      BY <3>1, <3>2, BytesInUnion DEF Grown
  <2>2. CASE rs # <<>> /\ EndOffset(Last(rs)) <= offset
    BY <1>1, <1>2, <1>3, <1>5, <2>2, PushBack
  <2>3. CASE /\ rs # <<>> /\ ~(EndOffset(Last(rs)) <= offset)
             /\ EndOffset(new) <= StartOffset(Head(rs))
    BY <1>1, <1>3, <1>5, <2>3, PushFront
  <2>4. CASE /\ rs # <<>> /\ ~(EndOffset(Last(rs)) <= offset)
             /\ ~(EndOffset(new) <= StartOffset(Head(rs)))
    BY <1>1, <1>2, <1>3, <1>5, <2>4, InsertBetween
  <2> QED
    BY <2>1, <2>2, <2>3, <2>4
<1>7. Pile(after, g) /\ Bytes(after) = Outside(Bytes(regions), new) \cup BytesOf(new)
  BY <1>5, <1>6, BytesInUnion DEF Grown
<1> QED
  BY <1>7 DEF new, after

(* A list without one of its regions.                                      *)
LEMMA RemovedBytes ==
  ASSUME NEW g \in Nat, NEW rs, Pile(rs, g), NEW k \in 1 .. Len(rs)
  PROVE  Pile(RemoveAt(rs, k), g) /\ Bytes(RemoveAt(rs, k)) = Outside(Bytes(rs), rs[k])
<1> DEFINE n == Len(rs)
           A == SubSeq(rs, 1, k - 1)
           R == SubSeq(rs, k + 1, n)
<1>1. rs \in Seq(Region) /\ Apart(rs, g) /\ n \in Nat /\ DOMAIN rs = 1 .. n
  BY ListFacts DEF Pile
<1>2. RemoveAt(rs, k) = A \o R
  BY DEF RemoveAt
<1>3. /\ Pile(A, g) /\ ToSet(A) = { rs[i] : i \in 1 .. k - 1 }
      /\ Pile(R, g) /\ ToSet(R) = { rs[i] : i \in k + 1 .. n }
  <2>1. k - 1 \in Nat /\ k - 1 <= Len(rs) /\ k + 1 \in Nat \ {0} /\ n <= Len(rs)
    BY <1>1
  <2> HIDE DEF n
  <2>2. Pile(A, g) /\ ToSet(A) = { rs[i] : i \in 1 .. k - 1 }
    BY <2>1, PartOfPile
  <2>3. Pile(R, g) /\ ToSet(R) = { rs[i] : i \in k + 1 .. n }
    BY <1>1, <2>1, PartOfPile
  <2> QED
    BY <2>2, <2>3
<1> HIDE DEF A, R, n
<1>4. \A i \in 1 .. n : /\ rs[i] \in Region
                        /\ StartOffset(rs[i]) \in Nat /\ EndOffset(rs[i]) \in Nat
                        /\ StartOffset(rs[i]) < EndOffset(rs[i])
  BY <1>1, ListFacts, RegionFacts DEF n
<1>5. k \in 1 .. n
  BY DEF n
<1>6. \A i \in 1 .. k - 1 : i \in 1 .. n /\ EndOffset(rs[i]) + g <= StartOffset(rs[k])
  <2>1. \A i \in 1 .. k - 1 : i \in 1 .. n /\ i < k
    BY <1>1, <1>5
  <2> QED
    BY <1>1, <1>5, <2>1 DEF Apart
<1>7. \A i \in k + 1 .. n : i \in 1 .. n /\ EndOffset(rs[k]) + g <= StartOffset(rs[i])
  <2>1. \A i \in k + 1 .. n : i \in 1 .. n /\ k < i
    BY <1>1, <1>5
  <2> QED
    BY <1>1, <1>5, <2>1 DEF Apart
<1>8. Below(ToSet(A), ToSet(R), g)
  <2> SUFFICES ASSUME NEW i \in 1 .. k - 1, NEW j \in k + 1 .. n
               PROVE  EndOffset(rs[i]) + g <= StartOffset(rs[j])
    BY <1>3 DEF Below
  <2>1. i \in 1 .. n /\ j \in 1 .. n /\ i < j
    BY <1>1, <1>5
  <2> QED
    BY <1>1, <2>1 DEF Apart
<1>9. Pile(A \o R, g) /\ ToSet(A \o R) = ToSet(A) \cup ToSet(R)
  BY <1>3, <1>8, ConcatPile
<1>10. BytesIn(ToSet(rs)) = (BytesIn(ToSet(A)) \cup BytesIn(ToSet(R))) \cup BytesOf(rs[k])
  <2>1. ToSet(rs) = { rs[i] : i \in 1 .. n }
    BY <1>1 DEF ToSet
  <2>2. 1 .. n = (1 .. k - 1 \cup k + 1 .. n) \cup {k}
    BY <1>1, <1>5
  <2>3. ToSet(rs) = (ToSet(A) \cup ToSet(R)) \cup {rs[k]}
    BY <1>3, <2>1, <2>2
  <2>4. BytesIn(ToSet(rs)) = BytesIn(ToSet(A) \cup ToSet(R)) \cup BytesOf(rs[k])
    BY <2>3, BytesInUnion
  <2> QED
    BY <2>4, BytesInUnion
<1>11. \A r \in Region : r \in ToSet(A) \cup ToSet(R) =>
         \A o \in Extent(r) : o \notin Extent(rs[k])
  <2>1. ASSUME NEW i \in 1 .. n, i \in 1 .. k - 1 \/ i \in k + 1 .. n,
               NEW o \in Extent(rs[i])
        PROVE  o \notin Extent(rs[k])
    <3>1. /\ o \in Int /\ StartOffset(rs[i]) <= o /\ o < EndOffset(rs[i])
      BY <1>4 DEF Extent
    <3>2. \/ EndOffset(rs[i]) + g <= StartOffset(rs[k])
          \/ EndOffset(rs[k]) + g <= StartOffset(rs[i])
      BY <1>6, <1>7, <2>1
    <3>3. o < StartOffset(rs[k]) \/ EndOffset(rs[k]) <= o
      BY <1>4, <1>5, <3>1, <3>2
    <3> QED
      BY <1>4, <1>5, <3>1, <3>3 DEF Extent
  <2> QED
    BY <1>3, <1>6, <1>7, <2>1
<1>12. \A x \in BytesIn(ToSet(A)) \cup BytesIn(ToSet(R)) : x[1] \notin Extent(rs[k])
  <2> SUFFICES ASSUME NEW r \in ToSet(A) \cup ToSet(R), NEW x \in BytesOf(r)
               PROVE  x[1] \notin Extent(rs[k])
    BY DEF BytesIn
  <2>1. r \in Region
    BY <1>3, ListFacts DEF Pile
  <2>2. x[1] \in Extent(r)
    BY DEF BytesOf
  <2> QED
    BY <1>11, <2>1, <2>2
<1>13. \A x \in BytesOf(rs[k]) : x[1] \in Extent(rs[k])
  BY DEF BytesOf
<1>14. Outside(BytesIn(ToSet(rs)), rs[k]) = BytesIn(ToSet(A)) \cup BytesIn(ToSet(R))
  BY <1>10, <1>12, <1>13 DEF Outside
<1>15. Bytes(RemoveAt(rs, k)) = BytesIn(ToSet(A)) \cup BytesIn(ToSet(R))
  BY <1>2, <1>9, BytesInUnion
<1>16. Bytes(rs) = BytesIn(ToSet(rs))
  BY BytesInUnion
<1> QED
  BY <1>2, <1>9, <1>14, <1>15, <1>16

(* After clear: what was there and is not in the stretch.                  *)
LEMMA ClearedBytes ==
  ASSUME NEW g \in {0, 1}, Pile(regions, g), NEW offset \in Nat, NEW length \in Nat,
         g = 1 => length > 0,
         [ offset |-> offset, data |-> Data(step, length) ] \in Stretch,
         Len(Data(step, length)) = length,
         ClearStep(offset, length)
  PROVE  /\ Pile(regions', g)
         /\ Bytes(regions') = Outside(Bytes(regions), [ offset |-> offset, data |-> Data(step, length) ])
<1> DEFINE new == [ offset |-> offset, data |-> Data(step, length) ]
           exact == { i \in 1 .. Len(regions) : /\ StartOffset(regions[i]) = offset
                                                /\ Len(regions[i].data) = length }
           k == CHOOSE i \in exact : \A j \in exact : i <= j
<1>1. new \in Stretch /\ new.offset = offset /\ Len(new.data) = length
  OBVIOUS
<1>2. regions' = IF exact # {} THEN RemoveAt(regions, k) ELSE SliceRegions(regions, new)
  BY DEF ClearStep
<1> HIDE DEF new, k
<1>3. CASE exact = {}
  <2>1. Sliced(SliceRegions(regions, new), ToSet(regions), new, g)
    BY <1>1, SliceRegionsSliced
  <2> QED
    BY <1>2, <1>3, <2>1 DEF Sliced, Bytes, new
<1>4. CASE exact # {}
  <2>1. exact \subseteq Nat
    OBVIOUS
  <2>2. k \in exact
    <3> HIDE DEF exact
    <3>1. \E i \in exact : \A j \in exact : i <= j
      BY <1>4, <2>1, LeastElement
    <3> QED
      BY <3>1 DEF k
  <2>3. k \in 1 .. Len(regions) /\ StartOffset(regions[k]) = offset
        /\ Len(regions[k].data) = length
    BY <2>2
  <2>4. /\ Pile(RemoveAt(regions, k), g)
        /\ Bytes(RemoveAt(regions, k)) = Outside(Bytes(regions), regions[k])
    BY <2>3, RemovedBytes
  <2>5. Extent(regions[k]) = Extent(new)
    BY <1>1, <2>3 DEF Extent, StartOffset, EndOffset
  <2>6. Outside(Bytes(regions), regions[k]) = Outside(Bytes(regions), new)
    BY <2>5 DEF Outside
  <2> QED
    BY <1>2, <1>4, <2>4, <2>6 DEF new
<1> QED
  BY <1>3, <1>4

(* The chunks of the operations.                                           *)
LEMMA DataFacts ==
  ASSUME NEW offset \in Offsets, NEW length \in Lengths, step \in Nat
  PROVE  /\ offset \in Nat /\ length \in Nat /\ (Gap = 1 => length > 0)
         /\ Data(step, length) \in Seq(Nat \X Nat) /\ Len(Data(step, length)) = length
         /\ [ offset |-> offset, data |-> Data(step, length) ] \in Stretch
         /\ length > 0 => [ offset |-> offset, data |-> Data(step, length) ] \in Region
<1>1. offset \in Nat /\ length \in Nat /\ (Gap = 1 => length # 0)
  BY ChunkAssumption, GapFacts
<1>2. Data(step, length) \in Seq(Nat \X Nat) /\ Len(Data(step, length)) = length
  BY <1>1 DEF Data
<1>3. [ offset |-> offset, data |-> Data(step, length) ] \in Stretch
  BY <1>1, <1>2 DEF Stretch
<1>4. length > 0 => [ offset |-> offset, data |-> Data(step, length) ] \in Region
  BY <1>1, <1>2 DEF Region
<1> QED
  BY <1>1, <1>2, <1>3, <1>4

(* Each operation does what it should to the bytes and keeps the regions   *)
(* in order.                                                               *)
LEMMA StepBytes ==
  ASSUME RegionsInv, NEW offset \in Offsets, NEW length \in Lengths
  PROVE  LET new == [ offset |-> offset, data |-> Data(step, length) ]
         IN  /\ ReplaceStep(offset, length) =>
                  /\ length > 0 /\ Pile(regions', Gap)
                  /\ Bytes(regions') = Outside(Bytes(regions), new) \cup BytesOf(new)
             /\ ClearStep(offset, length) =>
                  /\ Pile(regions', Gap)
                  /\ Bytes(regions') = Outside(Bytes(regions), new)
<1> DEFINE new == [ offset |-> offset, data |-> Data(step, length) ]
<1>1. Pile(regions, Gap) /\ step \in Nat /\ Gap \in {0, 1}
  BY GapFacts DEF RegionsInv
<1>2. ASSUME ReplaceStep(offset, length)
      PROVE  /\ length > 0 /\ Pile(regions', Gap)
             /\ Bytes(regions') = Outside(Bytes(regions), new) \cup BytesOf(new)
  <2>1. length > 0 /\ regions' = Replaced(offset, Data(step, length))
    BY <1>2 DEF ReplaceStep
  <2>2. new \in Region
    BY <1>1, <2>1, DataFacts
  <2>3. /\ Pile(Replaced(offset, Data(step, length)), Gap)
        /\ Bytes(Replaced(offset, Data(step, length)))
             = Outside(Bytes(regions), new) \cup BytesOf(new)
    BY <1>1, <2>2, ReplacedBytes
  <2> QED
    BY <2>1, <2>3
<1>3. ASSUME ClearStep(offset, length)
      PROVE  Pile(regions', Gap) /\ Bytes(regions') = Outside(Bytes(regions), new)
  <2>1. /\ offset \in Nat /\ length \in Nat /\ (Gap = 1 => length > 0)
        /\ new \in Stretch /\ Len(Data(step, length)) = length
    BY <1>1, DataFacts
  <2> QED
    BY <1>1, <1>3, <2>1, ClearedBytes
<1> QED
  BY <1>2, <1>3

LEMMA RegionsInvInit == Init => RegionsInv
BY ShortLists, GapFacts DEF Init, RegionsInv

LEMMA RegionsInvNext == RegionsInv /\ [Next]_<<regions, step>> => RegionsInv'
<1> SUFFICES ASSUME RegionsInv, [Next]_<<regions, step>>
             PROVE  RegionsInv'
  OBVIOUS
<1>1. CASE Next
  <2>1. PICK offset \in Offsets, length \in Lengths :
          ReplaceStep(offset, length) \/ ClearStep(offset, length)
    BY <1>1 DEF Next
  <2>2. Pile(regions', Gap)
    BY <2>1, StepBytes
  <2>3. step' \in Nat
    BY <1>1 DEF Next, RegionsInv
  <2> QED
    BY <2>2, <2>3 DEF RegionsInv
<1>2. CASE UNCHANGED <<regions, step>>
  BY <1>2 DEF RegionsInv
<1> QED
  BY <1>1, <1>2

(* The regions of a buffer never overlap, are in order and hold something, *)
(* with a byte between them that is in none unless nothing may be cleared. *)
THEOREM RegionsInvariant == Spec => []RegionsInv
<1>1. RegionsInv /\ [Next]_<<regions, step>> => RegionsInv'
  BY RegionsInvNext
<1> QED
  BY RegionsInvInit, <1>1, PTL DEF Spec

-----------------------------------------------------------------------------
(***************************************************************************)
(* What follows, as long as nobody clears a stretch of length 0.           *)
(***************************************************************************)

(* "The list of non-overlapping, non-connecting but continuous regions"    *)
(* (ChunkBuffer.h): between two regions there is a byte that is in none.   *)
NonConnecting ==
  \A i, j \in DOMAIN regions :
    i < j => EndOffset(regions[i]) < StartOffset(regions[j])

(* Between two regions of a buffer there is a byte that is in none: slices *)
(* leave a gap where the new region goes, and regions that touch it are    *)
(* merged with it (replace, clear).                                        *)
THEOREM NonConnectingHolds ==
  ASSUME 0 \notin Lengths
  PROVE  Spec => []NonConnecting
<1>1. RegionsInv => NonConnecting
  <2> SUFFICES ASSUME RegionsInv, NEW i \in DOMAIN regions, NEW j \in DOMAIN regions, i < j
               PROVE  EndOffset(regions[i]) < StartOffset(regions[j])
    BY DEF NonConnecting
  <2>1. regions \in Seq(Region) /\ Apart(regions, 1)
    BY DEF RegionsInv, Pile, Gap
  <2>2. regions[i] \in Region /\ regions[j] \in Region
    BY <2>1, ListFacts
  <2>3. EndOffset(regions[i]) \in Nat /\ StartOffset(regions[j]) \in Nat
    BY <2>2, RegionFacts
  <2>4. EndOffset(regions[i]) + 1 <= StartOffset(regions[j])
    BY <2>1 DEF Apart
  <2> QED
    BY <2>3, <2>4
<1> QED
  BY <1>1, RegionsInvariant, PTL

(* The offsets of the regions.                                             *)
LEMMA CoveredFacts ==
  ASSUME regions \in Seq(Region)
  PROVE  /\ \A o : o \in Covered <=> \E i \in 1 .. Len(regions) : o \in Extent(regions[i])
         /\ \A i \in 1 .. Len(regions) : \A o \in Extent(regions[i]) :
              o \in Nat /\ StartOffset(regions[i]) <= o /\ o < EndOffset(regions[i])
         /\ \A i \in 1 .. Len(regions) : \A o \in Nat :
              StartOffset(regions[i]) <= o /\ o < EndOffset(regions[i]) =>
                o \in Extent(regions[i])
<1>1. DOMAIN regions = 1 .. Len(regions)
  BY ListFacts
<1>2. \A o : o \in Covered <=> \E i \in 1 .. Len(regions) : o \in Extent(regions[i])
  BY <1>1 DEF Covered, Extent
<1>3. \A i \in 1 .. Len(regions) :
        StartOffset(regions[i]) \in Nat /\ EndOffset(regions[i]) \in Nat
  BY ListFacts, RegionFacts
<1>4. \A i \in 1 .. Len(regions) : \A o \in Extent(regions[i]) :
        o \in Nat /\ StartOffset(regions[i]) <= o /\ o < EndOffset(regions[i])
  BY <1>3 DEF Extent
<1>5. \A i \in 1 .. Len(regions) : \A o \in Nat :
        StartOffset(regions[i]) <= o /\ o < EndOffset(regions[i]) => o \in Extent(regions[i])
  BY <1>3 DEF Extent
<1> QED
  BY <1>2, <1>4, <1>5

(* ReassemblyBuffer::isComplete says that all data is present just when it *)
(* is, and the data is then that of the one region it returns.             *)
THEOREM CompleteIffCoveredHolds ==
  ASSUME 0 \notin Lengths
  PROVE  Spec => []CompleteIffCovered
<1>1. RegionsInv => CompleteIffCovered
  <2> SUFFICES ASSUME RegionsInv, NEW o \in Covered
               PROVE  IsComplete(o + 1) <=> Covered = 0 .. (o + 1) - 1
    BY DEF CompleteIffCovered
  <2> DEFINE n == Len(regions)
             e == o + 1
  <2>1. regions \in Seq(Region) /\ Apart(regions, 1) /\ n \in Nat /\ DOMAIN regions = 1 .. n
    BY ListFacts DEF RegionsInv, Pile, Gap
  <2>2. \A i \in 1 .. n : /\ regions[i] \in Region
                          /\ StartOffset(regions[i]) \in Nat /\ EndOffset(regions[i]) \in Nat
                          /\ StartOffset(regions[i]) < EndOffset(regions[i])
    BY <2>1, ListFacts, RegionFacts
  <2>3. /\ \A b : b \in Covered <=> \E i \in 1 .. n : b \in Extent(regions[i])
        /\ \A i \in 1 .. n : \A b \in Extent(regions[i]) :
             b \in Nat /\ StartOffset(regions[i]) <= b /\ b < EndOffset(regions[i])
        /\ \A i \in 1 .. n : \A b \in Nat :
             StartOffset(regions[i]) <= b /\ b < EndOffset(regions[i]) =>
               b \in Extent(regions[i])
    BY <2>1, CoveredFacts
  <2>4. o \in Nat /\ e \in Nat /\ e > 0 /\ e - 1 = o
    BY <2>3
  <2>5. \A i, j \in 1 .. n : i # j =>
          \/ EndOffset(regions[i]) < StartOffset(regions[j])
          \/ EndOffset(regions[j]) < StartOffset(regions[i])
    <3> SUFFICES ASSUME NEW i \in 1 .. n, NEW j \in 1 .. n, i # j
                 PROVE  \/ EndOffset(regions[i]) < StartOffset(regions[j])
                        \/ EndOffset(regions[j]) < StartOffset(regions[i])
      OBVIOUS
    <3>1. i < j \/ j < i
      BY <2>1
    <3>2. \/ EndOffset(regions[i]) + 1 <= StartOffset(regions[j])
          \/ EndOffset(regions[j]) + 1 <= StartOffset(regions[i])
      BY <2>1, <3>1 DEF Apart
    <3> QED
      BY <2>2, <3>2
  <2> HIDE DEF n
  <2>6. ASSUME n = 1
        PROVE  IsComplete(e) <=> Covered = 0 .. e - 1
    <3> DEFINE r == regions[1]
    <3>1. 1 \in 1 .. n /\ \A i \in 1 .. n : i = 1
      BY <2>6
    <3>2. /\ StartOffset(r) \in Nat /\ EndOffset(r) \in Nat /\ StartOffset(r) < EndOffset(r)
          /\ EndOffset(r) = StartOffset(r) + Len(r.data) /\ Len(r.data) \in Nat
      BY <2>2, <3>1, RegionFacts
    <3>3. Covered = Extent(r)
      BY <2>3, <3>1
    <3>4. IsComplete(e) <=> StartOffset(r) = 0 /\ Len(r.data) = e
      BY <2>6 DEF IsComplete, n
    <3> HIDE DEF r, e
    <3>5. ASSUME StartOffset(r) = 0, Len(r.data) = e
          PROVE  Covered = 0 .. e - 1
      BY <3>2, <3>3, <3>5 DEF Extent
    <3>6. ASSUME Covered = 0 .. e - 1
          PROVE  StartOffset(r) = 0 /\ Len(r.data) = e
      <4>1. StartOffset(r) \in Extent(r) /\ EndOffset(r) - 1 \in Extent(r)
        BY <3>2 DEF Extent
      <4>2. 0 \in Extent(r) /\ e - 1 \in Extent(r)
        BY <2>4, <3>3, <3>6
      <4>3. StartOffset(r) <= 0 /\ e - 1 <= EndOffset(r) - 1
        BY <2>4, <3>2, <4>2 DEF Extent
      <4>4. EndOffset(r) - 1 <= e - 1
        BY <3>3, <3>6, <4>1
      <4> QED
        BY <2>4, <3>2, <4>3, <4>4
    <3> QED
      BY <3>4, <3>5, <3>6
  <2>7. ASSUME n # 1
        PROVE  ~IsComplete(e) /\ Covered # 0 .. e - 1
    <3>1. ~IsComplete(e)
      BY <2>7 DEF IsComplete, n
    <3>2. SUFFICES ASSUME Covered = 0 .. e - 1
                   PROVE  FALSE
      BY <3>1
    <3> HIDE DEF e
    <3>3. PICK i \in 1 .. n : 0 \in Extent(regions[i])
      BY <2>3, <2>4, <3>2
    <3>4. StartOffset(regions[i]) = 0
      BY <2>2, <2>3, <3>3
    <3>5. PICK j \in 1 .. n : j # i
      <4>1. CASE i = 1
        BY <2>1, <2>7, <3>3, <4>1
      <4>2. CASE i # 1
        <5>1. 1 \in 1 .. n
          BY <2>1, <3>3
        <5> QED
          BY <4>2, <5>1
      <4> QED
        BY <4>1, <4>2
    <3>6. EndOffset(regions[i]) < StartOffset(regions[j])
      <4>1. ~(EndOffset(regions[j]) < StartOffset(regions[i]))
        BY <2>2, <3>4
      <4> QED
        BY <2>5, <3>5, <4>1
    <3> DEFINE b == EndOffset(regions[i])
    <3>7. b \in Nat /\ StartOffset(regions[j]) \in Covered
      <4>1. StartOffset(regions[j]) \in Extent(regions[j])
        BY <2>2, <2>3
      <4> QED
        BY <2>2, <2>3, <4>1
    <3>8. b \in Covered
      BY <2>2, <2>4, <3>2, <3>6, <3>7
    <3>9. PICK k \in 1 .. n : b \in Extent(regions[k])
      BY <2>3, <3>8
    <3>10. StartOffset(regions[k]) <= b /\ b < EndOffset(regions[k])
      BY <2>3, <3>9
    <3>11. k # i
      BY <2>2, <3>10
    <3>12. \/ b < StartOffset(regions[k])
           \/ EndOffset(regions[k]) < 0
      BY <2>5, <3>4, <3>11
    <3> QED
      BY <2>2, <3>10, <3>12
  <2> QED
    BY <2>6, <2>7
<1> QED
  BY <1>1, RegionsInvariant, PTL

-----------------------------------------------------------------------------
(***************************************************************************)
(* The byte map.                                                           *)
(***************************************************************************)
CoveredBy(rs) == UNION { Extent(rs[i]) : i \in DOMAIN rs }

ContentOf(rs) ==
  [ o \in CoveredBy(rs) |->
      LET r == CHOOSE i \in DOMAIN rs : o \in Extent(rs[i]) IN ByteAt(rs[r], o) ]

LEMMA ContentIs ==
  /\ Content = ContentOf(regions)
  /\ Content' = ContentOf(regions')
<1>1. Content = ContentOf(regions)
  BY DEF Content, ContentOf, Covered, CoveredBy, Extent, ByteAt, StartOffset, EndOffset
<1>2. Content' = ContentOf(regions')
  BY DEF Content, ContentOf, Covered, CoveredBy, Extent, ByteAt, StartOffset, EndOffset
<1> QED
  BY <1>1, <1>2

(* Regions that do not overlap give each offset one byte.                  *)
IsMapOf(f, bytes) ==
  /\ DOMAIN f = { x[1] : x \in bytes }
  /\ \A x \in bytes : f[x[1]] = x[2]

LEMMA ContentIsMap ==
  ASSUME NEW g \in Nat, NEW rs, Pile(rs, g)
  PROVE  IsMapOf(ContentOf(rs), Bytes(rs))
<1>1. /\ rs \in Seq(Region) /\ Apart(rs, g) /\ Len(rs) \in Nat /\ DOMAIN rs = 1 .. Len(rs)
  BY ListFacts DEF Pile
<1>2. \A i \in DOMAIN rs : /\ rs[i] \in Region
                           /\ StartOffset(rs[i]) \in Nat /\ EndOffset(rs[i]) \in Nat
  BY <1>1, ListFacts, RegionFacts
<1>3. ASSUME NEW i \in DOMAIN rs, NEW j \in DOMAIN rs, i < j,
             NEW o \in Extent(rs[i]), o \in Extent(rs[j])
      PROVE  FALSE
  <2>1. EndOffset(rs[i]) + g <= StartOffset(rs[j])
    BY <1>1, <1>3 DEF Apart
  <2>2. o \in Int /\ o < EndOffset(rs[i]) /\ StartOffset(rs[j]) <= o
    BY <1>2, <1>3 DEF Extent
  <2> QED
    BY <1>2, <2>1, <2>2
<1>4. \A i, j \in DOMAIN rs : \A o : o \in Extent(rs[i]) /\ o \in Extent(rs[j]) => i = j
  <2> SUFFICES ASSUME NEW i \in DOMAIN rs, NEW j \in DOMAIN rs, NEW o,
                      o \in Extent(rs[i]), o \in Extent(rs[j]), i # j
               PROVE  FALSE
    OBVIOUS
  <2>1. i < j \/ j < i
    BY <1>1
  <2> QED
    BY <1>3, <2>1
<1>5. \A x : x \in Bytes(rs) <=>
               \E i \in DOMAIN rs : \E o \in Extent(rs[i]) : x = <<o, ByteAt(rs[i], o)>>
  BY DEF Bytes, BytesOf, ToSet
<1>6. CoveredBy(rs) = { x[1] : x \in Bytes(rs) }
  <2>1. ASSUME NEW o \in CoveredBy(rs)
        PROVE  \E x \in Bytes(rs) : o = x[1]
    <3>1. PICK i \in DOMAIN rs : o \in Extent(rs[i])
      BY DEF CoveredBy
    <3>2. <<o, ByteAt(rs[i], o)>> \in Bytes(rs)
      BY <1>5, <3>1
    <3> QED
      BY <3>2
  <2>2. ASSUME NEW x \in Bytes(rs)
        PROVE  x[1] \in CoveredBy(rs)
    <3>1. PICK i \in DOMAIN rs : \E o \in Extent(rs[i]) : x = <<o, ByteAt(rs[i], o)>>
      BY <1>5
    <3> QED
      BY <3>1 DEF CoveredBy
  <2> QED
    BY <2>1, <2>2
<1>7. ASSUME NEW x \in Bytes(rs)
      PROVE  ContentOf(rs)[x[1]] = x[2]
  <2>1. PICK i \in DOMAIN rs : \E o \in Extent(rs[i]) : x = <<o, ByteAt(rs[i], o)>>
    BY <1>5
  <2> DEFINE o == x[1]
             r == CHOOSE k \in DOMAIN rs : o \in Extent(rs[k])
  <2>2. o \in Extent(rs[i]) /\ x[2] = ByteAt(rs[i], o)
    BY <2>1
  <2>3. o \in CoveredBy(rs)
    BY <1>6
  <2>4. ContentOf(rs)[o] = ByteAt(rs[r], o)
    BY <2>3 DEF ContentOf
  <2>5. r \in DOMAIN rs /\ o \in Extent(rs[r])
    BY <2>2
  <2> HIDE DEF r, o
  <2>6. r = i
    BY <1>4, <2>2, <2>5
  <2> QED
    BY <2>2, <2>4, <2>6 DEF o
<1>8. DOMAIN ContentOf(rs) = CoveredBy(rs)
  BY DEF ContentOf
<1> QED
  BY <1>6, <1>7, <1>8 DEF IsMapOf

LEMMA RefinementInit == Init => Store!Init
<1> SUFFICES ASSUME Init PROVE Store!Init
  OBVIOUS
<1>1. CoveredBy(<<>>) = {}
  BY DEF CoveredBy
<1>2. ContentOf(<<>>) = [ i \in {} |-> 0 ]
  BY <1>1 DEF ContentOf
<1> QED
  BY <1>2, ContentIs DEF Init, Store!Init

LEMMA RefinementReplace ==
  ASSUME RegionsInv, NEW offset \in Offsets, NEW length \in Lengths,
         ReplaceStep(offset, length)
  PROVE  Store!Replace(offset, Data(step, length))
<1> DEFINE data == Data(step, length)
           new == [ offset |-> offset, data |-> data ]
           B == Bytes(regions)
           C == Bytes(regions')
           f == Content
           h == Content'
           ext == offset .. offset + Len(data) - 1
           to == [ i \in DOMAIN f \cup ext |-> IF i \in ext THEN data[i - offset + 1] ELSE f[i] ]
<1>1. /\ length > 0 /\ Pile(regions', Gap) /\ C = Outside(B, new) \cup BytesOf(new)
  BY StepBytes
<1>2. /\ Pile(regions, Gap) /\ Gap \in Nat /\ step \in Nat
  BY GapFacts DEF RegionsInv
<1>3. IsMapOf(f, B) /\ IsMapOf(h, C)
  BY <1>1, <1>2, ContentIs, ContentIsMap
<1>4. new \in Region /\ offset \in Nat /\ Len(data) = length /\ length \in Nat
  BY <1>1, <1>2, DataFacts
<1>5. Extent(new) = ext
  <2>1. StartOffset(new) = offset /\ EndOffset(new) = offset + Len(data)
    BY DEF StartOffset, EndOffset
  <2>2. (offset + Len(data)) - 1 = offset + Len(data) - 1
    BY <1>4
  <2> QED
    BY <2>1, <2>2 DEF Extent
<1>6. \A o : ByteAt(new, o) = data[o - offset + 1]
  BY DEF ByteAt
<1>7. h = [ i \in DOMAIN h |-> h[i] ]
  BY ContentIs DEF ContentOf
<1> HIDE DEF f, h, B, C, data, ext
<1>8. /\ \A x \in BytesOf(new) : x[1] \in ext /\ x[2] = data[x[1] - offset + 1]
      /\ \A o \in ext : \E x \in BytesOf(new) : x[1] = o
  <2> HIDE DEF new
  <2>1. \A x \in BytesOf(new) : x[1] \in ext /\ x[2] = data[x[1] - offset + 1]
    BY <1>5, <1>6 DEF BytesOf
  <2>2. ASSUME NEW o \in ext
        PROVE  \E x \in BytesOf(new) : x[1] = o
    <3>1. <<o, ByteAt(new, o)>> \in BytesOf(new)
      BY <1>5 DEF BytesOf
    <3> QED
      BY <3>1
  <2> QED
    BY <2>1, <2>2
<1>9. \A x \in B : x[1] \notin ext => x \in C
  BY <1>1, <1>5 DEF Outside
<1>10. \A x \in C : \/ x \in B /\ x[1] \notin ext
                    \/ x \in BytesOf(new)
  BY <1>1, <1>5 DEF Outside
<1>11. BytesOf(new) \subseteq C
  BY <1>1
<1> HIDE DEF new
<1>12. DOMAIN h = DOMAIN f \cup ext
  <2>1. DOMAIN h = { x[1] : x \in C } /\ DOMAIN f = { x[1] : x \in B }
    BY <1>3 DEF IsMapOf
  <2>2. \A x \in C : x[1] \in DOMAIN f \cup ext
    BY <1>8, <1>10, <2>1
  <2>3. \A x \in B : x[1] \in ext \/ x[1] \in DOMAIN h
    BY <1>9, <2>1
  <2>4. \A o \in ext : o \in DOMAIN h
    BY <1>8, <1>11, <2>1
  <2>5. \A o \in DOMAIN f : o \in DOMAIN h
    BY <2>1, <2>3, <2>4
  <2>6. \A o \in DOMAIN h : o \in DOMAIN f \cup ext
    BY <2>1, <2>2
  <2> QED
    BY <2>4, <2>5, <2>6
<1>13. ASSUME NEW o \in DOMAIN h
       PROVE  h[o] = IF o \in ext THEN data[o - offset + 1] ELSE f[o]
  <2>1. PICK x \in C : x[1] = o
    BY <1>3 DEF IsMapOf
  <2>2. h[o] = x[2]
    BY <1>3, <2>1 DEF IsMapOf
  <2>3. CASE x \in B /\ x[1] \notin ext
    <3>1. f[o] = x[2]
      BY <1>3, <2>1, <2>3 DEF IsMapOf
    <3> QED
      BY <2>1, <2>2, <2>3, <3>1
  <2>4. CASE x \in BytesOf(new)
    BY <1>8, <2>1, <2>2, <2>4
  <2> QED
    BY <1>10, <2>3, <2>4
<1>14. h = to
  <2> DEFINE e(i) == IF i \in ext THEN data[i - offset + 1] ELSE f[i]
  <2>1. [ i \in DOMAIN h |-> h[i] ] = [ i \in DOMAIN f \cup ext |-> e(i) ]
    BY <1>12, <1>13
  <2> QED
    BY <1>7, <2>1
<1> QED
  BY <1>14 DEF Store!Replace, f, h, data, ext

LEMMA RefinementClear ==
  ASSUME RegionsInv, NEW offset \in Offsets, NEW length \in Lengths,
         ClearStep(offset, length)
  PROVE  Store!Clear(offset, length)
<1> DEFINE new == [ offset |-> offset, data |-> Data(step, length) ]
           B == Bytes(regions)
           C == Bytes(regions')
           f == Content
           h == Content'
           ext == offset .. offset + length - 1
<1>1. Pile(regions', Gap) /\ C = Outside(B, new)
  BY StepBytes
<1>2. Pile(regions, Gap) /\ Gap \in Nat /\ step \in Nat
  BY GapFacts DEF RegionsInv
<1>3. IsMapOf(f, B) /\ IsMapOf(h, C)
  BY <1>1, <1>2, ContentIs, ContentIsMap
<1>4. offset \in Nat /\ Len(Data(step, length)) = length /\ length \in Nat
  BY <1>2, DataFacts
<1>5. Extent(new) = ext
  <2>1. StartOffset(new) = offset /\ EndOffset(new) = offset + length
    BY <1>4 DEF StartOffset, EndOffset
  <2>2. (offset + length) - 1 = offset + length - 1
    BY <1>4
  <2> QED
    BY <2>1, <2>2 DEF Extent
<1>6. h = [ i \in DOMAIN h |-> h[i] ]
  BY ContentIs DEF ContentOf
<1> HIDE DEF f, h, B, C, ext, new
<1>7. C = { x \in B : x[1] \notin ext }
  BY <1>1, <1>5 DEF Outside
<1>8. DOMAIN h = DOMAIN f \ ext
  <2>1. DOMAIN h = { x[1] : x \in C } /\ DOMAIN f = { x[1] : x \in B }
    BY <1>3 DEF IsMapOf
  <2> QED
    BY <1>7, <2>1
<1>9. ASSUME NEW o \in DOMAIN h
      PROVE  h[o] = f[o]
  <2>1. PICK x \in C : x[1] = o
    BY <1>3 DEF IsMapOf
  <2>2. h[o] = x[2] /\ f[o] = x[2]
    BY <1>3, <1>7, <2>1 DEF IsMapOf
  <2> QED
    BY <2>2
<1>10. h = [ i \in DOMAIN f \ ext |-> f[i] ]
  BY <1>6, <1>8, <1>9
<1> QED
  BY <1>10 DEF Store!Clear, f, h, ext

(* replace and clear do to the region list what they do to a byte map, for *)
(* any offsets and lengths, length 0 included: nothing is lost, shifted or *)
(* left over when regions are cut, split and joined.                       *)
THEOREM ImplementsByteStoreHolds == Spec => ImplementsByteStore
<1>1. RegionsInv /\ [Next]_<<regions, step>> => [Store!Next]_<<Content, step>>
  <2> SUFFICES ASSUME RegionsInv, [Next]_<<regions, step>>
               PROVE  [Store!Next]_<<Content, step>>
    OBVIOUS
  <2>1. CASE Next
    <3>1. PICK offset \in Offsets, length \in Lengths :
            ReplaceStep(offset, length) \/ ClearStep(offset, length)
      BY <2>1 DEF Next
    <3>2. \/ Store!Replace(offset, Data(step, length))
          \/ Store!Clear(offset, length)
      BY <3>1, RefinementReplace, RefinementClear
    <3>3. step' = step + 1
      BY <2>1 DEF Next
    <3> QED
      BY <3>2, <3>3 DEF Store!Next
  <2>2. CASE UNCHANGED <<regions, step>>
    BY <2>2, ContentIs
  <2> QED
    BY <2>1, <2>2
<1> QED
  BY RefinementInit, <1>1, RegionsInvariant, PTL DEF Spec, ImplementsByteStore, Store!Spec

=============================================================================
