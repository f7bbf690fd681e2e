------------------------- MODULE UdpReceptionProofs -------------------------
(***************************************************************************)
(* What a host running MyUdpBasicApp receives: each message in full, none  *)
(* twice, and none that has arrived is missing, for any lengths, hosts,    *)
(* losses and lifecycle operations, and for ids that wrap.                 *)
(***************************************************************************)
EXTENDS MyUdpBasicAppProofs, FiniteSetTheorems, WellFoundedInduction

-----------------------------------------------------------------------------
(***************************************************************************)
(* The order on the path between two hosts.                                *)
(***************************************************************************)
(* The queue q of packets under way from a host that has sent s to h: they *)
(* were sent by it and are in its order; what it has sent to h and is no   *)
(* more under way came before all of it.                                   *)
PathOK(q, s, h) ==
  /\ \A i \in DOMAIN q : q[i] \in ToSet(s)
  /\ \A i, j \in DOMAIN q : i < j => Earlier(q[i], q[j])
  /\ \A x \in ToSet(s) : x.dst = h =>
       \/ \E i \in DOMAIN q : q[i] = x
       \/ \A i \in DOMAIN q : Earlier(x, q[i])

PathInv == \A g, h \in Hosts : PathOK(network[<<g, h>>], sentTo[g], h)

GoneInv == gone \cup swallowed \subseteq AllSent \ InFlight

(* The packets h has looked at.                                            *)
Landed(h) == { p \in AllSent \ (InFlight \cup gone \cup swallowed) : p.dst = h }

-----------------------------------------------------------------------------
(***************************************************************************)
(* What a host holds when the packets of L have landed there.              *)
(***************************************************************************)
(* The byte b at the place i comes from a fragment with this key.          *)
From(b, i, key, L) ==
  \E q \in L : /\ ~IsWhole(q) /\ Key(q) = key /\ i \in q.offset .. End(q) - 1
               /\ b = PacketByte(q, i - q.offset)

BufferOK(buf, key, L) ==
  /\ \A i \in DOMAIN buf.bytes : From(buf.bytes[i], i, key, L)
  /\ \/ buf.expectedLength = -1
     \/ \E q \in L : /\ ~IsWhole(q) /\ ~q.more /\ Key(q) = key
                     /\ buf.expectedLength = End(q)
                     /\ q.offset .. End(q) - 1 \subseteq DOMAIN buf.bytes

BuffersOK(bufs, L) ==
  \A key \in DOMAIN bufs : BufferOK(bufs[key], key, L) /\ ~IsComplete(bufs[key])

(* No buffer holds the byte b any more.                                    *)
Spent(b, bufs) ==
  \A key \in DOMAIN bufs : \A i \in DOMAIN bufs[key].bytes : bufs[key].bytes[i] # b

WholeOf(d, q) ==
  IsWhole(q) /\ d = Datagram([ i \in 0 .. q.len - 1 |-> PacketByte(q, i) ], q.len)

(* A datagram put together from fragments that have landed.  Its length is *)
(* that of its message, if it has one, and the fragment that completed it  *)
(* is in no buffer.                                                        *)
EndsAs(d, m, L) == \E q \in L : /\ ~q.more /\ q.src = m.src /\ q.seq = m.seq
                                /\ d.len = End(q)

CompletedBy(d, q, bufs) ==
  /\ ~IsWhole(q) /\ q.offset \in DOMAIN d.bytes /\ d.bytes[q.offset] = PacketByte(q, 0)
  /\ Spent(PacketByte(q, 0), bufs)

Assembled(d, bufs, L) ==
  /\ d.len \in Nat /\ d.len > FragmentSize /\ DOMAIN d.bytes = 0 .. d.len - 1
  /\ \E key : \A i \in DOMAIN d.bytes : From(d.bytes[i], i, key, L)
  /\ \A m : OwnersOf(d) = {m} => EndsAs(d, m, L)
  /\ \E q \in L : CompletedBy(d, q, bufs)

DeliveredOK(D, bufs, L) ==
  \A d \in D : (\E q \in L : WholeOf(d, q)) \/ Assembled(d, bufs, L)

(* A message received, and a fragment that waits for the others.           *)
MessageOf(q) == [ src |-> q.src, seq |-> q.seq ]

Has(D, q) == \E d \in D : OwnersOf(d) = {MessageOf(q)}

Waits(q, bufs) ==
  /\ Key(q) \in DOMAIN bufs /\ q.offset .. End(q) - 1 \subseteq DOMAIN bufs[Key(q)].bytes
  /\ ~q.more => bufs[Key(q)].expectedLength = End(q)

(* No other message of A goes into the buffer of q.                        *)
OwnKey(q, A) ==
  \A x \in A : Key(x) = Key(q) /\ x.dst = q.dst => x.src = q.src /\ x.seq = q.seq

HeardOK(D, bufs, L, A) ==
  \A q \in L : /\ IsWhole(q) => Has(D, q)
               /\ ~IsWhole(q) /\ OwnKey(q, A) => Has(D, q) \/ Waits(q, bufs)

SwallowedAt(h) == { p \in swallowed : p.dst = h }

(* At a host: its buffers and its count, the datagrams D, the packets L    *)
(* that have landed there and S that it has only counted.                  *)
Heard(bufs, numReceived, D, L, A, S) ==
  /\ BuffersOK(bufs, L) /\ DeliveredOK(D, bufs, L) /\ HeardOK(D, bufs, L, A)
  /\ IsFiniteSet(D) /\ IsFiniteSet(S) /\ numReceived = Cardinality(D) + Cardinality(S)

HeardInv ==
  /\ DOMAIN delivered = Hosts
  /\ \A h \in Hosts : Heard(app[h].bufs, app[h].numReceived, delivered[h], Landed(h),
                            AllSent, SwallowedAt(h))

-----------------------------------------------------------------------------
(***************************************************************************)
(* Two packets of a host.                                                  *)
(***************************************************************************)
(* The packet p lands after those of L: of the same sender they are the    *)
(* earlier ones.                                                           *)
Lands(p, L) ==
  /\ p \in Packet /\ CutOK(p) /\ L \subseteq Packet /\ \A x \in L : CutOK(x)
  /\ \A x \in L : x.src = p.src => Earlier(x, p)

(* The order is strict, and fragments of one message do not overlap.       *)
LEMMA EarlierFacts ==
  ASSUME NEW p \in Packet, NEW q \in Packet
  PROVE  /\ ~Earlier(p, p)
         /\ Earlier(p, q) /\ p.seq = q.seq => p.more
         /\ Earlier(p, q) /\ p.seq = q.seq /\ ~IsWhole(q) => End(p) <= q.offset
BY DEF Earlier, End, IsWhole, Packet

(* The last fragment of a message ends beyond the first one.               *)
LEMMA FragmentedIsLong ==
  ASSUME NEW q \in Packet, CutOK(q), ~IsWhole(q), ~q.more
  PROVE  End(q) \in Nat /\ End(q) > FragmentSize
<1>1. q.offset \in Nat /\ q.len \in Nat \ {0} /\ q.offset # 0 /\ Aligned(q.offset)
  BY DEF CutOK, IsWhole, Packet
<1>2. FragmentSize \in Nat /\ q.offset >= FragmentSize
  BY <1>1, AlignedFacts, UdpAppAssumption
<1> QED
  BY <1>1, <1>2 DEF End

(* A fragment that lands has no byte of those that have landed.            *)
LEMMA OtherBytes ==
  ASSUME NEW L, NEW p, Lands(p, L), ~IsWhole(p), NEW q \in L,
         NEW i \in 0 .. q.len - 1, NEW j \in 0 .. p.len - 1
  PROVE  PacketByte(q, i) # PacketByte(p, j)
<1> SUFFICES ASSUME PacketByte(q, i) = PacketByte(p, j) PROVE FALSE
  OBVIOUS
<1>1. /\ q \in Packet /\ p \in Packet /\ q.offset \in Nat /\ q.len \in Nat
      /\ p.offset \in Nat /\ p.len \in Nat
  BY DEF Lands, Packet
<1>2. q.src = p.src /\ q.seq = p.seq /\ q.offset + i = p.offset + j
  <2>1. PacketByte(q, i).src = PacketByte(p, j).src /\ PacketByte(q, i).seq = PacketByte(p, j).seq
        /\ PacketByte(q, i).at = PacketByte(p, j).at
    OBVIOUS
  <2> QED
    BY <2>1 DEF PacketByte
<1>3. Earlier(q, p)
  BY <1>2 DEF Lands
<1>4. q.offset + q.len <= p.offset
  BY <1>1, <1>2, <1>3, EarlierFacts DEF End
<1> QED
  BY <1>1, <1>2, <1>4

(* A byte in its buffer, and what it says of its fragment.                 *)
LEMMA FromFacts ==
  ASSUME NEW L, L \subseteq Packet, NEW b, NEW i, NEW key, From(b, i, key, L)
  PROVE  /\ i \in Nat /\ b.at = i
         /\ \E q \in L : /\ ~IsWhole(q) /\ Key(q) = key /\ b.src = q.src /\ b.seq = q.seq
                         /\ q.offset <= i /\ i < End(q)
                         /\ i - q.offset \in 0 .. q.len - 1 /\ b = PacketByte(q, i - q.offset)
<1>1. PICK q \in L : /\ ~IsWhole(q) /\ Key(q) = key /\ i \in q.offset .. End(q) - 1
                     /\ b = PacketByte(q, i - q.offset)
  BY DEF From
<1>2. q.offset \in Nat /\ q.len \in Nat
  BY DEF Packet
<1>3. i \in Nat /\ q.offset <= i /\ i < End(q) /\ i - q.offset \in 0 .. q.len - 1
      /\ q.offset + (i - q.offset) = i
  BY <1>1, <1>2 DEF End
<1>4. b.src = q.src /\ b.seq = q.seq /\ b.at = i
  BY <1>1, <1>3 DEF PacketByte
<1> QED
  BY <1>1, <1>3, <1>4

(* More packets have landed.                                               *)
LEMMA FromMore ==
  ASSUME NEW b, NEW i, NEW key, NEW L, NEW M, L \subseteq M, From(b, i, key, L)
  PROVE  From(b, i, key, M)
BY DEF From

-----------------------------------------------------------------------------
(***************************************************************************)
(* A fragment is put into its buffer.                                      *)
(***************************************************************************)
(* The buffer c of p, and what it becomes.                                 *)
Joined(p, c, r, L) ==
  /\ DOMAIN r.bytes = DOMAIN c.bytes \cup (p.offset .. End(p) - 1)
  /\ \A i \in p.offset .. End(p) - 1 : r.bytes[i] = PacketByte(p, i - p.offset)
  /\ \A i \in DOMAIN c.bytes : i \notin p.offset .. End(p) - 1 => r.bytes[i] = c.bytes[i]
  /\ r.expectedLength = IF p.more THEN c.expectedLength ELSE End(p)
  /\ BufferOK(c, Key(p), L) /\ ~IsComplete(c)
  /\ BufferOK(r, Key(p), L \cup {p})

(* It comes from fragments that have landed, as before.                    *)
LEMMA FragmentJoins ==
  ASSUME NEW L, NEW p, Lands(p, L), ~IsWhole(p), NEW bufs, BuffersOK(bufs, L)
  PROVE  Joined(p, CurBuf(bufs, p), Reassembly(bufs, p), L)
<1> DEFINE c == CurBuf(bufs, p)
           r == Reassembly(bufs, p)
           held == p.offset .. End(p) - 1
           M == L \cup {p}
<1>1. p.offset \in Nat /\ p.len \in Nat \ {0} /\ p.more \in BOOLEAN
  BY DEF Lands, Packet
<1>2. BufferOK(c, Key(p), L) /\ ~IsComplete(c)
  <2>1. CASE Key(p) \in DOMAIN bufs
    BY <2>1 DEF BuffersOK, CurBuf
  <2>2. CASE Key(p) \notin DOMAIN bufs
    <3>1. c = NewDatagramBuffer
      BY <2>2 DEF CurBuf
    <3>2. c.expectedLength = -1 /\ DOMAIN c.bytes = {}
      BY <3>1 DEF NewDatagramBuffer
    <3> HIDE DEF c
    <3> QED
      BY <3>2 DEF BufferOK, IsComplete
  <2> QED
    BY <2>1, <2>2
<1>3. /\ r.bytes = [ i \in DOMAIN c.bytes \cup held |->
                       IF i \in held THEN PacketByte(p, i - p.offset) ELSE c.bytes[i] ]
      /\ r.expectedLength = IF p.more THEN c.expectedLength ELSE End(p)
  <2>1. r = [ bytes |-> [ i \in DOMAIN c.bytes \cup held |->
                            IF i \in held THEN PacketByte(p, i - p.offset) ELSE c.bytes[i] ],
              expectedLength |-> IF p.more THEN c.expectedLength ELSE End(p) ]
    <3>1. r = WithFragment(c, p)
      BY DEF Reassembly
    <3> HIDE DEF c, r
    <3>2. p.offset .. p.offset + p.len - 1 = held
      BY <1>1 DEF End
    <3> HIDE DEF held
    <3> QED
      BY <3>1, <3>2 DEF WithFragment, End
  <2> HIDE DEF c, r, held
  <2> QED
    BY <2>1
<1> HIDE DEF c, r
<1>4. /\ DOMAIN r.bytes = DOMAIN c.bytes \cup held
      /\ \A i \in held : r.bytes[i] = PacketByte(p, i - p.offset)
      /\ \A i \in DOMAIN c.bytes : i \notin held => r.bytes[i] = c.bytes[i]
  BY <1>3
<1>5. ASSUME NEW i \in DOMAIN r.bytes PROVE From(r.bytes[i], i, Key(p), M)
  <2>1. CASE i \in held
    BY <2>1, <1>4 DEF From
  <2>2. CASE i \notin held
    <3>1. From(r.bytes[i], i, Key(p), L)
      BY <2>2, <1>2, <1>4 DEF BufferOK
    <3> QED
      BY <3>1, FromMore
  <2> QED
    BY <2>1, <2>2
<1>6. \/ r.expectedLength = -1
      \/ \E q \in M : /\ ~IsWhole(q) /\ ~q.more /\ Key(q) = Key(p) /\ r.expectedLength = End(q)
                      /\ q.offset .. End(q) - 1 \subseteq DOMAIN r.bytes
  <2>1. CASE p.more
    BY <2>1, <1>2, <1>3, <1>4 DEF BufferOK
  <2>2. CASE ~p.more
    BY <2>2, <1>3, <1>4
  <2> QED
    BY <2>1, <2>2
<1>7. BufferOK(r, Key(p), M)
  BY <1>5, <1>6 DEF BufferOK
<1> QED
  BY <1>2, <1>3, <1>4, <1>7 DEF Joined, c, r

(* What is left in the buffers of a host.                                  *)
LEMMA AddedFacts ==
  ASSUME NEW bufs, NEW p
  PROVE  LET r == Reassembly(bufs, p)
             new == AddFragment(bufs, p)
         IN  /\ IsComplete(r) => /\ DOMAIN new = DOMAIN bufs \ {Key(p)}
                                 /\ \A key \in DOMAIN new : new[key] = bufs[key]
             /\ ~IsComplete(r) => /\ DOMAIN new = DOMAIN bufs \cup {Key(p)} /\ new[Key(p)] = r
                                  /\ \A key \in DOMAIN bufs \ {Key(p)} : new[key] = bufs[key]
<1> DEFINE r == Reassembly(bufs, p)
           new == AddFragment(bufs, p)
<1>1. new = IF IsComplete(r) THEN [ key \in DOMAIN bufs \ {Key(p)} |-> bufs[key] ]
              ELSE [ key \in DOMAIN bufs \cup {Key(p)} |->
                       IF key = Key(p) THEN r ELSE bufs[key] ]
  BY DEF AddFragment
<1> HIDE DEF r, new
<1>2. CASE IsComplete(r)
  BY <1>1, <1>2 DEF r, new
<1>3. CASE ~IsComplete(r)
  <2>1. DOMAIN new = DOMAIN bufs \cup {Key(p)} /\ new[Key(p)] = r
        /\ \A key \in DOMAIN bufs \ {Key(p)} : new[key] = bufs[key]
    BY <1>1, <1>3
  <2> QED
    BY <1>3, <2>1 DEF r, new
<1> QED
  BY <1>2, <1>3

LEMMA BuffersNext ==
  ASSUME NEW L, NEW p, Lands(p, L), ~IsWhole(p), NEW bufs, BuffersOK(bufs, L)
  PROVE  BuffersOK(AddFragment(bufs, p), L \cup {p})
<1> DEFINE r == Reassembly(bufs, p)
           new == AddFragment(bufs, p)
           M == L \cup {p}
<1>1. BufferOK(r, Key(p), M)
  BY FragmentJoins DEF Joined
<1>2. \A key \in DOMAIN bufs : BufferOK(bufs[key], key, M) /\ ~IsComplete(bufs[key])
  BY FromMore DEF BuffersOK, BufferOK
<1>3. /\ IsComplete(r) => /\ DOMAIN new = DOMAIN bufs \ {Key(p)}
                          /\ \A key \in DOMAIN new : new[key] = bufs[key]
      /\ ~IsComplete(r) => /\ DOMAIN new = DOMAIN bufs \cup {Key(p)} /\ new[Key(p)] = r
                           /\ \A key \in DOMAIN bufs \ {Key(p)} : new[key] = bufs[key]
  BY AddedFacts
<1> HIDE DEF r, new, M
<1>4. ASSUME NEW key \in DOMAIN new PROVE BufferOK(new[key], key, M) /\ ~IsComplete(new[key])
  <2>1. CASE IsComplete(r)
    BY <2>1, <1>2, <1>3
  <2>2. CASE ~IsComplete(r)
    <3>1. CASE key = Key(p)
      BY <3>1, <2>2, <1>1, <1>3
    <3>2. CASE key # Key(p)
      BY <3>2, <2>2, <1>2, <1>3
    <3> QED
      BY <3>1, <3>2
  <2> QED
    BY <2>1, <2>2
<1> QED
  BY <1>4 DEF BuffersOK, new, M

(* A byte that no buffer holds does not come back.                         *)
LEMMA StaysSpent ==
  ASSUME NEW L, NEW p, Lands(p, L), ~IsWhole(p), NEW bufs, BuffersOK(bufs, L),
         NEW q \in L, Spent(PacketByte(q, 0), bufs)
  PROVE  Spent(PacketByte(q, 0), AddFragment(bufs, p))
<1> DEFINE r == Reassembly(bufs, p)
           c == CurBuf(bufs, p)
           new == AddFragment(bufs, p)
           b == PacketByte(q, 0)
<1>1. ASSUME NEW j \in 0 .. p.len - 1 PROVE PacketByte(p, j) # b
  <2>1. 0 \in 0 .. q.len - 1
    BY DEF Lands, Packet
  <2> QED
    BY <2>1, OtherBytes
<1>2. Joined(p, c, r, L)
  BY FragmentJoins
<1>3. \A i \in DOMAIN c.bytes : c.bytes[i] # b
  <2>1. CASE Key(p) \in DOMAIN bufs
    BY <2>1 DEF CurBuf, Spent
  <2>2. CASE Key(p) \notin DOMAIN bufs
    BY <2>2 DEF CurBuf, NewDatagramBuffer
  <2> QED
    BY <2>1, <2>2
<1>4. /\ IsComplete(r) => /\ DOMAIN new = DOMAIN bufs \ {Key(p)}
                          /\ \A key \in DOMAIN new : new[key] = bufs[key]
      /\ ~IsComplete(r) => /\ DOMAIN new = DOMAIN bufs \cup {Key(p)} /\ new[Key(p)] = r
                           /\ \A key \in DOMAIN bufs \ {Key(p)} : new[key] = bufs[key]
  BY AddedFacts
<1>5. \A key \in DOMAIN bufs : \A i \in DOMAIN bufs[key].bytes : bufs[key].bytes[i] # b
  BY DEF Spent
<1> HIDE DEF r, c, new, b
<1>6. ASSUME NEW i \in DOMAIN r.bytes PROVE r.bytes[i] # b
  <2>1. CASE i \in p.offset .. End(p) - 1
    <3>1. i - p.offset \in 0 .. p.len - 1
      BY <2>1 DEF End, Lands, Packet
    <3> QED
      BY <3>1, <2>1, <1>1, <1>2 DEF Joined
  <2>2. CASE i \notin p.offset .. End(p) - 1
    BY <2>2, <1>2, <1>3 DEF Joined
  <2> QED
    BY <2>1, <2>2
<1>7. ASSUME NEW key \in DOMAIN new, NEW i \in DOMAIN new[key].bytes PROVE new[key].bytes[i] # b
  <2>1. CASE IsComplete(r)
    BY <2>1, <1>4, <1>5
  <2>2. CASE ~IsComplete(r)
    <3>1. CASE key = Key(p)
      BY <3>1, <2>2, <1>4, <1>6
    <3>2. CASE key # Key(p)
      BY <3>2, <2>2, <1>4, <1>5
    <3> QED
      BY <3>1, <3>2
  <2> QED
    BY <2>1, <2>2
<1> QED
  BY <1>7 DEF Spent, new, b

(* The fragment that completes a buffer leaves with it.                    *)
LEMMA LastIsSpent ==
  ASSUME NEW L, NEW p, Lands(p, L), ~IsWhole(p), NEW bufs, BuffersOK(bufs, L),
         IsComplete(Reassembly(bufs, p))
  PROVE  Spent(PacketByte(p, 0), AddFragment(bufs, p))
<1> DEFINE new == AddFragment(bufs, p)
<1>1. \A key \in DOMAIN new : key \in DOMAIN bufs /\ new[key] = bufs[key]
  BY AddedFacts
<1> HIDE DEF new
<1>2. L \subseteq Packet /\ 0 \in 0 .. p.len - 1
  BY DEF Lands, Packet
<1>3. ASSUME NEW key \in DOMAIN new, NEW i \in DOMAIN new[key].bytes
      PROVE  new[key].bytes[i] # PacketByte(p, 0)
  <2>1. From(new[key].bytes[i], i, key, L)
    BY <1>1 DEF BuffersOK, BufferOK
  <2>2. PICK q \in L : /\ i - q.offset \in 0 .. q.len - 1
                       /\ new[key].bytes[i] = PacketByte(q, i - q.offset)
    BY <1>2, <2>1, FromFacts
  <2> QED
    BY <1>2, <2>2, OtherBytes
<1> QED
  BY <1>3 DEF Spent, new

-----------------------------------------------------------------------------
(***************************************************************************)
(* A datagram is complete.                                                 *)
(***************************************************************************)
(* What a complete buffer r is, when p was put into the buffer c.          *)
Completed(p, c, r, L) ==
  /\ Joined(p, c, r, L) /\ r.expectedLength \in Nat /\ r.expectedLength > FragmentSize
  /\ DOMAIN r.bytes = 0 .. r.expectedLength - 1
  /\ p.more => r.expectedLength = c.expectedLength
  /\ ~p.more => r.expectedLength = End(p)

LEMMA CompletedFacts ==
  ASSUME NEW L, NEW p, Lands(p, L), ~IsWhole(p), NEW bufs, BuffersOK(bufs, L),
         IsComplete(Reassembly(bufs, p))
  PROVE  Completed(p, CurBuf(bufs, p), Reassembly(bufs, p), L)
<1> DEFINE r == Reassembly(bufs, p)
           c == CurBuf(bufs, p)
<1>1. Joined(p, c, r, L) /\ IsComplete(r)
  BY FragmentJoins
<1> HIDE DEF r, c
<1>2. r.expectedLength > 0 /\ DOMAIN r.bytes = 0 .. r.expectedLength - 1
  BY <1>1 DEF IsComplete
<1>3. \/ r.expectedLength = -1
      \/ \E q \in L \cup {p} : ~IsWhole(q) /\ ~q.more /\ r.expectedLength = End(q)
  BY <1>1 DEF Joined, BufferOK
<1>4. \A q \in L \cup {p} : q \in Packet /\ CutOK(q)
  BY DEF Lands
<1>5. r.expectedLength # -1
  BY <1>2
<1>6. r.expectedLength \in Nat /\ r.expectedLength > FragmentSize
  BY <1>3, <1>4, <1>5, FragmentedIsLong
<1> QED
  BY <1>1, <1>2, <1>6 DEF Completed, Joined, r, c

(* A datagram with bytes of one message only ends where the message does:  *)
(* if the last fragment of another message had set the length, the buffer  *)
(* would have been complete before p landed.                               *)
LEMMA EndsWithItsMessage ==
  ASSUME NEW L, NEW p, Lands(p, L), ~IsWhole(p), NEW c, NEW r, Completed(p, c, r, L),
         NEW m, OwnersOf(Datagram(r.bytes, r.expectedLength)) = {m}
  PROVE  EndsAs(Datagram(r.bytes, r.expectedLength), m, L \cup {p})
<1> DEFINE d == Datagram(r.bytes, r.expectedLength)
           e == r.expectedLength
           held == p.offset .. End(p) - 1
           M == L \cup {p}
<1>1. d.bytes = r.bytes /\ d.len = e
  BY DEF Datagram
<1>2. /\ DOMAIN r.bytes = DOMAIN c.bytes \cup held
      /\ \A i \in held : r.bytes[i] = PacketByte(p, i - p.offset)
      /\ BufferOK(c, Key(p), L) /\ ~IsComplete(c) /\ BufferOK(r, Key(p), M)
      /\ e \in Nat /\ e > FragmentSize /\ DOMAIN r.bytes = 0 .. e - 1
      /\ p.more => e = c.expectedLength
      /\ ~p.more => e = End(p)
  BY DEF Completed, Joined
<1>3. ASSUME NEW i \in DOMAIN r.bytes
      PROVE  r.bytes[i].src = m.src /\ r.bytes[i].seq = m.seq
  <2>1. [ src |-> d.bytes[i].src, seq |-> d.bytes[i].seq ] \in OwnersOf(d)
    BY <1>1, <1>3 DEF OwnersOf
  <2>2. m = [ src |-> d.bytes[i].src, seq |-> d.bytes[i].seq ]
    BY <2>1
  <2> QED
    BY <2>2, <1>1
<1> HIDE DEF d, e
<1>4. p \in Packet /\ CutOK(p) /\ M \subseteq Packet
      /\ p.offset \in Nat /\ p.len \in Nat \ {0} /\ FragmentSize \in Nat \ {0}
  BY UdpAppAssumption DEF Lands, Packet
<1>5. p.src = m.src /\ p.seq = m.seq
  <2>1. p.offset \in held
    BY <1>4 DEF End
  <2>2. r.bytes[p.offset].src = p.src /\ r.bytes[p.offset].seq = p.seq
    <3>1. r.bytes[p.offset] = PacketByte(p, p.offset - p.offset)
      BY <2>1, <1>2
    <3> QED
      BY <3>1 DEF PacketByte
  <2>3. p.offset \in DOMAIN r.bytes
    BY <2>1, <1>2
  <2> QED
    BY <2>2, <2>3, <1>3
<1>6. CASE ~p.more
  <2>1. p \in M /\ d.len = End(p)
    BY <1>1, <1>2, <1>6
  <2> QED
    BY <2>1, <1>5, <1>6 DEF EndsAs, d
<1>7. CASE p.more
  <2>1. PICK q \in L : /\ ~IsWhole(q) /\ ~q.more /\ Key(q) = Key(p) /\ e = End(q)
                       /\ q.offset .. End(q) - 1 \subseteq DOMAIN c.bytes
    <3>1. c.expectedLength # -1
      BY <1>2, <1>7
    <3> QED
      BY <3>1, <1>2, <1>7 DEF BufferOK
  <2>2. q \in Packet /\ CutOK(q) /\ q.offset \in Nat /\ q.len \in Nat \ {0}
    BY DEF Lands, Packet
  <2>3. p.len = FragmentSize /\ q.len <= FragmentSize /\ Aligned(p.offset) /\ Aligned(q.offset)
    BY <1>4, <1>7, <2>2 DEF CutOK
  <2>4. PICK x \in M : /\ ~IsWhole(x) /\ r.bytes[e - 1].src = x.src /\ r.bytes[e - 1].seq = x.seq
                       /\ e - 1 < End(x)
    <3>1. e - 1 \in DOMAIN r.bytes
      BY <1>2, <1>4
    <3>2. From(r.bytes[e - 1], e - 1, Key(p), M)
      BY <3>1, <1>2 DEF BufferOK
    <3> QED
      BY <3>2, <1>4, FromFacts
  <2>5. x.src = p.src /\ x.seq = p.seq
    BY <2>4, <1>2, <1>3, <1>4, <1>5
  <2>6. End(p) <= e
    <3>1. End(p) - 1 \in held
      BY <1>4 DEF End
    <3>2. End(p) - 1 \in 0 .. e - 1
      BY <3>1, <1>2
    <3> QED
      BY <3>2, <1>2, <1>4 DEF End
  <2>7. x = p
    <3> SUFFICES ASSUME x # p PROVE FALSE
      OBVIOUS
    <3>1. x \in L /\ x \in Packet /\ Earlier(x, p)
      BY <2>5 DEF Lands
    <3>2. End(x) <= p.offset /\ x.offset \in Nat /\ x.len \in Nat
      BY <3>1, <2>5, <1>4, EarlierFacts DEF Packet
    <3> QED
      BY <3>2, <2>4, <2>6, <1>2, <1>4 DEF End
  <2>8. q.offset = p.offset /\ End(q) = End(p)
    <3>1. End(p) = e /\ End(q) = e
      BY <2>1, <2>4, <2>6, <2>7, <1>2, <1>4 DEF End
    <3>2. p.offset <= q.offset /\ q.offset < p.offset + FragmentSize
      BY <3>1, <2>2, <2>3, <1>4 DEF End
    <3> QED
      BY <3>1, <3>2, <2>2, <2>3, <1>4, AlignedFacts
  <2>9. held \subseteq DOMAIN c.bytes
    BY <2>1, <2>8
  <2>10. IsComplete(c)
    <3>1. DOMAIN c.bytes = DOMAIN r.bytes
      BY <2>9, <1>2
    <3>2. c.expectedLength = e /\ e > 0
      BY <1>2, <1>4, <1>7
    <3> QED
      BY <3>1, <3>2, <1>2 DEF IsComplete
  <2> QED
    BY <2>10, <1>2
<1> QED
  BY <1>6, <1>7 DEF d

(* It is put together, and was not delivered before.                       *)
LEMMA AssembledNew ==
  ASSUME NEW L, NEW p, Lands(p, L), ~IsWhole(p), NEW bufs, BuffersOK(bufs, L),
         IsComplete(Reassembly(bufs, p)), NEW D, DeliveredOK(D, bufs, L)
  PROVE  LET r == Reassembly(bufs, p)
             d == Datagram(r.bytes, r.expectedLength)
         IN  Assembled(d, AddFragment(bufs, p), L \cup {p}) /\ d \notin D
<1> DEFINE r == Reassembly(bufs, p)
           c == CurBuf(bufs, p)
           d == Datagram(r.bytes, r.expectedLength)
           M == L \cup {p}
           new == AddFragment(bufs, p)
           held == p.offset .. End(p) - 1
<1>1. Completed(p, c, r, L)
  BY CompletedFacts
<1>2. d.bytes = r.bytes /\ d.len = r.expectedLength
  BY DEF Datagram
<1>3. \A m : OwnersOf(d) = {m} => EndsAs(d, m, M)
  BY <1>1, EndsWithItsMessage
<1>4. Spent(PacketByte(p, 0), new)
  BY LastIsSpent
<1>5. \A i \in DOMAIN c.bytes : Key(p) \in DOMAIN bufs /\ c.bytes[i] = bufs[Key(p)].bytes[i]
                                /\ i \in DOMAIN bufs[Key(p)].bytes
  BY DEF CurBuf, NewDatagramBuffer
<1> HIDE DEF r, c, d, new
<1>6. /\ DOMAIN r.bytes = DOMAIN c.bytes \cup held
      /\ \A i \in held : r.bytes[i] = PacketByte(p, i - p.offset)
      /\ \A i \in DOMAIN c.bytes : i \notin held => r.bytes[i] = c.bytes[i]
      /\ BufferOK(r, Key(p), M)
      /\ r.expectedLength \in Nat /\ r.expectedLength > FragmentSize
      /\ DOMAIN r.bytes = 0 .. r.expectedLength - 1
  BY <1>1 DEF Completed, Joined
<1>7. p.offset \in Nat /\ p.len \in Nat \ {0} /\ FragmentSize \in Nat
  BY UdpAppAssumption DEF Lands, Packet
<1>8. CompletedBy(d, p, new)
  <2>1. p.offset \in held /\ p.offset - p.offset = 0
    BY <1>7 DEF End
  <2> QED
    BY <2>1, <1>2, <1>4, <1>6 DEF CompletedBy
<1>9. \E key : \A i \in DOMAIN d.bytes : From(d.bytes[i], i, key, M)
  BY <1>2, <1>6 DEF BufferOK
<1>10. Assembled(d, new, M)
  BY <1>2, <1>3, <1>6, <1>8, <1>9 DEF Assembled
<1>11. ASSUME d \in D PROVE FALSE
  <2>1. CASE \E q \in L : WholeOf(d, q)
    <3>1. PICK q \in L : WholeOf(d, q)
      BY <2>1
    <3>2. d.len = q.len
      BY <3>1 DEF WholeOf, Datagram
    <3>3. q.len <= FragmentSize /\ q.len \in Nat
      BY DEF Lands, CutOK, Packet
    <3> QED
      BY <3>2, <3>3, <1>2, <1>6, <1>7
  <2>2. CASE Assembled(d, bufs, L)
    <3>1. PICK q \in L : CompletedBy(d, q, bufs)
      BY <2>2 DEF Assembled
    <3> DEFINE i == q.offset
               b == PacketByte(q, 0)
    <3>2. i \in DOMAIN r.bytes /\ r.bytes[i] = b /\ Spent(b, bufs)
      BY <3>1, <1>2 DEF CompletedBy
    <3>3. 0 \in 0 .. q.len - 1 /\ i \in Nat
      BY DEF Lands, Packet
    <3> HIDE DEF i, b
    <3>4. CASE i \in held
      <4>1. i - p.offset \in 0 .. p.len - 1
        BY <3>3, <3>4, <1>7 DEF End
      <4>2. PacketByte(p, i - p.offset) = b
        BY <3>2, <3>4, <1>6
      <4> QED
        BY <4>1, <4>2, <3>3, OtherBytes DEF b
    <3>5. CASE i \notin held
      <4>1. i \in DOMAIN c.bytes /\ c.bytes[i] = b
        BY <3>2, <3>5, <1>6
      <4> QED
        BY <4>1, <3>2, <1>5 DEF Spent
    <3> QED
      BY <3>4, <3>5
  <2> QED
    BY <2>1, <2>2, <1>11 DEF DeliveredOK
<1> QED
  BY <1>10, <1>11 DEF r, d, new, M

(* The datagrams delivered before, after one more packet.                  *)
LEMMA DeliveredKept ==
  ASSUME NEW L, NEW M, L \subseteq M, NEW D, NEW bufs, NEW new, DeliveredOK(D, bufs, L),
         \A q \in L : Spent(PacketByte(q, 0), bufs) => Spent(PacketByte(q, 0), new)
  PROVE  DeliveredOK(D, new, M)
<1> SUFFICES ASSUME NEW d \in D, ~(\E q \in M : WholeOf(d, q)) PROVE Assembled(d, new, M)
  BY DEF DeliveredOK
<1>1. Assembled(d, bufs, L)
  BY DEF DeliveredOK
<1>2. \E key : \A i \in DOMAIN d.bytes : From(d.bytes[i], i, key, M)
  BY <1>1, FromMore DEF Assembled
<1>3. \A m : EndsAs(d, m, L) => EndsAs(d, m, M)
  BY DEF EndsAs
<1>4. \E q \in M : CompletedBy(d, q, new)
  BY <1>1 DEF Assembled, CompletedBy
<1> QED
  BY <1>1, <1>2, <1>3, <1>4 DEF Assembled

(* A message of one packet.                                                *)
LEMMA WholeNew ==
  ASSUME NEW L, NEW p, Lands(p, L), IsWhole(p), NEW D, NEW bufs, DeliveredOK(D, bufs, L),
         NEW d, WholeOf(d, p)
  PROVE  d \notin D /\ OwnersOf(d) = {MessageOf(p)}
<1>1. /\ p \in Packet /\ p.len \in Nat \ {0} /\ p.len <= FragmentSize /\ p.offset = 0
      /\ ~p.more /\ FragmentSize \in Nat
  BY UdpAppAssumption DEF Lands, CutOK, Packet, IsWhole
<1>2. /\ d.len = p.len /\ DOMAIN d.bytes = 0 .. p.len - 1
      /\ \A i \in 0 .. p.len - 1 : d.bytes[i] = PacketByte(p, i)
  BY DEF WholeOf, Datagram
<1>3. 0 \in DOMAIN d.bytes
  BY <1>1, <1>2
<1>4. ASSUME NEW i \in DOMAIN d.bytes PROVE d.bytes[i].src = p.src /\ d.bytes[i].seq = p.seq
  <2>1. d.bytes[i] = PacketByte(p, i)
    BY <1>2
  <2> QED
    BY <2>1 DEF PacketByte
<1>5. OwnersOf(d) = {MessageOf(p)}
  BY <1>3, <1>4 DEF OwnersOf, MessageOf
<1>6. ASSUME d \in D PROVE FALSE
  <2>1. CASE \E q \in L : WholeOf(d, q)
    <3>1. PICK q \in L : WholeOf(d, q)
      BY <2>1
    <3>2. q \in Packet /\ ~q.more /\ q.len \in Nat \ {0}
      BY <3>1 DEF WholeOf, IsWhole, Lands, Packet
    <3>3. d.bytes[0] = PacketByte(q, 0)
      <4>1. 0 \in 0 .. q.len - 1
        BY <3>2
      <4>2. d.bytes = [ i \in 0 .. q.len - 1 |-> PacketByte(q, i) ]
        BY <3>1 DEF WholeOf, Datagram
      <4> QED
        BY <4>1, <4>2
    <3>4. q.src = p.src /\ q.seq = p.seq
      BY <1>3, <1>4, <3>3 DEF PacketByte
    <3>5. Earlier(q, p)
      BY <3>4 DEF Lands
    <3> QED
      BY <3>2, <3>4, <3>5, <1>1, EarlierFacts
  <2>2. CASE Assembled(d, bufs, L)
    BY <2>2, <1>1, <1>2 DEF Assembled
  <2> QED
    BY <2>1, <2>2, <1>6 DEF DeliveredOK
<1> QED
  BY <1>5, <1>6

(* The fragments that have landed are of one message, if no other one goes *)
(* into its buffer.                                                        *)
LEMMA OneOwner ==
  ASSUME NEW M, M \subseteq Packet, NEW A, M \subseteq A, NEW q, OwnKey(q, A),
         \A x \in M : x.dst = q.dst, NEW bytes, DOMAIN bytes # {},
         \A i \in DOMAIN bytes : From(bytes[i], i, Key(q), M), NEW len
  PROVE  OwnersOf(Datagram(bytes, len)) = {MessageOf(q)}
<1>1. ASSUME NEW i \in DOMAIN bytes PROVE bytes[i].src = q.src /\ bytes[i].seq = q.seq
  <2>1. PICK x \in M : Key(x) = Key(q) /\ bytes[i].src = x.src /\ bytes[i].seq = x.seq
    BY FromFacts
  <2> QED
    BY <2>1 DEF OwnKey
<1>2. Datagram(bytes, len).bytes = bytes
  BY DEF Datagram
<1> QED
  BY <1>1, <1>2 DEF OwnersOf, MessageOf

(* A fragment waits for the others, or its message has been received.      *)
LEMMA HeardNext ==
  ASSUME NEW L, NEW p, Lands(p, L), ~IsWhole(p), NEW bufs, BuffersOK(bufs, L),
         NEW A, L \cup {p} \subseteq A, \A x \in L : x.dst = p.dst,
         NEW D, HeardOK(D, bufs, L, A), NEW E, D \subseteq E,
         LET r == Reassembly(bufs, p)
         IN  IsComplete(r) => Datagram(r.bytes, r.expectedLength) \in E
  PROVE  HeardOK(E, AddFragment(bufs, p), L \cup {p}, A)
<1> DEFINE r == Reassembly(bufs, p)
           c == CurBuf(bufs, p)
           new == AddFragment(bufs, p)
           M == L \cup {p}
           held == p.offset .. End(p) - 1
           d == Datagram(r.bytes, r.expectedLength)
<1>1. /\ IsComplete(r) => /\ DOMAIN new = DOMAIN bufs \ {Key(p)}
                          /\ \A key \in DOMAIN new : new[key] = bufs[key]
      /\ ~IsComplete(r) => /\ DOMAIN new = DOMAIN bufs \cup {Key(p)} /\ new[Key(p)] = r
                           /\ \A key \in DOMAIN bufs \ {Key(p)} : new[key] = bufs[key]
  BY AddedFacts
<1>2. Joined(p, c, r, L)
  BY FragmentJoins
<1>3. M \subseteq Packet /\ p \in Packet /\ p.offset \in Nat /\ p.len \in Nat \ {0}
  BY DEF Lands, Packet
<1>4. \A q : Has(D, q) => Has(E, q)
  BY DEF Has
<1>5. ASSUME NEW q \in M, OwnKey(q, A), Key(q) = Key(p), IsComplete(r) PROVE Has(E, q)
  <2>1. DOMAIN r.bytes # {} /\ \A i \in DOMAIN r.bytes : From(r.bytes[i], i, Key(q), M)
    <3>1. p.offset \in held
      BY <1>3 DEF End
    <3> HIDE DEF held, r, c, M
    <3> QED
      BY <3>1, <1>2, <1>5 DEF Joined, BufferOK, M, held
  <2>2. \A x \in M : x.dst = q.dst
    OBVIOUS
  <2>4. M \subseteq A
    OBVIOUS
  <2> HIDE DEF r, M
  <2>3. OwnersOf(Datagram(r.bytes, r.expectedLength)) = {MessageOf(q)}
    BY <1>3, <1>5, <2>1, <2>2, <2>4, OneOwner
  <2> QED
    BY <1>5, <2>3 DEF Has, r
<1>6. ASSUME Key(p) \in DOMAIN bufs PROVE c = bufs[Key(p)]
  BY <1>6 DEF CurBuf
<1> HIDE DEF r, c, new, held
<1>7. ASSUME NEW q \in M, ~IsWhole(q), OwnKey(q, A), ~Has(E, q) PROVE Waits(q, new)
  <2>1. CASE q = p
    <3>1. ~IsComplete(r) /\ Key(p) \in DOMAIN new /\ new[Key(p)] = r
      BY <2>1, <1>1, <1>5, <1>7
    <3> QED
      BY <3>1, <2>1, <1>2 DEF Waits, Joined
  <2>2. CASE q # p
    <3>1. q \in L /\ Waits(q, bufs)
      BY <2>2, <1>4, <1>7 DEF HeardOK
    <3>2. CASE Key(q) # Key(p)
      <4>1. Key(q) \in DOMAIN new /\ new[Key(q)] = bufs[Key(q)]
        BY <3>1, <3>2, <1>1 DEF Waits
      <4> QED
        BY <4>1, <3>1 DEF Waits
    <3>3. CASE Key(q) = Key(p)
      <4>1. ~IsComplete(r) /\ Key(q) \in DOMAIN new /\ new[Key(q)] = r
        BY <3>3, <1>1, <1>5, <1>7
      <4>2. c = bufs[Key(q)]
        BY <3>1, <3>3, <1>6 DEF Waits
      <4>3. ASSUME ~q.more PROVE p.more
        <5>1. q.src = p.src /\ q.seq = p.seq
          BY <1>7, <3>1, <3>3 DEF OwnKey
        <5>2. Earlier(q, p) /\ q \in Packet
          BY <3>1, <5>1 DEF Lands
        <5> QED
          BY <4>3, <5>1, <5>2, <1>3, EarlierFacts
      <4> QED
        BY <4>1, <4>2, <4>3, <3>1, <1>2 DEF Waits, Joined
    <3> QED
      BY <3>2, <3>3
  <2> QED
    BY <2>1, <2>2
<1>8. ASSUME NEW q \in M, IsWhole(q) PROVE Has(E, q)
  BY <1>4, <1>8 DEF HeardOK
<1> QED
  BY <1>7, <1>8 DEF HeardOK, new, M

(* A whole message, or nothing, has landed.                                *)
LEMMA HeardMore ==
  ASSUME NEW L, NEW p, IsWhole(p), NEW bufs, NEW A, NEW D, HeardOK(D, bufs, L, A),
         NEW d, OwnersOf(d) = {MessageOf(p)}
  PROVE  HeardOK(D \cup {d}, bufs, L \cup {p}, A)
BY DEF HeardOK, Has

LEMMA HeardAmongMore ==
  ASSUME NEW L, NEW bufs, NEW A, NEW B, A \subseteq B, NEW D, HeardOK(D, bufs, L, A)
  PROVE  HeardOK(D, bufs, L, B)
BY DEF HeardOK, OwnKey

-----------------------------------------------------------------------------
(***************************************************************************)
(* A packet arrives at a host.                                             *)
(***************************************************************************)
(* One more datagram, or one more packet that is only counted.             *)
LEMMA OneMore ==
  ASSUME NEW S, IsFiniteSet(S), NEW x, x \notin S
  PROVE  /\ IsFiniteSet(S \cup {x}) /\ Cardinality(S \cup {x}) = Cardinality(S) + 1
         /\ Cardinality(S) \in Nat
BY FS_AddElement, FS_CardinalityType

LEMMA HeardWhole ==
  ASSUME NEW p, NEW L, Lands(p, L), IsWhole(p), NEW bufs, NEW n, NEW D, NEW A, NEW S,
         Heard(bufs, n, D, L, A, S)
  PROVE  LET d == Datagram([ i \in 0 .. p.len - 1 |-> PacketByte(p, i) ], p.len)
         IN  Heard(bufs, n + 1, D \cup {d}, L \cup {p}, A, S)
<1> DEFINE d == Datagram([ i \in 0 .. p.len - 1 |-> PacketByte(p, i) ], p.len)
           M == L \cup {p}
<1>1. WholeOf(d, p)
  BY DEF WholeOf
<1> HIDE DEF d
<1>2. d \notin D /\ OwnersOf(d) = {MessageOf(p)}
  BY <1>1, WholeNew DEF Heard
<1>3. BuffersOK(bufs, M)
  BY FromMore DEF Heard, BuffersOK, BufferOK
<1>4. DeliveredOK(D, bufs, M)
  <2>1. L \subseteq M
    OBVIOUS
  <2> HIDE DEF M
  <2> QED
    BY <2>1, DeliveredKept DEF Heard
<1>5. DeliveredOK(D \cup {d}, bufs, M)
  BY <1>1, <1>4 DEF DeliveredOK
<1>6. HeardOK(D \cup {d}, bufs, M, A)
  BY <1>2, HeardMore DEF Heard
<1>7. IsFiniteSet(D \cup {d}) /\ n + 1 = Cardinality(D \cup {d}) + Cardinality(S)
  <2>1. Cardinality(S) \in Nat
    BY FS_CardinalityType DEF Heard
  <2>2. IsFiniteSet(D \cup {d}) /\ Cardinality(D \cup {d}) = Cardinality(D) + 1
        /\ Cardinality(D) \in Nat
    BY <1>2, OneMore DEF Heard
  <2> QED
    BY <2>1, <2>2 DEF Heard
<1> QED
  BY <1>3, <1>5, <1>6, <1>7 DEF Heard, d, M

LEMMA HeardComplete ==
  ASSUME NEW p, NEW L, Lands(p, L), ~IsWhole(p), NEW bufs, NEW n, NEW D, NEW A, NEW S,
         Heard(bufs, n, D, L, A, S), L \cup {p} \subseteq A, \A x \in L : x.dst = p.dst,
         IsComplete(Reassembly(bufs, p))
  PROVE  LET r == Reassembly(bufs, p)
             d == Datagram(r.bytes, r.expectedLength)
         IN  Heard(AddFragment(bufs, p), n + 1, D \cup {d}, L \cup {p}, A, S)
<1> DEFINE r == Reassembly(bufs, p)
           d == Datagram(r.bytes, r.expectedLength)
           M == L \cup {p}
           new == AddFragment(bufs, p)
           E == D \cup {d}
<1>1. BuffersOK(bufs, L) /\ DeliveredOK(D, bufs, L) /\ HeardOK(D, bufs, L, A)
  BY DEF Heard
<1>2. Assembled(d, new, M) /\ d \notin D
  BY <1>1, AssembledNew
<1>3. BuffersOK(new, M)
  BY <1>1, BuffersNext
<1>4. HeardOK(E, new, M, A)
  BY <1>1, HeardNext
<1>5. \A q \in L : Spent(PacketByte(q, 0), bufs) => Spent(PacketByte(q, 0), new)
  BY <1>1, StaysSpent
<1>6. L \subseteq M
  OBVIOUS
<1> HIDE DEF r, d, new, M
<1>7. DeliveredOK(D, new, M)
  BY <1>1, <1>5, <1>6, DeliveredKept
<1>8. DeliveredOK(E, new, M)
  BY <1>2, <1>7 DEF DeliveredOK
<1>9. IsFiniteSet(E) /\ n + 1 = Cardinality(E) + Cardinality(S)
  <2>1. Cardinality(S) \in Nat
    BY FS_CardinalityType DEF Heard
  <2>2. IsFiniteSet(E) /\ Cardinality(E) = Cardinality(D) + 1 /\ Cardinality(D) \in Nat
    BY <1>2, OneMore DEF Heard
  <2> QED
    BY <2>1, <2>2 DEF Heard
<1> QED
  BY <1>3, <1>4, <1>8, <1>9 DEF Heard, r, d, new, M

LEMMA HeardKept ==
  ASSUME NEW p, NEW L, Lands(p, L), ~IsWhole(p), NEW bufs, NEW n, NEW D, NEW A, NEW S,
         Heard(bufs, n, D, L, A, S), L \cup {p} \subseteq A, \A x \in L : x.dst = p.dst,
         ~IsComplete(Reassembly(bufs, p))
  PROVE  Heard(AddFragment(bufs, p), n, D, L \cup {p}, A, S)
<1> DEFINE M == L \cup {p}
           new == AddFragment(bufs, p)
<1>1. BuffersOK(bufs, L) /\ DeliveredOK(D, bufs, L) /\ HeardOK(D, bufs, L, A)
  BY DEF Heard
<1>2. BuffersOK(new, M)
  BY <1>1, BuffersNext
<1>3. HeardOK(D, new, M, A)
  BY <1>1, HeardNext
<1>4. \A q \in L : Spent(PacketByte(q, 0), bufs) => Spent(PacketByte(q, 0), new)
  BY <1>1, StaysSpent
<1>5. L \subseteq M
  OBVIOUS
<1> HIDE DEF new, M
<1>6. DeliveredOK(D, new, M)
  BY <1>1, <1>4, <1>5, DeliveredKept
<1> QED
  BY <1>2, <1>3, <1>6 DEF Heard, new, M

(* What the arrival of p does at h.                                        *)
HeardThere(h, p, L, A, S) ==
  /\ \/ /\ swallowed' = swallowed
        /\ Heard(app'[h].bufs, app'[h].numReceived, delivered'[h], L \cup {p}, A, S)
     \/ /\ swallowed' = swallowed \cup {p}
        /\ Heard(app'[h].bufs, app'[h].numReceived, delivered'[h], L, A, S \cup {p})
  /\ DOMAIN delivered' = Hosts
  /\ \A k \in Hosts \ {h} : app'[k] = app[k] /\ delivered'[k] = delivered[k]

LEMMA HeardArrival ==
  ASSUME HostsInv, DOMAIN delivered = Hosts, NEW h \in Hosts, NEW p, ProcessPacket(h, p),
         NEW L, Lands(p, L), NEW A, L \cup {p} \subseteq A, \A x \in L : x.dst = p.dst,
         NEW S, p \notin S, Heard(app[h].bufs, app[h].numReceived, delivered[h], L, A, S)
  PROVE  HeardThere(h, p, L, A, S)
<1> DEFINE bufs == app[h].bufs
           n == app[h].numReceived
           r == Reassembly(bufs, p)
           d == Datagram(r.bytes, r.expectedLength)
           w == Datagram([ i \in 0 .. p.len - 1 |-> PacketByte(p, i) ], p.len)
<1>1. app[h] \in FieldsOf(h, {bufs}) /\ DOMAIN app = Hosts
  BY HostFacts DEF AppInv, HostsInv
<1>2. DOMAIN app[h] = DOMAIN Fields
  BY <1>1 DEF FieldsOf, Fields
<1>3. \/ IsFirst(h) /\ app' = [app EXCEPT ![h].numReceived = @ + 1]
         /\ swallowed' = swallowed \cup {p} /\ delivered' = delivered
      \/ IsWhole(p) /\ Counted(h, bufs, w)
      \/ ~IsWhole(p) /\ IsComplete(r) /\ Counted(h, AddFragment(bufs, p), d)
      \/ ~IsWhole(p) /\ ~IsComplete(r) /\ Kept(h, AddFragment(bufs, p))
  BY DEF ProcessPacket, IsWhole
<1>4. ASSUME NEW x, NEW e, Counted(h, x, e)
      PROVE  /\ app'[h].bufs = x /\ app'[h].numReceived = n + 1
             /\ delivered'[h] = delivered[h] \cup {e} /\ swallowed' = swallowed
             /\ DOMAIN delivered' = Hosts
             /\ \A k \in Hosts \ {h} : app'[k] = app[k] /\ delivered'[k] = delivered[k]
  BY <1>1, <1>4 DEF Counted, FieldsOf
<1>5. ASSUME NEW x, Kept(h, x)
      PROVE  /\ app'[h].bufs = x /\ app'[h].numReceived = n
             /\ delivered' = delivered /\ swallowed' = swallowed
             /\ \A k \in Hosts \ {h} : app'[k] = app[k]
  BY <1>1, <1>5 DEF Kept, FieldsOf
<1>6. ASSUME app' = [app EXCEPT ![h].numReceived = @ + 1]
      PROVE  /\ app'[h].bufs = bufs /\ app'[h].numReceived = n + 1
             /\ \A k \in Hosts \ {h} : app'[k] = app[k]
  BY <1>1, <1>6 DEF FieldsOf
<1>7. CASE IsFirst(h) /\ app' = [app EXCEPT ![h].numReceived = @ + 1]
           /\ swallowed' = swallowed \cup {p} /\ delivered' = delivered
  <2>1. /\ IsFiniteSet(S \cup {p}) /\ Cardinality(S \cup {p}) = Cardinality(S) + 1
        /\ Cardinality(S) \in Nat /\ Cardinality(delivered[h]) \in Nat
        /\ n = Cardinality(delivered[h]) + Cardinality(S)
    BY OneMore, FS_CardinalityType DEF Heard
  <2> HIDE DEF n, bufs
  <2>2. Heard(bufs, n + 1, delivered[h], L, A, S \cup {p})
    <3>1. n + 1 = Cardinality(delivered[h]) + Cardinality(S \cup {p})
      BY <2>1
    <3> QED
      BY <2>1, <3>1 DEF Heard, bufs
  <2> QED
    BY <1>6, <1>7, <2>2 DEF HeardThere
<1>8. CASE IsWhole(p) /\ Counted(h, bufs, w)
  <2>1. Heard(bufs, n + 1, delivered[h] \cup {w}, L \cup {p}, A, S)
    BY <1>8, HeardWhole
  <2> HIDE DEF bufs, n, w
  <2> QED
    BY <1>4, <1>8, <2>1 DEF HeardThere
<1>9. CASE ~IsWhole(p) /\ IsComplete(r) /\ Counted(h, AddFragment(bufs, p), d)
  <2>1. Heard(AddFragment(bufs, p), n + 1, delivered[h] \cup {d}, L \cup {p}, A, S)
    BY <1>9, HeardComplete
  <2> HIDE DEF bufs, n, d
  <2> QED
    BY <1>4, <1>9, <2>1 DEF HeardThere
<1>10. CASE ~IsWhole(p) /\ ~IsComplete(r) /\ Kept(h, AddFragment(bufs, p))
  <2>1. Heard(AddFragment(bufs, p), n, delivered[h], L \cup {p}, A, S)
    BY <1>10, HeardKept
  <2> HIDE DEF bufs, n
  <2> QED
    BY <1>5, <1>10, <2>1 DEF HeardThere
<1> QED
  BY <1>3, <1>7, <1>8, <1>9, <1>10

-----------------------------------------------------------------------------
(***************************************************************************)
(* The packets under way.                                                  *)
(***************************************************************************)
LEMMA ToSetConcat ==
  ASSUME NEW s \in Seq(Packet), NEW t \in Seq(Packet)
  PROVE  ToSet(s \o t) = ToSet(s) \cup ToSet(t)
<1> DEFINE u == s \o t
<1>1. /\ DOMAIN u = 1 .. Len(u) /\ DOMAIN s = 1 .. Len(s) /\ DOMAIN t = 1 .. Len(t)
      /\ Len(u) = Len(s) + Len(t) /\ Len(s) \in Nat /\ Len(t) \in Nat
      /\ \A i \in 1 .. Len(u) : u[i] = IF i <= Len(s) THEN s[i] ELSE t[i - Len(s)]
  BY ConcatProperties, LenProperties
<1> HIDE DEF u
<1>2. ASSUME NEW i \in DOMAIN u PROVE u[i] \in ToSet(s) \cup ToSet(t)
  <2>1. \/ i \in DOMAIN s /\ u[i] = s[i]
        \/ i - Len(s) \in DOMAIN t /\ u[i] = t[i - Len(s)]
    BY <1>1
  <2> QED
    BY <2>1 DEF ToSet
<1>3. ASSUME NEW i \in DOMAIN s PROVE s[i] \in ToSet(u)
  <2>1. i \in DOMAIN u /\ u[i] = s[i]
    BY <1>1
  <2> QED
    BY <2>1 DEF ToSet
<1>4. ASSUME NEW i \in DOMAIN t PROVE t[i] \in ToSet(u)
  <2>1. i + Len(s) \in DOMAIN u /\ u[i + Len(s)] = t[i]
    BY <1>1
  <2> QED
    BY <2>1 DEF ToSet
<1>5. \A x \in ToSet(u) : x \in ToSet(s) \cup ToSet(t)
  BY <1>2 DEF ToSet
<1>6. \A x \in ToSet(s) \cup ToSet(t) : x \in ToSet(u)
  BY <1>3, <1>4 DEF ToSet
<1> QED
  BY <1>5, <1>6 DEF u

(* The packets of a host, each before the later ones.                      *)
LEMMA SentFacts ==
  ASSUME HostsInv, NEW g \in Hosts
  PROVE  /\ sentTo[g] \in Seq(Packet)
         /\ \A x \in ToSet(sentTo[g]) : x \in Packet /\ CutOK(x) /\ PacketOf(g, x)
         /\ \A x, y \in ToSet(sentTo[g]) : x = y \/ Earlier(x, y) \/ Earlier(y, x)
<1> DEFINE s == sentTo[g]
<1>1. /\ s \in Seq(Packet) /\ \A i \in DOMAIN s : PacketOf(g, s[i]) /\ CutOK(s[i])
      /\ \A i, j \in DOMAIN s : i < j => Earlier(s[i], s[j])
  BY HostFacts DEF HostInv, SentBefore, Apart
<1>2. DOMAIN s = 1 .. Len(s) /\ Len(s) \in Nat /\ \A i \in DOMAIN s : s[i] \in Packet
  BY <1>1, LenProperties
<1> HIDE DEF s
<1>3. \A i, j \in DOMAIN s : i = j \/ i < j \/ j < i
  BY <1>2
<1>4. \A x \in ToSet(s) : x \in Packet /\ CutOK(x) /\ PacketOf(g, x)
  BY <1>1, <1>2 DEF ToSet
<1>5. \A x, y \in ToSet(s) : x = y \/ Earlier(x, y) \/ Earlier(y, x)
  BY <1>1, <1>3 DEF ToSet
<1> QED
  BY <1>1, <1>4, <1>5 DEF s

LEMMA AllSentFacts ==
  ASSUME HostsInv, NEW x \in AllSent
  PROVE  x \in Packet /\ CutOK(x) /\ x.src \in Hosts /\ x \in ToSet(sentTo[x.src])
<1>1. PICK g \in Hosts : x \in ToSet(sentTo[g])
  BY DEF AllSent
<1> QED
  BY <1>1, SentFacts DEF PacketOf

(* What a host sends comes after all that it has sent.                     *)
LEMMA NewPackets ==
  ASSUME HostsInv, HostsInv', NEW h \in Hosts, NEW dst, NEW packets, Sent(h, dst, packets)
  PROVE  /\ sentTo'[h] = sentTo[h] \o packets
         /\ \A g \in Hosts \ {h} : sentTo'[g] = sentTo[g]
         /\ ToSet(sentTo'[h]) = ToSet(sentTo[h]) \cup ToSet(packets)
         /\ \A x \in ToSet(sentTo[h]) : \A y \in ToSet(packets) : Earlier(x, y)
         /\ \A i, j \in DOMAIN packets : i < j => Earlier(packets[i], packets[j])
         /\ ToSet(packets) \cap AllSent = {}
<1> DEFINE s == sentTo[h]
           u == s \o packets
<1>1. /\ s \in Seq(Packet) /\ packets \in Seq(Packet) /\ sentTo'[h] = u
      /\ \A g \in Hosts \ {h} : sentTo'[g] = sentTo[g]
      /\ \A i \in DOMAIN packets : packets[i].src = h
  BY DEF HostsInv, Sent, PacketOf
<1>2. \A i, j \in DOMAIN u : i < j => Earlier(u[i], u[j])
  <2>1. HostInv(h, app'[h], sentTo'[h], h \notin redrawn')
    BY DEF HostsInv
  <2> QED
    BY <1>1, <2>1 DEF HostInv, Apart
<1>3. ToSet(u) = ToSet(s) \cup ToSet(packets)
  BY <1>1, ToSetConcat
<1>4. /\ DOMAIN u = 1 .. Len(u) /\ DOMAIN s = 1 .. Len(s) /\ DOMAIN packets = 1 .. Len(packets)
      /\ Len(u) = Len(s) + Len(packets) /\ Len(s) \in Nat /\ Len(packets) \in Nat
      /\ \A i \in 1 .. Len(u) : u[i] = IF i <= Len(s) THEN s[i] ELSE packets[i - Len(s)]
  BY <1>1, ConcatProperties, LenProperties
<1> HIDE DEF u, s
<1>5. ASSUME NEW j \in DOMAIN packets
      PROVE  j + Len(s) \in DOMAIN u /\ u[j + Len(s)] = packets[j]
  BY <1>4
<1>6. ASSUME NEW i \in DOMAIN s PROVE i \in DOMAIN u /\ u[i] = s[i]
  BY <1>4
<1>7. ASSUME NEW i \in DOMAIN s, NEW j \in DOMAIN packets PROVE Earlier(s[i], packets[j])
  <2>1. i < j + Len(s)
    BY <1>4
  <2> QED
    BY <2>1, <1>2, <1>5, <1>6
<1>8. ASSUME NEW i \in DOMAIN packets, NEW j \in DOMAIN packets, i < j
      PROVE  Earlier(packets[i], packets[j])
  <2>1. i + Len(s) < j + Len(s)
    BY <1>4, <1>8
  <2> QED
    BY <2>1, <1>2, <1>5
<1>9. \A x \in ToSet(s) : \A y \in ToSet(packets) : Earlier(x, y)
  BY <1>7 DEF ToSet
<1>10. ASSUME NEW y \in ToSet(packets), y \in AllSent PROVE FALSE
  <2>1. y \in Packet /\ y \in ToSet(sentTo[y.src])
    BY <1>10, AllSentFacts
  <2>2. y.src = h
    BY <1>1 DEF ToSet
  <2>3. Earlier(y, y)
    BY <2>1, <2>2, <1>9 DEF s
  <2> QED
    BY <2>1, <2>3, EarlierFacts
<1> QED
  BY <1>1, <1>3, <1>8, <1>9, <1>10 DEF u, s

(* More packets join the queue.                                            *)
LEMMA PathGrows ==
  ASSUME NEW s, NEW t, NEW h, NEW q \in Seq(Packet), NEW packets \in Seq(Packet),
         PathOK(q, s, h), ToSet(t) = ToSet(s) \cup ToSet(packets),
         \A x \in ToSet(s) : \A y \in ToSet(packets) : Earlier(x, y),
         \A i, j \in DOMAIN packets : i < j => Earlier(packets[i], packets[j])
  PROVE  PathOK(q \o packets, t, h)
<1> DEFINE u == q \o packets
<1>1. /\ DOMAIN u = 1 .. Len(u) /\ DOMAIN q = 1 .. Len(q) /\ DOMAIN packets = 1 .. Len(packets)
      /\ Len(u) = Len(q) + Len(packets) /\ Len(q) \in Nat /\ Len(packets) \in Nat
      /\ \A i \in 1 .. Len(u) : u[i] = IF i <= Len(q) THEN q[i] ELSE packets[i - Len(q)]
  BY ConcatProperties, LenProperties
<1> HIDE DEF u
<1>2. ASSUME NEW i \in DOMAIN u
      PROVE  \/ i \in DOMAIN q /\ u[i] = q[i] /\ q[i] \in ToSet(s)
             \/ /\ i > Len(q) /\ i - Len(q) \in DOMAIN packets /\ u[i] = packets[i - Len(q)]
                /\ packets[i - Len(q)] \in ToSet(packets)
  <2>1. \/ i \in DOMAIN q /\ u[i] = q[i]
        \/ i > Len(q) /\ i - Len(q) \in DOMAIN packets /\ u[i] = packets[i - Len(q)]
    BY <1>1
  <2> QED
    BY <2>1 DEF PathOK, ToSet
<1>3. ASSUME NEW i \in DOMAIN u, NEW j \in DOMAIN u, i < j PROVE Earlier(u[i], u[j])
  <2>1. CASE j \in DOMAIN q
    <3>1. i \in DOMAIN q /\ u[i] = q[i] /\ u[j] = q[j]
      BY <2>1, <1>1, <1>3
    <3> QED
      BY <3>1, <2>1, <1>3 DEF PathOK
  <2>2. CASE i \in DOMAIN q /\ j \notin DOMAIN q
    BY <2>2, <1>2
  <2>3. CASE i \notin DOMAIN q /\ j \notin DOMAIN q
    <3>1. i - Len(q) \in DOMAIN packets /\ j - Len(q) \in DOMAIN packets
          /\ u[i] = packets[i - Len(q)] /\ u[j] = packets[j - Len(q)]
      BY <2>3, <1>2
    <3>2. i - Len(q) < j - Len(q)
      BY <1>1, <1>3
    <3> QED
      BY <3>1, <3>2
  <2>4. j \in DOMAIN q \/ (i \in DOMAIN q /\ j \notin DOMAIN q)
        \/ (i \notin DOMAIN q /\ j \notin DOMAIN q)
    OBVIOUS
  <2> QED
    BY <2>1, <2>2, <2>3, <2>4
<1>4. ASSUME NEW x \in ToSet(t), x.dst = h
      PROVE  (\E i \in DOMAIN u : u[i] = x) \/ \A i \in DOMAIN u : Earlier(x, u[i])
  <2>1. CASE x \in ToSet(packets)
    <3>1. PICK j \in DOMAIN packets : packets[j] = x
      BY <2>1 DEF ToSet
    <3>2. j + Len(q) \in DOMAIN u /\ u[j + Len(q)] = x
      BY <3>1, <1>1
    <3> QED
      BY <3>2
  <2>2. CASE x \in ToSet(s)
    <3>1. CASE \E i \in DOMAIN q : q[i] = x
      <4>1. \A i \in DOMAIN q : i \in DOMAIN u /\ u[i] = q[i]
        BY <1>1
      <4> QED
        BY <3>1, <4>1
    <3>2. CASE \A i \in DOMAIN q : Earlier(x, q[i])
      BY <3>2, <2>2, <1>2
    <3> QED
      BY <3>1, <3>2, <2>2, <1>4 DEF PathOK
  <2> QED
    BY <2>1, <2>2
<1>5. \A i \in DOMAIN u : u[i] \in ToSet(t)
  BY <1>2
<1> QED
  BY <1>3, <1>4, <1>5 DEF PathOK, u

(* The first packet leaves the queue: it was the first of those from g.    *)
LEMMA PathShrinks ==
  ASSUME NEW s, NEW h, NEW q \in Seq(Packet), q # <<>>, PathOK(q, s, h)
  PROVE  /\ PathOK(Tail(q), s, h) /\ Head(q) \in ToSet(s)
         /\ ToSet(q) = ToSet(Tail(q)) \cup {Head(q)} /\ Head(q) \notin ToSet(Tail(q))
         /\ \A x \in ToSet(s) : x.dst = h => x \in ToSet(q) \/ Earlier(x, Head(q))
<1> DEFINE t == Tail(q)
           p == Head(q)
<1>1. /\ t \in Seq(Packet) /\ Len(t) = Len(q) - 1 /\ \A i \in 1 .. Len(t) : t[i] = q[i + 1]
      /\ p = q[1] /\ Len(q) \in Nat /\ Len(q) >= 1
  BY HeadTailProperties, LenProperties, EmptySeq
<1>2. DOMAIN t = 1 .. Len(t) /\ DOMAIN q = 1 .. Len(q) /\ \A i \in DOMAIN q : q[i] \in Packet
  BY <1>1, LenProperties
<1> HIDE DEF t, p
<1>3. 1 \in DOMAIN q /\ \A i \in DOMAIN t : i + 1 \in DOMAIN q /\ t[i] = q[i + 1] /\ i >= 1
  BY <1>1, <1>2
<1>4. \A i \in DOMAIN q : i = 1 \/ (i - 1 \in DOMAIN t /\ t[i - 1] = q[i])
  BY <1>1, <1>2
<1>5. ASSUME NEW i \in DOMAIN t PROVE Earlier(p, t[i]) /\ t[i] # p
  <2>1. i + 1 \in DOMAIN q /\ t[i] = q[i + 1] /\ 1 < i + 1
    BY <1>2, <1>3
  <2>2. Earlier(q[1], q[i + 1])
    BY <2>1, <1>3 DEF PathOK
  <2> QED
    BY <2>1, <2>2, <1>1, <1>2, <1>3, EarlierFacts
<1>6. ASSUME NEW i \in DOMAIN t, NEW j \in DOMAIN t, i < j PROVE Earlier(t[i], t[j])
  <2>1. i + 1 < j + 1
    BY <1>2, <1>6
  <2> QED
    BY <2>1, <1>3 DEF PathOK
<1>7. ASSUME NEW x \in ToSet(s), x.dst = h
      PROVE  (\E i \in DOMAIN t : t[i] = x) \/ \A i \in DOMAIN t : Earlier(x, t[i])
  <2>1. CASE \E i \in DOMAIN q : q[i] = x
    <3>1. PICK i \in DOMAIN q : q[i] = x
      BY <2>1
    <3>2. CASE i = 1
      BY <3>1, <3>2, <1>1, <1>5
    <3>3. CASE i # 1
      BY <3>1, <3>3, <1>4
    <3> QED
      BY <3>2, <3>3
  <2>2. CASE \A i \in DOMAIN q : Earlier(x, q[i])
    BY <2>2, <1>3
  <2> QED
    BY <2>1, <2>2, <1>7 DEF PathOK
<1>8. PathOK(t, s, h)
  BY <1>3, <1>6, <1>7 DEF PathOK
<1>9. ToSet(q) = ToSet(t) \cup {p}
  <2>1. ASSUME NEW i \in DOMAIN q PROVE q[i] \in ToSet(t) \cup {p}
    <3>1. CASE i = 1
      BY <3>1, <1>1
    <3>2. CASE i # 1
      BY <3>2, <1>4 DEF ToSet
    <3> QED
      BY <3>1, <3>2
  <2>2. \A i \in DOMAIN t : t[i] \in ToSet(q)
    BY <1>3 DEF ToSet
  <2>3. p \in ToSet(q)
    BY <1>1, <1>3 DEF ToSet
  <2>4. ToSet(q) \subseteq ToSet(t) \cup {p}
    BY <2>1 DEF ToSet
  <2>5. ToSet(t) \subseteq ToSet(q)
    BY <2>2 DEF ToSet
  <2> QED
    BY <2>3, <2>4, <2>5
<1>10. p \in ToSet(s)
  BY <1>1, <1>3 DEF PathOK
<1>11. \A x \in ToSet(s) : x.dst = h => x \in ToSet(q) \/ Earlier(x, p)
  BY <1>1, <1>3 DEF PathOK, ToSet
<1>12. p \notin ToSet(t)
  BY <1>5 DEF ToSet
<1> QED
  BY <1>8, <1>9, <1>10, <1>11, <1>12 DEF t, p

LEMMA InSomeQueue ==
  ASSUME NEW n, NEW x
  PROVE  x \in UNION { ToSet(n[c]) : c \in Hosts \X Hosts } <=>
           \E g, h \in Hosts : x \in ToSet(n[<<g, h>>])
<1>1. \A c \in Hosts \X Hosts : \E g, h \in Hosts : c = <<g, h>>
  OBVIOUS
<1>2. \A g, h \in Hosts : <<g, h>> \in Hosts \X Hosts
  OBVIOUS
<1>3. x \in UNION { ToSet(n[c]) : c \in Hosts \X Hosts }
        <=> \E c \in Hosts \X Hosts : x \in ToSet(n[c])
  OBVIOUS
<1> QED
  BY <1>1, <1>2, <1>3

LEMMA InFlightFacts ==
  ASSUME PathInv, NetworkInv, HostsInv, NEW x
  PROVE  /\ x \in InFlight <=> \E g, h \in Hosts : x \in ToSet(network[<<g, h>>])
         /\ \A g, h \in Hosts : x \in ToSet(network[<<g, h>>]) =>
              x.src = g /\ x.dst = h /\ x \in ToSet(sentTo[g])
         /\ x \in InFlight => x \in AllSent
<1>1. x \in InFlight <=> \E g, h \in Hosts : x \in ToSet(network[<<g, h>>])
  BY InSomeQueue DEF InFlight
<1>2. ASSUME NEW g \in Hosts, NEW h \in Hosts, x \in ToSet(network[<<g, h>>])
      PROVE  x.src = g /\ x.dst = h /\ x \in ToSet(sentTo[g])
  <2>1. PICK i \in DOMAIN network[<<g, h>>] : x = network[<<g, h>>][i]
    BY <1>2 DEF ToSet
  <2>2. x.src = g /\ x.dst = h
    BY <2>1 DEF NetworkInv, PacketOf
  <2>3. x \in ToSet(sentTo[g])
    BY <2>1 DEF PathInv, PathOK
  <2> QED
    BY <2>2, <2>3
<1>3. x \in InFlight => x \in AllSent
  BY <1>1, <1>2 DEF AllSent
<1> QED
  BY <1>1, <1>2, <1>3

(* A step that sends.                                                      *)
LEMMA PathSent ==
  ASSUME PathInv, GoneInv, NetworkInv, HostsInv, HostsInv',
         NEW h \in Hosts, NEW dst, NEW packets, Sent(h, dst, packets)
  PROVE  PathInv' /\ GoneInv' /\ \A k \in Hosts : Landed(k)' = Landed(k)
<1> DEFINE new == ToSet(packets)
<1>1. /\ packets \in Seq(Packet) /\ dst \in Hosts
      /\ \A x \in new : x.dst = dst
      /\ UNCHANGED <<gone, swallowed>>
      /\ network \in [Hosts \X Hosts -> Seq(Packet)]
      /\ network' = [network EXCEPT ![<<h, dst>>] = @ \o packets]
  BY DEF Sent, ToSet, NetworkInv
<1>2. /\ \A g \in Hosts \ {h} : sentTo'[g] = sentTo[g]
      /\ ToSet(sentTo'[h]) = ToSet(sentTo[h]) \cup new
      /\ \A x \in ToSet(sentTo[h]) : \A y \in new : Earlier(x, y)
      /\ \A i, j \in DOMAIN packets : i < j => Earlier(packets[i], packets[j])
      /\ new \cap AllSent = {}
  BY NewPackets
<1>3. ASSUME NEW f \in Hosts, NEW k \in Hosts
      PROVE  network'[<<f, k>>] = IF f = h /\ k = dst THEN network[<<f, k>>] \o packets
                                                      ELSE network[<<f, k>>]
  BY <1>1
<1> HIDE DEF new
<1>4. ASSUME NEW f \in Hosts, NEW k \in Hosts
      PROVE  PathOK(network'[<<f, k>>], sentTo'[f], k)
  <2>1. PathOK(network[<<f, k>>], sentTo[f], k) /\ network[<<f, k>>] \in Seq(Packet)
    BY <1>1 DEF PathInv
  <2>2. CASE f = h /\ k = dst
    BY <2>1, <2>2, <1>1, <1>2, <1>3, PathGrows DEF new
  <2>3. CASE f # h
    BY <2>1, <2>3, <1>2, <1>3
  <2>4. CASE f = h /\ k # dst
    <3>1. network'[<<f, k>>] = network[<<f, k>>]
      BY <2>4, <1>3
    <3>2. \A x \in ToSet(sentTo'[f]) : x.dst = k => x \in ToSet(sentTo[f])
      BY <2>4, <1>1, <1>2
    <3>3. ToSet(sentTo[f]) \subseteq ToSet(sentTo'[f])
      BY <2>4, <1>2
    <3> QED
      BY <3>1, <3>2, <3>3, <2>1 DEF PathOK
  <2> QED
    BY <2>2, <2>3, <2>4
<1>5. AllSent' = AllSent \cup new
  <2>1. ASSUME NEW x \in AllSent' PROVE x \in AllSent \cup new
    BY <1>2 DEF AllSent
  <2>2. ASSUME NEW x \in AllSent PROVE x \in AllSent'
    <3>1. PICK g \in Hosts : x \in ToSet(sentTo[g])
      BY DEF AllSent
    <3>2. x \in ToSet(sentTo'[g])
      BY <3>1, <1>2
    <3> QED
      BY <3>2 DEF AllSent
  <2>3. ASSUME NEW x \in new PROVE x \in AllSent'
    BY <1>2 DEF AllSent
  <2> QED
    BY <2>1, <2>2, <2>3
<1>6. InFlight' = InFlight \cup new
  <2>1. ASSUME NEW f \in Hosts, NEW k \in Hosts
        PROVE  ToSet(network'[<<f, k>>]) =
                 IF f = h /\ k = dst THEN ToSet(network[<<f, k>>]) \cup new
                                    ELSE ToSet(network[<<f, k>>])
    <3>1. network[<<f, k>>] \in Seq(Packet)
      BY <1>1
    <3>2. CASE f = h /\ k = dst
      <4>1. network'[<<f, k>>] = network[<<f, k>>] \o packets
        BY <3>2, <1>3
      <4>2. ToSet(network[<<f, k>>] \o packets) = ToSet(network[<<f, k>>]) \cup ToSet(packets)
        BY <3>1, <1>1, ToSetConcat
      <4> QED
        BY <3>2, <4>1, <4>2 DEF new
    <3>3. CASE ~(f = h /\ k = dst)
      <4>1. network'[<<f, k>>] = network[<<f, k>>]
        BY <3>3, <1>3
      <4> QED
        BY <3>3, <4>1
    <3> QED
      BY <3>2, <3>3
  <2>2. ASSUME NEW x
        PROVE  /\ x \in InFlight <=> \E f, k \in Hosts : x \in ToSet(network[<<f, k>>])
               /\ x \in InFlight' <=> \E f, k \in Hosts : x \in ToSet(network'[<<f, k>>])
    BY InSomeQueue DEF InFlight
  <2>3. ASSUME NEW x PROVE x \in InFlight' <=> x \in InFlight \cup new
    <3>1. ASSUME x \in InFlight' PROVE x \in InFlight \cup new
      <4>1. PICK f \in Hosts, k \in Hosts : x \in ToSet(network'[<<f, k>>])
        BY <3>1, <2>2
      <4>2. x \in ToSet(network[<<f, k>>]) \cup new
        BY <4>1, <2>1
      <4> QED
        BY <4>2, <2>2
    <3>2. ASSUME x \in InFlight PROVE x \in InFlight'
      <4>1. PICK f \in Hosts, k \in Hosts : x \in ToSet(network[<<f, k>>])
        BY <3>2, <2>2
      <4>2. x \in ToSet(network'[<<f, k>>])
        BY <4>1, <2>1
      <4> QED
        BY <4>2, <2>2
    <3>3. ASSUME x \in new PROVE x \in InFlight'
      <4>1. dst \in Hosts
        BY <1>1
      <4>2. ToSet(network'[<<h, dst>>]) = ToSet(network[<<h, dst>>]) \cup new
        BY <4>1, <2>1
      <4>3. x \in ToSet(network'[<<h, dst>>])
        BY <3>3, <4>2
      <4> QED
        BY <4>1, <4>3, <2>2
    <3> QED
      BY <3>1, <3>2, <3>3
  <2> QED
    BY <2>3
<1>7. GoneInv'
  BY <1>1, <1>2, <1>5, <1>6 DEF GoneInv
<1>8. ASSUME NEW k \in Hosts PROVE Landed(k)' = Landed(k)
  <2>1. AllSent' \ (InFlight' \cup gone' \cup swallowed')
          = AllSent \ (InFlight \cup gone \cup swallowed)
    BY <1>1, <1>2, <1>5, <1>6
  <2> QED
    BY <2>1 DEF Landed
<1> QED
  BY <1>4, <1>7, <1>8 DEF PathInv

(* A step in which a packet arrives or is lost.                            *)
LEMMA PathTail ==
  ASSUME PathInv, GoneInv, NetworkInv, HostsInv, NEW g \in Hosts, NEW h \in Hosts,
         Arrive(g, h) \/ Lose(g, h), NEW p, p = Head(network[<<g, h>>]),
         gone' \cup swallowed' \in {gone \cup swallowed, gone \cup swallowed \cup {p}}
  PROVE  /\ PathInv' /\ GoneInv' /\ AllSent' = AllSent
         /\ p \in AllSent /\ p \in InFlight /\ p.src = g /\ p.dst = h
         /\ \A k \in Hosts : Landed(k)' = IF k = h /\ p \notin gone' \cup swallowed'
                                            THEN Landed(k) \cup {p} ELSE Landed(k)
         /\ Lands(p, Landed(h))
<1> DEFINE q == network[<<g, h>>]
<1>1. /\ q # <<>> /\ q \in Seq(Packet) /\ network' = [network EXCEPT ![<<g, h>>] = Tail(q)]
      /\ sentTo' = sentTo /\ p.src = g /\ p.dst = h
  <2>1. q \in Seq(Packet)
    BY DEF NetworkInv
  <2>2. q # <<>> /\ network' = [network EXCEPT ![<<g, h>>] = Tail(q)] /\ sentTo' = sentTo
        /\ PacketOf(g, p) /\ p.dst = h
    BY QueueShrinks
  <2> QED
    BY <2>1, <2>2 DEF PacketOf
<1>2. PathOK(q, sentTo[g], h)
  BY DEF PathInv
<1>3. p = Head(q)
  OBVIOUS
<1>4. \A f, k \in Hosts : network'[<<f, k>>] = IF f = g /\ k = h THEN Tail(q)
                                                                 ELSE network[<<f, k>>]
  BY <1>1 DEF NetworkInv
<1> HIDE DEF q
<1>5. /\ PathOK(Tail(q), sentTo[g], h) /\ p \in ToSet(sentTo[g])
      /\ ToSet(q) = ToSet(Tail(q)) \cup {p} /\ p \notin ToSet(Tail(q))
      /\ \A x \in ToSet(sentTo[g]) : x.dst = h => x \in ToSet(q) \/ Earlier(x, p)
  <2> DEFINE s == sentTo[g]
  <2> HIDE DEF s
  <2>1. PathOK(q, s, h)
    BY <1>2 DEF s
  <2>2. /\ PathOK(Tail(q), s, h) /\ Head(q) \in ToSet(s)
        /\ ToSet(q) = ToSet(Tail(q)) \cup {Head(q)} /\ Head(q) \notin ToSet(Tail(q))
        /\ \A x \in ToSet(s) : x.dst = h => x \in ToSet(q) \/ Earlier(x, Head(q))
    BY <1>1, <2>1, PathShrinks
  <2> QED
    BY <2>2, <1>3 DEF s
<1>6. PathInv'
  <2>1. ASSUME NEW f \in Hosts, NEW k \in Hosts
        PROVE  PathOK(network'[<<f, k>>], sentTo'[f], k)
    <3>1. CASE f = g /\ k = h
      <4>1. network'[<<f, k>>] = Tail(q) /\ sentTo'[f] = sentTo[g]
        BY <3>1, <1>1, <1>4
      <4> QED
        BY <3>1, <4>1, <1>5
    <3>2. CASE ~(f = g /\ k = h)
      <4>1. network'[<<f, k>>] = network[<<f, k>>] /\ sentTo'[f] = sentTo[f]
        BY <3>2, <1>1, <1>4
      <4> QED
        BY <4>1 DEF PathInv
    <3> QED
      BY <3>1, <3>2
  <2> QED
    BY <2>1 DEF PathInv
<1>7. AllSent' = AllSent /\ p \in AllSent
  BY <1>1, <1>5 DEF AllSent
<1>8. \A f, k \in Hosts : p \in ToSet(network[<<f, k>>]) => f = g /\ k = h
  BY <1>1, InFlightFacts
<1>9. InFlight' = InFlight \ {p} /\ p \in InFlight
  <2>1. \A c \in Hosts \X Hosts : \E f, k \in Hosts : c = <<f, k>>
    OBVIOUS
  <2>2. ASSUME NEW f \in Hosts, NEW k \in Hosts
        PROVE  ToSet(network'[<<f, k>>]) = ToSet(network[<<f, k>>]) \ {p}
    <3>1. CASE f = g /\ k = h
      <4>1. network'[<<f, k>>] = Tail(q) /\ network[<<f, k>>] = q
        BY <3>1, <1>4 DEF q
      <4>2. ToSet(Tail(q)) = ToSet(q) \ {p}
        BY <1>5
      <4> QED
        BY <4>1, <4>2
    <3>2. CASE ~(f = g /\ k = h)
      <4>1. network'[<<f, k>>] = network[<<f, k>>] /\ p \notin ToSet(network[<<f, k>>])
        BY <3>2, <1>4, <1>8
      <4> QED
        BY <4>1
    <3> QED
      BY <3>1, <3>2
  <2>3. \A c \in Hosts \X Hosts : ToSet(network'[c]) = ToSet(network[c]) \ {p}
    BY <2>1, <2>2
  <2>4. InFlight' = InFlight \ {p}
    BY <2>3 DEF InFlight
  <2>5. <<g, h>> \in Hosts \X Hosts /\ p \in ToSet(network[<<g, h>>])
    BY <1>5 DEF q
  <2> QED
    BY <2>4, <2>5 DEF InFlight
<1>10. GoneInv'
  BY <1>7, <1>9 DEF GoneInv
<1>11. ASSUME NEW k \in Hosts
       PROVE  Landed(k)' = IF k = h /\ p \notin gone' \cup swallowed' THEN Landed(k) \cup {p}
                                                                      ELSE Landed(k)
  <2>1. p \notin gone \cup swallowed
    BY <1>9 DEF GoneInv
  <2>2. AllSent' \ (InFlight' \cup gone' \cup swallowed')
          = IF p \notin gone' \cup swallowed'
              THEN (AllSent \ (InFlight \cup gone \cup swallowed)) \cup {p}
              ELSE AllSent \ (InFlight \cup gone \cup swallowed)
    BY <2>1, <1>7, <1>9
  <2> QED
    BY <2>2, <1>1 DEF Landed
<1>12. Lands(p, Landed(h))
  <2>1. \A x \in AllSent : x \in Packet /\ CutOK(x) /\ x \in ToSet(sentTo[x.src])
    BY AllSentFacts
  <2>2. ASSUME NEW x \in Landed(h), x.src = p.src PROVE Earlier(x, p)
    <3>1. x \in ToSet(sentTo[g]) /\ x.dst = h /\ x \notin InFlight
      BY <2>1, <2>2, <1>1 DEF Landed
    <3>2. x \notin ToSet(q)
      BY <3>1, InFlightFacts DEF q
    <3> QED
      BY <3>1, <3>2, <1>5
  <2> QED
    BY <2>1, <2>2, <1>7 DEF Lands, Landed
<1> QED
  BY <1>1, <1>6, <1>7, <1>9, <1>10, <1>11, <1>12

(* A step after which the packets under way are the same.                  *)
LEMMA PathStill ==
  ASSUME UNCHANGED <<network, sentTo, gone, swallowed>>
  PROVE  /\ PathInv => PathInv'
         /\ GoneInv => GoneInv'
         /\ AllSent' = AllSent /\ \A k : Landed(k)' = Landed(k)
<1>1. AllSent' = AllSent /\ InFlight' = InFlight
  BY DEF AllSent, InFlight
<1> QED
  BY <1>1 DEF PathInv, GoneInv, Landed

-----------------------------------------------------------------------------
(***************************************************************************)
(* The steps.                                                              *)
(***************************************************************************)
(* A host that hears nothing, while others send.                           *)
LEMMA HeardElsewhere ==
  ASSUME NEW bufs, NEW n, NEW D, NEW L, NEW A, NEW S, Heard(bufs, n, D, L, A, S),
         NEW B, A \subseteq B
  PROVE  Heard(bufs, n, D, L, B, S)
BY HeardAmongMore DEF Heard

LEMMA HeardUnheard ==
  ASSUME HeardInv, \A h \in Hosts : Unheard(app[h], app'[h]),
         UNCHANGED <<delivered, swallowed>>, AllSent \subseteq AllSent',
         \A h \in Hosts : Landed(h)' = Landed(h)
  PROVE  HeardInv'
<1>1. ASSUME NEW h \in Hosts
      PROVE  Heard(app'[h].bufs, app'[h].numReceived, delivered'[h], Landed(h)', AllSent',
                   SwallowedAt(h)')
  <2>1. app'[h].bufs = app[h].bufs /\ app'[h].numReceived = app[h].numReceived
        /\ delivered'[h] = delivered[h] /\ SwallowedAt(h)' = SwallowedAt(h)
    BY DEF Unheard, SwallowedAt
  <2>2. Heard(app[h].bufs, app[h].numReceived, delivered[h], Landed(h), AllSent, SwallowedAt(h))
    BY DEF HeardInv
  <2>3. Heard(app[h].bufs, app[h].numReceived, delivered[h], Landed(h), AllSent',
              SwallowedAt(h))
    BY <2>2, HeardElsewhere
  <2> QED
    BY <2>1, <2>3
<1> QED
  BY <1>1 DEF HeardInv

(* The history of the sets of packets that left the network.               *)
LEMMA Leaves ==
  ASSUME NEW g \in Hosts, NEW h \in Hosts, Arrive(g, h) \/ Lose(g, h),
         NEW p, p = Head(network[<<g, h>>])
  PROVE  \/ /\ gone' = gone \cup {p} /\ UNCHANGED <<app, delivered, swallowed>>
         \/ /\ gone' = gone /\ ProcessPacket(h, p)
            /\ swallowed' \in {swallowed, swallowed \cup {p}}
<1>1. ASSUME ProcessPacket(h, p) PROVE swallowed' \in {swallowed, swallowed \cup {p}}
  BY <1>1, OnlyFirstIsSwallowed
<1> QED
  BY <1>1 DEF Arrive, Lose

LEMMA HeardNow ==
  ASSUME HeardInv, PathInv, GoneInv, NetworkInv, HostsInv,
         NEW g \in Hosts, NEW h \in Hosts, Arrive(g, h) \/ Lose(g, h)
  PROVE  HeardInv' /\ PathInv' /\ GoneInv'
<1> DEFINE p == Head(network[<<g, h>>])
           L == Landed(h)
           S == SwallowedAt(h)
<1>1. \/ /\ gone' = gone \cup {p} /\ UNCHANGED <<app, delivered, swallowed>>
      \/ /\ gone' = gone /\ ProcessPacket(h, p)
         /\ swallowed' \in {swallowed, swallowed \cup {p}}
  BY Leaves
<1>2. gone' \cup swallowed' \in {gone \cup swallowed, gone \cup swallowed \cup {p}}
  BY <1>1
<1>3. /\ PathInv' /\ GoneInv' /\ AllSent' = AllSent
      /\ p \in AllSent /\ p \in InFlight /\ p.src = g /\ p.dst = h
      /\ \A k \in Hosts : Landed(k)' = IF k = h /\ p \notin gone' \cup swallowed'
                                         THEN Landed(k) \cup {p} ELSE Landed(k)
      /\ Lands(p, L)
  BY <1>2, PathTail
<1> HIDE DEF p, L, S
<1>4. p \notin gone \cup swallowed
  BY <1>3 DEF GoneInv
<1>5. CASE gone' = gone \cup {p} /\ UNCHANGED <<app, delivered, swallowed>>
  <2>1. \A k \in Hosts : Landed(k)' = Landed(k)
    BY <1>3, <1>5
  <2> QED
    BY <2>1, <1>3, <1>5, HeardUnheard DEF Unheard
<1>6. CASE /\ gone' = gone /\ ProcessPacket(h, p)
           /\ swallowed' \in {swallowed, swallowed \cup {p}}
  <2>1. L \cup {p} \subseteq AllSent /\ \A x \in L : x.dst = p.dst
    BY <1>3 DEF L, Landed
  <2>2. p \notin S
    BY <1>4 DEF S, SwallowedAt
  <2>3. Heard(app[h].bufs, app[h].numReceived, delivered[h], L, AllSent, S)
        /\ DOMAIN delivered = Hosts
    BY DEF HeardInv, L, S
  <2>4. HeardThere(h, p, L, AllSent, S)
    BY <2>1, <2>2, <2>3, <1>3, <1>6, HeardArrival
  <2>5. Heard(app'[h].bufs, app'[h].numReceived, delivered'[h], Landed(h)', AllSent',
              SwallowedAt(h)')
    <3>1. CASE /\ swallowed' = swallowed
               /\ Heard(app'[h].bufs, app'[h].numReceived, delivered'[h], L \cup {p}, AllSent, S)
      <4>1. Landed(h)' = L \cup {p} /\ SwallowedAt(h)' = S
        BY <3>1, <1>3, <1>4, <1>6 DEF L, S, SwallowedAt
      <4> QED
        BY <3>1, <4>1, <1>3
    <3>2. CASE /\ swallowed' = swallowed \cup {p}
               /\ Heard(app'[h].bufs, app'[h].numReceived, delivered'[h], L, AllSent, S \cup {p})
      <4>1. Landed(h)' = L /\ SwallowedAt(h)' = S \cup {p}
        BY <3>2, <1>3, <1>6 DEF L, S, SwallowedAt
      <4> QED
        BY <3>2, <4>1, <1>3
    <3> QED
      BY <2>4, <3>1, <3>2 DEF HeardThere
  <2>6. ASSUME NEW k \in Hosts \ {h}
        PROVE  Heard(app'[k].bufs, app'[k].numReceived, delivered'[k], Landed(k)', AllSent',
                     SwallowedAt(k)')
    <3>1. app'[k] = app[k] /\ delivered'[k] = delivered[k]
      BY <2>4 DEF HeardThere
    <3>2. Landed(k)' = Landed(k) /\ AllSent' = AllSent
      BY <1>3
    <3>3. SwallowedAt(k)' = SwallowedAt(k)
      BY <1>3, <1>6 DEF SwallowedAt
    <3> QED
      BY <3>1, <3>2, <3>3 DEF HeardInv
  <2>7. DOMAIN delivered' = Hosts
    BY <2>4 DEF HeardThere
  <2> QED
    BY <2>5, <2>6, <2>7, <1>3 DEF HeardInv
<1> QED
  BY <1>1, <1>5, <1>6

UdpReceptionInv == HostsInv /\ NetworkInv /\ PathInv /\ GoneInv /\ HeardInv

LEMMA ReceptionNext ==
  ASSUME UdpReceptionInv, [Next]_vars PROVE UdpReceptionInv'
<1>1. HostsInv /\ NetworkInv /\ PathInv /\ GoneInv /\ HeardInv
  BY DEF UdpReceptionInv
<1>2. HostsInv' /\ NetworkMoves
  BY <1>1, HostsNext
<1>3. NetworkInv' /\ AllSent \subseteq AllSent'
  BY <1>1, <1>2, NetworkNext, AllSentGrows
<1>4. CASE Still
  <2>1. UNCHANGED <<network, sentTo, gone, swallowed>> /\ UNCHANGED <<delivered, swallowed>>
        /\ \A h \in Hosts : Unheard(app[h], app'[h])
    BY <1>4 DEF Still
  <2>2. PathInv' /\ GoneInv' /\ \A h \in Hosts : Landed(h)' = Landed(h)
    BY <2>1, <1>1, PathStill
  <2> QED
    BY <2>1, <2>2, <1>1, <1>2, <1>3, HeardUnheard DEF UdpReceptionInv
<1>5. CASE \E h \in Hosts : \E dst, packets : Sent(h, dst, packets)
  <2>1. PICK h \in Hosts : \E dst, packets : Sent(h, dst, packets)
    BY <1>5
  <2>2. PICK dst, packets : Sent(h, dst, packets)
    BY <2>1
  <2>3. PathInv' /\ GoneInv' /\ \A k \in Hosts : Landed(k)' = Landed(k)
    BY <2>2, <1>1, <1>2, PathSent
  <2>4. UNCHANGED <<delivered, swallowed>> /\ \A k \in Hosts : Unheard(app[k], app'[k])
    BY <2>2 DEF Sent
  <2> QED
    BY <2>3, <2>4, <1>1, <1>2, <1>3, HeardUnheard DEF UdpReceptionInv
<1>6. CASE \E g, h \in Hosts : Arrive(g, h) \/ Lose(g, h)
  BY <1>6, <1>1, <1>2, <1>3, HeardNow DEF UdpReceptionInv
<1> QED
  BY <1>2, <1>4, <1>5, <1>6 DEF NetworkMoves

LEMMA ReceptionInit ==
  ASSUME Init PROVE UdpReceptionInv
<1>1. HostsInv /\ NetworkInv
  BY HostsInit, NetworkInit
<1>2. /\ sentTo = [h \in Hosts |-> <<>>] /\ network = [c \in Hosts \X Hosts |-> <<>>]
      /\ gone = {} /\ swallowed = {} /\ delivered = [h \in Hosts |-> {}]
      /\ \A h \in Hosts : app[h].bufs = NoBuffers /\ app[h].numReceived = 0
  BY DEF Init, Fields
<1>3. \A h \in Hosts : ToSet(sentTo[h]) = {}
  BY <1>2 DEF ToSet
<1>4. AllSent = {}
  BY <1>3 DEF AllSent
<1>5. \A g, h \in Hosts : DOMAIN network[<<g, h>>] = {}
  BY <1>2
<1>6. PathInv
  BY <1>3, <1>5 DEF PathInv, PathOK
<1>7. GoneInv
  BY <1>2 DEF GoneInv
<1>8. ASSUME NEW h \in Hosts
      PROVE  Heard(app[h].bufs, app[h].numReceived, delivered[h], Landed(h), AllSent,
                   SwallowedAt(h))
  <2>1. Landed(h) = {} /\ SwallowedAt(h) = {} /\ delivered[h] = {}
    BY <1>2, <1>4 DEF Landed, SwallowedAt
  <2>2. BuffersOK(NoBuffers, {}) /\ DeliveredOK({}, NoBuffers, {})
        /\ HeardOK({}, NoBuffers, {}, AllSent)
    BY DEF BuffersOK, DeliveredOK, HeardOK, NoBuffers
  <2>3. IsFiniteSet({}) /\ Cardinality({}) = 0
    BY FS_EmptySet
  <2> QED
    BY <2>1, <2>2, <2>3, <1>2 DEF Heard
<1>9. HeardInv
  BY <1>2, <1>8 DEF HeardInv
<1> QED
  BY <1>1, <1>6, <1>7, <1>9 DEF UdpReceptionInv

(* What a host holds and has received comes from the packets that have     *)
(* landed there, in the order of each sender.                              *)
THEOREM UdpReceptionInvariant == Spec => []UdpReceptionInv
<1>1. Init => UdpReceptionInv
  BY ReceptionInit
<1>2. UdpReceptionInv /\ [Next]_vars => UdpReceptionInv'
  BY ReceptionNext
<1> QED
  BY <1>1, <1>2, PTL DEF Spec

-----------------------------------------------------------------------------
(***************************************************************************)
(* The properties.                                                         *)
(***************************************************************************)
(* Each datagram that a host counts is a new one, so that numReceived is   *)
(* the number of the datagrams and of the first packet, only counted.      *)
THEOREM CountedOnceHolds == Spec => []CountedOnce
<1>1. UdpReceptionInv => CountedOnce
  BY DEF UdpReceptionInv, HeardInv, Heard, CountedOnce, SwallowedAt
<1> QED
  BY <1>1, UdpReceptionInvariant, PTL

(* The last packet of a message is the only one.                           *)
LEMMA OneLast ==
  ASSUME HostsInv, NEW p \in AllSent, NEW q \in AllSent, ~p.more, ~q.more,
         p.src = q.src, p.seq = q.seq
  PROVE  p = q
<1>1. /\ p \in Packet /\ q \in Packet /\ p.src \in Hosts
      /\ p \in ToSet(sentTo[p.src]) /\ q \in ToSet(sentTo[p.src])
  BY AllSentFacts
<1>2. p = q \/ Earlier(p, q) \/ Earlier(q, p)
  BY <1>1, SentFacts
<1> QED
  BY <1>1, <1>2, EarlierFacts

LEMMA LastByteFacts ==
  ASSUME HostsInv, NEW q \in AllSent, ~q.more
  PROVE  LastByte(q.src, q.seq) = End(q) - 1
<1> DEFINE g == q.src
           k == q.seq
           S == { p.offset + p.len - 1 : p \in ToSet(sentTo[g]) }
           P(n) == \E p \in ToSet(sentTo[g]) : p.seq = k /\ ~p.more /\ n = p.offset + p.len - 1
<1>1. q \in Packet /\ g \in Hosts /\ q \in ToSet(sentTo[g])
  BY AllSentFacts
<1>2. ASSUME NEW n, P(n) PROVE n = End(q) - 1
  <2>1. PICK p \in ToSet(sentTo[g]) : p.seq = k /\ ~p.more /\ n = p.offset + p.len - 1
    BY <1>2
  <2>2. p \in AllSent /\ p.src = g
    BY <2>1, <1>1, SentFacts DEF AllSent, PacketOf
  <2>3. p = q
    BY <2>1, <2>2, OneLast
  <2> QED
    BY <2>1, <2>3, <1>1 DEF End, Packet
<1>3. q.offset + q.len - 1 \in S /\ P(q.offset + q.len - 1)
  BY <1>1
<1>4. LastByte(g, k) = CHOOSE n \in S : P(n)
  BY DEF LastByte
<1> HIDE DEF S, P, g, k
<1>5. P(CHOOSE n \in S : P(n))
  BY <1>3
<1> QED
  BY <1>2, <1>4, <1>5 DEF g, k

(* A datagram that holds bytes of one message holds all of it, each byte   *)
(* at its place: the length was set by the last fragment of that message,  *)
(* whatever else went through the buffer.                                  *)
THEOREM ReceivedInFullHolds == Spec => []ReceivedInFull
<1>1. UdpReceptionInv => ReceivedInFull
  <2> SUFFICES ASSUME UdpReceptionInv, NEW h \in Hosts, NEW d \in delivered[h],
                      NEW m \in OwnersOf(d), OwnersOf(d) = {m}
               PROVE  /\ DOMAIN d.bytes = 0 .. LastByte(m.src, m.seq)
                      /\ \A i \in DOMAIN d.bytes : d.bytes[i].at = i
    BY DEF ReceivedInFull
  <2> DEFINE L == Landed(h)
  <2>1. HostsInv /\ L \subseteq AllSent
    BY DEF UdpReceptionInv, Landed
  <2>2. L \subseteq Packet
    BY <2>1, AllSentFacts
  <2>3. (\E q \in L : WholeOf(d, q)) \/ Assembled(d, app[h].bufs, L)
    BY DEF UdpReceptionInv, HeardInv, Heard, DeliveredOK
  <2> HIDE DEF L
  <2>4. ASSUME NEW q \in L, ~q.more, q.src = m.src, q.seq = m.seq, d.len = End(q)
        PROVE  d.len - 1 = LastByte(m.src, m.seq)
    BY <2>1, <2>4, LastByteFacts
  <2>5. CASE \E q \in L : WholeOf(d, q)
    <3>1. PICK q \in L : WholeOf(d, q)
      BY <2>5
    <3>2. ~q.more /\ q.offset = 0 /\ q.len \in Nat \ {0}
      BY <3>1, <2>2 DEF WholeOf, IsWhole, Packet
    <3>3. d.bytes = [ i \in 0 .. q.len - 1 |-> PacketByte(q, i) ] /\ d.len = q.len
      BY <3>1 DEF WholeOf, Datagram
    <3>4. \A i \in DOMAIN d.bytes : d.bytes[i].src = q.src /\ d.bytes[i].seq = q.seq
                                    /\ d.bytes[i].at = i
      BY <3>2, <3>3 DEF PacketByte
    <3>5. m.src = q.src /\ m.seq = q.seq
      BY <3>4 DEF OwnersOf
    <3>6. d.len = End(q)
      BY <3>2, <3>3 DEF End
    <3> QED
      BY <3>2, <3>3, <3>4, <3>5, <3>6, <2>4
  <2>6. CASE Assembled(d, app[h].bufs, L)
    <3>1. PICK key : \A i \in DOMAIN d.bytes : From(d.bytes[i], i, key, L)
      BY <2>6 DEF Assembled
    <3>2. \A i \in DOMAIN d.bytes : d.bytes[i].at = i
      BY <3>1, <2>2, FromFacts
    <3>3. PICK q \in L : ~q.more /\ q.src = m.src /\ q.seq = m.seq /\ d.len = End(q)
      BY <2>6 DEF Assembled, EndsAs
    <3> QED
      BY <3>2, <3>3, <2>4, <2>6 DEF Assembled
  <2> QED
    BY <2>3, <2>5, <2>6
<1> QED
  BY <1>1, UdpReceptionInvariant, PTL

-----------------------------------------------------------------------------
(***************************************************************************)
(* The fragments of a message, from its first byte on.                     *)
(***************************************************************************)
(* Induction over the naturals, as a fact about the set S.                 *)
NatLess == { c \in Nat \X Nat : c[1] < c[2] }

LEMMA LeastElement ==
  ASSUME NEW S, S \subseteq Nat, S # {}
  PROVE  \E n \in S : \A m \in S : n <= m
<1>1. IsWellFoundedOn(NatLess, Nat)
  BY NatLessThanWellFounded DEF OpToRel, NatLess
<1>2. PICK n \in S : \A m \in S : ~ (<<m, n>> \in NatLess)
  BY <1>1, WFMin
<1>3. \A m, k \in Nat : <<m, k>> \in NatLess <=> m < k
  BY DEF NatLess
<1>4. \A m \in S : ~(m < n)
  BY <1>2, <1>3
<1> QED
  BY <1>4

LEMMA SetInduction ==
  ASSUME NEW S, 0 \in S, \A n \in Nat : n \in S => n + 1 \in S
  PROVE  Nat \subseteq S
<1> DEFINE T == Nat \ S
<1> SUFFICES ASSUME T # {} PROVE FALSE
  OBVIOUS
<1>1. T \subseteq Nat
  OBVIOUS
<1> HIDE DEF T
<1>2. PICK n \in T : \A m \in T : n <= m
  BY <1>1, LeastElement
<1>3. n \in Nat /\ n # 0 /\ n \notin S
  BY <1>1, <1>2 DEF T
<1>4. n - 1 \in Nat /\ n - 1 \notin T
  BY <1>2, <1>3
<1>5. n - 1 \in S /\ (n - 1) + 1 = n
  BY <1>3, <1>4 DEF T
<1> QED
  BY <1>3, <1>4, <1>5

(* Each byte of the message up to the end of s[k] is in a packet of s.     *)
Covered(s, k) ==
  \A i \in Nat : i < End(s[k]) =>
    \E j \in DOMAIN s : /\ s[j].seq = s[k].seq /\ s[j].dst = s[k].dst
                        /\ s[j].offset <= i /\ i < End(s[j])

LEMMA CoveredUpTo ==
  ASSUME NEW s \in Seq(Packet), InSequence(s), s # <<>> => s[1].offset = 0,
         NEW k \in DOMAIN s
  PROVE  Covered(s, k)
<1> DEFINE S == { n \in Nat : n + 1 \in DOMAIN s => Covered(s, n + 1) }
<1>1. DOMAIN s = 1 .. Len(s) /\ Len(s) \in Nat /\ \A i \in DOMAIN s : s[i] \in Packet
  BY LenProperties
<1>2. \A i \in DOMAIN s : s[i].offset \in Nat /\ s[i].len \in Nat \ {0}
  BY <1>1 DEF Packet
<1>3. 0 \in S
  <2> SUFFICES ASSUME 1 \in DOMAIN s PROVE Covered(s, 1)
    OBVIOUS
  <2>1. s[1].offset = 0
    BY <1>1, EmptySeq
  <2> QED
    BY <2>1 DEF Covered
<1>4. ASSUME NEW n \in Nat, n \in S PROVE n + 1 \in S
  <2> SUFFICES ASSUME (n + 1) + 1 \in DOMAIN s PROVE Covered(s, (n + 1) + 1)
    BY <1>4
  <2> DEFINE m == n + 1
             p == s[m]
             q == s[m + 1]
  <2>1. m \in DOMAIN s /\ m \in 1 .. Len(s) - 1 /\ m + 1 \in DOMAIN s
    BY <1>1
  <2>2. Covered(s, m)
    BY <1>4, <2>1
  <2>3. Follows(p, q)
    BY <2>1 DEF InSequence
  <2> HIDE DEF m
  <2>4. ASSUME NEW i \in Nat, i < End(q)
        PROVE  \E j \in DOMAIN s : /\ s[j].seq = q.seq /\ s[j].dst = q.dst
                                   /\ s[j].offset <= i /\ i < End(s[j])
    <3>1. CASE q.offset <= i
      BY <3>1, <2>1, <2>4
    <3>2. CASE ~(q.offset <= i)
      <4>1. p.offset \in Nat /\ p.len \in Nat /\ q.offset \in Nat
        BY <1>2, <2>1
      <4>2. p.more
        BY <3>2, <4>1, <2>3 DEF Follows
      <4>3. q.seq = p.seq /\ q.dst = p.dst /\ q.offset = End(p)
        BY <4>2, <2>3 DEF Follows, End
      <4>4. i < End(p)
        BY <3>2, <4>1, <4>3 DEF End
      <4> QED
        BY <4>3, <4>4, <2>2 DEF Covered
    <3> QED
      BY <3>1, <3>2
  <2> QED
    BY <2>4 DEF Covered, m
<1>5. Nat \subseteq S
  <2> HIDE DEF S
  <2> QED
    BY <1>3, <1>4, SetInduction
<1>6. k - 1 \in Nat /\ (k - 1) + 1 = k
  BY <1>1
<1> QED
  BY <1>5, <1>6

(* A message of which every packet has arrived has been received, unless   *)
(* another one goes into its buffer: its fragments wait there, they cover  *)
(* it from its first byte to its last, and so the buffer is complete.      *)
THEOREM ArrivedIsCountedHolds == Spec => []ArrivedIsCounted
<1>1. UdpReceptionInv => ArrivedIsCounted
  <2> SUFFICES ASSUME UdpReceptionInv, NEW p \in AllSent, ~p.more, p.src \notin redrawn,
                      \A q \in SharesKey(p) : q.src = p.src /\ q.seq = p.seq,
                      SharesKey(p) \cap (InFlight \cup gone \cup swallowed) = {}
               PROVE  Has(delivered[p.dst], p)
    BY DEF ArrivedIsCounted, Has, MessageOf
  <2> DEFINE h == p.dst
             L == Landed(h)
             D == delivered[h]
             bufs == app[h].bufs
             g == p.src
             s == sentTo[g]
             b == bufs[Key(p)]
  <2>1. HostsInv /\ p \in Packet /\ h \in Hosts /\ g \in Hosts /\ p \in ToSet(s)
    BY AllSentFacts DEF UdpReceptionInv, Packet
  <2>2. BuffersOK(bufs, L) /\ HeardOK(D, bufs, L, AllSent)
    BY <2>1 DEF UdpReceptionInv, HeardInv, Heard
  <2>3. OwnKey(p, AllSent)
    BY DEF OwnKey, SharesKey
  <2>4. L \subseteq AllSent /\ L \subseteq Packet /\ \A x \in L : x.dst = h
    BY <2>1, AllSentFacts DEF Landed
  <2>5. ASSUME NEW x \in AllSent, x.src = p.src, x.seq = p.seq, x.dst = p.dst
        PROVE  x \in L /\ Key(x) = Key(p)
    <3>1. x.id = p.id
      BY <2>1, <2>5, AllSentFacts, SentFacts DEF PacketOf
    <3>2. Key(x) = Key(p) /\ x \in SharesKey(p)
      BY <3>1, <2>5 DEF Key, SharesKey
    <3> QED
      BY <3>2, <2>5 DEF Landed
  <2>6. p \in L
    BY <2>5
  <2>7. /\ s \in Seq(Packet) /\ InSequence(s)
        /\ s # <<>> => s[1].offset = 0
    <3>1. HostInv(g, app[g], s, g \notin redrawn)
      BY <2>1, HostFacts
    <3> QED
      BY <3>1 DEF HostInv, SentBefore, Apart
  <2> HIDE DEF L, D, bufs, g, s, h
  <2>8. CASE IsWhole(p)
    BY <2>2, <2>6, <2>8 DEF HeardOK, D, h
  <2>9. CASE ~IsWhole(p)
    <3> SUFFICES ASSUME ~Has(D, p) PROVE FALSE
      BY DEF D, h
    <3>1. Waits(p, bufs)
      BY <2>2, <2>3, <2>6, <2>9 DEF HeardOK
    <3>2. Key(p) \in DOMAIN bufs /\ b.expectedLength = End(p)
      BY <3>1 DEF Waits
    <3>3. BufferOK(b, Key(p), L) /\ ~IsComplete(b)
      BY <3>2, <2>2 DEF BuffersOK
    <3> HIDE DEF b
    <3>4. p.offset \in Nat /\ p.len \in Nat \ {0} /\ End(p) = p.offset + p.len
      BY <2>1 DEF Packet, End
    <3>5. ASSUME NEW i \in DOMAIN b.bytes PROVE i \in 0 .. End(p) - 1
      <4>1. From(b.bytes[i], i, Key(p), L)
        BY <3>3 DEF BufferOK
      <4>2. PICK q \in L : Key(q) = Key(p) /\ i < End(q) /\ i \in Nat
        BY <4>1, <2>4, FromFacts
      <4>3. q \in AllSent /\ q \in Packet /\ q.src = p.src /\ q.seq = p.seq
        BY <4>2, <2>3, <2>4 DEF OwnKey, h
      <4>4. q = p \/ Earlier(q, p) \/ Earlier(p, q)
        BY <4>3, <2>1, AllSentFacts, SentFacts DEF g, s
      <4>5. End(q) <= End(p)
        <5>1. CASE q = p
          BY <5>1, <3>4
        <5>2. CASE Earlier(q, p)
          <6>1. End(q) <= p.offset /\ q.offset \in Nat /\ q.len \in Nat
            BY <5>2, <4>3, <2>1, <2>9, EarlierFacts DEF Packet
          <6> QED
            BY <6>1, <3>4 DEF End
        <5>3. CASE Earlier(p, q)
          BY <5>3, <4>3, <2>1, EarlierFacts
        <5> QED
          BY <4>4, <5>1, <5>2, <5>3
      <4>6. q.offset \in Nat /\ q.len \in Nat
        BY <4>3 DEF Packet
      <4> QED
        BY <4>2, <4>5, <4>6, <3>4 DEF End
    <3>6. ASSUME NEW i \in 0 .. End(p) - 1 PROVE i \in DOMAIN b.bytes
      <4>1. PICK k \in DOMAIN s : p = s[k]
        BY <2>1 DEF ToSet, s, g
      <4>2. Covered(s, k)
        BY <2>7, CoveredUpTo
      <4>3. i \in Nat /\ i < End(p)
        BY <3>4
      <4>4. PICK j \in DOMAIN s : /\ s[j].seq = p.seq /\ s[j].dst = p.dst
                                  /\ s[j].offset <= i /\ i < End(s[j])
        BY <4>1, <4>2, <4>3 DEF Covered
      <4> DEFINE x == s[j]
      <4>5. x \in ToSet(s)
        BY DEF ToSet
      <4>6. x.seq = p.seq /\ x.dst = p.dst /\ x.offset <= i /\ i < End(x)
        BY <4>4
      <4> HIDE DEF x
      <4>7. x \in AllSent /\ x.src = p.src /\ x \in Packet
        BY <4>5, <2>1, SentFacts DEF AllSent, PacketOf, s, g
      <4>8. x \in L /\ Key(x) = Key(p)
        BY <4>6, <4>7, <2>5
      <4>9. ~IsWhole(x)
        BY <4>6, <4>7, <2>1, <2>9, OneLast DEF IsWhole
      <4>10. OwnKey(x, AllSent)
        BY <4>6, <4>7, <4>8, <2>3 DEF OwnKey
      <4>11. ~Has(D, x)
        BY <4>6, <4>7 DEF Has, MessageOf
      <4>12. x.offset .. End(x) - 1 \subseteq DOMAIN b.bytes
        BY <4>8, <4>9, <4>10, <4>11, <2>2 DEF HeardOK, Waits, b
      <4>13. i \in x.offset .. End(x) - 1
        BY <4>3, <4>6, <4>7 DEF End, Packet
      <4> QED
        BY <4>12, <4>13
    <3>7. DOMAIN b.bytes = 0 .. End(p) - 1
      BY <3>5, <3>6
    <3> QED
      BY <3>2, <3>3, <3>4, <3>7 DEF IsComplete
  <2> QED
    BY <2>8, <2>9
<1> QED
  BY <1>1, UdpReceptionInvariant, PTL

=============================================================================
