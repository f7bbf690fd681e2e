------------------------ MODULE MyUdpBasicAppProofs -------------------------
(***************************************************************************)
(* The packets of a host running MyUdpBasicApp are its messages one after  *)
(* the other, for any lengths, hosts, losses and lifecycle operations.     *)
(***************************************************************************)
EXTENDS MyUdpBasicApp, SequenceTheorems, TLAPS

(* The fields of an application, its buffers in B.                         *)
FieldsOf(h, B) ==
  [ state : {"OPERATING", "STOPPING", "NOT_OPERATING"},
    selfMsg : {"NONE", "START", "SEND", "STOP"},
    sockState : {"CLOSED", "CONNECTED"}, udpSocket : {"none", "ephemeral", "bound"},
    closing : BOOLEAN, numSent : 0 .. PacketsToSend[h], offset : Nat, messageLength : Nat,
    destAddr : Hosts \cup {NoHost}, endTxTimer : {"idle", "scheduled", "due"},
    busy : BOOLEAN, numReceived : Nat, bufs : B ]

(* Offset lies within the long message, and at its end the timer is set    *)
(* that will reset it.                                                     *)
WithinMessage(h, a) ==
  \E long \in MessageLengths[h] :
    /\ long > FragmentSize /\ a.offset <= long
    /\ a.offset = long => a.endTxTimer # "idle" /\ a.messageLength <= a.offset

AppInv(h, a) ==
  /\ a \in FieldsOf(h, {a.bufs})
  /\ a.selfMsg = "START" => a.udpSocket # "bound"
  /\ a.state = "NOT_OPERATING" => a.udpSocket = "none" /\ a.selfMsg = "NONE"
  /\ a.selfMsg = "SEND" => a.sockState = "CONNECTED"
  /\ ~HasChannel[h] => a.endTxTimer = "idle" /\ a.offset = 0
  /\ a.endTxTimer # "idle" => a.offset # 0
  /\ a.offset # 0 => WithinMessage(h, a)

-----------------------------------------------------------------------------
(***************************************************************************)
(* How the packets of a host are cut.                                      *)
(***************************************************************************)
IsWhole(p) == p.offset = 0 /\ ~p.more

End(p) == p.offset + p.len

Aligned(x) == \E k \in Nat : x = k * FragmentSize

(* A packet begins at a multiple of fragmentSize, and only the last one of *)
(* a message may be shorter.                                               *)
CutOK(p) ==
  Aligned(p.offset) /\ p.len <= FragmentSize /\ (p.more => p.len = FragmentSize)

(* The order in which packets are sent: a whole message may come after     *)
(* fragments with its number, where the length was drawn anew.             *)
Earlier(p, q) ==
  \/ p.seq < q.seq
  \/ p.seq = q.seq /\ p.more /\ (IsWhole(q) \/ End(p) <= q.offset)

(* Where the next fragment begins.                                         *)
AlignedWithin(h, a) ==
  \A long \in MessageLengths[h] : long > FragmentSize /\ a.offset < long => Aligned(a.offset)

(* The fields a have left the packet p behind: its message, or a part of   *)
(* the message that is not yet complete.                                   *)
Past(a, p) ==
  \/ p.seq < a.numSent
  \/ p.seq = a.numSent /\ p.more /\ End(p) <= a.offset /\ a.offset < a.messageLength

Apart(h, a, s) ==
  /\ AlignedWithin(h, a)
  /\ \A i \in DOMAIN s : CutOK(s[i]) /\ Past(a, s[i])
  /\ \A i, j \in DOMAIN s : i < j => Earlier(s[i], s[j])
  /\ s # <<>> => s[1].offset = 0

(* The multiples of fragmentSize.                                          *)
LEMMA AlignedFacts ==
  ASSUME NEW x \in Nat, Aligned(x)
  PROVE  /\ Aligned(x + FragmentSize)
         /\ x # 0 => x >= FragmentSize
         /\ \A y \in Nat : Aligned(y) /\ x <= y /\ y < x + FragmentSize => y = x
<1> DEFINE n == FragmentSize
<1>1. n \in Nat \ {0}
  BY UdpAppAssumption
<1>2. PICK k \in Nat : x = k * n
  BY DEF Aligned
<1> HIDE DEF n
<1>3. \A i \in Nat : i * n \in Nat /\ (i + 1) * n = i * n + n
  BY <1>1
<1>4. ASSUME NEW i \in Nat, NEW j \in Nat, i <= j PROVE i * n <= j * n
  <2>1. (j - i) * n \in Nat
    BY <1>1, <1>3, <1>4
  <2>2. j * n = i * n + (j - i) * n
    BY <1>1, <1>4
  <2> QED
    BY <2>1, <2>2, <1>3
<1>5. x + n = (k + 1) * n /\ k + 1 \in Nat
  BY <1>2, <1>3
<1>6. x # 0 => x >= n
  <2>1. k = 0 => x = 0
    BY <1>1, <1>2
  <2>2. k >= 1 => 1 * n <= k * n /\ 1 * n = n
    BY <1>1, <1>4
  <2> QED
    BY <2>1, <2>2, <1>2
<1>7. ASSUME NEW y \in Nat, Aligned(y), x <= y, y < x + n PROVE y = x
  <2>1. PICK j \in Nat : y = j * n
    BY <1>7 DEF Aligned, n
  <2>2. j >= k + 1 => (k + 1) * n <= y
    BY <2>1, <1>4
  <2>3. j < k => (j + 1) * n <= x
    BY <2>1, <1>2, <1>4
  <2>4. (j + 1) * n = y + n
    BY <2>1, <1>3
  <2>5. ~(j >= k + 1) /\ ~(j < k)
    BY <2>2, <2>3, <2>4, <1>1, <1>5, <1>7
  <2>6. j = k
    BY <2>5
  <2> QED
    BY <2>1, <2>6, <1>2
<1> QED
  BY <1>5, <1>6, <1>7 DEF Aligned, n

LEMMA AlignedZero == Aligned(0)
<1>1. FragmentSize \in Nat
  BY UdpAppAssumption
<1>2. 0 = 0 * FragmentSize
  BY <1>1
<1> QED
  BY <1>2 DEF Aligned

(* Only three of the fields matter.                                        *)
LEMMA ApartKept ==
  ASSUME NEW h, NEW a, NEW b, NEW s, Apart(h, a, s), b.numSent = a.numSent,
         b.offset = a.offset, b.messageLength = a.messageLength
  PROVE  Apart(h, b, s)
BY DEF Apart, AlignedWithin, Past

-----------------------------------------------------------------------------
(***************************************************************************)
(* Records.                                                                *)
(***************************************************************************)
UsingOK(h, B, a, x) ==
  /\ x \in FieldsOf(h, B) /\ x.sockState = "CONNECTED" /\ x.busy = HasChannel[h]
  /\ x.udpSocket = IF a.udpSocket = "none" THEN "ephemeral" ELSE a.udpSocket
  /\ x.state = a.state /\ x.selfMsg = a.selfMsg /\ x.closing = a.closing
  /\ x.numSent = a.numSent /\ x.offset = a.offset /\ x.endTxTimer = a.endTxTimer
  /\ x.messageLength = a.messageLength /\ x.destAddr = a.destAddr
  /\ x.numReceived = a.numReceived /\ x.bufs = a.bufs

(* What the socket needs when it is used.                                  *)
LEMMA UsingFacts ==
  ASSUME NEW h \in Hosts, NEW B, NEW a \in FieldsOf(h, B)
  PROVE  UsingOK(h, B, a, Using(h, a))
BY UdpAppAssumption DEF FieldsOf, Using, UsingOK

LEMMA ProgressFacts ==
  ASSUME NEW h \in Hosts, NEW B, NEW a \in FieldsOf(h, B), NEW len \in Nat,
         NEW timer \in {"idle", "scheduled", "due"}, NEW offset \in Nat,
         NEW n \in 0 .. PacketsToSend[h]
  PROVE  LET x == [a EXCEPT !.messageLength = len, !.endTxTimer = timer, !.offset = offset,
                            !.numSent = n]
         IN  /\ x \in FieldsOf(h, B) /\ x.messageLength = len /\ x.endTxTimer = timer
             /\ x.offset = offset /\ x.numSent = n
             /\ x.sockState = a.sockState /\ x.busy = a.busy /\ x.udpSocket = a.udpSocket
             /\ x.state = a.state /\ x.selfMsg = a.selfMsg /\ x.closing = a.closing
             /\ x.destAddr = a.destAddr /\ x.numReceived = a.numReceived /\ x.bufs = a.bufs
BY DEF FieldsOf
-----------------------------------------------------------------------------
(***************************************************************************)
(* sendPacket.                                                             *)
(***************************************************************************)
InSequence(s) == \A i \in 1 .. Len(s) - 1 : Follows(s[i], s[i + 1])

(* What sendPacket leaves in the fields, and gives to the socket.          *)
FieldsKept(a, b) ==
  /\ b.state = a.state /\ b.selfMsg = a.selfMsg /\ b.closing = a.closing
  /\ b.destAddr = a.destAddr /\ b.numReceived = a.numReceived /\ b.bufs = a.bufs

PacketsOf(h, a, packets) ==
  /\ packets \in Seq(Packet) /\ packets # <<>> /\ InSequence(packets)
  /\ \A i \in DOMAIN packets : packets[i].src = h /\ packets[i].dst = a.destAddr
                               /\ packets[i].seq = a.numSent /\ packets[i].id = Id(h, a)

(* From the first packet to the fields that are left.                      *)
Continues(a, len, packets, b) ==
  LET q == packets[Len(packets)]
  IN  /\ packets[1].offset = IF len > FragmentSize THEN a.offset ELSE 0
      /\ len > FragmentSize => a.offset = 0 \/ a.endTxTimer = "idle"
      /\ q.more => /\ b.numSent = a.numSent /\ b.offset = q.offset + q.len
                   /\ b.offset < b.messageLength /\ b.endTxTimer # "idle"
                   /\ len > FragmentSize
      /\ ~q.more => /\ b.numSent = a.numSent + 1
                    /\ len <= FragmentSize => b.offset = a.offset
                    /\ len > FragmentSize => \/ b.offset = 0
                                             \/ b.offset = len /\ b.endTxTimer # "idle"
      /\ b.messageLength = len /\ b.sockState = "CONNECTED"

(* How they are cut.                                                       *)
CutFrom(h, a, len, packets, b) ==
  /\ \A i \in DOMAIN packets :
       /\ CutOK(packets[i])
       /\ len <= FragmentSize => IsWhole(packets[i])
       /\ len > FragmentSize => ~IsWhole(packets[i]) /\ packets[i].offset >= a.offset
  /\ \A i, j \in DOMAIN packets : i < j => Earlier(packets[i], packets[j])
  /\ AlignedWithin(h, b)

SentOK(h, a, len, r) ==
  /\ AppInv(h, r.app) /\ FieldsKept(a, r.app)
  /\ PacketsOf(h, a, r.packets) /\ Continues(a, len, r.packets, r.app)
  /\ CutFrom(h, a, len, r.packets, r.app)

(* What is assumed of the fields before.                                   *)
MaySend(h, a, len) ==
  /\ AppInv(h, a) /\ a.state # "NOT_OPERATING" /\ a.destAddr \in Hosts
  /\ len \in Draws(h, a) /\ a.numSent < PacketsToSend[h] /\ AlignedWithin(h, a)

(* The lengths that are drawn.                                             *)
LEMMA DrawnLength ==
  ASSUME NEW h \in Hosts, NEW a, NEW len \in Draws(h, a)
  PROVE  /\ len \in Nat \ {0}
         /\ len > FragmentSize => /\ len \in MessageLengths[h]
                                  /\ \A m \in MessageLengths[h] : m > FragmentSize => m = len
<1>1. FirstPacket \in Nat \ {0} /\ FirstPacket <= FragmentSize /\ FragmentSize \in Nat \ {0}
  BY UdpAppAssumption
<1>2. MessageLengths[h] \subseteq Nat \ {0}
  BY UdpAppAssumption
<1>3. len = FirstPacket \/ len \in MessageLengths[h]
  BY DEF Draws
<1>4. \A m, n \in MessageLengths[h] : m > FragmentSize /\ n > FragmentSize => m = n
  BY UdpAppAssumption
<1> QED
  BY <1>1, <1>2, <1>3, <1>4

(* A packet of the host.                                                   *)
FragmentOK(h, a, from, n, more) ==
  LET p == Fragment(h, a, from, n, more)
  IN  /\ p \in Packet /\ p.src = h /\ p.dst = a.destAddr /\ p.seq = a.numSent
      /\ p.id = Id(h, a) /\ p.offset = from /\ p.len = n /\ p.more = more

(* Its fields.                                                             *)
LEMMA FragmentFacts ==
  ASSUME NEW h \in Hosts, NEW a, AppInv(h, a), a.destAddr \in Hosts, NEW from \in Nat,
         NEW n \in Nat \ {0}, NEW more \in BOOLEAN
  PROVE  FragmentOK(h, a, from, n, more)
<1>1. a.numSent \in Nat
  BY UdpAppAssumption DEF AppInv, FieldsOf
<1>2. Id(h, a) \in Nat
  BY <1>1, UdpAppAssumption DEF Id
<1> QED
  BY <1>1, <1>2 DEF Fragment, Packet, FragmentOK

(* One packet alone.                                                       *)
LEMMA OnePacket ==
  ASSUME NEW h, NEW a, NEW p \in Packet, p.src = h, p.dst = a.destAddr,
         p.seq = a.numSent, p.id = Id(h, a)
  PROVE  PacketsOf(h, a, <<p>>) /\ <<p>>[1] = p /\ <<p>>[Len(<<p>>)] = p
BY DEF PacketsOf, InSequence

(* The whole message.                                                      *)
LEMMA WholeFacts ==
  ASSUME NEW h \in Hosts, NEW a, NEW len, MaySend(h, a, len), len <= FragmentSize
  PROVE  SentOK(h, a, len, Whole(h, a, len))
<1> DEFINE r == Whole(h, a, len)
           u == Using(h, a)
           b == [ u EXCEPT !.messageLength = len, !.numSent = a.numSent + 1 ]
           p == Fragment(h, a, 0, len, FALSE)
           s == <<p>>
<1>1. a \in FieldsOf(h, {a.bufs}) /\ a.destAddr \in Hosts /\ AppInv(h, a)
  BY DEF MaySend, AppInv
<1>2. a.numSent + 1 \in 0 .. PacketsToSend[h] /\ a.offset \in Nat
      /\ a.endTxTimer \in {"idle", "scheduled", "due"}
  BY <1>1, UdpAppAssumption DEF MaySend, FieldsOf
<1>3. len \in Nat \ {0} /\ ~(len > FragmentSize)
  BY DrawnLength, UdpAppAssumption DEF MaySend
<1>u. UsingOK(h, {a.bufs}, a, u)
  BY <1>1, UsingFacts
<1>4. /\ u \in FieldsOf(h, {a.bufs}) /\ u.sockState = "CONNECTED" /\ u.busy = HasChannel[h]
      /\ u.udpSocket = IF a.udpSocket = "none" THEN "ephemeral" ELSE a.udpSocket
      /\ u.state = a.state /\ u.selfMsg = a.selfMsg /\ u.closing = a.closing
      /\ u.numSent = a.numSent /\ u.offset = a.offset /\ u.endTxTimer = a.endTxTimer
      /\ u.messageLength = a.messageLength /\ u.destAddr = a.destAddr
      /\ u.numReceived = a.numReceived /\ u.bufs = a.bufs
  BY <1>u DEF UsingOK
<1> HIDE DEF u
<1>5. /\ b \in FieldsOf(h, {a.bufs}) /\ b.messageLength = len /\ b.endTxTimer = a.endTxTimer
      /\ b.offset = a.offset /\ b.numSent = a.numSent + 1
      /\ b.sockState = u.sockState /\ b.busy = u.busy /\ b.udpSocket = u.udpSocket
      /\ b.state = a.state /\ b.selfMsg = a.selfMsg /\ b.closing = a.closing
      /\ b.destAddr = a.destAddr /\ b.numReceived = a.numReceived /\ b.bufs = a.bufs
  BY <1>2, <1>3, <1>4 DEF FieldsOf
<1>6. r.app = b /\ r.packets = s
  BY <1>4 DEF Whole, Result, u
<1> HIDE DEF b, r
<1>7. AppInv(h, b)
  <2>1. WithinMessage(h, a) => WithinMessage(h, b)
    BY <1>2, <1>3, <1>5, UdpAppAssumption DEF WithinMessage
  <2> QED
    BY <1>1, <1>4, <1>5, <2>1 DEF AppInv, MaySend
<1>8. /\ p \in Packet /\ p.src = h /\ p.dst = a.destAddr /\ p.seq = a.numSent
      /\ p.id = Id(h, a) /\ p.offset = 0 /\ p.len = len /\ p.more = FALSE
  <2>1. 0 \in Nat /\ FALSE \in BOOLEAN /\ AppInv(h, a) /\ a.destAddr \in Hosts /\ len \in Nat \ {0}
    BY <1>1, <1>3
  <2>2. FragmentOK(h, a, 0, len, FALSE)
    BY <2>1, FragmentFacts
  <2> QED
    BY <2>2 DEF FragmentOK
<1> HIDE DEF p
<1>9. PacketsOf(h, a, s) /\ s[1] = p /\ s[Len(s)] = p
  BY <1>8, OnePacket
<1> HIDE DEF s
<1>10. Continues(a, len, s, b)
  BY <1>3, <1>4, <1>5, <1>8, <1>9 DEF Continues
<1>11. CutFrom(h, a, len, s, b)
  <2>1. DOMAIN s = {1} /\ s[1] = p
    BY DEF s
  <2>2. CutOK(p) /\ IsWhole(p)
    BY <1>8, AlignedZero DEF CutOK, IsWhole
  <2>3. AlignedWithin(h, b)
    BY <1>5 DEF AlignedWithin, MaySend
  <2>4. ~(len > FragmentSize)
    BY <1>3
  <2> QED
    BY <2>1, <2>2, <2>3, <2>4 DEF CutFrom
<1> QED
  BY <1>5, <1>6, <1>7, <1>9, <1>10, <1>11 DEF SentOK, FieldsKept, r

(* The next fragment of a message.                                         *)
LEMMA NextFragmentFacts ==
  ASSUME NEW h \in Hosts, NEW a, NEW len, MaySend(h, a, len), len > FragmentSize,
         HasChannel[h], NextFragment(h, a, len).error = "none"
  PROVE  SentOK(h, a, len, NextFragment(h, a, len))
<1> DEFINE r == NextFragment(h, a, len)
           u == Using(h, a)
<1>1. a \in FieldsOf(h, {a.bufs}) /\ a.destAddr \in Hosts /\ AppInv(h, a)
      /\ a.state # "NOT_OPERATING"
  BY DEF MaySend, AppInv
<1>2. a.numSent \in Nat /\ a.numSent + 1 \in 0 .. PacketsToSend[h] /\ a.offset \in Nat
      /\ a.numSent \in 0 .. PacketsToSend[h]
  BY <1>1, UdpAppAssumption DEF MaySend, FieldsOf
<1>3. /\ len \in Nat \ {0} /\ len \in MessageLengths[h] /\ FragmentSize \in Nat \ {0}
      /\ \A m \in MessageLengths[h] : m > FragmentSize => m = len
  BY DrawnLength, UdpAppAssumption DEF MaySend
<1>u. UsingOK(h, {a.bufs}, a, u)
  BY <1>1, UsingFacts
<1>4. /\ u \in FieldsOf(h, {a.bufs}) /\ u.sockState = "CONNECTED" /\ u.busy = HasChannel[h]
      /\ u.udpSocket = IF a.udpSocket = "none" THEN "ephemeral" ELSE a.udpSocket
      /\ u.state = a.state /\ u.selfMsg = a.selfMsg /\ u.closing = a.closing
      /\ u.numSent = a.numSent /\ u.offset = a.offset /\ u.endTxTimer = a.endTxTimer
      /\ u.messageLength = a.messageLength /\ u.destAddr = a.destAddr
      /\ u.numReceived = a.numReceived /\ u.bufs = a.bufs
  BY <1>u DEF UsingOK
<1> HIDE DEF u
<1> DEFINE n == FragmentLength(a.offset, len)
           more == a.offset + FragmentSize < len
           k == IF more THEN a.numSent ELSE a.numSent + 1
           b == [ u EXCEPT !.messageLength = len, !.endTxTimer = "scheduled",
                           !.offset = a.offset + n, !.numSent = k ]
           p == Fragment(h, a, a.offset, n, more)
           s == <<p>>
<1>5. /\ r.app = [ u EXCEPT !.messageLength = len, !.endTxTimer = "scheduled",
                            !.offset = @ + n, !.numSent = IF more THEN @ ELSE @ + 1 ]
      /\ r.packets = s /\ a.endTxTimer = "idle"
  BY DEF NextFragment, Result, u
<1> HIDE DEF r
<1>6. a.offset < len
  BY <1>1, <1>2, <1>3, <1>5 DEF AppInv, WithinMessage
<1>7. /\ n \in Nat \ {0} /\ more \in BOOLEAN /\ a.offset + n \in Nat \ {0}
      /\ more => a.offset + n < len
      /\ ~more => a.offset + n = len
  BY <1>2, <1>3, <1>6 DEF FragmentLength
<1> HIDE DEF n
<1>8. k \in 0 .. PacketsToSend[h] /\ (more => k = a.numSent) /\ (~more => k = a.numSent + 1)
  BY <1>2
<1>9. /\ b \in FieldsOf(h, {a.bufs}) /\ b.messageLength = len /\ b.endTxTimer = "scheduled"
      /\ b.offset = a.offset + n /\ b.numSent = k
      /\ b.sockState = u.sockState /\ b.busy = u.busy /\ b.udpSocket = u.udpSocket
      /\ b.state = a.state /\ b.selfMsg = a.selfMsg /\ b.closing = a.closing
      /\ b.destAddr = a.destAddr /\ b.numReceived = a.numReceived /\ b.bufs = a.bufs
  BY <1>3, <1>4, <1>7, <1>8 DEF FieldsOf
<1>10. r.app = b
  BY <1>4, <1>5
<1> HIDE DEF b
<1>11. AppInv(h, b)
  <2>1. WithinMessage(h, b)
    BY <1>3, <1>7, <1>9 DEF WithinMessage
  <2> QED
    BY <1>1, <1>4, <1>7, <1>9, <2>1 DEF AppInv
<1>12. FragmentOK(h, a, a.offset, n, more)
  BY <1>1, <1>2, <1>7, FragmentFacts
<1>13. /\ p \in Packet /\ p.src = h /\ p.dst = a.destAddr /\ p.seq = a.numSent
       /\ p.id = Id(h, a) /\ p.offset = a.offset /\ p.len = n /\ p.more = more
  BY <1>12 DEF FragmentOK
<1> HIDE DEF p
<1>14. PacketsOf(h, a, s) /\ s[1] = p /\ s[Len(s)] = p
  BY <1>13, OnePacket
<1>16. CutFrom(h, a, len, s, b)
  <2>1. DOMAIN s = {1} /\ s[1] = p
    BY DEF s
  <2>2. Aligned(a.offset)
    BY <1>3, <1>6 DEF MaySend, AlignedWithin
  <2>3. n <= FragmentSize /\ (more => n = FragmentSize)
    BY <1>2, <1>3, <1>6 DEF FragmentLength, n
  <2>4. a.offset = 0 => more
    BY <1>2, <1>3
  <2> HIDE DEF more, s, k
  <2>5. CutOK(p) /\ ~IsWhole(p) /\ p.offset >= a.offset
    BY <2>2, <2>3, <2>4, <1>2, <1>13 DEF CutOK, IsWhole
  <2>6. AlignedWithin(h, b)
    <3> SUFFICES ASSUME NEW long \in MessageLengths[h], long > FragmentSize, b.offset < long
                 PROVE  Aligned(b.offset)
      BY DEF AlignedWithin
    <3>1. long = len
      BY <1>3
    <3>2. more
      BY <3>1, <1>3, <1>7, <1>9
    <3>3. b.offset = a.offset + FragmentSize
      BY <3>2, <2>3, <1>9
    <3>4. Aligned(a.offset + FragmentSize)
      BY <2>2, <1>2, AlignedFacts
    <3> QED
      BY <3>3, <3>4
  <2>7. ~(len <= FragmentSize)
    BY <1>3
  <2> QED
    BY <2>1, <2>5, <2>6, <2>7 DEF CutFrom
<1> HIDE DEF s, more, k
<1>15. Continues(a, len, s, b)
  <2>1. len > FragmentSize /\ b.sockState = "CONNECTED"
    BY <1>4, <1>9
  <2>2. CASE more
    <3>1. /\ p.more = TRUE /\ b.offset < b.messageLength /\ b.offset = p.offset + p.len
          /\ b.numSent = a.numSent /\ b.endTxTimer # "idle" /\ b.messageLength = len
      BY <2>2, <1>7, <1>8, <1>9, <1>13
    <3>2. p.offset = a.offset /\ a.endTxTimer = "idle"
      BY <1>5, <1>13
    <3> QED
      BY <2>1, <3>1, <3>2, <1>14 DEF Continues
  <2>3. CASE ~more
    <3>1. p.more = FALSE /\ b.offset = len
      BY <2>3, <1>7, <1>9, <1>13
    <3> QED
      BY <2>1, <2>3, <3>1, <1>3, <1>5, <1>8, <1>9, <1>13, <1>14, UdpAppAssumption DEF Continues
  <2> QED
    BY <2>2, <2>3
<1> QED
  BY <1>5, <1>9, <1>10, <1>11, <1>14, <1>15, <1>16 DEF SentOK, FieldsKept, r

(* The loop cuts a message into pieces that leave no gap: all but the last *)
(* begin and end within it.                                                *)
LEMMA Pieces ==
  ASSUME NEW len \in Nat \ {0}, NEW n \in Nat \ {0}
  PROVE  LET k == (len + n - 1) \div n
         IN  /\ k \in Nat \ {0}
             /\ \A i \in 1 .. k : /\ (i - 1) * n \in Nat /\ (i - 1) * n < len
                                  /\ (i - 1) * n + n = i * n
                                  /\ (i - 1) * n + n < len <=> i < k
             /\ \A i, j \in 1 .. k : i < j => (i - 1) * n + n <= (j - 1) * n
<1> DEFINE m == len + n - 1
           k == m \div n
<1>1. m \in Nat /\ m >= n
  OBVIOUS
<1>2. m % n \in 0 .. n - 1 /\ m = n * k + (m % n) /\ k \in Int
  BY <1>1
<1> HIDE DEF k
<1>3. n * k >= len /\ n * k - n < len
  BY <1>2
<1>4. \A i \in Int : (i - 1) * n = n * i - n /\ i * n = n * i /\ n * i \in Int
  OBVIOUS
<1>5. ASSUME NEW x \in Int, NEW y \in Int, x <= y PROVE n * x <= n * y
  <2>1. \A z \in Nat : n * z \in Nat
    OBVIOUS
  <2>2. y - x \in Nat /\ n * (y - x) = n * y - n * x /\ n * x \in Int /\ n * y \in Int
    BY <1>5
  <2> HIDE DEF m
  <2> QED
    BY <2>1, <2>2
<1>6. k >= 1
  <2>1. k <= 0 => n * k <= n * 0
    BY <1>2, <1>5
  <2>2. n * 0 = 0
    OBVIOUS
  <2>3. n * k \in Int
    BY <1>2, <1>4
  <2> QED
    BY <1>2, <1>3, <2>1, <2>2, <2>3
<1>7. ASSUME NEW i \in 1 .. k
      PROVE  /\ (i - 1) * n \in Nat /\ (i - 1) * n < len
             /\ (i - 1) * n + n = i * n
             /\ (i - 1) * n + n < len <=> i < k
  <2>1. i \in Int /\ i <= k /\ 1 <= i
    BY <1>2
  <2>2. (i - 1) * n = n * i - n /\ i * n = n * i /\ n * i \in Int /\ n * k \in Int
    BY <2>1, <1>2, <1>4
  <2>3. n * i <= n * k /\ n * 1 <= n * i /\ n * 1 = n
    BY <2>1, <1>2, <1>5
  <2>4. i < k => n * i <= n * (k - 1) /\ n * (k - 1) = n * k - n
    BY <2>1, <1>2, <1>5
  <2>5. ~(i < k) => i = k
    BY <2>1, <1>2
  <2> HIDE DEF m
  <2> QED
    BY <2>2, <2>3, <2>4, <2>5, <1>3
<1>8. ASSUME NEW i \in 1 .. k, NEW j \in 1 .. k, i < j
      PROVE  (i - 1) * n + n <= (j - 1) * n
  <2>1. i \in Int /\ j - 1 \in Int /\ i <= j - 1
    BY <1>2, <1>8
  <2>2. n * i <= n * (j - 1) /\ (i - 1) * n + n = n * i /\ (j - 1) * n = n * (j - 1)
    <3>1. n * i <= n * (j - 1)
      BY <2>1, <1>5
    <3>2. (i - 1) * n = n * i - n /\ n * i \in Int
      BY <2>1, <1>4
    <3>3. (j - 1) * n = n * (j - 1)
      BY <2>1, <1>4
    <3> QED
      BY <3>1, <3>2, <3>3
  <2> QED
    BY <2>2
<1> QED
  BY <1>2, <1>6, <1>7, <1>8 DEF k

(* The loop gives out a message of which nothing was sent.                 *)
LEMMA AllFragmentsFacts ==
  ASSUME NEW h \in Hosts, NEW a, NEW len, MaySend(h, a, len), len > FragmentSize,
         ~HasChannel[h]
  PROVE  SentOK(h, a, len, AllFragments(h, a, len))
<1> DEFINE r == AllFragments(h, a, len)
           u == Using(h, a)
<1>1. a \in FieldsOf(h, {a.bufs}) /\ a.destAddr \in Hosts /\ AppInv(h, a)
      /\ a.state # "NOT_OPERATING" /\ a.offset = 0 /\ a.endTxTimer = "idle"
  BY DEF MaySend, AppInv
<1>2. a.numSent \in Nat /\ a.numSent + 1 \in 0 .. PacketsToSend[h]
  BY <1>1, UdpAppAssumption DEF MaySend, FieldsOf
<1>3. len \in Nat \ {0} /\ FragmentSize \in Nat \ {0}
  BY DrawnLength, UdpAppAssumption DEF MaySend
<1>u. UsingOK(h, {a.bufs}, a, u)
  BY <1>1, UsingFacts
<1>4. /\ u \in FieldsOf(h, {a.bufs}) /\ u.sockState = "CONNECTED" /\ u.busy = HasChannel[h]
      /\ u.udpSocket = IF a.udpSocket = "none" THEN "ephemeral" ELSE a.udpSocket
      /\ u.state = a.state /\ u.selfMsg = a.selfMsg /\ u.closing = a.closing
      /\ u.numSent = a.numSent /\ u.offset = a.offset /\ u.endTxTimer = a.endTxTimer
      /\ u.messageLength = a.messageLength /\ u.destAddr = a.destAddr
      /\ u.numReceived = a.numReceived /\ u.bufs = a.bufs
  BY <1>u DEF UsingOK
<1> HIDE DEF u
<1> DEFINE b == [ u EXCEPT !.messageLength = len, !.offset = 0, !.numSent = a.numSent + 1 ]
           k == (len + FragmentSize - 1) \div FragmentSize
           from(i) == (i - 1) * FragmentSize
           s == [ i \in 1 .. k |-> Fragment(h, a, from(i), FragmentLength(from(i), len),
                                            from(i) + FragmentSize < len) ]
<1>5. /\ b \in FieldsOf(h, {a.bufs}) /\ b.messageLength = len /\ b.endTxTimer = a.endTxTimer
      /\ b.offset = 0 /\ b.numSent = a.numSent + 1
      /\ b.sockState = u.sockState /\ b.busy = u.busy /\ b.udpSocket = u.udpSocket
      /\ b.state = a.state /\ b.selfMsg = a.selfMsg /\ b.closing = a.closing
      /\ b.destAddr = a.destAddr /\ b.numReceived = a.numReceived /\ b.bufs = a.bufs
  BY <1>2, <1>3, <1>4 DEF FieldsOf
<1>6. /\ k \in Nat \ {0}
      /\ \A i \in 1 .. k : /\ from(i) \in Nat /\ from(i) < len
                           /\ from(i) + FragmentSize = i * FragmentSize
                           /\ from(i) + FragmentSize < len <=> i < k
      /\ \A i, j \in 1 .. k : i < j => from(i) + FragmentSize <= from(j)
  BY <1>3, Pieces
<1>7. r.packets = s
  <2>1. len - a.offset + FragmentSize - 1 = len + FragmentSize - 1
    BY <1>1, <1>3
  <2>2. \A i \in 1 .. k : a.offset + (i - 1) * FragmentSize = from(i)
    BY <1>1, <1>6
  <2>3. r.packets = [ i \in 1 .. (len - a.offset + FragmentSize - 1) \div FragmentSize |->
             LET x == a.offset + (i - 1) * FragmentSize
             IN  Fragment(h, a, x, FragmentLength(x, len), x + FragmentSize < len) ]
    BY DEF AllFragments, Result
  <2> HIDE DEF from, r
  <2> QED
    BY <2>1, <2>2, <2>3
<1>8. r.app = b
  <2>1. r.app = [ u EXCEPT !.messageLength = len, !.offset = 0, !.numSent = @ + 1 ]
    BY DEF AllFragments, Result, u
  <2> HIDE DEF r
  <2> QED
    BY <2>1, <1>4
<1> HIDE DEF b, r, k
<1>9. AppInv(h, b)
  BY <1>1, <1>4, <1>5 DEF AppInv
<1>10. ASSUME NEW i \in 1 .. k
       PROVE  /\ s[i] \in Packet /\ s[i].src = h /\ s[i].dst = a.destAddr
              /\ s[i].seq = a.numSent /\ s[i].id = Id(h, a) /\ s[i].offset = from(i)
              /\ i < k => s[i].more = TRUE /\ s[i].len = FragmentSize
              /\ ~(i < k) => s[i].more = FALSE
              /\ s[i].len <= FragmentSize
  <2> DEFINE x == from(i)
             n == FragmentLength(x, len)
             more == x + FragmentSize < len
  <2>1. s[i] = Fragment(h, a, x, n, more)
    OBVIOUS
  <2>2. x \in Nat /\ x < len /\ more \in BOOLEAN /\ (more <=> i < k)
    BY <1>6
  <2> HIDE DEF x, s
  <2>3. n \in Nat \ {0} /\ (more => n = FragmentSize) /\ n <= FragmentSize
    BY <1>3, <2>2 DEF FragmentLength
  <2> HIDE DEF n, more
  <2>4. FragmentOK(h, a, x, n, more)
    BY <1>1, <2>2, <2>3, FragmentFacts
  <2>5. x = from(i)
    BY DEF x
  <2> HIDE DEF from
  <2>6. s[i] \in Packet /\ s[i].src = h /\ s[i].dst = a.destAddr /\ s[i].seq = a.numSent
        /\ s[i].id = Id(h, a) /\ s[i].offset = from(i) /\ s[i].len = n /\ s[i].more = more
    BY <2>1, <2>4, <2>5 DEF FragmentOK
  <2>7. CASE i < k
    <3>1. more = TRUE
      BY <2>7, <2>2
    <3> QED
      BY <3>1, <2>3, <2>6, <2>7
  <2>8. CASE ~(i < k)
    <3>1. more = FALSE
      BY <2>8, <2>2
    <3> QED
      BY <3>1, <2>3, <2>6, <2>8
  <2> QED
    BY <2>7, <2>8
<1>11. s \in Seq(Packet) /\ Len(s) = k /\ DOMAIN s = 1 .. k /\ s # <<>>
  <2>1. s \in [1 .. k -> Packet]
    BY <1>10
  <2> HIDE DEF s
  <2> QED
    BY <2>1, <1>6, LenProperties
<1> HIDE DEF s
<1>12. InSequence(s)
  <2> SUFFICES ASSUME NEW i \in 1 .. k - 1 PROVE Follows(s[i], s[i + 1])
    BY <1>11 DEF InSequence
  <2>1. i \in 1 .. k /\ i + 1 \in 1 .. k /\ i < k /\ i \in Int
    BY <1>6
  <2>2. s[i].more = TRUE /\ s[i].len = FragmentSize /\ s[i].offset = from(i)
        /\ s[i].seq = a.numSent /\ s[i].dst = a.destAddr
    BY <2>1, <1>10
  <2>3. s[i + 1].offset = from(i + 1) /\ s[i + 1].seq = a.numSent /\ s[i + 1].dst = a.destAddr
    BY <2>1, <1>10
  <2>4. from(i + 1) = from(i) + FragmentSize
    <3>1. (i + 1) - 1 = i /\ from(i) + FragmentSize = i * FragmentSize
      BY <2>1, <1>6
    <3> QED
      BY <3>1
  <2> HIDE DEF from
  <2> QED
    BY <2>2, <2>3, <2>4 DEF Follows
<1>13. PacketsOf(h, a, s)
  BY <1>10, <1>11, <1>12 DEF PacketsOf
<1>14. Continues(a, len, s, b)
  <2>1. s[Len(s)].more = FALSE
    <3>1. k \in 1 .. k /\ ~(k < k)
      BY <1>6
    <3> HIDE DEF from
    <3> QED
      BY <3>1, <1>10, <1>11
  <2>2. s[1].offset = 0
    <3>1. 1 \in 1 .. k /\ from(1) = 0
      BY <1>3, <1>6
    <3> HIDE DEF from
    <3> QED
      BY <3>1, <1>10
  <2> QED
    BY <2>1, <2>2, <1>1, <1>3, <1>4, <1>5 DEF Continues
<1>15. CutFrom(h, a, len, s, b)
  <2>1. ASSUME NEW i \in 1 .. k
        PROVE  CutOK(s[i]) /\ ~IsWhole(s[i]) /\ s[i].offset >= a.offset
    <3>1. i - 1 \in Nat /\ from(i) = (i - 1) * FragmentSize /\ from(i) \in Nat
      BY <1>6, SMTT(20)
    <3>2. Aligned(from(i))
      BY <3>1 DEF Aligned
    <3>3. ~(i < k) => from(i) # 0
      <4>1. i = 1 => from(i) + FragmentSize < len
        BY <1>3
      <4>2. i # 1 => from(1) + FragmentSize <= from(i) /\ from(1) \in Nat
        <5>1. 1 \in 1 .. k /\ (i # 1 => 1 < i)
          BY <1>6
        <5> HIDE DEF from
        <5> QED
          BY <5>1, <1>6
      <4> HIDE DEF from
      <4> QED
        BY <4>1, <4>2, <3>1, <1>3, <1>6
    <3> HIDE DEF from
    <3>4. /\ s[i].offset = from(i) /\ s[i].len <= FragmentSize
          /\ i < k => s[i].more = TRUE /\ s[i].len = FragmentSize
          /\ ~(i < k) => s[i].more = FALSE
      BY <1>10
    <3>5. CutOK(s[i])
      BY <3>2, <3>4 DEF CutOK
    <3>6. ~IsWhole(s[i])
      BY <3>3, <3>4 DEF IsWhole
    <3>7. s[i].offset >= a.offset
      BY <3>1, <3>4, <1>1
    <3> QED
      BY <3>5, <3>6, <3>7
  <2>2. ASSUME NEW i \in 1 .. k, NEW j \in 1 .. k, i < j PROVE Earlier(s[i], s[j])
    <3> HIDE DEF from
    <3>1. i < k
      BY <2>2, <1>6
    <3>2. s[i].more = TRUE /\ s[i].len = FragmentSize /\ s[i].offset = from(i)
          /\ s[i].seq = a.numSent
      BY <3>1, <1>10
    <3>3. s[j].offset = from(j) /\ s[j].seq = a.numSent
      BY <1>10
    <3>4. from(i) + FragmentSize <= from(j)
      BY <2>2, <1>6
    <3> QED
      BY <3>2, <3>3, <3>4 DEF Earlier, End
  <2>3. AlignedWithin(h, b)
    BY <1>5, AlignedZero DEF AlignedWithin
  <2>4. ~(len <= FragmentSize)
    BY <1>3
  <2> HIDE DEF from
  <2> QED
    BY <2>1, <2>2, <2>3, <2>4, <1>11 DEF CutFrom
<1> QED
  BY <1>5, <1>7, <1>8, <1>9, <1>13, <1>14, <1>15 DEF SentOK, FieldsKept, r

(* sendPacket, when it does not fail and messages are left.                *)
LEMMA SendPacketFacts ==
  ASSUME NEW h \in Hosts, NEW a, NEW len, MaySend(h, a, len),
         SendPacket(h, a, len).error = "none"
  PROVE  SentOK(h, a, len, SendPacket(h, a, len))
<1>1. ~(a.numSent >= PacketsToSend[h])
  BY UdpAppAssumption DEF MaySend, AppInv, FieldsOf
<1>2. len \in Nat /\ FragmentSize \in Nat
  BY DrawnLength, UdpAppAssumption DEF MaySend
<1>3. CASE len <= FragmentSize
  <2>1. SendPacket(h, a, len) = Whole(h, a, len)
    BY <1>1, <1>3 DEF SendPacket
  <2> QED
    BY <2>1, <1>3, WholeFacts
<1>4. CASE len > FragmentSize /\ HasChannel[h]
  <2>1. SendPacket(h, a, len) = NextFragment(h, a, len)
    BY <1>1, <1>2, <1>4 DEF SendPacket
  <2> QED
    BY <2>1, <1>4, NextFragmentFacts
<1>5. CASE len > FragmentSize /\ ~HasChannel[h]
  <2>1. SendPacket(h, a, len) = AllFragments(h, a, len)
    BY <1>1, <1>2, <1>5 DEF SendPacket
  <2> QED
    BY <2>1, <1>5, AllFragmentsFacts
<1> QED
  BY <1>2, <1>3, <1>4, <1>5

-----------------------------------------------------------------------------
(***************************************************************************)
(* The packets of a host.                                                  *)
(***************************************************************************)
(* A packet of h: its number and its id.                                   *)
PacketOf(h, p) ==
  /\ p.src = h /\ p.seq < PacketsToSend[h]
  /\ p.id = ModuleId[h] * IdStride + p.seq

(* The fields go on where the last packet q ended.                         *)
GoesOn(h, a, q) ==
  /\ q.more => /\ a.numSent = q.seq /\ a.numSent < PacketsToSend[h] /\ a.destAddr = q.dst
               /\ a.offset = q.offset + q.len /\ a.offset < a.messageLength
               /\ a.endTxTimer # "idle"
  /\ ~q.more => /\ a.numSent = q.seq + 1
                /\ a.offset # 0 => a.offset >= a.messageLength /\ a.endTxTimer # "idle"

(* The same of the fields sendPacket is called with: the destination may   *)
(* be another one while the timer is set, and the timer may have fired.    *)
MayGoOn(h, a, q) ==
  /\ q.more => /\ a.numSent = q.seq /\ a.numSent < PacketsToSend[h]
               /\ a.offset = q.offset + q.len /\ a.offset # 0
               /\ a.endTxTimer = "idle" => a.destAddr = q.dst
  /\ ~q.more => /\ a.numSent = q.seq + 1
                /\ a.offset # 0 => a.offset >= a.messageLength /\ a.endTxTimer # "idle"

SentBefore(h, a, s) ==
  /\ s \in Seq(Packet) /\ \A i \in DOMAIN s : PacketOf(h, s[i])
  /\ s # <<>> => s[1].seq = 0
  /\ s = <<>> => a.numSent = 0 /\ a.offset = 0

(* Kept is false where the length was drawn anew within a message.         *)
HostInv(h, a, s, kept) ==
  /\ AppInv(h, a) /\ SentBefore(h, a, s)
  /\ a.offset # 0 => a.destAddr \in Hosts
  /\ Apart(h, a, s)
  /\ kept => InSequence(s) /\ (s # <<>> => GoesOn(h, a, s[Len(s)]))

BeforeSending(h, a, s, kept) ==
  /\ AppInv(h, a) /\ a.state # "NOT_OPERATING" /\ a.destAddr \in Hosts
  /\ SentBefore(h, a, s) /\ Apart(h, a, s)
  /\ kept => InSequence(s) /\ (s # <<>> => MayGoOn(h, a, s[Len(s)]))

(* Packets that follow the last one.                                       *)
LEMMA InSequenceConcat ==
  ASSUME NEW s \in Seq(Packet), NEW t \in Seq(Packet), InSequence(s), InSequence(t),
         t # <<>>, s # <<>> => Follows(s[Len(s)], t[1])
  PROVE  InSequence(s \o t)
<1> DEFINE u == s \o t
<1>1. /\ u \in Seq(Packet) /\ Len(u) = Len(s) + Len(t) /\ Len(s) \in Nat /\ Len(t) \in Nat
      /\ \A i \in 1 .. Len(u) : u[i] = IF i <= Len(s) THEN s[i] ELSE t[i - Len(s)]
      /\ Len(t) >= 1
  BY ConcatProperties, EmptySeq, LenProperties
<1> HIDE DEF u
<1> SUFFICES ASSUME NEW i \in 1 .. Len(u) - 1 PROVE Follows(u[i], u[i + 1])
  BY DEF InSequence, u
<1>2. CASE i < Len(s)
  <2>1. u[i] = s[i] /\ u[i + 1] = s[i + 1] /\ i \in 1 .. Len(s) - 1
    BY <1>1, <1>2
  <2> QED
    BY <2>1 DEF InSequence
<1>3. CASE i = Len(s)
  <2>1. u[i] = s[Len(s)] /\ u[i + 1] = t[1] /\ s # <<>>
    BY <1>1, <1>3
  <2> QED
    BY <2>1
<1>4. CASE i > Len(s)
  <2>1. u[i] = t[i - Len(s)] /\ u[i + 1] = t[(i - Len(s)) + 1]
        /\ i - Len(s) \in 1 .. Len(t) - 1
    BY <1>1, <1>4
  <2> QED
    BY <2>1 DEF InSequence
<1> QED
  BY <1>1, <1>2, <1>3, <1>4

(* The packets of a host after sendPacket, and the fields that it leaves:  *)
(* a whole message in the middle of another one is the only exception.     *)
LEMMA AfterSending ==
  ASSUME NEW h \in Hosts, NEW a, NEW len, MaySend(h, a, len), NEW r,
         SentOK(h, a, len, r), NEW s, NEW kept \in BOOLEAN, BeforeSending(h, a, s, kept)
  PROVE  HostInv(h, r.app, s \o r.packets, kept /\ ~(a.offset # 0 /\ len <= FragmentSize))
<1> DEFINE t == r.packets
           b == r.app
           u == s \o t
<1>1. /\ AppInv(h, b) /\ FieldsKept(a, b) /\ PacketsOf(h, a, t) /\ Continues(a, len, t, b)
      /\ CutFrom(h, a, len, t, b)
  BY DEF SentOK
<1> HIDE DEF t, b
<1>2. /\ t \in Seq(Packet) /\ t # <<>> /\ InSequence(t)
      /\ \A i \in DOMAIN t : t[i].src = h /\ t[i].dst = a.destAddr
                             /\ t[i].seq = a.numSent /\ t[i].id = Id(h, a)
  BY <1>1 DEF PacketsOf
<1>3. /\ s \in Seq(Packet) /\ \A i \in DOMAIN s : PacketOf(h, s[i])
      /\ s # <<>> => s[1].seq = 0
      /\ s = <<>> => a.numSent = 0 /\ a.offset = 0
  BY DEF BeforeSending, SentBefore
<1>4. a.numSent \in Nat /\ a.numSent < PacketsToSend[h] /\ a.offset \in Nat
  BY UdpAppAssumption DEF MaySend, AppInv, FieldsOf
<1>5. len \in Nat /\ FragmentSize \in Nat
  BY DrawnLength, UdpAppAssumption DEF MaySend
<1>6. /\ u \in Seq(Packet) /\ Len(u) = Len(s) + Len(t) /\ Len(s) \in Nat /\ Len(t) \in Nat
      /\ \A i \in 1 .. Len(u) : u[i] = IF i <= Len(s) THEN s[i] ELSE t[i - Len(s)]
      /\ Len(t) >= 1 /\ DOMAIN u = 1 .. Len(u) /\ DOMAIN s = 1 .. Len(s)
      /\ DOMAIN t = 1 .. Len(t)
  BY <1>2, <1>3, ConcatProperties, EmptySeq, LenProperties
<1>7. u[Len(u)] = t[Len(t)] /\ u # <<>> /\ Len(u) \in DOMAIN u
  <2>1. (Len(s) + Len(t)) - Len(s) = Len(t) /\ ~(Len(u) <= Len(s)) /\ Len(u) \in 1 .. Len(u)
    BY <1>6
  <2> HIDE DEF u
  <2> QED
    BY <2>1, <1>6, EmptySeq
<1> HIDE DEF u
<1>8. SentBefore(h, b, u)
  <2>1. ASSUME NEW i \in DOMAIN t PROVE PacketOf(h, t[i])
    BY <1>2, <1>4 DEF PacketOf, Id
  <2>2. ASSUME NEW i \in DOMAIN u PROVE PacketOf(h, u[i])
    <3>1. CASE i <= Len(s)
      BY <3>1, <1>3, <1>6
    <3>2. CASE i > Len(s)
      <4>1. i - Len(s) \in DOMAIN t /\ u[i] = t[i - Len(s)]
        BY <3>2, <1>6
      <4> QED
        BY <4>1, <2>1
    <3> QED
      BY <3>1, <3>2, <1>6
  <2>3. u[1].seq = 0
    <3>1. CASE s = <<>>
      <4>1. Len(s) = 0 /\ 1 \in DOMAIN u /\ u[1] = t[1] /\ 1 \in DOMAIN t
        BY <3>1, <1>6, EmptySeq
      <4> QED
        BY <4>1, <3>1, <1>2, <1>3
    <3>2. CASE s # <<>>
      <4>1. u[1] = s[1]
        BY <3>2, <1>3, <1>6, EmptySeq
      <4> QED
        BY <4>1, <3>2, <1>3
    <3> QED
      BY <3>1, <3>2
  <2> QED
    BY <2>2, <2>3, <1>6, <1>7 DEF SentBefore
<1>9. b.destAddr \in Hosts
  BY <1>1 DEF FieldsKept, MaySend
<1>10. ASSUME kept, ~(a.offset # 0 /\ len <= FragmentSize)
       PROVE  InSequence(u) /\ GoesOn(h, b, u[Len(u)])
  <2> DEFINE q == t[Len(t)]
             f == t[1]
  <2>1. q \in Packet /\ q.dst = a.destAddr /\ q.seq = a.numSent /\ q.len \in Nat \ {0}
        /\ q.offset \in Nat /\ q.more \in BOOLEAN
    <3>1. Len(t) \in DOMAIN t /\ q \in Packet
      BY <1>2, <1>6
    <3>2. q.dst = a.destAddr /\ q.seq = a.numSent
      BY <3>1, <1>2
    <3> HIDE DEF q
    <3> QED
      BY <3>1, <3>2 DEF Packet
  <2>2. f.dst = a.destAddr /\ f.seq = a.numSent
    BY <1>2, <1>6
  <2> HIDE DEF q, f
  <2>3. /\ f.offset = IF len > FragmentSize THEN a.offset ELSE 0
        /\ len > FragmentSize => a.offset = 0 \/ a.endTxTimer = "idle"
        /\ q.more => /\ b.numSent = a.numSent /\ b.offset = q.offset + q.len
                     /\ b.offset < b.messageLength /\ b.endTxTimer # "idle"
        /\ ~q.more => /\ b.numSent = a.numSent + 1
                      /\ len <= FragmentSize => b.offset = a.offset
                      /\ len > FragmentSize => \/ b.offset = 0
                                               \/ b.offset = len /\ b.endTxTimer # "idle"
        /\ b.messageLength = len
    BY <1>1 DEF Continues, q, f
  <2>4. GoesOn(h, b, q)
    <3>1. b.destAddr = a.destAddr
      BY <1>1 DEF FieldsKept
    <3>2. CASE q.more
      BY <3>1, <3>2, <2>1, <2>3, <1>4 DEF GoesOn
    <3>3. CASE ~q.more
      <4>1. b.numSent = q.seq + 1
        BY <3>3, <2>1, <2>3
      <4>2. b.offset # 0 => b.offset >= b.messageLength /\ b.endTxTimer # "idle"
        BY <3>3, <2>3, <1>5, <1>10
      <4> QED
        BY <3>3, <4>1, <4>2 DEF GoesOn
    <3> QED
      BY <3>2, <3>3
  <2>5. ASSUME s # <<>> PROVE Follows(s[Len(s)], f)
    <3> DEFINE x == s[Len(s)]
    <3>1. MayGoOn(h, a, x)
      BY <2>5, <1>10 DEF BeforeSending
    <3> SUFFICES Follows(x, f)
      OBVIOUS
    <3> HIDE DEF x
    <3>2. CASE x.more
      <4>1. a.offset # 0 /\ len > FragmentSize
        BY <3>1, <3>2, <1>5, <1>10 DEF MayGoOn
      <4>2. f.offset = a.offset /\ a.destAddr = x.dst
        BY <3>1, <3>2, <4>1, <2>3 DEF MayGoOn
      <4> QED
        BY <3>1, <3>2, <4>2, <2>2 DEF MayGoOn, Follows
    <3>3. CASE ~x.more
      <4>1. a.offset # 0 => a.endTxTimer # "idle"
        BY <3>1, <3>3 DEF MayGoOn
      <4>2. f.offset = 0
        BY <4>1, <2>3
      <4> QED
        BY <3>1, <3>3, <4>2, <2>2 DEF MayGoOn, Follows
    <3> QED
      BY <3>2, <3>3
  <2>6. InSequence(s)
    BY <1>10 DEF BeforeSending
  <2>7. InSequence(u)
    BY <2>5, <2>6, <1>2, <1>3, InSequenceConcat DEF u, f
  <2> QED
    BY <2>4, <2>7, <1>7 DEF q
<1>12. Apart(h, b, u)
  <2> DEFINE q == t[Len(t)]
  <2>1. /\ AlignedWithin(h, b)
        /\ \A i \in DOMAIN t : /\ CutOK(t[i])
                               /\ len <= FragmentSize => IsWhole(t[i])
                               /\ len > FragmentSize => ~IsWhole(t[i]) /\ t[i].offset >= a.offset
        /\ \A i, j \in DOMAIN t : i < j => Earlier(t[i], t[j])
    BY <1>1 DEF CutFrom
  <2>2. /\ \A i \in DOMAIN s : CutOK(s[i]) /\ Past(a, s[i])
        /\ \A i, j \in DOMAIN s : i < j => Earlier(s[i], s[j])
        /\ s # <<>> => s[1].offset = 0
    BY DEF BeforeSending, Apart
  <2>3. ASSUME NEW p \in Packet, Past(a, p), NEW x \in Packet, x.seq = a.numSent,
               len <= FragmentSize => IsWhole(x), len > FragmentSize => x.offset >= a.offset
        PROVE  Earlier(p, x)
    BY <2>3, <1>4, <1>5 DEF Past, Earlier, End, Packet
  <2>4. ASSUME NEW p \in Packet, Past(a, p) PROVE Past(b, p)
    <3>1. /\ q.more => /\ b.numSent = a.numSent /\ b.offset = q.offset + q.len
                       /\ b.offset < b.messageLength /\ len > FragmentSize
          /\ ~q.more => b.numSent = a.numSent + 1
      BY <1>1 DEF Continues, q
    <3>2. q \in Packet /\ (len > FragmentSize => q.offset >= a.offset)
      BY <2>1, <1>2, <1>6
    <3> HIDE DEF q
    <3>3. CASE q.more
      BY <2>4, <3>1, <3>2, <3>3, <1>4 DEF Past, End, Packet
    <3>4. CASE ~q.more
      BY <2>4, <3>1, <3>4, <1>4 DEF Past, Packet
    <3> QED
      BY <3>3, <3>4
  <2>5. ASSUME NEW i \in DOMAIN t PROVE Past(b, t[i])
    <3>1. /\ q.more => /\ b.numSent = a.numSent /\ b.offset = q.offset + q.len
                       /\ b.offset < b.messageLength /\ len > FragmentSize
          /\ ~q.more => b.numSent = a.numSent + 1
      BY <1>1 DEF Continues, q
    <3>2. q \in Packet /\ Len(t) \in DOMAIN t /\ q.seq = a.numSent
      BY <1>2, <1>6
    <3>3. i = Len(t) \/ Earlier(t[i], q)
      BY <2>1, <3>2, <1>6
    <3> DEFINE p == t[i]
    <3>4. p \in Packet /\ p.seq = a.numSent /\ (p = q \/ Earlier(p, q))
      BY <3>3, <1>2
    <3> SUFFICES Past(b, p)
      BY DEF p
    <3> HIDE DEF q, p
    <3>5. CASE q.more
      <4>1. ~IsWhole(q)
        BY <3>5 DEF IsWhole
      <4>2. p.more /\ End(p) <= b.offset
        BY <3>1, <3>2, <3>4, <3>5, <4>1, <1>4 DEF Earlier, End, Packet
      <4> QED
        BY <3>1, <3>4, <3>5, <4>2 DEF Past
    <3>6. CASE ~q.more
      BY <3>1, <3>4, <3>6, <1>4 DEF Past
    <3> QED
      BY <3>5, <3>6
  <2> HIDE DEF q
  <2>6. ASSUME NEW i \in DOMAIN u
        PROVE  \/ i \in DOMAIN s /\ u[i] = s[i]
               \/ i > Len(s) /\ i - Len(s) \in DOMAIN t /\ u[i] = t[i - Len(s)]
    BY <1>6
  <2>7. ASSUME NEW i \in DOMAIN u PROVE CutOK(u[i]) /\ Past(b, u[i])
    <3>1. CASE i \in DOMAIN s /\ u[i] = s[i]
      BY <3>1, <2>2, <2>4, <1>3
    <3>2. CASE i - Len(s) \in DOMAIN t /\ u[i] = t[i - Len(s)]
      BY <3>2, <2>1, <2>5
    <3> QED
      BY <2>6, <3>1, <3>2
  <2>8. ASSUME NEW i \in DOMAIN u, NEW j \in DOMAIN u, i < j PROVE Earlier(u[i], u[j])
    <3>1. CASE i \in DOMAIN s /\ u[i] = s[i] /\ j \in DOMAIN s /\ u[j] = s[j]
      BY <3>1, <2>2, <2>8
    <3>2. CASE i \in DOMAIN s /\ u[i] = s[i] /\ j - Len(s) \in DOMAIN t /\ u[j] = t[j - Len(s)]
      <4>1. s[i] \in Packet /\ Past(a, s[i])
        BY <3>2, <2>2, <1>3
      <4>2. t[j - Len(s)] \in Packet /\ t[j - Len(s)].seq = a.numSent
        BY <3>2, <1>2
      <4> QED
        BY <3>2, <4>1, <4>2, <2>1, <2>3
    <3>3. CASE /\ i > Len(s) /\ i - Len(s) \in DOMAIN t /\ u[i] = t[i - Len(s)]
               /\ j - Len(s) \in DOMAIN t /\ u[j] = t[j - Len(s)]
      <4>1. i - Len(s) < j - Len(s)
        BY <3>3, <2>8, <1>6
      <4> QED
        BY <3>3, <4>1, <2>1
    <3>4. ~(i > Len(s) /\ j \in DOMAIN s)
      BY <2>8, <1>6
    <3> QED
      BY <2>6, <3>1, <3>2, <3>3, <3>4
  <2>9. u[1].offset = 0
    <3>1. CASE s = <<>>
      <4>1. u[1] = t[1] /\ 1 \in DOMAIN t
        BY <3>1, <1>3, <1>6, EmptySeq
      <4>2. t[1].offset = IF len > FragmentSize THEN a.offset ELSE 0
        BY <1>1 DEF Continues
      <4> QED
        BY <3>1, <4>1, <4>2, <1>3
    <3>2. CASE s # <<>>
      <4>1. u[1] = s[1]
        BY <3>2, <1>3, <1>6, EmptySeq
      <4> QED
        BY <3>2, <4>1, <2>2
    <3> QED
      BY <3>1, <3>2
  <2> QED
    BY <2>1, <2>7, <2>8, <2>9 DEF Apart
<1>11. HostInv(h, b, u, kept /\ ~(a.offset # 0 /\ len <= FragmentSize))
  BY <1>1, <1>8, <1>9, <1>10, <1>12 DEF HostInv
<1> QED
  BY <1>11 DEF b, u, t

(* Nothing is sent when no message is left.                                *)
LEMMA NothingLeft ==
  ASSUME NEW h \in Hosts, NEW a, NEW s, NEW kept \in BOOLEAN, BeforeSending(h, a, s, kept),
         a.numSent >= PacketsToSend[h]
  PROVE  HostInv(h, a, s, kept)
<1>1. a.numSent \in Nat /\ PacketsToSend[h] \in Nat
  BY UdpAppAssumption DEF BeforeSending, AppInv, FieldsOf
<1>2. ASSUME kept, s # <<>> PROVE GoesOn(h, a, s[Len(s)])
  <2> DEFINE q == s[Len(s)]
  <2>1. MayGoOn(h, a, q)
    BY <1>2 DEF BeforeSending
  <2> HIDE DEF q
  <2>2. ~q.more
    BY <2>1, <1>1 DEF MayGoOn
  <2>3. GoesOn(h, a, q)
    BY <2>1, <2>2 DEF MayGoOn, GoesOn
  <2> QED
    BY <2>3 DEF q
<1> QED
  BY <1>2 DEF BeforeSending, HostInv

-----------------------------------------------------------------------------
(***************************************************************************)
(* The steps that send nothing.                                            *)
(***************************************************************************)
SameProgress(a, b) ==
  /\ b.numSent = a.numSent /\ b.offset = a.offset /\ b.messageLength = a.messageLength
  /\ b.destAddr = a.destAddr /\ (b.endTxTimer # "idle" <=> a.endTxTimer # "idle")

Unheard(a, b) == b.numReceived = a.numReceived /\ b.bufs = a.bufs

Consistent(b) ==
  /\ b.selfMsg = "START" => b.udpSocket # "bound"
  /\ b.state = "NOT_OPERATING" => b.udpSocket = "none" /\ b.selfMsg = "NONE"
  /\ b.selfMsg = "SEND" => b.sockState = "CONNECTED"

(* They keep the fields sendPacket goes on with.                           *)
LEMMA ProgressKept ==
  ASSUME NEW h \in Hosts, NEW a, NEW b, NEW s, NEW kept \in BOOLEAN, HostInv(h, a, s, kept),
         b \in FieldsOf(h, {b.bufs}), SameProgress(a, b), Consistent(b)
  PROVE  HostInv(h, b, s, kept)
<1>1. AppInv(h, a)
  BY DEF HostInv
<1>2. b.numSent = a.numSent /\ b.offset = a.offset /\ b.messageLength = a.messageLength
      /\ b.destAddr = a.destAddr
  BY DEF SameProgress
<1>3. b.endTxTimer # "idle" <=> a.endTxTimer # "idle"
  BY DEF SameProgress
<1>4. a.offset # 0 => WithinMessage(h, b)
  BY <1>1, <1>2, <1>3 DEF AppInv, WithinMessage
<1>5. AppInv(h, b)
  BY <1>1, <1>2, <1>3, <1>4 DEF AppInv, Consistent
<1>6. SentBefore(h, b, s)
  BY <1>2 DEF HostInv, SentBefore
<1>7. ASSUME kept, s # <<>> PROVE GoesOn(h, b, s[Len(s)])
  <2> DEFINE q == s[Len(s)]
  <2>1. GoesOn(h, a, q)
    BY <1>7 DEF HostInv
  <2> HIDE DEF q
  <2>2. GoesOn(h, b, q)
    BY <2>1, <1>2, <1>3 DEF GoesOn
  <2> QED
    BY <2>2 DEF q
<1> QED
  BY <1>2, <1>5, <1>6, <1>7, ApartKept DEF HostInv

(* The fields after a step that sends nothing.                             *)
LEMMA QuietFields ==
  ASSUME NEW h \in Hosts, NEW a, AppInv(h, a)
  PROVE  /\ LET b == Closed([ a EXCEPT !.selfMsg = "NONE" ])
            IN  b \in FieldsOf(h, {b.bufs}) /\ SameProgress(a, b) /\ Consistent(b) /\ Unheard(a, b)
         /\ LET b == Closed([ a EXCEPT !.state = "STOPPING", !.selfMsg = "NONE" ])
            IN  b \in FieldsOf(h, {b.bufs}) /\ SameProgress(a, b) /\ Consistent(b) /\ Unheard(a, b)
         /\ LET b == Down(a)
            IN  b \in FieldsOf(h, {b.bufs}) /\ SameProgress(a, b) /\ Consistent(b) /\ Unheard(a, b)
         /\ LET b == [ a EXCEPT !.closing = FALSE ]
            IN  b \in FieldsOf(h, {b.bufs}) /\ SameProgress(a, b) /\ Consistent(b) /\ Unheard(a, b)
         /\ LET b == [ a EXCEPT !.busy = FALSE,
                                !.endTxTimer = IF @ = "scheduled" THEN "due" ELSE @ ]
            IN  b \in FieldsOf(h, {b.bufs}) /\ SameProgress(a, b) /\ Consistent(b) /\ Unheard(a, b)
<1>1. a \in FieldsOf(h, {a.bufs}) /\ Consistent(a)
  BY DEF AppInv, Consistent
<1>2. LET b == Closed([ a EXCEPT !.selfMsg = "NONE" ])
      IN  b \in FieldsOf(h, {b.bufs}) /\ SameProgress(a, b) /\ Consistent(b) /\ Unheard(a, b)
  BY <1>1 DEF FieldsOf, Closed, SameProgress, Consistent, Unheard
<1>3. LET b == Closed([ a EXCEPT !.state = "STOPPING", !.selfMsg = "NONE" ])
      IN  b \in FieldsOf(h, {b.bufs}) /\ SameProgress(a, b) /\ Consistent(b) /\ Unheard(a, b)
  BY <1>1, ZenonT(30) DEF FieldsOf, Closed, SameProgress, Consistent, Unheard
<1>4. LET b == Down(a)
      IN  b \in FieldsOf(h, {b.bufs}) /\ SameProgress(a, b) /\ Consistent(b) /\ Unheard(a, b)
  BY <1>1 DEF FieldsOf, Down, SameProgress, Consistent, Unheard
<1>5. LET b == [ a EXCEPT !.closing = FALSE ]
      IN  b \in FieldsOf(h, {b.bufs}) /\ SameProgress(a, b) /\ Consistent(b) /\ Unheard(a, b)
  BY <1>1 DEF FieldsOf, SameProgress, Consistent, Unheard
<1>6. LET b == [ a EXCEPT !.busy = FALSE,
                          !.endTxTimer = IF @ = "scheduled" THEN "due" ELSE @ ]
      IN  b \in FieldsOf(h, {b.bufs}) /\ SameProgress(a, b) /\ Consistent(b) /\ Unheard(a, b)
  BY <1>1 DEF FieldsOf, SameProgress, Consistent, Unheard
<1> QED
  BY <1>2, <1>3, <1>4, <1>5, <1>6

(* A host that starts, one that has nowhere to send to, and a reception.   *)
LEMMA OtherFields ==
  ASSUME NEW h \in Hosts, NEW a, AppInv(h, a)
  PROVE  /\ a.state = "NOT_OPERATING" =>
              \A kind \in {"START", "NONE"} :
                LET b == [ a EXCEPT !.state = "OPERATING", !.selfMsg = kind ]
                IN  b \in FieldsOf(h, {b.bufs}) /\ SameProgress(a, b) /\ Consistent(b) /\ Unheard(a, b)
         /\ a.state # "NOT_OPERATING" =>
              LET b == [ Bound(a) EXCEPT !.selfMsg = IF HasStopTime[h] THEN "STOP" ELSE "NONE" ]
              IN  b \in FieldsOf(h, {b.bufs}) /\ SameProgress(a, b) /\ Consistent(b) /\ Unheard(a, b)
         /\ LET b == [ a EXCEPT !.numReceived = @ + 1 ]
            IN  b \in FieldsOf(h, {b.bufs}) /\ SameProgress(a, b) /\ Consistent(b)
         /\ \A bufs :
              /\ LET b == [ a EXCEPT !.bufs = bufs ]
                 IN  b \in FieldsOf(h, {b.bufs}) /\ SameProgress(a, b) /\ Consistent(b)
              /\ LET b == [ a EXCEPT !.numReceived = @ + 1, !.bufs = bufs ]
                 IN  b \in FieldsOf(h, {b.bufs}) /\ SameProgress(a, b) /\ Consistent(b)
<1>1. a \in FieldsOf(h, {a.bufs}) /\ Consistent(a)
  BY DEF AppInv, Consistent
<1>2. ASSUME a.state = "NOT_OPERATING", NEW kind \in {"START", "NONE"}
      PROVE  LET b == [ a EXCEPT !.state = "OPERATING", !.selfMsg = kind ]
             IN  b \in FieldsOf(h, {b.bufs}) /\ SameProgress(a, b) /\ Consistent(b) /\ Unheard(a, b)
  BY <1>1, <1>2 DEF FieldsOf, SameProgress, Consistent, Unheard
<1>3. ASSUME a.state # "NOT_OPERATING"
      PROVE  LET b == [ Bound(a) EXCEPT !.selfMsg = IF HasStopTime[h] THEN "STOP" ELSE "NONE" ]
             IN  b \in FieldsOf(h, {b.bufs}) /\ SameProgress(a, b) /\ Consistent(b) /\ Unheard(a, b)
  BY <1>1, <1>3 DEF FieldsOf, SameProgress, Consistent, Bound, Unheard
<1>4. LET b == [ a EXCEPT !.numReceived = @ + 1 ]
      IN  b \in FieldsOf(h, {b.bufs}) /\ SameProgress(a, b) /\ Consistent(b)
  BY <1>1 DEF FieldsOf, SameProgress, Consistent
<1>5. ASSUME NEW bufs
      PROVE  LET b == [ a EXCEPT !.bufs = bufs ]
             IN  b \in FieldsOf(h, {b.bufs}) /\ SameProgress(a, b) /\ Consistent(b)
  BY <1>1 DEF FieldsOf, SameProgress, Consistent
<1>6. ASSUME NEW bufs
      PROVE  LET b == [ a EXCEPT !.numReceived = @ + 1, !.bufs = bufs ]
             IN  b \in FieldsOf(h, {b.bufs}) /\ SameProgress(a, b) /\ Consistent(b)
  <2> DEFINE c == [ a EXCEPT !.numReceived = @ + 1 ]
             b == [ a EXCEPT !.numReceived = @ + 1, !.bufs = bufs ]
  <2>1. b = [ c EXCEPT !.bufs = bufs ]
    BY <1>1 DEF FieldsOf
  <2>2. c \in FieldsOf(h, {c.bufs}) /\ SameProgress(a, c) /\ Consistent(c)
    BY <1>4
  <2> HIDE DEF c, b
  <2>3. b \in FieldsOf(h, {b.bufs}) /\ SameProgress(c, b) /\ Consistent(b)
    BY <2>1, <2>2 DEF FieldsOf, SameProgress, Consistent
  <2>4. SameProgress(a, b)
    BY <2>2, <2>3 DEF SameProgress
  <2> QED
    BY <2>3, <2>4 DEF b
<1> QED
  BY <1>2, <1>3, <1>4, <1>5, <1>6

-----------------------------------------------------------------------------
(***************************************************************************)
(* The steps keep the invariant of every host.                             *)
(***************************************************************************)
HostsInv ==
  /\ DOMAIN app = Hosts /\ sentTo \in [Hosts -> Seq(Packet)] /\ redrawn \subseteq Hosts
  /\ losses \in 0 .. MaxLosses /\ lifecycleOps \in 0 .. MaxLifecycle
  /\ \A h \in Hosts : HostInv(h, app[h], sentTo[h], h \notin redrawn)

(* One host changes, and sends nothing.                                    *)
LEMMA OneHost ==
  ASSUME HostsInv, NEW h \in Hosts, NEW b, app' = [app EXCEPT ![h] = b],
         HostInv(h, b, sentTo[h], h \notin redrawn), UNCHANGED <<sentTo, redrawn>>,
         losses' \in 0 .. MaxLosses, lifecycleOps' \in 0 .. MaxLifecycle
  PROVE  HostsInv'
<1>1. DOMAIN app' = Hosts /\ app'[h] = b /\ \A g \in Hosts \ {h} : app'[g] = app[g]
  BY DEF HostsInv
<1>2. ASSUME NEW g \in Hosts PROVE HostInv(g, app'[g], sentTo'[g], g \notin redrawn')
  BY <1>1 DEF HostsInv
<1> QED
  BY <1>1, <1>2 DEF HostsInv

(* A step of which ProgressKept speaks.                                    *)
LEMMA QuietStep ==
  ASSUME HostsInv, NEW h \in Hosts, NEW b, app' = [app EXCEPT ![h] = b],
         b \in FieldsOf(h, {b.bufs}), SameProgress(app[h], b), Consistent(b),
         UNCHANGED <<sentTo, redrawn>>,
         losses' \in 0 .. MaxLosses, lifecycleOps' \in 0 .. MaxLifecycle
  PROVE  HostsInv'
<1>1. HostInv(h, app[h], sentTo[h], h \notin redrawn)
  BY DEF HostsInv
<1>2. HostInv(h, b, sentTo[h], h \notin redrawn)
  BY <1>1, ProgressKept
<1> QED
  BY <1>2, OneHost

(* Nothing that the invariant is about changes.                            *)
LEMMA SameHosts ==
  ASSUME HostsInv, UNCHANGED <<app, sentTo, redrawn>>,
         losses' \in 0 .. MaxLosses, lifecycleOps' \in 0 .. MaxLifecycle
  PROVE  HostsInv'
BY DEF HostsInv

(* A step after which the packets, and what was received, are the same.    *)
Still ==
  /\ UNCHANGED <<network, sentTo, gone, swallowed, delivered>>
  /\ \A h \in Hosts : Unheard(app[h], app'[h])

(* A step in which h has given packets, or none, for dst to its socket.    *)
Sent(h, dst, packets) ==
  /\ packets \in Seq(Packet) /\ dst \in Hosts
  /\ \A i \in DOMAIN packets : PacketOf(h, packets[i]) /\ packets[i].dst = dst
  /\ network' = [network EXCEPT ![<<h, dst>>] = @ \o packets]
  /\ sentTo' = [sentTo EXCEPT ![h] = @ \o packets]
  /\ UNCHANGED <<gone, swallowed, delivered>>
  /\ \A g \in Hosts : Unheard(app[g], app'[g])

MaySent(h) == Still \/ \E dst, packets : Sent(h, dst, packets)

(* An event that ends in sendPacket.                                       *)
LEMMA SendsStep ==
  ASSUME HostsInv, NEW h \in Hosts, NEW a, NEW len \in Draws(h, a),
         BeforeSending(h, a, sentTo[h], h \notin redrawn), Sends(h, a, len),
         Unheard(app[h], a)
  PROVE  HostsInv' /\ MaySent(h)
<1>1. losses' = losses /\ lifecycleOps' = lifecycleOps
  BY DEF Sends, Fails
<1>2. CASE Fails(SendPacket(h, a, len).error)
  BY <1>1, <1>2, SameHosts DEF Fails, history, HostsInv, MaySent, Still, Unheard
<1>3. CASE ~Fails(SendPacket(h, a, len).error)
  <2> DEFINE r == SendPacket(h, a, len)
  <2>1. /\ r.error = "none" /\ app' = [app EXCEPT ![h] = r.app]
        /\ sentTo' = [sentTo EXCEPT ![h] = @ \o r.packets]
        /\ redrawn' = IF r.packets # <<>> /\ a.offset # 0 /\ len <= FragmentSize
                         THEN redrawn \cup {h} ELSE redrawn
        /\ network' = [network EXCEPT ![<<h, a.destAddr>>] = @ \o r.packets]
        /\ UNCHANGED <<gone, swallowed, delivered>>
    BY <1>3 DEF Sends
  <2>2. CASE a.numSent >= PacketsToSend[h]
    <3>1. r.app = a /\ r.packets = <<>>
      BY <2>2 DEF SendPacket, Nothing, Result
    <3>2. sentTo[h] \in Seq(Packet)
      BY DEF BeforeSending, SentBefore
    <3> HIDE DEF r
    <3>3. sentTo[h] \o <<>> = sentTo[h]
      BY <3>2, ConcatEmptySeq
    <3>4. sentTo' = sentTo /\ redrawn' = redrawn
      BY <2>1, <3>1, <3>3 DEF HostsInv
    <3>5. HostInv(h, a, sentTo[h], h \notin redrawn)
      BY <2>2, NothingLeft
    <3>6. losses \in 0 .. MaxLosses /\ lifecycleOps \in 0 .. MaxLifecycle
      BY DEF HostsInv
    <3>7. \A g \in Hosts : Unheard(app[g], app'[g])
      BY <2>1, <3>1 DEF HostsInv, Unheard
    <3>8. <<>> \in Seq(Packet) /\ DOMAIN <<>> = {}
      OBVIOUS
    <3>9. Sent(h, a.destAddr, <<>>)
      BY <2>1, <3>1, <3>7, <3>8 DEF Sent, BeforeSending
    <3> QED
      BY <1>1, <2>1, <3>1, <3>4, <3>5, <3>6, <3>9, OneHost DEF MaySent
  <2>3. CASE ~(a.numSent >= PacketsToSend[h])
    <3>1. a.numSent < PacketsToSend[h]
      BY <2>3, UdpAppAssumption DEF BeforeSending, AppInv, FieldsOf
    <3>2. MaySend(h, a, len)
      BY <3>1 DEF BeforeSending, MaySend, Apart
    <3>3. SentOK(h, a, len, r)
      BY <2>1, <3>2, SendPacketFacts
    <3> HIDE DEF r
    <3>4. r.packets # <<>>
      BY <3>3 DEF SentOK, PacketsOf
    <3> DEFINE new == a.offset # 0 /\ len <= FragmentSize
    <3>5. HostInv(h, r.app, sentTo[h] \o r.packets, h \notin redrawn /\ ~new)
      BY <3>2, <3>3, AfterSending
    <3>t. r.packets \in Seq(Packet) /\ sentTo[h] \in Seq(Packet)
      BY <3>3 DEF SentOK, PacketsOf, HostsInv
    <3>c. sentTo[h] \o r.packets \in Seq(Packet)
      BY <3>t, ConcatProperties
    <3>6. /\ DOMAIN app' = Hosts /\ sentTo' \in [Hosts -> Seq(Packet)]
          /\ app'[h] = r.app /\ sentTo'[h] = sentTo[h] \o r.packets
          /\ \A g \in Hosts \ {h} : app'[g] = app[g] /\ sentTo'[g] = sentTo[g]
      BY <2>1, <3>c DEF HostsInv
    <3>7. /\ redrawn' = IF new THEN redrawn \cup {h} ELSE redrawn
          /\ h \notin redrawn' <=> h \notin redrawn /\ ~new
          /\ \A g \in Hosts \ {h} : g \notin redrawn' <=> g \notin redrawn
          /\ redrawn' \subseteq Hosts
      BY <2>1, <3>4 DEF HostsInv
    <3> HIDE DEF new
    <3>8. ASSUME NEW g \in Hosts PROVE HostInv(g, app'[g], sentTo'[g], g \notin redrawn')
      <4>1. CASE g = h
        BY <4>1, <3>5, <3>6, <3>7
      <4>2. CASE g # h
        BY <4>2, <3>6, <3>7 DEF HostsInv
      <4> QED
        BY <4>1, <4>2
    <3>9. HostsInv'
      BY <1>1, <3>6, <3>7, <3>8 DEF HostsInv
    <3>10. \A g \in Hosts : Unheard(app[g], app'[g])
      BY <3>3, <3>6 DEF SentOK, FieldsKept, Unheard
    <3>11. ASSUME NEW i \in DOMAIN r.packets
           PROVE  PacketOf(h, r.packets[i]) /\ r.packets[i].dst = a.destAddr
      <4>1. a.numSent \in Nat /\ a.numSent < PacketsToSend[h]
        BY <3>1, UdpAppAssumption DEF BeforeSending, AppInv, FieldsOf
      <4> QED
        BY <4>1, <3>3 DEF SentOK, PacketsOf, PacketOf, Id
    <3>12. Sent(h, a.destAddr, r.packets)
      BY <2>1, <3>t, <3>10, <3>11 DEF Sent, BeforeSending
    <3> QED
      BY <3>9, <3>12 DEF MaySent
  <2> QED
    BY <2>2, <2>3
<1> QED
  BY <1>2, <1>3

(* processSend: the timer still guards a message that has begun.           *)
LEMMA ReadyToSend ==
  ASSUME NEW h \in Hosts, NEW a, NEW b, NEW s, NEW kept \in BOOLEAN, HostInv(h, a, s, kept),
         b \in FieldsOf(h, {b.bufs}), Consistent(b), b.state # "NOT_OPERATING",
         b.destAddr \in Hosts, b.numSent = a.numSent, b.offset = a.offset,
         b.messageLength = a.messageLength, b.endTxTimer = a.endTxTimer
  PROVE  BeforeSending(h, b, s, kept)
<1>1. AppInv(h, a) /\ a.offset \in Nat
  BY DEF HostInv, AppInv, FieldsOf
<1>2. a.offset # 0 => WithinMessage(h, b)
  BY <1>1 DEF AppInv, WithinMessage
<1>3. AppInv(h, b)
  BY <1>1, <1>2 DEF AppInv, Consistent
<1>4. SentBefore(h, b, s)
  BY DEF HostInv, SentBefore
<1>5. ASSUME kept, s # <<>> PROVE MayGoOn(h, b, s[Len(s)])
  <2> DEFINE q == s[Len(s)]
  <2>1. GoesOn(h, a, q)
    BY <1>5 DEF HostInv
  <2>2. q \in Packet
    BY <1>5, <1>4, LenProperties, EmptySeq DEF SentBefore
  <2> HIDE DEF q
  <2>3. q.offset + q.len # 0
    BY <2>2 DEF Packet
  <2>4. MayGoOn(h, b, q)
    BY <2>1, <2>3 DEF GoesOn, MayGoOn
  <2> QED
    BY <2>4 DEF q
<1> QED
  BY <1>3, <1>4, <1>5, ApartKept DEF HostInv, BeforeSending

(* The fields processSend gives to sendPacket.                             *)
SendFieldsOK(h, a, dst, b) ==
  /\ b \in FieldsOf(h, {b.bufs}) /\ Consistent(b) /\ b.state = a.state
  /\ b.destAddr = dst /\ b.numSent = a.numSent /\ b.offset = a.offset
  /\ b.messageLength = a.messageLength /\ b.endTxTimer = a.endTxTimer /\ Unheard(a, b)

(* They differ from those before in the destination and the next timer.    *)
LEMMA SendFields ==
  ASSUME NEW h \in Hosts, NEW a, AppInv(h, a), NEW dst \in Hosts, NEW kind \in {"SEND", "STOP"},
         NEW c, \/ c = Bound(a) /\ a.state # "NOT_OPERATING"
                \/ c = a /\ a.selfMsg = "SEND"
  PROVE  c.numSent = a.numSent
         /\ SendFieldsOK(h, a, dst, [ c EXCEPT !.destAddr = dst, !.selfMsg = kind ])
<1>1. a \in FieldsOf(h, {a.bufs}) /\ Consistent(a)
  BY DEF AppInv, Consistent
<1>2. CASE c = Bound(a) /\ a.state # "NOT_OPERATING"
  BY <1>1, <1>2 DEF FieldsOf, Consistent, Bound, SendFieldsOK, Unheard
<1>3. CASE c = a /\ a.selfMsg = "SEND"
  BY <1>1, <1>3 DEF FieldsOf, Consistent, SendFieldsOK, Unheard
<1> QED
  BY <1>2, <1>3

(* The event of endTxTimer goes on with the message, or ends it.           *)
LEMMA TimerFired ==
  ASSUME NEW h \in Hosts, NEW a, NEW s, NEW kept \in BOOLEAN, HostInv(h, a, s, kept),
         a.endTxTimer = "due", a.state # "NOT_OPERATING"
  PROVE  LET b == [ a EXCEPT !.endTxTimer = "idle" ]
             c == [ b EXCEPT !.offset = 0 ]
         IN  /\ b.offset < b.messageLength => BeforeSending(h, b, s, kept)
             /\ b.offset >= b.messageLength => HostInv(h, c, s, kept)
<1> DEFINE b == [ a EXCEPT !.endTxTimer = "idle" ]
           c == [ b EXCEPT !.offset = 0 ]
<1>1. AppInv(h, a) /\ a.offset # 0 /\ a.destAddr \in Hosts /\ SentBefore(h, a, s)
  BY DEF HostInv, AppInv
<1>2. a \in FieldsOf(h, {a.bufs}) /\ Consistent(a) /\ WithinMessage(h, a)
      /\ a.offset \in Nat /\ a.messageLength \in Nat /\ a.numSent \in Nat
  BY <1>1, UdpAppAssumption DEF AppInv, Consistent, FieldsOf
<1>3. /\ b \in FieldsOf(h, {b.bufs}) /\ Consistent(b) /\ b.state = a.state
      /\ b.endTxTimer = "idle" /\ b.offset = a.offset /\ b.numSent = a.numSent
      /\ b.messageLength = a.messageLength /\ b.destAddr = a.destAddr
  BY <1>2 DEF FieldsOf, Consistent
<1> HIDE DEF b
<1>4. /\ c \in FieldsOf(h, {c.bufs}) /\ Consistent(c) /\ c.state = a.state
      /\ c.endTxTimer = "idle" /\ c.offset = 0 /\ c.numSent = a.numSent
      /\ c.messageLength = a.messageLength /\ c.destAddr = a.destAddr
  BY <1>3 DEF FieldsOf, Consistent
<1> HIDE DEF c
<1>5. s # <<>> /\ s \in Seq(Packet) /\ s[Len(s)] \in Packet
  BY <1>1, LenProperties, EmptySeq DEF SentBefore
<1> DEFINE q == s[Len(s)]
<1>6. kept => GoesOn(h, a, q)
  BY <1>5 DEF HostInv
<1> HIDE DEF q
<1>7. ASSUME b.offset < b.messageLength PROVE BeforeSending(h, b, s, kept)
  <2>1. WithinMessage(h, b)
    BY <1>2, <1>3, <1>7 DEF WithinMessage
  <2>2. AppInv(h, b)
    BY <1>1, <1>3, <2>1 DEF AppInv, Consistent
  <2>3. SentBefore(h, b, s)
    BY <1>1, <1>3 DEF SentBefore
  <2>4. kept => MayGoOn(h, b, q)
    <3>1. ~(b.offset >= b.messageLength)
      BY <1>2, <1>3, <1>7
    <3> QED
      BY <3>1, <1>1, <1>3, <1>6 DEF GoesOn, MayGoOn
  <2>5. kept => InSequence(s)
    BY DEF HostInv
  <2> QED
    BY <2>2, <2>3, <2>4, <2>5, <1>1, <1>3, ApartKept DEF BeforeSending, HostInv, q
<1>8. ASSUME b.offset >= b.messageLength PROVE HostInv(h, c, s, kept)
  <2>1. AppInv(h, c)
    BY <1>1, <1>4 DEF AppInv, Consistent
  <2>2. SentBefore(h, c, s)
    BY <1>1, <1>4 DEF SentBefore
  <2>3. kept => GoesOn(h, c, q)
    <3>1. ~(a.offset < a.messageLength)
      BY <1>2, <1>3, <1>8
    <3> QED
      BY <3>1, <1>4, <1>6 DEF GoesOn
  <2>4. kept => InSequence(s)
    BY DEF HostInv
  <2>5. Apart(h, c, s)
    <3>1. Apart(h, a, s) /\ ~(a.offset < a.messageLength)
      BY <1>2, <1>3, <1>8 DEF HostInv
    <3>2. \A i \in DOMAIN s : Past(c, s[i])
      BY <3>1, <1>4 DEF Apart, Past
    <3>3. AlignedWithin(h, c)
      BY <1>4, AlignedZero DEF AlignedWithin
    <3> QED
      BY <3>1, <3>2, <3>3 DEF Apart
  <2> QED
    BY <2>1, <2>2, <2>3, <2>4, <2>5, <1>4 DEF HostInv, q
<1> QED
  BY <1>7, <1>8 DEF b, c

(* At the beginning nothing was sent.                                      *)
LEMMA HostsInit ==
  ASSUME Init PROVE HostsInv
<1>1. ASSUME NEW h \in Hosts PROVE HostInv(h, Fields, <<>>, TRUE)
  <2>1. Fields \in FieldsOf(h, {Fields.bufs}) /\ Fields.offset = 0 /\ Fields.numSent = 0
        /\ Fields.selfMsg = "START" /\ Fields.udpSocket = "none" /\ Fields.endTxTimer = "idle"
        /\ Fields.state = "OPERATING"
    BY UdpAppAssumption DEF Fields, FieldsOf
  <2>2. AppInv(h, Fields)
    BY <2>1 DEF AppInv
  <2>3. <<>> \in Seq(Packet) /\ Len(<<>>) = 0 /\ DOMAIN <<>> = {}
    OBVIOUS
  <2>4. SentBefore(h, Fields, <<>>)
    BY <2>1, <2>3 DEF SentBefore
  <2>5. InSequence(<<>>)
    BY <2>3 DEF InSequence
  <2>6. AlignedWithin(h, Fields)
    BY <2>1, AlignedZero DEF AlignedWithin
  <2>7. Apart(h, Fields, <<>>)
    BY <2>3, <2>6 DEF Apart
  <2> QED
    BY <2>1, <2>2, <2>4, <2>5, <2>7 DEF HostInv
<1>2. \A h \in Hosts : app[h] = Fields /\ sentTo[h] = <<>> /\ (h \notin redrawn) = TRUE
  BY DEF Init
<1>3. \A h \in Hosts : HostInv(h, app[h], sentTo[h], h \notin redrawn)
  BY <1>1, <1>2
<1>4. /\ DOMAIN app = Hosts /\ sentTo \in [Hosts -> Seq(Packet)] /\ redrawn = {}
      /\ losses = 0 /\ lifecycleOps = 0
  BY DEF Init
<1> QED
  BY <1>3, <1>4, UdpAppAssumption DEF HostsInv

(* The facts every step uses.                                              *)
LEMMA HostFacts ==
  ASSUME HostsInv, NEW h \in Hosts
  PROVE  /\ HostInv(h, app[h], sentTo[h], h \notin redrawn) /\ AppInv(h, app[h])
         /\ (h \notin redrawn) \in BOOLEAN
         /\ losses \in 0 .. MaxLosses /\ lifecycleOps \in 0 .. MaxLifecycle
BY DEF HostsInv, HostInv

(* The timer of the application, with the fields a.                        *)
LEMMA ProcessSendStep ==
  ASSUME HostsInv, NEW h \in Hosts, Up(h), NEW a,
         a = Bound(app[h]) \/ (a = app[h] /\ app[h].selfMsg = "SEND"), ProcessSend(h, a)
  PROVE  HostsInv' /\ MaySent(h)
<1>1. PICK dst \in DestAddresses[h],
            len \in Draws(h, a), kind \in NextTimer(h) :
        Sends(h, [ a EXCEPT !.destAddr = dst, !.selfMsg = kind ], len)
  BY DEF ProcessSend
<1>2. dst \in Hosts /\ kind \in {"SEND", "STOP"} /\ app[h].state # "NOT_OPERATING"
  BY UdpAppAssumption DEF NextTimer, Up
<1> DEFINE b == [ a EXCEPT !.destAddr = dst, !.selfMsg = kind ]
           x == app[h]
<1>3. HostInv(h, x, sentTo[h], h \notin redrawn) /\ AppInv(h, x)
      /\ (h \notin redrawn) \in BOOLEAN
  BY HostFacts
<1>4. SendFieldsOK(h, x, dst, b) /\ a.numSent = x.numSent
  BY <1>2, <1>3, SendFields, ZenonT(30)
<1>5. /\ b \in FieldsOf(h, {b.bufs}) /\ Consistent(b) /\ b.state = x.state
      /\ b.destAddr = dst /\ b.numSent = x.numSent /\ b.offset = x.offset
      /\ b.messageLength = x.messageLength /\ b.endTxTimer = x.endTxTimer /\ Unheard(x, b)
  BY <1>4 DEF SendFieldsOK
<1>6. len \in Draws(h, b)
  BY <1>4, <1>5 DEF Draws
<1>7. Sends(h, b, len) /\ x.state # "NOT_OPERATING"
  BY <1>1, <1>2
<1> HIDE DEF b, x
<1>8. BeforeSending(h, b, sentTo[h], h \notin redrawn)
  BY <1>2, <1>3, <1>5, <1>7, ReadyToSend
<1> QED
  BY <1>5, <1>6, <1>7, <1>8, SendsStep DEF x

(* The event of endTxTimer.                                                *)
LEMMA HandleEndTxStep ==
  ASSUME HostsInv, NEW h \in Hosts, HandleEndTxPeriod(h)
  PROVE  HostsInv' /\ MaySent(h)
<1> DEFINE x == app[h]
           b == [ x EXCEPT !.endTxTimer = "idle" ]
           c == [ b EXCEPT !.offset = 0 ]
<1>1. /\ HostInv(h, x, sentTo[h], h \notin redrawn) /\ (h \notin redrawn) \in BOOLEAN
      /\ losses \in 0 .. MaxLosses /\ lifecycleOps \in 0 .. MaxLifecycle
  BY HostFacts
<1>u. Unheard(x, b) /\ Unheard(x, c)
  BY <1>1 DEF HostInv, AppInv, FieldsOf, Unheard
<1>2. CASE Fails("self message when down")
  BY <1>1, <1>2, SameHosts DEF Fails, history, MaySent, Still, Unheard
<1>3. CASE Up(h) /\ b.offset < b.messageLength /\ \E len \in Draws(h, b) : Sends(h, b, len)
  <2>1. x.state # "NOT_OPERATING" /\ x.endTxTimer = "due"
    BY <1>3 DEF Up, HandleEndTxPeriod
  <2>2. BeforeSending(h, b, sentTo[h], h \notin redrawn)
    BY <2>1, <1>1, <1>3, TimerFired
  <2>3. PICK len \in Draws(h, b) : Sends(h, b, len)
    BY <1>3
  <2> HIDE DEF b
  <2> QED
    BY <2>2, <2>3, <1>u, SendsStep
<1>4. CASE Up(h) /\ b.offset >= b.messageLength /\ Quietly(h, c)
  <2>1. x.state # "NOT_OPERATING" /\ x.endTxTimer = "due"
    BY <1>4 DEF Up, HandleEndTxPeriod
  <2>2. HostInv(h, c, sentTo[h], h \notin redrawn)
    BY <2>1, <1>1, <1>4, TimerFired
  <2>3. Quietly(h, c)
    BY <1>4
  <2> HIDE DEF c
  <2>4. app' = [app EXCEPT ![h] = c] /\ UNCHANGED <<sentTo, redrawn>>
        /\ losses' \in 0 .. MaxLosses /\ lifecycleOps' \in 0 .. MaxLifecycle
    BY <2>3, <1>1 DEF Quietly, history
  <2>5. HostsInv'
    BY <2>2, <2>4, OneHost
  <2>6. Still
    BY <2>3, <2>4, <1>u DEF Quietly, history, Still, Unheard, HostsInv
  <2> QED
    BY <2>5, <2>6 DEF MaySent
<1> QED
  BY <1>2, <1>3, <1>4 DEF HandleEndTxPeriod

(* A step of Quietly.                                                      *)
LEMMA QuietlyStep ==
  ASSUME HostsInv, NEW h \in Hosts, NEW b, Quietly(h, b),
         b \in FieldsOf(h, {b.bufs}), SameProgress(app[h], b), Consistent(b),
         Unheard(app[h], b)
  PROVE  HostsInv' /\ Still
<1>1. app' = [app EXCEPT ![h] = b] /\ UNCHANGED <<sentTo, redrawn>>
      /\ losses' \in 0 .. MaxLosses /\ lifecycleOps' \in 0 .. MaxLifecycle
  BY HostFacts DEF Quietly, history
<1>2. Still
  BY <1>1 DEF Quietly, history, Still, Unheard, HostsInv
<1> QED
  BY <1>1, <1>2, QuietStep

(* The timers that send nothing, and the lifecycle.                        *)
LEMMA QuietActions ==
  ASSUME HostsInv, NEW h \in Hosts,
         \/ ProcessStop(h) \/ TransmissionEnds(h) \/ HandleStartOperation(h)
         \/ HandleStopOperation(h) \/ HandleCrashOperation(h)
         \/ SocketClosed(h) \/ HandleActiveOperationTimeout(h)
  PROVE  HostsInv' /\ Still
<1> DEFINE x == app[h]
<1>1. AppInv(h, x)
  BY HostFacts
<1>2. lifecycleOps \in 0 .. MaxLifecycle /\ losses \in 0 .. MaxLosses
  BY HostFacts
<1>3. CASE ProcessStop(h)
  <2> DEFINE b == Closed([ x EXCEPT !.selfMsg = "NONE" ])
  <2>1. b \in FieldsOf(h, {b.bufs}) /\ SameProgress(x, b) /\ Consistent(b) /\ Unheard(x, b)
    BY <1>1, QuietFields
  <2>2. Quietly(h, b)
    BY <1>3 DEF ProcessStop
  <2> HIDE DEF b
  <2> QED
    BY <2>1, <2>2, QuietlyStep
<1>4. CASE TransmissionEnds(h)
  <2> DEFINE b == [ x EXCEPT !.busy = FALSE,
                             !.endTxTimer = IF @ = "scheduled" THEN "due" ELSE @ ]
  <2>1. b \in FieldsOf(h, {b.bufs}) /\ SameProgress(x, b) /\ Consistent(b) /\ Unheard(x, b)
    BY <1>1, QuietFields
  <2>2. Quietly(h, b)
    BY <1>4 DEF TransmissionEnds
  <2> HIDE DEF b
  <2> QED
    BY <2>1, <2>2, QuietlyStep
<1>5. CASE HandleStartOperation(h)
  <2>1. PICK kind \in {"START", "NONE"} :
          Quietly(h, [ x EXCEPT !.state = "OPERATING", !.selfMsg = kind ])
    BY <1>5 DEF HandleStartOperation
  <2> DEFINE b == [ x EXCEPT !.state = "OPERATING", !.selfMsg = kind ]
  <2>2. x.state = "NOT_OPERATING"
    BY <1>5 DEF HandleStartOperation, Up
  <2>3. b \in FieldsOf(h, {b.bufs}) /\ SameProgress(x, b) /\ Consistent(b) /\ Unheard(x, b)
    BY <1>1, <2>2, OtherFields
  <2>4. Quietly(h, b)
    BY <2>1
  <2> HIDE DEF b
  <2> QED
    BY <2>3, <2>4, QuietlyStep
<1>6. ASSUME NEW b, app' = [app EXCEPT ![h] = b], Operates(h),
             b \in FieldsOf(h, {b.bufs}) /\ SameProgress(x, b) /\ Consistent(b) /\ Unheard(x, b)
      PROVE  HostsInv' /\ Still
  <2>1. lifecycleOps' \in 0 .. MaxLifecycle /\ losses' = losses /\ UNCHANGED <<sentTo, redrawn>>
    BY <1>2, <1>6, UdpAppAssumption DEF Operates, history
  <2>2. Still
    BY <1>6 DEF Operates, history, Still, Unheard, HostsInv
  <2> QED
    BY <2>1, <2>2, <1>2, <1>6, QuietStep
<1>7. CASE HandleStopOperation(h)
  <2> DEFINE b == Closed([ x EXCEPT !.state = "STOPPING", !.selfMsg = "NONE" ])
  <2>1. b \in FieldsOf(h, {b.bufs}) /\ SameProgress(x, b) /\ Consistent(b) /\ Unheard(x, b)
    BY <1>1, QuietFields
  <2>2. app' = [app EXCEPT ![h] = b] /\ Operates(h)
    BY <1>7 DEF HandleStopOperation
  <2> HIDE DEF b
  <2> QED
    BY <2>1, <2>2, <1>6
<1>8. ASSUME NEW b, b = Down(x)
      PROVE  b \in FieldsOf(h, {b.bufs}) /\ SameProgress(x, b) /\ Consistent(b) /\ Unheard(x, b)
  BY <1>1, <1>8, QuietFields
<1>9. CASE HandleCrashOperation(h)
  <2>1. app' = [app EXCEPT ![h] = Down(x)] /\ Operates(h)
    BY <1>9 DEF HandleCrashOperation
  <2> QED
    BY <2>1, <1>6, <1>8
<1>10. CASE SocketClosed(h)
  <2>1. CASE x.state = "STOPPING"
    <3>1. Quietly(h, Down(x))
      BY <2>1, <1>10 DEF SocketClosed
    <3> QED
      BY <3>1, <1>8, QuietlyStep
  <2>2. CASE x.state # "STOPPING"
    <3> DEFINE b == [ x EXCEPT !.closing = FALSE ]
    <3>1. b \in FieldsOf(h, {b.bufs}) /\ SameProgress(x, b) /\ Consistent(b) /\ Unheard(x, b)
      BY <1>1, QuietFields
    <3>2. Quietly(h, b)
      BY <2>2, <1>10 DEF SocketClosed
    <3> HIDE DEF b
    <3> QED
      BY <3>1, <3>2, QuietlyStep
  <2> QED
    BY <2>1, <2>2
<1>11. CASE HandleActiveOperationTimeout(h)
  <2>1. Quietly(h, Down(x))
    BY <1>11 DEF HandleActiveOperationTimeout
  <2> QED
    BY <2>1, <1>8, QuietlyStep
<1> QED
  BY <1>3, <1>4, <1>5, <1>7, <1>9, <1>10, <1>11

(* What a reception does to the fields.                                    *)
Received(a, b) ==
  \/ b = [ a EXCEPT !.numReceived = @ + 1 ]
  \/ \E bufs : b = [ a EXCEPT !.bufs = bufs ]
  \/ \E bufs : b = [ a EXCEPT !.numReceived = @ + 1, !.bufs = bufs ]

(* It counts at most one packet.                                           *)
LEMMA ReceptionFields ==
  ASSUME DOMAIN app = Hosts, NEW h \in Hosts, NEW p, ProcessPacket(h, p)
  PROVE  \E b : app' = [app EXCEPT ![h] = b] /\ Received(app[h], b)
<1>1. CASE app' = [app EXCEPT ![h].numReceived = @ + 1]
  <2>1. app' = [app EXCEPT ![h] = [ app[h] EXCEPT !.numReceived = @ + 1 ]]
    BY <1>1
  <2> QED
    BY <2>1 DEF Received
<1>2. CASE \E bufs : app' = [app EXCEPT ![h].bufs = bufs]
  <2>1. PICK bufs : app' = [app EXCEPT ![h].bufs = bufs]
    BY <1>2
  <2>2. app' = [app EXCEPT ![h] = [ app[h] EXCEPT !.bufs = bufs ]]
    BY <2>1
  <2> QED
    BY <2>2 DEF Received
<1>3. CASE \E bufs : app' = [app EXCEPT ![h].numReceived = @ + 1, ![h].bufs = bufs]
  <2>1. PICK bufs : app' = [app EXCEPT ![h].numReceived = @ + 1, ![h].bufs = bufs]
    BY <1>3
  <2>2. app' = [app EXCEPT ![h] = [ app[h] EXCEPT !.numReceived = @ + 1, !.bufs = bufs ]]
    BY <2>1
  <2> QED
    BY <2>2 DEF Received
<1> QED
  BY <1>1, <1>2, <1>3 DEF ProcessPacket, Counted, Kept

(* It leaves what sendPacket needs.                                        *)
LEMMA ReceivedFields ==
  ASSUME NEW h \in Hosts, NEW a, AppInv(h, a), NEW b, Received(a, b)
  PROVE  b \in FieldsOf(h, {b.bufs}) /\ SameProgress(a, b) /\ Consistent(b)
<1>1. CASE b = [ a EXCEPT !.numReceived = @ + 1 ]
  BY <1>1, OtherFields
<1>2. CASE \E bufs : b = [ a EXCEPT !.bufs = bufs ]
  <2>1. PICK bufs : b = [ a EXCEPT !.bufs = bufs ]
    BY <1>2
  <2> QED
    BY <2>1, OtherFields
<1>3. CASE \E bufs : b = [ a EXCEPT !.numReceived = @ + 1, !.bufs = bufs ]
  <2>1. PICK bufs : b = [ a EXCEPT !.numReceived = @ + 1, !.bufs = bufs ]
    BY <1>3
  <2> QED
    BY <2>1, OtherFields
<1> QED
  BY <1>1, <1>2, <1>3 DEF Received

(* A packet arrives, or is lost.                                           *)
LEMMA NetworkStep ==
  ASSUME HostsInv, NEW g \in Hosts, NEW h \in Hosts, Arrive(g, h) \/ Lose(g, h)
  PROVE  HostsInv'
<1>1. AppInv(h, app[h]) /\ losses \in 0 .. MaxLosses /\ lifecycleOps \in 0 .. MaxLifecycle
      /\ DOMAIN app = Hosts
  BY HostFacts DEF HostsInv
<1>2. CASE Lose(g, h)
  <2>1. losses' \in 0 .. MaxLosses /\ lifecycleOps' \in 0 .. MaxLifecycle
        /\ UNCHANGED <<app, sentTo, redrawn>>
    BY <1>1, <1>2, UdpAppAssumption DEF Lose
  <2> QED
    BY <2>1, SameHosts
<1>3. CASE Arrive(g, h)
  <2>1. losses' \in 0 .. MaxLosses /\ lifecycleOps' \in 0 .. MaxLifecycle
        /\ UNCHANGED <<sentTo, redrawn>>
    BY <1>1, <1>3 DEF Arrive
  <2>2. CASE UNCHANGED app
    BY <2>1, <2>2, SameHosts
  <2>3. CASE ProcessPacket(h, Head(network[<<g, h>>]))
    <3>1. PICK b : app' = [app EXCEPT ![h] = b] /\ Received(app[h], b)
      BY <1>1, <2>3, ReceptionFields
    <3>2. b \in FieldsOf(h, {b.bufs}) /\ SameProgress(app[h], b) /\ Consistent(b)
      BY <1>1, <3>1, ReceivedFields
    <3> QED
      BY <2>1, <3>1, <3>2, QuietStep
  <2> QED
    BY <1>3, <2>2, <2>3 DEF Arrive
<1> QED
  BY <1>2, <1>3

(* The first event of the application.                                     *)
LEMMA ProcessStartStep ==
  ASSUME HostsInv, NEW h \in Hosts, ProcessStart(h)
  PROVE  HostsInv' /\ MaySent(h)
<1>1. CASE ProcessSend(h, Bound(app[h]))
  BY <1>1, ProcessSendStep DEF ProcessStart
<1>2. CASE Quietly(h, [ Bound(app[h]) EXCEPT
                          !.selfMsg = IF HasStopTime[h] THEN "STOP" ELSE "NONE" ])
  <2> DEFINE b == [ Bound(app[h]) EXCEPT
                      !.selfMsg = IF HasStopTime[h] THEN "STOP" ELSE "NONE" ]
  <2>1. AppInv(h, app[h]) /\ app[h].state # "NOT_OPERATING"
    BY HostFacts DEF ProcessStart, Up
  <2>2. b \in FieldsOf(h, {b.bufs}) /\ SameProgress(app[h], b) /\ Consistent(b) /\ Unheard(app[h], b)
    BY <2>1, OtherFields
  <2>3. Quietly(h, b)
    BY <1>2
  <2> HIDE DEF b
  <2> QED
    BY <2>2, <2>3, QuietlyStep DEF MaySent
<1> QED
  BY <1>1, <1>2 DEF ProcessStart

(* What a step does to the packets under way.                              *)
NetworkMoves ==
  \/ Still \/ \E h \in Hosts : \E dst, packets : Sent(h, dst, packets)
  \/ \E g, h \in Hosts : Arrive(g, h) \/ Lose(g, h)

(* Every step keeps it.                                                    *)
LEMMA HostsNext ==
  ASSUME HostsInv, [Next]_vars
  PROVE  HostsInv' /\ NetworkMoves
<1>1. CASE UNCHANGED vars
  BY <1>1 DEF vars, history, HostsInv, NetworkMoves, Still, Unheard
<1>2. CASE Next
  <2>1. PICK h \in Hosts :
          \/ ProcessStart(h) \/ SendTimer(h) \/ ProcessStop(h)
          \/ TransmissionEnds(h) \/ HandleEndTxPeriod(h)
          \/ HandleStartOperation(h) \/ HandleStopOperation(h) \/ HandleCrashOperation(h)
          \/ SocketClosed(h) \/ HandleActiveOperationTimeout(h)
          \/ \E g \in Hosts : Arrive(g, h) \/ Lose(g, h)
    BY <1>2 DEF Next
  <2>2. CASE ProcessStart(h)
    BY <2>2, ProcessStartStep DEF NetworkMoves, MaySent
  <2>3. CASE SendTimer(h)
    BY <2>3, ProcessSendStep DEF SendTimer, NetworkMoves, MaySent
  <2>4. CASE HandleEndTxPeriod(h)
    BY <2>4, HandleEndTxStep DEF NetworkMoves, MaySent
  <2>5. CASE \/ ProcessStop(h) \/ TransmissionEnds(h) \/ HandleStartOperation(h)
             \/ HandleStopOperation(h) \/ HandleCrashOperation(h)
             \/ SocketClosed(h) \/ HandleActiveOperationTimeout(h)
    BY <2>5, QuietActions DEF NetworkMoves, MaySent
  <2>6. CASE \E g \in Hosts : Arrive(g, h) \/ Lose(g, h)
    BY <2>6, NetworkStep DEF NetworkMoves, MaySent
  <2> QED
    BY <2>1, <2>2, <2>3, <2>4, <2>5, <2>6
<1> QED
  BY <1>1, <1>2

(* The fields of every application and the packets it has sent, as the     *)
(* timer, the lifecycle and the arrivals leave them in any order.          *)
THEOREM UdpAppInvariant == Spec => []HostsInv
<1>1. Init => HostsInv
  BY HostsInit
<1>2. HostsInv /\ [Next]_vars => HostsInv'
  BY HostsNext
<1> QED
  BY <1>1, <1>2, PTL DEF Spec

-----------------------------------------------------------------------------
(***************************************************************************)
(* The properties.                                                         *)
(***************************************************************************)
(* The fields keep their ranges, no fragment is empty, and the socket is   *)
(* never bound twice.                                                      *)
THEOREM UdpAppTypeCorrect == Spec => []TypeOK
<1>1. ASSUME HostsInv, NEW h \in Hosts
      PROVE  /\ app[h].state \in {"OPERATING", "STOPPING", "NOT_OPERATING"}
             /\ app[h].selfMsg \in {"NONE", "START", "SEND", "STOP"}
             /\ app[h].sockState \in {"CLOSED", "CONNECTED"}
             /\ app[h].udpSocket \in {"none", "ephemeral", "bound"}
             /\ app[h].selfMsg = "START" => app[h].udpSocket # "bound"
             /\ app[h].endTxTimer \in {"idle", "scheduled", "due"}
             /\ app[h].numSent \in 0 .. PacketsToSend[h]
             /\ {app[h].offset, app[h].messageLength, app[h].numReceived} \subseteq Nat
             /\ ToSet(sentTo[h]) \subseteq Packet
  <2>1. AppInv(h, app[h])
    BY <1>1, HostFacts
  <2>2. sentTo[h] \in Seq(Packet)
    BY <1>1 DEF HostsInv
  <2>3. ToSet(sentTo[h]) \subseteq Packet
    BY <2>2 DEF ToSet
  <2> QED
    BY <2>1, <2>3 DEF AppInv, FieldsOf
<1>2. HostsInv => TypeOK
  BY <1>1 DEF TypeOK, HostsInv
<1> QED
  BY <1>2, UdpAppInvariant, PTL

(* The packets of a host are its messages one after the other, though      *)
(* events of the timer, of the application and of the lifecycle come in    *)
(* between, unless a length was drawn anew within a message.               *)
THEOREM MessagesInSequenceHolds == Spec => []MessagesInSequence
<1>1. HostsInv => MessagesInSequence
  BY DEF HostsInv, HostInv, InSequence, MessagesInSequence
<1> QED
  BY <1>1, UdpAppInvariant, PTL

(* Only the two timers send.                                               *)
LEMMA WhoSends ==
  ASSUME HostsInv, Next, NEW h \in Hosts, sentTo'[h] # sentTo[h]
  PROVE  ProcessStart(h) \/ SendTimer(h) \/ HandleEndTxPeriod(h)
<1>1. ASSUME NEW g \in Hosts, NEW a, NEW len, Sends(g, a, len) PROVE g = h
  <2>1. sentTo' = sentTo \/ sentTo' = [sentTo EXCEPT ![g] = @ \o SendPacket(g, a, len).packets]
    BY <1>1 DEF Sends, Fails, history
  <2> QED
    BY <2>1 DEF HostsInv
<1>2. ASSUME NEW g \in Hosts, NEW a, ProcessSend(g, a) PROVE g = h
  BY <1>1, <1>2 DEF ProcessSend
<1>3. PICK g \in Hosts :
        \/ ProcessStart(g) \/ SendTimer(g) \/ ProcessStop(g)
        \/ TransmissionEnds(g) \/ HandleEndTxPeriod(g)
        \/ HandleStartOperation(g) \/ HandleStopOperation(g) \/ HandleCrashOperation(g)
        \/ SocketClosed(g) \/ HandleActiveOperationTimeout(g)
        \/ \E f \in Hosts : Arrive(f, g) \/ Lose(f, g)
  BY DEF Next
<1>4. ASSUME NEW b, Quietly(g, b) PROVE FALSE
  BY <1>4 DEF Quietly, history
<1>5. CASE ProcessStart(g)
  BY <1>2, <1>4, <1>5 DEF ProcessStart
<1>6. CASE SendTimer(g)
  BY <1>2, <1>6 DEF SendTimer
<1>7. CASE HandleEndTxPeriod(g)
  <2>1. \/ Fails("self message when down") \/ \E b : Quietly(g, b)
        \/ \E a, len : Sends(g, a, len)
    BY <1>7 DEF HandleEndTxPeriod
  <2> QED
    BY <2>1, <1>1, <1>4, <1>7 DEF Fails, history
<1>8. CASE ProcessStop(g) \/ TransmissionEnds(g)
  BY <1>4, <1>8 DEF ProcessStop, TransmissionEnds
<1>9. CASE HandleStartOperation(g) \/ SocketClosed(g) \/ HandleActiveOperationTimeout(g)
  BY <1>4, <1>9 DEF HandleStartOperation, SocketClosed, HandleActiveOperationTimeout
<1>10. CASE HandleStopOperation(g) \/ HandleCrashOperation(g)
  BY <1>10 DEF HandleStopOperation, HandleCrashOperation, Operates, history
<1>11. CASE \E f \in Hosts : Arrive(f, g) \/ Lose(f, g)
  BY <1>11 DEF Arrive, Lose
<1> QED
  BY <1>3, <1>5, <1>6, <1>7, <1>8, <1>9, <1>10, <1>11

(* A socket that was closed is opened again only by the timer, in the      *)
(* middle of a message: SEND is cancelled together with close().           *)
THEOREM OpensAgainOnlyMidMessageHolds == Spec => OpensAgainOnlyMidMessage
<1>1. ASSUME HostsInv, Next, NEW h \in Hosts, sentTo'[h] # sentTo[h],
             app[h].sockState = "CLOSED", app[h].selfMsg # "START", h \notin redrawn
      PROVE  sentTo[h] # <<>> /\ Last(sentTo[h]).more
  <2> DEFINE a == app[h]
             s == sentTo[h]
  <2>1. HostInv(h, a, s, h \notin redrawn) /\ AppInv(h, a)
    BY <1>1, HostFacts
  <2>2. a.selfMsg # "SEND"
    BY <1>1, <2>1 DEF AppInv
  <2>3. HandleEndTxPeriod(h)
    BY <1>1, <2>2, WhoSends DEF ProcessStart, SendTimer
  <2>4. a.endTxTimer = "due"
    BY <2>3 DEF HandleEndTxPeriod
  <2>5. ~Fails("self message when down") /\ \A b : ~Quietly(h, b)
    BY <1>1 DEF Fails, Quietly, history
  <2> DEFINE b == [ a EXCEPT !.endTxTimer = "idle" ]
  <2>6. b.offset < b.messageLength
    BY <2>3, <2>5 DEF HandleEndTxPeriod
  <2>7. a.offset < a.messageLength /\ a.offset # 0 /\ a.offset \in Nat /\ a.messageLength \in Nat
    BY <2>1, <2>4, <2>6 DEF AppInv, FieldsOf
  <2> HIDE DEF a, s, b
  <2>8. s # <<>> /\ GoesOn(h, a, s[Len(s)])
    BY <1>1, <2>1, <2>7 DEF HostInv, SentBefore
  <2> DEFINE q == s[Len(s)]
  <2> HIDE DEF q
  <2>9. ~(a.offset >= a.messageLength)
    BY <2>7
  <2>10. GoesOn(h, a, q)
    BY <2>8 DEF q
  <2>11. q.more
    BY <2>7, <2>9, <2>10 DEF GoesOn
  <2> QED
    BY <2>8, <2>11 DEF q, s, Last
<1>2. HostsInv /\ [Next]_vars =>
        [ \A h \in Hosts :
            /\ sentTo'[h] # sentTo[h] /\ app[h].sockState = "CLOSED"
            /\ app[h].selfMsg # "START" /\ h \notin redrawn
            => sentTo[h] # <<>> /\ Last(sentTo[h]).more ]_vars
  BY <1>1
<1> QED
  BY <1>2, UdpAppInvariant, PTL DEF Spec, OpensAgainOnlyMidMessage

-----------------------------------------------------------------------------
(***************************************************************************)
(* The first packet of a host.                                             *)
(***************************************************************************)
FirstOf(g) == sentTo[g][1]

(* What is under way was sent by its sender, and to where it goes.         *)
NetworkInv ==
  /\ network \in [Hosts \X Hosts -> Seq(Packet)]
  /\ \A g, h \in Hosts :
       /\ \A i \in DOMAIN network[<<g, h>>] : /\ PacketOf(g, network[<<g, h>>][i])
                                              /\ network[<<g, h>>][i].dst = h
       /\ sentTo[g] = <<>> => network[<<g, h>>] = <<>>

(* The first packet of a host is gone, counted by its receiver, or the     *)
(* next to arrive there.                                                   *)
FirstInv ==
  IsGlobalArp =>
    \A g \in Hosts : sentTo[g] # <<>> =>
      \/ FirstOf(g) \in gone
      \/ app[FirstOf(g).dst].numReceived > 0
      \/ /\ network[<<g, FirstOf(g).dst>>] # <<>>
         /\ Head(network[<<g, FirstOf(g).dst>>]) = FirstOf(g)

(* What a host has sent is only added to.                                  *)
LEMMA SentGrows ==
  ASSUME HostsInv, HostsInv', NEW h \in Hosts, NEW dst, NEW packets, Sent(h, dst, packets),
         NEW g \in Hosts
  PROVE  /\ sentTo[g] # <<>> => sentTo'[g] # <<>> /\ sentTo'[g][1] = sentTo[g][1]
         /\ sentTo[g] = <<>> /\ sentTo'[g] # <<>> =>
              g = h /\ packets # <<>> /\ sentTo'[g] = packets
<1>1. sentTo[g] \in Seq(Packet) /\ packets \in Seq(Packet)
  BY DEF HostsInv, Sent
<1>2. sentTo'[g] = IF g = h THEN sentTo[g] \o packets ELSE sentTo[g]
  BY DEF HostsInv, Sent
<1>3. CASE sentTo[g] # <<>>
  <2>1. Len(sentTo[g]) >= 1
    BY <1>1, <1>3, EmptySeq, LenProperties
  <2>2. sentTo[g] \o packets # <<>> /\ (sentTo[g] \o packets)[1] = sentTo[g][1]
    BY <1>1, <2>1, ConcatProperties, EmptySeq, LenProperties
  <2> QED
    BY <1>2, <1>3, <2>2
<1>4. CASE sentTo[g] = <<>>
  <2>1. sentTo[g] \o packets = packets
    BY <1>1, <1>4, ConcatEmptySeq
  <2> QED
    BY <1>2, <1>4, <2>1
<1> QED
  BY <1>3, <1>4

(* A queue to which packets are added.                                     *)
LEMMA QueueGrows ==
  ASSUME NetworkInv, HostsInv, NEW h \in Hosts, NEW dst, NEW packets, Sent(h, dst, packets),
         NEW f \in Hosts, NEW g \in Hosts
  PROVE  LET old == network[<<f, g>>]
             new == network'[<<f, g>>]
         IN  /\ new = IF f = h /\ g = dst THEN old \o packets ELSE old
             /\ new \in Seq(Packet)
             /\ \A i \in DOMAIN new : PacketOf(f, new[i]) /\ new[i].dst = g
             /\ old # <<>> => new # <<>> /\ Head(new) = Head(old)
<1> DEFINE old == network[<<f, g>>]
           new == network'[<<f, g>>]
<1>1. old \in Seq(Packet) /\ packets \in Seq(Packet)
      /\ \A i \in DOMAIN old : PacketOf(f, old[i]) /\ old[i].dst = g
  BY DEF NetworkInv, Sent
<1>2. new = IF f = h /\ g = dst THEN old \o packets ELSE old
  BY DEF NetworkInv, Sent
<1>3. \A i \in DOMAIN packets : PacketOf(h, packets[i]) /\ packets[i].dst = dst
  BY DEF Sent
<1> HIDE DEF old, new
<1>4. CASE f = h /\ g = dst
  <2> DEFINE u == old \o packets
  <2>1. /\ u \in Seq(Packet) /\ Len(u) = Len(old) + Len(packets)
        /\ \A i \in 1 .. Len(u) : u[i] = IF i <= Len(old) THEN old[i] ELSE packets[i - Len(old)]
        /\ DOMAIN u = 1 .. Len(u) /\ DOMAIN old = 1 .. Len(old)
        /\ DOMAIN packets = 1 .. Len(packets) /\ Len(old) \in Nat /\ Len(packets) \in Nat
    BY <1>1, ConcatProperties, LenProperties
  <2> HIDE DEF u
  <2>2. ASSUME NEW i \in DOMAIN u PROVE PacketOf(f, u[i]) /\ u[i].dst = g
    <3>1. CASE i <= Len(old)
      BY <3>1, <2>1, <1>1
    <3>2. CASE i > Len(old)
      <4>1. i - Len(old) \in DOMAIN packets /\ u[i] = packets[i - Len(old)]
        BY <3>2, <2>1
      <4> QED
        BY <4>1, <1>3, <1>4
    <3> QED
      BY <3>1, <3>2, <2>1
  <2>3. old # <<>> => u # <<>> /\ Head(u) = Head(old)
    <3>1. old # <<>> => Len(old) >= 1
      BY <1>1, EmptySeq, LenProperties
    <3>2. old # <<>> => Len(u) >= 1 /\ u[1] = old[1]
      BY <3>1, <2>1
    <3> QED
      BY <3>1, <3>2, <2>1, <1>1, EmptySeq, HeadTailProperties
  <2>4. new = u
    BY <1>2, <1>4 DEF u
  <2> QED
    BY <2>1, <2>2, <2>3, <2>4, <1>2, <1>4 DEF old, new, u
<1>5. CASE ~(f = h /\ g = dst)
  BY <1>1, <1>2, <1>5 DEF old, new
<1> QED
  BY <1>4, <1>5

(* A packet arrives, or is lost: the next in its queue.                    *)
LEMMA QueueShrinks ==
  ASSUME NetworkInv, NEW g \in Hosts, NEW h \in Hosts, Arrive(g, h) \/ Lose(g, h)
  PROVE  /\ network[<<g, h>>] # <<>> /\ network' = [network EXCEPT ![<<g, h>>] = Tail(@)]
         /\ sentTo' = sentTo /\ Head(network[<<g, h>>]) \in Packet
         /\ PacketOf(g, Head(network[<<g, h>>])) /\ Head(network[<<g, h>>]).dst = h
<1>1. network[<<g, h>>] # <<>> /\ network[<<g, h>>] \in Seq(Packet)
  BY DEF Arrive, Lose, NetworkInv
<1>2. 1 \in DOMAIN network[<<g, h>>] /\ Head(network[<<g, h>>]) = network[<<g, h>>][1]
  BY <1>1, EmptySeq, LenProperties, HeadTailProperties
<1>3. PacketOf(g, network[<<g, h>>][1]) /\ network[<<g, h>>][1].dst = h
      /\ network[<<g, h>>][1] \in Packet
  BY <1>1, <1>2 DEF NetworkInv
<1>4. network' = [network EXCEPT ![<<g, h>>] = Tail(@)] /\ sentTo' = sentTo
  BY DEF Arrive, Lose
<1> QED
  BY <1>1, <1>2, <1>3, <1>4

(* Every step keeps what is known of the packets under way.                *)
LEMMA NetworkNext ==
  ASSUME NetworkInv, HostsInv, HostsInv', NetworkMoves PROVE NetworkInv'
<1>1. CASE Still
  BY <1>1 DEF Still, NetworkInv
<1>2. CASE \E h \in Hosts : \E dst, packets : Sent(h, dst, packets)
  <2>1. PICK h \in Hosts : \E dst, packets : Sent(h, dst, packets)
    BY <1>2
  <2>2. PICK dst, packets : Sent(h, dst, packets)
    BY <2>1
  <2>3. network' \in [Hosts \X Hosts -> Seq(Packet)]
    <3>1. \A f, g \in Hosts : network'[<<f, g>>] \in Seq(Packet)
      BY <2>2, QueueGrows
    <3>2. network' = [network EXCEPT ![<<h, dst>>] = @ \o packets]
      BY <2>2 DEF Sent
    <3>3. \A c \in Hosts \X Hosts : network'[c] \in Seq(Packet)
      BY <3>1
    <3> QED
      BY <3>2, <3>3 DEF NetworkInv
  <2>4. ASSUME NEW f \in Hosts, NEW g \in Hosts
        PROVE  \A i \in DOMAIN network'[<<f, g>>] :
                 PacketOf(f, network'[<<f, g>>][i]) /\ network'[<<f, g>>][i].dst = g
    BY <2>2, QueueGrows
  <2>5. ASSUME NEW f \in Hosts, NEW g \in Hosts, sentTo'[f] = <<>>
        PROVE  network'[<<f, g>>] = <<>>
    <3>1. sentTo[f] = <<>>
      BY <2>2, <2>5, SentGrows
    <3>2. network[<<f, g>>] = <<>>
      BY <3>1 DEF NetworkInv
    <3>3. CASE f = h
      <4>1. sentTo'[f] = sentTo[f] \o packets /\ packets \in Seq(Packet)
        BY <2>2, <3>3 DEF Sent, HostsInv
      <4>2. packets = <<>>
        BY <4>1, <3>1, <2>5, ConcatEmptySeq
      <4>3. <<>> \o <<>> = <<>>
        OBVIOUS
      <4>4. network'[<<f, g>>] \in {network[<<f, g>>] \o packets, network[<<f, g>>]}
        BY <2>2 DEF Sent, NetworkInv
      <4> QED
        BY <4>2, <4>3, <4>4, <3>2
    <3>4. CASE f # h
      BY <3>2, <3>4, <2>2, QueueGrows
    <3> QED
      BY <3>3, <3>4
  <2> QED
    BY <2>3, <2>4, <2>5 DEF NetworkInv
<1>3. CASE \E g, h \in Hosts : Arrive(g, h) \/ Lose(g, h)
  <2>1. PICK g \in Hosts, h \in Hosts : Arrive(g, h) \/ Lose(g, h)
    BY <1>3
  <2> DEFINE q == network[<<g, h>>]
             t == Tail(q)
  <2>2. q # <<>> /\ network' = [network EXCEPT ![<<g, h>>] = t] /\ sentTo' = sentTo
        /\ q \in Seq(Packet) /\ \A i \in DOMAIN q : PacketOf(g, q[i]) /\ q[i].dst = h
    BY <2>1, QueueShrinks DEF NetworkInv
  <2>9. q \in Seq(Packet) /\ q # <<>>
    BY <2>2
  <2>3. t \in Seq(Packet) /\ \A i \in DOMAIN t : i + 1 \in DOMAIN q /\ t[i] = q[i + 1]
    <3> HIDE DEF q
    <3>1. /\ t \in Seq(Packet) /\ Len(t) = Len(q) - 1 /\ \A i \in 1 .. Len(t) : t[i] = q[i + 1]
          /\ Len(q) \in Nat
      BY <2>9, HeadTailProperties, LenProperties
    <3>2. DOMAIN t = 1 .. Len(t) /\ DOMAIN q = 1 .. Len(q)
      BY <2>9, <3>1, LenProperties
    <3> HIDE DEF t
    <3> QED
      BY <3>1, <3>2
  <2> HIDE DEF t
  <2>4. ASSUME NEW i \in DOMAIN t PROVE PacketOf(g, t[i]) /\ t[i].dst = h
    BY <2>2, <2>3
  <2>5. \A f, k \in Hosts : network'[<<f, k>>] = IF f = g /\ k = h THEN t ELSE network[<<f, k>>]
    BY <2>2 DEF NetworkInv
  <2>6. network' \in [Hosts \X Hosts -> Seq(Packet)]
    BY <2>2, <2>3 DEF NetworkInv
  <2>7. sentTo[g] # <<>>
    BY <2>2 DEF NetworkInv
  <2>8. ASSUME NEW f \in Hosts, NEW k \in Hosts
        PROVE  /\ \A i \in DOMAIN network'[<<f, k>>] :
                    PacketOf(f, network'[<<f, k>>][i]) /\ network'[<<f, k>>][i].dst = k
               /\ sentTo'[f] = <<>> => network'[<<f, k>>] = <<>>
    <3>1. CASE f = g /\ k = h
      BY <3>1, <2>2, <2>4, <2>5, <2>7
    <3>2. CASE ~(f = g /\ k = h)
      BY <3>2, <2>2, <2>5 DEF NetworkInv
    <3> QED
      BY <3>1, <3>2
  <2> QED
    BY <2>6, <2>8 DEF NetworkInv
<1> QED
  BY <1>1, <1>2, <1>3 DEF NetworkMoves

(* numReceived counts up, and counts the first packet whatever it is.      *)
LEMMA CountsUp ==
  ASSUME HostsInv, NEW h \in Hosts, NEW p, ProcessPacket(h, p), NEW k \in Hosts
  PROVE  /\ app[k].numReceived \in Nat /\ app'[k].numReceived >= app[k].numReceived
         /\ IsGlobalArp => app'[h].numReceived > 0
<1>1. DOMAIN app = Hosts
  BY DEF HostsInv
<1>2. \A g \in Hosts : app[g].numReceived \in Nat /\ app[g] \in FieldsOf(g, {app[g].bufs})
  <2> SUFFICES ASSUME NEW g \in Hosts
               PROVE  app[g].numReceived \in Nat /\ app[g] \in FieldsOf(g, {app[g].bufs})
    OBVIOUS
  <2>1. AppInv(g, app[g])
    BY HostFacts
  <2> QED
    BY <2>1 DEF AppInv, FieldsOf
<1>3. PICK b : app' = [app EXCEPT ![h] = b] /\ Received(app[h], b)
  BY <1>1, ReceptionFields
<1>4. app'[h] = b /\ \A g \in Hosts \ {h} : app'[g] = app[g]
  BY <1>1, <1>3
<1>5. b.numReceived \in {app[h].numReceived, app[h].numReceived + 1}
  BY <1>2, <1>3 DEF Received, FieldsOf
<1>6. \A g \in Hosts : app[g].numReceived \in Nat
  BY <1>2
<1>7. app'[h].numReceived >= app[h].numReceived
  <2> DEFINE n == app[h].numReceived
             m == app'[h].numReceived
  <2>1. n \in Nat /\ m \in {n, n + 1}
    BY <1>4, <1>5, <1>6
  <2> HIDE DEF n, m
  <2>2. m >= n
    BY <2>1
  <2> QED
    BY <2>2 DEF n, m
<1>8. IsFirst(h) => app'[h].numReceived = 1
  <2>1. ASSUME IsFirst(h) PROVE app' = [app EXCEPT ![h].numReceived = @ + 1]
    BY <2>1 DEF ProcessPacket
  <2> QED
    BY <2>1, <1>1, <1>2 DEF IsFirst, FieldsOf
<1>9. IsGlobalArp => app'[h].numReceived > 0
  <2> DEFINE n == app[h].numReceived
             m == app'[h].numReceived
  <2>1. n \in Nat /\ m \in {n, n + 1} /\ (IsGlobalArp /\ n = 0 => m = 1)
    BY <1>4, <1>5, <1>6, <1>8 DEF IsFirst
  <2> HIDE DEF n, m
  <2>2. IsGlobalArp => m > 0
    BY <2>1
  <2> QED
    BY <2>2 DEF m
<1>10. app'[k].numReceived >= app[k].numReceived
  <2>1. CASE k = h
    BY <2>1, <1>7
  <2>2. CASE k # h
    <3>1. app'[k] = app[k] /\ app[k].numReceived \in Nat
      BY <2>2, <1>4, <1>6
    <3> DEFINE n == app[k].numReceived
    <3>2. n \in Nat /\ app'[k].numReceived = n
      BY <3>1
    <3> HIDE DEF n
    <3>3. app'[k].numReceived >= n
      BY <3>2
    <3> QED
      BY <3>3 DEF n
  <2> QED
    BY <2>1, <2>2
<1> QED
  BY <1>6, <1>9, <1>10

(* Every step keeps what is known of the first packet of a host.           *)
LEMMA FirstNext ==
  ASSUME FirstInv, NetworkInv, HostsInv, HostsInv', NetworkMoves PROVE FirstInv'
<1> SUFFICES ASSUME IsGlobalArp, NEW g \in Hosts, sentTo'[g] # <<>>
             PROVE  \/ FirstOf(g)' \in gone'
                    \/ app'[FirstOf(g)'.dst].numReceived > 0
                    \/ /\ network'[<<g, FirstOf(g)'.dst>>] # <<>>
                       /\ Head(network'[<<g, FirstOf(g)'.dst>>]) = FirstOf(g)'
  BY DEF FirstInv
<1> DEFINE q == FirstOf(g)
<1>1. ASSUME sentTo[g] # <<>>
      PROVE  /\ q.dst \in Hosts
             /\ \/ q \in gone \/ app[q.dst].numReceived > 0
                \/ network[<<g, q.dst>>] # <<>> /\ Head(network[<<g, q.dst>>]) = q
  <2>1. sentTo[g] \in Seq(Packet) /\ 1 \in DOMAIN sentTo[g]
    BY <1>1, EmptySeq, LenProperties DEF HostsInv
  <2>2. q \in Packet
    BY <2>1 DEF FirstOf
  <2> HIDE DEF q
  <2>3. q.dst \in Hosts
    BY <2>2 DEF Packet
  <2> QED
    BY <1>1, <2>3 DEF FirstInv, q
<1>2. CASE Still
  <2>1. sentTo' = sentTo /\ network' = network /\ gone' = gone /\ FirstOf(g)' = q
    BY <1>2 DEF Still, FirstOf
  <2>2. q.dst \in Hosts => app'[q.dst].numReceived = app[q.dst].numReceived
    BY <1>2 DEF Still, Unheard
  <2> HIDE DEF q
  <2> QED
    BY <2>1, <2>2, <1>1
<1>3. CASE \E h \in Hosts : \E dst, packets : Sent(h, dst, packets)
  <2>1. PICK h \in Hosts : \E dst, packets : Sent(h, dst, packets)
    BY <1>3
  <2>2. PICK dst, packets : Sent(h, dst, packets)
    BY <2>1
  <2>3. gone' = gone /\ \A k \in Hosts : app'[k].numReceived = app[k].numReceived
    BY <2>2 DEF Sent, Unheard
  <2>4. CASE sentTo[g] # <<>>
    <3>1. FirstOf(g)' = q
      BY <2>2, <2>4, SentGrows DEF FirstOf
    <3>2. ASSUME NEW k \in Hosts, network[<<g, k>>] # <<>>
          PROVE  network'[<<g, k>>] # <<>> /\ Head(network'[<<g, k>>]) = Head(network[<<g, k>>])
      BY <2>2, <3>2, QueueGrows
    <3> HIDE DEF q
    <3> QED
      BY <2>3, <2>4, <3>1, <3>2, <1>1
  <2>5. CASE sentTo[g] = <<>>
    <3>1. g = h /\ packets # <<>> /\ sentTo'[g] = packets /\ packets \in Seq(Packet)
          /\ dst \in Hosts
      BY <2>2, <2>5, SentGrows DEF Sent
    <3>2. 1 \in DOMAIN packets /\ packets[1].dst = dst /\ Head(packets) = packets[1]
      BY <3>1, <2>2, EmptySeq, LenProperties, HeadTailProperties DEF Sent
    <3>3. FirstOf(g)' = packets[1]
      BY <3>1 DEF FirstOf
    <3>4. network[<<g, dst>>] = <<>>
      BY <2>5, <3>1 DEF NetworkInv
    <3>5. network'[<<g, dst>>] = network[<<g, dst>>] \o packets
      BY <2>2, <3>1 DEF Sent, NetworkInv
    <3>6. network'[<<g, dst>>] = packets
      BY <3>1, <3>4, <3>5, ConcatEmptySeq
    <3> QED
      BY <3>1, <3>2, <3>3, <3>6
  <2> QED
    BY <2>4, <2>5
<1>4. CASE \E f, h \in Hosts : Arrive(f, h) \/ Lose(f, h)
  <2>1. PICK f \in Hosts, h \in Hosts : Arrive(f, h) \/ Lose(f, h)
    BY <1>4
  <2> DEFINE p == Head(network[<<f, h>>])
  <2>2. network' = [network EXCEPT ![<<f, h>>] = Tail(@)] /\ sentTo' = sentTo /\ p.dst = h
    BY <2>1, QueueShrinks
  <2>3. FirstOf(g)' = q /\ sentTo[g] # <<>>
    BY <2>2 DEF FirstOf
  <2>4. gone \subseteq gone'
    BY <2>1 DEF Arrive, Lose
  <2>5. ASSUME NEW k \in Hosts, app[k].numReceived > 0 PROVE app'[k].numReceived > 0
    <3>1. CASE app' = app
      BY <3>1, <2>5
    <3>2. CASE ProcessPacket(h, p)
      <4> DEFINE n == app[k].numReceived
                 m == app'[k].numReceived
      <4>1. n \in Nat /\ m >= n /\ n > 0 /\ m \in Nat
        <5>1. AppInv(k, app'[k])
          BY HostFacts DEF HostsInv, HostInv
        <5> QED
          BY <5>1, <3>2, <2>5, CountsUp DEF AppInv, FieldsOf
      <4> HIDE DEF n, m
      <4>2. m > 0
        BY <4>1
      <4> QED
        BY <4>2 DEF m
    <3> QED
      BY <2>1, <3>1, <3>2 DEF Arrive, Lose
  <2>6. \/ p \in gone' \/ app'[h].numReceived > 0
    <3>1. CASE ProcessPacket(h, p)
      BY <3>1, CountsUp
    <3>2. CASE ~ProcessPacket(h, p)
      BY <3>2, <2>1 DEF Arrive, Lose
    <3> QED
      BY <3>1, <3>2
  <2>7. \A k \in Hosts : ~(g = f /\ k = h) => network'[<<g, k>>] = network[<<g, k>>]
    BY <2>2 DEF NetworkInv
  <2>8. CASE g = f /\ q.dst = h /\ q = p
    BY <2>8, <2>3, <2>6
  <2>9. CASE ~(g = f /\ q.dst = h /\ q = p)
    <3>1. \/ q \in gone \/ app[q.dst].numReceived > 0
          \/ network[<<g, q.dst>>] # <<>> /\ Head(network[<<g, q.dst>>]) = q
      BY <1>1, <2>3
    <3>2. q.dst \in Hosts
      BY <1>1, <2>3
    <3>3. CASE network[<<g, q.dst>>] # <<>> /\ Head(network[<<g, q.dst>>]) = q
      <4>1. ~(g = f /\ q.dst = h)
        BY <2>9, <3>3
      <4>2. network'[<<g, q.dst>>] = network[<<g, q.dst>>]
        BY <4>1, <3>2, <2>7
      <4> HIDE DEF q
      <4> QED
        BY <4>2, <2>3, <3>3
    <3> QED
      BY <3>1, <3>2, <3>3, <2>3, <2>4, <2>5
  <2> QED
    BY <2>8, <2>9
<1> QED
  BY <1>2, <1>3, <1>4 DEF NetworkMoves

(* What was sent is not forgotten.                                         *)
LEMMA AllSentGrows ==
  ASSUME HostsInv, HostsInv', NetworkMoves PROVE AllSent \subseteq AllSent' /\ gone \subseteq gone'
<1>1. ASSUME NEW g \in Hosts PROVE ToSet(sentTo[g]) \subseteq ToSet(sentTo'[g])
  <2>1. CASE sentTo'[g] = sentTo[g]
    BY <2>1
  <2>2. ASSUME NEW h \in Hosts, NEW dst, NEW packets, Sent(h, dst, packets)
        PROVE  ToSet(sentTo[g]) \subseteq ToSet(sentTo'[g])
    <3>1. sentTo[g] \in Seq(Packet) /\ packets \in Seq(Packet)
      BY <2>2 DEF HostsInv, Sent
    <3>2. sentTo'[g] = IF g = h THEN sentTo[g] \o packets ELSE sentTo[g]
      BY <2>2 DEF HostsInv, Sent
    <3> DEFINE u == sentTo[g] \o packets
    <3>3. /\ DOMAIN u = 1 .. Len(u) /\ DOMAIN sentTo[g] = 1 .. Len(sentTo[g])
          /\ Len(u) = Len(sentTo[g]) + Len(packets) /\ Len(packets) \in Nat
          /\ Len(sentTo[g]) \in Nat
          /\ \A i \in 1 .. Len(u) : i <= Len(sentTo[g]) => u[i] = sentTo[g][i]
      BY <3>1, ConcatProperties, LenProperties
    <3> HIDE DEF u
    <3>4. ToSet(sentTo[g]) \subseteq ToSet(u)
      BY <3>3 DEF ToSet
    <3> QED
      BY <3>2, <3>4 DEF u
  <2> QED
    BY <2>1, <2>2 DEF NetworkMoves, Still, Arrive, Lose
<1>2. gone \subseteq gone'
  BY DEF NetworkMoves, Still, Sent, Arrive, Lose
<1> QED
  BY <1>1, <1>2 DEF AllSent

(* A packet is counted without being looked at while nothing was received. *)
LEMMA OnlyFirstIsSwallowed ==
  ASSUME NEW h, NEW p, ProcessPacket(h, p), swallowed' # swallowed
  PROVE  IsFirst(h) /\ swallowed' = swallowed \cup {p}
<1>1. \A bufs, datagram : Counted(h, bufs, datagram) => swallowed' = swallowed
  BY DEF Counted
<1>2. \A bufs : Kept(h, bufs) => swallowed' = swallowed
  BY DEF Kept
<1> QED
  BY <1>1, <1>2 DEF ProcessPacket

(* Every step keeps what is known of the packets that were only counted.   *)
LEMMA SwallowedNext ==
  ASSUME SwallowedIsFirst, FirstInv, NetworkInv, HostsInv, HostsInv', NetworkMoves
  PROVE  SwallowedIsFirst'
<1>1. AllSent \subseteq AllSent' /\ gone \subseteq gone'
  BY AllSentGrows
<1> SUFFICES ASSUME NEW p \in swallowed'
             PROVE  \/ p.seq = 0 \/ \E q \in gone' : q.src = p.src
                    \/ \E q \in AllSent' : q.src = p.src /\ q.seq = 0 /\ q.dst # p.dst
  BY DEF SwallowedIsFirst
<1>2. CASE p \in swallowed
  BY <1>1, <1>2 DEF SwallowedIsFirst
<1>3. CASE p \notin swallowed
  <2>1. PICK f \in Hosts, h \in Hosts :
          Arrive(f, h) /\ p = Head(network[<<f, h>>]) /\ IsFirst(h)
    <3>1. swallowed' # swallowed
      BY <1>3
    <3>2. PICK f \in Hosts, h \in Hosts : Arrive(f, h)
      BY <3>1 DEF NetworkMoves, Still, Sent, Lose
    <3>3. ProcessPacket(h, Head(network[<<f, h>>]))
      BY <3>1, <3>2 DEF Arrive
    <3>4. IsFirst(h) /\ swallowed' = swallowed \cup {Head(network[<<f, h>>])}
      BY <3>1, <3>3, OnlyFirstIsSwallowed
    <3> QED
      BY <1>3, <3>2, <3>4
  <2>2. network[<<f, h>>] # <<>> /\ PacketOf(f, p) /\ p.dst = h
    BY <2>1, QueueShrinks
  <2>3. sentTo[f] # <<>> /\ sentTo[f] \in Seq(Packet)
    BY <2>2 DEF NetworkInv, HostsInv
  <2> DEFINE q == FirstOf(f)
  <2>4. 1 \in DOMAIN sentTo[f]
    BY <2>3, EmptySeq, LenProperties
  <2>5. SentBefore(f, app[f], sentTo[f])
    BY DEF HostsInv, HostInv
  <2>6. q.seq = 0 /\ q.src = f /\ p.src = f
    BY <2>2, <2>3, <2>4, <2>5 DEF SentBefore, PacketOf, FirstOf
  <2>7. q \in AllSent
    BY <2>4 DEF AllSent, ToSet, FirstOf
  <2>8. IsGlobalArp /\ ~(app[h].numReceived > 0)
    BY <2>1 DEF IsFirst
  <2>9. \/ q \in gone \/ app[q.dst].numReceived > 0
        \/ network[<<f, q.dst>>] # <<>> /\ Head(network[<<f, q.dst>>]) = q
    BY <2>3, <2>8 DEF FirstInv
  <2> HIDE DEF q
  <2>10. CASE q \in gone
    BY <2>10, <2>6, <1>1
  <2>11. CASE q.dst # h
    BY <2>11, <2>2, <2>6, <2>7, <1>1
  <2>12. CASE q.dst = h /\ q \notin gone
    <3>1. p = q
      BY <2>12, <2>1, <2>8, <2>9
    <3> QED
      BY <3>1, <2>6
  <2> QED
    BY <2>10, <2>11, <2>12
<1> QED
  BY <1>2, <1>3

(* At the beginning.                                                       *)
LEMMA NetworkInit ==
  ASSUME Init PROVE NetworkInv /\ FirstInv /\ SwallowedIsFirst
<1>1. <<>> \in Seq(Packet) /\ DOMAIN <<>> = {}
  OBVIOUS
<1>2. network = [c \in Hosts \X Hosts |-> <<>>] /\ sentTo = [h \in Hosts |-> <<>>]
      /\ swallowed = {}
  BY DEF Init
<1>3. \A g, h \in Hosts : network[<<g, h>>] = <<>>
  BY <1>2
<1>4. NetworkInv
  BY <1>1, <1>2, <1>3 DEF NetworkInv
<1> QED
  BY <1>2, <1>4 DEF FirstInv, SwallowedIsFirst

(* The packet that is counted without being looked at is the first one of  *)
(* its sender, unless that one went elsewhere or is gone: until it is      *)
(* counted the first packet stays at the head of its queue.                *)
THEOREM SwallowedIsFirstHolds == Spec => []SwallowedIsFirst
<1> DEFINE Inv == HostsInv /\ NetworkInv /\ FirstInv /\ SwallowedIsFirst
<1>1. Init => Inv
  BY HostsInit, NetworkInit
<1>2. Inv /\ [Next]_vars => Inv'
  <2> SUFFICES ASSUME Inv, [Next]_vars PROVE Inv'
    OBVIOUS
  <2>1. HostsInv' /\ NetworkMoves
    BY HostsNext
  <2> QED
    BY <2>1, NetworkNext, FirstNext, SwallowedNext
<1>3. Inv => SwallowedIsFirst
  OBVIOUS
<1> QED
  BY <1>1, <1>2, <1>3, PTL DEF Spec

-----------------------------------------------------------------------------
(***************************************************************************)
(* What is put together from fragments.                                    *)
(***************************************************************************)
(* The byte b belongs to a message with this key.                          *)
HasKey(b, key) ==
  /\ b.src \in Hosts /\ b.seq \in Nat /\ b.seq < PacketsToSend[b.src]
  /\ (ModuleId[b.src] * IdStride + b.seq) % 65536 = key

Keyed(bytes, key) == \A i \in DOMAIN bytes : HasKey(bytes[i], key)

BuffersKeyed(bufs) == \A key \in DOMAIN bufs : Keyed(bufs[key].bytes, key)

ReceivedInv ==
  /\ DOMAIN delivered = Hosts
  /\ \A h \in Hosts : /\ BuffersKeyed(app[h].bufs)
                      /\ \A datagram \in delivered[h] : \E key : Keyed(datagram.bytes, key)

(* A packet, and the buffer it is put into.                                *)
LEMMA FragmentKeyed ==
  ASSUME NEW g \in Hosts, NEW p \in Packet, PacketOf(g, p), NEW bufs, BuffersKeyed(bufs)
  PROVE  /\ \A i : HasKey(PacketByte(p, i), Key(p))
         /\ Keyed(Reassembly(bufs, p).bytes, Key(p))
         /\ BuffersKeyed(AddFragment(bufs, p))
<1>1. ASSUME NEW i PROVE HasKey(PacketByte(p, i), Key(p))
  <2>1. p.src = g /\ p.seq \in Nat /\ p.seq < PacketsToSend[g]
        /\ p.id = ModuleId[g] * IdStride + p.seq
    BY DEF PacketOf, Packet
  <2>2. PacketByte(p, i).src = g /\ PacketByte(p, i).seq = p.seq
    BY <2>1 DEF PacketByte
  <2> QED
    BY <2>1, <2>2 DEF HasKey, Key
<1>2. Keyed(CurBuf(bufs, p).bytes, Key(p))
  BY DEF CurBuf, NewDatagramBuffer, Keyed, BuffersKeyed
<1> DEFINE c == CurBuf(bufs, p)
           held == p.offset .. p.offset + p.len - 1
           x == Reassembly(bufs, p).bytes
<1>3. x = [ i \in DOMAIN c.bytes \cup held |->
              IF i \in held THEN PacketByte(p, i - p.offset) ELSE c.bytes[i] ]
  BY DEF Reassembly, WithFragment
<1> HIDE DEF x, c, held
<1>4. Keyed(x, Key(p))
  <2> SUFFICES ASSUME NEW i \in DOMAIN x PROVE HasKey(x[i], Key(p))
    BY DEF Keyed
  <2>1. CASE i \in held
    BY <2>1, <1>1, <1>3
  <2>2. CASE i \notin held
    <3>1. i \in DOMAIN c.bytes /\ x[i] = c.bytes[i]
      BY <2>2, <1>3
    <3> QED
      BY <3>1, <1>2 DEF Keyed, c
  <2> QED
    BY <2>1, <2>2
<1>5. BuffersKeyed(AddFragment(bufs, p))
  <2>1. CASE IsComplete(Reassembly(bufs, p))
    BY <2>1 DEF AddFragment, BuffersKeyed
  <2>2. CASE ~IsComplete(Reassembly(bufs, p))
    <3> DEFINE r == Reassembly(bufs, p)
    <3>1. AddFragment(bufs, p) = [ key \in DOMAIN bufs \cup {Key(p)} |->
                                     IF key = Key(p) THEN r ELSE bufs[key] ]
      BY <2>2 DEF AddFragment
    <3>2. Keyed(r.bytes, Key(p))
      BY <1>4 DEF x
    <3> HIDE DEF r
    <3> QED
      BY <3>1, <3>2 DEF BuffersKeyed
  <2> QED
    BY <2>1, <2>2
<1> QED
  BY <1>1, <1>4, <1>5 DEF x

(* A host that receives a packet.                                          *)
LEMMA ReceptionKeyed ==
  ASSUME ReceivedInv, HostsInv, NEW g \in Hosts, NEW h \in Hosts, NEW p \in Packet,
         PacketOf(g, p), ProcessPacket(h, p)
  PROVE  ReceivedInv'
<1> DEFINE bufs == app[h].bufs
           single == [ i \in 0 .. p.len - 1 |-> PacketByte(p, i) ]
           buf == Reassembly(bufs, p)
<1>1. BuffersKeyed(bufs) /\ DOMAIN app = Hosts /\ DOMAIN delivered = Hosts
      /\ app[h] \in FieldsOf(h, {app[h].bufs})
  <2>1. AppInv(h, app[h])
    BY HostFacts
  <2> QED
    BY <2>1 DEF ReceivedInv, HostsInv, AppInv
<1>2. /\ \A i : HasKey(PacketByte(p, i), Key(p)) /\ Keyed(buf.bytes, Key(p))
      /\ BuffersKeyed(AddFragment(bufs, p))
  BY <1>1, FragmentKeyed
<1>3. Keyed(single, Key(p))
  BY <1>2 DEF Keyed
<1> HIDE DEF bufs, single, buf
<1>4. ASSUME NEW x, NEW bytes, NEW len, Counted(h, x, Datagram(bytes, len)),
             BuffersKeyed(x), Keyed(bytes, Key(p))
      PROVE  ReceivedInv'
  <2>1. app'[h].bufs = x /\ \A k \in Hosts \ {h} : app'[k] = app[k]
    BY <1>1, <1>4 DEF Counted, FieldsOf
  <2>2. DOMAIN delivered' = Hosts /\ delivered'[h] = delivered[h] \cup {Datagram(bytes, len)}
        /\ \A k \in Hosts \ {h} : delivered'[k] = delivered[k]
    BY <1>1, <1>4 DEF Counted
  <2>3. Datagram(bytes, len).bytes = bytes
    BY DEF Datagram
  <2>4. \A datagram \in delivered'[h] : \E key : Keyed(datagram.bytes, key)
    BY <1>4, <2>2, <2>3 DEF ReceivedInv
  <2> QED
    BY <1>4, <2>1, <2>2, <2>4 DEF ReceivedInv
<1>5. ASSUME NEW x, Kept(h, x), BuffersKeyed(x) PROVE ReceivedInv'
  <2>1. app'[h].bufs = x /\ \A k \in Hosts \ {h} : app'[k] = app[k]
    BY <1>1, <1>5 DEF Kept, FieldsOf
  <2>2. delivered' = delivered
    BY <1>5 DEF Kept
  <2> QED
    BY <1>5, <2>1, <2>2 DEF ReceivedInv
<1>6. ASSUME app' = [app EXCEPT ![h].numReceived = @ + 1], UNCHANGED delivered
      PROVE  ReceivedInv'
  <2>1. app'[h].bufs = bufs /\ \A k \in Hosts \ {h} : app'[k] = app[k]
    BY <1>1, <1>6 DEF FieldsOf, bufs
  <2> QED
    BY <1>1, <1>6, <2>1 DEF ReceivedInv
<1>7. \/ app' = [app EXCEPT ![h].numReceived = @ + 1] /\ UNCHANGED delivered
      \/ Counted(h, bufs, Datagram(single, p.len))
      \/ Counted(h, AddFragment(bufs, p), Datagram(buf.bytes, buf.expectedLength))
      \/ Kept(h, AddFragment(bufs, p))
  BY DEF ProcessPacket, bufs, single, buf
<1> QED
  BY <1>1, <1>2, <1>3, <1>4, <1>5, <1>6, <1>7

(* The ids of the messages fit the 16 bits of Key.id.                      *)
IdsFit == \A h \in Hosts : ModuleId[h] * IdStride + PacketsToSend[h] <= 65536

(* Two messages with one key are of two hosts, or the same.                *)
LEMMA SameKey ==
  ASSUME IdsFit, NEW b, NEW c, NEW key, HasKey(b, key), HasKey(c, key)
  PROVE  /\ b.src = c.src => b.seq = c.seq
         /\ b.seq - c.seq = IdStride * (ModuleId[c.src] - ModuleId[b.src])
<1> DEFINE x == ModuleId[b.src]
           y == ModuleId[c.src]
           s == IdStride
           m == b.seq
           n == c.seq
<1>1. x \in Nat /\ y \in Nat /\ s \in Nat /\ m \in Nat /\ n \in Nat
      /\ PacketsToSend[b.src] \in Nat /\ PacketsToSend[c.src] \in Nat
  BY UdpAppAssumption DEF HasKey
<1>2. /\ (x * s + m) % 65536 = key /\ (y * s + n) % 65536 = key
      /\ m < PacketsToSend[b.src] /\ n < PacketsToSend[c.src]
      /\ x * s + PacketsToSend[b.src] <= 65536 /\ y * s + PacketsToSend[c.src] <= 65536
  BY DEF HasKey, IdsFit
<1>3. b.src = c.src => x = y
  OBVIOUS
<1> HIDE DEF x, y, s, m, n
<1>4. x * s \in Nat /\ y * s \in Nat /\ s * (y - x) = y * s - x * s
  BY <1>1
<1> DEFINE u == x * s
           v == y * s
<1>5. u \in Nat /\ v \in Nat /\ u + m < 65536 /\ v + n < 65536
  BY <1>1, <1>2, <1>4
<1>6. (u + m) % 65536 = (v + n) % 65536
  BY <1>2
<1>7. s * (y - x) = v - u /\ (x = y => u = v)
  BY <1>4
<1> HIDE DEF u, v
<1>8. \A k \in Nat : k < 65536 => k % 65536 = k
  OBVIOUS
<1>9. u + m = v + n
  BY <1>1, <1>5, <1>6, <1>8
<1>10. m - n = v - u /\ (u = v => m = n)
  BY <1>1, <1>5, <1>9
<1> QED
  BY <1>3, <1>7, <1>10 DEF x, y, s, m, n

(* Every step keeps the bytes of a key together.                           *)
LEMMA ReceivedNext ==
  ASSUME ReceivedInv, NetworkInv, HostsInv, NetworkMoves PROVE ReceivedInv'
<1>1. CASE Still
  BY <1>1 DEF Still, Unheard, ReceivedInv
<1>2. CASE \E h \in Hosts : \E dst, packets : Sent(h, dst, packets)
  BY <1>2 DEF Sent, Unheard, ReceivedInv
<1>3. CASE \E g, h \in Hosts : Arrive(g, h) \/ Lose(g, h)
  <2>1. PICK g \in Hosts, h \in Hosts : Arrive(g, h) \/ Lose(g, h)
    BY <1>3
  <2> DEFINE p == Head(network[<<g, h>>])
  <2>2. p \in Packet /\ PacketOf(g, p)
    BY <2>1, QueueShrinks
  <2>3. (app' = app /\ delivered' = delivered) \/ ProcessPacket(h, p)
    BY <2>1 DEF Arrive, Lose
  <2> HIDE DEF p
  <2>4. CASE app' = app /\ delivered' = delivered
    BY <2>4 DEF ReceivedInv
  <2>5. CASE ProcessPacket(h, p)
    BY <2>2, <2>5, ReceptionKeyed
  <2> QED
    BY <2>3, <2>4, <2>5
<1> QED
  BY <1>1, <1>2, <1>3 DEF NetworkMoves

(* While the ids fit their 16 bits, a datagram holds bytes of two messages *)
(* only if they are of two hosts, with numbers as far apart as the module  *)
(* ids make them: the buffers left by losses and restarts mix nothing.     *)
THEOREM MixedOnlyByIdCollisionHolds ==
  ASSUME IdsFit PROVE Spec => []MixedOnlyByIdCollision
<1> DEFINE Inv == HostsInv /\ NetworkInv /\ ReceivedInv
<1>1. Init => Inv
  <2> SUFFICES ASSUME Init PROVE Inv
    OBVIOUS
  <2>1. \A h \in Hosts : app[h].bufs = NoBuffers /\ delivered[h] = {}
    BY DEF Init, Fields
  <2>2. ReceivedInv
    BY <2>1 DEF Init, ReceivedInv, BuffersKeyed, NoBuffers
  <2> QED
    BY <2>2, HostsInit, NetworkInit
<1>2. Inv /\ [Next]_vars => Inv'
  <2> SUFFICES ASSUME Inv, [Next]_vars PROVE Inv'
    OBVIOUS
  <2>1. HostsInv' /\ NetworkMoves
    BY HostsNext
  <2> QED
    BY <2>1, NetworkNext, ReceivedNext
<1>3. Inv => MixedOnlyByIdCollision
  <2> SUFFICES ASSUME Inv, NEW h \in Hosts, NEW datagram \in delivered[h],
                      NEW m \in OwnersOf(datagram), NEW n \in OwnersOf(datagram), m # n
               PROVE  /\ m.src # n.src
                      /\ m.seq - n.seq = IdStride * (ModuleId[n.src] - ModuleId[m.src])
    BY DEF MixedOnlyByIdCollision
  <2>1. PICK key : Keyed(datagram.bytes, key)
    BY DEF ReceivedInv
  <2>2. PICK i \in DOMAIN datagram.bytes :
          m = [ src |-> datagram.bytes[i].src, seq |-> datagram.bytes[i].seq ]
    BY DEF OwnersOf
  <2>3. PICK j \in DOMAIN datagram.bytes :
          n = [ src |-> datagram.bytes[j].src, seq |-> datagram.bytes[j].seq ]
    BY DEF OwnersOf
  <2> DEFINE b == datagram.bytes[i]
             c == datagram.bytes[j]
  <2>4. HasKey(b, key) /\ HasKey(c, key)
    BY <2>1 DEF Keyed
  <2>5. m = [ src |-> b.src, seq |-> b.seq ] /\ n = [ src |-> c.src, seq |-> c.seq ]
    BY <2>2, <2>3
  <2> HIDE DEF b, c
  <2>6. /\ b.src = c.src => b.seq = c.seq
        /\ b.seq - c.seq = IdStride * (ModuleId[c.src] - ModuleId[b.src])
    BY <2>4, SameKey
  <2>7. m.src = b.src /\ m.seq = b.seq /\ n.src = c.src /\ n.seq = c.seq
    BY <2>5
  <2>8. b.src # c.src
    BY <2>5, <2>6
  <2> QED
    BY <2>6, <2>7, <2>8
<1> QED
  BY <1>1, <1>2, <1>3, PTL DEF Spec
=============================================================================
