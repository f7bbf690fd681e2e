-------------------------- MODULE Ipv4OutputProofs --------------------------
(***************************************************************************)
(* The output of Ipv4, for any hops, lengths, MTU, bounds and failures.    *)
(*                                                                         *)
(* First, it never schedules endTxTimer twice and never lets a packet wait *)
(* for a hop that ARP knows: InWorkAccounts, which strengthens OneInWork,  *)
(* and NoneWaitsForKnownHop are inductive together with the shape of the   *)
(* variables they speak of.                                                *)
(*                                                                         *)
(* Second, what leaves is in order and complete: with OrderInv the         *)
(* datagram in work stands between what is out and what is queued, and     *)
(* offset tells which of its fragments are out.                            *)
(***************************************************************************)
EXTENDS Ipv4Output, FiniteSetTheorems, SequenceTheorems, TLAPS

Shape ==
  /\ isRdma \in BOOLEAN /\ endTxTimer \in BOOLEAN
  /\ queue \in Seq(Datagram)
  /\ packet \in Datagram \cup {NoPacket}
  /\ DOMAIN pendingPackets = NextHops
  /\ pendingPackets = [hop \in NextHops |-> pendingPackets[hop]]

(* With no datagram in work, nothing waits in the queue, offset has been   *)
(* reset and no timer runs; in a paced output at most one packet waits for *)
(* ARP, for one hop, and only while a datagram is in work and endTxTimer   *)
(* is not scheduled.                                                       *)
InWorkAccounts ==
  /\ packet = NoPacket => queue = <<>> /\ offset = 0 /\ ~endTxTimer
  /\ ~HasChannel => ~endTxTimer
  /\ HasChannel =>
       /\ ~isRdma
       /\ \A hop \in NextHops :
            pendingPackets[hop] # <<>> =>
              /\ Len(pendingPackets[hop]) = 1
              /\ packet # NoPacket /\ ~endTxTimer
              /\ \A other \in NextHops \ {hop} : pendingPackets[other] = <<>>
  /\ NoDoubleSchedule

OutputInv == Shape /\ InWorkAccounts /\ NoneWaitsForKnownHop

(* What InWorkAccounts says of the packets that wait for ARP.              *)
AtMostOneWaits ==
  \A hop \in NextHops :
    pendingPackets[hop] # <<>> =>
      /\ Len(pendingPackets[hop]) = 1
      /\ packet # NoPacket /\ ~endTxTimer
      /\ \A other \in NextHops \ {hop} : pendingPackets[other] = <<>>

NoneWaits == \A hop \in NextHops : pendingPackets[hop] = <<>>

(* One packet handed to an output where nothing waits: it is sent and the  *)
(* timer scheduled, or it is the only one that waits.                      *)
LEMMA OneToOutput ==
  ASSUME NEW hop \in NextHops, NEW p,
         Shape, HasChannel, NoneWaits, NoDoubleSchedule,
         SendDatagramToOutput(hop, <<p>>, FALSE), packet' # NoPacket
  PROVE  AtMostOneWaits' /\ NoDoubleSchedule' /\ endTxTimer' \in BOOLEAN
<1>1. CASE hop \in arpCache
  <2>1. pendingPackets' = pendingPackets /\ SendPacketsToNIC(<<p>>, FALSE)
    BY <1>1 DEF SendDatagramToOutput
  <2>2. error' = error
    BY <2>1 DEF SendPacketsToNIC
  <2>3. QED
    BY <2>1, <2>2 DEF AtMostOneWaits, NoneWaits, NoDoubleSchedule, SendPacketsToNIC
<1>2. CASE hop \notin arpCache
  <2>1. /\ pendingPackets' = [pendingPackets EXCEPT ![hop] = @ \o <<p>>]
        /\ endTxTimer' = FALSE /\ error' = error
    BY <1>2 DEF SendDatagramToOutput
  <2>2. pendingPackets[hop] \o <<p>> = <<p>>
    <3>1. <<p>> \in Seq({p}) /\ <<>> \in Seq({p})
      OBVIOUS
    <3>2. <<>> \o <<p>> = <<p>>
      BY <3>1
    <3>3. QED
      BY <3>2 DEF NoneWaits
  <2>3. pendingPackets'[hop] = <<p>>
    BY <2>1, <2>2 DEF Shape
  <2>4. \A other \in NextHops \ {hop} : pendingPackets'[other] = <<>>
    BY <2>1 DEF Shape, NoneWaits
  <2>5. Len(pendingPackets'[hop]) = 1
    BY <2>3
  <2>6. AtMostOneWaits'
    <3>1. ASSUME NEW h \in NextHops, pendingPackets'[h] # <<>>
          PROVE  h = hop
      BY <2>4, <3>1
    <3>2. QED
      BY <2>1, <2>4, <2>5, <3>1 DEF AtMostOneWaits
  <2>7. QED
    BY <2>1, <2>6 DEF NoDoubleSchedule
<1>3. QED
  BY <1>1, <1>2

(* Without a channel the timer is never scheduled.                         *)
LEMMA UnpacedOutput ==
  ASSUME NEW hop \in NextHops, NEW packets, ~HasChannel, NoDoubleSchedule,
         SendDatagramToOutput(hop, packets, FALSE)
  PROVE  endTxTimer' = FALSE /\ NoDoubleSchedule'
BY OutputAssumption DEF SendDatagramToOutput, SendPacketsToNIC, NoDoubleSchedule

(* pendingPackets stays a function on NextHops, and gains nothing for a    *)
(* hop that ARP knows.                                                     *)
LEMMA OutputShape ==
  ASSUME NEW hop \in NextHops, NEW packets, NEW timer,
         Shape, NoneWaitsForKnownHop,
         SendDatagramToOutput(hop, packets, timer), UNCHANGED arpCache
  PROVE  /\ DOMAIN pendingPackets' = NextHops
         /\ pendingPackets' = [h \in NextHops |-> pendingPackets'[h]]
         /\ NoneWaitsForKnownHop'
<1>1. CASE hop \in arpCache
  BY <1>1 DEF SendDatagramToOutput, Shape, NoneWaitsForKnownHop
<1>2. CASE hop \notin arpCache
  <2>1. pendingPackets' = [pendingPackets EXCEPT ![hop] = @ \o packets]
    BY <1>2 DEF SendDatagramToOutput
  <2>2. \A h \in arpCache : pendingPackets'[h] = pendingPackets[h]
    BY <2>1, <1>2 DEF Shape
  <2>3. QED
    BY <2>1, <2>2 DEF Shape, NoneWaitsForKnownHop
<1>3. QED
  BY <1>1, <1>2

(* fragmentAndSend, called while no timer is scheduled and, in a paced     *)
(* output, nothing waits: it leaves the work in order, and clears packet   *)
(* only in an RDMA host, with offset.                                      *)
LEMMA FragmentAndSendFine ==
  ASSUME NEW d \in Datagram, NEW from, NEW rdma \in BOOLEAN,
         Shape, NoneWaitsForKnownHop, NoDoubleSchedule,
         HasChannel => ~rdma /\ NoneWaits,
         FragmentAndSend(d, from, rdma, FALSE), UNCHANGED arpCache
  PROVE  /\ packet' \in Datagram \cup {NoPacket}
         /\ packet' = NoPacket => rdma /\ offset' = 0
         /\ endTxTimer' \in BOOLEAN
         /\ ~HasChannel => ~endTxTimer'
         /\ HasChannel => AtMostOneWaits'
         /\ DOMAIN pendingPackets' = NextHops
         /\ pendingPackets' = [h \in NextHops |-> pendingPackets'[h]]
         /\ NoneWaitsForKnownHop'
         /\ NoDoubleSchedule'
<1>1. d.hop \in NextHops /\ d # NoPacket
  BY NoPacketAssumption DEF Datagram
<1>2. CASE Discard(d, FALSE)
  BY <1>1, <1>2 DEF Discard, Shape, NoneWaits, AtMostOneWaits, NoneWaitsForKnownHop,
                    NoDoubleSchedule
<1>3. ASSUME NEW packets,
             SendDatagramToOutput(d.hop, packets, FALSE),
             \/ packet' = d /\ \E p : packets = <<p>>
             \/ packet' = NoPacket /\ offset' = 0 /\ rdma
      PROVE  /\ packet' \in Datagram \cup {NoPacket}
             /\ packet' = NoPacket => rdma /\ offset' = 0
             /\ endTxTimer' \in BOOLEAN
             /\ ~HasChannel => ~endTxTimer'
             /\ HasChannel => AtMostOneWaits'
             /\ DOMAIN pendingPackets' = NextHops
             /\ pendingPackets' = [h \in NextHops |-> pendingPackets'[h]]
             /\ NoneWaitsForKnownHop'
             /\ NoDoubleSchedule'
  <2>1. /\ DOMAIN pendingPackets' = NextHops
        /\ pendingPackets' = [h \in NextHops |-> pendingPackets'[h]]
        /\ NoneWaitsForKnownHop'
    BY <1>1, <1>3, OutputShape
  <2>2. CASE HasChannel
    <3>1. packet' = d /\ \E p : packets = <<p>>
      BY <1>3, <2>2
    <3>2. AtMostOneWaits' /\ NoDoubleSchedule' /\ endTxTimer' \in BOOLEAN
      BY <1>1, <1>3, <2>2, <3>1, OneToOutput
    <3>3. QED
      BY <1>1, <2>1, <2>2, <3>1, <3>2
  <2>3. CASE ~HasChannel
    <3>1. endTxTimer' = FALSE /\ NoDoubleSchedule'
      BY <1>1, <1>3, <2>3, UnpacedOutput
    <3>2. QED
      BY <1>1, <1>3, <2>1, <2>3, <3>1
  <2>4. QED
    BY <2>2, <2>3
<1>4. CASE SendStraightOut(d, from, rdma, FALSE)
  BY <1>3, <1>4 DEF SendStraightOut
<1>5. CASE rdma /\ SendAllFragments(d, from, FALSE)
  BY <1>3, <1>5 DEF SendAllFragments
<1>6. CASE SendNextFragment(d, from, FALSE)
  BY <1>3, <1>6 DEF SendNextFragment
<1>7. QED
  BY <1>2, <1>4, <1>5, <1>6 DEF FragmentAndSend

(* fragmentPostRouting keeps the invariant: a new datagram is queued while *)
(* one is in work, and starts a free output at offset 0 otherwise.         *)
LEMMA FragmentPostRoutingFine ==
  ASSUME OutputInv, NEW d \in Datagram,
         isRdma' \in BOOLEAN, HasChannel => ~isRdma',
         FragmentPostRouting(d, isRdma'), UNCHANGED arpCache
  PROVE  OutputInv'
<1>1. CASE packet = NoPacket
  <2>1. queue = <<>> /\ endTxTimer = FALSE
    BY <1>1 DEF OutputInv, InWorkAccounts, Shape
  <2>2. Append(queue, d) = <<d>>
    BY <2>1
  <2>3. Head(Append(queue, d)) = d /\ Tail(Append(queue, d)) = <<>>
    BY <2>2
  <2>4. queue' = <<>> /\ FragmentAndSend(d, offset, isRdma', FALSE)
    BY <1>1, <2>1, <2>3 DEF FragmentPostRouting
  <2>5. HasChannel => ~isRdma' /\ NoneWaits
    BY <1>1 DEF OutputInv, InWorkAccounts, NoneWaits
  <2>6. Shape /\ NoneWaitsForKnownHop /\ NoDoubleSchedule
    BY DEF OutputInv, InWorkAccounts
  <2>7. /\ packet' \in Datagram \cup {NoPacket}
        /\ packet' = NoPacket => isRdma' /\ offset' = 0
        /\ endTxTimer' \in BOOLEAN
        /\ ~HasChannel => ~endTxTimer'
        /\ HasChannel => AtMostOneWaits'
        /\ DOMAIN pendingPackets' = NextHops
        /\ pendingPackets' = [h \in NextHops |-> pendingPackets'[h]]
        /\ NoneWaitsForKnownHop'
        /\ NoDoubleSchedule'
    BY <2>4, <2>5, <2>6, FragmentAndSendFine
  <2>8. Shape'
    BY <2>4, <2>7 DEF Shape
  <2>9. InWorkAccounts'
    BY <2>4, <2>7 DEF InWorkAccounts, AtMostOneWaits
  <2>10. QED
    BY <2>7, <2>8, <2>9 DEF OutputInv
<1>2. CASE packet # NoPacket
  <2>1. /\ queue' = Append(queue, d)
        /\ UNCHANGED <<packet, offset, pendingPackets, endTxTimer, error>>
    BY <1>2 DEF FragmentPostRouting
  <2>2. queue' \in Seq(Datagram)
    BY <2>1 DEF OutputInv, Shape
  <2>3. QED
    BY <1>2, <2>1, <2>2 DEF OutputInv, Shape, InWorkAccounts, NoneWaitsForKnownHop, NoDoubleSchedule
<1>3. QED
  BY <1>1, <1>2

(* The end of a transmission keeps the invariant.                          *)
LEMMA EndTxFine ==
  ASSUME OutputInv, HandleEndTxPeriod
  PROVE  OutputInv'
<1>1. HasChannel /\ isRdma = FALSE /\ packet \in Datagram /\ UNCHANGED <<isRdma, arpCache>>
  BY DEF OutputInv, InWorkAccounts, Shape, HandleEndTxPeriod
<1>2. NoneWaits
  BY <1>1 DEF OutputInv, InWorkAccounts, NoneWaits, HandleEndTxPeriod
<1>3. ASSUME NEW d \in Datagram, NEW from,
             FragmentAndSend(d, from, isRdma, FALSE), queue' \in Seq(Datagram)
      PROVE  OutputInv'
  <2>1. Shape /\ NoneWaitsForKnownHop /\ NoDoubleSchedule
    BY DEF OutputInv, InWorkAccounts
  <2>2. /\ packet' \in Datagram \cup {NoPacket}
        /\ packet' # NoPacket
        /\ endTxTimer' \in BOOLEAN
        /\ AtMostOneWaits'
        /\ DOMAIN pendingPackets' = NextHops
        /\ pendingPackets' = [h \in NextHops |-> pendingPackets'[h]]
        /\ NoneWaitsForKnownHop'
        /\ NoDoubleSchedule'
    BY <1>1, <1>2, <1>3, <2>1, FragmentAndSendFine
  <2>3. Shape'
    BY <1>1, <1>3, <2>2 DEF Shape
  <2>4. InWorkAccounts'
    BY <1>1, <2>2 DEF InWorkAccounts, AtMostOneWaits
  <2>5. QED
    BY <2>2, <2>3, <2>4 DEF OutputInv
<1>4. CASE FragmentAndSend(packet, offset, isRdma, FALSE) /\ UNCHANGED queue
  BY <1>1, <1>3, <1>4 DEF OutputInv, Shape
<1>5. CASE /\ queue # <<>> /\ queue' = Tail(queue)
           /\ FragmentAndSend(Head(queue), 0, isRdma, FALSE)
  <2>1. Head(queue) \in Datagram /\ Tail(queue) \in Seq(Datagram)
    BY <1>5 DEF OutputInv, Shape
  <2>2. QED
    BY <1>3, <1>5, <2>1
<1>6. CASE /\ queue = <<>>
           /\ packet' = NoPacket /\ offset' = 0 /\ endTxTimer' = FALSE
           /\ UNCHANGED <<queue, payloadLength, pendingPackets, error, sent, dropped>>
  BY <1>1, <1>2, <1>6 DEF OutputInv, Shape, InWorkAccounts, NoneWaits, NoneWaitsForKnownHop,
                          NoDoubleSchedule
<1>7. QED
  BY <1>4, <1>5, <1>6 DEF HandleEndTxPeriod, EndTx

(* An answer of ARP, or its failure, keeps the invariant: in a paced       *)
(* output it releases at most one packet, and the timer is free for it.    *)
LEMMA ArpFine ==
  ASSUME OutputInv, NEW hop \in NextHops,
         ArpResolutionCompleted(hop) \/ ArpResolutionTimedOut(hop) \/ ArpExpires(hop)
  PROVE  OutputInv'
<1>1. CASE ArpExpires(hop)
  BY <1>1 DEF ArpExpires, OutputInv, Shape, InWorkAccounts, NoneWaitsForKnownHop, NoDoubleSchedule
<1>2. ASSUME pendingPackets' = [pendingPackets EXCEPT ![hop] = <<>>]
      PROVE  /\ DOMAIN pendingPackets' = NextHops
             /\ pendingPackets' = [h \in NextHops |-> pendingPackets'[h]]
             /\ pendingPackets'[hop] = <<>>
             /\ \A h \in NextHops \ {hop} : pendingPackets'[h] = pendingPackets[h]
  BY <1>2 DEF OutputInv, Shape
<1>3. CASE ArpResolutionTimedOut(hop)
  <2>1. /\ pendingPackets' = [pendingPackets EXCEPT ![hop] = <<>>]
        /\ UNCHANGED <<isRdma, queue, packet, offset, arpCache, endTxTimer, error>>
    BY <1>3 DEF ArpResolutionTimedOut
  <2>2. \A h \in NextHops : pendingPackets'[h] = <<>> \/ pendingPackets'[h] = pendingPackets[h]
    BY <1>2, <2>1
  <2>3. Shape'
    BY <1>2, <2>1 DEF OutputInv, Shape
  <2>4. InWorkAccounts'
    BY <1>2, <2>1, <2>2 DEF OutputInv, InWorkAccounts, NoDoubleSchedule
  <2>5. arpCache \subseteq DOMAIN pendingPackets => NoneWaitsForKnownHop'
    BY <1>2, <2>1, <2>2 DEF OutputInv, Shape, NoneWaitsForKnownHop
  <2>6. NoneWaitsForKnownHop'
    BY <2>1, <2>2, <2>5 DEF OutputInv, Shape, NoneWaitsForKnownHop
  <2>7. QED
    BY <2>3, <2>4, <2>6 DEF OutputInv
<1>4. CASE ArpResolutionCompleted(hop)
  <2> DEFINE released == pendingPackets[hop]
  <2>1. /\ pendingPackets' = [pendingPackets EXCEPT ![hop] = <<>>]
        /\ arpCache' = arpCache \cup {hop}
        /\ SendPacketsToNIC(released, endTxTimer)
        /\ UNCHANGED <<isRdma, queue, packet, offset>>
    BY <1>4 DEF ArpResolutionCompleted
  <2>2. /\ endTxTimer' = (endTxTimer \/ (HasChannel /\ released # <<>>))
        /\ error' = IF HasChannel /\ released # <<>> /\ (endTxTimer \/ Len(released) > 1)
                      THEN "already scheduled" ELSE error
    BY <2>1 DEF SendPacketsToNIC
  <2>3. HasChannel /\ released # <<>> =>
          /\ Len(released) = 1 /\ ~endTxTimer /\ packet # NoPacket
          /\ \A h \in NextHops \ {hop} : pendingPackets[h] = <<>>
    BY DEF OutputInv, InWorkAccounts
  <2>4. error' = error
    <3>1. ~(HasChannel /\ released # <<>> /\ (endTxTimer \/ Len(released) > 1))
      <4> HIDE DEF released
      <4>1. Len(released) = 1 => ~(Len(released) > 1)
        OBVIOUS
      <4>2. QED
        BY <2>3, <4>1
    <3>2. QED
      BY <2>2, <3>1
  <2>5. endTxTimer' \in BOOLEAN
    BY <2>2
  <2>6. Shape'
    BY <1>2, <2>1, <2>5 DEF OutputInv, Shape
  <2>7. InWorkAccounts'
    <3>1. CASE HasChannel /\ released # <<>>
      <4>1. \A h \in NextHops : pendingPackets'[h] = <<>>
        BY <1>2, <2>1, <2>3, <3>1
      <4>2. QED
        BY <2>1, <2>3, <2>4, <3>1, <4>1 DEF OutputInv, InWorkAccounts, NoDoubleSchedule
    <3>2. CASE ~(HasChannel /\ released # <<>>)
      <4>1. endTxTimer' = endTxTimer
        BY <2>2, <3>2 DEF OutputInv, Shape
      <4>2. \A h \in NextHops : pendingPackets'[h] = <<>> \/ pendingPackets'[h] = pendingPackets[h]
        BY <1>2, <2>1
      <4>3. QED
        BY <2>1, <2>4, <4>1, <4>2, <1>2 DEF OutputInv, InWorkAccounts, NoDoubleSchedule
    <3>3. QED
      BY <3>1, <3>2
  <2>8. NoneWaitsForKnownHop'
    BY <1>2, <2>1 DEF OutputInv, Shape, NoneWaitsForKnownHop
  <2>9. QED
    BY <2>6, <2>7, <2>8 DEF OutputInv
<1>5. QED
  BY <1>1, <1>3, <1>4

(* OutputInv holds at the start and is kept by every step.                 *)
LEMMA OutputInductive == Spec => []OutputInv
<1>1. Init => OutputInv
  <2> SUFFICES ASSUME Init
               PROVE  OutputInv
    OBVIOUS
  <2>1. Shape
    <3>1. /\ DOMAIN pendingPackets = NextHops
          /\ pendingPackets = [hop \in NextHops |-> pendingPackets[hop]]
      BY DEF Init
    <3>2. queue \in Seq(Datagram)
      BY DEF Init
    <3>3. QED
      BY <3>1, <3>2, Zenon DEF Init, Shape
  <2>2. \A hop \in NextHops : pendingPackets[hop] = <<>>
    BY DEF Init
  <2>3. InWorkAccounts
    <3>1. error # "already scheduled"
      BY DEF Init
    <3>2. QED
      BY <2>2, <3>1 DEF Init, InWorkAccounts, NoDoubleSchedule
  <2>4. QED
    BY <2>1, <2>3 DEF Init, OutputInv, NoneWaitsForKnownHop
<1>2. OutputInv /\ [Next]_vars => OutputInv'
  <2> SUFFICES ASSUME OutputInv, [Next]_vars
               PROVE  OutputInv'
    OBVIOUS
  <2>1. ASSUME NEW d \in Datagram, HandlePacketFromHL(d)
        PROVE  OutputInv'
    <3>1. HasChannel => d.protocol # "rdma"
      BY OutputAssumption DEF Datagram
    <3>2. isRdma' = (isRdma \/ d.protocol = "rdma")
      BY <2>1 DEF HandlePacketFromHL, RdmaSeen
    <3>3. isRdma' \in BOOLEAN /\ (HasChannel => ~isRdma')
      BY <3>1, <3>2 DEF OutputInv, InWorkAccounts
    <3>4. QED
      BY <2>1, <3>3, FragmentPostRoutingFine DEF HandlePacketFromHL
  <2>2. ASSUME NEW d \in Datagram, HandleIncomingDatagram(d)
        PROVE  OutputInv'
    <3>1. isRdma' = isRdma /\ UNCHANGED arpCache /\ FragmentPostRouting(d, isRdma)
      BY <2>2 DEF HandleIncomingDatagram
    <3>2. isRdma' \in BOOLEAN /\ (HasChannel => ~isRdma') /\ FragmentPostRouting(d, isRdma')
      BY <3>1 DEF OutputInv, InWorkAccounts, Shape
    <3>3. QED
      BY <3>1, <3>2, FragmentPostRoutingFine
  <2>3. CASE EndTxWhenDown
    BY <2>3 DEF EndTxWhenDown, OutputInv, Shape, InWorkAccounts, NoneWaitsForKnownHop, NoDoubleSchedule
  <2>4. CASE Stop
    BY <2>4 DEF Stop, OutputInv, Shape, InWorkAccounts, NoneWaitsForKnownHop, NoDoubleSchedule
  <2>5. CASE Start
    BY <2>5 DEF Start, OutputInv, Shape, InWorkAccounts, NoneWaitsForKnownHop, NoDoubleSchedule
  <2>6. CASE UNCHANGED vars
    BY <2>6 DEF vars, OutputInv, Shape, InWorkAccounts, NoneWaitsForKnownHop, NoDoubleSchedule
  <2>7. QED
    BY <2>1, <2>2, <2>3, <2>4, <2>5, <2>6, EndTxFine, ArpFine DEF Next
<1>3. QED
  BY <1>1, <1>2, PTL DEF Spec

(* The datagram in work accounts for the timer, the queue and the packets  *)
(* that wait for ARP, so fragmentAndSend, the timer and the answers of ARP *)
(* never schedule endTxTimer twice.                                        *)
THEOREM OneInWorkHolds == Spec => []OneInWork
<1>1. OutputInv => OneInWork
  BY OutputAssumption DEF OutputInv, InWorkAccounts, OneInWork, Shape
<1>2. QED
  BY <1>1, OutputInductive, PTL

(* The ASSERT2 of sendDatagramToOutput never fails.                        *)
THEOREM NoneWaitsForKnownHopHolds == Spec => []NoneWaitsForKnownHop
<1>1. OutputInv => NoneWaitsForKnownHop
  BY DEF OutputInv
<1>2. QED
  BY <1>1, OutputInductive, PTL

-----------------------------------------------------------------------------
(***************************************************************************)
(* The order of what leaves, and that nothing is missing.                  *)
(***************************************************************************)
Packet == UNION { ToSet(PacketsOf(d)) : d \in Datagram }

Before(p, q) ==
  \/ p.datagram.id < q.datagram.id
  \/ p.datagram.id = q.datagram.id /\ p.offset < q.offset

Ordered(s) ==
  \A i, j \in DOMAIN s :
    i < j /\ s[i].datagram.hop = s[j].datagram.hop => Before(s[i], s[j])

Precedes(P, Q) ==
  \A p \in P, q \in Q : p.datagram.hop = q.datagram.hop => Before(p, q)

(* A fragment carries at least one byte.                                   *)
LEMMA FragmentLengthPositive == FragmentLength \in Nat \ {0}
<1> DEFINE room == Mtu - HeaderLength
<1>1. room \in Nat /\ room >= FragmentUnit /\ FragmentUnit \in Nat \ {0}
  BY OutputAssumption
<1>2. room \div FragmentUnit \in Nat /\ room \div FragmentUnit >= 1
  BY <1>1
<1>3. \A x, y \in Nat : x >= 1 /\ y >= 1 => x * y \in Nat /\ x * y >= 1
  OBVIOUS
<1>4. QED
  BY <1>1, <1>2, <1>3 DEF FragmentLength

(* A multiple of n grows by at least n with each factor.                   *)
LEMMA Multiples ==
  ASSUME NEW n \in Nat \ {0}, NEW j \in Int, NEW k \in Int, j < k
  PROVE  /\ j * n \in Int /\ k * n \in Int
         /\ j * n + n = (j + 1) * n
         /\ j * n + n <= k * n
<1>1. \A z \in Nat : z * n \in Nat
  OBVIOUS
<1>2. k - j - 1 \in Nat /\ (k - j - 1) * n = k * n - j * n - n
  OBVIOUS
<1>3. j * n \in Int /\ k * n \in Int /\ j * n + n = (j + 1) * n
  OBVIOUS
<1>4. QED
  BY <1>1, <1>2, <1>3

(* The number of pieces: piece i is there just if it begins within len.    *)
LEMMA PieceCount ==
  ASSUME NEW len \in Nat \ {0}, NEW n \in Nat \ {0}
  PROVE  /\ (len + n - 1) \div n \in Nat
         /\ \A i \in Nat \ {0} : i <= (len + n - 1) \div n <=> (i - 1) * n < len
<1> DEFINE m == len + n - 1
           k == m \div n
<1>1. m \in Nat /\ m >= n
  OBVIOUS
<1>2. m % n \in 0 .. n - 1 /\ m = n * k + (m % n) /\ k \in Int
  BY <1>1
<1>3. n * k = k * n /\ k * n \in Int
  <2> HIDE DEF m, k
  <2> QED
    BY <1>2
<1> HIDE DEF k
<1>4. k * n >= len /\ k * n < len + n
  BY <1>2, <1>3
<1> HIDE DEF m
<1>5. k \in Nat
  <2>1. ASSUME k < 0
        PROVE  FALSE
    <3>1. k * n + n <= 0 * n /\ 0 * n = 0
      BY <1>2, <2>1, Multiples
    <3>2. QED
      BY <1>3, <1>4, <3>1
  <2>2. QED
    BY <1>2, <2>1
<1>6. ASSUME NEW i \in Nat \ {0}
      PROVE  i <= k <=> (i - 1) * n < len
  <2>1. (i - 1) * n \in Int /\ i - 1 \in Int /\ k - 1 \in Int
    <3>1. i - 1 \in Int /\ n \in Int /\ k - 1 \in Int
      BY <1>2
    <3>2. \A x, y \in Int : x * y \in Int
      OBVIOUS
    <3>3. QED
      BY <3>1, <3>2
  <2>2. CASE i <= k
    <3>1. (i - 1) * n + n <= k * n
      BY <2>1, <2>2, <1>2, Multiples
    <3>2. QED
      BY <2>1, <2>2, <3>1, <1>3, <1>4
  <2>3. CASE i = k + 1
    <3>1. (i - 1) * n = k * n
      BY <2>3, <1>2
    <3>2. QED
      BY <2>3, <3>1, <1>3, <1>4, <1>2
  <2>4. CASE k + 1 < i
    <3>1. k * n + n <= (i - 1) * n
      BY <2>4, <1>2, <2>1, Multiples
    <3>2. QED
      BY <2>1, <2>4, <3>1, <1>3, <1>4, <1>2
  <2>5. i <= k \/ i = k + 1 \/ k + 1 < i
    BY <1>2
  <2>6. QED
    BY <2>2, <2>3, <2>4, <2>5
<1>7. QED
  BY <1>5, <1>6 DEF k, m

(* What PacketsOf makes of a datagram that is too large.                   *)
LargeOK(d) ==
  /\ DOMAIN PacketsOf(d) = 1 .. Len(PacketsOf(d)) /\ Len(PacketsOf(d)) \in Nat
  /\ PacketsOf(d) = FragmentsFrom(d, 0)
  /\ \A i \in DOMAIN PacketsOf(d) :
       /\ PacketsOf(d)[i] = FragmentAt(d, (i - 1) * FragmentLength)
       /\ (i - 1) * FragmentLength \in Nat /\ (i - 1) * FragmentLength < d.len
  /\ \A k \in Nat : k * FragmentLength < d.len => k + 1 \in DOMAIN PacketsOf(d)

LEMMA LargePackets ==
  ASSUME NEW d \in Datagram, TooLarge(d)
  PROVE  LargeOK(d)
<1> DEFINE n == FragmentLength
           c == (d.len + n - 1) \div n
<1>1. d.len \in Nat \ {0} /\ n \in Nat \ {0}
  BY OutputAssumption, FragmentLengthPositive DEF Datagram
<1>2. PacketsOf(d) = FragmentsFrom(d, 0)
  BY DEF PacketsOf
<1> HIDE DEF n
<1>3. c \in Nat /\ \A i \in Nat \ {0} : i <= c <=> (i - 1) * n < d.len
  BY <1>1, PieceCount
<1>4. FragmentsFrom(d, 0) = [ i \in 1 .. c |-> FragmentAt(d, (i - 1) * n) ]
  <2>1. d.len - 0 + n - 1 = d.len + n - 1
    BY <1>1
  <2>2. \A i \in Int : 0 + (i - 1) * n = (i - 1) * n
    BY <1>1
  <2>3. FragmentsFrom(d, 0) = [ i \in 1 .. c |-> FragmentAt(d, 0 + (i - 1) * n) ]
    BY <2>1 DEF FragmentsFrom, n
  <2>4. \A i \in 1 .. c : FragmentAt(d, 0 + (i - 1) * n) = FragmentAt(d, (i - 1) * n)
    BY <2>2, <1>3
  <2>5. QED
    BY <2>3, <2>4
<1> HIDE DEF c
<1>5. DOMAIN PacketsOf(d) = 1 .. c /\ Len(PacketsOf(d)) = c
  BY <1>2, <1>3, <1>4
<1>6. ASSUME NEW i \in 1 .. c
      PROVE  (i - 1) * n \in Nat /\ (i - 1) * n < d.len
  BY <1>1, <1>3
<1>7. ASSUME NEW k \in Nat, k * n < d.len
      PROVE  k + 1 \in 1 .. c
  <2>1. k + 1 \in Nat \ {0} /\ (k + 1) - 1 = k
    OBVIOUS
  <2>2. k + 1 <= c
    BY <2>1, <1>3, <1>7
  <2>3. QED
    BY <2>1, <2>2, <1>3
<1>8. QED
  BY <1>2, <1>3, <1>4, <1>5, <1>6, <1>7 DEF LargeOK, n

(* The fields of a datagram that number it and its bytes.                  *)
LEMMA DatagramFields ==
  ASSUME NEW d \in Datagram
  PROVE  d.len \in Nat \ {0} /\ d.id \in Nat /\ d.hop \in NextHops
<1>1. d.len \in PayloadLengths /\ d.id \in 1 .. MaxDatagrams /\ d.hop \in NextHops
  BY DEF Datagram
<1>2. PayloadLengths \subseteq Nat \ {0} /\ MaxDatagrams \in Nat
  BY OutputAssumption
<1>3. d.len \in Nat \ {0}
  BY <1>1, <1>2
<1>4. \A x \in 1 .. MaxDatagrams : x \in Nat
  BY <1>2
<1>5. QED
  BY <1>1, <1>3, <1>4

(* Each packet of a datagram carries it and begins within it, and they are *)
(* in the order of their offsets.                                          *)
PacketsOK(d) ==
  /\ PacketsOf(d) \in Seq(Packet)
  /\ Ordered(PacketsOf(d))
  /\ \A p \in ToSet(PacketsOf(d)) : p.datagram = d /\ p.offset \in Nat /\ p.offset < d.len

LEMMA PacketsFine ==
  ASSUME NEW d \in Datagram
  PROVE  PacketsOK(d)
<1>1. ToSet(PacketsOf(d)) \subseteq Packet
  BY DEF Packet
<1>2. d.len \in Nat \ {0}
  BY DatagramFields
<1>3. CASE TooLarge(d)
  <2> DEFINE s == PacketsOf(d)
             n == FragmentLength
  <2>1. LargeOK(d)
    BY <1>3, LargePackets
  <2>2. /\ DOMAIN s = 1 .. Len(s) /\ Len(s) \in Nat
        /\ \A i \in DOMAIN s :
             /\ s[i].datagram = d /\ s[i].offset = (i - 1) * n
             /\ (i - 1) * n \in Nat /\ (i - 1) * n < d.len
    <3>1. \A x : FragmentAt(d, x).datagram = d /\ FragmentAt(d, x).offset = x
      BY DEF FragmentAt
    <3>2. QED
      BY <2>1, <3>1 DEF LargeOK
  <2>3. s \in Seq(Packet)
    <3>1. s = [ i \in 1 .. Len(s) |-> s[i] ]
      BY <2>1 DEF LargeOK, FragmentsFrom
    <3>2. \A i \in 1 .. Len(s) : s[i] \in Packet
      BY <1>1, <2>2 DEF ToSet
    <3> HIDE DEF s
    <3>3. QED
      BY <2>2, <3>1, <3>2, SeqDef
  <2> HIDE DEF s
  <2>4. ASSUME NEW i \in DOMAIN s, NEW j \in DOMAIN s, i < j
        PROVE  s[i].offset < s[j].offset
    <3>1. i \in Int /\ j \in Int /\ n \in Nat \ {0} /\ i - 1 < j - 1
      BY <2>2, <2>4, FragmentLengthPositive
    <3> HIDE DEF n
    <3>2. (i - 1) * n + n <= (j - 1) * n
      BY <3>1, Multiples
    <3>3. (i - 1) * n \in Nat /\ (j - 1) * n \in Nat
      BY <2>2
    <3>4. QED
      BY <2>2, <3>1, <3>2, <3>3
  <2>5. Ordered(s)
    BY <2>2, <2>4 DEF Ordered, Before
  <2>6. \A p \in ToSet(s) : p.datagram = d /\ p.offset \in Nat /\ p.offset < d.len
    BY <2>2 DEF ToSet
  <2>7. QED
    BY <2>3, <2>5, <2>6 DEF PacketsOK, s
<1>4. CASE ~TooLarge(d)
  <2>1. PacketsOf(d) = <<Whole(d)>>
    BY <1>4 DEF PacketsOf
  <2>2. ToSet(<<Whole(d)>>) = {Whole(d)} /\ Ordered(<<Whole(d)>>)
    BY DEF ToSet, Ordered
  <2>3. Whole(d).datagram = d /\ Whole(d).offset = 0
    BY DEF Whole
  <2>4. <<Whole(d)>> \in Seq(Packet)
    BY <1>1, <2>1, <2>2
  <2>5. QED
    BY <1>2, <2>1, <2>2, <2>3, <2>4 DEF PacketsOK
<1>5. QED
  BY <1>3, <1>4

(* A packet carries a datagram that is routed over one of the hops.        *)
LEMMA PacketFields ==
  ASSUME NEW p \in Packet
  PROVE  /\ p.datagram \in Datagram
         /\ p \in ToSet(PacketsOf(p.datagram))
         /\ p.offset \in Nat /\ p.offset < p.datagram.len
         /\ p.datagram.hop \in NextHops
<1>1. PICK d \in Datagram : p \in ToSet(PacketsOf(d))
  BY DEF Packet
<1>2. PacketsOK(d)
  BY PacketsFine
<1>3. QED
  BY <1>1, <1>2 DEF PacketsOK, Datagram

(* Two sequences of packets, one after the other.                          *)
LEMMA SetOfConcat ==
  ASSUME NEW S, NEW s \in Seq(S), NEW t \in Seq(S)
  PROVE  s \o t \in Seq(S) /\ ToSet(s \o t) = ToSet(s) \cup ToSet(t)
<1>1. /\ s \o t \in Seq(S) /\ Len(s \o t) = Len(s) + Len(t)
      /\ \A i \in 1 .. Len(s) + Len(t) : (s \o t)[i] = IF i <= Len(s) THEN s[i] ELSE t[i - Len(s)]
  BY ConcatProperties
<1>2. /\ Len(s) \in Nat /\ Len(t) \in Nat
      /\ DOMAIN s = 1 .. Len(s) /\ DOMAIN t = 1 .. Len(t)
      /\ DOMAIN (s \o t) = 1 .. Len(s) + Len(t)
  BY <1>1, LenProperties
<1>3. ToSet(s \o t) \subseteq ToSet(s) \cup ToSet(t)
  <2>1. ASSUME NEW i \in DOMAIN (s \o t)
        PROVE  (s \o t)[i] \in ToSet(s) \cup ToSet(t)
    <3>1. i \in 1 .. Len(s) \/ i - Len(s) \in 1 .. Len(t)
      BY <1>2
    <3>2. QED
      BY <1>1, <1>2, <3>1 DEF ToSet
  <2>2. QED
    BY <2>1 DEF ToSet
<1>4. ToSet(s) \subseteq ToSet(s \o t)
  <2>1. ASSUME NEW i \in DOMAIN s
        PROVE  i \in DOMAIN (s \o t) /\ (s \o t)[i] = s[i]
    BY <1>1, <1>2
  <2>2. QED
    BY <2>1 DEF ToSet
<1>5. ToSet(t) \subseteq ToSet(s \o t)
  <2>1. ASSUME NEW i \in DOMAIN t
        PROVE  i + Len(s) \in DOMAIN (s \o t) /\ (s \o t)[i + Len(s)] = t[i]
    <3>1. i + Len(s) \in 1 .. Len(s) + Len(t) /\ ~(i + Len(s) <= Len(s)) /\ (i + Len(s)) - Len(s) = i
      BY <1>2
    <3>2. QED
      BY <1>1, <1>2, <3>1
  <2>2. QED
    BY <2>1 DEF ToSet
<1>6. QED
  BY <1>1, <1>3, <1>4, <1>5

LEMMA OrderedConcat ==
  ASSUME NEW s \in Seq(Packet), NEW t \in Seq(Packet),
         Ordered(s), Ordered(t), Precedes(ToSet(s), ToSet(t))
  PROVE  Ordered(s \o t)
<1>1. /\ Len(s \o t) = Len(s) + Len(t) /\ s \o t \in Seq(Packet)
      /\ \A i \in 1 .. Len(s) + Len(t) : (s \o t)[i] = IF i <= Len(s) THEN s[i] ELSE t[i - Len(s)]
  BY ConcatProperties
<1>2. /\ Len(s) \in Nat /\ Len(t) \in Nat
      /\ DOMAIN s = 1 .. Len(s) /\ DOMAIN t = 1 .. Len(t)
      /\ DOMAIN (s \o t) = 1 .. Len(s) + Len(t)
  BY <1>1, LenProperties
<1> DEFINE u == s \o t
<1>3. /\ DOMAIN u = 1 .. Len(s) + Len(t)
      /\ \A i \in 1 .. Len(s) + Len(t) : u[i] = IF i <= Len(s) THEN s[i] ELSE t[i - Len(s)]
  BY <1>1, <1>2
<1> HIDE DEF u
<1>4. ASSUME NEW i \in DOMAIN u, NEW j \in DOMAIN u,
             i < j, u[i].datagram.hop = u[j].datagram.hop
      PROVE  Before(u[i], u[j])
  <2>1. i \in 1 .. Len(s) + Len(t) /\ j \in 1 .. Len(s) + Len(t)
    BY <1>3
  <2>2. CASE j <= Len(s)
    <3>1. i \in DOMAIN s /\ j \in DOMAIN s /\ u[i] = s[i] /\ u[j] = s[j]
      BY <1>2, <1>3, <1>4, <2>1, <2>2
    <3>2. QED
      BY <1>4, <3>1 DEF Ordered
  <2>3. CASE i <= Len(s) /\ ~(j <= Len(s))
    <3>1. i \in DOMAIN s /\ j - Len(s) \in DOMAIN t /\ u[i] = s[i] /\ u[j] = t[j - Len(s)]
      BY <1>2, <1>3, <1>4, <2>1, <2>3
    <3>2. u[i] \in ToSet(s) /\ u[j] \in ToSet(t)
      BY <3>1 DEF ToSet
    <3>3. QED
      BY <1>4, <3>2 DEF Precedes
  <2>4. CASE ~(i <= Len(s))
    <3>1. /\ i - Len(s) \in DOMAIN t /\ j - Len(s) \in DOMAIN t
          /\ i - Len(s) < j - Len(s)
          /\ u[i] = t[i - Len(s)] /\ u[j] = t[j - Len(s)]
      BY <1>2, <1>3, <1>4, <2>1, <2>4
    <3>2. QED
      BY <1>4, <3>1 DEF Ordered
  <2>5. QED
    BY <2>2, <2>3, <2>4, <1>4, <2>1, <1>2
<1>5. QED
  BY <1>4 DEF Ordered, u

-----------------------------------------------------------------------------
(* Packets leave in order, and those that wait for a hop are in order and  *)
(* come after what was sent to it.                                         *)
InLine ==
  /\ sent \in Seq(Packet)
  /\ pendingPackets \in [NextHops -> Seq(Packet)]
  /\ \A hop \in NextHops :
       /\ \A p \in ToSet(pendingPackets[hop]) : p.datagram.hop = hop
       /\ Ordered(pendingPackets[hop])
       /\ Precedes(ToSet(sent), ToSet(pendingPackets[hop]))
  /\ Ordered(sent)

(* What has been sent, or waits for the hop.                               *)
Out(hop) == ToSet(sent) \cup ToSet(pendingPackets[hop])

LEMMA OutPackets ==
  ASSUME InLine, NEW hop \in NextHops, NEW p \in Out(hop)
  PROVE  p \in Packet
<1>1. pendingPackets[hop] \in Seq(Packet) /\ sent \in Seq(Packet)
  BY DEF InLine
<1>2. \A s \in Seq(Packet) : ToSet(s) \subseteq Packet
  BY ElementOfSeq, LenProperties DEF ToSet
<1>3. QED
  BY <1>1, <1>2 DEF Out

(* The packets for one hop that come last are added at the end.            *)
LEMMA OutputInLine ==
  ASSUME InLine, NoneWaitsForKnownHop,
         NEW hop \in NextHops, NEW packets \in Seq(Packet), NEW timer,
         Ordered(packets), \A p \in ToSet(packets) : p.datagram.hop = hop,
         Precedes(Out(hop), ToSet(packets)),
         SendDatagramToOutput(hop, packets, timer)
  PROVE  /\ InLine'
         /\ ToSet(packets) \subseteq Out(hop)'
         /\ \A h \in NextHops : Out(h) \subseteq Out(h)' /\ Out(h)' \subseteq Out(h) \cup ToSet(packets)
<1>1. CASE hop \in arpCache
  <2>1. sent' = sent \o packets /\ pendingPackets' = pendingPackets
    BY <1>1 DEF SendDatagramToOutput, SendPacketsToNIC
  <2>2. sent \o packets \in Seq(Packet) /\ ToSet(sent \o packets) = ToSet(sent) \cup ToSet(packets)
    BY SetOfConcat DEF InLine
  <2>3. pendingPackets[hop] = <<>> /\ ToSet(<<>>) = {}
    BY <1>1 DEF NoneWaitsForKnownHop, ToSet
  <2>4. Ordered(sent \o packets)
    <3>1. Precedes(ToSet(sent), ToSet(packets))
      BY DEF Precedes, Out
    <3>2. QED
      BY <3>1, OrderedConcat DEF InLine
  <2>5. ASSUME NEW h \in NextHops
        PROVE  Precedes(ToSet(sent) \cup ToSet(packets), ToSet(pendingPackets[h]))
    <3>1. CASE h = hop
      BY <2>3, <3>1 DEF Precedes
    <3>2. CASE h # hop
      BY <3>2 DEF Precedes, InLine
    <3>3. QED
      BY <3>1, <3>2
  <2>6. InLine'
    BY <2>1, <2>2, <2>4, <2>5 DEF InLine
  <2>7. QED
    BY <2>1, <2>2, <2>6 DEF Out
<1>2. CASE hop \notin arpCache
  <2> DEFINE waiting == pendingPackets[hop] \o packets
  <2>1. sent' = sent /\ pendingPackets' = [pendingPackets EXCEPT ![hop] = waiting]
    BY <1>2 DEF SendDatagramToOutput
  <2>2. pendingPackets[hop] \in Seq(Packet)
    BY DEF InLine
  <2>3. waiting \in Seq(Packet) /\ ToSet(waiting) = ToSet(pendingPackets[hop]) \cup ToSet(packets)
    BY <2>2, SetOfConcat
  <2>4. Ordered(waiting)
    <3>1. Precedes(ToSet(pendingPackets[hop]), ToSet(packets))
      BY DEF Precedes, Out
    <3>2. QED
      BY <2>2, <3>1, OrderedConcat DEF InLine
  <2>5. Precedes(ToSet(sent), ToSet(waiting))
    BY <2>3 DEF Precedes, Out, InLine
  <2>6. /\ pendingPackets' \in [NextHops -> Seq(Packet)]
        /\ pendingPackets'[hop] = waiting
        /\ \A h \in NextHops \ {hop} : pendingPackets'[h] = pendingPackets[h]
    <3> HIDE DEF waiting
    <3>1. QED
      BY <2>1, <2>3 DEF InLine
  <2> HIDE DEF waiting
  <2>7. ASSUME NEW h \in NextHops
        PROVE  /\ \A p \in ToSet(pendingPackets'[h]) : p.datagram.hop = h
               /\ Ordered(pendingPackets'[h])
               /\ Precedes(ToSet(sent), ToSet(pendingPackets'[h]))
    <3>1. CASE h = hop
      BY <2>3, <2>4, <2>5, <2>6, <3>1 DEF InLine
    <3>2. CASE h # hop
      BY <2>6, <3>2 DEF InLine
    <3>3. QED
      BY <3>1, <3>2
  <2>8. InLine'
    BY <2>1, <2>6, <2>7 DEF InLine
  <2>9. ASSUME NEW h \in NextHops
        PROVE  Out(h) \subseteq Out(h)' /\ Out(h)' \subseteq Out(h) \cup ToSet(packets)
    <3>1. CASE h = hop
      BY <2>1, <2>3, <2>6, <3>1 DEF Out
    <3>2. CASE h # hop
      BY <2>1, <2>6, <3>2 DEF Out
    <3>3. QED
      BY <3>1, <3>2
  <2>10. ToSet(packets) \subseteq Out(hop)'
    BY <2>3, <2>6 DEF Out
  <2>11. QED
    BY <2>8, <2>9, <2>10
<1>3. QED
  BY <1>1, <1>2

(* What fragmentAndSend relies on: it begins with a fragment of d, or with *)
(* d as a whole, and all that is out or waits comes before.                *)
MaySend(d, from, rdma) ==
  /\ from \in Nat /\ from < d.len
  /\ \E k \in Nat : from = k * FragmentLength
  /\ from = 0 \/ (TooLarge(d) /\ ~rdma)
  /\ \A hop \in NextHops : \A p \in Out(hop) :
       \/ p.datagram.id < d.id
       \/ p.datagram = d /\ ~Undeliverable(d) /\ TooLarge(d) /\ ~rdma /\ p.offset < from
  /\ d \notin dropped => \A p \in ToSet(PacketsOf(d)) : p.offset < from => p \in Out(d.hop)

(* What it makes of a datagram that is sent: packets of d are added, up to *)
(* the offset that it keeps, or all of them.                               *)
HasSent(d) ==
  /\ InLine'
  /\ UNCHANGED dropped
  /\ packet' \in {d, NoPacket}
  /\ offset' \in Nat
  /\ packet' = d /\ TooLarge(d) =>
       /\ payloadLength' = d.len
       /\ offset' < d.len => \E k \in Nat : offset' = k * FragmentLength
  /\ \A hop \in NextHops : Out(hop) \subseteq Out(hop)'
  /\ \A hop \in NextHops : \A p \in Out(hop)' :
       \/ p.datagram.id < d.id /\ p \in Out(hop)
       \/ p.datagram = d /\ (packet' = d /\ TooLarge(d) => p.offset < offset')
  /\ d \notin dropped =>
       \A p \in ToSet(PacketsOf(d)) :
         (packet' = d /\ TooLarge(d) => p.offset < offset') => p \in Out(d.hop)'

(* sendDatagramToOutput with packets of d, the first of them at from.      *)
LEMMA OutputOfDatagram ==
  ASSUME InLine, NoneWaitsForKnownHop,
         NEW d \in Datagram, NEW from, NEW rdma, NEW timer, MaySend(d, from, rdma),
         NEW packets \in Seq(Packet), Ordered(packets),
         \A p \in ToSet(packets) : p.datagram = d /\ from <= p.offset,
         SendDatagramToOutput(d.hop, packets, timer)
  PROVE  /\ InLine'
         /\ ToSet(packets) \subseteq Out(d.hop)'
         /\ \A h \in NextHops : Out(h) \subseteq Out(h)' /\ Out(h)' \subseteq Out(h) \cup ToSet(packets)
<1>1. d.hop \in NextHops
  BY DatagramFields
<1>2. \A p \in ToSet(packets) : p.datagram.hop = d.hop
  OBVIOUS
<1>3. Precedes(Out(d.hop), ToSet(packets))
  <2>1. ASSUME NEW p \in Out(d.hop), NEW q \in ToSet(packets)
        PROVE  Before(p, q)
    <3>1. q.datagram = d /\ from <= q.offset
      OBVIOUS
    <3>2. q \in Packet /\ p \in Packet
      <4>1. ToSet(packets) \subseteq Packet
        BY ElementOfSeq, LenProperties DEF ToSet
      <4>2. QED
        BY <1>1, <4>1, OutPackets
    <3>3. q.offset \in Nat /\ p.offset \in Nat
      BY <3>2, PacketFields
    <3>4. p.datagram.id < d.id \/ (p.datagram = d /\ p.offset < from)
      BY <1>1 DEF MaySend
    <3>5. from \in Nat
      BY DEF MaySend
    <3>6. QED
      BY <3>1, <3>3, <3>4, <3>5 DEF Before
  <2>2. QED
    BY <2>1 DEF Precedes
<1>4. QED
  BY <1>1, <1>2, <1>3, OutputInLine

LEMMA SendStraightOutFine ==
  ASSUME InLine, NoneWaitsForKnownHop,
         NEW d \in Datagram, NEW from, NEW rdma, NEW timer, MaySend(d, from, rdma),
         ~TooLarge(d), SendStraightOut(d, from, rdma, timer)
  PROVE  HasSent(d)
<1>1. /\ SendDatagramToOutput(d.hop, <<Whole(d)>>, timer)
      /\ packet' = IF rdma THEN NoPacket ELSE d
      /\ offset' = IF rdma THEN 0 ELSE from
      /\ UNCHANGED dropped
  BY DEF SendStraightOut
<1>2. PacketsOf(d) = <<Whole(d)>> /\ from = 0
  BY DEF PacketsOf, MaySend
<1>3. PacketsOK(d)
  BY PacketsFine
<1>4. \A p \in ToSet(<<Whole(d)>>) : p.datagram = d /\ from <= p.offset
  BY <1>2, <1>3 DEF PacketsOK
<1>5. /\ InLine'
      /\ ToSet(<<Whole(d)>>) \subseteq Out(d.hop)'
      /\ \A h \in NextHops : /\ Out(h) \subseteq Out(h)'
                             /\ Out(h)' \subseteq Out(h) \cup ToSet(<<Whole(d)>>)
  BY <1>1, <1>2, <1>3, <1>4, OutputOfDatagram DEF PacketsOK
<1>6. ASSUME NEW h \in NextHops, NEW p \in Out(h)'
      PROVE  (p.datagram.id < d.id /\ p \in Out(h)) \/ p.datagram = d
  BY <1>4, <1>5 DEF MaySend
<1>7. packet' \in {d, NoPacket} /\ offset' \in Nat
  BY <1>1, <1>2
<1>8. QED
  BY <1>1, <1>2, <1>5, <1>6, <1>7 DEF HasSent

LEMMA SendAllFragmentsFine ==
  ASSUME InLine, NoneWaitsForKnownHop,
         NEW d \in Datagram, NEW from, NEW timer, MaySend(d, from, TRUE),
         TooLarge(d), SendAllFragments(d, from, timer)
  PROVE  HasSent(d)
<1>1. from = 0
  BY DEF MaySend
<1>2. PacketsOf(d) = FragmentsFrom(d, 0) /\ PacketsOK(d)
  BY PacketsFine DEF PacketsOf
<1>3. /\ SendDatagramToOutput(d.hop, PacketsOf(d), timer)
      /\ packet' = NoPacket /\ offset' = 0 /\ UNCHANGED dropped
  BY <1>1, <1>2 DEF SendAllFragments
<1>4. \A p \in ToSet(PacketsOf(d)) : p.datagram = d /\ from <= p.offset
  BY <1>1, <1>2 DEF PacketsOK
<1>5. /\ InLine'
      /\ ToSet(PacketsOf(d)) \subseteq Out(d.hop)'
      /\ \A h \in NextHops : /\ Out(h) \subseteq Out(h)'
                             /\ Out(h)' \subseteq Out(h) \cup ToSet(PacketsOf(d))
  BY <1>2, <1>3, <1>4, OutputOfDatagram DEF PacketsOK
<1>6. d # NoPacket
  BY NoPacketAssumption
<1>7. ASSUME NEW h \in NextHops, NEW p \in Out(h)'
      PROVE  (p.datagram.id < d.id /\ p \in Out(h)) \/ p.datagram = d
  BY <1>4, <1>5 DEF MaySend
<1>8. QED
  BY <1>3, <1>5, <1>6, <1>7 DEF HasSent

LEMMA SendNextFragmentFine ==
  ASSUME InLine, NoneWaitsForKnownHop,
         NEW d \in Datagram, NEW from, NEW timer, MaySend(d, from, FALSE),
         TooLarge(d), SendNextFragment(d, from, timer)
  PROVE  HasSent(d)
<1> DEFINE n == FragmentLength
           fragment == FragmentAt(d, from)
<1>1. PICK k \in Nat : from = k * n
  BY DEF MaySend
<1>2. /\ from \in Nat /\ from < d.len /\ d.len \in Nat \ {0} /\ n \in Nat \ {0}
      /\ d # NoPacket /\ d.hop \in NextHops
  BY FragmentLengthPositive, DatagramFields, NoPacketAssumption DEF MaySend
<1>3. LargeOK(d) /\ PacketsOK(d)
  BY LargePackets, PacketsFine
<1>4. fragment \in ToSet(PacketsOf(d)) /\ fragment.datagram = d /\ fragment.offset = from
  <2>1. k + 1 \in DOMAIN PacketsOf(d) /\ (k + 1) - 1 = k
    BY <1>1, <1>2, <1>3 DEF LargeOK
  <2>2. PacketsOf(d)[k + 1] = FragmentAt(d, k * n)
    BY <1>3, <2>1 DEF LargeOK
  <2>3. QED
    BY <1>1, <2>1, <2>2 DEF ToSet, FragmentAt
<1>5. /\ SendDatagramToOutput(d.hop, <<fragment>>, timer)
      /\ packet' = d /\ offset' = from + fragment.length /\ payloadLength' = d.len
      /\ UNCHANGED dropped
  BY DEF SendNextFragment
<1>6. \/ offset' = d.len /\ d.len <= from + n
      \/ offset' = from + n /\ from + n < d.len
  <2>1. fragment.length = IF from + n >= d.len THEN d.len - from ELSE n
    BY DEF FragmentAt, LastFragment
  <2>2. from + (d.len - from) = d.len
    BY <1>2
  <2> HIDE DEF fragment, n
  <2>3. QED
    BY <1>2, <1>5, <2>1, <2>2
<1> HIDE DEF fragment
<1>7. /\ <<fragment>> \in Seq(Packet) /\ Ordered(<<fragment>>)
      /\ ToSet(<<fragment>>) = {fragment}
  <2>1. fragment \in Packet
    BY <1>4 DEF Packet
  <2>2. QED
    BY <2>1 DEF ToSet, Ordered
<1>8. /\ InLine'
      /\ ToSet(<<fragment>>) \subseteq Out(d.hop)'
      /\ \A h \in NextHops : /\ Out(h) \subseteq Out(h)'
                             /\ Out(h)' \subseteq Out(h) \cup ToSet(<<fragment>>)
  <2>1. \A p \in ToSet(<<fragment>>) : p.datagram = d /\ from <= p.offset
    BY <1>2, <1>4, <1>7
  <2>2. QED
    BY <1>5, <1>7, <2>1, OutputOfDatagram
<1>9. offset' \in Nat /\ from < offset'
  BY <1>2, <1>6
<1>10. offset' < d.len => \E m \in Nat : offset' = m * n
  <2>1. from + n = (k + 1) * n
    <3> HIDE DEF n
    <3>1. QED
      BY <1>1, <1>2, Multiples
  <2>2. k + 1 \in Nat
    OBVIOUS
  <2>3. CASE offset' = d.len
    BY <1>2, <2>3
  <2>4. CASE offset' = from + n
    BY <2>1, <2>2, <2>4
  <2>5. QED
    BY <1>6, <2>3, <2>4
<1>11. ASSUME NEW h \in NextHops, NEW p \in Out(h)'
       PROVE  \/ p.datagram.id < d.id /\ p \in Out(h)
              \/ p.datagram = d /\ p.offset < offset'
  <2>1. CASE p = fragment
    BY <1>4, <1>9, <2>1
  <2>2. CASE p \in Out(h)
    <3>1. p.datagram.id < d.id \/ (p.datagram = d /\ p.offset < from)
      BY <2>2 DEF MaySend
    <3>2. p.datagram = d => p.offset \in Nat
      <4>1. p \in Packet
        BY <2>2, OutPackets
      <4>2. QED
        BY <4>1, PacketFields
    <3>3. QED
      BY <1>2, <1>9, <2>2, <3>1, <3>2
  <2>3. QED
    BY <1>7, <1>8, <2>1, <2>2
<1>12. ASSUME d \notin dropped, NEW p \in ToSet(PacketsOf(d)), p.offset < offset'
       PROVE  p \in Out(d.hop)'
  <2>1. PICK i \in DOMAIN PacketsOf(d) : p = PacketsOf(d)[i]
    BY DEF ToSet
  <2>2. p = FragmentAt(d, (i - 1) * n) /\ (i - 1) * n \in Nat /\ (i - 1) * n < d.len /\ i \in Int
    BY <1>3, <2>1 DEF LargeOK
  <2>3. p.offset = (i - 1) * n
    BY <2>2 DEF FragmentAt
  <2>4. CASE p.offset < from
    BY <1>2, <1>8, <1>12, <2>4 DEF MaySend
  <2>5. CASE i - 1 = k
    BY <1>1, <1>7, <1>8, <2>2, <2>5 DEF fragment
  <2>6. CASE k < i - 1
    <3> HIDE DEF n
    <3>1. k * n + n <= (i - 1) * n
      BY <1>2, <2>2, <2>6, Multiples
    <3>2. FALSE
      BY <1>1, <1>2, <1>6, <1>12, <2>2, <2>3, <3>1
    <3>3. QED
      BY <3>2
  <2>7. CASE i - 1 < k
    <3> HIDE DEF n
    <3>1. (i - 1) * n + n <= k * n
      BY <1>2, <2>2, <2>7, Multiples
    <3>2. p.offset < from
      BY <1>1, <1>2, <2>2, <2>3, <3>1
    <3>3. QED
      BY <2>4, <3>2
  <2>8. i - 1 = k \/ k < i - 1 \/ i - 1 < k
    BY <2>2
  <2>9. QED
    BY <2>5, <2>6, <2>7, <2>8
<1>13. QED
  BY <1>2, <1>5, <1>8, <1>9, <1>10, <1>11, <1>12 DEF HasSent

-----------------------------------------------------------------------------
(* Datagrams are numbered in the order of their routing.                   *)
Numbered ==
  /\ routed \in SUBSET Datagram /\ IsFiniteSet(routed)
  /\ \A d \in routed : d.id <= Cardinality(routed)
  /\ \A d, e \in routed : d.id = e.id => d = e

(* The datagram in work may have fragments left.                           *)
Unfinished == packet # NoPacket /\ TooLarge(packet) /\ ~Undeliverable(packet)

(* The datagram in work comes before those in the queue, which are in      *)
(* order; offset and payloadLength are its own where they are used.        *)
WorkInLine ==
  /\ packet # NoPacket => packet \in routed
  /\ \A i \in DOMAIN queue :
       queue[i] \in routed /\ (packet # NoPacket => packet.id < queue[i].id)
  /\ \A i, j \in DOMAIN queue : i < j => queue[i].id < queue[j].id
  /\ offset \in Nat
  /\ Unfinished =>
       /\ payloadLength = packet.len
       /\ offset < packet.len => \E k \in Nat : offset = k * FragmentLength
  /\ packet # NoPacket /\ Undeliverable(packet) => packet \in dropped /\ offset = 0

(* What is out or waits comes before what the datagram in work will send.  *)
Behind(p) ==
  /\ p.datagram \in routed
  /\ packet # NoPacket =>
       \/ p.datagram.id < packet.id
       \/ p.datagram = packet /\ ~Undeliverable(packet) /\ (Unfinished => p.offset < offset)

AllBehind == \A hop \in NextHops : \A p \in Out(hop) : Behind(p)

(* Of a datagram that has left the queue and was not dropped, all packets  *)
(* are out or wait, those from offset on excepted while it is in work.     *)
NothingMissing ==
  \A d \in routed \ dropped :
    d \notin ToSet(queue) =>
      \A p \in ToSet(PacketsOf(d)) :
        (d = packet /\ TooLarge(d) => p.offset < offset) => p \in Out(d.hop)

OrderInv == InLine /\ Numbered /\ WorkInLine /\ AllBehind /\ NothingMissing

(* The state in which fragmentAndSend leaves the queue and the history.    *)
NextInWork(d) ==
  /\ Numbered' /\ routed \subseteq routed' /\ d \in routed'
  /\ \A i \in DOMAIN queue' : queue'[i] \in routed' /\ d.id < queue'[i].id
  /\ \A i, j \in DOMAIN queue' : i < j => queue'[i].id < queue'[j].id
  /\ \A e \in routed' \ dropped :
       e \notin ToSet(queue') /\ e # d => ToSet(PacketsOf(e)) \subseteq Out(e.hop)

(* fragmentAndSend of a datagram whose turn it is.                         *)
LEMMA FragmentAndSendInLine ==
  ASSUME InLine, AllBehind, NoneWaitsForKnownHop,
         NEW d \in Datagram, NEW from, NEW rdma \in BOOLEAN, NEW timer,
         MaySend(d, from, rdma), NextInWork(d), Undeliverable(d) => from = 0,
         FragmentAndSend(d, from, rdma, timer)
  PROVE  OrderInv'
<1>1. d # NoPacket /\ d.hop \in NextHops /\ \A e \in routed' : e \in Datagram /\ e.hop \in NextHops
  BY NoPacketAssumption, DatagramFields DEF NextInWork, Numbered
<1>2. \A hop \in NextHops : \A p \in Out(hop) : p.datagram \in routed'
  BY DEF AllBehind, Behind, NextInWork
<1>3. CASE Undeliverable(d)
  <2>1. /\ sent' = sent /\ pendingPackets' = pendingPackets /\ payloadLength' = payloadLength
        /\ dropped' = dropped \cup {d} /\ packet' = d /\ offset' = 0
    BY <1>3 DEF FragmentAndSend, Discard
  <2>2. \A hop \in NextHops : Out(hop)' = Out(hop)
    BY <2>1 DEF Out
  <2>3. InLine'
    BY <2>1 DEF InLine
  <2>4. ~Unfinished'
    BY <1>3, <2>1 DEF Unfinished
  <2>5. WorkInLine'
    BY <1>1, <2>1, <2>4 DEF WorkInLine, NextInWork
  <2>6. AllBehind'
    <3>1. ASSUME NEW hop \in NextHops, NEW p \in Out(hop)
          PROVE  p.datagram.id < d.id
      BY <1>3 DEF MaySend
    <3>2. QED
      BY <1>2, <2>1, <2>2, <3>1 DEF AllBehind, Behind
  <2>7. NothingMissing'
    <3>1. ASSUME NEW e \in routed' \ dropped', e \notin ToSet(queue')
          PROVE  ToSet(PacketsOf(e)) \subseteq Out(e.hop)'
      BY <1>1, <2>1, <2>2, <3>1 DEF NextInWork
    <3>2. QED
      BY <3>1 DEF NothingMissing
  <2>8. QED
    BY <2>3, <2>5, <2>6, <2>7 DEF OrderInv, NextInWork
<1>4. CASE ~Undeliverable(d)
  <2>1. HasSent(d)
    <3>1. CASE ~TooLarge(d)
      BY <1>4, <3>1, SendStraightOutFine DEF FragmentAndSend
    <3>2. CASE TooLarge(d) /\ rdma
      <4>1. rdma = TRUE
        BY <3>2
      <4>2. SendAllFragments(d, from, timer)
        BY <1>4, <3>2 DEF FragmentAndSend
      <4>3. MaySend(d, from, TRUE)
        BY <4>1
      <4>4. QED
        BY <3>2, <4>2, <4>3, SendAllFragmentsFine
    <3>3. CASE TooLarge(d) /\ ~rdma
      <4>1. rdma = FALSE
        BY <3>3
      <4>2. SendNextFragment(d, from, timer)
        BY <1>4, <3>3 DEF FragmentAndSend
      <4>3. MaySend(d, from, FALSE)
        BY <4>1
      <4>4. QED
        BY <3>3, <4>2, <4>3, SendNextFragmentFine
    <3>4. QED
      BY <3>1, <3>2, <3>3
  <2>2. packet' = d \/ packet' = NoPacket
    BY <2>1 DEF HasSent
  <2>3. Unfinished' => packet' = d /\ TooLarge(d)
    BY <2>2 DEF Unfinished
  <2>4. ~(packet' # NoPacket /\ Undeliverable(packet)')
    BY <1>4, <2>2
  <2>5. WorkInLine'
    <3>1. /\ packet' # NoPacket => packet' \in routed'
          /\ \A i \in DOMAIN queue' :
               queue'[i] \in routed' /\ (packet' # NoPacket => packet'.id < queue'[i].id)
          /\ \A i, j \in DOMAIN queue' : i < j => queue'[i].id < queue'[j].id
      BY <2>2 DEF NextInWork
    <3>2. /\ offset' \in Nat
          /\ Unfinished' =>
               /\ payloadLength' = packet'.len
               /\ offset' < packet'.len => \E k \in Nat : offset' = k * FragmentLength
      BY <2>1, <2>3 DEF HasSent
    <3>3. QED
      BY <2>4, <3>1, <3>2 DEF WorkInLine
  <2>6. AllBehind'
    <3>1. ASSUME NEW hop \in NextHops, NEW p \in Out(hop)'
          PROVE  Behind(p)'
      <4>1. \/ p.datagram.id < d.id /\ p \in Out(hop)
            \/ p.datagram = d /\ (packet' = d /\ TooLarge(d) => p.offset < offset')
        BY <2>1, <3>1 DEF HasSent
      <4>2. p.datagram \in routed'
        BY <1>2, <4>1 DEF NextInWork
      <4>3. QED
        BY <1>4, <2>2, <2>3, <4>1, <4>2 DEF Behind
    <3>2. QED
      BY <3>1 DEF AllBehind
  <2>7. NothingMissing'
    <3>1. ASSUME NEW e \in routed' \ dropped', e \notin ToSet(queue'),
                 NEW p \in ToSet(PacketsOf(e)), e = packet' /\ TooLarge(e) => p.offset < offset'
          PROVE  p \in Out(e.hop)'
      <4>1. dropped' = dropped /\ Out(e.hop) \subseteq Out(e.hop)'
        BY <1>1, <2>1 DEF HasSent
      <4>2. CASE e # d
        BY <3>1, <4>1, <4>2 DEF NextInWork
      <4>3. CASE e = d
        BY <2>1, <3>1, <4>1, <4>3 DEF HasSent
      <4>4. QED
        BY <4>2, <4>3
    <3>2. QED
      BY <3>1 DEF NothingMissing
  <2>8. QED
    BY <2>1, <2>5, <2>6, <2>7 DEF OrderInv, NextInWork, HasSent
<1>5. QED
  BY <1>3, <1>4

-----------------------------------------------------------------------------
(* A datagram is numbered after all the others.                            *)
LEMMA NewNumber ==
  ASSUME Numbered, NEW d \in Datagram, NewDatagram(d), routed' = routed \cup {d}
  PROVE  Numbered' /\ d \notin routed /\ \A e \in routed : e.id < d.id
<1>1. d.id = Cardinality(routed) + 1 /\ IsFiniteSet(routed) /\ Cardinality(routed) \in Nat
  BY FS_CardinalityType DEF Numbered, NewDatagram
<1>2. \A e \in routed : e.id \in Nat /\ e.id <= Cardinality(routed) /\ e.id < d.id
  <2>1. \A e \in routed : e.id \in Nat
    BY DatagramFields DEF Numbered
  <2>2. QED
    BY <1>1, <2>1 DEF Numbered
<1>3. d \notin routed
  <2>1. d.id \in Nat
    BY <1>1
  <2>2. ~(d.id < d.id)
    BY <2>1
  <2>3. QED
    BY <1>2, <2>2
<1>4. IsFiniteSet(routed') /\ Cardinality(routed') = Cardinality(routed) + 1
  BY <1>1, <1>3, FS_AddElement
<1>5. \A e \in routed' : e.id <= Cardinality(routed')
  BY <1>1, <1>2, <1>4
<1>6. \A e, f \in routed' : e.id = f.id => e = f
  BY <1>1, <1>2 DEF Numbered
<1>7. QED
  BY <1>2, <1>3, <1>4, <1>5, <1>6 DEF Numbered

(* With none in work, what is out or waits was numbered before.            *)
LEMMA FragmentPostRoutingInLine ==
  ASSUME OrderInv, OutputInv, NEW d \in Datagram, NEW rdma \in BOOLEAN,
         NewDatagram(d), routed' = routed \cup {d}, FragmentPostRouting(d, rdma)
  PROVE  OrderInv'
<1>1. Numbered' /\ d \notin routed /\ \A e \in routed : e.id < d.id
  BY NewNumber DEF OrderInv
<1>2. d.len \in Nat \ {0} /\ d.hop \in NextHops /\ d # NoPacket
  BY DatagramFields, NoPacketAssumption
<1>3. queue \in Seq(Datagram) /\ packet \in Datagram \cup {NoPacket}
  BY DEF OutputInv, Shape
<1>4. CASE packet = NoPacket
  <2>1. queue = <<>> /\ offset = 0
    BY <1>4 DEF OutputInv, InWorkAccounts
  <2>2. Append(queue, d) = <<d>>
    BY <2>1
  <2>3. Head(Append(queue, d)) = d /\ Tail(Append(queue, d)) = <<>>
    BY <2>2
  <2>4. queue' = <<>> /\ FragmentAndSend(d, 0, rdma, endTxTimer)
    BY <1>4, <2>1, <2>3 DEF FragmentPostRouting
  <2>5. MaySend(d, 0, rdma)
    <3>1. 0 = 0 * FragmentLength
      BY FragmentLengthPositive
    <3>2. \A hop \in NextHops : \A p \in Out(hop) : p.datagram.id < d.id
      BY <1>1 DEF OrderInv, AllBehind, Behind
    <3>3. \A p \in ToSet(PacketsOf(d)) : ~(p.offset < 0)
      BY PacketsFine DEF PacketsOK
    <3>4. QED
      BY <1>2, <3>1, <3>2, <3>3 DEF MaySend
  <2>6. NextInWork(d)
    <3>1. ASSUME NEW e \in routed' \ dropped, e # d
          PROVE  ToSet(PacketsOf(e)) \subseteq Out(e.hop)
      <4>1. e \in routed \ dropped /\ e # packet /\ e \notin ToSet(queue)
        BY <1>4, <2>1, <3>1, NoPacketAssumption DEF OrderInv, Numbered, ToSet
      <4>2. QED
        BY <4>1 DEF OrderInv, NothingMissing
    <3>2. DOMAIN queue' = {}
      BY <2>4
    <3>3. QED
      BY <1>1, <3>1, <3>2 DEF NextInWork
  <2>7. QED
    BY <2>4, <2>5, <2>6, FragmentAndSendInLine DEF OrderInv, OutputInv
<1>5. CASE packet # NoPacket
  <2>1. /\ queue' = Append(queue, d)
        /\ UNCHANGED <<packet, offset, payloadLength, pendingPackets, sent, dropped>>
    BY <1>5 DEF FragmentPostRouting
  <2>2. packet.id < d.id /\ routed \subseteq routed' /\ d \in routed'
    BY <1>1, <1>5 DEF OrderInv, WorkInLine
  <2>3. /\ DOMAIN queue = 1 .. Len(queue) /\ Len(queue) \in Nat
        /\ DOMAIN queue' = 1 .. Len(queue) + 1
        /\ \A i \in 1 .. Len(queue) : queue'[i] = queue[i]
        /\ queue'[Len(queue) + 1] = d
    BY <1>3, <2>1, AppendProperties, LenProperties
  <2>4. \A i \in DOMAIN queue : queue[i] \in routed /\ packet.id < queue[i].id /\ queue[i].id < d.id
    BY <1>1, <1>5 DEF OrderInv, WorkInLine
  <2>5. \A i \in DOMAIN queue' : queue'[i] \in routed' /\ packet.id < queue'[i].id
    <3>1. ASSUME NEW i \in DOMAIN queue'
          PROVE  queue'[i] \in routed' /\ packet.id < queue'[i].id
      <4>1. i \in DOMAIN queue \/ i = Len(queue) + 1
        BY <2>3
      <4>2. QED
        BY <2>2, <2>3, <2>4, <4>1
    <3>2. QED
      BY <3>1
  <2>6. ASSUME NEW i \in DOMAIN queue', NEW j \in DOMAIN queue', i < j
        PROVE  queue'[i].id < queue'[j].id
    <3>1. i \in DOMAIN queue /\ queue'[i] = queue[i]
      BY <2>3, <2>6
    <3>2. (j \in DOMAIN queue /\ queue'[j] = queue[j]) \/ queue'[j] = d
      BY <2>3
    <3>3. QED
      BY <2>4, <2>6, <3>1, <3>2 DEF OrderInv, WorkInLine
  <2>7. WorkInLine'
    BY <1>5, <2>1, <2>2, <2>5, <2>6 DEF OrderInv, WorkInLine, Unfinished
  <2>8. \A hop \in NextHops : Out(hop)' = Out(hop)
    BY <2>1 DEF Out
  <2>9. AllBehind'
    BY <2>1, <2>2, <2>8 DEF OrderInv, AllBehind, Behind, Unfinished
  <2>10. NothingMissing'
    <3>1. ASSUME NEW e \in routed' \ dropped, e \notin ToSet(queue')
          PROVE  e \in routed \ dropped /\ e \notin ToSet(queue) /\ e.hop \in NextHops
      <4>1. d \in ToSet(queue') /\ ToSet(queue) \subseteq ToSet(queue')
        BY <2>3 DEF ToSet
      <4>2. QED
        BY <3>1, <4>1, DatagramFields DEF OrderInv, Numbered
    <3>2. QED
      BY <2>1, <2>8, <3>1 DEF OrderInv, NothingMissing
  <2>11. InLine'
    BY <2>1 DEF OrderInv, InLine
  <2>12. QED
    BY <1>1, <2>7, <2>9, <2>10, <2>11 DEF OrderInv
<1>6. QED
  BY <1>4, <1>5

(* When no fragment of the datagram in work is left, none is missing.      *)
LEMMA WorkDone ==
  ASSUME OrderInv, packet # NoPacket, ~(offset < payloadLength /\ Mtu < ByteLength(packet)),
         NEW e \in routed \ dropped, e \notin ToSet(queue)
  PROVE  ToSet(PacketsOf(e)) \subseteq Out(e.hop)
<1>1. ASSUME NEW p \in ToSet(PacketsOf(e)), e = packet, TooLarge(e)
      PROVE  p.offset < offset
  <2>1. e \in Datagram /\ HeaderLength \in Nat /\ Mtu \in Nat
    BY OutputAssumption DEF OrderInv, Numbered
  <2>2. e.len \in Nat /\ p.offset \in Nat /\ p.offset < e.len
    BY <2>1, PacketsFine, DatagramFields DEF PacketsOK
  <2>3. Unfinished
    BY <1>1 DEF OrderInv, WorkInLine, Unfinished
  <2>4. payloadLength = e.len /\ offset \in Nat
    BY <1>1, <2>3 DEF OrderInv, WorkInLine
  <2>5. Mtu < ByteLength(packet)
    BY <1>1, <2>1, <2>2 DEF TooLarge, ByteLength
  <2>6. QED
    BY <2>2, <2>4, <2>5
<1>2. QED
  BY <1>1 DEF OrderInv, NothingMissing

(* The end of a transmission.                                              *)
LEMMA EndTxInLine ==
  ASSUME OrderInv, OutputInv, HandleEndTxPeriod
  PROVE  OrderInv'
<1>1. HasChannel /\ isRdma = FALSE /\ packet \in Datagram /\ packet # NoPacket /\ UNCHANGED routed
  BY NoPacketAssumption DEF OutputInv, InWorkAccounts, Shape, HandleEndTxPeriod
<1>2. queue \in Seq(Datagram) /\ packet \in routed /\ Numbered' /\ NoneWaitsForKnownHop
  BY <1>1 DEF OutputInv, Shape, OrderInv, WorkInLine, Numbered
<1>3. packet.len \in Nat \ {0} /\ packet.hop \in NextHops /\ packet.id \in Nat
  BY <1>1, DatagramFields
<1>4. CASE offset < payloadLength /\ Mtu < ByteLength(packet)
  <2>1. FragmentAndSend(packet, offset, FALSE, FALSE) /\ queue' = queue
    BY <1>1, <1>4 DEF HandleEndTxPeriod, EndTx
  <2>2. TooLarge(packet)
    <3>1. ByteLength(packet) \in Nat /\ Mtu \in Nat
      BY <1>3, OutputAssumption DEF ByteLength
    <3>2. QED
      BY <1>4, <3>1 DEF TooLarge
  <2>3. MaySend(packet, offset, FALSE)
    <3>1. \A hop \in NextHops : \A p \in Out(hop) :
            \/ p.datagram.id < packet.id
            \/ p.datagram = packet /\ ~Undeliverable(packet) /\ p.offset < offset
      BY <1>1, <2>2 DEF OrderInv, AllBehind, Behind, Unfinished
    <3>2. offset \in Nat /\ offset < packet.len /\ \E k \in Nat : offset = k * FragmentLength
      <4>1. CASE Undeliverable(packet)
        <5>1. offset = 0 /\ 0 = 0 * FragmentLength
          BY <1>1, <4>1, FragmentLengthPositive DEF OrderInv, WorkInLine
        <5>2. QED
          BY <1>3, <5>1
      <4>2. CASE ~Undeliverable(packet)
        BY <1>1, <1>4, <2>2, <4>2 DEF OrderInv, WorkInLine, Unfinished
      <4>3. QED
        BY <4>1, <4>2
    <3>3. packet \notin ToSet(queue)
      <4>1. \A i \in DOMAIN queue : packet.id < queue[i].id
        BY <1>1 DEF OrderInv, WorkInLine
      <4>2. ~(packet.id < packet.id)
        BY <1>3
      <4>3. QED
        BY <4>1, <4>2 DEF ToSet
    <3>4. packet \notin dropped =>
            \A p \in ToSet(PacketsOf(packet)) : p.offset < offset => p \in Out(packet.hop)
      BY <1>2, <3>3 DEF OrderInv, NothingMissing
    <3>5. QED
      BY <2>2, <3>1, <3>2, <3>4 DEF MaySend
  <2>4. NextInWork(packet)
    <3>1. ASSUME NEW e \in routed \ dropped, e \notin ToSet(queue), e # packet
          PROVE  ToSet(PacketsOf(e)) \subseteq Out(e.hop)
      BY <3>1 DEF OrderInv, NothingMissing
    <3>2. QED
      BY <1>1, <1>2, <2>1, <3>1 DEF OrderInv, WorkInLine, NextInWork
  <2>5. Undeliverable(packet) => offset = 0
    BY <1>1 DEF OrderInv, WorkInLine
  <2>6. QED
    BY <1>1, <1>2, <2>1, <2>3, <2>4, <2>5, FragmentAndSendInLine DEF OrderInv
<1>5. CASE ~(offset < payloadLength /\ Mtu < ByteLength(packet)) /\ queue # <<>>
  <2> DEFINE d == Head(queue)
  <2>1. queue' = Tail(queue) /\ FragmentAndSend(d, 0, FALSE, FALSE)
    BY <1>1, <1>5 DEF HandleEndTxPeriod, EndTx
  <2>2. /\ Len(queue) \in Nat \ {0} /\ DOMAIN queue = 1 .. Len(queue)
        /\ d = queue[1] /\ 1 \in DOMAIN queue
        /\ Len(queue') = Len(queue) - 1 /\ DOMAIN queue' = 1 .. Len(queue')
        /\ \A i \in 1 .. Len(queue') : queue'[i] = queue[i + 1] /\ i + 1 \in DOMAIN queue
    BY <1>2, <1>5, <2>1
  <2> HIDE DEF d
  <2>3. d \in routed /\ packet.id < d.id /\ d \in Datagram
    BY <1>1, <2>2 DEF OrderInv, WorkInLine, Numbered
  <2>4. d.len \in Nat \ {0} /\ d.id \in Nat
    BY <2>3, DatagramFields
  <2>5. MaySend(d, 0, FALSE)
    <3>1. 0 = 0 * FragmentLength
      BY FragmentLengthPositive
    <3>2. ASSUME NEW hop \in NextHops, NEW p \in Out(hop)
          PROVE  p.datagram.id < d.id
      <4>1. p.datagram \in routed /\ (p.datagram.id < packet.id \/ p.datagram = packet)
        BY <1>1 DEF OrderInv, AllBehind, Behind
      <4>2. p.datagram.id \in Nat
        BY <4>1, DatagramFields DEF OrderInv, Numbered
      <4>3. QED
        BY <1>3, <2>3, <2>4, <4>1, <4>2
    <3>3. \A p \in ToSet(PacketsOf(d)) : ~(p.offset < 0)
      BY <2>3, PacketsFine DEF PacketsOK
    <3>4. QED
      BY <2>4, <3>1, <3>2, <3>3 DEF MaySend
  <2>6. NextInWork(d)
    <3>1. ASSUME NEW e \in routed \ dropped, e \notin ToSet(queue'), e # d
          PROVE  ToSet(PacketsOf(e)) \subseteq Out(e.hop)
      <4>1. e \notin ToSet(queue)
        <5>1. \A i \in DOMAIN queue : i = 1 \/ (i - 1 \in 1 .. Len(queue') /\ queue'[i - 1] = queue[i])
          BY <2>2
        <5>2. QED
          BY <2>2, <3>1, <5>1 DEF ToSet
      <4>2. QED
        BY <1>1, <1>5, <3>1, <4>1, WorkDone
    <3>2. ASSUME NEW i \in DOMAIN queue'
          PROVE  queue'[i] \in routed' /\ d.id < queue'[i].id
      <4>1. queue'[i] = queue[i + 1] /\ i + 1 \in DOMAIN queue /\ 1 < i + 1
        BY <2>2
      <4>2. QED
        BY <1>1, <2>2, <4>1 DEF OrderInv, WorkInLine
    <3>3. ASSUME NEW i \in DOMAIN queue', NEW j \in DOMAIN queue', i < j
          PROVE  queue'[i].id < queue'[j].id
      <4>1. /\ queue'[i] = queue[i + 1] /\ i + 1 \in DOMAIN queue
            /\ queue'[j] = queue[j + 1] /\ j + 1 \in DOMAIN queue /\ i + 1 < j + 1
        BY <2>2, <3>3
      <4>2. QED
        BY <4>1 DEF OrderInv, WorkInLine
    <3>4. QED
      BY <1>1, <1>2, <2>3, <3>1, <3>2, <3>3 DEF NextInWork
  <2>7. QED
    BY <1>2, <2>1, <2>3, <2>5, <2>6, FragmentAndSendInLine DEF OrderInv
<1>6. CASE ~(offset < payloadLength /\ Mtu < ByteLength(packet)) /\ queue = <<>>
  <2>1. /\ packet' = NoPacket /\ offset' = 0
        /\ UNCHANGED <<queue, payloadLength, pendingPackets, sent, dropped>>
    BY <1>6 DEF HandleEndTxPeriod, EndTx
  <2>2. \A hop \in NextHops : Out(hop)' = Out(hop)
    BY <2>1 DEF Out
  <2>3. WorkInLine'
    BY <1>1, <2>1 DEF OrderInv, WorkInLine, Unfinished
  <2>4. AllBehind'
    BY <1>1, <2>1, <2>2 DEF OrderInv, AllBehind, Behind
  <2>5. NothingMissing'
    <3>1. ASSUME NEW e \in routed \ dropped, e \notin ToSet(queue)
          PROVE  ToSet(PacketsOf(e)) \subseteq Out(e.hop) /\ e.hop \in NextHops
      <4>1. e.hop \in NextHops
        BY DatagramFields DEF OrderInv, Numbered
      <4>2. QED
        BY <1>1, <1>6, <3>1, <4>1, WorkDone
    <3>2. QED
      BY <1>1, <2>1, <2>2, <3>1 DEF NothingMissing
  <2>6. InLine'
    BY <2>1 DEF OrderInv, InLine
  <2>7. QED
    BY <1>2, <2>3, <2>4, <2>5, <2>6 DEF OrderInv
<1>7. QED
  BY <1>4, <1>5, <1>6

-----------------------------------------------------------------------------
(* Steps that move packets but leave the work alone.                       *)
LEMMA SameWork ==
  ASSUME OrderInv, UNCHANGED <<routed, queue, packet, offset, payloadLength, dropped>>, InLine',
         \A hop \in NextHops : Out(hop) \subseteq Out(hop)',
         \A hop \in NextHops : \A p \in Out(hop)' : \E other \in NextHops : p \in Out(other)
  PROVE  OrderInv'
<1>1. Numbered' /\ WorkInLine'
  BY DEF OrderInv, Numbered, WorkInLine, Unfinished
<1>2. AllBehind'
  BY DEF OrderInv, AllBehind, Behind, Unfinished
<1>3. NothingMissing'
  <2>1. \A e \in routed : e.hop \in NextHops
    BY DatagramFields DEF OrderInv, Numbered
  <2>2. QED
    BY <2>1 DEF OrderInv, NothingMissing
<1>4. QED
  BY <1>1, <1>2, <1>3 DEF OrderInv

(* Steps in which what waits for some hops is thrown away.                 *)
LEMMA ThrownAway ==
  ASSUME OrderInv, UNCHANGED <<routed, queue, packet, offset, payloadLength, sent>>,
         dropped \subseteq dropped',
         pendingPackets' \in [NextHops -> Seq(Packet)],
         \A hop \in NextHops :
           \/ pendingPackets'[hop] = pendingPackets[hop]
           \/ pendingPackets'[hop] = <<>> /\ Waiting(hop) \subseteq dropped'
  PROVE  OrderInv'
<1>1. ToSet(<<>>) = {} /\ Ordered(<<>>)
  BY DEF ToSet, Ordered
<1>2. InLine'
  <2>1. ASSUME NEW hop \in NextHops
        PROVE  /\ \A p \in ToSet(pendingPackets'[hop]) : p.datagram.hop = hop
               /\ Ordered(pendingPackets'[hop])
               /\ Precedes(ToSet(sent), ToSet(pendingPackets'[hop]))
    <3>1. CASE pendingPackets'[hop] = pendingPackets[hop]
      BY <3>1 DEF OrderInv, InLine
    <3>2. CASE pendingPackets'[hop] = <<>>
      BY <1>1, <3>2 DEF Precedes
    <3>3. QED
      BY <3>1, <3>2
  <2>2. QED
    BY <2>1 DEF OrderInv, InLine
<1>3. \A hop \in NextHops : Out(hop)' \subseteq Out(hop)
  BY <1>1 DEF Out
<1>4. Numbered' /\ WorkInLine'
  BY DEF OrderInv, Numbered, WorkInLine, Unfinished
<1>5. AllBehind'
  BY <1>3 DEF OrderInv, AllBehind, Behind, Unfinished
<1>6. NothingMissing'
  <2>1. ASSUME NEW e \in routed \ dropped', e \notin ToSet(queue),
               NEW p \in ToSet(PacketsOf(e)), e = packet /\ TooLarge(e) => p.offset < offset
        PROVE  p \in Out(e.hop)'
    <3>1. e \in Datagram /\ e.hop \in NextHops /\ p.datagram = e
      BY DatagramFields, PacketsFine DEF OrderInv, Numbered, PacketsOK
    <3>2. p \in ToSet(sent) \/ p \in ToSet(pendingPackets[e.hop])
      BY <2>1 DEF OrderInv, NothingMissing, Out
    <3>3. CASE p \in ToSet(pendingPackets[e.hop])
      <4>1. e \in Waiting(e.hop)
        BY <3>1, <3>3 DEF Waiting, ToSet
      <4>2. pendingPackets'[e.hop] = pendingPackets[e.hop]
        BY <2>1, <3>1, <4>1
      <4>3. QED
        BY <3>3, <4>2 DEF Out
    <3>4. CASE p \in ToSet(sent)
      BY <3>4 DEF Out
    <3>5. QED
      BY <3>2, <3>3, <3>4
  <2>2. QED
    BY <2>1 DEF NothingMissing
<1>7. QED
  BY <1>2, <1>4, <1>5, <1>6 DEF OrderInv

(* What ARP releases has waited behind all that was sent to the hop.       *)
LEMMA ArpInLine ==
  ASSUME OrderInv, NEW hop \in NextHops, ArpResolutionCompleted(hop)
  PROVE  OrderInv'
<1> DEFINE released == pendingPackets[hop]
<1>1. /\ sent' = sent \o released
      /\ pendingPackets' = [pendingPackets EXCEPT ![hop] = <<>>]
      /\ UNCHANGED <<routed, queue, packet, offset, payloadLength, dropped>>
  BY DEF ArpResolutionCompleted, SendPacketsToNIC
<1>2. sent \in Seq(Packet) /\ released \in Seq(Packet) /\ InLine
  BY DEF OrderInv, InLine
<1>3. sent' \in Seq(Packet) /\ ToSet(sent') = ToSet(sent) \cup ToSet(released)
  BY <1>1, <1>2, SetOfConcat
<1>4. Ordered(sent')
  BY <1>1, <1>2, OrderedConcat DEF InLine
<1>5. /\ pendingPackets' \in [NextHops -> Seq(Packet)]
      /\ pendingPackets'[hop] = <<>> /\ ToSet(<<>>) = {} /\ Ordered(<<>>)
      /\ \A h \in NextHops \ {hop} : pendingPackets'[h] = pendingPackets[h]
  BY <1>1, <1>2 DEF InLine, ToSet, Ordered
<1> HIDE DEF released
<1>6. \A p \in ToSet(released) : p.datagram.hop = hop
  BY <1>2 DEF InLine, released
<1>7. ASSUME NEW h \in NextHops
      PROVE  /\ \A p \in ToSet(pendingPackets'[h]) : p.datagram.hop = h
             /\ Ordered(pendingPackets'[h])
             /\ Precedes(ToSet(sent'), ToSet(pendingPackets'[h]))
  <2>1. CASE h = hop
    BY <1>5, <2>1 DEF Precedes
  <2>2. CASE h # hop
    BY <1>2, <1>3, <1>5, <1>6, <2>2 DEF Precedes, InLine
  <2>3. QED
    BY <2>1, <2>2
<1>8. InLine'
  BY <1>3, <1>4, <1>5, <1>7 DEF InLine
<1>9. ASSUME NEW h \in NextHops
      PROVE  Out(h) \subseteq Out(h)' /\ Out(h)' \subseteq Out(h) \cup Out(hop)
  <2>1. CASE h = hop
    BY <1>3, <1>5, <2>1 DEF Out, released
  <2>2. CASE h # hop
    BY <1>3, <1>5, <2>2 DEF Out, released
  <2>3. QED
    BY <2>1, <2>2
<1>10. QED
  BY <1>1, <1>8, <1>9, SameWork

(* OrderInv holds at the start and is kept by every step.                  *)
LEMMA OrderInductive == Spec => []OrderInv
<1>1. Init => OrderInv
  <2> SUFFICES ASSUME Init
               PROVE  OrderInv
    OBVIOUS
  <2>1. /\ sent = <<>> /\ queue = <<>> /\ packet = NoPacket /\ offset = 0 /\ routed = {}
        /\ pendingPackets = [hop \in NextHops |-> <<>>]
    BY DEF Init
  <2>2. ToSet(<<>>) = {} /\ Ordered(<<>>) /\ <<>> \in Seq(Packet)
    BY DEF ToSet, Ordered
  <2>3. \A hop \in NextHops : pendingPackets[hop] = <<>>
    BY <2>1
  <2>4. InLine
    BY <2>1, <2>2, <2>3 DEF InLine, Precedes
  <2>5. Numbered
    BY <2>1, FS_EmptySet DEF Numbered
  <2>6. WorkInLine
    BY <2>1 DEF WorkInLine, Unfinished
  <2>7. AllBehind
    BY <2>1, <2>2, <2>3 DEF AllBehind, Out
  <2>8. NothingMissing
    BY <2>1 DEF NothingMissing
  <2>9. QED
    BY <2>4, <2>5, <2>6, <2>7, <2>8 DEF OrderInv
<1>2. OrderInv /\ OutputInv /\ [Next]_vars => OrderInv'
  <2> SUFFICES ASSUME OrderInv, OutputInv, [Next]_vars
               PROVE  OrderInv'
    OBVIOUS
  <2>1. ASSUME NEW d \in Datagram, HandlePacketFromHL(d)
        PROVE  OrderInv'
    <3>1. /\ isRdma' = (isRdma \/ d.protocol = "rdma") /\ isRdma \in BOOLEAN
          /\ NewDatagram(d) /\ routed' = routed \cup {d} /\ FragmentPostRouting(d, isRdma')
      BY <2>1 DEF HandlePacketFromHL, RdmaSeen, Encapsulated, OutputInv, Shape
    <3>2. isRdma' \in BOOLEAN
      BY <3>1
    <3>3. QED
      BY <3>1, <3>2, FragmentPostRoutingInLine
  <2>2. ASSUME NEW d \in Datagram, HandleIncomingDatagram(d)
        PROVE  OrderInv'
    <3>1. /\ isRdma \in BOOLEAN
          /\ NewDatagram(d) /\ routed' = routed \cup {d} /\ FragmentPostRouting(d, isRdma)
      BY <2>2 DEF HandleIncomingDatagram, OutputInv, Shape
    <3>2. QED
      BY <3>1, FragmentPostRoutingInLine
  <2>3. ASSUME NEW hop \in NextHops, ArpResolutionTimedOut(hop)
        PROVE  OrderInv'
    <3>1. /\ pendingPackets' = [pendingPackets EXCEPT ![hop] = <<>>]
          /\ dropped' = dropped \cup Waiting(hop)
          /\ UNCHANGED <<routed, queue, packet, offset, payloadLength, sent>>
      BY <2>3 DEF ArpResolutionTimedOut
    <3>2. /\ pendingPackets' \in [NextHops -> Seq(Packet)]
          /\ pendingPackets'[hop] = <<>>
          /\ \A h \in NextHops \ {hop} : pendingPackets'[h] = pendingPackets[h]
      BY <3>1 DEF OrderInv, InLine
    <3>3. \A h \in NextHops : \/ pendingPackets'[h] = pendingPackets[h]
                              \/ pendingPackets'[h] = <<>> /\ Waiting(h) \subseteq dropped'
      BY <3>1, <3>2
    <3>4. QED
      BY <3>1, <3>2, <3>3, ThrownAway
  <2>4. CASE Stop
    <3>1. /\ pendingPackets' = [hop \in NextHops |-> <<>>]
          /\ dropped' = dropped \cup UNION { Waiting(hop) : hop \in NextHops }
          /\ UNCHANGED <<routed, queue, packet, offset, payloadLength, sent>>
      BY <2>4 DEF Stop
    <3>2. /\ pendingPackets' \in [NextHops -> Seq(Packet)]
          /\ \A hop \in NextHops : pendingPackets'[hop] = <<>>
      BY <3>1
    <3>3. \A hop \in NextHops : Waiting(hop) \subseteq dropped'
      BY <3>1
    <3>4. QED
      BY <3>1, <3>2, <3>3, ThrownAway
  <2>5. ASSUME UNCHANGED <<routed, queue, packet, offset, payloadLength, pendingPackets, sent, dropped>>
        PROVE  OrderInv'
    <3>1. InLine'
      BY <2>5 DEF OrderInv, InLine
    <3>2. \A hop \in NextHops : Out(hop)' = Out(hop)
      BY <2>5 DEF Out
    <3>3. QED
      BY <2>5, <3>1, <3>2, SameWork
  <2>6. CASE EndTxWhenDown \/ Start \/ \E hop \in NextHops : ArpExpires(hop)
    BY <2>5, <2>6 DEF EndTxWhenDown, Start, ArpExpires
  <2>7. CASE UNCHANGED vars
    BY <2>5, <2>7 DEF vars
  <2>8. QED
    BY <2>1, <2>2, <2>3, <2>4, <2>6, <2>7, EndTxInLine, ArpInLine DEF Next
<1>3. QED
  BY <1>1, <1>2, OutputInductive, PTL DEF Spec

(* Through fragmentation, the queue and the wait for ARP, what leaves for  *)
(* one next hop leaves in the order of the routing, and the fragments of a *)
(* datagram in the order of their offsets.                                 *)
THEOREM DatagramsInOrderHolds == Spec => []DatagramsInOrder
<1>1. OrderInv => DatagramsInOrder
  BY DEF OrderInv, InLine, Ordered, Before, DatagramsInOrder
<1>2. QED
  BY <1>1, OrderInductive, PTL

(* What the module has finished with and did not drop has left completely, *)
(* each packet of it once.                                                 *)
THEOREM SentWholeHolds == Spec => []SentWhole
<1>1. ASSUME OrderInv
      PROVE  SentWhole
  <2>1. ASSUME NEW d \in routed \ dropped, ~Pending(d)
        PROVE  SentInFull(d)
    <3> DEFINE own == { i \in DOMAIN sent : sent[i].datagram = d }
    <3>1. d \in Datagram /\ d.hop \in NextHops /\ d \notin ToSet(queue) /\ d # packet
      BY <1>1, <2>1, DatagramFields DEF OrderInv, Numbered, Pending
    <3>2. \A i \in DOMAIN sent : sent[i] \in Packet
      BY <1>1, ElementOfSeq, LenProperties DEF OrderInv, InLine
    <3>3. \A i \in own : sent[i] \in ToSet(PacketsOf(d))
      BY <3>2, PacketFields
    <3>4. ASSUME NEW p \in ToSet(PacketsOf(d))
          PROVE  \E i \in own : sent[i] = p
      <4>1. p.datagram = d
        BY <3>1, PacketsFine DEF PacketsOK
      <4>2. p \in ToSet(sent) \cup ToSet(pendingPackets[d.hop])
        BY <1>1, <3>1 DEF OrderInv, NothingMissing, Out
      <4>3. p \notin ToSet(pendingPackets[d.hop])
        BY <2>1, <3>1, <4>1 DEF Pending, Waiting, ToSet
      <4>4. QED
        BY <4>1, <4>2, <4>3 DEF ToSet
    <3>5. ASSUME NEW i \in own, NEW j \in own, i < j
          PROVE  sent[i] # sent[j]
      <4>1. sent[i].datagram.hop = sent[j].datagram.hop
        OBVIOUS
      <4>2. Before(sent[i], sent[j])
        BY <1>1, <3>5, <4>1 DEF OrderInv, InLine, Ordered
      <4>3. sent[i].offset \in Nat /\ sent[i].datagram.id \in Nat
        BY <3>1, <3>2, PacketFields, DatagramFields
      <4>4. QED
        BY <4>2, <4>3 DEF Before
    <3>6. \A i, j \in own : i # j => i < j \/ j < i
      <4>1. own \subseteq Nat
        BY <1>1, LenProperties DEF OrderInv, InLine
      <4> HIDE DEF own
      <4>2. QED
        BY <4>1
    <3>7. { sent[i] : i \in own } = ToSet(PacketsOf(d))
      BY <3>3, <3>4
    <3>8. \A i, j \in own : sent[i] = sent[j] => i = j
      BY <3>5, <3>6
    <3>9. QED
      BY <3>7, <3>8 DEF SentInFull
  <2>2. QED
    BY <2>1 DEF SentWhole
<1>2. QED
  BY <1>1, OrderInductive, PTL

=============================================================================
