------------------------------ MODULE RdmaProofs ----------------------------
(***************************************************************************)
(* What is proved of module RdmaSystem, for any hosts, lengths, ports, MTU *)
(* and bounds.  Three parts: the operators of Rdma and RdmaFragBuf with    *)
(* the types, the accounting of receptions, and delivery in order.         *)
(***************************************************************************)
EXTENDS RdmaSystem, FiniteSetTheorems, SequenceTheorems, TLAPS

-----------------------------------------------------------------------------
(***************************************************************************)
(* Facts about the operators of modules Rdma and RdmaFragBuf, for every    *)
(* header length, maximum message size and fragment unit.                  *)
(***************************************************************************)

(* A fragment carries at least one byte.                                   *)
LEMMA FragmentLengthPositive == FragmentLength \in Nat /\ FragmentLength > 0
<1> DEFINE room == RDMA_MAX_MESSAGE_SIZE - RDMA_HEADER_LENGTH
<1>1. room \in Nat /\ room >= FragmentUnit /\ FragmentUnit \in Nat \ {0}
  BY RdmaAssumption
<1>2. room \div FragmentUnit \in Nat /\ room \div FragmentUnit >= 1
  BY <1>1
<1>3. \A x, y \in Nat : x >= 1 /\ y >= 1 => x * y \in Nat /\ x * y >= 1
  OBVIOUS
<1>4. QED
  BY <1>1, <1>2, <1>3 DEF FragmentLength

(* The fragment offset below a byte is a multiple of the fragment length.  *)
LEMMA RoundDown ==
  ASSUME NEW i \in Nat, NEW n \in Nat, n > 0
  PROVE  /\ i % n \in 0 .. n - 1
         /\ i - (i % n) \in 0 .. i
         /\ (i - (i % n)) % n = 0
<1>1. i % n \in 0 .. n - 1 /\ i = n * (i \div n) + (i % n) /\ i \div n \in Int
  OBVIOUS
<1>2. i - (i % n) = n * (i \div n)
  BY <1>1
<1>3. i % n <= i
  OBVIOUS
<1>4. \A q \in Int : (n * q) % n = 0
  OBVIOUS
<1>5. QED
  BY <1>1, <1>2, <1>3, <1>4

-----------------------------------------------------------------------------
(***************************************************************************)
(* Types.                                                                  *)
(***************************************************************************)

(* The header of an unfragmented message.                                  *)
LEMMA WholePacketShape ==
  ASSUME NEW m
  PROVE  WholePacket(m).hdr =
           [ srcPort          |-> m.srcPort,
             destPort         |-> m.destPort,
             identification   |-> m.id % IdModulus,
             totalLengthField |-> RDMA_HEADER_LENGTH + m.len,
             fragmentOffset   |-> 0,
             moreFragments    |-> FALSE ]
BY DEF WholePacket, MessageHeader, RdmaHeader

(* The header of a fragment: its identification is 0 whatever the message. *)
LEMMA FragmentShape ==
  ASSUME NEW m, NEW offset
  PROVE  Fragment(m, offset).hdr =
           [ srcPort          |-> m.srcPort,
             destPort         |-> m.destPort,
             identification   |-> 0,
             totalLengthField |-> RDMA_HEADER_LENGTH
                                    + ThisFragmentLength(PayloadLength(m), offset),
             fragmentOffset   |-> 0 + offset,
             moreFragments    |-> ~IsLastFragment(PayloadLength(m), offset) ]
BY DEF Fragment, Dup, MessageHeader, RdmaHeader

(* Every packet handleUpperPacket makes of a message is well formed: its   *)
(* identification fits 16 bits and no length or offset is negative.        *)
LEMMA HandleUpperPacketType ==
  ASSUME NEW m \in Message
  PROVE  HandleUpperPacket(m) \subseteq Packet
<1> DEFINE H == MessageHeader(m)
<1>1. m.len \in Nat /\ m.srcPort \in Ports /\ m.destPort \in Ports /\ m.id \in Nat
  BY SystemAssumption DEF Message
<1>2. RDMA_HEADER_LENGTH \in Nat /\ FragmentLength \in Nat
  BY RdmaAssumption, FragmentLengthPositive
<1>3. m.id % IdModulus \in 0 .. IdModulus - 1 /\ 0 \in 0 .. IdModulus - 1
  BY <1>1, RdmaAssumption
<1>4. CASE ~NeedsFragmentation(m)
  <2> DEFINE total == RDMA_HEADER_LENGTH + m.len
  <2>0. total \in Nat
    BY <1>1, <1>2
  <2> HIDE DEF total
  <2>1. [ srcPort |-> m.srcPort, destPort |-> m.destPort,
          identification |-> m.id % IdModulus, totalLengthField |-> total,
          fragmentOffset |-> 0, moreFragments |-> FALSE ] \in Header
    BY <1>1, <1>3, <2>0 DEF Header
  <2>2. WholePacket(m) \in Packet
    BY <1>1, <2>1, WholePacketShape DEF WholePacket, Packet, total
  <2>3. QED
    BY <1>4, <2>2 DEF HandleUpperPacket
<1>5. CASE NeedsFragmentation(m)
  <2>1. PayloadLength(m) \in Nat
    BY <1>1, <1>5, RdmaAssumption DEF NeedsFragmentation, PayloadLength
  <2>2. ASSUME NEW offset \in Offsets(PayloadLength(m))
        PROVE  Fragment(m, offset) \in Packet
    <3> DEFINE n == ThisFragmentLength(PayloadLength(m), offset)
    <3>1. offset \in Nat /\ n \in Nat
      BY <1>2, <2>1 DEF Offsets, ThisFragmentLength
    <3>2. IsLastFragment(PayloadLength(m), offset) \in BOOLEAN
      BY DEF IsLastFragment
    <3>3. Fragment(m, offset).hdr \in Header
      <4>1. [ srcPort |-> m.srcPort, destPort |-> m.destPort, identification |-> 0,
              totalLengthField |-> RDMA_HEADER_LENGTH + n, fragmentOffset |-> 0 + offset,
              moreFragments |-> ~IsLastFragment(PayloadLength(m), offset) ] \in Header
        BY <1>1, <1>2, <1>3, <3>1, <3>2 DEF Header
      <4>2. QED
        BY <4>1, FragmentShape
    <3>4. QED
      BY <1>2, <3>1, <3>3 DEF Fragment, Packet
  <2>3. QED
    BY <1>5, <2>2 DEF HandleUpperPacket
<1>6. QED
  BY <1>4, <1>5

(* The datagrams of a packet are well formed.                              *)
LEMMA Ipv4DatagramsType ==
  ASSUME NEW p \in Packet
  PROVE  Ipv4Datagrams(p) \subseteq Datagram
BY DEF Ipv4Datagrams, Ipv4Offsets, Datagram

(* The message that sendPacket makes is well formed.                       *)
LEMMA NewMessageType ==
  ASSUME TypeOK, NEW h \in Hosts, NEW dst \in DestAddresses[h], NEW len \in Lengths,
         NEW srcPort \in ResolvedPort(LocalPort[h]),
         NEW destPort \in ResolvedPort(DestPort[h])
  PROVE  NewMessage(h, dst, len, srcPort, destPort) \in Message
<1>1. dst \in Hosts
  BY SystemAssumption
<1>2. LocalPort[h] \in -1 .. MaxPort /\ DestPort[h] \in -1 .. MaxPort
  BY SystemAssumption
<1>3. srcPort \in Ports /\ destPort \in Ports
  BY <1>2, SystemAssumption DEF ResolvedPort, Ports
<1>4. ModuleId[h] * 10 + rdmaNumSent[h] \in Nat /\ numSent[h] \in Nat
  BY SystemAssumption DEF TypeOK
<1>5. QED
  BY <1>1, <1>3, <1>4 DEF NewMessage, Message

(* The key of a packet is well formed.                                     *)
LEMMA KeyType ==
  ASSUME NEW p \in Packet
  PROVE  Key(p) \in BufferKey
BY DEF Packet, Header, Key, BufferKey

(* addFragment adds no other key than that of its packet.                  *)
LEMMA AddFragmentDomain ==
  ASSUME NEW bufs, NEW p
  PROVE  DOMAIN AddFragment(bufs, p) =
           IF IsComplete(Reassembly(bufs, p)) THEN DOMAIN bufs \ {Key(p)}
                                              ELSE DOMAIN bufs \cup {Key(p)}
BY DEF AddFragment

(* What addFragment stores in a buffer.                                    *)
LEMMA AddFragmentValue ==
  ASSUME NEW bufs, NEW p
  PROVE  \A key \in DOMAIN AddFragment(bufs, p) :
           AddFragment(bufs, p)[key] = IF key = Key(p) THEN Reassembly(bufs, p)
                                                       ELSE bufs[key]
BY DEF AddFragment

(* The expected length stays an integer.                                   *)
LEMMA ReassemblyLength ==
  ASSUME NEW bufs, NEW p \in Packet,
         \A key \in DOMAIN bufs : bufs[key].expectedLength \in Int
  PROVE  Reassembly(bufs, p).expectedLength \in Int
<1>1. p.hdr.fragmentOffset \in Int /\ p.hdr.totalLengthField - RDMA_HEADER_LENGTH \in Int
  BY RdmaAssumption DEF Packet, Header
<1>2. CurBuf(bufs, Key(p)).expectedLength \in Int
  BY DEF CurBuf, NewDatagramBuffer
<1>3. QED
  BY <1>1, <1>2 DEF Reassembly, WithFragment

(* The initial values have their types.                                    *)
LEMMA InitType == Init => TypeOK
<1> USE SystemAssumption DEF Init
<1>1. Init => /\ operationalState \in [Hosts -> {"OPERATING", "STOPPING_OPERATION", "NOT_OPERATING"}]
              /\ selfMsg \in [Hosts -> {"NONE", "START", "SEND", "STOP"}]
  OBVIOUS
<1>2. Init => /\ numSent \in [Hosts -> Nat] /\ rdmaNumSent \in [Hosts -> Nat]
              /\ numReceived \in [Hosts -> Nat]
              /\ losses \in 0 .. MaxLosses /\ lifecycleOps \in 0 .. MaxLifecycle
  OBVIOUS
<1>3. Init => /\ DOMAIN fragbufRdma = Hosts
              /\ \A h \in Hosts : DOMAIN fragbufRdma[h] \subseteq BufferKey
              /\ \A h \in Hosts : \A key \in DOMAIN fragbufRdma[h] :
                   fragbufRdma[h][key].expectedLength \in Int
  BY DEF NoBuffers
<1>4. Init => /\ network \subseteq Datagram /\ fragbufIpv4 \in [Hosts -> SUBSET Datagram]
              /\ failed \in BOOLEAN /\ sent \subseteq Message /\ arrived \subseteq Packet
              /\ DOMAIN delivered = Hosts
  OBVIOUS
<1>5. QED
  BY <1>1, <1>2, <1>3, <1>4 DEF TypeOK

(* Sending keeps the types.                                                *)
LEMMA ProcessSendTypeOK ==
  ASSUME TypeOK, NEW h \in Hosts, ProcessSend(h)
  PROVE  TypeOK'
<1>1. PICK dst \in DestAddresses[h], len \in Lengths,
           srcPort \in ResolvedPort(LocalPort[h]), destPort \in ResolvedPort(DestPort[h]) :
        /\ IF destPort = 0 THEN Refused
                           ELSE Accepted(NewMessage(h, dst, len, srcPort, destPort))
        /\ numSent' = [numSent EXCEPT ![h] = @ + 1]
  BY DEF ProcessSend, SendPacket
<1> DEFINE m == NewMessage(h, dst, len, srcPort, destPort)
<1>2. m \in Message /\ m.src = h
  BY NewMessageType DEF NewMessage
<1>3. /\ rdmaNumSent' \in [Hosts -> Nat]
      /\ network' \subseteq Datagram
      /\ sent' \subseteq Message
      /\ failed' \in BOOLEAN
  <2>1. CASE Refused
    BY <2>1 DEF Refused, TypeOK
  <2>2. CASE Accepted(m)
    <3>1. \A p \in HandleUpperPacket(m) : Ipv4Datagrams(p) \subseteq Datagram
      BY <1>2, HandleUpperPacketType, Ipv4DatagramsType
    <3>2. QED
      BY <1>2, <2>2, <3>1 DEF Accepted, TypeOK
  <2>3. QED
    BY <1>1, <2>1, <2>2
<1>4. numSent' \in [Hosts -> Nat]
  BY <1>1 DEF TypeOK
<1>5. selfMsg' \in [Hosts -> {"NONE", "START", "SEND", "STOP"}]
  BY DEF ProcessSend, TypeOK
<1>6. QED
  BY <1>3, <1>4, <1>5 DEF ProcessSend, TypeOK, bounds

(* Counting a reception keeps the types of the two variables it changes.   *)
LEMMA CountReceptionType ==
  ASSUME TypeOK, NEW h \in Hosts, NEW packet, NEW content,
         CountReception(h, packet, content)
  PROVE  numReceived' \in [Hosts -> Nat] /\ DOMAIN delivered' = Hosts
<1>1. numReceived' \in [Hosts -> Nat]
  BY DEF CountReception, TypeOK
<1>2. DOMAIN delivered' = Hosts
  BY DEF CountReception, TypeOK
<1>3. QED
  BY <1>1, <1>2

(* Receiving keeps the types.                                              *)
LEMMA ReceiveTypeOK ==
  ASSUME TypeOK, NEW h \in Hosts, Receive(h)
  PROVE  TypeOK'
<1>1. PICK d \in network : /\ network' = network \ {d}
                           /\ ProcessPacket(h, d)
                           /\ UNCHANGED <<appVars, rdmaNumSent, failed, sent, bounds>>
  BY DEF Receive
<1>2. d \in Datagram /\ d.pkt \in Packet /\ Key(d.pkt) \in BufferKey
  BY KeyType DEF TypeOK, Datagram
<1>3. fragbufIpv4' \in [Hosts -> SUBSET Datagram] /\ arrived' \subseteq Packet
  BY <1>1, <1>2 DEF ProcessPacket, TypeOK
<1>4. CASE CompletesIpv4(h, d) /\ IsRdmaFragment(d.pkt)
  <2>1. fragbufRdma' = [fragbufRdma EXCEPT ![h] = AddFragment(@, d.pkt)]
    BY <1>1, <1>4 DEF ProcessPacket, ProcessRdma
  <2>2. /\ DOMAIN fragbufRdma' = Hosts
        /\ \A g \in Hosts : DOMAIN fragbufRdma'[g] \subseteq BufferKey
    <3>1. DOMAIN AddFragment(fragbufRdma[h], d.pkt) \subseteq BufferKey
      <4>1. DOMAIN fragbufRdma[h] \subseteq BufferKey
        BY DEF TypeOK
      <4>2. QED
        BY <1>2, <4>1, AddFragmentDomain
    <3>2. DOMAIN fragbufRdma = Hosts /\ \A g \in Hosts : DOMAIN fragbufRdma[g] \subseteq BufferKey
      BY DEF TypeOK
    <3>3. QED
      BY <2>1, <3>1, <3>2
  <2>3. \A g \in Hosts : \A key \in DOMAIN fragbufRdma'[g] :
          fragbufRdma'[g][key].expectedLength \in Int
    <3>1. \A g \in Hosts : \A key \in DOMAIN fragbufRdma[g] :
            fragbufRdma[g][key].expectedLength \in Int
      BY DEF TypeOK
    <3>2. Reassembly(fragbufRdma[h], d.pkt).expectedLength \in Int
      BY <1>2, <3>1, ReassemblyLength
    <3>3. \A key \in DOMAIN AddFragment(fragbufRdma[h], d.pkt) :
            /\ key = Key(d.pkt) \/ key \in DOMAIN fragbufRdma[h]
            /\ AddFragment(fragbufRdma[h], d.pkt)[key] =
                 IF key = Key(d.pkt) THEN Reassembly(fragbufRdma[h], d.pkt)
                                     ELSE fragbufRdma[h][key]
      <4> DEFINE bufs == fragbufRdma[h]
      <4> HIDE DEF bufs
      <4>1. \A key \in DOMAIN AddFragment(bufs, d.pkt) : key = Key(d.pkt) \/ key \in DOMAIN bufs
        BY AddFragmentDomain
      <4>2. \A key \in DOMAIN AddFragment(bufs, d.pkt) :
              AddFragment(bufs, d.pkt)[key] =
                IF key = Key(d.pkt) THEN Reassembly(bufs, d.pkt) ELSE bufs[key]
        BY AddFragmentValue
      <4>3. QED
        BY <4>1, <4>2 DEF bufs
    <3>4. \A key \in DOMAIN AddFragment(fragbufRdma[h], d.pkt) :
            AddFragment(fragbufRdma[h], d.pkt)[key].expectedLength \in Int
      BY <3>1, <3>2, <3>3
    <3>5. DOMAIN fragbufRdma = Hosts
      BY DEF TypeOK
    <3>6. \A g \in Hosts : fragbufRdma'[g] = IF g = h THEN AddFragment(fragbufRdma[h], d.pkt)
                                                      ELSE fragbufRdma[g]
      BY <2>1, <3>5
    <3>7. QED
      BY <3>1, <3>4, <3>6
  <2>4. numReceived' \in [Hosts -> Nat] /\ DOMAIN delivered' = Hosts
    <3> DEFINE buf == Reassembly(fragbufRdma[h], d.pkt)
    <3>1. CASE CountReception(h, buf.packet, buf.bytes)
      BY <3>1, CountReceptionType
    <3>2. CASE UNCHANGED <<numReceived, delivered>>
      BY <3>2 DEF TypeOK
    <3>3. QED
      BY <1>1, <1>4, <3>1, <3>2 DEF ProcessPacket, ProcessRdma
  <2>5. QED
    BY <1>1, <1>3, <2>2, <2>3, <2>4 DEF TypeOK, appVars, bounds
<1>5. CASE CompletesIpv4(h, d) /\ ~IsRdmaFragment(d.pkt)
  <2>1. numReceived' \in [Hosts -> Nat] /\ DOMAIN delivered' = Hosts
    BY <1>1, <1>5, CountReceptionType DEF ProcessPacket, ProcessRdma
  <2>2. fragbufRdma' = fragbufRdma
    BY <1>1, <1>5 DEF ProcessPacket, ProcessRdma
  <2>3. QED
    BY <1>1, <1>3, <2>1, <2>2 DEF TypeOK, appVars, bounds
<1>6. CASE ~CompletesIpv4(h, d)
  BY <1>1, <1>3, <1>6 DEF ProcessPacket, TypeOK, appVars, bounds
<1>7. QED
  BY <1>4, <1>5, <1>6

(* Each action keeps the types.                                            *)
LEMMA NextType == TypeOK /\ [Next]_vars => TypeOK'
<1> SUFFICES ASSUME TypeOK, [Next]_vars
             PROVE  TypeOK'
  OBVIOUS
<1>1. ASSUME NEW h \in Hosts, HandleStart(h) \/ HandleSend(h)
      PROVE  TypeOK'
  BY <1>1, ProcessSendTypeOK DEF HandleStart, HandleSend
<1>2. ASSUME NEW h \in Hosts, HandleStartNoDestination(h) \/ HandleStop(h)
      PROVE  TypeOK'
  BY <1>2 DEF HandleStartNoDestination, HandleStop, TypeOK, history, bounds
<1>3. ASSUME NEW h \in Hosts, HandleStartOperation(h) \/ HandleActiveOperationTimeout(h)
      PROVE  TypeOK'
  BY <1>3 DEF HandleStartOperation, HandleActiveOperationTimeout, ChangeState, TypeOK, history
<1>4. ASSUME NEW h \in Hosts, HandleStopOperation(h) \/ HandleCrashOperation(h)
      PROVE  TypeOK'
  BY <1>4, SystemAssumption
  DEF HandleStopOperation, HandleCrashOperation, ChangeState, TypeOK, history
<1>5. ASSUME NEW h \in Hosts, Receive(h)
      PROVE  TypeOK'
  BY <1>5, ReceiveTypeOK
<1>6. CASE Lose
  BY <1>6, SystemAssumption DEF Lose, TypeOK, appVars, history
<1>7. CASE UNCHANGED vars
  BY <1>7 DEF vars, TypeOK, appVars, history, bounds
<1>8. QED
  BY <1>1, <1>2, <1>3, <1>4, <1>5, <1>6, <1>7 DEF Next, HostStep

(* The model is type correct for any hosts, lengths, ports and bounds; in  *)
(* particular every identification and every buffer key fits 16 bits.      *)
THEOREM TypeCorrect == Spec => []TypeOK
<1>1. QED
  BY InitType, NextType, PTL DEF Spec

-----------------------------------------------------------------------------
(***************************************************************************)
(* Fragmentation.                                                          *)
(***************************************************************************)

(* The multiple of n at or below x, no further away than n, is unique.     *)
LEMMA RoundDownUnique ==
  ASSUME NEW n \in Nat, n > 0, NEW x \in Nat, NEW o \in Nat,
         o % n = 0, o <= x, x < o + n
  PROVE  o = x - (x % n)
<1>1. o = n * (o \div n) /\ o \div n \in Int
  OBVIOUS
<1>2. x = n * (x \div n) + (x % n) /\ x \div n \in Int /\ x % n \in 0 .. n - 1
  OBVIOUS
<1>3. \A a, b \in Int, r \in 0 .. n - 1 :
        n * a <= n * b + r /\ n * b + r < n * a + n => a = b
  <2> SUFFICES ASSUME NEW a \in Int, NEW b \in Int, NEW r \in 0 .. n - 1,
                      n * a <= n * b + r, n * b + r < n * a + n
               PROVE  a = b
    OBVIOUS
  <2>1. \A c \in Int : c >= 1 => n * c >= n
    OBVIOUS
  <2>2. n * (b - a) = n * b - n * a /\ n * (a - b) = n * a - n * b
    OBVIOUS
  <2>3. ~(b - a >= 1)
    BY <2>1, <2>2
  <2>4. ~(a - b >= 1)
    BY <2>1, <2>2
  <2>5. QED
    BY <2>3, <2>4
<1> DEFINE q == o \div n
           u == x \div n
           r == x % n
<1>4. q \in Int /\ u \in Int /\ r \in 0 .. n - 1 /\ o = n * q /\ x = n * u + r
  BY <1>1, <1>2
<1> HIDE DEF q, u, r
<1>5. q = u
  <2>1. n * q <= n * u + r /\ n * u + r < n * q + n
    BY <1>4
  <2>2. QED
    BY <1>3, <1>4, <2>1
<1>6. o = n * u /\ x = o + r
  BY <1>4, <1>5
<1>7. QED
  BY <1>4, <1>6 DEF r

(* The fragment with byte x of the payload.                                *)
LEMMA FragmentOf ==
  ASSUME NEW m \in Message, NeedsFragmentation(m), NEW x \in 0 .. PayloadLength(m) - 1
  PROVE  LET offset == x - (x % FragmentLength)
             n == ThisFragmentLength(PayloadLength(m), offset)
         IN /\ offset \in Offsets(PayloadLength(m))
            /\ n \in Nat
            /\ offset <= x /\ x < offset + n
            /\ x = PayloadLength(m) - 1 <=>
                 IsLastFragment(PayloadLength(m), offset) /\ x = offset + n - 1
<1> DEFINE F == FragmentLength
           P == PayloadLength(m)
           offset == x - (x % F)
           n == ThisFragmentLength(P, offset)
<1>1. F \in Nat /\ F > 0
  BY FragmentLengthPositive
<1>2. P \in Nat /\ x \in Nat /\ x < P
  <2>1. m.len \in Nat
    BY SystemAssumption DEF Message
  <2>2. P \in Nat
    BY <2>1, RdmaAssumption DEF NeedsFragmentation, PayloadLength
  <2>3. QED
    BY <2>2
<1>3. x % F \in 0 .. F - 1 /\ offset \in 0 .. x /\ offset % F = 0
  BY <1>1, <1>2, RoundDown
<1>4. offset \in Offsets(P)
  <2>1. offset \in 0 .. P - 1 /\ offset % F = 0
    BY <1>2, <1>3
  <2>2. QED
    BY <2>1 DEF Offsets
<1>5. x < offset + F
  BY <1>1, <1>2, <1>3
<1>6. offset \in Nat /\ offset <= x
  BY <1>2, <1>3
<1> HIDE DEF F, P, offset
<1>7. n \in Nat /\ x < offset + n
  BY <1>1, <1>2, <1>5, <1>6 DEF ThisFragmentLength, IsLastFragment, F
<1>8. x = P - 1 <=> IsLastFragment(P, offset) /\ x = offset + n - 1
  BY <1>1, <1>2, <1>5, <1>6 DEF ThisFragmentLength, IsLastFragment, F
<1>9. QED
  BY <1>4, <1>6, <1>7, <1>8 DEF F, P, offset

(* No other fragment has that byte.                                        *)
LEMMA FragmentUnique ==
  ASSUME NEW m \in Message, NeedsFragmentation(m), NEW x \in Nat,
         NEW o \in Offsets(PayloadLength(m)),
         o <= x, x < o + ThisFragmentLength(PayloadLength(m), o)
  PROVE  o = x - (x % FragmentLength)
<1>1. FragmentLength \in Nat /\ FragmentLength > 0
  BY FragmentLengthPositive
<1>2. PayloadLength(m) \in Nat
  <2>1. m.len \in Nat
    BY SystemAssumption DEF Message
  <2>2. QED
    BY <2>1, RdmaAssumption DEF NeedsFragmentation, PayloadLength
<1>3. o \in Nat /\ o % FragmentLength = 0
  BY <1>2 DEF Offsets
<1>4. x < o + FragmentLength
  BY <1>1, <1>2, <1>3 DEF ThisFragmentLength, IsLastFragment
<1>5. QED
  BY <1>1, <1>3, <1>4, RoundDownUnique

(* The fragments of any message that handleUpperPacket cuts tile it from   *)
(* byte RDMA_HEADER_LENGTH on, and MORE is off only at its last byte: for  *)
(* every message length, maximum message size and fragment unit.           *)
THEOREM FragmentsTileHolds == Spec => []FragmentsTile
<1>1. TypeOK => FragmentsTile
  <2> SUFFICES ASSUME TypeOK, NEW m \in sent, NeedsFragmentation(m),
                      NEW i \in RDMA_HEADER_LENGTH .. m.len - 1
               PROVE  \E p \in HandleUpperPacket(m) :
                        /\ i \in p.from .. p.from + p.len - 1
                        /\ i = m.len - 1 <=> ~p.hdr.moreFragments /\ i = p.from + p.len - 1
                        /\ \A q \in HandleUpperPacket(m) \ {p} :
                             i \notin q.from .. q.from + q.len - 1
    BY DEF FragmentsTile
  <2> DEFINE H == RDMA_HEADER_LENGTH
             P == PayloadLength(m)
             x == i - H
             offset == x - (x % FragmentLength)
             n == ThisFragmentLength(P, offset)
             p == Fragment(m, offset)
  <2>1. m \in Message /\ m.len \in Nat /\ H \in Nat
    BY SystemAssumption, RdmaAssumption DEF TypeOK, Message
  <2>2. P = m.len - H /\ x \in 0 .. P - 1 /\ i = H + x /\ i \in Int /\ x \in Nat /\ P \in Int
    BY <2>1 DEF PayloadLength
  <2>3. /\ offset \in Offsets(P) /\ n \in Nat /\ offset <= x /\ x < offset + n
        /\ x = P - 1 <=> IsLastFragment(P, offset) /\ x = offset + n - 1
    BY <2>1, <2>2, FragmentOf
  <2>4. offset \in Int
    BY <2>2, FragmentLengthPositive
  <2>5. p \in HandleUpperPacket(m)
    BY <2>3 DEF HandleUpperPacket
  <2>6. p.from = H + offset /\ p.len = n
    BY DEF Fragment
  <2>7. p.hdr.moreFragments = ~IsLastFragment(P, offset)
    BY DEF Fragment, Dup, MessageHeader, RdmaHeader
  <2>8. ASSUME NEW q \in HandleUpperPacket(m) \ {p}, i \in q.from .. q.from + q.len - 1
        PROVE  FALSE
    <3>1. PICK o \in Offsets(P) : q = Fragment(m, o)
      BY DEF HandleUpperPacket
    <3> DEFINE k == ThisFragmentLength(P, o)
    <3>2. q.from = H + o /\ q.len = k
      BY <3>1 DEF Fragment
    <3>3. o \in Int /\ k \in Int
      BY <2>2, FragmentLengthPositive DEF Offsets, ThisFragmentLength
    <3> HIDE DEF H, P, x, offset, n, p, k
    <3>4. o <= x /\ x < o + k
      BY <2>1, <2>2, <2>8, <3>2, <3>3
    <3>5. o = offset
      BY <2>1, <2>2, <3>4, FragmentUnique DEF P, k, offset
    <3>6. QED
      BY <2>8, <3>1, <3>5 DEF p
  <2> HIDE DEF H, P, x, offset, n, p
  <2>9. i \in p.from .. p.from + p.len - 1
    BY <2>1, <2>2, <2>3, <2>4, <2>6
  <2>10. i = m.len - 1 <=> x = P - 1
    BY <2>1, <2>2
  <2>11. i = p.from + p.len - 1 <=> x = offset + n - 1
    BY <2>1, <2>2, <2>3, <2>4, <2>6
  <2>12. i = m.len - 1 <=> ~p.hdr.moreFragments /\ i = p.from + p.len - 1
    BY <2>3, <2>7, <2>10, <2>11
  <2>13. QED
    BY <2>5, <2>8, <2>9, <2>12
<1>2. QED
  BY <1>1, TypeCorrect, PTL

-----------------------------------------------------------------------------
(***************************************************************************)
(* An application never counts more receptions than messages were sent to  *)
(* it, whatever is lost, interleaved or mixed up in the reassembly: the    *)
(* inductive invariant ReceptionAccounting of RdmaSystem, for any hosts,   *)
(* lengths, ports, MTU and bounds.                                         *)
(***************************************************************************)

(* The keys of bufs whose buffer holds byte 0, and those whose length is   *)
(* known.                                                                  *)
Heads(bufs) == { key \in DOMAIN bufs : 0 \in DOMAIN bufs[key].bytes }
Tails(bufs) == { key \in DOMAIN bufs : bufs[key].expectedLength # -1 }

(* Of the buffers of addFragment: a completed datagram takes its key away, *)
(* and byte 0 came with this packet or was there before; an incomplete one *)
(* gains byte 0 only from a packet of offset 0.                            *)
LEMMA AddFragmentHeads ==
  ASSUME NEW bufs, NEW p \in Packet,
         \A key \in DOMAIN bufs : bufs[key].expectedLength \in Int
  PROVE  /\ IsComplete(Reassembly(bufs, p)) =>
              /\ Heads(AddFragment(bufs, p)) = Heads(bufs) \ {Key(p)}
              /\ p.hdr.fragmentOffset = 0 \/ Key(p) \in Heads(bufs)
         /\ ~IsComplete(Reassembly(bufs, p)) =>
              /\ Heads(AddFragment(bufs, p)) \subseteq Heads(bufs) \cup {Key(p)}
              /\ p.hdr.fragmentOffset # 0 =>
                   Heads(AddFragment(bufs, p)) \subseteq Heads(bufs)
<1> DEFINE k == Key(p)
           buf == Reassembly(bufs, p)
           off == p.hdr.fragmentOffset
           n == p.hdr.totalLengthField - RDMA_HEADER_LENGTH
<1>1. off \in Nat /\ n \in Int
  BY RdmaAssumption DEF Packet, Header
<1>2. DOMAIN buf.bytes = DOMAIN CurBuf(bufs, k).bytes \cup (off .. off + n - 1)
  BY DEF Reassembly, WithFragment, Replace
<1>3. 0 \in DOMAIN CurBuf(bufs, k).bytes => k \in Heads(bufs)
  BY DEF CurBuf, NewDatagramBuffer, Heads
<1>4. 0 \in DOMAIN buf.bytes => off = 0 \/ k \in Heads(bufs)
  <2> HIDE DEF buf, k, off, n
  <2>1. 0 \in off .. off + n - 1 => off = 0
    BY <1>1
  <2>2. QED
    BY <1>2, <1>3, <2>1
<1>5. CASE IsComplete(buf)
  <2>1. 0 \in DOMAIN buf.bytes
    <3>1. buf.expectedLength \in Int
      BY ReassemblyLength
    <3>2. buf.expectedLength > 0 /\ DOMAIN buf.bytes = 0 .. buf.expectedLength - 1
      BY <1>5 DEF IsComplete
    <3>3. QED
      BY <3>1, <3>2
  <2>2. AddFragment(bufs, p) = [key \in DOMAIN bufs \ {k} |-> bufs[key]]
    BY <1>5 DEF AddFragment
  <2>3. Heads(AddFragment(bufs, p)) = Heads(bufs) \ {k}
    BY <2>2 DEF Heads
  <2>4. QED
    BY <1>4, <1>5, <2>1, <2>3
<1>6. CASE ~IsComplete(buf)
  <2>1. AddFragment(bufs, p) = [key \in DOMAIN bufs \cup {k} |-> IF key = k THEN buf ELSE bufs[key]]
    BY <1>6 DEF AddFragment
  <2> HIDE DEF buf, k, off
  <2>2. Heads(AddFragment(bufs, p)) \subseteq Heads(bufs) \cup {k}
    BY <2>1 DEF Heads
  <2>3. ASSUME off # 0, NEW key \in Heads(AddFragment(bufs, p))
        PROVE  key \in Heads(bufs)
    <3>1. CASE key = k
      <4>1. 0 \in DOMAIN buf.bytes
        BY <2>1, <2>3, <3>1 DEF Heads
      <4>2. QED
        BY <1>4, <2>3, <3>1, <4>1
    <3>2. CASE key # k
      BY <2>2, <2>3, <3>2
    <3>3. QED
      BY <3>1, <3>2
  <2>4. QED
    BY <1>6, <2>2, <2>3 DEF buf, k, off
<1>7. QED
  BY <1>5, <1>6

(* The same of the expected length, which only a packet without MORE sets. *)
LEMMA AddFragmentTails ==
  ASSUME NEW bufs, NEW p \in Packet,
         \A key \in DOMAIN bufs : bufs[key].expectedLength \in Int
  PROVE  /\ IsComplete(Reassembly(bufs, p)) =>
              /\ Tails(AddFragment(bufs, p)) = Tails(bufs) \ {Key(p)}
              /\ ~p.hdr.moreFragments \/ Key(p) \in Tails(bufs)
         /\ ~IsComplete(Reassembly(bufs, p)) =>
              /\ Tails(AddFragment(bufs, p)) \subseteq Tails(bufs) \cup {Key(p)}
              /\ p.hdr.moreFragments => Tails(AddFragment(bufs, p)) \subseteq Tails(bufs)
<1> DEFINE k == Key(p)
           buf == Reassembly(bufs, p)
           more == p.hdr.moreFragments
<1>1. more => buf.expectedLength = CurBuf(bufs, k).expectedLength
  BY DEF Reassembly, WithFragment
<1>2. CurBuf(bufs, k).expectedLength # -1 => k \in Tails(bufs)
  BY DEF CurBuf, NewDatagramBuffer, Tails
<1>3. more /\ buf.expectedLength # -1 => k \in Tails(bufs)
  BY <1>1, <1>2
<1>4. CASE IsComplete(buf)
  <2>1. buf.expectedLength # -1
    <3>1. buf.expectedLength \in Int
      BY ReassemblyLength
    <3>2. buf.expectedLength > 0
      BY <1>4 DEF IsComplete
    <3>3. QED
      BY <3>1, <3>2
  <2>2. AddFragment(bufs, p) = [key \in DOMAIN bufs \ {k} |-> bufs[key]]
    BY <1>4 DEF AddFragment
  <2>3. Tails(AddFragment(bufs, p)) = Tails(bufs) \ {k}
    BY <2>2 DEF Tails
  <2>4. QED
    BY <1>3, <1>4, <2>1, <2>3
<1>5. CASE ~IsComplete(buf)
  <2>1. AddFragment(bufs, p) = [key \in DOMAIN bufs \cup {k} |-> IF key = k THEN buf ELSE bufs[key]]
    BY <1>5 DEF AddFragment
  <2> HIDE DEF buf, k, more
  <2>2. Tails(AddFragment(bufs, p)) \subseteq Tails(bufs) \cup {k}
    BY <2>1 DEF Tails
  <2>3. ASSUME more, NEW key \in Tails(AddFragment(bufs, p))
        PROVE  key \in Tails(bufs)
    <3>1. CASE key = k
      <4>1. buf.expectedLength # -1
        BY <2>1, <2>3, <3>1 DEF Tails
      <4>2. QED
        BY <1>3, <2>3, <3>1, <4>1
    <3>2. CASE key # k
      BY <2>2, <2>3, <3>2
    <3>3. QED
      BY <3>1, <3>2
  <2>4. QED
    BY <1>5, <2>2, <2>3 DEF buf, k, more
<1>6. QED
  BY <1>4, <1>5

-----------------------------------------------------------------------------
(***************************************************************************)
(* Counting.  n receptions, the keys K of the pending buffers and the      *)
(* packets A that arrived, when packet p arrives with key k.  A1 is A with *)
(* p if p is of the kind counted (a head, or a tail), otherwise A.         *)
(***************************************************************************)
LEMMA CountComplete ==
  ASSUME NEW n \in Nat, NEW K, IsFiniteSet(K), NEW A, IsFiniteSet(A),
         n + Cardinality(K) <= Cardinality(A),
         NEW k, NEW p, p \notin A, NEW A1,
         A1 = A \cup {p} \/ (A1 = A /\ k \in K)
  PROVE  n + 1 + Cardinality(K \ {k}) <= Cardinality(A1)
<1>1. Cardinality(K) \in Nat /\ Cardinality(A) \in Nat
  BY FS_CardinalityType
<1>2. Cardinality(A \cup {p}) = Cardinality(A) + 1
  BY FS_AddElement
<1>3. Cardinality(K \ {k}) = IF k \in K THEN Cardinality(K) - 1 ELSE Cardinality(K)
  BY FS_RemoveElement
<1>4. CASE A1 = A \cup {p}
  BY <1>1, <1>2, <1>3, <1>4
<1>5. CASE A1 = A /\ k \in K
  BY <1>1, <1>3, <1>5
<1>6. QED
  BY <1>4, <1>5

(* One more packet that arrived pays for one more buffer.                  *)
LEMMA CountPending ==
  ASSUME NEW n \in Nat, NEW K, IsFiniteSet(K), NEW A, IsFiniteSet(A),
         n + Cardinality(K) <= Cardinality(A),
         NEW k, NEW p, p \notin A, NEW K1, K1 \subseteq K \cup {k}, NEW A1,
         A1 = A \cup {p} \/ (A1 = A /\ K1 \subseteq K)
  PROVE  n + Cardinality(K1) <= Cardinality(A1)
<1>1. Cardinality(K) \in Nat /\ Cardinality(A) \in Nat
  BY FS_CardinalityType
<1>2. Cardinality(A \cup {p}) = Cardinality(A) + 1
  BY FS_AddElement
<1>3. /\ IsFiniteSet(K \cup {k})
      /\ Cardinality(K \cup {k}) = IF k \in K THEN Cardinality(K) ELSE Cardinality(K) + 1
  BY FS_AddElement
<1>4. IsFiniteSet(K1) /\ Cardinality(K1) <= Cardinality(K \cup {k})
  BY <1>3, FS_Subset
<1>5. Cardinality(K1) \in Nat
  BY <1>4, FS_CardinalityType
<1>6. CASE A1 = A \cup {p}
  BY <1>1, <1>2, <1>3, <1>4, <1>5, <1>6
<1>7. CASE A1 = A /\ K1 \subseteq K
  <2>1. Cardinality(K1) <= Cardinality(K)
    BY <1>7, FS_Subset
  <2>2. QED
    BY <1>1, <1>5, <1>7, <2>1
<1>8. QED
  BY <1>6, <1>7

-----------------------------------------------------------------------------
(***************************************************************************)
(* The invariant.                                                          *)
(***************************************************************************)

(* The per-host part of ReceptionAccounting.                               *)
Balance(h) ==
  /\ IsFiniteSet(DOMAIN fragbufRdma[h])
  /\ numReceived[h] + Cardinality(HeadKeys(h)) <= Cardinality(ArrivedHeads(h))
  /\ numReceived[h] + Cardinality(TailKeys(h)) <= Cardinality(ArrivedTails(h))

(* The packets of a message name it.                                       *)
LEMMA PacketsOfMessage ==
  ASSUME NEW m, NEW p \in HandleUpperPacket(m)
  PROVE  p.msg = m
<1>1. WholePacket(m).msg = m
  BY DEF WholePacket
<1>2. \A offset : Fragment(m, offset).msg = m
  BY DEF Fragment
<1>3. QED
  BY <1>1, <1>2 DEF HandleUpperPacket

(* A packet whose IPv4 fragments have all arrived has none in flight, so   *)
(* it cannot arrive again.                                                 *)
LEMMA NoneLeft ==
  ASSUME ReceptionAccounting, NEW h \in Hosts, NEW d \in network,
         d.pkt.msg.dst = h, CompletesIpv4(h, d), NEW c \in network \ {d}
  PROVE  c.pkt # d.pkt
<1> SUFFICES ASSUME c.pkt = d.pkt
             PROVE  FALSE
  OBVIOUS
<1>1. c \in Ipv4Datagrams(d.pkt) /\ c \notin fragbufIpv4[h]
  BY DEF ReceptionAccounting
<1>2. c \in Gathered(h, d)
  BY <1>1 DEF CompletesIpv4
<1>3. QED
  BY <1>1, <1>2 DEF Gathered

(* What the arrival of p changes for the hosts' histories.                 *)
LEMMA ArrivalHistories ==
  ASSUME NEW p, arrived' = arrived \cup {p}, NEW h \in Hosts
  PROVE  /\ ArrivedHeads(h)' = IF p.msg.dst = h /\ p.hdr.fragmentOffset = 0
                                 THEN ArrivedHeads(h) \cup {p} ELSE ArrivedHeads(h)
         /\ ArrivedTails(h)' = IF p.msg.dst = h /\ ~p.hdr.moreFragments
                                 THEN ArrivedTails(h) \cup {p} ELSE ArrivedTails(h)
BY DEF ArrivedHeads, ArrivedTails

(* Heads and tails are finite where the buffers and the history are.       *)
LEMMA FiniteCounts ==
  ASSUME ReceptionAccounting, NEW h \in Hosts
  PROVE  /\ IsFiniteSet(HeadKeys(h)) /\ IsFiniteSet(TailKeys(h))
         /\ IsFiniteSet(ArrivedHeads(h)) /\ IsFiniteSet(ArrivedTails(h))
<1>1. IsFiniteSet(DOMAIN fragbufRdma[h]) /\ IsFiniteSet(arrived)
  BY DEF ReceptionAccounting
<1>2. /\ HeadKeys(h) \subseteq DOMAIN fragbufRdma[h]
      /\ TailKeys(h) \subseteq DOMAIN fragbufRdma[h]
      /\ ArrivedHeads(h) \subseteq arrived
      /\ ArrivedTails(h) \subseteq arrived
  BY DEF HeadKeys, TailKeys, ArrivedHeads, ArrivedTails
<1>3. QED
  BY <1>1, <1>2, FS_Subset

(* ProcessRdma keeps the balance of its host.                              *)
LEMMA ProcessRdmaBalance ==
  ASSUME TypeOK, ReceptionAccounting, NEW h \in Hosts, NEW p \in Packet,
         p.msg.dst = h, p \notin arrived, arrived' = arrived \cup {p}, ProcessRdma(h, p)
  PROVE  \A g \in Hosts : Balance(g)'
<1> DEFINE n == numReceived[h]
           bufs == fragbufRdma[h]
<1>1. /\ n \in Nat /\ DOMAIN fragbufRdma = Hosts /\ numReceived \in [Hosts -> Nat]
      /\ \A key \in DOMAIN bufs : bufs[key].expectedLength \in Int
  BY DEF TypeOK
<1>2. /\ IsFiniteSet(DOMAIN bufs)
      /\ n + Cardinality(HeadKeys(h)) <= Cardinality(ArrivedHeads(h))
      /\ n + Cardinality(TailKeys(h)) <= Cardinality(ArrivedTails(h))
  BY DEF ReceptionAccounting
<1>3. p \notin ArrivedHeads(h) /\ p \notin ArrivedTails(h)
  BY DEF ArrivedHeads, ArrivedTails
<1>4. HeadKeys(h) = Heads(bufs) /\ TailKeys(h) = Tails(bufs)
  BY DEF HeadKeys, TailKeys, Heads, Tails
<1>5. p.hdr.fragmentOffset \in Nat /\ p.hdr.moreFragments \in BOOLEAN
  BY DEF Packet, Header
<1>6. ASSUME NEW g \in Hosts, g # h
      PROVE  Balance(g)'
  <2>1. fragbufRdma'[g] = fragbufRdma[g] /\ numReceived'[g] = numReceived[g]
    BY <1>1, <1>6 DEF ProcessRdma, CountReception
  <2>2. ArrivedHeads(g)' = ArrivedHeads(g) /\ ArrivedTails(g)' = ArrivedTails(g)
    BY <1>6, ArrivalHistories
  <2>3. HeadKeys(g)' = HeadKeys(g) /\ TailKeys(g)' = TailKeys(g)
    BY <2>1 DEF HeadKeys, TailKeys
  <2>4. Balance(g)
    BY DEF ReceptionAccounting, Balance
  <2>5. QED
    BY <2>1, <2>2, <2>3, <2>4 DEF Balance
<1>7. ArrivedHeads(h)' = IF p.hdr.fragmentOffset = 0 THEN ArrivedHeads(h) \cup {p} ELSE ArrivedHeads(h)
  BY ArrivalHistories
<1>8. ArrivedTails(h)' = IF ~p.hdr.moreFragments THEN ArrivedTails(h) \cup {p} ELSE ArrivedTails(h)
  BY ArrivalHistories
<1>9. Balance(h)'
  <2>1. CASE ~IsRdmaFragment(p)
    <3>1. fragbufRdma' = fragbufRdma /\ numReceived'[h] = n + 1
      BY <1>1, <2>1 DEF ProcessRdma, CountReception
    <3>2. HeadKeys(h)' = HeadKeys(h) /\ TailKeys(h)' = TailKeys(h)
      BY <3>1 DEF HeadKeys, TailKeys
    <3>3. ArrivedHeads(h)' = ArrivedHeads(h) \cup {p} /\ ArrivedTails(h)' = ArrivedTails(h) \cup {p}
      BY <1>7, <1>8, <2>1 DEF IsRdmaFragment
    <3>4. /\ Cardinality(ArrivedHeads(h) \cup {p}) = Cardinality(ArrivedHeads(h)) + 1
          /\ Cardinality(ArrivedTails(h) \cup {p}) = Cardinality(ArrivedTails(h)) + 1
      BY <1>3, FiniteCounts, FS_AddElement
    <3>5. /\ Cardinality(ArrivedHeads(h)) \in Nat /\ Cardinality(ArrivedTails(h)) \in Nat
          /\ Cardinality(HeadKeys(h)) \in Nat /\ Cardinality(TailKeys(h)) \in Nat
      BY FiniteCounts, FS_CardinalityType
    <3>6. QED
      BY <1>1, <1>2, <3>1, <3>2, <3>3, <3>4, <3>5 DEF Balance
  <2>2. CASE IsRdmaFragment(p)
    <3> DEFINE bufs1 == AddFragment(bufs, p)
    <3>1. fragbufRdma'[h] = bufs1
      BY <1>1, <2>2 DEF ProcessRdma
    <3>2. HeadKeys(h)' = Heads(bufs1) /\ TailKeys(h)' = Tails(bufs1)
      BY <3>1 DEF HeadKeys, TailKeys, Heads, Tails
    <3>3. IsFiniteSet(DOMAIN bufs1)
      <4>1. DOMAIN bufs1 = DOMAIN bufs \ {Key(p)} \/ DOMAIN bufs1 = DOMAIN bufs \cup {Key(p)}
        BY AddFragmentDomain
      <4>2. QED
        BY <1>2, <4>1, FS_AddElement, FS_RemoveElement
    <3>4. CASE IsComplete(Reassembly(bufs, p))
      <4>1. numReceived'[h] = n + 1
        BY <1>1, <2>2, <3>4 DEF ProcessRdma, CountReception
      <4>2. /\ Heads(bufs1) = Heads(bufs) \ {Key(p)}
            /\ p.hdr.fragmentOffset = 0 \/ Key(p) \in Heads(bufs)
        BY <1>1, <3>4, AddFragmentHeads
      <4>3. /\ Tails(bufs1) = Tails(bufs) \ {Key(p)}
            /\ ~p.hdr.moreFragments \/ Key(p) \in Tails(bufs)
        BY <1>1, <3>4, AddFragmentTails
      <4>4. n + 1 + Cardinality(HeadKeys(h) \ {Key(p)}) <= Cardinality(ArrivedHeads(h)')
        <5>1. \/ ArrivedHeads(h)' = ArrivedHeads(h) \cup {p}
              \/ ArrivedHeads(h)' = ArrivedHeads(h) /\ Key(p) \in HeadKeys(h)
          BY <1>4, <1>7, <4>2
        <5>2. QED
          BY <1>1, <1>2, <1>3, <5>1, FiniteCounts, CountComplete
      <4>5. n + 1 + Cardinality(TailKeys(h) \ {Key(p)}) <= Cardinality(ArrivedTails(h)')
        <5>1. \/ ArrivedTails(h)' = ArrivedTails(h) \cup {p}
              \/ ArrivedTails(h)' = ArrivedTails(h) /\ Key(p) \in TailKeys(h)
          BY <1>4, <1>8, <4>3
        <5>2. QED
          BY <1>1, <1>2, <1>3, <5>1, FiniteCounts, CountComplete
      <4>6. QED
        BY <1>4, <3>1, <3>2, <3>3, <4>1, <4>2, <4>3, <4>4, <4>5 DEF Balance
    <3>5. CASE ~IsComplete(Reassembly(bufs, p))
      <4>1. numReceived' = numReceived
        BY <2>2, <3>5 DEF ProcessRdma
      <4>2. /\ Heads(bufs1) \subseteq Heads(bufs) \cup {Key(p)}
            /\ p.hdr.fragmentOffset # 0 => Heads(bufs1) \subseteq Heads(bufs)
        BY <1>1, <3>5, AddFragmentHeads
      <4>3. /\ Tails(bufs1) \subseteq Tails(bufs) \cup {Key(p)}
            /\ p.hdr.moreFragments => Tails(bufs1) \subseteq Tails(bufs)
        BY <1>1, <3>5, AddFragmentTails
      <4>4. n + Cardinality(Heads(bufs1)) <= Cardinality(ArrivedHeads(h)')
        <5>1. \/ ArrivedHeads(h)' = ArrivedHeads(h) \cup {p}
              \/ ArrivedHeads(h)' = ArrivedHeads(h) /\ Heads(bufs1) \subseteq Heads(bufs)
          BY <1>7, <4>2
        <5>2. /\ IsFiniteSet(Heads(bufs)) /\ IsFiniteSet(ArrivedHeads(h))
              /\ n + Cardinality(Heads(bufs)) <= Cardinality(ArrivedHeads(h))
          BY <1>2, <1>4, FiniteCounts
        <5>3. Heads(bufs1) \subseteq Heads(bufs) \cup {Key(p)}
          BY <4>2
        <5>4. n \in Nat /\ p \notin ArrivedHeads(h)
          BY <1>1, <1>3
        <5> DEFINE K == Heads(bufs)
                   K1 == Heads(bufs1)
                   A == ArrivedHeads(h)
                   A1 == ArrivedHeads(h)'
                   k == Key(p)
        <5> HIDE DEF n, K, K1, A, A1, k
        <5>5. n + Cardinality(K1) <= Cardinality(A1)
          <6>1. /\ n \in Nat /\ IsFiniteSet(K) /\ IsFiniteSet(A) /\ p \notin A
                /\ n + Cardinality(K) <= Cardinality(A)
                /\ K1 \subseteq K \cup {k}
                /\ A1 = A \cup {p} \/ (A1 = A /\ K1 \subseteq K)
            BY <5>1, <5>2, <5>3, <5>4 DEF n, K, K1, A, A1, k
          <6>2. QED
            BY <6>1, CountPending
        <5>6. QED
          BY <5>5 DEF n, K, K1, A, A1
      <4>5. n + Cardinality(Tails(bufs1)) <= Cardinality(ArrivedTails(h)')
        <5>1. \/ ArrivedTails(h)' = ArrivedTails(h) \cup {p}
              \/ ArrivedTails(h)' = ArrivedTails(h) /\ Tails(bufs1) \subseteq Tails(bufs)
          BY <1>8, <4>3
        <5>2. /\ IsFiniteSet(Tails(bufs)) /\ IsFiniteSet(ArrivedTails(h))
              /\ n + Cardinality(Tails(bufs)) <= Cardinality(ArrivedTails(h))
          BY <1>2, <1>4, FiniteCounts
        <5>3. Tails(bufs1) \subseteq Tails(bufs) \cup {Key(p)}
          BY <4>3
        <5>4. n \in Nat /\ p \notin ArrivedTails(h)
          BY <1>1, <1>3
        <5> DEFINE K == Tails(bufs)
                   K1 == Tails(bufs1)
                   A == ArrivedTails(h)
                   A1 == ArrivedTails(h)'
                   k == Key(p)
        <5> HIDE DEF n, K, K1, A, A1, k
        <5>5. n + Cardinality(K1) <= Cardinality(A1)
          <6>1. /\ n \in Nat /\ IsFiniteSet(K) /\ IsFiniteSet(A) /\ p \notin A
                /\ n + Cardinality(K) <= Cardinality(A)
                /\ K1 \subseteq K \cup {k}
                /\ A1 = A \cup {p} \/ (A1 = A /\ K1 \subseteq K)
            BY <5>1, <5>2, <5>3, <5>4 DEF n, K, K1, A, A1, k
          <6>2. QED
            BY <6>1, CountPending
        <5>6. QED
          BY <5>5 DEF n, K, K1, A, A1
      <4>6. QED
        BY <3>1, <3>2, <3>3, <4>1, <4>4, <4>5 DEF Balance
    <3>6. QED
      BY <3>4, <3>5
  <2>3. QED
    BY <2>1, <2>2
<1>10. QED
  BY <1>6, <1>9

(* An action that touches neither the buffers nor the history of arrivals  *)
(* keeps every balance.                                                    *)
LEMMA BalanceUnchanged ==
  ASSUME ReceptionAccounting, UNCHANGED <<fragbufRdma, numReceived, arrived>>
  PROVE  \A h \in Hosts : Balance(h)'
BY DEF ReceptionAccounting, Balance, HeadKeys, TailKeys, ArrivedHeads, ArrivedTails

(* Nothing has arrived and no buffer is there.                             *)
LEMMA InitAccounting == Init => ReceptionAccounting
<1> SUFFICES ASSUME Init
             PROVE  ReceptionAccounting
  OBVIOUS
<1>1. \A h \in Hosts : /\ DOMAIN fragbufRdma[h] = {} /\ HeadKeys(h) = {} /\ TailKeys(h) = {}
                       /\ ArrivedHeads(h) = {} /\ ArrivedTails(h) = {} /\ numReceived[h] = 0
  BY DEF Init, NoBuffers, HeadKeys, TailKeys, ArrivedHeads, ArrivedTails
<1>2. IsFiniteSet({}) /\ Cardinality({}) = 0
  BY FS_EmptySet
<1>3. sent = {} /\ network = {} /\ arrived = {} /\ \A h \in Hosts : fragbufIpv4[h] = {}
  BY DEF Init
<1>4. ASSUME NEW h \in Hosts
      PROVE  Balance(h)
  <2>1. /\ numReceived[h] = 0 /\ IsFiniteSet(DOMAIN fragbufRdma[h])
        /\ Cardinality(HeadKeys(h)) = 0 /\ Cardinality(ArrivedHeads(h)) = 0
        /\ Cardinality(TailKeys(h)) = 0 /\ Cardinality(ArrivedTails(h)) = 0
    BY <1>1, <1>2
  <2>2. QED
    BY <2>1 DEF Balance
<1>5. QED
  BY <1>2, <1>3, <1>4 DEF ReceptionAccounting, Balance

(* A new message has a new sequence number, so its packets are new too.    *)
LEMMA ProcessSendAccounting ==
  ASSUME TypeOK, ReceptionAccounting, NEW h \in Hosts, ProcessSend(h)
  PROVE  ReceptionAccounting'
<1>1. PICK dst \in DestAddresses[h], len \in Lengths,
           srcPort \in ResolvedPort(LocalPort[h]), destPort \in ResolvedPort(DestPort[h]) :
        /\ IF destPort = 0 THEN Refused
                           ELSE Accepted(NewMessage(h, dst, len, srcPort, destPort))
        /\ numSent' = [numSent EXCEPT ![h] = @ + 1]
  BY DEF ProcessSend, SendPacket
<1> DEFINE m == NewMessage(h, dst, len, srcPort, destPort)
<1>2. m \in Message /\ m.src = h /\ m.seq = numSent[h] /\ m.dst \in Hosts
  <2>1. m.src = h /\ m.seq = numSent[h]
    BY DEF NewMessage
  <2>2. m \in Message
    BY NewMessageType
  <2>3. QED
    BY <2>1, <2>2 DEF Message
<1> HIDE DEF m
<1>3. UNCHANGED <<fragbufIpv4, fragbufRdma, numReceived, arrived>>
  BY DEF ProcessSend
<1>4. \A g \in Hosts : numSent[g] \in Nat /\ numSent'[g] \in Nat /\ numSent'[g] >= numSent[g]
  BY <1>1 DEF TypeOK
<1>5. numSent'[h] = numSent[h] + 1
  BY <1>1 DEF TypeOK
<1>6. \A x \in sent : x.src \in Hosts /\ x.seq \in Nat /\ x.seq < numSent[x.src]
  BY DEF TypeOK, Message, ReceptionAccounting
<1>7. m \notin sent
  BY <1>2, <1>4, <1>6
<1>8. /\ sent' = sent \/ sent' = sent \cup {m}
      /\ \A d \in network' : \/ d \in network
                             \/ /\ d \in Ipv4Datagrams(d.pkt) /\ d.pkt.msg = m
                                /\ sent' = sent \cup {m}
  <2>1. CASE Refused
    BY <2>1 DEF Refused
  <2>2. CASE Accepted(m)
    <3>1. \A p \in HandleUpperPacket(m) : \A d \in Ipv4Datagrams(p) : d.pkt = p /\ p.msg = m
      BY PacketsOfMessage DEF Ipv4Datagrams
    <3>2. QED
      BY <2>2, <3>1 DEF Accepted
  <2>3. QED
    BY <1>1, <2>1, <2>2 DEF m
<1>9. \A x \in sent' : x.seq < numSent'[x.src]
  BY <1>2, <1>4, <1>5, <1>6, <1>8
<1>10. \A d \in network' : /\ d \in Ipv4Datagrams(d.pkt)
                           /\ d.pkt.msg \in sent'
                           /\ d.pkt \notin arrived'
                           /\ d \notin fragbufIpv4'[d.pkt.msg.dst]
  <2> SUFFICES ASSUME NEW d \in network'
               PROVE  /\ d \in Ipv4Datagrams(d.pkt)
                      /\ d.pkt.msg \in sent'
                      /\ d.pkt \notin arrived'
                      /\ d \notin fragbufIpv4'[d.pkt.msg.dst]
    OBVIOUS
  <2>1. CASE d \in network
    BY <1>3, <1>8, <2>1 DEF ReceptionAccounting
  <2>2. CASE d \notin network
    BY <1>2, <1>3, <1>7, <1>8, <2>2 DEF ReceptionAccounting
  <2>3. QED
    BY <2>1, <2>2
<1>11. /\ \A g \in Hosts : \A d \in fragbufIpv4'[g] : d.pkt.msg \in sent'
       /\ \A p \in arrived' : p.msg \in sent'
       /\ IsFiniteSet(arrived')
  BY <1>3, <1>8 DEF ReceptionAccounting
<1>12. QED
  BY <1>3, <1>9, <1>10, <1>11, BalanceUnchanged DEF ReceptionAccounting, Balance

(* Receiving uses up one datagram of the network, once.                    *)
LEMMA ReceiveAccounting ==
  ASSUME TypeOK, ReceptionAccounting, NEW h \in Hosts, Receive(h)
  PROVE  ReceptionAccounting'
<1>1. PICK d \in network : /\ d.pkt.msg.dst = h
                           /\ network' = network \ {d}
                           /\ ProcessPacket(h, d)
                           /\ UNCHANGED <<appVars, rdmaNumSent, failed, sent, bounds>>
  BY DEF Receive
<1>2. sent' = sent /\ numSent' = numSent
  BY <1>1 DEF appVars
<1>3. d.pkt \in Packet /\ d.pkt \notin arrived /\ d.pkt.msg \in sent
  BY DEF TypeOK, Datagram, ReceptionAccounting
<1>4. fragbufIpv4 \in [Hosts -> SUBSET Datagram]
  BY DEF TypeOK
<1>5. /\ \A m \in sent : m.seq < numSent[m.src]
      /\ \A e \in network : /\ e \in Ipv4Datagrams(e.pkt)
                            /\ e.pkt.msg \in sent
                            /\ e.pkt \notin arrived
                            /\ e \notin fragbufIpv4[e.pkt.msg.dst]
      /\ \A g \in Hosts : \A e \in fragbufIpv4[g] : e.pkt.msg \in sent
      /\ \A p \in arrived : p.msg \in sent
      /\ IsFiniteSet(arrived)
  BY DEF ReceptionAccounting
<1>6. CASE CompletesIpv4(h, d)
  <2>1. /\ fragbufIpv4' = [fragbufIpv4 EXCEPT ![h] = @ \ Gathered(h, d)]
        /\ arrived' = arrived \cup {d.pkt}
        /\ ProcessRdma(h, d.pkt)
    BY <1>1, <1>6 DEF ProcessPacket
  <2>2. \A g \in Hosts : Balance(g)'
    BY <1>1, <1>3, <2>1, ProcessRdmaBalance
  <2>3. \A g \in Hosts : fragbufIpv4'[g] \subseteq fragbufIpv4[g]
    BY <1>4, <2>1
  <2>4. \A e \in network' : e.pkt # d.pkt
    BY <1>1, <1>6, NoneLeft
  <2>5. \A e \in network' : e.pkt.msg.dst \in Hosts
    BY <1>1 DEF TypeOK, Datagram, Packet, Message
  <2>6. IsFiniteSet(arrived')
    BY <1>5, <2>1, FS_AddElement
  <2>7. \A e \in network' : /\ e \in Ipv4Datagrams(e.pkt)
                            /\ e.pkt.msg \in sent'
                            /\ e.pkt \notin arrived'
                            /\ e \notin fragbufIpv4'[e.pkt.msg.dst]
    BY <1>1, <1>2, <1>5, <2>1, <2>3, <2>4, <2>5
  <2>8. /\ \A g \in Hosts : \A e \in fragbufIpv4'[g] : e.pkt.msg \in sent'
        /\ \A p \in arrived' : p.msg \in sent'
    BY <1>2, <1>3, <1>5, <2>1, <2>3
  <2>9. QED
    BY <1>2, <1>5, <2>2, <2>6, <2>7, <2>8 DEF ReceptionAccounting, Balance
<1>7. CASE ~CompletesIpv4(h, d)
  <2>1. /\ fragbufIpv4' = [fragbufIpv4 EXCEPT ![h] = @ \cup {d}]
        /\ UNCHANGED <<arrived, fragbufRdma, numReceived>>
    BY <1>1, <1>7 DEF ProcessPacket
  <2>2. \A g \in Hosts : fragbufIpv4'[g] \subseteq fragbufIpv4[g] \cup {d}
    BY <1>4, <2>1
  <2>3. \A e \in network' : e.pkt.msg.dst \in Hosts /\ e # d /\ e \in network
    BY <1>1 DEF TypeOK, Datagram, Packet, Message
  <2>4. \A e \in network' : /\ e \in Ipv4Datagrams(e.pkt)
                            /\ e.pkt.msg \in sent'
                            /\ e.pkt \notin arrived'
                            /\ e \notin fragbufIpv4'[e.pkt.msg.dst]
    BY <1>2, <1>5, <2>1, <2>2, <2>3
  <2>5. \A g \in Hosts : \A e \in fragbufIpv4'[g] : e.pkt.msg \in sent'
    BY <1>2, <1>3, <1>5, <2>2
  <2>6. QED
    BY <1>2, <1>5, <2>1, <2>4, <2>5, BalanceUnchanged DEF ReceptionAccounting, Balance
<1>8. QED
  BY <1>6, <1>7

(* Each action keeps the account of receptions and buffers.                *)
LEMMA NextAccounting == TypeOK /\ ReceptionAccounting /\ [Next]_vars => ReceptionAccounting'
<1> SUFFICES ASSUME TypeOK, ReceptionAccounting, [Next]_vars
             PROVE  ReceptionAccounting'
  OBVIOUS
<1> DEFINE Quiet == /\ network' \subseteq network
                    /\ UNCHANGED <<sent, numSent, fragbufIpv4, fragbufRdma, numReceived, arrived>>
<1>1. ASSUME Quiet
      PROVE  ReceptionAccounting'
  <2>1. \A h \in Hosts : Balance(h)'
    BY <1>1, BalanceUnchanged
  <2>2. QED
    BY <1>1, <2>1 DEF ReceptionAccounting, Balance
<1>2. ASSUME NEW h \in Hosts, HandleStart(h) \/ HandleSend(h)
      PROVE  ReceptionAccounting'
  BY <1>2, ProcessSendAccounting DEF HandleStart, HandleSend
<1>3. ASSUME NEW h \in Hosts, HandleStartNoDestination(h) \/ HandleStop(h)
      PROVE  ReceptionAccounting'
  BY <1>1, <1>3 DEF HandleStartNoDestination, HandleStop, history
<1>4. ASSUME NEW h \in Hosts, HandleStartOperation(h) \/ HandleActiveOperationTimeout(h)
                              \/ HandleStopOperation(h) \/ HandleCrashOperation(h)
      PROVE  ReceptionAccounting'
  BY <1>1, <1>4 DEF HandleStartOperation, HandleActiveOperationTimeout, HandleStopOperation,
                    HandleCrashOperation, ChangeState, history
<1>5. ASSUME NEW h \in Hosts, Receive(h)
      PROVE  ReceptionAccounting'
  BY <1>5, ReceiveAccounting
<1>6. CASE Lose
  BY <1>1, <1>6 DEF Lose, appVars, history
<1>7. CASE UNCHANGED vars
  BY <1>1, <1>7 DEF vars, appVars, history
<1>8. QED
  BY <1>2, <1>3, <1>4, <1>5, <1>6, <1>7 DEF Next, HostStep

(* The accounting is an invariant of every instance.                       *)
THEOREM AccountingHolds == Spec => []ReceptionAccounting
<1>1. QED
  BY TypeCorrect, InitAccounting, NextAccounting, PTL DEF Spec

(* However fragments are lost, interleaved or mixed up, RdmaBasicApp's     *)
(* numReceived is at most the number of first fragments, and at most the   *)
(* number of last fragments, that processPacket was given.                 *)
THEOREM ReceptionsBoundedHolds == Spec => []ReceptionsBounded
<1>1. TypeOK /\ ReceptionAccounting => ReceptionsBounded
  <2> SUFFICES ASSUME TypeOK, ReceptionAccounting, NEW h \in Hosts
               PROVE  /\ numReceived[h] <= Cardinality(ArrivedHeads(h))
                      /\ numReceived[h] <= Cardinality(ArrivedTails(h))
    BY DEF ReceptionsBounded
  <2>1. /\ Cardinality(HeadKeys(h)) \in Nat /\ Cardinality(TailKeys(h)) \in Nat
        /\ Cardinality(ArrivedHeads(h)) \in Nat /\ Cardinality(ArrivedTails(h)) \in Nat
    BY FiniteCounts, FS_CardinalityType
  <2>2. numReceived[h] \in Nat
    BY DEF TypeOK
  <2>3. /\ numReceived[h] + Cardinality(HeadKeys(h)) <= Cardinality(ArrivedHeads(h))
        /\ numReceived[h] + Cardinality(TailKeys(h)) <= Cardinality(ArrivedTails(h))
    BY DEF ReceptionAccounting
  <2>4. QED
    BY <2>1, <2>2, <2>3
<1>2. QED
  BY <1>1, TypeCorrect, AccountingHolds, PTL

-----------------------------------------------------------------------------
(***************************************************************************)
(* Without loss, and with no two senders to one host that can pick the     *)
(* same local port, RdmaBasicApp receives the messages of each sender      *)
(* unmixed, once and in order, for any number of hosts and messages, any   *)
(* lengths and any MTU (module RdmaSystem).                                *)
(*                                                                         *)
(* The argument has three layers.  PathInv: datagrams of one path leave    *)
(* the network in the order they were sent, so packets arrive in that      *)
(* order.  BufferInv: a buffer of RdmaAppFragBuf therefore holds the first *)
(* fragments of the one message of its sender that is incomplete.          *)
(* DeliveryInv: a message is handed over when its last fragment arrives.   *)
(***************************************************************************)

(* The conditions: no frame is lost and no application stops; two hosts    *)
(* with a destination in common have no local port in common, because the  *)
(* key of addFragment has no source address.                               *)
NoLoss == MaxLosses = 0 /\ MaxLifecycle = 0

PortsApart ==
  \A g, h \in Hosts : /\ g # h
                      /\ DestAddresses[g] \cap DestAddresses[h] # {}
                      => ResolvedPort(LocalPort[g]) \cap ResolvedPort(LocalPort[h]) = {}

-----------------------------------------------------------------------------
(***************************************************************************)
(* The invariant.                                                          *)
(***************************************************************************)
SentPackets == UNION { HandleUpperPacket(m) : m \in sent }

SentDatagrams == UNION { Ipv4Datagrams(p) : p \in SentPackets }

SamePath(m, n) == m.src = n.src /\ m.dst = n.dst

(* p was handed to Ipv4 before q.                                          *)
PacketBefore(p, q) ==
  \/ p.msg.seq < q.msg.seq
  \/ p.msg.seq = q.msg.seq /\ p.hdr.fragmentOffset < q.hdr.fragmentOffset

(* Every datagram sent is in the network, in its destination's buffer, or  *)
(* its packet has arrived; and a packet that has not is still on its way.  *)
Conserved ==
  /\ network \subseteq SentDatagrams
  /\ arrived \subseteq SentPackets
  /\ \A h \in Hosts : \A d \in fragbufIpv4[h] : d \in SentDatagrams /\ d.pkt.msg.dst = h
  /\ \A d \in SentDatagrams :
       d \in network \/ d \in fragbufIpv4[d.pkt.msg.dst] \/ d.pkt \in arrived
  /\ \A p \in SentPackets : p \notin arrived => \E d \in Ipv4Datagrams(p) : d \in network

(* Nothing overtakes a datagram in the network.                            *)
Ordered ==
  \A e \in network : \A d \in SentDatagrams :
    SamePath(e.pkt.msg, d.pkt.msg) /\ SentBefore(e, d) => d \in network

(* Where messages come from, and that they are told apart by their seq.    *)
Origin ==
  /\ \A m \in sent : /\ m.srcPort \in ResolvedPort(LocalPort[m.src])
                     /\ m.dst \in DestAddresses[m.src]
  /\ \A m, n \in sent : m.src = n.src /\ m.seq = n.seq => m = n

AllUp == \A h \in Hosts : operationalState[h] = "OPERATING"

PathInv == Origin /\ Conserved /\ Ordered /\ AllUp

(* The key of all fragments of m.                                          *)
FragmentKey(m) == [ id |-> 0, localPort |-> m.srcPort, remotePort |-> m.destPort ]

(* What the fragments of m below offset n make of a buffer.                *)
FirstBytes(m, n) ==
  [ i \in 0 .. n - 1 |->
      LET offset == i - (i % FragmentLength)
      IN PacketByte(Fragment(m, offset), RDMA_HEADER_LENGTH + (i - offset)) ]

IsPrefix(buf, m, n) ==
  buf.bytes = FirstBytes(m, n) /\ buf.expectedLength = -1 /\ buf.packet.msg = m

FragmentsOf(m) == Offsets(PayloadLength(m))

(* Exactly the fragments of m below offset n have arrived.                 *)
ArrivedBelow(m, n) == \A o \in FragmentsOf(m) : Fragment(m, o) \in arrived <=> o < n

(* The messages some but not all of whose fragments have arrived at h.     *)
Partial(h) ==
  { m \in sent : /\ m.dst = h
                 /\ NeedsFragmentation(m)
                 /\ \E o \in FragmentsOf(m) : Fragment(m, o) \in arrived
                 /\ \E o \in FragmentsOf(m) : Fragment(m, o) \notin arrived }

(* The buffers are those of the messages that are partly there.            *)
BufferInv ==
  \A h \in Hosts :
    /\ \A key \in DOMAIN fragbufRdma[h] : \E m \in Partial(h) : key = FragmentKey(m)
    /\ \A m \in Partial(h) :
         /\ FragmentKey(m) \in DOMAIN fragbufRdma[h]
         /\ \E n \in FragmentsOf(m) : /\ IsPrefix(fragbufRdma[h][FragmentKey(m)], m, n)
                                      /\ ArrivedBelow(m, n)

Delivery(m) == [ packet |-> m, content |-> OwnContent(m) ]

Deliveries == { Delivery(m) : m \in Message }

(* An application has been given the messages that are completely there,   *)
(* as they are, in the order of each sender.                               *)
DeliveryAt(h) ==
  /\ delivered[h] \in Seq(Deliveries)
  /\ \A i \in 1 .. Len(delivered[h]) :
       LET m == delivered[h][i].packet
       IN /\ m \in sent /\ m.dst = h
          /\ HandleUpperPacket(m) \subseteq arrived
          /\ delivered[h][i] = Delivery(m)
  /\ \A i, j \in 1 .. Len(delivered[h]) :
       i < j /\ delivered[h][i].packet.src = delivered[h][j].packet.src
         => delivered[h][i].packet.seq < delivered[h][j].packet.seq
  /\ \A m \in sent : m.dst = h /\ HandleUpperPacket(m) \subseteq arrived =>
       \E i \in 1 .. Len(delivered[h]) : delivered[h][i].packet = m

DeliveryInv == \A h \in Hosts : DeliveryAt(h)

Inv == PathInv /\ BufferInv /\ DeliveryInv

-----------------------------------------------------------------------------
(***************************************************************************)
(* Packets and their datagrams.                                            *)
(***************************************************************************)

(* A packet that was sent is one of its message's.                         *)
LEMMA SentPacketFacts ==
  ASSUME TypeOK, NEW p \in SentPackets
  PROVE  /\ p.msg \in sent /\ p.msg \in Message
         /\ p \in HandleUpperPacket(p.msg) /\ p \in Packet
<1>1. PICK m \in sent : p \in HandleUpperPacket(m)
  BY DEF SentPackets
<1>2. p.msg = m
  BY <1>1, PacketsOfMessage
<1>3. m \in Message
  BY DEF TypeOK
<1>4. p \in Packet
  BY <1>1, <1>3, HandleUpperPacketType
<1>5. QED
  BY <1>1, <1>2, <1>3, <1>4

(* The converse.                                                           *)
LEMMA SentPacketOf ==
  ASSUME NEW m \in sent, NEW p \in HandleUpperPacket(m)
  PROVE  p \in SentPackets /\ p.msg = m
BY PacketsOfMessage DEF SentPackets

(* A datagram that was sent is one of its packet's, and the converse.      *)
LEMMA SentDatagramFacts ==
  ASSUME TypeOK, NEW d \in SentDatagrams
  PROVE  /\ d.pkt \in SentPackets /\ d \in Ipv4Datagrams(d.pkt)
         /\ d \in Datagram /\ d.pkt.msg \in sent
<1>1. PICK p \in SentPackets : d \in Ipv4Datagrams(p)
  BY DEF SentDatagrams
<1>2. d.pkt = p
  BY <1>1 DEF Ipv4Datagrams
<1>3. p \in Packet /\ p.msg \in sent
  BY SentPacketFacts
<1>4. d \in Datagram
  BY <1>1, <1>3, Ipv4DatagramsType
<1>5. QED
  BY <1>1, <1>2, <1>3, <1>4

LEMMA SentDatagramOf ==
  ASSUME NEW p \in SentPackets, NEW d \in Ipv4Datagrams(p)
  PROVE  d \in SentDatagrams /\ d.pkt = p
BY DEF SentDatagrams, Ipv4Datagrams

(* No packet vanishes in Ipv4: it has a first datagram.                    *)
LEMMA HasDatagram ==
  ASSUME NEW p \in Packet
  PROVE  Ipv4Datagrams(p) # {}
<1> DEFINE room == Mtu - IPV4_HEADER_LENGTH
           unit == FragmentUnit
<1>1. unit \in Nat /\ unit > 0 /\ RDMA_HEADER_LENGTH \in Nat /\ RDMA_HEADER_LENGTH > 0
  BY RdmaAssumption
<1>2. Mtu \in Nat /\ IPV4_HEADER_LENGTH \in Nat
  BY SystemAssumption
<1>3. p.hdrs \in {1, 2} /\ p.len \in Nat
  BY DEF Packet
<1>4. ByteLength(p) \in Nat /\ ByteLength(p) > 0
  <2>1. p.hdrs * RDMA_HEADER_LENGTH = RDMA_HEADER_LENGTH
        \/ p.hdrs * RDMA_HEADER_LENGTH = 2 * RDMA_HEADER_LENGTH
    BY <1>1, <1>3
  <2>2. QED
    BY <1>1, <1>3, <2>1 DEF ByteLength
<1>5. CASE Mtu = 0 \/ IPV4_HEADER_LENGTH + ByteLength(p) <= Mtu
  BY <1>5 DEF Ipv4Datagrams, Ipv4Offsets
<1>6. CASE ~(Mtu = 0 \/ IPV4_HEADER_LENGTH + ByteLength(p) <= Mtu)
  <2>1. room >= unit /\ room \in Nat
    BY <1>1, <1>2, <1>6, SystemAssumption
  <2> HIDE DEF room, unit
  <2>2. room \div unit \in Nat /\ room \div unit >= 1
    BY <1>1, <2>1
  <2>3. \A x, y \in Nat : x >= 1 /\ y >= 1 => x * y \in Nat /\ x * y >= 1
    OBVIOUS
  <2>4. Ipv4FragmentLength \in Nat /\ Ipv4FragmentLength >= 1
    BY <1>1, <2>2, <2>3 DEF Ipv4FragmentLength, room, unit
  <2>5. 0 % Ipv4FragmentLength = 0
    BY <2>4
  <2>6. 0 \in Ipv4Offsets(p)
    BY <1>4, <1>6, <2>5 DEF Ipv4Offsets
  <2>7. QED
    BY <2>6 DEF Ipv4Datagrams
<1>7. QED
  BY <1>5, <1>6

(* Packets in order have their datagrams in order.                         *)
LEMMA BeforeSent ==
  ASSUME NEW c, NEW d, PacketBefore(c.pkt, d.pkt)
  PROVE  SentBefore(c, d)
BY DEF PacketBefore, SentBefore

-----------------------------------------------------------------------------
(***************************************************************************)
(* Packets arrive in the order they were sent.                             *)
(***************************************************************************)

(* What came before a packet that has arrived has arrived.                 *)
LEMMA ArrivedClosed ==
  ASSUME TypeOK, ReceptionAccounting, PathInv,
         NEW p \in arrived, NEW q \in SentPackets,
         SamePath(q.msg, p.msg), PacketBefore(q, p)
  PROVE  q \in arrived
<1> SUFFICES ASSUME q \notin arrived
             PROVE  FALSE
  OBVIOUS
<1>1. p \in SentPackets
  BY DEF PathInv, Conserved
<1>2. PICK c \in Ipv4Datagrams(q) : c \in network
  BY DEF PathInv, Conserved
<1>3. p \in Packet
  BY <1>1, SentPacketFacts
<1>4. PICK d \in Ipv4Datagrams(p) : TRUE
  BY <1>3, HasDatagram
<1>5. d \in SentDatagrams /\ d.pkt = p /\ c.pkt = q
  BY <1>1, <1>2, <1>4, SentDatagramOf
<1>6. SentBefore(c, d)
  BY <1>5, BeforeSent
<1>7. d \in network
  BY <1>2, <1>5, <1>6 DEF PathInv, Ordered
<1>8. d.pkt \notin arrived
  BY <1>7 DEF ReceptionAccounting
<1>9. QED
  BY <1>5, <1>8

(* The packet that arrives next on its path.                               *)
NextToArrive(p) ==
  /\ p \in SentPackets /\ p \notin arrived
  /\ \A q \in SentPackets : /\ SamePath(q.msg, p.msg)
                            /\ PacketBefore(q, p)
                            => q \in arrived
  /\ \A q \in SentPackets : /\ SamePath(q.msg, p.msg)
                            /\ PacketBefore(p, q)
                            => q \notin arrived

LEMMA ReceivedIsNext ==
  ASSUME TypeOK, ReceptionAccounting, PathInv, NEW d \in network, IsNext(d)
  PROVE  NextToArrive(d.pkt)
<1>1. d \in SentDatagrams
  BY DEF PathInv, Conserved
<1>2. d.pkt \in SentPackets /\ d.pkt \notin arrived
  BY <1>1, SentDatagramFacts DEF ReceptionAccounting
<1>3. ASSUME NEW q \in SentPackets, SamePath(q.msg, d.pkt.msg), PacketBefore(q, d.pkt),
             q \notin arrived
      PROVE  FALSE
  <2>1. PICK c \in Ipv4Datagrams(q) : c \in network
    BY <1>3 DEF PathInv, Conserved
  <2>2. c.pkt = q
    BY <1>3, <2>1, SentDatagramOf
  <2>3. SentBefore(c, d)
    BY <1>3, <2>2, BeforeSent
  <2>4. QED
    BY <1>3, <2>1, <2>2, <2>3 DEF IsNext, SamePath
<1>4. ASSUME NEW q \in SentPackets, SamePath(q.msg, d.pkt.msg), PacketBefore(d.pkt, q),
             q \in arrived
      PROVE  FALSE
  <2>1. SamePath(d.pkt.msg, q.msg)
    BY <1>4 DEF SamePath
  <2>2. QED
    BY <1>2, <1>4, <2>1, ArrivedClosed
<1>5. QED
  BY <1>2, <1>3, <1>4 DEF NextToArrive

-----------------------------------------------------------------------------
(***************************************************************************)
(* PathInv is inductive.                                                   *)
(***************************************************************************)

LEMMA InitPath == Init => PathInv
<1> SUFFICES ASSUME Init
             PROVE  PathInv
  OBVIOUS
<1>1. sent = {} /\ network = {} /\ arrived = {} /\ \A h \in Hosts : fragbufIpv4[h] = {}
  BY DEF Init
<1>2. SentPackets = {}
  BY <1>1 DEF SentPackets
<1>3. SentDatagrams = {}
  BY <1>2 DEF SentDatagrams
<1>4. AllUp
  BY DEF Init, AllUp
<1>5. QED
  BY <1>1, <1>2, <1>3, <1>4 DEF PathInv, Origin, Conserved, Ordered

(* A step that moves no packet keeps it.                                   *)
LEMMA QuietPath ==
  ASSUME PathInv, AllUp', UNCHANGED <<sent, network, arrived, fragbufIpv4>>
  PROVE  PathInv'
<1>1. SentPackets' = SentPackets
  BY DEF SentPackets
<1>2. SentDatagrams' = SentDatagrams
  BY <1>1 DEF SentDatagrams
<1>3. Origin'
  BY DEF PathInv, Origin
<1>4. Conserved'
  BY <1>1, <1>2 DEF PathInv, Conserved
<1>5. Ordered'
  BY <1>2 DEF PathInv, Ordered
<1>6. QED
  BY <1>3, <1>4, <1>5 DEF PathInv

(* What a send adds: nothing, or one message, new on its path, with all    *)
(* its datagrams.                                                          *)
Adds(m) ==
  /\ m \in Message /\ m \notin sent
  /\ m.srcPort \in ResolvedPort(LocalPort[m.src])
  /\ m.dst \in DestAddresses[m.src]
  /\ \A x \in sent : x.src = m.src => x.seq < m.seq
  /\ sent' = sent \cup {m}
  /\ network' = network \cup UNION { Ipv4Datagrams(p) : p \in HandleUpperPacket(m) }

LEMMA SendAdds ==
  ASSUME TypeOK, ReceptionAccounting, NEW h \in Hosts, ProcessSend(h)
  PROVE  /\ UNCHANGED <<operationalState, fragbufIpv4, fragbufRdma, arrived, delivered>>
         /\ UNCHANGED <<sent, network>> \/ \E m : Adds(m)
<1>1. PICK dst \in DestAddresses[h], len \in Lengths,
           srcPort \in ResolvedPort(LocalPort[h]), destPort \in ResolvedPort(DestPort[h]) :
        IF destPort = 0 THEN Refused
                        ELSE Accepted(NewMessage(h, dst, len, srcPort, destPort))
  BY DEF ProcessSend, SendPacket
<1> DEFINE m == NewMessage(h, dst, len, srcPort, destPort)
<1>2. /\ m \in Message /\ m.src = h /\ m.seq = numSent[h]
      /\ m.dst = dst /\ m.srcPort = srcPort
  BY NewMessageType DEF NewMessage
<1>3. \A x \in sent : x.seq < numSent[x.src]
  BY DEF ReceptionAccounting
<1>4. \A x \in sent : x.src = h => x.seq < m.seq
  BY <1>2, <1>3
<1>5. numSent[h] \in Nat
  BY DEF TypeOK
<1>6. m \notin sent
  <2>1. ~(m.seq < m.seq)
    BY <1>2, <1>5
  <2>2. QED
    BY <1>2, <1>4, <2>1
<1>7. CASE Refused
  BY <1>7 DEF ProcessSend, Refused
<1>8. CASE Accepted(m)
  <2>1. Adds(m)
    BY <1>2, <1>4, <1>6, <1>8 DEF Adds, Accepted
  <2>2. QED
    BY <2>1 DEF ProcessSend
<1>9. QED
  BY <1>1, <1>7, <1>8

(* The packets and datagrams of a new message.                             *)
LEMMA AddsSets ==
  ASSUME NEW m, Adds(m)
  PROVE  /\ SentPackets' = SentPackets \cup HandleUpperPacket(m)
         /\ \A d : d \in SentDatagrams' <=>
              \/ d \in SentDatagrams
              \/ \E p \in HandleUpperPacket(m) : d \in Ipv4Datagrams(p)
         /\ \A d : d \in network' <=>
              \/ d \in network
              \/ \E p \in HandleUpperPacket(m) : d \in Ipv4Datagrams(p)
<1>1. SentPackets' = SentPackets \cup HandleUpperPacket(m)
  BY DEF Adds, SentPackets
<1>2. \A d : d \in SentDatagrams' <=> \E p \in SentPackets' : d \in Ipv4Datagrams(p)
  BY DEF SentDatagrams
<1>3. \A d : d \in SentDatagrams <=> \E p \in SentPackets : d \in Ipv4Datagrams(p)
  BY DEF SentDatagrams
<1>4. \A d : d \in network' <=>
              \/ d \in network
              \/ \E p \in HandleUpperPacket(m) : d \in Ipv4Datagrams(p)
  BY DEF Adds
<1>5. QED
  BY <1>1, <1>2, <1>3, <1>4

(* A new message goes behind all others of its path.                       *)
LEMMA AddsPath ==
  ASSUME TypeOK, ReceptionAccounting, PathInv, NEW m, Adds(m),
         UNCHANGED <<operationalState, fragbufIpv4, arrived>>
  PROVE  PathInv'
<1> DEFINE New(d) == \E p \in HandleUpperPacket(m) : d \in Ipv4Datagrams(p)
<1>1. \A d : New(d) => d.pkt \in HandleUpperPacket(m) /\ d.pkt.msg = m /\ d \in Ipv4Datagrams(d.pkt)
  BY PacketsOfMessage DEF Ipv4Datagrams
<1>2. /\ \A d : d \in SentDatagrams' <=> d \in SentDatagrams \/ New(d)
      /\ \A d : d \in network' <=> d \in network \/ New(d)
      /\ SentPackets' = SentPackets \cup HandleUpperPacket(m)
  BY AddsSets
<1>3. HandleUpperPacket(m) \subseteq Packet
  BY HandleUpperPacketType DEF Adds
<1>4. \A p \in HandleUpperPacket(m) : \E d \in Ipv4Datagrams(p) : New(d)
  <2> SUFFICES ASSUME NEW p \in HandleUpperPacket(m)
               PROVE  \E d \in Ipv4Datagrams(p) : New(d)
    OBVIOUS
  <2>1. PICK d \in Ipv4Datagrams(p) : TRUE
    BY <1>3, HasDatagram
  <2>2. QED
    BY <2>1
<1> HIDE DEF New
<1>5. Origin'
  <2>1. \A x \in sent : x.src = m.src => x.seq # m.seq
    <3>1. \A x \in sent : x.seq \in Nat
      BY DEF TypeOK, Message
    <3>2. m.seq \in Nat
      BY DEF Adds, Message
    <3>3. QED
      BY <3>1, <3>2 DEF Adds
  <2>2. QED
    BY <2>1 DEF PathInv, Origin, Adds
<1>6. Conserved'
  <2>1. /\ network' \subseteq SentDatagrams'
        /\ arrived' \subseteq SentPackets'
        /\ \A h \in Hosts : \A d \in fragbufIpv4'[h] :
             d \in SentDatagrams' /\ d.pkt.msg.dst = h
    BY <1>2 DEF PathInv, Conserved
  <2>2. \A d \in SentDatagrams' :
          d \in network' \/ d \in fragbufIpv4'[d.pkt.msg.dst] \/ d.pkt \in arrived'
    BY <1>2 DEF PathInv, Conserved
  <2>3. \A p \in SentPackets' : p \notin arrived' => \E d \in Ipv4Datagrams(p) : d \in network'
    BY <1>2, <1>4 DEF PathInv, Conserved
  <2>4. QED
    BY <2>1, <2>2, <2>3 DEF Conserved
<1>7. Ordered'
  <2> SUFFICES ASSUME NEW c \in network', NEW d \in SentDatagrams',
                      SamePath(c.pkt.msg, d.pkt.msg), SentBefore(c, d), d \notin network'
               PROVE  FALSE
    BY DEF Ordered
  <2>1. d \in SentDatagrams /\ d \notin network
    BY <1>2
  <2>2. c \notin network
    BY <2>1 DEF PathInv, Ordered
  <2>3. c.pkt.msg = m
    BY <1>1, <1>2, <2>2
  <2>4. d.pkt.msg \in sent /\ d.pkt.msg.seq \in Nat
    BY <2>1, SentDatagramFacts DEF TypeOK, Message
  <2>5. d.pkt.msg.seq < m.seq /\ m.seq \in Nat
    BY <2>3, <2>4 DEF Adds, SamePath, Message
  <2>6. m.seq <= d.pkt.msg.seq
    BY <2>3, <2>4, <2>5 DEF SentBefore
  <2>7. QED
    BY <2>4, <2>5, <2>6
<1>8. AllUp'
  BY DEF PathInv, AllUp
<1>9. QED
  BY <1>5, <1>6, <1>7, <1>8 DEF PathInv

(* Receiving takes the first datagram of its path.                         *)
LEMMA ReceivePath ==
  ASSUME TypeOK, ReceptionAccounting, PathInv, NEW h \in Hosts,
         NEW d \in network, d.pkt.msg.dst = h, IsNext(d),
         network' = network \ {d}, UNCHANGED <<sent, operationalState>>,
         ProcessPacket(h, d)
  PROVE  PathInv'
<1>1. SentPackets' = SentPackets
  BY DEF SentPackets
<1>2. SentDatagrams' = SentDatagrams
  BY <1>1 DEF SentDatagrams
<1>3. Origin' /\ AllUp'
  BY DEF PathInv, Origin, AllUp
<1>4. d \in SentDatagrams /\ d.pkt \in SentPackets /\ d \in Ipv4Datagrams(d.pkt)
  BY SentDatagramFacts DEF PathInv, Conserved
<1>5. Ordered'
  <2> SUFFICES ASSUME NEW c \in network', NEW e \in SentDatagrams',
                      SamePath(c.pkt.msg, e.pkt.msg), SentBefore(c, e)
               PROVE  e \in network'
    BY DEF Ordered
  <2>1. e \in network
    BY <1>2 DEF PathInv, Ordered
  <2>2. e # d
    BY DEF IsNext, SamePath
  <2>3. QED
    BY <2>1, <2>2
<1>6. fragbufIpv4 \in [Hosts -> SUBSET Datagram]
  BY DEF TypeOK
<1>7. /\ network \subseteq SentDatagrams /\ arrived \subseteq SentPackets
      /\ \A g \in Hosts : \A e \in fragbufIpv4[g] : e \in SentDatagrams /\ e.pkt.msg.dst = g
      /\ \A e \in SentDatagrams :
           e \in network \/ e \in fragbufIpv4[e.pkt.msg.dst] \/ e.pkt \in arrived
      /\ \A p \in SentPackets : p \notin arrived => \E e \in Ipv4Datagrams(p) : e \in network
  BY DEF PathInv, Conserved
<1>8. \A e \in SentDatagrams : e.pkt.msg.dst \in Hosts /\ e.pkt \in SentPackets
  BY SentDatagramFacts DEF Datagram, Packet, Message
<1>9. \A p \in SentPackets : p # d.pkt => d \notin Ipv4Datagrams(p)
  BY DEF Ipv4Datagrams
<1>10. CASE CompletesIpv4(h, d)
  <2>1. /\ fragbufIpv4' = [fragbufIpv4 EXCEPT ![h] = @ \ Gathered(h, d)]
        /\ arrived' = arrived \cup {d.pkt}
    BY <1>10 DEF ProcessPacket
  <2>2. \A g \in Hosts : fragbufIpv4'[g] \subseteq fragbufIpv4[g]
    BY <1>6, <2>1
  <2>3. \A e \in SentDatagrams :
          e \in network' \/ e \in fragbufIpv4'[e.pkt.msg.dst] \/ e.pkt \in arrived'
    <3> SUFFICES ASSUME NEW e \in SentDatagrams, e.pkt # d.pkt
                 PROVE  e \in network' \/ e \in fragbufIpv4'[e.pkt.msg.dst] \/ e.pkt \in arrived'
      BY <2>1
    <3>1. e # d
      OBVIOUS
    <3>2. e \notin Gathered(h, d)
      BY <3>1 DEF Gathered
    <3>3. e.pkt.msg.dst \in Hosts
      BY <1>8
    <3>4. e \in fragbufIpv4[e.pkt.msg.dst] => e \in fragbufIpv4'[e.pkt.msg.dst]
      BY <1>6, <2>1, <3>2, <3>3
    <3>5. QED
      BY <1>7, <2>1, <3>1, <3>4
  <2>4. \A p \in SentPackets : p \notin arrived' => \E e \in Ipv4Datagrams(p) : e \in network'
    BY <1>7, <1>9, <2>1
  <2>5. arrived' \subseteq SentPackets /\ network' \subseteq SentDatagrams
    BY <1>4, <1>7, <2>1
  <2>6. Conserved'
    BY <1>1, <1>2, <1>7, <2>2, <2>3, <2>4, <2>5 DEF Conserved
  <2>7. QED
    BY <1>3, <1>5, <2>6 DEF PathInv
<1>11. CASE ~CompletesIpv4(h, d)
  <2>1. /\ fragbufIpv4' = [fragbufIpv4 EXCEPT ![h] = @ \cup {d}]
        /\ arrived' = arrived
    BY <1>11 DEF ProcessPacket
  <2>2. \A g \in Hosts : fragbufIpv4'[g] = IF g = h THEN fragbufIpv4[g] \cup {d} ELSE fragbufIpv4[g]
    BY <1>6, <2>1
  <2>3. \A g \in Hosts : \A e \in fragbufIpv4'[g] : e \in SentDatagrams /\ e.pkt.msg.dst = g
    <3> SUFFICES ASSUME NEW g \in Hosts, NEW e \in fragbufIpv4'[g]
                 PROVE  e \in SentDatagrams /\ e.pkt.msg.dst = g
      OBVIOUS
    <3>1. e \in fragbufIpv4[g] \/ (e = d /\ g = h)
      BY <2>2
    <3>2. QED
      BY <1>4, <1>7, <3>1
  <2>4. \A e \in SentDatagrams :
          e \in network' \/ e \in fragbufIpv4'[e.pkt.msg.dst] \/ e.pkt \in arrived'
    <3> SUFFICES ASSUME NEW e \in SentDatagrams
                 PROVE  e \in network' \/ e \in fragbufIpv4'[e.pkt.msg.dst] \/ e.pkt \in arrived'
      OBVIOUS
    <3>1. e.pkt.msg.dst \in Hosts
      BY <1>8
    <3>2. e \in network \/ e \in fragbufIpv4[e.pkt.msg.dst] \/ e.pkt \in arrived
      BY <1>7
    <3>3. CASE e = d
      BY <2>2, <3>1, <3>3
    <3>4. CASE e # d
      BY <2>1, <2>2, <3>1, <3>2, <3>4
    <3>5. QED
      BY <3>3, <3>4
  <2>5. d.pkt \notin arrived
    BY DEF ReceptionAccounting
  <2>6. \E e \in Ipv4Datagrams(d.pkt) : e \in network'
    <3>1. Gathered(h, d) \subseteq Ipv4Datagrams(d.pkt)
      <4>1. \A e \in fragbufIpv4[h] : e \in Ipv4Datagrams(e.pkt)
        BY <1>7, SentDatagramFacts
      <4>2. QED
        BY <1>4, <4>1 DEF Gathered
    <3>2. PICK e \in Ipv4Datagrams(d.pkt) : e \notin Gathered(h, d)
      BY <1>11, <3>1 DEF CompletesIpv4
    <3>3. e \in SentDatagrams /\ e.pkt = d.pkt
      BY <1>4, SentDatagramOf
    <3>4. e # d /\ e \notin fragbufIpv4[h]
      BY <3>2, <3>3 DEF Gathered
    <3>5. e \in network
      BY <1>7, <2>5, <3>3, <3>4
    <3>6. QED
      BY <3>4, <3>5
  <2>7. \A p \in SentPackets : p \notin arrived' => \E e \in Ipv4Datagrams(p) : e \in network'
    BY <1>7, <1>9, <2>1, <2>6
  <2>8. Conserved'
    BY <1>1, <1>2, <1>7, <2>1, <2>3, <2>4, <2>7 DEF Conserved
  <2>9. QED
    BY <1>3, <1>5, <2>8 DEF PathInv
<1>12. QED
  BY <1>10, <1>11

-----------------------------------------------------------------------------
(***************************************************************************)
(* The fragments of one message.                                           *)
(***************************************************************************)

(* Numbers of a message that needs fragmentation.                          *)
LEMMA FragmentNumbers ==
  ASSUME NEW m \in Message, NeedsFragmentation(m)
  PROVE  /\ PayloadLength(m) \in Nat /\ PayloadLength(m) > 0
         /\ FragmentLength \in Nat /\ FragmentLength > 0
         /\ 0 \in FragmentsOf(m)
         /\ FragmentsOf(m) \subseteq Nat
         /\ \A o : o \in FragmentsOf(m) <=>
              o \in Nat /\ o < PayloadLength(m) /\ o % FragmentLength = 0
<1>1. m.len \in Nat
  BY SystemAssumption DEF Message
<1>2. PayloadLength(m) \in Nat /\ PayloadLength(m) > 0
  BY <1>1, RdmaAssumption DEF NeedsFragmentation, PayloadLength
<1>3. FragmentLength \in Nat /\ FragmentLength > 0
  BY FragmentLengthPositive
<1>4. \A o : o \in FragmentsOf(m) <=>
        o \in Nat /\ o < PayloadLength(m) /\ o % FragmentLength = 0
  BY <1>2 DEF FragmentsOf, Offsets
<1>5. 0 % FragmentLength = 0
  BY <1>3
<1>6. QED
  BY <1>2, <1>3, <1>4, <1>5

(* The offsets before and after one.                                       *)
LEMMA FragmentNeighbours ==
  ASSUME NEW m \in Message, NeedsFragmentation(m), NEW o \in FragmentsOf(m)
  PROVE  /\ o # 0 => o - FragmentLength \in FragmentsOf(m)
         /\ ~IsLastFragment(PayloadLength(m), o) => o + FragmentLength \in FragmentsOf(m)
         /\ \A x \in FragmentsOf(m) : x > o => x >= o + FragmentLength
<1> DEFINE F == FragmentLength
           P == PayloadLength(m)
<1>1. P \in Nat /\ F \in Nat /\ F > 0 /\ FragmentsOf(m) \subseteq Nat
  BY FragmentNumbers
<1>2. \A x : x \in FragmentsOf(m) <=> x \in Nat /\ x < P /\ x % F = 0
  BY FragmentNumbers
<1> HIDE DEF F, P
<1>3. \A x \in Nat : x % F = 0 => x = F * (x \div F) /\ x \div F \in Nat
  BY <1>1
<1>4. \A k \in Int : (F * k) % F = 0
  BY <1>1
<1>5. PICK k \in Nat : o = F * k
  BY <1>2, <1>3
<1>6. F * (k - 1) = F * k - F /\ F * (k + 1) = F * k + F
  BY <1>1, <1>5
<1>7. (o - F) % F = 0 /\ (o + F) % F = 0
  <2>1. (F * (k - 1)) % F = 0 /\ (F * (k + 1)) % F = 0
    BY <1>4, <1>5
  <2>2. QED
    BY <1>5, <1>6, <2>1
<1>8. ASSUME o # 0
      PROVE  o - F \in FragmentsOf(m)
  <2>1. k >= 1
    BY <1>1, <1>5, <1>8
  <2>2. F * (k - 1) \in Nat
    BY <1>1, <1>5, <2>1
  <2>3. o - F \in Nat /\ o - F < P
    BY <1>1, <1>2, <1>5, <1>6, <2>2
  <2>4. QED
    BY <1>2, <1>7, <2>3
<1>9. ASSUME ~IsLastFragment(P, o)
      PROVE  o + F \in FragmentsOf(m)
  <2>1. o + F \in Nat /\ o + F < P
    BY <1>1, <1>9 DEF IsLastFragment, F
  <2>2. QED
    BY <1>2, <1>7, <2>1
<1>10. ASSUME NEW x \in FragmentsOf(m), x > o
       PROVE  x >= o + F
  <2>1. PICK j \in Nat : x = F * j
    BY <1>2, <1>3
  <2>2. \A i \in Nat : i <= k => F * i <= F * k
    BY <1>1
  <2>3. j >= k + 1
    BY <1>1, <1>5, <1>10, <2>1, <2>2
  <2>4. \A i \in Nat : i >= k + 1 => F * i >= F * (k + 1)
    BY <1>1, <1>5
  <2>5. QED
    BY <1>5, <1>6, <2>1, <2>3, <2>4
<1>11. QED
  BY <1>8, <1>9, <1>10 DEF F, P

(* Where a fragment stands in its message.                                 *)
LEMMA FragmentHeader ==
  ASSUME NEW m, NEW o \in Nat
  PROVE  /\ Fragment(m, o).msg = m
         /\ Fragment(m, o).hdr.fragmentOffset = o
         /\ Fragment(m, o).hdr.moreFragments = ~IsLastFragment(PayloadLength(m), o)
         /\ Fragment(m, o).hdr.totalLengthField =
              RDMA_HEADER_LENGTH + ThisFragmentLength(PayloadLength(m), o)
         /\ Fragment(m, o).len = ThisFragmentLength(PayloadLength(m), o)
         /\ Key(Fragment(m, o)) = FragmentKey(m)
<1>1. Fragment(m, o).msg = m /\ Fragment(m, o).len = ThisFragmentLength(PayloadLength(m), o)
  BY DEF Fragment
<1>2. /\ Fragment(m, o).hdr.fragmentOffset = 0 + o
      /\ Fragment(m, o).hdr.moreFragments = ~IsLastFragment(PayloadLength(m), o)
      /\ Fragment(m, o).hdr.totalLengthField =
           RDMA_HEADER_LENGTH + ThisFragmentLength(PayloadLength(m), o)
      /\ Fragment(m, o).hdr.srcPort = m.srcPort
      /\ Fragment(m, o).hdr.destPort = m.destPort
      /\ Fragment(m, o).hdr.identification = 0
  BY DEF Fragment, Dup, MessageHeader, RdmaHeader
<1>3. 0 + o = o
  OBVIOUS
<1>4. QED
  BY <1>1, <1>2, <1>3 DEF Key, FragmentKey

(* The bytes below an offset and those of the fragment there make the      *)
(* bytes below its end.                                                    *)
LEMMA FirstBytesGrow ==
  ASSUME NEW m \in Message, NeedsFragmentation(m), NEW o \in FragmentsOf(m), NEW buf,
         DOMAIN buf.bytes = 0 .. o - 1,
         \A i \in 0 .. o - 1 : buf.bytes[i] = FirstBytes(m, o)[i]
  PROVE  WithFragment(buf, Fragment(m, o)).bytes =
           FirstBytes(m, o + ThisFragmentLength(PayloadLength(m), o))
<1> DEFINE H == RDMA_HEADER_LENGTH
           P == PayloadLength(m)
           n == ThisFragmentLength(P, o)
           F == FragmentLength
           p == Fragment(m, o)
           whole(i) == PacketByte(Fragment(m, i - (i % F)), H + (i - (i - (i % F))))
<1>1. P \in Nat /\ F \in Nat /\ F > 0 /\ o \in Nat /\ o < P /\ o % F = 0 /\ H \in Nat
  BY FragmentNumbers, RdmaAssumption
<1>2. n \in Nat /\ n <= F
  BY <1>1 DEF ThisFragmentLength, IsLastFragment
<1>3. \A k : FirstBytes(m, k) = [ i \in 0 .. k - 1 |-> whole(i) ]
  BY DEF FirstBytes
<1>4. p.hdr.fragmentOffset = o /\ p.hdr.totalLengthField - H = n
  BY <1>1, <1>2, FragmentHeader
<1>5. WithFragment(buf, p).bytes =
        [ i \in DOMAIN buf.bytes
                  \cup (p.hdr.fragmentOffset
                          .. p.hdr.fragmentOffset + (p.hdr.totalLengthField - H) - 1) |->
            IF i \in p.hdr.fragmentOffset
                       .. p.hdr.fragmentOffset + (p.hdr.totalLengthField - H) - 1
              THEN PacketByte(p, H + (i - p.hdr.fragmentOffset))
              ELSE buf.bytes[i] ]
  BY DEF WithFragment, Replace
<1> HIDE DEF P, n, F, H
<1>6. \A i \in o .. o + n - 1 : i - (i % F) = o
  <2> SUFFICES ASSUME NEW i \in o .. o + n - 1
               PROVE  i - (i % F) = o
    OBVIOUS
  <2>1. i \in Nat /\ o <= i /\ i < o + F
    BY <1>1, <1>2
  <2>2. QED
    BY <1>1, <2>1, RoundDownUnique
<1>7. \A i \in o .. o + n - 1 : PacketByte(p, H + (i - o)) = whole(i)
  BY <1>6
<1>8. \A i \in 0 .. o - 1 : buf.bytes[i] = whole(i)
  BY <1>3
<1> HIDE DEF p, whole
<1> DEFINE e == o + n
<1>9. /\ (0 .. o - 1) \cup (o .. o + n - 1) = 0 .. e - 1
      /\ \A i \in 0 .. e - 1 : i \notin o .. o + n - 1 => i \in 0 .. o - 1
  BY <1>1, <1>2
<1> HIDE DEF e
<1>10. WithFragment(buf, p).bytes =
         [ i \in 0 .. e - 1 |->
             IF i \in o .. o + n - 1 THEN PacketByte(p, H + (i - o)) ELSE buf.bytes[i] ]
  BY <1>4, <1>5, <1>9
<1>11. WithFragment(buf, p).bytes = [ i \in 0 .. e - 1 |-> whole(i) ]
  BY <1>7, <1>8, <1>9, <1>10
<1>12. WithFragment(buf, p).bytes = FirstBytes(m, e)
  BY <1>3, <1>11
<1>13. QED
  BY <1>12 DEF P, n, p, e

-----------------------------------------------------------------------------
(***************************************************************************)
(* The arrival of a packet, as its application sees it.                    *)
(***************************************************************************)

(* Every message makes a packet.                                           *)
LEMMA HasPacket ==
  ASSUME NEW m \in Message
  PROVE  HandleUpperPacket(m) # {}
<1>1. CASE NeedsFragmentation(m)
  <2>1. 0 \in FragmentsOf(m)
    BY <1>1, FragmentNumbers
  <2>2. QED
    BY <1>1, <2>1 DEF HandleUpperPacket, FragmentsOf
<1>2. CASE ~NeedsFragmentation(m)
  BY <1>2 DEF HandleUpperPacket
<1>3. QED
  BY <1>1, <1>2

(* When a packet of m arrives, the messages of its sender before m are     *)
(* there completely, and of those after it nothing is.                     *)
LEMMA OtherMessages ==
  ASSUME TypeOK, PathInv, NEW p, NextToArrive(p),
         NEW x \in sent, x # p.msg, SamePath(x, p.msg)
  PROVE  /\ x.seq # p.msg.seq
         /\ x.seq < p.msg.seq => HandleUpperPacket(x) \subseteq arrived
         /\ x.seq > p.msg.seq => \A q \in HandleUpperPacket(x) : q \notin arrived
<1>1. p \in SentPackets /\ p.msg \in sent
  BY SentPacketFacts DEF NextToArrive
<1>2. x.seq # p.msg.seq
  BY <1>1 DEF PathInv, Origin, SamePath
<1>3. \A q \in HandleUpperPacket(x) : q \in SentPackets /\ q.msg = x
  BY SentPacketOf
<1>4. x.seq \in Nat /\ p.msg.seq \in Nat
  BY <1>1 DEF TypeOK, Message
<1>5. ASSUME x.seq < p.msg.seq, NEW q \in HandleUpperPacket(x)
      PROVE  q \in arrived
  BY <1>3, <1>5 DEF NextToArrive, PacketBefore
<1>6. ASSUME x.seq > p.msg.seq, NEW q \in HandleUpperPacket(x)
      PROVE  q \notin arrived
  BY <1>3, <1>4, <1>6 DEF NextToArrive, PacketBefore
<1>7. QED
  BY <1>2, <1>5, <1>6

(* No other message that is partly there has the key of the one whose      *)
(* packet arrives.                                                         *)
LEMMA OtherKeys ==
  ASSUME TypeOK, PathInv, PortsApart, NEW p, NextToArrive(p),
         NEW x \in Partial(p.msg.dst), FragmentKey(x) = FragmentKey(p.msg)
  PROVE  x = p.msg
<1> SUFFICES ASSUME x # p.msg
             PROVE  FALSE
  OBVIOUS
<1>1. p.msg \in sent
  BY SentPacketFacts DEF NextToArrive
<1>2. x \in sent /\ x.dst = p.msg.dst /\ NeedsFragmentation(x)
  BY DEF Partial
<1>3. x.srcPort = p.msg.srcPort
  BY DEF FragmentKey
<1>4. x.src = p.msg.src
  <2>1. /\ x.src \in Hosts /\ p.msg.src \in Hosts
        /\ x.dst \in DestAddresses[x.src] /\ x.dst \in DestAddresses[p.msg.src]
        /\ x.srcPort \in ResolvedPort(LocalPort[x.src])
        /\ x.srcPort \in ResolvedPort(LocalPort[p.msg.src])
    BY <1>1, <1>2, <1>3 DEF PathInv, Origin, TypeOK, Message
  <2>2. QED
    BY <2>1 DEF PortsApart
<1>5. SamePath(x, p.msg)
  BY <1>2, <1>4 DEF SamePath
<1>6. \A o \in FragmentsOf(x) : Fragment(x, o) \in HandleUpperPacket(x)
  BY <1>2 DEF HandleUpperPacket, FragmentsOf
<1>7. \/ \A o \in FragmentsOf(x) : Fragment(x, o) \in arrived
      \/ \A o \in FragmentsOf(x) : Fragment(x, o) \notin arrived
  <2>1. x.seq \in Nat /\ p.msg.seq \in Nat
    BY <1>1, <1>2 DEF TypeOK, Message
  <2>2. x.seq # p.msg.seq
    BY <1>2, <1>5, OtherMessages
  <2>3. CASE x.seq < p.msg.seq
    BY <1>2, <1>5, <1>6, <2>3, OtherMessages
  <2>4. CASE x.seq > p.msg.seq
    BY <1>2, <1>5, <1>6, <2>4, OtherMessages
  <2>5. QED
    BY <2>1, <2>2, <2>3, <2>4
<1>8. QED
  BY <1>7 DEF Partial

(* The fragments of a message arrive in the order of their offsets.        *)
LEMMA FragmentArrives ==
  ASSUME TypeOK, PathInv, NEW m \in sent, NeedsFragmentation(m),
         NEW o \in FragmentsOf(m), NextToArrive(Fragment(m, o))
  PROVE  ArrivedBelow(m, o)
<1>1. m \in Message
  BY DEF TypeOK
<1>2. FragmentsOf(m) \subseteq Nat
  BY <1>1, FragmentNumbers
<1> SUFFICES ASSUME NEW x \in FragmentsOf(m)
             PROVE  Fragment(m, x) \in arrived <=> x < o
  BY DEF ArrivedBelow
<1>3. Fragment(m, x) \in HandleUpperPacket(m)
  BY DEF HandleUpperPacket, FragmentsOf
<1>4. Fragment(m, x) \in SentPackets
  BY <1>3, SentPacketOf
<1>5. /\ Fragment(m, x).msg = m /\ Fragment(m, x).hdr.fragmentOffset = x
      /\ Fragment(m, o).msg = m /\ Fragment(m, o).hdr.fragmentOffset = o
  BY <1>2, FragmentHeader
<1>6. CASE x < o
  BY <1>4, <1>5, <1>6 DEF NextToArrive, PacketBefore, SamePath
<1>7. CASE x > o
  <2>1. Fragment(m, x) \notin arrived
    BY <1>2, <1>4, <1>5, <1>7 DEF NextToArrive, PacketBefore, SamePath
  <2>2. QED
    BY <1>2, <1>7, <2>1
<1>8. CASE x = o
  BY <1>2, <1>8 DEF NextToArrive
<1>9. QED
  BY <1>2, <1>6, <1>7, <1>8

(* The buffer that the next fragment of m meets.                           *)
LEMMA BufferMet ==
  ASSUME TypeOK, PathInv, PortsApart, BufferInv, NEW h \in Hosts,
         NEW m \in sent, m.dst = h, NeedsFragmentation(m),
         NEW o \in FragmentsOf(m), NextToArrive(Fragment(m, o))
  PROVE  /\ o = 0 => FragmentKey(m) \notin DOMAIN fragbufRdma[h]
         /\ o # 0 => /\ FragmentKey(m) \in DOMAIN fragbufRdma[h]
                     /\ IsPrefix(fragbufRdma[h][FragmentKey(m)], m, o)
<1> DEFINE p == Fragment(m, o)
<1>1. m \in Message
  BY DEF TypeOK
<1>2. FragmentsOf(m) \subseteq Nat /\ 0 \in FragmentsOf(m)
  BY <1>1, FragmentNumbers
<1>3. p.msg = m /\ p \notin arrived
  BY <1>2, FragmentHeader DEF NextToArrive
<1>4. ArrivedBelow(m, o)
  BY FragmentArrives
<1> HIDE DEF p
<1>5. ASSUME o = 0, FragmentKey(m) \in DOMAIN fragbufRdma[h]
      PROVE  FALSE
  <2>1. PICK x \in Partial(h) : FragmentKey(m) = FragmentKey(x)
    BY <1>5 DEF BufferInv
  <2>2. x = m
    BY <1>3, <2>1, OtherKeys DEF p
  <2>3. \A y \in FragmentsOf(m) : Fragment(m, y) \notin arrived
    BY <1>2, <1>4, <1>5 DEF ArrivedBelow
  <2>4. QED
    BY <2>1, <2>2, <2>3 DEF Partial
<1>6. ASSUME o # 0
      PROVE  /\ FragmentKey(m) \in DOMAIN fragbufRdma[h]
             /\ IsPrefix(fragbufRdma[h][FragmentKey(m)], m, o)
  <2>1. Fragment(m, 0) \in arrived
    BY <1>2, <1>4, <1>6 DEF ArrivedBelow
  <2>2. m \in Partial(h)
    BY <1>2, <1>3, <2>1 DEF Partial, p
  <2>3. PICK n \in FragmentsOf(m) : /\ IsPrefix(fragbufRdma[h][FragmentKey(m)], m, n)
                                    /\ ArrivedBelow(m, n)
    BY <2>2 DEF BufferInv
  <2>4. ~(n < o) /\ ~(o < n)
    BY <1>2, <1>4, <2>3 DEF ArrivedBelow
  <2>5. n = o
    BY <1>2, <2>4
  <2>6. QED
    BY <2>2, <2>3, <2>5 DEF BufferInv
<1>7. QED
  BY <1>5, <1>6

(* What addFragment makes of the buffer.                                   *)
LEMMA Reassembled ==
  ASSUME TypeOK, PathInv, PortsApart, BufferInv, NEW h \in Hosts,
         NEW m \in sent, m.dst = h, NeedsFragmentation(m),
         NEW o \in FragmentsOf(m), NextToArrive(Fragment(m, o))
  PROVE  LET buf == Reassembly(fragbufRdma[h], Fragment(m, o))
         IN /\ buf.packet.msg = m
            /\ IsLastFragment(PayloadLength(m), o) =>
                 IsComplete(buf) /\ buf.bytes = OwnContent(m)
            /\ ~IsLastFragment(PayloadLength(m), o) =>
                 ~IsComplete(buf) /\ IsPrefix(buf, m, o + FragmentLength)
<1> DEFINE P == PayloadLength(m)
           F == FragmentLength
           n == ThisFragmentLength(P, o)
           p == Fragment(m, o)
           cur == CurBuf(fragbufRdma[h], FragmentKey(m))
           buf == WithFragment(cur, p)
           last == IsLastFragment(P, o)
<1>1. m \in Message
  BY DEF TypeOK
<1>2. P \in Nat /\ P > 0 /\ F \in Nat /\ F > 0 /\ o \in Nat /\ o < P
  BY <1>1, FragmentNumbers
<1>3. last => n = P - o
  BY DEF ThisFragmentLength
<1>4. ~last => n = F
  BY DEF ThisFragmentLength
<1>5. /\ p.msg = m /\ p.hdr.fragmentOffset = o /\ p.hdr.moreFragments = ~last
      /\ p.hdr.totalLengthField = RDMA_HEADER_LENGTH + n /\ Key(p) = FragmentKey(m)
  BY <1>2, FragmentHeader
<1>6. p.hdr.totalLengthField - RDMA_HEADER_LENGTH = n
  <2>1. n \in Int
    BY <1>2, <1>3, <1>4
  <2>2. RDMA_HEADER_LENGTH \in Int
    BY RdmaAssumption
  <2> HIDE DEF n, p
  <2>3. QED
    BY <1>5, <2>1, <2>2
<1>7. Reassembly(fragbufRdma[h], p) = buf
  BY <1>5 DEF Reassembly
<1>8. /\ DOMAIN cur.bytes = 0 .. o - 1
      /\ \A i \in 0 .. o - 1 : cur.bytes[i] = FirstBytes(m, o)[i]
      /\ cur.expectedLength = -1
      /\ o # 0 => cur.packet.msg = m
  <2>1. CASE o = 0
    <3>1. cur = NewDatagramBuffer
      BY <2>1, BufferMet DEF CurBuf
    <3>2. 0 .. o - 1 = {}
      BY <2>1
    <3> HIDE DEF cur
    <3>3. QED
      BY <2>1, <3>1, <3>2 DEF NewDatagramBuffer
  <2>2. CASE o # 0
    <3>1. IsPrefix(cur, m, o)
      BY <2>2, BufferMet DEF CurBuf
    <3>2. DOMAIN FirstBytes(m, o) = 0 .. o - 1
      BY DEF FirstBytes
    <3> HIDE DEF cur
    <3>3. QED
      BY <3>1, <3>2 DEF IsPrefix
  <2>3. QED
    BY <2>1, <2>2
<1> HIDE DEF cur
<1>9. buf.bytes = FirstBytes(m, o + n)
  BY <1>1, <1>8, FirstBytesGrow
<1>10. buf.expectedLength = IF last THEN o + n ELSE -1
  BY <1>5, <1>6, <1>8 DEF WithFragment
<1>11. buf.packet.msg = m
  BY <1>5, <1>8 DEF WithFragment
<1> HIDE DEF buf, p
<1>12. CASE last
  <2>1. o + n = P
    BY <1>2, <1>3, <1>12
  <2>2. buf.bytes = FirstBytes(m, P) /\ buf.expectedLength = P
    BY <1>9, <1>10, <1>12, <2>1
  <2>3. FirstBytes(m, P) = OwnContent(m)
    BY DEF FirstBytes, OwnContent
  <2>4. DOMAIN FirstBytes(m, P) = 0 .. P - 1
    BY DEF FirstBytes
  <2>5. IsComplete(buf)
    BY <1>2, <2>2, <2>4 DEF IsComplete
  <2>6. QED
    BY <1>7, <1>11, <1>12, <2>2, <2>3, <2>5 DEF p
<1>13. CASE ~last
  <2>1. buf.expectedLength = -1 /\ buf.bytes = FirstBytes(m, o + F)
    BY <1>4, <1>9, <1>10, <1>13
  <2>2. ~IsComplete(buf)
    BY <2>1 DEF IsComplete
  <2>3. QED
    BY <1>7, <1>11, <1>13, <2>1, <2>2 DEF p, IsPrefix
<1>14. QED
  BY <1>12, <1>13

(* The two outcomes of an arrival at h.  Either its message m is complete  *)
(* and is handed over, and m's buffer, if it had one, is gone; or m's      *)
(* buffer holds one fragment more.                                         *)
OthersKept(h, m) ==
  /\ \A g \in Hosts : g # h => fragbufRdma'[g] = fragbufRdma[g]
  /\ \A key : key # FragmentKey(m) =>
       /\ key \in DOMAIN fragbufRdma'[h] <=> key \in DOMAIN fragbufRdma[h]
       /\ key \in DOMAIN fragbufRdma[h] => fragbufRdma'[h][key] = fragbufRdma[h][key]

Finished(h, m) ==
  /\ HandleUpperPacket(m) \subseteq arrived'
  /\ delivered' = [delivered EXCEPT ![h] = Append(@, Delivery(m))]
  /\ FragmentKey(m) \notin DOMAIN fragbufRdma'[h]
  /\ OthersKept(h, m)

Continued(h, m) ==
  /\ NeedsFragmentation(m)
  /\ \E q \in HandleUpperPacket(m) : q \notin arrived'
  /\ UNCHANGED delivered
  /\ FragmentKey(m) \in DOMAIN fragbufRdma'[h]
  /\ \E n \in FragmentsOf(m) : /\ IsPrefix(fragbufRdma'[h][FragmentKey(m)], m, n)
                               /\ ArrivedBelow(m, n)'
  /\ OthersKept(h, m)

(* A packet that is not a fragment for the application carries its whole   *)
(* message: either Rdma left it whole, or it cut it into one piece.        *)
LEMMA NotAFragment ==
  ASSUME NEW m \in Message, NEW p \in HandleUpperPacket(m), ~IsRdmaFragment(p)
  PROVE  /\ HandleUpperPacket(m) = {p}
         /\ WholeContent(p) = OwnContent(m)
         /\ NeedsFragmentation(m) => p = Fragment(m, 0)
<1>1. CASE ~NeedsFragmentation(m)
  BY <1>1 DEF HandleUpperPacket, OwnContent
<1>2. CASE NeedsFragmentation(m)
  <2> DEFINE P == PayloadLength(m)
             F == FragmentLength
             H == RDMA_HEADER_LENGTH
  <2>1. P \in Nat /\ P > 0 /\ F \in Nat /\ F > 0 /\ H \in Nat
    BY <1>2, FragmentNumbers, RdmaAssumption
  <2>2. \A x : x \in FragmentsOf(m) <=> x \in Nat /\ x < P /\ x % F = 0
    BY <1>2, FragmentNumbers
  <2>3. HandleUpperPacket(m) = { Fragment(m, x) : x \in FragmentsOf(m) }
    BY <1>2 DEF HandleUpperPacket, FragmentsOf
  <2>4. PICK o \in FragmentsOf(m) : p = Fragment(m, o)
    BY <2>3
  <2>5. p.hdr.fragmentOffset = 0 /\ ~p.hdr.moreFragments
    BY DEF IsRdmaFragment
  <2>6. o = 0
    BY <2>2, <2>4, <2>5, FragmentHeader
  <2>7. IsLastFragment(P, 0)
    <3>1. p.hdr.moreFragments = ~IsLastFragment(P, 0)
      BY <2>4, <2>6, FragmentHeader
    <3>2. QED
      BY <2>5, <3>1
  <2>8. P <= F /\ p.len = P
    <3>1. P <= F
      BY <2>1, <2>7 DEF IsLastFragment
    <3>2. ThisFragmentLength(P, 0) = P
      BY <2>1, <2>7 DEF ThisFragmentLength
    <3>3. p.len = ThisFragmentLength(P, 0)
      BY <2>4, <2>6, FragmentHeader
    <3>4. QED
      BY <3>1, <3>2, <3>3
  <2> HIDE DEF P, F, H
  <2>9. \A i \in 0 .. P - 1 : i % F = i
    BY <2>1, <2>8
  <2>10. \A x \in FragmentsOf(m) : x = 0
    <3> SUFFICES ASSUME NEW x \in FragmentsOf(m)
                 PROVE  x = 0
      OBVIOUS
    <3>1. x \in 0 .. P - 1 /\ x % F = 0
      BY <2>1, <2>2
    <3>2. QED
      BY <2>9, <3>1
  <2>11. HandleUpperPacket(m) = {p}
    BY <2>3, <2>4, <2>6, <2>10
  <2>12. OwnContent(m) =
           [ i \in 0 .. P - 1 |-> PacketByte(Fragment(m, i - (i % F)), H + (i - (i - (i % F)))) ]
    BY <1>2 DEF OwnContent, P, F, H
  <2>13. \A i \in 0 .. P - 1 : i - (i % F) = 0 /\ H + (i - (i - (i % F))) = H + i
    BY <2>1, <2>9
  <2>14. OwnContent(m) = [ i \in 0 .. P - 1 |-> PacketByte(p, H + i) ]
    BY <2>4, <2>6, <2>12, <2>13
  <2>15. WholeContent(p) = [ i \in 0 .. P - 1 |-> PacketByte(p, H + i) ]
    BY <2>8 DEF WholeContent, H
  <2>16. QED
    BY <2>4, <2>6, <2>11, <2>14, <2>15
<1>3. QED
  BY <1>1, <1>2

(* An arrival has one of the two outcomes.                                 *)
LEMMA ArrivalOutcome ==
  ASSUME TypeOK, PathInv, PortsApart, BufferInv, NEW h \in Hosts,
         NEW p, NextToArrive(p), p.msg.dst = h,
         arrived' = arrived \cup {p}, ProcessRdma(h, p)
  PROVE  Finished(h, p.msg) \/ Continued(h, p.msg)
<1> DEFINE m == p.msg
           bufs == fragbufRdma[h]
           buf == Reassembly(bufs, p)
<1>1. m \in sent /\ m \in Message /\ p \in HandleUpperPacket(m)
  BY SentPacketFacts DEF NextToArrive
<1>2. DOMAIN fragbufRdma = Hosts
  BY DEF TypeOK
<1>3. CASE ~IsRdmaFragment(p)
  <2>1. /\ HandleUpperPacket(m) = {p} /\ WholeContent(p) = OwnContent(m)
        /\ NeedsFragmentation(m) => p = Fragment(m, 0)
    BY <1>1, <1>3, NotAFragment
  <2>2. fragbufRdma' = fragbufRdma
    BY <1>3 DEF ProcessRdma
  <2>3. delivered' = [delivered EXCEPT ![h] = Append(@, Delivery(m))]
    BY <1>3, <2>1 DEF ProcessRdma, CountReception, Delivery
  <2>4. FragmentKey(m) \notin DOMAIN bufs
    <3>1. CASE NeedsFragmentation(m)
      <4>1. 0 \in FragmentsOf(m) /\ p = Fragment(m, 0)
        BY <1>1, <2>1, <3>1, FragmentNumbers
      <4>2. NextToArrive(Fragment(m, 0))
        BY <4>1
      <4>3. m.dst = h
        OBVIOUS
      <4> HIDE DEF m
      <4>4. QED
        BY <1>1, <3>1, <4>1, <4>2, <4>3, BufferMet
    <3>2. CASE ~NeedsFragmentation(m)
      <4>1. ASSUME FragmentKey(m) \in DOMAIN bufs
            PROVE  FALSE
        <5>1. PICK x \in Partial(h) : FragmentKey(m) = FragmentKey(x)
          BY <4>1 DEF BufferInv
        <5>2. x = m
          BY <5>1, OtherKeys
        <5>3. QED
          BY <3>2, <5>1, <5>2 DEF Partial
      <4>2. QED
        BY <4>1
    <3>3. QED
      BY <3>1, <3>2
  <2>5. OthersKept(h, m)
    BY <2>2 DEF OthersKept
  <2>6. QED
    BY <2>1, <2>2, <2>3, <2>4, <2>5 DEF Finished
<1>4. CASE IsRdmaFragment(p)
  <2>1. /\ fragbufRdma' = [fragbufRdma EXCEPT ![h] = AddFragment(@, p)]
        /\ IF IsComplete(buf) THEN CountReception(h, buf.packet, buf.bytes)
                              ELSE UNCHANGED <<numReceived, delivered>>
    BY <1>4 DEF ProcessRdma
  <2>2. NeedsFragmentation(m)
    <3>1. CASE ~NeedsFragmentation(m)
      <4>1. p = WholePacket(m)
        BY <1>1, <3>1 DEF HandleUpperPacket
      <4>2. p.hdr.fragmentOffset = 0 /\ p.hdr.moreFragments = FALSE
        <5>1. \A x : /\ WholePacket(x).hdr.fragmentOffset = 0
                     /\ WholePacket(x).hdr.moreFragments = FALSE
          BY DEF WholePacket, MessageHeader, RdmaHeader
        <5> HIDE DEF m
        <5>2. QED
          BY <4>1, <5>1
      <4>3. QED
        BY <1>4, <4>2 DEF IsRdmaFragment
    <3>2. QED
      BY <3>1
  <2>3. PICK o \in FragmentsOf(m) : p = Fragment(m, o)
    BY <1>1, <2>2 DEF HandleUpperPacket, FragmentsOf
  <2> DEFINE last == IsLastFragment(PayloadLength(m), o)
  <2>4. /\ buf.packet.msg = m
        /\ last => IsComplete(buf) /\ buf.bytes = OwnContent(m)
        /\ ~last => ~IsComplete(buf) /\ IsPrefix(buf, m, o + FragmentLength)
    <3>1. NextToArrive(Fragment(m, o)) /\ m.dst = h
      BY <2>3
    <3>2. Reassembly(fragbufRdma[h], Fragment(m, o)) = buf
      BY <2>3
    <3> HIDE DEF m, buf
    <3>3. QED
      BY <1>1, <2>2, <3>1, <3>2, Reassembled
  <2>5. ArrivedBelow(m, o)
    <3>1. NextToArrive(Fragment(m, o))
      BY <2>3
    <3> HIDE DEF m
    <3>2. QED
      BY <1>1, <2>2, <3>1, FragmentArrives
  <2>6. \A x \in FragmentsOf(m) : Fragment(m, x) \in arrived' <=> x < o \/ x = o
    <3>1. \A x \in FragmentsOf(m) : Fragment(m, x) = Fragment(m, o) => x = o
      <4>1. FragmentsOf(m) \subseteq Nat
        BY <1>1, <2>2, FragmentNumbers
      <4>2. \A x \in FragmentsOf(m) : Fragment(m, x).hdr.fragmentOffset = x
        BY <4>1, FragmentHeader
      <4>3. QED
        BY <4>2
    <3>2. QED
      BY <2>3, <2>5, <3>1 DEF ArrivedBelow
  <2>7. Key(p) = FragmentKey(m)
    BY <1>1, <2>2, <2>3, FragmentNumbers, FragmentHeader
  <2>8. /\ fragbufRdma'[h] = AddFragment(bufs, p)
        /\ \A g \in Hosts : g # h => fragbufRdma'[g] = fragbufRdma[g]
    BY <1>2, <2>1
  <2>9. OthersKept(h, m)
    <3>1. \A key : key # FragmentKey(m) =>
            /\ key \in DOMAIN AddFragment(bufs, p) <=> key \in DOMAIN bufs
            /\ key \in DOMAIN bufs => AddFragment(bufs, p)[key] = bufs[key]
      <4> HIDE DEF m, bufs
      <4>1. QED
        BY <2>7, AddFragmentDomain, AddFragmentValue, ZenonT(30)
    <3>2. QED
      BY <2>8, <3>1 DEF OthersKept
  <2>10. CASE last
    <3>1. FragmentKey(m) \notin DOMAIN fragbufRdma'[h]
      BY <2>4, <2>7, <2>8, <2>10, AddFragmentDomain
    <3>2. delivered' = [delivered EXCEPT ![h] = Append(@, Delivery(m))]
      BY <2>1, <2>4, <2>10 DEF CountReception, Delivery
    <3>3. HandleUpperPacket(m) \subseteq arrived'
      <4>1. \A x \in FragmentsOf(m) : x < o \/ x = o
        <5> SUFFICES ASSUME NEW x \in FragmentsOf(m), x > o
                     PROVE  FALSE
          BY <1>1, <2>2, FragmentNumbers
        <5>1. x >= o + FragmentLength
          BY <1>1, <2>2, FragmentNeighbours
        <5>2. x < PayloadLength(m) /\ x \in Nat /\ o \in Nat
          BY <1>1, <2>2, FragmentNumbers
        <5>3. PayloadLength(m) \in Nat /\ FragmentLength \in Nat
          BY <1>1, <2>2, FragmentNumbers
        <5>4. QED
          BY <2>10, <5>1, <5>2, <5>3 DEF IsLastFragment
      <4>2. QED
        BY <2>2, <2>6, <4>1 DEF HandleUpperPacket, FragmentsOf
    <3>4. QED
      BY <2>9, <3>1, <3>2, <3>3 DEF Finished
  <2>11. CASE ~last
    <3> DEFINE n == o + FragmentLength
    <3>1. n \in FragmentsOf(m)
      BY <1>1, <2>2, <2>11, FragmentNeighbours
    <3>2. FragmentLength \in Nat /\ FragmentLength > 0 /\ FragmentsOf(m) \subseteq Nat
      BY <1>1, <2>2, FragmentNumbers
    <3>3. \A x \in FragmentsOf(m) : x < n <=> x < o \/ x = o
      <4>1. \A x \in FragmentsOf(m) : x > o => x >= n
        BY <1>1, <2>2, FragmentNeighbours
      <4>2. QED
        BY <3>2, <4>1
    <3>4. ArrivedBelow(m, n)'
      BY <2>6, <3>3 DEF ArrivedBelow
    <3>5. Fragment(m, n) \in HandleUpperPacket(m) /\ Fragment(m, n) \notin arrived'
      <4>1. ~(n < n)
        BY <3>2
      <4>2. QED
        BY <2>2, <2>6, <3>1, <3>3, <4>1 DEF HandleUpperPacket, FragmentsOf
    <3>6. delivered' = delivered
      BY <2>1, <2>4, <2>11
    <3>7. /\ FragmentKey(m) \in DOMAIN fragbufRdma'[h]
          /\ IsPrefix(fragbufRdma'[h][FragmentKey(m)], m, n)
      <4>1. ~IsComplete(buf) /\ IsPrefix(buf, m, n)
        BY <2>4, <2>11
      <4> HIDE DEF m, bufs, n
      <4>2. FragmentKey(m) \in DOMAIN AddFragment(bufs, p)
        BY <2>7, <4>1, AddFragmentDomain
      <4>3. AddFragment(bufs, p)[FragmentKey(m)] = buf
        BY <2>7, <4>2, AddFragmentValue
      <4>4. QED
        BY <2>8, <4>1, <4>2, <4>3
    <3>8. QED
      BY <2>2, <2>9, <3>1, <3>4, <3>5, <3>6, <3>7 DEF Continued
  <2>12. QED
    BY <2>10, <2>11
<1>5. QED
  BY <1>3, <1>4

-----------------------------------------------------------------------------
(***************************************************************************)
(* BufferInv and DeliveryInv are inductive.                                *)
(***************************************************************************)

(* What arrives of one message is nothing to another.                      *)
LEMMA OtherFragments ==
  ASSUME NEW p, arrived' = arrived \cup {p}, NEW x, x # p.msg
  PROVE  /\ \A q \in HandleUpperPacket(x) : q \in arrived' <=> q \in arrived
         /\ \A o \in FragmentsOf(x) : Fragment(x, o) \in arrived' <=> Fragment(x, o) \in arrived
<1>1. \A q \in HandleUpperPacket(x) : q.msg = x
  BY PacketsOfMessage
<1>2. \A o : Fragment(x, o).msg = x
  BY DEF Fragment
<1>3. QED
  BY <1>1, <1>2

LEMMA OtherPartial ==
  ASSUME NEW p, arrived' = arrived \cup {p}, sent' = sent, NEW g, NEW x, x # p.msg
  PROVE  x \in Partial(g)' <=> x \in Partial(g)
<1>1. \A o \in FragmentsOf(x) : Fragment(x, o) \in arrived' <=> Fragment(x, o) \in arrived
  BY OtherFragments
<1>2. x \in Partial(g)' <=> /\ x \in sent' /\ x.dst = g /\ NeedsFragmentation(x)
                            /\ \E o \in FragmentsOf(x) : Fragment(x, o) \in arrived'
                            /\ \E o \in FragmentsOf(x) : Fragment(x, o) \notin arrived'
  BY DEF Partial
<1>3. x \in Partial(g) <=> /\ x \in sent /\ x.dst = g /\ NeedsFragmentation(x)
                           /\ \E o \in FragmentsOf(x) : Fragment(x, o) \in arrived
                           /\ \E o \in FragmentsOf(x) : Fragment(x, o) \notin arrived
  BY DEF Partial
<1>4. QED
  BY <1>1, <1>2, <1>3

(* Either outcome keeps the buffers right.                                 *)
LEMMA ArrivalBuffers ==
  ASSUME TypeOK, PathInv, PortsApart, BufferInv, NEW h \in Hosts,
         NEW p, NextToArrive(p), p.msg.dst = h,
         arrived' = arrived \cup {p}, sent' = sent,
         Finished(h, p.msg) \/ Continued(h, p.msg)
  PROVE  BufferInv'
<1> DEFINE m == p.msg
           K == FragmentKey(m)
<1>1. m \in sent /\ m \in Message /\ p \in HandleUpperPacket(m)
  BY SentPacketFacts DEF NextToArrive
<1>2. OthersKept(h, m)
  BY DEF Finished, Continued
<1>3. \A g : \A x : x # m => (x \in Partial(g)' <=> x \in Partial(g))
  BY OtherPartial
<1>4. \A x \in Partial(h) : x # m => FragmentKey(x) # K
  BY OtherKeys
<1>5. \A x : x # m => \A n : ArrivedBelow(x, n)' <=> ArrivedBelow(x, n)
  BY OtherFragments DEF ArrivedBelow
<1>6. \A g : m \in Partial(g) \/ m \in Partial(g)' => g = h
  BY DEF Partial
<1>7. m \in Partial(h)' <=> Continued(h, m)
  <2>1. CASE Finished(h, m)
    <3>1. ~Continued(h, m)
      BY <2>1 DEF Finished, Continued
    <3>2. NeedsFragmentation(m) => \A o \in FragmentsOf(m) : Fragment(m, o) \in arrived'
      BY <2>1 DEF Finished, HandleUpperPacket, FragmentsOf
    <3>3. m \notin Partial(h)'
      BY <3>2 DEF Partial
    <3>4. QED
      BY <3>1, <3>3
  <2>2. CASE Continued(h, m)
    <3>1. NeedsFragmentation(m) /\ \E q \in HandleUpperPacket(m) : q \notin arrived'
      BY <2>2 DEF Continued
    <3>2. \E o \in FragmentsOf(m) : Fragment(m, o) \notin arrived'
      BY <3>1 DEF HandleUpperPacket, FragmentsOf
    <3>3. \E o \in FragmentsOf(m) : Fragment(m, o) \in arrived'
      <4>1. p \in arrived'
        OBVIOUS
      <4>2. \E o \in FragmentsOf(m) : p = Fragment(m, o)
        BY <1>1, <3>1 DEF HandleUpperPacket, FragmentsOf
      <4>3. QED
        BY <4>1, <4>2
    <3>4. m \in Partial(h)'
      BY <1>1, <3>1, <3>2, <3>3 DEF Partial
    <3>5. QED
      BY <2>2, <3>4
  <2>3. QED
    BY <2>1, <2>2
<1>8. K \in DOMAIN fragbufRdma'[h] => Continued(h, m)
  BY DEF Finished
<1> SUFFICES ASSUME NEW g \in Hosts
             PROVE  /\ \A key \in DOMAIN fragbufRdma'[g] :
                         \E x \in Partial(g)' : key = FragmentKey(x)
                    /\ \A x \in Partial(g)' :
                         /\ FragmentKey(x) \in DOMAIN fragbufRdma'[g]
                         /\ \E n \in FragmentsOf(x) :
                              /\ IsPrefix(fragbufRdma'[g][FragmentKey(x)], x, n)
                              /\ ArrivedBelow(x, n)'
  BY DEF BufferInv
<1> HIDE DEF m, K
<1>9. /\ \A key \in DOMAIN fragbufRdma[g] : \E x \in Partial(g) : key = FragmentKey(x)
      /\ \A x \in Partial(g) :
           /\ FragmentKey(x) \in DOMAIN fragbufRdma[g]
           /\ \E n \in FragmentsOf(x) : /\ IsPrefix(fragbufRdma[g][FragmentKey(x)], x, n)
                                        /\ ArrivedBelow(x, n)
  BY DEF BufferInv
<1>10. CASE g # h
  <2>1. fragbufRdma'[g] = fragbufRdma[g]
    BY <1>2, <1>10 DEF OthersKept
  <2>2. \A x \in Partial(g)' : x # m /\ x \in Partial(g)
    BY <1>3, <1>6, <1>10
  <2>3. \A x \in Partial(g) : x # m /\ x \in Partial(g)'
    BY <1>3, <1>6, <1>10
  <2>4. QED
    BY <1>5, <1>9, <2>1, <2>2, <2>3
<1>11. CASE g = h
  <2>1. ASSUME NEW key \in DOMAIN fragbufRdma'[h]
        PROVE  \E x \in Partial(h)' : key = FragmentKey(x)
    <3>1. CASE key = K
      BY <1>7, <1>8, <2>1, <3>1 DEF K
    <3>2. CASE key # K
      <4>1. key \in DOMAIN fragbufRdma[h]
        BY <1>2, <2>1, <3>2 DEF OthersKept, K
      <4>2. PICK x \in Partial(h) : key = FragmentKey(x)
        BY <1>9, <1>11, <4>1
      <4>3. x # m
        BY <3>2, <4>2 DEF K
      <4>4. QED
        BY <1>3, <4>2, <4>3
    <3>3. QED
      BY <3>1, <3>2
  <2>2. ASSUME NEW x \in Partial(h)'
        PROVE  /\ FragmentKey(x) \in DOMAIN fragbufRdma'[h]
               /\ \E n \in FragmentsOf(x) :
                    /\ IsPrefix(fragbufRdma'[h][FragmentKey(x)], x, n)
                    /\ ArrivedBelow(x, n)'
    <3>1. CASE x = m
      BY <1>7, <3>1 DEF Continued
    <3>2. CASE x # m
      <4>1. x \in Partial(h) /\ FragmentKey(x) # K
        BY <1>3, <1>4, <3>2
      <4>2. /\ FragmentKey(x) \in DOMAIN fragbufRdma[h]
            /\ \E n \in FragmentsOf(x) : /\ IsPrefix(fragbufRdma[h][FragmentKey(x)], x, n)
                                         /\ ArrivedBelow(x, n)
        BY <1>9, <1>11, <4>1
      <4>3. /\ FragmentKey(x) \in DOMAIN fragbufRdma'[h]
            /\ fragbufRdma'[h][FragmentKey(x)] = fragbufRdma[h][FragmentKey(x)]
        BY <1>2, <4>1, <4>2 DEF OthersKept, K
      <4>4. QED
        BY <1>5, <3>2, <4>2, <4>3
    <3>3. QED
      BY <3>1, <3>2
  <2>3. QED
    BY <1>11, <2>1, <2>2
<1>12. QED
  BY <1>10, <1>11

(* Another host's arrivals, and incomplete ones, change nothing.           *)
LEMMA NothingDelivered ==
  ASSUME NEW h \in Hosts, DeliveryAt(h), NEW p,
         arrived' = arrived \cup {p}, sent' = sent, delivered'[h] = delivered[h],
         p.msg.dst = h => \E q \in HandleUpperPacket(p.msg) : q \notin arrived'
  PROVE  DeliveryAt(h)'
<1>1. \A m \in sent : m.dst = h /\ HandleUpperPacket(m) \subseteq arrived' =>
        HandleUpperPacket(m) \subseteq arrived
  <2> SUFFICES ASSUME NEW m \in sent, m.dst = h, HandleUpperPacket(m) \subseteq arrived'
               PROVE  HandleUpperPacket(m) \subseteq arrived
    OBVIOUS
  <2>1. m # p.msg
    OBVIOUS
  <2>2. QED
    BY <2>1, OtherFragments
<1>2. QED
  BY <1>1 DEF DeliveryAt

(* The message completed by an arrival comes after all those of its sender *)
(* that were handed over.                                                  *)
LEMMA OneDelivered ==
  ASSUME TypeOK, PathInv, NEW h \in Hosts, DeliveryAt(h),
         NEW p, NextToArrive(p), p.msg.dst = h,
         arrived' = arrived \cup {p}, sent' = sent, Finished(h, p.msg)
  PROVE  DeliveryAt(h)'
<1> DEFINE m == p.msg
           s == delivered[h]
           t == Append(s, Delivery(m))
<1>1. m \in sent /\ m \in Message /\ p \in HandleUpperPacket(m) /\ p \notin arrived
  BY SentPacketFacts DEF NextToArrive
<1>2. delivered'[h] = t
  BY DEF Finished, TypeOK
<1>3. Delivery(m) \in Deliveries
  BY <1>1 DEF Deliveries
<1>4. s \in Seq(Deliveries)
  BY DEF DeliveryAt
<1>5. /\ t \in Seq(Deliveries) /\ Len(t) = Len(s) + 1 /\ Len(s) \in Nat
      /\ \A i \in 1 .. Len(s) : t[i] = s[i]
      /\ t[Len(s) + 1] = Delivery(m)
  BY <1>3, <1>4, AppendProperties, LenProperties
<1>6. Delivery(m).packet = m
  BY DEF Delivery
<1>7. HandleUpperPacket(m) \subseteq arrived'
  BY DEF Finished
<1>8. \A i \in 1 .. Len(s) : /\ s[i].packet \in sent /\ s[i].packet.dst = h
                             /\ HandleUpperPacket(s[i].packet) \subseteq arrived
                             /\ s[i] = Delivery(s[i].packet)
  BY DEF DeliveryAt
<1>9. \A i \in 1 .. Len(s) : s[i].packet.src = m.src => s[i].packet.seq < m.seq
  <2> SUFFICES ASSUME NEW i \in 1 .. Len(s), s[i].packet.src = m.src
               PROVE  s[i].packet.seq < m.seq
    OBVIOUS
  <2> DEFINE x == s[i].packet
  <2>1. x \in sent /\ x.dst = h /\ HandleUpperPacket(x) \subseteq arrived
    BY <1>8
  <2>2. x # m
    BY <1>1, <2>1
  <2>3. SamePath(x, m)
    BY <2>1 DEF SamePath
  <2>4. x \in Message /\ x.seq \in Nat /\ m.seq \in Nat
    BY <1>1, <2>1 DEF TypeOK, Message
  <2> HIDE DEF x
  <2>5. PICK q \in HandleUpperPacket(x) : TRUE
    BY <2>4, HasPacket
  <2>6. x.seq # m.seq /\ (x.seq > m.seq => q \notin arrived)
    BY <2>1, <2>2, <2>3, <2>5, OtherMessages
  <2>7. q \in arrived
    BY <2>1, <2>5
  <2>8. x.seq < m.seq
    BY <2>4, <2>6, <2>7
  <2>9. QED
    BY <2>8 DEF x
<1>10. \A x \in sent : x # m /\ HandleUpperPacket(x) \subseteq arrived' =>
         HandleUpperPacket(x) \subseteq arrived
  BY OtherFragments
<1> HIDE DEF m, s, t
<1>11. \A i \in 1 .. Len(t) : i \in 1 .. Len(s) \/ i = Len(s) + 1
  BY <1>5
<1>12. \A i \in 1 .. Len(t) : /\ t[i].packet \in sent /\ t[i].packet.dst = h
                              /\ HandleUpperPacket(t[i].packet) \subseteq arrived'
                              /\ t[i] = Delivery(t[i].packet)
  <2> SUFFICES ASSUME NEW i \in 1 .. Len(t)
               PROVE  /\ t[i].packet \in sent /\ t[i].packet.dst = h
                      /\ HandleUpperPacket(t[i].packet) \subseteq arrived'
                      /\ t[i] = Delivery(t[i].packet)
    OBVIOUS
  <2>1. CASE i \in 1 .. Len(s)
    BY <1>5, <1>8, <2>1
  <2>2. CASE i = Len(s) + 1
    BY <1>1, <1>5, <1>6, <1>7, <2>2 DEF m
  <2>3. QED
    BY <1>11, <2>1, <2>2
<1>13. \A i, j \in 1 .. Len(t) : i < j /\ t[i].packet.src = t[j].packet.src
         => t[i].packet.seq < t[j].packet.seq
  <2> SUFFICES ASSUME NEW i \in 1 .. Len(t), NEW j \in 1 .. Len(t), i < j,
                      t[i].packet.src = t[j].packet.src
               PROVE  t[i].packet.seq < t[j].packet.seq
    OBVIOUS
  <2>1. i \in 1 .. Len(s) /\ t[i] = s[i]
    BY <1>5
  <2>2. CASE j \in 1 .. Len(s)
    <3>1. t[j] = s[j]
      BY <1>5, <2>2
    <3>2. QED
      BY <2>1, <2>2, <3>1 DEF DeliveryAt, s
  <2>3. CASE j = Len(s) + 1
    BY <1>5, <1>6, <1>9, <2>1, <2>3
  <2>4. QED
    BY <1>11, <2>2, <2>3
<1>14. \A x \in sent : x.dst = h /\ HandleUpperPacket(x) \subseteq arrived' =>
         \E i \in 1 .. Len(t) : t[i].packet = x
  <2> SUFFICES ASSUME NEW x \in sent, x.dst = h, HandleUpperPacket(x) \subseteq arrived'
               PROVE  \E i \in 1 .. Len(t) : t[i].packet = x
    OBVIOUS
  <2>1. CASE x = m
    <3>1. Len(s) + 1 \in 1 .. Len(t)
      BY <1>5
    <3>2. QED
      BY <1>5, <1>6, <2>1, <3>1
  <2>2. CASE x # m
    <3>1. PICK i \in 1 .. Len(s) : s[i].packet = x
      BY <1>10, <2>2 DEF DeliveryAt, s
    <3>2. i \in 1 .. Len(t) /\ t[i] = s[i]
      BY <1>5
    <3>3. QED
      BY <3>1, <3>2
  <2>3. QED
    BY <2>1, <2>2
<1>15. QED
  BY <1>2, <1>5, <1>12, <1>13, <1>14 DEF DeliveryAt

(* Either outcome keeps what was handed over right.                        *)
LEMMA ArrivalDelivery ==
  ASSUME TypeOK, PathInv, DeliveryInv, NEW h \in Hosts,
         NEW p, NextToArrive(p), p.msg.dst = h,
         arrived' = arrived \cup {p}, sent' = sent,
         Finished(h, p.msg) \/ Continued(h, p.msg)
  PROVE  DeliveryInv'
<1> SUFFICES ASSUME NEW g \in Hosts
             PROVE  DeliveryAt(g)'
  BY DEF DeliveryInv
<1>1. DeliveryAt(g)
  BY DEF DeliveryInv
<1>2. CASE g = h /\ Finished(h, p.msg)
  BY <1>1, <1>2, OneDelivered
<1>3. CASE g # h
  <2>1. delivered'[g] = delivered[g]
    BY <1>3 DEF Finished, Continued, TypeOK
  <2>2. QED
    BY <1>1, <1>3, <2>1, NothingDelivered
<1>4. CASE g = h /\ Continued(h, p.msg)
  <2>1. /\ delivered'[g] = delivered[g]
        /\ \E q \in HandleUpperPacket(p.msg) : q \notin arrived'
    BY <1>4 DEF Continued
  <2>2. QED
    BY <1>1, <2>1, NothingDelivered
<1>5. QED
  BY <1>2, <1>3, <1>4

(* Sending, and steps that move no packet to an application.               *)
LEMMA QuietReception ==
  ASSUME TypeOK, BufferInv, DeliveryInv,
         UNCHANGED <<arrived, fragbufRdma, delivered>>,
         sent' = sent \/ (\E m : /\ m \in Message /\ sent' = sent \cup {m}
                                 /\ \A q \in HandleUpperPacket(m) : q \notin arrived)
  PROVE  BufferInv' /\ DeliveryInv'
<1>1. \A m \in sent' : m \in Message
  BY DEF TypeOK
<1>2. \A m \in sent' : m \in sent \/ \A q \in HandleUpperPacket(m) : q \notin arrived
  OBVIOUS
<1>3. \A h : Partial(h)' = Partial(h)
  <2> SUFFICES ASSUME NEW h, NEW m
               PROVE  m \in Partial(h)' <=> m \in Partial(h)
    BY DEF Partial
  <2>1. m \in sent => m \in sent'
    OBVIOUS
  <2>2. /\ m \in sent' /\ NeedsFragmentation(m)
        /\ \E o \in FragmentsOf(m) : Fragment(m, o) \in arrived
        => m \in sent
    BY <1>2 DEF HandleUpperPacket, FragmentsOf
  <2>3. QED
    BY <2>1, <2>2 DEF Partial
<1>4. \A m, n : ArrivedBelow(m, n)' <=> ArrivedBelow(m, n)
  BY DEF ArrivedBelow
<1>5. BufferInv'
  BY <1>3, <1>4 DEF BufferInv
<1>6. ASSUME NEW h \in Hosts
      PROVE  DeliveryAt(h)'
  <2>1. \A m \in sent' : HandleUpperPacket(m) \subseteq arrived => m \in sent
    <3> SUFFICES ASSUME NEW m \in sent', HandleUpperPacket(m) \subseteq arrived
                 PROVE  m \in sent
      OBVIOUS
    <3>1. PICK q \in HandleUpperPacket(m) : TRUE
      BY <1>1, HasPacket
    <3>2. QED
      BY <1>2, <3>1
  <2>2. sent \subseteq sent'
    OBVIOUS
  <2>3. DeliveryAt(h)
    BY DEF DeliveryInv
  <2>4. QED
    BY <2>1, <2>2, <2>3 DEF DeliveryAt
<1>7. QED
  BY <1>5, <1>6 DEF DeliveryInv

-----------------------------------------------------------------------------
(***************************************************************************)
(* The theorems.                                                           *)
(***************************************************************************)
LEMMA InitDelivery == Init => Inv
<1> SUFFICES ASSUME Init
             PROVE  Inv
  OBVIOUS
<1>1. sent = {}
  BY DEF Init
<1>2. \A h \in Hosts : DOMAIN fragbufRdma[h] = {}
  BY DEF Init, NoBuffers
<1>3. \A h : Partial(h) = {}
  BY <1>1 DEF Partial
<1>4. BufferInv
  BY <1>2, <1>3 DEF BufferInv
<1>5. ASSUME NEW h \in Hosts
      PROVE  DeliveryAt(h)
  <2>1. delivered[h] = <<>>
    BY DEF Init
  <2>2. delivered[h] \in Seq(Deliveries) /\ Len(delivered[h]) = 0
    BY <2>1, EmptySeq
  <2>3. 1 .. Len(delivered[h]) = {}
    BY <2>2
  <2>4. QED
    BY <1>1, <2>2, <2>3 DEF DeliveryAt
<1>6. QED
  BY <1>4, <1>5, InitPath DEF DeliveryInv, Inv

(* Receiving a frame.                                                      *)
LEMMA ReceiveDelivery ==
  ASSUME TypeOK, ReceptionAccounting, PortsApart, Inv, NEW h \in Hosts, Receive(h)
  PROVE  Inv'
<1>1. PICK d \in network : /\ d.pkt.msg.dst = h /\ IsNext(d)
                           /\ network' = network \ {d}
                           /\ ProcessPacket(h, d)
                           /\ UNCHANGED <<appVars, rdmaNumSent, failed, sent, bounds>>
  BY DEF Receive
<1>2. sent' = sent /\ operationalState' = operationalState
  BY <1>1 DEF appVars
<1>3. PathInv /\ BufferInv /\ DeliveryInv
  BY DEF Inv
<1>4. PathInv'
  BY <1>1, <1>2, <1>3, ReceivePath
<1>5. CASE CompletesIpv4(h, d)
  <2>1. NextToArrive(d.pkt)
    BY <1>1, <1>3, ReceivedIsNext
  <2>2. arrived' = arrived \cup {d.pkt} /\ ProcessRdma(h, d.pkt)
    BY <1>1, <1>5 DEF ProcessPacket
  <2>3. Finished(h, d.pkt.msg) \/ Continued(h, d.pkt.msg)
    BY <1>1, <1>3, <2>1, <2>2, ArrivalOutcome
  <2>4. BufferInv'
    BY <1>1, <1>2, <1>3, <2>1, <2>2, <2>3, ArrivalBuffers
  <2>5. DeliveryInv'
    BY <1>1, <1>2, <1>3, <2>1, <2>2, <2>3, ArrivalDelivery
  <2>6. QED
    BY <1>4, <2>4, <2>5 DEF Inv
<1>6. CASE ~CompletesIpv4(h, d)
  <2>1. UNCHANGED <<arrived, fragbufRdma, delivered>>
    BY <1>1, <1>6 DEF ProcessPacket
  <2>2. QED
    BY <1>2, <1>3, <1>4, <2>1, QuietReception DEF Inv
<1>7. QED
  BY <1>5, <1>6

(* Sending a message.                                                      *)
LEMMA SendDelivery ==
  ASSUME TypeOK, ReceptionAccounting, Inv, NEW h \in Hosts, ProcessSend(h)
  PROVE  Inv'
<1>1. /\ UNCHANGED <<operationalState, fragbufIpv4, fragbufRdma, arrived, delivered>>
      /\ UNCHANGED <<sent, network>> \/ \E m : Adds(m)
  BY SendAdds
<1>2. PathInv /\ BufferInv /\ DeliveryInv
  BY DEF Inv
<1>3. CASE UNCHANGED <<sent, network>>
  <2>1. AllUp'
    BY <1>1, <1>2 DEF PathInv, AllUp
  <2>2. PathInv'
    BY <1>1, <1>2, <1>3, <2>1, QuietPath
  <2>3. QED
    BY <1>1, <1>2, <1>3, <2>2, QuietReception DEF Inv
<1>4. CASE \E m : Adds(m)
  <2>1. PICK m : Adds(m)
    BY <1>4
  <2>2. PathInv'
    BY <1>1, <1>2, <2>1, AddsPath
  <2>3. m \in Message /\ sent' = sent \cup {m} /\ m \notin sent
    BY <2>1 DEF Adds
  <2>4. \A q \in HandleUpperPacket(m) : q \notin arrived
    BY <2>3, PacketsOfMessage DEF ReceptionAccounting
  <2>5. QED
    BY <1>1, <1>2, <2>2, <2>3, <2>4, QuietReception DEF Inv
<1>5. QED
  BY <1>1, <1>3, <1>4

(* Where nothing is lost, Inv is inductive.                                *)
LEMMA NextDelivery ==
  ASSUME NoLoss, PortsApart
  PROVE  TypeOK /\ ReceptionAccounting /\ Inv /\ [Next]_vars => Inv'
<1> SUFFICES ASSUME TypeOK, ReceptionAccounting, Inv, [Next]_vars
             PROVE  Inv'
  OBVIOUS
<1>1. PathInv /\ BufferInv /\ DeliveryInv /\ AllUp
  BY DEF Inv, PathInv
<1>2. losses = 0 /\ lifecycleOps = 0
  BY DEF TypeOK, NoLoss
<1>3. ASSUME UNCHANGED <<operationalState, sent, network, arrived, fragbufIpv4,
                         fragbufRdma, delivered>>
      PROVE  Inv'
  <2>1. AllUp'
    BY <1>1, <1>3 DEF AllUp
  <2>2. PathInv'
    BY <1>1, <1>3, <2>1, QuietPath
  <2>3. QED
    BY <1>1, <1>3, <2>2, QuietReception DEF Inv
<1>4. ASSUME NEW h \in Hosts, HandleStart(h) \/ HandleSend(h)
      PROVE  Inv'
  BY <1>4, SendDelivery DEF HandleStart, HandleSend
<1>5. ASSUME NEW h \in Hosts, HandleStartNoDestination(h) \/ HandleStop(h)
      PROVE  Inv'
  BY <1>3, <1>5 DEF HandleStartNoDestination, HandleStop, history
<1>6. ASSUME NEW h \in Hosts, HandleStartOperation(h) \/ HandleActiveOperationTimeout(h)
                              \/ HandleStopOperation(h) \/ HandleCrashOperation(h)
      PROVE  FALSE
  <2>1. operationalState[h] = "OPERATING"
    BY <1>1 DEF AllUp
  <2>2. ~(lifecycleOps < MaxLifecycle)
    BY <1>2 DEF NoLoss
  <2>3. QED
    BY <1>6, <2>1, <2>2 DEF HandleStartOperation, HandleActiveOperationTimeout,
                            HandleStopOperation, HandleCrashOperation
<1>7. ASSUME NEW h \in Hosts, Receive(h)
      PROVE  Inv'
  BY <1>7, ReceiveDelivery
<1>8. ASSUME Lose
      PROVE  FALSE
  <2>1. PICK d \in network : losses < MaxLosses \/ operationalState[d.pkt.msg.dst] = "NOT_OPERATING"
    BY <1>8 DEF Lose
  <2>2. d.pkt.msg.dst \in Hosts
    BY DEF TypeOK, Datagram, Packet, Message
  <2>3. operationalState[d.pkt.msg.dst] = "OPERATING"
    BY <1>1, <2>2 DEF AllUp
  <2>4. ~(losses < MaxLosses)
    BY <1>2 DEF NoLoss
  <2>5. QED
    BY <2>1, <2>3, <2>4
<1>9. CASE UNCHANGED vars
  BY <1>3, <1>9 DEF vars, appVars, history
<1>10. QED
  BY <1>4, <1>5, <1>6, <1>7, <1>8, <1>9 DEF Next, HostStep

(* The invariant, in every behaviour without loss.                         *)
THEOREM DeliveryInvariantHolds ==
  ASSUME NoLoss, PortsApart
  PROVE  Spec => []Inv
<1>1. TypeOK /\ ReceptionAccounting /\ Inv /\ [Next]_vars => Inv'
  BY NextDelivery
<1>2. QED
  BY <1>1, TypeCorrect, AccountingHolds, InitDelivery, PTL DEF Spec

(* All bytes of a message handed over are its own.                         *)
LEMMA OwnBytes ==
  ASSUME NEW m
  PROVE  From(Delivery(m), m)
<1>1. \A o : Fragment(m, o).msg = m
  BY DEF Fragment
<1>2. WholePacket(m).msg = m
  BY DEF WholePacket
<1>3. \A i \in DOMAIN OwnContent(m) : OwnContent(m)[i].msg = m
  <2>1. CASE NeedsFragmentation(m)
    BY <1>1, <2>1 DEF OwnContent, PacketByte
  <2>2. CASE ~NeedsFragmentation(m)
    BY <1>2, <2>2 DEF OwnContent, WholeContent, PacketByte
  <2>3. QED
    BY <2>1, <2>2
<1>4. QED
  BY <1>3 DEF From, Delivery

(* Without loss RdmaBasicApp counts the messages of each sender in the     *)
(* order in which sendPacket sent them, each at most once, with no foreign *)
(* byte in it.                                                             *)
THEOREM DeliveredInOrderHolds ==
  ASSUME NoLoss, PortsApart
  PROVE  Spec => []DeliveredInOrder
<1>1. Inv => DeliveredInOrder
  <2> SUFFICES ASSUME Inv, NEW h \in Hosts,
                      NEW i \in 1 .. Len(delivered[h]), NEW j \in 1 .. Len(delivered[h])
               PROVE  /\ From(delivered[h][i], delivered[h][i].packet)
                      /\ i < j /\ delivered[h][i].packet.src = delivered[h][j].packet.src
                           => delivered[h][i].packet.seq < delivered[h][j].packet.seq
    BY DEF DeliveredInOrder
  <2>1. DeliveryAt(h)
    BY DEF Inv, DeliveryInv
  <2>2. delivered[h][i] = Delivery(delivered[h][i].packet)
    BY <2>1 DEF DeliveryAt
  <2>3. From(delivered[h][i], delivered[h][i].packet)
    BY <2>2, OwnBytes
  <2>4. QED
    BY <2>1, <2>3 DEF DeliveryAt
<1>2. QED
  BY <1>1, DeliveryInvariantHolds, PTL

(* Without loss a message whose packets have all reached processPacket has *)
(* been counted, and what was handed over is what its own packets make of  *)
(* it, each byte in its place.                                             *)
THEOREM ArrivedIsDeliveredHolds ==
  ASSUME NoLoss, PortsApart
  PROVE  Spec => []ArrivedIsDelivered
<1>1. TypeOK /\ Inv => ArrivedIsDelivered
  <2> SUFFICES ASSUME TypeOK, Inv, NEW m \in sent, HandleUpperPacket(m) \subseteq arrived
               PROVE  \E i \in 1 .. Len(delivered[m.dst]) : delivered[m.dst][i] = Delivery(m)
    BY DEF ArrivedIsDelivered, Delivery
  <2>1. m.dst \in Hosts
    BY DEF TypeOK, Message
  <2>2. DeliveryAt(m.dst)
    BY <2>1 DEF Inv, DeliveryInv
  <2>3. PICK i \in 1 .. Len(delivered[m.dst]) : delivered[m.dst][i].packet = m
    BY <2>2 DEF DeliveryAt
  <2>4. delivered[m.dst][i] = Delivery(m)
    BY <2>2, <2>3 DEF DeliveryAt
  <2>5. QED
    BY <2>4
<1>2. QED
  BY <1>1, TypeCorrect, DeliveryInvariantHolds, PTL

(* Under the same conditions what addFragment returns is, as its header    *)
(* file says, one full datagram.                                           *)
THEOREM FullDatagramHolds ==
  ASSUME NoLoss, PortsApart
  PROVE  Spec => []FullDatagram
<1>1. Inv => FullDatagram
  <2> SUFFICES ASSUME Inv, NEW h \in Hosts, NEW i \in 1 .. Len(delivered[h])
               PROVE  \E m \in sent : m.dst = h /\ From(delivered[h][i], m)
    BY DEF FullDatagram
  <2> DEFINE m == delivered[h][i].packet
  <2>1. m \in sent /\ m.dst = h /\ delivered[h][i] = Delivery(m)
    BY DEF Inv, DeliveryInv, DeliveryAt
  <2> HIDE DEF m
  <2>2. From(delivered[h][i], m)
    BY <2>1, OwnBytes
  <2>3. QED
    BY <2>1, <2>2
<1>2. QED
  BY <1>1, DeliveryInvariantHolds, PTL

=============================================================================
