-------------------------- MODULE UdpSocketsProofs --------------------------
(***************************************************************************)
(* The tables of Udp agree, two sockets own an address and port only if    *)
(* both have set reuseAddr, the range of ephemeral ports is exhausted only *)
(* when it is, and packets go to the sockets they may go to: for any       *)
(* number of sockets, any addresses, and any ports.  The heart is the      *)
(* order of a port's list: all but its first socket came by a bind.        *)
(***************************************************************************)
EXTENDS UdpSockets, SequenceTheorems, WellFoundedInduction, NaturalsInduction, TLAPS

(* Each socket of the list of port p is there once, and has that port.     *)
Belongs(list, p, ids) ==
  /\ \A i, j \in DOMAIN list : list[i] = list[j] => i = j
  /\ \A i \in DOMAIN list : ids[list[i]] # NoSocket /\ ids[list[i]].localPort = p

Listed(s, map, ids) ==
  /\ ids[s].localPort \in DOMAIN map
  /\ \E i \in DOMAIN map[ids[s].localPort] : map[ids[s].localPort][i] = s

(* A socket t that follows s in a list came by a bind: if it could see s   *)
(* then, it reuses its address; and if the two share one, or s has not     *)
(* been bound yet, so does s.                                              *)
Follows(s, t, ids, reused) ==
  /\ ids[t].isBound
  /\ ids[s].localAddr \in {Unspecified, ids[t].localAddr} => t \in reused
  /\ ~ids[s].isBound \/ ids[s].localAddr = ids[t].localAddr => s \in reused

InOrder(list, ids, reused) ==
  \A i, j \in DOMAIN list : i < j => Follows(list[i], list[j], ids, reused)

(* What the flags of a descriptor tell.                                    *)
FlagsOK(s, sd, earlier, reused) ==
  /\ sd.onlyLocalPortIsSet => /\ sd.remoteAddr = Unspecified
                              /\ s \notin earlier => sd.localAddr = Unspecified
  /\ ~sd.isBound => sd.localAddr = Unspecified /\ s \in earlier
  /\ sd.reuseAddr => s \in reused

(* The two tables, S the sockets that are listed.                          *)
TablesOK(ids, map, reused, gone, S) ==
  /\ ids \in [SockIds -> Descriptors \cup {NoSocket}]
  /\ map = [p \in DOMAIN map |-> map[p]]
  /\ DOMAIN map \subseteq Ports
  /\ \A p \in DOMAIN map : /\ map[p] \in Seq(SockIds)
                           /\ Belongs(map[p], p, ids) /\ InOrder(map[p], ids, reused)
                           /\ map[p] = <<>> => p \in gone
                           /\ \A i \in DOMAIN map[p] : map[p][i] \in S
  /\ \A s \in S : s \in SockIds /\ ids[s] # NoSocket /\ Listed(s, map, ids)

SocketInv ==
  /\ TablesOK(socketsByIdMap, socketsByPortMap, reusers, abandoned, Existing)
  /\ \A s \in Existing : FlagsOK(s, socketsByIdMap[s], early, reusers)
  /\ lastEphemeralPort \in Ephemeral
  /\ error = "exhausted" => Exhausted

-----------------------------------------------------------------------------
(***************************************************************************)
(* The operators.                                                          *)
(***************************************************************************)
LEMMA LeastOf ==
  ASSUME NEW R, NEW S, S \subseteq Nat, \A x, y \in Nat : y < x => <<y, x>> \in R,
         \E x \in S : \A y \in S : ~ (<<y, x>> \in R)
  PROVE  \E x \in S : \A y \in S : x <= y
<1>1. PICK x \in S : \A y \in S : ~ (<<y, x>> \in R)
  OBVIOUS
<1>2. ASSUME NEW y \in S
      PROVE  x <= y
  <2>1. x \in Nat /\ y \in Nat /\ ~ (<<y, x>> \in R)
    BY <1>1
  <2>2. ~ (y < x)
    BY <2>1
  <2> QED
    BY <2>1, <2>2
<1> QED
  BY <1>2

(* The least and the greatest index of a list with some property.          *)
LEMMA MinFacts ==
  ASSUME NEW S, S \subseteq Nat, S # {}
  PROVE  Min(S) \in S /\ \A x \in S : Min(S) <= x
<1>1. \E x \in S : \A y \in S : ~ (<<y, x>> \in OpToRel(<, Nat))
  BY NatLessThanWellFounded, WFMin
<1>2. \A x, y \in Nat : y < x => <<y, x>> \in OpToRel(<, Nat)
  BY DEF OpToRel
<1>3. \E x \in S : \A y \in S : x <= y
  BY <1>1, <1>2, LeastOf, Zenon
<1> QED
  BY <1>3 DEF Min

(* The greatest one, of a set that is bounded.                             *)
LEMMA MaxFacts ==
  ASSUME NEW n \in Nat, NEW S, S \subseteq 1 .. n, S # {}
  PROVE  Max(S) \in S
<1> DEFINE T == { k \in Nat : k <= n /\ n - k \in S }
<1>1. T # {} /\ T \subseteq Nat
  <2>1. PICK x \in S : TRUE
    OBVIOUS
  <2>2. n - x \in T
    <3>1. x \in 1 .. n
      BY <2>1
    <3>2. n - (n - x) = x /\ n - x \in Nat /\ n - x <= n
      BY <3>1
    <3> QED
      BY <2>1, <3>2
  <2> QED
    BY <2>2
<1>2. Min(T) \in T /\ \A x \in T : Min(T) <= x
  BY <1>1, MinFacts
<1> DEFINE m == n - Min(T)
<1>3. m \in S
  BY <1>2
<1>4. ASSUME NEW y \in S
      PROVE  m >= y
  <2>1. y \in 1 .. n
    OBVIOUS
  <2>2. n - (n - y) = y /\ n - y \in Nat /\ n - y <= n
    BY <2>1
  <2>3. n - y \in T
    BY <2>2
  <2>4. Min(T) <= n - y /\ Min(T) \in Nat
    BY <1>2, <2>3
  <2> HIDE DEF T
  <2> QED
    BY <2>1, <2>4
<1>5. \E x \in S : \A y \in S : x >= y
  BY <1>3, <1>4
<1> QED
  BY <1>5 DEF Max

(* A list from which its k-th element is erased.                           *)
LEMMA RemoveFirstFacts ==
  ASSUME NEW S, NEW list \in Seq(S), NEW k \in DOMAIN list,
         \A i \in DOMAIN list : list[i] = list[k] => i = k
  PROVE  LET r == RemoveFirst(list, list[k])
         IN  /\ r \in Seq(S) /\ Len(r) = Len(list) - 1
             /\ \A i \in DOMAIN r : r[i] = list[IF i < k THEN i ELSE i + 1]
<1> DEFINE r == RemoveFirst(list, list[k])
           I == { i \in 1 .. Len(list) : list[i] = list[k] }
<1>1. Len(list) \in Nat /\ k \in 1 .. Len(list) /\ DOMAIN list = 1 .. Len(list)
  OBVIOUS
<1>2. I = {k}
  BY <1>1
<1>3. Min(I) = k
  <2>1. I \subseteq Nat /\ I # {}
    BY <1>1, <1>2
  <2> QED
    BY <1>2, <2>1, MinFacts
<1>4. SelectInSeq(list, LAMBDA v : v = list[k]) = k
  BY <1>2, <1>3 DEF SelectInSeq
<1>5. r = RemoveAt(list, k)
  BY <1>1, <1>4 DEF RemoveFirst
<1> HIDE DEF r
<1> DEFINE a == SubSeq(list, 1, k - 1)
           b == SubSeq(list, k + 1, Len(list))
<1>6. /\ a \in Seq(S) /\ Len(a) = k - 1 /\ \A i \in 1 .. k - 1 : a[i] = list[i]
      /\ b \in Seq(S) /\ Len(b) = Len(list) - k /\ \A i \in 1 .. Len(list) - k : b[i] = list[k + i]
  BY <1>1, SMTT(20)
<1>7. r = a \o b
  BY <1>5 DEF RemoveAt
<1> HIDE DEF a, b
<1>8. r \in Seq(S) /\ Len(r) = Len(a) + Len(b)
      /\ \A i \in 1 .. Len(r) : r[i] = IF i <= Len(a) THEN a[i] ELSE b[i - Len(a)]
  <2>1. a \in Seq(S) /\ b \in Seq(S)
    BY <1>6
  <2>2. /\ a \o b \in Seq(S) /\ Len(a \o b) = Len(a) + Len(b)
        /\ \A i \in 1 .. Len(a) + Len(b) :
             (a \o b)[i] = IF i <= Len(a) THEN a[i] ELSE b[i - Len(a)]
    BY <2>1, ConcatProperties
  <2> QED
    BY <1>7, <2>2
<1>9. Len(r) = Len(list) - 1
  BY <1>1, <1>6, <1>8
<1>10. ASSUME NEW i \in 1 .. Len(r)
       PROVE  r[i] = list[IF i < k THEN i ELSE i + 1]
  <2>1. CASE i < k
    BY <1>1, <1>6, <1>8, <2>1
  <2>2. CASE ~(i < k)
    <3>1. i - Len(a) \in 1 .. Len(list) - k /\ ~(i <= Len(a)) /\ k + (i - Len(a)) = i + 1
      BY <1>1, <1>6, <1>9, <2>2, SMTT(20)
    <3> QED
      BY <1>6, <1>8, <2>2, <3>1
  <2> QED
    BY <2>1, <2>2
<1>11. DOMAIN r = 1 .. Len(r)
  BY <1>8
<1> QED
  BY <1>8, <1>9, <1>10, <1>11 DEF r

(* The ports tried are those of the range, each of them.                   *)
LEMMA TriedFacts ==
  ASSUME lastEphemeralPort \in Ephemeral
  PROVE  /\ \A i \in 1 .. PortCount : Tried(i) \in Ephemeral
         /\ \A p \in Ephemeral : \E i \in 1 .. PortCount : Tried(i) = p
<1>1. /\ EPHEMERAL_PORTRANGE_START \in Nat /\ EPHEMERAL_PORTRANGE_END \in Nat
      /\ EPHEMERAL_PORTRANGE_START < EPHEMERAL_PORTRANGE_END
  BY SocketAssumption DEF Ports
<1>2. \A i \in 1 .. PortCount : Tried(i) \in Ephemeral
  BY <1>1 DEF Ephemeral, PortCount, Tried
<1>3. ASSUME NEW p \in Ephemeral
      PROVE  \E i \in 1 .. PortCount : Tried(i) = p
  <2>1. CASE p > lastEphemeralPort
    <3>1. p - lastEphemeralPort \in 1 .. PortCount /\ Tried(p - lastEphemeralPort) = p
      BY <1>1, <2>1 DEF Ephemeral, PortCount, Tried
    <3> QED
      BY <3>1
  <2>2. CASE p <= lastEphemeralPort
    <3> DEFINE i == p - lastEphemeralPort + PortCount
    <3>1. i \in 1 .. PortCount /\ Tried(i) = p
      BY <1>1, <2>2 DEF Ephemeral, PortCount, Tried
    <3> QED
      BY <3>1
  <2> QED
    BY <1>1, <2>1, <2>2 DEF Ephemeral
<1> QED
  BY <1>2, <1>3

(* getEphemeralPort finds a port of the range that has no list.            *)
LEMMA EphemeralPortFacts ==
  ASSUME lastEphemeralPort \in Ephemeral, ~Exhausted
  PROVE  /\ GetEphemeralPort \in Ephemeral /\ GetEphemeralPort \in Ports
         /\ GetEphemeralPort \notin DOMAIN socketsByPortMap
<1>1. Min(FreeTries) \in FreeTries
  <2>1. FreeTries \subseteq Nat /\ FreeTries # {}
    BY DEF FreeTries, Exhausted
  <2> QED
    BY <2>1, MinFacts
<1>2. Min(FreeTries) \in 1 .. PortCount /\ Tried(Min(FreeTries)) \notin DOMAIN socketsByPortMap
  BY <1>1 DEF FreeTries
<1>3. GetEphemeralPort \in Ephemeral
  BY <1>2, TriedFacts DEF GetEphemeralPort
<1>4. \A p \in Ephemeral : p \in Ports
  BY SocketAssumption DEF Ephemeral, Ports
<1> QED
  BY <1>2, <1>3, <1>4 DEF GetEphemeralPort

-----------------------------------------------------------------------------
(***************************************************************************)
(* Descriptors.                                                            *)
(***************************************************************************)
(* A record with some of its fields changed.                               *)
LEMMA BoundRecord ==
  ASSUME NEW B, NEW A, NEW P, NEW R, NEW b \in B, NEW addr \in A, NEW port \in P,
         NEW sd \in [ isBound : B, localAddr : A, localPort : P, remoteAddr : R, reuseAddr : B,
                       onlyLocalPortIsSet : B ]
  PROVE  LET new == [sd EXCEPT !.isBound = b, !.localAddr = addr, !.localPort = port]
         IN  /\ new \in [ isBound : B, localAddr : A, localPort : P, remoteAddr : R, reuseAddr : B,
                       onlyLocalPortIsSet : B ]
             /\ new.isBound = b /\ new.localAddr = addr /\ new.localPort = port
             /\ new.remoteAddr = sd.remoteAddr /\ new.reuseAddr = sd.reuseAddr
             /\ new.onlyLocalPortIsSet = sd.onlyLocalPortIsSet
OBVIOUS

(* The same for the fields that connect changes.                           *)
LEMMA ConnectedRecord ==
  ASSUME NEW B, NEW A, NEW P, NEW R, NEW b \in B, NEW remote \in R,
         NEW sd \in [ isBound : B, localAddr : A, localPort : P, remoteAddr : R, reuseAddr : B,
                       onlyLocalPortIsSet : B ]
  PROVE  LET new == [sd EXCEPT !.remoteAddr = remote, !.onlyLocalPortIsSet = b]
         IN  /\ new \in [ isBound : B, localAddr : A, localPort : P, remoteAddr : R, reuseAddr : B,
                       onlyLocalPortIsSet : B ]
             /\ new.onlyLocalPortIsSet = b /\ new.isBound = sd.isBound
             /\ new.localAddr = sd.localAddr /\ new.localPort = sd.localPort
             /\ new.reuseAddr = sd.reuseAddr
OBVIOUS

(* The same for the field that setReuseAddress changes.                    *)
LEMMA ReuseRecord ==
  ASSUME NEW B, NEW A, NEW P, NEW R, NEW b \in B,
         NEW sd \in [ isBound : B, localAddr : A, localPort : P, remoteAddr : R, reuseAddr : B,
                       onlyLocalPortIsSet : B ]
  PROVE  LET new == [sd EXCEPT !.reuseAddr = b]
         IN  /\ new \in [ isBound : B, localAddr : A, localPort : P, remoteAddr : R, reuseAddr : B,
                       onlyLocalPortIsSet : B ]
             /\ new.reuseAddr = b /\ new.isBound = sd.isBound
             /\ new.localAddr = sd.localAddr /\ new.localPort = sd.localPort
             /\ new.remoteAddr = sd.remoteAddr
             /\ new.onlyLocalPortIsSet = sd.onlyLocalPortIsSet
OBVIOUS

(* What the commands make of a descriptor.                                 *)
LEMMA BoundFacts ==
  ASSUME NEW sd \in Descriptors, NEW addr \in Addresses \cup {Unspecified},
         NEW port \in LocalPorts \cup {-1}
  PROVE  LET new == Bound(sd, addr, port)
         IN  /\ new \in Descriptors
             /\ new.isBound = TRUE /\ new.localAddr = addr
             /\ new.localPort = IF port = -1 THEN sd.localPort ELSE port
             /\ new.remoteAddr = sd.remoteAddr /\ new.reuseAddr = sd.reuseAddr
             /\ new.onlyLocalPortIsSet = sd.onlyLocalPortIsSet
<1> DEFINE p == IF port = -1 THEN sd.localPort ELSE port
<1>1. p \in Ports
  <2>1. LocalPorts \subseteq Ports
    BY SocketAssumption
  <2>2. sd.localPort \in Ports
    BY DEF Descriptors
  <2> QED
    BY <2>1, <2>2
<1>2. Bound(sd, addr, port) = [sd EXCEPT !.isBound = TRUE, !.localAddr = addr, !.localPort = p]
  BY DEF Bound
<1> HIDE DEF p
<1>3. LET new == [sd EXCEPT !.isBound = TRUE, !.localAddr = addr, !.localPort = p]
      IN  /\ new \in Descriptors
          /\ new.isBound = TRUE /\ new.localAddr = addr /\ new.localPort = p
          /\ new.remoteAddr = sd.remoteAddr /\ new.reuseAddr = sd.reuseAddr
          /\ new.onlyLocalPortIsSet = sd.onlyLocalPortIsSet
  BY <1>1, BoundRecord, Zenon DEF Descriptors
<1> QED
  BY <1>2, <1>3, Zenon DEF p

(* What connect makes of one.                                              *)
LEMMA ConnectedFacts ==
  ASSUME NEW sd \in Descriptors, NEW remote \in Remotes
  PROVE  LET new == [sd EXCEPT !.remoteAddr = remote, !.onlyLocalPortIsSet = FALSE]
         IN  /\ new \in Descriptors /\ new.onlyLocalPortIsSet = FALSE
             /\ new.isBound = sd.isBound /\ new.localAddr = sd.localAddr
             /\ new.localPort = sd.localPort /\ new.reuseAddr = sd.reuseAddr
BY ConnectedRecord, Zenon DEF Descriptors

(* What setReuseAddress makes of one.                                      *)
LEMMA ReuseFacts ==
  ASSUME NEW sd \in Descriptors, NEW value \in BOOLEAN
  PROVE  LET new == [sd EXCEPT !.reuseAddr = value]
         IN  /\ new \in Descriptors /\ new.reuseAddr = value
             /\ new.isBound = sd.isBound /\ new.localAddr = sd.localAddr
             /\ new.localPort = sd.localPort /\ new.remoteAddr = sd.remoteAddr
             /\ new.onlyLocalPortIsSet = sd.onlyLocalPortIsSet
BY ReuseRecord, Zenon DEF Descriptors

(* What createSocket makes.                                                *)
LEMMA NewSocketFacts ==
  ASSUME NEW addr \in Addresses \cup {Unspecified}, NEW port \in Ports, NEW bound \in BOOLEAN
  PROVE  LET sd == NewSocket(addr, port, bound)
         IN  /\ sd \in Descriptors /\ sd.isBound = bound /\ sd.localAddr = addr
             /\ sd.localPort = port /\ sd.remoteAddr = Unspecified /\ ~sd.reuseAddr
             /\ sd.onlyLocalPortIsSet = (addr = Unspecified)
BY DEF NewSocket, Descriptors

-----------------------------------------------------------------------------
(***************************************************************************)
(* Lists.                                                                  *)
(***************************************************************************)
(* A list of which a socket is erased.                                     *)
ErasedOK(list, p, ids, reused, s) ==
  LET r == RemoveFirst(list, s)
  IN  /\ r \in Seq(SockIds) /\ Belongs(r, p, ids) /\ InOrder(r, ids, reused)
      /\ \A i \in DOMAIN r : r[i] # s
      /\ \A t \in SockIds : t # s => ((\E i \in DOMAIN list : list[i] = t)
                                       <=> (\E i \in DOMAIN r : r[i] = t))

(* What is left of the list is as it was.                                  *)
LEMMA ErasedList ==
  ASSUME NEW list \in Seq(SockIds), NEW p, NEW ids, NEW reused, NEW s,
         Belongs(list, p, ids), InOrder(list, ids, reused), \E i \in DOMAIN list : list[i] = s
  PROVE  ErasedOK(list, p, ids, reused, s)
<1> DEFINE r == RemoveFirst(list, s)
           at(i) == IF i < CHOOSE k \in DOMAIN list : list[k] = s THEN i ELSE i + 1
<1>1. PICK k \in DOMAIN list : list[k] = s
  OBVIOUS
<1>2. r \in Seq(SockIds) /\ Len(r) = Len(list) - 1
      /\ \A i \in DOMAIN r : r[i] = list[IF i < k THEN i ELSE i + 1]
  BY <1>1, RemoveFirstFacts DEF Belongs
<1> HIDE DEF r
<1>3. \A i, j \in DOMAIN list : list[i] = list[j] => i = j
  BY DEF Belongs
<1>4. Len(list) \in Nat /\ DOMAIN list = 1 .. Len(list) /\ DOMAIN r = 1 .. Len(list) - 1
  BY <1>2
<1>5. \A i \in DOMAIN r : /\ (IF i < k THEN i ELSE i + 1) \in DOMAIN list
                          /\ (IF i < k THEN i ELSE i + 1) # k
  BY <1>1, <1>4
<1>6. Belongs(r, p, ids)
  <2>1. ASSUME NEW i \in DOMAIN r, NEW j \in DOMAIN r, r[i] = r[j]
        PROVE  i = j
    <3>1. (IF i < k THEN i ELSE i + 1) = (IF j < k THEN j ELSE j + 1)
      BY <1>2, <1>3, <1>5, <2>1
    <3> QED
      BY <1>1, <1>4, <3>1
  <2>2. ASSUME NEW i \in DOMAIN r
        PROVE  ids[r[i]] # NoSocket /\ ids[r[i]].localPort = p
    BY <1>2, <1>5 DEF Belongs
  <2> QED
    BY <2>1, <2>2 DEF Belongs
<1>7. InOrder(r, ids, reused)
  <2> SUFFICES ASSUME NEW i \in DOMAIN r, NEW j \in DOMAIN r, i < j
               PROVE  Follows(r[i], r[j], ids, reused)
    BY DEF InOrder
  <2>1. (IF i < k THEN i ELSE i + 1) < (IF j < k THEN j ELSE j + 1)
    BY <1>1, <1>4
  <2> QED
    BY <1>2, <1>5, <2>1 DEF InOrder
<1>8. \A i \in DOMAIN r : r[i] # s
  BY <1>1, <1>2, <1>3, <1>5
<1>9. ASSUME NEW t \in SockIds, t # s
      PROVE  (\E i \in DOMAIN list : list[i] = t) <=> (\E i \in DOMAIN r : r[i] = t)
  <2>1. ASSUME NEW i \in DOMAIN list, list[i] = t
        PROVE  \E j \in DOMAIN r : r[j] = t
    <3>1. i # k
      BY <1>1, <1>9, <2>1
    <3> DEFINE j == IF i < k THEN i ELSE i - 1
    <3>2. j \in DOMAIN r /\ (IF j < k THEN j ELSE j + 1) = i
      BY <1>1, <1>4, <3>1
    <3> QED
      BY <1>2, <2>1, <3>2
  <2>2. ASSUME NEW i \in DOMAIN r, r[i] = t
        PROVE  \E j \in DOMAIN list : list[j] = t
    BY <1>2, <1>5, <2>2
  <2> QED
    BY <2>1, <2>2
<1> QED
  BY <1>2, <1>6, <1>7, <1>8, <1>9 DEF r, ErasedOK

(* A list to which a socket is added that follows all of its sockets.      *)
LongerOK(list, p, ids, reused, s) ==
  LET r == Append(list, s)
  IN  /\ r \in Seq(SockIds) /\ r # <<>> /\ Belongs(r, p, ids) /\ InOrder(r, ids, reused)
      /\ \E i \in DOMAIN r : r[i] = s
      /\ \A t \in SockIds : (\E i \in DOMAIN list : list[i] = t)
                              => (\E i \in DOMAIN r : r[i] = t)

(* The longer list is in order too.                                        *)
LEMMA LongerList ==
  ASSUME NEW list \in Seq(SockIds), NEW p, NEW ids, NEW reused, NEW s \in SockIds,
         Belongs(list, p, ids), InOrder(list, ids, reused), \A i \in DOMAIN list : list[i] # s,
         ids[s] # NoSocket, ids[s].localPort = p,
         \A i \in DOMAIN list : Follows(list[i], s, ids, reused)
  PROVE  LongerOK(list, p, ids, reused, s)
<1> DEFINE r == Append(list, s)
<1>1. /\ r \in Seq(SockIds) /\ r # <<>> /\ Len(list) \in Nat /\ DOMAIN list = 1 .. Len(list)
      /\ DOMAIN r = 1 .. Len(list) + 1 /\ r[Len(list) + 1] = s
      /\ \A i \in DOMAIN list : i \in DOMAIN r /\ r[i] = list[i]
  OBVIOUS
<1> HIDE DEF r
<1>2. \A i \in DOMAIN r : i \in DOMAIN list \/ i = Len(list) + 1
  BY <1>1
<1>3. Belongs(r, p, ids)
  <2>1. ASSUME NEW i \in DOMAIN r, NEW j \in DOMAIN r, r[i] = r[j]
        PROVE  i = j
    BY <1>1, <1>2, <2>1 DEF Belongs
  <2>2. \A i \in DOMAIN r : ids[r[i]] # NoSocket /\ ids[r[i]].localPort = p
    BY <1>1, <1>2 DEF Belongs
  <2> QED
    BY <2>1, <2>2 DEF Belongs
<1>4. InOrder(r, ids, reused)
  <2> SUFFICES ASSUME NEW i \in DOMAIN r, NEW j \in DOMAIN r, i < j
               PROVE  Follows(r[i], r[j], ids, reused)
    BY DEF InOrder
  <2>1. i \in DOMAIN list
    BY <1>1, <1>2
  <2> QED
    BY <1>1, <1>2, <2>1 DEF InOrder
<1>5. \E i \in DOMAIN r : r[i] = s
  BY <1>1
<1> QED
  BY <1>1, <1>3, <1>4, <1>5 DEF r, LongerOK

(* The list of a port that has none.                                       *)
LEMMA EmptyList ==
  ASSUME NEW p, NEW ids, NEW reused
  PROVE  Belongs(<<>>, p, ids) /\ InOrder(<<>>, ids, reused) /\ <<>> \in Seq(SockIds)
BY DEF Belongs, InOrder

-----------------------------------------------------------------------------
(***************************************************************************)
(* The tables.                                                             *)
(***************************************************************************)
(* A socket that is in no list changes, or goes.                           *)
LEMMA UnlistedChanges ==
  ASSUME NEW ids, NEW map, NEW reused, NEW gone, NEW S, TablesOK(ids, map, reused, gone, S),
         NEW s \in SockIds, s \notin S, NEW new \in Descriptors \cup {NoSocket}, NEW reused2,
         \A t \in S : t \in reused => t \in reused2
  PROVE  TablesOK([ids EXCEPT ![s] = new], map, reused2, gone, S)
<1> DEFINE ids2 == [ids EXCEPT ![s] = new]
<1>1. ids2 \in [SockIds -> Descriptors \cup {NoSocket}] /\ \A t \in SockIds : t # s => ids2[t] = ids[t]
  BY DEF TablesOK
<1> HIDE DEF ids2
<1>2. ASSUME NEW p \in DOMAIN map
      PROVE  Belongs(map[p], p, ids2) /\ InOrder(map[p], ids2, reused2)
  <2>1. \A i \in DOMAIN map[p] : map[p][i] \in S /\ map[p][i] \in SockIds
    BY DEF TablesOK
  <2>2. \A i \in DOMAIN map[p] : /\ ids2[map[p][i]] = ids[map[p][i]]
                                 /\ map[p][i] \in reused => map[p][i] \in reused2
    BY <1>1, <2>1
  <2>3. Belongs(map[p], p, ids) /\ InOrder(map[p], ids, reused)
    BY DEF TablesOK
  <2> QED
    BY <2>2, <2>3 DEF Belongs, InOrder, Follows
<1>3. ASSUME NEW t \in S
      PROVE  t \in SockIds /\ ids2[t] # NoSocket /\ Listed(t, map, ids2)
  <2>1. t \in SockIds /\ ids2[t] = ids[t]
    BY <1>1 DEF TablesOK
  <2> QED
    BY <2>1 DEF TablesOK, Listed
<1>4. TablesOK(ids2, map, reused2, gone, S)
  BY <1>1, <1>2, <1>3 DEF TablesOK
<1> QED
  BY <1>4 DEF ids2

(* A socket that is listed changes, but not its port; if it had not been   *)
(* bound, it may be now.                                                   *)
LEMMA ListedChanges ==
  ASSUME NEW ids, NEW map, NEW reused, NEW gone, NEW S, TablesOK(ids, map, reused, gone, S),
         NEW s \in S, NEW new \in Descriptors, new.localPort = ids[s].localPort,
         \/ new.isBound = ids[s].isBound /\ new.localAddr = ids[s].localAddr
         \/ ids[s].isBound = FALSE /\ ids[s].localAddr = Unspecified /\ new.isBound = TRUE,
         NEW reused2, reused \subseteq reused2
  PROVE  TablesOK([ids EXCEPT ![s] = new], map, reused2, gone, S)
<1> DEFINE ids2 == [ids EXCEPT ![s] = new]
<1>0. s \in SockIds /\ ids[s] # NoSocket /\ NoSocket \notin Descriptors
  BY SocketAssumption DEF TablesOK
<1>1. /\ ids2 \in [SockIds -> Descriptors \cup {NoSocket}]
      /\ ids2[s] = new /\ \A t \in SockIds : t # s => ids2[t] = ids[t]
  BY <1>0 DEF TablesOK
<1> HIDE DEF ids2
<1>2. \A t \in SockIds : ids[t] # NoSocket =>
        /\ ids2[t] # NoSocket /\ ids2[t].localPort = ids[t].localPort
  BY <1>0, <1>1
<1>3. ASSUME NEW t \in SockIds, NEW u \in SockIds, t # u, Follows(t, u, ids, reused)
      PROVE  Follows(t, u, ids2, reused2)
  <2>1. CASE u = s
    <3>1. new.isBound = ids[s].isBound /\ new.localAddr = ids[s].localAddr
      BY <1>3, <2>1 DEF Follows
    <3> QED
      BY <1>1, <1>3, <2>1, <3>1 DEF Follows
  <2>2. CASE t = s
    BY <1>1, <1>3, <2>2 DEF Follows
  <2>3. CASE t # s /\ u # s
    BY <1>1, <1>3, <2>3 DEF Follows
  <2> QED
    BY <2>1, <2>2, <2>3
<1>4. ASSUME NEW p \in DOMAIN map
      PROVE  Belongs(map[p], p, ids2) /\ InOrder(map[p], ids2, reused2)
  <2>1. map[p] \in Seq(SockIds) /\ Belongs(map[p], p, ids) /\ InOrder(map[p], ids, reused)
    BY DEF TablesOK
  <2>2. \A i \in DOMAIN map[p] : map[p][i] \in SockIds /\ i \in Int
    BY <2>1
  <2>3. Belongs(map[p], p, ids2)
    BY <1>2, <2>1, <2>2 DEF Belongs
  <2>4. ASSUME NEW i \in DOMAIN map[p], NEW j \in DOMAIN map[p], i < j
        PROVE  Follows(map[p][i], map[p][j], ids2, reused2)
    <3>1. map[p][i] # map[p][j]
      BY <2>1, <2>2, <2>4 DEF Belongs
    <3> QED
      BY <1>3, <2>1, <2>2, <2>4, <3>1 DEF InOrder
  <2> QED
    BY <2>3, <2>4 DEF InOrder
<1>5. ASSUME NEW t \in S
      PROVE  t \in SockIds /\ ids2[t] # NoSocket /\ Listed(t, map, ids2)
  <2>1. t \in SockIds /\ ids[t] # NoSocket /\ Listed(t, map, ids)
    BY DEF TablesOK
  <2>2. ids2[t] # NoSocket /\ ids2[t].localPort = ids[t].localPort
    BY <1>2, <2>1
  <2> QED
    BY <2>1, <2>2 DEF Listed
<1>6. TablesOK(ids2, map, reused2, gone, S)
  BY <1>1, <1>4, <1>5 DEF TablesOK
<1> QED
  BY <1>6 DEF ids2

(* A socket joins the list of its port.                                    *)
LEMMA SocketJoins ==
  ASSUME NEW ids, NEW map, NEW reused, NEW gone, NEW S, TablesOK(ids, map, reused, gone, S),
         NEW s \in SockIds, s \notin S, NEW p \in Ports, ids[s] # NoSocket, ids[s].localPort = p,
         \A i \in DOMAIN ListOf(map, p) : Follows(ListOf(map, p)[i], s, ids, reused)
  PROVE  TablesOK(ids, WithList(map, p, Append(ListOf(map, p), s)), reused, gone, S \cup {s})
<1> DEFINE list == ListOf(map, p)
           longer == Append(list, s)
           map2 == WithList(map, p, longer)
<1>1. /\ list \in Seq(SockIds) /\ Belongs(list, p, ids) /\ InOrder(list, ids, reused)
      /\ \A i \in DOMAIN list : list[i] # s /\ list[i] \in S
  <2>1. CASE p \in DOMAIN map
    <3>1. list = map[p]
      BY <2>1 DEF ListOf
    <3> QED
      BY <2>1, <3>1 DEF TablesOK
  <2>2. CASE p \notin DOMAIN map
    <3>1. list = <<>>
      BY <2>2 DEF ListOf
    <3> QED
      BY <3>1, EmptyList
  <2> QED
    BY <2>1, <2>2
<1>2. \A i \in DOMAIN list : Follows(list[i], s, ids, reused)
  OBVIOUS
<1>3. /\ DOMAIN map2 = DOMAIN map \cup {p} /\ map2 = [q \in DOMAIN map2 |-> map2[q]]
      /\ map2[p] = longer /\ \A q \in DOMAIN map : q # p => map2[q] = map[q]
  BY DEF WithList
<1>4. p \in DOMAIN map => list = map[p]
  BY DEF ListOf
<1>5. \A i \in DOMAIN longer : longer[i] \in S \cup {s}
  <2> HIDE DEF list
  <2>1. \A i \in DOMAIN longer : (i \in DOMAIN list /\ longer[i] = list[i]) \/ longer[i] = s
    BY <1>1
  <2> QED
    BY <1>1, <2>1
<1> HIDE DEF list, map2
<1>6. /\ longer \in Seq(SockIds) /\ longer # <<>> /\ Belongs(longer, p, ids)
      /\ InOrder(longer, ids, reused) /\ \E i \in DOMAIN longer : longer[i] = s
      /\ \A t \in SockIds : (\E i \in DOMAIN list : list[i] = t)
                              => (\E i \in DOMAIN longer : longer[i] = t)
  <2>1. \A i \in DOMAIN list : list[i] # s
    BY <1>1
  <2>2. /\ list \in Seq(SockIds) /\ Belongs(list, p, ids) /\ InOrder(list, ids, reused)
        /\ s \in SockIds /\ ids[s] # NoSocket /\ ids[s].localPort = p
    BY <1>1
  <2>3. LongerOK(list, p, ids, reused, s)
    BY <1>2, <2>1, <2>2, LongerList
  <2> QED
    BY <2>3 DEF LongerOK
<1> HIDE DEF longer
<1>7. ASSUME NEW q \in DOMAIN map2
      PROVE  /\ map2[q] \in Seq(SockIds) /\ Belongs(map2[q], q, ids)
             /\ InOrder(map2[q], ids, reused) /\ (map2[q] = <<>> => q \in gone)
             /\ \A i \in DOMAIN map2[q] : map2[q][i] \in S \cup {s}
  <2>1. CASE q = p
    BY <1>3, <1>5, <1>6, <2>1
  <2>2. CASE q # p
    BY <1>3, <2>2 DEF TablesOK
  <2> QED
    BY <2>1, <2>2
<1>8. ASSUME NEW t \in S \cup {s}
      PROVE  t \in SockIds /\ ids[t] # NoSocket /\ Listed(t, map2, ids)
  <2>1. CASE t = s
    BY <1>3, <1>6, <2>1 DEF Listed
  <2>2. CASE t \in S
    <3>1. t \in SockIds /\ ids[t] # NoSocket /\ Listed(t, map, ids)
      BY <2>2 DEF TablesOK
    <3>2. CASE ids[t].localPort = p
      BY <1>3, <1>4, <1>6, <3>1, <3>2 DEF Listed
    <3>3. CASE ids[t].localPort # p
      BY <1>3, <3>1, <3>3 DEF Listed
    <3> QED
      BY <3>1, <3>2, <3>3
  <2> QED
    BY <2>1, <2>2
<1>9. TablesOK(ids, map2, reused, gone, S \cup {s})
  BY <1>3, <1>7, <1>8 DEF TablesOK
<1> QED
  BY <1>9 DEF map2, longer, list

(* A socket leaves the list of its port; the list stays in the map or goes *)
(* from it if it is empty now.                                             *)
LEMMA SocketLeaves ==
  ASSUME NEW ids, NEW map, NEW reused, NEW gone, NEW S, TablesOK(ids, map, reused, gone, S),
         NEW s \in S, NEW map2, map2 = [q \in DOMAIN map2 |-> map2[q]],
         LET p == ids[s].localPort
         IN  /\ \A q \in DOMAIN map2 : q \in DOMAIN map /\ (q # p => map2[q] = map[q])
             /\ \A q \in DOMAIN map : q # p => q \in DOMAIN map2
             /\ p \in DOMAIN map2 => map2[p] = RemoveFirst(map[p], s)
             /\ p \notin DOMAIN map2 => RemoveFirst(map[p], s) = <<>>,
         NEW gone2, \A q \in gone : q \in DOMAIN map2 => q \in gone2,
         ids[s].localPort \in DOMAIN map2 /\ map2[ids[s].localPort] = <<>>
           => ids[s].localPort \in gone2
  PROVE  TablesOK(ids, map2, reused, gone2, S \ {s})
<1> DEFINE p == ids[s].localPort
           rest == RemoveFirst(map[p], s)
<1>1. s \in SockIds /\ p \in DOMAIN map /\ \E i \in DOMAIN map[p] : map[p][i] = s
  BY DEF TablesOK, Listed
<1>2. map[p] \in Seq(SockIds) /\ Belongs(map[p], p, ids) /\ InOrder(map[p], ids, reused)
  BY <1>1 DEF TablesOK
<1>3. /\ \A q \in DOMAIN map2 : q \in DOMAIN map /\ (q # p => map2[q] = map[q])
      /\ \A q \in DOMAIN map : q # p => q \in DOMAIN map2
      /\ p \in DOMAIN map2 => map2[p] = rest
      /\ p \notin DOMAIN map2 => rest = <<>>
      /\ p \in DOMAIN map2 /\ map2[p] = <<>> => p \in gone2
  OBVIOUS
<1> HIDE DEF p
<1>4. /\ rest \in Seq(SockIds) /\ Belongs(rest, p, ids) /\ InOrder(rest, ids, reused)
      /\ \A i \in DOMAIN rest : rest[i] # s
      /\ \A t \in SockIds : t # s => ((\E i \in DOMAIN map[p] : map[p][i] = t)
                                       <=> (\E i \in DOMAIN rest : rest[i] = t))
  <2>1. ErasedOK(map[p], p, ids, reused, s)
    BY <1>1, <1>2, ErasedList
  <2> QED
    BY <2>1 DEF ErasedOK
<1> HIDE DEF rest
<1>5. \A i \in DOMAIN rest : rest[i] \in S \ {s}
  <2> SUFFICES ASSUME NEW i \in DOMAIN rest
               PROVE  rest[i] \in S \ {s}
    OBVIOUS
  <2>1. rest[i] \in SockIds /\ rest[i] # s
    BY <1>4
  <2>2. PICK j \in DOMAIN map[p] : map[p][j] = rest[i]
    BY <1>4, <2>1
  <2> QED
    BY <1>1, <2>1, <2>2 DEF TablesOK
<1>6. ASSUME NEW q \in DOMAIN map2
      PROVE  /\ map2[q] \in Seq(SockIds) /\ Belongs(map2[q], q, ids)
             /\ InOrder(map2[q], ids, reused) /\ (map2[q] = <<>> => q \in gone2)
             /\ \A i \in DOMAIN map2[q] : map2[q][i] \in S \ {s}
  <2>1. CASE q = p
    BY <1>3, <1>4, <1>5, <2>1
  <2>2. CASE q # p
    <3>1. map2[q] = map[q] /\ q \in DOMAIN map
      BY <1>3, <2>2
    <3>2. \A i \in DOMAIN map[q] : map[q][i] \in S /\ ids[map[q][i]].localPort = q
      BY <3>1 DEF TablesOK, Belongs
    <3>3. \A i \in DOMAIN map[q] : map[q][i] # s
      BY <2>2, <3>2 DEF p
    <3> QED
      BY <3>1, <3>2, <3>3 DEF TablesOK
  <2> QED
    BY <2>1, <2>2
<1>7. ASSUME NEW t \in S \ {s}
      PROVE  t \in SockIds /\ ids[t] # NoSocket /\ Listed(t, map2, ids)
  <2>1. t \in SockIds /\ ids[t] # NoSocket /\ Listed(t, map, ids) /\ t # s
    BY DEF TablesOK
  <2>2. CASE ids[t].localPort = p
    <3>1. \E i \in DOMAIN rest : rest[i] = t
      BY <1>4, <2>1, <2>2 DEF Listed
    <3>2. rest # <<>>
      BY <3>1
    <3> QED
      BY <1>3, <2>1, <2>2, <3>1, <3>2 DEF Listed
  <2>3. CASE ids[t].localPort # p
    BY <1>3, <2>1, <2>3 DEF Listed
  <2> QED
    BY <2>1, <2>2, <2>3
<1> QED
  BY <1>3, <1>6, <1>7 DEF TablesOK

-----------------------------------------------------------------------------
(***************************************************************************)
(* The commands.                                                           *)
(***************************************************************************)
(* bind's question to the first socket that matches is enough: a socket    *)
(* that may be bound follows every socket of the list.                     *)
LEMMA JoinFollows ==
  ASSUME SocketInv, NEW s \in SockIds, NEW addr \in Addresses \cup {Unspecified},
         NEW port \in LocalPorts, ~Taken(s, addr, port), NEW ids2,
         ids2[s].isBound, ids2[s].localAddr = addr,
         \A t \in SockIds : t # s => ids2[t] = socketsByIdMap[t],
         \A i \in DOMAIN ListOf(socketsByPortMap, port) :
           ListOf(socketsByPortMap, port)[i] # s
  PROVE  \A i \in DOMAIN ListOf(socketsByPortMap, port) :
           Follows(ListOf(socketsByPortMap, port)[i], s, ids2, reusers)
<1> DEFINE list == ListOf(socketsByPortMap, port % 65536)
           found == { i \in DOMAIN list : socketsByIdMap[list[i]].localAddr \in {Unspecified, addr} }
<1>1. list = ListOf(socketsByPortMap, port)
  <2>1. port % 65536 = port
    BY SocketAssumption DEF Ports
  <2> QED
    BY <2>1
<1>2. /\ list \in Seq(SockIds) /\ InOrder(list, socketsByIdMap, reusers)
      /\ \A i \in DOMAIN list : list[i] \in Existing
  <2>1. TablesOK(socketsByIdMap, socketsByPortMap, reusers, abandoned, Existing)
    BY DEF SocketInv
  <2>2. CASE port \in DOMAIN socketsByPortMap
    <3>1. list = socketsByPortMap[port]
      BY <1>1, <2>2 DEF ListOf
    <3> QED
      BY <2>1, <2>2, <3>1 DEF TablesOK
  <2>3. CASE port \notin DOMAIN socketsByPortMap
    <3>1. list = <<>>
      BY <1>1, <2>3 DEF ListOf
    <3> HIDE DEF list
    <3> QED
      BY <3>1 DEF InOrder
  <2> QED
    BY <2>2, <2>3
<1>3. \A i \in DOMAIN list : FlagsOK(list[i], socketsByIdMap[list[i]], early, reusers)
  BY <1>2 DEF SocketInv
<1>4. FindFirstSocketByLocalAddress(addr, port) = IF found = {} THEN NoSocket ELSE list[Min(found)]
  BY DEF FindFirstSocketByLocalAddress
<1>5. \A i \in DOMAIN list : list[i] # s
  BY <1>1
<1> HIDE DEF list
<1>6. DOMAIN list \subseteq Nat /\ \A i \in DOMAIN list : list[i] \in SockIds
  BY <1>2
<1> SUFFICES ASSUME NEW i \in DOMAIN list
             PROVE  Follows(list[i], s, ids2, reusers)
  BY <1>1
<1>7. ids2[list[i]] = socketsByIdMap[list[i]]
  BY <1>5, <1>6
<1>8. CASE i \notin found
  BY <1>3, <1>7, <1>8 DEF Follows, FlagsOK
<1>9. CASE i \in found
  <2> DEFINE k == Min(found)
  <2>1. k \in found /\ k <= i
    BY <1>6, <1>9, MinFacts
  <2>2. list[k] \in SockIds /\ k \in DOMAIN list
    BY <1>6, <2>1
  <2>3. list[k] # NoSocket
    BY <2>2, SocketAssumption
  <2>4. Reuses(s) /\ Reuses(list[k])
    BY <1>4, <1>9, <2>3 DEF Taken
  <2> HIDE DEF k
  <2>5. s \in reusers
    <3>1. s \in Existing /\ socketsByIdMap[s].reuseAddr
      BY <2>4 DEF Reuses, Existing
    <3> QED
      BY <3>1 DEF SocketInv, FlagsOK
  <2>6. list[k] \in reusers
    BY <1>3, <2>2, <2>4 DEF Reuses, FlagsOK
  <2>7. CASE k = i
    BY <1>7, <2>5, <2>6, <2>7 DEF Follows
  <2>8. CASE k < i
    <3>1. Follows(list[k], list[i], socketsByIdMap, reusers)
      BY <1>2, <2>2, <2>8 DEF InOrder
    <3>2. socketsByIdMap[list[k]].localAddr \in {Unspecified, addr}
      BY <2>1
    <3>3. socketsByIdMap[list[i]].isBound
      BY <3>1 DEF Follows
    <3>4. socketsByIdMap[list[i]].localAddr = addr => list[i] \in reusers
      BY <3>1, <3>2 DEF Follows
    <3> QED
      BY <1>7, <2>5, <3>3, <3>4 DEF Follows
  <2>9. k = i \/ k < i
    BY <1>6, <2>1, <2>2
  <2> QED
    BY <2>7, <2>8, <2>9
<1> QED
  BY <1>8, <1>9

(* The descriptors, after a step.                                          *)
TablesStay(earlier, reused, gone) ==
  /\ TablesOK(socketsByIdMap', socketsByPortMap', reused, gone, Existing')
  /\ \A t \in Existing' : FlagsOK(t, socketsByIdMap'[t], earlier, reused)

(* A socket is created, at a port whose sockets it may follow.             *)
LEMMA Creates ==
  ASSUME SocketInv, NEW s \in SockIds, ~Exists(s), NEW p \in Ports, NEW sd \in Descriptors,
         sd.localPort = p, NEW earlier, early \subseteq earlier,
         NEW reused, reusers \subseteq reused, FlagsOK(s, sd, earlier, reused),
         \A i \in DOMAIN ListOf(socketsByPortMap, p) :
           Follows(ListOf(socketsByPortMap, p)[i], s, [socketsByIdMap EXCEPT ![s] = sd], reused),
         CreateSocket(s, p, sd)
  PROVE  TablesStay(earlier, reused, abandoned)
<1> DEFINE ids2 == [socketsByIdMap EXCEPT ![s] = sd]
           map2 == WithList(socketsByPortMap, p, Append(ListOf(socketsByPortMap, p), s))
<1>1. socketsByIdMap' = ids2 /\ socketsByPortMap' = map2
  BY DEF CreateSocket
<1>2. s \notin Existing /\ NoSocket \notin Descriptors
  BY SocketAssumption DEF Existing
<1>3. TablesOK(socketsByIdMap, socketsByPortMap, reusers, abandoned, Existing)
  BY DEF SocketInv
<1>4. socketsByIdMap \in [SockIds -> Descriptors \cup {NoSocket}]
  BY <1>3 DEF TablesOK
<1>5. ids2[s] = sd /\ \A t \in SockIds : t # s => ids2[t] = socketsByIdMap[t]
  BY <1>4
<1>6. TablesOK(ids2, socketsByPortMap, reused, abandoned, Existing)
  <2>1. \A t \in Existing : t \in reusers => t \in reused
    OBVIOUS
  <2>2. sd \in Descriptors \cup {NoSocket}
    OBVIOUS
  <2> QED
    BY <1>2, <1>3, <2>1, <2>2, UnlistedChanges
<1>7. \A i \in DOMAIN ListOf(socketsByPortMap, p) :
        Follows(ListOf(socketsByPortMap, p)[i], s, ids2, reused)
  OBVIOUS
<1>8. ids2[s] # NoSocket /\ ids2[s].localPort = p
  BY <1>2, <1>5
<1> HIDE DEF ids2
<1>9. TablesOK(ids2, map2, reused, abandoned, Existing \cup {s})
  BY <1>2, <1>6, <1>7, <1>8, SocketJoins
<1>10. Existing' = Existing \cup {s}
  BY <1>1, <1>5, <1>8 DEF Existing, Exists
<1>11. \A t \in Existing \cup {s} : FlagsOK(t, ids2[t], earlier, reused)
  <2>1. \A t \in Existing : FlagsOK(t, socketsByIdMap[t], early, reusers) /\ t \in SockIds
    BY DEF SocketInv, Existing
  <2>2. \A t \in Existing : FlagsOK(t, socketsByIdMap[t], earlier, reused)
    BY <2>1 DEF FlagsOK
  <2> QED
    BY <1>2, <1>5, <2>1, <2>2
<1> QED
  BY <1>1, <1>9, <1>10, <1>11 DEF TablesStay

(* A socket that exists changes, but not its port.                         *)
LEMMA Changes ==
  ASSUME SocketInv, NEW s \in Existing, NEW sd \in Descriptors,
         sd.localPort = socketsByIdMap[s].localPort,
         \/ sd.isBound = socketsByIdMap[s].isBound /\ sd.localAddr = socketsByIdMap[s].localAddr
         \/ socketsByIdMap[s].isBound = FALSE /\ sd.isBound = TRUE,
         NEW reused, reusers \subseteq reused, FlagsOK(s, sd, early, reused),
         socketsByIdMap' = [socketsByIdMap EXCEPT ![s] = sd],
         socketsByPortMap' = socketsByPortMap
  PROVE  TablesStay(early, reused, abandoned)
<1> DEFINE ids2 == [socketsByIdMap EXCEPT ![s] = sd]
<1>1. s \in SockIds /\ NoSocket \notin Descriptors /\ FlagsOK(s, socketsByIdMap[s], early, reusers)
  BY SocketAssumption DEF Existing, SocketInv
<1>2. TablesOK(socketsByIdMap, socketsByPortMap, reusers, abandoned, Existing)
  BY DEF SocketInv
<1>3. socketsByIdMap \in [SockIds -> Descriptors \cup {NoSocket}]
  BY <1>2 DEF TablesOK
<1>4. ids2[s] = sd /\ \A t \in SockIds : t # s => ids2[t] = socketsByIdMap[t]
  BY <1>1, <1>3
<1>5. \/ sd.isBound = socketsByIdMap[s].isBound /\ sd.localAddr = socketsByIdMap[s].localAddr
      \/ /\ socketsByIdMap[s].isBound = FALSE /\ socketsByIdMap[s].localAddr = Unspecified
         /\ sd.isBound = TRUE
  BY <1>1 DEF FlagsOK
<1>6. TablesOK(ids2, socketsByPortMap, reused, abandoned, Existing)
  BY <1>2, <1>5, ListedChanges
<1> HIDE DEF ids2
<1>7. Existing' = Existing
  <2>1. ids2[s] # NoSocket /\ socketsByIdMap[s] # NoSocket
    BY <1>1, <1>4 DEF Existing, Exists
  <2>2. socketsByIdMap' = ids2
    BY DEF ids2
  <2> QED
    BY <1>4, <2>1, <2>2 DEF Existing, Exists
<1>8. \A t \in Existing : FlagsOK(t, ids2[t], early, reused)
  <2>1. \A t \in Existing : FlagsOK(t, socketsByIdMap[t], early, reusers) /\ t \in SockIds
    BY DEF SocketInv, Existing
  <2>2. \A t \in Existing : FlagsOK(t, socketsByIdMap[t], early, reused)
    BY <2>1 DEF FlagsOK
  <2> QED
    BY <1>4, <2>1, <2>2
<1> QED
  BY <1>6, <1>7, <1>8 DEF TablesStay, ids2

(* A step that keeps the tables keeps the invariant.                       *)
LEMMA StepKeeps ==
  ASSUME TablesStay(early', reusers', abandoned'), lastEphemeralPort' \in Ephemeral,
         error' # "exhausted" \/ Exhausted'
  PROVE  SocketInv'
BY DEF SocketInv, TablesStay, Ephemeral

(* A command that names no socket creates one, at an ephemeral port.       *)
LEMMA CreatesEphemeral ==
  ASSUME SocketInv, Running, NEW s \in SockIds, ~Exists(s), ~Exhausted, NEW sd \in Descriptors,
         sd.localPort = GetEphemeralPort, lastEphemeralPort' = GetEphemeralPort,
         CreateSocket(s, GetEphemeralPort, sd), UNCHANGED <<error, abandoned>>,
         early \subseteq early', reusers \subseteq reusers', FlagsOK(s, sd, early', reusers')
  PROVE  SocketInv'
<1> DEFINE p == GetEphemeralPort
<1>1. p \in Ephemeral /\ p \in Ports /\ p \notin DOMAIN socketsByPortMap
  BY EphemeralPortFacts DEF SocketInv
<1>2. ListOf(socketsByPortMap, p) = <<>>
  BY <1>1 DEF ListOf
<1>3. \A i \in DOMAIN ListOf(socketsByPortMap, p) :
        Follows(ListOf(socketsByPortMap, p)[i], s, [socketsByIdMap EXCEPT ![s] = sd], reusers')
  BY <1>2
<1>4. sd.localPort = p /\ lastEphemeralPort' = p /\ CreateSocket(s, p, sd)
  OBVIOUS
<1> HIDE DEF p
<1>5. TablesStay(early', reusers', abandoned)
  BY <1>1, <1>3, <1>4, Creates
<1>6. error' # "exhausted"
  BY DEF Running
<1> QED
  BY <1>1, <1>4, <1>5, <1>6, StepKeeps

(* The range is exhausted: nothing but the error changes.                  *)
LEMMA FailureKeeps ==
  ASSUME SocketInv, UNCHANGED <<socketsByIdMap, socketsByPortMap, lastEphemeralPort, early>>,
         UNCHANGED <<abandoned>>, reusers \subseteq reusers', error' = "exhausted" => Exhausted
  PROVE  SocketInv'
<1>1. Existing' = Existing /\ (Exhausted' <=> Exhausted)
  BY DEF Existing, Exists, Exhausted, FreeTries, Tried
<1>2. TablesOK(socketsByIdMap, socketsByPortMap, reusers, abandoned, Existing)
  BY DEF SocketInv
<1>3. TablesOK(socketsByIdMap, socketsByPortMap, reusers', abandoned, Existing)
  <2>1. \A list : InOrder(list, socketsByIdMap, reusers) => InOrder(list, socketsByIdMap, reusers')
    BY DEF InOrder, Follows
  <2> QED
    BY <1>2, <2>1 DEF TablesOK
<1>4. \A t \in Existing : FlagsOK(t, socketsByIdMap[t], early, reusers')
  BY DEF SocketInv, FlagsOK
<1>5. TablesStay(early', reusers', abandoned')
  BY <1>1, <1>3, <1>4 DEF TablesStay
<1> QED
  BY <1>1, <1>5, StepKeeps DEF SocketInv

(* A socket that exists and keeps its port.                                *)
LEMMA ChangesKeep ==
  ASSUME SocketInv, Running, NEW s \in Existing, NEW sd \in Descriptors,
         sd.localPort = socketsByIdMap[s].localPort,
         \/ sd.isBound = socketsByIdMap[s].isBound /\ sd.localAddr = socketsByIdMap[s].localAddr
         \/ socketsByIdMap[s].isBound = FALSE /\ sd.isBound = TRUE,
         reusers \subseteq reusers', FlagsOK(s, sd, early, reusers'),
         socketsByIdMap' = [socketsByIdMap EXCEPT ![s] = sd],
         UNCHANGED <<socketsByPortMap, lastEphemeralPort, error, early, abandoned>>
  PROVE  SocketInv'
<1>1. TablesStay(early, reusers', abandoned)
  BY Changes
<1> QED
  BY <1>1, StepKeeps DEF SocketInv, Running

(* What is known of a socket that exists.                                  *)
LEMMA ExistingFacts ==
  ASSUME SocketInv, NEW s \in SockIds, Exists(s)
  PROVE  /\ s \in Existing /\ socketsByIdMap[s] \in Descriptors
         /\ FlagsOK(s, socketsByIdMap[s], early, reusers)
<1>1. s \in Existing
  BY DEF Existing
<1>2. socketsByIdMap \in [SockIds -> Descriptors \cup {NoSocket}]
  BY DEF SocketInv, TablesOK
<1> QED
  BY <1>1, <1>2 DEF SocketInv, Exists

(* connect.                                                                *)
LEMMA ConnectKeeps ==
  ASSUME SocketInv, NEW s \in SockIds, NEW remote \in Remotes, Connect(s, remote)
  PROVE  SocketInv'
<1> DEFINE sd == [SocketOf(s) EXCEPT !.remoteAddr = remote, !.onlyLocalPortIsSet = FALSE]
<1>0. Running /\ UNCHANGED <<reusers, abandoned>> /\ reusers \subseteq reusers'
  BY DEF Connect
<1>1. CASE /\ Exists(s)
           /\ socketsByIdMap' = [socketsByIdMap EXCEPT ![s] = sd]
           /\ UNCHANGED <<socketsByPortMap, lastEphemeralPort, error, early>>
  <2> DEFINE old == SocketOf(s)
  <2>1. /\ s \in Existing /\ old \in Descriptors /\ FlagsOK(s, old, early, reusers)
        /\ old = socketsByIdMap[s]
    BY <1>1, ExistingFacts DEF SocketOf
  <2>2. /\ sd \in Descriptors /\ sd.onlyLocalPortIsSet = FALSE
        /\ sd.isBound = old.isBound /\ sd.localAddr = old.localAddr
        /\ sd.localPort = old.localPort /\ sd.reuseAddr = old.reuseAddr
    BY <2>1, ConnectedFacts
  <2>3. socketsByIdMap' = [socketsByIdMap EXCEPT ![s] = sd]
    BY <1>1
  <2> HIDE DEF sd
  <2>4. FlagsOK(s, sd, early, reusers')
    BY <1>0, <2>1, <2>2 DEF FlagsOK
  <2> QED
    BY <1>0, <1>1, <2>1, <2>2, <2>3, <2>4, ChangesKeep
<1>2. CASE /\ ~Exists(s) /\ ~Exhausted
           /\ lastEphemeralPort' = GetEphemeralPort
           /\ CreateSocket(s, GetEphemeralPort, sd)
           /\ early' = early \cup {s}
           /\ UNCHANGED error
  <2> DEFINE old == SocketOf(s)
  <2>1. GetEphemeralPort \in Ports
    BY <1>2, EphemeralPortFacts DEF SocketInv
  <2>2. /\ old \in Descriptors /\ old.isBound = FALSE /\ old.localAddr = Unspecified
        /\ old.localPort = GetEphemeralPort /\ ~old.reuseAddr
    BY <1>2, <2>1, NewSocketFacts DEF SocketOf
  <2>3. CreateSocket(s, GetEphemeralPort, sd)
    BY <1>2
  <2>4. /\ sd \in Descriptors /\ sd.onlyLocalPortIsSet = FALSE
        /\ sd.isBound = old.isBound /\ sd.localAddr = old.localAddr
        /\ sd.localPort = old.localPort /\ sd.reuseAddr = old.reuseAddr
    BY <2>2, ConnectedFacts
  <2> HIDE DEF sd
  <2>5. FlagsOK(s, sd, early', reusers')
    BY <1>2, <2>2, <2>4 DEF FlagsOK
  <2> QED
    BY <1>0, <1>2, <2>2, <2>3, <2>4, <2>5, CreatesEphemeral
<1>3. CASE /\ ~Exists(s) /\ Exhausted
           /\ error' = "exhausted"
           /\ UNCHANGED <<socketsByIdMap, socketsByPortMap, lastEphemeralPort, early>>
  BY <1>0, <1>3, FailureKeeps
<1> QED
  BY <1>1, <1>2, <1>3 DEF Connect, OnSocket

(* setOption, of reuseAddr.                                                *)
LEMMA SetReuseKeeps ==
  ASSUME SocketInv, NEW s \in SockIds, NEW value \in BOOLEAN, SetReuseAddress(s, value)
  PROVE  SocketInv'
<1> DEFINE sd == [SocketOf(s) EXCEPT !.reuseAddr = value]
<1>0. /\ Running /\ UNCHANGED <<abandoned>> /\ reusers \subseteq reusers'
      /\ value => s \in reusers'
  BY DEF SetReuseAddress
<1>1. CASE /\ Exists(s)
           /\ socketsByIdMap' = [socketsByIdMap EXCEPT ![s] = sd]
           /\ UNCHANGED <<socketsByPortMap, lastEphemeralPort, error, early>>
  <2> DEFINE old == SocketOf(s)
  <2>1. /\ s \in Existing /\ old \in Descriptors /\ FlagsOK(s, old, early, reusers)
        /\ old = socketsByIdMap[s]
    BY <1>1, ExistingFacts DEF SocketOf
  <2>2. /\ sd \in Descriptors /\ sd.reuseAddr = value
        /\ sd.isBound = old.isBound /\ sd.localAddr = old.localAddr
        /\ sd.localPort = old.localPort /\ sd.remoteAddr = old.remoteAddr
        /\ sd.onlyLocalPortIsSet = old.onlyLocalPortIsSet
    BY <2>1, ReuseFacts
  <2>3. socketsByIdMap' = [socketsByIdMap EXCEPT ![s] = sd]
    BY <1>1
  <2> HIDE DEF sd
  <2>4. FlagsOK(s, sd, early, reusers')
    BY <1>0, <2>1, <2>2 DEF FlagsOK
  <2> QED
    BY <1>0, <1>1, <2>1, <2>2, <2>3, <2>4, ChangesKeep
<1>2. CASE /\ ~Exists(s) /\ ~Exhausted
           /\ lastEphemeralPort' = GetEphemeralPort
           /\ CreateSocket(s, GetEphemeralPort, sd)
           /\ early' = early \cup {s}
           /\ UNCHANGED error
  <2> DEFINE old == SocketOf(s)
  <2>1. GetEphemeralPort \in Ports
    BY <1>2, EphemeralPortFacts DEF SocketInv
  <2>2. /\ old \in Descriptors /\ old.isBound = FALSE /\ old.localAddr = Unspecified
        /\ old.localPort = GetEphemeralPort /\ old.remoteAddr = Unspecified
    BY <1>2, <2>1, NewSocketFacts DEF SocketOf
  <2>3. CreateSocket(s, GetEphemeralPort, sd)
    BY <1>2
  <2>4. /\ sd \in Descriptors /\ sd.reuseAddr = value
        /\ sd.isBound = old.isBound /\ sd.localAddr = old.localAddr
        /\ sd.localPort = old.localPort /\ sd.remoteAddr = old.remoteAddr
    BY <2>2, ReuseFacts
  <2> HIDE DEF sd
  <2>5. FlagsOK(s, sd, early', reusers')
    BY <1>0, <1>2, <2>2, <2>4 DEF FlagsOK
  <2> QED
    BY <1>0, <1>2, <2>2, <2>3, <2>4, <2>5, CreatesEphemeral
<1>3. CASE /\ ~Exists(s) /\ Exhausted
           /\ error' = "exhausted"
           /\ UNCHANGED <<socketsByIdMap, socketsByPortMap, lastEphemeralPort, early>>
  BY <1>0, <1>3, FailureKeeps
<1> QED
  BY <1>1, <1>2, <1>3 DEF SetReuseAddress, OnSocket

(* Another option, or a packet to send.                                    *)
LEMMA UseSocketKeeps ==
  ASSUME SocketInv, NEW s \in SockIds, UseSocket(s)
  PROVE  SocketInv'
<1>0. /\ Running /\ UNCHANGED <<reusers, abandoned>> /\ reusers \subseteq reusers'
      /\ ~Exists(s)
  BY DEF UseSocket
<1>1. CASE /\ ~Exists(s) /\ ~Exhausted
           /\ lastEphemeralPort' = GetEphemeralPort
           /\ CreateSocket(s, GetEphemeralPort, SocketOf(s))
           /\ early' = early \cup {s}
           /\ UNCHANGED error
  <2> DEFINE sd == SocketOf(s)
  <2>1. GetEphemeralPort \in Ports
    BY <1>1, EphemeralPortFacts DEF SocketInv
  <2>2. /\ sd \in Descriptors /\ sd.isBound = FALSE /\ sd.localAddr = Unspecified
        /\ sd.localPort = GetEphemeralPort /\ ~sd.reuseAddr /\ sd.remoteAddr = Unspecified
    BY <1>1, <2>1, NewSocketFacts DEF SocketOf
  <2>3. CreateSocket(s, GetEphemeralPort, sd)
    BY <1>1
  <2> HIDE DEF sd
  <2>4. FlagsOK(s, sd, early', reusers')
    BY <1>1, <2>2 DEF FlagsOK
  <2> QED
    BY <1>0, <1>1, <2>2, <2>3, <2>4, CreatesEphemeral
<1>2. CASE /\ ~Exists(s) /\ Exhausted
           /\ error' = "exhausted"
           /\ UNCHANGED <<socketsByIdMap, socketsByPortMap, lastEphemeralPort, early>>
  BY <1>0, <1>2, FailureKeeps
<1> QED
  BY <1>0, <1>1, <1>2 DEF UseSocket, OnSocket

(* bind, of a socket that is not there.                                    *)
LEMMA BindNewKeeps ==
  ASSUME SocketInv, Running, NEW s \in SockIds, NEW addr \in Addresses \cup {Unspecified},
         NEW port \in LocalPorts \cup {-1}, ~Exists(s), ~Taken(s, addr, port),
         port # -1 \/ ~Exhausted, BindNew(s, addr, port), UNCHANGED reusers
  PROVE  SocketInv'
<1>0. UNCHANGED <<error, early, abandoned>>
  BY DEF BindNew
<1>1. CASE port = -1
  <2> DEFINE p  == GetEphemeralPort
             sd == NewSocket(addr, p, TRUE)
  <2>1. p \in Ports
    BY <1>1, EphemeralPortFacts DEF SocketInv
  <2>2. CreateSocket(s, p, sd) /\ lastEphemeralPort' = p
    BY <1>1 DEF BindNew
  <2>3. /\ sd \in Descriptors /\ sd.isBound = TRUE /\ sd.localPort = p /\ ~sd.reuseAddr
        /\ sd.remoteAddr = Unspecified /\ sd.localAddr = addr
        /\ sd.onlyLocalPortIsSet = (addr = Unspecified)
    BY <2>1, NewSocketFacts
  <2> HIDE DEF sd
  <2>4. FlagsOK(s, sd, early', reusers')
    BY <2>3 DEF FlagsOK
  <2> QED
    BY <1>0, <1>1, <2>2, <2>3, <2>4, CreatesEphemeral
<1>2. CASE port # -1
  <2> DEFINE sd == NewSocket(addr, port, TRUE)
             ids2 == [socketsByIdMap EXCEPT ![s] = sd]
             list == ListOf(socketsByPortMap, port)
  <2>1. port \in LocalPorts /\ port \in Ports
    BY <1>2, SocketAssumption
  <2>2. CreateSocket(s, port, sd) /\ lastEphemeralPort' = lastEphemeralPort
    BY <1>2 DEF BindNew
  <2>3. /\ sd \in Descriptors /\ sd.isBound = TRUE /\ sd.localPort = port /\ ~sd.reuseAddr
        /\ sd.remoteAddr = Unspecified /\ sd.localAddr = addr
        /\ sd.onlyLocalPortIsSet = (addr = Unspecified)
    BY <2>1, NewSocketFacts
  <2> HIDE DEF sd
  <2>4. FlagsOK(s, sd, early, reusers)
    BY <2>3 DEF FlagsOK
  <2>5. ids2[s] = sd /\ \A t \in SockIds : t # s => ids2[t] = socketsByIdMap[t]
    BY DEF SocketInv, TablesOK
  <2>6. ids2[s].isBound /\ ids2[s].localAddr = addr
    BY <2>3, <2>5
  <2>7. \A i \in DOMAIN list : list[i] # s
    <3>1. s \notin Existing
      BY DEF Existing
    <3>2. \A i \in DOMAIN list : list[i] \in Existing
      BY DEF SocketInv, TablesOK, ListOf
    <3> QED
      BY <3>1, <3>2
  <2> HIDE DEF ids2
  <2>8. \A i \in DOMAIN list : Follows(list[i], s, ids2, reusers)
    BY <2>1, <2>5, <2>6, <2>7, JoinFollows
  <2>9. TablesStay(early, reusers, abandoned)
    BY <2>1, <2>2, <2>3, <2>4, <2>8, Creates DEF ids2
  <2> QED
    BY <1>0, <2>2, <2>9, StepKeeps DEF SocketInv, Running
<1> QED
  BY <1>1, <1>2

(* bind, of a socket that exists: to its own port, or to another one.      *)
LEMMA BindExistingKeeps ==
  ASSUME SocketInv, Running, NEW s \in SockIds, NEW addr \in Addresses \cup {Unspecified},
         NEW port \in LocalPorts \cup {-1}, Exists(s), ~AlreadyBound(s), ~Taken(s, addr, port),
         BindExisting(s, addr, port), UNCHANGED reusers
  PROVE  SocketInv'
<1> DEFINE old  == socketsByIdMap[s]
           p    == old.localPort
           sd   == Bound(old, addr, port)
           ids2 == [socketsByIdMap EXCEPT ![s] = sd]
<1>1. s \in Existing /\ old \in Descriptors /\ FlagsOK(s, old, early, reusers)
  BY ExistingFacts
<1>2. /\ sd \in Descriptors /\ sd.isBound = TRUE /\ sd.localAddr = addr
      /\ sd.localPort = IF port = -1 THEN old.localPort ELSE port
      /\ sd.remoteAddr = old.remoteAddr /\ sd.reuseAddr = old.reuseAddr
      /\ sd.onlyLocalPortIsSet = old.onlyLocalPortIsSet
  <2>1. old \in Descriptors
    BY <1>1
  <2>2. LET new == Bound(old, addr, port)
        IN  /\ new \in Descriptors
            /\ new.isBound = TRUE /\ new.localAddr = addr
            /\ new.localPort = IF port = -1 THEN old.localPort ELSE port
            /\ new.remoteAddr = old.remoteAddr /\ new.reuseAddr = old.reuseAddr
            /\ new.onlyLocalPortIsSet = old.onlyLocalPortIsSet
    <3> HIDE DEF old
    <3> QED
      BY <2>1, BoundFacts, ZenonT(30)
  <2> QED
    BY <2>2, Zenon
<1>3. socketsByIdMap' = ids2 /\ UNCHANGED <<lastEphemeralPort, error, early>>
  BY DEF BindExisting
<1>4. old.isBound = FALSE
  <2>1. old.isBound \in BOOLEAN
    BY <1>1 DEF Descriptors
  <2> QED
    BY <2>1 DEF AlreadyBound
<1> HIDE DEF sd
<1>5. FlagsOK(s, sd, early, reusers)
  BY <1>1, <1>2, <1>4 DEF FlagsOK
<1>6. CASE port = -1 \/ port = p
  <2>1. UNCHANGED <<socketsByPortMap, abandoned>>
    BY <1>6 DEF BindExisting
  <2>2. sd.localPort = socketsByIdMap[s].localPort
    BY <1>2, <1>6
  <2>3. reusers \subseteq reusers' /\ FlagsOK(s, sd, early, reusers')
    BY <1>5
  <2> QED
    BY <1>1, <1>2, <1>3, <1>4, <2>1, <2>2, <2>3, ChangesKeep
<1>7. CASE port # -1 /\ port # p
  <2> DEFINE map1 == WithList(socketsByPortMap, p, RemoveFirst(socketsByPortMap[p], s))
             gone == abandoned \cup {p}
             list == ListOf(socketsByPortMap, port)
             map2 == WithList(map1, port, Append(ListOf(map1, port), s))
             rest == Existing \ {s}
  <2>1. socketsByPortMap' = map2 /\ abandoned' = gone
    BY <1>7 DEF BindExisting
  <2>2. TablesOK(socketsByIdMap, socketsByPortMap, reusers, abandoned, Existing)
    BY DEF SocketInv
  <2>3. p \in DOMAIN socketsByPortMap /\ socketsByIdMap \in [SockIds -> Descriptors \cup {NoSocket}]
    BY <1>1, <2>2 DEF TablesOK, Listed
  <2>4. /\ DOMAIN map1 = DOMAIN socketsByPortMap /\ map1 = [q \in DOMAIN map1 |-> map1[q]]
        /\ map1[p] = RemoveFirst(socketsByPortMap[p], s)
        /\ \A q \in DOMAIN socketsByPortMap : q # p => map1[q] = socketsByPortMap[q]
    BY <2>3 DEF WithList
  <2>5. ListOf(map1, port) = list
    BY <1>7, <2>4 DEF ListOf
  <2> HIDE DEF map1
  <2>6. TablesOK(socketsByIdMap, map1, reusers, gone, rest)
    <3>1. /\ \A q \in DOMAIN map1 : /\ q \in DOMAIN socketsByPortMap
                                    /\ q # p => map1[q] = socketsByPortMap[q]
          /\ \A q \in DOMAIN socketsByPortMap : q # p => q \in DOMAIN map1
          /\ p \in DOMAIN map1 => map1[p] = RemoveFirst(socketsByPortMap[p], s)
          /\ p \notin DOMAIN map1 => RemoveFirst(socketsByPortMap[p], s) = <<>>
      BY <2>3, <2>4
    <3>2. /\ \A q \in abandoned : q \in DOMAIN map1 => q \in gone
          /\ p \in DOMAIN map1 /\ map1[p] = <<>> => p \in gone
          /\ map1 = [q \in DOMAIN map1 |-> map1[q]]
      BY <2>4
    <3> HIDE DEF gone
    <3> QED
      BY <1>1, <2>2, <3>1, <3>2, SocketLeaves
  <2>7. /\ ids2[s] = sd /\ \A t \in SockIds : t # s => ids2[t] = socketsByIdMap[t]
        /\ NoSocket \notin Descriptors
    BY <2>3, SocketAssumption
  <2>8. TablesOK(ids2, map1, reusers, gone, rest)
    <3>1. s \notin rest /\ sd \in Descriptors \cup {NoSocket}
          /\ \A t \in rest : t \in reusers => t \in reusers
      BY <1>2
    <3> HIDE DEF rest, gone
    <3> QED
      BY <2>6, <3>1, UnlistedChanges
  <2> HIDE DEF ids2
  <2>9. port \in LocalPorts /\ port \in Ports
    BY <1>7, SocketAssumption
  <2>10. \A i \in DOMAIN list : list[i] # s
    <3>1. \A i \in DOMAIN list : socketsByIdMap[list[i]].localPort = port
      BY <2>2 DEF TablesOK, Belongs, ListOf
    <3> QED
      BY <1>7, <3>1
  <2>11. ids2[s].isBound /\ ids2[s].localAddr = addr /\ ids2[s] # NoSocket /\ ids2[s].localPort = port
    BY <1>2, <1>7, <2>7
  <2>12. \A i \in DOMAIN list : Follows(list[i], s, ids2, reusers)
    BY <2>7, <2>9, <2>10, <2>11, JoinFollows
  <2>13. TablesOK(ids2, map2, reusers, gone, rest \cup {s})
    <3>1. \A i \in DOMAIN ListOf(map1, port) : Follows(ListOf(map1, port)[i], s, ids2, reusers)
      BY <2>5, <2>12
    <3>2. s \notin rest
      OBVIOUS
    <3> HIDE DEF rest, gone
    <3> QED
      BY <2>8, <2>9, <2>11, <3>1, <3>2, SocketJoins
  <2>14. Existing' = Existing /\ Existing = rest \cup {s}
    BY <1>1, <1>3, <2>7, <2>11 DEF Existing, Exists
  <2>15. \A t \in Existing : FlagsOK(t, ids2[t], early, reusers)
    <3>1. \A t \in Existing : FlagsOK(t, socketsByIdMap[t], early, reusers) /\ t \in SockIds
      BY DEF SocketInv, Existing
    <3> QED
      BY <1>5, <2>7, <3>1
  <2>16. TablesStay(early', reusers', abandoned')
    BY <1>3, <2>1, <2>13, <2>14, <2>15 DEF TablesStay
  <2> QED
    BY <1>3, <2>16, StepKeeps DEF SocketInv, Running
<1> QED
  BY <1>6, <1>7

(* close, and destroy.                                                     *)
LEMMA CloseKeeps ==
  ASSUME SocketInv, NEW s \in SockIds, Close(s)
  PROVE  SocketInv'
<1> DEFINE p    == socketsByIdMap[s].localPort
           ids2 == [socketsByIdMap EXCEPT ![s] = NoSocket]
           map2 == Destroyed(s)
           gone == abandoned \cap DOMAIN map2
           rest == Existing \ {s}
           left == reusers \ {s}
<1>1. s \in Existing
  BY DEF Close, Existing
<1>2. /\ socketsByIdMap' = ids2 /\ socketsByPortMap' = map2 /\ abandoned' = gone
      /\ early' = early \ {s} /\ reusers' = left /\ error = "none"
      /\ UNCHANGED <<lastEphemeralPort, error>>
  BY DEF Close, Running
<1>3. TablesOK(socketsByIdMap, socketsByPortMap, reusers, abandoned, Existing)
  BY DEF SocketInv
<1>4. p \in DOMAIN socketsByPortMap /\ socketsByIdMap \in [SockIds -> Descriptors \cup {NoSocket}]
      /\ socketsByPortMap = [q \in DOMAIN socketsByPortMap |-> socketsByPortMap[q]]
  BY <1>1, <1>3 DEF TablesOK, Listed
<1>5. /\ \A q \in DOMAIN map2 : /\ q \in DOMAIN socketsByPortMap
                                /\ q # p => map2[q] = socketsByPortMap[q]
      /\ \A q \in DOMAIN socketsByPortMap : q # p => q \in DOMAIN map2
      /\ p \in DOMAIN map2 => /\ map2[p] = RemoveFirst(socketsByPortMap[p], s)
                              /\ map2[p] # <<>>
      /\ p \notin DOMAIN map2 => RemoveFirst(socketsByPortMap[p], s) = <<>>
      /\ map2 = [q \in DOMAIN map2 |-> map2[q]]
  <2>1. CASE RemoveFirst(socketsByPortMap[p], s) = <<>>
    <3>1. map2 = [ q \in DOMAIN socketsByPortMap \ {p} |-> socketsByPortMap[q] ]
      BY <2>1 DEF Destroyed
    <3> HIDE DEF map2
    <3> QED
      BY <2>1, <3>1
  <2>2. CASE RemoveFirst(socketsByPortMap[p], s) # <<>>
    <3>1. map2 = [ socketsByPortMap EXCEPT ![p] = RemoveFirst(socketsByPortMap[p], s) ]
      BY <2>2 DEF Destroyed
    <3> HIDE DEF map2
    <3> QED
      BY <1>4, <2>2, <3>1
  <2> QED
    BY <2>1, <2>2
<1> HIDE DEF map2
<1>6. TablesOK(socketsByIdMap, map2, reusers, gone, rest)
  <2>1. /\ \A q \in abandoned : q \in DOMAIN map2 => q \in gone
        /\ p \in DOMAIN map2 /\ map2[p] = <<>> => p \in gone
    BY <1>5
  <2>2. /\ \A q \in DOMAIN map2 : /\ q \in DOMAIN socketsByPortMap
                                  /\ q # p => map2[q] = socketsByPortMap[q]
        /\ \A q \in DOMAIN socketsByPortMap : q # p => q \in DOMAIN map2
        /\ p \in DOMAIN map2 => map2[p] = RemoveFirst(socketsByPortMap[p], s)
        /\ p \notin DOMAIN map2 => RemoveFirst(socketsByPortMap[p], s) = <<>>
    BY <1>5
  <2>3. map2 = [q \in DOMAIN map2 |-> map2[q]]
    BY <1>5
  <2> HIDE DEF gone
  <2> QED
    BY <1>1, <1>3, <2>1, <2>2, <2>3, SocketLeaves
<1>7. TablesOK(ids2, map2, left, gone, rest)
  <2>1. /\ s \notin rest /\ NoSocket \in Descriptors \cup {NoSocket}
        /\ \A t \in rest : t \in reusers => t \in left
    OBVIOUS
  <2> HIDE DEF rest, gone, left
  <2> QED
    BY <1>6, <2>1, UnlistedChanges
<1>8. ids2[s] = NoSocket /\ \A t \in SockIds : t # s => ids2[t] = socketsByIdMap[t]
  BY <1>4
<1> HIDE DEF ids2
<1>9. Existing' = rest
  BY <1>2, <1>8 DEF Existing, Exists
<1>10. \A t \in rest : FlagsOK(t, ids2[t], early', left)
  <2>1. \A t \in rest : FlagsOK(t, socketsByIdMap[t], early, reusers) /\ t \in SockIds /\ t # s
    BY DEF SocketInv, Existing
  <2> QED
    BY <1>2, <1>8, <2>1 DEF FlagsOK
<1>11. TablesStay(early', reusers', abandoned')
  BY <1>2, <1>7, <1>9, <1>10 DEF TablesStay
<1> QED
  BY <1>2, <1>11, StepKeeps DEF SocketInv

(* Empty tables.                                                           *)
LEMMA EmptyTables ==
  ASSUME NEW reused, NEW gone, NEW ids, ids = [s \in SockIds |-> NoSocket],
         NEW map, map = [p \in {} |-> <<>>]
  PROVE  TablesOK(ids, map, reused, gone, {}) /\ { s \in SockIds : ids[s] # NoSocket } = {}
BY DEF TablesOK

(* A stop, or a crash.                                                     *)
LEMMA ClearKeeps ==
  ASSUME SocketInv, ClearAllSockets
  PROVE  SocketInv'
<1>1. /\ socketsByIdMap' = [s \in SockIds |-> NoSocket] /\ socketsByPortMap' = [p \in {} |-> <<>>]
      /\ UNCHANGED <<lastEphemeralPort, error>> /\ error = "none"
  BY DEF ClearAllSockets, Running
<1>2. /\ TablesOK(socketsByIdMap', socketsByPortMap', reusers', abandoned', {})
      /\ { s \in SockIds : socketsByIdMap'[s] # NoSocket } = {}
  BY <1>1, EmptyTables
<1>3. Existing' = {}
  BY <1>2 DEF Existing, Exists
<1>4. TablesStay(early', reusers', abandoned')
  BY <1>2, <1>3 DEF TablesStay
<1> QED
  BY <1>1, <1>4, StepKeeps DEF SocketInv

(* The invariant, in every state.                                          *)
THEOREM SocketInvariant == Spec => []SocketInv
<1>1. Init => SocketInv
  <2> SUFFICES ASSUME Init
               PROVE  SocketInv
    OBVIOUS
  <2>1. /\ TablesOK(socketsByIdMap, socketsByPortMap, reusers, abandoned, {})
        /\ { s \in SockIds : socketsByIdMap[s] # NoSocket } = {}
    BY EmptyTables DEF Init
  <2>2. Existing = {}
    BY <2>1 DEF Existing, Exists
  <2>3. lastEphemeralPort \in Ephemeral
    <3>1. /\ EPHEMERAL_PORTRANGE_START \in Nat /\ EPHEMERAL_PORTRANGE_END \in Nat
          /\ EPHEMERAL_PORTRANGE_START < EPHEMERAL_PORTRANGE_END
      BY SocketAssumption DEF Ports
    <3> QED
      BY <3>1 DEF Init, Ephemeral
  <2> QED
    BY <2>1, <2>2, <2>3 DEF Init, SocketInv
<1>2. SocketInv /\ [Next]_vars => SocketInv'
  <2> SUFFICES ASSUME SocketInv, [Next]_vars
               PROVE  SocketInv'
    OBVIOUS
  <2>1. ASSUME NEW s \in SockIds, NEW addr \in Addresses \cup {Unspecified},
               NEW port \in LocalPorts \cup {-1}, Bind(s, addr, port)
        PROVE  SocketInv'
    <3>1. CASE Fails("taken") \/ Fails("already bound")
      BY <3>1, FailureKeeps DEF Fails
    <3>2. CASE port = -1 /\ Exhausted /\ Fails("exhausted")
      BY <3>2, FailureKeeps DEF Fails
    <3>3. CASE /\ ~Taken(s, addr, port) /\ ~AlreadyBound(s)
               /\ Exists(s) \/ port # -1 \/ ~Exhausted
               /\ IF Exists(s) THEN BindExisting(s, addr, port) ELSE BindNew(s, addr, port)
               /\ UNCHANGED reusers
      <4>1. Running
        BY <2>1 DEF Bind
      <4>2. CASE Exists(s)
        BY <3>3, <4>1, <4>2, BindExistingKeeps
      <4>3. CASE ~Exists(s)
        BY <3>3, <4>1, <4>3, BindNewKeeps
      <4> QED
        BY <4>2, <4>3
    <3> QED
      BY <2>1, <3>1, <3>2, <3>3 DEF Bind
  <2>2. CASE UNCHANGED vars
    BY <2>2, FailureKeeps DEF vars, SocketInv
  <2> QED
    BY <2>1, <2>2, ConnectKeeps, SetReuseKeeps, UseSocketKeeps, CloseKeeps, ClearKeeps DEF Next
<1> QED
  BY <1>1, <1>2, PTL DEF Spec

-----------------------------------------------------------------------------
(***************************************************************************)
(* What follows from it.                                                   *)
(***************************************************************************)
(* The tables agree: a socket is in the list of its own port, once, and in *)
(* no other, and no list holds a socket that is gone, after any sequence   *)
(* of binds that move sockets, closes and stops.                           *)
THEOREM TablesAgreeHolds == Spec => []TablesAgree
<1>1. SocketInv => TablesAgree
  <2> SUFFICES ASSUME SocketInv
               PROVE  TablesAgree
    OBVIOUS
  <2>1. TablesOK(socketsByIdMap, socketsByPortMap, reusers, abandoned, Existing)
    BY DEF SocketInv
  <2>2. \A s \in Existing : s \in SockIds /\ Listed(s, socketsByPortMap, socketsByIdMap)
    BY <2>1 DEF TablesOK
  <2>3. ASSUME NEW p \in DOMAIN socketsByPortMap
        PROVE  /\ IsInjective(socketsByPortMap[p])
               /\ ToSet(socketsByPortMap[p]) = { s \in Existing : socketsByIdMap[s].localPort = p }
    <3> DEFINE list == socketsByPortMap[p]
    <3>1. /\ Belongs(list, p, socketsByIdMap) /\ \A i \in DOMAIN list : list[i] \in Existing
      BY <2>1 DEF TablesOK
    <3>2. IsInjective(list)
      BY <3>1 DEF IsInjective, Belongs
    <3>3. \A s \in Existing : socketsByIdMap[s].localPort = p => \E i \in DOMAIN list : list[i] = s
      BY <2>2 DEF Listed
    <3>4. \A i \in DOMAIN list : list[i] \in Existing /\ socketsByIdMap[list[i]].localPort = p
      BY <3>1 DEF Belongs
    <3> HIDE DEF list
    <3>5. ToSet(list) = { s \in Existing : socketsByIdMap[s].localPort = p }
      BY <3>3, <3>4 DEF ToSet
    <3> QED
      BY <3>2, <3>5 DEF list
  <2> QED
    BY <2>2, <2>3 DEF TablesAgree, Listed
<1> QED
  BY <1>1, SocketInvariant, PTL

(* Two sockets own one address and port only if both have once set         *)
(* reuseAddr, though bind asks the first socket that matches only.         *)
THEOREM OneOwnerHolds == Spec => []OneOwner
<1>1. SocketInv => OneOwner
  <2> SUFFICES ASSUME SocketInv, NEW s \in Existing, NEW t \in Existing, s # t,
                      socketsByIdMap[s].isBound, socketsByIdMap[t].isBound,
                      socketsByIdMap[s].localAddr = socketsByIdMap[t].localAddr,
                      socketsByIdMap[s].localPort = socketsByIdMap[t].localPort
               PROVE  s \in reusers /\ t \in reusers
    BY DEF OneOwner
  <2> DEFINE p    == socketsByIdMap[s].localPort
             list == socketsByPortMap[p]
  <2>1. TablesOK(socketsByIdMap, socketsByPortMap, reusers, abandoned, Existing)
    BY DEF SocketInv
  <2>2. p \in DOMAIN socketsByPortMap /\ \E i \in DOMAIN list : list[i] = s
    BY <2>1 DEF TablesOK, Listed
  <2>3. \E j \in DOMAIN list : list[j] = t
    BY <2>1 DEF TablesOK, Listed
  <2>4. PICK i \in DOMAIN list : list[i] = s
    BY <2>2
  <2>5. PICK j \in DOMAIN list : list[j] = t
    BY <2>3
  <2>6. list \in Seq(SockIds) /\ InOrder(list, socketsByIdMap, reusers)
    BY <2>1, <2>2 DEF TablesOK
  <2> HIDE DEF list
  <2>7. i \in Nat /\ j \in Nat /\ i # j
    BY <2>4, <2>5, <2>6
  <2>8. CASE i < j
    <3>1. Follows(s, t, socketsByIdMap, reusers)
      BY <2>4, <2>5, <2>6, <2>8 DEF InOrder
    <3> QED
      BY <3>1 DEF Follows
  <2>9. CASE j < i
    <3>1. Follows(t, s, socketsByIdMap, reusers)
      BY <2>4, <2>5, <2>6, <2>9 DEF InOrder
    <3> QED
      BY <3>1 DEF Follows
  <2> QED
    BY <2>7, <2>8, <2>9
<1> QED
  BY <1>1, SocketInvariant, PTL

(* getEphemeralPort fails only when each port of the range has a socket,   *)
(* or had one that a bind moved away.                                      *)
THEOREM ExhaustionExplainedHolds == Spec => []ExhaustionExplained
<1>1. SocketInv => ExhaustionExplained
  <2> SUFFICES ASSUME SocketInv, error = "exhausted", NEW p \in Ephemeral
               PROVE  p \in { socketsByIdMap[s].localPort : s \in Existing } \cup abandoned
    BY DEF ExhaustionExplained
  <2>1. TablesOK(socketsByIdMap, socketsByPortMap, reusers, abandoned, Existing)
    BY DEF SocketInv
  <2>2. p \in DOMAIN socketsByPortMap
    <3>1. PICK i \in 1 .. PortCount : Tried(i) = p
      BY TriedFacts DEF SocketInv
    <3> QED
      BY <3>1 DEF SocketInv, Exhausted, FreeTries
  <2>3. CASE socketsByPortMap[p] = <<>>
    BY <2>1, <2>2, <2>3 DEF TablesOK
  <2>4. CASE socketsByPortMap[p] # <<>>
    <3>1. socketsByPortMap[p] \in Seq(SockIds) /\ Belongs(socketsByPortMap[p], p, socketsByIdMap)
          /\ \A i \in DOMAIN socketsByPortMap[p] : socketsByPortMap[p][i] \in Existing
      BY <2>1, <2>2 DEF TablesOK
    <3>2. 1 \in DOMAIN socketsByPortMap[p]
      BY <2>4, <3>1
    <3> QED
      BY <3>1, <3>2 DEF Belongs
  <2> QED
    BY <2>3, <2>4
<1> QED
  BY <1>1, SocketInvariant, PTL

(* The socket found for a packet exists and matches it.                    *)
LEMMA FoundFacts ==
  ASSUME SocketInv, NEW addr, NEW port \in DOMAIN socketsByPortMap, NEW remote,
         FindSocketForUnicastPacket(addr, port, remote) # NoSocket
  PROVE  LET s == FindSocketForUnicastPacket(addr, port, remote)
         IN  s \in Existing /\ MatchesPacket(socketsByIdMap[s], addr, remote)
<1> DEFINE list       == ListOf(socketsByPortMap, port)
           candidates == { i \in DOMAIN list : MatchesPacket(socketsByIdMap[list[i]], addr, remote) }
           addressed  == { i \in candidates : socketsByIdMap[list[i]].localAddr # Unspecified }
           s == FindSocketForUnicastPacket(addr, port, remote)
<1>1. s = IF addressed # {} THEN list[Max(addressed)]
          ELSE IF candidates # {} THEN list[Min(candidates)] ELSE NoSocket
  BY DEF FindSocketForUnicastPacket
<1>2. s # NoSocket
  OBVIOUS
<1>3. list \in Seq(SockIds) /\ \A i \in DOMAIN list : list[i] \in Existing
  <2>1. list = socketsByPortMap[port]
    BY DEF ListOf
  <2> QED
    BY <2>1 DEF SocketInv, TablesOK
<1> HIDE DEF list, s
<1>4. Len(list) \in Nat /\ DOMAIN list = 1 .. Len(list)
  BY <1>3
<1>5. \E i \in candidates : s = list[i]
  <2>1. CASE addressed # {}
    <3>1. addressed \subseteq 1 .. Len(list) /\ addressed \subseteq candidates
      BY <1>4
    <3> HIDE DEF candidates, addressed
    <3>2. Max(addressed) \in addressed
      BY <1>4, <2>1, <3>1, MaxFacts
    <3> QED
      BY <1>1, <2>1, <3>1, <3>2
  <2>2. CASE addressed = {}
    <3>1. candidates \subseteq Nat /\ candidates # {}
      BY <1>1, <1>2, <1>4, <2>2
    <3> HIDE DEF candidates, addressed
    <3>2. Min(candidates) \in candidates
      BY <3>1, MinFacts
    <3> QED
      BY <1>1, <2>2, <3>1, <3>2
  <2> QED
    BY <2>1, <2>2
<1> QED
  BY <1>3, <1>5 DEF s

(* A packet never goes to a socket that is connected to another peer.      *)
THEOREM ConnectedPeerOnlyHolds == Spec => []ConnectedPeerOnly
<1>1. SocketInv => ConnectedPeerOnly
  <2> SUFFICES ASSUME SocketInv, NEW addr \in Addresses, NEW port \in DOMAIN socketsByPortMap,
                      NEW remote \in Remotes,
                      FindSocketForUnicastPacket(addr, port, remote) # NoSocket
               PROVE  socketsByIdMap[FindSocketForUnicastPacket(addr, port, remote)].remoteAddr
                        \in {Unspecified, remote}
    BY DEF ConnectedPeerOnly
  <2> DEFINE s == FindSocketForUnicastPacket(addr, port, remote)
  <2>1. s \in Existing /\ MatchesPacket(socketsByIdMap[s], addr, remote)
    BY FoundFacts
  <2> HIDE DEF s
  <2>2. socketsByIdMap[s].remoteAddr \in {Unspecified, remote}
    BY <2>1 DEF SocketInv, FlagsOK, MatchesPacket
  <2> QED
    BY <2>2 DEF s
<1> QED
  BY <1>1, SocketInvariant, PTL

(* A packet goes to a socket bound to another address only if the socket   *)
(* was there before bind.                                                  *)
THEOREM MisdirectedOnlyIfEarlyHolds == Spec => []MisdirectedOnlyIfEarly
<1>1. SocketInv => MisdirectedOnlyIfEarly
  <2> SUFFICES ASSUME SocketInv, NEW addr \in Addresses, NEW port \in DOMAIN socketsByPortMap,
                      NEW remote \in Remotes,
                      FindSocketForUnicastPacket(addr, port, remote) # NoSocket,
                      FindSocketForUnicastPacket(addr, port, remote) \notin early
               PROVE  socketsByIdMap[FindSocketForUnicastPacket(addr, port, remote)].localAddr
                        \in {Unspecified, addr}
    BY DEF MisdirectedOnlyIfEarly
  <2> DEFINE s == FindSocketForUnicastPacket(addr, port, remote)
  <2>1. s \in Existing /\ MatchesPacket(socketsByIdMap[s], addr, remote) /\ s \notin early
    BY FoundFacts
  <2> HIDE DEF s
  <2>2. socketsByIdMap[s].localAddr \in {Unspecified, addr}
    BY <2>1 DEF SocketInv, FlagsOK, MatchesPacket
  <2> QED
    BY <2>2 DEF s
<1> QED
  BY <1>1, SocketInvariant, PTL
=============================================================================
