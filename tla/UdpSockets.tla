----------------------------- MODULE UdpSockets -----------------------------
(***************************************************************************)
(* The sockets of Udp (src/inet/transportlayer/udp/Udp.cc): the commands   *)
(* of the applications, the tables socketsByIdMap and socketsByPortMap,    *)
(* ephemeral ports, and the choice of the socket for a unicast packet.     *)
(* Every command but bind creates the socket it names if there is none.    *)
(***************************************************************************)
EXTENDS Integers, FiniteSets, Sequences, SequencesExt

CONSTANTS
  SockIds, NoSocket,
  Addresses,               (* local addresses of the host                  *)
  Remotes,                 (* peers                                        *)
  Unspecified,             (* the unspecified L3Address                    *)
  LocalPorts,              (* ports the applications ask for               *)
  EPHEMERAL_PORTRANGE_START, EPHEMERAL_PORTRANGE_END

(* An ushort, and SockDesc.                                                *)
Ports == { p \in Nat : p < 65536 }

Descriptors ==
  [ isBound : BOOLEAN, localAddr : Addresses \cup {Unspecified}, localPort : Ports,
    remoteAddr : Remotes \cup {Unspecified}, reuseAddr : BOOLEAN,
    onlyLocalPortIsSet : BOOLEAN ]

(* Other ports bind refuses.                                               *)
ASSUME SocketAssumption ==
  /\ NoSocket \notin SockIds \cup Descriptors
  /\ Unspecified \notin Addresses \cup Remotes
  /\ LocalPorts \subseteq Ports
  /\ EPHEMERAL_PORTRANGE_START \in Ports /\ EPHEMERAL_PORTRANGE_END \in Ports
  /\ EPHEMERAL_PORTRANGE_START < EPHEMERAL_PORTRANGE_END

VARIABLES
  socketsByIdMap,          (* descriptor of each socket, or NoSocket       *)
  socketsByPortMap,        (* list of sockets of each port that has one    *)
  lastEphemeralPort,
  error,
  early,                   (* history: sockets created by another command  *)
                           (* than bind                                    *)
  bindings,                (* history: the sockets bound, the last last    *)
  reusers,                 (* history: sockets that once set reuseAddr     *)
  abandoned                (* history: ports whose list a bind left        *)

vars == <<socketsByIdMap, socketsByPortMap, lastEphemeralPort, error, early, bindings,
          reusers, abandoned>>

Running == error = "none"

Ephemeral == EPHEMERAL_PORTRANGE_START .. EPHEMERAL_PORTRANGE_END - 1

Exists(s) == socketsByIdMap[s] # NoSocket

Existing == { s \in SockIds : Exists(s) }

Fails(what) ==
  /\ error' = what
  /\ UNCHANGED <<socketsByIdMap, socketsByPortMap, lastEphemeralPort, early, bindings,
                 reusers, abandoned>>

-----------------------------------------------------------------------------
(***************************************************************************)
(* getEphemeralPort: the first port after the last one that has no list,   *)
(* the last one itself at the end; Tried(i) is the i-th port tried.        *)
(***************************************************************************)
PortCount == EPHEMERAL_PORTRANGE_END - EPHEMERAL_PORTRANGE_START

Tried(i) ==
  LET port == lastEphemeralPort + i
  IN  IF port < EPHEMERAL_PORTRANGE_END THEN port ELSE port - PortCount

FreeTries == { i \in 1 .. PortCount : Tried(i) \notin DOMAIN socketsByPortMap }

Exhausted == FreeTries = {}

GetEphemeralPort == Tried(Min(FreeTries))

-----------------------------------------------------------------------------
(***************************************************************************)
(* The tables.                                                             *)
(***************************************************************************)
ListOf(map, p) == IF p \in DOMAIN map THEN map[p] ELSE <<>>

WithList(map, p, list) == [ q \in DOMAIN map \cup {p} |-> IF q = p THEN list ELSE map[q] ]

NewSocketAlwaysOnlyPort(addr, port, bound) ==
  [ isBound |-> bound, localAddr |-> addr, localPort |-> port, remoteAddr |-> Unspecified,
    reuseAddr |-> FALSE, onlyLocalPortIsSet |-> TRUE ]

NewSocket(addr, port, bound) ==
  [ isBound |-> bound, localAddr |-> addr, localPort |-> port, remoteAddr |-> Unspecified,
    reuseAddr |-> FALSE, onlyLocalPortIsSet |-> addr = Unspecified ]

(* createSocket, and what the command does to the new descriptor.          *)
CreateSocket(s, port, sd) ==
  /\ socketsByIdMap' = [socketsByIdMap EXCEPT ![s] = sd]
  /\ socketsByPortMap' = WithList(socketsByPortMap, port,
                                  Append(ListOf(socketsByPortMap, port), s))

(* getOrCreateSocket: its result, and what it does, where the command then *)
(* makes sd of the descriptor.                                             *)
SocketOf(s) ==
  IF Exists(s) THEN socketsByIdMap[s] ELSE NewSocket(Unspecified, GetEphemeralPort, FALSE)

OnSocket(s, sd) ==
  \/ /\ Exists(s)
     /\ socketsByIdMap' = [socketsByIdMap EXCEPT ![s] = sd]
     /\ UNCHANGED <<socketsByPortMap, lastEphemeralPort, error, early>>
  \/ /\ ~Exists(s) /\ ~Exhausted
     /\ lastEphemeralPort' = GetEphemeralPort
     /\ CreateSocket(s, GetEphemeralPort, sd)
     /\ early' = early \cup {s}
     /\ UNCHANGED error
  \/ /\ ~Exists(s) /\ Exhausted
     /\ error' = "exhausted"
     /\ UNCHANGED <<socketsByIdMap, socketsByPortMap, lastEphemeralPort, early>>

-----------------------------------------------------------------------------
(***************************************************************************)
(* bind.                                                                   *)
(***************************************************************************)
(* The argument is an ushort: for -1, which asks for an ephemeral port,    *)
(* the list of port 65535 is searched.                                     *)
FindFirstSocketByLocalAddress(addr, port) ==
  LET list  == ListOf(socketsByPortMap, port % 65536)
      found == { i \in DOMAIN list : socketsByIdMap[list[i]].localAddr \in {Unspecified, addr} }
  IN  IF found = {} THEN NoSocket ELSE list[Min(found)]

Reuses(s) == Exists(s) /\ socketsByIdMap[s].reuseAddr

TakenUnlessAnyReuses(s, addr, port) ==
  LET existing == FindFirstSocketByLocalAddress(addr, port)
  IN  existing # NoSocket /\ ~Reuses(s) /\ ~Reuses(existing)

(* Both must reuse the address.                                            *)
Taken(s, addr, port) ==
  LET existing == FindFirstSocketByLocalAddress(addr, port)
  IN  existing # NoSocket /\ ~(Reuses(s) /\ Reuses(existing))

Bound(sd, addr, port) ==
  [ sd EXCEPT !.isBound = TRUE, !.localAddr = addr, !.localPort = IF port = -1 THEN @ ELSE port ]

BindWithoutMove(s, addr, port) ==
  /\ socketsByIdMap' = [socketsByIdMap EXCEPT ![s] = Bound(@, addr, port)]
  /\ UNCHANGED <<socketsByPortMap, lastEphemeralPort, error, early, abandoned>>

(* A socket that exists moves to the list of its new port; the list of the *)
(* old one stays, even if it is empty now.                                 *)
BindExisting(s, addr, port) ==
  LET sd    == socketsByIdMap[s]
      moved == port # -1 /\ port # sd.localPort
      without == WithList(socketsByPortMap, sd.localPort,
                          RemoveFirst(socketsByPortMap[sd.localPort], s))
  IN  /\ socketsByIdMap' = [socketsByIdMap EXCEPT ![s] = Bound(@, addr, port)]
      /\ socketsByPortMap' =
           IF moved THEN WithList(without, port, Append(ListOf(without, port), s))
                    ELSE socketsByPortMap
      /\ abandoned' = IF moved THEN abandoned \cup {sd.localPort} ELSE abandoned
      /\ UNCHANGED <<lastEphemeralPort, error, early>>

BindNew(s, addr, port) ==
  LET p == IF port = -1 THEN GetEphemeralPort ELSE port
  IN  /\ CreateSocket(s, p, NewSocket(addr, p, TRUE))
      /\ lastEphemeralPort' = IF port = -1 THEN p ELSE lastEphemeralPort
      /\ UNCHANGED <<error, early, abandoned>>

AlreadyBound(s) == Exists(s) /\ socketsByIdMap[s].isBound

Bind(s, addr, port) ==
  /\ Running
  /\ \/ Taken(s, addr, port) /\ Fails("taken")
     \/ ~Taken(s, addr, port) /\ AlreadyBound(s) /\ Fails("already bound")
     \/ ~Exists(s) /\ port = -1 /\ Exhausted /\ Fails("exhausted")
     \/ /\ ~Taken(s, addr, port) /\ ~AlreadyBound(s)
        /\ Exists(s) \/ port # -1 \/ ~Exhausted
        /\ IF Exists(s) THEN BindExisting(s, addr, port) ELSE BindNew(s, addr, port)
        /\ bindings' = Append(RemoveFirst(bindings, s), s)
        /\ UNCHANGED reusers

-----------------------------------------------------------------------------
(***************************************************************************)
(* The other commands.                                                     *)
(***************************************************************************)
ConnectKeepsFlag(s, remote) ==
  /\ Running
  /\ OnSocket(s, [SocketOf(s) EXCEPT !.remoteAddr = remote])
  /\ UNCHANGED <<bindings, reusers, abandoned>>

Connect(s, remote) ==
  /\ Running
  /\ OnSocket(s, [SocketOf(s) EXCEPT !.remoteAddr = remote, !.onlyLocalPortIsSet = FALSE])
  /\ UNCHANGED <<bindings, reusers, abandoned>>

SetReuseAddress(s, value) ==
  /\ Running
  /\ OnSocket(s, [SocketOf(s) EXCEPT !.reuseAddr = value])
  /\ reusers' = IF value THEN reusers \cup {s} ELSE reusers
  /\ UNCHANGED <<bindings, abandoned>>

(* Any other option, and a packet to send: the socket is there afterwards. *)
UseSocket(s) ==
  /\ Running
  /\ ~Exists(s)
  /\ OnSocket(s, SocketOf(s))
  /\ UNCHANGED <<bindings, reusers, abandoned>>

DestroyLeavesList(s) ==
  LET p == socketsByIdMap[s].localPort
  IN  [ socketsByPortMap EXCEPT ![p] = RemoveFirst(@, s) ]

(* destroySocket: a list that becomes empty is erased.                     *)
Destroyed(s) ==
  LET p    == socketsByIdMap[s].localPort
      list == RemoveFirst(socketsByPortMap[p], s)
  IN  IF list = <<>>
        THEN [ q \in DOMAIN socketsByPortMap \ {p} |-> socketsByPortMap[q] ]
        ELSE [ socketsByPortMap EXCEPT ![p] = list ]

(* close and destroy; neither minds a socket that is not there.            *)
Close(s) ==
  /\ Running
  /\ Exists(s)
  /\ socketsByIdMap' = [socketsByIdMap EXCEPT ![s] = NoSocket]
  /\ socketsByPortMap' = Destroyed(s)
  /\ early' = early \ {s} /\ reusers' = reusers \ {s}
  /\ bindings' = RemoveFirst(bindings, s)
  /\ abandoned' = abandoned \cap DOMAIN socketsByPortMap'
  /\ UNCHANGED <<lastEphemeralPort, error>>

(* clearAllSockets, in a stop or a crash; lastEphemeralPort stays.         *)
ClearAllSockets ==
  /\ Running
  /\ socketsByIdMap' = [s \in SockIds |-> NoSocket]
  /\ socketsByPortMap' = [p \in {} |-> <<>>]
  /\ early' = {} /\ bindings' = <<>> /\ reusers' = {} /\ abandoned' = {}
  /\ UNCHANGED <<lastEphemeralPort, error>>

Init ==
  /\ socketsByIdMap = [s \in SockIds |-> NoSocket]
  /\ socketsByPortMap = [p \in {} |-> <<>>]
  /\ lastEphemeralPort = EPHEMERAL_PORTRANGE_START
  /\ error = "none"
  /\ early = {} /\ bindings = <<>> /\ reusers = {} /\ abandoned = {}

Next ==
  \/ \E s \in SockIds :
       \/ \E addr \in Addresses \cup {Unspecified}, port \in LocalPorts \cup {-1} :
            Bind(s, addr, port)
       \/ \E remote \in Remotes : Connect(s, remote)
       \/ \E value \in BOOLEAN : SetReuseAddress(s, value)
       \/ UseSocket(s)
       \/ Close(s)
  \/ ClearAllSockets

Spec == Init /\ [][Next]_vars

-----------------------------------------------------------------------------
(***************************************************************************)
(* findSocketForUnicastPacket: the sockets of the port that match, and of  *)
(* them the last with an address, or else the first without.               *)
(***************************************************************************)
MatchesPacket(sd, addr, remote) ==
  \/ sd.onlyLocalPortIsSet
  \/ /\ sd.localAddr \in {Unspecified, addr}
     /\ sd.remoteAddr \in {Unspecified, remote}

FindSocketForUnicastPacket(addr, port, remote) ==
  LET list       == ListOf(socketsByPortMap, port)
      candidates == { i \in DOMAIN list : MatchesPacket(socketsByIdMap[list[i]], addr, remote) }
      addressed  == { i \in candidates : socketsByIdMap[list[i]].localAddr # Unspecified }
  IN  IF addressed # {} THEN list[Max(addressed)]
      ELSE IF candidates # {} THEN list[Min(candidates)] ELSE NoSocket

-----------------------------------------------------------------------------
(* The two tables agree after any sequence of commands, moves and closes:  *)
(* a socket is in the list of its own port, once, and in no other list,    *)
(* and no list holds a socket that is gone, to which a packet would be     *)
(* delivered.                                                              *)
TablesAgree ==
  /\ \A s \in Existing : socketsByIdMap[s].localPort \in DOMAIN socketsByPortMap
  /\ \A p \in DOMAIN socketsByPortMap :
       /\ IsInjective(socketsByPortMap[p])
       /\ ToSet(socketsByPortMap[p]) = { s \in Existing : socketsByIdMap[s].localPort = p }

(* Two sockets are bound to the same address and port only if both have    *)
(* once set reuseAddr, though bind looks at the first of the list only,    *)
(* and at the flag as it is by then.                                       *)
OneOwner ==
  \A s, t \in Existing :
    LET d == socketsByIdMap[s]
        e == socketsByIdMap[t]
    IN  s # t /\ d.isBound /\ e.isBound /\ d.localAddr = e.localAddr
          /\ d.localPort = e.localPort => {s, t} \subseteq reusers

(* "Ephemeral port range exhausted" is thrown only when each port of the   *)
(* range has a socket, or had one that a bind moved away, wherever the     *)
(* search begins and whatever was opened and closed before.                *)
ExhaustionExplained ==
  error = "exhausted" =>
    Ephemeral \subseteq { socketsByIdMap[s].localPort : s \in Existing } \cup abandoned

(* A packet never goes to a socket that is connected to another peer.      *)
ConnectedPeerOnly ==
  \A addr \in Addresses, port \in DOMAIN socketsByPortMap, remote \in Remotes :
    LET s == FindSocketForUnicastPacket(addr, port, remote)
    IN  s # NoSocket => socketsByIdMap[s].remoteAddr \in {Unspecified, remote}

(* A packet goes to a socket bound to another address only if that socket  *)
(* existed before it was bound, and kept onlyLocalPortIsSet from then.     *)
MisdirectedOnlyIfEarly ==
  \A addr \in Addresses, port \in DOMAIN socketsByPortMap, remote \in Remotes :
    LET s == FindSocketForUnicastPacket(addr, port, remote)
    IN  s \notin early \cup {NoSocket}
          => socketsByIdMap[s].localAddr \in {Unspecified, addr}

(* Of the sockets bound to one address and port, "only one socket will     *)
(* receive the packets arrived at that address/port (the last bound one)". *)
LastBoundReceives ==
  \A addr \in Addresses, port \in DOMAIN socketsByPortMap, remote \in Remotes :
    LET s == FindSocketForUnicastPacket(addr, port, remote)
        Sharing(t) == /\ socketsByIdMap[t].localAddr = socketsByIdMap[s].localAddr
                      /\ socketsByIdMap[t].localPort = port
                      /\ socketsByIdMap[t].remoteAddr = Unspecified
        sharers == SelectSeq(bindings, Sharing)
    IN  s # NoSocket /\ Len(sharers) > 1 => s = Last(sharers)
=============================================================================
