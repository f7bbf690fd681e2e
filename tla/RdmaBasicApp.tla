---------------------------- MODULE RdmaBasicApp ----------------------------
(***************************************************************************)
(* The application of one host (src/inet/applications/rdmaapp/             *)
(* RdmaBasicApp.cc) with its clock: when selfMsg is scheduled and fires,   *)
(* how the lifecycle operations interrupt it, and which destination        *)
(* chooseDestAddr picks from its two lists.  Module RdmaSystem has what    *)
(* happens to the packets.                                                 *)
(*                                                                         *)
(* Times are whole ticks.  The simulator runs all events of a moment       *)
(* before the clock moves on; events of the same moment come in any order. *)
(***************************************************************************)
EXTENDS Integers, Sequences, FiniteSets

CONSTANTS
  startTime, stopTime,     (* stopTime is -1 for "forever"                 *)
  SendIntervals,           (* values of the volatile sendInterval          *)
  Names,                   (* the names of hosts                           *)
  Tokens,                  (* the names listed in destAddresses            *)
  Local,                   (* the names of this host                       *)
  excludeLocalDestAddresses,
  InitiallyResolvable,     (* names with an address at the start           *)
  Unspecified,             (* the unspecified L3Address                    *)
  stopOperationTimeout,
  MaxTime,                 (* bound: the last moment                       *)
  MaxLifecycle             (* bound: stop and crash operations             *)

ASSUME AppAssumption ==
  /\ startTime \in Nat
  /\ stopTime \in Nat \cup {-1}
  /\ stopTime = -1 \/ startTime <= stopTime
  /\ SendIntervals \subseteq Nat
  /\ Tokens \in Seq(Names)
  /\ Local \subseteq Names
  /\ InitiallyResolvable \subseteq Names
  /\ Unspecified \notin Names
  /\ excludeLocalDestAddresses \in BOOLEAN
  /\ stopOperationTimeout \in Nat
  /\ MaxTime \in Nat
  /\ MaxLifecycle \in Nat

VARIABLES
  now,                     (* getClockTime()                               *)
  selfMsg,                 (* [kind, at]; kind is NONE when not scheduled  *)
  operationalState,
  stopTimeout,             (* when ActiveOperationTimeout fires, -1: never *)
  destAddressStr,          (* names seen by processStart                   *)
  destAddresses,           (* the addresses they had: a name or Unspecified *)
  resolvable,              (* names that L3AddressResolver can resolve     *)
  sends,                   (* history: [at, to] of the packets sent        *)
  error,                   (* the cRuntimeError that ended the simulation  *)
  lifecycleOps

lists == <<destAddressStr, destAddresses>>
vars == <<now, selfMsg, operationalState, stopTimeout, lists, resolvable, sends,
          error, lifecycleOps>>

Running == error = "none"

Idle == [kind |-> "NONE", at |-> 0]

-----------------------------------------------------------------------------
(***************************************************************************)
(* scheduleClockEventAt: the simulator refuses a message that is already   *)
(* scheduled and a time in the past.                                       *)
(***************************************************************************)
Schedule(timer, kind, at) ==
  /\ selfMsg' = [kind |-> kind, at |-> at]
  /\ error' = IF timer # Idle THEN "already scheduled"
              ELSE IF at < now THEN "scheduled in the past" ELSE error

Resolve(name) == IF name \in resolvable THEN name ELSE Unspecified

NotSkipped(name) ==
  ~(excludeLocalDestAddresses /\ Resolve(name) # Unspecified /\ Resolve(name) \in Local)

ReadNamesFresh == Tokens

(* processStart appends every name to destAddressStr but leaves a local    *)
(* address out of destAddresses; a restart appends them all once more.     *)
ReadNames == destAddressStr \o Tokens

KeptIndices == { i \in DOMAIN Tokens : NotSkipped(Tokens[i]) }

Nth(indices, n) == CHOOSE i \in indices : Cardinality({ j \in indices : j <= i }) = n

ReadAddresses ==
  destAddresses \o [ n \in 1 .. Cardinality(KeptIndices) |-> Resolve(Tokens[Nth(KeptIndices, n)]) ]

(* chooseDestAddr: an address that was unspecified is looked up again, by  *)
(* the name at its index.                                                  *)
ChooseDestAddr(names, addresses, k) ==
  IF addresses[k] = Unspecified THEN Resolve(names[k]) ELSE addresses[k]

NextTimerInclusive(d) ==
  IF stopTime < 0 \/ now + d <= stopTime THEN [kind |-> "SEND", at |-> now + d]
                                         ELSE [kind |-> "STOP", at |-> stopTime]

NextTimerNeverStop(d) == [kind |-> "SEND", at |-> now + d]

(* The end of processSend: SEND again, or STOP at stopTime.                *)
NextTimer(d) ==
  IF stopTime < 0 \/ now + d < stopTime THEN [kind |-> "SEND", at |-> now + d]
                                        ELSE [kind |-> "STOP", at |-> stopTime]

(* processSend on the lists as they are now.  A packet whose destination   *)
(* is unspecified makes Rdma throw when it gets there, at the same moment. *)
ProcessSend(names, addresses) ==
  \E k \in DOMAIN addresses, d \in SendIntervals :
    LET destAddr == ChooseDestAddr(names, addresses, k)
    IN /\ destAddresses' = [addresses EXCEPT ![k] = destAddr]
       /\ IF destAddr = Unspecified
            THEN /\ selfMsg' = NextTimer(d)
                 /\ error' = "unspecified destination address"
                 /\ UNCHANGED sends
            ELSE /\ Schedule(Idle, NextTimer(d).kind, NextTimer(d).at)
                 /\ sends' = sends \cup {[at |-> now, to |-> destAddr]}

-----------------------------------------------------------------------------
Fires(kind) == Running /\ selfMsg.kind = kind /\ selfMsg.at = now

(* processStart goes on with processSend if there is somewhere to send to. *)
HandleStart ==
  /\ Fires("START")
  /\ destAddressStr' = ReadNames
  /\ IF ReadAddresses # <<>>
       THEN ProcessSend(ReadNames, ReadAddresses)
       ELSE /\ IF stopTime >= 0 THEN Schedule(Idle, "STOP", stopTime)
                                ELSE selfMsg' = Idle /\ UNCHANGED error
            /\ UNCHANGED <<destAddresses, sends>>
  /\ UNCHANGED <<now, operationalState, stopTimeout, resolvable, lifecycleOps>>

HandleSend ==
  /\ Fires("SEND")
  /\ ProcessSend(destAddressStr, destAddresses)
  /\ UNCHANGED <<now, operationalState, stopTimeout, destAddressStr, resolvable, lifecycleOps>>

HandleStop ==
  /\ Fires("STOP")
  /\ selfMsg' = Idle
  /\ UNCHANGED <<now, operationalState, stopTimeout, lists, resolvable, sends, error,
                 lifecycleOps>>

-----------------------------------------------------------------------------
(***************************************************************************)
(* Lifecycle.                                                              *)
(***************************************************************************)
Later(x, y) == IF x >= y THEN x ELSE y

(* handleStartOperation, at initialization and at every start.             *)
StartTimer ==
  LET start == Later(startTime, now)
  IN IF stopTime < 0 \/ start < stopTime \/ (start = stopTime /\ startTime = stopTime)
       THEN Schedule(selfMsg, "START", start)
       ELSE UNCHANGED <<selfMsg, error>>

HandleStartOperation ==
  /\ Running /\ operationalState = "NOT_OPERATING"
  /\ operationalState' = "OPERATING"
  /\ StartTimer
  /\ UNCHANGED <<now, stopTimeout, lists, resolvable, sends, lifecycleOps>>

HandleStopOperation ==
  /\ Running /\ operationalState = "OPERATING"
  /\ lifecycleOps < MaxLifecycle
  /\ lifecycleOps' = lifecycleOps + 1
  /\ operationalState' = "STOPPING_OPERATION"
  /\ selfMsg' = Idle
  /\ stopTimeout' = now + stopOperationTimeout
  /\ UNCHANGED <<now, lists, resolvable, sends, error>>

(* The timeout goes through handleCrashOperation.                          *)
HandleActiveOperationTimeout ==
  /\ Running /\ stopTimeout = now
  /\ selfMsg' = Idle
  /\ operationalState' = "NOT_OPERATING"
  /\ stopTimeout' = -1
  /\ UNCHANGED <<now, lists, resolvable, sends, error, lifecycleOps>>

HandleCrashOperationKeepsTimer ==
  /\ Running /\ operationalState = "OPERATING"
  /\ lifecycleOps < MaxLifecycle
  /\ lifecycleOps' = lifecycleOps + 1
  /\ operationalState' = "NOT_OPERATING"
  /\ UNCHANGED <<now, selfMsg, stopTimeout, lists, resolvable, sends, error>>

HandleCrashOperation ==
  /\ Running /\ operationalState = "OPERATING"
  /\ lifecycleOps < MaxLifecycle
  /\ lifecycleOps' = lifecycleOps + 1
  /\ operationalState' = "NOT_OPERATING"
  /\ selfMsg' = Idle
  /\ UNCHANGED <<now, stopTimeout, lists, resolvable, sends, error>>

-----------------------------------------------------------------------------
(* The environment: an interface gets its address, and time passes.        *)
AddressAssigned(name) ==
  /\ Running
  /\ resolvable' = resolvable \cup {name}
  /\ UNCHANGED <<now, selfMsg, operationalState, stopTimeout, lists, sends, error, lifecycleOps>>

Tick ==
  /\ Running /\ now < MaxTime
  /\ ~(selfMsg.kind # "NONE" /\ selfMsg.at = now)
  /\ stopTimeout # now
  /\ now' = now + 1
  /\ UNCHANGED <<selfMsg, operationalState, stopTimeout, lists, resolvable, sends, error,
                 lifecycleOps>>

(* initialize ends with handleStartOperation at time 0.                    *)
Init ==
  /\ now = 0
  /\ selfMsg = [kind |-> "START", at |-> startTime]
  /\ operationalState = "OPERATING"
  /\ stopTimeout = -1
  /\ destAddressStr = <<>>
  /\ destAddresses = <<>>
  /\ resolvable = InitiallyResolvable
  /\ sends = {}
  /\ error = "none"
  /\ lifecycleOps = 0

SelfMessage == HandleStart \/ HandleSend \/ HandleStop

Next ==
  \/ SelfMessage
  \/ HandleStartOperation
  \/ HandleStopOperation
  \/ HandleActiveOperationTimeout
  \/ HandleCrashOperation
  \/ \E name \in Names : AddressAssigned(name)
  \/ Tick

Spec == Init /\ [][Next]_vars

(* The simulator runs every scheduled event and its time moves on.         *)
FairSpec ==
  Spec /\ WF_vars(SelfMessage) /\ WF_vars(HandleActiveOperationTimeout) /\ WF_vars(Tick)

-----------------------------------------------------------------------------
(* However starts, stops, crashes and timers interleave, selfMsg is never  *)
(* scheduled twice, nor in the past, and is not left behind in a module    *)
(* that is down: none of the simulator's errors about timers.              *)
NoTimerError ==
  /\ error \notin {"already scheduled", "scheduled in the past"}
  /\ operationalState # "OPERATING" => selfMsg = Idle

(* Packets are sent from startTime on and before stopTime, restarts        *)
(* included; only startTime = stopTime sends one at stopTime.              *)
SendsWithinWindow ==
  \A s \in sends : /\ startTime <= s.at
                   /\ stopTime = -1 \/ s.at < stopTime \/ s.at = startTime

(* Why these two hold.  A timer is never behind the clock, only an         *)
(* application that is up has one, and START and SEND lie before stopTime. *)
TimerInv ==
  /\ now \in Nat
  /\ selfMsg = Idle \/ /\ selfMsg.kind \in {"START", "SEND", "STOP"}
                       /\ selfMsg.at \in Nat
                       /\ now <= selfMsg.at
                       /\ startTime <= selfMsg.at
                       /\ operationalState = "OPERATING"
  /\ selfMsg.kind = "START" =>
       stopTime = -1 \/ selfMsg.at < stopTime \/ (selfMsg.at = startTime /\ startTime = stopTime)
  /\ selfMsg.kind = "SEND" => stopTime = -1 \/ selfMsg.at < stopTime
  /\ NoTimerError
  /\ SendsWithinWindow

(* The promise of excludeLocalDestAddresses, "excluding local addresses    *)
(* from destAddresses": no packet is sent to the host itself.              *)
ExcludesLocal == excludeLocalDestAddresses => \A s \in sends : s.to \notin Local

(* chooseDestAddr never reads past destAddressStr: the two lists differ in *)
(* length as soon as a local address is skipped, and grow at each restart. *)
ListsCover == Len(destAddresses) <= Len(destAddressStr)

(* Why it holds: both are sequences, and each start adds at most as many   *)
(* addresses as names.                                                     *)
ListsInv ==
  /\ resolvable \subseteq Names
  /\ destAddressStr \in Seq(Names)
  /\ destAddresses \in Seq(Names \cup {Unspecified})
  /\ ListsCover

(* With a stopTime the timer falls silent in the end, and for good.        *)
StopsForGood == stopTime # -1 => <>[](selfMsg = Idle \/ ~Running)

=============================================================================
