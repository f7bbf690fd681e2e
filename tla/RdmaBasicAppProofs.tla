------------------------- MODULE RdmaBasicAppProofs -------------------------
(***************************************************************************)
(* The timer discipline and the destination lists of RdmaBasicApp, for any *)
(* startTime, stopTime, intervals, destinations and any sequence of        *)
(* lifecycle operations.                                                   *)
(***************************************************************************)
EXTENDS RdmaBasicApp, FiniteSetTheorems, SequenceTheorems, TLAPS

(* The first timer lies in the window.                                     *)
LEMMA InitTimer == Init => TimerInv
BY AppAssumption DEF Init, TimerInv, NoTimerError, SendsWithinWindow, Idle

(* An idle timer set for now or later raises no error.                     *)
LEMMA ScheduleFine ==
  ASSUME NEW kind, NEW at, Schedule(Idle, kind, at), ~(at < now)
  PROVE  selfMsg' = [kind |-> kind, at |-> at] /\ error' = error
BY Zenon DEF Schedule

(* The timer set at the end of processSend is in order.                    *)
LEMMA NextTimerFine ==
  ASSUME TimerInv, NEW d \in SendIntervals,
         startTime <= now, stopTime = -1 \/ now <= stopTime
  PROVE  /\ NextTimer(d) \in [kind : {"SEND", "STOP"}, at : Nat]
         /\ now <= NextTimer(d).at /\ startTime <= NextTimer(d).at
         /\ NextTimer(d).kind = "SEND" => stopTime = -1 \/ NextTimer(d).at < stopTime
<1>1. now \in Nat /\ d \in Nat /\ startTime \in Nat
  BY AppAssumption DEF TimerInv
<1>2. CASE stopTime < 0 \/ now + d < stopTime
  <2>1. NextTimer(d) = [kind |-> "SEND", at |-> now + d]
    BY <1>2 DEF NextTimer
  <2>2. stopTime = -1 \/ now + d < stopTime
    BY <1>1, <1>2, AppAssumption
  <2>3. QED
    BY <1>1, <2>1, <2>2
<1>3. CASE ~(stopTime < 0 \/ now + d < stopTime)
  <2>1. stopTime \in Nat /\ now <= stopTime /\ startTime <= stopTime
    BY <1>1, <1>3, AppAssumption
  <2>2. NextTimer(d) = [kind |-> "STOP", at |-> stopTime]
    BY <1>3 DEF NextTimer
  <2>3. QED
    BY <2>1, <2>2
<1>4. QED
  BY <1>2, <1>3

(* processSend at a moment within the window.                              *)
LEMMA ProcessSendTimer ==
  ASSUME TimerInv, NEW names, NEW addresses, ProcessSend(names, addresses),
         startTime <= now,
         stopTime = -1 \/ now < stopTime \/ (now = startTime /\ startTime = stopTime),
         operationalState = "OPERATING",
         UNCHANGED <<now, operationalState>>
  PROVE  TimerInv'
<1>1. PICK k \in DOMAIN addresses, d \in SendIntervals :
        LET destAddr == ChooseDestAddr(names, addresses, k)
        IN IF destAddr = Unspecified
             THEN /\ selfMsg' = NextTimer(d)
                  /\ error' = "unspecified destination address"
                  /\ UNCHANGED sends
             ELSE /\ Schedule(Idle, NextTimer(d).kind, NextTimer(d).at)
                  /\ sends' = sends \cup {[at |-> now, to |-> destAddr]}
  BY DEF ProcessSend
<1> DEFINE destAddr == ChooseDestAddr(names, addresses, k)
<1>2. now \in Nat /\ startTime \in Nat /\ now' = now
  BY AppAssumption DEF TimerInv
<1>3. stopTime = -1 \/ now <= stopTime
  BY <1>2, AppAssumption
<1>4. /\ NextTimer(d) \in [kind : {"SEND", "STOP"}, at : Nat]
      /\ now <= NextTimer(d).at /\ startTime <= NextTimer(d).at
      /\ NextTimer(d).kind = "SEND" => stopTime = -1 \/ NextTimer(d).at < stopTime
  BY <1>3, NextTimerFine
<1>5. /\ selfMsg' = NextTimer(d)
      /\ error' \in {error, "unspecified destination address"}
  <2>1. CASE destAddr = Unspecified
    BY <1>1, <2>1
  <2>2. CASE destAddr # Unspecified
    <3>1. Schedule(Idle, NextTimer(d).kind, NextTimer(d).at) /\ ~(NextTimer(d).at < now)
      BY <1>1, <1>2, <1>4, <2>2
    <3>2. selfMsg' = [kind |-> NextTimer(d).kind, at |-> NextTimer(d).at] /\ error' = error
      BY <3>1, ScheduleFine
    <3>3. QED
      BY <1>4, <3>2
  <2>3. QED
    BY <2>1, <2>2
<1>6. SendsWithinWindow'
  <2>1. sends' = sends \/ sends' = sends \cup {[at |-> now, to |-> destAddr]}
    BY <1>1
  <2>2. QED
    BY <1>2, <2>1 DEF TimerInv, SendsWithinWindow
<1>7. NoTimerError'
  BY <1>5 DEF TimerInv, NoTimerError
<1>8. QED
  BY <1>2, <1>4, <1>5, <1>6, <1>7 DEF TimerInv

(* Each timer handler and lifecycle operation keeps the timer invariant.   *)
LEMMA NextTimerInv == TimerInv /\ [Next]_vars => TimerInv'
<1> SUFFICES ASSUME TimerInv, [Next]_vars
             PROVE  TimerInv'
  OBVIOUS
<1>1. now \in Nat /\ startTime \in Nat /\ Idle.kind = "NONE"
  BY AppAssumption DEF TimerInv, Idle
<1>2. CASE HandleStart
  <2>1. selfMsg.kind = "START" /\ selfMsg.at = now /\ UNCHANGED <<now, operationalState>>
    BY <1>2 DEF HandleStart, Fires
  <2>2. selfMsg # Idle
    BY <1>1, <2>1
  <2>3. /\ startTime <= now /\ operationalState = "OPERATING"
        /\ stopTime = -1 \/ now < stopTime \/ (now = startTime /\ startTime = stopTime)
    BY <2>1, <2>2 DEF TimerInv
  <2>4. CASE ReadAddresses # <<>>
    BY <1>2, <2>1, <2>3, <2>4, ProcessSendTimer DEF HandleStart
  <2>5. CASE ReadAddresses = <<>> /\ stopTime >= 0
    <3>1. stopTime \in Nat /\ now <= stopTime /\ startTime <= stopTime
      BY <1>1, <2>3, <2>5, AppAssumption
    <3>2. Schedule(Idle, "STOP", stopTime) /\ sends' = sends /\ ~(stopTime < now)
      BY <1>1, <1>2, <2>5, <3>1 DEF HandleStart
    <3>3. selfMsg' = [kind |-> "STOP", at |-> stopTime] /\ error' = error
      BY <3>2, ScheduleFine
    <3>4. QED
      BY <1>1, <2>1, <2>3, <3>1, <3>2, <3>3 DEF TimerInv, NoTimerError, SendsWithinWindow
  <2>6. CASE ReadAddresses = <<>> /\ ~(stopTime >= 0)
    <3>1. selfMsg' = Idle /\ error' = error /\ sends' = sends
      BY <1>2, <2>6 DEF HandleStart
    <3>2. QED
      BY <1>1, <2>1, <3>1 DEF TimerInv, NoTimerError, SendsWithinWindow
  <2>7. QED
    BY <2>4, <2>5, <2>6
<1>3. CASE HandleSend
  <2>1. selfMsg.kind = "SEND" /\ selfMsg.at = now /\ UNCHANGED <<now, operationalState>>
    BY <1>3 DEF HandleSend, Fires
  <2>2. selfMsg # Idle
    BY <1>1, <2>1
  <2>3. /\ startTime <= now /\ operationalState = "OPERATING"
        /\ stopTime = -1 \/ now < stopTime
    BY <2>1, <2>2 DEF TimerInv
  <2>4. QED
    BY <1>3, <2>1, <2>3, ProcessSendTimer DEF HandleSend
<1>4. CASE HandleStop \/ HandleStopOperation \/ HandleActiveOperationTimeout \/ HandleCrashOperation
  <2>1. selfMsg' = Idle /\ UNCHANGED <<now, sends, error>>
    BY <1>4 DEF HandleStop, HandleStopOperation, HandleActiveOperationTimeout, HandleCrashOperation
  <2>2. QED
    BY <1>1, <2>1 DEF TimerInv, NoTimerError, SendsWithinWindow
<1>5. CASE HandleStartOperation
  <2> DEFINE start == Later(startTime, now)
  <2>1. selfMsg = Idle /\ UNCHANGED <<now, sends>> /\ operationalState' = "OPERATING"
    BY <1>5 DEF HandleStartOperation, TimerInv, NoTimerError
  <2>2. start \in Nat /\ now <= start /\ startTime <= start
    BY <1>1 DEF Later
  <2> HIDE DEF start
  <2>3. CASE stopTime < 0 \/ start < stopTime \/ (start = stopTime /\ startTime = stopTime)
    <3>1. Schedule(Idle, "START", start) /\ ~(start < now)
      BY <1>1, <1>5, <2>1, <2>2, <2>3 DEF HandleStartOperation, StartTimer, start
    <3>2. selfMsg' = [kind |-> "START", at |-> start] /\ error' = error
      BY <3>1, ScheduleFine
    <3>3. stopTime = -1 \/ start < stopTime \/ (start = startTime /\ startTime = stopTime)
      BY <2>2, <2>3, AppAssumption
    <3>4. QED
      BY <1>1, <2>1, <2>2, <3>2, <3>3 DEF TimerInv, NoTimerError, SendsWithinWindow
  <2>4. CASE ~(stopTime < 0 \/ start < stopTime \/ (start = stopTime /\ startTime = stopTime))
    <3>1. selfMsg' = selfMsg /\ error' = error
      BY <1>5, <2>4 DEF HandleStartOperation, StartTimer, start
    <3>2. QED
      BY <1>1, <2>1, <3>1 DEF TimerInv, NoTimerError, SendsWithinWindow
  <2>5. QED
    BY <2>3, <2>4
<1>6. CASE Tick
  <2>1. /\ now' = now + 1 /\ UNCHANGED <<selfMsg, operationalState, sends, error>>
        /\ ~(selfMsg.kind # "NONE" /\ selfMsg.at = now)
    BY <1>6 DEF Tick
  <2>2. NoTimerError' /\ SendsWithinWindow' /\ now' \in Nat
    <3>1. NoTimerError /\ SendsWithinWindow
      BY DEF TimerInv
    <3>2. NoTimerError'
      BY <2>1, <3>1 DEF NoTimerError
    <3>3. SendsWithinWindow'
      BY <2>1, <3>1 DEF SendsWithinWindow
    <3>4. now' \in Nat
      BY <1>1, <2>1
    <3>5. QED
      BY <3>2, <3>3, <3>4
  <2>3. CASE selfMsg = Idle
    BY <1>1, <2>2, <2>1, <2>3 DEF TimerInv
  <2>4. CASE selfMsg # Idle
    <3>1. selfMsg.at \in Nat /\ now <= selfMsg.at /\ selfMsg.at # now
      BY <2>1, <2>4 DEF TimerInv
    <3>2. now + 1 <= selfMsg.at
      BY <1>1, <3>1
    <3>3. QED
      BY <2>2, <2>1, <2>4, <3>2 DEF TimerInv
  <2>5. QED
    BY <2>3, <2>4
<1>7. ASSUME UNCHANGED <<now, selfMsg, operationalState, sends, error>>
      PROVE  TimerInv'
  BY <1>7 DEF TimerInv, NoTimerError, SendsWithinWindow
<1>8. CASE \E name \in Names : AddressAssigned(name)
  BY <1>7, <1>8 DEF AddressAssigned
<1>9. CASE UNCHANGED vars
  BY <1>7, <1>9 DEF vars
<1>10. QED
  BY <1>2, <1>3, <1>4, <1>5, <1>6, <1>8, <1>9 DEF Next, SelfMessage

(* The timer invariant holds for every parameter setting.                  *)
THEOREM TimerInvariant == Spec => []TimerInv
<1>1. QED
  BY InitTimer, NextTimerInv, PTL DEF Spec

(* selfMsg is never scheduled twice or in the past, nor left in a module   *)
(* that is down.                                                           *)
THEOREM NoTimerErrorHolds == Spec => []NoTimerError
<1>1. TimerInv => NoTimerError
  BY DEF TimerInv
<1>2. QED
  BY <1>1, TimerInvariant, PTL

(* processSend runs within [startTime, stopTime) only, restarts included.  *)
THEOREM SendsWithinWindowHolds == Spec => []SendsWithinWindow
<1>1. TimerInv => SendsWithinWindow
  BY DEF TimerInv
<1>2. QED
  BY <1>1, TimerInvariant, PTL

-----------------------------------------------------------------------------
(* What Resolve returns is the address of a name, or unspecified.          *)
LEMMA ResolveType ==
  ASSUME ListsInv, NEW name
  PROVE  Resolve(name) \in Names \cup {Unspecified}
BY DEF Resolve, ListsInv

(* No start keeps more addresses than it read names.                       *)
LEMMA KeptCount ==
  /\ Cardinality(KeptIndices) \in Nat
  /\ Cardinality(KeptIndices) <= Len(Tokens)
<1>1. Tokens \in Seq(Names) /\ Len(Tokens) \in Nat /\ DOMAIN Tokens = 1 .. Len(Tokens)
  BY AppAssumption, LenProperties
<1>2. IsFiniteSet(1 .. Len(Tokens)) /\ Cardinality(1 .. Len(Tokens)) = Len(Tokens)
  BY <1>1, FS_Interval
<1>3. KeptIndices \in SUBSET (1 .. Len(Tokens))
  BY <1>1 DEF KeptIndices
<1>4. IsFiniteSet(KeptIndices) /\ Cardinality(KeptIndices) <= Cardinality(1 .. Len(Tokens))
  BY <1>2, <1>3, FS_Subset
<1>5. QED
  BY <1>2, <1>4, FS_CardinalityType

(* The lists after processStart read the names are still in order.         *)
LEMMA ReadLists ==
  ASSUME ListsInv
  PROVE  /\ ReadNames \in Seq(Names)
         /\ ReadAddresses \in Seq(Names \cup {Unspecified})
         /\ Len(ReadAddresses) <= Len(ReadNames)
<1> DEFINE kept == Cardinality(KeptIndices)
           added == [ n \in 1 .. kept |-> Resolve(Tokens[Nth(KeptIndices, n)]) ]
<1>1. kept \in Nat /\ kept <= Len(Tokens)
  BY KeptCount
<1>2. /\ destAddressStr \in Seq(Names) /\ Tokens \in Seq(Names)
      /\ destAddresses \in Seq(Names \cup {Unspecified})
      /\ Len(destAddresses) <= Len(destAddressStr)
  BY AppAssumption DEF ListsInv, ListsCover
<1>3. added \in Seq(Names \cup {Unspecified}) /\ Len(added) = kept
  <2>1. \A n \in 1 .. kept : Resolve(Tokens[Nth(KeptIndices, n)]) \in Names \cup {Unspecified}
    BY ResolveType
  <2> HIDE DEF kept
  <2>2. added \in [1 .. kept -> Names \cup {Unspecified}]
    BY <2>1
  <2>3. QED
    BY <1>1, <2>2
<1>4. ReadAddresses = destAddresses \o added
  BY DEF ReadAddresses
<1> HIDE DEF kept, added
<1>5. /\ ReadNames \in Seq(Names)
      /\ Len(ReadNames) = Len(destAddressStr) + Len(Tokens)
  BY <1>2, ConcatProperties DEF ReadNames
<1>6. /\ ReadAddresses \in Seq(Names \cup {Unspecified})
      /\ Len(ReadAddresses) = Len(destAddresses) + kept
  BY <1>2, <1>3, <1>4, ConcatProperties
<1>7. Len(destAddresses) \in Nat /\ Len(destAddressStr) \in Nat /\ Len(Tokens) \in Nat
  BY <1>2, LenProperties
<1>8. QED
  BY <1>1, <1>2, <1>5, <1>6, <1>7

(* processSend replaces one address and leaves the number of them alone.   *)
LEMMA ProcessSendLists ==
  ASSUME ListsInv,
         NEW names \in Seq(Names), NEW addresses \in Seq(Names \cup {Unspecified}),
         ProcessSend(names, addresses)
  PROVE  /\ destAddresses' \in Seq(Names \cup {Unspecified})
         /\ Len(destAddresses') = Len(addresses)
<1>1. PICK k \in DOMAIN addresses :
        destAddresses' = [addresses EXCEPT ![k] = ChooseDestAddr(names, addresses, k)]
  BY DEF ProcessSend
<1>2. ChooseDestAddr(names, addresses, k) \in Names \cup {Unspecified}
  <2>1. addresses[k] \in Names \cup {Unspecified}
    BY LenProperties
  <2>2. QED
    BY <2>1, ResolveType DEF ChooseDestAddr
<1>3. QED
  BY <1>1, <1>2, ExceptSeq

(* Only the two handlers that send change the lists.                       *)
LEMMA NextListsInv == ListsInv /\ [Next]_vars => ListsInv'
<1> SUFFICES ASSUME ListsInv, [Next]_vars
             PROVE  ListsInv'
  OBVIOUS
<1>1. CASE HandleStart
  <2>1. /\ ReadNames \in Seq(Names)
        /\ ReadAddresses \in Seq(Names \cup {Unspecified})
        /\ Len(ReadAddresses) <= Len(ReadNames)
    BY ReadLists
  <2>2. destAddressStr' = ReadNames /\ resolvable' = resolvable
    BY <1>1 DEF HandleStart
  <2>3. CASE ReadAddresses # <<>>
    <3>1. ProcessSend(ReadNames, ReadAddresses)
      BY <1>1, <2>3 DEF HandleStart
    <3>2. /\ destAddresses' \in Seq(Names \cup {Unspecified})
          /\ Len(destAddresses') = Len(ReadAddresses)
      BY <2>1, <3>1, ProcessSendLists
    <3>3. QED
      BY <2>1, <2>2, <3>2 DEF ListsInv, ListsCover
  <2>4. CASE ReadAddresses = <<>>
    <3>1. destAddresses' = destAddresses
      BY <1>1, <2>4 DEF HandleStart
    <3>2. Len(ReadNames) = Len(destAddressStr) + Len(Tokens)
      BY AppAssumption, ConcatProperties DEF ReadNames, ListsInv
    <3>3. Len(destAddresses) \in Nat /\ Len(destAddressStr) \in Nat /\ Len(Tokens) \in Nat
      BY AppAssumption, LenProperties DEF ListsInv
    <3>4. Len(destAddresses) <= Len(ReadNames)
      BY <3>2, <3>3 DEF ListsInv, ListsCover
    <3>5. QED
      BY <2>1, <2>2, <3>1, <3>4 DEF ListsInv, ListsCover
  <2>5. QED
    BY <2>3, <2>4
<1>2. CASE HandleSend
  <2>1. /\ ProcessSend(destAddressStr, destAddresses)
        /\ UNCHANGED <<destAddressStr, resolvable>>
    BY <1>2 DEF HandleSend
  <2>2. /\ destAddresses' \in Seq(Names \cup {Unspecified})
        /\ Len(destAddresses') = Len(destAddresses)
    BY <2>1, ProcessSendLists DEF ListsInv
  <2>3. QED
    BY <2>1, <2>2 DEF ListsInv, ListsCover
<1>3. CASE \E name \in Names : AddressAssigned(name)
  <2>1. PICK name \in Names : AddressAssigned(name)
    BY <1>3
  <2>2. resolvable' = resolvable \cup {name} /\ UNCHANGED <<destAddressStr, destAddresses>>
    BY <2>1 DEF AddressAssigned, lists
  <2>3. QED
    BY <2>2 DEF ListsInv, ListsCover
<1>4. ASSUME UNCHANGED <<lists, resolvable>>
      PROVE  ListsInv'
  BY <1>4 DEF ListsInv, ListsCover, lists
<1>5. CASE HandleStop \/ HandleStartOperation \/ HandleStopOperation
           \/ HandleActiveOperationTimeout \/ HandleCrashOperation \/ Tick
  <2>1. UNCHANGED <<lists, resolvable>>
    BY <1>5 DEF HandleStop, HandleStartOperation, HandleStopOperation,
                HandleActiveOperationTimeout, HandleCrashOperation, Tick
  <2>2. QED
    BY <1>4, <2>1
<1>6. CASE UNCHANGED vars
  BY <1>4, <1>6 DEF vars
<1>7. QED
  BY <1>1, <1>2, <1>3, <1>5, <1>6 DEF Next, SelfMessage

(* chooseDestAddr never reads past destAddressStr, whatever names are      *)
(* listed, which of them are local and how often the host restarts.        *)
THEOREM ListsCoverHolds == Spec => []ListsCover
<1>1. Init => ListsInv
  <2>1. SUFFICES ASSUME Init
                 PROVE  ListsInv
    OBVIOUS
  <2>2. destAddressStr = <<>> /\ destAddresses = <<>> /\ resolvable = InitiallyResolvable
    BY <2>1 DEF Init
  <2>3. QED
    BY <2>2, AppAssumption DEF ListsInv, ListsCover
<1>2. ListsInv => ListsCover
  BY DEF ListsInv
<1>3. QED
  BY <1>1, <1>2, NextListsInv, PTL DEF Spec

=============================================================================
