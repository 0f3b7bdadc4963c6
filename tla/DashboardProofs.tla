-------------------------- MODULE DashboardProofs --------------------------
(***************************************************************************)
(* What holds of Dashboard for every set of calls, every number of windows *)
(* and every number of changes of the settings.                            *)
(***************************************************************************)
EXTENDS DashboardInvariant, TLAPS

CallType == [kind : Kinds, pc : Steps, refresh : BOOLEAN, want : Windows,
             after : Windows, cfg : Configs, cancelled : BOOLEAN]

LEMMA Zeros == 0 \in Windows /\ 0 \in Configs
  BY DashboardAssumption DEF Windows, Configs

LEMMA TypeInit == Init => TypeOK
<1>1. NoCall \in CallType
  BY Zeros DEF NoCall, CallType, Kinds, Steps
<1>2. Init => call \in [Calls -> CallType]
  BY <1>1 DEF Init
<1>3. Init => account \in [status : {"updating", "available", "unavailable"},
                          of : Configs \cup {None}]
  BY DEF Init
<1>4. QED
  BY <1>2, <1>3, Zeros DEF Init, TypeOK, CallType

\* A call stays well typed when its fields are given values of their types.
LEMMA CallUpdates ==
  ASSUME NEW old \in CallType, NEW step \in Steps, NEW flag \in BOOLEAN,
         NEW number \in Configs, NEW window \in Windows
  PROVE  /\ [old EXCEPT !.cancelled = flag] \in CallType
         /\ [old EXCEPT !.pc = step, !.cancelled = flag] \in CallType
         /\ [old EXCEPT !.cfg = number, !.pc = step] \in CallType
         /\ [old EXCEPT !.after = window, !.pc = step] \in CallType
  BY DEF CallType

\* What the commands do to the calls keeps them well typed.
LEMMA CallTypes ==
  ASSUME TypeOK, NEW c \in Calls
  PROVE  /\ Cancelled \in [Calls -> CallType]
         /\ \A step \in Steps : Goto(c, step) => call' \in [Calls -> CallType]
         /\ Finish(c) => call' \in [Calls -> CallType] /\ lock' \in Calls \cup {None}
         /\ \A kind \in Kinds, refresh \in BOOLEAN, want \in Windows :
               Ask(c, kind, refresh, want) => call' \in [Calls -> CallType]
<1> USE DEF TypeOK, CallType
<1>1. Cancelled \in [Calls -> CallType]
  <2>1. \A b \in Calls : [call[b] EXCEPT !.cancelled = TRUE] \in CallType
    <3>1. \A b \in Calls : call[b] \in CallType
      OBVIOUS
    <3>2. \A b \in Calls, step \in Steps : [call[b] EXCEPT !.cancelled = TRUE] \in CallType
      <4> HIDE DEF CallType
      <4>1. QED
        BY <3>1, Zeros, CallUpdates
    <3>3. QED
      BY <3>2 DEF Steps
  <2> HIDE DEF CallType
  <2>2. QED
    BY <2>1 DEF Cancelled
<1>2. ASSUME NEW step \in Steps, Goto(c, step)
      PROVE  call' \in [Calls -> CallType]
  BY <1>2 DEF Goto
<1>3. ASSUME Finish(c)
      PROVE  call' \in [Calls -> CallType] /\ lock' \in Calls \cup {None}
  BY <1>3 DEF Finish, Goto, Steps
<1>4. ASSUME NEW kind \in Kinds, NEW refresh \in BOOLEAN, NEW want \in Windows,
             Ask(c, kind, refresh, want)
      PROVE  call' \in [Calls -> CallType]
  <2> DEFINE new == [NoCall EXCEPT !.kind = kind, !.refresh = refresh, !.want = want,
                                   !.pc = IF kind = "account" THEN "load" ELSE "wait"]
             calls == IF kind \in {"sources", "rebuild"} THEN Cancelled ELSE call
  <2>1. new \in CallType
    BY Zeros DEF NoCall, Kinds, Steps
  <2>2. calls \in [Calls -> CallType]
    BY <1>1
  <2>3. call' = [calls EXCEPT ![c] = new]
    BY <1>4 DEF Ask
  <2>4. QED
    BY <2>1, <2>2, <2>3
<1>5. QED
  BY <1>1, <1>2, <1>3, <1>4

LEMMA TypeStep == TypeOK /\ [Next]_vars => TypeOK'
<1> SUFFICES ASSUME TypeOK, [Next]_vars PROVE TypeOK'
  OBVIOUS
<1> USE DEF TypeOK, data, accountVars, Scans
<1>1. CASE UNCHANGED vars
  BY <1>1 DEF vars
<1>2. CASE CancelRefresh
  <2>1. call' \in [Calls -> CallType]
    BY <1>2, CallTypes DEF CancelRefresh
  <2>2. QED
    BY <1>2, <2>1 DEF CancelRefresh, CallType
<1>3. ASSUME NEW c \in Calls, AskDashboard(c) \/ AskOther(c)
      PROVE  TypeOK'
  <2>1. call' \in [Calls -> CallType]
    <3>1. \E kind \in Kinds, refresh \in BOOLEAN, want \in Windows : Ask(c, kind, refresh, want)
      BY <1>3, Zeros DEF AskDashboard, AskOther, Kinds
    <3>2. QED
      BY <3>1, CallTypes
  <2>2. QED
    BY <1>3, <2>1 DEF AskDashboard, AskOther, Ask, CallType
<1>4. ASSUME NEW c \in Calls, Lock(c)
      PROVE  TypeOK'
  <2> DEFINE new == [call[c] EXCEPT !.pc = "load", !.cancelled = FALSE]
  <2>0. call[c] \in CallType
    BY DEF CallType
  <2>1. new \in CallType
    <3>1. "load" \in Steps
      BY DEF Steps
    <3>2. QED
      BY <3>1, <2>0, Zeros, CallUpdates
  <2>2. call' = [call EXCEPT ![c] = new]
    BY <1>4 DEF Lock
  <2>3. call' \in [Calls -> CallType]
    BY <2>1, <2>2 DEF CallType
  <2>4. QED
    BY <1>4, <2>3 DEF Lock, CallType
<1>5. ASSUME NEW c \in Calls, LoadSettings(c)
      PROVE  TypeOK'
  <2>0. call[c] \in CallType
    BY DEF CallType
  <2>1. AfterLoad(call[c].kind) \in Steps
    BY DEF AfterLoad, Steps
  <2>2. call' \in [Calls -> CallType] /\ lock' \in Calls \cup {None}
    <3>1. CASE Finish(c)
      BY <3>1, CallTypes
    <3>2. CASE call' = [call EXCEPT ![c].cfg = config, ![c].pc = AfterLoad(call[c].kind)]
                 /\ UNCHANGED lock
      <4> DEFINE new == [call[c] EXCEPT !.cfg = config, !.pc = AfterLoad(call[c].kind)]
      <4>1. new \in CallType
        BY <2>0, <2>1, Zeros, CallUpdates
      <4>2. call' = [call EXCEPT ![c] = new]
        BY <3>2
      <4>3. QED
        BY <3>2, <4>1, <4>2 DEF CallType
    <3>3. QED
      BY <1>5, <3>1, <3>2 DEF LoadSettings
  <2>3. QED
    BY <1>5, <2>2 DEF LoadSettings, CallType
<1>6. ASSUME NEW c \in Calls, SaveSettings(c)
      PROVE  TypeOK'
  <2>1. call' \in [Calls -> CallType] /\ lock' \in Calls \cup {None}
    BY <1>6, CallTypes DEF SaveSettings, Steps
  <2>2. config' \in Configs
    BY <1>6, DashboardAssumption DEF SaveSettings, Change, Configs
  <2>3. QED
    BY <1>6, <2>1, <2>2 DEF SaveSettings, CallType
<1>7. ASSUME NEW c \in Calls, InvalidateData(c)
      PROVE  TypeOK'
  BY <1>7, CallTypes, Zeros DEF InvalidateData, CallType
<1>8. ASSUME NEW c \in Calls, CheckWindow(c)
      PROVE  TypeOK'
  <2> DEFINE missing == scan = None
             covered == ~missing /\ Covers(loadedAfter, call[c].want)
             after == IF covered THEN loadedAfter ELSE call[c].want
             step == CASE missing /\ ~call[c].refresh -> "cached"
                       [] covered /\ ~call[c].refresh -> "compose"
                       [] OTHER -> "scan"
  <2>0. call[c] \in CallType
    BY DEF CallType
  <2>1. after \in Windows /\ step \in Steps
    BY DEF Steps
  <2>2. call' = [call EXCEPT ![c].after = after, ![c].pc = step]
    BY <1>8 DEF CheckWindow
  <2> HIDE DEF after, step
  <2> DEFINE new == [call[c] EXCEPT !.after = after, !.pc = step]
  <2>3. new \in CallType
    BY <2>0, <2>1, Zeros, CallUpdates
  <2>4. call' = [call EXCEPT ![c] = new]
    BY <2>2
  <2>5. call' \in [Calls -> CallType]
    BY <2>3, <2>4 DEF CallType
  <2>6. QED
    BY <1>8, <2>5 DEF CheckWindow, CallType
<1>9. ASSUME NEW c \in Calls, CachedScan(c) \/ StoreScan(c)
      PROVE  TypeOK'
  <2>1. call' \in [Calls -> CallType] /\ lock' \in Calls \cup {None}
    BY <1>9, CallTypes DEF CachedScan, StoreScan, Steps
  <2>2. QED
    BY <1>9, <2>1 DEF CachedScan, StoreScan, Store, CallType
<1>10. ASSUME NEW c \in Calls, ScanEnds(c) \/ Compose(c)
       PROVE  TypeOK'
  <2>1. call' \in [Calls -> CallType] /\ lock' \in Calls \cup {None}
    BY <1>10, CallTypes DEF ScanEnds, Compose, Steps
  <2>2. QED
    BY <1>10, <2>1 DEF ScanEnds, Compose, CallType
<1>11. ASSUME NEW c \in Calls, BeginAccountRefresh(c)
       PROVE  TypeOK'
  <2>1. call' \in [Calls -> CallType] /\ lock' \in Calls \cup {None}
    BY <1>11, CallTypes DEF BeginAccountRefresh, AfterBegin, Steps
  <2>2. /\ query' \in [Calls -> {"none", "running", "done"}]
        /\ asked' \in [Calls -> Configs]
        /\ account' \in [status : {"updating", "available", "unavailable"},
                         of : Configs \cup {None}]
    BY <1>11 DEF BeginAccountRefresh
  <2>3. QED
    BY <1>11, <2>1, <2>2 DEF BeginAccountRefresh, CallType
<1>12. ASSUME NEW c \in Calls, FetchAccount(c)
       PROVE  TypeOK'
  <2>1. call' \in [Calls -> CallType] /\ lock' \in Calls \cup {None}
    BY <1>12, CallTypes DEF FetchAccount, CallType
  <2>2. account' \in [status : {"updating", "available", "unavailable"},
                      of : Configs \cup {None}]
    BY <1>12 DEF FetchAccount
  <2>3. QED
    BY <1>12, <2>1, <2>2 DEF FetchAccount, CallType
<1>13. CASE ForeignChange
  <2>1. config' \in Configs
    BY <1>13, DashboardAssumption DEF ForeignChange, Change, Configs
  <2>2. QED
    BY <1>13, <2>1 DEF ForeignChange, CallType
<1>14. QED
  BY <1>1, <1>2, <1>3, <1>4, <1>5, <1>6, <1>7, <1>8, <1>9, <1>10, <1>11, <1>12, <1>13
  DEF Next, CallStep

\* Every state of Dashboard is well typed.
THEOREM TypeCorrect == Spec => []TypeOK
<1>1. Init => TypeOK
  BY TypeInit
<1>2. TypeOK /\ [Next]_vars => TypeOK'
  BY TypeStep
<1>3. QED
  BY <1>1, <1>2, PTL DEF Spec

-----------------------------------------------------------------------------
(* The invariant.                                                          *)

\* What the invariant reads of a call.
Same(d) ==
    /\ call'[d].pc = call[d].pc /\ call'[d].kind = call[d].kind
    /\ call'[d].cfg = call[d].cfg /\ call'[d].want = call[d].want
    /\ call'[d].after = call[d].after

LEMMA CancelSame ==
  ASSUME TypeOK, call' = Cancelled, NEW d \in Calls
  PROVE  Same(d)
  BY DEF TypeOK, Cancelled, Same

\* A step of one call leaves the others where they are.
LEMMA Frame ==
  ASSUME TypeOK, NEW c \in Calls, NEW d \in Calls, d # c,
         AskDashboard(c) \/ AskOther(c) \/ CallStep(c) \/ FetchAccount(c)
  PROVE  Same(d)
<1> USE DEF TypeOK
<1>1. ASSUME NEW kind, NEW refresh, NEW want, Ask(c, kind, refresh, want)
      PROVE  Same(d)
  BY <1>1 DEF Ask, Cancelled, Same
<1>2. CASE AskDashboard(c) \/ AskOther(c)
  BY <1>1, <1>2 DEF AskDashboard, AskOther
<1>3. CASE CallStep(c) \/ FetchAccount(c)
  BY <1>3 DEF CallStep, FetchAccount, Lock, LoadSettings, SaveSettings, InvalidateData,
              CheckWindow, CachedScan, ScanEnds, StoreScan, Compose, BeginAccountRefresh,
              AfterBegin, Finish, Goto, Same
<1>4. QED
  BY <1>2, <1>3

LEMMA InvInit == Init => DashboardInv
  BY Zeros DEF Init, Configs, NoCall, DashboardInv, LockInv, Inside, LockedSteps, SettingsInv, WindowInv,
         ScanInv, QueryInv, QueryOwned

\* The lock, and what was read under it.
LEMMA LockStep ==
  ASSUME TypeOK, LockInv, SettingsInv, NEW c \in Calls,
         AskDashboard(c) \/ AskOther(c) \/ CallStep(c) \/ FetchAccount(c)
  PROVE  LockInv' /\ SettingsInv'
<1> USE DEF TypeOK, LockInv, SettingsInv, Inside, LockedSteps
<1>0. \A d \in Calls : d # c => Same(d)
  BY Frame
<1>1. ASSUME NEW kind \in Kinds, NEW refresh, NEW want, Ask(c, kind, refresh, want)
      PROVE  LockInv' /\ SettingsInv'
  <2>1. call'[c].kind = kind /\ call'[c].pc = IF kind = "account" THEN "load" ELSE "wait"
    BY <1>1 DEF Ask, NoCall, Cancelled
  <2>2. QED
    BY <1>0, <1>1, <2>1 DEF Ask, Same, At
<1>2. CASE AskDashboard(c) \/ AskOther(c)
  BY <1>1, <1>2 DEF AskDashboard, AskOther, Kinds
<1>3. CASE Lock(c)
  <2>1. call'[c].pc = "load" /\ call'[c].kind = call[c].kind
    BY <1>3 DEF Lock
  <2>2. QED
    BY <1>0, <1>3, <2>1, DashboardAssumption DEF Lock, Same, At
<1>4. CASE LoadSettings(c)
  BY <1>0, <1>4 DEF LoadSettings, AfterLoad, Same, At, Finish, Goto, Kinds, Configs
<1>5. CASE SaveSettings(c)
  BY <1>0, <1>5 DEF SaveSettings, Change, Configs, Same, At, Finish, Goto
<1>6. CASE InvalidateData(c)
  <2>1. /\ call[c].pc = "invalidate" /\ Finish(c)
        /\ applied' = config /\ config' = config
    BY <1>6 DEF InvalidateData, At
  <2>2. lock = c /\ lock' = None /\ call'[c].pc = "done" /\ call'[c].kind = call[c].kind
    BY <2>1 DEF Finish, Goto
  <2>3. \A d \in Calls : d # c => ~Inside(d)
    BY <2>2
  <2>4. applied' <= config'
    BY <2>1 DEF Configs
  <2>5. QED
    BY <1>0, <2>2, <2>3, <2>4 DEF Same
<1>7. CASE CheckWindow(c)
  <2>1. /\ call[c].pc = "check" /\ call'[c].pc \in {"cached", "compose", "scan"}
        /\ call'[c].kind = call[c].kind /\ call'[c].cfg = call[c].cfg
        /\ UNCHANGED <<config, applied, lock>>
    BY <1>7 DEF CheckWindow, At
  <2>2. QED
    BY <1>0, <2>1 DEF Same
<1>8. CASE CachedScan(c) \/ ScanEnds(c) \/ StoreScan(c) \/ Compose(c)
  BY <1>0, <1>8 DEF CachedScan, ScanEnds, StoreScan, Compose, Same, At, Finish, Goto
<1>9. CASE BeginAccountRefresh(c)
  BY <1>0, <1>9 DEF BeginAccountRefresh, AfterBegin, Same, At, Finish, Goto
<1>10. CASE FetchAccount(c)
  <2>1. CASE At(c, "fetch")
    <3>1. /\ Finish(c) /\ config' = config /\ applied' = applied
          /\ call[c].kind = "account"
      BY <1>10, <2>1 DEF FetchAccount, At
    <3>2. call'[c].pc = "done" /\ call'[c].kind = "account" /\ (lock # c => lock' = lock)
      BY <3>1 DEF Finish, Goto
    <3>3. ~Inside(c)'
      BY <3>2
    <3>4. QED
      BY <1>0, <3>1, <3>2, <3>3 DEF Same
  <2>2. CASE ~At(c, "fetch")
    <3>1. UNCHANGED <<call, lock, config, applied>>
      BY <1>10, <2>2 DEF FetchAccount
    <3>2. QED
      BY <3>1
  <2>3. QED
    BY <2>1, <2>2
<1>11. QED
  BY <1>2, <1>3, <1>4, <1>5, <1>6, <1>7, <1>8, <1>9, <1>10 DEF CallStep

\* At most one call is inside with_lock.
LEMMA InsideAlone ==
  ASSUME LockInv, NEW c \in Calls, NEW d \in Calls, Inside(c), Inside(d)
  PROVE  c = d
  BY DEF LockInv

\* The scan and its window.
LEMMA DataStep ==
  ASSUME TypeOK, LockInv, SettingsInv, WindowInv, ScanInv, NEW c \in Calls,
         AskDashboard(c) \/ AskOther(c) \/ CallStep(c) \/ FetchAccount(c)
  PROVE  WindowInv' /\ ScanInv'
<1> USE DEF TypeOK, WindowInv, ScanInv
<1>0. \A d \in Calls : d # c => Same(d)
  BY Frame
<1>1. ASSUME NEW kind \in Kinds, NEW refresh, NEW want, Ask(c, kind, refresh, want)
      PROVE  WindowInv' /\ ScanInv'
  <2>1. call'[c].pc \in {"load", "wait"}
    BY <1>1 DEF Ask, NoCall, Cancelled
  <2>2. QED
    BY <1>0, <1>1, <2>1 DEF Ask, Same, At, data
<1>2. CASE AskDashboard(c) \/ AskOther(c)
  BY <1>1, <1>2 DEF AskDashboard, AskOther, Kinds
<1>3. CASE Lock(c)
  <2>1. call'[c].pc = "load"
    BY <1>3 DEF Lock
  <2>2. QED
    BY <1>0, <1>3, <2>1 DEF Lock, Same, At, data
<1>4. CASE LoadSettings(c)
  BY <1>0, <1>4 DEF LoadSettings, AfterLoad, Same, At, Finish, Goto, Kinds, data,
                    LockInv
<1>5. CASE SaveSettings(c)
  <2>1. /\ call'[c].kind = call[c].kind /\ call[c].pc = "save"
        /\ call'[c].pc \in {"done", "invalidate"}
        /\ UNCHANGED <<scan, loadedAfter, applied>>
    BY <1>5 DEF SaveSettings, At, Finish, Goto, data
  <2>2. QED
    BY <1>0, <2>1 DEF Same
<1>6. CASE InvalidateData(c)
  <2>1. \A d \in Calls : d # c => ~Inside(d)
    BY <1>6, InsideAlone DEF InvalidateData, At, Inside, LockedSteps
  <2>2. QED
    BY <1>0, <1>6, <2>1 DEF InvalidateData, Same, At, Finish, Goto, Inside, LockedSteps
<1>7. CASE CheckWindow(c)
  BY <1>0, <1>7 DEF CheckWindow, Same, At, Covers, data, Windows
<1>8. CASE CachedScan(c) \/ StoreScan(c)
  <2>1. \A d \in Calls : d # c => ~Inside(d)
    BY <1>8, InsideAlone DEF CachedScan, StoreScan, At, Inside, LockedSteps
  <2>2. call[c].cfg >= applied
    BY <1>8 DEF CachedScan, StoreScan, At, SettingsInv, Inside, LockedSteps
  <2>3. /\ call'[c].kind = call[c].kind /\ call'[c].want = call[c].want
        /\ call'[c].pc \in {"begin", "compose", "done"}
        /\ call[c].pc \in {"cached", "commit"}
    BY <1>8 DEF CachedScan, StoreScan, At, Finish, Goto
  <2>4. CASE CachedScan(c) /\ Finish(c) /\ UNCHANGED data
    <3>1. call'[c].pc = "done"
      BY <2>4 DEF Finish, Goto
    <3>2. UNCHANGED <<applied, scan, loadedAfter>>
      BY <2>4 DEF CachedScan, data
    <3>3. QED
      BY <1>0, <2>1, <3>1, <3>2 DEF Same, Inside, LockedSteps
  <2>5. CASE Store(c)
    <3>1. /\ scan' = [config |-> call[c].cfg, window |-> call[c].after]
          /\ loadedAfter' = call[c].after
          /\ applied' = applied
      BY <1>8, <2>5 DEF Store, CachedScan, StoreScan
    <3>2. scan' # None
      <4>1. call[c].cfg \in Configs /\ call[c].after \in Windows
        OBVIOUS
      <4>2. QED
        BY <3>1, <4>1, DashboardAssumption DEF Scans
    <3>3. QED
      BY <1>0, <2>1, <2>2, <2>3, <3>1, <3>2 DEF Same, Inside, LockedSteps
  <2>6. QED
    BY <1>8, <2>4, <2>5 DEF CachedScan, StoreScan
<1>9. CASE ScanEnds(c) \/ Compose(c)
  <2>1. /\ call'[c].kind = call[c].kind /\ call'[c].want = call[c].want
        /\ call'[c].after = call[c].after
        /\ \/ call[c].pc = "scan" /\ call'[c].pc \in {"commit", "done"}
           \/ call[c].pc = "compose" /\ call'[c].pc = "done"
        /\ UNCHANGED <<applied, scan, loadedAfter>>
    BY <1>9 DEF ScanEnds, Compose, At, Finish, Goto, data
  <2>2. QED
    BY <1>0, <2>1 DEF Same
<1>10. CASE BeginAccountRefresh(c)
  BY <1>0, <1>10 DEF BeginAccountRefresh, AfterBegin, Same, At, Finish, Goto, data
<1>11. CASE FetchAccount(c)
  BY <1>0, <1>11 DEF FetchAccount, Same, At, Finish, Goto, data
<1>12. QED
  BY <1>2, <1>3, <1>4, <1>5, <1>6, <1>7, <1>8, <1>9, <1>10, <1>11 DEF CallStep

\* The account query.
LEMMA QueryStep ==
  ASSUME TypeOK, LockInv, SettingsInv, QueryInv, NEW c \in Calls,
         AskDashboard(c) \/ AskOther(c) \/ CallStep(c) \/ FetchAccount(c)
  PROVE  QueryInv'
<1> USE DEF TypeOK, QueryInv, QueryOwned
<1>0. \A d \in Calls : d # c => Same(d)
  BY Frame
<1>1. ASSUME NEW kind \in Kinds, NEW refresh, NEW want, Ask(c, kind, refresh, want)
      PROVE  QueryInv'
  <2>1. call'[c].pc \in {"load", "wait"} /\ query[c] = "none"
    BY <1>1 DEF Ask, NoCall, Cancelled, At
  <2>2. QED
    BY <1>0, <1>1, <2>1 DEF Ask, Same, At, accountVars
<1>2. CASE AskDashboard(c) \/ AskOther(c)
  BY <1>1, <1>2 DEF AskDashboard, AskOther, Kinds
<1>3. CASE Lock(c)
  <2>1. call'[c].pc = "load" /\ query[c] = "none"
    BY <1>3 DEF Lock, At
  <2>2. QED
    BY <1>0, <1>3, <2>1 DEF Lock, Same, At, accountVars
<1>4. CASE LoadSettings(c)
  <2>1. query[c] = "none"
    BY <1>4 DEF LoadSettings, At
  <2>2. QED
    BY <1>0, <1>4, <2>1 DEF LoadSettings, AfterLoad, Same, At, Finish, Goto, Kinds,
                            accountVars
<1>5. CASE SaveSettings(c)
  <2>1. query[c] = "none"
    BY <1>5 DEF SaveSettings, At
  <2>2. QED
    BY <1>0, <1>5, <2>1 DEF SaveSettings, Same, At, Finish, Goto, accountVars
<1>6. CASE InvalidateData(c)
  BY <1>0, <1>6 DEF InvalidateData, Same, At, Finish, Goto
<1>7. CASE CheckWindow(c)
  BY <1>0, <1>7 DEF CheckWindow, Same, At, accountVars
<1>8. CASE CachedScan(c) \/ ScanEnds(c) \/ StoreScan(c) \/ Compose(c)
  <2>1. /\ call'[c].kind = call[c].kind /\ call'[c].cfg = call[c].cfg
        /\ query[c] # "none" => call'[c].pc = "done"
        /\ call[c].pc # "invalidate" /\ call'[c].pc # "invalidate"
        /\ UNCHANGED <<applied, accountVars>>
    <3>1. CASE CachedScan(c)
      BY <3>1 DEF CachedScan, At, Finish, Goto
    <3>2. CASE ScanEnds(c)
      BY <3>2 DEF ScanEnds, At, Finish, Goto
    <3>3. CASE StoreScan(c)
      BY <3>3 DEF StoreScan, At, Finish, Goto
    <3>4. CASE Compose(c)
      BY <3>4 DEF Compose, At, Finish, Goto
    <3>5. QED
      BY <1>8, <3>1, <3>2, <3>3, <3>4
  <2>2. QED
    BY <1>0, <2>1, DashboardAssumption DEF Same, accountVars
<1>9. CASE BeginAccountRefresh(c)
  <2>1. query[c] = "none"
    BY <1>9 DEF BeginAccountRefresh, At
  <2>2. call[c].kind # "account" => call[c].cfg >= applied
    BY <1>9 DEF BeginAccountRefresh, At, SettingsInv, Inside
  <2>3. call'[c].kind = call[c].kind /\ call'[c].cfg = call[c].cfg
        /\ call'[c].pc \in {"fetch", "compose", "done"}
    BY <1>9 DEF BeginAccountRefresh, AfterBegin, Finish, Goto
  <2>4. config >= applied /\ applied' = applied
    BY <1>9 DEF BeginAccountRefresh, SettingsInv, Configs
  <2>5. CASE inFlight /\ UNCHANGED accountVars
    BY <1>0, <1>9, <2>1, <2>3, <2>4, <2>5 DEF BeginAccountRefresh, Same, accountVars
  <2>6. CASE /\ generation' = c /\ inFlight' = TRUE
             /\ query' = [query EXCEPT ![c] = "running"]
             /\ asked' = [asked EXCEPT ![c] = config]
    <3>1. QueryOwned'
      BY <2>6, DashboardAssumption
    <3>2. \A d \in Calls : query'[d] # "none" => call'[d].pc \in {"fetch", "compose", "done"}
      BY <1>0, <2>3, <2>6 DEF Same
    <3>3. QED
      BY <2>2, <2>3, <2>4, <2>6, <3>1, <3>2
  <2>7. QED
    BY <1>9, <2>5, <2>6 DEF BeginAccountRefresh
<1>10. CASE FetchAccount(c)
  <2>1. call'[c].kind = call[c].kind /\ call'[c].cfg = call[c].cfg
        /\ (call[c].pc \in {"fetch", "compose", "done"}
               => call'[c].pc \in {"fetch", "compose", "done"})
        /\ applied' = applied
    BY <1>10 DEF FetchAccount, Finish, Goto, At
  <2>2. QED
    BY <1>0, <1>10, <2>1, DashboardAssumption DEF FetchAccount, Same
<1>11. QED
  BY <1>2, <1>3, <1>4, <1>5, <1>6, <1>7, <1>8, <1>9, <1>10 DEF CallStep

\* Every step, of whatever number of calls, keeps the invariant.
LEMMA InvStep == TypeOK /\ DashboardInv /\ [Next]_vars => DashboardInv'
<1> SUFFICES ASSUME TypeOK, DashboardInv, [Next]_vars PROVE DashboardInv'
  OBVIOUS
<1> USE DEF DashboardInv
<1>1. CASE UNCHANGED vars
  BY <1>1 DEF vars, data, accountVars, LockInv, Inside, LockedSteps, SettingsInv, WindowInv,
              ScanInv, QueryInv, QueryOwned
<1>2. CASE CancelRefresh
  <2>1. \A d \in Calls : Same(d)
    BY <1>2, CancelSame DEF CancelRefresh
  <2>2. UNCHANGED <<config, applied, lock, data, accountVars>>
    BY <1>2 DEF CancelRefresh
  <2>3. LockInv' /\ SettingsInv'
    BY <2>1, <2>2 DEF LockInv, SettingsInv, Inside, LockedSteps, Same
  <2>4. WindowInv' /\ ScanInv'
    BY <2>1, <2>2 DEF WindowInv, ScanInv, Same, data
  <2>5. QueryInv'
    BY <2>1, <2>2 DEF TypeOK, QueryInv, QueryOwned, Same, accountVars
  <2>6. QED
    BY <2>3, <2>4, <2>5
<1>3. ASSUME NEW c \in Calls, AskDashboard(c) \/ AskOther(c) \/ CallStep(c) \/ FetchAccount(c)
      PROVE  DashboardInv'
  BY <1>3, LockStep, DataStep, QueryStep
<1>4. CASE ForeignChange
  <2>1. UNCHANGED <<applied, lock, call, data, accountVars>>
    BY <1>4 DEF ForeignChange
  <2>2. applied' <= config'
    BY <1>4 DEF ForeignChange, Change, SettingsInv, TypeOK, Configs
  <2>3. QED
    BY <2>1, <2>2 DEF LockInv, Inside, LockedSteps, SettingsInv, WindowInv, ScanInv, QueryInv,
                      QueryOwned, data, accountVars
<1>5. QED
  BY <1>1, <1>2, <1>3, <1>4 DEF Next

\* Who is inside the lock, how old what a call, the scan or the current query
\* has read may be, at every moment of every interleaving, with saves that
\* fail before or after they took effect and with changes of other instances.
THEOREM InvCorrect == Spec => []DashboardInv
<1>1. Init => DashboardInv
  BY InvInit
<1>2. TypeOK /\ DashboardInv /\ [Next]_vars => DashboardInv'
  BY InvStep
<1>3. QED
  BY <1>1, <1>2, TypeCorrect, PTL DEF Spec

\* The scan in memory was made under the settings of the last change that was
\* invalidated for, or later ones, and holds the window it is said to.
THEOREM ScanIsCurrent == Spec => []ScanCurrent
<1>1. TypeOK /\ DashboardInv => ScanCurrent
  BY DEF TypeOK, DashboardInv, ScanInv, ScanCurrent, Windows
<1>2. QED
  BY <1>1, TypeCorrect, InvCorrect, PTL

\* The flag of the account query is set exactly while the current query runs.
THEOREM QueryIsOwned == Spec => []QueryOwned
<1>1. DashboardInv => QueryOwned
  BY DEF DashboardInv, QueryInv
<1>2. QED
  BY <1>1, InvCorrect, PTL

\* A dashboard is composed from a scan that was made after the last change that
\* was invalidated for, and that covers the window that was asked for.
THEOREM AnswerIsRight == Spec => AnswerRight
<1>1. DashboardInv => \A c \in Calls : ComposedOf(c)
  <2> SUFFICES ASSUME DashboardInv, NEW c \in Calls, At(c, "compose")
               PROVE  scan # None /\ scan.config >= applied /\ loadedAfter <= call[c].want
    BY DEF ComposedOf
  <2>1. Inside(c) /\ call[c].kind = "dashboard"
    BY DEF At, Inside, LockedSteps, DashboardInv, LockInv
  <2>2. QED
    BY <2>1 DEF At, DashboardInv, WindowInv, ScanInv
<1>2. DashboardInv /\ [Next]_vars => [\A c \in Calls : ComposedOf(c)]_vars
  BY <1>1
<1>3. QED
  BY <1>2, InvCorrect, PTL DEF Spec, AnswerRight

\* An account that is accepted was asked for after the last change that was
\* invalidated for.
THEOREM AccountIsNotStale == Spec => AccountNotStale
<1>1. DashboardInv => \A c \in Calls : AcceptedOf(c)
  <2> SUFFICES ASSUME DashboardInv, NEW c \in Calls, Accepts(c)
               PROVE  /\ asked[c] >= applied
                      /\ call[c].kind # "account" => call[c].cfg >= applied
    BY DEF AcceptedOf
  <2>1. generation = c /\ inFlight
    BY DashboardAssumption DEF Accepts, DashboardInv, QueryInv, QueryOwned
  <2>2. QED
    BY <2>1 DEF DashboardInv, QueryInv
<1>2. DashboardInv /\ [Next]_vars => [\A c \in Calls : AcceptedOf(c)]_vars
  BY <1>1
<1>3. QED
  BY <1>2, InvCorrect, PTL DEF Spec, AccountNotStale

=============================================================================
