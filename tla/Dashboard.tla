----------------------------- MODULE Dashboard -----------------------------
(***************************************************************************)
(* The state behind the commands of TokenMeter: the scan the dashboard is  *)
(* composed from, the account query that runs beside it, and the settings  *)
(* both depend on.                                                         *)
(*                                                                         *)
(* Commands run on threads of their own.  All but the refresh of the       *)
(* account hold the operation lock; workers that query the account, and    *)
(* that refresh, only take the lock of the data for a step.  The two       *)
(* generation counters are only ever compared with a copy taken before:    *)
(* a scan epoch is the flag "cancelled since", the account generation is   *)
(* the call whose query is current.                                        *)
(***************************************************************************)
EXTENDS Naturals, FiniteSets

CONSTANTS
    Calls,        \* invocations of commands
    None,
    MaxWindow,    \* windows are 0 .. MaxWindow, a later start is larger
    MaxChanges    \* bound on changes of the settings

\* Window 0 is None: everything.
Windows == 0 .. MaxWindow
Configs == 0 .. MaxChanges

\* What a scan says of itself: the settings and the window it was made with.
Scans == [config : Configs, window : Windows]

ASSUME DashboardAssumption ==
    /\ MaxWindow \in Nat /\ MaxChanges \in Nat
    /\ None \notin Calls \cup Scans

VARIABLES
    config,      \* the version of the saved settings
    applied,     \* history: the version of the last change that was invalidated for
    lock,        \* the call that holds the operation lock
    call,        \* what a call was asked and where it is
    scan,        \* dashboard_data.scan
    loadedAfter, \* dashboard_data.loaded_after
    account,     \* dashboard_data.account
    generation,  \* dashboard_data.account_generation
    inFlight,    \* dashboard_data.account_query_in_flight
    query,       \* the account query of a call
    asked        \* the settings that were saved when a query was begun

data == <<scan, loadedAfter>>
accountVars == <<account, generation, inFlight, query, asked>>
vars == <<config, applied, lock, call, data, accountVars>>

Kinds == {"dashboard", "account", "sources", "rebuild", "cleanup"}
Steps == {"idle", "wait", "load", "save", "invalidate", "check", "cached", "scan", "commit",
          "begin", "fetch", "compose", "done"}

NoCall == [kind |-> "dashboard", pc |-> "idle", refresh |-> FALSE, want |-> 0, after |-> 0,
           cfg |-> 0, cancelled |-> FALSE]

At(c, step) == call[c].pc = step
Goto(c, step) == call' = [call EXCEPT ![c].pc = step]
\* A call returns, and gives the operation lock back if it has it.
Finish(c) == Goto(c, "done") /\ lock' = IF lock = c THEN None ELSE lock

\* Mutant: the comparison is turned round.
CoversLess(loaded, required) == loaded >= required

Covers(loaded, required) == loaded <= required

\* with_settings holds the lock of the settings file from the load to the end
\* of the change.
SettingsLocked == \E c \in Calls : At(c, "save") \/ At(c, "invalidate")

-----------------------------------------------------------------------------
(* Commands.                                                               *)

\* cancel_scan: every scan that holds an older epoch is cancelled.
Cancelled == [c \in Calls |-> [call[c] EXCEPT !.cancelled = TRUE]]

Ask(c, kind, refresh, want) ==
    /\ At(c, "idle")
    /\ LET calls == IF kind \in {"sources", "rebuild"} THEN Cancelled ELSE call
       IN call' = [calls EXCEPT ![c] = [NoCall EXCEPT
              !.kind = kind, !.refresh = refresh, !.want = want,
              !.pc = IF kind = "account" THEN "load" ELSE "wait"]]
    /\ UNCHANGED <<config, applied, lock, data, accountVars>>

AskDashboard(c) == \E refresh \in BOOLEAN, want \in Windows : Ask(c, "dashboard", refresh, want)
AskOther(c) == \E kind \in Kinds \ {"dashboard"} : Ask(c, kind, FALSE, 0)

\* token_meter_cancel_dashboard_refresh
CancelRefresh ==
    /\ \E c \in Calls : ~call[c].cancelled
    /\ call' = Cancelled
    /\ UNCHANGED <<config, applied, lock, data, accountVars>>

\* with_lock; the dashboard reads its scan epoch under the lock.
Lock(c) ==
    /\ At(c, "wait") /\ lock = None
    /\ lock' = c
    /\ call' = [call EXCEPT ![c].pc = "load", ![c].cancelled = FALSE]
    /\ UNCHANGED <<config, applied, data, accountVars>>

AfterLoad(kind) ==
    CASE kind = "dashboard" -> "check"
      [] kind = "account" -> "begin"
      [] kind = "sources" -> "save"
      [] OTHER -> "scan"

LoadSettings(c) ==
    /\ At(c, "load") /\ ~SettingsLocked
    /\ \/ /\ call' = [call EXCEPT ![c].cfg = config, ![c].pc = AfterLoad(call[c].kind)]
          /\ UNCHANGED lock
       \/ Finish(c)
    /\ UNCHANGED <<config, applied, data, accountVars>>

-----------------------------------------------------------------------------
(* A change of the sources, the executable or the sync folder.             *)

Change == config < MaxChanges /\ config' = config + 1

\* A save that reports an error may have put its file in place all the same:
\* the command returns the error, and invalidates nothing.
SaveSettings(c) ==
    /\ At(c, "save")
    /\ \/ Change /\ Goto(c, "invalidate") /\ UNCHANGED lock
       \/ (Change \/ UNCHANGED config) /\ Finish(c)
    /\ UNCHANGED <<applied, data, accountVars>>

\* Another instance of the host changes the settings.
ForeignChange ==
    /\ ~SettingsLocked
    /\ Change
    /\ UNCHANGED <<applied, lock, call, data, accountVars>>

\* Mutant: the scan is kept.
InvalidateAccount(c) ==
    /\ At(c, "invalidate")
    /\ generation' = None /\ inFlight' = FALSE
    /\ Finish(c)
    /\ applied' = config
    /\ UNCHANGED <<config, data, account, query, asked>>

\* Mutant: the query goes on.
InvalidateScan(c) ==
    /\ At(c, "invalidate")
    /\ scan' = None /\ loadedAfter' = 0
    /\ Finish(c)
    /\ applied' = config
    /\ UNCHANGED <<config, accountVars>>

\* Mutant: the flag of the disowned query stays set.
InvalidateGeneration(c) ==
    /\ At(c, "invalidate")
    /\ scan' = None /\ loadedAfter' = 0
    /\ generation' = None
    /\ Finish(c)
    /\ applied' = config
    /\ UNCHANGED <<config, account, inFlight, query, asked>>

InvalidateData(c) ==
    /\ At(c, "invalidate")
    /\ scan' = None /\ loadedAfter' = 0
    /\ generation' = None /\ inFlight' = FALSE
    /\ Finish(c)
    /\ applied' = config
    /\ UNCHANGED <<config, account, query, asked>>

-----------------------------------------------------------------------------
(* The dashboard.                                                          *)

\* A refresh of what is loaded scans for the window that is loaded.
CheckWindow(c) ==
    /\ At(c, "check")
    /\ LET missing == scan = None
           covered == ~missing /\ Covers(loadedAfter, call[c].want)
           refresh == call[c].refresh
       IN call' = [call EXCEPT
              ![c].after = IF covered THEN loadedAfter ELSE call[c].want,
              ![c].pc = CASE missing /\ ~refresh -> "cached"
                          [] covered /\ ~refresh -> "compose"
                          [] OTHER -> "scan"]
    /\ UNCHANGED <<config, applied, lock, data, accountVars>>

Store(c) ==
    /\ scan' = [config |-> call[c].cfg, window |-> call[c].after]
    /\ loadedAfter' = call[c].after

\* cached_scan: what the cache holds, without a look at the sources.
CachedScan(c) ==
    /\ At(c, "cached")
    /\ \/ Store(c) /\ Goto(c, "compose") /\ UNCHANGED lock
       \/ Finish(c) /\ UNCHANGED data
    /\ UNCHANGED <<config, applied, accountVars>>

\* Mutant: a scan that fails keeps the lock.
ScanFailsLocked(c) ==
    /\ At(c, "scan")
    /\ \/ Goto(c, "commit")
       \/ Goto(c, "done")
    /\ UNCHANGED <<config, applied, lock, data, accountVars>>

\* The scan ends: done, failed, or (of a dashboard only) cancelled.  Between
\* the last check for that and the store, a cancellation comes too late.
ScanEnds(c) ==
    /\ At(c, "scan")
    /\ \/ /\ call[c].kind = "dashboard" => ~call[c].cancelled
          /\ Goto(c, "commit") /\ UNCHANGED lock
       \/ Finish(c)
    /\ UNCHANGED <<config, applied, data, accountVars>>

\* The cleanup stores its scan and is through; the others go on to the account.
StoreScan(c) ==
    /\ At(c, "commit")
    /\ Store(c)
    /\ IF call[c].kind = "cleanup" THEN Finish(c) ELSE Goto(c, "begin") /\ UNCHANGED lock
    /\ UNCHANGED <<config, applied, accountVars>>

\* compose_dashboard, which expects a scan.
Compose(c) ==
    /\ At(c, "compose")
    /\ Finish(c)
    /\ UNCHANGED <<config, applied, data, accountVars>>

-----------------------------------------------------------------------------
(* The account.                                                            *)

AfterBegin(c, isBegun) ==
    IF call[c].kind = "dashboard" THEN Goto(c, "compose") /\ UNCHANGED lock
    ELSE IF call[c].kind = "account" /\ isBegun THEN Goto(c, "fetch") /\ UNCHANGED lock
    ELSE Finish(c)

\* begin_account_refresh: a query that is in flight is shared.
BeginAccountRefresh(c) ==
    /\ At(c, "begin")
    /\ \/ inFlight /\ UNCHANGED accountVars
       \/ /\ ~inFlight
          /\ generation' = c /\ inFlight' = TRUE
          /\ query' = [query EXCEPT ![c] = "running"]
          /\ asked' = [asked EXCEPT ![c] = config]
          /\ account' = [account EXCEPT !.status = "updating"]
    /\ AfterBegin(c, ~inFlight)
    /\ UNCHANGED <<config, applied, data>>

\* fetch_account ends, after 15 seconds at the latest: its answer is of the
\* executable that the settings of its call name, and counts if its
\* generation is still the current one (update_account_if_current).
FetchAccount(c) ==
    /\ query[c] = "running"
    /\ query' = [query EXCEPT ![c] = "done"]
    /\ IF generation = c
       THEN /\ inFlight' = FALSE
            /\ account' \in {[status |-> "available", of |-> call[c].cfg],
                             [status |-> "unavailable", of |-> None]}
       ELSE UNCHANGED <<inFlight, account>>
    /\ IF At(c, "fetch") THEN Finish(c) ELSE UNCHANGED <<call, lock>>
    /\ UNCHANGED <<config, applied, data, generation, asked>>

-----------------------------------------------------------------------------

Init ==
    /\ config = 0 /\ applied = 0
    /\ lock = None
    /\ call = [c \in Calls |-> NoCall]
    /\ scan = None /\ loadedAfter = 0
    /\ account = [status |-> "updating", of |-> None]
    /\ generation = None /\ inFlight = FALSE
    /\ query = [c \in Calls |-> "none"]
    /\ asked = [c \in Calls |-> 0]

CallStep(c) ==
    \/ Lock(c) \/ LoadSettings(c)
    \/ SaveSettings(c) \/ InvalidateData(c)
    \/ CheckWindow(c) \/ CachedScan(c) \/ ScanEnds(c) \/ StoreScan(c) \/ Compose(c)
    \/ BeginAccountRefresh(c)

Next ==
    \/ CancelRefresh \/ ForeignChange
    \/ \E c \in Calls : AskDashboard(c) \/ AskOther(c) \/ CallStep(c) \/ FetchAccount(c)

Spec == Init /\ [][Next]_vars
FairSpec == Spec /\ \A c \in Calls : WF_vars(FetchAccount(c)) /\ SF_vars(CallStep(c))

-----------------------------------------------------------------------------
\* The types of the variables.
TypeOK ==
    /\ config \in Configs /\ applied \in Configs
    /\ lock \in Calls \cup {None}
    /\ call \in [Calls -> [kind : Kinds, pc : Steps, refresh : BOOLEAN, want : Windows,
                           after : Windows, cfg : Configs, cancelled : BOOLEAN]]
    /\ scan \in Scans \cup {None}
    /\ loadedAfter \in Windows
    /\ account \in [status : {"updating", "available", "unavailable"},
                    of : Configs \cup {None}]
    /\ generation \in Calls \cup {None}
    /\ inFlight \in BOOLEAN
    /\ query \in [Calls -> {"none", "running", "done"}]
    /\ asked \in [Calls -> Configs]

\* Whatever the order of requests, of cancellations and of changes that other
\* instances make, the scan kept in memory was made under the settings of the
\* last change that this instance invalidated for, or later ones; and it holds
\* the window it is said to.  A save that took effect and reported an error,
\* and a change of another instance, promise nothing: the scan of before stays.
ScanCurrent ==
    scan # None => scan.config >= applied /\ scan.window <= loadedAfter

\* A dashboard is composed from a scan (expect in TokenMeterState::dashboard
\* does not fail) that was made after the last change this instance
\* invalidated for, and covers the window that was asked for.
ComposedOf(c) ==
    At(c, "compose") =>
        scan # None /\ scan.config >= applied /\ loadedAfter <= call[c].want

AnswerRight == [][\A c \in Calls : ComposedOf(c)]_vars

\* The flag says exactly whether the current query runs: it is never left set
\* by a query that is gone (no account would be asked for again), nor cleared
\* by a stale one under its successor.
QueryOwned == inFlight <=> generation # None /\ query[generation] = "running"

Accepts(c) == query[c] = "running" /\ query'[c] = "done" /\ generation = c

\* An account is not accepted that was asked for before the last change this
\* instance invalidated for: the change disowns the query.  A query that goes
\* with a scan has also read its settings since; account refreshes alone read
\* them without the lock, and may use the executable of before.
AcceptedOf(c) ==
    Accepts(c) =>
        asked[c] >= applied /\ (call[c].kind # "account" => call[c].cfg >= applied)

AccountNotStale == [][\A c \in Calls : AcceptedOf(c)]_vars

\* Every account query is over in the end.
QueryEnds == inFlight ~> ~inFlight

\* Every command returns: no two wait for each other.
CallsReturn == \A c \in Calls : call[c].pc # "idle" ~> At(c, "done")

=============================================================================
