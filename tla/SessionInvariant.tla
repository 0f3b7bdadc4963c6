-------------------------- MODULE SessionInvariant --------------------------
(***************************************************************************)
(* The inductive invariant of ActionSessions: why a supervisor that can    *)
(* run is always recorded, and recorded alone for its key.                 *)
(***************************************************************************)
EXTENDS ActionSessions

\* The operation is at one of these steps, or in a procedure called by one.
Within(steps) == op.pc \in steps \/ op.from \in steps

\* At every other step an operation has a session in its hands.
SessionSteps == Steps \ {"idle", "launchCheck", "launchCreate", "stopLookup", "orphans", "load",
                         "record", "sweep", "publish", "guard", "drain", "drainActive",
                         "drainRecords"}
SessionInHand == op.pc \in SessionSteps => op.id \in Ids


-----------------------------------------------------------------------------
(* Files and processes.                                                    *)

\* An id no launch has drawn has left no trace.
FreshInv ==
    \A i \in Ids : key[i] = None =>
        /\ store[i] = "none" /\ ~linked[i] /\ ~cancelled[i]
        /\ sup[i] = "none" /\ watch[i] = "none"

\* Only a session with its control file in place and its record stored can run.
CanRunInv ==
    \A i \in Ids : CanRun(i) => linked[i] /\ (faults.damage = 0 => Recorded(i))

\* upsert keeps the records of a document apart by their keys.
OneRecordInv ==
    \A i, j \in Ids : Recorded(i) /\ Recorded(j) /\ key[i] = key[j] => i = j

\* A watcher touches the files only after the supervisor is gone.
WatchInv == \A i \in Ids : watch[i] \in {"files", "memory"} => ~Live(i)

FileInv == FreshInv /\ CancelledNeverRuns /\ CanRunInv /\ OneRecordInv /\ WatchInv

-----------------------------------------------------------------------------
(* The operation.                                                          *)

\* A procedure returns to a step that calls it, and to that step alone.
StoppedSteps == {"stopTermed", "recordStopped", "drainStopped", "orphanStopped", "launchUndo"}
ResolvedSteps == {"stopResolved", "recordResolved", "drainResolved"}
StopProcedure == {"term", "termWait"}
ResolveProcedure == {"resolve", "resolveUpsert", "cancel", "cancelUnlink"}
CallInv ==
    /\ op.pc \in StopProcedure => op.from \in StoppedSteps \cup {"launchKill", "drainActiveStopped"}
    /\ op.pc \in ResolveProcedure => op.from \in ResolvedSteps
    /\ op.pc \notin StopProcedure \cup ResolveProcedure => op.from = "idle"

\* A launch is for a key, and it creates the files of a key without records.
LaunchInv ==
    /\ op.pc \in {"launchCheck", "launchDropStale", "launchCreate", "launchRecord",
                  "launchSpawn"} => op.key \in Keys
    /\ op.kind = "restart" => op.key \in Keys
    /\ op.pc = "launchDropStale" => RecordsOf(op.key) \subseteq {op.id}
    /\ op.pc = "launchCreate" => RecordsOf(op.key) = {}

\* Up to the spawn, the session of a launch is in the hands of the launch alone.
SpawnInv ==
    /\ op.pc \in {"launchRecord", "launchSpawn"} =>
          /\ key[op.id] = op.key
          /\ sup[op.id] = "none" /\ linked[op.id] /\ watch[op.id] = "none"
    /\ op.pc = "launchSpawn" /\ faults.damage = 0 => Recorded(op.id)

\* What is finalized or watched was drawn by a launch.
DrawnInv ==
    Within({"launchAwait", "launchFinalize", "launchActivate", "launchUndo", "resolveUpsert"})
        => key[op.id] # None

\* While a pending record is finalized, no other one occupies its key: only
\* the operation itself adds records, the watchers just remove them.
SoleRecordInv ==
    op.pc \in {"launchRecord", "launchSpawn", "launchAwait", "launchFinalize"} \cup ResolveProcedure
        => \A j \in Ids : Recorded(j) /\ key[j] = key[op.id] => j = op.id

\* What an operation is about to remove cannot run any more.
RemovalSteps ==
    {"launchDropStale", "launchAbandon", "launchUnlink", "cancelUnlink", "stopDiscard",
     "stopFiles", "drainRemove"}
Removing ==
    \/ op.pc \in RemovalSteps
    \/ op.pc \in StoppedSteps /\ op.result = "ok"
    \/ op.pc \in ResolvedSteps /\ op.result = "Stale"
RemovalInv == Removing => ~CanRun(op.id)

StaleInv ==
    /\ \A i \in op.stale : ~CanRun(i)
    /\ op.stale # {} => Within(RecordSteps \cup {"sweep"})

\* The document an operation loaded still holds every stored record, and the
\* entries it goes over are records of it.
ReconcileSteps == RecordSteps \cup {"orphans", "orphanStopped", "load", "sweep", "publish",
                                    "guard"}
DrainRecordSteps == {"drainRecords", "drainResolved", "drainCheck", "drainStopped",
                     "drainRemove"}
DrainSteps == DrainRecordSteps \cup {"drainActive", "drainActiveStopped"}
SnapshotInv ==
    Within(ReconcileSteps \cup DrainSteps) =>
        /\ \A j \in Ids : Recorded(j) => op.snap[j] # "none"
        /\ \A i, j \in Ids : op.snap[i] # "none" /\ op.snap[j] # "none" /\ key[i] = key[j]
                                => i = j
EntriesInv ==
    Within(RecordSteps \cup DrainRecordSteps) =>
        /\ \A i \in op.todo : op.snap[i] # "none"
        /\ op.pc \in ResolveProcedure => op.snap[op.id] # "none"

OperationInv ==
    /\ SessionInHand
    /\ CallInv
    /\ LaunchInv
    /\ SpawnInv
    /\ DrawnInv
    /\ SoleRecordInv
    /\ RemovalInv
    /\ StaleInv
    /\ SnapshotInv
    /\ EntriesInv

SlotInv == FileInv /\ OperationInv

-----------------------------------------------------------------------------
(* Why an operation may report what it does, and forget what it forgets.   *)

\* The marker is there from its publication until the supervisor or somebody
\* who knows that it has ended removes it.
Announced == {"published", "running", "ending", "unmarked", "exited"}
MarkerInv == \A i \in Ids :
    /\ Published(i) => sup[i] \in Announced
    /\ sup[i] \in {"published", "running", "ending"} => Published(i)

\* Only a SIGKILL leaves a command without its supervisor.
CommandInv == \A i \in Ids : cmd[i] = "run" => sup[i] = "running" \/ faults.kill > 0

\* A run is active under its own key, once its marker was published.
ActiveInv == \A k \in Keys : active[k] # None =>
    key[active[k].id] = k /\ sup[active[k].id] \in Announced

\* Which operation can be at a step, or in a procedure called by it.
LaunchSteps ==
    {"launchCheck", "launchDropStale", "launchCreate", "launchRecord", "launchSpawn",
     "launchAwait", "launchFinalize", "launchActivate", "launchUndo", "launchAbort",
     "launchKill", "launchAbandon", "launchUnlink"}
StopSteps ==
    {"stopLookup", "stopResolved", "stopCheck", "stopDiscard", "stopTermed", "stopFiles"}
KindInv ==
    /\ Within(LaunchSteps) => op.kind \in {"launch", "restart"} /\ op.key \in Keys
    /\ Within(StopSteps) => op.kind \in {"stop", "restart"} /\ op.key \in Keys
    /\ Within(ReconcileSteps \ {"guard"}) => op.kind \in {"status", "edit", "exit"}
    /\ op.pc = "guard" => op.kind \in {"edit", "exit"}
    /\ Within(DrainSteps \cup {"drain"}) => op.kind \in {"exit", "update"}
    /\ op.kind = "edit" => op.key \in Keys

\* A stop has all the records of its key in its hands.
StopInv ==
    Within(StopSteps \ {"stopLookup"}) => RecordsOf(op.key) \subseteq {op.id}

\* A launch runs for a key without an active run, and activates its own session.
CreatedSteps == {"launchRecord", "launchSpawn", "launchAwait", "launchFinalize", "launchActivate"}
ActivationInv ==
    /\ op.pc \in CreatedSteps \cup {"launchDropStale", "launchCreate"} => active[op.key] = None
    /\ op.pc \in CreatedSteps => key[op.id] = op.key
    /\ op.pc \in {"launchFinalize", "launchActivate"} => sup[op.id] \in Announced

RunInv ==
    /\ MarkerInv /\ CommandInv /\ ActiveInv
    /\ KindInv /\ StopInv /\ ActivationInv

=============================================================================
