--------------------------- MODULE ActionSessions ---------------------------
(***************************************************************************)
(* Managed actions of Runtime Atlas: launching, stopping, reconciling with *)
(* what earlier runs of the application left behind, editing an action,    *)
(* and shutting down for an exit or an update, over crashes of the         *)
(* application and of the supervisors.                                     *)
(***************************************************************************)
EXTENDS SessionController

-----------------------------------------------------------------------------
(* status: recover_orphan_markers, then reconcile_sessions.  delete_action *)
(* and the ordinary exit begin with the same pass (action_guard_snapshot). *)

BeginReconcile(kind, k) ==
    /\ appUp /\ At("idle")
    /\ op' = [Idle EXCEPT !.kind = kind, !.key = k,
                          !.pc = IF damaged THEN "load" ELSE "orphans",
                          !.todo = IF damaged THEN {} ELSE {i \in Ids : Published(i)},
                          !.snap = store]
    /\ UNCHANGED <<fileVars, procVars, memVars, envVars>>

BeginStatus == BeginReconcile("status", None)
BeginEdit(k) == registered[k] /\ ~damaged /\ BeginReconcile("edit", k)
BeginExit == ~updating /\ ~damaged /\ BeginReconcile("exit", None)

\* Whether some record of the loaded document occupies the key of session i.
KeyTaken(i) == \E j \in Ids : op.snap[j] # "none" /\ key[j] = key[i]

\* The record that recover_orphan_markers adds to its copy of the document.
Adopt(i) == op' = [op EXCEPT !.todo = @ \ {i}, !.snap[i] = "final"]

\* Mutant: the marker of an orphan that cannot be adopted is just removed.
OrphanDropped ==
    /\ At("orphans")
    /\ \E i \in op.todo :
        IF op.snap[i] # "none"
        THEN Passed(i, "orphans") /\ UNCHANGED <<store, damaged, faults, marker>>
        ELSE IF ControlActive(i) /\ registered[key[i]] /\ ~KeyTaken(i)
        THEN Upsert(i, "final") /\ Adopt(i) /\ UNCHANGED <<marker, faults>>
        ELSE Unpublish(i) /\ Passed(i, "orphans") /\ UNCHANGED <<store, damaged, faults>>
    /\ UNCHANGED <<key, linked, cancelled, procVars, memVars, appUp, registered, updating>>

\* One marker file: known, or of a dead supervisor, or adopted, or stopped.
Orphan ==
    /\ At("orphans")
    /\ \E i \in op.todo :
        \/ /\ ~Published(i) \/ op.snap[i] # "none" \/ ~Live(i)
           /\ Passed(i, "orphans")
           /\ UNCHANGED <<store, damaged, faults>>
        \/ /\ Published(i) /\ op.snap[i] = "none" /\ Live(i)
           /\ IF ControlActive(i) /\ registered[key[i]] /\ ~KeyTaken(i)
              THEN \/ /\ Upsert(i, "final") /\ UNCHANGED faults
                      /\ Adopt(i)
                   \/ WriteFails /\ Finish("err")
              ELSE /\ Call(i, "term", "orphanStopped")
                   /\ UNCHANGED <<store, damaged, faults>>
    /\ UNCHANGED <<key, linked, cancelled, marker, procVars, memVars, appUp, registered,
                   updating>>

OrphanStopped ==
    /\ At("orphanStopped")
    /\ \/ op.result = "err" /\ Finish("err") /\ UNCHANGED marker
       \/ /\ op.result = "ok"
          /\ Unpublish(op.id)
          /\ Passed(op.id, "orphans")
    /\ UNCHANGED <<key, store, damaged, linked, cancelled, procVars, memVars, envVars>>

OrphansDone ==
    /\ At("orphans") /\ op.todo = {}
    /\ Goto("load")
    /\ UNCHANGED <<fileVars, procVars, memVars, envVars>>

\* sessions.load of reconcile_sessions.  A damaged document loads as empty.
Load ==
    /\ At("load")
    /\ Read("record", {i \in Ids : Recorded(i)})
    /\ UNCHANGED <<fileVars, procVars, memVars, envVars>>

NextRecord(i, isStale) ==
    op' = [op EXCEPT !.pc = "record", !.todo = @ \ {i},
                     !.stale = IF isStale THEN @ \cup {i} ELSE @]

Record ==
    /\ At("record")
    /\ IF op.todo = {} THEN Goto("sweep")
       ELSE \E i \in op.todo :
               IF op.snap[i] = "pending" THEN Call(i, "resolve", "recordResolved")
               ELSE Select(i, "recordCheck")
    /\ UNCHANGED <<fileVars, procVars, memVars, envVars>>

RecordResolved ==
    /\ At("recordResolved")
    /\ \/ op.result = "Finalized" /\ Goto("recordCheck") /\ UNCHANGED phase
       \/ op.result = "Stale" /\ NextRecord(op.id, TRUE) /\ UNCHANGED phase
       \/ /\ op.result = "Unverified"
          /\ NextRecord(op.id, FALSE)
          /\ phase' = [phase EXCEPT ![key[op.id]] = "none"]
       \/ op.result = "err" /\ Finish("err") /\ UNCHANGED phase
    /\ UNCHANGED <<fileVars, procVars, active, watch, envVars>>

\* Mutant: the record of a dead supervisor is left in the document.
RecordCheckKeeping ==
    /\ At("recordCheck")
    /\ NextRecord(op.id, FALSE)
    /\ UNCHANGED <<fileVars, procVars, memVars, envVars>>

RecordCheck ==
    /\ At("recordCheck")
    /\ LET i == op.id  k == key[i] IN
       \/ /\ ~Validated(i) /\ Live(i)
          /\ ForgetSession(i)
          /\ NextRecord(i, FALSE)
          /\ UNCHANGED <<linked, marker>>
       \/ /\ ~Live(i)
          /\ DiscardFiles(i)
          /\ ForgetSession(i)
          /\ NextRecord(i, TRUE)
       \/ /\ Validated(i) /\ ~registered[k]
          /\ Call(i, "term", "recordStopped")
          /\ UNCHANGED <<linked, marker, active, phase>>
       \/ /\ Validated(i) /\ registered[k]
          /\ active' = [active EXCEPT ![k] = IF @ = None THEN [id |-> i, by |-> "adopt"] ELSE @]
          /\ NextRecord(i, FALSE)
          /\ UNCHANGED <<linked, marker, phase>>
    /\ UNCHANGED <<key, store, damaged, cancelled, procVars, watch, envVars>>

RecordStopped ==
    /\ At("recordStopped")
    /\ \/ /\ op.result = "err" /\ Finish("err")
          /\ UNCHANGED <<linked, marker, active, phase>>
       \/ /\ op.result = "ok"
          /\ DiscardFiles(op.id)
          /\ ForgetSession(op.id)
          /\ NextRecord(op.id, TRUE)
    /\ UNCHANGED <<key, store, damaged, cancelled, procVars, watch, envVars>>

Sweep ==
    /\ At("sweep")
    /\ \/ \E i \in op.stale :
             \/ /\ Remove(i) /\ UNCHANGED faults
                /\ op' = [op EXCEPT !.stale = @ \ {i}]
             \/ WriteFails /\ Finish("err")
       \/ op.stale = {} /\ Goto("publish") /\ UNCHANGED <<store, damaged, faults>>
    /\ UNCHANGED <<key, linked, cancelled, marker, procVars, memVars, appUp, registered,
                   updating>>

\* What reconcile_action_sessions of the core crate reports.  It observes a
\* pending record with a live published supervisor as final, and an
\* unrecorded marker of one as a session if no record occupies its key.
ObservedRunning(i) ==
    /\ registered[key[i]] /\ Validated(i)
    /\ Recorded(i) \/ RecordsOf(key[i]) = {}
ObservedPending(i) ==
    /\ store[i] = "pending" /\ registered[key[i]] /\ ControlActive(i)
    /\ ~(Published(i) /\ Live(i))
\* The pid of a published but dead supervisor may be another process by now:
\* then the record is left out.
PendingShown(i) == ObservedPending(i) /\ ~Published(i)

\* The snapshot goes to the guard: an edit fails if it shows a busy action.
BusyPhases == {"Pending", "Running", "Restarting", "Stopping"}
Guarded(isBusy) == op' = [op EXCEPT !.pc = "guard", !.failed = isBusy]

Publish ==
    /\ At("publish")
    /\ \E shown \in SUBSET {i \in Ids : ObservedPending(i)} :
        /\ {i \in Ids : PendingShown(i)} \subseteq shown
        /\ PidReuse \/ shown = {i \in Ids : ObservedPending(i)}
        /\ phase' = [k \in Keys |->
              IF phase[k] # "none" THEN phase[k]
              ELSE IF \E i \in shown : key[i] = k THEN "Pending"
              ELSE IF \E i \in Ids : key[i] = k /\ ObservedRunning(i) THEN "Running"
              ELSE "none"]
    /\ IF op.kind = "status" THEN Finish("ok")
       ELSE Guarded(op.kind = "edit" /\ phase'[op.key] \in BusyPhases)
    /\ UNCHANGED <<fileVars, procVars, active, watch, envVars>>

ReconcileStep ==
    \/ Orphan \/ OrphanStopped \/ OrphansDone \/ Load \/ Record \/ RecordResolved
    \/ RecordCheck \/ RecordStopped \/ Sweep \/ Publish

-----------------------------------------------------------------------------
(* Editing an action, exit and update.                                     *)

\* require_reconciled_marker_inventory
Reconciled ==
    /\ ~damaged
    /\ \A i \in Ids :
        /\ "tmp" \notin marker[i]
        /\ Published(i) => store[i] = "final" /\ Validated(i)
        /\ linked[i] => Recorded(i) /\ ~cancelled[i]

\* Mutant: only the runs in memory count.
ActionInactiveInMemory(k) == active[k] = None

\* ensure_actions_inactive for the action of key k
ActionInactive(k) ==
    ~damaged /\ RecordsOf(k) = {} /\ active[k] = None /\ ~op.failed

\* delete_action, and the guard of the ordinary exit.
Guard ==
    /\ At("guard")
    /\ \/ ~Reconciled /\ Finish("err") /\ UNCHANGED registered
       \/ /\ Reconciled /\ op.kind = "exit" /\ Goto("drain") /\ UNCHANGED registered
       \/ /\ Reconciled /\ op.kind = "edit"
          /\ IF ActionInactive(op.key)
             THEN registered' = [registered EXCEPT ![op.key] = FALSE] /\ Finish("ok")
             ELSE Finish("err") /\ UNCHANGED registered
    /\ UNCHANGED <<fileVars, procVars, memVars, appUp, updating, faults>>

BeginUpdate ==
    /\ ~updating
    /\ Begin("update", None, "drain")
    /\ UNCHANGED <<fileVars, procVars, memVars, envVars>>

\* shutdown_for_update_locked: the flag, the records and the active runs.
DrainBegin ==
    /\ At("drain")
    /\ IF damaged THEN Finish("err") /\ UNCHANGED updating
       ELSE /\ updating' = TRUE
            /\ Read("drainActive", {active[k].id : k \in {k \in Keys : active[k] # None}})
    /\ UNCHANGED <<fileVars, procVars, memVars, appUp, registered, faults>>

NextDrain(step, i, hasFailed) ==
    op' = [op EXCEPT !.pc = step, !.todo = @ \ {i}, !.failed = @ \/ hasFailed]

\* stop_active_supervisor
DrainActive ==
    /\ At("drainActive")
    /\ IF op.todo = {}
       THEN Survey("drainRecords", {i \in Ids : op.snap[i] # "none"})
       ELSE \E i \in op.todo :
               IF Live(i) THEN Call(i, "term", "drainActiveStopped")
               ELSE NextDrain("drainActive", i, FALSE)
    /\ UNCHANGED <<fileVars, procVars, memVars, envVars>>

DrainActiveStopped ==
    /\ At("drainActiveStopped")
    /\ NextDrain("drainActive", op.id, op.result = "err" /\ Live(op.id))
    /\ UNCHANGED <<fileVars, procVars, memVars, envVars>>

DrainRecords ==
    /\ At("drainRecords")
    /\ IF op.todo = {}
       THEN IF op.failed \/ damaged \/ \E i \in Ids : Recorded(i)
            THEN updating' = FALSE /\ Finish("err")
            ELSE UNCHANGED updating /\ Finish("ok")
       ELSE /\ \E i \in op.todo :
                  IF op.snap[i] = "pending" THEN Call(i, "resolve", "drainResolved")
                  ELSE Select(i, "drainCheck")
            /\ UNCHANGED updating
    /\ UNCHANGED <<fileVars, procVars, memVars, appUp, registered, faults>>

DrainResolved ==
    /\ At("drainResolved")
    /\ \/ op.result = "Finalized" /\ Goto("drainCheck") /\ UNCHANGED <<store, damaged, faults>>
       \/ /\ op.result = "Stale"
          /\ \/ /\ Remove(op.id) /\ UNCHANGED faults
                /\ NextDrain("drainRecords", op.id, FALSE)
             \/ WriteFails /\ NextDrain("drainRecords", op.id, TRUE)
       \/ /\ op.result \in {"Unverified", "err"}
          /\ NextDrain("drainRecords", op.id, TRUE)
          /\ UNCHANGED <<store, damaged, faults>>
    /\ UNCHANGED <<key, linked, cancelled, marker, procVars, memVars, appUp, registered,
                   updating>>

DrainCheck ==
    /\ At("drainCheck")
    /\ LET i == op.id IN
       \/ Validated(i) /\ Call(i, "term", "drainStopped") /\ UNCHANGED <<linked, marker>>
       \/ /\ ~Validated(i) /\ Live(i)
          /\ NextDrain("drainRecords", i, TRUE) /\ UNCHANGED <<linked, marker>>
       \/ ~Live(i) /\ DiscardFiles(i) /\ Goto("drainRemove")
    /\ UNCHANGED <<key, store, damaged, cancelled, procVars, memVars, envVars>>

\* Mutant: a session that could not be stopped is removed as well.
DrainStoppedUnchecked ==
    /\ At("drainStopped")
    /\ DiscardFiles(op.id) /\ Goto("drainRemove")
    /\ UNCHANGED <<key, store, damaged, cancelled, procVars, memVars, envVars>>

DrainStopped ==
    /\ At("drainStopped")
    /\ \/ /\ op.result = "err"
          /\ NextDrain("drainRecords", op.id, TRUE) /\ UNCHANGED <<linked, marker>>
       \/ op.result = "ok" /\ DiscardFiles(op.id) /\ Goto("drainRemove")
    /\ UNCHANGED <<key, store, damaged, cancelled, procVars, memVars, envVars>>

DrainRemove ==
    /\ At("drainRemove")
    /\ \/ Remove(op.id) /\ NextDrain("drainRecords", op.id, FALSE) /\ UNCHANGED faults
       \/ WriteFails /\ NextDrain("drainRecords", op.id, TRUE)
    /\ UNCHANGED <<key, linked, cancelled, marker, procVars, memVars, appUp, registered,
                   updating>>

\* cancel_update_shutdown, after an installation that failed.
CancelUpdate ==
    /\ appUp /\ At("idle") /\ updating
    /\ updating' = FALSE
    /\ UNCHANGED <<fileVars, procVars, memVars, appUp, registered, faults, op>>

ShutdownStep ==
    \/ Guard \/ DrainBegin \/ DrainActive \/ DrainActiveStopped \/ DrainRecords
    \/ DrainResolved \/ DrainCheck \/ DrainStopped \/ DrainRemove

-----------------------------------------------------------------------------
(* The application process and its surroundings.                           *)

\* A process that ends loses its memory, its threads and its operation.
AppGone ==
    /\ appUp' = FALSE
    /\ updating' = FALSE
    /\ op' = Idle
    /\ active' = [k \in Keys |-> None]
    /\ phase' = [k \in Keys |-> "none"]
    /\ watch' = [i \in Ids |-> "none"]
    /\ UNCHANGED <<fileVars, procVars, registered>>

AppCrash ==
    /\ appUp
    /\ faults.crash < MaxAppCrashes
    /\ faults' = [faults EXCEPT !.crash = @ + 1]
    /\ AppGone

\* The exit that a successful shutdown allows.
AppQuit == appUp /\ At("idle") /\ updating /\ AppGone /\ UNCHANGED faults

\* The lease of the process that ended is free again.
AppStart ==
    /\ ~appUp
    /\ appUp' = TRUE
    /\ UNCHANGED <<fileVars, procVars, memVars, registered, updating, faults, op>>

\* A worktree or a repository becomes unavailable, or available again, or
\* the action is saved again.
RegistrationChanges(k) ==
    /\ registered' = [registered EXCEPT ![k] = ~@]
    /\ UNCHANGED <<fileVars, procVars, memVars, appUp, updating, faults, op>>

FileDamaged ==
    /\ ~damaged
    /\ faults.damage < MaxDamages
    /\ faults' = [faults EXCEPT !.damage = @ + 1]
    /\ damaged' = TRUE
    /\ store' = [i \in Ids |-> "none"]
    /\ UNCHANGED <<key, linked, cancelled, marker, procVars, memVars, appUp, registered,
                   updating, op>>

-----------------------------------------------------------------------------

Init ==
    /\ key = [i \in Ids |-> None]
    /\ store = [i \in Ids |-> "none"]
    /\ damaged = FALSE
    /\ linked = [i \in Ids |-> FALSE]
    /\ cancelled = [i \in Ids |-> FALSE]
    /\ marker = [i \in Ids |-> {}]
    /\ sup = [i \in Ids |-> "none"]
    /\ term = [i \in Ids |-> FALSE]
    /\ cmd = [i \in Ids |-> "none"]
    /\ appUp = TRUE
    /\ active = [k \in Keys |-> None]
    /\ phase = [k \in Keys |-> "none"]
    /\ watch = [i \in Ids |-> "none"]
    /\ registered = [k \in Keys |-> TRUE]
    /\ updating = FALSE
    /\ op = Idle
    /\ faults = [crash |-> 0, kill |-> 0, damage |-> 0, write |-> 0]

UserRequest ==
    \/ \E k \in Keys : BeginLaunch(k, FALSE) \/ BeginLaunch(k, TRUE) \/ BeginStop(k)
                       \/ BeginEdit(k)
    \/ BeginStatus
    \/ BeginExit
    \/ BeginUpdate
    \/ CancelUpdate

OperationStep == LaunchStep \/ StopStep \/ Procedures \/ ReconcileStep \/ ShutdownStep

Environment ==
    \/ AppCrash \/ AppQuit \/ AppStart \/ FileDamaged
    \/ \E k \in Keys : RegistrationChanges(k)
    \/ \E i \in Ids : CommandEnds(i) \/ SupKill(i)

Next ==
    \/ UserRequest
    \/ OperationStep
    \/ \E i \in Ids : SupervisorStep(i) \/ WatcherStep(i)
    \/ Environment

Spec == Init /\ [][Next]_vars

-----------------------------------------------------------------------------
(* Safety.                                                                 *)

FilesOK ==
    /\ key \in [Ids -> Keys \cup {None}]
    /\ store \in [Ids -> RecordStates]
    /\ damaged \in BOOLEAN
    /\ linked \in [Ids -> BOOLEAN]
    /\ cancelled \in [Ids -> BOOLEAN]
    /\ marker \in [Ids -> SUBSET {"tmp", "json"}]

ProcessesOK ==
    /\ sup \in [Ids -> SupervisorStates]
    /\ term \in [Ids -> BOOLEAN]
    /\ cmd \in [Ids -> {"none", "run", "done"}]

MemoryOK ==
    /\ active \in [Keys -> Runs \cup {None}]
    /\ phase \in [Keys -> Phases]
    /\ watch \in [Ids -> {"none", "wait", "files", "memory"}]

EnvironmentOK ==
    /\ appUp \in BOOLEAN
    /\ registered \in [Keys -> BOOLEAN]
    /\ updating \in BOOLEAN
    /\ faults \in [crash: Nat, kill: Nat, damage: Nat, write: Nat]

Operations ==
    [kind: Kinds, key: Keys \cup {None}, id: Ids \cup {None}, pc: Steps, from: Steps,
     result: Results, tree: BOOLEAN, failed: BOOLEAN, todo: SUBSET Ids,
     stale: SUBSET Ids, snap: [Ids -> RecordStates]]

TypeOK == FilesOK /\ ProcessesOK /\ MemoryOK /\ EnvironmentOK /\ op \in Operations

\* A launch that was cancelled (cancel_pending_control wrote 1 under the
\* exclusive lock) never passes the gate of its supervisor, whatever crashes
\* come between the write, the unlink and the removal of the record.
CancelledNeverRuns == \A i \in Ids : cancelled[i] => ~Gated(i)

\* While the sessions file was never damaged, a supervisor that runs its
\* command or may come to is known to every later run of the application: its
\* record is stored, and its control file is there to stop it by.
LiveIsRecorded ==
    \A i \in Ids : CanRun(i) /\ faults.damage = 0 => Recorded(i) /\ linked[i]

\* At most one supervisor runs the action of a worktree at a time: launches,
\* adoptions of orphans and resolutions of pending records never overlap.
ExclusiveRun ==
    faults.damage = 0 =>
        \A i, j \in Ids : CanRun(i) /\ CanRun(j) /\ key[i] = key[j] => i = j

-----------------------------------------------------------------------------
(* What an operation may report.  The step that ends an operation leaves   *)
(* its result in op'.                                                      *)

EndsWith(kind, result) ==
    op.kind = kind /\ op.pc # "idle" /\ op'.pc = "idle" /\ op'.result = result

\* Nothing of session i runs or will: neither supervisor nor command, unless
\* a supervisor was killed and left its command behind.
Over(i) == ~CanRun(i) /\ (cmd[i] = "run" => faults.kill > 0)

\* A stop that reports success leaves nothing of the action and the worktree
\* that runs or still could: no session it found pending, none a launch of a
\* crashed application had just spawned, none whose watcher was faster.
StopSound ==
    [][EndsWith("stop", "ok") /\ faults.damage = 0 =>
          \A i \in Ids : key[i] = op.key => Over(i)]_vars

\* A shutdown that lets the application exit or be replaced leaves no
\* managed action of any worktree behind.
ShutdownSound ==
    [][(EndsWith("update", "ok") \/ EndsWith("exit", "ok")) /\ faults.damage = 0 =>
          \A i \in Ids : Over(i)]_vars

\* delete_action takes a definition away only when nothing runs by it.
EditSound ==
    [][EndsWith("edit", "ok") /\ faults.damage = 0 =>
          \A i \in Ids : key[i] = op.key => Over(i)]_vars

\* The application forgets an active run only when its supervisor is through
\* with the command: no stale watcher, reconciliation or stop of an older
\* session ends the run of a newer one.
ForgottenRunIsOver ==
    [][\A k \in Keys :
          active[k] # None /\ active'[k] # active[k] /\ appUp' /\ faults.damage = 0 =>
              sup[active[k].id] \in {"unmarked", "exited"}]_vars

\* Whatever happened to the sessions file, a session that runs keeps its marker
\* and its control file: stops, sweeps and the recovery of orphans, each acting
\* on what it read steps ago, never take from a live session what the next
\* recovery would find it by.
RunningFilesStay ==
    [][\A i \in Ids :
          CanRun(i) /\ CanRun(i)' =>
              /\ "json" \in marker[i] /\ sup'[i] # "unmarked" => "json" \in marker'[i]
              /\ linked[i] => linked'[i]]_vars

-----------------------------------------------------------------------------
(* The abstraction: a record is the slot of its key, and a session whose   *)
(* supervisor runs or can run is eligible.                                 *)

Slots == INSTANCE SessionSlots WITH
    reserved <- {i \in Ids : Recorded(i)},
    eligible <- {i \in Ids : CanRun(i)}

\* Without damage to the sessions file the protocol of records, control
\* files and markers implements the slots.
ImplementsSlots == Slots!Spec

-----------------------------------------------------------------------------
(* Liveness.  The threads of the application and the supervisors are       *)
(* scheduled, a group that was sent SIGTERM ends at the latest when the    *)
(* alarm fires, the user starts the application again, and the interface   *)
(* asks for the status every minute: the request waits for the mutex and   *)
(* gets it, however many other operations there are.  Nothing makes the    *)
(* watcher start: before it removes the record it waits for the end of the *)
(* output, and a detached descendant of the command may keep that open.    *)

Fairness ==
    /\ WF_vars(OperationStep)
    /\ WF_vars(AppStart)
    /\ SF_vars(BeginStatus)
    /\ \A i \in Ids : /\ WF_vars(SupervisorStep(i))
                      /\ SF_vars(WatchFiles(i) \/ WatchMemory(i))
                      /\ WF_vars(term[i] /\ CommandEnds(i))

FairSpec == Spec /\ Fairness

\* Every operation gives the action_operation mutex back: no wait for a
\* marker, a lock or a process is without end.
OperationEnds == op.pc # "idle" ~> op.pc = "idle"

\* A run this application launched does not stay active once its supervisor
\* has ended: the watcher ends it, or a status request that finds the record,
\* whichever of them takes the record out.  Only a shutdown may remove the
\* record and leave the run: after a failed installation an adopted one is
\* never ended.
WatchedRunEnds ==
    \A k \in Keys, i \in Ids :
        active[k] = [id |-> i, by |-> "launch"] /\ store[i] = "final" /\ ~Live(i) ~>
            updating \/ active[k] # [id |-> i, by |-> "launch"]

\* The final record of a dead supervisor is removed, even if the application
\* that launched it has crashed.
DeadRecordSwept ==
    \A i \in Ids : store[i] = "final" /\ ~Live(i) ~> store[i] = "none"

=============================================================================
