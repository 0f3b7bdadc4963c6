-------------------------- MODULE SessionController --------------------------
(***************************************************************************)
(* The operations of the application on managed actions.  Each holds the   *)
(* action_operation mutex from its first step to its last, so one runs at  *)
(* a time; supervisors, commands and watcher threads run between any two   *)
(* of its steps, and a crash may end it after any of them.  A step is one  *)
(* access to the shared files, the process table or the memory.            *)
(***************************************************************************)
EXTENDS SessionSupervisor

Kinds == {"idle", "launch", "restart", "stop", "status", "edit", "exit", "update"}
Steps == RecordSteps \cup
    {"idle", "launchCheck", "launchDropStale", "launchCreate", "launchRecord",
     "launchSpawn", "launchAwait", "launchFinalize", "launchActivate", "launchUndo",
     "launchAbort", "launchKill", "launchAbandon", "launchUnlink",
     "resolve", "resolveUpsert", "cancel", "cancelUnlink", "term", "termWait",
     "stopLookup", "stopResolved", "stopCheck", "stopDiscard", "stopTermed", "stopFiles",
     "orphans", "orphanStopped", "load", "sweep", "publish", "guard",
     "drain", "drainActive", "drainActiveStopped", "drainRecords", "drainResolved",
     "drainCheck", "drainStopped", "drainRemove"}
Results == {"none", "ok", "err", "Finalized", "Stale", "Unverified"}

\* snap is the document an operation loaded, todo the entries it still has
\* to go over, stale the records it will remove, from the step a procedure
\* returns to, tree whether the process tree it observed held the command,
\* failed whether it has met an error that will make it fail at its end.
Idle == [kind |-> "idle", key |-> None, id |-> None, pc |-> "idle", from |-> "idle",
         result |-> "none", tree |-> FALSE, failed |-> FALSE,
         todo |-> {}, stale |-> {}, snap |-> [i \in Ids |-> "none"]]

At(step) == op.pc = step
Goto(step) == op' = [op EXCEPT !.pc = step]
Select(i, step) == op' = [op EXCEPT !.id = i, !.pc = step]
Call(i, step, return) == op' = [op EXCEPT !.id = i, !.pc = step, !.from = return,
                                          !.result = "none"]
Passed(i, step) == op' = [op EXCEPT !.pc = step, !.todo = @ \ {i}]
Survey(step, ids) == op' = [op EXCEPT !.pc = step, !.todo = ids]
Read(step, ids) == op' = [op EXCEPT !.pc = step, !.todo = ids, !.snap = store]
Return(result) == op' = [op EXCEPT !.pc = op.from, !.from = "idle", !.result = result,
                                   !.tree = FALSE]
Finish(result) == op' = [Idle EXCEPT !.result = result]
Enter(kind, k, step) == op' = [Idle EXCEPT !.kind = kind, !.key = k, !.pc = step]
Begin(kind, k, step) == appUp /\ At("idle") /\ Enter(kind, k, step)

\* remove_marker_if_owned on a finalized record
DiscardFiles(i) == Unlink(i) /\ Unpublish(i)

SetPhase(k, p) == phase' = [phase EXCEPT ![k] = IF @ = "none" THEN "none" ELSE p]

\* remove_memory_session
ForgetSession(i) ==
    LET k == key[i] IN
    IF active[k] # None /\ active[k].id = i
    THEN /\ active' = [active EXCEPT ![k] = None]
         /\ phase' = [phase EXCEPT ![k] =
                         IF @ \in {"Running", "Restarting", "Stopping"} THEN "Stopped" ELSE @]
    ELSE UNCHANGED <<active, phase>>

-----------------------------------------------------------------------------
(* stop_verified_supervisor, called on op.id.                              *)

TermSignal ==
    /\ At("term")
    /\ \/ /\ Live(op.id)
          /\ term' = [term EXCEPT ![op.id] = TRUE]
          /\ op' = [op EXCEPT !.pc = "termWait", !.tree = (cmd[op.id] = "run")]
       \/ Return("err") /\ UNCHANGED term
    /\ UNCHANGED <<fileVars, sup, cmd, memVars, envVars>>

\* Mutant: the deadline counts as the end.
TermWaitUnchecked ==
    /\ At("termWait")
    /\ Return("ok")
    /\ UNCHANGED <<fileVars, procVars, memVars, envVars>>

\* The supervisor may outlast the deadline.  Once it is gone, whatever
\* remains of the tree observed before is terminated, if it can be.
TermWait ==
    /\ At("termWait")
    /\ IF Live(op.id) THEN Return("err") /\ UNCHANGED cmd
       ELSE IF op.tree /\ cmd[op.id] = "run"
       THEN \/ cmd' = [cmd EXCEPT ![op.id] = "done"] /\ Return("ok")
            \/ UNCHANGED cmd /\ Return("err")
       ELSE Return("ok") /\ UNCHANGED cmd
    /\ UNCHANGED <<fileVars, sup, term, memVars, envVars>>

-----------------------------------------------------------------------------
(* resolve_pending_session, called on op.id.                               *)

\* One look at marker, control and process; an inconclusive one becomes
\* final when the deadline has passed.
ResolvePending ==
    /\ At("resolve")
    /\ LET i == op.id IN
       IF ~Published(i)
       THEN Goto("cancel") /\ UNCHANGED marker
       ELSE \/ /\ ControlActive(i) /\ Live(i)
               /\ Goto("resolveUpsert") /\ UNCHANGED marker
            \/ /\ ControlActive(i) /\ ~Live(i) /\ PidReuse
               /\ Return("Stale") /\ Unpublish(i)
            \/ /\ ~(ControlActive(i) /\ Live(i))
               /\ Return("Unverified") /\ UNCHANGED marker
    /\ UNCHANGED <<key, store, damaged, linked, cancelled, procVars, memVars, envVars>>

ResolveUpsert ==
    /\ At("resolveUpsert")
    /\ \/ Upsert(op.id, "final") /\ Return("Finalized") /\ UNCHANGED faults
       \/ WriteFails /\ Return("err")
    /\ UNCHANGED <<key, linked, cancelled, marker, procVars, memVars, appUp, registered,
                   updating>>

\* Mutant: the control file is cancelled without its exclusive lock.
CancelPendingUnlocked ==
    /\ At("cancel")
    /\ LET i == op.id IN
       IF ~linked[i] THEN Return("Stale") /\ UNCHANGED cancelled
       ELSE cancelled' = [cancelled EXCEPT ![i] = TRUE] /\ Goto("cancelUnlink")
    /\ UNCHANGED <<key, store, damaged, linked, marker, procVars, memVars, envVars>>

\* Mutant: the exclusive lock is waited for.
CancelPendingWaiting ==
    /\ At("cancel")
    /\ LET i == op.id IN
       IF ~linked[i] THEN Return("Stale") /\ UNCHANGED cancelled
       ELSE /\ ~Gated(i)
            /\ cancelled' = [cancelled EXCEPT ![i] = TRUE] /\ Goto("cancelUnlink")
    /\ UNCHANGED <<key, store, damaged, linked, marker, procVars, memVars, envVars>>

\* cancel_pending_control: exclusive lock, byte 1, unlock; then the unlink.
CancelPending ==
    /\ At("cancel")
    /\ LET i == op.id IN
       IF ~linked[i] THEN Return("Stale") /\ UNCHANGED cancelled
       ELSE IF Gated(i) THEN Return("Unverified") /\ UNCHANGED cancelled
       ELSE cancelled' = [cancelled EXCEPT ![i] = TRUE] /\ Goto("cancelUnlink")
    /\ UNCHANGED <<key, store, damaged, linked, marker, procVars, memVars, envVars>>

CancelUnlink ==
    /\ At("cancelUnlink")
    /\ Unlink(op.id)
    /\ Return("Stale")
    /\ UNCHANGED <<key, store, damaged, cancelled, marker, procVars, memVars, envVars>>

Procedures ==
    TermSignal \/ TermWait \/ ResolvePending \/ ResolveUpsert \/ CancelPending \/ CancelUnlink

-----------------------------------------------------------------------------
(* launch_action for an action of kind Session.                            *)

\* confirm_action; a restart stops the running session first.  The fresh id
\* left for the launch is the bound of the model on launches.
BeginLaunch(k, restart) ==
    /\ ~updating /\ registered[k]
    /\ \E i \in Ids : key[i] = None
    /\ Begin(IF restart THEN "restart" ELSE "launch", k,
             IF restart THEN "stopLookup" ELSE "launchCheck")
    /\ UNCHANGED <<fileVars, procVars, memVars, envVars>>

\* Mutant: the record of the key is dropped unless it is of a live session
\* with a final record.
LaunchCheckPendingDropped ==
    /\ At("launchCheck")
    /\ \/ /\ \E i \in RecordsOf(op.key) : store[i] = "final" /\ Live(i)
          /\ Finish("err") /\ UNCHANGED <<linked, marker>>
       \/ /\ RecordsOf(op.key) = {}
          /\ Goto("launchCreate") /\ UNCHANGED <<linked, marker>>
       \/ \E i \in RecordsOf(op.key) :
                /\ store[i] = "final" => ~Live(i)
                /\ DiscardFiles(i)
                /\ Select(i, "launchDropStale")
    /\ UNCHANGED <<key, store, damaged, cancelled, procVars, memVars, envVars>>

\* The run in memory, then remove_stale_record_for_key.
LaunchCheck ==
    /\ At("launchCheck")
    /\ \/ /\ \/ ~registered[op.key] \/ active[op.key] # None \/ damaged
             \/ \E i \in RecordsOf(op.key) : store[i] = "pending" \/ Live(i)
          /\ Finish("err") /\ UNCHANGED <<linked, marker>>
       \/ /\ registered[op.key] /\ active[op.key] = None /\ ~damaged
          /\ RecordsOf(op.key) = {}
          /\ Goto("launchCreate") /\ UNCHANGED <<linked, marker>>
       \/ /\ registered[op.key] /\ active[op.key] = None
          /\ \E i \in RecordsOf(op.key) :
                /\ store[i] = "final" /\ ~Live(i)
                /\ DiscardFiles(i)
                /\ Select(i, "launchDropStale")
    /\ UNCHANGED <<key, store, damaged, cancelled, procVars, memVars, envVars>>

LaunchDropStale ==
    /\ At("launchDropStale")
    /\ \/ Remove(op.id) /\ Goto("launchCreate") /\ UNCHANGED faults
       \/ WriteFails /\ Finish("err")
    /\ UNCHANGED <<key, linked, cancelled, marker, procVars, memVars, appUp, registered,
                   updating>>

\* create_session_control under a fresh id, with the byte 0.
LaunchCreate ==
    /\ At("launchCreate")
    /\ \E i \in Ids :
          /\ key[i] = None
          /\ key' = [key EXCEPT ![i] = op.key]
          /\ linked' = [linked EXCEPT ![i] = TRUE]
          /\ Select(i, "launchRecord")
    /\ UNCHANGED <<store, damaged, cancelled, marker, procVars, memVars, envVars>>

LaunchRecord ==
    /\ At("launchRecord")
    /\ \/ /\ Upsert(op.id, "pending") /\ Goto("launchSpawn")
          /\ UNCHANGED <<linked, faults>>
       \/ /\ WriteFails /\ Unlink(op.id) /\ Finish("err")
    /\ UNCHANGED <<key, cancelled, marker, procVars, memVars, appUp, registered, updating>>

\* The confirmation is validated again; then the supervisor starts and the
\* application gives up its own shared lock.
LaunchSpawn ==
    /\ At("launchSpawn")
    /\ \/ /\ registered[op.key]
          /\ sup' = [sup EXCEPT ![op.id] = "spawned"]
          /\ Goto("launchAwait")
       \/ Goto("launchAbandon") /\ UNCHANGED sup
    /\ UNCHANGED <<fileVars, term, cmd, memVars, envVars>>

\* Mutant: without a marker the launch is abandoned, its supervisor is not stopped.
LaunchAwaitForsaking ==
    /\ At("launchAwait")
    /\ IF Published(op.id) /\ Live(op.id) THEN Goto("launchFinalize") ELSE Goto("launchAbandon")
    /\ UNCHANGED <<fileVars, procVars, memVars, envVars>>

\* wait_for_session_marker
LaunchAwait ==
    /\ At("launchAwait")
    /\ IF Published(op.id) /\ Live(op.id) THEN Goto("launchFinalize") ELSE Goto("launchAbort")
    /\ UNCHANGED <<fileVars, procVars, memVars, envVars>>

\* Mutant: a launch whose final record was not written is abandoned.
LaunchFinalizeForsaking ==
    /\ At("launchFinalize")
    /\ \/ Upsert(op.id, "final") /\ Goto("launchActivate") /\ UNCHANGED faults
       \/ WriteFails /\ Goto("launchAbandon")
    /\ UNCHANGED <<key, linked, cancelled, marker, procVars, memVars, appUp, registered,
                   updating>>

LaunchFinalize ==
    /\ At("launchFinalize")
    /\ \/ Upsert(op.id, "final") /\ Goto("launchActivate") /\ UNCHANGED faults
       \/ WriteFails /\ Call(op.id, "term", "launchUndo")
    /\ UNCHANGED <<key, linked, cancelled, marker, procVars, memVars, appUp, registered,
                   updating>>

LaunchActivate ==
    /\ At("launchActivate")
    /\ active' = [active EXCEPT ![op.key] = [id |-> op.id, by |-> "launch"]]
    /\ phase' = [phase EXCEPT ![op.key] = "Running"]
    /\ watch' = [watch EXCEPT ![op.id] = "wait"]
    /\ Finish("ok")
    /\ UNCHANGED <<fileVars, procVars, envVars>>

\* The final record was not written: a supervisor that could not be stopped
\* keeps its watcher, the files of one that was stopped are removed.
LaunchUndo ==
    /\ At("launchUndo")
    /\ \/ /\ op.result = "err"
          /\ watch' = [watch EXCEPT ![op.id] = "wait"]
          /\ UNCHANGED <<linked, marker>>
       \/ /\ op.result = "ok"
          /\ DiscardFiles(op.id)
          /\ UNCHANGED watch
    /\ Finish("err")
    /\ UNCHANGED <<key, store, damaged, cancelled, procVars, active, phase, envVars>>

\* No marker in time: stop_launched_supervisor, by SIGKILL if need be.
LaunchAbort ==
    /\ At("launchAbort")
    /\ Call(op.id, "term", "launchKill")
    /\ UNCHANGED <<fileVars, procVars, memVars, envVars>>

LaunchKill ==
    /\ At("launchKill")
    /\ IF Live(op.id) THEN Killed(op.id) ELSE UNCHANGED <<sup, marker, faults>>
    /\ Goto("launchAbandon")
    /\ UNCHANGED <<key, store, damaged, linked, cancelled, term, cmd, memVars, appUp,
                   registered, updating>>

LaunchAbandon ==
    /\ At("launchAbandon")
    /\ \/ Remove(op.id) /\ UNCHANGED faults
       \/ WriteFails
    /\ Goto("launchUnlink")
    /\ UNCHANGED <<key, linked, cancelled, marker, procVars, memVars, appUp, registered,
                   updating>>

LaunchUnlink ==
    /\ At("launchUnlink")
    /\ Unlink(op.id)
    /\ Finish("err")
    /\ UNCHANGED <<key, store, damaged, cancelled, marker, procVars, memVars, envVars>>

LaunchStep ==
    \/ LaunchCheck \/ LaunchDropStale \/ LaunchCreate \/ LaunchRecord \/ LaunchSpawn
    \/ LaunchAwait \/ LaunchFinalize \/ LaunchActivate \/ LaunchUndo \/ LaunchAbort
    \/ LaunchKill \/ LaunchAbandon \/ LaunchUnlink

-----------------------------------------------------------------------------
(* stop_action_inner, for a stop and for the first half of a restart.      *)

BeginStop(k) ==
    /\ registered[k] /\ ~damaged
    /\ Begin("stop", k, "stopLookup")
    /\ UNCHANGED <<fileVars, procVars, memVars, envVars>>

\* confirm_action goes on to launch.
StopSucceeds ==
    IF op.kind = "restart"
    THEN Enter("restart", op.key, "launchCheck")
    ELSE Finish("ok")

StopLookup ==
    /\ At("stopLookup")
    /\ \/ damaged /\ Finish("err") /\ UNCHANGED active
       \/ /\ ~damaged /\ RecordsOf(op.key) = {}
          /\ active' = [active EXCEPT ![op.key] = None]
          /\ StopSucceeds
       \/ \E i \in RecordsOf(op.key) :
             /\ IF store[i] = "pending" THEN Call(i, "resolve", "stopResolved")
                ELSE Select(i, "stopCheck")
             /\ UNCHANGED active
    /\ UNCHANGED <<fileVars, procVars, phase, watch, envVars>>

StopResolved ==
    /\ At("stopResolved")
    /\ \/ /\ op.result = "Finalized" /\ Goto("stopCheck")
          /\ UNCHANGED <<store, damaged, faults, active, phase>>
       \/ /\ op.result = "Stale"
          /\ Remove(op.id)
          /\ active' = [active EXCEPT ![op.key] = None]
          /\ SetPhase(op.key, "Stopped")
          /\ StopSucceeds
          /\ UNCHANGED faults
       \/ /\ op.result = "Stale" /\ WriteFails /\ Finish("err")
          /\ UNCHANGED <<active, phase>>
       \/ /\ op.result \in {"Unverified", "err"} /\ Finish("err")
          /\ UNCHANGED <<store, damaged, faults, active, phase>>
    /\ UNCHANGED <<key, linked, cancelled, marker, procVars, watch, appUp, registered,
                   updating>>

StopCheck ==
    /\ At("stopCheck")
    /\ \/ /\ Validated(op.id)
          /\ SetPhase(op.key, IF op.kind = "restart" THEN "Restarting" ELSE "Stopping")
          /\ Call(op.id, "term", "stopTermed")
          /\ UNCHANGED <<linked, marker>>
       \/ /\ ~Validated(op.id) /\ Live(op.id)
          /\ Finish("err")
          /\ UNCHANGED <<linked, marker, phase>>
       \/ /\ ~Live(op.id)
          /\ DiscardFiles(op.id)
          /\ Goto("stopDiscard")
          /\ UNCHANGED phase
    /\ UNCHANGED <<key, store, damaged, cancelled, procVars, active, watch, envVars>>

StopDiscard ==
    /\ At("stopDiscard")
    /\ \/ Remove(op.id) /\ ForgetSession(op.id) /\ StopSucceeds /\ UNCHANGED faults
       \/ WriteFails /\ Finish("err") /\ UNCHANGED <<active, phase>>
    /\ UNCHANGED <<key, linked, cancelled, marker, procVars, watch, appUp, registered,
                   updating>>

StopTermed ==
    /\ At("stopTermed")
    /\ \/ /\ op.result = "err"
          /\ SetPhase(op.key, "Running")
          /\ Finish("err")
          /\ UNCHANGED <<store, damaged, faults>>
       \/ /\ op.result = "ok" /\ Remove(op.id) /\ Goto("stopFiles")
          /\ UNCHANGED <<faults, phase>>
       \/ /\ op.result = "ok" /\ WriteFails /\ Finish("err")
          /\ UNCHANGED phase
    /\ UNCHANGED <<key, linked, cancelled, marker, procVars, active, watch, appUp,
                   registered, updating>>

StopFiles ==
    /\ At("stopFiles")
    /\ DiscardFiles(op.id)
    /\ active' = [active EXCEPT ![op.key] = None]
    /\ SetPhase(op.key, "Stopped")
    /\ StopSucceeds
    /\ UNCHANGED <<key, store, damaged, cancelled, procVars, watch, envVars>>

StopStep ==
    StopLookup \/ StopResolved \/ StopCheck \/ StopDiscard \/ StopTermed \/ StopFiles

=============================================================================
