-------------------------- MODULE SessionSupervisor --------------------------
(***************************************************************************)
(* The supervisor process of a session (macOS) and the thread with which   *)
(* the application waits for it.  A supervisor masks its signals, opens    *)
(* the control file, takes its shared lock and reads the byte, publishes   *)
(* the marker, runs the command in a process group of its own, waits until *)
(* the group is empty, removes the marker and last the control file.       *)
(***************************************************************************)
EXTENDS SessionFiles

SupStep(i, from, to) ==
    /\ sup[i] = from
    /\ sup' = [sup EXCEPT ![i] = to]
    /\ UNCHANGED <<memVars, envVars, op, key, store, damaged, cancelled>>

\* prepare, then ControlFileGuard::open up to the open call: without the
\* file the supervisor exits.
SupOpen(i) ==
    /\ SupStep(i, "spawned", IF linked[i] THEN "opened" ELSE "exited")
    /\ UNCHANGED <<linked, marker, term, cmd>>

\* SIGTERM before prepare has masked it kills the supervisor.
SupTerminatedEarly(i) ==
    /\ term[i]
    /\ SupStep(i, "spawned", "exited")
    /\ UNCHANGED <<linked, marker, term, cmd>>

\* Mutant: the byte is not read under the lock.
SupPassGateUnread(i) ==
    /\ SupStep(i, "opened", "gated")
    /\ UNCHANGED <<linked, marker, term, cmd>>

\* lock_shared, then the byte: 0 passes, 1 drops the guard, which removes
\* the control file.
SupPassGate(i) ==
    /\ ~cancelled[i]
    /\ SupStep(i, "opened", "gated")
    /\ UNCHANGED <<linked, marker, term, cmd>>

SupFindCancelled(i) ==
    /\ cancelled[i]
    /\ SupStep(i, "opened", "exited")
    /\ Unlink(i)
    /\ UNCHANGED <<marker, term, cmd>>

\* SessionMarkerGuard::create: the temporary file, then the link.
SupStageMarker(i) ==
    /\ SupStep(i, "gated", "staged")
    /\ marker' = [marker EXCEPT ![i] = {"tmp"}]
    /\ UNCHANGED <<linked, term, cmd>>

SupPublishMarker(i) ==
    /\ SupStep(i, "staged", "published")
    /\ marker' = [marker EXCEPT ![i] = @ \cup {"json"}]
    /\ UNCHANGED <<linked, term, cmd>>

\* An error in SessionMarkerGuard::create removes both names and drops the
\* control guard.
SupMarkerFails(i) ==
    /\ \E s \in {"gated", "staged", "published"} : SupStep(i, s, "exited")
    /\ marker' = [marker EXCEPT ![i] = {}]
    /\ Unlink(i)
    /\ UNCHANGED <<term, cmd>>

\* The temporary name goes and run spawns the command, or fails to.  A
\* SIGTERM that arrived meanwhile is pending and is forwarded at once.
SupRun(i) ==
    /\ \/ /\ SupStep(i, "published", "running")
          /\ cmd' = [cmd EXCEPT ![i] = "run"]
       \/ /\ SupStep(i, "published", "ending")
          /\ UNCHANGED cmd
    /\ marker' = [marker EXCEPT ![i] = @ \ {"tmp"}]
    /\ UNCHANGED <<linked, term>>

\* The last process of the group ends: by itself, or from the forwarded
\* SIGTERM, or at the latest from the SIGKILL the alarm sends.
CommandEnds(i) ==
    /\ cmd[i] = "run"
    /\ cmd' = [cmd EXCEPT ![i] = "done"]
    /\ UNCHANGED <<fileVars, sup, term, memVars, envVars, op>>

\* wait_for_child returns once the group is empty.
SupReap(i) ==
    /\ cmd[i] = "done"
    /\ SupStep(i, "running", "ending")
    /\ UNCHANGED <<linked, marker, term, cmd>>

SupDropMarker(i) ==
    /\ SupStep(i, "ending", "unmarked")
    /\ Unpublish(i)
    /\ UNCHANGED <<linked, term, cmd>>

SupDropControl(i) ==
    /\ SupStep(i, "unmarked", "exited")
    /\ Unlink(i)
    /\ UNCHANGED <<marker, term, cmd>>

\* What SIGKILL leaves behind: every file, and the command's group.  A
\* supervisor publishing its marker may have removed the temporary name.
Killed(i) ==
    /\ sup' = [sup EXCEPT ![i] = "exited"]
    /\ \/ UNCHANGED marker
       \/ /\ sup[i] = "published"
          /\ marker' = [marker EXCEPT ![i] = {"json"}]
    /\ faults' = [faults EXCEPT !.kill = @ + 1]

SupKill(i) ==
    /\ Live(i)
    /\ faults.kill < MaxKills
    /\ Killed(i)
    /\ UNCHANGED <<key, store, damaged, linked, cancelled, term, cmd, memVars,
                   appUp, registered, updating, op>>

SupervisorStep(i) ==
    \/ SupOpen(i)
    \/ SupTerminatedEarly(i)
    \/ SupPassGate(i)
    \/ SupFindCancelled(i)
    \/ SupStageMarker(i)
    \/ SupPublishMarker(i)
    \/ SupMarkerFails(i)
    \/ SupRun(i)
    \/ SupReap(i)
    \/ SupDropMarker(i)
    \/ SupDropControl(i)

-----------------------------------------------------------------------------
(* The watcher thread: it waits for the child, removes the record, removes *)
(* the files, and ends the run in memory if the run is still its own.      *)

\* reconcile_sessions keeps the memory mutex while it goes over the records.
RecordSteps == {"record", "recordResolved", "recordCheck", "recordStopped"}
MemoryHeld == op.pc \in RecordSteps \/ op.from \in RecordSteps

WatchRemove(i) ==
    /\ watch[i] = "wait"
    /\ ~Live(i)
    /\ \/ Remove(i) /\ UNCHANGED faults
       \/ WriteFails
    /\ watch' = [watch EXCEPT ![i] = "files"]
    /\ UNCHANGED <<key, linked, cancelled, marker, procVars, active, phase,
                   appUp, registered, updating, op>>

\* Mutant: the thread returns after the files.
WatchFilesLast(i) ==
    /\ watch[i] = "files"
    /\ Unpublish(i)
    /\ Unlink(i)
    /\ watch' = [watch EXCEPT ![i] = "none"]
    /\ UNCHANGED <<key, store, damaged, cancelled, procVars, active, phase, envVars, op>>

WatchFiles(i) ==
    /\ watch[i] = "files"
    /\ Unpublish(i)
    /\ Unlink(i)
    /\ watch' = [watch EXCEPT ![i] = "memory"]
    /\ UNCHANGED <<key, store, damaged, cancelled, procVars, active, phase, envVars, op>>

\* Mutant: the run in memory is ended whoever's it is.
WatchMemoryUnchecked(i) ==
    /\ watch[i] = "memory"
    /\ ~MemoryHeld
    /\ watch' = [watch EXCEPT ![i] = "none"]
    /\ active' = [active EXCEPT ![key[i]] = None]
    /\ UNCHANGED <<phase, fileVars, procVars, envVars, op>>

WatchMemory(i) ==
    /\ watch[i] = "memory"
    /\ ~MemoryHeld
    /\ watch' = [watch EXCEPT ![i] = "none"]
    /\ LET k == key[i] IN
       IF active[k] = [id |-> i, by |-> "launch"]
       THEN /\ active' = [active EXCEPT ![k] = None]
            /\ phase' = [phase EXCEPT ![k] =
                            IF @ = "none" THEN "none"
                            ELSE IF @ \in {"Stopping", "Restarting"} THEN "Stopped"
                            ELSE "Finished"]
       ELSE UNCHANGED <<active, phase>>
    /\ UNCHANGED <<fileVars, procVars, envVars, op>>

WatcherStep(i) == WatchRemove(i) \/ WatchFiles(i) \/ WatchMemory(i)

=============================================================================
