---------------------------- MODULE SessionFiles ----------------------------
(***************************************************************************)
(* State shared by the three kinds of process that run a managed action:   *)
(* the desktop application, the supervisor it spawns for every session and *)
(* the command the supervisor runs.  They meet in one private directory:   *)
(*                                                                         *)
(*   action-sessions.json   the records, one per launched session;         *)
(*   <id>.control           one byte, 0 = active and 1 = cancelled, whose  *)
(*                          advisory lock gates the launch;                *)
(*   <id>.json              the marker the supervisor publishes, linked    *)
(*                          from a temporary file.                         *)
(*                                                                         *)
(* A session is named by its UUID, so its files and its process identity   *)
(* (pid and start time) are fresh and are abstracted to the id itself.     *)
(***************************************************************************)
EXTENDS Naturals, FiniteSets

CONSTANTS
    Ids,             \* session UUIDs the application may draw
    Keys,            \* (action, worktree) pairs
    None,            \* no id, no key
    PidReuse,        \* may the pid of a dead supervisor be taken again?
    MaxAppCrashes,   \* bound on crashes of the application
    MaxKills,        \* bound on SIGKILLs and crashes of supervisors
    MaxDamages,      \* bound on damages of the sessions file
    MaxWriteErrors   \* bound on failed writes of the sessions file

ASSUME NoneAssumption == None \notin Ids /\ None \notin Keys
ASSUME BoundsAssumption ==
    /\ PidReuse \in BOOLEAN
    /\ {MaxAppCrashes, MaxKills, MaxDamages, MaxWriteErrors} \subseteq Nat

VARIABLES
    key,         \* the key a session was launched for, None while unused
    store,       \* the records of action-sessions.json
    damaged,     \* the sessions file does not parse
    linked,      \* <id>.control exists
    cancelled,   \* the byte of the control file is 1
    marker,      \* which of the marker's two names exist
    sup,         \* the supervisor of the session
    term,        \* it was sent SIGTERM
    cmd,         \* the process group of the command
    appUp,       \* the application holds the process lease
    active,      \* memory.active_runs
    phase,       \* memory.action_runs, the phase
    watch,       \* the thread started by watch_action
    registered,  \* the action and its worktree are registered and available
    updating,    \* the update_shutdown flag
    op,          \* the operation that holds the action_operation mutex
    faults       \* how many faults of each kind have happened

fileVars == <<key, store, damaged, linked, cancelled, marker>>
procVars == <<sup, term, cmd>>
memVars == <<active, phase, watch>>
envVars == <<appUp, registered, updating, faults>>
vars == <<fileVars, procVars, memVars, envVars, op>>

RecordStates == {"none", "pending", "final"}
SupervisorStates ==
    {"none", "spawned", "opened", "gated", "staged", "published", "running",
     "ending", "unmarked", "exited"}
Phases == {"none", "Pending", "Running", "Restarting", "Stopping", "Stopped", "Finished"}
Runs == [id: Ids, by: {"launch", "adopt"}]

-----------------------------------------------------------------------------
(* What a process can observe.                                             *)

\* process_identity still returns the identity of the supervisor.
Live(i) == sup[i] \notin {"none", "exited"}

\* The supervisor holds the shared lock of its control file.
Gated(i) == sup[i] \in {"gated", "staged", "published", "running", "ending", "unmarked"}

\* The supervisor runs its command, or may still come to: it is past the
\* gate, or it will find the gate open.
CanRun(i) ==
    \/ Gated(i)
    \/ sup[i] = "opened" /\ ~cancelled[i]
    \/ sup[i] = "spawned" /\ ~cancelled[i] /\ linked[i]

\* read_control_identity returns the recorded identity and the byte 0.
ControlActive(i) == linked[i] /\ ~cancelled[i]

Published(i) == "json" \in marker[i]

\* validate_action_session on a finalized record of session i.
Validated(i) == Published(i) /\ Live(i) /\ ControlActive(i)

Recorded(i) == store[i] # "none"
RecordsOf(k) == {i \in Ids : Recorded(i) /\ key[i] = k}

-----------------------------------------------------------------------------
(* Effects on the files.                                                   *)

\* ActionSessionStore::upsert drops every record of the same action and
\* worktree and replaces a damaged document by a fresh one.
Upsert(i, state) ==
    /\ store' = [j \in Ids |-> IF j = i THEN state
                               ELSE IF key[j] = key[i] THEN "none" ELSE store[j]]
    /\ damaged' = FALSE

\* ActionSessionStore::remove; it too replaces a damaged document.
Remove(i) ==
    /\ store' = [store EXCEPT ![i] = "none"]
    /\ damaged' = FALSE

\* A write of the sessions file that fails leaves it as it was.
WriteFails ==
    /\ faults.write < MaxWriteErrors
    /\ faults' = [faults EXCEPT !.write = @ + 1]
    /\ UNCHANGED <<store, damaged>>

\* remove_control_with_identity
Unlink(i) == linked' = [linked EXCEPT ![i] = FALSE]

\* remove_marker_with_identity
Unpublish(i) == marker' = [marker EXCEPT ![i] = @ \ {"json"}]

=============================================================================
