----------------------------- MODULE LocalData -----------------------------
(***************************************************************************)
(* The documents on disk.  AtomicJsonFile and DatabaseBindingStore change  *)
(* a document under the lock of its file: read, change, write a temporary  *)
(* file, replace.  Any of these steps may fail or be the last one of its   *)
(* process.  The command line tool registers the processes that use a      *)
(* database container; stop_action of the application stops the container  *)
(* when nobody uses it any more.                                           *)
(***************************************************************************)
EXTENDS Documents, FiniteSets, FiniteSetsExt

CONSTANTS
    Procs,      \* threads and processes that call the stores
    Cleaner,    \* the thread of stop_action
    NoFile,
    Damaged,    \* a file that is not a document
    MaxCalls,   \* bound: calls about one document
    MaxFaults   \* bound: crashes, failed steps and meddling

ASSUME LocalDataAssumption ==
    /\ None \notin Procs \cup {Cleaner} \cup [worktree : Worktrees \cup {None}, managed : BOOLEAN]
    /\ Cleaner \notin Procs
    /\ NoFile \notin Configurations \cup Bindings \cup {Unusable, Damaged}
    /\ Damaged \notin Configurations \cup Bindings \cup {Unusable}

VARIABLES
    windows,
    alive,
    file,       \* per document, the file
    lock,       \* per document, who holds the lock of its file
    call,       \* per process, the call it is in
    answer,
    origin,     \* where an owner runs: a worktree and whether an action started it
    running,    \* containers that run
    clean,      \* the stop_action under way
    claims,     \* registrations that were reported as done and not released since
    used        \* what the bounds count

store == <<file, lock, call, answer>>
vars  == <<windows, alive, store, origin, running, clean, claims, used>>

Idle      == [op |-> None, step |-> "idle", draft |-> None, aside |-> None,
              done |-> FALSE, alone |-> TRUE, notice |-> FALSE]
IdleClean == [step |-> "idle", worktree |-> None, targets |-> {}, safe |-> FALSE, target |-> None]

Init ==
    /\ windows \in BOOLEAN
    /\ alive = {}
    /\ file = [n \in Names |-> NoFile]
          \/ \E i \in Repos, p \in Paths :
                file = [n \in Names |->
                            IF n = "configuration" THEN OldConfiguration(i, p) ELSE NoFile]
    /\ lock = [n \in Names |-> None]
    /\ call = [p \in Procs |-> Idle]
    /\ answer = [p \in Procs |-> None]
    /\ origin = [o \in Owners |-> None]
    /\ running = Containers
    /\ clean = IdleClean
    /\ claims = {}
    /\ used = [configuration |-> 0, bindings |-> 0, faults |-> 0]

Fault == used.faults < MaxFaults /\ used' = [used EXCEPT !.faults = @ + 1]

(***************************************************************************)
(* AtomicJsonFile.                                                         *)
(***************************************************************************)
\* What a reader makes of a file.  A damaged configuration counts as empty;
\* bindings that cannot be read are an error.
Content(n, f) ==
    CASE f = NoFile  -> Empty(n)
      [] f = Damaged -> IF n = "configuration" THEN Empty(n) ELSE Unusable
      [] OTHER       -> f

\* Mutant: the lock of a file does not exclude anybody.
NeverHeld(n) == TRUE

LockFree(n) == lock[n] = None

Held(p) == [n \in Names |-> IF lock[n] = p THEN None ELSE lock[n]]

\* fs::read(..).ok(): a configuration that cannot be read, whatever it is,
\* passes for a damaged one.
Readings(n) ==
    {file[n]} \cup IF n = "configuration" /\ file[n] # NoFile THEN {Damaged} ELSE {}

\* load_checked answers an empty configuration with a notice for a damaged one.
Load(p) ==
    /\ call[p] = Idle /\ used["configuration"] < MaxCalls
    /\ LockFree("configuration")
    /\ \E read \in Readings("configuration") :
          LET doc    == Content("configuration", read)
              unread == IF read = file["configuration"] THEN 0 ELSE 1
          IN  /\ used.faults + unread <= MaxFaults
              /\ used' = [used EXCEPT !["configuration"] = @ + 1, !.faults = @ + unread]
              /\ answer' = [answer EXCEPT ![p] =
                              [ok |-> doc # Unusable, doc |-> doc, notice |-> read = Damaged]]
    /\ UNCHANGED <<windows, alive, file, lock, call, origin, running, clean, claims>>

\* Calls about the registration of one owner in one worktree.
SameUse(op, x) ==
    op \in BindingOps /\ x.worktree = op.worktree /\ x.owner = op.owner

\* database_binding_command takes an owner that is an ancestor of the caller.
Call(p, op) ==
    LET rivals == {q \in Procs : call[q].op \in BindingOps /\ SameUse(op, call[q].op)}
    IN  /\ call[p] = Idle /\ used[Target(op)] < MaxCalls
        /\ op \in BindingOps => op.owner \in alive
        /\ call' = [q \in Procs |->
                      IF q = p THEN [Idle EXCEPT !.op = op, !.step = "lock", !.alone = rivals = {}]
                      ELSE [call[q] EXCEPT !.alone = @ /\ q \notin rivals]]
        /\ answer' = [answer EXCEPT ![p] = None]
        /\ claims' = {c \in claims : ~SameUse(op, c)}
        /\ used' = [used EXCEPT ![Target(op)] = @ + 1]
        /\ UNCHANGED <<windows, alive, file, lock, origin, running, clean>>

\* update_checked, and link and unlink of the bindings, up to the write: a
\* configuration that is damaged or cannot be read is renamed before the change
\* is tried, on an empty one.
Begin(p) ==
    LET op == call[p].op
        n  == Target(op)
    IN  /\ call[p].step = "lock" /\ LockFree(n)
        /\ lock' = [lock EXCEPT ![n] = p]
        /\ \E read \in Readings(n), gone \in SUBSET (Owners \ alive) :
              LET doc    == Content(n, read)
                  rename == n = "configuration" /\ read = Damaged
              IN  /\ IF read = file[n] THEN UNCHANGED used ELSE Fault
                  /\ file' = IF rename THEN [file EXCEPT ![n] = NoFile] ELSE file
                  /\ call' = [call EXCEPT ![p] =
                         IF Permits(op, doc)
                         THEN [@ EXCEPT !.step = "write", !.draft = Apply(op, doc, Owners \ gone),
                                        !.notice = rename]
                         ELSE [@ EXCEPT !.step = "error", !.notice = rename]]
        /\ UNCHANGED <<windows, alive, answer, origin, running, clean, claims>>

\* The lock, the rename of a damaged file, the temporary file or the
\* replacement fails, and the document is as before.
Fail(p) ==
    /\ call[p].step \in {"lock", "write"}
    /\ Fault
    /\ call' = [call EXCEPT ![p].step = "error"]
    /\ UNCHANGED <<windows, alive, file, lock, answer, origin, running, clean, claims>>

\* rename, or ReplaceFileW.
Replace(p) ==
    LET n == Target(call[p].op)
    IN  /\ call[p].step = "write"
        /\ file' = [file EXCEPT ![n] = call[p].draft]
        /\ call' = [call EXCEPT ![p].step = "finish", ![p].done = TRUE]
        /\ UNCHANGED <<windows, alive, lock, answer, origin, running, clean, claims, used>>

\* ReplaceFileW fails after it has moved the document to its backup name.
HalfReplace(p) ==
    LET n == Target(call[p].op)
    IN  /\ call[p].step = "write" /\ windows /\ file[n] # NoFile
        /\ Fault
        /\ file' = [file EXCEPT ![n] = NoFile]
        /\ call' = [call EXCEPT ![p].step = "recover", ![p].aside = file[n]]
        /\ UNCHANGED <<windows, alive, lock, answer, origin, running, clean, claims>>

\* replace_windows_with: the new document is moved into place; if that
\* fails the old one, and if that fails too neither.
Recover(p) ==
    LET n == Target(call[p].op)
    IN  /\ call[p].step = "recover"
        /\ \/ /\ file' = [file EXCEPT ![n] = call[p].draft]
              /\ call' = [call EXCEPT ![p].step = "finish", ![p].aside = None, ![p].done = TRUE]
              /\ UNCHANGED used
           \/ /\ Fault
              /\ file' \in {[file EXCEPT ![n] = call[p].aside], file}
              /\ call' = [call EXCEPT ![p].step = "error", ![p].aside = None]
        /\ UNCHANGED <<windows, alive, lock, answer, origin, running, clean, claims>>

\* The permissions or the synchronisation of the new document fail.
FailLate(p) ==
    /\ call[p].step = "finish"
    /\ Fault
    /\ call' = [call EXCEPT ![p].step = "error"]
    /\ UNCHANGED <<windows, alive, file, lock, answer, origin, running, clean, claims>>

Return(p) ==
    LET op == call[p].op
        ok == call[p].step = "finish"
    IN  /\ call[p].step \in {"finish", "error"}
        /\ answer' = [answer EXCEPT ![p] =
                        [ok |-> ok, doc |-> None, notice |-> ok /\ call[p].notice]]
        /\ lock' = Held(p)
        /\ call' = [call EXCEPT ![p] = Idle]
        /\ claims' = IF op.kind = "link" /\ ok /\ call[p].alone /\ op.owner \in alive
                     THEN claims \cup {Record(op)} ELSE claims
        /\ UNCHANGED <<windows, alive, file, origin, running, clean, used>>

\* The system releases the locks of a process that dies.
Crash(p) ==
    /\ call[p] # Idle
    /\ Fault
    /\ lock' = Held(p)
    /\ call' = [call EXCEPT ![p] = Idle]
    /\ UNCHANGED <<windows, alive, file, answer, origin, running, clean, claims>>

\* Something else than these processes changes a document.
Meddle(n) ==
    /\ LockFree(n)
    /\ Fault
    /\ \E f \in {Damaged, Unusable} : file' = [file EXCEPT ![n] = f]
    /\ UNCHANGED <<windows, alive, lock, call, answer, origin, running, clean, claims>>

(***************************************************************************)
(* Owners and their databases.                                             *)
(***************************************************************************)
Start(o) ==
    /\ origin[o] = None
    /\ alive' = alive \cup {o}
    /\ origin' \in {[origin EXCEPT ![o] = [worktree |-> w, managed |-> m]] :
                       w \in Worktrees \cup {None}, m \in BOOLEAN}
    /\ origin'[o].managed => origin'[o].worktree # None
    /\ UNCHANGED <<windows, store, running, clean, claims, used>>

Exit(o) ==
    /\ o \in alive
    /\ alive' = alive \ {o}
    /\ claims' = {c \in claims : c.owner # o}
    /\ UNCHANGED <<windows, store, origin, running, clean, used>>

Tree(w) == {o \in alive : origin[o].managed /\ origin[o].worktree = w}

\* stop_action up to database_targets: the containers that the processes of
\* the action in w have registered.  The process tree may be unreadable.
StopAction(w) ==
    LET doc == Content("bindings", file["bindings"])
    IN  /\ clean = IdleClean /\ Tree(w) # {} /\ LockFree("bindings")
        /\ \E tree \in {Tree(w), {}} :
              LET registered ==
                    IF doc = Unusable THEN {}
                    ELSE {r.container : r \in {x \in doc.records : x.worktree = w /\ x.owner \in tree}}
              IN  clean' = [IdleClean EXCEPT !.step = "stop", !.worktree = w,
                                             !.targets = registered \cap running]
        /\ UNCHANGED <<windows, alive, store, origin, running, claims, used>>

\* stop_action_inner ends the processes of the action, or fails.
EndAction ==
    /\ clean.step = "stop"
    /\ \/ /\ alive' = alive \ Tree(clean.worktree)
          /\ claims' = {c \in claims : c.owner \notin Tree(clean.worktree)}
          /\ clean' = IF clean.targets = {} THEN IdleClean ELSE [clean EXCEPT !.step = "check"]
       \/ clean' = IdleClean /\ UNCHANGED <<alive, claims>>
    /\ UNCHANGED <<windows, store, origin, running, used>>

\* The safety of cleanup_databases: no action runs and no process has a
\* worktree as its directory.  Only macOS can tell.
CheckIdle ==
    /\ clean.step = "check"
    /\ clean' = [clean EXCEPT !.step = "lock",
                              !.safe = ~windows /\ \A o \in alive : origin[o].worktree = None]
    /\ UNCHANGED <<windows, alive, store, origin, running, claims, used>>

\* with_records holds the lock of the bindings until the last target is done.
LockBindings ==
    /\ clean.step = "lock" /\ LockFree("bindings")
    /\ IF Content("bindings", file["bindings"]) = Unusable
       THEN clean' = IdleClean /\ UNCHANGED lock
       ELSE clean' = [clean EXCEPT !.step = "targets"] /\ lock' = [lock EXCEPT !["bindings"] = Cleaner]
    /\ UNCHANGED <<windows, alive, file, call, answer, origin, running, claims, used>>

\* retention_reason of every record of the container is none: its owner has
\* been released or has verifiably exited.
Unused(c) ==
    \A r \in Content("bindings", file["bindings"]).records :
        r.container = c => r.owner = None \/ r.owner \notin alive

\* A target is kept as well when Docker cannot be read, another container
\* runs, the container is not the expected one or a client is connected.
Decide(c) ==
    /\ clean.step = "targets" /\ c \in clean.targets
    /\ \/ /\ clean.safe /\ Unused(c)
          /\ clean' = [clean EXCEPT !.step = "send", !.target = c, !.targets = @ \ {c}]
       \/ clean' = [clean EXCEPT !.targets = @ \ {c}]
    /\ UNCHANGED <<windows, alive, store, origin, running, claims, used>>

\* docker stop; the container ends at once or when it is ready to.
SendStop ==
    /\ clean.step = "send"
    /\ running' = running \ {clean.target}
    /\ clean' = [clean EXCEPT !.step = "targets", !.target = None]
    /\ UNCHANGED <<windows, alive, store, origin, claims, used>>

EndCleanup ==
    /\ clean.step = "targets" /\ clean.targets = {}
    /\ clean' = IdleClean
    /\ lock' = Held(Cleaner)
    /\ UNCHANGED <<windows, alive, file, call, answer, origin, running, claims, used>>

CrashCleaner ==
    /\ clean # IdleClean
    /\ Fault
    /\ clean' = IdleClean
    /\ lock' = Held(Cleaner)
    /\ UNCHANGED <<windows, alive, file, call, answer, origin, running, claims>>

Next ==
    \/ \E p \in Procs :
          \/ \E op \in ConfigurationOps \cup BindingOps : Call(p, op)
          \/ Load(p) \/ Begin(p) \/ Fail(p) \/ Replace(p) \/ HalfReplace(p)
          \/ Recover(p) \/ FailLate(p) \/ Return(p) \/ Crash(p)
    \/ \E n \in Names : Meddle(n)
    \/ \E o \in Owners : Start(o) \/ Exit(o)
    \/ \E w \in Worktrees : StopAction(w)
    \/ EndAction \/ CheckIdle \/ LockBindings
    \/ \E c \in Containers : Decide(c)
    \/ SendStop \/ EndCleanup \/ CrashCleaner

Spec == Init /\ [][Next]_vars

(***************************************************************************)
(* Properties.                                                             *)
(***************************************************************************)
\* While a replacement is being recovered, its document is in the backup.
Seen(n) ==
    LET p == {q \in Procs : call[q].step = "recover" /\ Target(call[q].op) = n}
    IN  Content(n, IF p = {} THEN file[n] ELSE call[CHOOSE q \in p : TRUE].aside)

\* The stores keep what Registry promises: whatever fails or crashes, no document
\* is seen half written, no call reports a success it has not had, and no update is
\* lost, except where a configuration that cannot be read is set aside, which a
\* successful answer gives notice of, and on Windows.
Abstract == INSTANCE Registry WITH
    value   <- [n \in Names |-> Seen(n)],
    pending <- [p \in Procs |-> [op |-> call[p].op, done |-> call[p].done,
                              notice |-> call[p].notice]]

ImplementsRegistry == Abstract!Spec

\* docker stop is never sent to a container that a live process has
\* registered for itself and not released: "The same file lock excludes
\* cooperating registrations until cleanup finishes."
DatabaseInUseStays ==
    [][\A c \in running \ running' : ~\E k \in claims : k.container = c /\ k.owner \in alive]_vars

=============================================================================
