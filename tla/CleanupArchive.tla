--------------------------- MODULE CleanupArchive ---------------------------
(***************************************************************************)
(* The cleanup of old Codex sessions.  A preview scans the sessions, which *)
(* exports their usage to the sync ledger, and plans the old ones that the *)
(* cache and the ledger know.  The plan is applied by scanning again,      *)
(* writing its sources to an archive, moving them to quarantine one by     *)
(* one, and deleting them there; a failure moves them back.                *)
(*                                                                         *)
(* Codex and the user work on the same directory meanwhile, the other      *)
(* application on the same cache, and this one may be killed between any   *)
(* two steps.                                                              *)
(***************************************************************************)
EXTENDS Naturals, FiniteSetsExt

CONSTANTS
    MaxFile,     \* the sources are 1 .. MaxFile, in the order of their paths
    MaxArrivals, \* bound on the files that come to lie at a path later
    MaxApplies,  \* bound on the cleanups that are applied
    MaxDamages   \* bound on the archives that are damaged

ASSUME CleanupAssumption ==
    MaxFile \in Nat /\ MaxArrivals \in Nat /\ MaxApplies \in Nat /\ MaxDamages \in Nat

VARIABLES
    home,        \* what lies at the path of a source
    quarantine,  \* what lies in the quarantine directory of a source and a cleanup
    zip,         \* the archive of the cleanup that is applied
    saved,       \* the files that a published archive holds
    cached,      \* what the usage cache has read at the path of a source
    ledger,      \* the contents whose usage is in the sync ledger
    plan,        \* cleanup_plan: what was previewed of each source
    op,          \* the step and the locals of cleanup_preview and cleanup_apply
    result,      \* what the last cleanup reported
    applies, damages, arrivals,
    born,        \* the newest file of each path
    forgone,     \* the files that somebody else gave up, or put where nothing guards them
    late         \* the sources somebody else touched behind the last check of this cleanup

disk == <<home, quarantine, zip, saved>>
usage == <<cached, ledger>>
history == <<applies, damages, arrivals, born, forgone, late>>
vars == <<disk, usage, plan, op, result, history>>

Files == 1 .. MaxFile
Cleanups == 1 .. MaxApplies
Versions == 1 .. MaxArrivals + 1

\* A file, as it was or with more in it; a file that was written to is not
\* old again.
Contents == [file : Versions, more : BOOLEAN]
Nothing == [file |-> 0, more |-> FALSE]
Content(n) == [file |-> n, more |-> FALSE]

\* CodexSessionCleanupFile: the snapshot, and the content whose usage was cached.
Entries == [snapshot : Contents, keys : Contents]
NoEntry == [snapshot |-> Nothing, keys |-> Nothing]
NoPlan == [f \in Files |-> NoEntry]

Steps == {"idle", "scan", "evidence", "validate", "write", "publish", "published",
          "validateAgain", "inspect", "move", "moved", "undo", "undoMove", "inspectMoved",
          "inspectDelete", "verifyDelete", "delete", "rescan", "back", "backVerify", "backMove"}
Results == {"none", "ok", "failed", "rollbackFailed", "partial", "killed"}

NoOp == [pc |-> "idle", applied |-> FALSE, known |-> {}, plan |-> NoPlan, files |-> {},
         toMove |-> {}, held |-> {}, removed |-> {}, restored |-> TRUE, strayed |-> {}]

At(step) == op.pc = step
Goto(step) == op' = [op EXCEPT !.pc = step]

\* cleanup_apply returns; its archive stays for itself.
Ends(as) == op' = NoOp /\ result' = as

\* A source is the file that was planned.
Planned(f) == op.plan[f].snapshot

-----------------------------------------------------------------------------
(* Scan, evidence and plan.                                                *)

\* The usage of a content includes that of what it has grown from.
Usage(f, content) == {<<f, content>>, <<f, Content(content.file)>>}

CachedUsage == UNION {Usage(f, cached[f]) : f \in {g \in Files : cached[g] # Nothing}}

\* A scan caches what it reads, and the cache keeps what is no longer there; what
\* a scan that fails has read, the next one reads again.
Read(seen) ==
    cached' = [f \in Files |-> IF f \in seen /\ home[f] # Nothing THEN home[f] ELSE cached[f]]

\* scan with synchronize: what is cached is exported, unless a source could not
\* be read or the export fails; both are an export_error.
Synchronize == Read(Files) /\ ledger' = ledger \cup CachedUsage'

Preview ==
    /\ At("idle")
    /\ Goto("scan")
    /\ UNCHANGED <<disk, usage, plan, result, history>>

\* The plan is taken, whatever becomes of it.
Apply ==
    /\ At("idle") /\ plan # NoPlan /\ applies < MaxApplies
    /\ plan' = NoPlan /\ applies' = applies + 1
    /\ zip' = "none"
    /\ op' = [NoOp EXCEPT !.pc = "scan", !.applied = TRUE, !.plan = plan,
                          !.files = {f \in Files : plan[f] # NoEntry}]
    /\ result' = "none" /\ late' = {}
    /\ UNCHANGED <<home, quarantine, saved, usage, damages, arrivals, born, forgone>>

\* cleanup_preview fails and leaves the earlier plan, or cleanup_apply does.
ProofsFail == IF op.applied THEN Ends("failed") ELSE op' = NoOp /\ UNCHANGED result

\* Mutant: an export that was skipped or failed is not looked at.
ScanUnchecked ==
    /\ At("scan")
    /\ \E seen \in SUBSET Files :
         Read(seen) /\ ledger' \in {ledger, ledger \cup CachedUsage'}
    /\ op' = [op EXCEPT !.pc = "evidence", !.known = ledger' \cup CachedUsage']
    /\ UNCHANGED <<disk, plan, result, history>>

\* The scan of cleanup_proofs; sync_keys are the events it returns.
Scan ==
    /\ At("scan")
    /\ \/ /\ Synchronize
          /\ op' = [op EXCEPT !.pc = "evidence", !.known = ledger' \cup CachedUsage']
          /\ UNCHANGED result
       \/ ProofsFail /\ UNCHANGED usage
    /\ UNCHANGED <<disk, plan, history>>

\* The snapshot that is taken now, with the usage that is cached now.
Evidence(f) == [snapshot |-> home[f], keys |-> cached[f]]

\* The usage is cached, and was known when the scan ended.
Counted(f) == cached[f] # Nothing /\ Usage(f, cached[f]) \subseteq op.known

\* plan_codex_session_cleanup: the age of what was not written to since is any.
Eligible(f) == home[f] # Nothing /\ ~home[f].more /\ Counted(f)

PlanCleanup ==
    /\ At("evidence") /\ ~op.applied
    /\ \/ \E old \in SUBSET {f \in Files : Eligible(f)} :
            plan' = [f \in Files |-> IF f \in old THEN Evidence(f) ELSE NoEntry]
       \/ UNCHANGED plan
    /\ op' = NoOp
    /\ UNCHANGED <<disk, usage, result, history>>

\* archive_request: validate_current
RequestArchive ==
    /\ At("evidence") /\ op.applied
    /\ \/ /\ \A f \in op.files : Evidence(f) = op.plan[f] /\ Counted(f)
          /\ op' = [op EXCEPT !.pc = "validate", !.known = {}]
          /\ UNCHANGED result
       \/ Ends("failed")
    /\ UNCHANGED <<disk, usage, plan, history>>

-----------------------------------------------------------------------------
(* Archive.                                                                *)

Unchanged == \A f \in op.files : home[f] = Planned(f)

\* validate_sources opens the files that it finds unchanged.
Validate ==
    /\ At("validate")
    /\ \/ Unchanged /\ Goto("write") /\ UNCHANGED result
       \/ Ends("failed")
    /\ UNCHANGED <<disk, usage, plan, history>>

\* write_archive copies through the open files, whatever lies at their paths
\* by now; inspect_exact finds what was written to them.
WriteArchive ==
    /\ At("write")
    /\ \/ /\ \A f \in op.files : home[f] # [Planned(f) EXCEPT !.more = TRUE]
          /\ Goto("publish") /\ UNCHANGED result
       \/ Ends("failed")
    /\ UNCHANGED <<disk, usage, plan, history>>

PlannedFiles == {<<f, Planned(f).file>> : f \in op.files}

\* publish_new may fail after it has linked the archive.
Publish ==
    /\ At("publish")
    /\ \/ /\ zip' = "whole" /\ saved' = saved \cup PlannedFiles
          /\ \/ Goto("published") /\ UNCHANGED result
             \/ Ends("failed")
       \/ Ends("failed") /\ UNCHANGED <<zip, saved>>
    /\ UNCHANGED <<home, quarantine, usage, plan, history>>

ArchiveHolds == zip = "whole"

\* The published archive is inspected, and authorize_removal compares it with
\* the plan.
Authorize ==
    /\ At("published")
    /\ \/ ArchiveHolds /\ Goto("validateAgain") /\ UNCHANGED result
       \/ Ends("failed")
    /\ UNCHANGED <<disk, usage, plan, history>>

-----------------------------------------------------------------------------
(* remove_cleanup_sources.                                                 *)

ValidateAgain ==
    /\ At("validateAgain")
    /\ \/ Unchanged /\ Goto("inspect") /\ UNCHANGED result
       \/ Ends("failed")
    /\ UNCHANGED <<disk, usage, plan, history>>

Inspect ==
    /\ At("inspect")
    /\ \/ /\ ArchiveHolds
          /\ op' = [op EXCEPT !.pc = "move", !.toMove = op.files]
          /\ UNCHANGED result
       \/ Ends("failed")
    /\ UNCHANGED <<disk, usage, plan, history>>

\* quarantine: a new directory and a rename, of whatever lies there.
Move ==
    /\ At("move")
    /\ LET f == Min(op.toMove) IN
         \/ /\ home[f] # Nothing
            /\ quarantine' = [quarantine EXCEPT ![<<f, applies>>] = home[f]]
            /\ home' = [home EXCEPT ![f] = Nothing]
            /\ Goto("moved")
         \/ Goto("back") /\ UNCHANGED <<home, quarantine>>
    /\ UNCHANGED <<zip, saved, usage, plan, result, history>>

\* verify_quarantined: the file that was opened, with the content it had.
Verified(f) == quarantine[<<f, applies>>] = Planned(f)

Moved ==
    /\ At("moved")
    /\ LET f == Min(op.toMove) IN
         \/ /\ Verified(f)
            /\ op' = [op EXCEPT !.pc = IF op.toMove = {f} THEN "inspectMoved" ELSE "move",
                                !.toMove = @ \ {f}, !.held = @ \cup {f}]
         \/ Goto("undo")
    /\ UNCHANGED <<disk, usage, plan, result, history>>

\* A source that is not the one expected is moved back if its path is free,
\* and left in quarantine if not.
Undo ==
    /\ At("undo")
    /\ IF home[Min(op.toMove)] = Nothing THEN Goto("undoMove")
       ELSE op' = [op EXCEPT !.pc = "back", !.strayed = {Min(op.toMove)}]
    /\ UNCHANGED <<disk, usage, plan, result, history>>

MoveBack(f) ==
    /\ home' = [home EXCEPT ![f] = quarantine[<<f, applies>>]]
    /\ quarantine' = [quarantine EXCEPT ![<<f, applies>>] = Nothing]

UndoMove ==
    /\ At("undoMove")
    /\ LET f == Min(op.toMove) IN
         \/ MoveBack(f) /\ Goto("back")
         \/ /\ op' = [op EXCEPT !.pc = "back", !.strayed = {f}]
            /\ UNCHANGED <<home, quarantine>>
    /\ UNCHANGED <<zip, saved, usage, plan, result, history>>

InspectMoved ==
    /\ At("inspectMoved")
    /\ (ArchiveHolds /\ Goto("inspectDelete")) \/ Goto("back")
    /\ UNCHANGED <<disk, usage, plan, result, history>>

\* A deletion that fails: before the first one everything is moved back, after
\* it the rest stays in quarantine and is reported.
DeletionFails ==
    IF op.removed = {} THEN Goto("back") /\ UNCHANGED result ELSE Ends("partial")

\* Mutant: the archive is not looked at again.
InspectDeleteUnseen ==
    /\ At("inspectDelete")
    /\ Goto("verifyDelete")
    /\ UNCHANGED <<disk, usage, plan, result, history>>

InspectDelete ==
    /\ At("inspectDelete")
    /\ \/ ArchiveHolds /\ Goto("verifyDelete") /\ UNCHANGED result
       \/ DeletionFails
    /\ UNCHANGED <<disk, usage, plan, history>>

\* Mutant: the source is not looked at again.
VerifyDeleteUnseen ==
    /\ At("verifyDelete")
    /\ Goto("delete")
    /\ UNCHANGED <<disk, usage, plan, result, history>>

VerifyDelete ==
    /\ At("verifyDelete")
    /\ \/ Verified(Min(op.held)) /\ Goto("delete") /\ UNCHANGED result
       \/ DeletionFails
    /\ UNCHANGED <<disk, usage, plan, history>>

\* delete_exact_file, of whatever lies at the path (Unix).
Delete ==
    /\ At("delete")
    /\ LET f == Min(op.held) IN
         \/ /\ quarantine' = [quarantine EXCEPT ![<<f, applies>>] = Nothing]
            /\ op' = [op EXCEPT !.pc = IF op.held = {f} THEN "rescan" ELSE "inspectDelete",
                                !.held = @ \ {f}, !.removed = @ \cup {f}]
            /\ UNCHANGED result
         \/ DeletionFails /\ UNCHANGED quarantine
    /\ UNCHANGED <<home, zip, saved, usage, plan, history>>

\* The scan that follows may fail, and cleanup_apply with it.
Rescan ==
    /\ At("rescan")
    /\ \/ Synchronize /\ Ends("ok")
       \/ Ends("failed") /\ UNCHANGED usage
    /\ UNCHANGED <<disk, plan, history>>

-----------------------------------------------------------------------------
(* rollback_all, from the last source that was moved to the first.         *)

Last == Max(op.held)

\* Mutant: a source that cannot be moved back is passed over in silence.
SkipSilently == op' = [op EXCEPT !.pc = "back", !.held = @ \ {Last}]

Skip == op' = [op EXCEPT !.pc = "back", !.held = @ \ {Last}, !.restored = FALSE]

Back ==
    /\ At("back")
    /\ IF op.held = {} THEN Ends(IF op.restored THEN "failed" ELSE "rollbackFailed")
       ELSE /\ IF home[Last] = Nothing THEN Goto("backVerify") ELSE Skip
            /\ UNCHANGED result
    /\ UNCHANGED <<disk, usage, plan, history>>

BackVerify ==
    /\ At("backVerify")
    /\ (Verified(Last) /\ Goto("backMove")) \/ Skip
    /\ UNCHANGED <<disk, usage, plan, result, history>>

BackMove ==
    /\ At("backMove")
    /\ \/ MoveBack(Last) /\ op' = [op EXCEPT !.pc = "back", !.held = @ \ {Last}]
       \/ Skip /\ UNCHANGED <<home, quarantine>>
    /\ UNCHANGED <<zip, saved, usage, plan, result, history>>

-----------------------------------------------------------------------------
(* Codex, the user, the other application and the machine.                *)

\* A file in quarantine is checked for the last time, and then deleted; a path
\* is found to be free, and then a file is moved back there.
Deleting(f) == At("delete") /\ f = Min(op.held)
Returning(f) ==
    \/ At("undoMove") /\ f = Min(op.toMove)
    \/ op.pc \in {"backVerify", "backMove"} /\ f = Last

Behind(f, check) == late' = IF check THEN late \cup {f} ELSE late

\* A session that is resumed, by its path or through a file that is open.
Grow(f) ==
    /\ \/ /\ home[f] # Nothing /\ ~home[f].more
          /\ home' = [home EXCEPT ![f].more = TRUE]
          /\ UNCHANGED <<quarantine, late>>
       \/ \E n \in Cleanups :
            /\ quarantine[<<f, n>>] # Nothing /\ ~quarantine[<<f, n>>].more
            /\ quarantine' = [quarantine EXCEPT ![<<f, n>>].more = TRUE]
            /\ Behind(f, n = applies /\ Deleting(f))
            /\ UNCHANGED home
    /\ UNCHANGED <<zip, saved, usage, plan, op, result, applies, damages, arrivals, born, forgone>>

\* A new file at the path, of a session that was moved away or over another
\* one, which is given up; its times may be old.
Arrive(f) ==
    /\ arrivals < MaxArrivals /\ arrivals' = arrivals + 1
    /\ born' = [born EXCEPT ![f] = @ + 1]
    /\ home' = [home EXCEPT ![f] = Content(born[f] + 1)]
    /\ forgone' = forgone \cup (IF home[f] = Nothing THEN {} ELSE {<<f, home[f].file>>})
                          \cup (IF Returning(f) THEN {<<f, born[f] + 1>>} ELSE {})
    /\ Behind(f, Returning(f))
    /\ UNCHANGED <<quarantine, zip, saved, usage, plan, op, result, applies, damages>>

\* A scan of the other application reads a session, and exports it later.  Before
\* the scan of this one it would make no difference, and after the evidence none.
ReadElsewhere(f) ==
    /\ At("evidence")
    /\ Read({f}) /\ cached' # cached
    /\ UNCHANGED <<disk, ledger, plan, op, result, history>>

\* The archive is damaged or replaced: too late for what was removed, and for
\* the source that is removed next once the archive was inspected for it.
DamageArchive ==
    /\ ArchiveHolds /\ ~At("idle") /\ damages < MaxDamages
    /\ zip' = "damaged" /\ saved' = saved \ PlannedFiles
    /\ damages' = damages + 1
    /\ LET gone == op.removed \cup IF op.pc \in {"verifyDelete", "delete"} THEN {Min(op.held)} ELSE {}
       IN forgone' = forgone \cup {<<f, Planned(f).file>> : f \in gone}
    /\ UNCHANGED <<home, quarantine, usage, plan, op, result, applies, arrivals, born, late>>

\* The application ends: plan and operation are forgotten.
Killed ==
    /\ ~At("idle")
    /\ Ends("killed") /\ plan' = NoPlan
    /\ UNCHANGED <<disk, usage, history>>

-----------------------------------------------------------------------------
Init ==
    /\ home = [f \in Files |-> Content(1)]
    /\ quarantine = [d \in Files \X Cleanups |-> Nothing]
    /\ zip = "none" /\ saved = {}
    /\ cached = [f \in Files |-> Nothing] /\ ledger = {}
    /\ plan = NoPlan /\ op = NoOp /\ result = "none"
    /\ applies = 0 /\ damages = 0 /\ arrivals = 0 /\ born = [f \in Files |-> 1]
    /\ forgone = {} /\ late = {}

Next ==
    \/ Preview \/ Apply \/ Scan \/ PlanCleanup \/ RequestArchive
    \/ Validate \/ WriteArchive \/ Publish \/ Authorize
    \/ ValidateAgain \/ Inspect \/ Move \/ Moved \/ Undo \/ UndoMove \/ InspectMoved
    \/ InspectDelete \/ VerifyDelete \/ Delete \/ Rescan
    \/ Back \/ BackVerify \/ BackMove
    \/ \E f \in Files : Grow(f) \/ Arrive(f) \/ ReadElsewhere(f)
    \/ DamageArchive \/ Killed

Spec == Init /\ [][Next]_vars

-----------------------------------------------------------------------------
\* The types of the variables; a source is still to be moved, in quarantine or
\* removed, one of the three.
TypeOK ==
    /\ home \in [Files -> Contents \cup {Nothing}]
    /\ quarantine \in [Files \X Cleanups -> Contents \cup {Nothing}]
    /\ zip \in {"none", "whole", "damaged"}
    /\ saved \subseteq Files \X Versions
    /\ cached \in [Files -> Contents \cup {Nothing}] /\ ledger \subseteq Files \X Contents
    /\ plan \in [Files -> Entries \cup {NoEntry}]
    /\ DOMAIN op = DOMAIN NoOp /\ op.pc \in Steps
    /\ op.toMove \cup op.held \cup op.removed \subseteq op.files
    /\ op.toMove \cap op.held = {} /\ op.held \cap op.removed = {}
    /\ result \in Results
    /\ applies \in 0 .. MaxApplies /\ damages \in 0 .. MaxDamages
    /\ arrivals \in 0 .. MaxArrivals
    /\ born \in [Files -> Versions]
    /\ forgone \subseteq Files \X Versions /\ late \subseteq Files

\* What lies at the path of a source and in its quarantine directories.
Present(f) == {home[f]} \cup {quarantine[<<f, n>>] : n \in Cleanups}

\* Every file is somewhere: at its path, in quarantine or in a published
\* archive, whatever fails, is damaged or is killed at any step.
NothingLost ==
    \A f \in Files : \A n \in 1 .. born[f] :
        \/ \E content \in Present(f) : content.file = n
        \/ <<f, n>> \in saved \/ <<f, n>> \in forgone

\* The usage of what a cleanup has removed is in the sync ledger.
UsageKept == \A f \in op.removed : <<f, Planned(f)>> \in ledger

\* Whatever a cleanup removes, at whatever step it fails or is killed: the
\* content is in an archive and its usage in the sync ledger, although files
\* come and go between scan, evidence, archive and removal.
ArchiveKept == TypeOK /\ NothingLost /\ UsageKept

\* A cleanup destroys nothing but what was planned and archived: what Codex wrote
\* since, and another file at the path, outlast every step of it, unless they
\* came between the last check of that file and the deletion or rename.
OthersSurvive ==
    [][op' # op =>
         \A f \in Files \ late : Present(f) \subseteq Present(f)' \cup {Planned(f), Nothing}]_vars

Returns(as) == op.applied /\ op'.pc = "idle" /\ result' = as

\* What a cleanup reports is true of every source: success, that it is archived
\* and gone; a failure, that none is left in quarantine (but for one that was
\* not the file expected there) and that all or none were removed; a failed
\* rollback, that one is in quarantine; a partial removal, which ones were
\* removed and which are in quarantine.
ReportExact ==
    [][/\ Returns("ok") =>
             \A f \in op.files :
                 /\ home[f].file # Planned(f).file /\ quarantine'[<<f, applies>>] = Nothing
                 /\ <<f, Planned(f).file>> \in saved \cup forgone
       /\ Returns("failed") =>
             /\ \A f \in op.files \ op.strayed : quarantine'[<<f, applies>>] = Nothing
             /\ op.removed \in {{}, op.files}
       /\ Returns("rollbackFailed") => \E f \in op.files : quarantine[<<f, applies>>] # Nothing
       /\ Returns("partial") =>
             /\ op.held \cup op.removed = op.files /\ op.held # {}
             /\ \A f \in op.held : quarantine'[<<f, applies>>] # Nothing
             /\ \A f \in op.removed : quarantine'[<<f, applies>>] = Nothing]_vars

=============================================================================
