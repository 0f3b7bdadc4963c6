--------------------------- MODULE CleanupProofs ---------------------------
(***************************************************************************)
(* Proofs about CleanupArchive, for any number of sources, cleanups, new   *)
(* files and damaged archives: nothing is lost, what somebody else wrote   *)
(* survives, and what a cleanup reports is true.                           *)
(***************************************************************************)
EXTENDS CleanupArchive, WellFoundedInduction, TLAPS

-----------------------------------------------------------------------------
(* The inductive invariant.                                                *)

Op == [pc : Steps, applied : BOOLEAN, known : SUBSET (Files \X Contents),
       plan : [Files -> Entries \cup {NoEntry}], files : SUBSET Files,
       toMove : SUBSET Files, held : SUBSET Files, removed : SUBSET Files,
       restored : BOOLEAN, strayed : SUBSET Files]

Types ==
    /\ home \in [Files -> Contents \cup {Nothing}]
    /\ quarantine \in [Files \X Cleanups -> Contents \cup {Nothing}]
    /\ zip \in {"none", "whole", "damaged"}
    /\ saved \subseteq Files \X Versions
    /\ cached \in [Files -> Contents \cup {Nothing}] /\ ledger \subseteq Files \X Contents
    /\ plan \in [Files -> Entries \cup {NoEntry}]
    /\ op \in Op /\ result \in Results
    /\ applies \in 0 .. MaxApplies /\ damages \in 0 .. MaxDamages
    /\ arrivals \in 0 .. MaxArrivals
    /\ born \in [Files -> Versions]
    /\ forgone \subseteq Files \X Versions /\ late \subseteq Files

\* No file is newer than the newest of its path, and no path has seen more
\* files than arrived.
AgeInv ==
    \A f \in Files :
        /\ born[f] <= arrivals + 1 /\ home[f].file <= born[f]
        /\ \A n \in Cleanups : quarantine[<<f, n>>].file <= born[f]

\* No file is at two places.
PlaceInv ==
    \A f \in Files : \A n \in Cleanups : quarantine[<<f, n>>] # Nothing =>
        /\ home[f].file # quarantine[<<f, n>>].file
        /\ \A m \in Cleanups \ {n} : quarantine[<<f, m>>].file # quarantine[<<f, n>>].file

\* What is planned was read from its path when it was old.
PlannedInv(entry, f) ==
    entry # NoEntry =>
        entry.snapshot \in Contents /\ ~entry.snapshot.more /\ entry.snapshot.file <= born[f]

PlanInv ==
    /\ \A f \in Files : PlannedInv(plan[f], f) /\ PlannedInv(op.plan[f], f)
    /\ op.files = {f \in Files : op.plan[f] # NoEntry}

Before == {"scan", "evidence", "validate", "write", "publish", "published",
           "validateAgain", "inspect"}
Moves == {"move", "moved", "undo", "undoMove"}
Deletes == {"inspectDelete", "verifyDelete", "delete"}
Backs == {"back", "backVerify", "backMove"}

\* Where the sources of a cleanup are at each of its steps.
OpInv ==
    /\ op.pc = "idle" => op = NoOp
    /\ op.pc \notin {"idle", "scan", "evidence"} => op.applied
    /\ op.applied => op.files # {} /\ applies \in Cleanups
    /\ ~op.applied => op.files = {}
    /\ op.pc \in Before =>
          op.toMove = {} /\ op.held = {} /\ op.removed = {} /\ op.restored /\ op.strayed = {}
    /\ op.pc \in Moves =>
          /\ op.toMove # {} /\ op.toMove \cap op.held = {} /\ op.toMove \cup op.held = op.files
          /\ op.removed = {} /\ op.restored /\ op.strayed = {}
    /\ op.pc = "inspectMoved" =>
          op.toMove = {} /\ op.held = op.files /\ op.removed = {} /\ op.restored /\ op.strayed = {}
    /\ op.pc \in Deletes =>
          /\ op.toMove = {} /\ op.held # {} /\ op.held \cap op.removed = {}
          /\ op.held \cup op.removed = op.files /\ op.restored /\ op.strayed = {}
    /\ op.pc = "rescan" =>
          op.toMove = {} /\ op.held = {} /\ op.removed = op.files /\ op.restored /\ op.strayed = {}
    /\ op.pc \in Backs =>
          /\ op.removed = {} /\ op.toMove \cap op.held = {}
          /\ op.toMove \cup op.held \cup op.strayed \subseteq op.files
          /\ op.held \cap op.strayed = {}
    /\ op.pc \in {"backVerify", "backMove"} => op.held # {}

-----------------------------------------------------------------------------
(* The evidence: what is planned is counted before anything is removed.    *)

Requested == Steps \ {"idle", "scan", "evidence"}

LedgerInv ==
    /\ op.pc = "evidence" =>
          /\ op.known \subseteq ledger
          /\ \A f \in op.files : home[f] = Planned(f) => cached[f] = home[f]
    /\ op.pc \in Requested => \A f \in op.files : <<f, Planned(f)>> \in ledger

-----------------------------------------------------------------------------
(* The quarantine of the cleanup that is applied.                          *)

InTransit(f) == op.pc \in {"moved", "undo", "undoMove"} /\ f = Min(op.toMove)

\* A cleanup gets a directory of its own, with nothing in it.
FreshInv == \A f \in Files : \A n \in Cleanups : n > applies => quarantine[<<f, n>>] = Nothing

\* What is there is known to the cleanup.
KnownInv ==
    op.applied => \A f \in Files : quarantine[<<f, applies>>] # Nothing =>
        f \in op.held \/ f \in op.strayed \/ InTransit(f) \/ ~op.restored

\* A source that was moved is there, one that was removed did not come back.
HeldInv ==
    op.applied =>
        /\ \A f \in op.held : quarantine[<<f, applies>>].file = Planned(f).file
        /\ \A f \in op.removed : home[f].file # Planned(f).file

\* A rollback that failed has left something there.
LeftInv ==
    op.applied /\ ~op.restored =>
        \E f \in op.files \ op.held : quarantine[<<f, applies>>] # Nothing

VerifiedInv == At("delete") => Verified(Min(op.held)) \/ Min(op.held) \in late

\* A path to which a file is moved back is free, or was taken behind the check.
ReturningInv ==
    \A f \in Files : Returning(f) =>
        home[f] = Nothing \/ (f \in late /\ <<f, home[f].file>> \in forgone)

QuarantineInv == FreshInv /\ KnownInv /\ HeldInv /\ LeftInv /\ VerifiedInv /\ ReturningInv

-----------------------------------------------------------------------------
(* The archive.                                                            *)

Validated == Requested \ {"validate"}

IsPresent(f, n) == \E content \in Present(f) : content.file = n

ArchiveInv ==
    /\ zip = "whole" => PlannedFiles \subseteq saved
    /\ op.applied /\ op.pc \in {"scan", "evidence", "validate", "write", "publish"} => zip = "none"
    /\ op.pc \in Validated => \A f \in op.files \ op.removed :
          IsPresent(f, Planned(f).file) \/ <<f, Planned(f).file>> \in forgone
    /\ \A f \in op.removed : <<f, Planned(f).file>> \in saved \cup forgone
    /\ op.pc \in {"verifyDelete", "delete"} =>
          LET f == Min(op.held) IN <<f, Planned(f).file>> \in saved \cup forgone

CleanupInv ==
    /\ AgeInv /\ PlaceInv /\ PlanInv /\ OpInv /\ LedgerInv
    /\ QuarantineInv /\ ArchiveInv /\ NothingLost

-----------------------------------------------------------------------------
(* Sets of sources: the first and the last of them.                        *)

LEMMA SmallestExists ==
  ASSUME NEW S, S \subseteq Nat, S # {}
  PROVE  \E x \in S : \A y \in S : x <= y
<1> DEFINE Less == OpToRel(<, Nat)
<1>1. ASSUME NEW x \in Nat, NEW y \in Nat, <<x, y>> \notin Less
      PROVE  ~(x < y)
  BY <1>1 DEF OpToRel
<1>2. IsWellFoundedOn(Less, Nat)
  BY NatLessThanWellFounded
<1> HIDE DEF Less
<1>3. PICK x \in S : \A y \in S : ~(<<y, x>> \in Less)
  BY <1>2, WFMin
<1>4. ASSUME NEW y \in S
      PROVE  x <= y
  <2>1. x \in Nat /\ y \in Nat
    OBVIOUS
  <2>2. ~(y < x)
    BY <1>1, <1>3, <2>1
  <2>3. QED
    BY <2>1, <2>2
<1>5. QED
  BY <1>4

LEMMA MinIn ==
  ASSUME NEW S, S \subseteq Files, S # {}
  PROVE  Min(S) \in S
<1>1. S \subseteq Nat
  BY CleanupAssumption DEF Files
<1>2. QED
  BY <1>1, SmallestExists DEF Min

LEMMA MaxIn ==
  ASSUME NEW S, S \subseteq Files, S # {}
  PROVE  Max(S) \in S
<1> DEFINE T == {MaxFile - x : x \in S}
<1>1. MaxFile \in Nat /\ \A x \in S : x \in Nat /\ x <= MaxFile
  BY CleanupAssumption DEF Files
<1>2. T # {} /\ T \subseteq Nat
  <2>1. \A x \in S : MaxFile - x \in Nat
    BY <1>1
  <2>2. QED
    BY <2>1
<1> HIDE DEF T
<1>3. PICK m \in T : \A y \in T : m <= y
  BY <1>2, SmallestExists
<1>4. PICK x \in S : m = MaxFile - x
  BY <1>3 DEF T
<1>5. \A y \in S : MaxFile - y \in T
  BY DEF T
<1>6. \A y \in S : x >= y
  BY <1>1, <1>3, <1>4, <1>5
<1>7. QED
  BY <1>6 DEF Max

-----------------------------------------------------------------------------
(* Contents, and the locals of a cleanup.                                  *)

LEMMA Things ==
  /\ Nothing.file = 0 /\ ~Nothing.more /\ Nothing \notin Contents
  /\ \A c \in Contents : c.file \in Versions /\ c.file # 0 /\ c # Nothing
  /\ \A n \in Versions : Content(n) \in Contents /\ Content(n).file = n /\ ~Content(n).more
  /\ \A n \in Versions : n \in Nat /\ n > 0
  /\ \A c \in Contents : /\ [c EXCEPT !.more = TRUE] \in Contents
                         /\ [c EXCEPT !.more = TRUE].file = c.file
                         /\ [c EXCEPT !.more = TRUE].more
<1>1. \A n \in Versions : n \in Nat /\ n > 0
  BY CleanupAssumption DEF Versions
<1>2. Nothing.file = 0 /\ ~Nothing.more
  BY DEF Nothing
<1>3. \A c \in Contents : c.file \in Versions
  BY DEF Contents
<1>4. \A n \in Versions : Content(n) \in Contents /\ Content(n).file = n /\ ~Content(n).more
  BY DEF Contents, Content
<1>5. \A c \in Contents : /\ [c EXCEPT !.more = TRUE] \in Contents
                          /\ [c EXCEPT !.more = TRUE].file = c.file
                          /\ [c EXCEPT !.more = TRUE].more
  BY DEF Contents
<1>6. QED
  BY <1>1, <1>2, <1>3, <1>4, <1>5

\* A step of the operation that keeps its plan.
Stepped(pc, toMove, held, removed, restored, strayed) ==
    /\ op' \in Op
    /\ op'.pc = pc /\ op'.toMove = toMove /\ op'.held = held /\ op'.removed = removed
    /\ op'.restored = restored /\ op'.strayed = strayed
    /\ op'.applied = op.applied /\ op'.plan = op.plan /\ op'.files = op.files

LEMMA GotoStep ==
  ASSUME op \in Op, NEW step \in Steps, Goto(step)
  PROVE  Stepped(step, op.toMove, op.held, op.removed, op.restored, op.strayed)
  BY DEF Goto, Stepped, Op

LEMMA IdleOp ==
  /\ NoOp \in Op /\ NoOp.pc = "idle" /\ ~NoOp.applied /\ NoOp.plan = NoPlan
  /\ NoOp.files = {} /\ NoOp.toMove = {} /\ NoOp.held = {} /\ NoOp.removed = {}
  /\ NoOp.restored /\ NoOp.strayed = {} /\ NoOp.known = {}
<1>1. NoPlan \in [Files -> Entries \cup {NoEntry}]
  BY DEF NoPlan
<1>2. QED
  BY <1>1 DEF NoOp, Op, Steps

LEMMA TypesInit == Init => Types
<1> SUFFICES ASSUME Init PROVE Types
  OBVIOUS
<1>1. 1 \in Versions
  BY CleanupAssumption DEF Versions
<1>2. plan \in [Files -> Entries \cup {NoEntry}]
  BY DEF Init, NoPlan
<1>3. 0 \in 0 .. MaxApplies /\ 0 \in 0 .. MaxDamages /\ 0 \in 0 .. MaxArrivals
  BY CleanupAssumption
<1>4. QED
  BY <1>1, <1>2, <1>3, Things, IdleOp DEF Init, Types, Results


-----------------------------------------------------------------------------
(* Steps that leave the disk alone.                                        *)

Inv == Types /\ CleanupInv

\* The plan that is applied stays.
Keeps ==
    /\ op' \in Op
    /\ op'.applied = op.applied /\ op'.plan = op.plan /\ op'.files = op.files

LEMMA TypesQuiet ==
  ASSUME Types, UNCHANGED <<home, quarantine, history>>, op' \in Op, result' \in Results,
         zip' \in {"none", "whole", "damaged"}, saved' \subseteq Files \X Versions,
         plan' \in [Files -> Entries \cup {NoEntry}],
         cached' \in [Files -> Contents \cup {Nothing}], ledger' \subseteq Files \X Contents
  PROVE  Types'
  BY DEF Types, history

\* A cleanup or a preview that ends leaves what was true of the disk.
LEMMA EndedAfter ==
  ASSUME Inv, UNCHANGED <<home, quarantine, history>>, op' = NoOp, result' \in Results,
         zip' \in {"none", "whole", "damaged"}, saved' \subseteq Files \X Versions,
         saved \subseteq saved',
         plan' \in [Files -> Entries \cup {NoEntry}],
         \A f \in Files : PlannedInv(plan'[f], f),
         cached' \in [Files -> Contents \cup {Nothing}], ledger' \subseteq Files \X Contents
  PROVE  Inv'
<1> USE IdleOp
<1>1. Types'
  BY TypesQuiet DEF Inv
<1>2. AgeInv' /\ PlaceInv'
  BY DEF Inv, CleanupInv, AgeInv, PlaceInv, history
<1>3. PlanInv'
  <2>1. \A f \in Files : NoPlan[f] = NoEntry
    BY DEF NoPlan
  <2>2. QED
    BY <2>1 DEF PlanInv, PlannedInv, history
<1>4. OpInv'
  BY DEF OpInv, Before, Moves, Deletes, Backs
<1>5. LedgerInv'
  BY DEF LedgerInv, Requested
<1>6. QuarantineInv'
  BY DEF Inv, CleanupInv, QuarantineInv, FreshInv, KnownInv, HeldInv, LeftInv, VerifiedInv,
     ReturningInv, Returning, At, history
<1>7. ArchiveInv'
  BY DEF ArchiveInv, PlannedFiles, Validated, Requested
<1>8. NothingLost'
  <2>1. born' = born /\ saved \subseteq saved' /\ forgone' = forgone
    BY DEF history
  <2>2. \A f : Present(f)' = Present(f)
    BY DEF Present
  <2>3. NothingLost
    BY DEF Inv, CleanupInv
  <2>4. QED
    BY <2>1, <2>2, <2>3 DEF NothingLost
<1>9. QED
  BY <1>1, <1>2, <1>3, <1>4, <1>5, <1>6, <1>7, <1>8 DEF Inv, CleanupInv

LEMMA Ended ==
  ASSUME Inv, UNCHANGED <<disk, history>>, op' = NoOp, result' \in Results,
         plan' \in [Files -> Entries \cup {NoEntry}],
         \A f \in Files : PlannedInv(plan'[f], f),
         cached' \in [Files -> Contents \cup {Nothing}], ledger' \subseteq Files \X Contents
  PROVE  Inv'
<1>1. /\ UNCHANGED <<home, quarantine, history>>
      /\ zip' \in {"none", "whole", "damaged"} /\ saved' \subseteq Files \X Versions
      /\ saved \subseteq saved'
  BY DEF Inv, Types, disk
<1>2. QED
  BY <1>1, EndedAfter

LEMMA Failed ==
  ASSUME Inv, UNCHANGED <<disk, usage, plan, history>>, NEW as \in Results, Ends(as)
  PROVE  Inv'
  BY Ended DEF Ends, Inv, Types, CleanupInv, PlanInv, usage

\* A step that leaves the files and the plans alone.
LEMMA Quiet ==
  ASSUME Inv, UNCHANGED <<disk, plan, history>>, Keeps, result' \in Results,
         cached' \in [Files -> Contents \cup {Nothing}], ledger' \subseteq Files \X Contents
  PROVE  Types' /\ AgeInv' /\ PlaceInv' /\ PlanInv' /\ NothingLost'
<1>1. Types'
  BY TypesQuiet DEF Inv, Types, Keeps, disk
<1>2. AgeInv' /\ PlaceInv'
  BY DEF Inv, CleanupInv, AgeInv, PlaceInv, disk, history
<1>3. PlanInv'
  BY DEF Inv, CleanupInv, PlanInv, PlannedInv, Keeps, history
<1>4. NothingLost'
  BY DEF Inv, CleanupInv, NothingLost, Present, disk, history
<1>5. QED
  BY <1>1, <1>2, <1>3, <1>4

\* What was found in the ledger stays there.
LEMMA QuietLedger ==
  ASSUME Inv, UNCHANGED <<disk, usage, plan, history>>, Keeps, result' \in Results,
         op'.pc # "evidence", op'.pc \in Requested => op.pc \in Requested
  PROVE  Types' /\ AgeInv' /\ PlaceInv' /\ PlanInv' /\ NothingLost' /\ LedgerInv'
<1>1. Types' /\ AgeInv' /\ PlaceInv' /\ PlanInv' /\ NothingLost'
  BY Quiet DEF Inv, Types, usage
<1>2. LedgerInv'
  BY DEF Inv, CleanupInv, LedgerInv, Keeps, Planned, usage
<1>3. QED
  BY <1>1, <1>2

\* Before the first source is moved, none is on its way.
LEMMA BeforeMoving ==
  ASSUME Inv, UNCHANGED <<disk, history>>, NEW step \in Before,
         op.pc \in Before \cup {"idle"}, step # "scan" => op.applied,
         Stepped(step, {}, {}, {}, TRUE, {})
  PROVE  Keeps /\ OpInv' /\ QuarantineInv'
<1> USE DEF Before
<1>1. Keeps
  BY DEF Keeps, Stepped
<1>2. op.removed = {} /\ op.held = {} /\ op.strayed = {} /\ op.restored
  BY IdleOp DEF Inv, CleanupInv, OpInv
<1>3. OpInv'
  BY DEF Inv, CleanupInv, OpInv, Stepped, Moves, Deletes, Backs, history
<1>4. QuarantineInv'
  BY <1>2 DEF Inv, CleanupInv, QuarantineInv, FreshInv, KnownInv, HeldInv, LeftInv, VerifiedInv,
     ReturningInv, Stepped, Returning, At, InTransit, Planned, disk, history
<1>5. QED
  BY <1>1, <1>3, <1>4

\* What the archive holds is kept, and with it the files that were removed.
LEMMA QuietArchive ==
  ASSUME Inv, UNCHANGED <<disk, history>>, Keeps, op'.removed = op.removed,
         op'.pc \in {"scan", "evidence", "validate", "write", "publish"} => zip = "none",
         op'.pc \in Validated => op.pc \in Validated,
         op'.pc \in {"verifyDelete", "delete"} =>
            LET f == Min(op'.held) IN <<f, Planned(f).file>> \in saved \cup forgone
  PROVE  ArchiveInv'
<1>1. \A f : Planned(f)' = Planned(f)
  BY DEF Planned, Keeps
<1>2. PlannedFiles' = PlannedFiles
  BY <1>1 DEF PlannedFiles, Keeps
<1>3. \A f, n : IsPresent(f, n)' = IsPresent(f, n)
  BY DEF IsPresent, Present, disk
<1>4. saved' = saved /\ forgone' = forgone /\ zip' = zip
  BY DEF disk, history
<1>5. (zip = "whole" => PlannedFiles \subseteq saved)'
  BY <1>2, <1>4 DEF Inv, CleanupInv, ArchiveInv
<1>6. (op.pc \in Validated => \A f \in op.files \ op.removed :
          IsPresent(f, Planned(f).file) \/ <<f, Planned(f).file>> \in forgone)'
  BY <1>1, <1>3, <1>4 DEF Inv, CleanupInv, ArchiveInv, Keeps, Validated, Requested
<1>7. (\A f \in op.removed : <<f, Planned(f).file>> \in saved \cup forgone)'
  BY <1>1, <1>4 DEF Inv, CleanupInv, ArchiveInv
<1>8. QED
  BY <1>1, <1>4, <1>5, <1>6, <1>7 DEF ArchiveInv

LEMMA InvInit == Init => Inv
<1> SUFFICES ASSUME Init PROVE Inv
  OBVIOUS
<1> USE IdleOp, Things
<1>1. Types
  BY TypesInit
<1>2. 1 \in Versions /\ \A f \in Files : born[f] = 1 /\ home[f].file = 1
  BY CleanupAssumption DEF Init, Versions
<1>3. \A f \in Files : \A n \in Cleanups : quarantine[<<f, n>>] = Nothing
  BY DEF Init
<1>4. AgeInv /\ PlaceInv
  BY <1>2, <1>3 DEF AgeInv, PlaceInv, Init
<1>5. PlanInv
  <2>1. \A f \in Files : NoPlan[f] = NoEntry
    BY DEF NoPlan
  <2>2. QED
    BY <2>1 DEF Init, PlanInv, PlannedInv
<1>6. OpInv
  BY DEF Init, OpInv, Before, Moves, Deletes, Backs
<1>7. LedgerInv
  BY DEF Init, LedgerInv, Requested
<1>8. QuarantineInv
  BY <1>3 DEF Init, QuarantineInv, FreshInv, KnownInv, HeldInv, LeftInv, VerifiedInv,
     ReturningInv, Returning, At
<1>9. ArchiveInv
  BY DEF Init, ArchiveInv, PlannedFiles, Validated, Requested
<1>10. NothingLost
  <2>1. \A f \in Files : \A n \in 1 .. born[f] : n = 1
    BY <1>2
  <2>2. QED
    BY <1>2, <2>1 DEF NothingLost, Present
<1>11. QED
  BY <1>1, <1>4, <1>5, <1>6, <1>7, <1>8, <1>9, <1>10 DEF Inv, CleanupInv


-----------------------------------------------------------------------------
(* Scan, evidence and plan.                                                *)

LEMMA PreviewStep ==
  ASSUME Inv, Preview
  PROVE  Inv'
<1> USE DEF Preview, At
<1>1. Stepped("scan", {}, {}, {}, TRUE, {}) /\ op = NoOp
  <2>1. op \in Op /\ "scan" \in Steps
    BY DEF Inv, Types, Steps
  <2>2. op = NoOp
    BY DEF Inv, CleanupInv, OpInv
  <2>3. Stepped("scan", op.toMove, op.held, op.removed, op.restored, op.strayed)
    BY <2>1, GotoStep
  <2>4. QED
    BY <2>2, <2>3, IdleOp
<1>2. Keeps /\ OpInv' /\ QuarantineInv'
  BY <1>1, BeforeMoving DEF Before
<1>3. Types' /\ AgeInv' /\ PlaceInv' /\ PlanInv' /\ NothingLost' /\ LedgerInv'
  BY <1>1, <1>2, QuietLedger DEF Inv, Types, Stepped, Requested
<1>4. ArchiveInv'
  BY <1>1, IdleOp DEF Stepped, ArchiveInv, PlannedFiles, Validated, Requested
<1>5. QED
  BY <1>2, <1>3, <1>4 DEF Inv, CleanupInv

\* What a scan leaves in the cache and exports.
LEMMA ReadTypes ==
  ASSUME Types, NEW seen, Read(seen)
  PROVE  cached' \in [Files -> Contents \cup {Nothing}]
  BY DEF Types, Read

LEMMA CachedUsageTypes ==
  ASSUME NEW c \in [Files -> Contents \cup {Nothing}]
  PROVE  UNION {Usage(f, c[f]) : f \in {g \in Files : c[g] # Nothing}} \subseteq Files \X Contents
<1>1. ASSUME NEW f \in Files, c[f] # Nothing
      PROVE  Usage(f, c[f]) \subseteq Files \X Contents
  <2>1. c[f] \in Contents
    BY <1>1
  <2>2. Content(c[f].file) \in Contents
    BY <2>1, Things
  <2>3. QED
    BY <2>1, <2>2 DEF Usage
<1>2. QED
  BY <1>1

LEMMA SynchronizeTypes ==
  ASSUME Types, Synchronize
  PROVE  /\ cached' \in [Files -> Contents \cup {Nothing}]
         /\ CachedUsage' \subseteq Files \X Contents /\ ledger' \subseteq Files \X Contents
         /\ ledger \subseteq ledger' /\ CachedUsage' \subseteq ledger'
<1>1. cached' \in [Files -> Contents \cup {Nothing}]
  BY ReadTypes DEF Synchronize
<1>2. CachedUsage' \subseteq Files \X Contents
  BY <1>1, CachedUsageTypes DEF CachedUsage
<1>3. QED
  BY <1>1, <1>2 DEF Synchronize, Types

LEMMA ScanStep ==
  ASSUME Inv, Scan
  PROVE  Inv'
<1> USE DEF Scan, At
<1>1. CASE ProofsFail /\ UNCHANGED usage
  BY <1>1, Ended DEF ProofsFail, Ends, Inv, Types, Results, CleanupInv, PlanInv, PlannedInv, usage
<1>2. CASE /\ Synchronize
           /\ op' = [op EXCEPT !.pc = "evidence", !.known = ledger' \cup CachedUsage']
           /\ UNCHANGED result
  <2>1. /\ cached' \in [Files -> Contents \cup {Nothing}]
        /\ CachedUsage' \subseteq Files \X Contents /\ ledger' \subseteq Files \X Contents
        /\ ledger \subseteq ledger' /\ CachedUsage' \subseteq ledger'
    BY <1>2, SynchronizeTypes DEF Inv
  <2>2. /\ Stepped("evidence", {}, {}, {}, TRUE, {})
        /\ op'.known = ledger' \cup CachedUsage'
    <3>1. op \in Op /\ op.toMove = {} /\ op.held = {} /\ op.removed = {} /\ op.restored /\ op.strayed = {}
      BY DEF Inv, Types, CleanupInv, OpInv, Before
    <3>2. QED
      BY <1>2, <2>1, <3>1 DEF Stepped, Op, Steps
  <2>3. Keeps
    BY <2>2 DEF Stepped, Keeps
  <2>4. OpInv' /\ QuarantineInv'
    <3>1. UNCHANGED <<disk, history>>
      OBVIOUS
    <3>2. OpInv'
      BY <2>2, <3>1 DEF Inv, CleanupInv, OpInv, Stepped, Before, Moves, Deletes, Backs, history
    <3>3. op.held = {} /\ op.strayed = {} /\ op.restored
      BY DEF Inv, CleanupInv, OpInv, Before
    <3>4. QuarantineInv'
      BY <2>2, <3>1, <3>3 DEF Inv, CleanupInv, QuarantineInv, FreshInv, KnownInv, HeldInv, LeftInv, VerifiedInv,
     ReturningInv, Stepped, Returning, InTransit, Planned,
        disk, history
    <3>5. QED
      BY <3>2, <3>4
  <2>5. Types' /\ AgeInv' /\ PlaceInv' /\ PlanInv' /\ NothingLost'
    BY <1>2, <2>1, <2>3, Quiet DEF Inv, Types
  <2>6. LedgerInv'
    <3>1. ASSUME NEW f \in op.files, home[f] = Planned(f)
          PROVE  cached'[f] = home[f]
      <4>1. f \in Files /\ home[f] # Nothing
        BY <3>1, Things DEF Inv, Types, Op, CleanupInv, PlanInv, PlannedInv, Planned
      <4>2. QED
        BY <1>2, <4>1 DEF Synchronize, Read
    <3>2. QED
      BY <2>1, <2>2, <3>1 DEF LedgerInv, Stepped, Planned, Requested, disk
  <2>7. ArchiveInv'
    BY <2>2 DEF Inv, CleanupInv, OpInv, Before, ArchiveInv, Stepped, PlannedFiles, Planned, Validated,
       Requested, disk, history
  <2>8. QED
    BY <2>4, <2>5, <2>6, <2>7 DEF Inv, CleanupInv
<1>3. QED
  BY <1>1, <1>2

LEMMA PlanStep ==
  ASSUME Inv, PlanCleanup
  PROVE  Inv'
<1>1. plan' \in [Files -> Entries \cup {NoEntry}] /\ \A f \in Files : PlannedInv(plan'[f], f)
  <2>1. CASE UNCHANGED plan
    BY <2>1 DEF Inv, Types, CleanupInv, PlanInv
  <2>2. ASSUME NEW old \in SUBSET {f \in Files : Eligible(f)},
               plan' = [f \in Files |-> IF f \in old THEN Evidence(f) ELSE NoEntry]
        PROVE  plan' \in [Files -> Entries \cup {NoEntry}] /\ \A f \in Files : PlannedInv(plan'[f], f)
    <3>1. ASSUME NEW f \in old
          PROVE  Evidence(f) \in Entries /\ PlannedInv(Evidence(f), f)
      <4>1. f \in Files /\ home[f] \in Contents /\ ~home[f].more /\ cached[f] \in Contents
        BY DEF Eligible, Counted, Inv, Types
      <4>2. QED
        BY <4>1 DEF Evidence, Entries, PlannedInv, Inv, CleanupInv, AgeInv
    <3>2. QED
      BY <2>2, <3>1 DEF PlannedInv
  <2>3. QED
    BY <2>1, <2>2 DEF PlanCleanup
<1>2. QED
  BY <1>1, Ended DEF PlanCleanup, Inv, Types, usage

LEMMA RequestStep ==
  ASSUME Inv, RequestArchive
  PROVE  Inv'
<1> USE DEF RequestArchive, At
<1>1. CASE Ends("failed")
  BY <1>1, Ended DEF Ends, Inv, Types, Results, CleanupInv, PlanInv, usage
<1>2. CASE /\ \A f \in op.files : Evidence(f) = op.plan[f] /\ Counted(f)
           /\ op' = [op EXCEPT !.pc = "validate", !.known = {}]
           /\ UNCHANGED result
  <2>1. Stepped("validate", {}, {}, {}, TRUE, {})
    <3>1. op \in Op /\ op.toMove = {} /\ op.held = {} /\ op.removed = {} /\ op.restored /\ op.strayed = {}
      BY DEF Inv, Types, CleanupInv, OpInv, Before
    <3>2. QED
      BY <1>2, <3>1 DEF Stepped, Op, Steps
  <2>2. Keeps /\ OpInv' /\ QuarantineInv'
    BY <2>1, BeforeMoving DEF Before
  <2>3. Types' /\ AgeInv' /\ PlaceInv' /\ PlanInv' /\ NothingLost'
    BY <1>2, <2>2, Quiet DEF Inv, Types, usage
  <2>4. LedgerInv'
    <3>1. ASSUME NEW f \in op.files
          PROVE  <<f, Planned(f)>> \in ledger
      <4>1. home[f] = Planned(f)
        <5>1. Evidence(f) = op.plan[f] /\ Evidence(f).snapshot = home[f]
          BY <1>2 DEF Evidence
        <5>2. QED
          BY <5>1 DEF Planned
      <4>2. cached[f] = Planned(f) /\ op.known \subseteq ledger
        BY <4>1 DEF Inv, CleanupInv, LedgerInv
      <4>3. <<f, Planned(f)>> \in op.known
        BY <1>2, <4>2 DEF Counted, Usage
      <4>4. QED
        BY <4>2, <4>3
    <3>2. QED
      BY <2>1, <3>1 DEF LedgerInv, Stepped, Planned, usage
  <2>5. ArchiveInv'
    BY <2>1 DEF Inv, CleanupInv, OpInv, Before, ArchiveInv, Stepped, PlannedFiles, Planned, Validated,
       Requested, disk, history
  <2>6. QED
    BY <2>2, <2>3, <2>4, <2>5 DEF Inv, CleanupInv
<1>3. QED
  BY <1>1, <1>2


-----------------------------------------------------------------------------
(* Archive.                                                                *)

\* A step from one of the named steps before the first move to the next.
LEMMA ForwardStep ==
  ASSUME Inv, UNCHANGED <<disk, usage, plan, history>>,
         op.pc \in Before \ {"scan", "evidence"}, NEW step \in Before \ {"scan", "evidence"},
         Goto(step), result' \in Results
  PROVE  /\ Stepped(step, {}, {}, {}, TRUE, {})
         /\ OpInv' /\ QuarantineInv' /\ LedgerInv'
         /\ Types' /\ AgeInv' /\ PlaceInv' /\ PlanInv' /\ NothingLost'
         /\ op.pc # "validate" /\ step \notin {"validate", "write"} /\ (step = "publish" => op.pc = "write")
               => ArchiveInv'
<1> USE DEF Before
<1>1. Stepped(step, {}, {}, {}, TRUE, {})
  BY GotoStep DEF Inv, Types, CleanupInv, OpInv, Steps
<1>2. op.applied
  BY DEF Inv, CleanupInv, OpInv
<1>3. Keeps /\ OpInv' /\ QuarantineInv'
  BY <1>1, <1>2, BeforeMoving
<1>4. op'.pc = step
  BY <1>1 DEF Stepped
<1>5. Types' /\ AgeInv' /\ PlaceInv' /\ PlanInv' /\ NothingLost' /\ LedgerInv'
  BY <1>3, <1>4, QuietLedger DEF Requested, Steps
<1>6. ASSUME op.pc # "validate", step \notin {"validate", "write"}, step = "publish" => op.pc = "write"
      PROVE  ArchiveInv'
  <2>1. op.pc \in Validated /\ op'.pc \notin {"verifyDelete", "delete"} /\ op'.removed = op.removed
    BY <1>1, <1>4, <1>6 DEF Validated, Requested, Steps, Stepped, Inv, CleanupInv, OpInv
  <2>2. op'.pc \in {"scan", "evidence", "validate", "write", "publish"} => zip = "none"
    BY <1>2, <1>4, <1>6 DEF Inv, CleanupInv, ArchiveInv
  <2>3. QED
    BY <1>3, <2>1, <2>2, QuietArchive
<1>7. QED
  BY <1>1, <1>3, <1>5, <1>6

LEMMA UnchangedIsPresent ==
  ASSUME Unchanged, NEW f \in op.files
  PROVE  IsPresent(f, Planned(f).file)
  BY DEF Unchanged, IsPresent, Present

LEMMA ValidateStep ==
  ASSUME Inv, Validate
  PROVE  Inv'
<1> USE DEF Validate, At
<1>1. CASE Ends("failed")
  BY <1>1, Failed DEF Results
<1>2. CASE Unchanged /\ Goto("write") /\ UNCHANGED result
  <2>1. /\ Stepped("write", {}, {}, {}, TRUE, {})
        /\ OpInv' /\ QuarantineInv' /\ LedgerInv'
        /\ Types' /\ AgeInv' /\ PlaceInv' /\ PlanInv' /\ NothingLost'
    BY <1>2, ForwardStep DEF Inv, Types, Before
  <2>2. ArchiveInv'
    BY <1>2, <2>1, UnchangedIsPresent DEF Inv, CleanupInv, OpInv, ArchiveInv, Stepped, PlannedFiles,
       Planned, IsPresent, Present, disk, history
  <2>3. QED
    BY <2>1, <2>2 DEF Inv, CleanupInv
<1>3. QED
  BY <1>1, <1>2

LEMMA WriteStep ==
  ASSUME Inv, WriteArchive
  PROVE  Inv'
<1> USE DEF WriteArchive, At
<1>1. CASE Ends("failed")
  BY <1>1, Failed DEF Results
<1>2. CASE Goto("publish") /\ UNCHANGED result
  <2> DEFINE step == "publish"
  <2>1. step \in Before \ {"scan", "evidence"} /\ op.pc \in Before \ {"scan", "evidence"}
    BY DEF Before
  <2>2. Goto(step) /\ result' \in Results
    BY <1>2 DEF Inv, Types
  <2> HIDE DEF step
  <2>3. QED
    BY <2>1, <2>2, ForwardStep DEF Inv, CleanupInv, step
<1>3. QED
  BY <1>1, <1>2

LEMMA PlannedTypes ==
  ASSUME Inv
  PROVE  /\ \A f \in op.files : f \in Files /\ Planned(f) \in Contents /\ ~Planned(f).more
         /\ \A f \in op.files : Planned(f).file \in Versions /\ Planned(f).file # 0
         /\ PlannedFiles \subseteq Files \X Versions
<1>1. \A f \in op.files : f \in Files /\ Planned(f) \in Contents /\ ~Planned(f).more
  BY DEF Inv, Types, Op, CleanupInv, PlanInv, PlannedInv, Planned
<1>2. QED
  BY <1>1, Things DEF PlannedFiles

LEMMA PublishStep ==
  ASSUME Inv, Publish
  PROVE  Inv'
<1> USE DEF Publish, At
<1>1. saved' \subseteq Files \X Versions /\ saved \subseteq saved' /\ zip' \in {"none", "whole", "damaged"}
  BY PlannedTypes DEF Inv, Types
<1>2. CASE Ends("failed")
  BY <1>1, <1>2, EndedAfter DEF Ends, Inv, Types, Results, CleanupInv, PlanInv, usage
<1>3. CASE /\ zip' = "whole" /\ saved' = saved \cup PlannedFiles
           /\ Goto("published") /\ UNCHANGED result
  <2>1. Stepped("published", {}, {}, {}, TRUE, {}) /\ op.applied
    BY <1>3, GotoStep DEF Inv, Types, CleanupInv, OpInv, Steps, Before
  <2>2. Types'
    BY <1>1, <1>3, <2>1, TypesQuiet DEF Inv, Types, Stepped, usage
  <2>3. AgeInv' /\ PlaceInv' /\ PlanInv'
    BY <2>1 DEF Inv, CleanupInv, AgeInv, PlaceInv, PlanInv, PlannedInv, Stepped, history
  <2>4. OpInv'
    BY <2>1 DEF Inv, CleanupInv, OpInv, Stepped, Before, Moves, Deletes, Backs, history
  <2>5. LedgerInv'
    BY <2>1 DEF Inv, CleanupInv, LedgerInv, Requested, Steps, Stepped, Planned, usage
  <2>6. QuarantineInv'
    <3>1. op.removed = {} /\ op.held = {} /\ op.strayed = {} /\ op.restored
      BY DEF Inv, CleanupInv, OpInv, Before
    <3>2. QED
      BY <2>1, <3>1 DEF Inv, CleanupInv, QuarantineInv, FreshInv, KnownInv, HeldInv, LeftInv, VerifiedInv,
     ReturningInv, Stepped, Returning, InTransit, Planned, history
  <2>7. PlannedFiles' = PlannedFiles
    BY <2>1 DEF PlannedFiles, Planned, Stepped
  <2>8. ArchiveInv'
    BY <1>3, <2>1, <2>7 DEF Inv, CleanupInv, OpInv, ArchiveInv, Stepped, Validated, Requested, Steps,
       Planned, IsPresent, Present, Before, history
  <2>9. NothingLost'
    BY <1>1 DEF Inv, CleanupInv, NothingLost, Present, history
  <2>10. QED
    BY <2>2, <2>3, <2>4, <2>5, <2>6, <2>8, <2>9 DEF Inv, CleanupInv
<1>4. QED
  BY <1>2, <1>3

LEMMA AuthorizeStep ==
  ASSUME Inv, Authorize
  PROVE  Inv'
<1> USE DEF Authorize, At
<1>1. CASE Ends("failed")
  BY <1>1, Failed DEF Results
<1>2. CASE Goto("validateAgain") /\ UNCHANGED result
  <2> DEFINE step == "validateAgain"
  <2>1. step \in Before \ {"scan", "evidence"} /\ op.pc \in Before \ {"scan", "evidence"}
    BY DEF Before
  <2>2. Goto(step) /\ result' \in Results
    BY <1>2 DEF Inv, Types
  <2> HIDE DEF step
  <2>3. QED
    BY <2>1, <2>2, ForwardStep DEF Inv, CleanupInv, step
<1>3. QED
  BY <1>1, <1>2

LEMMA ValidateAgainStep ==
  ASSUME Inv, ValidateAgain
  PROVE  Inv'
<1> USE DEF ValidateAgain, At
<1>1. CASE Ends("failed")
  BY <1>1, Failed DEF Results
<1>2. CASE Goto("inspect") /\ UNCHANGED result
  <2> DEFINE step == "inspect"
  <2>1. step \in Before \ {"scan", "evidence"} /\ op.pc \in Before \ {"scan", "evidence"}
    BY DEF Before
  <2>2. Goto(step) /\ result' \in Results
    BY <1>2 DEF Inv, Types
  <2> HIDE DEF step
  <2>3. QED
    BY <2>1, <2>2, ForwardStep DEF Inv, CleanupInv, step
<1>3. QED
  BY <1>1, <1>2


-----------------------------------------------------------------------------
(* Removal: steps that leave the disk alone.                               *)

LEMMA Actors ==
  ASSUME Inv
  PROVE  /\ op.toMove # {} => Min(op.toMove) \in op.toMove
         /\ op.held # {} => Min(op.held) \in op.held /\ Last \in op.held
         /\ op.toMove \cup op.held \cup op.removed \cup op.strayed \subseteq Files
         /\ op.files \subseteq Files
<1>1. /\ op.toMove \cup op.held \cup op.removed \cup op.strayed \subseteq Files
      /\ op.files \subseteq Files
  BY DEF Inv, Types, Op
<1>2. QED
  BY <1>1, MinIn, MaxIn DEF Last

LEMMA InspectStep ==
  ASSUME Inv, Inspect
  PROVE  Inv'
<1> USE DEF Inspect, At
<1>1. CASE Ends("failed")
  BY <1>1, Failed DEF Results
<1>2. CASE /\ ArchiveHolds
           /\ op' = [op EXCEPT !.pc = "move", !.toMove = op.files]
           /\ UNCHANGED result
  <2>1. op \in Op /\ op.held = {} /\ op.removed = {} /\ op.restored /\ op.strayed = {} /\ op.applied
    BY DEF Inv, Types, CleanupInv, OpInv, Before
  <2>2. Stepped("move", op.files, {}, {}, TRUE, {})
    BY <1>2, <2>1 DEF Stepped, Op, Steps
  <2>3. Keeps
    BY <2>2 DEF Keeps, Stepped
  <2>4. Types' /\ AgeInv' /\ PlaceInv' /\ PlanInv' /\ NothingLost' /\ LedgerInv'
    <3>1. op'.pc # "evidence" /\ op.pc \in Requested /\ result' \in Results
      BY <1>2, <2>2 DEF Requested, Steps, Inv, Types, Stepped
    <3>2. QED
      BY <2>3, <3>1, QuietLedger
  <2>5. OpInv'
    BY <2>1, <2>2 DEF Inv, CleanupInv, OpInv, Stepped, Before, Moves, Deletes, Backs, history
  <2>6. QuarantineInv'
    BY <2>1, <2>2 DEF Inv, CleanupInv, QuarantineInv, FreshInv, KnownInv, HeldInv, LeftInv, VerifiedInv,
       ReturningInv, Stepped, Returning, InTransit, Planned, disk, history
  <2>7. ArchiveInv'
    <3>1. op.pc \in Validated /\ op'.pc = "move" /\ op'.removed = op.removed
      BY <2>1, <2>2 DEF Validated, Requested, Steps, Stepped
    <3>2. QED
      BY <2>3, <3>1, QuietArchive
  <2>8. QED
    BY <2>4, <2>5, <2>6, <2>7 DEF Inv, CleanupInv
<1>3. QED
  BY <1>1, <1>2

\* A step of the removal that leaves disk, usage and what was removed alone.
LEMMA RemovalStep ==
  ASSUME Inv, UNCHANGED <<disk, usage, plan, history>>, Keeps, result' \in Results,
         op.pc \in Moves \cup Deletes \cup Backs \cup {"inspectMoved"},
         op'.pc \in Moves \cup Deletes \cup Backs \cup {"inspectMoved"},
         op'.removed = op.removed,
         op'.pc \in {"verifyDelete", "delete"} =>
            LET f == Min(op'.held) IN <<f, Planned(f).file>> \in saved \cup forgone,
         OpInv', KnownInv', HeldInv', LeftInv', VerifiedInv', ReturningInv'
  PROVE  Inv'
<1>1. op.pc \in Validated /\ op'.pc \in Validated /\ op'.pc # "evidence"
  BY DEF Validated, Requested, Steps, Moves, Deletes, Backs
<1>2. Types' /\ AgeInv' /\ PlaceInv' /\ PlanInv' /\ NothingLost' /\ LedgerInv'
  BY <1>1, QuietLedger DEF Validated
<1>3. FreshInv'
  BY DEF Inv, CleanupInv, QuarantineInv, FreshInv, disk, history
<1>4. ArchiveInv'
  <2>1. op'.pc \notin {"scan", "evidence", "validate", "write", "publish"}
    BY DEF Moves, Deletes, Backs
  <2>2. QED
    BY <1>1, <2>1, QuietArchive
<1>5. QED
  BY <1>2, <1>3, <1>4 DEF Inv, CleanupInv, QuarantineInv

LEMMA MovedStep ==
  ASSUME Inv, Moved
  PROVE  Inv'
<1> USE DEF Moved, At, Moves
<1> DEFINE f == Min(op.toMove)
<1>1. op \in Op /\ f \in op.toMove /\ f \in op.files /\ op.applied /\ result' \in Results
  BY Actors DEF Inv, Types, CleanupInv, OpInv
<1>2. CASE Goto("undo")
  <2>1. Stepped("undo", op.toMove, op.held, op.removed, op.restored, op.strayed)
    BY <1>1, <1>2, GotoStep DEF Steps
  <2>2. Keeps
    BY <2>1 DEF Keeps, Stepped
  <2>3. OpInv'
    BY <2>1 DEF Inv, CleanupInv, OpInv, Stepped, Before, Deletes, Backs, history
  <2>4. KnownInv' /\ HeldInv' /\ LeftInv' /\ VerifiedInv' /\ ReturningInv'
    BY <2>1 DEF Inv, CleanupInv, QuarantineInv, KnownInv, HeldInv, LeftInv, VerifiedInv, ReturningInv,
       Stepped, Returning, InTransit, Planned, disk, history
  <2>5. QED
    BY <1>1, <2>1, <2>2, <2>3, <2>4, RemovalStep DEF Stepped
<1>3. CASE /\ Verified(f)
           /\ op' = [op EXCEPT !.pc = IF op.toMove = {f} THEN "inspectMoved" ELSE "move",
                               !.toMove = @ \ {f}, !.held = @ \cup {f}]
  <2>1. Stepped(IF op.toMove = {f} THEN "inspectMoved" ELSE "move",
                op.toMove \ {f}, op.held \cup {f}, op.removed, op.restored, op.strayed)
    BY <1>1, <1>3 DEF Stepped, Op, Steps
  <2>2. Keeps
    BY <2>1 DEF Keeps, Stepped
  <2>3. OpInv'
    BY <1>1, <2>1 DEF Inv, CleanupInv, OpInv, Stepped, Before, Deletes, Backs, history
  <2>4. HeldInv'
    BY <1>3, <2>1 DEF Inv, CleanupInv, QuarantineInv, HeldInv, Stepped, Verified, Planned, disk, history
  <2>5. KnownInv' /\ VerifiedInv' /\ ReturningInv'
    BY <2>1 DEF Inv, CleanupInv, QuarantineInv, KnownInv, VerifiedInv, ReturningInv,
       Stepped, Returning, InTransit, disk, history
  <2>6. LeftInv'
    BY <2>1 DEF Inv, CleanupInv, OpInv, LeftInv, Stepped
  <2>7. QED
    BY <1>1, <2>1, <2>2, <2>3, <2>4, <2>5, <2>6, RemovalStep DEF Stepped
<1>4. QED
  BY <1>2, <1>3


LEMMA UndoStep ==
  ASSUME Inv, Undo
  PROVE  Inv'
<1> USE DEF Undo, At, Moves
<1> DEFINE f == Min(op.toMove)
<1>1. op \in Op /\ f \in op.toMove /\ f \in op.files /\ f \in Files /\ result' \in Results
  BY Actors DEF Inv, Types, CleanupInv, OpInv
<1>2. CASE home[f] = Nothing
  <2>1. Stepped("undoMove", op.toMove, op.held, op.removed, op.restored, op.strayed)
    BY <1>1, <1>2, GotoStep DEF Steps
  <2>2. Keeps
    BY <2>1 DEF Keeps, Stepped
  <2>3. OpInv'
    BY <2>1 DEF Inv, CleanupInv, OpInv, Stepped, Before, Deletes, Backs, history
  <2>4. KnownInv' /\ HeldInv' /\ LeftInv' /\ VerifiedInv' /\ ReturningInv'
    BY <1>2, <2>1 DEF Inv, CleanupInv, QuarantineInv, KnownInv, HeldInv, LeftInv, VerifiedInv,
       ReturningInv, Stepped, Returning, InTransit, Planned, disk, history
  <2>5. QED
    BY <1>1, <2>1, <2>2, <2>3, <2>4, RemovalStep DEF Stepped
<1>3. CASE home[f] # Nothing
  <2>1. Stepped("back", op.toMove, op.held, op.removed, op.restored, {f})
    <3>1. op' = [op EXCEPT !.pc = "back", !.strayed = {f}]
      BY <1>3
    <3>2. {f} \in SUBSET Files
      BY <1>1
    <3> HIDE DEF f
    <3>3. QED
      BY <1>1, <3>1, <3>2 DEF Stepped, Op, Steps
  <2>2. Keeps
    BY <2>1 DEF Keeps, Stepped
  <2>3. OpInv'
    BY <1>1, <2>1 DEF Inv, CleanupInv, OpInv, Stepped, Before, Deletes, Backs, history
  <2>4. KnownInv' /\ HeldInv' /\ LeftInv' /\ VerifiedInv' /\ ReturningInv'
    BY <2>1 DEF Inv, CleanupInv, OpInv, QuarantineInv, KnownInv, HeldInv, LeftInv, VerifiedInv,
       ReturningInv, Stepped, Returning, InTransit, Planned, disk, history
  <2>5. QED
    BY <1>1, <2>1, <2>2, <2>3, <2>4, RemovalStep DEF Stepped, Backs
<1>4. QED
  BY <1>2, <1>3

\* A step that only goes on, or turns to the rollback, with every source where it was.
LEMMA TurnStep ==
  ASSUME Inv, UNCHANGED <<disk, usage, plan, history>>, result' \in Results,
         op.pc \in {"inspectMoved"} \cup Deletes, NEW step \in Deletes \cup {"back"}, Goto(step),
         step = "back" => op.removed = {},
         step = "delete" => Verified(Min(op.held)),
         step \in {"verifyDelete", "delete"} =>
            LET f == Min(op.held) IN <<f, Planned(f).file>> \in saved \cup forgone
  PROVE  Inv'
<1>1. Stepped(step, op.toMove, op.held, op.removed, op.restored, op.strayed)
  BY GotoStep DEF Inv, Types, Steps, Deletes
<1>2. Keeps
  BY <1>1 DEF Keeps, Stepped
<1>3. OpInv'
  BY <1>1 DEF Inv, CleanupInv, OpInv, Stepped, Before, Moves, Deletes, Backs, history
<1>4. KnownInv' /\ HeldInv' /\ LeftInv'
  BY <1>1 DEF Inv, CleanupInv, QuarantineInv, KnownInv, HeldInv, LeftInv, Stepped, InTransit, Planned,
     Deletes, disk, history
<1>5. ReturningInv'
  BY <1>1 DEF ReturningInv, Returning, Stepped, At, Deletes
<1>6. VerifiedInv'
  BY <1>1 DEF VerifiedInv, Verified, Planned, Stepped, At, disk, history
<1>7. QED
  <2>1. op.pc \in Moves \cup Deletes \cup Backs \cup {"inspectMoved"}
    OBVIOUS
  <2>2. op'.pc \in Moves \cup Deletes \cup Backs \cup {"inspectMoved"} /\ op'.removed = op.removed
    BY <1>1 DEF Stepped, Backs
  <2>3. op'.pc \in {"verifyDelete", "delete"} =>
            LET f == Min(op'.held) IN <<f, Planned(f).file>> \in saved \cup forgone
    BY <1>1 DEF Stepped
  <2>4. QED
    BY <1>2, <1>3, <1>4, <1>5, <1>6, <2>1, <2>2, <2>3, RemovalStep

LEMMA InspectMovedStep ==
  ASSUME Inv, InspectMoved
  PROVE  Inv'
<1>1. UNCHANGED <<disk, usage, plan, history>> /\ result' \in Results /\ op.pc = "inspectMoved"
  BY DEF InspectMoved, Inv, Types, At
<1>2. op.removed = {}
  BY <1>1 DEF Inv, CleanupInv, OpInv
<1>3. CASE Goto("inspectDelete")
  BY <1>1, <1>3, TurnStep DEF Deletes
<1>4. CASE Goto("back")
  BY <1>1, <1>2, <1>4, TurnStep
<1>5. QED
  BY <1>3, <1>4 DEF InspectMoved

LEMMA FailingDeletion ==
  ASSUME Inv, UNCHANGED <<disk, usage, plan, history>>, op.pc \in Deletes, DeletionFails
  PROVE  Inv'
<1>1. CASE op.removed = {}
  <2>1. Goto("back") /\ result' \in Results
    BY <1>1 DEF DeletionFails, Inv, Types
  <2>2. QED
    BY <1>1, <2>1, TurnStep
<1>2. CASE op.removed # {}
  BY <1>2, Failed DEF DeletionFails, Results
<1>3. QED
  BY <1>1, <1>2

LEMMA InspectDeleteStep ==
  ASSUME Inv, InspectDelete
  PROVE  Inv'
<1>1. UNCHANGED <<disk, usage, plan, history>> /\ op.pc = "inspectDelete"
  BY DEF InspectDelete, At
<1>2. CASE DeletionFails
  BY <1>1, <1>2, FailingDeletion DEF Deletes
<1>3. CASE ArchiveHolds /\ Goto("verifyDelete") /\ UNCHANGED result
  <2>1. PlannedFiles \subseteq saved /\ result' \in Results
    BY <1>3 DEF ArchiveHolds, Inv, Types, CleanupInv, ArchiveInv
  <2>2. Min(op.held) \in op.files
    BY <1>1, Actors DEF Inv, CleanupInv, OpInv, Deletes
  <2>3. LET f == Min(op.held) IN <<f, Planned(f).file>> \in saved
    BY <2>1, <2>2 DEF PlannedFiles
  <2>4. QED
    BY <1>1, <1>3, <2>1, <2>3, TurnStep DEF Deletes
<1>4. QED
  BY <1>2, <1>3 DEF InspectDelete

LEMMA VerifyDeleteStep ==
  ASSUME Inv, VerifyDelete
  PROVE  Inv'
<1>1. UNCHANGED <<disk, usage, plan, history>> /\ op.pc = "verifyDelete"
  BY DEF VerifyDelete, At
<1>2. CASE DeletionFails
  BY <1>1, <1>2, FailingDeletion DEF Deletes
<1>3. CASE Verified(Min(op.held)) /\ Goto("delete") /\ UNCHANGED result
  <2>1. LET f == Min(op.held) IN <<f, Planned(f).file>> \in saved \cup forgone
    BY <1>1 DEF Inv, CleanupInv, ArchiveInv
  <2>2. result' \in Results
    BY <1>3 DEF Inv, Types
  <2>3. QED
    BY <1>1, <1>3, <2>1, <2>2, TurnStep DEF Deletes
<1>4. QED
  BY <1>2, <1>3 DEF VerifyDelete

-----------------------------------------------------------------------------
(* Rollback, and the end of a cleanup.                                     *)

\* A source that cannot be moved back stays in quarantine.
LEMMA SkipStep ==
  ASSUME Inv, Skip, UNCHANGED <<disk, usage, plan, history>>, result' \in Results,
         op.pc \in Backs, op.held # {}
  PROVE  Inv'
<1>1. op \in Op /\ Last \in op.held /\ op.held \subseteq op.files /\ op.applied
  BY Actors DEF Inv, Types, CleanupInv, OpInv, Backs
<1>2. Stepped("back", op.toMove, op.held \ {Last}, op.removed, FALSE, op.strayed)
  BY <1>1 DEF Skip, Stepped, Op, Steps
<1>3. Keeps
  BY <1>2 DEF Keeps, Stepped
<1>4. OpInv'
  BY <1>2 DEF Inv, CleanupInv, OpInv, Stepped, Before, Moves, Deletes, Backs, history
<1>5. quarantine[<<Last, applies>>] # Nothing
  <2>1. quarantine[<<Last, applies>>].file = Planned(Last).file /\ Planned(Last).file # 0
    BY <1>1, PlannedTypes DEF Inv, CleanupInv, QuarantineInv, HeldInv
  <2>2. QED
    BY <2>1, Things
<1>6. LeftInv'
  BY <1>1, <1>2, <1>5 DEF LeftInv, Stepped, disk, history
<1>7. HeldInv' /\ KnownInv' /\ VerifiedInv' /\ ReturningInv'
  BY <1>2 DEF Inv, CleanupInv, QuarantineInv, HeldInv, KnownInv, VerifiedInv, ReturningInv, Returning,
     At, Planned, Stepped, disk, history
<1>8. QED
  BY <1>2, <1>3, <1>4, <1>6, <1>7, RemovalStep DEF Stepped, Backs

LEMMA BackStep ==
  ASSUME Inv, Back
  PROVE  Inv'
<1>1. UNCHANGED <<disk, usage, plan, history>> /\ op.pc = "back"
  BY DEF Back, At
<1>2. CASE op.held = {}
  BY <1>1, <1>2, Failed DEF Back, Results
<1>3. CASE op.held # {} /\ home[Last] # Nothing
  BY <1>1, <1>3, SkipStep DEF Back, Backs, Inv, Types
<1>4. CASE op.held # {} /\ home[Last] = Nothing
  <2>1. Stepped("backVerify", op.toMove, op.held, op.removed, op.restored, op.strayed)
    BY <1>4, GotoStep DEF Back, Inv, Types, Steps
  <2>2. Keeps
    BY <2>1 DEF Keeps, Stepped
  <2>3. OpInv'
    BY <1>1, <1>4, <2>1 DEF Inv, CleanupInv, OpInv, Stepped, Before, Moves, Deletes, Backs, history
  <2>4. KnownInv' /\ HeldInv' /\ LeftInv' /\ VerifiedInv'
    BY <1>1, <2>1 DEF Inv, CleanupInv, QuarantineInv, KnownInv, HeldInv, LeftInv, VerifiedInv, At,
       Stepped, InTransit, Planned, disk, history
  <2>5. ReturningInv'
    BY <1>1, <1>4, <2>1 DEF ReturningInv, Returning, At, Last, Stepped, disk
  <2>6. result' \in Results
    BY <1>4 DEF Back, Inv, Types
  <2>7. QED
    BY <1>1, <2>1, <2>2, <2>3, <2>4, <2>5, <2>6, RemovalStep DEF Stepped, Backs
<1>5. QED
  BY <1>2, <1>3, <1>4

LEMMA BackVerifyStep ==
  ASSUME Inv, BackVerify
  PROVE  Inv'
<1>1. UNCHANGED <<disk, usage, plan, history>> /\ op.pc = "backVerify" /\ result' \in Results
  BY DEF BackVerify, At, Inv, Types
<1>2. op.held # {}
  BY <1>1 DEF Inv, CleanupInv, OpInv
<1>3. CASE Skip
  BY <1>1, <1>2, <1>3, SkipStep DEF Backs
<1>4. CASE Goto("backMove")
  <2>1. Stepped("backMove", op.toMove, op.held, op.removed, op.restored, op.strayed)
    BY <1>4, GotoStep DEF Inv, Types, Steps
  <2>2. Keeps
    BY <2>1 DEF Keeps, Stepped
  <2>3. OpInv'
    BY <1>1, <2>1 DEF Inv, CleanupInv, OpInv, Stepped, Before, Moves, Deletes, Backs, history
  <2>4. KnownInv' /\ HeldInv' /\ LeftInv' /\ VerifiedInv'
    BY <1>1, <2>1 DEF Inv, CleanupInv, QuarantineInv, KnownInv, HeldInv, LeftInv, VerifiedInv, At,
       Stepped, InTransit, Planned, disk, history
  <2>5. ReturningInv'
    BY <1>1, <2>1 DEF Inv, CleanupInv, QuarantineInv, ReturningInv, Returning, At, Last, Stepped,
       disk, history
  <2>6. QED
    BY <1>1, <2>1, <2>2, <2>3, <2>4, <2>5, RemovalStep DEF Stepped, Backs
<1>5. QED
  BY <1>3, <1>4 DEF BackVerify

LEMMA RescanStep ==
  ASSUME Inv, Rescan
  PROVE  Inv'
<1>1. CASE Ends("failed") /\ UNCHANGED usage
  BY <1>1, Failed DEF Rescan, Results
<1>2. CASE Synchronize /\ Ends("ok")
  BY <1>2, SynchronizeTypes, Ended DEF Rescan, Ends, Inv, Types, Results, CleanupInv, PlanInv
<1>3. QED
  BY <1>1, <1>2 DEF Rescan

LEMMA KilledStep ==
  ASSUME Inv, Killed
  PROVE  Inv'
<1>1. plan' \in [Files -> Entries \cup {NoEntry}] /\ \A f \in Files : PlannedInv(plan'[f], f)
  BY DEF Killed, NoPlan, PlannedInv
<1>2. QED
  BY <1>1, Ended DEF Killed, Ends, Inv, Types, Results, usage


-----------------------------------------------------------------------------
(* Moving and deleting files.                                              *)

LEMMA Numbers ==
  ASSUME Types
  PROVE  /\ \A f \in Files : /\ home[f].file \in Nat /\ born[f] \in Nat
                             /\ (home[f].file = 0 <=> home[f] = Nothing)
         /\ \A f \in Files : \A n \in Cleanups :
               /\ quarantine[<<f, n>>].file \in Nat
               /\ (quarantine[<<f, n>>].file = 0 <=> quarantine[<<f, n>>] = Nothing)
         /\ arrivals \in Nat
<1>1. \A c \in Contents \cup {Nothing} : c.file \in Nat /\ (c.file = 0 <=> c = Nothing)
  BY Things
<1>2. \A f \in Files : home[f] \in Contents \cup {Nothing} /\ born[f] \in Nat
  BY Things DEF Types
<1>3. \A f \in Files : \A n \in Cleanups : quarantine[<<f, n>>] \in Contents \cup {Nothing}
  BY DEF Types
<1>4. arrivals \in Nat
  BY CleanupAssumption DEF Types
<1>5. QED
  BY <1>1, <1>2, <1>3, <1>4

\* Where a file is.
LEMMA Places ==
  ASSUME NEW g, NEW k
  PROVE  IsPresent(g, k) <=> home[g].file = k \/ \E m \in Cleanups : quarantine[<<g, m>>].file = k
  BY DEF IsPresent, Present

\* One path and one quarantine directory of a source change, such that what
\* lies in them stays the files of one source at one place each.
Exchanged(f, n, h, q) ==
    /\ f \in Files /\ n \in Cleanups /\ h \in Contents \cup {Nothing} /\ q \in Contents \cup {Nothing}
    /\ home' = [home EXCEPT ![f] = h] /\ quarantine' = [quarantine EXCEPT ![<<f, n>>] = q]
    /\ h.file \in {0, home[f].file, quarantine[<<f, n>>].file}
    /\ q.file \in {0, home[f].file, quarantine[<<f, n>>].file}
    /\ h.file # 0 => h.file # q.file

LEMMA Exchange ==
  ASSUME Types, AgeInv, PlaceInv, UNCHANGED <<arrivals, born>>,
         NEW f, NEW n, NEW h, NEW q, Exchanged(f, n, h, q)
  PROVE  /\ home' \in [Files -> Contents \cup {Nothing}]
         /\ quarantine' \in [Files \X Cleanups -> Contents \cup {Nothing}]
         /\ AgeInv' /\ PlaceInv'
         /\ \A g \in Files, k \in Nat \ {0} :
               IsPresent(g, k) =>
                  IsPresent(g, k)' \/ (g = f /\ k \in {home[f].file, quarantine[<<f, n>>].file})
         /\ \A k : k \in {h.file, q.file} => IsPresent(f, k)'
<1> USE DEF Exchanged
<1>1. /\ home' \in [Files -> Contents \cup {Nothing}]
      /\ quarantine' \in [Files \X Cleanups -> Contents \cup {Nothing}]
  BY DEF Types
<1>2. home'[f] = h /\ \A g \in Files : g # f => home'[g] = home[g]
  BY DEF Types
<1>3. /\ quarantine'[<<f, n>>] = q
      /\ \A m \in Cleanups : m # n => quarantine'[<<f, m>>] = quarantine[<<f, m>>]
      /\ \A g \in Files : g # f => \A m \in Cleanups : quarantine'[<<g, m>>] = quarantine[<<g, m>>]
  BY DEF Types
<1>4. (h.file = 0 <=> h = Nothing) /\ (q.file = 0 <=> q = Nothing)
  BY Things
<1>5. AgeInv'
  <2>1. ASSUME NEW g \in Files, g # f
        PROVE  /\ born'[g] <= arrivals' + 1 /\ home'[g].file <= born'[g]
               /\ \A m \in Cleanups : quarantine'[<<g, m>>].file <= born'[g]
    BY <1>2, <1>3, <2>1 DEF AgeInv
  <2>2. /\ born'[f] <= arrivals' + 1 /\ home'[f].file <= born'[f]
        /\ \A m \in Cleanups : quarantine'[<<f, m>>].file <= born'[f]
    BY <1>2, <1>3, Numbers DEF AgeInv
  <2>3. QED
    BY <2>1, <2>2 DEF AgeInv
<1>6. PlaceInv'
  <2>1. ASSUME NEW g \in Files, NEW m \in Cleanups, g # f, quarantine'[<<g, m>>] # Nothing
        PROVE  /\ home'[g].file # quarantine'[<<g, m>>].file
               /\ \A k \in Cleanups \ {m} : quarantine'[<<g, k>>].file # quarantine'[<<g, m>>].file
    BY <1>2, <1>3, <2>1 DEF PlaceInv
  <2>2. ASSUME NEW m \in Cleanups, quarantine'[<<f, m>>] # Nothing, m # n
        PROVE  /\ home'[f].file # quarantine'[<<f, m>>].file
               /\ \A k \in Cleanups \ {m} : quarantine'[<<f, k>>].file # quarantine'[<<f, m>>].file
    <3>1. quarantine[<<f, m>>] # Nothing /\ quarantine[<<f, m>>].file # 0
      BY <1>3, <2>2, Numbers
    <3>2. h.file # quarantine[<<f, m>>].file /\ q.file # quarantine[<<f, m>>].file
      BY <2>2, <3>1 DEF PlaceInv
    <3>3. \A k \in Cleanups \ {m} : quarantine[<<f, k>>].file # quarantine[<<f, m>>].file
      BY <3>1 DEF PlaceInv
    <3>4. QED
      BY <1>2, <1>3, <2>2, <3>2, <3>3
  <2>3. ASSUME q # Nothing
        PROVE  /\ home'[f].file # quarantine'[<<f, n>>].file
               /\ \A k \in Cleanups \ {n} : quarantine'[<<f, k>>].file # quarantine'[<<f, n>>].file
    <3>1. q.file # 0 /\ q.file # h.file
      BY <1>4, <2>3
    <3>2. ASSUME NEW k \in Cleanups, k # n
          PROVE  quarantine[<<f, k>>].file # q.file
      <4>1. CASE quarantine[<<f, k>>] = Nothing
        BY <3>1, <4>1, Things
      <4>2. CASE quarantine[<<f, k>>] # Nothing
        BY <3>1, <3>2, <4>2, Numbers DEF PlaceInv
      <4>3. QED
        BY <4>1, <4>2
    <3>3. QED
      BY <1>2, <1>3, <3>1, <3>2
  <2>4. SUFFICES ASSUME NEW g \in Files, NEW m \in Cleanups, quarantine'[<<g, m>>] # Nothing
                 PROVE  /\ home'[g].file # quarantine'[<<g, m>>].file
                        /\ \A k \in Cleanups \ {m} : quarantine'[<<g, k>>].file # quarantine'[<<g, m>>].file
    BY DEF PlaceInv
  <2>5. CASE g # f
    BY <2>1, <2>4, <2>5
  <2>6. CASE g = f /\ m # n
    BY <2>2, <2>4, <2>6
  <2>7. CASE g = f /\ m = n
    BY <1>3, <2>3, <2>4, <2>7
  <2>8. QED
    BY <2>5, <2>6, <2>7
<1>7. ASSUME NEW g \in Files, NEW k
      PROVE  IsPresent(g, k)' <=> home'[g].file = k \/ \E m \in Cleanups : quarantine'[<<g, m>>].file = k
  BY DEF IsPresent, Present
<1>8. \A k : k \in {h.file, q.file} => IsPresent(f, k)'
  BY <1>2, <1>3, <1>7
<1>9. ASSUME NEW g \in Files, NEW k \in Nat \ {0}, IsPresent(g, k)
      PROVE  IsPresent(g, k)' \/ (g = f /\ k \in {home[f].file, quarantine[<<f, n>>].file})
  BY <1>2, <1>3, <1>7, <1>9, Places
<1>10. QED
  BY <1>1, <1>5, <1>6, <1>8, <1>9


-----------------------------------------------------------------------------
(* Removal: steps that move or delete a file.                              *)

\* What leaves its place is at the other one, was given up or is archived.
LEMMA DiskStep ==
  ASSUME Inv, Keeps, op.applied, UNCHANGED <<zip, saved, usage, plan, history>>, result' \in Results,
         op.pc \in Moves \cup Deletes \cup Backs,
         op'.pc \in {"moved", "back", "inspectDelete", "rescan"},
         NEW f, NEW n, NEW h, NEW q, n = applies, Exchanged(f, n, h, q),
         \A k \in {home[f].file, quarantine[<<f, n>>].file} : k # 0 =>
            \/ k \in {h.file, q.file} \/ <<f, k>> \in forgone
            \/ f \in op'.removed /\ <<f, k>> \in saved,
         op'.removed = op.removed \/ op'.removed = op.removed \cup {f},
         f \in op'.removed => <<f, Planned(f).file>> \in saved \cup forgone
  PROVE  Types' /\ AgeInv' /\ PlaceInv' /\ PlanInv' /\ LedgerInv' /\ FreshInv' /\ ArchiveInv' /\ NothingLost'
<1>1. n \in Cleanups /\ f \in Files /\ quarantine' = [quarantine EXCEPT ![<<f, n>>] = q]
  BY DEF Exchanged
<1>2. UNCHANGED <<arrivals, born>> /\ forgone' = forgone /\ saved' = saved /\ applies' = applies
  BY DEF history
<1>3. /\ home' \in [Files -> Contents \cup {Nothing}]
      /\ quarantine' \in [Files \X Cleanups -> Contents \cup {Nothing}]
      /\ AgeInv' /\ PlaceInv'
      /\ \A g \in Files, k \in Nat \ {0} :
            IsPresent(g, k) =>
               IsPresent(g, k)' \/ (g = f /\ k \in {home[f].file, quarantine[<<f, n>>].file})
      /\ \A k : k \in {h.file, q.file} => IsPresent(f, k)'
  <2>1. Types /\ AgeInv /\ PlaceInv
    BY DEF Inv, CleanupInv
  <2>2. /\ home' \in [Files -> Contents \cup {Nothing}]
        /\ quarantine' \in [Files \X Cleanups -> Contents \cup {Nothing}]
        /\ AgeInv' /\ PlaceInv'
    BY <1>2, <2>1, Exchange
  <2>3. \A g \in Files, k \in Nat \ {0} :
           IsPresent(g, k) =>
              IsPresent(g, k)' \/ (g = f /\ k \in {home[f].file, quarantine[<<f, n>>].file})
    BY <1>2, <2>1, Exchange
  <2>4. \A k : k \in {h.file, q.file} => IsPresent(f, k)'
    BY <1>2, <2>1, Exchange
  <2>5. QED
    BY <2>2, <2>3, <2>4
<1>4. ASSUME NEW g \in Files, NEW k \in Nat \ {0}, IsPresent(g, k)
      PROVE  IsPresent(g, k)' \/ <<g, k>> \in forgone \/ (g \in op'.removed /\ <<g, k>> \in saved)
  <2>1. IsPresent(g, k)' \/ (g = f /\ k \in {home[f].file, quarantine[<<f, n>>].file})
    BY <1>3, <1>4
  <2>2. CASE g = f /\ k \in {home[f].file, quarantine[<<f, n>>].file}
    <3>1. k \in {h.file, q.file} \/ <<f, k>> \in forgone \/ (f \in op'.removed /\ <<f, k>> \in saved)
      BY <2>2
    <3>2. k \in {h.file, q.file} => IsPresent(f, k)'
      BY <1>3
    <3>3. QED
      BY <2>2, <3>1, <3>2
  <2>3. QED
    BY <2>1, <2>2
<1>5. Types'
  BY <1>3 DEF Inv, Types, Keeps, history, usage
<1>6. \A g : Planned(g)' = Planned(g)
  BY DEF Planned, Keeps
<1>7. PlanInv' /\ LedgerInv'
  BY <1>6 DEF Inv, CleanupInv, PlanInv, PlannedInv, LedgerInv, Requested, Steps, Moves, Deletes, Backs,
     Keeps, history, usage
<1>8. FreshInv'
  <2>1. ASSUME NEW g \in Files, NEW m \in Cleanups, m > applies
        PROVE  quarantine'[<<g, m>>] = Nothing
    <3>1. m # n /\ quarantine[<<g, m>>] = Nothing
      BY <1>1, <2>1, CleanupAssumption DEF Inv, CleanupInv, QuarantineInv, FreshInv, Cleanups
    <3>2. <<g, m>> # <<f, n>> /\ <<g, m>> \in Files \X Cleanups
      BY <3>1
    <3>3. QED
      BY <1>1, <3>1, <3>2 DEF Inv, Types
  <2>2. QED
    BY <1>2, <2>1 DEF FreshInv
<1>9. NothingLost'
  <2>1. ASSUME NEW g \in Files, NEW k \in 1 .. born[g]
        PROVE  IsPresent(g, k)' \/ <<g, k>> \in saved \/ <<g, k>> \in forgone
    <3>1. k \in Nat \ {0}
      BY Numbers DEF Inv
    <3>2. IsPresent(g, k) \/ <<g, k>> \in saved \/ <<g, k>> \in forgone
      BY DEF Inv, CleanupInv, NothingLost, IsPresent
    <3>3. QED
      BY <1>4, <3>1, <3>2
  <2>2. QED
    BY <1>2, <2>1 DEF NothingLost, IsPresent
<1>10. ArchiveInv'
  <2>1. (zip = "whole" => PlannedFiles \subseteq saved)'
    BY <1>2, <1>6 DEF Inv, CleanupInv, ArchiveInv, PlannedFiles, Keeps
  <2>2. ASSUME NEW g \in op.files \ op'.removed
        PROVE  \A k : k = Planned(g).file => IsPresent(g, k)' \/ <<g, k>> \in forgone
    <3>1. g \in Files /\ g \notin op.removed /\ Planned(g).file \in Nat \ {0}
      BY Actors, PlannedTypes, Things
    <3>2. IsPresent(g, Planned(g).file) \/ <<g, Planned(g).file>> \in forgone
      BY <3>1 DEF Inv, CleanupInv, ArchiveInv, Validated, Requested, Steps, Moves, Deletes, Backs
    <3>3. QED
      BY <1>4, <2>2, <3>1, <3>2
  <2>3. \A g \in op'.removed : <<g, Planned(g).file>> \in saved \cup forgone
    BY <1>1 DEF Inv, CleanupInv, ArchiveInv
  <2>4. op'.pc \notin {"scan", "evidence", "validate", "write", "publish", "verifyDelete", "delete"}
    OBVIOUS
  <2>5. (op.pc \in Validated => \A g \in op.files \ op.removed :
           IsPresent(g, Planned(g).file) \/ <<g, Planned(g).file>> \in forgone)'
    BY <1>2, <1>6, <2>2 DEF Keeps, IsPresent, Present
  <2>6. (\A g \in op.removed : <<g, Planned(g).file>> \in saved \cup forgone)'
    BY <1>2, <1>6, <2>3
  <2>7. QED
    BY <2>1, <2>4, <2>5, <2>6 DEF ArchiveInv
<1>11. QED
  BY <1>3, <1>5, <1>7, <1>8, <1>9, <1>10


LEMMA MoveStep ==
  ASSUME Inv, Move
  PROVE  Inv'
<1>1. PICK f : f = Min(op.toMove)
  OBVIOUS
<1>2. /\ op \in Op /\ f \in op.toMove /\ f \in op.files /\ f \in Files /\ op.applied /\ op.pc = "move"
      /\ f \notin op.held /\ op.strayed = {} /\ op.restored /\ op.removed = {} /\ result' \in Results
      /\ UNCHANGED <<zip, saved, usage, plan, result, history>>
  BY <1>1, Actors DEF Move, At, Inv, Types, CleanupInv, OpInv, Moves
<1>3. CASE Goto("back") /\ UNCHANGED <<home, quarantine>>
  <2>1. Stepped("back", op.toMove, op.held, op.removed, op.restored, op.strayed)
    BY <1>2, <1>3, GotoStep DEF Steps
  <2>2. Keeps
    BY <2>1 DEF Keeps, Stepped
  <2>3. UNCHANGED <<disk, usage, plan, history>>
    BY <1>2, <1>3 DEF disk
  <2>4. OpInv'
    BY <1>2, <2>1, <2>3 DEF Inv, CleanupInv, OpInv, Stepped, Before, Moves, Deletes, Backs, history
  <2>5. KnownInv' /\ HeldInv' /\ LeftInv' /\ VerifiedInv' /\ ReturningInv'
    BY <1>2, <2>1, <2>3 DEF Inv, CleanupInv, QuarantineInv, KnownInv, HeldInv, LeftInv, VerifiedInv,
       ReturningInv, Stepped, Returning, At, InTransit, Planned, disk, history
  <2>6. op.pc \in Moves /\ op'.pc = "back"
    BY <1>2, <2>1 DEF Moves, Stepped
  <2>7. QED
    BY <1>2, <2>1, <2>2, <2>3, <2>4, <2>5, <2>6, RemovalStep DEF Stepped, Backs
<1>4. CASE /\ home[f] # Nothing
           /\ quarantine' = [quarantine EXCEPT ![<<f, applies>>] = home[f]]
           /\ home' = [home EXCEPT ![f] = Nothing]
           /\ Goto("moved")
  <2>1. Stepped("moved", op.toMove, op.held, op.removed, op.restored, op.strayed)
    BY <1>2, <1>4, GotoStep DEF Steps
  <2>2. Keeps
    BY <2>1 DEF Keeps, Stepped
  <2>3. PICK n, h, q : n = applies /\ h = Nothing /\ q = home[f]
    OBVIOUS
  <2>4. n \in Cleanups /\ q \in Contents
    BY <1>2, <1>4, <2>3 DEF Inv, Types, CleanupInv, OpInv
  <2>5. quarantine[<<f, n>>] = Nothing
    BY <1>2, <2>3 DEF Inv, CleanupInv, QuarantineInv, KnownInv, InTransit
  <2>6. Exchanged(f, n, h, q)
    BY <1>2, <1>4, <2>3, <2>4, Things DEF Exchanged
  <2>7. op.pc \in Moves \cup Deletes \cup Backs /\ op'.pc = "moved" /\ op'.removed = op.removed
    BY <1>2, <2>1 DEF Moves, Stepped
  <2>8. Types' /\ AgeInv' /\ PlaceInv' /\ PlanInv' /\ LedgerInv' /\ FreshInv' /\ ArchiveInv' /\ NothingLost'
    <3>1. \A k \in {home[f].file, quarantine[<<f, n>>].file} : k # 0 => k \in {h.file, q.file}
      BY <2>3, <2>5, Things
    <3>2. f \notin op'.removed
      BY <1>2, <2>7
    <3>3. QED
      BY <1>2, <2>2, <2>3, <2>6, <2>7, <3>1, <3>2, DiskStep
  <2>9. OpInv'
    BY <2>1, <1>2 DEF Inv, CleanupInv, OpInv, Stepped, Before, Moves, Deletes, Backs, history
  <2>10. /\ applies' = applies /\ home'[f] = Nothing /\ \A g \in Files : g # f => home'[g] = home[g]
         /\ \A g \in Files : g # f => quarantine'[<<g, applies>>] = quarantine[<<g, applies>>]
    BY <1>2, <1>4, <2>3, <2>4 DEF Inv, Types, history
  <2>11. KnownInv' /\ LeftInv' /\ VerifiedInv' /\ ReturningInv'
    BY <1>1, <1>2, <2>1, <2>10 DEF Inv, CleanupInv, QuarantineInv, KnownInv, LeftInv, VerifiedInv,
       ReturningInv, Stepped, Returning, At, InTransit
  <2>12. HeldInv'
    BY <1>2, <2>1, <2>10, Actors DEF Inv, CleanupInv, QuarantineInv, HeldInv, Stepped, Planned
  <2>13. QED
    BY <2>8, <2>9, <2>11, <2>12 DEF Inv, CleanupInv, QuarantineInv
<1>5. QED
  BY <1>1, <1>3, <1>4 DEF Move

\* A rename back, to a path that was free when it was looked at.
LEMMA ReturnStep ==
  ASSUME Inv, UNCHANGED <<zip, saved, usage, plan, history>>, result' \in Results,
         NEW f \in Files, MoveBack(f), Returning(f), NEW held,
         Stepped("back", op.toMove, held, op.removed, op.restored, op.strayed),
         f \notin held, held \subseteq op.held, op.held \subseteq held \cup {f}
  PROVE  Inv'
<1>1. Keeps
  BY DEF Keeps, Stepped
<1>2. op.pc \in {"undoMove", "backVerify", "backMove"} /\ op.applied /\ op.removed = {}
  BY DEF Returning, At, Inv, CleanupInv, OpInv, Moves, Backs
<1>3. PICK n, h, q : n = applies /\ h = quarantine[<<f, applies>>] /\ q = Nothing
  OBVIOUS
<1>4. n \in Cleanups /\ h \in Contents \cup {Nothing}
  BY <1>2, <1>3 DEF Inv, Types, CleanupInv, OpInv
<1>5. Exchanged(f, n, h, q)
  BY <1>3, <1>4, Things DEF Exchanged, MoveBack
<1>6. home[f] = Nothing \/ <<f, home[f].file>> \in forgone
  BY DEF Inv, CleanupInv, QuarantineInv, ReturningInv
<1>7. Types' /\ AgeInv' /\ PlaceInv' /\ PlanInv' /\ LedgerInv' /\ FreshInv' /\ ArchiveInv' /\ NothingLost'
  <2>1. \A k \in {home[f].file, quarantine[<<f, n>>].file} : k # 0 =>
            k \in {h.file, q.file} \/ <<f, k>> \in forgone
    BY <1>3, <1>6, Things
  <2>2. op'.removed = op.removed /\ f \notin op'.removed /\ op'.pc = "back"
    BY <1>2 DEF Stepped
  <2>3. op.pc \in Moves \cup Deletes \cup Backs
    BY <1>2 DEF Moves, Backs
  <2>4. QED
    BY <1>1, <1>2, <1>3, <1>5, <2>1, <2>2, <2>3, DiskStep
<1>8. OpInv'
  <2>1. /\ op.toMove \cap op.held = {} /\ op.toMove \cup op.held \cup op.strayed \subseteq op.files
        /\ op.held \cap op.strayed = {} /\ op.files # {} /\ applies \in Cleanups /\ applies' = applies
    BY <1>2 DEF Inv, CleanupInv, OpInv, Moves, Backs, history
  <2>2. QED
    BY <1>2, <2>1 DEF OpInv, Stepped, Before, Moves, Deletes, Backs
<1>9. /\ applies' = applies /\ quarantine'[<<f, applies>>] = Nothing
      /\ \A g \in Files : g # f => /\ home'[g] = home[g]
                                   /\ quarantine'[<<g, applies>>] = quarantine[<<g, applies>>]
  BY <1>3, <1>4 DEF Inv, Types, MoveBack, history
<1>10. KnownInv'
  <2>1. \A g \in Files : InTransit(g) => g = f
    BY <1>2 DEF InTransit, Returning, At
  <2>2. QED
    BY <1>2, <1>9, <2>1 DEF Inv, CleanupInv, QuarantineInv, KnownInv, Stepped
<1>11. LeftInv'
  <2>1. ASSUME ~op.restored
        PROVE  \E g \in op.files \ held : quarantine'[<<g, applies>>] # Nothing
    <3>1. PICK g \in op.files \ op.held : quarantine[<<g, applies>>] # Nothing
      BY <1>2, <2>1 DEF Inv, CleanupInv, QuarantineInv, LeftInv
    <3>2. g # f
      <4>1. op.pc # "undoMove"
        BY <2>1 DEF Inv, CleanupInv, OpInv, Moves
      <4>2. f = Last /\ op.held # {}
        BY <4>1 DEF Returning, At, Inv, CleanupInv, OpInv
      <4>3. QED
        BY <3>1, <4>2, Actors
    <3>3. QED
      BY <1>9, <3>1, <3>2, Actors
  <2>2. QED
    BY <1>9, <2>1 DEF LeftInv, Stepped
<1>12. HeldInv' /\ VerifiedInv' /\ ReturningInv'
  BY <1>2, <1>9, Actors DEF Inv, CleanupInv, QuarantineInv, HeldInv, VerifiedInv, ReturningInv,
     Returning, At, Stepped, Planned
<1>13. QED
  BY <1>7, <1>8, <1>10, <1>11, <1>12 DEF Inv, CleanupInv, QuarantineInv


LEMMA UndoMoveStep ==
  ASSUME Inv, UndoMove
  PROVE  Inv'
<1>1. PICK f : f = Min(op.toMove)
  OBVIOUS
<1>2. /\ op \in Op /\ f \in op.toMove /\ f \in op.files /\ f \in Files /\ op.applied /\ op.pc = "undoMove"
      /\ f \notin op.held /\ op.strayed = {} /\ op.restored /\ op.removed = {} /\ result' \in Results
      /\ UNCHANGED <<zip, saved, usage, plan, result, history>>
  BY <1>1, Actors DEF UndoMove, At, Inv, Types, CleanupInv, OpInv, Moves
<1>3. CASE MoveBack(f) /\ Goto("back")
  <2>1. Stepped("back", op.toMove, op.held, op.removed, op.restored, op.strayed)
    BY <1>2, <1>3, GotoStep DEF Steps
  <2>2. Returning(f)
    BY <1>1, <1>2 DEF Returning, At
  <2>3. QED
    BY <1>2, <1>3, <2>1, <2>2, ReturnStep
<1>4. CASE op' = [op EXCEPT !.pc = "back", !.strayed = {f}] /\ UNCHANGED <<home, quarantine>>
  <2>1. {f} \in SUBSET Files
    BY <1>2
  <2>2. Stepped("back", op.toMove, op.held, op.removed, op.restored, {f})
    BY <1>2, <1>4, <2>1 DEF Stepped, Op, Steps
  <2>3. Keeps /\ UNCHANGED <<disk, usage, plan, history>>
    BY <1>2, <1>4, <2>2 DEF Keeps, Stepped, disk
  <2>4. OpInv'
    BY <1>2, <2>2, <2>3 DEF Inv, CleanupInv, OpInv, Stepped, Before, Moves, Deletes, Backs, history
  <2>5. KnownInv' /\ HeldInv' /\ LeftInv' /\ VerifiedInv' /\ ReturningInv'
    BY <1>1, <1>2, <2>2, <2>3 DEF Inv, CleanupInv, QuarantineInv, KnownInv, HeldInv, LeftInv,
       VerifiedInv, ReturningInv, Stepped, Returning, At, InTransit, Planned, disk, history
  <2>6. op.pc \in Moves /\ op'.pc = "back"
    BY <1>2, <2>2 DEF Moves, Stepped
  <2>7. QED
    BY <1>2, <2>2, <2>3, <2>4, <2>5, <2>6, RemovalStep DEF Stepped, Backs
<1>5. QED
  BY <1>1, <1>3, <1>4 DEF UndoMove

LEMMA BackMoveStep ==
  ASSUME Inv, BackMove
  PROVE  Inv'
<1>1. PICK f : f = Last
  OBVIOUS
<1>2. /\ op \in Op /\ op.held # {} /\ f \in op.held /\ f \in Files /\ op.pc = "backMove"
      /\ result' \in Results /\ UNCHANGED <<zip, saved, usage, plan, result, history>>
  BY <1>1, Actors DEF BackMove, At, Inv, Types, CleanupInv, OpInv
<1>3. CASE MoveBack(f) /\ op' = [op EXCEPT !.pc = "back", !.held = @ \ {f}]
  <2>1. Stepped("back", op.toMove, op.held \ {f}, op.removed, op.restored, op.strayed)
    BY <1>2, <1>3 DEF Stepped, Op, Steps
  <2>2. Returning(f)
    BY <1>1, <1>2 DEF Returning
  <2>3. PICK held : held = op.held \ {f}
    OBVIOUS
  <2>4. QED
    BY <1>2, <1>3, <2>1, <2>2, <2>3, ReturnStep
<1>4. CASE Skip /\ UNCHANGED <<home, quarantine>>
  BY <1>2, <1>4, SkipStep DEF Backs, disk
<1>5. QED
  BY <1>1, <1>3, <1>4 DEF BackMove

LEMMA DeleteStep ==
  ASSUME Inv, Delete
  PROVE  Inv'
<1>1. PICK f : f = Min(op.held)
  OBVIOUS
<1>2. /\ op \in Op /\ f \in op.held /\ f \in op.files /\ f \in Files /\ op.applied /\ op.pc = "delete"
      /\ op.toMove = {} /\ op.strayed = {} /\ op.restored /\ f \notin op.removed /\ result' \in Results
      /\ UNCHANGED <<home, zip, saved, usage, plan, history>>
  BY <1>1, Actors DEF Delete, DeletionFails, Ends, Results, At, Inv, Types, CleanupInv, OpInv, Deletes
<1>3. CASE DeletionFails /\ UNCHANGED quarantine
  BY <1>2, <1>3, FailingDeletion DEF Deletes, disk
<1>4. CASE /\ quarantine' = [quarantine EXCEPT ![<<f, applies>>] = Nothing]
           /\ op' = [op EXCEPT !.pc = IF op.held = {f} THEN "rescan" ELSE "inspectDelete",
                               !.held = @ \ {f}, !.removed = @ \cup {f}]
  <2>1. Stepped(IF op.held = {f} THEN "rescan" ELSE "inspectDelete",
                op.toMove, op.held \ {f}, op.removed \cup {f}, op.restored, op.strayed)
    BY <1>2, <1>4 DEF Stepped, Op, Steps
  <2>2. Keeps
    BY <2>1 DEF Keeps, Stepped
  <2>3. PICK n, h, q : n = applies /\ h = home[f] /\ q = Nothing
    OBVIOUS
  <2>4. n \in Cleanups /\ h \in Contents \cup {Nothing} /\ home' = [home EXCEPT ![f] = h]
    BY <1>2, <2>3 DEF Inv, Types, CleanupInv, OpInv
  <2>5. Exchanged(f, n, h, q)
    BY <1>2, <1>4, <2>3, <2>4, Things DEF Exchanged
  <2>6. /\ quarantine[<<f, applies>>].file = Planned(f).file
        /\ <<f, Planned(f).file>> \in saved \cup forgone
    BY <1>1, <1>2 DEF Inv, CleanupInv, QuarantineInv, HeldInv, ArchiveInv
  <2>7. /\ op.pc \in Moves \cup Deletes \cup Backs /\ op'.pc \in {"inspectDelete", "rescan"}
        /\ op'.removed = op.removed \cup {f}
    BY <1>2, <2>1 DEF Deletes, Stepped
  <2>8. Types' /\ AgeInv' /\ PlaceInv' /\ PlanInv' /\ LedgerInv' /\ FreshInv' /\ ArchiveInv' /\ NothingLost'
    <3>1. \A k \in {home[f].file, quarantine[<<f, n>>].file} : k # 0 =>
            \/ k \in {h.file, q.file} \/ <<f, k>> \in forgone
            \/ f \in op'.removed /\ <<f, k>> \in saved
      BY <2>3, <2>6, <2>7
    <3>2. QED
      BY <1>2, <2>2, <2>3, <2>5, <2>6, <2>7, <3>1, DiskStep
  <2>9. OpInv'
    BY <1>2, <2>1 DEF Inv, CleanupInv, OpInv, Stepped, Before, Moves, Deletes, Backs, history
  <2>10. /\ applies' = applies /\ quarantine'[<<f, applies>>] = Nothing
         /\ \A g \in Files : g # f => quarantine'[<<g, applies>>] = quarantine[<<g, applies>>]
    BY <1>2, <1>4, <2>3, <2>4 DEF Inv, Types, history
  <2>11. KnownInv' /\ LeftInv' /\ VerifiedInv' /\ ReturningInv'
    BY <1>1, <1>2, <2>1, <2>10 DEF Inv, CleanupInv, QuarantineInv, KnownInv, LeftInv, VerifiedInv,
       ReturningInv, Stepped, Returning, At, InTransit
  <2>12. HeldInv'
    <3>1. home[f].file # Planned(f).file
      <4>1. quarantine[<<f, n>>] # Nothing
        BY <1>2, <2>3, <2>6, PlannedTypes, Things
      <4>2. QED
        BY <1>2, <2>3, <2>4, <2>6, <4>1 DEF Inv, CleanupInv, PlaceInv
    <3>2. QED
      BY <1>2, <2>1, <2>10, <3>1, Actors DEF Inv, CleanupInv, QuarantineInv, HeldInv, Stepped, Planned
  <2>13. QED
    BY <2>8, <2>9, <2>11, <2>12 DEF Inv, CleanupInv, QuarantineInv
<1>5. QED
  BY <1>1, <1>3, <1>4 DEF Delete


-----------------------------------------------------------------------------
(* A plan is applied; Codex, the other application and the machine.        *)

LEMMA ApplyStep ==
  ASSUME Inv, Apply
  PROVE  Inv'
<1> DEFINE files == {f \in Files : plan[f] # NoEntry}
<1>2. /\ op' \in Op /\ op'.pc = "scan" /\ op'.applied /\ op'.plan = plan /\ op'.files = files
      /\ op'.toMove = {} /\ op'.held = {} /\ op'.removed = {} /\ op'.restored /\ op'.strayed = {}
  <2>1. NoOp \in Op /\ plan \in [Files -> Entries \cup {NoEntry}] /\ files \in SUBSET Files
    BY IdleOp DEF Inv, Types
  <2>2. op' = [NoOp EXCEPT !.pc = "scan", !.applied = TRUE, !.plan = plan, !.files = files]
    BY DEF Apply
  <2> HIDE DEF files
  <2>3. QED
    BY <2>1, <2>2, IdleOp DEF Op, Steps
<1>3. /\ plan' = NoPlan /\ applies' = applies + 1 /\ zip' = "none" /\ result' = "none" /\ late' = {}
      /\ UNCHANGED <<home, quarantine, saved, cached, ledger, damages, arrivals, born, forgone>>
  BY DEF Apply, usage
<1>4. applies \in Nat /\ applies' \in Cleanups /\ applies' \in 0 .. MaxApplies
  BY <1>3, CleanupAssumption DEF Apply, Inv, Types, Cleanups
<1>5. Types'
  <2>1. NoPlan \in [Files -> Entries \cup {NoEntry}]
    BY DEF NoPlan
  <2>2. QED
    BY <1>2, <1>3, <1>4, <2>1 DEF Inv, Types, Results
<1>6. AgeInv' /\ PlaceInv'
  BY <1>3 DEF Inv, CleanupInv, AgeInv, PlaceInv
<1>7. PlanInv'
  <2>1. \A f \in Files : NoPlan[f] = NoEntry
    BY DEF NoPlan
  <2>2. \A f \in Files : PlannedInv(plan[f], f)
    BY DEF Inv, CleanupInv, PlanInv
  <2>3. QED
    BY <1>2, <1>3, <2>1, <2>2 DEF PlanInv, PlannedInv
<1>8. OpInv'
  <2>1. files # {}
    <3>1. plan # NoPlan /\ plan \in [Files -> Entries \cup {NoEntry}]
      BY DEF Apply, Inv, Types
    <3>2. ASSUME \A f \in Files : plan[f] = NoEntry
          PROVE  plan = NoPlan
      <4>1. plan = [f \in Files |-> plan[f]]
        BY <3>1
      <4>2. QED
        BY <3>2, <4>1 DEF NoPlan
    <3>3. QED
      BY <3>1, <3>2
  <2>2. QED
    BY <1>2, <1>4, <2>1 DEF OpInv, Before, Moves, Deletes, Backs
<1>9. LedgerInv'
  BY <1>2 DEF LedgerInv, Requested
<1>10. QuarantineInv'
  <2>1. ASSUME NEW f \in Files, NEW n \in Cleanups, n > applies
        PROVE  quarantine[<<f, n>>] = Nothing
    BY <2>1 DEF Inv, CleanupInv, QuarantineInv, FreshInv
  <2>2. FreshInv'
    BY <1>3, <1>4, <2>1 DEF FreshInv, Cleanups
  <2>3. KnownInv'
    BY <1>3, <1>4, <2>1 DEF KnownInv
  <2>4. HeldInv' /\ LeftInv' /\ VerifiedInv' /\ ReturningInv'
    BY <1>2 DEF HeldInv, LeftInv, VerifiedInv, ReturningInv, Returning, At
  <2>5. QED
    BY <2>2, <2>3, <2>4 DEF QuarantineInv
<1>11. ArchiveInv'
  BY <1>2, <1>3 DEF ArchiveInv, Validated, Requested
<1>12. NothingLost'
  BY <1>3 DEF Inv, CleanupInv, NothingLost, Present
<1>13. QED
  BY <1>5, <1>6, <1>7, <1>8, <1>9, <1>10, <1>11, <1>12 DEF Inv, CleanupInv

LEMMA ReadElsewhereStep ==
  ASSUME Inv, NEW f \in Files, ReadElsewhere(f)
  PROVE  Inv'
<1>1. op.pc = "evidence" /\ Read({f}) /\ UNCHANGED <<disk, ledger, plan, op, result, history>>
  BY DEF ReadElsewhere, At
<1>2. Keeps /\ result' \in Results /\ ledger' \subseteq Files \X Contents
  BY <1>1 DEF Keeps, Inv, Types
<1>3. cached' \in [Files -> Contents \cup {Nothing}]
  BY <1>1, ReadTypes DEF Inv
<1>4. Types' /\ AgeInv' /\ PlaceInv' /\ PlanInv' /\ NothingLost'
  BY <1>1, <1>2, <1>3, Quiet
<1>5. OpInv' /\ QuarantineInv'
  BY <1>1 DEF Inv, CleanupInv, OpInv, QuarantineInv, FreshInv, KnownInv, HeldInv, LeftInv,
     VerifiedInv, ReturningInv, Returning, At, Last, InTransit, Planned, disk, history
<1>6. LedgerInv'
  <2>1. ASSUME NEW g \in op.files, home[g] = Planned(g)
        PROVE  cached'[g] = home[g]
    <3>1. cached[g] = home[g] /\ g \in Files
      BY <1>1, <2>1, Actors DEF Inv, CleanupInv, LedgerInv
    <3>2. QED
      BY <1>1, <3>1 DEF Read
  <2>2. QED
    BY <1>1, <2>1 DEF Inv, CleanupInv, LedgerInv, Planned, disk, Requested
<1>7. ArchiveInv'
  <2>1. op'.removed = op.removed /\ op'.pc = "evidence"
    BY <1>1
  <2>2. op'.pc \in {"scan", "evidence", "validate", "write", "publish"} => zip = "none" \/ ~op.applied
    BY <1>1 DEF Inv, CleanupInv, ArchiveInv
  <2>3. QED
    BY <1>1, <2>1 DEF Inv, CleanupInv, ArchiveInv, Validated, Requested, PlannedFiles, Planned, disk, history
<1>8. QED
  BY <1>4, <1>5, <1>6, <1>7 DEF Inv, CleanupInv

LEMMA DamageStep ==
  ASSUME Inv, DamageArchive
  PROVE  Inv'
<1> DEFINE gone == op.removed \cup IF op.pc \in {"verifyDelete", "delete"} THEN {Min(op.held)} ELSE {}
<1>1. /\ zip = "whole" /\ op.pc # "idle" /\ zip' = "damaged" /\ saved' = saved \ PlannedFiles
      /\ damages < MaxDamages /\ damages' = damages + 1
      /\ forgone' = forgone \cup {<<f, Planned(f).file>> : f \in gone}
      /\ UNCHANGED <<home, quarantine, cached, ledger, plan, op, result, applies, arrivals, born, late>>
  BY DEF DamageArchive, ArchiveHolds, At, usage
<1>2. gone \subseteq op.files
  <2>1. op.pc \in {"idle", "inspectMoved", "rescan"} \cup Before \cup Moves \cup Deletes \cup Backs
    BY DEF Inv, Types, Op, Steps, Before, Moves, Deletes, Backs
  <2>2. op.removed \subseteq op.files
    BY <2>1, IdleOp DEF Inv, CleanupInv, OpInv
  <2>3. op.pc \in {"verifyDelete", "delete"} => Min(op.held) \in op.files
    BY Actors DEF Inv, CleanupInv, OpInv, Deletes
  <2>4. QED
    BY <2>2, <2>3
<1>3. Types'
  <2>1. \A f \in gone : <<f, Planned(f).file>> \in Files \X Versions
    BY <1>2, PlannedTypes
  <2>2. damages' \in 0 .. MaxDamages
    BY <1>1, CleanupAssumption DEF Inv, Types
  <2> HIDE DEF gone
  <2>3. QED
    BY <1>1, <2>1, <2>2 DEF Inv, Types
<1>4. AgeInv' /\ PlaceInv' /\ PlanInv' /\ LedgerInv'
  BY <1>1 DEF Inv, CleanupInv, AgeInv, PlaceInv, PlanInv, PlannedInv, LedgerInv, Planned
<1>5. OpInv' /\ FreshInv' /\ KnownInv' /\ HeldInv' /\ LeftInv' /\ VerifiedInv'
  BY <1>1 DEF Inv, CleanupInv, OpInv, QuarantineInv, FreshInv, KnownInv, HeldInv, LeftInv,
     VerifiedInv, Verified, At, InTransit, Planned
<1>6. ReturningInv'
  BY <1>1 DEF Inv, CleanupInv, QuarantineInv, ReturningInv, Returning, At, Last
<1>7. \A f : Planned(f)' = Planned(f)
  BY <1>1 DEF Planned
<1>8. ASSUME NEW f \in op.files
      PROVE  IsPresent(f, Planned(f).file) \/ <<f, Planned(f).file>> \in forgone'
  <2>1. CASE f \in op.removed
    BY <1>1, <2>1
  <2>2. CASE f \notin op.removed
    <3>1. op.applied
      BY DEF Inv, CleanupInv, OpInv
    <3>2. op.pc \in Validated
      BY <1>1, <3>1 DEF Inv, Types, Op, CleanupInv, ArchiveInv, Validated, Requested
    <3>3. QED
      BY <1>1, <2>2, <3>2 DEF Inv, CleanupInv, ArchiveInv
  <2>3. QED
    BY <2>1, <2>2
<1>9. ArchiveInv'
  <2>1. \A f \in op.removed : <<f, Planned(f).file>> \in forgone'
    BY <1>1
  <2>2. op.pc \in {"verifyDelete", "delete"} => LET f == Min(op.held) IN <<f, Planned(f).file>> \in forgone'
    BY <1>1
  <2>3. op.applied => op.pc \notin {"scan", "evidence", "validate", "write", "publish"}
    BY <1>1 DEF Inv, CleanupInv, ArchiveInv
  <2>4. \A f, n : IsPresent(f, n)' = IsPresent(f, n)
    BY <1>1 DEF IsPresent, Present
  <2>5. (op.pc \in Validated => \A f \in op.files \ op.removed :
           IsPresent(f, Planned(f).file) \/ <<f, Planned(f).file>> \in forgone)'
    BY <1>1, <1>7, <1>8, <2>4
  <2>6. QED
    BY <1>1, <1>7, <2>1, <2>2, <2>3, <2>5 DEF ArchiveInv
<1>10. NothingLost'
  <2>1. ASSUME NEW f \in Files, NEW n \in 1 .. born[f]
        PROVE  IsPresent(f, n) \/ <<f, n>> \in saved' \/ <<f, n>> \in forgone'
    <3>1. IsPresent(f, n) \/ <<f, n>> \in saved \/ <<f, n>> \in forgone
      BY DEF Inv, CleanupInv, NothingLost, IsPresent
    <3>2. CASE <<f, n>> \in PlannedFiles
      <4>1. f \in op.files /\ n = Planned(f).file
        BY <3>2 DEF PlannedFiles
      <4>2. QED
        BY <1>8, <4>1
    <3>3. QED
      BY <1>1, <3>1, <3>2
  <2>2. \A f, n : IsPresent(f, n)' = IsPresent(f, n)
    BY <1>1 DEF IsPresent, Present
  <2>3. born' = born
    BY <1>1
  <2>4. NothingLost' <=> \A f \in Files : \A n \in 1 .. born'[f] :
                            IsPresent(f, n)' \/ <<f, n>> \in saved' \/ <<f, n>> \in forgone'
    BY DEF NothingLost, IsPresent
  <2>5. QED
    BY <2>1, <2>2, <2>3, <2>4
<1>11. QED
  BY <1>3, <1>4, <1>5, <1>6, <1>9, <1>10 DEF Inv, CleanupInv, QuarantineInv


\* Nothing that the operation knows changes when somebody else writes.
LEMMA Elsewhere ==
  ASSUME Inv, UNCHANGED <<zip, saved, cached, ledger, plan, op, applies>>
  PROVE  /\ OpInv' /\ \A f : Planned(f)' = Planned(f)
         /\ op.pc \in Requested => LedgerInv'
<1>1. \A f : Planned(f)' = Planned(f)
  BY DEF Planned
<1>2. OpInv'
  BY DEF Inv, CleanupInv, OpInv
<1>3. op.pc \in Requested => LedgerInv'
  BY <1>1 DEF Inv, CleanupInv, LedgerInv, Requested
<1>4. QED
  BY <1>1, <1>2, <1>3

\* A file that is written to stays where it is.
GrownHome ==
    /\ home' \in [Files -> Contents \cup {Nothing}]
    /\ \A g \in Files : /\ home'[g].file = home[g].file
                        /\ home'[g] = Nothing <=> home[g] = Nothing
                        /\ home'[g] = home[g] \/ home'[g].more

GrownQuarantine(f) ==
    /\ quarantine' \in [Files \X Cleanups -> Contents \cup {Nothing}]
    /\ \A g \in Files, n \in Cleanups :
          /\ quarantine'[<<g, n>>].file = quarantine[<<g, n>>].file
          /\ quarantine'[<<g, n>>] = Nothing <=> quarantine[<<g, n>>] = Nothing
          /\ \/ quarantine'[<<g, n>>] = quarantine[<<g, n>>]
             \/ g = f /\ (n = applies /\ Deleting(f) => f \in late')

LEMMA Grown ==
  ASSUME Types, NEW f \in Files, Grow(f)
  PROVE  GrownHome /\ GrownQuarantine(f) /\ late' \subseteq Files /\ late \subseteq late'
<1> USE DEF GrownHome, GrownQuarantine
<1>1. CASE home[f] # Nothing /\ home' = [home EXCEPT ![f].more = TRUE] /\ UNCHANGED <<quarantine, late>>
  <2>1. home[f] \in Contents
    BY <1>1 DEF Types
  <2>2. /\ [home[f] EXCEPT !.more = TRUE] \in Contents /\ [home[f] EXCEPT !.more = TRUE].more
        /\ [home[f] EXCEPT !.more = TRUE].file = home[f].file
        /\ [home[f] EXCEPT !.more = TRUE] # Nothing
    BY <2>1, Things
  <2>3. home'[f] = [home[f] EXCEPT !.more = TRUE] /\ \A g \in Files : g # f => home'[g] = home[g]
    BY <1>1 DEF Types
  <2>4. home' \in [Files -> Contents \cup {Nothing}]
    BY <1>1, <2>2 DEF Types
  <2>5. QED
    BY <1>1, <2>2, <2>3, <2>4 DEF Types
<1>2. ASSUME NEW n \in Cleanups, quarantine[<<f, n>>] # Nothing,
             quarantine' = [quarantine EXCEPT ![<<f, n>>].more = TRUE],
             Behind(f, n = applies /\ Deleting(f)), UNCHANGED home
      PROVE  GrownHome /\ GrownQuarantine(f) /\ late' \subseteq Files /\ late \subseteq late'
  <2>1. quarantine[<<f, n>>] \in Contents
    BY <1>2 DEF Types
  <2> DEFINE grown == [quarantine[<<f, n>>] EXCEPT !.more = TRUE]
  <2>2. grown \in Contents /\ grown.file = quarantine[<<f, n>>].file /\ grown # Nothing
    BY <2>1, Things
  <2>3. /\ quarantine'[<<f, n>>] = grown
        /\ \A g \in Files, m \in Cleanups : <<g, m>> # <<f, n>> => quarantine'[<<g, m>>] = quarantine[<<g, m>>]
    BY <1>2 DEF Types
  <2>4. quarantine' \in [Files \X Cleanups -> Contents \cup {Nothing}]
    BY <1>2, <2>2 DEF Types
  <2> HIDE DEF grown
  <2>5. late' \subseteq Files /\ late \subseteq late' /\ (n = applies /\ Deleting(f) => f \in late')
    BY <1>2 DEF Behind, Types
  <2>6. GrownQuarantine(f)
    <3>1. SUFFICES ASSUME NEW g \in Files, NEW m \in Cleanups
                   PROVE  /\ quarantine'[<<g, m>>].file = quarantine[<<g, m>>].file
                          /\ quarantine'[<<g, m>>] = Nothing <=> quarantine[<<g, m>>] = Nothing
                          /\ \/ quarantine'[<<g, m>>] = quarantine[<<g, m>>]
                             \/ g = f /\ (m = applies /\ Deleting(f) => f \in late')
      BY <2>4
    <3>2. CASE g = f /\ m = n
      BY <1>2, <2>2, <2>3, <2>5, <3>2
    <3>3. CASE g # f \/ m # n
      BY <2>3, <3>3
    <3>4. QED
      BY <3>2, <3>3
  <2>7. QED
    BY <1>2, <2>5, <2>6 DEF Types
<1>3. QED
  BY <1>1, <1>2 DEF Grow

LEMMA GrowStep ==
  ASSUME Inv, NEW f \in Files, Grow(f)
  PROVE  Inv'
<1>1. UNCHANGED <<zip, saved, cached, ledger, plan, op, result, applies, damages, arrivals, born, forgone>>
  BY DEF Grow, usage
<1>2. GrownHome /\ GrownQuarantine(f) /\ late' \subseteq Files /\ late \subseteq late'
  BY Grown DEF Inv
<1> USE DEF GrownHome, GrownQuarantine
<1>3. Types'
  BY <1>1, <1>2 DEF Inv, Types
<1>4. AgeInv' /\ PlaceInv'
  BY <1>1, <1>2 DEF Inv, CleanupInv, AgeInv, PlaceInv
<1>5. PlanInv'
  BY <1>1 DEF Inv, CleanupInv, PlanInv, PlannedInv
<1>6. OpInv' /\ (op.pc \in Requested => LedgerInv') /\ \A g : Planned(g)' = Planned(g)
  BY <1>1, Elsewhere
<1>7. LedgerInv'
  <2>1. ASSUME op.pc = "evidence", NEW g \in op.files, home'[g] = Planned(g)
        PROVE  cached[g] = home'[g]
    <3>1. g \in Files /\ ~home'[g].more
      BY <2>1, PlannedTypes
    <3>2. home'[g] = home[g]
      BY <1>2, <3>1
    <3>3. QED
      BY <2>1, <3>2 DEF Inv, CleanupInv, LedgerInv
  <2>2. QED
    BY <1>1, <1>6, <2>1 DEF Inv, CleanupInv, LedgerInv
<1>8. FreshInv' /\ LeftInv'
  <2>1. op.applied => applies \in Cleanups
    BY DEF Inv, CleanupInv, OpInv
  <2>2. FreshInv'
    BY <1>1, <1>2 DEF Inv, CleanupInv, QuarantineInv, FreshInv
  <2>3. LeftInv'
    BY <1>1, <1>2, <2>1, Actors DEF Inv, CleanupInv, QuarantineInv, LeftInv
  <2>4. QED
    BY <2>2, <2>3
<1>9. KnownInv'
  BY <1>1, <1>2 DEF Inv, CleanupInv, QuarantineInv, KnownInv, InTransit, OpInv
<1>10. HeldInv'
  BY <1>1, <1>2, <1>6, Actors DEF Inv, CleanupInv, QuarantineInv, HeldInv, OpInv
<1>11. VerifiedInv'
  <2>1. ASSUME op.pc = "delete"
        PROVE  quarantine'[<<Min(op.held), applies>>] = Planned(Min(op.held)) \/ Min(op.held) \in late'
    <3>1. Min(op.held) \in Files /\ applies \in Cleanups
      BY <2>1, Actors DEF Inv, CleanupInv, OpInv, Deletes
    <3>2. quarantine[<<Min(op.held), applies>>] = Planned(Min(op.held)) \/ Min(op.held) \in late
      BY <2>1 DEF Inv, CleanupInv, QuarantineInv, VerifiedInv, Verified, At
    <3>3. Min(op.held) = f => Deleting(f)
      BY <2>1 DEF Deleting, At
    <3>4. QED
      BY <1>2, <3>1, <3>2, <3>3
  <2>2. QED
    BY <1>1, <1>6, <2>1 DEF VerifiedInv, Verified, At
<1>12. ReturningInv'
  BY <1>1, <1>2 DEF Inv, CleanupInv, QuarantineInv, ReturningInv, Returning, At, Last
<1>13. \A g \in Files, k \in Nat : IsPresent(g, k)' <=> IsPresent(g, k)
  <2>1. ASSUME NEW g \in Files, NEW k \in Nat
        PROVE  IsPresent(g, k)' <=> IsPresent(g, k)
    <3>1. IsPresent(g, k)' <=> home'[g].file = k \/ \E m \in Cleanups : quarantine'[<<g, m>>].file = k
      BY DEF IsPresent, Present
    <3>2. IsPresent(g, k) <=> home[g].file = k \/ \E m \in Cleanups : quarantine[<<g, m>>].file = k
      BY Places
    <3>3. QED
      BY <1>2, <3>1, <3>2
  <2>2. QED
    BY <2>1
<1>14. ArchiveInv'
  <2>1. \A g \in op.files : IsPresent(g, Planned(g).file) => \A k : k = Planned(g).file => IsPresent(g, k)'
    BY <1>13, Actors, PlannedTypes, Things
  <2>2. (op.pc \in Validated => \A g \in op.files \ op.removed :
           IsPresent(g, Planned(g).file) \/ <<g, Planned(g).file>> \in forgone)'
    BY <1>1, <1>6, <2>1 DEF Inv, CleanupInv, ArchiveInv, IsPresent, Present
  <2>3. PlannedFiles' = PlannedFiles
    BY <1>1, <1>6 DEF PlannedFiles
  <2>4. QED
    BY <1>1, <1>6, <2>2, <2>3 DEF Inv, CleanupInv, ArchiveInv
<1>15. NothingLost'
  <2>1. \A g \in Files : \A k \in 1 .. born[g] : k \in Nat
    BY Numbers DEF Inv
  <2>2. NothingLost <=> \A g \in Files : \A k \in 1 .. born[g] :
                           IsPresent(g, k) \/ <<g, k>> \in saved \/ <<g, k>> \in forgone
    BY DEF NothingLost, IsPresent
  <2>3. NothingLost' <=> \A g \in Files : \A k \in 1 .. born'[g] :
                            IsPresent(g, k)' \/ <<g, k>> \in saved' \/ <<g, k>> \in forgone'
    BY DEF NothingLost, IsPresent
  <2>4. NothingLost /\ UNCHANGED <<born, saved, forgone>>
    BY <1>1 DEF Inv, CleanupInv
  <2>5. QED
    BY <1>13, <2>1, <2>2, <2>3, <2>4
<1>16. QED
  BY <1>3, <1>4, <1>5, <1>6, <1>7, <1>8, <1>9, <1>10, <1>11, <1>12, <1>14, <1>15
     DEF Inv, CleanupInv, QuarantineInv

LEMMA ArriveStep ==
  ASSUME Inv, NEW f \in Files, Arrive(f)
  PROVE  Inv'
<1>1. UNCHANGED <<quarantine, zip, saved, cached, ledger, plan, op, result, applies, damages>>
  BY DEF Arrive, usage
<1>2. PICK new : new = born[f] + 1
  OBVIOUS
<1>3. /\ arrivals < MaxArrivals /\ arrivals' = arrivals + 1 /\ arrivals' \in 0 .. MaxArrivals
      /\ born[f] \in Nat /\ born[f] <= arrivals + 1 /\ new \in Versions
  BY <1>2, Numbers, CleanupAssumption DEF Arrive, Inv, Types, CleanupInv, AgeInv, Versions
<1>4. /\ born' = [born EXCEPT ![f] = new] /\ home' = [home EXCEPT ![f] = Content(new)]
      /\ forgone' = forgone \cup (IF home[f] = Nothing THEN {} ELSE {<<f, home[f].file>>})
                            \cup (IF Returning(f) THEN {<<f, new>>} ELSE {})
      /\ late' = IF Returning(f) THEN late \cup {f} ELSE late
  BY <1>2 DEF Arrive, Behind
<1>5. /\ home'[f] \in Contents /\ home'[f].file = new /\ home'[f] # Nothing /\ born'[f] = new
      /\ \A g \in Files : g # f => home'[g] = home[g] /\ born'[g] = born[g]
      /\ home' \in [Files -> Contents \cup {Nothing}] /\ born' \in [Files -> Versions]
  BY <1>3, <1>4, Things DEF Inv, Types
<1>6. forgone \subseteq forgone' /\ late \subseteq late' /\ late' \subseteq Files /\ forgone' \subseteq Files \X Versions
  <2>1. home[f] # Nothing => home[f].file \in Versions
    BY Things DEF Inv, Types
  <2>2. QED
    BY <1>3, <1>4, <2>1 DEF Inv, Types
<1>7. Types'
  BY <1>1, <1>3, <1>5, <1>6 DEF Inv, Types
<1>8. \A g \in Files : born'[g] \in Nat /\ born'[g] >= born[g]
  BY <1>2, <1>3, <1>5, Numbers, Things DEF Inv
<1>9. AgeInv'
  <2>1. ASSUME NEW g \in Files
        PROVE  /\ born'[g] <= arrivals' + 1 /\ home'[g].file <= born'[g]
               /\ \A n \in Cleanups : quarantine[<<g, n>>].file <= born'[g]
    <3>1. /\ born[g] <= arrivals + 1 /\ home[g].file <= born[g] /\ born[g] \in Nat /\ arrivals \in Nat
          /\ home[g].file \in Nat
          /\ \A n \in Cleanups : quarantine[<<g, n>>].file <= born[g] /\ quarantine[<<g, n>>].file \in Nat
      BY Numbers DEF Inv, CleanupInv, AgeInv
    <3>2. CASE g = f
      BY <1>2, <1>3, <1>5, <3>1, <3>2
    <3>3. CASE g # f
      BY <1>3, <1>5, <3>1, <3>3
    <3>4. QED
      BY <3>2, <3>3
  <2>2. QED
    BY <1>1, <2>1 DEF AgeInv
<1>10. PlaceInv'
  <2>1. \A n \in Cleanups : quarantine[<<f, n>>].file <= born[f] /\ quarantine[<<f, n>>].file \in Nat
    BY Numbers DEF Inv, CleanupInv, AgeInv
  <2>2. \A n \in Cleanups : quarantine[<<f, n>>].file # new
    BY <1>2, <1>3, <2>1
  <2>3. ASSUME NEW g \in Files, NEW n \in Cleanups, quarantine[<<g, n>>] # Nothing
        PROVE  home'[g].file # quarantine[<<g, n>>].file
    <3>1. home[g].file # quarantine[<<g, n>>].file
      BY <2>3 DEF Inv, CleanupInv, PlaceInv
    <3>2. QED
      BY <1>5, <2>2, <3>1
  <2>4. \A g \in Files, n \in Cleanups : quarantine[<<g, n>>] # Nothing =>
            \A m \in Cleanups \ {n} : quarantine[<<g, m>>].file # quarantine[<<g, n>>].file
    BY DEF Inv, CleanupInv, PlaceInv
  <2>5. QED
    BY <1>1, <2>3, <2>4 DEF PlaceInv
<1>11. PlanInv'
  <2>1. ASSUME NEW g \in Files, NEW entry \in Entries \cup {NoEntry}, PlannedInv(entry, g)
        PROVE  PlannedInv(entry, g)'
    <3>1. entry # NoEntry => entry.snapshot.file \in Nat
      BY <2>1, Things DEF PlannedInv
    <3>2. QED
      BY <1>8, <2>1, <3>1, Numbers DEF PlannedInv, Inv
  <2>2. \A g \in Files : plan[g] \in Entries \cup {NoEntry} /\ op.plan[g] \in Entries \cup {NoEntry}
    BY DEF Inv, Types, Op
  <2>3. QED
    BY <1>1, <2>1, <2>2 DEF Inv, CleanupInv, PlanInv, PlannedInv
<1>12. OpInv' /\ (op.pc \in Requested => LedgerInv') /\ \A g : Planned(g)' = Planned(g)
  BY <1>1, Elsewhere
<1>13. f \in op.files => Planned(f).file # new
  <2>1. f \in op.files => Planned(f).file <= born[f] /\ Planned(f).file \in Nat
    BY PlannedTypes, Things DEF Inv, CleanupInv, PlanInv, PlannedInv, Planned
  <2>2. QED
    BY <1>2, <1>3, <2>1
<1>14. LedgerInv'
  <2>1. ASSUME op.pc = "evidence", NEW g \in op.files, home'[g] = Planned(g)
        PROVE  cached[g] = home'[g]
    <3>1. g # f /\ g \in Files
      BY <1>5, <1>13, <2>1, Actors
    <3>2. QED
      BY <1>5, <2>1, <3>1 DEF Inv, CleanupInv, LedgerInv
  <2>2. QED
    BY <1>1, <1>12, <2>1 DEF Inv, CleanupInv, LedgerInv
<1>15. FreshInv' /\ KnownInv' /\ LeftInv'
  BY <1>1 DEF Inv, CleanupInv, QuarantineInv, FreshInv, KnownInv, LeftInv, InTransit
<1>16. VerifiedInv'
  BY <1>1, <1>6, <1>12 DEF Inv, CleanupInv, QuarantineInv, VerifiedInv, Verified, At
<1>17. HeldInv'
  <2>1. op.removed \subseteq op.files
    <3>1. op.pc \in {"idle", "inspectMoved", "rescan"} \cup Before \cup Moves \cup Deletes \cup Backs
      BY DEF Inv, Types, Op, Steps, Before, Moves, Deletes, Backs
    <3>2. QED
      BY <3>1, IdleOp DEF Inv, CleanupInv, OpInv
  <2>2. ASSUME op.applied, NEW g \in op.removed
        PROVE  home'[g].file # Planned(g).file
    BY <1>5, <1>13, <2>1, <2>2, Actors DEF Inv, CleanupInv, QuarantineInv, HeldInv
  <2>3. QED
    BY <1>1, <1>12, <2>2 DEF Inv, CleanupInv, QuarantineInv, HeldInv
<1>18. ReturningInv'
  <2>1. \A g : Returning(g)' <=> Returning(g)
    BY <1>1 DEF Returning, At, Last
  <2>2. ASSUME NEW g \in Files, Returning(g)
        PROVE  home'[g] = Nothing \/ (g \in late' /\ <<g, home'[g].file>> \in forgone')
    <3>1. CASE g = f
      BY <1>4, <1>5, <2>2, <3>1
    <3>2. CASE g # f
      BY <1>5, <1>6, <2>2, <3>2 DEF Inv, CleanupInv, QuarantineInv, ReturningInv
    <3>3. QED
      BY <3>1, <3>2
  <2>3. QED
    BY <2>1, <2>2 DEF ReturningInv
<1>19. ASSUME NEW g \in Files, NEW k, IsPresent(g, k), k # 0
       PROVE  IsPresent(g, k)' \/ <<g, k>> \in forgone'
  <2>1. IsPresent(g, k)' <=> home'[g].file = k \/ \E m \in Cleanups : quarantine'[<<g, m>>].file = k
    BY DEF IsPresent, Present
  <2>2. IsPresent(g, k) <=> home[g].file = k \/ \E m \in Cleanups : quarantine[<<g, m>>].file = k
    BY Places
  <2>3. home[f].file # 0 => <<f, home[f].file>> \in forgone'
    BY <1>4, Things
  <2>4. QED
    BY <1>1, <1>5, <1>19, <2>1, <2>2, <2>3
<1>20. ArchiveInv'
  <2>1. ASSUME op.pc \in Validated, NEW g \in op.files \ op.removed
        PROVE  \A k : k = Planned(g).file => IsPresent(g, k)' \/ <<g, k>> \in forgone'
    <3>1. g \in Files /\ Planned(g).file # 0
      BY Actors, PlannedTypes
    <3>2. IsPresent(g, Planned(g).file) \/ <<g, Planned(g).file>> \in forgone
      BY <2>1 DEF Inv, CleanupInv, ArchiveInv
    <3>3. QED
      BY <1>6, <1>19, <3>1, <3>2
  <2>2. (op.pc \in Validated => \A g \in op.files \ op.removed :
           IsPresent(g, Planned(g).file) \/ <<g, Planned(g).file>> \in forgone)'
    BY <1>1, <1>12, <2>1 DEF IsPresent, Present
  <2>3. PlannedFiles' = PlannedFiles
    BY <1>1, <1>12 DEF PlannedFiles
  <2>4. QED
    BY <1>1, <1>6, <1>12, <2>2, <2>3 DEF Inv, CleanupInv, ArchiveInv
<1>21. NothingLost'
  <2>1. ASSUME NEW g \in Files, NEW k \in 1 .. born'[g]
        PROVE  IsPresent(g, k)' \/ <<g, k>> \in saved' \/ <<g, k>> \in forgone'
    <3>1. CASE k \in 1 .. born[g]
      <4>1. IsPresent(g, k) \/ <<g, k>> \in saved \/ <<g, k>> \in forgone
        BY <3>1 DEF Inv, CleanupInv, NothingLost, IsPresent
      <4>2. k # 0
        OBVIOUS
      <4>3. QED
        BY <1>1, <1>6, <1>19, <4>1, <4>2
    <3>2. CASE k \notin 1 .. born[g]
      <4>1. g = f /\ k = new
        BY <1>2, <1>3, <1>5, <3>2
      <4>2. QED
        BY <1>5, <4>1 DEF IsPresent, Present
    <3>3. QED
      BY <3>1, <3>2
  <2>2. QED
    BY <2>1 DEF NothingLost, IsPresent, Present
<1>22. QED
  BY <1>7, <1>9, <1>10, <1>11, <1>12, <1>14, <1>15, <1>16, <1>17, <1>18, <1>20, <1>21
     DEF Inv, CleanupInv, QuarantineInv

-----------------------------------------------------------------------------
(* The invariant.                                                          *)

LEMMA NextStep ==
  ASSUME Inv, [Next]_vars
  PROVE  Inv'
<1>1. CASE UNCHANGED vars
  <2>1. UNCHANGED <<home, quarantine, zip, saved, cached, ledger, plan, op, result, applies, damages,
                    arrivals, born, forgone, late>>
    BY <1>1 DEF vars, disk, usage, history
  <2>2. Types'
    BY <2>1 DEF Inv, Types
  <2>3. AgeInv' /\ PlaceInv' /\ LedgerInv'
    <3>1. AgeInv'
      BY <2>1 DEF Inv, CleanupInv, AgeInv
    <3>2. PlaceInv'
      BY <2>1 DEF Inv, CleanupInv, PlaceInv
    <3>3. LedgerInv'
      BY <2>1 DEF Inv, CleanupInv, LedgerInv, Planned
    <3>4. QED
      BY <3>1, <3>2, <3>3
  <2>4. PlanInv'
    BY <2>1 DEF Inv, CleanupInv, PlanInv, PlannedInv, Planned
  <2>5. OpInv'
    BY <2>1 DEF Inv, CleanupInv, OpInv
  <2>6. QuarantineInv'
    BY <2>1 DEF Inv, CleanupInv, QuarantineInv, FreshInv, KnownInv, HeldInv, LeftInv, VerifiedInv,
       ReturningInv, Returning, At, Last, Verified, InTransit, Planned
  <2>7. ArchiveInv' /\ NothingLost'
    BY <2>1 DEF Inv, CleanupInv, ArchiveInv, PlannedFiles, NothingLost, IsPresent, Present, Planned
  <2>8. QED
    BY <2>2, <2>3, <2>4, <2>5, <2>6, <2>7 DEF Inv, CleanupInv
<1>2. CASE Preview \/ Apply \/ Scan \/ PlanCleanup \/ RequestArchive
  BY <1>2, PreviewStep, ApplyStep, ScanStep, PlanStep, RequestStep
<1>3. CASE Validate \/ WriteArchive \/ Publish \/ Authorize \/ ValidateAgain \/ Inspect
  BY <1>3, ValidateStep, WriteStep, PublishStep, AuthorizeStep, ValidateAgainStep, InspectStep
<1>4. CASE Move \/ Moved \/ Undo \/ UndoMove \/ InspectMoved
  BY <1>4, MoveStep, MovedStep, UndoStep, UndoMoveStep, InspectMovedStep
<1>5. CASE InspectDelete \/ VerifyDelete \/ Delete \/ Rescan
  BY <1>5, InspectDeleteStep, VerifyDeleteStep, DeleteStep, RescanStep
<1>6. CASE Back \/ BackVerify \/ BackMove
  BY <1>6, BackStep, BackVerifyStep, BackMoveStep
<1>7. CASE \E f \in Files : Grow(f) \/ Arrive(f) \/ ReadElsewhere(f)
  BY <1>7, GrowStep, ArriveStep, ReadElsewhereStep
<1>8. CASE DamageArchive \/ Killed
  BY <1>8, DamageStep, KilledStep
<1>9. QED
  BY <1>1, <1>2, <1>3, <1>4, <1>5, <1>6, <1>7, <1>8 DEF Next

\* Where every source of a cleanup is at each of its steps, and what was found
\* out about it, from the scan to the last deletion.
THEOREM CleanupInvariant == Spec => [](Types /\ CleanupInv)
<1>1. Inv /\ [Next]_vars => Inv'
  BY NextStep
<1>2. QED
  BY <1>1, InvInit, PTL DEF Spec, Inv


-----------------------------------------------------------------------------
(* What is removed is archived and counted.                                *)

LEMMA Parts ==
  ASSUME Inv
  PROVE  /\ op.toMove \cup op.held \cup op.removed \subseteq op.files
         /\ op.toMove \cap op.held = {} /\ op.held \cap op.removed = {}
         /\ op.removed # {} => op.pc \in Requested
<1>1. op.pc \in {"idle", "inspectMoved", "rescan"} \cup Before \cup Moves \cup Deletes \cup Backs
  BY DEF Inv, Types, Op, Steps, Before, Moves, Deletes, Backs
<1>2. CASE op.pc \in {"idle", "inspectMoved", "rescan"} \cup Before
  BY <1>2, IdleOp DEF Inv, CleanupInv, OpInv, Before, Requested, Steps
<1>3. CASE op.pc \in Moves \cup Deletes \cup Backs
  BY <1>3 DEF Inv, CleanupInv, OpInv, Moves, Deletes, Backs, Requested, Steps
<1>4. QED
  BY <1>1, <1>2, <1>3

\* A cleanup removes nothing whose content is not in an archive and whose usage
\* is not in the ledger, and no file is lost, whatever fails and is killed.
THEOREM ArchiveIsKept == Spec => []ArchiveKept
<1>1. Inv => ArchiveKept
  <2> SUFFICES ASSUME Inv PROVE ArchiveKept
    OBVIOUS
  <2>2. TypeOK
    <3>1. DOMAIN op = DOMAIN NoOp /\ op.pc \in Steps
      BY IdleOp DEF Inv, Types, Op
    <3>2. QED
      BY <3>1, Parts DEF Inv, Types, TypeOK
  <2>3. UsageKept
    BY Parts DEF Inv, CleanupInv, LedgerInv, UsageKept
  <2>4. QED
    BY <2>2, <2>3 DEF ArchiveKept, Inv, CleanupInv
<1>2. QED
  BY <1>1, CleanupInvariant, PTL DEF Inv

-----------------------------------------------------------------------------
(* What somebody else wrote survives.                                      *)

LEMMA StaysPresent ==
  ASSUME UNCHANGED <<home, quarantine>>, NEW f
  PROVE  Present(f) \subseteq Present(f)'
  BY DEF Present

\* A file that is moved is still there, unless it takes the place of another.
LEMMA MovedPresent ==
  ASSUME Types, NEW f, NEW n, NEW h, NEW q, Exchanged(f, n, h, q),
         NEW c, home[f] \in {h, q, c, Nothing}, quarantine[<<f, n>>] \in {h, q, c, Nothing},
         NEW g \in Files
  PROVE  Present(g) \subseteq Present(g)' \cup {IF g = f THEN c ELSE Nothing, Nothing}
<1> USE DEF Exchanged, Types
<1>1. home'[f] = h /\ \A g1 \in Files : g1 # f => home'[g1] = home[g1]
  OBVIOUS
<1>2. /\ quarantine'[<<f, n>>] = q
      /\ \A m \in Cleanups : m # n => quarantine'[<<f, m>>] = quarantine[<<f, m>>]
      /\ \A g1 \in Files : g1 # f => \A m \in Cleanups : quarantine'[<<g1, m>>] = quarantine[<<g1, m>>]
  OBVIOUS
<1>3. n \in Cleanups
  OBVIOUS
<1>4. CASE g = f
  <2>1. h \in Present(f)' /\ q \in Present(f)'
    BY <1>1, <1>2, <1>3 DEF Present
  <2>2. \A m \in Cleanups : m # n => quarantine[<<f, m>>] \in Present(f)'
    BY <1>2 DEF Present
  <2>3. \A x \in Present(f) : x = home[f] \/ \E m \in Cleanups : x = quarantine[<<f, m>>]
    BY DEF Present
  <2>4. ASSUME NEW x \in Present(f)
        PROVE  x \in {h, q, c, Nothing} \/ x \in Present(f)'
    <3>1. CASE x = home[f]
      BY <3>1
    <3>2. ASSUME NEW m \in Cleanups, x = quarantine[<<f, m>>]
          PROVE  x \in {h, q, c, Nothing} \/ x \in Present(f)'
      BY <2>2, <3>2
    <3>3. QED
      BY <2>3, <3>1, <3>2
  <2>5. \A x \in Present(f) : x \in Present(f)' \cup {c, Nothing}
    BY <2>1, <2>4
  <2>6. QED
    BY <1>4, <2>5
<1>5. CASE g # f
  BY <1>1, <1>2, <1>5 DEF Present
<1>6. QED
  BY <1>4, <1>5

LEMMA SurvivesStep ==
  ASSUME Inv, Next, op' # op, NEW g \in Files \ late
  PROVE  Present(g) \subseteq Present(g)' \cup {Planned(g), Nothing}
<1> DEFINE Survives == Present(g) \subseteq Present(g)' \cup {Planned(g), Nothing}
<1>1. CASE UNCHANGED <<home, quarantine>>
  BY <1>1, StaysPresent
<1>2. ASSUME NEW f \in Files, MoveBack(f), Returning(f)
      PROVE  Survives
  <2>1. PICK n, h, q : n = applies /\ h = quarantine[<<f, applies>>] /\ q = Nothing
    OBVIOUS
  <2>2. n \in Cleanups /\ h \in Contents \cup {Nothing}
    BY <1>2, <2>1 DEF Returning, At, Inv, Types, CleanupInv, OpInv
  <2>3. Exchanged(f, n, h, q)
    BY <1>2, <2>1, <2>2, Things DEF Exchanged, MoveBack
  <2>4. CASE home[f] = Nothing
    <3>1. home[f] \in {h, q, Nothing, Nothing} /\ quarantine[<<f, n>>] \in {h, q, Nothing, Nothing}
      BY <2>1, <2>4
    <3>2. QED
      BY <2>3, <3>1, MovedPresent DEF Inv
  <2>5. CASE home[f] # Nothing
    <3>1. f \in late
      BY <1>2, <2>5 DEF Inv, CleanupInv, QuarantineInv, ReturningInv
    <3>2. PICK c : c = home[f]
      OBVIOUS
    <3>3. home[f] \in {h, q, c, Nothing} /\ quarantine[<<f, n>>] \in {h, q, c, Nothing} /\ g # f
      BY <2>1, <3>1, <3>2
    <3>4. QED
      BY <2>3, <3>3, MovedPresent DEF Inv
  <2>6. QED
    BY <2>4, <2>5
<1>3. CASE Move
  <2>1. PICK f : f = Min(op.toMove)
    OBVIOUS
  <2>2. /\ f \in Files /\ f \in op.toMove /\ op.pc = "move" /\ op.applied
        /\ op.strayed = {} /\ op.restored /\ f \notin op.held /\ applies \in Cleanups
    BY <1>3, <2>1, Actors DEF Move, At, Inv, CleanupInv, OpInv, Moves
  <2>3. CASE /\ home[f] # Nothing
             /\ quarantine' = [quarantine EXCEPT ![<<f, applies>>] = home[f]]
             /\ home' = [home EXCEPT ![f] = Nothing]
    <3>1. PICK n, h, q : n = applies /\ h = Nothing /\ q = home[f]
      OBVIOUS
    <3>2. n \in Cleanups /\ q \in Contents
      BY <2>2, <2>3, <3>1 DEF Inv, Types
    <3>3. quarantine[<<f, n>>] = Nothing
      BY <2>2, <3>1 DEF Inv, CleanupInv, QuarantineInv, KnownInv, InTransit
    <3>4. Exchanged(f, n, h, q)
      BY <2>2, <2>3, <3>1, <3>2, Things DEF Exchanged
    <3>5. home[f] \in {h, q, Nothing, Nothing} /\ quarantine[<<f, n>>] \in {h, q, Nothing, Nothing}
      BY <3>1, <3>3
    <3>6. QED
      BY <3>4, <3>5, MovedPresent DEF Inv
  <2>4. QED
    BY <1>1, <1>3, <2>1, <2>3 DEF Move
<1>4. CASE UndoMove
  <2>1. Min(op.toMove) \in Files /\ Returning(Min(op.toMove))
    BY <1>4, Actors DEF UndoMove, At, Returning, Inv, CleanupInv, OpInv, Moves
  <2>2. QED
    BY <1>1, <1>2, <1>4, <2>1 DEF UndoMove
<1>5. CASE BackMove
  <2>1. Last \in Files /\ Returning(Last)
    BY <1>5, Actors DEF BackMove, At, Returning, Inv, CleanupInv, OpInv
  <2>2. QED
    BY <1>1, <1>2, <1>5, <2>1 DEF BackMove
<1>6. CASE Delete
  <2>1. PICK f : f = Min(op.held)
    OBVIOUS
  <2>2. f \in Files /\ op.pc = "delete" /\ applies \in Cleanups /\ home' = home
    BY <1>6, <2>1, Actors DEF Delete, At, Inv, CleanupInv, OpInv, Deletes
  <2>3. CASE quarantine' = [quarantine EXCEPT ![<<f, applies>>] = Nothing]
    <3>1. PICK n, h, q : n = applies /\ h = home[f] /\ q = Nothing
      OBVIOUS
    <3>2. h \in Contents \cup {Nothing} /\ home' = [home EXCEPT ![f] = h]
      BY <2>2, <3>1 DEF Inv, Types
    <3>3. Exchanged(f, n, h, q)
      BY <2>2, <2>3, <3>1, <3>2, Things DEF Exchanged
    <3>4. PICK c : c = quarantine[<<f, applies>>]
      OBVIOUS
    <3>5. home[f] \in {h, q, c, Nothing} /\ quarantine[<<f, n>>] \in {h, q, c, Nothing}
      BY <3>1, <3>4
    <3>6. f \in late \/ c = Planned(f)
      BY <2>1, <2>2, <3>4 DEF Inv, CleanupInv, QuarantineInv, VerifiedInv, Verified, At
    <3>7. Present(g) \subseteq Present(g)' \cup {IF g = f THEN c ELSE Nothing, Nothing}
      BY <3>3, <3>5, MovedPresent DEF Inv
    <3>8. QED
      BY <3>6, <3>7
  <2>4. QED
    BY <1>1, <1>6, <2>1, <2>2, <2>3 DEF Delete
<1>7. CASE Preview \/ Apply \/ Scan \/ PlanCleanup \/ RequestArchive \/ Validate \/ WriteArchive
        \/ Publish \/ Authorize \/ ValidateAgain \/ Inspect \/ Moved \/ Undo \/ InspectMoved
        \/ InspectDelete \/ VerifyDelete \/ Rescan \/ Back \/ BackVerify \/ Killed
  BY <1>1, <1>7 DEF Preview, Apply, Scan, PlanCleanup, RequestArchive, Validate, WriteArchive, Publish,
     Authorize, ValidateAgain, Inspect, Moved, Undo, InspectMoved, InspectDelete, VerifyDelete, Rescan,
     Back, BackVerify, Killed, disk
<1>8. CASE DamageArchive \/ \E f \in Files : Grow(f) \/ Arrive(f) \/ ReadElsewhere(f)
  BY <1>8 DEF DamageArchive, Grow, Arrive, ReadElsewhere
<1>9. QED
  BY <1>3, <1>4, <1>5, <1>6, <1>7, <1>8 DEF Next

\* A cleanup destroys nothing but what was planned, unless somebody wrote behind
\* the last check of that source.
THEOREM OthersDoSurvive == Spec => OthersSurvive
<1>1. Inv /\ [Next]_vars => [op' # op =>
         \A f \in Files \ late : Present(f) \subseteq Present(f)' \cup {Planned(f), Nothing}]_vars
  BY SurvivesStep
<1>2. QED
  BY <1>1, CleanupInvariant, PTL DEF Spec, Inv, OthersSurvive


-----------------------------------------------------------------------------
(* What a cleanup reports.                                                 *)

\* Where a cleanup ends, and as what.
LEMMA Reporting ==
  ASSUME Inv, Next, op.applied, op'.pc = "idle"
  PROVE  /\ UNCHANGED <<home, quarantine>>
         /\ \/ op.pc \in Before /\ result' = "failed"
            \/ op.pc \in Deletes /\ op.removed # {} /\ result' = "partial"
            \/ op.pc = "rescan" /\ result' \in {"ok", "failed"}
            \/ /\ op.pc = "back" /\ op.held = {}
               /\ result' = IF op.restored THEN "failed" ELSE "rollbackFailed"
            \/ result' = "killed"
<1>1. op \in Op /\ op.pc # "idle"
  BY IdleOp DEF Inv, Types, CleanupInv, OpInv
<1>2. \A step \in Steps : Goto(step) => op'.pc = step
  BY <1>1 DEF Goto, Op
<1>3. CASE Preview \/ Apply
  BY <1>1, <1>3 DEF Preview, Apply, At
<1>4. CASE Scan
  <2>1. op' = [op EXCEPT !.pc = "evidence", !.known = ledger' \cup CachedUsage'] => op'.pc = "evidence"
    BY <1>1 DEF Op
  <2>2. QED
    BY <1>4, <2>1 DEF Scan, ProofsFail, Ends, At, Before, disk
<1>5. CASE PlanCleanup
  BY <1>5 DEF PlanCleanup
<1>6. CASE RequestArchive
  <2>1. op' = [op EXCEPT !.pc = "validate", !.known = {}] => op'.pc = "validate"
    BY <1>1 DEF Op
  <2>2. QED
    BY <1>6, <2>1 DEF RequestArchive, Ends, At, Before, disk
<1>7. CASE Validate \/ WriteArchive \/ Publish \/ Authorize \/ ValidateAgain
  BY <1>2, <1>7 DEF Validate, WriteArchive, Publish, Authorize, ValidateAgain, Ends, At, Before, Steps, disk
<1>8. CASE Inspect
  <2>1. op' = [op EXCEPT !.pc = "move", !.toMove = op.files] => op'.pc = "move"
    BY <1>1 DEF Op
  <2>2. QED
    BY <1>8, <2>1 DEF Inspect, Ends, At, Before, disk
<1>9. CASE Move \/ Undo \/ UndoMove \/ Moved \/ BackVerify \/ BackMove
  <2>1. Skip => op'.pc = "back"
    BY <1>1 DEF Op, Skip
  <2>2. CASE Move \/ BackVerify
    BY <1>2, <2>1, <2>2 DEF Move, BackVerify, Steps
  <2>3. CASE Undo \/ UndoMove
    <3>1. \A S : op' = [op EXCEPT !.pc = "back", !.strayed = S] => op'.pc = "back"
      BY <1>1 DEF Op
    <3>2. QED
      BY <1>2, <2>3, <3>1 DEF Undo, UndoMove, Steps
  <2>4. CASE BackMove
    <3>1. op' = [op EXCEPT !.pc = "back", !.held = @ \ {Last}] => op'.pc = "back"
      BY <1>1 DEF Op
    <3>2. QED
      BY <2>1, <2>4, <3>1 DEF BackMove
  <2>5. CASE Moved
    <3>1. PICK f : f = Min(op.toMove)
      OBVIOUS
    <3>2. op' = [op EXCEPT !.pc = IF op.toMove = {f} THEN "inspectMoved" ELSE "move",
                           !.toMove = @ \ {f}, !.held = @ \cup {f}] => op'.pc \in {"inspectMoved", "move"}
      BY <1>1 DEF Op
    <3>3. QED
      BY <1>2, <2>5, <3>1, <3>2 DEF Moved, Steps
  <2>6. QED
    BY <1>9, <2>2, <2>3, <2>4, <2>5
<1>10. CASE InspectMoved
  BY <1>2, <1>10 DEF InspectMoved, Steps
<1>11. CASE InspectDelete \/ VerifyDelete
  BY <1>2, <1>11 DEF InspectDelete, VerifyDelete, DeletionFails, Ends, At, Deletes, Steps, disk
<1>12. CASE Delete
  <2>1. PICK f : f = Min(op.held)
    OBVIOUS
  <2>2. op' = [op EXCEPT !.pc = IF op.held = {f} THEN "rescan" ELSE "inspectDelete",
                         !.held = @ \ {f}, !.removed = @ \cup {f}] => op'.pc \in {"rescan", "inspectDelete"}
    BY <1>1 DEF Op
  <2>3. QED
    BY <1>2, <1>12, <2>1, <2>2 DEF Delete, DeletionFails, Ends, At, Deletes, Steps
<1>13. CASE Rescan
  BY <1>13 DEF Rescan, Ends, At, disk
<1>14. CASE Back
  <2>1. Skip => op'.pc = "back"
    BY <1>1 DEF Op, Skip
  <2>2. QED
    BY <1>2, <1>14, <2>1 DEF Back, Ends, At, Steps, disk
<1>15. CASE Killed
  BY <1>15 DEF Killed, Ends, disk
<1>16. CASE DamageArchive \/ \E f \in Files : Grow(f) \/ Arrive(f) \/ ReadElsewhere(f)
  BY <1>1, <1>16 DEF DamageArchive, Grow, Arrive, ReadElsewhere
<1>17. QED
  BY <1>3, <1>4, <1>5, <1>6, <1>7, <1>8, <1>9, <1>10, <1>11, <1>12, <1>13, <1>14, <1>15, <1>16 DEF Next

\* What is not held, did not stray and was not left behind is not in quarantine.
LEMMA NotThere ==
  ASSUME Inv, op.applied, op.restored, op.pc \notin Moves, NEW f \in op.files \ (op.held \cup op.strayed)
  PROVE  quarantine[<<f, applies>>] = Nothing
  BY Actors DEF Inv, CleanupInv, QuarantineInv, KnownInv, InTransit, Moves

LEMMA IsThere ==
  ASSUME Inv, op.applied, NEW f \in op.held
  PROVE  quarantine[<<f, applies>>] # Nothing
<1>1. quarantine[<<f, applies>>].file = Planned(f).file /\ Planned(f).file # 0
  BY Parts, PlannedTypes DEF Inv, CleanupInv, QuarantineInv, HeldInv
<1>2. QED
  BY <1>1, Things

\* What a cleanup reports is what became of every source.
THEOREM ReportsAreExact == Spec => ReportExact
<1>1. ASSUME Inv, Next, Returns("ok")
      PROVE  \A f \in op.files :
                 /\ home[f].file # Planned(f).file /\ quarantine'[<<f, applies>>] = Nothing
                 /\ <<f, Planned(f).file>> \in saved \cup forgone
  <2>1. op.applied /\ op.pc = "rescan" /\ quarantine' = quarantine
    BY <1>1, Reporting DEF Returns
  <2>2. op.held = {} /\ op.strayed = {} /\ op.restored /\ op.removed = op.files
    BY <1>1, <2>1 DEF Inv, CleanupInv, OpInv
  <2>3. ASSUME NEW f \in op.files
        PROVE  quarantine[<<f, applies>>] = Nothing
    BY <1>1, <2>1, <2>2, NotThere DEF Moves
  <2>4. QED
    BY <1>1, <2>1, <2>2, <2>3 DEF Inv, CleanupInv, QuarantineInv, HeldInv, ArchiveInv
<1>2. ASSUME Inv, Next, Returns("failed")
      PROVE  /\ \A f \in op.files \ op.strayed : quarantine'[<<f, applies>>] = Nothing
             /\ op.removed \in {{}, op.files}
  <2>1. /\ op.applied /\ quarantine' = quarantine
        /\ op.pc \in Before \cup {"rescan", "back"} /\ (op.pc = "back" => op.held = {} /\ op.restored)
    <3>1. op.applied /\ op'.pc = "idle" /\ result' = "failed"
      BY <1>2 DEF Returns
    <3>2. QED
      BY <1>2, <3>1, Reporting DEF Before
  <2>2. op.held = {} /\ op.restored /\ op.removed \in {{}, op.files}
    BY <1>2, <2>1 DEF Inv, CleanupInv, OpInv, Backs
  <2>3. op.pc \notin Moves
    BY <2>1 DEF Before, Moves
  <2>4. QED
    BY <1>2, <2>1, <2>2, <2>3, NotThere
<1>3. ASSUME Inv, Next, Returns("rollbackFailed")
      PROVE  \E f \in op.files : quarantine[<<f, applies>>] # Nothing
  <2>1. op.applied /\ ~op.restored
    BY <1>3, Reporting DEF Returns
  <2>2. QED
    BY <1>3, <2>1 DEF Inv, CleanupInv, QuarantineInv, LeftInv
<1>4. ASSUME Inv, Next, Returns("partial")
      PROVE  /\ op.held \cup op.removed = op.files /\ op.held # {}
             /\ \A f \in op.held : quarantine'[<<f, applies>>] # Nothing
             /\ \A f \in op.removed : quarantine'[<<f, applies>>] = Nothing
  <2>1. op.applied /\ op.pc \in Deletes /\ quarantine' = quarantine
    BY <1>4, Reporting DEF Returns
  <2>2. /\ op.held # {} /\ op.held \cap op.removed = {} /\ op.held \cup op.removed = op.files
        /\ op.restored /\ op.strayed = {} /\ op.pc \notin Moves
    BY <1>4, <2>1 DEF Inv, CleanupInv, OpInv, Deletes, Moves
  <2>3. QED
    BY <1>4, <2>1, <2>2, NotThere, IsThere
<1>5. Inv /\ [Next]_vars => [
       /\ Returns("ok") =>
             \A f \in op.files :
                 /\ home[f].file # Planned(f).file /\ quarantine'[<<f, applies>>] = Nothing
                 /\ <<f, Planned(f).file>> \in saved \cup forgone
       /\ Returns("failed") =>
             /\ \A f \in op.files \ op.strayed : quarantine'[<<f, applies>>] = Nothing
             /\ op.removed \in {{}, op.files}
       /\ Returns("rollbackFailed") => \E f \in op.files : quarantine[<<f, applies>>] # Nothing
       /\ Returns("partial") =>
             /\ op.held \cup op.removed = op.files /\ op.held # {}
             /\ \A f \in op.held : quarantine'[<<f, applies>>] # Nothing
             /\ \A f \in op.removed : quarantine'[<<f, applies>>] = Nothing]_vars
  BY <1>1, <1>2, <1>3, <1>4
<1>6. QED
  BY <1>5, CleanupInvariant, PTL DEF Spec, Inv, ReportExact

=============================================================================
