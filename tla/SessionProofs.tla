---------------------------- MODULE SessionProofs ----------------------------
(***************************************************************************)
(* ActionSessions for every set of ids and keys and every bound on faults: *)
(* type correctness; SlotInv is inductive, which is the safety of a        *)
(* launch; what the operations may report and forget, which files they     *)
(* leave alone, and that they implement SessionSlots.                      *)
(***************************************************************************)
EXTENDS SessionInvariant, TLAPS

(***************************************************************************)
(* Types.                                                                  *)
(***************************************************************************)

LEMMA IdleType == Idle \in Operations
  BY DEF Idle, Operations, Kinds, Steps, RecordSteps, Results, RecordStates

LEMMA TypeInit == Init => TypeOK
<1> SUFFICES ASSUME Init PROVE TypeOK
  OBVIOUS
<1>1. FilesOK
  BY DEF Init, FilesOK, RecordStates
<1>2. ProcessesOK
  BY DEF Init, ProcessesOK, SupervisorStates
<1>3. MemoryOK
  BY DEF Init, MemoryOK, Phases
<1>4. EnvironmentOK
  BY DEF Init, EnvironmentOK
<1>5. QED
  BY <1>1, <1>2, <1>3, <1>4, IdleType DEF Init, TypeOK

-----------------------------------------------------------------------------
(* What the shared effects leave well typed.                               *)

StoreOK == store \in [Ids -> RecordStates] /\ damaged \in BOOLEAN
LinkedOK == linked \in [Ids -> BOOLEAN]
MarkerOK == marker \in [Ids -> SUBSET {"tmp", "json"}]
FaultsOK == faults \in [crash: Nat, kill: Nat, damage: Nat, write: Nat]
PhaseOK == phase \in [Keys -> Phases]
ActiveOK == active \in [Keys -> Runs \cup {None}]

LEMMA FileEffects ==
  ASSUME TypeOK, NEW i
  PROVE  /\ \A s \in RecordStates : Upsert(i, s) => StoreOK'
         /\ Remove(i) => StoreOK'
         /\ WriteFails => StoreOK' /\ FaultsOK'
         /\ Unlink(i) => LinkedOK'
         /\ Unpublish(i) => MarkerOK'
         /\ DiscardFiles(i) => LinkedOK' /\ MarkerOK'
         /\ Killed(i) => MarkerOK' /\ FaultsOK' /\ sup' \in [Ids -> SupervisorStates]
<1> USE DEF TypeOK, FilesOK
<1>1. ASSUME NEW s \in RecordStates, Upsert(i, s)
      PROVE  StoreOK'
  BY <1>1 DEF Upsert, RecordStates, StoreOK
<1>2. Remove(i) => StoreOK'
  BY DEF Remove, RecordStates, StoreOK
<1>3. WriteFails => StoreOK'
  BY DEF WriteFails, StoreOK
<1>4. WriteFails => FaultsOK'
  BY DEF WriteFails, FaultsOK, EnvironmentOK
<1>5. Unlink(i) => LinkedOK'
  BY DEF Unlink, LinkedOK
<1>6. Unpublish(i) => MarkerOK'
  BY DEF Unpublish, MarkerOK
<1>7. Killed(i) => MarkerOK'
  BY DEF Killed, MarkerOK
<1>8. Killed(i) => FaultsOK'
  BY DEF Killed, FaultsOK, EnvironmentOK
<1>9. Killed(i) => sup' \in [Ids -> SupervisorStates]
  BY DEF Killed, ProcessesOK, SupervisorStates
<1>10. QED
  BY <1>1, <1>2, <1>3, <1>4, <1>5, <1>6, <1>7, <1>8, <1>9 DEF DiscardFiles

LEMMA MemoryEffects ==
  ASSUME TypeOK, NEW i
  PROVE  /\ \A p \in Phases : SetPhase(i, p) => PhaseOK'
         /\ ForgetSession(i) => ActiveOK' /\ PhaseOK'
<1> USE DEF TypeOK, MemoryOK
<1>1. ASSUME NEW p \in Phases, SetPhase(i, p)
      PROVE  PhaseOK'
  BY <1>1 DEF SetPhase, PhaseOK, Phases
<1>2. ForgetSession(i) => ActiveOK'
  BY DEF ForgetSession, ActiveOK
<1>3. ForgetSession(i) => PhaseOK'
  BY DEF ForgetSession, PhaseOK, Phases
<1>4. QED
  BY <1>1, <1>2, <1>3

OpOK == op \in Operations /\ SessionInHand

LEMMA OperationEffects ==
  ASSUME OpOK
  PROVE  /\ \A s \in Steps : Goto(s) /\ (op.id \in Ids \/ s \notin SessionSteps) => OpOK'
         /\ \A i \in Ids, s \in Steps : Select(i, s) => OpOK'
         /\ \A i : \A s \in Steps \ SessionSteps : Passed(i, s) => OpOK'
         /\ \A ids \in SUBSET Ids, s \in Steps \ SessionSteps : Survey(s, ids) => OpOK'
         /\ \A ids \in SUBSET Ids, s \in Steps \ SessionSteps :
               Read(s, ids) /\ FilesOK => OpOK'
         /\ \A i \in Ids : Adopt(i) /\ op.pc \notin SessionSteps => OpOK'
         /\ \A i \in Ids, s \in Steps, r \in Steps : Call(i, s, r) => OpOK'
         /\ \A r \in Results : Return(r) /\ op.id \in Ids => OpOK'
         /\ \A r \in Results : Finish(r) => OpOK'
         /\ \A i \in Ids : \A b : NextRecord(i, b) => OpOK'
         /\ \A i, b : \A s \in Steps \ SessionSteps : NextDrain(s, i, b) => OpOK'
         /\ \A kind \in Kinds, k \in Keys \cup {None}, s \in Steps \ SessionSteps :
               Enter(kind, k, s) => OpOK'
         /\ StopSucceeds => OpOK'
         /\ \A b \in BOOLEAN : Guarded(b) => OpOK'
<1> USE DEF OpOK, Operations, SessionInHand
<1>1. ASSUME NEW s \in Steps, Goto(s), op.id \in Ids \/ s \notin SessionSteps PROVE OpOK'
  BY <1>1 DEF Goto
<1>2. ASSUME NEW i \in Ids, NEW s \in Steps, Select(i, s) PROVE OpOK'
  BY <1>2 DEF Select
<1>3. ASSUME NEW i, NEW s \in Steps \ SessionSteps, Passed(i, s) PROVE OpOK'
  BY <1>3 DEF Passed
<1>4. ASSUME NEW i \in Ids, NEW s \in Steps, NEW r \in Steps, Call(i, s, r) PROVE OpOK'
  BY <1>4 DEF Call, Results
<1>5. ASSUME NEW r \in Results, Return(r), op.id \in Ids PROVE OpOK'
  BY <1>5 DEF Return, Steps
<1>6. ASSUME NEW r \in Results, Finish(r) PROVE OpOK'
  BY <1>6, IdleType DEF Finish, Idle, SessionSteps
<1>7. ASSUME NEW i \in Ids, NEW b, NextRecord(i, b) PROVE OpOK'
  <2>1. "record" \in Steps \ SessionSteps
    BY DEF SessionSteps, Steps, RecordSteps
  <2>2. QED
    BY <1>7, <2>1 DEF NextRecord
<1>8. ASSUME NEW i, NEW b, NEW s \in Steps \ SessionSteps, NextDrain(s, i, b)
      PROVE  OpOK'
  BY <1>8 DEF NextDrain
<1>9. ASSUME NEW kind \in Kinds, NEW k \in Keys \cup {None}, NEW s \in Steps \ SessionSteps,
             Enter(kind, k, s)
      PROVE  OpOK'
  BY <1>9, IdleType DEF Enter
<1>10. StopSucceeds => OpOK'
  <2>1. "launchCheck" \in Steps \ SessionSteps /\ "restart" \in Kinds /\ "ok" \in Results
    BY DEF SessionSteps, Steps, Kinds, Results
  <2>2. QED
    BY <1>6, <1>9, <2>1 DEF StopSucceeds
<1>11. ASSUME NEW ids \in SUBSET Ids, NEW s \in Steps \ SessionSteps, Survey(s, ids)
       PROVE  OpOK'
  BY <1>11 DEF Survey
<1>12. ASSUME NEW ids \in SUBSET Ids, NEW s \in Steps \ SessionSteps, Read(s, ids), FilesOK
       PROVE  OpOK'
  BY <1>12 DEF Read, FilesOK
<1>13. ASSUME NEW i \in Ids, Adopt(i), op.pc \notin SessionSteps PROVE OpOK'
  BY <1>13 DEF Adopt, RecordStates
<1>14. ASSUME NEW b \in BOOLEAN, Guarded(b) PROVE OpOK'
  <2>1. "guard" \in Steps \ SessionSteps
    BY DEF SessionSteps, Steps
  <2>2. QED
    BY <1>14, <2>1 DEF Guarded
<1>15. QED
  BY <1>1, <1>2, <1>3, <1>4, <1>5, <1>6, <1>7, <1>8, <1>9, <1>10, <1>11, <1>12, <1>13, <1>14

LEMMA Names ==
  /\ {"idle", "launchCheck", "launchCreate", "stopLookup", "orphans", "load", "record", "sweep",
      "publish", "guard", "drain", "drainActive", "drainRecords"} \subseteq Steps \ SessionSteps
  /\ {"launchDropStale", "launchRecord", "launchSpawn", "launchAwait", "launchFinalize",
      "launchActivate", "launchUndo", "launchAbort", "launchKill", "launchAbandon",
      "launchUnlink", "resolve", "resolveUpsert", "cancel", "cancelUnlink", "term", "termWait",
      "stopResolved", "stopCheck", "stopDiscard", "stopTermed", "stopFiles", "orphanStopped",
      "recordResolved", "recordCheck", "recordStopped", "drainActiveStopped", "drainResolved",
      "drainCheck", "drainStopped", "drainRemove"} \subseteq SessionSteps
  /\ SessionSteps \subseteq Steps
  /\ Results = {"none", "ok", "err", "Finalized", "Stale", "Unverified"}
  /\ Kinds = {"idle", "launch", "restart", "stop", "status", "edit", "exit", "update"}
  /\ RecordStates = {"none", "pending", "final"}
  BY DEF Steps, SessionSteps, RecordSteps, Results, Kinds, RecordStates

-----------------------------------------------------------------------------
(* One lemma for each group of steps.                                      *)

LEMMA TypeSupervisor ==
  ASSUME TypeOK, SessionInHand, NEW i \in Ids, SupervisorStep(i)
  PROVE  TypeOK' /\ SessionInHand'
<1> USE DEF SupervisorStep, SupStep, SupOpen, SupTerminatedEarly, SupPassGate, SupFindCancelled,
            SupStageMarker, SupPublishMarker, SupMarkerFails, SupRun, SupReap, SupDropMarker,
            SupDropControl, Unlink, Unpublish
<1>1. UNCHANGED <<key, store, damaged, cancelled, memVars, envVars, op>>
  OBVIOUS
<1>2. linked' \in [Ids -> BOOLEAN]
  BY DEF TypeOK, FilesOK
<1>3. marker' \in [Ids -> SUBSET {"tmp", "json"}]
  BY DEF TypeOK, FilesOK
<1>4. ProcessesOK'
  BY DEF TypeOK, ProcessesOK, SupervisorStates
<1>5. QED
  BY <1>1, <1>2, <1>3, <1>4
     DEF TypeOK, FilesOK, MemoryOK, EnvironmentOK, memVars, envVars, SessionInHand

LEMMA TypeWatcher ==
  ASSUME TypeOK, SessionInHand, NEW i \in Ids, WatcherStep(i)
  PROVE  TypeOK' /\ SessionInHand'
<1> USE DEF WatcherStep, WatchRemove, WatchFiles, WatchMemory
<1>1. UNCHANGED <<key, cancelled, procVars, appUp, registered, updating, op>>
  BY DEF fileVars, envVars
<1>2. StoreOK' /\ LinkedOK' /\ MarkerOK' /\ FaultsOK'
  BY FileEffects DEF TypeOK, FilesOK, EnvironmentOK, StoreOK, LinkedOK, MarkerOK, FaultsOK,
                     fileVars, envVars
<1>3. watch' \in [Ids -> {"none", "wait", "files", "memory"}]
  BY DEF TypeOK, MemoryOK
<1>4. active' \in [Keys -> Runs \cup {None}]
  BY DEF TypeOK, MemoryOK
<1>5. phase' \in [Keys -> Phases]
  BY DEF TypeOK, MemoryOK, Phases
<1>6. QED
  BY <1>1, <1>2, <1>3, <1>4, <1>5
     DEF TypeOK, FilesOK, ProcessesOK, MemoryOK, EnvironmentOK, StoreOK, LinkedOK, MarkerOK,
         FaultsOK, procVars, SessionInHand

LEMMA TypeLaunch ==
  ASSUME TypeOK, SessionInHand, LaunchStep
  PROVE  TypeOK' /\ SessionInHand'
<1> USE DEF LaunchStep, LaunchCheck, LaunchDropStale, LaunchCreate, LaunchRecord, LaunchSpawn,
            LaunchAwait, LaunchFinalize, LaunchActivate, LaunchUndo, LaunchAbort, LaunchKill,
            LaunchAbandon, LaunchUnlink, fileVars, procVars, memVars, envVars
<1>1. op.key \in Keys \cup {None}
  BY DEF TypeOK, Operations
<1>2. key' \in [Ids -> Keys \cup {None}]
  BY <1>1 DEF TypeOK, FilesOK
<1>3. StoreOK'
  BY FileEffects DEF TypeOK, FilesOK, StoreOK, RecordStates
<1>4. LinkedOK'
  BY FileEffects DEF TypeOK, FilesOK, LinkedOK
<1>5. MarkerOK'
  BY FileEffects DEF TypeOK, FilesOK, MarkerOK
<1>6. FaultsOK'
  BY FileEffects DEF TypeOK, EnvironmentOK, FaultsOK
<1>7. ProcessesOK'
  BY FileEffects DEF TypeOK, ProcessesOK, SupervisorStates
<1>8. MemoryOK'
  BY DEF TypeOK, MemoryOK, Runs, Phases, SessionInHand, SessionSteps, Steps, At
<1>9. OpOK'
  BY OperationEffects, Names DEF TypeOK, OpOK, SessionInHand, At, RecordsOf
<1>10. UNCHANGED <<cancelled, appUp, registered, updating>>
  OBVIOUS
<1>11. QED
  BY <1>2, <1>3, <1>4, <1>5, <1>6, <1>7, <1>8, <1>9, <1>10
     DEF TypeOK, FilesOK, EnvironmentOK, StoreOK, LinkedOK, MarkerOK, FaultsOK, OpOK

LEMMA TypeStop ==
  ASSUME TypeOK, SessionInHand, StopStep
  PROVE  TypeOK' /\ SessionInHand'
<1> USE DEF StopStep, StopLookup, StopResolved, StopCheck, StopDiscard, StopTermed, StopFiles,
            fileVars, procVars, memVars, envVars
<1>1. StoreOK'
  BY FileEffects DEF TypeOK, FilesOK, StoreOK
<1>2. LinkedOK'
  BY FileEffects DEF TypeOK, FilesOK, LinkedOK
<1>3. MarkerOK'
  BY FileEffects DEF TypeOK, FilesOK, MarkerOK
<1>4. FaultsOK'
  BY FileEffects DEF TypeOK, EnvironmentOK, FaultsOK
<1>5. ActiveOK'
  BY MemoryEffects DEF TypeOK, MemoryOK, ActiveOK
<1>6. PhaseOK'
  BY MemoryEffects DEF TypeOK, MemoryOK, PhaseOK, Phases
<1>7. OpOK'
  BY OperationEffects, Names DEF TypeOK, OpOK, SessionInHand, At, RecordsOf
<1>8. UNCHANGED <<key, cancelled, procVars, watch, appUp, registered, updating>>
  OBVIOUS
<1>9. QED
  BY <1>1, <1>2, <1>3, <1>4, <1>5, <1>6, <1>7, <1>8
     DEF TypeOK, FilesOK, ProcessesOK, MemoryOK, EnvironmentOK, StoreOK, LinkedOK, MarkerOK,
         FaultsOK, ActiveOK, PhaseOK, OpOK

LEMMA OpProcedures ==
  ASSUME OpOK, FilesOK, MemoryOK, Procedures
  PROVE  OpOK'
<1> USE OperationEffects, Names DEF At
<1>1. (op.pc \in SessionSteps => op.id \in Ids) /\ op.todo \subseteq Ids
  BY DEF OpOK, SessionInHand, Operations
<1>2. CASE TermSignal
  <2>1. CASE Return("err")
    BY <1>1, <1>2, <2>1 DEF TermSignal
  <2>2. CASE op' = [op EXCEPT !.pc = "termWait", !.tree = (cmd[op.id] = "run")]
    <3>1. op.id \in Ids
      BY <1>1, <1>2 DEF TermSignal
    <3>2. op \in Operations /\ "termWait" \in Steps
      BY DEF OpOK
    <3>3. \A flag \in BOOLEAN : [op EXCEPT !.pc = "termWait", !.tree = flag] \in Operations
      BY <3>2 DEF Operations
    <3>4. op' \in Operations
      BY <2>2, <3>3
    <3>5. op'.id = op.id
      BY <2>2, <3>2 DEF Operations
    <3>6. QED
      BY <3>1, <3>4, <3>5 DEF OpOK, SessionInHand
  <2>3. QED
    BY <1>2, <2>1, <2>2 DEF TermSignal
<1>3. CASE TermWait
  BY <1>1, <1>3 DEF TermWait
<1>4. CASE ResolvePending
  BY <1>1, <1>4 DEF ResolvePending
<1>5. CASE ResolveUpsert
  BY <1>1, <1>5 DEF ResolveUpsert
<1>6. CASE CancelPending
  BY <1>1, <1>6 DEF CancelPending
<1>7. CASE CancelUnlink
  BY <1>1, <1>7 DEF CancelUnlink
<1>8. QED
  BY <1>2, <1>3, <1>4, <1>5, <1>6, <1>7 DEF Procedures

LEMMA TypeProcedures ==
  ASSUME TypeOK, SessionInHand, Procedures
  PROVE  TypeOK' /\ SessionInHand'
<1> USE DEF Procedures, TermSignal, TermWait, ResolvePending, ResolveUpsert, CancelPending,
            CancelUnlink, fileVars, procVars, memVars, envVars
<1>1. StoreOK'
  BY FileEffects, Names DEF TypeOK, FilesOK, StoreOK
<1>2. LinkedOK'
  BY FileEffects DEF TypeOK, FilesOK, LinkedOK
<1>3. MarkerOK'
  BY FileEffects DEF TypeOK, FilesOK, MarkerOK
<1>4. FaultsOK'
  BY FileEffects DEF TypeOK, EnvironmentOK, FaultsOK
<1>5. cancelled' \in [Ids -> BOOLEAN]
  BY DEF TypeOK, FilesOK
<1>6. ProcessesOK'
  BY DEF TypeOK, ProcessesOK
<1>7. OpOK'
  BY OpProcedures DEF TypeOK, OpOK
<1>8. UNCHANGED <<key, memVars, appUp, registered, updating>>
  OBVIOUS
<1>9. QED
  BY <1>1, <1>2, <1>3, <1>4, <1>5, <1>6, <1>7, <1>8
     DEF TypeOK, FilesOK, MemoryOK, EnvironmentOK, StoreOK, LinkedOK, MarkerOK, FaultsOK, OpOK

LEMMA OpReconcile ==
  ASSUME OpOK, FilesOK, MemoryOK, ReconcileStep
  PROVE  OpOK'
<1> USE OperationEffects, Names DEF At
<1>1. (op.pc \in SessionSteps => op.id \in Ids) /\ op.todo \subseteq Ids
  BY DEF OpOK, SessionInHand, Operations
<1>2. CASE Orphan
  BY <1>1, <1>2 DEF Orphan
<1>3. CASE OrphanStopped
  BY <1>1, <1>3 DEF OrphanStopped
<1>4. CASE OrphansDone
  BY <1>1, <1>4 DEF OrphansDone
<1>5. CASE Load
  BY <1>1, <1>5 DEF Load
<1>6. CASE Record
  BY <1>1, <1>6 DEF Record
<1>7. CASE RecordResolved
  BY <1>1, <1>7 DEF RecordResolved
<1>8. CASE RecordCheck
  BY <1>1, <1>8 DEF RecordCheck
<1>9. CASE RecordStopped
  BY <1>1, <1>9 DEF RecordStopped
<1>10. CASE Sweep
  BY <1>1, <1>10 DEF Sweep, OpOK, Operations, SessionInHand
<1>11. CASE Publish
  BY <1>1, <1>11 DEF Publish
<1>12. QED
  BY <1>2, <1>3, <1>4, <1>5, <1>6, <1>7, <1>8, <1>9, <1>10, <1>11 DEF ReconcileStep

LEMMA TypeReconcile ==
  ASSUME TypeOK, SessionInHand, ReconcileStep
  PROVE  TypeOK' /\ SessionInHand'
<1> USE DEF ReconcileStep, Orphan, OrphanStopped, OrphansDone, Load, Record, RecordResolved,
            RecordCheck, RecordStopped, Sweep, Publish, fileVars, procVars, memVars, envVars
<1>1. StoreOK'
  BY FileEffects, Names DEF TypeOK, FilesOK, StoreOK
<1>2. LinkedOK'
  BY FileEffects DEF TypeOK, FilesOK, LinkedOK
<1>3. MarkerOK'
  BY FileEffects DEF TypeOK, FilesOK, MarkerOK
<1>4. FaultsOK'
  BY FileEffects DEF TypeOK, EnvironmentOK, FaultsOK
<1>5. ActiveOK'
  <2>1. At("recordCheck") => op.id \in Ids
    BY Names DEF At, SessionInHand
  <2>2. CASE RecordCheck
    <3>1. [id |-> op.id, by |-> "adopt"] \in Runs
      BY <2>1, <2>2 DEF Runs
    <3>2. QED
      BY <2>2, <3>1, MemoryEffects DEF TypeOK, MemoryOK, ActiveOK
  <2>3. QED
    BY <2>2, MemoryEffects DEF TypeOK, MemoryOK, ActiveOK
<1>6. PhaseOK'
  BY MemoryEffects DEF TypeOK, MemoryOK, PhaseOK, Phases
<1>7. OpOK'
  BY OpReconcile DEF TypeOK, OpOK
<1>8. UNCHANGED <<key, cancelled, procVars, watch, appUp, registered, updating>>
  OBVIOUS
<1>9. QED
  BY <1>1, <1>2, <1>3, <1>4, <1>5, <1>6, <1>7, <1>8
     DEF TypeOK, FilesOK, ProcessesOK, MemoryOK, EnvironmentOK, StoreOK, LinkedOK, MarkerOK,
         FaultsOK, ActiveOK, PhaseOK, OpOK

LEMMA OpShutdown ==
  ASSUME OpOK, FilesOK, MemoryOK, ShutdownStep
  PROVE  OpOK'
<1> USE OperationEffects, Names DEF At
<1>1. (op.pc \in SessionSteps => op.id \in Ids) /\ op.todo \subseteq Ids
  BY DEF OpOK, SessionInHand, Operations
<1>2. CASE Guard
  BY <1>1, <1>2 DEF Guard
<1>3. CASE DrainBegin
  <2>1. {active[k].id : k \in {k \in Keys : active[k] # None}} \subseteq Ids
    BY DEF MemoryOK, Runs
  <2>2. QED
    BY <1>1, <1>3, <2>1 DEF DrainBegin
<1>4. CASE DrainActive
  BY <1>1, <1>4 DEF DrainActive
<1>5. CASE DrainActiveStopped
  BY <1>1, <1>5 DEF DrainActiveStopped
<1>6. CASE DrainRecords
  BY <1>1, <1>6 DEF DrainRecords
<1>7. CASE DrainResolved
  BY <1>1, <1>7 DEF DrainResolved
<1>8. CASE DrainCheck
  BY <1>1, <1>8 DEF DrainCheck
<1>9. CASE DrainStopped
  BY <1>1, <1>9 DEF DrainStopped
<1>10. CASE DrainRemove
  BY <1>1, <1>10 DEF DrainRemove
<1>11. QED
  BY <1>2, <1>3, <1>4, <1>5, <1>6, <1>7, <1>8, <1>9, <1>10 DEF ShutdownStep

LEMMA TypeShutdown ==
  ASSUME TypeOK, SessionInHand, ShutdownStep
  PROVE  TypeOK' /\ SessionInHand'
<1> USE DEF ShutdownStep, Guard, DrainBegin, DrainActive, DrainActiveStopped, DrainRecords,
            DrainResolved, DrainCheck, DrainStopped, DrainRemove, fileVars, procVars, memVars,
            envVars
<1>1. StoreOK'
  BY FileEffects DEF TypeOK, FilesOK, StoreOK
<1>2. LinkedOK'
  BY FileEffects DEF TypeOK, FilesOK, LinkedOK
<1>3. MarkerOK'
  BY FileEffects DEF TypeOK, FilesOK, MarkerOK
<1>4. FaultsOK'
  BY FileEffects DEF TypeOK, EnvironmentOK, FaultsOK
<1>5. registered' \in [Keys -> BOOLEAN]
  BY DEF TypeOK, EnvironmentOK
<1>6. updating' \in BOOLEAN
  BY DEF TypeOK, EnvironmentOK
<1>7. OpOK'
  BY OpShutdown DEF TypeOK, OpOK
<1>8. UNCHANGED <<key, cancelled, procVars, memVars, appUp>>
  OBVIOUS
<1>9. QED
  BY <1>1, <1>2, <1>3, <1>4, <1>5, <1>6, <1>7, <1>8
     DEF TypeOK, FilesOK, ProcessesOK, MemoryOK, EnvironmentOK, StoreOK, LinkedOK, MarkerOK,
         FaultsOK, OpOK

LEMMA TypeRequest ==
  ASSUME TypeOK, SessionInHand, UserRequest
  PROVE  TypeOK' /\ SessionInHand'
<1> USE DEF UserRequest, BeginLaunch, BeginStop, BeginEdit, BeginStatus, BeginExit, BeginUpdate,
            Begin, fileVars, procVars, memVars, envVars
<1>1. OpOK'
  <2>1. ASSUME NEW kind \in Kinds, NEW k \in Keys \cup {None}, BeginReconcile(kind, k)
        PROVE  OpOK'
    <3> DEFINE todo == IF damaged THEN {} ELSE {i \in Ids : Published(i)}
               pc == IF damaged THEN "load" ELSE "orphans"
    <3>1. op' \in Operations
      <4>1. todo \in SUBSET Ids /\ pc \in Steps
        BY Names
      <4>2. op' = [Idle EXCEPT !.kind = kind, !.key = k, !.pc = pc, !.todo = todo, !.snap = store]
        BY <2>1 DEF BeginReconcile
      <4>3. QED
        BY <2>1, <4>1, <4>2, IdleType DEF Operations, TypeOK, FilesOK
    <3>2. op'.pc \notin SessionSteps
      BY <2>1, Names, IdleType DEF BeginReconcile, Operations
    <3>3. QED
      BY <3>1, <3>2 DEF OpOK, SessionInHand
  <2>2. OpOK
    BY DEF TypeOK, OpOK
  <2>3. CASE CancelUpdate
    BY <2>2, <2>3 DEF CancelUpdate, OpOK, SessionInHand
  <2>4. CASE ~CancelUpdate
    BY <2>1, <2>2, <2>4, OperationEffects, Names
  <2>5. QED
    BY <2>3, <2>4
<1>2. UNCHANGED <<fileVars, procVars, memVars, appUp, registered, faults>>
  BY DEF BeginReconcile, CancelUpdate
<1>3. updating' \in BOOLEAN
  BY DEF BeginReconcile, CancelUpdate, TypeOK, EnvironmentOK
<1>4. QED
  BY <1>1, <1>2, <1>3 DEF TypeOK, FilesOK, ProcessesOK, MemoryOK, EnvironmentOK, OpOK

LEMMA TypeEnvironment ==
  ASSUME TypeOK, SessionInHand, Environment
  PROVE  TypeOK' /\ SessionInHand'
<1> USE DEF fileVars, procVars, memVars, envVars
<1>1. ASSUME AppGone, FaultsOK' PROVE TypeOK' /\ SessionInHand'
  <2>1. op' \in Operations /\ op'.pc \notin SessionSteps
    BY <1>1, IdleType, Names DEF AppGone, Idle
  <2>2. appUp' \in BOOLEAN /\ updating' \in BOOLEAN
    BY <1>1 DEF AppGone
  <2>3. UNCHANGED <<fileVars, procVars, registered>>
    BY <1>1 DEF AppGone
  <2>4. MemoryOK'
    BY <1>1 DEF AppGone, MemoryOK, Phases
  <2>5. QED
    BY <1>1, <2>1, <2>2, <2>3, <2>4
       DEF TypeOK, FilesOK, ProcessesOK, EnvironmentOK, FaultsOK, SessionInHand
<1>2. CASE AppCrash
  BY <1>1, <1>2 DEF AppCrash, FaultsOK, TypeOK, EnvironmentOK
<1>3. CASE AppQuit
  BY <1>1, <1>3 DEF AppQuit, FaultsOK, TypeOK, EnvironmentOK
<1>4. CASE AppStart
  BY <1>4 DEF AppStart, TypeOK, FilesOK, ProcessesOK, MemoryOK, EnvironmentOK, SessionInHand
<1>5. CASE FileDamaged
  <2>1. FaultsOK'
    BY <1>5 DEF FileDamaged, FaultsOK, TypeOK, EnvironmentOK
  <2>2. StoreOK'
    BY <1>5 DEF FileDamaged, StoreOK, RecordStates
  <2>3. UNCHANGED <<key, linked, cancelled, marker, procVars, memVars, appUp, registered,
                    updating, op>>
    BY <1>5 DEF FileDamaged
  <2>4. QED
    BY <2>1, <2>2, <2>3 DEF FaultsOK, StoreOK, TypeOK, FilesOK, ProcessesOK, MemoryOK,
                            EnvironmentOK, SessionInHand
<1>6. ASSUME NEW k \in Keys, RegistrationChanges(k) PROVE TypeOK' /\ SessionInHand'
  <2>1. registered' \in [Keys -> BOOLEAN]
    BY <1>6 DEF RegistrationChanges, TypeOK, EnvironmentOK
  <2>2. QED
    BY <1>6, <2>1 DEF RegistrationChanges, TypeOK, FilesOK, ProcessesOK, MemoryOK,
                      EnvironmentOK, SessionInHand
<1>7. ASSUME NEW i \in Ids, CommandEnds(i) PROVE TypeOK' /\ SessionInHand'
  BY <1>7 DEF CommandEnds, TypeOK, FilesOK, ProcessesOK, MemoryOK, EnvironmentOK, SessionInHand
<1>8. ASSUME NEW i \in Ids, SupKill(i) PROVE TypeOK' /\ SessionInHand'
  <2>1. MarkerOK' /\ FaultsOK' /\ sup' \in [Ids -> SupervisorStates]
    BY <1>8, FileEffects DEF SupKill
  <2>2. QED
    BY <1>8, <2>1 DEF SupKill, MarkerOK, FaultsOK, TypeOK, FilesOK, ProcessesOK, MemoryOK,
                      EnvironmentOK, SessionInHand
<1>9. QED
  BY <1>2, <1>3, <1>4, <1>5, <1>6, <1>7, <1>8 DEF Environment

LEMMA TypeNext ==
  ASSUME TypeOK, SessionInHand, [Next]_vars
  PROVE  TypeOK' /\ SessionInHand'
<1>1. CASE UserRequest
  BY <1>1, TypeRequest
<1>2. CASE OperationStep
  BY <1>2, TypeLaunch, TypeStop, TypeProcedures, TypeReconcile, TypeShutdown DEF OperationStep
<1>3. ASSUME NEW i \in Ids, SupervisorStep(i)
      PROVE  TypeOK' /\ SessionInHand'
  BY <1>3, TypeSupervisor
<1>4. ASSUME NEW i \in Ids, WatcherStep(i)
      PROVE  TypeOK' /\ SessionInHand'
  BY <1>4, TypeWatcher
<1>5. CASE Environment
  BY <1>5, TypeEnvironment
<1>6. CASE UNCHANGED vars
  BY <1>6 DEF vars, fileVars, procVars, memVars, envVars, TypeOK, FilesOK, ProcessesOK,
              MemoryOK, EnvironmentOK, SessionInHand
<1>7. QED
  BY <1>1, <1>2, <1>3, <1>4, <1>5, <1>6 DEF Next

\* Every variable keeps its type, whatever the ids, the keys and the faults.
THEOREM TypeCorrect == Spec => []TypeOK
<1>1. Init => TypeOK /\ SessionInHand
  BY TypeInit, Names DEF Init, SessionInHand, Idle
<1>2. (TypeOK /\ SessionInHand) /\ [Next]_vars => (TypeOK /\ SessionInHand)'
  BY TypeNext
<1>3. QED
  BY <1>1, <1>2, PTL DEF Spec

-----------------------------------------------------------------------------
(***************************************************************************)
(* The invariant of operations, records and supervisors.                   *)
(***************************************************************************)
LEMMA SlotInit == Init => SlotInv
<1> SUFFICES ASSUME Init PROVE SlotInv
  OBVIOUS
<1>1. FileInv
  BY DEF Init, FileInv, FreshInv, CancelledNeverRuns, CanRunInv, OneRecordInv, WatchInv, CanRun,
         Gated, Recorded
<1>2. OperationInv
  BY Names DEF Init, Idle, OperationInv, SessionInHand, CallInv, LaunchInv, SpawnInv, DrawnInv,
         SoleRecordInv, RemovalInv, Removing, StaleInv, SnapshotInv, EntriesInv, Within,
         StopProcedure, ResolveProcedure, RemovalSteps, StoppedSteps, ResolvedSteps,
         ReconcileSteps, DrainSteps, DrainRecordSteps, RecordSteps
<1>3. QED
  BY <1>1, <1>2 DEF SlotInv

-----------------------------------------------------------------------------
(* What the shared effects do, session by session.                         *)

LEMMA FileSteps ==
  ASSUME TypeOK
  PROVE  /\ \A i \in Ids : Remove(i) => \A j \in Ids : Recorded(j)' <=> Recorded(j) /\ j # i
         /\ \A i \in Ids : \A s \in {"pending", "final"} : Upsert(i, s) =>
               \A j \in Ids : Recorded(j)' <=> j = i \/ (Recorded(j) /\ key[j] # key[i])
         /\ WriteFails => \A j \in Ids : Recorded(j)' <=> Recorded(j)
         /\ \A i \in Ids : Unlink(i) =>
               \A j \in Ids : linked'[j] <=> linked[j] /\ j # i
         /\ \A i : DiscardFiles(i) => Unlink(i)
<1> USE DEF TypeOK, FilesOK, Recorded
<1>1. ASSUME NEW i \in Ids, Remove(i), NEW j \in Ids
      PROVE  Recorded(j)' <=> Recorded(j) /\ j # i
  BY <1>1 DEF Remove
<1>2. ASSUME NEW i \in Ids, NEW s \in {"pending", "final"}, Upsert(i, s), NEW j \in Ids
      PROVE  Recorded(j)' <=> j = i \/ (Recorded(j) /\ key[j] # key[i])
  BY <1>2 DEF Upsert
<1>3. WriteFails => \A j \in Ids : Recorded(j)' <=> Recorded(j)
  BY DEF WriteFails
<1>4. ASSUME NEW i \in Ids, Unlink(i), NEW j \in Ids
      PROVE  linked'[j] <=> linked[j] /\ j # i
  BY <1>4 DEF Unlink
<1>5. QED
  BY <1>1, <1>2, <1>3, <1>4 DEF DiscardFiles

-----------------------------------------------------------------------------
(* The files and the processes.                                            *)

LEMMA FileSupervisor ==
  ASSUME TypeOK, FileInv, NEW i \in Ids, SupervisorStep(i)
  PROVE  /\ FileInv'
         /\ UNCHANGED <<op, key, store, faults, watch>>
         /\ \A j \in Ids : CanRun(j)' => CanRun(j)
         /\ \A j \in Ids : sup[j] = "none" => sup'[j] = "none" /\ linked'[j] = linked[j]
<1> USE DEF SupervisorStep, SupStep, SupOpen, SupTerminatedEarly, SupPassGate, SupFindCancelled,
            SupStageMarker, SupPublishMarker, SupMarkerFails, SupRun, SupReap, SupDropMarker,
            SupDropControl, Unlink, envVars, memVars
<1>1. UNCHANGED <<op, key, store, faults, watch, cancelled>>
  OBVIOUS
<1>2. \A j \in Ids : sup[j] = "none" => sup'[j] = "none" /\ linked'[j] = linked[j]
  BY DEF TypeOK, FilesOK, ProcessesOK
<1>3. \A j \in Ids : CanRun(j)' => CanRun(j)
  BY DEF TypeOK, FilesOK, ProcessesOK, CanRun, Gated
<1>4. \A j \in Ids : CanRun(j)' => linked'[j] = linked[j]
  BY DEF TypeOK, FilesOK, ProcessesOK, CanRun, Gated
<1>5. CancelledNeverRuns'
  BY DEF TypeOK, FilesOK, ProcessesOK, CancelledNeverRuns, Gated, FileInv
<1>6. \A j \in Ids : ~Live(j) => ~Live(j)'
  BY DEF TypeOK, ProcessesOK, Live
<1>7. FreshInv' /\ CanRunInv' /\ OneRecordInv' /\ WatchInv'
  BY <1>1, <1>2, <1>3, <1>4, <1>6
     DEF FileInv, FreshInv, CanRunInv, OneRecordInv, WatchInv, Recorded
<1>8. QED
  BY <1>1, <1>2, <1>3, <1>5, <1>7 DEF FileInv

LEMMA FileWatcher ==
  ASSUME TypeOK, FileInv, NEW i \in Ids, WatcherStep(i)
  PROVE  /\ FileInv'
         /\ UNCHANGED <<op, key, sup, faults.damage>>
         /\ \A j \in Ids : Recorded(j)' => Recorded(j)
         /\ \A j \in Ids : CanRun(j)' => CanRun(j)
         /\ \A j \in Ids : watch[j] = "none" =>
               watch'[j] = "none" /\ linked'[j] = linked[j] /\ store'[j] = store[j]
<1> USE DEF WatcherStep, WatchRemove, WatchFiles, WatchMemory, procVars, fileVars, envVars
<1>1. UNCHANGED <<op, key, sup, cancelled>>
  OBVIOUS
<1>2. faults'.damage = faults.damage
  BY DEF WriteFails, TypeOK, EnvironmentOK
<1>3. \A j \in Ids : /\ linked'[j] => linked[j]
                     /\ Recorded(j)' => Recorded(j)
                     /\ Live(j) => linked'[j] = linked[j] /\ (Recorded(j)' <=> Recorded(j))
  BY DEF FileInv, WatchInv, Unlink, Remove, WriteFails, TypeOK, FilesOK, Recorded
<1>4. \A j \in Ids : /\ watch'[j] \in {"files", "memory"} => ~Live(j)
                     /\ watch[j] = "none" => watch'[j] = "none"
  BY DEF FileInv, WatchInv, TypeOK, MemoryOK
<1>5. \A j \in Ids : watch[j] = "none" => linked'[j] = linked[j] /\ store'[j] = store[j]
  BY DEF Unlink, Remove, WriteFails, TypeOK, FilesOK
<1>6. \A j \in Ids : CanRun(j)' => CanRun(j) /\ Live(j)
  BY <1>1, <1>3 DEF CanRun, Gated, Live
<1>7. FreshInv' /\ CancelledNeverRuns' /\ CanRunInv' /\ OneRecordInv' /\ WatchInv'
  BY <1>1, <1>2, <1>3, <1>4, <1>5, <1>6
     DEF FileInv, FreshInv, CancelledNeverRuns, CanRunInv, OneRecordInv, WatchInv, Recorded,
         Gated, Live
<1>8. QED
  BY <1>1, <1>2, <1>3, <1>4, <1>5, <1>6, <1>7 DEF FileInv

\* A step that removes files and records of sessions that cannot run.
LEMMA FileFrame ==
  ASSUME TypeOK, FileInv, UNCHANGED <<key, cancelled, sup, watch>>,
         faults'.damage = faults.damage,
         \A j \in Ids : /\ linked'[j] => linked[j]
                        /\ Recorded(j)' => Recorded(j)
                        /\ CanRun(j) => linked'[j] /\ (Recorded(j) => Recorded(j)')
  PROVE  FileInv' /\ \A j \in Ids : CanRun(j)' => CanRun(j)
<1>1. \A j \in Ids : CanRun(j)' => CanRun(j)
  BY DEF CanRun, Gated
<1>2. FreshInv' /\ CancelledNeverRuns' /\ CanRunInv' /\ OneRecordInv' /\ WatchInv'
  BY <1>1 DEF FileInv, FreshInv, CancelledNeverRuns, CanRunInv, OneRecordInv, WatchInv,
              Recorded, Gated, Live
<1>3. QED
  BY <1>1, <1>2 DEF FileInv

LEMMA FileStop ==
  ASSUME TypeOK, SlotInv, StopStep
  PROVE  /\ FileInv' /\ \A j \in Ids : CanRun(j)' => CanRun(j)
         /\ UNCHANGED <<key, sup, watch, faults.damage>>
         /\ \A j \in Ids : Recorded(j)' => Recorded(j)
<1> USE DEF StopStep, StopLookup, StopResolved, StopCheck, StopDiscard, StopTermed, StopFiles,
            fileVars, procVars, memVars, envVars
<1>1. UNCHANGED <<key, cancelled, sup, watch>>
  OBVIOUS
<1>2. faults'.damage = faults.damage
  BY DEF WriteFails, TypeOK, EnvironmentOK
<1>3. ~CanRun(op.id) \/ UNCHANGED <<linked, store>>
  BY DEF SlotInv, OperationInv, RemovalInv, Removing, RemovalSteps, StoppedSteps, ResolvedSteps,
         At, CanRun, Gated, Live, WriteFails
<1>4. op.id \in Ids \/ UNCHANGED <<linked, store>>
  BY Names DEF SlotInv, OperationInv, SessionInHand, At
<1>5. \A j \in Ids : /\ linked'[j] => linked[j]
                     /\ j # op.id => (linked[j] => linked'[j])
                     /\ Recorded(j)' => Recorded(j)
                     /\ j # op.id => (Recorded(j) => Recorded(j)')
  BY <1>4, FileSteps DEF Recorded
<1>6. \A j \in Ids : CanRun(j) => linked'[j] /\ (Recorded(j) => Recorded(j)')
  BY <1>3, <1>5 DEF SlotInv, FileInv, CanRunInv, Recorded
<1>7. QED
  BY <1>1, <1>2, <1>5, <1>6, FileFrame DEF SlotInv

LEMMA FileShutdown ==
  ASSUME TypeOK, SlotInv, ShutdownStep
  PROVE  /\ FileInv' /\ \A j \in Ids : CanRun(j)' => CanRun(j)
         /\ UNCHANGED <<key, sup, watch, faults.damage>>
         /\ \A j \in Ids : Recorded(j)' => Recorded(j)
<1> USE DEF ShutdownStep, Guard, DrainBegin, DrainActive, DrainActiveStopped, DrainRecords,
            DrainResolved, DrainCheck, DrainStopped, DrainRemove, fileVars, procVars, memVars,
            envVars
<1>1. UNCHANGED <<key, cancelled, sup, watch>>
  OBVIOUS
<1>2. faults'.damage = faults.damage
  BY DEF WriteFails, TypeOK, EnvironmentOK
<1>3. ~CanRun(op.id) \/ UNCHANGED <<linked, store>>
  BY DEF SlotInv, OperationInv, RemovalInv, Removing, RemovalSteps, StoppedSteps, ResolvedSteps,
         At, CanRun, Gated, Live, WriteFails
<1>4. op.id \in Ids \/ UNCHANGED <<linked, store>>
  BY Names DEF SlotInv, OperationInv, SessionInHand, At
<1>5. \A j \in Ids : /\ linked'[j] => linked[j]
                     /\ j # op.id => (linked[j] => linked'[j])
                     /\ Recorded(j)' => Recorded(j)
                     /\ j # op.id => (Recorded(j) => Recorded(j)')
  BY <1>4, FileSteps DEF Recorded
<1>6. \A j \in Ids : CanRun(j) => linked'[j] /\ (Recorded(j) => Recorded(j)')
  BY <1>3, <1>5 DEF SlotInv, FileInv, CanRunInv, Recorded
<1>7. QED
  BY <1>1, <1>2, <1>5, <1>6, FileFrame DEF SlotInv

LEMMA FileProcedures ==
  ASSUME TypeOK, SlotInv, Procedures
  PROVE  /\ FileInv' /\ \A j \in Ids : CanRun(j)' => CanRun(j)
         /\ UNCHANGED <<key, sup, watch, faults.damage>>
         /\ \A j \in Ids : Recorded(j)' => Recorded(j) \/ (ResolveUpsert /\ j = op.id)
<1> USE DEF Procedures, fileVars, procVars, memVars, envVars
<1>1. CASE TermSignal \/ TermWait \/ ResolvePending
  <2>1. UNCHANGED <<key, cancelled, sup, watch, faults, linked, store>>
    BY <1>1 DEF TermSignal, TermWait, ResolvePending
  <2>2. QED
    BY <2>1, FileFrame DEF SlotInv, FileInv, CanRunInv, Recorded
<1>2. CASE ResolveUpsert
  <2>1. op.id \in Ids /\ key[op.id] # None
    BY <1>2, Names DEF ResolveUpsert, At, SlotInv, OperationInv, SessionInHand, DrawnInv, Within
  <2>2. \A j \in Ids : Recorded(j) /\ key[j] = key[op.id] => j = op.id
    BY <1>2 DEF ResolveUpsert, At, SlotInv, OperationInv, SoleRecordInv, ResolveProcedure
  <2>3. UNCHANGED <<key, cancelled, sup, watch, linked>>
    BY <1>2 DEF ResolveUpsert
  <2>4. faults'.damage = faults.damage
    BY <1>2 DEF ResolveUpsert, WriteFails, TypeOK, EnvironmentOK
  <2>5. \A j \in Ids : /\ Recorded(j)' => Recorded(j) \/ j = op.id
                       /\ Recorded(j) => Recorded(j)'
    BY <1>2, <2>1, <2>2, FileSteps DEF ResolveUpsert
  <2>6. \A j \in Ids : CanRun(j)' => CanRun(j)
    BY <2>3 DEF CanRun, Gated
  <2>7. FreshInv' /\ CancelledNeverRuns' /\ CanRunInv' /\ OneRecordInv' /\ WatchInv'
    BY <2>1, <2>2, <2>3, <2>4, <2>5, <2>6
       DEF SlotInv, FileInv, FreshInv, CancelledNeverRuns, CanRunInv, OneRecordInv, WatchInv,
           Gated, Live, Recorded
  <2>8. QED
    BY <1>2, <2>3, <2>4, <2>5, <2>6, <2>7 DEF FileInv
<1>3. CASE CancelPending
  <2>1. UNCHANGED <<key, store, linked, sup, watch, faults>>
    BY <1>3 DEF CancelPending
  <2>2. \A j \in Ids : /\ cancelled[j] => cancelled'[j]
                       /\ cancelled'[j] /\ ~cancelled[j] => ~Gated(j) /\ linked[j]
    BY <1>3 DEF CancelPending, TypeOK, FilesOK
  <2>3. \A j \in Ids : CanRun(j)' => CanRun(j)
    BY <2>1, <2>2 DEF CanRun, Gated
  <2>4. FreshInv' /\ CancelledNeverRuns' /\ CanRunInv' /\ OneRecordInv' /\ WatchInv'
    BY <2>1, <2>2, <2>3
       DEF SlotInv, FileInv, FreshInv, CancelledNeverRuns, CanRunInv, OneRecordInv, WatchInv,
           Gated, Live, Recorded
  <2>5. QED
    BY <2>1, <2>3, <2>4 DEF FileInv, Recorded
<1>4. CASE CancelUnlink
  <2>1. op.id \in Ids /\ ~CanRun(op.id)
    BY <1>4, Names DEF CancelUnlink, At, SlotInv, OperationInv, SessionInHand, RemovalInv,
                       Removing, RemovalSteps
  <2>2. UNCHANGED <<key, cancelled, sup, watch, faults, store>>
    BY <1>4 DEF CancelUnlink
  <2>3. \A j \in Ids : linked'[j] <=> linked[j] /\ j # op.id
    BY <1>4, <2>1, FileSteps DEF CancelUnlink
  <2>4. QED
    BY <2>1, <2>2, <2>3, FileFrame DEF SlotInv, FileInv, CanRunInv, Recorded
<1>5. QED
  BY <1>1, <1>2, <1>3, <1>4

LEMMA FileReconcile ==
  ASSUME TypeOK, SlotInv, ReconcileStep
  PROVE  /\ FileInv' /\ \A j \in Ids : CanRun(j)' => CanRun(j)
         /\ UNCHANGED <<key, sup, watch, faults.damage>>
         /\ Orphan \/ \A j \in Ids : Recorded(j)' => Recorded(j)
<1> USE DEF fileVars, procVars, memVars, envVars
<1>1. UNCHANGED <<key, cancelled, sup, watch>>
  BY DEF ReconcileStep, Orphan, OrphanStopped, OrphansDone, Load, Record, RecordResolved,
         RecordCheck, RecordStopped, Sweep, Publish
<1>2. faults'.damage = faults.damage
  BY DEF ReconcileStep, Orphan, OrphanStopped, OrphansDone, Load, Record, RecordResolved,
         RecordCheck, RecordStopped, Sweep, Publish, WriteFails, TypeOK, EnvironmentOK
<1>3. CASE ReconcileStep /\ ~Orphan /\ ~Sweep
  <2>1. store' = store
    BY <1>3 DEF ReconcileStep, OrphanStopped, OrphansDone, Load, Record, RecordResolved,
                RecordCheck, RecordStopped, Publish
  <2>2. (op.id \in Ids /\ ~CanRun(op.id)) \/ UNCHANGED linked
    BY <1>3, Names
       DEF ReconcileStep, OrphanStopped, OrphansDone, Load, Record, RecordResolved, RecordCheck,
           RecordStopped, Publish, SlotInv, OperationInv, SessionInHand, RemovalInv, Removing,
           StoppedSteps, At, CanRun, Gated, Live
  <2>3. \A j \in Ids : /\ linked'[j] => linked[j]
                       /\ j # op.id => (linked[j] => linked'[j])
    BY <1>3, <2>2, FileSteps
       DEF ReconcileStep, OrphanStopped, OrphansDone, Load, Record, RecordResolved, RecordCheck,
           RecordStopped, Publish
  <2>4. QED
    BY <1>1, <1>2, <2>1, <2>2, <2>3, FileFrame DEF SlotInv, FileInv, CanRunInv, Recorded
<1>4. CASE Sweep
  <2>1. UNCHANGED linked
    BY <1>4 DEF Sweep
  <2>2. \A j \in Ids : /\ Recorded(j)' => Recorded(j)
                       /\ CanRun(j) => (Recorded(j) => Recorded(j)')
    <3>1. op.stale \subseteq Ids /\ \A i \in op.stale : ~CanRun(i)
      BY DEF TypeOK, Operations, SlotInv, OperationInv, StaleInv
    <3>2. QED
      BY <1>4, <3>1, FileSteps DEF Sweep, Recorded
  <2>3. QED
    BY <1>1, <1>2, <2>1, <2>2, FileFrame DEF SlotInv, FileInv, CanRunInv
<1>5. CASE Orphan
  <2>1. UNCHANGED linked
    BY <1>5 DEF Orphan
  <2>2. \/ \A j \in Ids : Recorded(j)' <=> Recorded(j)
        \/ \E i \in op.todo : Upsert(i, "final") /\ Live(i) /\ ~KeyTaken(i)
    BY <1>5, FileSteps DEF Orphan, Recorded
  <2>3. ASSUME NEW i \in op.todo, Upsert(i, "final"), Live(i), ~KeyTaken(i)
        PROVE  FileInv' /\ \A j \in Ids : CanRun(j)' => CanRun(j)
    <3>1. i \in Ids /\ key[i] # None
      BY <2>3 DEF TypeOK, Operations, SlotInv, FileInv, FreshInv, Live
    <3>2. \A j \in Ids : Recorded(j) => key[j] # key[i]
      BY <1>5, <2>3 DEF KeyTaken, SlotInv, OperationInv, SnapshotInv, Within, ReconcileSteps,
                        Orphan, At
    <3>3. \A j \in Ids : /\ Recorded(j)' => Recorded(j) \/ j = i
                         /\ Recorded(j) => Recorded(j)'
      BY <2>3, <3>1, <3>2, FileSteps
    <3>4. \A j \in Ids : CanRun(j)' => CanRun(j)
      BY <1>1, <2>1 DEF CanRun, Gated
    <3>5. FreshInv' /\ CancelledNeverRuns' /\ CanRunInv' /\ OneRecordInv' /\ WatchInv'
      BY <1>1, <1>2, <2>1, <3>1, <3>2, <3>3, <3>4
         DEF SlotInv, FileInv, FreshInv, CancelledNeverRuns, CanRunInv, OneRecordInv, WatchInv,
             Gated, Live, Recorded
    <3>6. QED
      BY <3>4, <3>5 DEF FileInv
  <2>4. CASE \A j \in Ids : Recorded(j)' <=> Recorded(j)
    BY <1>1, <1>2, <2>1, <2>4, FileFrame DEF SlotInv, FileInv, CanRunInv
  <2>5. QED
    BY <1>1, <1>2, <1>5, <2>2, <2>3, <2>4
<1>6. QED
  BY <1>1, <1>2, <1>3, <1>4, <1>5 DEF Sweep, Recorded

LEMMA FileRequest ==
  ASSUME TypeOK, SlotInv, UserRequest
  PROVE  /\ FileInv' /\ \A j \in Ids : CanRun(j)' => CanRun(j)
         /\ UNCHANGED <<fileVars, sup, watch, faults>>
<1>1. UNCHANGED <<fileVars, sup, watch, faults>>
  BY DEF UserRequest, BeginLaunch, BeginStop, BeginEdit, BeginStatus, BeginExit, BeginUpdate,
         BeginReconcile, CancelUpdate, procVars, memVars, envVars
<1>2. QED
  BY <1>1, FileFrame DEF fileVars, SlotInv, FileInv, CanRunInv, Recorded

\* The steps of a launch that create nothing remove what cannot run.
LEMMA FileLaunchRemoves ==
  ASSUME TypeOK, SlotInv, LaunchStep, ~LaunchCreate, ~LaunchRecord, ~LaunchSpawn, ~LaunchFinalize
  PROVE  /\ FileInv' /\ \A j \in Ids : CanRun(j)' => CanRun(j)
         /\ UNCHANGED <<key, faults.damage>>
         /\ \A j \in Ids : Recorded(j)' => Recorded(j)
         /\ \A j \in Ids : LaunchKill /\ j = op.id => ~CanRun(j)'
<1> USE DEF LaunchStep, LaunchCheck, LaunchDropStale, LaunchAwait, LaunchActivate, LaunchUndo,
            LaunchAbort, LaunchAbandon, LaunchUnlink, fileVars, procVars, memVars, envVars
<1>1. CASE ~LaunchKill
  <2>1. UNCHANGED <<key, cancelled, sup>>
    BY <1>1
  <2>2. faults'.damage = faults.damage
    BY <1>1 DEF WriteFails, TypeOK, EnvironmentOK
  <2>3. \A j \in Ids : watch'[j] # watch[j] => key[j] # None /\ watch'[j] = "wait"
    BY <1>1 DEF At, SlotInv, OperationInv, DrawnInv, Within, TypeOK, MemoryOK
  <2>4. \/ UNCHANGED <<linked, store>>
        \/ \E i \in RecordsOf(op.key) :
              /\ LaunchCheck /\ store' = store /\ DiscardFiles(i) /\ ~Live(i)
        \/ op.id \in Ids /\ ~CanRun(op.id) /\ ~LaunchCheck
    BY <1>1, Names DEF WriteFails, At, SlotInv, OperationInv, SessionInHand, RemovalInv, Removing,
                RemovalSteps, StoppedSteps
  <2> DEFINE Removes == \A j \in Ids : /\ linked'[j] => linked[j]
                                       /\ Recorded(j)' => Recorded(j)
                                       /\ CanRun(j) => (linked[j] => linked'[j])
                                       /\ CanRun(j) => (Recorded(j) => Recorded(j)')
  <2>5. Removes
    <3>1. CASE UNCHANGED <<linked, store>>
      BY <3>1 DEF Recorded
    <3>2. ASSUME NEW i \in RecordsOf(op.key), store' = store, DiscardFiles(i), ~Live(i)
          PROVE  Removes
      BY <3>2, FileSteps DEF RecordsOf, CanRun, Gated, Live, Recorded
    <3>3. CASE op.id \in Ids /\ ~CanRun(op.id) /\ ~LaunchCheck
      BY <1>1, <3>3, FileSteps DEF Recorded
    <3>4. QED
      BY <2>4, <3>1, <3>2, <3>3
  <2>6. \A j \in Ids : CanRun(j)' => CanRun(j)
    BY <2>1, <2>5 DEF CanRun, Gated
  <2>7. FreshInv' /\ CancelledNeverRuns' /\ CanRunInv' /\ OneRecordInv' /\ WatchInv'
    BY <2>1, <2>2, <2>3, <2>5, <2>6
       DEF SlotInv, FileInv, FreshInv, CancelledNeverRuns, CanRunInv, OneRecordInv, WatchInv,
           Recorded, Gated, Live
  <2>8. ~LaunchKill
    BY <1>1
  <2>9. QED
    BY <2>1, <2>2, <2>5, <2>6, <2>7, <2>8 DEF FileInv
<1>2. CASE LaunchKill
  <2>1. UNCHANGED <<key, cancelled, linked, store, watch>> /\ op.id \in Ids
    BY <1>2, Names DEF LaunchKill, At, SlotInv, OperationInv, SessionInHand
  <2>2. faults'.damage = faults.damage
    BY <1>2 DEF LaunchKill, Killed, TypeOK, EnvironmentOK
  <2>3. \A j \in Ids : \/ sup'[j] = sup[j]
                       \/ j = op.id /\ Live(j) /\ sup'[j] = "exited"
    BY <1>2, <2>1 DEF LaunchKill, Killed, TypeOK, ProcessesOK
  <2>4. sup'[op.id] \in {"none", "exited"}
    BY <1>2, <2>1 DEF LaunchKill, Killed, Live, TypeOK, ProcessesOK
  <2>5. \A j \in Ids : CanRun(j)' => CanRun(j)
    BY <2>1, <2>3 DEF CanRun, Gated
  <2>6. FreshInv' /\ CancelledNeverRuns' /\ CanRunInv' /\ OneRecordInv' /\ WatchInv'
    BY <2>1, <2>2, <2>3, <2>5
       DEF SlotInv, FileInv, FreshInv, CancelledNeverRuns, CanRunInv, OneRecordInv, WatchInv,
           Recorded, Gated, Live
  <2>7. \A j \in Ids : j = op.id => ~CanRun(j)'
    BY <2>4 DEF CanRun, Gated
  <2>8. QED
    BY <2>1, <2>2, <2>5, <2>6, <2>7 DEF FileInv, Recorded
<1>3. QED
  BY <1>1, <1>2

LEMMA FileLaunchCreate ==
  ASSUME TypeOK, SlotInv, LaunchCreate
  PROVE  /\ FileInv' /\ \A j \in Ids : CanRun(j)' => CanRun(j)
         /\ \E i \in Ids : /\ Select(i, "launchRecord")
                           /\ key'[i] = op.key /\ sup'[i] = "none" /\ linked'[i]
                           /\ watch'[i] = "none"
                           /\ \A j \in Ids : Recorded(j)' => key'[j] # op.key
         /\ op.key \in Keys
<1>1. UNCHANGED <<store, cancelled, sup, watch, faults>>
  BY DEF LaunchCreate, procVars, memVars, envVars
<1>2. op.key \in Keys /\ op.key # None /\ \A j \in Ids : Recorded(j) => key[j] # op.key
  BY NoneAssumption DEF LaunchCreate, At, SlotInv, OperationInv, LaunchInv, RecordsOf
<1>3. PICK i \in Ids : /\ key[i] = None /\ Select(i, "launchRecord")
                       /\ key' = [key EXCEPT ![i] = op.key]
                       /\ linked' = [linked EXCEPT ![i] = TRUE]
  BY DEF LaunchCreate
<1>4. sup[i] = "none" /\ watch[i] = "none" /\ ~Recorded(i)
  BY <1>3 DEF SlotInv, FileInv, FreshInv, Recorded
<1>5. \A j \in Ids : /\ key'[j] = IF j = i THEN op.key ELSE key[j]
                     /\ linked'[j] <=> linked[j] \/ j = i
  BY <1>3 DEF TypeOK, FilesOK
<1>6. \A j \in Ids : CanRun(j)' => CanRun(j)
  BY <1>1, <1>4, <1>5 DEF CanRun, Gated
<1>7. FreshInv' /\ CancelledNeverRuns' /\ CanRunInv' /\ OneRecordInv' /\ WatchInv'
  BY <1>1, <1>2, <1>4, <1>5, <1>6
     DEF SlotInv, FileInv, FreshInv, CancelledNeverRuns, CanRunInv, OneRecordInv, WatchInv,
         Recorded, Gated, Live
<1>8. \A j \in Ids : Recorded(j)' => key'[j] # op.key
  BY <1>1, <1>2, <1>4, <1>5 DEF Recorded
<1>9. QED
  BY <1>1, <1>2, <1>3, <1>4, <1>5, <1>6, <1>7, <1>8 DEF FileInv

\* The record of a launch, pending or final.
LEMMA FileLaunchRecord ==
  ASSUME TypeOK, SlotInv, LaunchRecord \/ LaunchFinalize
  PROVE  /\ FileInv' /\ \A j \in Ids : CanRun(j)' => CanRun(j)
         /\ op.id \in Ids
         /\ UNCHANGED <<key, sup, watch, faults.damage>>
         /\ \A j \in Ids : Recorded(j)' => Recorded(j) \/ j = op.id
         /\ \A j \in Ids : Goto("launchSpawn") /\ j = op.id => linked'[j] = linked[j] /\ Recorded(j)'
<1> USE DEF LaunchRecord, LaunchFinalize, procVars, memVars
<1>1. UNCHANGED <<key, cancelled, sup, watch>>
  OBVIOUS
<1>2. faults'.damage = faults.damage
  BY DEF WriteFails, TypeOK, EnvironmentOK
<1>3. op.id \in Ids /\ key[op.id] # None
  BY Names, NoneAssumption
     DEF SlotInv, OperationInv, SessionInHand, SpawnInv, LaunchInv, DrawnInv, Within, At
<1>4. \A j \in Ids : Recorded(j) /\ key[j] = key[op.id] => j = op.id
  BY DEF SlotInv, OperationInv, SoleRecordInv, At
<1>5. \/ UNCHANGED linked /\ \A j \in Ids : Recorded(j)' <=> Recorded(j) \/ j = op.id
      \/ /\ ~CanRun(op.id) \/ UNCHANGED linked
         /\ \A j \in Ids : /\ Recorded(j)' <=> Recorded(j)
                           /\ linked'[j] => linked[j]
                           /\ j # op.id => (linked[j] => linked'[j])
         /\ ~Goto("launchSpawn")
  <2>1. CASE \E s \in {"pending", "final"} : Upsert(op.id, s) /\ UNCHANGED linked
    BY <1>3, <1>4, <2>1, FileSteps
  <2>2. CASE WriteFails /\ Unlink(op.id) /\ LaunchRecord /\ Finish("err")
    <3>1. ~CanRun(op.id)
      BY <2>2 DEF At, SlotInv, OperationInv, SpawnInv, CanRun, Gated
    <3>2. ~Goto("launchSpawn")
      BY <2>2, IdleType DEF Finish, Goto, Idle, TypeOK, Operations
    <3>3. QED
      BY <1>3, <2>2, <3>1, <3>2, FileSteps
  <2>3. CASE WriteFails /\ UNCHANGED linked /\ Call(op.id, "term", "launchUndo")
    <3>1. ~Goto("launchSpawn")
      BY <2>3 DEF Call, Goto, TypeOK, Operations
    <3>2. QED
      BY <2>3, <3>1, FileSteps
  <2>4. QED
    BY <2>1, <2>2, <2>3
<1>6. \A j \in Ids : CanRun(j)' => CanRun(j)
  BY <1>1, <1>5 DEF CanRun, Gated
<1>7. FreshInv' /\ CancelledNeverRuns' /\ CanRunInv' /\ OneRecordInv' /\ WatchInv'
  BY <1>1, <1>2, <1>3, <1>4, <1>5, <1>6
     DEF SlotInv, FileInv, FreshInv, CancelledNeverRuns, CanRunInv, OneRecordInv, WatchInv,
         Recorded, Gated, Live
<1>8. QED
  BY <1>1, <1>2, <1>3, <1>5, <1>6, <1>7 DEF FileInv

LEMMA FileLaunchSpawn ==
  ASSUME TypeOK, SlotInv, LaunchSpawn
  PROVE  /\ FileInv'
         /\ \A j \in Ids : CanRun(j)' => CanRun(j) \/ (Goto("launchAwait") /\ j = op.id)
         /\ UNCHANGED <<key, store, faults>>
         /\ key[op.id] \in Keys
         /\ \A j \in Ids : Goto("launchAbandon") => ~CanRun(op.id) /\ sup' = sup
<1>1. UNCHANGED <<key, store, damaged, linked, cancelled, watch, faults>>
  BY DEF LaunchSpawn, fileVars, memVars, envVars
<1>2. /\ op.id \in Ids /\ key[op.id] \in Keys /\ key[op.id] # None
      /\ sup[op.id] = "none" /\ linked[op.id] /\ watch[op.id] = "none"
      /\ faults.damage = 0 => Recorded(op.id)
  BY Names, NoneAssumption
     DEF LaunchSpawn, At, SlotInv, OperationInv, SessionInHand, SpawnInv, LaunchInv
<1>3. \A j \in Ids : sup'[j] = sup[j] \/ (j = op.id /\ sup'[j] = "spawned" /\ Goto("launchAwait"))
  BY DEF LaunchSpawn, TypeOK, ProcessesOK
<1>4. \A j \in Ids : CanRun(j)' => CanRun(j) \/ (Goto("launchAwait") /\ j = op.id)
  BY <1>1, <1>3 DEF CanRun, Gated
<1>5. FreshInv' /\ CancelledNeverRuns' /\ CanRunInv' /\ OneRecordInv' /\ WatchInv'
  BY <1>1, <1>2, <1>3, <1>4
     DEF SlotInv, FileInv, FreshInv, CancelledNeverRuns, CanRunInv, OneRecordInv, WatchInv,
         Recorded, Gated, Live
<1>6. Goto("launchAbandon") => ~CanRun(op.id) /\ sup' = sup
  BY <1>2 DEF LaunchSpawn, Goto, CanRun, Gated, TypeOK, Operations
<1>7. QED
  BY <1>1, <1>2, <1>4, <1>5, <1>6 DEF FileInv

LEMMA FileEnvironment ==
  ASSUME TypeOK, SlotInv, Environment
  PROVE  /\ FileInv' /\ \A j \in Ids : CanRun(j)' => CanRun(j)
         /\ \A j \in Ids : Recorded(j)' => Recorded(j)
         /\ faults'.damage = 0 => faults.damage = 0
         /\ UNCHANGED <<key, linked>>
         /\ \A j \in Ids : watch[j] = "none" => watch'[j] = "none"
         /\ \A j \in Ids : sup[j] = "none" => sup'[j] = "none"
         /\ faults'.damage = 0 => store' = store
         /\ op' = op \/ op' = Idle
<1> USE DEF fileVars, procVars, memVars, envVars
<1>1. UNCHANGED <<key, linked, cancelled>>
  BY DEF Environment, AppCrash, AppQuit, AppGone, AppStart, FileDamaged, RegistrationChanges,
         CommandEnds, SupKill
<1>2. \A j \in Ids : sup'[j] = sup[j] \/ (Live(j) /\ sup'[j] = "exited")
  BY DEF Environment, AppCrash, AppQuit, AppGone, AppStart, FileDamaged, RegistrationChanges,
         CommandEnds, SupKill, Killed, TypeOK, ProcessesOK
<1>3. \A j \in Ids : watch'[j] = watch[j] \/ watch'[j] = "none"
  BY DEF Environment, AppCrash, AppQuit, AppGone, AppStart, FileDamaged, RegistrationChanges,
         CommandEnds, SupKill
<1>4. /\ faults'.damage = 0 => faults.damage = 0
      /\ faults'.damage = 0 => store' = store
      /\ \A j \in Ids : Recorded(j)' => Recorded(j)
  BY DEF Environment, AppCrash, AppQuit, AppGone, AppStart, FileDamaged, RegistrationChanges,
         CommandEnds, SupKill, Killed, TypeOK, EnvironmentOK, Recorded
<1>5. op' = op \/ op' = Idle
  BY DEF Environment, AppCrash, AppQuit, AppGone, AppStart, FileDamaged, RegistrationChanges,
         CommandEnds, SupKill
<1>6. \A j \in Ids : CanRun(j)' => CanRun(j)
  BY <1>1, <1>2 DEF CanRun, Gated
<1>7. FreshInv' /\ CancelledNeverRuns' /\ CanRunInv' /\ OneRecordInv' /\ WatchInv'
  BY <1>1, <1>2, <1>3, <1>4, <1>6
     DEF SlotInv, FileInv, FreshInv, CancelledNeverRuns, CanRunInv, OneRecordInv, WatchInv,
         Recorded, Gated, Live
<1>8. QED
  BY <1>1, <1>2, <1>3, <1>4, <1>5, <1>6, <1>7 DEF FileInv, Live

-----------------------------------------------------------------------------
(* The fields of the operation after each of its moves.                    *)

KeepsRequest == op'.kind = op.kind /\ op'.key = op.key
KeepsLists == op'.todo = op.todo /\ op'.stale = op.stale /\ op'.snap = op.snap
KeepsCall == op'.from = op.from /\ op'.id = op.id /\ op'.result = op.result

LEMMA Fields ==
  ASSUME op \in Operations
  PROVE  /\ \A s : Goto(s) => op'.pc = s /\ KeepsRequest /\ KeepsLists /\ KeepsCall
         /\ \A i, s : Select(i, s) =>
               /\ op'.pc = s /\ KeepsRequest /\ KeepsLists
               /\ op'.id = i /\ op'.from = op.from /\ op'.result = op.result
         /\ \A i, s : Passed(i, s) =>
               /\ op'.pc = s /\ KeepsRequest /\ KeepsCall
               /\ op'.todo = op.todo \ {i} /\ op'.stale = op.stale /\ op'.snap = op.snap
         /\ \A s, ids : Survey(s, ids) =>
               /\ op'.pc = s /\ KeepsRequest /\ KeepsCall
               /\ op'.todo = ids /\ op'.stale = op.stale /\ op'.snap = op.snap
         /\ \A s, ids : Read(s, ids) =>
               /\ op'.pc = s /\ KeepsRequest /\ KeepsCall
               /\ op'.todo = ids /\ op'.stale = op.stale /\ op'.snap = store
         /\ \A i : Adopt(i) =>
               /\ op'.pc = op.pc /\ KeepsRequest /\ KeepsCall /\ op'.stale = op.stale
               /\ \A j \in Ids : op'.snap[j] = IF j = i THEN "final" ELSE op.snap[j]
         /\ \A i, s, r : Call(i, s, r) =>
               /\ op'.pc = s /\ KeepsRequest /\ KeepsLists
               /\ op'.id = i /\ op'.from = r /\ op'.result = "none"
         /\ \A r : Return(r) =>
               /\ op'.pc = op.from /\ KeepsRequest /\ KeepsLists
               /\ op'.id = op.id /\ op'.from = "idle" /\ op'.result = r
         /\ \A r : Finish(r) =>
               op'.pc = "idle" /\ op'.from = "idle" /\ op'.kind = "idle" /\ op'.stale = {}
         /\ \A i, b : NextRecord(i, b) =>
               /\ op'.pc = "record" /\ KeepsRequest /\ KeepsCall
               /\ op'.todo = op.todo \ {i} /\ op'.snap = op.snap
         /\ \A i : NextRecord(i, TRUE) => op'.stale = op.stale \cup {i}
         /\ \A i : NextRecord(i, FALSE) => op'.stale = op.stale
         /\ \A i, s, b : NextDrain(s, i, b) =>
               /\ op'.pc = s /\ KeepsRequest /\ KeepsCall
               /\ op'.todo = op.todo \ {i} /\ op'.stale = op.stale /\ op'.snap = op.snap
         /\ \A kind, k, s : Enter(kind, k, s) =>
               op'.pc = s /\ op'.from = "idle" /\ op'.kind = kind /\ op'.key = k /\ op'.stale = {}
         /\ \A b : Guarded(b) => op'.pc = "guard" /\ KeepsRequest /\ KeepsLists /\ KeepsCall
<1> USE DEF Operations, KeepsRequest, KeepsLists, KeepsCall
<1>1. \A s : Goto(s) => op'.pc = s /\ KeepsRequest /\ KeepsLists /\ KeepsCall
  BY DEF Goto
<1>2. \A i, s : Select(i, s) =>
         /\ op'.pc = s /\ KeepsRequest /\ KeepsLists
         /\ op'.id = i /\ op'.from = op.from /\ op'.result = op.result
  BY DEF Select
<1>3. \A i, s : Passed(i, s) =>
         /\ op'.pc = s /\ KeepsRequest /\ KeepsCall
         /\ op'.todo = op.todo \ {i} /\ op'.stale = op.stale /\ op'.snap = op.snap
  BY DEF Passed
<1>4. \A s, ids : Survey(s, ids) =>
         /\ op'.pc = s /\ KeepsRequest /\ KeepsCall
         /\ op'.todo = ids /\ op'.stale = op.stale /\ op'.snap = op.snap
  BY DEF Survey
<1>5. \A s, ids : Read(s, ids) =>
         /\ op'.pc = s /\ KeepsRequest /\ KeepsCall
         /\ op'.todo = ids /\ op'.stale = op.stale /\ op'.snap = store
  BY DEF Read
<1>6. \A i : Adopt(i) =>
         /\ op'.pc = op.pc /\ KeepsRequest /\ KeepsCall /\ op'.stale = op.stale
         /\ \A j \in Ids : op'.snap[j] = IF j = i THEN "final" ELSE op.snap[j]
  BY DEF Adopt
<1>7. \A i, s, r : Call(i, s, r) =>
         /\ op'.pc = s /\ KeepsRequest /\ KeepsLists
         /\ op'.id = i /\ op'.from = r /\ op'.result = "none"
  BY DEF Call
<1>8. \A r : Return(r) =>
         /\ op'.pc = op.from /\ KeepsRequest /\ KeepsLists
         /\ op'.id = op.id /\ op'.from = "idle" /\ op'.result = r
  BY DEF Return
<1>9. \A r : Finish(r) =>
         op'.pc = "idle" /\ op'.from = "idle" /\ op'.kind = "idle" /\ op'.stale = {}
  BY IdleType DEF Finish, Idle
<1>10. \A i, b : NextRecord(i, b) =>
         /\ op'.pc = "record" /\ KeepsRequest /\ KeepsCall
         /\ op'.todo = op.todo \ {i} /\ op'.snap = op.snap
  BY DEF NextRecord
<1>11. \A i, s, b : NextDrain(s, i, b) =>
         /\ op'.pc = s /\ KeepsRequest /\ KeepsCall
         /\ op'.todo = op.todo \ {i} /\ op'.stale = op.stale /\ op'.snap = op.snap
  BY DEF NextDrain
<1>12. \A kind, k, s : Enter(kind, k, s) =>
         op'.pc = s /\ op'.from = "idle" /\ op'.kind = kind /\ op'.key = k /\ op'.stale = {}
  BY IdleType DEF Enter, Idle
<1>13. /\ \A i : NextRecord(i, TRUE) => op'.stale = op.stale \cup {i}
       /\ \A i : NextRecord(i, FALSE) => op'.stale = op.stale
  BY DEF NextRecord
<1>14. \A b : Guarded(b) => op'.pc = "guard" /\ KeepsRequest /\ KeepsLists /\ KeepsCall
  BY DEF Guarded
<1>15. QED
  BY <1>1, <1>2, <1>3, <1>4, <1>5, <1>6, <1>7, <1>8, <1>9, <1>10, <1>11, <1>12, <1>13, <1>14

-----------------------------------------------------------------------------
(* The operation.                                                          *)

LEMMA OperationOver ==
  ASSUME op'.pc = "idle", op'.from = "idle", op'.kind = "idle", op'.stale = {}
  PROVE  OperationInv'
  BY Names
  DEF OperationInv, SessionInHand, CallInv, LaunchInv, SpawnInv, DrawnInv, SoleRecordInv,
      RemovalInv, Removing, StaleInv, SnapshotInv, EntriesInv, Within, StopProcedure,
      ResolveProcedure, RemovalSteps, StoppedSteps, ResolvedSteps, ReconcileSteps, DrainSteps,
      DrainRecordSteps, RecordSteps

\* What other processes do does not disturb the operation.
LEMMA OperationFrame ==
  ASSUME TypeOK, SlotInv, UNCHANGED <<op, key>>,
         \A j \in Ids : CanRun(j)' => CanRun(j),
         \A j \in Ids : Recorded(j)' => Recorded(j),
         faults'.damage = 0 => faults.damage = 0,
         \A j \in Ids : sup[j] = "none" /\ linked[j] /\ watch[j] = "none" =>
               /\ sup'[j] = "none" /\ linked'[j] /\ watch'[j] = "none"
               /\ faults'.damage = 0 => (Recorded(j) => Recorded(j)')
  PROVE  OperationInv'
<1>1. op.pc \in {"launchRecord", "launchSpawn"} => op.id \in Ids
  BY Names DEF SlotInv, OperationInv, SessionInHand
<1>2. op.todo \subseteq Ids /\ op.stale \subseteq Ids
  BY DEF TypeOK, Operations
<1>3. SessionInHand' /\ CallInv' /\ DrawnInv' /\ EntriesInv'
  BY DEF SlotInv, OperationInv, SessionInHand, CallInv, DrawnInv, EntriesInv, Within
<1>4. LaunchInv'
  BY DEF SlotInv, OperationInv, LaunchInv, RecordsOf
<1>5. SpawnInv'
  BY <1>1 DEF SlotInv, OperationInv, SpawnInv
<1>6. SoleRecordInv' /\ SnapshotInv'
  BY DEF SlotInv, OperationInv, SoleRecordInv, SnapshotInv, Within
<1>7. RemovalInv'
  <2>1. Removing => op.id \in Ids
    BY Names DEF Removing, RemovalSteps, StoppedSteps, ResolvedSteps, SlotInv, OperationInv,
                 SessionInHand
  <2>2. QED
    BY <2>1 DEF SlotInv, OperationInv, RemovalInv, Removing
<1>8. StaleInv'
  BY <1>2 DEF SlotInv, OperationInv, StaleInv, Within
<1>9. QED
  BY <1>3, <1>4, <1>5, <1>6, <1>7, <1>8 DEF OperationInv

LEMMA OperationStop ==
  ASSUME TypeOK, SlotInv, StopStep, SessionInHand'
  PROVE  OperationInv'
<1> USE Fields DEF KeepsRequest, KeepsLists, KeepsCall, At
<1>1. op \in Operations /\ op.from = "idle" /\ op.stale = {}
  BY DEF TypeOK, StopStep, StopLookup, StopResolved, StopCheck, StopDiscard, StopTermed, StopFiles,
         SlotInv, OperationInv, CallInv, StaleInv, Within, StopProcedure, ResolveProcedure,
         RecordSteps
<1>2. ASSUME StopSucceeds PROVE OperationInv'
  <2>1. CASE Finish("ok")
    BY <1>1, <2>1, OperationOver
  <2>2. CASE op.kind = "restart" /\ Enter("restart", op.key, "launchCheck")
    BY <1>1, <2>2
    DEF SlotInv, OperationInv, SessionInHand, CallInv, LaunchInv, SpawnInv, DrawnInv,
        SoleRecordInv, RemovalInv, Removing, StaleInv, SnapshotInv, EntriesInv, Within,
        StopProcedure, ResolveProcedure, RemovalSteps, StoppedSteps, ResolvedSteps,
        ReconcileSteps, DrainSteps, DrainRecordSteps, RecordSteps
  <2>3. QED
    BY <1>2, <2>1, <2>2 DEF StopSucceeds
<1>3. /\ \A j \in Ids : (CanRun(j)' => CanRun(j)) /\ (Recorded(j)' => Recorded(j))
      /\ UNCHANGED <<key, sup, watch, faults.damage>>
  BY FileStop
<1> USE DEF SlotInv, OperationInv, SessionInHand, CallInv, LaunchInv, SpawnInv, DrawnInv,
            SoleRecordInv, RemovalInv, Removing, StaleInv, SnapshotInv, EntriesInv, Within,
            StopProcedure, ResolveProcedure, RemovalSteps, StoppedSteps, ResolvedSteps,
            ReconcileSteps, DrainSteps, DrainRecordSteps, RecordSteps
<1>4. ASSUME NEW r, Finish(r) PROVE OperationInv'
  BY <1>1, <1>4, OperationOver
<1>5. CASE StopLookup
  <2>1. ASSUME NEW i \in RecordsOf(op.key), Call(i, "resolve", "stopResolved") PROVE OperationInv'
    <3>1. \A j \in Ids : Recorded(j) /\ key[j] = key[i] => j = i
      BY DEF RecordsOf, FileInv, OneRecordInv
    <3>2. QED
      BY <1>1, <1>3, <2>1, <3>1
  <2>2. ASSUME NEW i \in RecordsOf(op.key), Select(i, "stopCheck") PROVE OperationInv'
    BY <1>1, <1>3, <2>2
  <2>3. QED
    BY <1>2, <1>4, <1>5, <2>1, <2>2 DEF StopLookup
<1>6. CASE StopResolved
  <2>1. CASE Goto("stopCheck")
    BY <1>1, <1>3, <2>1
  <2>2. QED
    BY <1>2, <1>4, <1>6, <2>1 DEF StopResolved
<1>7. CASE StopCheck
  <2>1. CASE Call(op.id, "term", "stopTermed")
    BY <1>1, <1>3, <2>1
  <2>2. CASE Goto("stopDiscard") /\ ~Live(op.id)
    BY <1>1, <1>3, <1>7, <2>2, Names DEF Live, CanRun, Gated, StopCheck
  <2>3. QED
    BY <1>4, <1>7, <2>1, <2>2 DEF StopCheck
<1>8. CASE StopDiscard
  BY <1>2, <1>4, <1>8 DEF StopDiscard
<1>9. CASE StopTermed
  <2>1. CASE Goto("stopFiles") /\ op.result = "ok"
    BY <1>1, <1>3, <1>9, <2>1, Names DEF StopTermed
  <2>2. QED
    BY <1>4, <1>9, <2>1 DEF StopTermed
<1>10. CASE StopFiles
  BY <1>2, <1>10 DEF StopFiles
<1>11. QED
  BY <1>5, <1>6, <1>7, <1>8, <1>9, <1>10 DEF StopStep

LEMMA OperationProcedures ==
  ASSUME TypeOK, SlotInv, Procedures, SessionInHand'
  PROVE  OperationInv'
<1> USE Fields DEF KeepsRequest, KeepsLists, KeepsCall, At
<1>1. op \in Operations /\ op.todo \subseteq Ids /\ op.stale \subseteq Ids
  BY DEF TypeOK, Operations
<1>2. /\ \A j \in Ids : CanRun(j)' => CanRun(j)
      /\ \A j \in Ids : Recorded(j)' => Recorded(j) \/ (ResolveUpsert /\ j = op.id)
      /\ UNCHANGED <<key, sup, watch, faults.damage>>
  BY FileProcedures
<1>3. op.id \in Ids
  BY Names DEF Procedures, TermSignal, TermWait, ResolvePending, ResolveUpsert, CancelPending,
               CancelUnlink, SlotInv, OperationInv, SessionInHand
<1> USE DEF SlotInv, OperationInv, SessionInHand, CallInv, LaunchInv, SpawnInv, DrawnInv,
            SoleRecordInv, RemovalInv, Removing, StaleInv, SnapshotInv, EntriesInv, Within,
            StopProcedure, ResolveProcedure, RemovalSteps, StoppedSteps, ResolvedSteps,
            ReconcileSteps, DrainSteps, DrainRecordSteps, RecordSteps
<1>4. CASE op' = [op EXCEPT !.pc = "termWait", !.tree = (cmd[op.id] = "run")] /\ TermSignal
  <2>1. op'.pc = "termWait" /\ KeepsRequest /\ KeepsLists /\ KeepsCall
    BY <1>1, <1>4 DEF Operations
  <2>2. \A j \in Ids : Recorded(j)' => Recorded(j)
    BY <1>4 DEF TermSignal, fileVars, Recorded
  <2>3. QED
    BY <1>1, <1>2, <1>3, <1>4, <2>1, <2>2 DEF TermSignal
<1>5. CASE Return("err") /\ (TermSignal \/ TermWait)
  <2>1. \A j \in Ids : Recorded(j)' => Recorded(j)
    BY <1>5 DEF TermSignal, TermWait, fileVars, Recorded
  <2>2. QED
    BY <1>1, <1>2, <1>3, <1>5, <2>1 DEF TermSignal, TermWait
<1>6. CASE TermWait /\ Return("ok")
  <2>1. ~CanRun(op.id) /\ \A j \in Ids : Recorded(j)' => Recorded(j)
    BY <1>1, <1>6 DEF TermWait, Live, CanRun, Gated, fileVars, Recorded
  <2>2. QED
    BY <1>1, <1>2, <1>3, <1>6, <2>1 DEF TermWait
<1>7. CASE ResolvePending
  <2>1. \A j \in Ids : Recorded(j)' => Recorded(j)
    BY <1>7 DEF ResolvePending, Recorded
  <2>2. CASE Goto("cancel")
    BY <1>1, <1>2, <1>3, <1>7, <2>1, <2>2 DEF ResolvePending
  <2>3. CASE Goto("resolveUpsert") /\ ControlActive(op.id)
    <3>1. key[op.id] # None
      BY <1>3, <2>3 DEF ControlActive, FileInv, FreshInv
    <3>2. QED
      BY <1>1, <1>2, <1>3, <1>7, <2>1, <2>3, <3>1 DEF ResolvePending
  <2>4. CASE Return("Stale") /\ ~Live(op.id)
    <3>1. ~CanRun(op.id)
      BY <2>4 DEF CanRun, Gated, Live
    <3>2. QED
      BY <1>1, <1>2, <1>3, <1>7, <2>1, <2>4, <3>1 DEF ResolvePending
  <2>5. CASE Return("Unverified")
    BY <1>1, <1>2, <1>3, <1>7, <2>1, <2>5 DEF ResolvePending
  <2>6. QED
    BY <1>7, <2>2, <2>3, <2>4, <2>5 DEF ResolvePending
<1>8. CASE ResolveUpsert
  <2>1. op'.pc = op.from /\ op'.from = "idle" /\ op'.id = op.id /\ op'.result \in {"Finalized", "err"}
        /\ KeepsRequest /\ KeepsLists
    BY <1>1, <1>8 DEF ResolveUpsert
  <2>2. op.pc = "resolveUpsert"
    BY <1>8 DEF ResolveUpsert
  <2>3. \A j \in Ids : Recorded(j)' => Recorded(j) \/ j = op.id
    BY <1>2
  <2>4. QED
    BY <1>1, <1>2, <1>3, <2>1, <2>2, <2>3
<1>9. CASE CancelPending
  <2>1. \A j \in Ids : Recorded(j)' => Recorded(j)
    BY <1>9 DEF CancelPending, Recorded
  <2>2. CASE Return("Stale") /\ ~linked[op.id]
    <3>1. ~CanRun(op.id)
      BY <1>3, <2>2 DEF FileInv, CanRunInv
    <3>2. QED
      BY <1>1, <1>2, <1>3, <1>9, <2>1, <2>2, <3>1 DEF CancelPending
  <2>3. CASE Return("Unverified")
    BY <1>1, <1>2, <1>3, <1>9, <2>1, <2>3 DEF CancelPending
  <2>4. CASE Goto("cancelUnlink") /\ ~Gated(op.id) /\ cancelled' = [cancelled EXCEPT ![op.id] = TRUE]
    <3>1. \A j \in Ids : j = op.id => ~CanRun(j)'
      BY <1>2, <1>3, <2>4 DEF CanRun, Gated, TypeOK, FilesOK
    <3>2. QED
      BY <1>1, <1>2, <1>3, <1>9, <2>1, <2>4, <3>1 DEF CancelPending
  <2>5. QED
    BY <1>9, <2>2, <2>3, <2>4 DEF CancelPending
<1>10. CASE CancelUnlink
  <2>1. ~CanRun(op.id) /\ \A j \in Ids : Recorded(j)' => Recorded(j)
    BY <1>10 DEF CancelUnlink, Recorded
  <2>2. QED
    BY <1>1, <1>2, <1>3, <1>10, <2>1 DEF CancelUnlink
<1>11. QED
  BY <1>4, <1>5, <1>6, <1>7, <1>8, <1>9, <1>10 DEF Procedures, TermSignal, TermWait

LEMMA OperationReconcile ==
  ASSUME TypeOK, SlotInv, ReconcileStep, SessionInHand'
  PROVE  OperationInv'
<1> USE Fields DEF KeepsRequest, KeepsLists, KeepsCall, At
<1>1. op \in Operations /\ op.todo \subseteq Ids /\ op.stale \subseteq Ids
  BY DEF TypeOK, Operations
<1>2. /\ \A j \in Ids : CanRun(j)' => CanRun(j)
      /\ Orphan \/ \A j \in Ids : Recorded(j)' => Recorded(j)
      /\ UNCHANGED <<key, sup, watch, faults.damage>>
  BY FileReconcile
<1> USE DEF SlotInv, OperationInv, SessionInHand, CallInv, LaunchInv, SpawnInv, DrawnInv,
            SoleRecordInv, RemovalInv, Removing, StaleInv, SnapshotInv, EntriesInv, Within,
            StopProcedure, ResolveProcedure, RemovalSteps, StoppedSteps, ResolvedSteps,
            ReconcileSteps, DrainSteps, DrainRecordSteps, RecordSteps
<1>3. ASSUME NEW r, Finish(r) PROVE OperationInv'
  BY <1>1, <1>3, OperationOver
<1>4. CASE Orphan
  <2>1. ASSUME NEW i \in op.todo, Passed(i, "orphans"), UNCHANGED store
        PROVE  OperationInv'
    BY <1>1, <1>2, <1>4, <2>1 DEF Orphan, Recorded
  <2>2. ASSUME NEW i \in op.todo, ~KeyTaken(i), Upsert(i, "final"), Adopt(i)
        PROVE  OperationInv'
    <3>1. \A j \in Ids : Recorded(j)' => Recorded(j) \/ j = i
      BY <1>1, <2>2, FileSteps
    <3>2. \A j \in Ids : op.snap[j] # "none" => key[j] # key[i]
      BY <2>2 DEF KeyTaken
    <3>3. /\ op'.pc = "orphans" /\ op'.from = op.from /\ op'.stale = op.stale /\ KeepsRequest
          /\ \A j \in Ids : op'.snap[j] = IF j = i THEN "final" ELSE op.snap[j]
      BY <1>1, <1>4, <2>2 DEF Orphan
    <3>4. QED
      BY <1>1, <1>2, <1>4, <3>1, <3>2, <3>3 DEF Orphan
  <2>3. ASSUME NEW i \in op.todo, Call(i, "term", "orphanStopped"), UNCHANGED store
        PROVE  OperationInv'
    BY <1>1, <1>2, <1>4, <2>3 DEF Orphan, Recorded
  <2>4. QED
    BY <1>3, <1>4, <2>1, <2>2, <2>3 DEF Orphan
<1>5. CASE OrphanStopped
  <2>1. CASE Passed(op.id, "orphans")
    BY <1>1, <1>2, <1>5, <2>1 DEF OrphanStopped, Recorded
  <2>2. QED
    BY <1>3, <1>5, <2>1 DEF OrphanStopped
<1>6. CASE OrphansDone
  BY <1>1, <1>2, <1>6 DEF OrphansDone, fileVars, Recorded
<1>7. CASE Load
  <2>1. \A i, j \in Ids : store[i] # "none" /\ store[j] # "none" /\ key[i] = key[j] => i = j
    BY DEF FileInv, OneRecordInv, Recorded
  <2>2. op'.pc = "record" /\ op'.from = op.from /\ op'.stale = op.stale /\ op'.snap = store
        /\ op'.todo = {i \in Ids : Recorded(i)} /\ KeepsRequest
    BY <1>1, <1>7 DEF Load
  <2>3. UNCHANGED store
    BY <1>7 DEF Load, fileVars
  <2>4. QED
    BY <1>1, <1>2, <1>7, <2>1, <2>2, <2>3 DEF Load, Recorded
<1>8. CASE Record
  <2>1. \A j \in Ids : Recorded(j)' => Recorded(j)
    BY <1>8 DEF Record, fileVars, Recorded
  <2>2. CASE Goto("sweep")
    BY <1>1, <1>2, <1>8, <2>1, <2>2 DEF Record
  <2>3. ASSUME NEW i \in op.todo, Call(i, "resolve", "recordResolved")
        PROVE  OperationInv'
    <3>1. op.snap[i] # "none" /\ \A j \in Ids : Recorded(j) /\ key[j] = key[i] => j = i
      BY <1>1, <1>8 DEF Record
    <3>2. QED
      BY <1>1, <1>2, <1>8, <2>1, <2>3, <3>1 DEF Record
  <2>4. ASSUME NEW i \in op.todo, Select(i, "recordCheck")
        PROVE  OperationInv'
    BY <1>1, <1>2, <1>8, <2>1, <2>4 DEF Record
  <2>5. QED
    BY <1>8, <2>2, <2>3, <2>4 DEF Record
<1>9. ASSUME NextRecord(op.id, FALSE) \/ (NextRecord(op.id, TRUE) /\ ~CanRun(op.id)),
             op.pc \in RecordSteps \ {"record"}, ~Orphan
      PROVE  OperationInv'
  <2>1. op.id \in Ids
    BY <1>9, Names
  <2>2. op'.pc = "record" /\ op'.from = "idle" /\ KeepsRequest /\ op'.snap = op.snap
        /\ op'.todo = op.todo \ {op.id}
    BY <1>1, <1>9
  <2>3. \A i \in op'.stale : i \in op.stale \/ (i = op.id /\ ~CanRun(op.id))
    <3>1. CASE NextRecord(op.id, FALSE)
      <4>1. op'.stale = op.stale
        BY <1>1, <3>1
      <4>2. QED
        BY <4>1
    <3>2. CASE NextRecord(op.id, TRUE) /\ ~CanRun(op.id)
      <4>1. op'.stale = op.stale \cup {op.id}
        BY <1>1, <3>2
      <4>2. QED
        BY <3>2, <4>1
    <3>3. QED
      BY <1>9, <3>1, <3>2
  <2>4. StaleInv'
    BY <1>1, <1>2, <2>1, <2>2, <2>3
  <2>5. SnapshotInv' /\ EntriesInv'
    BY <1>1, <1>2, <1>9, <2>2
  <2>6. CallInv' /\ LaunchInv' /\ SpawnInv' /\ DrawnInv' /\ SoleRecordInv' /\ RemovalInv'
    BY <1>9, <2>2
  <2>7. QED
    BY <2>4, <2>5, <2>6
<1>10. CASE RecordResolved
  <2>1. CASE Goto("recordCheck")
    BY <1>1, <1>2, <1>10, <2>1 DEF RecordResolved, fileVars, Recorded
  <2>2. ~Orphan /\ op.pc \in RecordSteps \ {"record"}
    BY <1>10 DEF RecordResolved, Orphan
  <2>3. QED
    BY <1>3, <1>9, <1>10, <2>1, <2>2 DEF RecordResolved
<1>11. CASE RecordCheck
  <2>1. CASE Call(op.id, "term", "recordStopped")
    BY <1>1, <1>2, <1>11, <2>1 DEF RecordCheck, Recorded
  <2>2. ~Orphan /\ op.pc \in RecordSteps \ {"record"}
    BY <1>11 DEF RecordCheck, Orphan
  <2>3. ~Live(op.id) => ~CanRun(op.id)
    BY DEF Live, CanRun, Gated
  <2>4. QED
    BY <1>9, <1>11, <2>1, <2>2, <2>3 DEF RecordCheck
<1>12. CASE RecordStopped
  <2>1. ~Orphan /\ op.pc \in RecordSteps \ {"record"}
    BY <1>12 DEF RecordStopped, Orphan
  <2>2. QED
    BY <1>3, <1>9, <1>12, <2>1 DEF RecordStopped
<1>13. CASE Sweep
  <2>1. \A j \in Ids : Recorded(j)' => Recorded(j)
    BY <1>2, <1>13 DEF Sweep, Orphan
  <2>2. ASSUME NEW i \in op.stale, op' = [op EXCEPT !.stale = @ \ {i}]
        PROVE  OperationInv'
    <3>1. op'.pc = op.pc /\ KeepsRequest /\ KeepsCall /\ op'.stale = op.stale \ {i}
          /\ op'.snap = op.snap /\ op'.todo = op.todo
      BY <1>1, <2>2 DEF Operations
    <3>2. QED
      BY <1>1, <1>2, <1>13, <2>1, <3>1 DEF Sweep
  <2>3. CASE op.stale = {} /\ Goto("publish")
    BY <1>1, <1>2, <1>13, <2>1, <2>3 DEF Sweep
  <2>4. QED
    BY <1>3, <1>13, <2>2, <2>3 DEF Sweep
<1>14. CASE Publish
  <2>1. ASSUME NEW b, Guarded(b) PROVE OperationInv'
    BY <1>1, <1>2, <1>14, <2>1 DEF Publish, fileVars, Recorded
  <2>2. QED
    BY <1>3, <1>14, <2>1 DEF Publish
<1>15. QED
  BY <1>4, <1>5, <1>6, <1>7, <1>8, <1>10, <1>11, <1>12, <1>13, <1>14 DEF ReconcileStep

LEMMA OperationShutdown ==
  ASSUME TypeOK, SlotInv, ShutdownStep, SessionInHand'
  PROVE  OperationInv'
<1> USE Fields DEF KeepsRequest, KeepsLists, KeepsCall, At
<1>1. op \in Operations /\ op.todo \subseteq Ids
  BY DEF TypeOK, Operations
<1>2. /\ \A j \in Ids : CanRun(j)' => CanRun(j)
      /\ \A j \in Ids : Recorded(j)' => Recorded(j)
      /\ UNCHANGED <<key, sup, watch, faults.damage>>
  BY FileShutdown
<1> USE DEF SlotInv, OperationInv, SessionInHand, CallInv, LaunchInv, SpawnInv, DrawnInv,
            SoleRecordInv, RemovalInv, Removing, StaleInv, SnapshotInv, EntriesInv, Within,
            StopProcedure, ResolveProcedure, RemovalSteps, StoppedSteps, ResolvedSteps,
            ReconcileSteps, DrainSteps, DrainRecordSteps, RecordSteps
<1>3. op.stale = {} /\ op.from = "idle"
  BY DEF ShutdownStep, Guard, DrainBegin, DrainActive, DrainActiveStopped, DrainRecords,
         DrainResolved, DrainCheck, DrainStopped, DrainRemove
<1>4. ASSUME NEW r, Finish(r) PROVE OperationInv'
  BY <1>1, <1>4, OperationOver
<1>5. CASE Guard
  <2>1. CASE Goto("drain")
    BY <1>1, <1>2, <1>3, <1>5, <2>1
  <2>2. QED
    BY <1>4, <1>5, <2>1 DEF Guard
<1>6. CASE DrainBegin
  <2>1. \A i, j \in Ids : store[i] # "none" /\ store[j] # "none" /\ key[i] = key[j] => i = j
    BY DEF FileInv, OneRecordInv, Recorded
  <2>2. ASSUME NEW ids, Read("drainActive", ids) PROVE OperationInv'
    <3>1. UNCHANGED store
      BY <1>6 DEF DrainBegin, fileVars
    <3>2. QED
      BY <1>1, <1>2, <1>3, <2>1, <2>2, <3>1 DEF Recorded
  <2>3. QED
    BY <1>4, <1>6, <2>2 DEF DrainBegin
\* A move to the next entry.
<1>7. ASSUME NEW b, NEW i, NextDrain("drainActive", i, b), op.pc \in {"drainActive", "drainActiveStopped"}
      PROVE  OperationInv'
  BY <1>1, <1>2, <1>3, <1>7
<1>8. ASSUME NEW b, NEW i, NextDrain("drainRecords", i, b), op.pc \in DrainRecordSteps
      PROVE  OperationInv'
  BY <1>1, <1>2, <1>3, <1>8
<1>9. CASE DrainActive
  <2>1. CASE Survey("drainRecords", {i \in Ids : op.snap[i] # "none"})
    BY <1>1, <1>2, <1>3, <1>9, <2>1 DEF DrainActive
  <2>2. ASSUME NEW i \in op.todo, Call(i, "term", "drainActiveStopped") PROVE OperationInv'
    BY <1>1, <1>2, <1>3, <1>9, <2>2 DEF DrainActive
  <2>3. QED
    BY <1>7, <1>9, <2>1, <2>2 DEF DrainActive
<1>10. CASE DrainActiveStopped
  BY <1>7, <1>10 DEF DrainActiveStopped
<1>11. CASE DrainRecords
  <2>1. ASSUME NEW i \in op.todo, Call(i, "resolve", "drainResolved") PROVE OperationInv'
    <3>1. op.snap[i] # "none" /\ \A j \in Ids : Recorded(j) /\ key[j] = key[i] => j = i
      BY <1>1, <1>11 DEF DrainRecords
    <3>2. QED
      BY <1>1, <1>2, <1>3, <1>11, <2>1, <3>1 DEF DrainRecords
  <2>2. ASSUME NEW i \in op.todo, Select(i, "drainCheck") PROVE OperationInv'
    BY <1>1, <1>2, <1>3, <1>11, <2>2 DEF DrainRecords
  <2>3. QED
    BY <1>4, <1>11, <2>1, <2>2 DEF DrainRecords
<1>12. CASE DrainResolved
  <2>1. CASE Goto("drainCheck")
    BY <1>1, <1>2, <1>3, <1>12, <2>1 DEF DrainResolved
  <2>2. op.pc \in DrainRecordSteps
    BY <1>12 DEF DrainResolved
  <2>3. QED
    BY <1>8, <1>12, <2>1, <2>2 DEF DrainResolved
<1>13. CASE DrainCheck
  <2>1. CASE Call(op.id, "term", "drainStopped")
    BY <1>1, <1>2, <1>3, <1>13, <2>1 DEF DrainCheck
  <2>2. CASE Goto("drainRemove") /\ ~Live(op.id)
    <3>1. ~CanRun(op.id) /\ op.id \in Ids
      BY <1>13, <2>2, Names DEF Live, CanRun, Gated, DrainCheck
    <3>2. QED
      BY <1>1, <1>2, <1>3, <1>13, <2>2, <3>1 DEF DrainCheck
  <2>3. op.pc \in DrainRecordSteps
    BY <1>13 DEF DrainCheck
  <2>4. QED
    BY <1>8, <1>13, <2>1, <2>2, <2>3 DEF DrainCheck
<1>14. CASE DrainStopped
  <2>1. CASE Goto("drainRemove") /\ op.result = "ok"
    <3>1. ~CanRun(op.id) /\ op.id \in Ids
      BY <1>14, <2>1, Names DEF DrainStopped
    <3>2. QED
      BY <1>1, <1>2, <1>3, <1>14, <2>1, <3>1 DEF DrainStopped
  <2>2. op.pc \in DrainRecordSteps
    BY <1>14 DEF DrainStopped
  <2>3. QED
    BY <1>8, <1>14, <2>1, <2>2 DEF DrainStopped
<1>15. CASE DrainRemove
  <2>1. op.pc \in DrainRecordSteps
    BY <1>15 DEF DrainRemove
  <2>2. QED
    BY <1>8, <1>15, <2>1 DEF DrainRemove
<1>16. QED
  BY <1>5, <1>6, <1>9, <1>10, <1>11, <1>12, <1>13, <1>14, <1>15 DEF ShutdownStep

LEMMA OperationRequest ==
  ASSUME TypeOK, SlotInv, UserRequest, SessionInHand'
  PROVE  OperationInv'
<1> USE Fields DEF KeepsRequest, KeepsLists, KeepsCall, At
<1>1. /\ \A j \in Ids : CanRun(j)' => CanRun(j)
      /\ UNCHANGED <<fileVars, sup, watch, faults>>
  BY FileRequest
<1>2. op \in Operations
  BY DEF TypeOK
<1>3. CASE CancelUpdate
  BY <1>1, <1>3, OperationFrame DEF CancelUpdate, fileVars, Recorded
<1> USE DEF SlotInv, OperationInv, SessionInHand, CallInv, LaunchInv, SpawnInv, DrawnInv,
            SoleRecordInv, RemovalInv, Removing, StaleInv, SnapshotInv, EntriesInv, Within,
            StopProcedure, ResolveProcedure, RemovalSteps, StoppedSteps, ResolvedSteps,
            ReconcileSteps, DrainSteps, DrainRecordSteps, RecordSteps
<1>4. ASSUME NEW kind, NEW k, BeginReconcile(kind, k), kind # "restart" PROVE OperationInv'
  <2>1. \A i, j \in Ids : store[i] # "none" /\ store[j] # "none" /\ key[i] = key[j] => i = j
    BY DEF FileInv, OneRecordInv, Recorded
  <2>2. op'.pc \in {"load", "orphans"} /\ op'.from = "idle" /\ op'.stale = {} /\ op'.snap = store
        /\ op'.kind = kind
    BY <1>4, IdleType DEF BeginReconcile, Operations, Idle
  <2>3. QED
    BY <1>1, <1>4, <2>1, <2>2 DEF fileVars, Recorded
<1>5. ASSUME NEW kind, NEW k, NEW s \in {"launchCheck", "stopLookup", "drain"}, Begin(kind, k, s),
             s = "launchCheck" \/ kind = "restart" => k \in Keys
      PROVE  OperationInv'
  BY <1>2, <1>5 DEF Begin
<1>6. QED
  BY <1>3, <1>4, <1>5
     DEF UserRequest, BeginLaunch, BeginStop, BeginEdit, BeginStatus, BeginExit, BeginUpdate

LEMMA OperationLaunch ==
  ASSUME TypeOK, SlotInv, LaunchStep, SessionInHand'
  PROVE  OperationInv'
<1> USE Fields DEF KeepsRequest, KeepsLists, KeepsCall, At
<1>1. op \in Operations
  BY DEF TypeOK
<1> USE DEF SlotInv, OperationInv, SessionInHand, CallInv, LaunchInv, SpawnInv, DrawnInv,
            SoleRecordInv, RemovalInv, Removing, StaleInv, SnapshotInv, EntriesInv, Within,
            StopProcedure, ResolveProcedure, RemovalSteps, StoppedSteps, ResolvedSteps,
            ReconcileSteps, DrainSteps, DrainRecordSteps, RecordSteps
<1>2. op.stale = {} /\ op.from = "idle"
  BY DEF LaunchStep, LaunchCheck, LaunchDropStale, LaunchCreate, LaunchRecord, LaunchSpawn,
         LaunchAwait, LaunchFinalize, LaunchActivate, LaunchUndo, LaunchAbort, LaunchKill,
         LaunchAbandon, LaunchUnlink
<1>3. ASSUME NEW r, Finish(r) PROVE OperationInv'
  BY <1>1, <1>3, OperationOver
<1>4. CASE LaunchCreate
  <2>1. PICK i \in Ids : /\ Select(i, "launchRecord")
                         /\ key'[i] = op.key /\ sup'[i] = "none" /\ linked'[i]
                         /\ watch'[i] = "none"
                         /\ \A j \in Ids : Recorded(j)' => key'[j] # op.key
    BY <1>4, FileLaunchCreate
  <2>2. op.key \in Keys
    BY <1>4, FileLaunchCreate
  <2>3. QED
    BY <1>1, <1>2, <2>1, <2>2
<1>5. CASE LaunchRecord \/ LaunchFinalize
  <2>1. /\ op.id \in Ids
        /\ UNCHANGED <<key, sup, watch, faults.damage>>
        /\ \A j \in Ids : CanRun(j)' => CanRun(j)
        /\ \A j \in Ids : Recorded(j)' => Recorded(j) \/ j = op.id
        /\ \A j \in Ids : Goto("launchSpawn") /\ j = op.id => linked'[j] = linked[j] /\ Recorded(j)'
    BY <1>5, FileLaunchRecord
  <2>2. op.pc \in {"launchRecord", "launchFinalize"}
    BY <1>5 DEF LaunchRecord, LaunchFinalize
  <2>3. CASE Goto("launchSpawn") /\ LaunchRecord
    BY <1>1, <1>2, <2>1, <2>3 DEF LaunchRecord
  <2>4. CASE Goto("launchActivate") /\ LaunchFinalize
    BY <1>1, <1>2, <2>1, <2>4 DEF LaunchFinalize
  <2>5. CASE Call(op.id, "term", "launchUndo") /\ LaunchFinalize
    BY <1>1, <1>2, <2>1, <2>5 DEF LaunchFinalize
  <2>6. QED
    BY <1>3, <1>5, <2>3, <2>4, <2>5 DEF LaunchRecord, LaunchFinalize
<1>6. CASE LaunchSpawn
  <2>1. /\ \A j \in Ids : CanRun(j)' => CanRun(j) \/ (Goto("launchAwait") /\ j = op.id)
        /\ UNCHANGED <<key, store, faults>>
        /\ key[op.id] \in Keys
    BY <1>6, FileLaunchSpawn
  <2>2. op.id \in Ids /\ key[op.id] # None /\ op.pc = "launchSpawn"
    BY <1>6, <2>1, Names, NoneAssumption DEF LaunchSpawn
  <2>3. CASE Goto("launchAwait")
    BY <1>1, <1>2, <2>1, <2>2, <2>3 DEF Recorded
  <2>4. CASE Goto("launchAbandon") /\ sup' = sup
    <3>1. ~CanRun(op.id)
      BY <2>2 DEF CanRun, Gated
    <3>2. \A j \in Ids : CanRun(j)' => CanRun(j)
      BY <1>6, <2>4 DEF LaunchSpawn, CanRun, Gated, fileVars
    <3>3. QED
      BY <1>1, <1>2, <2>1, <2>2, <2>4, <3>1, <3>2 DEF Recorded
  <2>5. QED
    BY <1>6, <2>3, <2>4 DEF LaunchSpawn
<1>7. CASE ~LaunchCreate /\ ~LaunchRecord /\ ~LaunchSpawn /\ ~LaunchFinalize
  <2>1. /\ \A j \in Ids : CanRun(j)' => CanRun(j)
        /\ UNCHANGED <<key, faults.damage>>
        /\ \A j \in Ids : Recorded(j)' => Recorded(j)
        /\ \A j \in Ids : LaunchKill /\ j = op.id => ~CanRun(j)'
    BY <1>7, FileLaunchRemoves
  <2>2. CASE LaunchCheck
    <3>1. CASE Goto("launchCreate") /\ RecordsOf(op.key) = {}
      BY <1>1, <1>2, <2>1, <2>2, <3>1 DEF LaunchCheck, RecordsOf
    <3>2. ASSUME NEW i \in RecordsOf(op.key), ~Live(i), Select(i, "launchDropStale")
          PROVE  OperationInv'
      <4>1. i \in Ids /\ ~CanRun(i) /\ RecordsOf(op.key) \subseteq {i}
        BY <3>2 DEF RecordsOf, CanRun, Gated, Live, FileInv, OneRecordInv
      <4>2. (RecordsOf(op.key) \subseteq {i})'
        BY <1>1, <2>1, <3>2, <4>1 DEF RecordsOf
      <4>3. QED
        BY <1>1, <1>2, <2>1, <2>2, <3>2, <4>1, <4>2 DEF LaunchCheck
    <3>3. QED
      BY <1>3, <2>2, <3>1, <3>2 DEF LaunchCheck
  <2>3. CASE LaunchDropStale
    <3>1. CASE Goto("launchCreate") /\ Remove(op.id)
      <4>1. op.id \in Ids
        BY <2>3, Names DEF LaunchDropStale
      <4>2. (RecordsOf(op.key) = {})'
        BY <1>1, <2>1, <2>3, <3>1, <4>1, FileSteps DEF RecordsOf, LaunchDropStale
      <4>3. QED
        BY <1>1, <1>2, <2>1, <2>3, <3>1, <4>2 DEF LaunchDropStale
    <3>2. QED
      BY <1>3, <2>3, <3>1 DEF LaunchDropStale
  <2>4. CASE LaunchAwait
    BY <1>1, <1>2, <2>1, <2>4, Names DEF LaunchAwait
  <2>5. CASE LaunchAbort
    BY <1>1, <1>2, <2>1, <2>5 DEF LaunchAbort
  <2>6. CASE LaunchKill
    BY <1>1, <1>2, <2>1, <2>6, Names DEF LaunchKill
  <2>7. CASE LaunchAbandon
    BY <1>1, <1>2, <2>1, <2>7, Names DEF LaunchAbandon
  <2>8. QED
    BY <1>3, <1>7, <2>2, <2>3, <2>4, <2>5, <2>6, <2>7
       DEF LaunchStep, LaunchActivate, LaunchUndo, LaunchUnlink
<1>8. QED
  BY <1>4, <1>5, <1>6, <1>7

LEMMA SlotNext ==
  ASSUME TypeOK, SlotInv, [Next]_vars
  PROVE  SlotInv'
<1>1. SessionInHand /\ FileInv
  BY DEF SlotInv, OperationInv
<1>2. SessionInHand'
  BY <1>1, TypeNext
<1>3. CASE UserRequest
  BY <1>2, <1>3, FileRequest, OperationRequest DEF SlotInv
<1>4. CASE LaunchStep
  <2>1. FileInv'
    BY <1>4, FileLaunchRemoves, FileLaunchCreate, FileLaunchRecord, FileLaunchSpawn
  <2>2. QED
    BY <1>2, <1>4, <2>1, OperationLaunch DEF SlotInv
<1>5. CASE StopStep
  BY <1>2, <1>5, FileStop, OperationStop DEF SlotInv
<1>6. CASE Procedures
  BY <1>2, <1>6, FileProcedures, OperationProcedures DEF SlotInv
<1>7. CASE ReconcileStep
  BY <1>2, <1>7, FileReconcile, OperationReconcile DEF SlotInv
<1>8. CASE ShutdownStep
  BY <1>2, <1>8, FileShutdown, OperationShutdown DEF SlotInv
<1>9. ASSUME NEW i \in Ids, SupervisorStep(i) PROVE SlotInv'
  <2>1. FileInv'
    BY <1>1, <1>9, FileSupervisor
  <2>2. OperationInv'
    <3>1. /\ UNCHANGED <<op, key, store, faults, watch>>
          /\ \A j \in Ids : CanRun(j)' => CanRun(j)
          /\ \A j \in Ids : sup[j] = "none" => sup'[j] = "none" /\ linked'[j] = linked[j]
      BY <1>1, <1>9, FileSupervisor
    <3>2. QED
      BY <3>1, OperationFrame DEF Recorded
  <2>3. QED
    BY <2>1, <2>2 DEF SlotInv
<1>10. ASSUME NEW i \in Ids, WatcherStep(i) PROVE SlotInv'
  <2>1. FileInv'
    BY <1>1, <1>10, FileWatcher
  <2>2. OperationInv'
    <3>1. /\ UNCHANGED <<op, key, sup, faults.damage>>
          /\ \A j \in Ids : Recorded(j)' => Recorded(j)
          /\ \A j \in Ids : CanRun(j)' => CanRun(j)
          /\ \A j \in Ids : watch[j] = "none" =>
                watch'[j] = "none" /\ linked'[j] = linked[j] /\ store'[j] = store[j]
      BY <1>1, <1>10, FileWatcher
    <3>2. QED
      BY <3>1, OperationFrame DEF Recorded
  <2>3. QED
    BY <2>1, <2>2 DEF SlotInv
<1>11. CASE Environment
  <2>1. FileInv'
    BY <1>11, FileEnvironment
  <2>2. CASE op' = Idle
    BY <1>11, <2>1, <2>2, OperationOver DEF Idle, SlotInv
  <2>3. CASE op' = op
    <3>1. /\ \A j \in Ids : CanRun(j)' => CanRun(j)
          /\ \A j \in Ids : Recorded(j)' => Recorded(j)
          /\ faults'.damage = 0 => faults.damage = 0
          /\ UNCHANGED <<key, linked>>
          /\ \A j \in Ids : watch[j] = "none" => watch'[j] = "none"
          /\ \A j \in Ids : sup[j] = "none" => sup'[j] = "none"
          /\ faults'.damage = 0 => store' = store
      BY <1>11, FileEnvironment
    <3>2. OperationInv'
      BY <2>3, <3>1, OperationFrame DEF Recorded
    <3>3. QED
      BY <2>1, <3>2 DEF SlotInv
  <2>4. QED
    BY <1>11, <2>2, <2>3, FileEnvironment
<1>12. CASE UNCHANGED vars
  <2>1. UNCHANGED <<op, key, store, linked, cancelled, sup, watch, faults>>
    BY <1>12 DEF vars, fileVars, procVars, memVars, envVars
  <2>2. FileInv' /\ \A j \in Ids : CanRun(j)' => CanRun(j)
    BY <1>1, <2>1, FileFrame DEF FileInv, CanRunInv, Recorded
  <2>3. OperationInv'
    BY <2>1, <2>2, OperationFrame DEF Recorded
  <2>4. QED
    BY <2>2, <2>3 DEF SlotInv
<1>13. QED
  BY <1>3, <1>4, <1>5, <1>6, <1>7, <1>8, <1>9, <1>10, <1>11, <1>12 DEF Next, OperationStep

\* The inductive invariant holds of every reachable state.
THEOREM SlotInvariant == Spec => []SlotInv
<1>1. Init => TypeOK /\ SlotInv
  BY TypeInit, SlotInit
<1>2. (TypeOK /\ SlotInv) /\ [Next]_vars => (TypeOK /\ SlotInv)'
  BY SlotNext, TypeNext DEF SlotInv, OperationInv
<1>3. QED
  BY <1>1, <1>2, PTL DEF Spec

-----------------------------------------------------------------------------
(* What it implies.                                                        *)

\* Whatever the number of sessions, keys and faults, a cancelled launch never
\* passes the gate of its supervisor.
THEOREM CancelledSafe == Spec => []CancelledNeverRuns
<1>1. SlotInv => CancelledNeverRuns
  BY DEF SlotInv, FileInv
<1>2. QED
  BY <1>1, SlotInvariant, PTL

\* While the sessions file was never damaged, whatever runs or can run is
\* recorded and can be stopped by its control file.
THEOREM LiveRecorded == Spec => []LiveIsRecorded
<1>1. SlotInv => LiveIsRecorded
  BY DEF SlotInv, FileInv, CanRunInv, LiveIsRecorded
<1>2. QED
  BY <1>1, SlotInvariant, PTL

\* Two sessions of one key never run at a time: both would be recorded, and
\* a key has one record.
THEOREM RunsExclude == Spec => []ExclusiveRun
<1>1. SlotInv => ExclusiveRun
  <2>1. SUFFICES ASSUME SlotInv, faults.damage = 0,
                        NEW i \in Ids, NEW j \in Ids,
                        CanRun(i), CanRun(j), key[i] = key[j]
                 PROVE  i = j
    BY DEF ExclusiveRun
  <2>2. Recorded(i) /\ Recorded(j)
    BY <2>1 DEF SlotInv, FileInv, CanRunInv
  <2>3. QED
    BY <2>1, <2>2 DEF SlotInv, FileInv, OneRecordInv
<1>2. QED
  BY <1>1, SlotInvariant, PTL

(***************************************************************************)
(* Reports, files and the refinement, from SlotInv.                        *)
(***************************************************************************)

LEMMA RunInit == Init => RunInv
<1> SUFFICES ASSUME Init PROVE RunInv
  OBVIOUS
<1>1. MarkerInv /\ CommandInv /\ ActiveInv
  BY DEF Init, MarkerInv, CommandInv, ActiveInv, Published
<1>2. KindInv /\ StopInv /\ ActivationInv
  BY DEF Init, Idle, KindInv, StopInv, ActivationInv, Within, LaunchSteps, StopSteps,
         ReconcileSteps, RecordSteps, CreatedSteps, DrainSteps, DrainRecordSteps
<1>3. QED
  BY <1>1, <1>2 DEF RunInv

-----------------------------------------------------------------------------
(* Files and processes.  A step of the application is quiet: what it takes *)
(* away belongs to sessions that cannot run.                               *)

Quiet ==
    /\ UNCHANGED sup
    /\ faults'.kill = faults.kill
    /\ \A j \in Ids : /\ Published(j)' => Published(j)
                      /\ CanRun(j) => Published(j)' = Published(j) /\ linked'[j]
                      /\ cmd'[j] = "run" => cmd[j] = "run"

LEMMA QuietStep ==
  ASSUME Quiet, MarkerInv, CommandInv
  PROVE  MarkerInv' /\ CommandInv'
  BY DEF Quiet, MarkerInv, CommandInv, CanRun, Gated

\* What remains published and linked when files are removed.
LEMMA Discards ==
  ASSUME TypeOK
  PROVE  /\ \A i : Unpublish(i) => \A j \in Ids : Published(j)' <=> Published(j) /\ j # i
         /\ \A i : DiscardFiles(i) => Unpublish(i) /\ Unlink(i)
         /\ \A i : Unlink(i) => \A j \in Ids : linked'[j] <=> linked[j] /\ j # i
         /\ WriteFails => faults'.kill = faults.kill
<1>1. \A i : Unpublish(i) => \A j \in Ids : Published(j)' <=> Published(j) /\ j # i
  BY DEF Unpublish, Published, TypeOK, FilesOK
<1>2. \A i : Unlink(i) => \A j \in Ids : linked'[j] <=> linked[j] /\ j # i
  BY DEF Unlink, TypeOK, FilesOK
<1>3. WriteFails => faults'.kill = faults.kill
  BY DEF WriteFails, TypeOK, EnvironmentOK
<1>4. QED
  BY <1>1, <1>2, <1>3 DEF DiscardFiles

LEMMA QuietStop ==
  ASSUME TypeOK, SlotInv, StopStep
  PROVE  Quiet
<1> USE DEF StopStep, StopLookup, StopResolved, StopCheck, StopDiscard, StopTermed, StopFiles,
            fileVars, procVars, envVars
<1>1. UNCHANGED <<sup, cmd>>
  OBVIOUS
<1>2. faults'.kill = faults.kill
  BY Discards
<1>3. UNCHANGED <<linked, marker>> \/ (~CanRun(op.id) /\ DiscardFiles(op.id))
  BY DEF SlotInv, OperationInv, RemovalInv, Removing, RemovalSteps, At, CanRun, Gated, Live
<1>4. QED
  BY <1>1, <1>2, <1>3, Discards DEF Quiet, SlotInv, FileInv, CanRunInv, Published

LEMMA QuietShutdown ==
  ASSUME TypeOK, SlotInv, ShutdownStep
  PROVE  Quiet
<1> USE DEF ShutdownStep, Guard, DrainBegin, DrainActive, DrainActiveStopped, DrainRecords,
            DrainResolved, DrainCheck, DrainStopped, DrainRemove, fileVars, procVars, envVars
<1>1. UNCHANGED <<sup, cmd>>
  OBVIOUS
<1>2. faults'.kill = faults.kill
  BY Discards
<1>3. UNCHANGED <<linked, marker>> \/ (~CanRun(op.id) /\ DiscardFiles(op.id))
  BY DEF SlotInv, OperationInv, RemovalInv, Removing, StoppedSteps, At, CanRun, Gated, Live
<1>4. QED
  BY <1>1, <1>2, <1>3, Discards DEF Quiet, SlotInv, FileInv, CanRunInv, Published

LEMMA QuietProcedures ==
  ASSUME TypeOK, SlotInv, Procedures
  PROVE  Quiet
<1> USE DEF Procedures, TermSignal, TermWait, ResolvePending, ResolveUpsert, CancelPending,
            CancelUnlink, fileVars, procVars, envVars
<1>1. UNCHANGED sup /\ \A j \in Ids : cmd'[j] = "run" => cmd[j] = "run"
  BY DEF TypeOK, ProcessesOK
<1>2. faults'.kill = faults.kill
  BY Discards
<1>3. UNCHANGED marker \/ (~CanRun(op.id) /\ Unpublish(op.id))
  BY DEF CanRun, Gated, Live
<1>4. UNCHANGED linked \/ (~CanRun(op.id) /\ Unlink(op.id))
  BY DEF SlotInv, OperationInv, RemovalInv, Removing, RemovalSteps, At
<1>5. QED
  BY <1>1, <1>2, <1>3, <1>4, Discards DEF Quiet, SlotInv, FileInv, CanRunInv, Published

LEMMA QuietReconcile ==
  ASSUME TypeOK, SlotInv, ReconcileStep
  PROVE  Quiet
<1> USE DEF ReconcileStep, Orphan, OrphanStopped, OrphansDone, Load, Record, RecordResolved,
            RecordCheck, RecordStopped, Sweep, Publish, fileVars, procVars, envVars
<1>1. UNCHANGED <<sup, cmd>>
  OBVIOUS
<1>2. faults'.kill = faults.kill
  BY Discards
<1>3. UNCHANGED marker \/ (~CanRun(op.id) /\ Unpublish(op.id))
  BY Discards
     DEF SlotInv, OperationInv, RemovalInv, Removing, StoppedSteps, At, CanRun, Gated, Live
<1>4. UNCHANGED linked \/ (~CanRun(op.id) /\ Unlink(op.id))
  BY Discards
     DEF SlotInv, OperationInv, RemovalInv, Removing, StoppedSteps, At, CanRun, Gated, Live
<1>5. QED
  BY <1>1, <1>2, <1>3, <1>4, Discards DEF Quiet, SlotInv, FileInv, CanRunInv, Published

LEMMA QuietRequest ==
  ASSUME TypeOK, SlotInv, UserRequest
  PROVE  Quiet
<1>1. UNCHANGED <<sup, cmd, faults, linked, marker>>
  BY DEF UserRequest, BeginLaunch, BeginStop, BeginEdit, BeginStatus, BeginExit, BeginUpdate,
         BeginReconcile, CancelUpdate, fileVars, procVars, envVars
<1>2. QED
  BY <1>1 DEF Quiet, SlotInv, FileInv, CanRunInv, Published

LEMMA QuietWatcher ==
  ASSUME TypeOK, SlotInv, NEW i \in Ids, WatcherStep(i)
  PROVE  Quiet
<1> USE DEF WatcherStep, WatchRemove, WatchFiles, WatchMemory, procVars, fileVars, envVars
<1>1. UNCHANGED <<sup, cmd>>
  OBVIOUS
<1>2. faults'.kill = faults.kill
  BY Discards
<1>3. UNCHANGED <<linked, marker>> \/ (~CanRun(i) /\ Unpublish(i) /\ Unlink(i))
  BY DEF SlotInv, FileInv, WatchInv, CanRun, Gated, Live
<1>4. QED
  BY <1>1, <1>2, <1>3, Discards DEF Quiet, SlotInv, FileInv, CanRunInv, Published

LEMMA QuietLaunch ==
  ASSUME TypeOK, SlotInv, LaunchStep, ~LaunchSpawn, ~LaunchKill
  PROVE  Quiet
<1> USE DEF LaunchStep, LaunchCheck, LaunchDropStale, LaunchCreate, LaunchRecord, LaunchAwait,
            LaunchFinalize, LaunchActivate, LaunchUndo, LaunchAbort, LaunchAbandon, LaunchUnlink,
            fileVars, procVars, envVars
<1>1. UNCHANGED <<sup, cmd>>
  OBVIOUS
<1>2. faults'.kill = faults.kill
  BY Discards
<1>3. UNCHANGED marker \/ \E i : ~CanRun(i) /\ Unpublish(i)
  BY Discards
     DEF SlotInv, OperationInv, RemovalInv, Removing, StoppedSteps, At, CanRun, Gated, Live
<1>4. \/ \A j \in Ids : linked[j] => linked'[j]
      \/ \E i : ~CanRun(i) /\ Unlink(i)
  <2>1. CASE LaunchRecord
    BY <2>1 DEF At, SlotInv, OperationInv, SpawnInv, CanRun, Gated
  <2>2. CASE LaunchCreate
    BY <2>2 DEF TypeOK, FilesOK
  <2>3. CASE ~LaunchRecord /\ ~LaunchCreate
    BY <2>3, Discards
       DEF SlotInv, OperationInv, RemovalInv, Removing, RemovalSteps, StoppedSteps, At, CanRun,
           Gated, Live
  <2>4. QED
    BY <2>1, <2>2, <2>3
<1>5. QED
  BY <1>1, <1>2, <1>3, <1>4, Discards DEF Quiet, SlotInv, FileInv, CanRunInv, Published

LEMMA MarkerSupervisor ==
  ASSUME TypeOK, MarkerInv, CommandInv, NEW i \in Ids, SupervisorStep(i)
  PROVE  /\ MarkerInv' /\ CommandInv'
         /\ \A j \in Ids : CanRun(j)' /\ Published(j) /\ sup'[j] # "unmarked" => Published(j)'
         /\ \A j \in Ids : sup[j] \in Announced => sup'[j] \in Announced
<1> USE DEF SupervisorStep, SupStep, SupOpen, SupTerminatedEarly, SupPassGate, SupFindCancelled,
            SupStageMarker, SupPublishMarker, SupMarkerFails, SupRun, SupReap, SupDropMarker,
            SupDropControl, Unpublish, envVars
<1> USE DEF TypeOK, FilesOK, ProcessesOK
<1>1. MarkerInv'
  BY DEF MarkerInv, Published, Announced
<1>2. CommandInv'
  BY DEF CommandInv
<1>3. \A j \in Ids : CanRun(j)' /\ Published(j) /\ sup'[j] # "unmarked" => Published(j)'
  BY DEF MarkerInv, Published, Announced, CanRun, Gated
<1>4. \A j \in Ids : sup[j] \in Announced => sup'[j] \in Announced
  BY DEF Announced
<1>5. QED
  BY <1>1, <1>2, <1>3, <1>4

\* A supervisor that is killed, or that starts.
LEMMA MarkerKilled ==
  ASSUME TypeOK, MarkerInv, CommandInv, NEW i \in Ids, Killed(i), UNCHANGED cmd, Live(i)
  PROVE  /\ MarkerInv' /\ CommandInv'
         /\ \A j \in Ids : CanRun(j)' /\ Published(j) => Published(j)'
         /\ \A j \in Ids : sup[j] \in Announced => sup'[j] \in Announced
<1>1. \A j \in Ids : sup'[j] = (IF j = i THEN "exited" ELSE sup[j])
  BY DEF Killed, TypeOK, ProcessesOK
<1>2. \A j \in Ids : j # i => marker'[j] = marker[j]
  BY DEF Killed, TypeOK, FilesOK
<1>3. faults'.kill > 0
  BY DEF Killed, TypeOK, EnvironmentOK
<1>4. QED
  BY <1>1, <1>2, <1>3 DEF MarkerInv, CommandInv, Published, Announced, CanRun, Gated

LEMMA MarkerSpawn ==
  ASSUME TypeOK, SlotInv, MarkerInv, CommandInv, LaunchSpawn
  PROVE  /\ MarkerInv' /\ CommandInv'
         /\ UNCHANGED marker
         /\ \A j \in Ids : sup[j] \in Announced => sup'[j] \in Announced
<1>1. UNCHANGED <<marker, cmd, faults>>
  BY DEF LaunchSpawn, fileVars, envVars
<1>2. sup[op.id] = "none" /\ op.id \in Ids
  BY Names DEF LaunchSpawn, At, SlotInv, OperationInv, SessionInHand, SpawnInv
<1>3. \A j \in Ids : sup'[j] = sup[j] \/ (sup[j] = "none" /\ sup'[j] = "spawned")
  BY <1>2 DEF LaunchSpawn, TypeOK, ProcessesOK
<1>4. QED
  BY <1>1, <1>3 DEF MarkerInv, CommandInv, Published, Announced

LEMMA MarkerEnvironment ==
  ASSUME TypeOK, MarkerInv, CommandInv, Environment
  PROVE  /\ MarkerInv' /\ CommandInv'
         /\ \A j \in Ids : CanRun(j)' /\ Published(j) => Published(j)'
         /\ \A j \in Ids : sup[j] \in Announced => sup'[j] \in Announced
<1>1. CASE \E i \in Ids : SupKill(i)
  BY <1>1, MarkerKilled DEF SupKill
<1>2. CASE ~\E i \in Ids : SupKill(i)
  <2> USE DEF Environment, AppCrash, AppQuit, AppGone, AppStart, FileDamaged,
              RegistrationChanges, CommandEnds, fileVars, procVars
  <2>1. UNCHANGED <<sup, marker>>
    BY <1>2
  <2>2. faults'.kill = faults.kill
    BY <1>2 DEF TypeOK, EnvironmentOK, envVars
  <2>3. \A j \in Ids : cmd'[j] = "run" => cmd[j] = "run"
    BY <1>2 DEF TypeOK, ProcessesOK
  <2>4. QED
    BY <2>1, <2>2, <2>3 DEF MarkerInv, CommandInv, Published
<1>3. QED
  BY <1>1, <1>2

LEMMA MarkerNext ==
  ASSUME TypeOK, SlotInv, MarkerInv, CommandInv, [Next]_vars
  PROVE  /\ MarkerInv' /\ CommandInv'
         /\ \A j \in Ids : CanRun(j)' /\ CanRun(j) /\ Published(j) /\ sup'[j] # "unmarked"
                              => Published(j)'
         /\ \A j \in Ids : sup[j] \in Announced => sup'[j] \in Announced
<1>1. Quiet => MarkerInv' /\ CommandInv'
  BY QuietStep
<1>2. CASE Quiet
  BY <1>1, <1>2 DEF Quiet
<1>3. ASSUME NEW i \in Ids, SupervisorStep(i)
      PROVE  /\ MarkerInv' /\ CommandInv'
             /\ \A j \in Ids : CanRun(j)' /\ Published(j) /\ sup'[j] # "unmarked" => Published(j)'
             /\ \A j \in Ids : sup[j] \in Announced => sup'[j] \in Announced
  BY <1>3, MarkerSupervisor
<1>4. CASE LaunchSpawn
  BY <1>4, MarkerSpawn DEF Published
<1>5. CASE LaunchKill
  <2>1. op.id \in Ids /\ UNCHANGED cmd
    BY <1>5, Names DEF LaunchKill, At, SlotInv, OperationInv, SessionInHand
  <2>2. CASE Live(op.id)
    BY <1>5, <2>1, <2>2, MarkerKilled DEF LaunchKill
  <2>3. CASE ~Live(op.id)
    BY <1>5, <2>1, <2>3 DEF LaunchKill, MarkerInv, CommandInv, Published
  <2>4. QED
    BY <2>2, <2>3
<1>6. CASE Environment
  BY <1>6, MarkerEnvironment
<1>7. CASE UNCHANGED vars
  BY <1>7 DEF vars, fileVars, procVars, envVars, MarkerInv, CommandInv, Published
<1>8. QED
  BY <1>2, <1>3, <1>4, <1>5, <1>6, <1>7, QuietStop, QuietShutdown, QuietProcedures,
     QuietReconcile, QuietRequest, QuietWatcher, QuietLaunch DEF Next, OperationStep

-----------------------------------------------------------------------------
(* The operation and the active runs.                                      *)

RequestInv == KindInv /\ StopInv /\ ActivationInv

LEMMA RequestOver ==
  ASSUME op'.pc = "idle", op'.from = "idle", op'.kind = "idle"
  PROVE  RequestInv'
  BY DEF RequestInv, KindInv, StopInv, ActivationInv, Within, LaunchSteps, StopSteps,
         ReconcileSteps, RecordSteps, CreatedSteps, DrainSteps, DrainRecordSteps

\* Runs that are only taken from the memory leave the others as they were.
Forgets == \A k \in Keys : active'[k] = active[k] \/ active'[k] = None
KeepsDrawn == \A j \in Ids : key[j] # None => key'[j] = key[j]
KeepsAnnounced == \A j \in Ids : sup[j] \in Announced => sup'[j] \in Announced

LEMMA ActiveFrame ==
  ASSUME TypeOK, ActiveInv, Forgets, KeepsDrawn, KeepsAnnounced
  PROVE  ActiveInv'
<1> SUFFICES ASSUME NEW k \in Keys, active'[k] # None
             PROVE  key'[active'[k].id] = k /\ sup'[active'[k].id] \in Announced
  BY DEF ActiveInv
<1>1. active'[k] = active[k]
  BY DEF Forgets
<1>2. active[k].id \in Ids
  BY <1>1 DEF TypeOK, MemoryOK, Runs
<1>3. key[active[k].id] = k /\ k # None /\ sup[active[k].id] \in Announced
  BY <1>1, NoneAssumption DEF ActiveInv
<1>4. QED
  BY <1>1, <1>2, <1>3 DEF KeepsDrawn, KeepsAnnounced

LEMMA Forgotten ==
  ASSUME TypeOK
  PROVE  /\ \A i : ForgetSession(i) => Forgets
         /\ \A k : active' = [active EXCEPT ![k] = None] => Forgets
         /\ UNCHANGED active => Forgets
         /\ UNCHANGED key => KeepsDrawn
         /\ Quiet => KeepsAnnounced
  BY DEF ForgetSession, Forgets, KeepsDrawn, KeepsAnnounced, Quiet, TypeOK, MemoryOK

\* What other processes do does not disturb the operation.
LEMMA RequestFrame ==
  ASSUME TypeOK, RequestInv, DrawnInv, Forgets, SessionInHand, UNCHANGED <<op, key>>, KeepsAnnounced,
         \A j \in Ids : Recorded(j)' => Recorded(j)
  PROVE  RequestInv'
<1> USE DEF RequestInv
<1>1. KindInv'
  BY DEF KindInv, Within
<1>2. StopInv'
  BY DEF StopInv, Within, RecordsOf
<1>3. ActivationInv'
  <2>1. op.pc \in CreatedSteps => op.id \in Ids
    BY Names DEF SessionInHand, CreatedSteps
  <2>2. Within(LaunchSteps) /\ active[op.key] = None => active'[op.key] = None
    BY DEF Forgets, KindInv
  <2>3. QED
    BY <2>1, <2>2 DEF ActivationInv, KeepsAnnounced, CreatedSteps, Within, LaunchSteps
<1>4. QED
  BY <1>1, <1>2, <1>3

LEMMA RequestStop ==
  ASSUME TypeOK, SlotInv, RunInv, StopStep
  PROVE  RequestInv' /\ ActiveInv'
<1> USE Fields DEF KeepsRequest, KeepsLists, KeepsCall, At
<1> USE DEF RequestInv, RunInv
<1>1. op \in Operations /\ op.from = "idle"
  BY DEF TypeOK, StopStep, StopLookup, StopResolved, StopCheck, StopDiscard, StopTermed, StopFiles,
         SlotInv, OperationInv, CallInv, StopProcedure, ResolveProcedure
<1>2. (\A j \in Ids : Recorded(j)' => Recorded(j)) /\ UNCHANGED <<key, sup>>
  BY FileStop
<1>3. ActiveInv'
  <2>1. Forgets
    BY Forgotten DEF StopStep, StopLookup, StopResolved, StopCheck, StopDiscard, StopTermed, StopFiles
  <2>2. QED
    BY <1>2, <2>1, ActiveFrame DEF KeepsDrawn, KeepsAnnounced
<1>4. ASSUME NEW r, Finish(r) PROVE RequestInv'
  BY <1>1, <1>4, RequestOver
<1>5. ASSUME StopSucceeds, op.pc \in StopSteps PROVE RequestInv'
  <2>1. CASE op.kind = "restart" /\ Enter("restart", op.key, "launchCheck")
    <3>1. op.key \in Keys
      BY <1>5 DEF KindInv, Within
    <3>2. QED
      BY <1>1, <2>1, <3>1
         DEF KindInv, StopInv, ActivationInv, Within, LaunchSteps, StopSteps, ReconcileSteps,
             RecordSteps, CreatedSteps, DrainSteps, DrainRecordSteps
  <2>2. QED
    BY <1>4, <1>5, <2>1 DEF StopSucceeds
\* On to another step of the stop, for the one record of its key.
<1>6. ASSUME KeepsRequest, op.pc \in StopSteps, RecordsOf(op.key) \subseteq {op'.id},
             \/ op'.pc \in StopSteps /\ op'.from = "idle"
             \/ op'.pc \in {"term", "resolve"} /\ op'.from \in StopSteps
      PROVE  RequestInv'
  <2>1. KindInv'
    BY <1>6 DEF KindInv, Within, LaunchSteps, StopSteps, ReconcileSteps, RecordSteps, DrainSteps,
                DrainRecordSteps
  <2>2. StopInv'
    BY <1>2, <1>6 DEF StopInv, RecordsOf
  <2>3. ActivationInv'
    BY <1>6 DEF ActivationInv, CreatedSteps, StopSteps
  <2>4. QED
    BY <2>1, <2>2, <2>3
<1>7. CASE StopLookup
  <2>1. ASSUME NEW i \in RecordsOf(op.key), Call(i, "resolve", "stopResolved") \/ Select(i, "stopCheck")
        PROVE  RequestInv'
    <3>1. RecordsOf(op.key) \subseteq {i}
      BY <2>1 DEF SlotInv, FileInv, OneRecordInv, RecordsOf
    <3>2. op'.id = i /\ KeepsRequest /\ \/ op'.pc = "resolve" /\ op'.from = "stopResolved"
                                        \/ op'.pc = "stopCheck" /\ op'.from = "idle"
      BY <1>1, <2>1
    <3>3. QED
      BY <1>6, <1>7, <3>1, <3>2 DEF StopLookup, StopSteps
  <2>2. op.pc \in StopSteps
    BY <1>7 DEF StopLookup, StopSteps
  <2>3. QED
    BY <1>3, <1>4, <1>5, <1>7, <2>1, <2>2 DEF StopLookup
<1>8. CASE StopStep /\ ~StopLookup
  <2>1. op.pc \in StopSteps \ {"stopLookup"}
    BY <1>8 DEF StopStep, StopResolved, StopCheck, StopDiscard, StopTermed, StopFiles, StopSteps
  <2>2. RecordsOf(op.key) \subseteq {op.id}
    BY <2>1 DEF StopInv, Within
  <2>3. \/ StopSucceeds \/ \E r : Finish(r)
        \/ Goto("stopCheck") \/ Goto("stopDiscard") \/ Goto("stopFiles")
        \/ Call(op.id, "term", "stopTermed")
    BY <1>8 DEF StopStep, StopResolved, StopCheck, StopDiscard, StopTermed, StopFiles
  <2>4. CASE \/ Goto("stopCheck") \/ Goto("stopDiscard") \/ Goto("stopFiles")
             \/ Call(op.id, "term", "stopTermed")
    <3>1. /\ KeepsRequest /\ op'.id = op.id
          /\ \/ op'.pc \in StopSteps /\ op'.from = "idle"
             \/ op'.pc = "term" /\ op'.from = "stopTermed"
      BY <1>1, <2>4 DEF StopSteps
    <3>2. QED
      BY <1>3, <1>6, <2>1, <2>2, <3>1 DEF StopSteps
  <2>5. QED
    BY <1>3, <1>4, <1>5, <2>1, <2>3, <2>4
<1>9. QED
  BY <1>3, <1>7, <1>8

LEMMA RequestProcedures ==
  ASSUME TypeOK, SlotInv, RunInv, Procedures
  PROVE  RequestInv' /\ ActiveInv'
<1> USE Fields DEF KeepsRequest, KeepsLists, KeepsCall, At
<1> USE DEF RequestInv, RunInv
<1>1. op \in Operations
  BY DEF TypeOK
<1>2. /\ \A j \in Ids : Recorded(j)' => Recorded(j) \/ (ResolveUpsert /\ j = op.id)
      /\ UNCHANGED <<key, sup>>
  BY FileProcedures
<1>3. UNCHANGED active
  BY DEF Procedures, TermSignal, TermWait, ResolvePending, ResolveUpsert, CancelPending,
         CancelUnlink, memVars
<1>4. ActiveInv'
  BY <1>2, <1>3, Forgotten, ActiveFrame DEF KeepsDrawn, KeepsAnnounced
<1>5. /\ op'.id = op.id /\ KeepsRequest
      /\ \/ op'.pc = op.from /\ op'.from = "idle"
         \/ op'.pc \in StopProcedure \cup ResolveProcedure /\ op'.from = op.from
  <2>1. CASE TermSignal /\ op' = [op EXCEPT !.pc = "termWait", !.tree = (cmd[op.id] = "run")]
    BY <1>1, <2>1 DEF Operations, StopProcedure
  <2>2. QED
    BY <1>1, <2>1
       DEF Procedures, TermSignal, TermWait, ResolvePending, ResolveUpsert, CancelPending,
           CancelUnlink, StopProcedure, ResolveProcedure
<1>6. /\ op.pc \in StopProcedure \cup ResolveProcedure
      /\ op.from \notin CreatedSteps \cup {"launchDropStale", "launchCreate", "guard"}
  BY DEF SlotInv, OperationInv, CallInv, StopProcedure, ResolveProcedure, StoppedSteps,
         ResolvedSteps, CreatedSteps, Procedures, TermSignal, TermWait, ResolvePending,
         ResolveUpsert, CancelPending, CancelUnlink
<1>7. KindInv' /\ StopInv'
  <2>1. \A steps : Within(steps)' /\ steps \cap (StopProcedure \cup ResolveProcedure \cup {"idle"}) = {}
                    => Within(steps)
    BY <1>5, <1>6 DEF Within
  <2>2. KindInv'
    BY <1>5, <1>6, <2>1 DEF KindInv, LaunchSteps, StopSteps, ReconcileSteps, RecordSteps,
       StopProcedure, ResolveProcedure, DrainSteps, DrainRecordSteps
  <2>3. StopInv'
    BY <1>2, <1>5, <2>1 DEF StopInv, StopSteps, RecordsOf, StopProcedure, ResolveProcedure
  <2>4. QED
    BY <2>2, <2>3
<1>8. ActivationInv'
  BY <1>5, <1>6 DEF ActivationInv, CreatedSteps, StopProcedure, ResolveProcedure
<1>9. QED
  BY <1>4, <1>7, <1>8

LEMMA RequestReconcile ==
  ASSUME TypeOK, SlotInv, RunInv, ReconcileStep
  PROVE  RequestInv' /\ ActiveInv'
<1> USE Fields DEF KeepsRequest, KeepsLists, KeepsCall, At
<1> USE DEF RequestInv, RunInv
<1>1. op \in Operations
  BY DEF TypeOK
<1>2. UNCHANGED <<key, sup>>
  BY FileReconcile
<1>3. ActiveInv'
  <2>1. CASE Forgets
    BY <1>2, <2>1, ActiveFrame DEF KeepsDrawn, KeepsAnnounced
  <2>2. CASE /\ RecordCheck /\ Validated(op.id)
             /\ active' = [active EXCEPT ![key[op.id]] =
                              IF @ = None THEN [id |-> op.id, by |-> "adopt"] ELSE @]
    <3>1. op.id \in Ids /\ sup[op.id] \in Announced
      BY <2>2, Names DEF RecordCheck, SlotInv, OperationInv, SessionInHand, Validated, MarkerInv
    <3>2. \A k \in Keys : \/ active'[k] = active[k]
                          \/ k = key[op.id] /\ active'[k] = [id |-> op.id, by |-> "adopt"]
      BY <2>2 DEF TypeOK, MemoryOK
    <3>3. QED
      BY <1>2, <3>1, <3>2 DEF ActiveInv
  <2>3. Forgets \/ RecordCheck
    BY Forgotten DEF ReconcileStep, Orphan, OrphanStopped, OrphansDone, Load, Record,
                     RecordResolved, RecordStopped, Sweep, Publish, memVars
  <2>4. QED
    BY <2>1, <2>2, <2>3, Forgotten DEF RecordCheck
<1>4. op.pc \in ReconcileSteps \ {"guard"} /\ op.from = "idle"
  BY DEF ReconcileStep, Orphan, OrphanStopped, OrphansDone, Load, Record, RecordResolved,
         RecordCheck, RecordStopped, Sweep, Publish, ReconcileSteps, RecordSteps, SlotInv,
         OperationInv, CallInv, StopProcedure, ResolveProcedure
<1>5. CASE op'.pc = "idle" /\ op'.from = "idle" /\ op'.kind = "idle"
  BY <1>3, <1>5, RequestOver
<1>6. CASE /\ KeepsRequest
           /\ \/ op'.pc \in ReconcileSteps \ {"guard"} /\ op'.from = "idle"
              \/ op'.pc = "guard" /\ op'.from = "idle" /\ op.kind # "status"
              \/ /\ op'.pc \in StopProcedure \cup ResolveProcedure
                 /\ op'.from \in ReconcileSteps \ {"guard"}
  <2>1. KindInv' /\ StopInv'
    BY <1>4, <1>6 DEF KindInv, StopInv, Within, LaunchSteps, StopSteps, ReconcileSteps,
       RecordSteps, StopProcedure, ResolveProcedure, DrainSteps, DrainRecordSteps
  <2>2. ActivationInv'
    BY <1>6 DEF ActivationInv, CreatedSteps, ReconcileSteps, RecordSteps, StopProcedure,
                ResolveProcedure
  <2>3. QED
    BY <1>3, <2>1, <2>2
<1>7. \/ op'.pc = "idle" /\ op'.from = "idle" /\ op'.kind = "idle"
      \/ /\ KeepsRequest
         /\ \/ op'.pc \in ReconcileSteps \ {"guard"} /\ op'.from = "idle"
            \/ op'.pc = "guard" /\ op'.from = "idle" /\ op.kind # "status"
            \/ /\ op'.pc \in StopProcedure \cup ResolveProcedure
               /\ op'.from \in ReconcileSteps \ {"guard"}
  <2> USE DEF ReconcileSteps, RecordSteps, StopProcedure, ResolveProcedure
  <2>1. CASE Orphan \/ OrphanStopped \/ OrphansDone
    BY <1>1, <1>4, <2>1 DEF Orphan, OrphanStopped, OrphansDone
  <2>2. CASE Load
    BY <1>1, <1>4, <2>2 DEF Load
  <2>3. CASE Record \/ RecordResolved \/ RecordCheck \/ RecordStopped
    <3>1. \/ \E i, b : NextRecord(i, b)
          \/ \E i : \/ Call(i, "resolve", "recordResolved") \/ Select(i, "recordCheck")
                    \/ Call(i, "term", "recordStopped")
          \/ Goto("sweep") \/ Goto("recordCheck") \/ Finish("err")
      BY <2>3 DEF Record, RecordResolved, RecordCheck, RecordStopped
    <3>2. QED
      BY <1>1, <1>4, <3>1
  <2>4. CASE Publish
    BY <1>1, <1>4, <2>4 DEF Publish
  <2>5. CASE Sweep
    <3>1. CASE \E i \in op.stale : op' = [op EXCEPT !.stale = @ \ {i}]
      BY <1>1, <1>4, <2>5, <3>1 DEF Sweep, Operations
    <3>2. QED
      BY <1>1, <1>4, <2>5, <3>1 DEF Sweep
  <2>6. QED
    BY <2>1, <2>2, <2>3, <2>4, <2>5 DEF ReconcileStep
<1>8. QED
  BY <1>5, <1>6, <1>7

LEMMA RequestShutdown ==
  ASSUME TypeOK, SlotInv, RunInv, ShutdownStep
  PROVE  RequestInv' /\ ActiveInv'
<1> USE Fields DEF KeepsRequest, KeepsLists, KeepsCall, At
<1> USE DEF RequestInv, RunInv
<1>1. op \in Operations
  BY DEF TypeOK
<1>2. UNCHANGED <<key, sup>>
  BY FileShutdown
<1>3. ActiveInv'
  <2>1. UNCHANGED active
    BY DEF ShutdownStep, Guard, DrainBegin, DrainActive, DrainActiveStopped, DrainRecords,
           DrainResolved, DrainCheck, DrainStopped, DrainRemove, memVars
  <2>2. QED
    BY <1>2, <2>1, Forgotten, ActiveFrame DEF KeepsDrawn, KeepsAnnounced
<1>4. op.pc \in DrainSteps \cup {"guard", "drain"} /\ op.from = "idle"
  BY DEF ShutdownStep, Guard, DrainBegin, DrainActive, DrainActiveStopped, DrainRecords,
         DrainResolved, DrainCheck, DrainStopped, DrainRemove, DrainSteps, DrainRecordSteps,
         SlotInv, OperationInv, CallInv, StopProcedure, ResolveProcedure
<1>5. CASE op'.pc = "idle" /\ op'.from = "idle" /\ op'.kind = "idle"
  BY <1>3, <1>5, RequestOver
<1>6. CASE /\ KeepsRequest /\ op.kind \in {"exit", "update"}
           /\ \/ op'.pc \in DrainSteps \cup {"drain"} /\ op'.from = "idle"
              \/ op'.pc \in StopProcedure \cup ResolveProcedure /\ op'.from \in DrainSteps
  <2>1. KindInv' /\ StopInv'
    BY <1>4, <1>6 DEF KindInv, StopInv, Within, LaunchSteps, StopSteps, ReconcileSteps,
       RecordSteps, StopProcedure, ResolveProcedure, DrainSteps, DrainRecordSteps
  <2>2. ActivationInv'
    BY <1>6 DEF ActivationInv, CreatedSteps, DrainSteps, DrainRecordSteps, StopProcedure,
                ResolveProcedure
  <2>3. QED
    BY <1>3, <2>1, <2>2
<1>7. \/ op'.pc = "idle" /\ op'.from = "idle" /\ op'.kind = "idle"
      \/ /\ KeepsRequest /\ op.kind \in {"exit", "update"}
         /\ \/ op'.pc \in DrainSteps \cup {"drain"} /\ op'.from = "idle"
            \/ op'.pc \in StopProcedure \cup ResolveProcedure /\ op'.from \in DrainSteps
  <2>1. \/ Guard /\ op.kind = "exit" /\ Goto("drain")
        \/ \E r : Finish(r)
        \/ /\ op.pc # "guard"
           /\ \/ \E ids : Read("drainActive", ids) \/ Survey("drainRecords", ids)
              \/ \E i, b : NextDrain("drainActive", i, b) \/ NextDrain("drainRecords", i, b)
              \/ \E i : \/ Call(i, "term", "drainActiveStopped") \/ Call(i, "term", "drainStopped")
                        \/ Call(i, "resolve", "drainResolved") \/ Select(i, "drainCheck")
              \/ Goto("drainCheck") \/ Goto("drainRemove")
    BY DEF ShutdownStep, Guard, DrainBegin, DrainActive, DrainActiveStopped, DrainRecords,
           DrainResolved, DrainCheck, DrainStopped, DrainRemove
  <2>2. op.pc # "guard" => op.kind \in {"exit", "update"}
    BY <1>4 DEF KindInv, Within
  <2>3. QED
    BY <1>1, <1>4, <2>1, <2>2 DEF StopProcedure, ResolveProcedure, DrainSteps, DrainRecordSteps
<1>8. QED
  BY <1>5, <1>6, <1>7

LEMMA RequestRequest ==
  ASSUME TypeOK, SlotInv, RunInv, UserRequest
  PROVE  RequestInv' /\ ActiveInv'
<1> USE Fields DEF KeepsRequest, KeepsLists, KeepsCall, At
<1> USE DEF RequestInv, RunInv
<1>1. op \in Operations
  BY DEF TypeOK
<1>2. UNCHANGED <<key, store, sup, active>>
  BY DEF UserRequest, BeginLaunch, BeginStop, BeginEdit, BeginStatus, BeginExit, BeginUpdate,
         BeginReconcile, CancelUpdate, fileVars, procVars, memVars
<1>3. ActiveInv'
  BY <1>2, Forgotten, ActiveFrame DEF KeepsDrawn, KeepsAnnounced
<1>4. CASE CancelUpdate
  BY <1>2, <1>3, <1>4, Forgotten, RequestFrame
     DEF CancelUpdate, SlotInv, OperationInv, KeepsAnnounced, Recorded
<1>5. ASSUME NEW kind \in {"status", "edit", "exit"}, NEW k, BeginReconcile(kind, k),
             kind = "edit" => k \in Keys
      PROVE  RequestInv'
  <2>1. op'.pc \in {"load", "orphans"} /\ op'.from = "idle" /\ op'.kind = kind /\ op'.key = k
    BY <1>5, IdleType DEF BeginReconcile, Operations, Idle
  <2>2. QED
    BY <1>5, <2>1
       DEF KindInv, StopInv, ActivationInv, Within, LaunchSteps, StopSteps, ReconcileSteps,
           RecordSteps, CreatedSteps, DrainSteps, DrainRecordSteps
<1>6. ASSUME NEW kind, NEW k, NEW s, Begin(kind, k, s),
             \/ s = "launchCheck" /\ kind = "launch" /\ k \in Keys
             \/ s = "stopLookup" /\ kind \in {"stop", "restart"} /\ k \in Keys
             \/ s = "drain" /\ kind = "update"
      PROVE  RequestInv'
  BY <1>1, <1>6
     DEF Begin, KindInv, StopInv, ActivationInv, Within, LaunchSteps, StopSteps, ReconcileSteps,
         RecordSteps, CreatedSteps, DrainSteps, DrainRecordSteps
<1>7. QED
  BY <1>3, <1>4, <1>5, <1>6
     DEF UserRequest, BeginLaunch, BeginStop, BeginEdit, BeginStatus, BeginExit, BeginUpdate

LEMMA RequestLaunch ==
  ASSUME TypeOK, SlotInv, RunInv, LaunchStep, KeepsAnnounced
  PROVE  RequestInv' /\ ActiveInv'
<1> USE Fields DEF KeepsRequest, KeepsLists, KeepsCall, At
<1> USE DEF RequestInv, RunInv
<1>1. op \in Operations /\ op.from = "idle" /\ op.pc \in LaunchSteps
  BY DEF TypeOK, LaunchStep, LaunchCheck, LaunchDropStale, LaunchCreate, LaunchRecord,
         LaunchSpawn, LaunchAwait, LaunchFinalize, LaunchActivate, LaunchUndo, LaunchAbort,
         LaunchKill, LaunchAbandon, LaunchUnlink, LaunchSteps, SlotInv, OperationInv, CallInv,
         StopProcedure, ResolveProcedure
<1>2. op.kind \in {"launch", "restart"} /\ op.key \in Keys
  BY <1>1 DEF KindInv, Within
<1>3. KeepsDrawn /\ (~LaunchCreate => UNCHANGED key)
  BY DEF KeepsDrawn, LaunchStep, LaunchCheck, LaunchDropStale, LaunchCreate, LaunchRecord,
         LaunchSpawn, LaunchAwait, LaunchFinalize, LaunchActivate, LaunchUndo, LaunchAbort,
         LaunchKill, LaunchAbandon, LaunchUnlink, fileVars, TypeOK, FilesOK
<1>4. ~LaunchActivate => UNCHANGED active
  BY DEF LaunchStep, LaunchCheck, LaunchDropStale, LaunchCreate, LaunchRecord,
         LaunchSpawn, LaunchAwait, LaunchFinalize, LaunchActivate, LaunchUndo, LaunchAbort,
         LaunchKill, LaunchAbandon, LaunchUnlink, memVars
<1>5. ActiveInv'
  <2>1. CASE ~LaunchActivate
    BY <1>3, <1>4, <2>1, Forgotten, ActiveFrame
  <2>2. CASE LaunchActivate
    <3>1. op.id \in Ids /\ key[op.id] = op.key /\ sup[op.id] \in Announced
      BY <2>2, Names DEF LaunchActivate, SlotInv, OperationInv, SessionInHand, ActivationInv,
                         CreatedSteps
    <3>2. \A k \in Keys : active'[k] = IF k = op.key THEN [id |-> op.id, by |-> "launch"] ELSE active[k]
      BY <2>2 DEF LaunchActivate, TypeOK, MemoryOK
    <3>3. UNCHANGED <<key, sup>>
      BY <2>2 DEF LaunchActivate, fileVars, procVars
    <3>4. QED
      BY <3>1, <3>2, <3>3 DEF ActiveInv
  <2>3. QED
    BY <2>1, <2>2
<1>6. ASSUME NEW r, Finish(r) PROVE RequestInv'
  BY <1>1, <1>6, RequestOver
\* On to another step of the launch.
<1>7. ASSUME KeepsRequest,
             \/ op'.pc \in LaunchSteps /\ op'.from = "idle"
             \/ op'.pc = "term" /\ op'.from \in LaunchSteps
      PROVE  KindInv' /\ StopInv'
  BY <1>2, <1>7
     DEF KindInv, StopInv, Within, LaunchSteps, StopSteps, ReconcileSteps, RecordSteps,
         DrainSteps, DrainRecordSteps
<1>8. CASE LaunchCreate
  <2>1. PICK i \in Ids : Select(i, "launchRecord") /\ key'[i] = op.key
    BY <1>8, FileLaunchCreate
  <2>2. UNCHANGED active /\ active[op.key] = None
    BY <1>8 DEF LaunchCreate, memVars, ActivationInv
  <2>3. KindInv' /\ StopInv'
    BY <1>1, <1>7, <2>1 DEF LaunchSteps
  <2>4. ActivationInv'
    BY <1>1, <2>1, <2>2 DEF ActivationInv, CreatedSteps
  <2>5. QED
    BY <1>5, <2>3, <2>4
<1>9. CASE LaunchCheck
  <2>1. CASE \E r : Finish(r)
    BY <1>5, <1>6, <2>1
  <2>2. CASE active[op.key] = None /\ (Goto("launchCreate") \/ \E i : Select(i, "launchDropStale"))
    <3>1. KindInv' /\ StopInv'
      BY <1>1, <1>7, <2>2 DEF LaunchSteps
    <3>2. UNCHANGED active
      BY <1>9 DEF LaunchCheck, memVars
    <3>3. ActivationInv'
      BY <1>1, <2>2, <3>2 DEF ActivationInv, CreatedSteps
    <3>4. QED
      BY <1>5, <3>1, <3>3
  <2>3. QED
    BY <1>9, <2>1, <2>2 DEF LaunchCheck
<1>10. CASE ~LaunchCreate /\ ~LaunchCheck
  <2>1. \/ \E r : Finish(r)
        \/ LaunchDropStale /\ Goto("launchCreate")
        \/ LaunchRecord /\ Goto("launchSpawn")
        \/ LaunchSpawn /\ (Goto("launchAwait") \/ Goto("launchAbandon"))
        \/ LaunchAwait /\ (Goto("launchAbort") \/ (Goto("launchFinalize") /\ Published(op.id)))
        \/ LaunchFinalize /\ (Goto("launchActivate") \/ Call(op.id, "term", "launchUndo"))
        \/ LaunchAbort /\ Call(op.id, "term", "launchKill")
        \/ LaunchKill /\ Goto("launchAbandon")
        \/ LaunchAbandon /\ Goto("launchUnlink")
    BY <1>10 DEF LaunchStep, LaunchDropStale, LaunchRecord, LaunchSpawn, LaunchAwait,
                 LaunchFinalize, LaunchActivate, LaunchUndo, LaunchAbort, LaunchKill,
                 LaunchAbandon, LaunchUnlink
  <2>2. CASE \E r : Finish(r)
    BY <1>5, <1>6, <2>2
  <2>3. CASE ~\E r : Finish(r)
    <3>1. /\ KeepsRequest /\ op'.id = op.id
          /\ \/ op'.pc \in LaunchSteps /\ op'.from = "idle"
             \/ op'.pc = "term" /\ op'.from \in LaunchSteps
      BY <1>1, <2>1, <2>3 DEF LaunchSteps
    <3>2. KindInv' /\ StopInv'
      BY <1>7, <3>1
    <3>3. ~LaunchActivate
      BY <2>3 DEF LaunchActivate
    <3>4. UNCHANGED <<active, key>>
      BY <1>3, <1>4, <1>10, <3>3
    <3>5. \/ op'.pc = "launchCreate" /\ op.pc = "launchDropStale"
          \/ op'.pc = "launchSpawn" /\ op.pc = "launchRecord"
          \/ op'.pc = "launchAwait" /\ op.pc = "launchSpawn"
          \/ op'.pc = "launchFinalize" /\ op.pc = "launchAwait" /\ Published(op.id)
          \/ op'.pc = "launchActivate" /\ op.pc = "launchFinalize"
          \/ op'.pc \in {"launchAbandon", "launchAbort", "launchUnlink", "term"}
      BY <1>1, <2>1, <2>3
         DEF LaunchDropStale, LaunchRecord, LaunchSpawn, LaunchAwait, LaunchFinalize
    <3>6. op.pc \in CreatedSteps => op.id \in Ids
      BY Names DEF SlotInv, OperationInv, SessionInHand, CreatedSteps
    <3>7. ActivationInv'
      BY <3>1, <3>4, <3>5, <3>6 DEF ActivationInv, CreatedSteps, KeepsAnnounced, MarkerInv
    <3>8. QED
      BY <1>5, <3>2, <3>7
  <2>4. QED
    BY <2>2, <2>3
<1>11. QED
  BY <1>8, <1>9, <1>10

LEMMA RunNext ==
  ASSUME TypeOK, SlotInv, RunInv, [Next]_vars
  PROVE  RunInv'
<1> USE DEF RunInv
<1>1. MarkerInv' /\ CommandInv' /\ KeepsAnnounced
  BY MarkerNext DEF KeepsAnnounced
<1>2. RequestInv /\ DrawnInv /\ SessionInHand
  BY DEF RequestInv, SlotInv, OperationInv
<1>3. CASE UserRequest
  BY <1>1, <1>3, RequestRequest DEF RequestInv
<1>4. CASE OperationStep
  BY <1>1, <1>4, RequestLaunch, RequestStop, RequestProcedures, RequestReconcile, RequestShutdown
     DEF OperationStep, RequestInv
\* What the operation does not do itself.
<1>5. ASSUME UNCHANGED <<op, key>>, Forgets, \A j \in Ids : Recorded(j)' => Recorded(j)
      PROVE  RunInv'
  <2>1. RequestInv'
    BY <1>1, <1>2, <1>5, RequestFrame
  <2>2. ActiveInv'
    BY <1>1, <1>5, ActiveFrame DEF KeepsDrawn
  <2>3. QED
    BY <1>1, <2>1, <2>2 DEF RequestInv
<1>6. ASSUME NEW i \in Ids, SupervisorStep(i) PROVE RunInv'
  <2>1. UNCHANGED <<op, key, store, active>>
    BY <1>6 DEF SupervisorStep, SupStep, SupOpen, SupTerminatedEarly, SupPassGate,
                SupFindCancelled, SupStageMarker, SupPublishMarker, SupMarkerFails, SupRun,
                SupReap, SupDropMarker, SupDropControl, memVars
  <2>2. QED
    BY <1>5, <2>1 DEF Forgets, Recorded
<1>7. ASSUME NEW i \in Ids, WatcherStep(i) PROVE RunInv'
  <2>1. UNCHANGED <<op, key>> /\ \A j \in Ids : Recorded(j)' => Recorded(j)
    BY <1>7, FileWatcher DEF SlotInv
  <2>2. Forgets
    BY <1>7, Forgotten DEF WatcherStep, WatchRemove, WatchFiles, WatchMemory
  <2>3. QED
    BY <1>5, <2>1, <2>2
<1>8. CASE Environment
  <2>1. /\ UNCHANGED key /\ \A j \in Ids : Recorded(j)' => Recorded(j)
        /\ op' = op \/ op' = Idle
    BY <1>8, FileEnvironment
  <2>2. Forgets
    BY <1>8 DEF Environment, AppCrash, AppQuit, AppGone, AppStart, FileDamaged,
                RegistrationChanges, CommandEnds, SupKill, memVars, Forgets
  <2>3. CASE op' = Idle
    <3>1. RequestInv'
      BY <2>3, RequestOver DEF Idle
    <3>2. ActiveInv'
      BY <1>1, <2>1, <2>2, ActiveFrame DEF KeepsDrawn
    <3>3. QED
      BY <1>1, <3>1, <3>2 DEF RequestInv
  <2>4. QED
    BY <1>5, <2>1, <2>2, <2>3
<1>9. CASE UNCHANGED vars
  <2>1. UNCHANGED <<op, key, store, active>>
    BY <1>9 DEF vars, fileVars, memVars
  <2>2. QED
    BY <1>5, <2>1 DEF Forgets, Recorded
<1>10. QED
  BY <1>3, <1>4, <1>6, <1>7, <1>8, <1>9 DEF Next

\* Which operation is at which step, what a stop and a launch know of the
\* sessions of their key, and how far an active run has come: the inductive
\* invariant behind the reports of the operations.
THEOREM RunInvariant == Spec => [](TypeOK /\ SlotInv /\ RunInv)
<1>1. Init => TypeOK /\ SlotInv /\ RunInv
  BY TypeInit, SlotInit, RunInit
<1>2. (TypeOK /\ SlotInv /\ RunInv) /\ [Next]_vars => (TypeOK /\ SlotInv /\ RunInv)'
  BY SlotNext, TypeNext, RunNext DEF SlotInv, OperationInv
<1>3. QED
  BY <1>1, <1>2, PTL DEF Spec

-----------------------------------------------------------------------------
(* What an operation reports.                                              *)

LEMMA Reported ==
  ASSUME TypeOK
  PROVE  /\ \A r : Finish(r) => op'.result = r
         /\ \A kind, k, s : Enter(kind, k, s) => op'.pc = s
         /\ \A i, s : Goto(s) \/ Select(i, s) => op'.pc = s
         /\ \A i, s, r : Call(i, s, r) => op'.pc = s
<1>1. \A r : Finish(r) => op'.result = r
  BY IdleType DEF Finish, Operations, Idle
<1>2. op \in Operations
  BY DEF TypeOK
<1>3. QED
  BY <1>1, <1>2, Fields

\* The reasons an operation has when it reports success.
StopReason ==
    /\ op.kind = "stop"
    /\ \/ RecordsOf(op.key) = {}
       \/ RecordsOf(op.key) \subseteq {op.id} /\ ~CanRun(op.id)
EditReason == op.kind = "edit" /\ RecordsOf(op.key) = {}
ShutdownReason == op.kind \in {"exit", "update"} /\ \A i \in Ids : ~Recorded(i)
SuccessReason ==
    op.kind \in {"idle", "launch", "restart", "status"} \/ StopReason \/ EditReason \/ ShutdownReason

LEMMA StopSuccess ==
  ASSUME TypeOK, SlotInv, RunInv, StopStep, op'.pc = "idle", op'.result = "ok"
  PROVE  SuccessReason
<1> USE DEF SuccessReason
<1>1. op.pc \in StopSteps /\ op.kind \in {"stop", "restart"}
  <2>1. op.pc \in StopSteps
    BY DEF StopStep, StopLookup, StopResolved, StopCheck, StopDiscard, StopTermed, StopFiles,
           StopSteps, At
  <2>2. QED
    BY <2>1 DEF RunInv, KindInv, Within
<1>2. op.pc # "stopLookup" => RecordsOf(op.key) \subseteq {op.id}
  BY <1>1 DEF RunInv, StopInv, Within
<1>3. \/ StopLookup /\ RecordsOf(op.key) = {}
      \/ op.pc # "stopLookup" /\ Removing
      \/ Finish("err")
      \/ \E s : s # "idle" /\ (Goto(s) \/ \E i : Select(i, s) \/ \E r : Call(i, s, r))
  BY DEF StopStep, StopLookup, StopResolved, StopCheck, StopDiscard, StopTermed, StopFiles,
         Removing, RemovalSteps, StoppedSteps, ResolvedSteps, At
<1>4. \/ StopLookup /\ RecordsOf(op.key) = {}
      \/ op.pc # "stopLookup" /\ Removing
  BY <1>3, Reported
<1>5. QED
  BY <1>1, <1>2, <1>4 DEF StopReason, SlotInv, OperationInv, RemovalInv

LEMMA ReconcileSuccess ==
  ASSUME TypeOK, SlotInv, RunInv, ReconcileStep, op'.pc = "idle", op'.result = "ok"
  PROVE  SuccessReason
<1> USE DEF SuccessReason
<1>1. CASE Publish /\ op.kind = "status"
  BY <1>1
<1>2. CASE ReconcileStep /\ ~(Publish /\ op.kind = "status")
  <2>1. \/ Finish("err")
        \/ \E s : /\ s # "idle"
                  /\ \/ Goto(s)
                     \/ \E i : Select(i, s) \/ Passed(i, s) \/ \E r : Call(i, s, r)
        \/ \E i : Adopt(i) /\ op.pc = "orphans"
        \/ \E i, b : NextRecord(i, b)
        \/ \E ids : Read("record", ids)
        \/ \E b : Guarded(b)
        \/ \E i : op' = [op EXCEPT !.stale = @ \ {i}] /\ op.pc = "sweep"
    BY <1>2 DEF ReconcileStep, Orphan, OrphanStopped, OrphansDone, Load, Record, RecordResolved,
                RecordCheck, RecordStopped, Sweep, Publish, At
  <2>2. ASSUME NEW i, op' = [op EXCEPT !.stale = @ \ {i}], op.pc = "sweep" PROVE FALSE
    BY <2>2 DEF TypeOK, Operations
  <2>3. QED
    BY <2>1, <2>2, Reported, Fields DEF TypeOK
<1>3. QED
  BY <1>1, <1>2

LEMMA ShutdownSuccess ==
  ASSUME TypeOK, SlotInv, RunInv, ShutdownStep, op'.pc = "idle", op'.result = "ok"
  PROVE  SuccessReason
<1> USE DEF SuccessReason
<1>1. CASE Guard /\ Finish("ok") /\ op.kind = "edit" /\ ActionInactive(op.key)
  BY <1>1 DEF EditReason, ActionInactive
<1>2. CASE DrainRecords /\ Finish("ok") /\ ~\E i \in Ids : Recorded(i)
  <2>1. op.kind \in {"exit", "update"}
    BY <1>2 DEF DrainRecords, At, RunInv, KindInv, Within, DrainSteps, DrainRecordSteps
  <2>2. QED
    BY <1>2, <2>1 DEF ShutdownReason
<1>3. CASE \/ Finish("err")
           \/ \E s : s # "idle" /\ (Goto(s) \/ \E i : Select(i, s) \/ \E r : Call(i, s, r))
           \/ \E i, s, b : s # "idle" /\ NextDrain(s, i, b)
           \/ \E ids : Read("drainActive", ids) \/ Survey("drainRecords", ids)
  BY <1>3, Reported, Fields DEF TypeOK
<1>4. QED
  BY <1>1, <1>2, <1>3
     DEF ShutdownStep, Guard, DrainBegin, DrainActive, DrainActiveStopped, DrainRecords,
         DrainResolved, DrainCheck, DrainStopped, DrainRemove

LEMMA OtherSuccess ==
  ASSUME TypeOK, SlotInv, RunInv, LaunchStep \/ Procedures, op'.pc = "idle"
  PROVE  SuccessReason
<1>1. CASE LaunchStep
  <2>1. op.pc \in LaunchSteps
    BY <1>1 DEF LaunchStep, LaunchCheck, LaunchDropStale, LaunchCreate, LaunchRecord,
                LaunchSpawn, LaunchAwait, LaunchFinalize, LaunchActivate, LaunchUndo,
                LaunchAbort, LaunchKill, LaunchAbandon, LaunchUnlink, LaunchSteps, At
  <2>2. QED
    BY <2>1 DEF RunInv, KindInv, Within, SuccessReason
<1>2. CASE Procedures
  <2>1. op.pc \in StopProcedure \cup ResolveProcedure
    BY <1>2 DEF Procedures, TermSignal, TermWait, ResolvePending, ResolveUpsert, CancelPending,
                CancelUnlink, StopProcedure, ResolveProcedure, At
  <2>2. op.from # "idle"
    BY <2>1 DEF SlotInv, OperationInv, CallInv, StoppedSteps, ResolvedSteps
  <2>3. \/ \E r : Return(r) \/ \E s : s # "idle" /\ Goto(s)
        \/ op' = [op EXCEPT !.pc = "termWait", !.tree = (cmd[op.id] = "run")]
    BY <1>2 DEF Procedures, TermSignal, TermWait, ResolvePending, ResolveUpsert, CancelPending,
                CancelUnlink
  <2>4. op'.pc # "idle"
    BY <2>2, <2>3, Fields DEF TypeOK, Operations
  <2>5. QED
    BY <2>4
<1>3. QED
  BY <1>1, <1>2

LEMMA Success ==
  ASSUME TypeOK, SlotInv, RunInv, [Next]_vars, op.pc # "idle", op'.pc = "idle", op'.result = "ok"
  PROVE  SuccessReason
<1>1. ~UserRequest
  BY DEF UserRequest, BeginLaunch, BeginStop, BeginEdit, BeginStatus, BeginExit, BeginUpdate,
         Begin, BeginReconcile, CancelUpdate, At
<1>2. ~\E i \in Ids : SupervisorStep(i) \/ WatcherStep(i)
  <2>1. \A i \in Ids : SupervisorStep(i) => UNCHANGED op
    BY DEF SupervisorStep, SupStep, SupOpen, SupTerminatedEarly, SupPassGate, SupFindCancelled,
           SupStageMarker, SupPublishMarker, SupMarkerFails, SupRun, SupReap, SupDropMarker,
           SupDropControl
  <2>2. \A i \in Ids : WatcherStep(i) => UNCHANGED op
    BY DEF WatcherStep, WatchRemove, WatchFiles, WatchMemory
  <2>3. QED
    BY <2>1, <2>2
<1>3. ~Environment
  <2>1. Environment => op' = op \/ op' = Idle
    BY FileEnvironment
  <2>2. QED
    BY <2>1 DEF Idle
<1>4. ~UNCHANGED vars
  BY DEF vars
<1>5. QED
  BY <1>1, <1>2, <1>3, <1>4, StopSuccess, ReconcileSuccess, ShutdownSuccess, OtherSuccess
     DEF Next, OperationStep

LEMMA Through ==
  ASSUME SlotInv, RunInv, faults.damage = 0, NEW i \in Ids, ~Recorded(i) \/ ~CanRun(i)
  PROVE  Over(i)
  BY DEF SlotInv, FileInv, CanRunInv, RunInv, CommandInv, Over, CanRun, Gated

\* A stop that reports success leaves nothing of its key that runs or can
\* run: all records of the key were in its hands, and what it removed was over.
THEOREM StopIsSound == Spec => StopSound
<1>1. ASSUME TypeOK, SlotInv, RunInv, [Next]_vars
      PROVE  [EndsWith("stop", "ok") /\ faults.damage = 0 =>
                 \A i \in Ids : key[i] = op.key => Over(i)]_vars
  <2>1. SUFFICES ASSUME EndsWith("stop", "ok"), faults.damage = 0, NEW i \in Ids, key[i] = op.key
                 PROVE  Over(i)
    OBVIOUS
  <2>2. StopReason
    BY <1>1, <2>1, Success DEF EndsWith, SuccessReason, EditReason, ShutdownReason
  <2>3. ~Recorded(i) \/ ~CanRun(i)
    BY <2>1, <2>2 DEF StopReason, RecordsOf
  <2>4. QED
    BY <1>1, <2>1, <2>3, Through
<1>2. QED
  BY <1>1, RunInvariant, PTL DEF Spec, StopSound

\* A shutdown that lets the application exit or be replaced leaves no managed
\* action behind, of any key: no record is left that could hide one.
THEOREM ShutdownIsSound == Spec => ShutdownSound
<1>1. ASSUME TypeOK, SlotInv, RunInv, [Next]_vars
      PROVE  [(EndsWith("update", "ok") \/ EndsWith("exit", "ok")) /\ faults.damage = 0 =>
                 \A i \in Ids : Over(i)]_vars
  <2>1. SUFFICES ASSUME EndsWith("update", "ok") \/ EndsWith("exit", "ok"), faults.damage = 0,
                        NEW i \in Ids
                 PROVE  Over(i)
    OBVIOUS
  <2>2. ShutdownReason
    BY <1>1, <2>1, Success DEF EndsWith, SuccessReason, EditReason, StopReason
  <2>3. QED
    BY <1>1, <2>1, <2>2, Through DEF ShutdownReason
<1>2. QED
  BY <1>1, RunInvariant, PTL DEF Spec, ShutdownSound

\* An action is taken away only when nothing of it runs or can run.
THEOREM EditIsSound == Spec => EditSound
<1>1. ASSUME TypeOK, SlotInv, RunInv, [Next]_vars
      PROVE  [EndsWith("edit", "ok") /\ faults.damage = 0 =>
                 \A i \in Ids : key[i] = op.key => Over(i)]_vars
  <2>1. SUFFICES ASSUME EndsWith("edit", "ok"), faults.damage = 0, NEW i \in Ids, key[i] = op.key
                 PROVE  Over(i)
    OBVIOUS
  <2>2. EditReason
    BY <1>1, <2>1, Success DEF EndsWith, SuccessReason, StopReason, ShutdownReason
  <2>3. ~Recorded(i)
    BY <2>1, <2>2 DEF EditReason, RecordsOf
  <2>4. QED
    BY <1>1, <2>1, <2>3, Through
<1>2. QED
  BY <1>1, RunInvariant, PTL DEF Spec, EditSound

-----------------------------------------------------------------------------
(* What is forgotten, and what is left alone.                              *)

LEMMA EndedRun ==
  ASSUME TypeOK, SlotInv, RunInv, NEW k \in Keys, active[k] # None
  PROVE  /\ active[k].id \in Ids
         /\ key[active[k].id] = k
         /\ ~CanRun(active[k].id) => sup[active[k].id] = "exited"
         /\ Live(active[k].id) /\ ~Validated(active[k].id) => sup[active[k].id] = "unmarked"
<1>1. active[k].id \in Ids
  BY DEF TypeOK, MemoryOK, Runs
<1>2. key[active[k].id] = k /\ sup[active[k].id] \in Announced
  BY DEF RunInv, ActiveInv
<1>3. ~CanRun(active[k].id) => sup[active[k].id] = "exited"
  BY <1>2 DEF CanRun, Gated, Announced
<1>4. Gated(active[k].id) => linked[active[k].id] /\ ~cancelled[active[k].id]
  BY <1>1 DEF SlotInv, FileInv, CanRunInv, CanRun, CancelledNeverRuns
<1>5. Live(active[k].id) /\ ~Validated(active[k].id) => sup[active[k].id] = "unmarked"
  BY <1>1, <1>2, <1>4 DEF Live, Validated, ControlActive, Gated, Announced, RunInv, MarkerInv
<1>6. QED
  BY <1>1, <1>2, <1>3, <1>5

\* The only runs a step of the application takes from the memory.
LEMMA ForgetsEnded ==
  ASSUME TypeOK, SlotInv, RunInv, faults.damage = 0, OperationStep,
         NEW k \in Keys, active[k] # None, active'[k] # active[k]
  PROVE  \/ ~CanRun(active[k].id)
         \/ Live(active[k].id) /\ ~Validated(active[k].id)
<1> USE DEF At
<1>1. active[k].id \in Ids /\ key[active[k].id] = k
  BY EndedRun
<1>2. \A i : ForgetSession(i) => i = active[k].id
  BY DEF ForgetSession, TypeOK, MemoryOK
<1>3. \A j : active' = [active EXCEPT ![j] = None] => j = k
  BY DEF TypeOK, MemoryOK
<1>4. RecordsOf(k) = {} => ~CanRun(active[k].id)
  BY <1>1 DEF RecordsOf, SlotInv, FileInv, CanRunInv
<1>5. \A i : RecordsOf(k) \subseteq {i} /\ ~CanRun(i) => ~CanRun(active[k].id)
  BY <1>1 DEF RecordsOf, SlotInv, FileInv, CanRunInv
<1>6. CASE LaunchStep
  <2>1. LaunchActivate
    BY <1>6 DEF LaunchStep, LaunchCheck, LaunchDropStale, LaunchCreate, LaunchRecord,
                LaunchSpawn, LaunchAwait, LaunchFinalize, LaunchActivate, LaunchUndo,
                LaunchAbort, LaunchKill, LaunchAbandon, LaunchUnlink, memVars
  <2>2. active[op.key] = None
    BY <2>1 DEF LaunchActivate, RunInv, ActivationInv, CreatedSteps
  <2>3. QED
    BY <2>1, <2>2 DEF LaunchActivate, TypeOK, MemoryOK
<1>7. CASE StopStep
  <2>1. \/ StopLookup /\ RecordsOf(op.key) = {} /\ active' = [active EXCEPT ![op.key] = None]
        \/ /\ op.pc \in StopSteps \ {"stopLookup"} /\ Removing
           /\ \/ active' = [active EXCEPT ![op.key] = None]
              \/ ForgetSession(op.id)
    BY <1>7 DEF StopStep, StopLookup, StopResolved, StopCheck, StopDiscard, StopTermed, StopFiles,
                StopSteps, Removing, RemovalSteps, ResolvedSteps
  <2>2. op.pc \in StopSteps \ {"stopLookup"} => RecordsOf(op.key) \subseteq {op.id}
    BY DEF RunInv, StopInv, Within
  <2>3. Removing => ~CanRun(op.id)
    BY DEF SlotInv, OperationInv, RemovalInv
  <2>4. QED
    BY <1>2, <1>3, <1>4, <1>5, <2>1, <2>2, <2>3
<1>8. CASE Procedures
  BY <1>8 DEF Procedures, TermSignal, TermWait, ResolvePending, ResolveUpsert, CancelPending,
              CancelUnlink, memVars
<1>9. CASE ReconcileStep
  <2>1. \/ RecordCheck \/ RecordStopped
    BY <1>9 DEF ReconcileStep, Orphan, OrphanStopped, OrphansDone, Load, Record, RecordResolved,
                Sweep, Publish, memVars
  <2>2. CASE RecordStopped
    <3>1. ForgetSession(op.id) /\ Removing
      BY <2>2 DEF RecordStopped, Removing, StoppedSteps
    <3>2. QED
      BY <1>2, <3>1 DEF SlotInv, OperationInv, RemovalInv
  <2>3. CASE RecordCheck
    <3>1. CASE active' = [active EXCEPT ![key[op.id]] =
                             IF @ = None THEN [id |-> op.id, by |-> "adopt"] ELSE @]
      BY <3>1 DEF TypeOK, MemoryOK
    <3>2. CASE ForgetSession(op.id) /\ (~Live(op.id) \/ (Live(op.id) /\ ~Validated(op.id)))
      BY <1>2, <3>2 DEF CanRun, Gated, Live
    <3>3. QED
      BY <2>3, <3>1, <3>2 DEF RecordCheck
  <2>4. QED
    BY <2>1, <2>2, <2>3
<1>10. CASE ShutdownStep
  BY <1>10 DEF ShutdownStep, Guard, DrainBegin, DrainActive, DrainActiveStopped, DrainRecords,
               DrainResolved, DrainCheck, DrainStopped, DrainRemove, memVars
<1>11. QED
  BY <1>6, <1>7, <1>8, <1>9, <1>10 DEF OperationStep

\* No stop, reconciliation or watcher of an older session ends the active run
\* of a newer one: a run is forgotten when its supervisor is through.
THEOREM ForgetsOnlyEnded == Spec => ForgottenRunIsOver
<1>1. ASSUME TypeOK, SlotInv, RunInv, [Next]_vars
      PROVE  [\A k \in Keys :
                 active[k] # None /\ active'[k] # active[k] /\ appUp' /\ faults.damage = 0 =>
                     sup[active[k].id] \in {"unmarked", "exited"}]_vars
  <2>1. SUFFICES ASSUME NEW k \in Keys, active[k] # None, active'[k] # active[k], appUp',
                        faults.damage = 0
                 PROVE  sup[active[k].id] \in {"unmarked", "exited"}
    OBVIOUS
  <2>2. CASE OperationStep
    BY <1>1, <2>1, <2>2, ForgetsEnded, EndedRun
  <2>3. ASSUME NEW i \in Ids, WatcherStep(i) PROVE sup[active[k].id] \in {"unmarked", "exited"}
    <3>1. active[k].id = i /\ watch[i] = "memory"
      <4>1. WatchMemory(i)
        BY <2>1, <2>3 DEF WatcherStep, WatchRemove, WatchFiles
      <4>2. /\ active[key[i]] = [id |-> i, by |-> "launch"]
            /\ active' = [active EXCEPT ![key[i]] = None]
        BY <2>1, <4>1 DEF WatchMemory
      <4>3. k = key[i]
        BY <1>1, <2>1, <4>2 DEF TypeOK, MemoryOK
      <4>4. QED
        BY <4>1, <4>2, <4>3 DEF WatchMemory
    <3>2. ~CanRun(i)
      BY <1>1, <3>1 DEF SlotInv, FileInv, WatchInv, Live, CanRun, Gated
    <3>3. QED
      BY <1>1, <2>1, <3>1, <3>2, EndedRun
  <2>4. CASE UserRequest
    BY <2>1, <2>4 DEF UserRequest, BeginLaunch, BeginStop, BeginEdit, BeginStatus, BeginExit,
                      BeginUpdate, BeginReconcile, CancelUpdate, memVars
  <2>5. ASSUME NEW i \in Ids, SupervisorStep(i) PROVE FALSE
    BY <2>1, <2>5
       DEF SupervisorStep, SupStep, SupOpen, SupTerminatedEarly, SupPassGate, SupFindCancelled,
           SupStageMarker, SupPublishMarker, SupMarkerFails, SupRun, SupReap, SupDropMarker,
           SupDropControl, memVars
  <2>6. CASE Environment
    BY <2>1, <2>6 DEF Environment, AppCrash, AppQuit, AppGone, AppStart, FileDamaged,
                      RegistrationChanges, CommandEnds, SupKill, memVars
  <2>7. CASE UNCHANGED vars
    BY <2>1, <2>7 DEF vars, memVars
  <2>8. QED
    BY <1>1, <2>2, <2>3, <2>4, <2>5, <2>6, <2>7 DEF Next
<1>2. QED
  BY <1>1, RunInvariant, PTL DEF Spec, ForgottenRunIsOver

\* A session that runs keeps the marker and the control file by which the next
\* recovery will find it, whatever became of its record.
THEOREM RunningKeepsFiles == Spec => RunningFilesStay
<1>1. ASSUME TypeOK, SlotInv, RunInv, [Next]_vars
      PROVE  [\A i \in Ids :
                 CanRun(i) /\ CanRun(i)' =>
                     /\ "json" \in marker[i] /\ sup'[i] # "unmarked" => "json" \in marker'[i]
                     /\ linked[i] => linked'[i]]_vars
  <2>1. SUFFICES ASSUME NEW i \in Ids, CanRun(i), CanRun(i)'
                 PROVE  /\ "json" \in marker[i] /\ sup'[i] # "unmarked" => "json" \in marker'[i]
                        /\ linked'[i]
    OBVIOUS
  <2>2. "json" \in marker[i] /\ sup'[i] # "unmarked" => "json" \in marker'[i]
    BY <1>1, <2>1, MarkerNext DEF RunInv, Published
  <2>3. linked'[i]
    <3>1. SlotInv'
      BY <1>1, SlotNext
    <3>2. QED
      BY <2>1, <3>1 DEF SlotInv, FileInv, CanRunInv
  <2>4. QED
    BY <2>2, <2>3
<1>2. QED
  BY <1>1, RunInvariant, PTL DEF Spec, RunningFilesStay

-----------------------------------------------------------------------------
(* The protocol of records, control files and markers implements the slots *)
(* of SessionSlots.                                                        *)

SlotVars == <<key, {i \in Ids : Recorded(i)}, {i \in Ids : CanRun(i)}>>
SlotStep == [Slots!Next]_SlotVars

SameRecords == \A j \in Ids : Recorded(j)' <=> Recorded(j)
SameRuns == \A j \in Ids : CanRun(j)' <=> CanRun(j)

\* One lemma for each action of the abstraction, and one for the stutter.
LEMMA MapsToStutter ==
  ASSUME UNCHANGED key, SameRecords, SameRuns
  PROVE  SlotStep
<1>1. UNCHANGED SlotVars
  BY DEF SlotVars, SameRecords, SameRuns
<1>2. QED
  BY <1>1 DEF SlotStep

LEMMA MapsToRelease ==
  ASSUME NEW i \in Ids, ~CanRun(i), UNCHANGED key, SameRuns,
         \A j \in Ids : Recorded(j)' <=> Recorded(j) /\ j # i
  PROVE  SlotStep
<1>1. Slots!Release(i)
  <2>1. {j \in Ids : Recorded(j)}' = {j \in Ids : Recorded(j)} \ {i}
    OBVIOUS
  <2>2. {j \in Ids : CanRun(j)}' = {j \in Ids : CanRun(j)}
    BY DEF SameRuns
  <2>3. QED
    BY <2>1, <2>2 DEF Slots!Release
<1>2. QED
  BY <1>1 DEF SlotStep, Slots!Next

LEMMA MapsToReserve ==
  ASSUME NEW i \in Ids, key[i] # None, UNCHANGED key, SameRuns,
         \A j \in Ids : Recorded(j) /\ key[j] = key[i] => j = i,
         \A j \in Ids : Recorded(j)' <=> Recorded(j) \/ j = i
  PROVE  SlotStep
<1>1. CASE Recorded(i)
  <2>1. SameRecords
    BY <1>1 DEF SameRecords
  <2>2. QED
    BY <2>1, MapsToStutter
<1>2. CASE ~Recorded(i)
  <2>1. {j \in Ids : Recorded(j)}' = {j \in Ids : Recorded(j)} \cup {i}
    OBVIOUS
  <2>2. {j \in Ids : CanRun(j)}' = {j \in Ids : CanRun(j)}
    BY DEF SameRuns
  <2>3. \A j \in {j \in Ids : Recorded(j)} : key[j] # key[i]
    BY <1>2
  <2>4. Slots!Reserve(i)
    BY <2>1, <2>2, <2>3 DEF Slots!Reserve
  <2>5. QED
    BY <2>4 DEF SlotStep, Slots!Next
<1>3. QED
  BY <1>1, <1>2

LEMMA MapsToStart ==
  ASSUME NEW i \in Ids, Recorded(i), UNCHANGED key, SameRecords,
         \A j \in Ids : j # i => (CanRun(j)' <=> CanRun(j)),
         CanRun(i) => CanRun(i)'
  PROVE  SlotStep
<1>1. {j \in Ids : Recorded(j)}' = {j \in Ids : Recorded(j)}
  BY DEF SameRecords
<1>2. CASE CanRun(i)'
  <2>1. {j \in Ids : CanRun(j)}' = {j \in Ids : CanRun(j)} \cup {i}
    BY <1>2
  <2>2. Slots!Start(i)
    BY <1>1, <2>1 DEF Slots!Start
  <2>3. QED
    BY <2>2 DEF SlotStep, Slots!Next
<1>3. CASE ~CanRun(i)'
  BY <1>3, MapsToStutter DEF SameRuns
<1>4. QED
  BY <1>2, <1>3

LEMMA MapsToEnd ==
  ASSUME NEW i \in Ids, UNCHANGED key, SameRecords,
         \A j \in Ids : j # i => (CanRun(j)' <=> CanRun(j)),
         CanRun(i)' => CanRun(i)
  PROVE  SlotStep
<1>1. {j \in Ids : Recorded(j)}' = {j \in Ids : Recorded(j)}
  BY DEF SameRecords
<1>2. CASE ~CanRun(i)'
  <2>1. {j \in Ids : CanRun(j)}' = {j \in Ids : CanRun(j)} \ {i}
    BY <1>2
  <2>2. Slots!End(i)
    BY <1>1, <2>1 DEF Slots!End
  <2>3. QED
    BY <2>2 DEF SlotStep, Slots!Next
<1>3. CASE CanRun(i)'
  BY <1>3, MapsToStutter DEF SameRuns
<1>4. QED
  BY <1>2, <1>3

LEMMA MapsToDraw ==
  ASSUME NEW i \in Ids, NEW k \in Keys, key[i] = None, key' = [key EXCEPT ![i] = k],
         SameRecords, SameRuns
  PROVE  SlotStep
<1>1. /\ {j \in Ids : Recorded(j)}' = {j \in Ids : Recorded(j)}
      /\ {j \in Ids : CanRun(j)}' = {j \in Ids : CanRun(j)}
  BY DEF SameRecords, SameRuns
<1>2. Slots!Draw(i, k)
  BY <1>1 DEF Slots!Draw
<1>3. QED
  BY <1>2 DEF SlotStep, Slots!Next

\* A quiet step that cancels nothing ends no run.
LEMMA QuietRuns ==
  ASSUME Quiet, UNCHANGED cancelled, \A j \in Ids : CanRun(j)' => CanRun(j)
  PROVE  SameRuns
  BY DEF Quiet, SameRuns, CanRun, Gated

LEMMA SlotsStop ==
  ASSUME TypeOK, SlotInv, StopStep
  PROVE  SlotStep
<1> USE DEF StopStep, StopLookup, StopResolved, StopCheck, StopDiscard, StopTermed, StopFiles,
            fileVars
<1>1. UNCHANGED key /\ SameRuns
  BY FileStop, QuietStop, QuietRuns
<1>2. SameRecords \/ (Remove(op.id) /\ Removing)
  BY FileSteps DEF SameRecords, Recorded, Removing, RemovalSteps, StoppedSteps, ResolvedSteps, At
<1>3. CASE Remove(op.id) /\ Removing
  <2>1. op.id \in Ids /\ ~CanRun(op.id)
    BY <1>3, Names DEF Removing, RemovalSteps, StoppedSteps, ResolvedSteps, SlotInv, OperationInv,
                       SessionInHand, RemovalInv
  <2>2. QED
    BY <1>1, <1>3, <2>1, FileSteps, MapsToRelease
<1>4. QED
  BY <1>1, <1>2, <1>3, MapsToStutter

LEMMA SlotsShutdown ==
  ASSUME TypeOK, SlotInv, ShutdownStep
  PROVE  SlotStep
<1> USE DEF ShutdownStep, Guard, DrainBegin, DrainActive, DrainActiveStopped, DrainRecords,
            DrainResolved, DrainCheck, DrainStopped, DrainRemove, fileVars
<1>1. UNCHANGED key /\ SameRuns
  BY FileShutdown, QuietShutdown, QuietRuns
<1>2. SameRecords \/ (Remove(op.id) /\ Removing)
  BY FileSteps DEF SameRecords, Recorded, Removing, RemovalSteps, StoppedSteps, ResolvedSteps, At
<1>3. CASE Remove(op.id) /\ Removing
  <2>1. op.id \in Ids /\ ~CanRun(op.id)
    BY <1>3, Names DEF Removing, RemovalSteps, StoppedSteps, ResolvedSteps, SlotInv, OperationInv,
                       SessionInHand, RemovalInv
  <2>2. QED
    BY <1>1, <1>3, <2>1, FileSteps, MapsToRelease
<1>4. QED
  BY <1>1, <1>2, <1>3, MapsToStutter

LEMMA SlotsProcedures ==
  ASSUME TypeOK, SlotInv, Procedures
  PROVE  SlotStep
<1>1. UNCHANGED <<key, sup>> /\ (UNCHANGED cancelled => SameRuns)
  BY FileProcedures, QuietProcedures, QuietRuns
<1>2. CASE ResolveUpsert
  <2>1. op.id \in Ids /\ key[op.id] # None
    BY <1>2, Names DEF ResolveUpsert, At, SlotInv, OperationInv, SessionInHand, DrawnInv, Within
  <2>2. \A j \in Ids : Recorded(j) /\ key[j] = key[op.id] => j = op.id
    BY <1>2 DEF ResolveUpsert, At, SlotInv, OperationInv, SoleRecordInv, ResolveProcedure
  <2>3. SameRuns
    BY <1>1, <1>2 DEF ResolveUpsert
  <2>4. SameRecords \/ \A j \in Ids : Recorded(j)' <=> Recorded(j) \/ j = op.id
    BY <1>2, <2>1, <2>2, FileSteps DEF ResolveUpsert, SameRecords
  <2>5. QED
    BY <1>1, <2>1, <2>2, <2>3, <2>4, MapsToReserve, MapsToStutter
<1>3. CASE CancelPending
  <2>1. op.id \in Ids
    BY <1>3, Names DEF CancelPending, At, SlotInv, OperationInv, SessionInHand
  <2>2. /\ UNCHANGED <<store, linked, sup>>
        /\ \A j \in Ids : j # op.id => cancelled'[j] = cancelled[j]
    BY <1>3 DEF CancelPending, procVars, TypeOK, FilesOK
  <2>3. SameRecords /\ \A j \in Ids : j # op.id => (CanRun(j)' <=> CanRun(j))
    BY <2>2 DEF SameRecords, Recorded, CanRun, Gated
  <2>4. \A j \in Ids : CanRun(j)' => CanRun(j)
    BY FileProcedures
  <2>5. PICK i \in Ids : i = op.id
    BY <2>1
  <2>6. QED
    BY <1>1, <2>3, <2>4, <2>5, MapsToEnd
<1>4. CASE TermSignal \/ TermWait \/ ResolvePending \/ CancelUnlink
  <2>1. UNCHANGED <<store, cancelled>>
    BY <1>4 DEF TermSignal, TermWait, ResolvePending, CancelUnlink, fileVars
  <2>2. QED
    BY <1>1, <2>1, MapsToStutter DEF SameRecords, Recorded
<1>5. QED
  BY <1>2, <1>3, <1>4 DEF Procedures

LEMMA SlotsReconcile ==
  ASSUME TypeOK, SlotInv, ReconcileStep
  PROVE  SlotStep
<1>1. UNCHANGED <<key, cancelled>> /\ SameRuns
  <2>1. UNCHANGED <<key, cancelled>>
    BY DEF ReconcileStep, Orphan, OrphanStopped, OrphansDone, Load, Record, RecordResolved,
           RecordCheck, RecordStopped, Sweep, Publish, fileVars
  <2>2. QED
    BY <2>1, FileReconcile, QuietReconcile, QuietRuns
<1>2. CASE SameRecords
  BY <1>1, <1>2, MapsToStutter
<1>3. CASE Orphan /\ ~SameRecords
  <2>1. PICK i \in op.todo : Upsert(i, "final") /\ Live(i) /\ ~KeyTaken(i)
    BY <1>3, FileSteps DEF Orphan, SameRecords, Recorded
  <2>2. i \in Ids /\ key[i] # None
    BY <2>1 DEF TypeOK, Operations, SlotInv, FileInv, FreshInv, Live
  <2>3. \A j \in Ids : Recorded(j) => key[j] # key[i]
    BY <1>3, <2>1 DEF KeyTaken, SlotInv, OperationInv, SnapshotInv, Within, ReconcileSteps,
                      Orphan, At
  <2>4. \A j \in Ids : Recorded(j)' <=> Recorded(j) \/ j = i
    BY <2>1, <2>2, <2>3, FileSteps
  <2>5. QED
    BY <1>1, <2>2, <2>3, <2>4, MapsToReserve
<1>4. CASE Sweep /\ ~SameRecords
  <2>1. PICK i \in op.stale : Remove(i)
    BY <1>4, FileSteps DEF Sweep, SameRecords, Recorded
  <2>2. i \in Ids /\ ~CanRun(i)
    BY <2>1 DEF TypeOK, Operations, SlotInv, OperationInv, StaleInv
  <2>3. QED
    BY <1>1, <2>1, <2>2, FileSteps, MapsToRelease
<1>5. Orphan \/ Sweep \/ SameRecords
  BY DEF ReconcileStep, OrphanStopped, OrphansDone, Load, Record, RecordResolved,
         RecordCheck, RecordStopped, Publish, fileVars, SameRecords, Recorded
<1>6. QED
  BY <1>2, <1>3, <1>4, <1>5

LEMMA SlotsLaunch ==
  ASSUME TypeOK, SlotInv, LaunchStep, faults.damage = 0
  PROVE  SlotStep
<1>1. CASE LaunchCreate
  <2>1. PICK i \in Ids : /\ key[i] = None /\ key' = [key EXCEPT ![i] = op.key]
                         /\ linked' = [linked EXCEPT ![i] = TRUE]
    BY <1>1 DEF LaunchCreate
  <2>2. op.key \in Keys
    BY <1>1, FileLaunchCreate
  <2>3. UNCHANGED <<store, sup, cancelled>>
    BY <1>1 DEF LaunchCreate, procVars
  <2>4. sup[i] = "none"
    BY <2>1 DEF SlotInv, FileInv, FreshInv
  <2>5. SameRecords /\ SameRuns
    BY <2>1, <2>3, <2>4 DEF SameRecords, SameRuns, Recorded, CanRun, Gated, TypeOK, FilesOK
  <2>6. QED
    BY <2>1, <2>2, <2>5, MapsToDraw
<1>2. CASE LaunchRecord \/ LaunchFinalize
  <2>1. op.id \in Ids /\ UNCHANGED key /\ key[op.id] # None
    BY <1>2, FileLaunchRecord, NoneAssumption
       DEF LaunchRecord, LaunchFinalize, At, SlotInv, OperationInv, SpawnInv, LaunchInv, DrawnInv,
           Within
  <2>2. \A j \in Ids : Recorded(j) /\ key[j] = key[op.id] => j = op.id
    BY <1>2 DEF LaunchRecord, LaunchFinalize, At, SlotInv, OperationInv, SoleRecordInv
  <2>3. SameRuns
    <3>1. UNCHANGED cancelled /\ LaunchStep /\ ~LaunchSpawn /\ ~LaunchKill
      BY <1>2 DEF LaunchRecord, LaunchFinalize, LaunchStep, LaunchSpawn, LaunchKill, At
    <3>2. \A j \in Ids : CanRun(j)' => CanRun(j)
      BY <1>2, FileLaunchRecord
    <3>3. QED
      BY <3>1, <3>2, QuietLaunch, QuietRuns
  <2>4. SameRecords \/ \A j \in Ids : Recorded(j)' <=> Recorded(j) \/ j = op.id
    BY <1>2, <2>1, <2>2, FileSteps DEF LaunchRecord, LaunchFinalize, SameRecords
  <2>5. QED
    BY <2>1, <2>2, <2>3, <2>4, MapsToReserve, MapsToStutter
<1>3. CASE LaunchSpawn
  <2>1. op.id \in Ids /\ sup[op.id] = "none" /\ Recorded(op.id)
    BY <1>3, Names DEF LaunchSpawn, At, SlotInv, OperationInv, SessionInHand, SpawnInv
  <2>2. PICK i \in Ids : i = op.id
    BY <2>1
  <2>3. UNCHANGED <<key, store, linked, cancelled>>
    BY <1>3 DEF LaunchSpawn, fileVars
  <2>4. \A j \in Ids : j # i => sup'[j] = sup[j]
    BY <1>3, <2>2 DEF LaunchSpawn, TypeOK, ProcessesOK
  <2>5. SameRecords /\ \A j \in Ids : j # i => (CanRun(j)' <=> CanRun(j))
    BY <2>3, <2>4 DEF SameRecords, Recorded, CanRun, Gated
  <2>6. ~CanRun(i)
    BY <2>1, <2>2 DEF CanRun, Gated
  <2>7. QED
    BY <2>1, <2>2, <2>3, <2>5, <2>6, MapsToStart
<1>4. CASE LaunchKill
  <2>1. op.id \in Ids
    BY <1>4, Names DEF LaunchKill, At, SlotInv, OperationInv, SessionInHand
  <2>2. PICK i \in Ids : i = op.id
    BY <2>1
  <2>3. UNCHANGED <<key, store, linked, cancelled>>
    BY <1>4 DEF LaunchKill
  <2>4. \A j \in Ids : sup'[j] = sup[j] \/ (j = i /\ sup'[j] = "exited")
    BY <1>4, <2>2 DEF LaunchKill, Killed, TypeOK, ProcessesOK
  <2>5. QED
    BY <2>2, <2>3, <2>4, MapsToEnd DEF SameRecords, Recorded, CanRun, Gated
<1>5. CASE ~LaunchCreate /\ ~LaunchRecord /\ ~LaunchFinalize /\ ~LaunchSpawn /\ ~LaunchKill
  <2>1. UNCHANGED <<key, cancelled>>
    BY <1>5 DEF LaunchStep, LaunchCheck, LaunchDropStale, LaunchAwait, LaunchActivate, LaunchUndo,
                LaunchAbort, LaunchAbandon, LaunchUnlink, fileVars
  <2>2. SameRuns
    BY <1>5, <2>1, FileLaunchRemoves, QuietLaunch, QuietRuns
  <2>3. SameRecords \/ (Remove(op.id) /\ op.pc \in {"launchDropStale", "launchAbandon"})
    BY <1>5, FileSteps
       DEF LaunchStep, LaunchCheck, LaunchDropStale, LaunchAwait, LaunchActivate, LaunchUndo,
           LaunchAbort, LaunchAbandon, LaunchUnlink, fileVars, SameRecords, Recorded, At
  <2>4. CASE Remove(op.id) /\ op.pc \in {"launchDropStale", "launchAbandon"}
    <3>1. op.id \in Ids /\ ~CanRun(op.id)
      BY <2>4, Names DEF SlotInv, OperationInv, SessionInHand, RemovalInv, Removing, RemovalSteps
    <3>2. QED
      BY <2>1, <2>2, <2>4, <3>1, FileSteps, MapsToRelease
  <2>5. QED
    BY <2>1, <2>2, <2>3, <2>4, MapsToStutter
<1>6. QED
  BY <1>1, <1>2, <1>3, <1>4, <1>5

LEMMA SlotsProcesses ==
  ASSUME TypeOK, SlotInv, NEW i \in Ids, SupervisorStep(i) \/ WatcherStep(i) \/ SupKill(i)
  PROVE  SlotStep
<1>1. CASE SupervisorStep(i)
  <2>1. UNCHANGED <<key, store, cancelled>>
    BY <1>1 DEF SupervisorStep, SupStep, SupOpen, SupTerminatedEarly, SupPassGate, SupFindCancelled,
                SupStageMarker, SupPublishMarker, SupMarkerFails, SupRun, SupReap, SupDropMarker,
                SupDropControl
  <2>2. \A j \in Ids : j # i => sup'[j] = sup[j] /\ linked'[j] = linked[j]
    BY <1>1 DEF SupervisorStep, SupStep, SupOpen, SupTerminatedEarly, SupPassGate, SupFindCancelled,
                SupStageMarker, SupPublishMarker, SupMarkerFails, SupRun, SupReap, SupDropMarker,
                SupDropControl, Unlink, TypeOK, FilesOK, ProcessesOK
  <2>3. CanRun(i)' => CanRun(i)
    BY <1>1, FileSupervisor DEF SlotInv
  <2>4. QED
    BY <2>1, <2>2, <2>3, MapsToEnd DEF SameRecords, Recorded, CanRun, Gated
<1>2. CASE WatcherStep(i)
  <2>1. UNCHANGED <<key, cancelled>>
    BY <1>2 DEF WatcherStep, WatchRemove, WatchFiles, WatchMemory, fileVars
  <2>2. SameRuns
    BY <1>2, <2>1, FileWatcher, QuietWatcher, QuietRuns DEF SlotInv
  <2>3. SameRecords \/ (Remove(i) /\ ~Live(i))
    BY <1>2, FileSteps
       DEF WatcherStep, WatchRemove, WatchFiles, WatchMemory, fileVars, SameRecords, Recorded
  <2>4. CASE Remove(i) /\ ~Live(i)
    <3>1. ~CanRun(i)
      BY <2>4 DEF Live, CanRun, Gated
    <3>2. QED
      BY <2>1, <2>2, <2>4, <3>1, FileSteps, MapsToRelease
  <2>5. QED
    BY <2>1, <2>2, <2>3, <2>4, MapsToStutter
<1>3. CASE SupKill(i)
  <2>1. UNCHANGED <<key, store, linked, cancelled>>
    BY <1>3 DEF SupKill
  <2>2. \A j \in Ids : sup'[j] = IF j = i THEN "exited" ELSE sup[j]
    BY <1>3 DEF SupKill, Killed, TypeOK, ProcessesOK
  <2>3. QED
    BY <2>1, <2>2, MapsToEnd DEF SameRecords, Recorded, CanRun, Gated
<1>4. QED
  BY <1>1, <1>2, <1>3

LEMMA SlotsNext ==
  ASSUME TypeOK, SlotInv, faults.damage = 0, faults'.damage = 0, [Next]_vars
  PROVE  SlotStep
<1>1. CASE UserRequest
  <2>1. UNCHANGED fileVars /\ UNCHANGED sup
    BY <1>1, FileRequest
  <2>2. QED
    BY <2>1, MapsToStutter DEF fileVars, SameRecords, SameRuns, Recorded, CanRun, Gated
<1>2. CASE OperationStep
  BY <1>2, SlotsLaunch, SlotsStop, SlotsProcedures, SlotsReconcile, SlotsShutdown
     DEF OperationStep
<1>3. CASE \E i \in Ids : SupervisorStep(i) \/ WatcherStep(i)
  BY <1>3, SlotsProcesses
<1>4. CASE Environment
  <2>1. CASE \E i \in Ids : SupKill(i)
    BY <2>1, SlotsProcesses
  <2>2. CASE ~\E i \in Ids : SupKill(i)
    <3>1. ~FileDamaged
      BY DEF FileDamaged, TypeOK, EnvironmentOK
    <3>2. UNCHANGED <<key, store, linked, cancelled, sup>>
      BY <1>4, <2>2, <3>1 DEF Environment, AppCrash, AppQuit, AppGone, AppStart,
                              RegistrationChanges, CommandEnds, fileVars, procVars
    <3>3. QED
      BY <3>2, MapsToStutter DEF SameRecords, SameRuns, Recorded, CanRun, Gated
  <2>3. QED
    BY <2>1, <2>2
<1>5. CASE UNCHANGED vars
  <2>1. UNCHANGED <<key, store, linked, cancelled, sup>>
    BY <1>5 DEF vars, fileVars, procVars
  <2>2. QED
    BY <2>1, MapsToStutter DEF SameRecords, SameRuns, Recorded, CanRun, Gated
<1>6. QED
  BY <1>1, <1>2, <1>3, <1>4, <1>5 DEF Next

\* As long as the sessions file is not damaged, every step of every process
\* draws an id, reserves, starts, ends or releases one session, or changes
\* nothing of the slots.
THEOREM SlotsAreImplemented == Spec /\ [](faults.damage = 0) => ImplementsSlots
<1> DEFINE Undamaged == faults.damage = 0
           Slot == <<key, {i \in Ids : Recorded(i)}, {i \in Ids : CanRun(i)}>>
<1>1. Init => Slots!Init
  BY DEF Init, Slots!Init, Recorded, CanRun, Gated
<1>2. TypeOK /\ SlotInv /\ Undamaged /\ Undamaged' /\ [Next]_vars => [Slots!Next]_Slot
  BY SlotsNext DEF SlotStep, SlotVars
<1>3. Spec => [](TypeOK /\ SlotInv)
  BY RunInvariant, PTL
<1>4. Spec /\ []Undamaged => Slots!Init /\ [][Slots!Next]_Slot
  <2> HIDE DEF Undamaged, Slot
  <2>1. QED
    BY <1>1, <1>2, <1>3, PTL DEF Spec
<1>5. QED
  BY <1>4, PTL DEF ImplementsSlots, Slots!Spec

\* What the slots promise, and the processes with them: one run for a key.
THEOREM SlotsExclude == Slots!Spec => []Slots!OneRunPerKey
<1> DEFINE Held == {i \in Ids : Recorded(i)}
           Inv == /\ key \in [Ids -> Keys \cup {None}]
                  /\ {i \in Ids : CanRun(i)} \subseteq Held
                  /\ \A i \in Held : key[i] # None
                  /\ \A i, j \in Held : key[i] = key[j] => i = j
<1>1. Slots!Init => Inv
  BY DEF Slots!Init
<1>2. Inv /\ [Slots!Next]_SlotVars => Inv'
  BY NoneAssumption DEF Slots!Next, Slots!Draw, Slots!Reserve, Slots!Start, Slots!End, Slots!Release,
     SlotVars
<1>3. Inv => Slots!OneRunPerKey
  BY DEF Slots!OneRunPerKey
<1>4. QED
  BY <1>1, <1>2, <1>3, PTL DEF Slots!Spec, SlotVars

=============================================================================
