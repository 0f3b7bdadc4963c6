---------------------------- MODULE UpdateProofs ----------------------------
(***************************************************************************)
(* Proofs about UpdateInstall, for every set of attempts.  The disk at     *)
(* each command of the shell transaction is a fact of its own; what a run  *)
(* of the transaction leaves behind follows from the last of them.         *)
(***************************************************************************)
EXTENDS UpdateInstall, FiniteSetTheorems, TLAPS

-----------------------------------------------------------------------------
(* The inductive invariant.                                                *)

Early == {"idle", "ready", "inspect", "plugin"}

\* An attempt whose script has not started has nothing to clean up.
EarlyInv ==
    \A a \in Attempts :
        /\ pc[a] \in Early =>
              script[a] = NoScript /\ places[a] = NoPlaces /\ ~orphan[a]
        /\ pc[a] \in Early \cup InScript => outcome[a] = "none"

\* Only Runtime Atlas runs the transaction, only the others the plugin.
KindInv ==
    /\ standalone => \A a \in Attempts : pc[a] # "plugin"
    /\ ~standalone => /\ app \in Whole
                      /\ \A a \in Attempts : pc[a] \notin {"inspect", "reported"} \cup InScript

Holder(a) == pc[a] \in Holding /\ ~orphan[a]

FlagInv ==
    IF updating
    THEN \E a \in Attempts : Holder(a) /\ \A b \in Attempts : Holder(b) => b = a
    ELSE \A a \in Attempts : ~Holder(a)

-----------------------------------------------------------------------------
(* The application and its backup in a transaction of attempt a.           *)

NotMoved(a) ==
    /\ ~script[a].appReplaced /\ ~script[a].appBackupRemoved /\ ~script[a].halfRemoved
    /\ app = script[a].wasApp /\ places[a].oldApp = "none"

BackedUp(a) ==
    /\ script[a].appReplaced /\ ~script[a].appBackupRemoved
    /\ IF script[a].halfRemoved THEN places[a].oldApp = "part"
       ELSE places[a].oldApp = script[a].wasApp

Dropped(a) ==
    /\ script[a].appBackupRemoved
    /\ app = "v2" /\ places[a].oldApp = "none"

Restored(a) ==
    /\ ~script[a].appBackupRemoved
    /\ app = script[a].wasApp /\ places[a].oldApp = "none"

\* The rollback of the application did not bring it back.
GivenUp(a) ==
    /\ ~script[a].appBackupRemoved
    /\ \/ script[a].halfRemoved
       \/ script[a].rollbackFailed /\ (script[a].nested \/ BackedUp(a))

Preparing ==
    {"precheck", "stageApp", "verifyStaged", "backupCli", "stageCli", "verifyStagedCli",
     "moveOld"}

AppInv(a) ==
    /\ pc[a] \in Preparing => NotMoved(a)
    /\ pc[a] = "moveNew" => BackedUp(a) /\ ~script[a].halfRemoved /\ app = "none"
    /\ pc[a] \in {"moveCli", "verify", "dropOldApp"} =>
          BackedUp(a) /\ ~script[a].halfRemoved /\ app = "v2"
    /\ pc[a] = "dropOldCli" => Dropped(a)
    /\ pc[a] \in {"rollback", "removeCli", "restoreCli"} =>
          \/ NotMoved(a)
          \/ Dropped(a)
          \/ BackedUp(a) /\ app \in {"none", "v2"}
    /\ pc[a] = "removeApp" => BackedUp(a) /\ app \in {"none", "v2"}
    /\ pc[a] = "restoreApp" => BackedUp(a) /\ (app = "none" \/ script[a].rollbackFailed)
    /\ pc[a] = "sweep" => NotMoved(a) \/ Dropped(a) \/ Restored(a) \/ GivenUp(a)

-----------------------------------------------------------------------------
(* The command line tool and its backup.                                   *)

CliKept(a) ==
    ~script[a].cliReplaced /\ ~script[a].cliBackupRemoved /\ cli = script[a].wasCli

CliSaved(a) == script[a].updateCli => places[a].oldCli = script[a].wasCli

CliReplaced(a) ==
    /\ script[a].cliReplaced /\ ~script[a].cliBackupRemoved /\ script[a].updateCli
    /\ cli = "v2" /\ places[a].oldCli = script[a].wasCli

CliDropped(a) ==
    /\ script[a].cliReplaced /\ script[a].cliBackupRemoved /\ script[a].updateCli
    /\ cli = "v2" /\ places[a].oldCli = "none"

CliRestored(a) ==
    /\ ~script[a].cliBackupRemoved
    /\ cli = script[a].wasCli /\ places[a].oldCli = "none"

CliSettled(a) ==
    /\ ~script[a].cliBackupRemoved
    /\ CliKept(a) \/ CliRestored(a) \/ script[a].rollbackFailed

CliNew(a) == IF script[a].updateCli THEN CliReplaced(a) ELSE CliKept(a)

CliInv(a) ==
    /\ pc[a] \in Preparing \cup {"moveNew", "moveCli"} => CliKept(a)
    /\ pc[a] \in {"backupCli", "stageCli", "verifyStagedCli", "moveCli"} => script[a].updateCli
    /\ pc[a] \in {"stageCli", "verifyStagedCli", "moveOld", "moveNew", "moveCli"} => CliSaved(a)
    /\ pc[a] \in {"verify", "dropOldApp"} => CliNew(a)
    /\ pc[a] \in {"dropOldCli", "removeCli"} => CliReplaced(a)
    /\ pc[a] = "rollback" => IF script[a].appBackupRemoved THEN CliReplaced(a)
                             ELSE CliKept(a) \/ CliReplaced(a)
    /\ pc[a] = "removeCli" => ~script[a].appBackupRemoved
    /\ pc[a] = "restoreCli" =>
          /\ script[a].cliReplaced /\ ~script[a].cliBackupRemoved
          /\ ~script[a].appBackupRemoved
          /\ places[a].oldCli = script[a].wasCli
    /\ pc[a] \in {"removeApp", "restoreApp"} => CliSettled(a)
    /\ pc[a] = "sweep" => IF script[a].appBackupRemoved THEN CliNew(a) \/ CliDropped(a)
                          ELSE CliSettled(a)

-----------------------------------------------------------------------------
\* Nothing has happened after which the two may be of different versions.
Clean ==
    /\ ~lost
    /\ \A a \in Attempts : outcome[a] # "incomplete" /\ ~script[a].halfRemoved

\* What the script found when it started.
FoundInv(a) ==
    /\ script[a].wasApp \in Whole /\ script[a].wasCli \in Whole \cup {"none"}
    /\ script[a].updateCli <=> script[a].wasCli # "none"
    /\ Clean => script[a].wasCli \in {"none", script[a].wasApp}

ScriptInv ==
    /\ \A a, b \in Attempts : pc[a] \in InScript /\ pc[b] \in InScript => a = b
    /\ \A a \in Attempts : pc[a] \in InScript => FoundInv(a) /\ AppInv(a) /\ CliInv(a)

UpdateInv ==
    /\ EarlyInv /\ KindInv /\ FlagInv
    /\ overlap \/ (ScriptInv /\ AppSurvives /\ Synchronized)

-----------------------------------------------------------------------------
(* Types.                                                                  *)

Place == [stagedApp : Bundles, oldApp : Bundles, stagedCli : Bundles, oldCli : Bundles]

Script == [updateCli : BOOLEAN, wasApp : Bundles, wasCli : Bundles,
           appReplaced : BOOLEAN, cliReplaced : BOOLEAN,
           appBackupRemoved : BOOLEAN, cliBackupRemoved : BOOLEAN,
           rollbackFailed : BOOLEAN, nested : BOOLEAN, halfRemoved : BOOLEAN]

LEMMA Blank == NoPlaces \in Place /\ NoScript \in Script
  BY DEF NoPlaces, NoScript, Place, Script, Bundles, Whole

LEMMA InitTypes == Init => TypeOK
<1> SUFFICES ASSUME Init PROVE TypeOK
  OBVIOUS
<1>1. places \in [Attempts -> Place] /\ script \in [Attempts -> Script]
  BY Blank DEF Init
<1>2. /\ app \in Bundles /\ cli \in Bundles /\ running \in Whole \cup {"none"}
      /\ pc \in [Attempts -> Steps] /\ outcome \in [Attempts -> Outcomes]
      /\ orphan \in [Attempts -> BOOLEAN]
      /\ {standalone, updating, lost, overlap} \subseteq BOOLEAN
  BY DEF Init, Whole, Bundles, Steps, Outcomes
<1>3. QED
  BY <1>1, <1>2 DEF TypeOK, Place, Script

PlaceNames == {"stagedApp", "oldApp", "stagedCli", "oldCli"}

Flags == {"appReplaced", "cliReplaced", "appBackupRemoved", "cliBackupRemoved",
          "rollbackFailed", "nested", "halfRemoved"}

\* One place of an attempt changes.
Placed(a, place, what) ==
    /\ places' \in [Attempts -> Place]
    /\ \A b \in Attempts \ {a} : places'[b] = places[b]
    /\ places'[a].stagedApp = (IF place = "stagedApp" THEN what ELSE places[a].stagedApp)
    /\ places'[a].oldApp = (IF place = "oldApp" THEN what ELSE places[a].oldApp)
    /\ places'[a].stagedCli = (IF place = "stagedCli" THEN what ELSE places[a].stagedCli)
    /\ places'[a].oldCli = (IF place = "oldCli" THEN what ELSE places[a].oldCli)

\* One variable of the script becomes true.
Flagged(a, flag) ==
    /\ script' \in [Attempts -> Script]
    /\ \A b \in Attempts \ {a} : script'[b] = script[b]
    /\ script'[a].updateCli = script[a].updateCli
    /\ script'[a].wasApp = script[a].wasApp
    /\ script'[a].wasCli = script[a].wasCli
    /\ script'[a].appReplaced <=> flag = "appReplaced" \/ script[a].appReplaced
    /\ script'[a].cliReplaced <=> flag = "cliReplaced" \/ script[a].cliReplaced
    /\ script'[a].appBackupRemoved <=> flag = "appBackupRemoved" \/ script[a].appBackupRemoved
    /\ script'[a].cliBackupRemoved <=> flag = "cliBackupRemoved" \/ script[a].cliBackupRemoved
    /\ script'[a].rollbackFailed <=> flag = "rollbackFailed" \/ script[a].rollbackFailed
    /\ script'[a].nested <=> flag = "nested" \/ script[a].nested
    /\ script'[a].halfRemoved <=> flag = "halfRemoved" \/ script[a].halfRemoved

LEMMA PutChanges ==
  ASSUME places \in [Attempts -> Place], NEW a \in Attempts,
         NEW place \in PlaceNames, NEW what \in Bundles, Put(a, place, what)
  PROVE  Placed(a, place, what)
<1>1. \A p \in Place : [p EXCEPT ![place] = what] \in Place
  BY DEF Place, PlaceNames
<1>2. /\ places' \in [Attempts -> Place]
      /\ \A b \in Attempts \ {a} : places'[b] = places[b]
      /\ places'[a] = [places[a] EXCEPT ![place] = what]
  BY <1>1 DEF Put
<1>3. QED
  BY <1>2 DEF Placed, Place, PlaceNames

LEMMA SetChanges ==
  ASSUME script \in [Attempts -> Script], NEW a \in Attempts,
         NEW flag \in Flags, Set(a, flag)
  PROVE  Flagged(a, flag)
<1>1. \A s \in Script : [s EXCEPT ![flag] = TRUE] \in Script
  BY DEF Script, Flags
<1>2. /\ script' \in [Attempts -> Script]
      /\ \A b \in Attempts \ {a} : script'[b] = script[b]
      /\ script'[a] = [script[a] EXCEPT ![flag] = TRUE]
  BY <1>1 DEF Set
<1>3. script[a] \in Script
  OBVIOUS
<1>4. /\ script'[a].updateCli = script[a].updateCli
      /\ script'[a].wasApp = script[a].wasApp
      /\ script'[a].wasCli = script[a].wasCli
  BY <1>2, <1>3 DEF Script, Flags
<1>5. script'[a].appReplaced <=> flag = "appReplaced" \/ script[a].appReplaced
  BY <1>2, <1>3 DEF Script, Flags
<1>6. script'[a].cliReplaced <=> flag = "cliReplaced" \/ script[a].cliReplaced
  BY <1>2, <1>3 DEF Script, Flags
<1>7. script'[a].appBackupRemoved <=> flag = "appBackupRemoved" \/ script[a].appBackupRemoved
  BY <1>2, <1>3 DEF Script, Flags
<1>8. script'[a].cliBackupRemoved <=> flag = "cliBackupRemoved" \/ script[a].cliBackupRemoved
  BY <1>2, <1>3 DEF Script, Flags
<1>9. script'[a].rollbackFailed <=> flag = "rollbackFailed" \/ script[a].rollbackFailed
  BY <1>2, <1>3 DEF Script, Flags
<1>10. script'[a].nested <=> flag = "nested" \/ script[a].nested
  BY <1>2, <1>3 DEF Script, Flags
<1>11. script'[a].halfRemoved <=> flag = "halfRemoved" \/ script[a].halfRemoved
  BY <1>2, <1>3 DEF Script, Flags
<1>12. QED
  BY <1>2, <1>4, <1>5, <1>6, <1>7, <1>8, <1>9, <1>10, <1>11 DEF Flagged

\* What a command of the script may change: the place it is at, the disk, the
\* places, variables and outcome of its own attempt, and not what it found.
ScriptFrame(a) ==
    /\ pc[a] \in InScript
    /\ \E step \in InScript \cup {"reported"} : pc' = [pc EXCEPT ![a] = step]
    /\ places' \in [Attempts -> Place] /\ script' \in [Attempts -> Script]
    /\ outcome' \in [Attempts -> Outcomes]
    /\ \A b \in Attempts \ {a} :
          places'[b] = places[b] /\ script'[b] = script[b] /\ outcome'[b] = outcome[b]
    /\ outcome'[a] # outcome[a] => pc'[a] = "reported"
    /\ pc'[a] = "reported" => pc[a] = "sweep"
    /\ script'[a].wasApp = script[a].wasApp /\ script'[a].wasCli = script[a].wasCli
    /\ script'[a].updateCli = script[a].updateCli
    /\ script[a].halfRemoved => script'[a].halfRemoved
    /\ app' \in Bundles /\ cli' \in Bundles
    /\ UNCHANGED <<process, orphan, lost, overlap>>

LEMMA FrameOfScript ==
  ASSUME TypeOK, NEW a \in Attempts, ScriptStep(a)
  PROVE  ScriptFrame(a)
<1>1. /\ places \in [Attempts -> Place] /\ script \in [Attempts -> Script]
      /\ app \in Bundles /\ cli \in Bundles
      /\ {places[a].oldApp, places[a].oldCli} \subseteq Bundles
      /\ pc \in [Attempts -> Steps] /\ outcome \in [Attempts -> Outcomes]
  BY DEF TypeOK, Place, Script
<1> USE <1>1, PutChanges, SetChanges
    DEF ScriptFrame, Goto, Fail, Quiet, Local, disk, process, Placed, Flagged,
        PlaceNames, Flags, Whole, Bundles, Outcomes, InScript, ScriptSteps, RollbackSteps
<1>2. CASE Precheck(a)
  BY <1>2 DEF Precheck
<1>3. CASE StageApp(a)
  BY <1>3 DEF StageApp
<1>4. CASE VerifyStaged(a)
  BY <1>4 DEF VerifyStaged
<1>5. CASE BackupCli(a)
  BY <1>5 DEF BackupCli
<1>6. CASE StageCli(a)
  BY <1>6 DEF StageCli
<1>7. CASE VerifyStagedCli(a)
  BY <1>7 DEF VerifyStagedCli
<1>8. CASE MoveOld(a)
  <2>1. CASE Fail(a) /\ UNCHANGED <<app, places, script>>
    BY <1>8, <2>1 DEF MoveOld
  <2>2. CASE Put(a, "oldApp", app) /\ Set(a, "appReplaced") /\ Goto(a, "moveNew")
    BY <1>8, <2>2 DEF MoveOld
  <2>3. QED
    BY <1>8, <2>1, <2>2 DEF MoveOld
<1>9. CASE MoveNew(a)
  BY <1>9 DEF MoveNew
<1>10. CASE MoveCli(a)
  BY <1>10 DEF MoveCli
<1>11. CASE Verify(a)
  BY <1>11 DEF Verify
<1>12. CASE DropOldApp(a)
  BY <1>12 DEF DropOldApp
<1>13. CASE DropOldCli(a)
  BY <1>13 DEF DropOldCli
<1>14. CASE Rollback(a)
  BY <1>14 DEF Rollback, AfterCli
<1>15. CASE RemoveCli(a)
  BY <1>15 DEF RemoveCli
<1>16. CASE RestoreCli(a)
  <2>1. PICK step \in {"removeApp", "sweep"} : pc' = [pc EXCEPT ![a] = step]
    BY <1>16 DEF RestoreCli, AfterCli
  <2>2. pc[a] = "restoreCli" /\ UNCHANGED <<app, running, standalone, updating, orphan, outcome, lost, overlap>>
    BY <1>16 DEF RestoreCli
  <2>3. \/ cli' = places[a].oldCli /\ Placed(a, "oldCli", "none") /\ UNCHANGED script
        \/ Flagged(a, "rollbackFailed") /\ UNCHANGED <<cli, places>>
    <3> HIDE DEF Placed, Flagged
    <3>1. CASE cli' = places[a].oldCli /\ Put(a, "oldCli", "none") /\ UNCHANGED script
      BY <3>1
    <3>2. CASE Set(a, "rollbackFailed") /\ UNCHANGED <<cli, places>>
      BY <3>2
    <3>3. QED
      BY <1>16, <3>1, <3>2 DEF RestoreCli
  <2>4. /\ places' \in [Attempts -> Place] /\ script' \in [Attempts -> Script] /\ cli' \in Bundles
        /\ \A b \in Attempts \ {a} : places'[b] = places[b] /\ script'[b] = script[b]
    BY <2>3
  <2>5. /\ script'[a].wasApp = script[a].wasApp /\ script'[a].wasCli = script[a].wasCli
        /\ script'[a].updateCli = script[a].updateCli
        /\ script[a].halfRemoved => script'[a].halfRemoved
    BY <2>3
  <2>6. QED
    BY <2>1, <2>2, <2>4, <2>5
<1>17. CASE RemoveApp(a)
  BY <1>17 DEF RemoveApp
<1>18. CASE RestoreApp(a)
  BY <1>18 DEF RestoreApp
<1>19. CASE Sweep(a)
  <2> DEFINE Backup == IF script[a].cliReplaced THEN places[a].oldCli ELSE "none"
             Swept == [places[a] EXCEPT !.stagedApp = "none", !.stagedCli = "none",
                                        !.oldCli = Backup]
  <2>1. Swept \in Place
    <3>1. places[a] \in Place /\ Backup \in Bundles
      BY <1>1
    <3>2. \A p \in Place, b \in Bundles :
             [p EXCEPT !.stagedApp = "none", !.stagedCli = "none", !.oldCli = b] \in Place
      BY DEF Place
    <3> HIDE DEF Backup
    <3>3. QED
      BY <3>1, <3>2
  <2>2. /\ places' \in [Attempts -> Place]
        /\ \A b \in Attempts \ {a} : places'[b] = places[b]
    <3>1. places' = places \/ places' = [places EXCEPT ![a] = Swept]
      BY <1>19 DEF Sweep
    <3> HIDE DEF Swept
    <3>2. QED
      BY <3>1, <2>1
  <2>3. /\ pc[a] = "sweep" /\ pc' = [pc EXCEPT ![a] = "reported"]
        /\ \E code \in Outcomes : outcome' = [outcome EXCEPT ![a] = code]
        /\ UNCHANGED <<app, cli, process, script, orphan, lost, overlap>>
    BY <1>19 DEF Sweep
  <2> HIDE DEF Swept
  <2>4. QED
    BY <2>2, <2>3
<1>20. QED
  BY <1>2, <1>3, <1>4, <1>5, <1>6, <1>7, <1>8, <1>9, <1>10, <1>11, <1>12, <1>13, <1>14, <1>15, <1>16, <1>17, <1>18, <1>19 DEF ScriptStep

LEMMA NextTypes == TypeOK /\ [Next]_vars => TypeOK'
<1> SUFFICES ASSUME TypeOK, [Next]_vars PROVE TypeOK'
  OBVIOUS
<1>1. /\ places \in [Attempts -> Place] /\ script \in [Attempts -> Script]
      /\ app \in Bundles /\ cli \in Bundles /\ running \in Whole \cup {"none"}
      /\ pc \in [Attempts -> Steps] /\ outcome \in [Attempts -> Outcomes]
      /\ orphan \in [Attempts -> BOOLEAN]
      /\ standalone \in BOOLEAN /\ updating \in BOOLEAN /\ lost \in BOOLEAN /\ overlap \in BOOLEAN
  BY DEF TypeOK, Place, Script
<1>2. ASSUME /\ places' \in [Attempts -> Place] /\ script' \in [Attempts -> Script]
             /\ app' \in Bundles /\ cli' \in Bundles /\ running' \in Whole \cup {"none"}
             /\ pc' \in [Attempts -> Steps] /\ outcome' \in [Attempts -> Outcomes]
             /\ orphan' \in [Attempts -> BOOLEAN]
             /\ standalone' \in BOOLEAN /\ updating' \in BOOLEAN
             /\ lost' \in BOOLEAN /\ overlap' \in BOOLEAN
      PROVE  TypeOK'
  BY <1>2 DEF TypeOK, Place, Script
<1> USE <1>1 DEF disk, process, Goto, Steps, Holding, Outcomes
<1>3. ASSUME NEW a \in Attempts, Begin(a) \/ Shutdown(a)
      PROVE  TypeOK'
  BY <1>2, <1>3 DEF Begin, Shutdown, Quiet
<1>4. ASSUME NEW a \in Attempts, Inspect(a)
      PROVE  TypeOK'
  <2>1. script' \in [Attempts -> Script]
    <3> DEFINE Found == [NoScript EXCEPT !.updateCli = cli # "none",
                                        !.wasApp = app, !.wasCli = cli]
    <3>1. Found \in Script
      <4>1. \A s \in Script : [s EXCEPT !.updateCli = cli # "none",
                                       !.wasApp = app, !.wasCli = cli] \in Script
        BY DEF Script
      <4>2. QED
        BY <4>1, Blank
    <3>2. UNCHANGED script \/ script' = [script EXCEPT ![a] = Found]
      BY <1>4 DEF Inspect, Cancel
    <3> HIDE DEF Found
    <3>3. QED
      BY <3>1, <3>2
  <2>2. QED
    BY <1>2, <1>4, <2>1 DEF Inspect, Cancel, InScript, ScriptSteps
<1>5. ASSUME NEW a \in Attempts, PluginInstall(a) \/ Report(a)
      PROVE  TypeOK'
  <2>1. ASSUME RestartApp(a), app' \in Bundles, outcome' \in [Attempts -> Outcomes]
        PROVE  TypeOK'
    BY <1>2, <2>1 DEF RestartApp
  <2>2. ASSUME Cancel(a), outcome' \in [Attempts -> Outcomes]
        PROVE  TypeOK'
    BY <1>2, <2>2 DEF Cancel
  <2>3. \A said \in {"ok", "error"} : [outcome EXCEPT ![a] = said] \in [Attempts -> Outcomes]
    OBVIOUS
  <2>4. "v2" \in Bundles
    BY DEF Bundles, Whole
  <2>5. CASE PluginInstall(a)
    BY <2>1, <2>2, <2>3, <2>4, <2>5 DEF PluginInstall
  <2>6. CASE Report(a)
    <3>1. CASE Goto(a, "ended") /\ UNCHANGED <<disk, process, script, orphan, lost, overlap>>
      BY <1>2, <2>6, <3>1 DEF Report
    <3>2. CASE UNCHANGED app /\ RestartApp(a)
      BY <2>1, <2>6, <3>2 DEF Report
    <3>3. CASE Cancel(a)
      BY <2>2, <2>6, <3>3 DEF Report
    <3>4. QED
      BY <2>6, <3>1, <3>2, <3>3 DEF Report
  <2>7. QED
    BY <1>5, <2>5, <2>6
<1>6. ASSUME NEW a \in Attempts, ScriptStep(a)
      PROVE  TypeOK'
  BY <1>2, <1>6, FrameOfScript DEF ScriptFrame
<1>7. CASE AppDies \/ PowerLoss \/ StartApp
  BY <1>2, <1>7 DEF AppDies, PowerLoss, StartApp
<1>8. CASE UNCHANGED vars
  BY <1>2, <1>8 DEF vars
<1>9. QED
  BY <1>3, <1>4, <1>5, <1>6, <1>7, <1>8 DEF Next

-----------------------------------------------------------------------------
(* The attempts and the flag.                                              *)

ProcessInv == EarlyInv /\ KindInv /\ FlagInv

LEMMA InitProcess == Init => ProcessInv
  BY DEF Init, ProcessInv, EarlyInv, KindInv, FlagInv, Holder, Holding, Early, Whole,
         InScript, ScriptSteps, RollbackSteps

\* An attempt that is alone with the flag, and gives it back.
LEMMA FlagGivenBack ==
  ASSUME TypeOK, FlagInv, NEW a \in Attempts, Holder(a), Cancel(a)
  PROVE  FlagInv'
<1>1. \A b \in Attempts \ {a} : ~Holder(b)
  BY DEF FlagInv
<1>2. QED
  BY <1>1 DEF Cancel, TypeOK, FlagInv, Holder, Goto, Holding, InScript, ScriptSteps, RollbackSteps

\* The steps of an attempt with the flag that keep it.
LEMMA FlagKept ==
  ASSUME TypeOK, FlagInv, NEW a \in Attempts, pc[a] \in Holding,
         NEW step \in Holding, pc' = [pc EXCEPT ![a] = step], UNCHANGED <<updating, orphan>>
  PROVE  FlagInv'
<1>1. \A b \in Attempts : Holder(b)' <=> Holder(b)
  BY DEF Holder, TypeOK
<1>2. QED
  BY <1>1 DEF FlagInv

LEMMA FlagOfScript ==
  ASSUME TypeOK, FlagInv, NEW a \in Attempts, ScriptFrame(a)
  PROVE  FlagInv'
<1>1. PICK step \in InScript \cup {"reported"} : pc' = [pc EXCEPT ![a] = step]
  BY DEF ScriptFrame
<1>2. step \in Holding /\ pc[a] \in Holding
  BY DEF ScriptFrame, Holding
<1>3. UNCHANGED <<updating, orphan>>
  BY DEF ScriptFrame, process
<1>4. QED
  BY <1>1, <1>2, <1>3, FlagKept

\* No attempt that a process has ended holds the flag.
LEMMA FlagReset ==
  ASSUME updating' = FALSE, \A a \in Attempts : ~Holder(a)'
  PROVE  FlagInv'
  BY DEF FlagInv

LEMMA NextProcess ==
  ASSUME TypeOK, ProcessInv, [Next]_vars
  PROVE  ProcessInv'
<1>1. /\ places \in [Attempts -> Place] /\ script \in [Attempts -> Script]
      /\ pc \in [Attempts -> Steps] /\ outcome \in [Attempts -> Outcomes]
      /\ orphan \in [Attempts -> BOOLEAN]
      /\ standalone \in BOOLEAN /\ updating \in BOOLEAN
  BY DEF TypeOK, Place, Script
<1> USE <1>1 DEF ProcessInv, disk, process, Goto, Early, InScript, ScriptSteps, RollbackSteps
<1>2. ASSUME NEW a \in Attempts, Begin(a)
      PROVE  ProcessInv'
  <2>1. EarlyInv' /\ KindInv'
    BY <1>2 DEF Begin, Quiet, EarlyInv, KindInv
  <2>2. \A b \in Attempts : Holder(b)' <=> Holder(b)
    BY <1>2 DEF Begin, Quiet, Holder, Holding
  <2>3. QED
    BY <1>2, <2>1, <2>2 DEF Begin, Quiet, FlagInv
<1>3. ASSUME NEW a \in Attempts, Shutdown(a)
      PROVE  ProcessInv'
  <2>1. EarlyInv' /\ KindInv'
    BY <1>3 DEF Shutdown, EarlyInv, KindInv
  <2>2. CASE UNCHANGED updating
    <3>1. \A b \in Attempts : Holder(b)' <=> Holder(b)
      BY <1>3, <2>2 DEF Shutdown, Holder, Holding, FlagInv
    <3>2. QED
      BY <2>1, <2>2, <3>1 DEF FlagInv
  <2>3. CASE ~updating /\ updating'
    <3>1. \A b \in Attempts : Holder(b)' <=> b = a
      BY <1>3, <2>3 DEF Shutdown, Holder, Holding, FlagInv, EarlyInv
    <3>2. QED
      BY <2>1, <2>3, <3>1 DEF FlagInv
  <2>4. QED
    BY <1>3, <2>2, <2>3 DEF Shutdown
<1>4. ASSUME NEW a \in Attempts, Inspect(a)
      PROVE  ProcessInv'
  <2>1. Holder(a)
    BY <1>4 DEF Inspect, Holder, Holding, EarlyInv
  <2>2. EarlyInv' /\ KindInv'
    BY <1>4 DEF Inspect, Cancel, EarlyInv, KindInv, Whole
  <2>3. FlagInv'
    <3>1. CASE Cancel(a)
      BY <2>1, <3>1, FlagGivenBack
    <3>2. CASE ~Cancel(a)
      BY <1>4, <3>2, FlagKept DEF Inspect, Holding
    <3>3. QED
      BY <3>1, <3>2
  <2>4. QED
    BY <2>2, <2>3
<1>5. ASSUME NEW a \in Attempts, RestartApp(a), UNCHANGED app \/ app' = "v2",
             UNCHANGED outcome \/ outcome' = [outcome EXCEPT ![a] = "ok"]
      PROVE  ProcessInv'
  <2>1. EarlyInv' /\ KindInv'
    BY <1>5 DEF RestartApp, EarlyInv, KindInv, Whole
  <2>2. \A b \in Attempts : ~Holder(b)'
    BY <1>5 DEF RestartApp, Holder, Holding
  <2>3. QED
    BY <1>5, <2>1, <2>2, FlagReset DEF RestartApp
<1>6. ASSUME NEW a \in Attempts, Cancel(a), Holder(a), UNCHANGED <<app, cli, places>>,
             UNCHANGED outcome \/ outcome' = [outcome EXCEPT ![a] = "error"]
      PROVE  ProcessInv'
  <2>1. EarlyInv' /\ KindInv'
    BY <1>6 DEF Cancel, EarlyInv, KindInv
  <2>2. QED
    BY <1>6, <2>1, FlagGivenBack
<1>7. ASSUME NEW a \in Attempts, PluginInstall(a)
      PROVE  ProcessInv'
  <2>1. Holder(a)
    BY <1>7 DEF PluginInstall, Holder, Holding, EarlyInv
  <2>2. QED
    BY <1>5, <1>6, <1>7, <2>1 DEF PluginInstall, Cancel
<1>8. ASSUME NEW a \in Attempts, Report(a)
      PROVE  ProcessInv'
  <2>1. CASE orphan[a]
    <3>1. EarlyInv' /\ KindInv'
      BY <1>8, <2>1 DEF Report, EarlyInv, KindInv
    <3>2. \A b \in Attempts : Holder(b)' <=> Holder(b)
      BY <1>8, <2>1 DEF Report, Holder, Holding
    <3>3. QED
      BY <1>8, <2>1, <3>1, <3>2 DEF Report, FlagInv
  <2>2. CASE ~orphan[a]
    BY <1>5, <1>6, <1>8, <2>2 DEF Report, Cancel, Holder, Holding
  <2>3. QED
    BY <2>1, <2>2
<1>9. ASSUME NEW a \in Attempts, ScriptStep(a)
      PROVE  ProcessInv'
  <2>1. ScriptFrame(a)
    BY <1>9, FrameOfScript
  <2>2. EarlyInv' /\ KindInv'
    BY <2>1 DEF ScriptFrame, EarlyInv, KindInv
  <2>3. FlagInv'
    BY <2>1, FlagOfScript
  <2>4. QED
    BY <2>2, <2>3
<1>10. CASE AppDies
  <2>1. EarlyInv' /\ KindInv'
    BY <1>10 DEF AppDies, EarlyInv, KindInv
  <2>2. \A b \in Attempts : ~Holder(b)'
    BY <1>10 DEF AppDies, Holder, Holding
  <2>3. QED
    BY <1>10, <2>1, <2>2, FlagReset DEF AppDies
<1>11. CASE PowerLoss
  <2>1. EarlyInv' /\ KindInv'
    BY <1>11 DEF PowerLoss, EarlyInv, KindInv
  <2>2. \A b \in Attempts : ~Holder(b)'
    BY <1>11 DEF PowerLoss, Holder, Holding
  <2>3. QED
    BY <1>11, <2>1, <2>2, FlagReset DEF PowerLoss
<1>12. CASE StartApp \/ UNCHANGED vars
  BY <1>12 DEF StartApp, vars, EarlyInv, KindInv, FlagInv, Holder
<1>13. QED
  BY <1>2, <1>3, <1>4, <1>7, <1>8, <1>9, <1>10, <1>11, <1>12 DEF Next

-----------------------------------------------------------------------------
(* The disk at each command of a script that is alone.                     *)

LEMMA AppOfStep ==
  ASSUME TypeOK, NEW a \in Attempts, FoundInv(a), AppInv(a), CliInv(a),
         ScriptStep(a), pc'[a] # "reported"
  PROVE  AppInv(a)'
<1>1. /\ places \in [Attempts -> Place] /\ script \in [Attempts -> Script]
      /\ script[a] \in Script /\ places[a] \in Place
      /\ {places[a].oldApp, places[a].oldCli, places[a].stagedApp, places[a].stagedCli}
             \subseteq Bundles
      /\ app \in Bundles /\ cli \in Bundles
      /\ pc \in [Attempts -> Steps]
  BY DEF TypeOK, Place, Script
<1> USE <1>1, PutChanges, SetChanges
    DEF AppInv, NotMoved, BackedUp, Dropped, Restored, GivenUp, FoundInv, Preparing,
        Goto, Fail, Quiet, Local, disk, Placed, Flagged, PlaceNames, Flags, Whole, Bundles
<1>2. CASE Precheck(a)
  BY <1>2 DEF Precheck
<1>3. CASE StageApp(a)
  BY <1>3 DEF StageApp
<1>4. CASE VerifyStaged(a)
  BY <1>4 DEF VerifyStaged
<1>5. CASE BackupCli(a)
  BY <1>5 DEF BackupCli
<1>6. CASE StageCli(a)
  BY <1>6 DEF StageCli
<1>7. CASE VerifyStagedCli(a)
  BY <1>7 DEF VerifyStagedCli
<1>8. CASE MoveOld(a)
  BY <1>8 DEF MoveOld
<1>9. CASE MoveNew(a)
  BY <1>9 DEF MoveNew
<1>10. CASE MoveCli(a)
  BY <1>10 DEF MoveCli
<1>11. CASE Verify(a)
  BY <1>11 DEF Verify, Installed
<1>12. CASE DropOldApp(a)
  BY <1>12 DEF DropOldApp
<1>13. CASE DropOldCli(a)
  BY <1>13 DEF DropOldCli
<1>14. CASE Rollback(a)
  BY <1>14 DEF Rollback, CanRollback, AfterCli, CliInv, CliKept, CliReplaced
<1>15. CASE RemoveCli(a)
  BY <1>15 DEF RemoveCli, CliInv
<1>16. CASE RestoreCli(a)
  <2>1. CASE cli' = places[a].oldCli /\ Put(a, "oldCli", "none") /\ UNCHANGED script
    BY <1>16, <2>1 DEF RestoreCli, AfterCli, CliInv
  <2>2. CASE Set(a, "rollbackFailed") /\ UNCHANGED <<cli, places>>
    BY <1>16, <2>2 DEF RestoreCli, AfterCli, CliInv
  <2>3. QED
    BY <1>16, <2>1, <2>2 DEF RestoreCli
<1>17. CASE RemoveApp(a)
  BY <1>17 DEF RemoveApp
<1>18. CASE RestoreApp(a)
  BY <1>18 DEF RestoreApp
<1>19. CASE Sweep(a)
  BY <1>19 DEF Sweep
<1>20. QED
  BY <1>2, <1>3, <1>4, <1>5, <1>6, <1>7, <1>8, <1>9, <1>10, <1>11, <1>12, <1>13, <1>14, <1>15, <1>16, <1>17, <1>18, <1>19 DEF ScriptStep

LEMMA CliOfStep ==
  ASSUME TypeOK, NEW a \in Attempts, FoundInv(a), AppInv(a), CliInv(a),
         ScriptStep(a), pc'[a] # "reported"
  PROVE  CliInv(a)'
<1>1. /\ places \in [Attempts -> Place] /\ script \in [Attempts -> Script]
      /\ script[a] \in Script /\ places[a] \in Place
      /\ {places[a].oldApp, places[a].oldCli, places[a].stagedApp, places[a].stagedCli}
             \subseteq Bundles
      /\ app \in Bundles /\ cli \in Bundles
      /\ pc \in [Attempts -> Steps]
  BY DEF TypeOK, Place, Script
<1> USE <1>1, PutChanges, SetChanges
    DEF CliInv, CliKept, CliSaved, CliReplaced, CliDropped, CliRestored, CliSettled, CliNew,
        FoundInv, Preparing, Goto, Fail, Quiet, Local, disk, Placed, Flagged,
        PlaceNames, Flags, Whole, Bundles
<1>2. CASE Precheck(a)
  BY <1>2 DEF Precheck, AppInv, NotMoved
<1>3. CASE StageApp(a)
  BY <1>3 DEF StageApp, AppInv, NotMoved
<1>4. CASE VerifyStaged(a)
  BY <1>4 DEF VerifyStaged, AppInv, NotMoved
<1>5. CASE BackupCli(a)
  BY <1>5 DEF BackupCli, AppInv, NotMoved
<1>6. CASE StageCli(a)
  BY <1>6 DEF StageCli, AppInv, NotMoved
<1>7. CASE VerifyStagedCli(a)
  BY <1>7 DEF VerifyStagedCli, AppInv, NotMoved
<1>8. CASE MoveOld(a)
  BY <1>8 DEF MoveOld, AppInv, NotMoved
<1>9. CASE MoveNew(a)
  BY <1>9 DEF MoveNew, AppInv, BackedUp
<1>10. CASE MoveCli(a)
  BY <1>10 DEF MoveCli, AppInv, BackedUp
<1>11. CASE Verify(a)
  BY <1>11 DEF Verify, Installed, AppInv, BackedUp
<1>12. CASE DropOldApp(a)
  BY <1>12 DEF DropOldApp, AppInv, BackedUp
<1>13. CASE DropOldCli(a)
  BY <1>13 DEF DropOldCli, AppInv, Dropped
<1>14. CASE Rollback(a)
  <2>1. UNCHANGED <<app, cli, places>>
    BY <1>14 DEF Rollback
  <2>2. CASE ~CanRollback(a) /\ Goto(a, "sweep") /\ UNCHANGED script
    BY <1>14, <2>1, <2>2 DEF Rollback, CanRollback, AppInv, NotMoved, BackedUp
  <2>3. CASE Goto(a, "removeCli") /\ script[a].cliReplaced /\ UNCHANGED script
    BY <1>14, <2>1, <2>3 DEF Rollback, CanRollback, AppInv, NotMoved, BackedUp
  <2>4. CASE /\ script[a].cliReplaced /\ places[a].oldCli = "none" /\ CanRollback(a)
             /\ Goto(a, AfterCli(a)) /\ Set(a, "rollbackFailed")
    BY <1>14, <2>1, <2>4 DEF Rollback, CanRollback, AfterCli, AppInv, NotMoved, BackedUp
  <2>5. CASE ~script[a].cliReplaced /\ Goto(a, AfterCli(a)) /\ UNCHANGED script
    BY <1>14, <2>1, <2>5 DEF Rollback, CanRollback, AfterCli, AppInv, NotMoved, BackedUp
  <2>6. QED
    BY <1>14, <2>2, <2>3, <2>4, <2>5 DEF Rollback
<1>15. CASE RemoveCli(a)
  BY <1>15 DEF RemoveCli
<1>16. CASE RestoreCli(a)
  BY <1>16 DEF RestoreCli, AfterCli
<1>17. CASE RemoveApp(a)
  BY <1>17 DEF RemoveApp, AppInv, BackedUp
<1>18. CASE RestoreApp(a)
  <2>1. UNCHANGED cli /\ pc' = [pc EXCEPT ![a] = "sweep"]
    BY <1>18 DEF RestoreApp
  <2>2. CASE Put(a, "oldApp", "none") /\ UNCHANGED script
    BY <1>18, <2>1, <2>2 DEF RestoreApp, AppInv, BackedUp
  <2>3. CASE Put(a, "oldApp", "none") /\ Set(a, "nested")
    BY <1>18, <2>1, <2>3 DEF RestoreApp, AppInv, BackedUp
  <2>4. CASE Set(a, "rollbackFailed") /\ UNCHANGED <<app, places>>
    BY <1>18, <2>1, <2>4 DEF RestoreApp, AppInv, BackedUp
  <2>5. QED
    BY <1>18, <2>2, <2>3, <2>4 DEF RestoreApp
<1>19. CASE Sweep(a)
  BY <1>19 DEF Sweep
<1>20. QED
  BY <1>2, <1>3, <1>4, <1>5, <1>6, <1>7, <1>8, <1>9, <1>10, <1>11, <1>12, <1>13, <1>14, <1>15, <1>16, <1>17, <1>18, <1>19 DEF ScriptStep

\* A whole bundle is in its place or is the backup, or removing one failed.
WholeLeft(a) ==
    \/ app \in Whole
    \/ places[a].oldApp \in Whole
    \/ script[a].nested \/ script[a].halfRemoved

\* What a script that ends says, of the application and the tool it leaves.
Truthful(a) ==
    /\ Reports(a, "ok") => Installed(a) /\ places'[a] = NoPlaces
    /\ Reports(a, "cleanup") => Installed(a)
    /\ Reports(a, "rolledBack") =>
          \/ script[a].halfRemoved
          \/ /\ app = script[a].wasApp /\ cli = script[a].wasCli
             /\ places'[a] = NoPlaces

\* The places are empty after a sweep that did all it had to do.
LEMMA SweptEmpty ==
  ASSUME TypeOK, NEW a \in Attempts, Sweep(a),
         outcome'[a] \in {"ok", "rolledBack"}, places[a].oldApp = "none",
         script[a].cliReplaced => places[a].oldCli = "none"
  PROVE  places'[a] = NoPlaces
<1> DEFINE Backup == IF script[a].cliReplaced THEN places[a].oldCli ELSE "none"
           Swept == [places[a] EXCEPT !.stagedApp = "none", !.stagedCli = "none",
                                      !.oldCli = Backup]
           Code(swept) == IF ~Success(a) /\ ~CanRollback(a) THEN "cleanup"
                             ELSE IF script[a].rollbackFailed \/ ~swept THEN "incomplete"
                             ELSE IF Success(a) THEN "ok" ELSE "rolledBack"
<1>1. places \in [Attempts -> Place] /\ outcome \in [Attempts -> Outcomes]
  BY DEF TypeOK, Place
<1>2. places' = [places EXCEPT ![a] = Swept]
  <2>1. PICK swept \in {TRUE, FALSE} :
            /\ places' = IF swept THEN [places EXCEPT ![a] = Swept] ELSE places
            /\ outcome' = [outcome EXCEPT ![a] = Code(swept)]
    BY DEF Sweep
  <2>2. outcome'[a] = Code(swept)
    BY <1>1, <2>1
  <2>3. swept = TRUE
    BY <2>1, <2>2
  <2>4. QED
    BY <2>1, <2>3
<1>3. Swept = NoPlaces
  <2>1. \A p \in Place : (/\ p.stagedApp = "none" /\ p.oldApp = "none"
                          /\ p.stagedCli = "none" /\ p.oldCli = "none") => p = NoPlaces
    <3>1. \A p \in Place : p = [stagedApp |-> p.stagedApp, oldApp |-> p.oldApp,
                                stagedCli |-> p.stagedCli, oldCli |-> p.oldCli]
      BY DEF Place
    <3>2. QED
      BY <3>1 DEF NoPlaces
  <2>2. places[a] \in Place /\ Backup = "none"
    BY <1>1
  <2>3. /\ Swept \in Place
        /\ Swept.stagedApp = "none" /\ Swept.oldApp = "none"
        /\ Swept.stagedCli = "none" /\ Swept.oldCli = "none"
    <3>1. "none" \in Bundles
      BY DEF Bundles
    <3>2. QED
      BY <2>2, <3>1 DEF Place
  <2> HIDE DEF Swept
  <2>4. QED
    BY <2>1, <2>3
<1>4. QED
  BY <1>1, <1>2, <1>3

LEMMA SweepReports ==
  ASSUME TypeOK, NEW a \in Attempts, FoundInv(a), AppInv(a), CliInv(a), Sweep(a)
  PROVE  /\ Truthful(a)
         /\ outcome'[a] \in {"ok", "cleanup"} => Installed(a)
         /\ outcome'[a] = "rolledBack" =>
               \/ script[a].halfRemoved
               \/ app = script[a].wasApp /\ cli = script[a].wasCli
         /\ outcome'[a] \in {"ok", "cleanup", "rolledBack", "incomplete"}
<1>1. /\ outcome \in [Attempts -> Outcomes]
      /\ pc[a] = "sweep"
      /\ UNCHANGED <<app, cli, script>>
  BY DEF TypeOK, Sweep
<1>2. /\ outcome'[a] = "cleanup" => ~Success(a) /\ ~CanRollback(a)
      /\ outcome'[a] = "ok" => Success(a) /\ ~script[a].rollbackFailed
      /\ outcome'[a] = "rolledBack" =>
            ~Success(a) /\ CanRollback(a) /\ ~script[a].rollbackFailed
      /\ outcome'[a] \in {"ok", "cleanup", "rolledBack", "incomplete"}
  <2> DEFINE Code(swept) == IF ~Success(a) /\ ~CanRollback(a) THEN "cleanup"
                            ELSE IF script[a].rollbackFailed \/ ~swept THEN "incomplete"
                            ELSE IF Success(a) THEN "ok" ELSE "rolledBack"
  <2>1. PICK swept \in {TRUE, FALSE} : outcome' = [outcome EXCEPT ![a] = Code(swept)]
    BY DEF Sweep
  <2>2. outcome'[a] = Code(swept)
    BY <1>1, <2>1
  <2>3. QED
    BY <2>2
<1> USE DEF AppInv, CliInv, FoundInv
<1>3. script[a].appBackupRemoved => Installed(a)
  BY <1>1 DEF Installed, NotMoved, Dropped, Restored, GivenUp, CliNew, CliKept, CliReplaced,
              CliDropped
<1>4. outcome'[a] = "ok" => places[a].oldApp = "none" /\ (script[a].cliReplaced => places[a].oldCli = "none")
  BY <1>1, <1>2 DEF Success, NotMoved, Dropped, Restored, GivenUp, CliNew, CliKept, CliReplaced,
              CliDropped
<1>5. outcome'[a] = "rolledBack" =>
          \/ script[a].halfRemoved
          \/ /\ app = script[a].wasApp /\ cli = script[a].wasCli
             /\ places[a].oldApp = "none" /\ (script[a].cliReplaced => places[a].oldCli = "none")
  BY <1>1, <1>2 DEF CanRollback, NotMoved, Dropped, Restored, GivenUp, CliSettled, CliKept,
              CliRestored
<1>6. outcome'[a] \in {"ok", "cleanup"} => Installed(a)
  BY <1>1, <1>2, <1>3 DEF Success, CanRollback, CliNew, CliKept, CliReplaced, CliDropped, CliSettled
<1>7. outcome'[a] \in {"ok", "rolledBack"} /\ ~script[a].halfRemoved => places'[a] = NoPlaces
  BY <1>4, <1>5, SweptEmpty
<1>8. outcome'[a] = "ok" => places'[a] = NoPlaces
  BY <1>4, SweptEmpty
<1>9. QED
  BY <1>2, <1>5, <1>6, <1>7, <1>8 DEF Truthful, Reports

\* The disk is as it was, whatever else has happened.
Undisturbed ==
    /\ UNCHANGED <<disk, script, standalone, overlap>>
    /\ \A a \in Attempts :
          /\ pc'[a] \in InScript => pc'[a] = pc[a]
          /\ pc[a] \in InScript => pc'[a] = pc[a] \/ lost'
          /\ outcome[a] = "incomplete" => outcome'[a] = "incomplete"
    /\ lost => lost'

DiskInv == overlap \/ (ScriptInv /\ AppSurvives /\ Synchronized)

LEMMA UndisturbedDisk == DiskInv /\ Undisturbed => DiskInv'
<1> SUFFICES ASSUME DiskInv, Undisturbed, ~overlap
             PROVE  ScriptInv' /\ AppSurvives' /\ Synchronized'
  BY DEF DiskInv, Undisturbed
<1> USE DEF Undisturbed, disk
<1>1. AppSurvives' /\ Synchronized'
  BY DEF DiskInv, AppSurvives, Synchronized
<1>2. Clean' => Clean
  BY DEF Clean
<1>3. ASSUME NEW a \in Attempts, pc'[a] \in InScript
      PROVE  FoundInv(a)' /\ AppInv(a)' /\ CliInv(a)'
  <2>1. FoundInv(a) /\ AppInv(a) /\ CliInv(a) /\ pc'[a] = pc[a]
    BY <1>3 DEF DiskInv, ScriptInv
  <2>2. FoundInv(a)'
    BY <1>2, <2>1 DEF FoundInv
  <2>3. AppInv(a)'
    BY <2>1 DEF AppInv, NotMoved, BackedUp, Dropped, Restored, GivenUp
  <2>4. CliInv(a)'
    BY <2>1 DEF CliInv, CliKept, CliSaved, CliReplaced, CliDropped, CliRestored, CliSettled, CliNew
  <2>5. QED
    BY <2>2, <2>3, <2>4
<1>4. QED
  BY <1>1, <1>3 DEF DiskInv, ScriptInv

LEMMA DiskOfScript ==
  ASSUME TypeOK, EarlyInv, KindInv, DiskInv, ~overlap, NEW a \in Attempts, ScriptStep(a)
  PROVE  DiskInv' /\ Truthful(a)
<1>1. ScriptFrame(a)
  BY FrameOfScript
<1>2. FoundInv(a) /\ AppInv(a) /\ CliInv(a) /\ \A b \in Attempts \ {a} : pc[b] \notin InScript
  BY <1>1 DEF DiskInv, ScriptInv, ScriptFrame
<1>3. Clean' => Clean
  BY <1>1 DEF Clean, ScriptFrame, EarlyInv
<1>4. \A b \in Attempts \ {a} : pc'[b] \notin InScript
  BY <1>1, <1>2 DEF ScriptFrame, TypeOK
<1>5. CASE pc'[a] # "reported"
  <2>1. FoundInv(a)' /\ AppInv(a)' /\ CliInv(a)'
    BY <1>1, <1>2, <1>3, <1>5, AppOfStep, CliOfStep DEF FoundInv, ScriptFrame
  <2>2. pc'[a] \in InScript
    BY <1>1, <1>5 DEF ScriptFrame, TypeOK
  <2>3. ScriptInv'
    BY <1>4, <2>1 DEF ScriptInv
  <2>4. AppSurvives'
    <3>1. WholeLeft(a)'
      BY <2>1, <2>2 DEF WholeLeft, AppInv, NotMoved, BackedUp, Dropped, Restored, GivenUp, FoundInv,
             Preparing, Whole, InScript, ScriptSteps, RollbackSteps
    <3>2. QED
      BY <3>1 DEF WholeLeft, AppSurvives
  <2>5. Synchronized'
    BY <2>2 DEF Synchronized
  <2>6. Truthful(a)
    BY <1>5 DEF Truthful, Reports
  <2>7. QED
    BY <2>3, <2>4, <2>5, <2>6 DEF DiskInv
<1>6. CASE pc'[a] = "reported"
  <2>1. Sweep(a)
    BY <1>1, <1>6 DEF ScriptFrame, ScriptStep, Precheck, StageApp, VerifyStaged, BackupCli,
       StageCli, VerifyStagedCli, MoveOld, MoveNew, MoveCli, Verify, DropOldApp, DropOldCli,
       Rollback, RemoveCli, RestoreCli, RemoveApp, RestoreApp
  <2>2. Truthful(a)
    BY <1>2, <2>1, SweepReports
  <2>3. ScriptInv'
    BY <1>4, <1>6 DEF ScriptInv, InScript, ScriptSteps, RollbackSteps
  <2>4. AppSurvives'
    <3>1. WholeLeft(a)
      BY <1>2, <2>1 DEF WholeLeft, Sweep, AppInv, NotMoved, BackedUp, Dropped, Restored, GivenUp, FoundInv,
                        Whole
    <3>2. places'[a].oldApp = places[a].oldApp /\ UNCHANGED <<app, script>>
      <4>1. places \in [Attempts -> Place]
        BY DEF TypeOK, Place
      <4>2. QED
        BY <2>1, <4>1 DEF Sweep, Place
    <3>3. QED
      BY <3>1, <3>2 DEF WholeLeft, AppSurvives
  <2>5. Synchronized'
    <3>1. UNCHANGED <<app, cli, script, lost>>
      BY <2>1 DEF Sweep
    <3>2. \/ outcome'[a] = "incomplete" \/ script'[a].halfRemoved \/ lost'
          \/ \E b \in Attempts : outcome'[b] = "incomplete" \/ script'[b].halfRemoved
          \/ app \in Whole /\ cli \in {"none", app}
      <4>1. CASE Clean'
        BY <1>2, <1>3, <2>1, <3>1, <4>1, SweepReports DEF FoundInv, Installed, Whole
      <4>2. CASE ~Clean'
        BY <4>2 DEF Clean
      <4>3. QED
        BY <4>1, <4>2
    <3>3. QED
      BY <3>1, <3>2 DEF Synchronized
  <2>6. QED
    BY <2>2, <2>3, <2>4, <2>5 DEF DiskInv
<1>7. QED
  BY <1>5, <1>6

\* A second script that starts beside another is an overlap.
LEMMA DiskOfInspect ==
  ASSUME TypeOK, ProcessInv, DiskInv, ~overlap, NEW a \in Attempts, Inspect(a)
  PROVE  DiskInv'
<1> USE DEF InScript, ScriptSteps, RollbackSteps
<1>1. CASE Cancel(a) /\ outcome' = [outcome EXCEPT ![a] = "error"]
  <2>1. UNCHANGED <<disk, script, standalone, overlap, lost>>
    BY <1>1 DEF Cancel
  <2>2. \A b \in Attempts : /\ pc'[b] = pc[b] \/ (b = a /\ pc'[b] = "ended")
                            /\ outcome[b] = "incomplete" => outcome'[b] = "incomplete"
    BY <1>1 DEF Inspect, Cancel, Goto, TypeOK, ProcessInv, EarlyInv, Early
  <2>3. Undisturbed
    BY <1>1, <2>1, <2>2 DEF Undisturbed, Inspect, TypeOK
  <2>4. QED
    BY <2>3, UndisturbedDisk
<1>2. CASE Goto(a, "precheck")
  <2> DEFINE Found == [NoScript EXCEPT !.updateCli = cli # "none",
                                      !.wasApp = app, !.wasCli = cli]
  <2>1. /\ app \in Whole /\ cli \in Whole \cup {"none"}
        /\ script' = [script EXCEPT ![a] = Found]
        /\ overlap' = (overlap \/ \E b \in Attempts : pc[b] \in InScript)
        /\ pc' = [pc EXCEPT ![a] = "precheck"]
        /\ UNCHANGED <<disk, standalone, lost, outcome>>
    BY <1>2 DEF Inspect, Cancel, Goto, process, TypeOK
  <2>2. CASE overlap'
    BY <2>2 DEF DiskInv
  <2>3. CASE ~overlap'
    <3>1. \A b \in Attempts : pc[b] \notin InScript
      BY <2>1, <2>3
    <3>2. /\ places[a] = NoPlaces /\ script[a] = NoScript /\ standalone
      BY DEF Inspect, ProcessInv, EarlyInv, Early, KindInv, TypeOK
    <3>3. script'[a] = Found /\ \A b \in Attempts \ {a} : script'[b] = script[b]
      BY <2>1 DEF TypeOK
    <3>4. /\ Found.wasApp = app /\ Found.wasCli = cli /\ Found.updateCli = (cli # "none")
          /\ ~Found.appReplaced /\ ~Found.cliReplaced /\ ~Found.appBackupRemoved
          /\ ~Found.cliBackupRemoved /\ ~Found.halfRemoved
      BY DEF NoScript
    <3>5. ~NoScript.halfRemoved
      BY DEF NoScript
    <3> HIDE DEF Found
    <3>6. Clean' => Clean
      BY <2>1, <3>2, <3>3, <3>5 DEF Clean
    <3>7. Clean => cli \in {"none", app}
      BY <2>3, <3>1, <3>2 DEF Clean, DiskInv, Synchronized
    <3>8. FoundInv(a)'
      BY <2>1, <3>3, <3>4, <3>6, <3>7 DEF FoundInv, disk
    <3>9. pc'[a] = "precheck" /\ \A b \in Attempts \ {a} : pc'[b] \notin InScript
      BY <2>1, <3>1 DEF TypeOK
    <3>10. AppInv(a)'
      BY <2>1, <3>2, <3>3, <3>4, <3>9 DEF AppInv, NotMoved, NoPlaces, disk, Preparing
    <3>11. CliInv(a)'
      BY <2>1, <3>2, <3>3, <3>4, <3>9 DEF CliInv, CliKept, disk, Preparing
    <3>12. ScriptInv'
      BY <3>8, <3>9, <3>10, <3>11 DEF ScriptInv
    <3>13. AppSurvives' /\ Synchronized'
      BY <2>1, <3>9 DEF AppSurvives, Synchronized, disk
    <3>14. QED
      BY <3>12, <3>13 DEF DiskInv
  <2>4. QED
    BY <2>2, <2>3
<1>3. QED
  BY <1>1, <1>2 DEF Inspect

LEMMA NextDisk ==
  ASSUME TypeOK, ProcessInv, DiskInv, [Next]_vars
  PROVE  DiskInv' /\ \A a \in Attempts : overlap \/ Truthful(a)
<1>1. CASE overlap
  <2>1. overlap'
    BY <1>1, FrameOfScript DEF Next, Begin, Shutdown, Inspect, PluginInstall, Report, RestartApp,
       Cancel, Quiet, ScriptFrame, AppDies, PowerLoss, StartApp, vars
  <2>2. QED
    BY <1>1, <2>1 DEF DiskInv
<1>2. ASSUME Undisturbed, ~\E a \in Attempts : pc[a] = "sweep" /\ pc'[a] = "reported"
      PROVE  DiskInv' /\ \A a \in Attempts : Truthful(a)
  BY <1>2, UndisturbedDisk DEF Truthful, Reports
<1> USE DEF TypeOK, Goto, process, disk, Undisturbed, InScript, ScriptSteps, RollbackSteps
<1>3. ASSUME NEW a \in Attempts, Begin(a) \/ Shutdown(a)
      PROVE  DiskInv' /\ \A b \in Attempts : Truthful(b)
  BY <1>2, <1>3 DEF Begin, Shutdown, Quiet
<1>4. ASSUME ~overlap, NEW a \in Attempts, Inspect(a)
      PROVE  DiskInv' /\ \A b \in Attempts : Truthful(b)
  <2>1. \A b \in Attempts : ~(pc[b] = "sweep" /\ pc'[b] = "reported")
    BY <1>4 DEF Inspect, Cancel
  <2>2. QED
    BY <1>4, <2>1, DiskOfInspect DEF Truthful, Reports
<1>5. ASSUME ~overlap, NEW a \in Attempts, PluginInstall(a)
      PROVE  DiskInv' /\ \A b \in Attempts : Truthful(b)
  <2>1. ~standalone /\ standalone' = standalone /\ overlap' = overlap
    BY <1>5 DEF PluginInstall, RestartApp, Cancel, ProcessInv, KindInv
  <2>2. \A b \in Attempts : pc[b] \notin InScript /\ pc'[b] \notin InScript
    BY <1>5, <2>1 DEF PluginInstall, RestartApp, Cancel, ProcessInv, KindInv
  <2>3. app' \in Whole
    BY <1>5, <2>1 DEF PluginInstall, Cancel, ProcessInv, KindInv, Whole
  <2>4. DiskInv'
    BY <2>1, <2>2, <2>3 DEF DiskInv, ScriptInv, AppSurvives, Synchronized
  <2>5. QED
    BY <2>2, <2>4 DEF Truthful, Reports
<1>6. ASSUME NEW a \in Attempts, Report(a)
      PROVE  DiskInv' /\ \A b \in Attempts : Truthful(b)
  BY <1>2, <1>6 DEF Report, RestartApp, Cancel
<1>7. ASSUME ~overlap, NEW a \in Attempts, ScriptStep(a)
      PROVE  DiskInv' /\ \A b \in Attempts : Truthful(b)
  <2>1. DiskInv' /\ Truthful(a)
    BY <1>7, DiskOfScript DEF ProcessInv
  <2>2. \A b \in Attempts \ {a} : pc'[b] = pc[b]
    BY <1>7, FrameOfScript DEF ScriptFrame
  <2>3. QED
    BY <2>1, <2>2 DEF Truthful, Reports
<1>8. CASE AppDies \/ PowerLoss \/ StartApp
  BY <1>2, <1>8 DEF AppDies, PowerLoss, StartApp
<1>9. CASE UNCHANGED vars
  BY <1>2, <1>9 DEF vars
<1>10. QED
  BY <1>1, <1>3, <1>4, <1>5, <1>6, <1>7, <1>8, <1>9 DEF Next

-----------------------------------------------------------------------------
(* Theorems.                                                               *)

LEMMA InitDisk == Init => DiskInv
  BY DEF Init, DiskInv, ScriptInv, AppSurvives, Synchronized, Whole, InScript, ScriptSteps,
         RollbackSteps

\* The types, who holds the flag, and what the disk is like at each command of
\* a script that is alone: an invariant of every interleaving of attempts,
\* failures, deaths of the application and power losses (updater.rs 26-60 and
\* the script at 487-650).
THEOREM UpdateInvariant == Spec => [](TypeOK /\ UpdateInv)
<1>1. Init => TypeOK /\ ProcessInv /\ DiskInv
  BY InitTypes, InitProcess, InitDisk
<1>2. TypeOK /\ ProcessInv /\ DiskInv /\ [Next]_vars => (TypeOK /\ ProcessInv /\ DiskInv)'
  BY NextTypes, NextProcess, NextDisk
<1>3. ProcessInv /\ DiskInv => UpdateInv
  BY DEF ProcessInv, DiskInv, UpdateInv
<1>4. QED
  BY <1>1, <1>2, <1>3, PTL DEF Spec

\* The flag that refuses managed actions is set exactly while one attempt of
\* the running application holds it (updater.rs 33-45).
THEOREM FlagIsHeld == Spec => []FlagHeld
<1>1. TypeOK /\ UpdateInv => FlagHeld
  <2> SUFFICES ASSUME UpdateInv PROVE FlagHeld
    OBVIOUS
  <2> DEFINE holders == {a \in Attempts : pc[a] \in Holding /\ ~orphan[a]}
  <2>1. CASE updating
    <3>1. PICK a \in Attempts : Holder(a) /\ \A b \in Attempts : Holder(b) => b = a
      BY <2>1 DEF UpdateInv, FlagInv
    <3>2. holders = {a}
      BY <3>1 DEF Holder
    <3>3. QED
      BY <2>1, <3>2, FS_Singleton DEF FlagHeld
  <2>2. CASE ~updating
    <3>1. holders = {}
      BY <2>2 DEF UpdateInv, FlagInv, Holder
    <3>2. QED
      BY <2>2, <3>1, FS_EmptySet DEF FlagHeld
  <2>3. QED
    BY <2>1, <2>2
<1>2. QED
  BY <1>1, UpdateInvariant, PTL

\* Whatever command fails and wherever the machine stops, a whole application
\* is left, and it and the tool stay of one version (updater.rs 487-650).
THEOREM InstallationIsKept == Spec => []InstallationKept
<1>1. TypeOK /\ UpdateInv => InstallationKept
  BY DEF UpdateInv, InstallationKept, AppSurvives, Synchronized
<1>2. QED
  BY <1>1, UpdateInvariant, PTL

\* What the script reports is true of the disk (updater.rs 534-575).
THEOREM ReportsHold == Spec => ReportHolds
<1>1. TypeOK /\ UpdateInv /\ [Next]_vars =>
        [\A a \in Attempts :
            overlap \/
            (/\ Reports(a, "ok") => Installed(a) /\ places'[a] = NoPlaces
             /\ Reports(a, "cleanup") => Installed(a)
             /\ Reports(a, "rolledBack") =>
                   \/ script[a].halfRemoved
                   \/ /\ app = script[a].wasApp /\ cli = script[a].wasCli
                      /\ places'[a] = NoPlaces)]_vars
  BY NextDisk DEF Truthful, UpdateInv, ProcessInv, DiskInv
<1>2. QED
  BY <1>1, UpdateInvariant, PTL DEF Spec, ReportHolds

=============================================================================
