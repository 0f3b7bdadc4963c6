--------------------------- MODULE UpdateInstall ---------------------------
(***************************************************************************)
(* The updater: updater_install, the flag it shares with the managed       *)
(* actions, and the shell transaction that replaces the application bundle *)
(* of Runtime Atlas and its command line tool in /usr/local/bin.           *)
(*                                                                         *)
(* The transaction runs in a process of its own.  Any command of it may    *)
(* fail, which ends it through its EXIT trap, and the machine may stop     *)
(* between two commands, which ends it without.  Its staging and backup    *)
(* names carry a fresh suffix, so each attempt has places of its own.      *)
(***************************************************************************)
EXTENDS Naturals, FiniteSets

CONSTANT Attempts   \* the calls of updater_install

VARIABLES
    app,        \* the bundle at the place of the application
    cli,        \* the file at /usr/local/bin/runtime-atlas
    places,     \* staging and backup places of an attempt
    running,    \* the version of the running application, or "none"
    standalone, \* the application is Runtime Atlas, not DevConsole
    updating,   \* the update_shutdown flag
    pc,         \* where an attempt is
    script,     \* the variables of its shell script
    orphan,     \* its application is gone and the script runs on
    outcome,    \* what the script reported
    lost,       \* the machine stopped during a transaction
    overlap     \* two scripts ran at a time

disk == <<app, cli, places>>
process == <<running, standalone, updating>>
vars == <<disk, process, pc, script, orphan, outcome, lost, overlap>>

Whole == {"v1", "v2"}
\* "part": files are missing, or another bundle lies inside.
Bundles == Whole \cup {"none", "part"}

NoPlaces == [stagedApp |-> "none", oldApp |-> "none",
             stagedCli |-> "none", oldCli |-> "none"]

\* updateCli: $5; was*: what the attempt found installed; nested: the
\* backup lies inside the bundle it should have replaced; halfRemoved: its
\* removal failed half way.
NoScript == [updateCli |-> FALSE, wasApp |-> "none", wasCli |-> "none",
             appReplaced |-> FALSE, cliReplaced |-> FALSE,
             appBackupRemoved |-> FALSE, cliBackupRemoved |-> FALSE,
             rollbackFailed |-> FALSE, nested |-> FALSE, halfRemoved |-> FALSE]

ScriptSteps ==
    {"precheck", "stageApp", "verifyStaged", "backupCli", "stageCli", "verifyStagedCli",
     "moveOld", "moveNew", "moveCli", "verify", "dropOldApp", "dropOldCli"}
RollbackSteps ==
    {"rollback", "removeCli", "restoreCli", "removeApp", "restoreApp", "sweep"}
InScript == ScriptSteps \cup RollbackSteps
Holding == {"inspect", "plugin", "reported"} \cup InScript
Steps == {"idle", "ready", "ended"} \cup Holding
Outcomes == {"none", "ok", "rolledBack", "incomplete", "cleanup", "error"}

-----------------------------------------------------------------------------
Goto(a, step) == pc' = [pc EXCEPT ![a] = step]
Fail(a) == Goto(a, "rollback")

\* A step of the script that leaves the files alone.
Quiet(a) ==
    UNCHANGED <<disk, process, script, orphan, outcome, lost, overlap>>

\* A step of the script that changes files and its own variables only.
Local == UNCHANGED <<process, orphan, outcome, lost, overlap>>

Put(a, place, what) == places' = [places EXCEPT ![a][place] = what]
Set(a, flag) == script' = [script EXCEPT ![a][flag] = TRUE]

-----------------------------------------------------------------------------
(* updater_install.                                                        *)

\* Check, download and validation; the download is always the version v2.
Begin(a) ==
    /\ pc[a] = "idle" /\ running = "v1"
    /\ Goto(a, "ready") /\ Quiet(a)

\* Mutant: the flag is set without being tested.
ShutdownUntested(a) ==
    /\ pc[a] = "ready"
    /\ updating' = TRUE /\ Goto(a, IF standalone THEN "inspect" ELSE "plugin")
    /\ UNCHANGED <<disk, running, standalone, script, orphan, outcome, lost, overlap>>

\* shutdown_for_update: refused while another attempt holds the flag, and
\* the flag goes back when the shutdown itself fails.
Shutdown(a) ==
    /\ pc[a] = "ready"
    /\ UNCHANGED <<disk, running, standalone, script, orphan, outcome, lost, overlap>>
    /\ \/ /\ ~updating /\ updating' = TRUE
          /\ Goto(a, IF standalone THEN "inspect" ELSE "plugin")
       \/ Goto(a, "ended") /\ UNCHANGED updating

\* cancel_update_shutdown after an error.
Cancel(a) ==
    /\ updating' = FALSE
    /\ Goto(a, "ended")
    /\ UNCHANGED <<disk, running, standalone, script, orphan, lost, overlap>>

\* The bundle and the tool are read and verified, then the script starts.
Inspect(a) ==
    /\ pc[a] = "inspect"
    /\ \/ /\ app \in Whole /\ cli \in Whole \cup {"none"}
          /\ script' = [script EXCEPT ![a] = [NoScript EXCEPT
                 !.updateCli = cli # "none", !.wasApp = app, !.wasCli = cli]]
          /\ overlap' = (overlap \/ \E b \in Attempts : pc[b] \in InScript)
          /\ Goto(a, "precheck")
          /\ UNCHANGED <<disk, process, orphan, outcome, lost>>
       \/ Cancel(a) /\ outcome' = [outcome EXCEPT ![a] = "error"]

\* The application ends and the one at its place, if whole, starts.
RestartApp(a) ==
    /\ running' = IF app' \in Whole THEN app' ELSE "none"
    /\ updating' = FALSE
    /\ pc' = [b \in Attempts |->
           IF b # a /\ pc[b] \in InScript \cup {"idle"} THEN pc[b] ELSE "ended"]
    /\ orphan' = [b \in Attempts |-> orphan[b] \/ (b # a /\ pc[b] \in InScript)]
    /\ UNCHANGED <<cli, places, standalone, script, lost, overlap>>

\* Update::install of the updater plugin, for every other application.
PluginInstall(a) ==
    /\ pc[a] = "plugin"
    /\ \/ app' = "v2" /\ RestartApp(a) /\ outcome' = [outcome EXCEPT ![a] = "ok"]
       \/ Cancel(a) /\ outcome' = [outcome EXCEPT ![a] = "error"]

\* The exit status of the script reaches its caller, if that still exists.
Report(a) ==
    /\ pc[a] = "reported"
    /\ UNCHANGED outcome
    /\ IF orphan[a] THEN /\ Goto(a, "ended")
                         /\ UNCHANGED <<disk, process, script, orphan, lost, overlap>>
       ELSE IF outcome[a] = "ok" THEN UNCHANGED app /\ RestartApp(a)
       ELSE Cancel(a)

-----------------------------------------------------------------------------
(* The transaction.  A command that fails goes to the EXIT trap.           *)

Installed(a) ==
    /\ app = "v2"
    /\ cli = IF script[a].updateCli THEN "v2" ELSE "none"

Precheck(a) ==
    /\ pc[a] = "precheck"
    /\ \/ /\ app \in Whole
          /\ IF script[a].updateCli THEN cli \in Whole ELSE cli = "none"
          /\ Goto(a, "stageApp")
       \/ Fail(a)
    /\ Quiet(a)

StageApp(a) ==
    /\ pc[a] = "stageApp"
    /\ \/ Put(a, "stagedApp", "v2") /\ Goto(a, "verifyStaged")
       \/ \E left \in {"none", "part"} : Put(a, "stagedApp", left) /\ Fail(a)
    /\ UNCHANGED <<app, cli, script>> /\ Local

VerifyStaged(a) ==
    /\ pc[a] = "verifyStaged"
    /\ \/ Goto(a, IF script[a].updateCli THEN "backupCli" ELSE "moveOld")
       \/ Fail(a)
    /\ Quiet(a)

\* ditto, which copies: the tool stays where it is.
BackupCli(a) ==
    /\ pc[a] = "backupCli"
    /\ \/ cli # "none" /\ Put(a, "oldCli", cli) /\ Goto(a, "stageCli")
       \/ \E left \in {"none", "part"} : Put(a, "oldCli", left) /\ Fail(a)
    /\ UNCHANGED <<app, cli, script>> /\ Local

StageCli(a) ==
    /\ pc[a] = "stageCli"
    /\ \/ Put(a, "stagedCli", "v2") /\ Goto(a, "verifyStagedCli")
       \/ \E left \in {"none", "part"} : Put(a, "stagedCli", left) /\ Fail(a)
    /\ UNCHANGED <<app, cli, script>> /\ Local

VerifyStagedCli(a) ==
    /\ pc[a] = "verifyStagedCli"
    /\ Goto(a, "moveOld") \/ Fail(a)
    /\ Quiet(a)

\* A rename within one directory: it happens or it does not.
MoveOld(a) ==
    /\ pc[a] = "moveOld"
    /\ \/ /\ app # "none"
          /\ app' = "none" /\ Put(a, "oldApp", app) /\ Set(a, "appReplaced")
          /\ Goto(a, "moveNew")
       \/ Fail(a) /\ UNCHANGED <<app, places, script>>
    /\ UNCHANGED cli /\ Local

\* mv into a directory that exists moves the bundle below it.
MoveNew(a) ==
    /\ pc[a] = "moveNew"
    /\ \/ /\ app' = IF app = "none" THEN "v2" ELSE "part"
          /\ Put(a, "stagedApp", "none")
          /\ Goto(a, IF script[a].updateCli THEN "moveCli" ELSE "verify")
       \/ Fail(a) /\ UNCHANGED <<app, places>>
    /\ UNCHANGED <<cli, script>> /\ Local

\* Mutant: CLI_REPLACED is set only after the verification.
MoveCliLateFlag(a) ==
    /\ pc[a] = "moveCli"
    /\ \/ cli' = "v2" /\ Put(a, "stagedCli", "none") /\ Goto(a, "verify")
       \/ Fail(a) /\ UNCHANGED <<cli, places>>
    /\ UNCHANGED <<app, script>> /\ Local

MoveCli(a) ==
    /\ pc[a] = "moveCli"
    /\ \/ /\ cli' = "v2" /\ Put(a, "stagedCli", "none") /\ Set(a, "cliReplaced")
          /\ Goto(a, "verify")
       \/ Fail(a) /\ UNCHANGED <<cli, places, script>>
    /\ UNCHANGED app /\ Local

Verify(a) ==
    /\ pc[a] = "verify"
    /\ \/ Installed(a) /\ Goto(a, "dropOldApp")
       \/ Fail(a)
    /\ Quiet(a)

\* rm -rf of the backup may fail half way.
DropOldApp(a) ==
    /\ pc[a] = "dropOldApp"
    /\ \/ /\ Put(a, "oldApp", "none") /\ Set(a, "appBackupRemoved")
          /\ IF script[a].updateCli THEN Goto(a, "dropOldCli") ELSE Goto(a, "sweep")
       \/ Fail(a) /\ UNCHANGED <<places, script>>
       \/ Fail(a) /\ Put(a, "oldApp", "part") /\ Set(a, "halfRemoved")
    /\ UNCHANGED <<app, cli>> /\ Local

\* SUCCESS=1 follows without a command that fails: a run that reaches the
\* sweep without a rollback has it.
DropOldCli(a) ==
    /\ pc[a] = "dropOldCli"
    /\ \/ Put(a, "oldCli", "none") /\ Set(a, "cliBackupRemoved") /\ Goto(a, "sweep")
       \/ Fail(a) /\ UNCHANGED <<places, script>>
    /\ UNCHANGED <<app, cli>> /\ Local

Success(a) ==
    /\ script[a].appBackupRemoved
    /\ script[a].updateCli => script[a].cliBackupRemoved

-----------------------------------------------------------------------------
(* rollback(), the EXIT trap of a script without SUCCESS.                  *)

AfterCli(a) == IF script[a].appReplaced THEN "removeApp" ELSE "sweep"

\* Once a backup is removed there is no way back.
CanRollback(a) == ~script[a].appBackupRemoved /\ ~script[a].cliBackupRemoved

\* Mutant: the tool is not restored.
RollbackApp(a) ==
    /\ pc[a] = "rollback"
    /\ Goto(a, IF CanRollback(a) THEN AfterCli(a) ELSE "sweep")
    /\ Quiet(a)

Rollback(a) ==
    /\ pc[a] = "rollback"
    /\ \/ ~CanRollback(a) /\ Goto(a, "sweep") /\ UNCHANGED script
       \/ /\ CanRollback(a) /\ script[a].cliReplaced /\ places[a].oldCli # "none"
          /\ Goto(a, "removeCli") /\ UNCHANGED script
       \/ /\ CanRollback(a) /\ script[a].cliReplaced /\ places[a].oldCli = "none"
          /\ Goto(a, AfterCli(a)) /\ Set(a, "rollbackFailed")
       \/ /\ CanRollback(a) /\ ~script[a].cliReplaced
          /\ Goto(a, AfterCli(a)) /\ UNCHANGED script
    /\ UNCHANGED disk /\ Local

RemoveCli(a) ==
    /\ pc[a] = "removeCli"
    /\ \/ cli' = "none" /\ UNCHANGED script
       \/ Set(a, "rollbackFailed") /\ UNCHANGED cli
    /\ Goto(a, "restoreCli")
    /\ UNCHANGED <<app, places>> /\ Local

RestoreCli(a) ==
    /\ pc[a] = "restoreCli"
    /\ \/ cli' = places[a].oldCli /\ Put(a, "oldCli", "none") /\ UNCHANGED script
       \/ Set(a, "rollbackFailed") /\ UNCHANGED <<cli, places>>
    /\ Goto(a, AfterCli(a))
    /\ UNCHANGED app /\ Local

RemoveApp(a) ==
    /\ pc[a] = "removeApp"
    /\ \/ places[a].oldApp # "none" /\ app' = "none" /\ Goto(a, "restoreApp")
          /\ UNCHANGED script
       \/ /\ places[a].oldApp # "none"
          /\ app' \in {app, IF app = "none" THEN "none" ELSE "part"}
          /\ Goto(a, "restoreApp") /\ Set(a, "rollbackFailed")
       \/ /\ places[a].oldApp = "none"
          /\ Goto(a, "sweep") /\ Set(a, "rollbackFailed") /\ UNCHANGED app
    /\ UNCHANGED <<cli, places>> /\ Local

RestoreApp(a) ==
    /\ pc[a] = "restoreApp"
    /\ \/ /\ app = "none" /\ app' = places[a].oldApp
          /\ Put(a, "oldApp", "none") /\ UNCHANGED script
       \/ /\ app # "none" /\ app' = "part"
          /\ Put(a, "oldApp", "none") /\ Set(a, "nested")
       \/ Set(a, "rollbackFailed") /\ UNCHANGED <<app, places>>
    /\ Goto(a, "sweep")
    /\ UNCHANGED cli /\ Local

\* The staging places are swept, and the backup of a tool that was not
\* replaced; then the script ends with what it has to report.
Sweep(a) ==
    /\ pc[a] = "sweep"
    /\ LET backup == IF script[a].cliReplaced THEN places[a].oldCli ELSE "none"
           clean == [places[a] EXCEPT !.stagedApp = "none", !.stagedCli = "none",
                                      !.oldCli = backup]
       IN \E swept \in {TRUE, FALSE} :
            /\ swept \/ places[a] # clean
            /\ places' = IF swept THEN [places EXCEPT ![a] = clean] ELSE places
            /\ outcome' = [outcome EXCEPT ![a] =
                   IF ~Success(a) /\ ~CanRollback(a) THEN "cleanup"
                   ELSE IF script[a].rollbackFailed \/ ~swept THEN "incomplete"
                   ELSE IF Success(a) THEN "ok" ELSE "rolledBack"]
    /\ Goto(a, "reported")
    /\ UNCHANGED <<app, cli, process, script, orphan, lost, overlap>>

ScriptStep(a) ==
    \/ Precheck(a) \/ StageApp(a) \/ VerifyStaged(a)
    \/ BackupCli(a) \/ StageCli(a) \/ VerifyStagedCli(a)
    \/ MoveOld(a) \/ MoveNew(a) \/ MoveCli(a) \/ Verify(a)
    \/ DropOldApp(a) \/ DropOldCli(a)
    \/ Rollback(a) \/ RemoveCli(a) \/ RestoreCli(a)
    \/ RemoveApp(a) \/ RestoreApp(a) \/ Sweep(a)

-----------------------------------------------------------------------------
(* The environment.                                                        *)

\* The application is killed; a script it started runs on.
AppDies ==
    /\ running # "none"
    /\ running' = "none" /\ updating' = FALSE
    /\ orphan' = [a \in Attempts |-> orphan[a] \/ pc[a] \in InScript]
    /\ pc' = [a \in Attempts |-> IF pc[a] \in InScript \cup {"idle"} THEN pc[a] ELSE "ended"]
    /\ UNCHANGED <<disk, standalone, script, outcome, lost, overlap>>

\* The machine stops: the scripts end where they are.
PowerLoss ==
    /\ running' = "none" /\ updating' = FALSE
    /\ lost' = (lost \/ \E a \in Attempts : pc[a] \in InScript)
    /\ pc' = [a \in Attempts |-> IF pc[a] = "idle" THEN "idle" ELSE "ended"]
    /\ UNCHANGED <<disk, standalone, script, orphan, outcome, overlap>>

\* The user starts the application.
StartApp ==
    /\ running = "none" /\ app \in Whole
    /\ running' = app
    /\ UNCHANGED <<disk, standalone, updating, pc, script, orphan, outcome, lost, overlap>>

Init ==
    /\ app = "v1" /\ cli \in {"none", "v1"}
    /\ places = [a \in Attempts |-> NoPlaces]
    /\ running = "v1" /\ standalone \in BOOLEAN /\ updating = FALSE
    /\ pc = [a \in Attempts |-> "idle"]
    /\ script = [a \in Attempts |-> NoScript]
    /\ orphan = [a \in Attempts |-> FALSE]
    /\ outcome = [a \in Attempts |-> "none"]
    /\ lost = FALSE /\ overlap = FALSE

Next ==
    \/ \E a \in Attempts :
          \/ Begin(a) \/ Shutdown(a) \/ Inspect(a) \/ PluginInstall(a) \/ Report(a)
          \/ ScriptStep(a)
    \/ AppDies \/ PowerLoss \/ StartApp

Spec == Init /\ [][Next]_vars

-----------------------------------------------------------------------------
\* The types of the variables.
TypeOK ==
    /\ app \in Bundles /\ cli \in Bundles
    /\ places \in [Attempts -> [stagedApp : Bundles, oldApp : Bundles,
                                stagedCli : Bundles, oldCli : Bundles]]
    /\ running \in Whole \cup {"none"}
    /\ standalone \in BOOLEAN /\ updating \in BOOLEAN
    /\ pc \in [Attempts -> Steps]
    /\ script \in [Attempts -> [updateCli : BOOLEAN,
           wasApp : Bundles, wasCli : Bundles,
           appReplaced : BOOLEAN, cliReplaced : BOOLEAN,
           appBackupRemoved : BOOLEAN, cliBackupRemoved : BOOLEAN,
           rollbackFailed : BOOLEAN, nested : BOOLEAN, halfRemoved : BOOLEAN]]
    /\ orphan \in [Attempts -> BOOLEAN]
    /\ outcome \in [Attempts -> Outcomes]
    /\ lost \in BOOLEAN /\ overlap \in BOOLEAN

\* Actions are refused while an update installs and only then: the flag is
\* set exactly while one attempt of the running application holds it,
\* whichever way the attempt ends (updater.rs 33-45).
FlagHeld ==
    LET holders == {a \in Attempts : pc[a] \in Holding /\ ~orphan[a]}
    IN Cardinality(holders) = IF updating THEN 1 ELSE 0

\* Whatever command fails and wherever the machine stops, a whole bundle is
\* left, in its place or as a backup (or, after a removal that failed,
\* inside the bundle to be replaced).  The exception is a backup
\* whose own removal failed half way.
AppSurvives ==
    \/ app \in Whole
    \/ \E a \in Attempts :
          \/ places[a].oldApp \in Whole
          \/ script[a].nested \/ script[a].halfRemoved
    \/ overlap

\* Application and command line tool stay of one version: whenever no script
\* runs, unless one was cut off or has asked for manual repair.
Synchronized ==
    \/ lost \/ overlap \/ ~standalone
    \/ \E a \in Attempts :
          pc[a] \in InScript \/ outcome[a] = "incomplete" \/ script[a].halfRemoved
    \/ app \in Whole /\ cli \in {"none", app}

\* The installation is well typed, in one piece and of one version.
InstallationKept == TypeOK /\ AppSurvives /\ Synchronized

Reports(a, code) == pc[a] = "sweep" /\ pc'[a] = "reported" /\ outcome'[a] = code

\* What the script reports is true of the disk: success means both are new
\* and nothing is left beside them; "rollback completed" means that what was
\* found is back; "updated app and CLI remain synchronized" means they are.
ReportHolds ==
    [][\A a \in Attempts :
         overlap \/
         /\ Reports(a, "ok") => Installed(a) /\ places'[a] = NoPlaces
         /\ Reports(a, "cleanup") => Installed(a)
         /\ Reports(a, "rolledBack") =>
               \/ script[a].halfRemoved
               \/ /\ app = script[a].wasApp /\ cli = script[a].wasCli
                  /\ places'[a] = NoPlaces]_vars

\* The test of the transaction reads "rollback completed" as: the version and
\* the tool that were installed before are installed again.
RollbackRestores ==
    [][\A a \in Attempts :
         Reports(a, "rolledBack") /\ ~overlap =>
             app = script[a].wasApp /\ cli = script[a].wasCli]_vars

=============================================================================
