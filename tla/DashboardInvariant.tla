------------------------- MODULE DashboardInvariant -------------------------
(***************************************************************************)
(* What holds of Dashboard at every step of a call: which steps are taken  *)
(* under the operation lock, that what a call read there is not older than *)
(* the last change that was invalidated for, and whose the account query   *)
(* is.                                                                     *)
(***************************************************************************)
EXTENDS Dashboard

LockedSteps == {"save", "invalidate", "check", "cached", "scan", "commit", "compose"}

\* The call is inside with_lock.
Inside(c) ==
    \/ call[c].pc \in LockedSteps
    \/ call[c].pc \in {"load", "begin"} /\ call[c].kind # "account"

LockInv ==
    \A c \in Calls :
        /\ Inside(c) => lock = c
        /\ call[c].pc \in LockedSteps \cup {"wait"} => call[c].kind # "account"
        /\ call[c].pc \in {"check", "cached", "compose"} => call[c].kind = "dashboard"
        /\ call[c].pc = "fetch" => call[c].kind = "account"

\* No change is invalidated for while a call that has read the settings is
\* inside.
SettingsInv ==
    /\ applied <= config
    /\ \A c \in Calls :
          Inside(c) /\ call[c].pc \notin {"load", "save", "invalidate"}
              => call[c].cfg >= applied

WindowInv ==
    \A c \in Calls : call[c].kind = "dashboard" =>
        /\ call[c].pc \in {"cached", "scan", "commit"} => call[c].after <= call[c].want
        /\ call[c].pc \in {"begin", "compose"} => scan # None /\ loadedAfter <= call[c].want

ScanInv ==
    scan # None =>
        /\ scan.config >= applied
        /\ scan.window = loadedAfter

QueryInv ==
    /\ QueryOwned
    /\ \A c \in Calls : query[c] # "none" => call[c].pc \in {"fetch", "compose", "done"}
    /\ inFlight =>
          /\ asked[generation] >= applied
          /\ call[generation].kind # "account" => call[generation].cfg >= applied

DashboardInv == LockInv /\ SettingsInv /\ WindowInv /\ ScanInv /\ QueryInv

=============================================================================
