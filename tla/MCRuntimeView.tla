--------------------------- MODULE MCRuntimeView ---------------------------
(***************************************************************************)
(* Small instances of RuntimeView and ActionReview.  A behaviour is about  *)
(* the processes, with the worktrees left alone, or about the worktrees    *)
(* and the reviews, with the processes left alone: focus says which.       *)
(***************************************************************************)
EXTENDS ActionReview

CONSTANTS
    MaxCalls,    \* bound: how often the interface asks for something
    MaxRegistrations,  \* bound: how often a repository is registered
    MaxStops     \* bound: the same where processes come and go

VARIABLES focus, calls

MCvars == <<vars, focus, calls>>

A == <<"a">>
B == <<"a", "b">>
C == <<"c">>
D == <<"d">>
MCPlaces == {A, B, C, D}

Present(path, head) == [path |-> path, head |-> head, state |-> "present"]

\* A shell, a server below it and a worker below that, in the worktree inside
\* which another one lies.
Server == <<Process(1, Launchd, A, FALSE), Process(2, 1, A, TRUE), Process(3, 2, A, FALSE)>>
Lineages == <<[pid |-> 1, ancestors |-> {}], [pid |-> 2, ancestors |-> {1}],
              [pid |-> 3, ancestors |-> {1, 2}]>>
Nested == [identity |-> [pid |-> 2, start |-> 2], path |-> A]
Shell == [identity |-> [pid |-> 1, start |-> 1], path |-> A]

MCInit ==
    /\ focus \in {"processes", "worktrees", "reviews"} /\ calls = 0
    /\ table = (IF focus = "worktrees" THEN <<>> ELSE Server) /\ born = Lineages /\ moves = 0
    /\ disk = IF focus = "worktrees"
              THEN <<Present(A, "main"), Present(B, "x"), Present(C, "x")>>
              ELSE <<Present(A, "main"), Present(B, "x")>>
    /\ repository = [id |-> 1, path |-> IF focus = "worktrees" THEN C ELSE A]
    /\ changes = 0 /\ order = <<>> /\ chosen = <<>>
    /\ \E run \in IF focus = "processes" THEN {"none", "session", "owner"} ELSE {"none"} :
           /\ sessions = IF run = "session" THEN {Shell} ELSE {}
           /\ owners = IF run = "owner" THEN {Shell, Nested} ELSE {}
    /\ links = {}
    /\ displayed = {} /\ shown = <<>> /\ worktree_paths = <<>>
    /\ recent_paths = <<>> /\ navigation = NoNavigation
    /\ op = Idle /\ promised = {}
    /\ definition = [number |-> 1, repository |-> 1] /\ confirmations = <<>> /\ reviews = <<>>
    /\ taken = Nothing
    /\ running \in IF focus = "reviews" THEN {{}, {A}} ELSE {{}}
    /\ launched = <<>> /\ interrupted = {}

\* One more call of the interface.
Called ==
    /\ calls < IF focus = "processes" THEN MaxStops ELSE MaxCalls
    /\ calls' = calls + 1

\* Other processes come and go in one of the directories and outside of all,
\* while a stop is under way.
ProcessFocus ==
    /\ focus = "processes"
    /\ UNCHANGED reviewVars
    /\ \/ /\ op # Idle /\ KernelNext
          /\ \A pid \in DOMAIN table' : table'[pid].place \in {A, D}
          /\ UNCHANGED <<disk, changes, stored, memory, op, promised, calls>>
       \/ (IF op.step = "idle" THEN Called ELSE UNCHANGED calls) /\ StopNext

WorktreeFocus ==
    /\ focus = "worktrees"
    /\ \/ Called /\ ArrangeNext
       \/ ChangeNext /\ UNCHANGED calls
    /\ UNCHANGED reviewVars

\* The action is planned in one worktree with the other one as its input; the
\* server may end, or be linked to the other worktree; one of them may move or
\* vanish.  It is over when no token is left to be given out or taken.
ReviewFocus ==
    /\ focus = "reviews"
    /\ op # Idle \/ Len(reviews) < MaxReviews \/ confirmations # <<>>
    /\ \/ \E restart \in BOOLEAN : PlanAction(A, B, restart)
       \/ \E token \in DOMAIN confirmations : Expire(token) \/ ConfirmAction(token)
       \/ InterruptRun \/ RevalidateAgain \/ PrepareLaunch \/ LastLook \/ SpawnReviewed
       \/ RunOver(A)
       \/ \E number \in Definitions \ {definition.number} : SaveAction(number)
       \/ DeleteAction \/ RemoveRepository
       \/ /\ repository.id < MaxRegistrations /\ UNCHANGED reviewVars
          /\ \E path \in Places : AddRepository(path)
       \/ LinkNext /\ links' \subseteq {[identity |-> [pid |-> 2, start |-> 2], path |-> B]}
                  /\ UNCHANGED reviewVars
       \/ /\ ChangeNext /\ UNCHANGED reviewVars
          /\ \A i \in DOMAIN disk :
                disk'[i].head = disk[i].head /\ disk'[i].path \in {disk[i].path, C}
       \/ /\ Exit(2)
          /\ UNCHANGED <<disk, changes, stored, memory, op, promised, reviewVars>>
    /\ UNCHANGED calls

MCNext ==
    /\ \/ ProcessFocus
       \/ WorktreeFocus
       \/ ReviewFocus
       \/ /\ focus # "reviews" /\ UNCHANGED reviewVars
          /\ IF op.step = "idle" THEN Called ELSE UNCHANGED calls
          /\ StatusNext
    /\ UNCHANGED focus

MCSpec == MCInit /\ [][MCNext]_MCvars
=============================================================================
