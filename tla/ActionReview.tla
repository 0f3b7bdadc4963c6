---------------------------- MODULE ActionReview ----------------------------
(***************************************************************************)
(* An action is launched in two calls: plan_action shows the command it    *)
(* would run under a token, confirm_action takes the token and runs that   *)
(* command.  In between the action may be edited, the worktree may move,   *)
(* vanish or come back, the token may expire; and a restart stops the run  *)
(* of the worktree between two looks at all of this (runtime_atlas.rs).    *)
(*                                                                         *)
(* One keep-running action with a restart command and an input that names  *)
(* another worktree.  Its definitions are numbered; what a session does    *)
(* from its launch on is ActionSessions, here it runs or has ended.        *)
(***************************************************************************)
EXTENDS RuntimeView

CONSTANTS
    Definitions,   \* the definitions of the action a user may save
    MaxReviews     \* bound: how many reviews there are, each with a new token

VARIABLES
    definition,     \* the definition in the configuration, if there is one
    confirmations,  \* RuntimeMemory.action_confirmations, by token
    reviews,        \* history: for every token, counted, what the user was shown
    taken,          \* what confirm_action goes on with: the plan, and (history) the
                    \* worktrees that were there when it was last revalidated
    running,        \* active_runs: the worktrees in which the action runs
    launched,       \* history: the tokens with what was launched for them
    interrupted     \* history: the tokens for which a run was stopped

reviewVars == <<definition, confirmations, reviews, taken, running, launched, interrupted>>
vars == <<viewVars, reviewVars>>

NoDefinition == [number |-> 0, repository |-> 0]
NoPlan == [definition |-> NoDefinition]
Nothing == [plan |-> NoPlan, there |-> {}]

\* plan: the command with its input in it, which must be an available worktree
\* like the one it runs in.
PlanCommand(path, input, restart) ==
    IF {path, input} \subseteq Range(AvailablePaths(Inspected))
    THEN [definition |-> definition, path |-> path, input |-> input, restart |-> restart]
    ELSE NoPlan

\* action_plan: the registered definition, its repository and its worktree.
ActionPlan(path, input, restart) ==
    IF /\ definition # NoDefinition /\ definition.repository = repository.id
       /\ VerifiedWorktree(path)
    THEN PlanCommand(path, input, restart)
    ELSE NoPlan

\* Mutant: any plan the action has now will do.
StillPlannable(plan) == ActionPlan(plan.path, plan.input, plan.restart) # NoPlan

Revalidated(plan) == ActionPlan(plan.path, plan.input, plan.restart) = plan

\* plan_action: the reviews that have expired go, the new one is kept.
PlanAction(path, input, restart) ==
    LET plan == ActionPlan(path, input, restart)
        token == Len(reviews) + 1
    IN  /\ op.step = "idle" /\ token <= MaxReviews
        /\ plan # NoPlan
        /\ confirmations' = [t \in {t \in DOMAIN confirmations : confirmations[t].fresh}
                                      \cup {token} |->
                               IF t = token THEN [plan |-> plan, fresh |-> TRUE]
                               ELSE confirmations[t]]
        /\ reviews' = Append(reviews, plan)
        /\ UNCHANGED <<viewVars, definition, taken, running, launched, interrupted>>

\* ACTION_CONFIRMATION_TTL is over.
Expire(token) ==
    /\ token \in DOMAIN confirmations /\ confirmations[token].fresh
    /\ confirmations' = [confirmations EXCEPT ![token].fresh = FALSE]
    /\ UNCHANGED <<viewVars, definition, reviews, taken, running, launched, interrupted>>

Forget(token) == [t \in DOMAIN confirmations \ {token} |-> confirmations[t]]

Confirm(token, step) ==
    op' = [Idle EXCEPT !.step = step, !.kind = "confirm", !.at = token]

WorktreesThere == {w.path : w \in {w \in Range(disk) : Available(w)}}

\* revalidate_action_confirmation answers with the plan as it is now.
Take(plan) ==
    taken' = [plan |-> ActionPlan(plan.path, plan.input, plan.restart), there |-> WorktreesThere]

\* confirm_action takes the token, whatever becomes of it, and looks whether
\* its review still holds.
ConfirmAction(token) ==
    LET review == confirmations[token]
    IN  /\ op.step = "idle" /\ token \in DOMAIN confirmations
        /\ confirmations' = Forget(token)
        /\ IF review.fresh /\ Revalidated(review.plan)
           THEN /\ Confirm(token, IF review.plan.restart THEN "interrupt" ELSE "launch")
                /\ Take(review.plan)
           ELSE UNCHANGED <<op, taken>>
        /\ UNCHANGED <<kernel, disk, changes, stored, memory, promised, definition, reviews,
                       running, launched, interrupted>>

\* stop_action_inner for a restart, which may fail and then ends the operation;
\* a worktree in which nothing runs is stopped at once.
InterruptRun ==
    LET plan == reviews[op.at]
    IN  /\ op.step = "interrupt"
        /\ \/ /\ running' = running \ {plan.path}
              /\ interrupted' = IF plan.path \in running THEN interrupted \cup {op.at}
                                ELSE interrupted
              /\ Goto("again") /\ UNCHANGED taken
           \/ /\ plan.path \in running /\ Fail /\ taken' = Nothing
              /\ UNCHANGED <<running, interrupted>>
        /\ UNCHANGED <<kernel, disk, changes, stored, memory, promised, definition,
                       confirmations, reviews, launched>>

\* The review must still hold when the old run has ended.
RevalidateAgain ==
    /\ op.step = "again"
    /\ IF Revalidated(reviews[op.at]) THEN Goto("launch") /\ Take(reviews[op.at])
       ELSE Fail /\ taken' = Nothing
    /\ UNCHANGED <<kernel, disk, changes, stored, memory, promised, definition, confirmations,
                   reviews, running, launched, interrupted>>

\* launch_action prepares a session unless one is active.
PrepareLaunch ==
    /\ op.step = "launch"
    /\ IF reviews[op.at].path \in running THEN Fail /\ taken' = Nothing
       ELSE Goto("look") /\ UNCHANGED taken
    /\ UNCHANGED <<kernel, disk, changes, stored, memory, promised, definition, confirmations,
                   reviews, running, launched, interrupted>>

\* The last look, after everything is prepared; its plan is dropped.
LastLook ==
    /\ op.step = "look"
    /\ IF Revalidated(reviews[op.at])
       THEN Goto("spawn") /\ taken' = [taken EXCEPT !.there = WorktreesThere]
       ELSE Fail /\ taken' = Nothing
    /\ UNCHANGED <<kernel, disk, changes, stored, memory, promised, definition, confirmations,
                   reviews, running, launched, interrupted>>

\* The supervisor is started with the plan, or cannot be.
SpawnReviewed ==
    /\ op.step = "spawn" /\ op' = Idle /\ taken' = Nothing
    /\ \/ /\ running' = running \cup {taken.plan.path}
          /\ launched' = Append(launched, [token |-> op.at, plan |-> taken.plan])
       \/ UNCHANGED <<running, launched>>
    /\ UNCHANGED <<kernel, disk, changes, stored, memory, promised, definition,
                   confirmations, reviews, interrupted>>

\* A run ends by itself.
RunOver(path) ==
    /\ path \in running /\ running' = running \ {path}
    /\ UNCHANGED <<viewVars, definition, confirmations, reviews, taken, launched, interrupted>>

\* ensure_runs_inactive: the action runs nowhere, nor does a process listen in
\* a worktree it could have been started in.
Inactive(seen) ==
    /\ running = {}
    /\ definition # NoDefinition =>
          ListenedWorktrees(seen, Roots, sessions', links)
              \cap Range(AvailablePaths(Inspected)) = {}

\* action_guard_snapshot: the change is made on a snapshot of its own, if it
\* shows the action inactive.
Guarded(change) ==
    LET seen == {Observed(IdentityOf(pid), table[pid].place) :
                    pid \in {pid \in DOMAIN table : table[pid].serves}}
    IN  /\ op.step = "idle"
        /\ Compose(seen)
        /\ IF Inactive(seen) THEN change
           ELSE UNCHANGED <<repository, order, chosen, definition>>
        /\ UNCHANGED <<kernel, disk, changes, owners, links, op, promised,
                       confirmations, reviews, taken, running, launched, interrupted>>

\* save_custom_action: under a repository that is still registered.
SaveCustomAction(number) ==
    /\ definition' = IF repository.path = NoPlace THEN definition
                     ELSE [number |-> number, repository |-> repository.id]
    /\ UNCHANGED <<repository, order, chosen>>

RemoveCustomAction ==
    definition' = NoDefinition /\ UNCHANGED <<repository, order, chosen>>

\* The action and the order of the worktrees go with their repository.
ForgetRepository ==
    /\ repository' = [repository EXCEPT !.path = NoPlace]
    /\ definition' = NoDefinition
    /\ order' = <<>> /\ chosen' = <<>>

SaveAction(number) == Guarded(SaveCustomAction(number))
DeleteAction == definition # NoDefinition /\ Guarded(RemoveCustomAction)
RemoveRepository == repository.path # NoPlace /\ Guarded(ForgetRepository)

ReviewNext ==
    \/ \E path, input \in Places, restart \in BOOLEAN : PlanAction(path, input, restart)
    \/ \E token \in DOMAIN confirmations : Expire(token) \/ ConfirmAction(token)
    \/ InterruptRun \/ RevalidateAgain \/ PrepareLaunch \/ LastLook \/ SpawnReviewed
    \/ \E path \in Places : RunOver(path)
    \/ \E number \in Definitions \ {definition.number} : SaveAction(number)
    \/ DeleteAction \/ RemoveRepository

\* An action may be defined and run when the application is started.
Init ==
    /\ ViewInit
    /\ definition \in [number : Definitions, repository : Nat] \cup {NoDefinition}
    /\ confirmations = <<>> /\ reviews = <<>>
    /\ taken = Nothing
    /\ running \subseteq Places
    /\ launched = <<>> /\ interrupted = {}

Next ==
    \/ ViewNext /\ UNCHANGED reviewVars
    \/ ReviewNext

Spec == Init /\ [][Next]_vars

-----------------------------------------------------------------------------
(* Properties. *)

\* What is launched is what the user was shown under that token, once, while
\* the action is still defined that way and does not run there already, and its
\* worktrees were there at the last look before the start; and no run is stopped
\* for the sake of a restart whose action has changed since the review.
LaunchReviewed ==
    [][ /\ launched' # launched =>
              LET launch == launched'[Len(launched')]
              IN  /\ launch.plan = reviews[launch.token]
                  /\ launch.plan.definition = definition
                  /\ {launch.plan.path, launch.plan.input} \subseteq taken.there
                  /\ launch.plan.path \notin running
                  /\ \A k \in DOMAIN launched : launched[k].token # launch.token
        /\ \A token \in interrupted' \ interrupted :
              reviews[token].definition = definition /\ reviews[token].restart
      ]_vars
=============================================================================
