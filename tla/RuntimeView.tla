---------------------------- MODULE RuntimeView -----------------------------
(***************************************************************************)
(* Runtime Atlas shows the listening processes of the registered worktrees *)
(* and stops the one the user points at (status and stop_process of        *)
(* runtime_atlas.rs over observe.rs).  What it shows is put together from  *)
(* three looks at the system, and what it stops is found with many more:   *)
(* the process is observed again, its ancestors are followed one by one to *)
(* find the run it belongs to, and the processes below that run are listed *)
(* and verified one by one before the first of them is asked to end.       *)
(* Between any two looks processes end, are born under a used pid, change  *)
(* their directory or close their port.                                    *)
(*                                                                         *)
(* op is the operation that holds the action_operation mutex and the step  *)
(* it is at.  The navigation among the worktrees does not take the mutex.  *)
(* Runtime Atlas itself opens no port and is not in the table.             *)
(***************************************************************************)
EXTENDS ProcessTable, ProcessRelations, Worktrees

CONSTANTS
    Heads,        \* the branches and commits a worktree can be at
    RecentLimit,  \* how many recent worktrees are kept, 20 in the code
    MaxChanges    \* bound: how often a worktree changes on disk

ASSUME ViewAssumption == RecentLimit \in Nat \ {0} /\ MaxChanges \in Nat

VARIABLES
    disk,            \* the worktrees git and the file system would report
    changes,         \* how often they changed
    repository,      \* its registration: the id and the registered path
    order,           \* worktree_order_by_repository: the stored keys
    sessions,        \* the session records: supervisor and worktree
    owners,          \* the database bindings: owner process and worktree
    links,           \* the process links of the user
    displayed,       \* RuntimeMemory.displayed_processes
    shown,           \* the worktrees of the last snapshot, unavailable ones too
    worktree_paths,  \* RuntimeMemory.worktree_paths: the available ones
    recent_paths,    \* RuntimeMemory.recent_paths
    navigation,      \* RuntimeMemory.navigation
    chosen,          \* history: the worktrees as the user last arranged them
    op,              \* the operation under way
    promised         \* history: processes a stop that reported success promised
                     \* to have ended

memory == <<displayed, shown, worktree_paths, recent_paths, navigation>>
stored == <<repository, order, chosen, sessions, owners, links>>
viewVars == <<kernel, disk, changes, stored, memory, op, promised>>

NoIdentity == [pid |-> 0, start |-> 0]
NoTarget == Observed(NoIdentity, NoPlace)

\* Nothing under way: what an operation keeps from one look to the next.
\* witness, truth and births are history: who really served in the worktree when
\* the operation looked, who really was below the root when it listed, and how
\* many processes there had been by then.
Idle ==
    [step |-> "idle", kind |-> "none", target |-> NoTarget, worktree |-> NoPlace,
     heard |-> {}, known |-> <<>>, chain |-> <<>>, root |-> NoIdentity,
     session |-> FALSE, parents |-> <<>>, tree |-> <<>>, at |-> 0,
     signal |-> NoIdentity, witness |-> {}, truth |-> {}, births |-> 0]

Goto(step) == op' = [op EXCEPT !.step = step, !.signal = NoIdentity]
Fail == op' = Idle

Inspected == InspectRepository(repository.path, disk, order)
Roots == PathsOf(Inspected)

-----------------------------------------------------------------------------
(* Observation: who listens, where they are, who they are. *)

\* The second half of compose_status: what the interface is shown and what
\* the memory keeps of it.
Compose(seen) ==
    LET available == AvailablePaths(Inspected)
        gone == navigation # NoNavigation /\ SelectedPath(navigation) \notin Range(available)
    IN  /\ displayed' = seen
        /\ shown' = Roots
        /\ worktree_paths' = available
        /\ recent_paths' = ReconcileRecent(recent_paths, available, RecentLimit)
        /\ navigation' = IF gone THEN NoNavigation ELSE navigation
        /\ sessions' = {s \in sessions : Lives(s.identity)}

BeginStatus ==
    /\ op.step = "idle"
    /\ op' = [Idle EXCEPT !.step = "listeners", !.kind = "status"]
    /\ UNCHANGED <<kernel, disk, changes, stored, memory, promised>>

\* lsof lists the processes with a listening port, or fails.
ReadListeners ==
    LET serving == {pid \in DOMAIN table : table[pid].serves}
    IN  /\ op.step = "listeners"
        /\ \E heard \in {serving, {}} :
               op' = [op EXCEPT !.step = "directories", !.heard = heard,
                                !.witness = {IdentityOf(pid) : pid \in heard}]
        /\ UNCHANGED <<kernel, disk, changes, stored, memory, promised>>

\* lsof lists the directories of those that still live, or fails.
ReadDirectories ==
    LET answer == [pid \in op.heard \cap DOMAIN table |-> table[pid].place]
    IN  /\ op.step = "directories"
        /\ \E known \in {answer, <<>>} :
               op' = [op EXCEPT !.step = "identities", !.known = known,
                        !.witness = {w \in op.witness : Lives(w) /\ w.pid \in DOMAIN known}]
        /\ UNCHANGED <<kernel, disk, changes, stored, memory, promised>>

\* assemble_processes: a process whose start is no longer to be read is left out.
Seen ==
    {Observed(IdentityOf(pid), IF pid \in DOMAIN op.known THEN op.known[pid] ELSE NoPlace) :
        pid \in op.heard \cap DOMAIN table}

ShowStatus ==
    /\ op.step = "identities" /\ op.kind = "status"
    /\ Compose(Seen)
    /\ op' = Idle
    /\ UNCHANGED <<kernel, disk, changes, repository, order, chosen, owners, links, promised>>

-----------------------------------------------------------------------------
(* Stopping a displayed process. *)

\* stop_process looks up what was displayed.
BeginStop(process, worktree) ==
    /\ op.step = "idle"
    /\ worktree \in Range(worktree_paths) /\ process \in displayed
    /\ op' = [Idle EXCEPT !.step = "listeners", !.kind = "stop",
                          !.target = process, !.worktree = worktree]
    /\ UNCHANGED <<kernel, disk, changes, stored, memory, promised>>

\* observed_process and plan_termination.
PlanStop ==
    /\ op.step = "identities" /\ op.kind = "stop"
    /\ IF \E current \in Seen : MayTerminate(op.target, op.worktree, current)
       THEN op' = [op EXCEPT !.step = "ancestry", !.heard = {}, !.known = <<>>,
                                !.witness = @ \cap {op.target.identity}]
       ELSE Fail
    /\ UNCHANGED <<kernel, disk, changes, stored, memory, promised>>

\* verified_ancestry, one process at a time: the process itself, then the
\* parent of the last one, which must not be younger than its child.
FollowAncestry ==
    LET last == op.chain[Len(op.chain)]
        next == IF op.chain = <<>> THEN op.target.identity.pid ELSE last.parent
    IN  /\ op.step = "ancestry"
        /\ IF next = Launchd THEN Goto("root")
           ELSE IF /\ Alive(next)
                   /\ IF op.chain = <<>> THEN IdentityOf(next) = op.target.identity
                      ELSE /\ next \notin {op.chain[i].pid : i \in DOMAIN op.chain}
                           /\ table[next].start <= last.start
           THEN op' = [op EXCEPT !.chain = Append(@, FactOf(next))]
           ELSE Fail
        /\ UNCHANGED <<kernel, disk, changes, stored, memory, promised>>

Ancestors == {AsIdentity(op.chain[i]) : i \in 2..Len(op.chain)}

\* The run the process belongs to: the session of the worktree among its
\* ancestors, else the only owner of a database among them, else itself.
ChooseRoot ==
    LET Near(records) == {r \in records : r.path = op.worktree /\ r.identity \in Ancestors}
        owner == {r.identity : r \in Near(owners)}
    IN  /\ op.step = "root"
        /\ \/ \E s \in Near(sessions) :
                  op' = [op EXCEPT !.step = "targets", !.root = s.identity, !.session = TRUE]
           \/ /\ Near(sessions) = {} /\ Cardinality(owner) = 1
              /\ op' = [op EXCEPT !.step = "listing", !.root = CHOOSE o \in owner : TRUE]
           \/ /\ Near(sessions) = {} /\ owner = {}
              /\ op' = [op EXCEPT !.step = "listing", !.root = op.target.identity]
           \/ Near(sessions) = {} /\ Cardinality(owner) > 1 /\ Fail
        /\ UNCHANGED <<kernel, disk, changes, stored, memory, promised>>

\* The tree below a supervisor is read once more before stop_action_inner, for
\* the databases alone; that reading, too, may be refused.
ReadTargets ==
    /\ op.step = "targets"
    /\ \/ Lives(op.root) /\ Goto("validate")
       \/ Fail
    /\ UNCHANGED <<kernel, disk, changes, stored, memory, promised>>

\* stop_action_inner: a supervisor that has ended since is a session stopped.
\* Success is reported, whatever is left below it; one that lives may be refused.
ValidateSession ==
    /\ op.step = "validate"
    /\ \/ /\ Lives(op.root)
          /\ Goto("listing") \/ Fail
          /\ UNCHANGED <<sessions, promised>>
       \/ /\ ~Lives(op.root)
          /\ op' = Idle
          /\ sessions' = {s \in sessions : s.identity # op.root}
          /\ promised' = promised \cup {op.root}
    /\ UNCHANGED <<kernel, disk, changes, repository, order, chosen, owners, links, memory>>

\* ps lists every process with its parent, at one moment.
ListProcesses ==
    /\ op.step = "listing"
    /\ op' = [op EXCEPT !.step = "facts", !.chain = <<>>,
                        !.parents = [pid \in DOMAIN table |-> table[pid].parent],
                        !.births = Births,
                        !.truth = IF Lives(op.root) THEN SubtreeOf(op.root.pid) ELSE {}]
    /\ UNCHANGED <<kernel, disk, changes, stored, memory, promised>>

\* The listed children of the tree's members that have not been verified yet.
Unverified ==
    {pid \in DOMAIN op.parents :
        /\ op.parents[pid] \in {op.tree[i].pid : i \in DOMAIN op.tree}
        /\ pid \notin {op.tree[i].pid : i \in DOMAIN op.tree}}

\* Mutant: that the pid is in use is enough.
StillInUse(pid, parent) == Alive(pid)

\* A listed child is taken for one when its facts still say so.
StillChild(pid, parent) ==
    /\ Alive(pid) /\ table[pid].parent = parent.pid
    /\ table[pid].start >= parent.start

\* verified_tree, one process at a time, breadth first and by pid: each must
\* still be the child it was listed as, and not be older than its parent.
VerifyTree ==
    LET Place(pid) == PositionOf(op.parents[pid], [i \in DOMAIN op.tree |-> op.tree[i].pid])
        next == CHOOSE pid \in Unverified : \A other \in Unverified :
                    \/ Place(pid) < Place(other)
                    \/ Place(pid) = Place(other) /\ pid <= other
    IN  /\ op.step = "facts"
        /\ IF op.tree = <<>>
           THEN IF Lives(op.root) THEN op' = [op EXCEPT !.tree = <<FactOf(op.root.pid)>>] ELSE Fail
           ELSE IF Unverified = {}
           THEN IF Lives(op.root) THEN op' = [op EXCEPT !.step = "signal", !.parents = <<>>] ELSE Fail
           ELSE IF StillChild(next, op.tree[Place(next)])
           THEN op' = [op EXCEPT !.tree = Append(@, FactOf(next))]
           ELSE Fail
        /\ UNCHANGED <<kernel, disk, changes, stored, memory, promised>>

\* terminate_verified: SIGTERM to the root, if it is still the same process.
SignalRoot ==
    /\ op.step = "signal"
    /\ IF Lives(op.root)
       THEN op' = [op EXCEPT !.step = IF op.session THEN "supervisor" ELSE "wait",
                             !.signal = op.root]
       ELSE Fail
    /\ UNCHANGED <<kernel, disk, changes, stored, memory, promised>>

\* stop_verified_supervisor waits for the supervisor alone first.
AwaitSupervisor ==
    /\ op.step = "supervisor"
    /\ IF Lives(op.root) THEN Fail ELSE Goto("wait")
    /\ UNCHANGED <<kernel, disk, changes, stored, memory, promised>>

\* Mutant: the root alone is waited for.
RootEnded == ~Lives(op.root)

Ended == \A i \in DOMAIN op.tree : ~Lives(AsIdentity(op.tree[i]))

\* The stop reports success; a session record goes with its supervisor.
ReportStopped ==
    /\ op' = Idle
    /\ promised' = promised \cup op.truth
    /\ sessions' = IF op.session THEN {s \in sessions : s.identity # op.root} ELSE sessions
    /\ UNCHANGED <<kernel, disk, changes, repository, order, chosen, owners, links, memory>>

\* wait_for_process_tree: the whole tree has ended, or six seconds are over.
AwaitTree ==
    /\ op.step = "wait"
    /\ IF Ended THEN ReportStopped
       ELSE /\ op' = [op EXCEPT !.step = "sweep", !.at = Len(op.tree), !.signal = NoIdentity]
            /\ UNCHANGED <<kernel, disk, changes, stored, memory, promised>>

\* What is left of the tree is asked to end one by one, the youngest first.
SweepTree ==
    LET identity == AsIdentity(op.tree[op.at])
    IN  /\ op.step = "sweep"
        /\ op' = [op EXCEPT !.at = @ - 1, !.step = IF op.at = 1 THEN "last" ELSE "sweep",
                            !.signal = IF Lives(identity) THEN identity ELSE NoIdentity]
        /\ UNCHANGED <<kernel, disk, changes, stored, memory, promised>>

AwaitRest ==
    /\ op.step = "last"
    /\ IF Ended THEN ReportStopped
       ELSE Fail /\ UNCHANGED <<kernel, disk, changes, stored, memory, promised>>

StopNext ==
    \/ \E process \in displayed, worktree \in Range(worktree_paths) : BeginStop(process, worktree)
    \/ PlanStop \/ FollowAncestry \/ ChooseRoot \/ ReadTargets \/ ValidateSession
    \/ ListProcesses \/ VerifyTree
    \/ SignalRoot \/ AwaitSupervisor \/ AwaitTree \/ SweepTree \/ AwaitRest

StatusNext == BeginStatus \/ ReadListeners \/ ReadDirectories \/ ShowStatus

-----------------------------------------------------------------------------
(* What the user and the disk do without the mutex. *)

\* git moves a worktree or switches its branch; its folder goes and comes back.
ChangeWorktree(i, worktree) ==
    /\ changes' = changes + 1
    /\ worktree # disk[i]
    /\ \A j \in DOMAIN disk \ {i} : disk[j].path # worktree.path
    /\ disk' = [disk EXCEPT ![i] = worktree]
    /\ UNCHANGED <<kernel, stored, memory, op, promised>>

\* Every registration has an id of its own.
Register(path) == [id |-> repository.id + 1, path |-> path]

\* add_repository: the worktree git finds at the path is registered.
AddRepository(path) ==
    /\ repository.path = NoPlace
    /\ \E w \in Range(disk) : w.path = path /\ Available(w)
    /\ repository' = Register(path)
    /\ UNCHANGED <<kernel, disk, changes, order, chosen, sessions, owners, links, memory, op,
                   promised>>

\* set_worktree_order: the folders as the user arranged them.
SetWorktreeOrder(paths) ==
    LET expanded == ExpandOrder(paths, Inspected)
        Index(path) == CHOOSE i \in DOMAIN disk : disk[i].path = path
    IN  /\ expanded # <<>> /\ order' = expanded
        /\ chosen' = [k \in DOMAIN paths |->
                         [index |-> Index(paths[k]), path |-> paths[k],
                          head |-> disk[Index(paths[k])].head]]
        /\ UNCHANGED <<kernel, disk, changes, repository, sessions, owners, links, memory, op,
                       promised>>

VerifiedWorktree(path) == path \in Range(AvailablePaths(Inspected))

WithoutLink(identity) == {l \in links : l.identity # identity}

\* A process has one link.
WithLink(identity, path) ==
    WithoutLink(identity) \cup {[identity |-> identity, path |-> path]}

\* link_process: an observed process and an available worktree.
LinkProcess(identity, path) ==
    /\ Lives(identity) /\ table[identity.pid].serves /\ VerifiedWorktree(path)
    /\ links' = WithLink(identity, path)
    /\ UNCHANGED <<kernel, disk, changes, repository, order, chosen, sessions, owners, memory, op, promised>>

UnlinkProcess(identity) ==
    /\ \E l \in links : l.identity = identity
    /\ links' = WithoutLink(identity)
    /\ UNCHANGED <<kernel, disk, changes, repository, order, chosen, sessions, owners, memory, op, promised>>

\* advance_navigation: the next or the previous worktree from the current one.
Advance(current, forward) ==
    /\ navigation' = AdvanceNavigation(worktree_paths, current, recent_paths,
                                       navigation, forward, RecentLimit)
    /\ UNCHANGED <<kernel, disk, changes, stored, displayed, shown, worktree_paths,
                   recent_paths, op, promised>>

\* commit_navigation, and record_selection of a worktree the user clicked.
Select(path) ==
    /\ recent_paths' = RecordRecent(path, recent_paths, RecentLimit)
    /\ navigation' = NoNavigation
    /\ UNCHANGED <<kernel, disk, changes, stored, displayed, shown, worktree_paths, op, promised>>

CommitNavigation == navigation # NoNavigation /\ Select(SelectedPath(navigation))
RecordSelection(path) == path \in Range(worktree_paths) /\ Select(path)

CancelNavigation ==
    /\ navigation # NoNavigation /\ navigation' = NoNavigation
    /\ UNCHANGED <<kernel, disk, changes, stored, displayed, shown, worktree_paths,
                   recent_paths, op, promised>>

LinkNext ==
    \/ \E pid \in DOMAIN table, path \in Places : LinkProcess(IdentityOf(pid), path)
    \/ \E l \in links : UnlinkProcess(l.identity)

ChangeNext ==
    changes < MaxChanges /\
    \E i \in DOMAIN disk, path \in Places, head \in Heads, state \in {"present", "missing"} :
        ChangeWorktree(i, [path |-> path, head |-> head, state |-> state])

ArrangeNext ==
    \/ \E paths \in {[i \in DOMAIN shown |-> shown[p[i]]] : p \in Bijection(DOMAIN shown, DOMAIN shown)} :
           SetWorktreeOrder(paths)
    \/ \E current \in Places \cup {NoPlace}, forward \in BOOLEAN : Advance(current, forward)
    \/ \E path \in Places : RecordSelection(path)
    \/ CommitNavigation \/ CancelNavigation

\* Any processes, runs and worktrees are there when the application is started;
\* it has been told of nothing and remembers nothing.
ViewInit ==
    LET Processes == {[pid |-> born[s].pid, start |-> s] : s \in 1..Births}
    IN  /\ LineageSound /\ TableSound /\ moves = 0
        /\ disk \in Seq([path : Places, head : Heads, state : {"present", "missing"}])
        /\ \A i, j \in DOMAIN disk : i # j => disk[i].path # disk[j].path
        /\ changes = 0
        /\ repository \in [id : Nat, path : Places \cup {NoPlace}]
        /\ \A records \in {sessions, owners, links} :
              records \subseteq [identity : Processes, path : Places]
        /\ order = <<>> /\ chosen = <<>>
        /\ displayed = {} /\ shown = <<>> /\ worktree_paths = <<>>
        /\ recent_paths = <<>> /\ navigation = NoNavigation
        /\ op = Idle /\ promised = {}

ViewNext ==
    \/ KernelNext /\ UNCHANGED <<disk, changes, stored, memory, op, promised>>
    \/ StopNext \/ StatusNext \/ ChangeNext \/ ArrangeNext \/ LinkNext
    \/ \E path \in Places : AddRepository(path)

-----------------------------------------------------------------------------
(* Properties. *)

\* What StopConfined rests on: while the tree is verified no two pids of the
\* listing are handed out anew.  A child born under one of them below a parent
\* born under another could not be told from the child that was listed.
OneHandover ==
    op.step = "facts" =>
        \A s, t \in op.births + 1..Births :
            {born[s].pid, born[t].pid} \subseteq DOMAIN op.parents => s = t

\* A signal goes to the process the user pointed at, to the session or the
\* database owner of that worktree it was born below, or to a process born
\* below that one, even if pids change hands between the looks; and only if,
\* while the operation looked, that process itself listened and was in the
\* worktree (plan_termination, verified_ancestry, verified_tree).
StopConfined ==
    op.signal # NoIdentity =>
        /\ BornBelow(op.signal, op.root)
        /\ BornBelow(op.target.identity, op.root)
        /\ op.target.identity \in op.witness
        /\ \/ op.root = op.target.identity
           \/ [identity |-> op.root, path |-> op.worktree] \in sessions \cup owners

\* A stop that listed processes and reports success has ended every one that was
\* below the root when they were listed: none was missed between the listing and
\* the reading of the facts, and none survived the wait (wait_for_process_tree).
\* One that finds the supervisor of the session ended before it lists anything
\* reports success too; it promises no more than that the supervisor has ended.
StopComplete == \A identity \in promised : ~Lives(identity)

\* The navigation and the recent worktrees never offer a worktree the last
\* snapshot did not show as available, nor one twice, in whatever order status,
\* navigation and clicks come.
NavigationSound ==
    /\ Range(recent_paths) \subseteq Range(worktree_paths)
    /\ IsInjective(recent_paths)
    /\ Len(recent_paths) <= RecentLimit
    /\ navigation # NoNavigation =>
          /\ navigation.selected \in DOMAIN navigation.paths
          /\ SelectedPath(navigation) \in Range(worktree_paths)
          /\ IsInjective(navigation.paths)

\* The order of the user outlasts a worktree that moves or switches its branch,
\* while the repository can be inspected: two that each are recognised stay in
\* the order chosen, whatever the other worktrees do.  A worktree is recognised
\* by its folder, or, in a folder that was not arranged, by its head if no
\* worktree arranged before it had the same one: of several detached at one
\* commit, any that moves takes the place of the first.
OrderKept ==
    LET Recognised(k) ==
            \/ disk[chosen[k].index].path = chosen[k].path
            \/ /\ disk[chosen[k].index].head = chosen[k].head
               /\ \A l \in DOMAIN chosen : disk[chosen[k].index].path # chosen[l].path
               /\ \A l \in 1..k - 1 : chosen[l].head # chosen[k].head
        roots == Roots
        At(k) == PositionOf(disk[chosen[k].index].path, roots)
    IN  Inspected # <<>> =>
        \A a, b \in DOMAIN chosen :
            a < b /\ Recognised(a) /\ Recognised(b) => At(a) < At(b)
=============================================================================
