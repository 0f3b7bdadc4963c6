----------------------------- MODULE Worktrees ------------------------------
(***************************************************************************)
(* The worktrees of a repository as Runtime Atlas lists them (git.rs,      *)
(* repository.rs), the order the user gives them, and the navigation among *)
(* them, most recent first (models.rs).                                    *)
(*                                                                         *)
(* disk is what git and the file system would answer: the worktrees in the *)
(* order of git, each with its folder, its head (the branch, or the commit *)
(* it is detached at), and whether git can inspect it.                     *)
(***************************************************************************)
EXTENDS Naturals, Sequences, FiniteSets, Functions

\* The elements of a sequence at some of its indices: the k-th is the one whose
\* index comes k-th, where upto tells of each index which do not come after it.
\* (Without recursion, which could not be reasoned about.)
Arrange(seq, upto) ==
    [k \in 1..Cardinality(DOMAIN upto) |->
        seq[CHOOSE i \in DOMAIN upto : Cardinality(upto[i]) = k]]

\* Vec::retain: the elements that are in a set, in their order.
Retain(seq, set) ==
    LET places == {i \in DOMAIN seq : seq[i] \in set}
    IN  Arrange(seq, [i \in places |-> {j \in places : j <= i}])

\* Iterator::position: where an element comes first in a sequence, or 0.
PositionOf(element, seq) ==
    IF element \in Range(seq)
    THEN CHOOSE i \in DOMAIN seq : seq[i] = element /\ \A j \in 1..i - 1 : seq[j] # element
    ELSE 0

\* record_recent_worktree: the path first, then the others in their order; the
\* code keeps 20.
RecordRecent(path, recents, limit) ==
    LET all == <<path>> \o Retain(recents, Range(recents) \ {path})
    IN  SubSeq(all, 1, IF Len(all) < limit THEN Len(all) ELSE limit)

\* Mutant: worktrees that are gone are kept.
ReconcileAppending(recents, available, limit) ==
    LET all == recents \o Retain(available, Range(available) \ Range(recents))
    IN  SubSeq(all, 1, IF Len(all) < limit THEN Len(all) ELSE limit)

\* reconcile_recent_worktrees: what is still there in its order, then the rest.
ReconcileRecent(recents, available, limit) ==
    LET kept == Retain(recents, Range(available))
        all == kept \o Retain(available, Range(available) \ Range(recents))
    IN  SubSeq(all, 1, IF Len(all) < limit THEN Len(all) ELSE limit)

NoNavigation == [paths |-> <<>>, selected |-> 0]

\* selected_path, for a navigation that is under way.
SelectedPath(navigation) == navigation.paths[navigation.selected]

\* advance_worktree_navigation: one step through the paths the navigation began
\* with that are still there, or a new navigation from the current worktree.
AdvanceNavigation(available, current, recents, navigation, forward, limit) ==
    LET kept == Retain(navigation.paths, Range(available))
        reconciled == ReconcileRecent(recents, available, limit)
        started == IF navigation # NoNavigation THEN kept
                   ELSE IF current \in Range(reconciled)
                   THEN RecordRecent(current, reconciled, limit) ELSE reconciled
        from == IF navigation # NoNavigation
                THEN LET at == PositionOf(SelectedPath(navigation), kept)
                     IN  IF at = 0 THEN 1 ELSE at
                ELSE IF current \in Range(reconciled) \/ ~forward THEN 1 ELSE Len(reconciled)
        length == Len(started)
    IN  IF Cardinality(Range(available)) < 2 \/ (navigation # NoNavigation /\ length < 2)
        THEN NoNavigation
        ELSE [paths |-> started,
              selected |-> IF forward THEN (from % length) + 1
                           ELSE ((from + length - 2) % length) + 1]

-----------------------------------------------------------------------------
(* The repository and its order. *)

\* A key of a stored order: the folder of a worktree, or its branch or commit.
FolderKey(worktree) == <<"folder", worktree.path>>
HeadKey(worktree) == <<"head", worktree.head>>

\* expand_worktree_order: the folders the user arranged, each followed by its
\* head; nothing if they are not the worktrees of the repository, each once.
ExpandOrder(paths, worktrees) ==
    LET Named(path) == CHOOSE w \in Range(worktrees) : w.path = path
    IN  IF /\ Len(paths) = Len(worktrees) /\ IsInjective(paths)
           /\ Range(paths) \subseteq {w.path : w \in Range(worktrees)}
        THEN [n \in 1..2 * Len(paths) |->
                 IF n % 2 = 1 THEN FolderKey(Named(paths[(n + 1) \div 2]))
                 ELSE HeadKey(Named(paths[n \div 2]))]
        ELSE <<>>

\* Mutant: a worktree is found by its folder alone.
RankByFolder(worktree, order) ==
    LET byFolder == PositionOf(FolderKey(worktree), order)
    IN  IF byFolder # 0 THEN byFolder ELSE Len(order) + 1

\* The place of a worktree in a stored order: by its folder, else by its head,
\* else behind all others.
Rank(worktree, order) ==
    LET byFolder == PositionOf(FolderKey(worktree), order)
        byHead == PositionOf(HeadKey(worktree), order)
    IN  IF byFolder # 0 THEN byFolder ELSE IF byHead # 0 THEN byHead ELSE Len(order) + 1

\* sort_worktrees is stable: worktrees of one rank stay in the order of git.
SortWorktrees(worktrees, order) ==
    LET RankAt(i) == Rank(worktrees[i], order)
    IN  Arrange(worktrees,
            [i \in DOMAIN worktrees |->
                {j \in DOMAIN worktrees :
                    RankAt(j) < RankAt(i) \/ (RankAt(j) = RankAt(i) /\ j <= i)}])

\* inspect_parsed_worktree: git does not call it prunable, the folder exists and
\* git status succeeds in it.
Available(worktree) == worktree.state = "present"

\* inspect_repository: every worktree git lists, in the order of the user; none
\* if git finds no worktree at the registered path.
InspectRepository(registered, worktrees, order) ==
    IF \E w \in Range(worktrees) : w.path = registered /\ Available(w)
    THEN SortWorktrees(worktrees, order)
    ELSE <<>>

PathsOf(worktrees) == [i \in DOMAIN worktrees |-> worktrees[i].path]

AvailablePaths(worktrees) ==
    PathsOf(Retain(worktrees, {w \in Range(worktrees) : Available(w)}))
=============================================================================
