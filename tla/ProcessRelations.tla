-------------------------- MODULE ProcessRelations --------------------------
(***************************************************************************)
(* How Runtime Atlas relates a listening process to a worktree, and when   *)
(* it takes a displayed process for one it may stop (relations.rs and      *)
(* service.rs).  Paths are normalised: sequences of folder names, so the   *)
(* spellings of a path and the letter case of Windows are left out.  The   *)
(* name of a process is compared as its directory is and is left out.      *)
(***************************************************************************)
EXTENDS Naturals, Sequences, FiniteSets

NoPlace == <<"unknown">>     \* a directory lsof did not tell

\* is_same_or_descendant: an unknown path lies below nothing.
Below(path, root) ==
    path # NoPlace /\ Len(root) <= Len(path) /\ SubSeq(path, 1, Len(root)) = root

\* An observed process: its identity, its directory; it has a port, or lsof
\* would not have listed it.
Observed(identity, place) == [identity |-> identity, place |-> place]

\* resolve_exact_worktree: a path registered twice stands for no worktree.
ResolveExact(path, roots) ==
    IF Cardinality({i \in DOMAIN roots : roots[i] = path}) = 1 THEN {path} ELSE {}

\* most_specific_worktree: the innermost registered folder around a directory.
MostSpecific(place, roots) ==
    LET around == {i \in DOMAIN roots : Below(place, roots[i])}
        inner == {i \in around : \A j \in around : Len(roots[j]) <= Len(roots[i])}
    IN  IF Cardinality(inner) = 1 THEN {roots[i] : i \in inner} ELSE {}

Linked(kind, path) == [kind |-> kind, path |-> path]
Unlinked == Linked("Unlinked", NoPlace)

\* relate_process: a session, then a link of the user, then the directory; two
\* answers of one kind are none.
RelateProcess(process, roots, sessions, links) ==
    LET Of(records) == {r \in records : /\ r.identity = process.identity
                                        /\ ResolveExact(r.path, roots) # {}}
        managed == Of(sessions)
        explicit == Of(links)
        around == MostSpecific(process.place, roots)
        One(records) == (CHOOSE r \in records : TRUE).path
    IN  CASE Cardinality(managed) = 1 -> Linked("ManagedSession", One(managed))
          [] managed = {} /\ Cardinality(explicit) = 1 -> Linked("UserLinked", One(explicit))
          [] managed = {} /\ explicit = {} /\ around # {} ->
                Linked("ObservedCwd", CHOOSE path \in around : TRUE)
          [] OTHER -> Unlinked

\* build_process_relations and add_external_action_runs: the worktrees in which
\* some listening process makes an action that looks for one count as running.
ListenedWorktrees(processes, roots, sessions, links) ==
    {RelateProcess(p, roots, sessions, links).path : p \in processes} \ {NoPlace}

\* plan_termination: the process displayed is the one observed again, still
\* in the same directory of that worktree; it listens, or it was not observed.
MayTerminate(displayed, worktree, current) ==
    /\ Below(displayed.place, worktree)
    /\ current.identity = displayed.identity
    /\ current.place = displayed.place
=============================================================================
