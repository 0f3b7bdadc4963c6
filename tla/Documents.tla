----------------------------- MODULE Documents -----------------------------
(***************************************************************************)
(* The two JSON documents of the application data directory that several  *)
(* processes change (runtime-atlas-core/src/storage.rs): the configuration *)
(* and the database bindings, each with the operations on it.  The order   *)
(* of lists, names, labels and times are left out.                         *)
(***************************************************************************)
EXTENDS Integers

CONSTANTS
    Repos,       \* repository ids; a path registered again gets a new one
    Paths,       \* paths of repositories
    Actions,     \* ids of custom actions
    Owners,      \* process identities (a pid with its start time)
    Worktrees,
    Containers,  \* names of database containers
    None,
    Unusable     \* a document that only a newer version can read

Names == {"configuration", "bindings"}

Schema == 5

NoConfiguration ==
    [schema |-> Schema, lang |-> None, repos |-> {}, actions |-> {}, order |-> {}, links |-> {}]

NoBindings == [schema |-> 1, records |-> {}]

Empty(name) == IF name = "configuration" THEN NoConfiguration ELSE NoBindings

\* A configuration of an early version, which had neither actions nor links.
OldConfiguration(i, p) ==
    [NoConfiguration EXCEPT !.schema = 2, !.repos = {[id |-> i, path |-> p]}]

(***************************************************************************)
(* Operations.  kind names the method of the store.                        *)
(***************************************************************************)
ConfigurationOps ==
         [kind : {"add_repository"}, id : Repos, path : Paths]
    \cup [kind : {"remove_repository", "set_worktree_order"}, id : Repos]
    \cup [kind : {"set_app_language"}, lang : {"ko", "en"}]
    \cup [kind : {"save_custom_action"}, action : Actions, id : Repos]
    \cup [kind : {"remove_custom_action"}, action : Actions]
    \cup [kind : {"link_process"}, process : Owners, worktree : Worktrees]
    \cup [kind : {"unlink_process"}, process : Owners]

BindingOps ==
         [kind : {"link"}, worktree : Worktrees, owner : Owners, container : Containers]
    \cup [kind : {"unlink"}, worktree : Worktrees, owner : Owners]

(***************************************************************************)
(* Documents that this version reads and writes.                           *)
(***************************************************************************)
Configurations ==
    [schema : 2..Schema, lang : {"ko", "en", None}, repos : SUBSET [id : Repos, path : Paths],
     actions : SUBSET [id : Actions, repo : Repos], order : SUBSET Repos,
     links : SUBSET [process : Owners, worktree : Worktrees]]

Bindings ==
    [schema : {1},
     records : SUBSET [worktree : Worktrees, owner : Owners \cup {None}, container : Containers]]

ASSUME DocumentsAssumption ==
    /\ None \notin ConfigurationOps \cup BindingOps \cup Owners
    /\ Unusable \notin Configurations \cup Bindings

Target(op) == IF op \in BindingOps THEN "bindings" ELSE "configuration"

Registered(doc, i) == \E r \in doc.repos : r.id = i

\* ensure_repository, and the version check of either document.
Permits(op, doc) ==
    /\ doc # Unusable
    /\ op.kind \in {"set_worktree_order", "save_custom_action"} => Registered(doc, op.id)

AtLeast(doc, schema) == [doc EXCEPT !.schema = IF @ < schema THEN schema ELSE @]

AddRepository(doc, i, p) ==
    IF \E r \in doc.repos : r.path = p THEN doc
    ELSE [doc EXCEPT !.repos = @ \cup {[id |-> i, path |-> p]}]

RemoveRepository(doc, i) ==
    [doc EXCEPT !.repos   = {r \in @ : r.id # i},
                !.actions = {a \in @ : a.repo # i},
                !.order   = @ \ {i}]

SaveAction(doc, a, i) ==
    [AtLeast(doc, 4) EXCEPT !.actions = {x \in @ : x.id # a} \cup {[id |-> a, repo |-> i]}]

LinkProcess(doc, x, w) ==
    [AtLeast(doc, 5) EXCEPT !.links = {l \in @ : l.process # x} \cup {[process |-> x, worktree |-> w]}]

UnlinkProcess(doc, x) == [AtLeast(doc, 5) EXCEPT !.links = {l \in @ : l.process # x}]

\* Mutant: a registration replaces all the registrations of its worktree.
LinkAlone(doc, new, kept) ==
    [doc EXCEPT !.records = {r \in @ : r.worktree # new.worktree} \cup {new}]

\* Other owners of the worktree stay while they are retained: kept.
Link(doc, new, kept) ==
    [doc EXCEPT !.records =
        {r \in @ : r.worktree # new.worktree \/ (r.owner # new.owner /\ r.owner \in kept)}
            \cup {new}]

Unlink(doc, w, o) ==
    [doc EXCEPT !.records =
        {IF r.worktree = w /\ r.owner = o THEN [r EXCEPT !.owner = None] ELSE r : r \in @}]

Record(op) == [worktree |-> op.worktree, owner |-> op.owner, container |-> op.container]

\* What an operation makes of a document; kept: the owners that have not
\* verifiably exited.
Apply(op, doc, kept) ==
    CASE op.kind = "add_repository"       -> AddRepository(doc, op.id, op.path)
      [] op.kind = "remove_repository"    -> RemoveRepository(doc, op.id)
      [] op.kind = "set_worktree_order"   -> [AtLeast(doc, 3) EXCEPT !.order = @ \cup {op.id}]
      [] op.kind = "set_app_language"     -> [doc EXCEPT !.lang = op.lang]
      [] op.kind = "save_custom_action"   -> SaveAction(doc, op.action, op.id)
      [] op.kind = "remove_custom_action" -> [doc EXCEPT !.actions = {a \in @ : a.id # op.action}]
      [] op.kind = "link_process"         -> LinkProcess(doc, op.process, op.worktree)
      [] op.kind = "unlink_process"       -> UnlinkProcess(doc, op.process)
      [] op.kind = "link"                 -> Link(doc, Record(op), kept)
      [] op.kind = "unlink"               -> Unlink(doc, op.worktree, op.owner)

=============================================================================
