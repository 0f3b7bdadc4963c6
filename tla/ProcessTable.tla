---------------------------- MODULE ProcessTable ----------------------------
(***************************************************************************)
(* The process table of macOS as Runtime Atlas reads it (observe.rs), with *)
(* the processes that come, go and change while it reads.  The kernel is   *)
(* external: what is modelled of it is what the code in src/ relies on.    *)
(*                                                                         *)
(*   - a pid belongs to one process at a time and is handed out again      *)
(*     after that process has ended, but never within one look of the code *)
(*     (one call of proc_pidinfo, or the last identity check and the kill  *)
(*     that follows it);                                                   *)
(*   - a start time is given once: the n-th process starts at time n;      *)
(*   - the children of a process that ends become children of launchd.     *)
(***************************************************************************)
EXTENDS Naturals, FiniteSets, Sequences, Functions

CONSTANTS
    Pids,        \* the process numbers other than launchd's (0 here)
    Places,      \* the directories, as sequences of folder names
    MaxBirths,   \* bound: how many processes there ever are
    MaxReuse,    \* bound: how many of them are born under a used pid
    MaxMoves     \* bound: how often a process changes directory or ports

ASSUME ProcessAssumption ==
    /\ Pids \subseteq Nat \ {0} /\ IsFiniteSet(Pids)
    /\ {MaxBirths, MaxReuse, MaxMoves} \subseteq Nat

VARIABLES
    table,   \* the processes that live: pid -> start, parent, place, serves
    born,    \* history: for every start time the pid and the ancestors' starts
    moves    \* how often a process changed its directory or its ports

kernel == <<table, born, moves>>

Launchd == 0
Births == Len(born)
Reused == Births - Cardinality({born[s].pid : s \in 1..Births})

Process(start, parent, place, serves) ==
    [start |-> start, parent |-> parent, place |-> place, serves |-> serves]

Alive(pid) == pid \in DOMAIN table
IdentityOf(pid) == [pid |-> pid, start |-> table[pid].start]

\* process_identity(pid) == Ok(identity): the process itself still lives.
Lives(identity) == Alive(identity.pid) /\ IdentityOf(identity.pid) = identity

\* What one call of proc_pidinfo tells of a living process.
FactOf(pid) ==
    [pid |-> pid, start |-> table[pid].start, parent |-> table[pid].parent]

AsIdentity(fact) == [pid |-> fact.pid, start |-> fact.start]

Lineage(start) == born[start].ancestors \cup {start}

\* A process was born below another one, at whatever remove, or is that one.
BornBelow(identity, root) == root.start \in Lineage(identity.start)

\* The living descendants of a process as the table links them, itself included:
\* those in every set that has the process and with it the children of its members.
SubtreeOf(root) ==
    LET Closed(pids) == \A pid \in DOMAIN table : table[pid].parent \in pids => pid \in pids
    IN  {IdentityOf(pid) : pid \in {pid \in DOMAIN table :
            \A pids \in SUBSET DOMAIN table : root \in pids /\ Closed(pids) => pid \in pids}}

-----------------------------------------------------------------------------
(* The processes. *)

\* What holds of the processes at any time, and so when the code begins to look:
\* every process was born once, the last one under its pid, below its parent.
LineageSound ==
    /\ born \in Seq([pid : Pids, ancestors : SUBSET Nat])
    /\ \A s \in 1..Births :
          /\ born[s].ancestors \subseteq 1..s - 1
          /\ \A a \in born[s].ancestors : born[a].ancestors \subseteq born[s].ancestors

TableSound ==
    /\ DOMAIN table \subseteq Pids
    /\ table \in [DOMAIN table -> [start : 1..Births, parent : DOMAIN table \cup {Launchd},
                                   place : Places, serves : BOOLEAN]]
    /\ \A pid \in DOMAIN table :
          /\ born[table[pid].start].pid = pid
          /\ \A s \in table[pid].start + 1..Births : born[s].pid # pid
          /\ table[pid].parent # Launchd =>
                table[table[pid].parent].start \in born[table[pid].start].ancestors

\* A process is forked under a free pid, in the directory of its parent.
Spawn(parent, pid, place) ==
    /\ Births < MaxBirths /\ ~Alive(pid)
    /\ parent # Launchd => Alive(parent) /\ place = table[parent].place
    /\ table' = [p \in DOMAIN table \cup {pid} |->
                    IF p = pid THEN Process(Births + 1, parent, place, FALSE) ELSE table[p]]
    /\ born' = Append(born, [pid |-> pid,
                             ancestors |-> IF parent = Launchd THEN {}
                                           ELSE Lineage(table[parent].start)])
    /\ Reused' <= MaxReuse
    /\ UNCHANGED moves

\* A process ends, because it was asked to or for any other reason.
Exit(pid) ==
    /\ Alive(pid)
    /\ table' = [p \in DOMAIN table \ {pid} |->
                    IF table[p].parent = pid THEN [table[p] EXCEPT !.parent = Launchd]
                                             ELSE table[p]]
    /\ UNCHANGED <<born, moves>>

\* A process opens or closes its port, or goes to another directory, which
\* nobody looks at while it has no port.
Move(pid, place, serves) ==
    /\ Alive(pid) /\ moves < MaxMoves
    /\ \/ place # table[pid].place /\ serves /\ table[pid].serves
       \/ place = table[pid].place /\ serves # table[pid].serves
    /\ table' = [table EXCEPT ![pid].place = place, ![pid].serves = serves]
    /\ moves' = moves + 1
    /\ UNCHANGED born

KernelNext ==
    \/ \E parent \in Pids \cup {Launchd}, pid \in Pids, place \in Places : Spawn(parent, pid, place)
    \/ \E pid \in Pids : Exit(pid)
    \/ \E pid \in Pids, place \in Places, serves \in BOOLEAN : Move(pid, place, serves)
=============================================================================
