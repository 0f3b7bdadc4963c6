------------------------------ MODULE Registry ------------------------------
(***************************************************************************)
(* What the document stores promise their callers: every call takes effect *)
(* at one instant, on the document as it then is, or not at all; a call    *)
(* that reports success has taken effect; nobody sees a document half      *)
(* written; and what one call has stored no other call loses, crash or no  *)
(* crash.  There are two exceptions: a configuration that cannot be read   *)
(* is set aside, with a notice (SetAside), and on Windows a document may   *)
(* be lost (Lose).                                                         *)
(***************************************************************************)
EXTENDS Documents

CONSTANT Procs

VARIABLES
    windows,  \* whether the system is Windows
    alive,    \* owners that run
    value,    \* the documents
    pending,  \* per process, the call it is in, whether it has taken effect, and
              \* whether it has set the configuration aside
    answer    \* per process, the answer of its last call

vars == <<windows, alive, value, pending, answer>>

Idle == [op |-> None, done |-> FALSE, notice |-> FALSE]

Init ==
    /\ windows \in BOOLEAN
    /\ alive = {}
    /\ value = [n \in Names |-> Empty(n)]
          \/ \E i \in Repos, p \in Paths :
                value = [n \in Names |->
                            IF n = "configuration" THEN OldConfiguration(i, p) ELSE Empty(n)]
    /\ pending = [p \in Procs |-> Idle]
    /\ answer = [p \in Procs |-> None]

Call(p, op) ==
    /\ pending[p] = Idle
    /\ pending' = [pending EXCEPT ![p] = [Idle EXCEPT !.op = op]]
    /\ answer' = [answer EXCEPT ![p] = None]
    /\ UNCHANGED <<windows, alive, value>>

TakeEffect(p) ==
    /\ pending[p].op # None /\ ~pending[p].done
    /\ LET op == pending[p].op
           n  == Target(op)
       IN  /\ Permits(op, value[n])
           /\ \E kept \in SUBSET Owners :
                 alive \subseteq kept /\ value' = [value EXCEPT ![n] = Apply(op, @, kept)]
    /\ pending' = [pending EXCEPT ![p].done = TRUE]
    /\ UNCHANGED <<windows, alive, answer>>

Return(p) ==
    /\ pending[p].op # None
    /\ \E ok \in BOOLEAN :
          /\ ok => pending[p].done
          /\ answer' = [answer EXCEPT ![p] =
                           [ok |-> ok, doc |-> None, notice |-> ok /\ pending[p].notice]]
    /\ pending' = [pending EXCEPT ![p] = Idle]
    /\ UNCHANGED <<windows, alive, value>>

\* The answer is the document; or it is empty and says that the document could
\* not be read.
Load(p) ==
    /\ pending[p] = Idle
    /\ LET doc == value["configuration"]
       IN  answer' \in {[answer EXCEPT ![p] = [ok |-> doc # Unusable, doc |-> doc, notice |-> FALSE]],
                        [answer EXCEPT ![p] = [ok |-> TRUE, doc |-> Empty("configuration"),
                                               notice |-> TRUE]]}
    /\ UNCHANGED <<windows, alive, value, pending>>

Crash(p) ==
    /\ pending[p].op # None
    /\ pending' = [pending EXCEPT ![p] = Idle]
    /\ UNCHANGED <<windows, alive, value, answer>>

\* A configuration that could not be read is moved away, good or not, and the
\* call goes on with an empty one.
SetAside(p) ==
    /\ pending[p].op \in ConfigurationOps /\ ~pending[p].done
    /\ value' = [value EXCEPT !["configuration"] = Empty("configuration")]
    /\ pending' = [pending EXCEPT ![p].notice = TRUE]
    /\ UNCHANGED <<windows, alive, answer>>

\* ReplaceFileW has moved the document away, failed, and could not be undone.
Lose(p) ==
    /\ windows
    /\ pending[p].op # None /\ ~pending[p].done
    /\ value' = [value EXCEPT ![Target(pending[p].op)] = Empty(Target(pending[p].op))]
    /\ pending' \in {pending, [pending EXCEPT ![p] = Idle]}
    /\ UNCHANGED <<windows, alive, answer>>

\* Somebody else damages a document, or a newer version rewrites it.  The
\* content of a damaged configuration is given up, that of bindings is not.
Meddle(n) ==
    /\ value' \in {[value EXCEPT ![n] = Unusable],
                   [value EXCEPT !["configuration"] = Empty("configuration")]}
    /\ UNCHANGED <<windows, alive, pending, answer>>

Live == alive' # alive /\ UNCHANGED <<windows, value, pending, answer>>

Next ==
    \/ \E p \in Procs : \/ \E op \in ConfigurationOps \cup BindingOps : Call(p, op)
                        \/ TakeEffect(p) \/ Return(p) \/ Load(p) \/ Crash(p)
                        \/ SetAside(p) \/ Lose(p)
    \/ \E n \in Names : Meddle(n)
    \/ Live

Spec == Init /\ [][Next]_vars

=============================================================================
