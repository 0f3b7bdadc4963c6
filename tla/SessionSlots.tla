---------------------------- MODULE SessionSlots ----------------------------
(***************************************************************************)
(* What the session protocol promises, without files, locks or processes:  *)
(* every key has one slot.  A session must hold the slot of its key before *)
(* it may run, and the slot is given away only when it no longer can.      *)
(***************************************************************************)
CONSTANTS Ids, Keys, None

VARIABLES
    key,       \* the key of a session, None before it is drawn
    reserved,  \* the sessions that hold the slot of their key
    eligible   \* the sessions that run or may come to

Draw(i, k) ==
    /\ key[i] = None
    /\ key' = [key EXCEPT ![i] = k]
    /\ UNCHANGED <<reserved, eligible>>

\* A session that was drawn takes the slot of its key, if it is free.
Reserve(i) ==
    /\ key[i] # None
    /\ \A j \in reserved : key[j] # key[i]
    /\ reserved' = reserved \cup {i}
    /\ UNCHANGED <<key, eligible>>

\* A session may start only in its slot.
Start(i) ==
    /\ i \in reserved
    /\ eligible' = eligible \cup {i}
    /\ UNCHANGED <<key, reserved>>

\* It ends, or is cancelled before it ran.
End(i) ==
    /\ eligible' = eligible \ {i}
    /\ UNCHANGED <<key, reserved>>

Release(i) ==
    /\ i \notin eligible
    /\ reserved' = reserved \ {i}
    /\ UNCHANGED <<key, eligible>>

Init == key = [i \in Ids |-> None] /\ reserved = {} /\ eligible = {}

Next == \E i \in Ids :
    \/ \E k \in Keys : Draw(i, k)
    \/ Reserve(i) \/ Start(i) \/ End(i) \/ Release(i)

Spec == Init /\ [][Next]_<<key, reserved, eligible>>

\* One session at a time runs for a key.
OneRunPerKey ==
    \A i, j \in eligible : key[i] = key[j] => i = j

=============================================================================
