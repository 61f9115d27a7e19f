------------------------------ MODULE EntrySet ------------------------------
(***************************************************************************)
(* What avltree.c promises: a set of entries, several of which may have    *)
(* the same key.                                                           *)
(***************************************************************************)
CONSTANTS Key, Data

VARIABLE entries

EntrySetInit == entries = {}

Insert(k, d) == entries' = entries \cup {[key |-> k, data |-> d]}

\* One entry with the key goes, if there is one.
Delete(k) ==
    \/ \E e \in entries : e.key = k /\ entries' = entries \ {e}
    \/ (\A e \in entries : e.key # k) /\ entries' = entries

EntrySetNext ==
    \E k \in Key : Delete(k) \/ \E d \in Data : Insert(k, d)

EntrySetSpec == EntrySetInit /\ [][EntrySetNext]_entries

==============================================================================
