------------------------------ MODULE EditedList ------------------------------
(***************************************************************************)
(* What a Slack-managed list promises: each edit happens at once, and      *)
(* leaves a list with no two keys that differ only in case, of at most     *)
(* MAX_LIST_ITEMS items.                                                   *)
(***************************************************************************)
EXTENDS Naturals, FiniteSets

CONSTANTS Keys,        \* keys somebody may type
          SameKey,     \* sets of keys that differ only in case
          MaxItems     \* MAX_LIST_ITEMS

VARIABLE list          \* the keys in the list; their order and fields are left out

Alike(k, l) == k = l \/ \E s \in SameKey : {k, l} \subseteq s

Legal(items) ==
    /\ Cardinality(items) <= MaxItems
    /\ \A k, l \in items : Alike(k, l) => k = l

Add(k) ==
    /\ \A l \in list : ~Alike(k, l)
    /\ Cardinality(list) < MaxItems
    /\ list' = list \cup {k}

Delete(k) ==
    /\ \E l \in list : Alike(k, l)
    /\ list' = {l \in list : ~Alike(k, l)}

Next == \E k \in Keys : Add(k) \/ Delete(k)
===============================================================================
