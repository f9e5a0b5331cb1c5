---------------------------- MODULE SavedSessions -----------------------------
(***************************************************************************)
(* The saved sessions of one user.  A PUT counts the other sessions of the *)
(* user and inserts or updates its own, in one READ COMMITTED transaction  *)
(* that locks nothing before the insert: PUTs of different sessions do not *)
(* see one another until they commit.  A dropped request rolls back.       *)
(***************************************************************************)
EXTENDS Naturals, FiniteSets

CONSTANTS
    Puts,       \* PUTs of this user in the API at once
    Sessions,   \* session ids
    Cap         \* MAX_SAVED_SESSIONS_PER_USER

VARIABLES
    rows,       \* sessions of the user that are committed
    counted,    \* PUTs that have counted and not yet committed
    session     \* [Puts -> Sessions]: what each of them saves

vars == <<rows, counted, session>>

Init == rows = {} /\ counted = {} /\ session \in [Puts -> Sessions]

\* A slip: the test comes one session late.
CountLate(p, s) ==
    /\ p \notin counted /\ Cardinality(rows \ {s}) <= Cap
    /\ counted' = counted \cup {p} /\ session' = [session EXCEPT ![p] = s]
    /\ UNCHANGED rows

\* The cap counts the others only, so that a full account can be edited; a PUT
\* that finds too many is refused and changes nothing.
Count(p, s) ==
    /\ p \notin counted /\ Cardinality(rows \ {s}) < Cap
    /\ counted' = counted \cup {p} /\ session' = [session EXCEPT ![p] = s]
    /\ UNCHANGED rows

\* INSERT ... ON CONFLICT DO UPDATE and COMMIT; a PUT of the same session that
\* has inserted and not committed makes this one wait.
Commit(p) ==
    /\ p \in counted /\ counted' = counted \ {p}
    /\ rows' = rows \cup {session[p]}
    /\ UNCHANGED session

Drop(p) ==
    /\ p \in counted /\ counted' = counted \ {p}
    /\ UNCHANGED <<rows, session>>

\* A DELETE of one session, of those of a meet, or of all.
Delete(gone) ==
    /\ gone \subseteq rows /\ gone # {} /\ rows' = rows \ gone
    /\ UNCHANGED <<counted, session>>

Next ==
    \/ \E p \in Puts : (\E s \in Sessions : Count(p, s)) \/ Commit(p) \/ Drop(p)
    \/ \E gone \in SUBSET rows : Delete(gone)

Spec == Init /\ [][Next]_vars

-----------------------------------------------------------------------------
TypeOK ==
    /\ rows \subseteq Sessions /\ counted \subseteq Puts /\ session \in [Puts -> Sessions]

(* "Bound rows per user": races exceed the cap by at most the PUTs that were *)
(* under way at once, less the one that may reach it; however often they     *)
(* race, with deletions in between, the excess does not add up.              *)
CapNearlyHolds == Cardinality(rows) < Cap + Cardinality(Puts)
===============================================================================
