------------------------------ MODULE KeyedBuilds ------------------------------
(***************************************************************************)
(* What the single-flight guard and the build permits of                   *)
(* get_meet_package.rs promise, without the map, the locks and their       *)
(* reference counts: a cache key has at most one owner at a time, only the *)
(* owner of a key builds its package, an owner keeps its key while it      *)
(* builds, and a bounded number of owners build at once.                   *)
(***************************************************************************)
EXTENDS Naturals, FiniteSets

CONSTANTS Requests, Keys, Nobody, MaxBuilds

VARIABLES
  owner,      \* owner[k]: the request that owns key k, or Nobody
  building    \* the requests whose build is running

keyedVars == <<owner, building>>

Init ==
  /\ owner = [k \in Keys |-> Nobody]
  /\ building = {}

Claim(r, k) ==
  /\ owner[k] = Nobody
  /\ \A j \in Keys : owner[j] # r
  /\ owner' = [owner EXCEPT ![k] = r]
  /\ UNCHANGED building

Start(r, k) ==
  /\ owner[k] = r
  /\ r \notin building
  /\ Cardinality(building) < MaxBuilds
  /\ building' = building \cup {r}
  /\ UNCHANGED owner

End(r) ==
  /\ r \in building
  /\ building' = building \ {r}
  /\ UNCHANGED owner

Yield(r, k) ==
  /\ owner[k] = r
  /\ r \notin building
  /\ owner' = [owner EXCEPT ![k] = Nobody]
  /\ UNCHANGED building

Next ==
  \E r \in Requests :
    \/ End(r)
    \/ \E k \in Keys : Claim(r, k) \/ Start(r, k) \/ Yield(r, k)

Spec == Init /\ [][Next]_keyedVars
===============================================================================
