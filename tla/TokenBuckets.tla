----------------------------- MODULE TokenBuckets -----------------------------
(***************************************************************************)
(* What the rate limiter promises its clients, without its map, sweeps and *)
(* two-step charges: every client has one bucket from the beginning of     *)
(* time, a charge is taken whole or not at all, and tokens come back one   *)
(* by one.                                                                 *)
(***************************************************************************)
EXTENDS Naturals

CONSTANTS Clients,     \* everything that has a bucket
          Burst,       \* tokens a full bucket holds
          Costs        \* what may be charged at once

VARIABLE spent         \* tokens taken from each bucket and not yet back

Init == spent = [c \in Clients |-> 0]

Charge(c, n) ==
    /\ spent[c] + n <= Burst
    /\ spent' = [spent EXCEPT ![c] = @ + n]

\* Every bucket gets a token back.
Refill == spent' = [c \in Clients |-> IF spent[c] = 0 THEN 0 ELSE spent[c] - 1]

Next == Refill \/ \E c \in Clients, n \in Costs : Charge(c, n)

Spec == Init /\ [][Next]_spent
===============================================================================
