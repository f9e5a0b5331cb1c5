------------------------------ MODULE MCRequests ------------------------------
(***************************************************************************)
(* The two hand-overs from a Slack command to a job, checked together: a   *)
(* behaviour follows RunRequests or ResultRequests, chosen at the start,   *)
(* and the other one stays at its beginning.                               *)
(***************************************************************************)
EXTENDS RunRequests

CONSTANTS Names, MaxStops

ASSUME NamesAssumption == Names \subseteq Nat

VARIABLES part, results, done, failed, drain, listing, stops, imported, unpaid

Results == INSTANCE ResultRequests WITH
    queue <- results, step <- drain, mishaps <- stops, owed <- unpaid, MaxMishaps <- MaxStops

resultVars == <<results, done, failed, drain, listing, stops, imported, unpaid>>

InitBoth == part \in {"runs", "results"} /\ Init /\ Results!Init

NextBoth ==
    /\ UNCHANGED part
    /\ \/ part = "runs" /\ Next /\ UNCHANGED resultVars
       \/ part = "results" /\ Results!Next /\ UNCHANGED vars

\* The fairness of each part, as its module states it.
FairBoth ==
    /\ InitBoth /\ [][NextBoth]_<<part, vars, resultVars>>
    /\ WF_vars(part = "runs" /\ Work)
    /\ WF_resultVars(part = "results" /\ Results!Work)

-----------------------------------------------------------------------------
\* No request for results is lost, or imported again and again: ResultRequests.
SettledOnce == Results!SettledOnce

\* Every request for results leaves the queue: ResultRequests.
RequestsSettle == Results!RequestsSettle
===============================================================================
