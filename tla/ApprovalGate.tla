---------------------------- MODULE ApprovalGate ----------------------------
(***************************************************************************)
(* The promise of the meet automation pipeline, without its files, crons   *)
(* and retries: a staged run reaches the database only after somebody has  *)
(* approved that run.  StagedRuns is shown to implement it.                *)
(***************************************************************************)
CONSTANT Runs            \* the staged runs

VARIABLES approvals,     \* the runs somebody approved
          published      \* the runs whose rows were committed

Init == approvals = {} /\ published = {}

Approve(r) == approvals' = approvals \cup {r} /\ UNCHANGED published

Publish(r) ==
    /\ r \in approvals
    /\ published' = published \cup {r}
    /\ UNCHANGED approvals

Next == \E r \in Runs : Approve(r) \/ Publish(r)

Spec == Init /\ [][Next]_<<approvals, published>>
=============================================================================
