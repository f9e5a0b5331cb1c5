----------------------------- MODULE MCMeetJobs -----------------------------
(***************************************************************************)
(* Change detection and the approval of two staged runs, checked together:  *)
(* a behaviour follows one of them, chosen at the start, and the other one  *)
(* stays at its beginning.                                                  *)
(***************************************************************************)
EXTENDS PageWatch

CONSTANTS Runs, DeadThreads, Contested, Env

VARIABLES part, bundle, decision, late, reply, posted, published, stager, tick, todo, cur, held, found,
          cli, cliRun, cliHeld, approvals, settled, spent

Gate == INSTANCE StagedRuns

gateVars == <<bundle, decision, late, reply, posted, published, stager, tick, todo, cur, held, found,
              cli, cliRun, cliHeld, approvals, settled, spent>>

\* A requested run names its watch, and no operator is in Env: where these begin
\* makes no difference.
InitBoth ==
    /\ part \in {"pages", "gate"}
    /\ Init /\ \A j \in Jobs : (part = "gate" \/ j \in Forced) => job[j].watch = 1
    /\ Gate!Init /\ cliRun = 1 /\ (part = "pages" => cur = 1)

NextBoth ==
    /\ UNCHANGED part
    /\ \/ part = "pages" /\ Next /\ UNCHANGED gateVars
       \/ part = "gate" /\ Gate!Next /\ UNCHANGED vars

\* The fairness of each part, as its module states it.
FairBoth ==
    /\ InitBoth /\ [][NextBoth]_<<part, vars, gateVars>>
    /\ \A j \in Jobs : WF_vars(part = "pages" /\ Work(j))
    /\ \A j \in Jobs \ Forced :
          /\ WF_vars(part = "pages" /\ \E w \in Watches : Hash(j, w))
          /\ \A w \in Watches : SF_vars(part = "pages" /\ At(j, w) /\ Stage(j))
    /\ WF_gateVars(part = "gate" /\ Gate!ApproverStep)
    /\ \A r \in Runs : WF_gateVars(part = "gate" /\ Gate!StagerWork(r))

-----------------------------------------------------------------------------
\* A change that stays on its page is staged by some run of cmd_run, whichever job
\* overwrites the other's marks in seen.json: PageWatch.
ChangesAreStaged == part = "pages" => ChangeIsStaged

\* A decision about a pending run ends in a final status (cmd_approve), except behind
\* a run whose thread Slack refuses to read: StagedRuns.
DecisionIsTaken == Gate!DecisionIsTaken
=============================================================================
