----------------------------- MODULE StagedRuns -----------------------------
(***************************************************************************)
(* The approval gate of scrapers/usaw/meet_automation.  A staging job      *)
(* writes state/runs/<run_id>/bundle.json, posts a review to Slack and     *)
(* saves the bundle again with the reference of the posted message.        *)
(* People press a button (the API drops a decision file, by way of one     *)
(* temporary file for each run) or reply in the thread.  The `approve'     *)
(* cron walks the runs, reads the decision, writes Postgres in one         *)
(* transaction, saves the bundle and deletes the decision.                 *)
(* An operator may run `ingest' or `reject' by hand at any time.           *)
(*                                                                         *)
(* Nothing locks bundle.json: each party loads it, works, and writes back  *)
(* the copy it holds.  Path.write_text truncates and then writes, so a     *)
(* save is two steps and the file is unreadable in between (and after a    *)
(* crash or a full disk in between).                                       *)
(***************************************************************************)
EXTENDS Naturals

CONSTANTS
    Runs,         \* run ids, in the order list_runs sorts them
    DeadThreads,  \* runs whose review thread Slack refuses to read
    Contested,    \* runs whose buttons are sometimes pressed twice at once
    Env           \* what may happen around the code, a subset of Happenings

(* "reply"         somebody answers in the review thread
   "manual"        an operator uses the command line
   "early"         somebody acts on a run its staging job is still busy with
   "crash"         a job is killed between two steps
   "saveFails"     the state directory refuses or cuts short a write
   "publishFails"  the ingest transaction fails and rolls back
   "pollFails"     a request to Slack fails                                *)
Happenings == {"reply", "manual", "early", "crash", "saveFails", "publishFails", "pollFails"}

ASSUME RunsAssumption == Runs \subseteq Nat
ASSUME EnvAssumption == DeadThreads \subseteq Runs /\ Env \subseteq Happenings

VARIABLES
    bundle,     \* [Runs -> Bundle]: bundle.json on disk
    decision,   \* [Runs -> Texts]: decisions/<run_id>.json
    late,       \* [Runs -> Verdict]: what a press will write into the decision file it
                \* still has open, "none" when no press has it open
    reply,      \* [Runs -> Verdict]: the first decisive reply of the thread
    posted,     \* runs whose review message is in the channel
    published,  \* runs whose rows were committed to Postgres
    stager,     \* [Runs -> step of the job that stages the run]
    tick,       \* step of the approve cron
    todo,       \* the runs this tick has still to look at
    cur,        \* the run it looks at
    held,       \* the bundle it loaded
    found,      \* its decision file: there was none, an unreadable one, or it was read
    cli,        \* step of the operator's command
    cliRun,     \* the run it names
    cliHeld,    \* the bundle it loaded
    approvals,  \* history: runs somebody approved
    settled,    \* history: <<run, final status, who saved it>>, of the runs
                \* whose staging job was over by then
    spent       \* history: failed runs whose decision file was consumed, and
                \* that nobody approved again since

disk  == <<bundle, decision, late>>
slackVars == <<reply, posted>>
cron  == <<tick, todo, cur, held, found>>
hand  == <<cli, cliRun, cliHeld>>
ghost == <<approvals, settled, spent>>
vars  == <<disk, slackVars, published, stager, cron, hand, ghost>>

Final    == {"ingested", "rejected", "failed"}
OnDisk   == Final \cup {"pending_approval", "absent", "torn"}
Verdict  == {"none", "approved", "rejected"}
Bundle   == [status : OnDisk \cup {"approved"}, ref : BOOLEAN]

\* What a decision file can hold: an empty one was truncated and not yet written, a torn
\* one is one press over the longer text of another.
Unreadable == {"empty", "torn"}
Texts      == Verdict \cup Unreadable

Absent == [status |-> "absent", ref |-> FALSE]
Torn   == [status |-> "torn", ref |-> FALSE]
Staged == [status |-> "pending_approval", ref |-> FALSE]

Init ==
    /\ bundle = [r \in Runs |-> Absent]
    /\ decision = [r \in Runs |-> "none"]
    /\ late = [r \in Runs |-> "none"]
    /\ reply = [r \in Runs |-> "none"]
    /\ posted = {} /\ published = {}
    /\ stager = [r \in Runs |-> "idle"]
    /\ tick = "idle" /\ todo = {} /\ cur \in Runs /\ held = Absent /\ found = "none"
    /\ cli = "idle" /\ cliRun \in Runs /\ cliHeld = Absent
    /\ approvals = {} /\ settled = {} /\ spent = {}

-----------------------------------------------------------------------------
(* StagedBundle.save: open for writing truncates, then the text is written. *)

Truncate(r) == bundle' = [bundle EXCEPT ![r] = Torn]

Fill(r, b) == bundle' = [bundle EXCEPT ![r] = b]

\* The same, by a party that has brought the run to its end.
Settle(r, b, who) ==
    /\ Fill(r, b)
    /\ settled' = IF stager[r] = "done" THEN settled \cup {<<r, b.status, who>>} ELSE settled

SaveMayFail == "saveFails" \in Env

-----------------------------------------------------------------------------
(* The staging job, from the scraped data on (_run_one).                   *)

Stager(r, from, to) ==
    /\ stager[r] = from
    /\ stager' = [stager EXCEPT ![r] = to]
    /\ UNCHANGED <<published, cron, hand, decision, late, reply, approvals, spent>>

\* make_run_id names a directory nobody has used; write_run opens its bundle.
BeginStage(r) ==
    /\ bundle[r].status = "absent"
    /\ Stager(r, "idle", "write") /\ Truncate(r)
    /\ UNCHANGED <<posted, settled>>

EndStage(r) == Stager(r, "write", "post") /\ Fill(r, Staged) /\ UNCHANGED <<posted, settled>>

\* chat.postMessage has put the message in the channel; its answer is due.
PostReview(r) ==
    /\ Stager(r, "post", "open")
    /\ posted' = posted \cup {r}
    /\ UNCHANGED <<bundle, settled>>

\* bundle.slack = ref; bundle.save(run_dir): the copy staged above, status included.
OpenRef(r) == Stager(r, "open", "fill") /\ Truncate(r) /\ UNCHANGED <<posted, settled>>

SaveRef(r) ==
    /\ Stager(r, "fill", "done")
    /\ Fill(r, [Staged EXCEPT !.ref = TRUE])
    /\ UNCHANGED <<posted, settled>>

\* The post or a save raised, or the job was killed: what is on disk stays.
StagerStops(r) ==
    /\ \/ stager[r] \in {"write", "open", "fill"} /\ SaveMayFail
       \/ stager[r] # "done" /\ "crash" \in Env
       \/ stager[r] = "post"
    /\ stager[r] # "idle"
    /\ Stager(r, stager[r], "done")
    /\ UNCHANGED <<bundle, posted, settled>>

-----------------------------------------------------------------------------
(* People in the channel.  A staging job needs a second between posting a   *)
(* review and saving its reference; people are slower, unless "early".      *)

Ripe(r) == "early" \in Env \/ stager[r] = "done"

\* The decision file of a run is another one now, or is written.
Decide(r, text, open) ==
    /\ decision' = [decision EXCEPT ![r] = text] /\ late' = [late EXCEPT ![r] = open]
    /\ spent' = IF text = "approved" THEN spent \ {r} ELSE spent
    /\ UNCHANGED <<bundle, slackVars, published, stager, cron, hand, settled>>

\* slack_interactions -> write_decision: a temporary file, renamed when it is written.
\* One decision per run, the last press wins.
Click(r, d) ==
    /\ r \in posted /\ Ripe(r)
    /\ Decide(r, d, "none")
    /\ approvals' = IF d = "approved" THEN approvals \cup {r} ELSE approvals

\* Two presses have the one temporary file open, and d's rename takes it with whatever
\* it holds; e, if it has not written yet, writes into the decision file.
ClickTogether(r, d, e) ==
    /\ r \in Contested /\ r \in posted /\ Ripe(r)
    /\ \/ \E text \in {d, e, "torn"} : Decide(r, text, "none")
       \/ \E text \in {d, "empty"} : Decide(r, text, e)
    /\ approvals' = IF "approved" \in {d, e} THEN approvals \cup {r} ELSE approvals

\* From the start of the file: the end of a longer text shows behind it.
LateWrite(r) ==
    /\ late[r] # "none"
    /\ \/ Decide(r, late[r], "none")
       \/ decision[r] # "empty" /\ Decide(r, "torn", "none")
    /\ approvals' = approvals

\* The write fails, or the API is stopped.
LateFails(r) ==
    /\ late[r] # "none" /\ Env \cap {"saveFails", "crash"} # {}
    /\ late' = [late EXCEPT ![r] = "none"]
    /\ UNCHANGED <<bundle, decision, slackVars, published, stager, cron, hand, ghost>>

\* poll_approval takes the first decisive reply, so later ones change nothing.
Answer(r, d) ==
    /\ "reply" \in Env /\ r \in posted /\ reply[r] = "none"
    /\ Ripe(r)
    /\ reply' = [reply EXCEPT ![r] = d]
    /\ approvals' = IF d = "approved" THEN approvals \cup {r} ELSE approvals
    /\ spent' = IF d = "approved" THEN spent \ {r} ELSE spent
    /\ UNCHANGED <<disk, posted, published, stager, cron, hand, settled>>

-----------------------------------------------------------------------------
(* The approve cron (cmd_approve).                                         *)

Least(S) == CHOOSE r \in S : \A q \in S : r <= q

Approver(from, to) ==
    /\ tick = from /\ tick' = to
    /\ UNCHANGED <<slackVars, stager, hand, approvals>>

\* The loop's variables mean nothing between two runs.
Forget == held' = Absent /\ found' = "none" /\ cur' = cur

Tick ==
    /\ Approver("idle", "load")
    /\ todo' = {r \in Runs : bundle[r].status # "absent"}
    /\ UNCHANGED <<disk, published, cur, held, found, settled, spent>>

EndTick ==
    /\ todo = {}
    /\ Approver("load", "idle")
    /\ UNCHANGED <<disk, published, todo, cur, held, found, settled, spent>>

\* An unreadable bundle is reported and passed over, one not pending skipped.
Skip ==
    /\ todo # {}
    /\ bundle[Least(todo)].status # "pending_approval"
    /\ Approver("load", "load")
    /\ todo' = todo \ {Least(todo)}
    /\ UNCHANGED <<disk, published, cur, held, found, settled, spent>>

\* A slip: a run is taken up whatever its status.
LoadAny ==
    /\ todo # {}
    /\ bundle[Least(todo)].status \notin {"absent", "torn"}
    /\ Approver("load", "decide")
    /\ cur' = Least(todo) /\ held' = bundle[Least(todo)]
    /\ todo' = todo \ {Least(todo)}
    /\ UNCHANGED <<disk, published, found, settled, spent>>

Load ==
    /\ todo # {}
    /\ bundle[Least(todo)].status = "pending_approval"
    /\ Approver("load", "decide")
    /\ cur' = Least(todo) /\ held' = bundle[Least(todo)]
    /\ todo' = todo \ {Least(todo)}
    /\ UNCHANGED <<disk, published, found, settled, spent>>

\* A slip: every decision publishes.
FollowAny(d) ==
    /\ held' = IF d = "none" THEN Absent ELSE [held EXCEPT !.status = "approved"]
    /\ tick' = IF d = "none" THEN "load" ELSE "publish"

\* What a decision leads to.
Follow(d) ==
    /\ held' = IF d = "none" THEN Absent ELSE [held EXCEPT !.status = d]
    /\ tick' = CASE d = "approved" -> "publish" [] d = "rejected" -> "open" [] OTHER -> "load"

\* A slip: where there is a thread, the thread is asked and the file is not.
ReadDecisionOrThread ==
    /\ tick = "decide"
    /\ found' = IF held.ref \/ decision[cur] = "none" THEN "none"
                ELSE IF decision[cur] \in Unreadable THEN "unread" ELSE "read"
    /\ IF held.ref \/ decision[cur] \in Unreadable \cup {"none"} THEN tick' = "poll" /\ held' = held
                                                   ELSE Follow(decision[cur])
    /\ UNCHANGED <<disk, slackVars, published, stager, todo, cur, hand, ghost>>

ReadDecision ==
    /\ tick = "decide"
    /\ found' = IF decision[cur] = "none" THEN "none"
                ELSE IF decision[cur] \in Unreadable THEN "unread" ELSE "read"
    /\ IF decision[cur] \in Unreadable \cup {"none"} THEN tick' = "poll" /\ held' = held
                                                   ELSE Follow(decision[cur])
    /\ UNCHANGED <<disk, slackVars, published, stager, todo, cur, hand, ghost>>

\* Without a bot token or a posted reference there is no thread to read.  An
\* unreadable file stays where it is unless a reply decides: then it is consumed too.
Poll ==
    /\ tick = "poll"
    /\ ~ held.ref \/ cur \notin DeadThreads
    /\ Follow(IF held.ref THEN reply[cur] ELSE "none")
    /\ found' = IF held.ref /\ reply[cur] # "none" THEN found ELSE "none"
    /\ UNCHANGED <<disk, slackVars, published, stager, todo, cur, hand, ghost>>

\* poll_approval raises, for a thread that cannot be read or a request that fails, and
\* nothing in cmd_approve catches it.
PollFails ==
    /\ held.ref /\ (cur \in DeadThreads \/ "pollFails" \in Env)
    /\ Approver("poll", "idle")
    /\ Forget /\ todo' = {}
    /\ UNCHANGED <<disk, published, settled, spent>>

\* _publish: one transaction.
Publish ==
    /\ Approver("publish", "open")
    /\ published' = published \cup {cur}
    /\ held' = [held EXCEPT !.status = "ingested"]
    /\ UNCHANGED <<disk, todo, cur, found, settled, spent>>

\* The transaction rolled back: _mark_failed parks the run.
PublishFails ==
    /\ "publishFails" \in Env
    /\ Approver("publish", "open")
    /\ held' = [held EXCEPT !.status = "failed"]
    /\ UNCHANGED <<disk, published, todo, cur, found, settled, spent>>

OpenRun ==
    /\ Approver("open", "fill")
    /\ Truncate(cur)
    /\ UNCHANGED <<decision, late, published, todo, cur, held, found, settled, spent>>

SaveRun ==
    /\ Approver("fill", "consume")
    /\ Settle(cur, held, "cron")
    /\ UNCHANGED <<decision, late, published, todo, cur, held, found, spent>>

\* write_run raised, before or after the text (preview.html comes last).  Only
\* the rejecting branch lets the error end the tick.
SaveRunFails ==
    /\ SaveMayFail
    /\ \E from \in {"open", "fill"} :
          Approver(from, IF held.status = "rejected" THEN "idle" ELSE "consume")
    /\ \/ UNCHANGED <<bundle, settled>>
       \/ tick = "fill" /\ Settle(cur, held, "cron")
    /\ IF held.status = "rejected" THEN Forget /\ todo' = {} ELSE UNCHANGED <<todo, cur, held, found>>
    /\ UNCHANGED <<decision, late, published, spent>>

\* _consume_decision deletes the file that has the name by now.
Consumed(r) ==
    /\ decision' = [decision EXCEPT ![r] = "none"] /\ late' = [late EXCEPT ![r] = "none"]

\* A slip: the decision file of a failed run is left for the next tick.
ConsumeUnlessFailed ==
    /\ Approver("consume", "load")
    /\ IF found = "none" \/ held.status = "failed" THEN UNCHANGED <<decision, late>> ELSE Consumed(cur)
    /\ spent' = IF found = "read" /\ held.status = "failed" THEN spent \cup {cur} ELSE spent
    /\ Forget
    /\ UNCHANGED <<bundle, published, todo, settled>>

Consume ==
    /\ Approver("consume", "load")
    /\ IF found = "none" THEN UNCHANGED <<decision, late>> ELSE Consumed(cur)
    /\ spent' = IF found = "read" /\ held.status = "failed" THEN spent \cup {cur} ELSE spent
    /\ Forget
    /\ UNCHANGED <<bundle, published, todo, settled>>

\* _unlink could not remove the file; it says so and goes on.
ConsumeFails ==
    /\ SaveMayFail /\ found # "none"
    /\ Approver("consume", "load")
    /\ Forget /\ todo' = todo
    /\ UNCHANGED <<disk, published, settled, spent>>

ApproverCrash ==
    /\ "crash" \in Env /\ tick # "idle"
    /\ Approver(tick, "idle")
    /\ Forget /\ todo' = {}
    /\ UNCHANGED <<disk, published, settled, spent>>

-----------------------------------------------------------------------------
(* The operator: cmd_ingest and cmd_reject load the bundle and write it    *)
(* back; neither asks whether the approve cron is at work on it.           *)

Operator(from, to) ==
    /\ cli = from /\ cli' = to
    /\ UNCHANGED <<decision, late, slackVars, stager, cron, spent>>

\* `ingest' of a run already ingested needs --force.
StartIngest(r) ==
    /\ "manual" \in Env /\ Ripe(r) /\ bundle[r].status \notin {"absent", "torn"}
    /\ Operator("idle", "publish")
    /\ cliRun' = r /\ cliHeld' = bundle[r]
    /\ approvals' = approvals \cup {r}
    /\ UNCHANGED <<bundle, published, settled>>

\* A slip: the status is left as it was loaded.
ManualPublishOnly ==
    /\ Operator("publish", "open")
    /\ published' = published \cup {cliRun}
    /\ UNCHANGED <<bundle, cliRun, cliHeld, approvals, settled>>

ManualPublish ==
    /\ Operator("publish", "open")
    /\ published' = published \cup {cliRun}
    /\ cliHeld' = [cliHeld EXCEPT !.status = "ingested"]
    /\ UNCHANGED <<bundle, cliRun, approvals, settled>>

StartReject(r) ==
    /\ "manual" \in Env /\ Ripe(r) /\ bundle[r].status \notin {"absent", "torn"}
    /\ Operator("idle", "open")
    /\ cliRun' = r /\ cliHeld' = [bundle[r] EXCEPT !.status = "rejected"]
    /\ UNCHANGED <<bundle, published, approvals, settled>>

ManualOpen ==
    /\ Operator("open", "fill")
    /\ Truncate(cliRun)
    /\ UNCHANGED <<published, cliRun, cliHeld, approvals, settled>>

ManualSave ==
    /\ Operator("fill", "idle")
    /\ Settle(cliRun, cliHeld, "operator")
    /\ cliHeld' = Absent
    /\ UNCHANGED <<published, cliRun, approvals>>

\* The transaction or a save raised, or the command was interrupted.
ManualStops ==
    /\ \/ cli = "publish" /\ "publishFails" \in Env
       \/ cli \in {"open", "fill"} /\ SaveMayFail
       \/ cli # "idle" /\ "crash" \in Env
    /\ Operator(cli, "idle")
    /\ cliHeld' = Absent
    /\ UNCHANGED <<bundle, published, cliRun, approvals, settled>>

-----------------------------------------------------------------------------
StagerWork(r) == EndStage(r) \/ PostReview(r) \/ OpenRef(r) \/ SaveRef(r) \/ StagerStops(r)
StagerStep(r) == BeginStage(r) \/ StagerWork(r)

ApproverStep ==
    \/ Tick \/ EndTick \/ Skip \/ Load \/ ReadDecision \/ Poll \/ PollFails
    \/ Publish \/ PublishFails \/ OpenRun \/ SaveRun \/ SaveRunFails
    \/ Consume \/ ConsumeFails \/ ApproverCrash

OperatorStep ==
    \/ \E r \in Runs : StartIngest(r) \/ StartReject(r)
    \/ ManualPublish \/ ManualOpen \/ ManualSave \/ ManualStops

Person(r) ==
    \E d \in {"approved", "rejected"} :
        Click(r, d) \/ Answer(r, d) \/ \E e \in {"approved", "rejected"} : ClickTogether(r, d, e)

People == \E r \in Runs : Person(r) \/ LateWrite(r) \/ LateFails(r)

Next == (\E r \in Runs : StagerStep(r)) \/ People \/ ApproverStep \/ OperatorStep

Spec == Init /\ [][Next]_vars

\* Cron starts a tick every five minutes and a job, once started, goes on:
\* the wrapper's lock is per job and a job never waits for another one.
Fairness ==
    /\ WF_vars(ApproverStep)
    /\ \A r \in Runs : WF_vars(StagerWork(r))

FairSpec == Spec /\ Fairness

-----------------------------------------------------------------------------
Gate == INSTANCE ApprovalGate

TypeOK ==
    /\ bundle \in [Runs -> Bundle]
    /\ decision \in [Runs -> Texts] /\ reply \in [Runs -> Verdict]
    /\ late \in [Runs -> Verdict]
    /\ posted \subseteq Runs /\ published \subseteq Runs
    /\ stager \in [Runs -> {"idle", "write", "post", "open", "fill", "done"}]
    /\ tick \in {"idle", "load", "decide", "poll", "publish", "open", "fill", "consume"}
    /\ todo \subseteq Runs /\ cur \in Runs /\ held \in Bundle /\ found \in {"none", "unread", "read"}
    /\ cli \in {"idle", "publish", "open", "fill"} /\ cliRun \in Runs /\ cliHeld \in Bundle
    /\ approvals \subseteq Runs /\ spent \subseteq Runs
    /\ settled \subseteq Runs \X Final \X {"cron", "operator"}

(* README.md: nothing is written to any database until somebody approves.   *)
(* Whatever is interleaved, killed, lost or cut short, a run's rows are     *)
(* committed only after that very run was approved.                         *)
ImplementsGate == Gate!Spec

(* Once a final status of a run has been saved, no later save by any party  *)
(* puts the run back among the pending ones: the copies the tick and the    *)
(* operator hold may be old, but each is final when it is saved.  (A save   *)
(* made while the staging job is still busy is lost to that job's last      *)
(* save, which writes the pending status it holds: those are not counted.)  *)
LeavesPendingForGood ==
    \A s \in settled : bundle[s[1]].status # "pending_approval"

(* A run whose rejection the cron has saved is not published by the cron    *)
(* any more, whatever buttons, replies and operator do.  (An operator's     *)
(* `reject' can fall into a tick that has already loaded the run.)          *)
NoPublishAfterDiscard ==
    [][Publish => <<cur, "rejected", "cron">> \notin settled]_vars

(* A publish that was approved by a decision file and failed is tried again *)
(* from a file only after a new press: the file consumed with the failure   *)
(* stops the retry loop (_mark_failed), even when the failed status could   *)
(* not be saved.  (A thread reply cannot be consumed and is followed again.) *)
FailureStopsRetries ==
    [][(Publish \/ PublishFails) /\ found = "read" => cur \notin spent]_vars

Decided(r) == bundle[r].status = "pending_approval" /\ decision[r] \in {"approved", "rejected"}
Settled(r) == bundle[r].status \in Final

(* A decision about a pending run is acted upon by some later tick, whatever *)
(* the state of the other runs ("one unreadable run directory must not wedge *)
(* every other pending approval").                                           *)
EveryDecisionIsTaken == \A r \in Runs : Decided(r) ~> Settled(r)

(* What holds: a decision is acted upon unless a later press makes the file  *)
(* unreadable ("leaves the run pending forever", as _read_decision says), or *)
(* a run that sorts before it, whose thread cannot be read, stays pending    *)
(* for ever.  The run with the dead thread itself can still be decided by    *)
(* its buttons.                                                              *)
DecisionIsTaken ==
    \A r \in Runs :
        \/ Decided(r) ~> Settled(r) \/ decision[r] \in Unreadable
        \/ \E q \in DeadThreads : q < r /\ <>[](bundle[q].status = "pending_approval")
=============================================================================
