--------------------------- MODULE StagedRunsProofs ---------------------------
(***************************************************************************)
(* The approval gate for any set of runs, any of them with an unreadable   *)
(* thread, and whatever happens around the jobs.  The approval travels     *)
(* through the decision file or the thread into the tick, and through the  *)
(* command line into the operator's command; at each of these places it    *)
(* was put by somebody who approved that very run.                         *)
(***************************************************************************)
EXTENDS StagedRuns, WellFoundedInduction, TLAPS

\* Wherever a verdict to approve has got to, somebody gave it for that run.
ApprovalsAreReal ==
    /\ \A r \in Runs : "approved" \in {decision[r], late[r]} => r \in approvals
    /\ \A r \in Runs : reply[r] = "approved" => r \in approvals
    /\ tick = "publish" => cur \in approvals
    /\ cli = "publish" => cliRun \in approvals

\* What the tick and the operator save is final.
SavesAreFinal ==
    /\ tick \in {"open", "fill"} => held.status \in Final
    /\ cli \in {"open", "fill"} => cliHeld.status \in Final

\* A run is settled only after its staging job, the one party that saves a
\* pending bundle, is over.
SettledIsOver == \A s \in settled : stager[s[1]] = "done"

\* The run in hand was pending when it was loaded, and nobody else rejects
\* for the cron.
HandIsOpen ==
    tick \in {"decide", "poll", "publish"} => <<cur, "rejected", "cron">> \notin settled

\* A spent decision is gone, from the disk and from the tick's hand.
SpentIsGone ==
    /\ \A r \in spent : decision[r] # "approved"
    /\ tick = "publish" /\ found = "read" => cur \notin spent
    /\ tick = "poll" => found # "read"

IInv ==
    /\ TypeOK /\ ApprovalsAreReal /\ SavesAreFinal /\ SettledIsOver
    /\ LeavesPendingForGood /\ HandIsOpen /\ SpentIsGone

USE DEF disk, slackVars, cron, hand, ghost, vars

\* What the saves write has the shape of a bundle.
LEMMA BundleShapes ==
  /\ Absent \in Bundle /\ Torn \in Bundle /\ Staged \in Bundle
  /\ [Staged EXCEPT !.ref = TRUE] \in Bundle
  /\ \A b \in Bundle, s \in OnDisk \cup {"approved"} : [b EXCEPT !.status = s] \in Bundle
  /\ \A b \in Bundle, s \in Final : /\ [b EXCEPT !.status = s] \in Bundle
                                   /\ [b EXCEPT !.status = s].status \in Final
BY DEF Absent, Torn, Staged, Bundle, OnDisk, Final

LEMMA InitInv == Init => IInv
BY BundleShapes DEF Init, IInv, TypeOK, ApprovalsAreReal, SavesAreFinal, SettledIsOver,
   LeavesPendingForGood, HandIsOpen, SpentIsGone, Verdict, Texts

LEMMA TruncateType ==
  ASSUME TypeOK, NEW r \in Runs, Truncate(r)
  PROVE  bundle' \in [Runs -> Bundle]
BY BundleShapes DEF TypeOK, Truncate

LEMMA FillType ==
  ASSUME TypeOK, NEW r \in Runs, NEW b \in Bundle, Fill(r, b)
  PROVE  bundle' \in [Runs -> Bundle]
BY DEF TypeOK, Fill

LEMMA SettleType ==
  ASSUME TypeOK, NEW r \in Runs, NEW b \in Bundle, b.status \in Final,
         NEW who \in {"cron", "operator"}, Settle(r, b, who)
  PROVE  /\ bundle' \in [Runs -> Bundle]
         /\ settled' \subseteq Runs \X Final \X {"cron", "operator"}
BY FillType DEF Settle, TypeOK

LEMMA StagerInv ==
  ASSUME IInv, NEW r \in Runs, StagerStep(r)
  PROVE  IInv'
<1> USE DEF IInv
<1>1. /\ UNCHANGED <<decision, late, reply, approvals, tick, cur, cli, cliRun>>
      /\ UNCHANGED <<published, todo, held, found, cliHeld, spent, settled>>
  BY DEF StagerStep, StagerWork, BeginStage, EndStage, PostReview, OpenRef, SaveRef, StagerStops, Stager
<1>2. bundle' \in [Runs -> Bundle] /\ posted' \subseteq Runs
  <2>1. CASE BeginStage(r)
    BY <2>1, TruncateType DEF BeginStage, TypeOK
  <2>2. CASE EndStage(r)
    BY <2>2, FillType, BundleShapes DEF EndStage, TypeOK
  <2>3. CASE PostReview(r)
    BY <2>3 DEF PostReview, TypeOK
  <2>4. CASE OpenRef(r)
    BY <2>4, TruncateType DEF OpenRef, TypeOK
  <2>5. CASE SaveRef(r)
    BY <2>5, FillType, BundleShapes DEF SaveRef, TypeOK
  <2>6. CASE StagerStops(r)
    BY <2>6 DEF StagerStops, TypeOK
  <2> QED BY <2>1, <2>2, <2>3, <2>4, <2>5, <2>6 DEF StagerStep, StagerWork
<1>3. stager' \in [Runs -> {"idle", "write", "post", "open", "fill", "done"}]
  BY DEF StagerStep, StagerWork, BeginStage, EndStage, PostReview, OpenRef, SaveRef, StagerStops, Stager, TypeOK
<1>4. \A q \in Runs : stager[q] = "done" => stager'[q] = "done" /\ bundle'[q] = bundle[q]
  BY DEF StagerStep, StagerWork, BeginStage, EndStage, PostReview, OpenRef, SaveRef, StagerStops, Stager,
         Truncate, Fill, TypeOK
<1>5. SettledIsOver' /\ LeavesPendingForGood'
  BY <1>1, <1>4 DEF TypeOK, SettledIsOver, LeavesPendingForGood
<1> QED BY <1>1, <1>2, <1>3, <1>5
        DEF TypeOK, ApprovalsAreReal, SavesAreFinal, HandIsOpen, SpentIsGone

\* A decision file is replaced or written with a text that nobody reads as an approval,
\* or that somebody approved with.
LEMMA DecideInv ==
  ASSUME IInv, NEW r \in Runs, NEW text \in Texts, NEW open \in Verdict, Decide(r, text, open),
         approvals \subseteq approvals', approvals' \subseteq Runs,
         "approved" \in {text, open} => r \in approvals'
  PROVE  IInv'
<1> USE DEF IInv
<1>1. /\ decision' = [decision EXCEPT ![r] = text] /\ late' = [late EXCEPT ![r] = open]
      /\ UNCHANGED <<bundle, slackVars, published, stager, cron, hand, settled>>
      /\ spent' \subseteq spent /\ (text = "approved" => r \notin spent')
  BY DEF Decide
<1>2. TypeOK'
  BY <1>1 DEF TypeOK
<1>3. ApprovalsAreReal'
  BY <1>1 DEF ApprovalsAreReal, TypeOK
<1>4. SpentIsGone'
  BY <1>1 DEF SpentIsGone, TypeOK
<1> QED BY <1>1, <1>2, <1>3, <1>4 DEF SavesAreFinal, SettledIsOver, LeavesPendingForGood, HandIsOpen

LEMMA PeopleInv ==
  ASSUME IInv, NEW r \in Runs, Person(r) \/ LateWrite(r) \/ LateFails(r)
  PROVE  IInv'
<1> DEFINE Decisions == {"approved", "rejected"}
<1>1. \A d \in Decisions : d \in Texts /\ d \in Verdict
  BY DEF Texts, Verdict
<1>2. "none" \in Verdict /\ "torn" \in Texts /\ "empty" \in Texts /\ approvals \subseteq Runs
  BY DEF Texts, Verdict, Unreadable, IInv, TypeOK
<1>3. ASSUME NEW d \in Decisions, Click(r, d)
      PROVE  IInv'
  <2>1. Decide(r, d, "none") /\ approvals' = IF d = "approved" THEN approvals \cup {r} ELSE approvals
    BY <1>3 DEF Click
  <2> QED BY <1>1, <1>2, <2>1, DecideInv
<1>4. ASSUME NEW d \in Decisions, NEW e \in Decisions, ClickTogether(r, d, e)
      PROVE  IInv'
  <2>1. PICK text \in {d, e, "torn", "empty"}, open \in {"none", e} : Decide(r, text, open)
    BY <1>4 DEF ClickTogether
  <2>2. approvals' = IF "approved" \in {d, e} THEN approvals \cup {r} ELSE approvals
    BY <1>4 DEF ClickTogether
  <2>3. text \in Texts /\ open \in Verdict
    BY <1>1, <1>2, <2>1
  <2>4. /\ approvals \subseteq approvals' /\ approvals' \subseteq Runs
        /\ "approved" \in {text, open} => r \in approvals'
    BY <1>2, <2>1, <2>2
  <2> QED BY <2>1, <2>3, <2>4, DecideInv
<1>5. ASSUME NEW d \in Decisions, Answer(r, d)
      PROVE  IInv'
  BY <1>5 DEF Answer, IInv, TypeOK, ApprovalsAreReal, SavesAreFinal, SettledIsOver,
     LeavesPendingForGood, HandIsOpen, SpentIsGone, Verdict
<1>6. CASE LateWrite(r)
  <2>1. PICK text \in {late[r], "torn"} : Decide(r, text, "none")
    BY <1>6 DEF LateWrite
  <2>2. approvals' = approvals /\ late[r] \in Verdict /\ (late[r] = "approved" => r \in approvals)
    BY <1>6 DEF LateWrite, IInv, TypeOK, ApprovalsAreReal
  <2>3. text \in Texts
    BY <1>2, <2>1, <2>2 DEF Texts
  <2>4. "approved" \in {text, "none"} => r \in approvals'
    BY <2>1, <2>2
  <2>5. approvals \subseteq approvals' /\ approvals' \subseteq Runs
    BY <1>2, <2>2
  <2> QED BY <1>2, <2>1, <2>3, <2>4, <2>5, DecideInv
<1>7. CASE LateFails(r)
  BY <1>7 DEF LateFails, IInv, TypeOK, ApprovalsAreReal, SavesAreFinal, SettledIsOver,
     LeavesPendingForGood, HandIsOpen, SpentIsGone, Verdict
<1> QED BY <1>3, <1>4, <1>5, <1>6, <1>7 DEF Person

LEMMA LeastRun ==
  ASSUME TypeOK, todo # {}
  PROVE  Least(todo) \in Runs
<1>1. PICK r \in todo : \A q \in todo : ~ (<<q, r>> \in OpToRel(<, Nat))
  <2>1. todo \subseteq Nat
    BY RunsAssumption DEF TypeOK
  <2> QED BY <2>1, NatLessThanWellFounded, WFMin
<1>2. \A q \in todo : r <= q
  <2>1. todo \subseteq Nat
    BY RunsAssumption DEF TypeOK
  <2>2. OpToRel(<, Nat) = {ss \in Nat \X Nat : ss[1] < ss[2]}
    BY DEF OpToRel
  <2>3. \A q \in todo : <<q, r>> \in Nat \X Nat /\ <<q, r>>[1] = q /\ <<q, r>>[2] = r
    BY <2>1
  <2>4. \A q \in todo : ~ (q < r)
    BY <1>1, <2>2, <2>3
  <2> QED BY <2>1, <2>4
<1> QED BY <1>2 DEF Least, TypeOK

\* Following a decision leads to `publish' only if it was to approve, and to
\* a save only with a final status.
LEMMA FollowType ==
  ASSUME TypeOK, NEW d \in Verdict, Follow(d)
  PROVE  /\ held' \in Bundle
         /\ tick' \in {"load", "publish", "open"}
         /\ tick' = "publish" => d = "approved"
         /\ tick' = "open" => held'.status \in Final
BY BundleShapes DEF Follow, TypeOK, Verdict, OnDisk, Final, Bundle

\* A save by the tick or the operator: the saved status is final, and a run
\* the cron rejects is not in its hand any more.
LEMMA SettleKeeps ==
  ASSUME IInv, NEW r \in Runs, NEW b \in Bundle, b.status \in Final,
         NEW who \in {"cron", "operator"}, Settle(r, b, who), UNCHANGED stager,
         who = "operator" \/ tick' \notin {"decide", "poll", "publish"},
         tick' \in {"decide", "poll", "publish"} => tick' = tick /\ cur' = cur
  PROVE  /\ bundle' \in [Runs -> Bundle]
         /\ settled' \subseteq Runs \X Final \X {"cron", "operator"}
         /\ SettledIsOver' /\ LeavesPendingForGood' /\ HandIsOpen'
<1> USE DEF IInv
<1>1. /\ bundle' \in [Runs -> Bundle]
      /\ settled' \subseteq Runs \X Final \X {"cron", "operator"}
  BY SettleType
<1>2. \A s \in settled' : s \in settled \/ (s = <<r, b.status, who>> /\ stager[r] = "done")
  BY DEF Settle
<1>3. SettledIsOver'
  BY <1>2 DEF SettledIsOver
<1>4. LeavesPendingForGood'
  BY <1>2 DEF LeavesPendingForGood, Settle, Fill, TypeOK, Final
<1>5. HandIsOpen'
  BY <1>2 DEF HandIsOpen
<1> QED BY <1>1, <1>3, <1>4, <1>5

LEMMA ApproverInv ==
  ASSUME IInv, ApproverStep
  PROVE  IInv'
<1> USE DEF IInv
<1>1. /\ UNCHANGED <<reply, posted, stager, cli, cliRun, cliHeld, approvals>>
  BY DEF ApproverStep, Tick, EndTick, Skip, Load, ReadDecision, Poll, PollFails, Publish,
         PublishFails, OpenRun, SaveRun, SaveRunFails, Consume, ConsumeFails, ApproverCrash, Approver
<1>2. CASE Tick \/ EndTick \/ Skip \/ PollFails \/ ConsumeFails \/ ApproverCrash
  <2>1. /\ UNCHANGED <<disk, published, settled, spent>>
        /\ tick' \in {"idle", "load"} /\ cur' = cur /\ todo' \subseteq Runs
        /\ held' \in Bundle /\ found' \in {"none", "unread", "read"}
    BY <1>2, BundleShapes DEF Tick, EndTick, Skip, PollFails, ConsumeFails, ApproverCrash,
       Approver, Forget, TypeOK
  <2> QED BY <1>1, <2>1 DEF TypeOK, ApprovalsAreReal, SavesAreFinal, SettledIsOver,
             LeavesPendingForGood, HandIsOpen, SpentIsGone
<1>3. CASE Load
  <2>1. cur' \in Runs /\ bundle[cur'].status = "pending_approval"
    BY <1>3, LeastRun DEF Load
  <2>2. /\ UNCHANGED <<disk, published, settled, spent>>
        /\ tick' = "decide" /\ held' \in Bundle /\ found' = found /\ todo' \subseteq Runs
    BY <1>3, <2>1 DEF Load, Approver, TypeOK
  <2>3. HandIsOpen'
    BY <2>1, <2>2 DEF HandIsOpen, LeavesPendingForGood
  <2> QED BY <1>1, <2>1, <2>2, <2>3 DEF TypeOK, ApprovalsAreReal, SavesAreFinal,
             SettledIsOver, LeavesPendingForGood, SpentIsGone
<1>4. CASE ReadDecision \/ Poll
  <2>1. /\ UNCHANGED <<disk, published, settled, spent, cur, todo>>
        /\ tick \in {"decide", "poll"}
    BY <1>4 DEF ReadDecision, Poll
  <2>2. /\ tick' \in {"load", "poll", "publish", "open"} /\ held' \in Bundle
        /\ found' \in {"none", "unread", "read"} /\ (tick' = "poll" => found' # "read")
        /\ tick' = "open" => held'.status \in Final
        /\ tick' = "publish" => \/ decision[cur] = "approved"
                                \/ found' # "read" /\ reply[cur] = "approved"
    <3>1. CASE ReadDecision
      <4>1. decision[cur] \in Texts
        BY DEF TypeOK
      <4>0. /\ found' \in {"none", "unread", "read"}
            /\ decision[cur] \in Unreadable \cup {"none"} => found' # "read"
        BY <3>1 DEF ReadDecision
      <4>2. CASE decision[cur] \in Unreadable \cup {"none"}
        BY <3>1, <4>0, <4>2 DEF ReadDecision, TypeOK
      <4>3. CASE decision[cur] \notin Unreadable \cup {"none"}
        <5>1. decision[cur] \in Verdict /\ Follow(decision[cur])
          BY <3>1, <4>1, <4>3 DEF ReadDecision, Texts
        <5> QED BY <4>0, <5>1, FollowType
      <4> QED BY <4>2, <4>3
    <3>2. CASE Poll
      <4> DEFINE said == IF held.ref THEN reply[cur] ELSE "none"
      <4>1. said \in Verdict /\ (said = "approved" => reply[cur] = "approved")
        BY DEF TypeOK, Verdict
      <4>2. Follow(said)
        BY <3>2 DEF Poll
      <4>3. found' \in {"none", "unread", "read"} /\ found' # "read"
        BY <3>2 DEF Poll, SpentIsGone, TypeOK
      <4> HIDE DEF said
      <4> QED BY <4>1, <4>2, <4>3, FollowType
    <3> QED BY <1>4, <3>1, <3>2
  <2> QED BY <1>1, <2>1, <2>2 DEF TypeOK, ApprovalsAreReal, SavesAreFinal, SettledIsOver,
             LeavesPendingForGood, HandIsOpen, SpentIsGone
<1>5. CASE Publish \/ PublishFails
  <2>1. /\ UNCHANGED <<disk, settled, spent, cur, todo, found>>
        /\ tick' = "open" /\ published' \subseteq Runs
        /\ held' \in Bundle /\ held'.status \in Final
    <3>1. "ingested" \in Final /\ "failed" \in Final /\ held \in Bundle
      BY DEF Final, TypeOK
    <3>2. \A s \in {"ingested", "failed"} : /\ [held EXCEPT !.status = s] \in Bundle
                                          /\ [held EXCEPT !.status = s].status \in Final
      BY <3>1, BundleShapes
    <3>3. published \subseteq Runs /\ cur \in Runs
      BY DEF TypeOK
    <3> HIDE DEF IInv
    <3>4. /\ UNCHANGED <<disk, settled, spent, cur, todo, found>> /\ tick' = "open"
          /\ published' \in {published, published \union {cur}}
          /\ \/ held' = [held EXCEPT !.status = "ingested"]
             \/ held' = [held EXCEPT !.status = "failed"]
      BY <1>5 DEF Publish, PublishFails, Approver
    <3> QED BY <3>1, <3>2, <3>3, <3>4
  <2> QED BY <1>1, <2>1 DEF TypeOK, ApprovalsAreReal, SavesAreFinal, SettledIsOver,
             LeavesPendingForGood, HandIsOpen, SpentIsGone
<1>6. CASE OpenRun
  <2>1. /\ UNCHANGED <<decision, late, published, settled, spent, cur, todo, held, found>>
        /\ tick = "open" /\ tick' = "fill" /\ Truncate(cur)
    BY <1>6 DEF OpenRun, Approver
  <2>2. bundle' \in [Runs -> Bundle] /\ LeavesPendingForGood'
    BY <2>1, TruncateType DEF LeavesPendingForGood, Truncate, Torn, TypeOK
  <2> QED BY <1>1, <2>1, <2>2 DEF TypeOK, ApprovalsAreReal, SavesAreFinal, SettledIsOver,
             HandIsOpen, SpentIsGone
<1>7. CASE SaveRun \/ SaveRunFails
  <2>1. /\ UNCHANGED <<decision, late, published, spent>>
        /\ tick \in {"open", "fill"} /\ tick' \in {"consume", "idle"}
        /\ cur' = cur /\ todo' \subseteq Runs
        /\ held' \in Bundle /\ found' \in {"none", "unread", "read"}
    BY <1>7, BundleShapes DEF SaveRun, SaveRunFails, Approver, Forget, TypeOK
  <2>2. \/ UNCHANGED <<bundle, settled>>
        \/ Settle(cur, held, "cron")
    BY <1>7 DEF SaveRun, SaveRunFails
  <2>3. /\ bundle' \in [Runs -> Bundle]
        /\ settled' \subseteq Runs \X Final \X {"cron", "operator"}
        /\ SettledIsOver' /\ LeavesPendingForGood' /\ HandIsOpen'
    <3>1. CASE UNCHANGED <<bundle, settled>>
      BY <1>1, <2>1, <3>1 DEF TypeOK, SettledIsOver, LeavesPendingForGood, HandIsOpen
    <3>2. CASE Settle(cur, held, "cron")
      <4>1. cur \in Runs /\ held \in Bundle /\ held.status \in Final
        BY <2>1 DEF TypeOK, SavesAreFinal
      <4> QED BY <1>1, <2>1, <3>2, <4>1, SettleKeeps
    <3> QED BY <2>2, <3>1, <3>2
  <2> QED BY <1>1, <2>1, <2>3 DEF TypeOK, ApprovalsAreReal, SavesAreFinal, SpentIsGone
<1>8. CASE Consume
  <2>1. /\ UNCHANGED <<bundle, published, todo, settled>>
        /\ tick' = "load" /\ cur' = cur /\ held' \in Bundle /\ found' \in {"none", "unread", "read"}
    BY <1>8, BundleShapes DEF Consume, Approver, Forget
  <2>2. /\ decision' \in [Runs -> Texts] /\ late' \in [Runs -> Verdict]
        /\ spent' \subseteq Runs
    BY <1>8 DEF Consume, Consumed, TypeOK, Verdict, Texts
  <2>3. \A r \in Runs : /\ decision'[r] = decision[r] \/ decision'[r] = "none"
                        /\ late'[r] = late[r] \/ late'[r] = "none"
    BY <1>8 DEF Consume, Consumed, TypeOK
  <2>4. \A r \in spent' : decision'[r] # "approved"
    <3> SUFFICES ASSUME NEW r \in spent' PROVE decision'[r] # "approved"
      OBVIOUS
    <3>1. CASE r \in spent
      BY <2>3, <3>1 DEF SpentIsGone, TypeOK
    <3>2. CASE r = cur /\ found = "read"
      BY <1>8, <3>2 DEF Consume, Consumed, TypeOK
    <3> QED BY <1>8, <3>1, <3>2 DEF Consume
  <2> QED BY <1>1, <2>1, <2>2, <2>3, <2>4 DEF TypeOK, ApprovalsAreReal, SavesAreFinal,
             SettledIsOver, LeavesPendingForGood, HandIsOpen, SpentIsGone
<1> QED BY <1>2, <1>3, <1>4, <1>5, <1>6, <1>7, <1>8 DEF ApproverStep

LEMMA OperatorInv ==
  ASSUME IInv, OperatorStep
  PROVE  IInv'
<1> USE DEF IInv
<1>1. UNCHANGED <<decision, late, reply, posted, stager, tick, todo, cur, held, found, spent>>
  BY DEF OperatorStep, StartIngest, StartReject, ManualPublish, ManualOpen, ManualSave,
         ManualStops, Operator
<1>2. CASE ManualOpen
  <2>1. /\ UNCHANGED <<published, approvals, settled, cliRun, cliHeld>>
        /\ cli = "open" /\ cli' = "fill" /\ Truncate(cliRun)
    BY <1>2 DEF ManualOpen, Operator
  <2>2. bundle' \in [Runs -> Bundle] /\ LeavesPendingForGood'
    <3>1. cliRun \in Runs
      BY DEF TypeOK
    <3> QED BY <2>1, <3>1, TruncateType DEF LeavesPendingForGood, Truncate, Torn, TypeOK
  <2> QED BY <1>1, <2>1, <2>2 DEF TypeOK, ApprovalsAreReal, SavesAreFinal, SettledIsOver,
             HandIsOpen, SpentIsGone
<1>3. CASE ManualSave
  <2>1. /\ UNCHANGED <<published, cliRun, approvals>> /\ cli = "fill" /\ cli' = "idle"
        /\ cliHeld' \in Bundle /\ Settle(cliRun, cliHeld, "operator")
    BY <1>3, BundleShapes DEF ManualSave, Operator
  <2>2. cliRun \in Runs /\ cliHeld \in Bundle /\ cliHeld.status \in Final
    BY <2>1 DEF TypeOK, SavesAreFinal
  <2>3. /\ bundle' \in [Runs -> Bundle]
        /\ settled' \subseteq Runs \X Final \X {"cron", "operator"}
        /\ SettledIsOver' /\ LeavesPendingForGood' /\ HandIsOpen'
    BY <1>1, <2>1, <2>2, SettleKeeps
  <2> QED BY <1>1, <2>1, <2>3 DEF TypeOK, ApprovalsAreReal, SavesAreFinal, SpentIsGone
<1>4. CASE ManualPublish \/ ManualStops \/ \E r \in Runs : StartIngest(r) \/ StartReject(r)
  <2> DEFINE Sound ==
        /\ UNCHANGED <<bundle, settled>>
        /\ published' \subseteq Runs /\ approvals \subseteq approvals' /\ approvals' \subseteq Runs
        /\ cli' \in {"idle", "publish", "open"} /\ cliRun' \in Runs
        /\ cliHeld' \in Bundle
        /\ cli' = "publish" => cliRun' \in approvals'
        /\ cli' = "open" => cliHeld'.status \in Final
  <2>1. Sound
    <3>1. /\ "ingested" \in Final /\ "rejected" \in Final /\ cliHeld \in Bundle
          /\ \A r \in Runs : bundle[r] \in Bundle
      BY DEF Final, TypeOK
    <3>2. CASE ManualPublish
      BY <3>1, <3>2, BundleShapes DEF ManualPublish, Operator, TypeOK
    <3>3. CASE ManualStops
      BY <3>3, BundleShapes DEF ManualStops, Operator, TypeOK
    <3>4. ASSUME NEW r \in Runs, StartIngest(r)
          PROVE  Sound
      BY <3>1, <3>4 DEF StartIngest, Operator, TypeOK
    <3>5. ASSUME NEW r \in Runs, StartReject(r)
          PROVE  Sound
      BY <3>1, <3>5, BundleShapes DEF StartReject, Operator, TypeOK
    <3> QED BY <1>4, <3>2, <3>3, <3>4, <3>5
  <2> QED BY <1>1, <2>1 DEF TypeOK, ApprovalsAreReal, SavesAreFinal, SettledIsOver,
             LeavesPendingForGood, HandIsOpen, SpentIsGone
<1> QED BY <1>2, <1>3, <1>4 DEF OperatorStep

-----------------------------------------------------------------------------
LEMMA StepInv == IInv /\ [Next]_vars => IInv'
<1> SUFFICES ASSUME IInv, [Next]_vars PROVE IInv'
  OBVIOUS
<1>1. CASE \E r \in Runs : StagerStep(r)
  BY <1>1, StagerInv
<1>2. CASE People
  BY <1>2, PeopleInv DEF People
<1>3. CASE ApproverStep
  BY <1>3, ApproverInv
<1>4. CASE OperatorStep
  BY <1>4, OperatorInv
<1>5. CASE UNCHANGED vars
  BY <1>5 DEF IInv, TypeOK, ApprovalsAreReal, SavesAreFinal, SettledIsOver,
     LeavesPendingForGood, HandIsOpen, SpentIsGone
<1> QED BY <1>1, <1>2, <1>3, <1>4, <1>5 DEF Next

LEMMA SpecInv == Spec => []IInv
BY InitInv, StepInv, PTL DEF Spec

\* The files, the thread and the jobs' variables keep their types.
THEOREM TypeCorrect == Spec => []TypeOK
<1>1. IInv => TypeOK
  BY DEF IInv
<1> QED BY <1>1, SpecInv, PTL

\* A settled run does not come back to the pending ones, for any set of runs.
THEOREM SettledStays == Spec => []LeavesPendingForGood
<1>1. IInv => LeavesPendingForGood
  BY DEF IInv
<1> QED BY <1>1, SpecInv, PTL

\* The cron does not publish a run it has rejected.
THEOREM DiscardedStays == Spec => NoPublishAfterDiscard
<1>1. IInv /\ [Next]_vars => [Publish => <<cur, "rejected", "cron">> \notin settled]_vars
  BY DEF IInv, HandIsOpen, Publish, Approver
<1> QED BY <1>1, SpecInv, PTL DEF Spec, NoPublishAfterDiscard

\* A decision file consumed with a failure does not publish again.
THEOREM SpentStays == Spec => FailureStopsRetries
<1>1. IInv /\ [Next]_vars => [(Publish \/ PublishFails) /\ found = "read" => cur \notin spent]_vars
  BY DEF IInv, SpentIsGone, Publish, PublishFails, Approver
<1> QED BY <1>1, SpecInv, PTL DEF Spec, FailureStopsRetries

\* Every step of the jobs, the people and the disk is an approval, a publication
\* of an approved run, or nothing to the gate.
LEMMA StepImplements ==
  ASSUME IInv, [Next]_vars
  PROVE  Gate!Next \/ UNCHANGED <<approvals, published>>
<1>1. CASE \E r \in Runs : StagerStep(r)
  BY <1>1 DEF StagerStep, StagerWork, BeginStage, EndStage, PostReview, OpenRef, SaveRef, StagerStops, Stager
<1>2. CASE People
  <2>1. PICK r \in Runs : Person(r) \/ LateWrite(r) \/ LateFails(r)
    BY <1>2 DEF People
  <2>2. UNCHANGED published /\ (approvals' = approvals \/ approvals' = approvals \cup {r})
    BY <2>1 DEF Person, Click, ClickTogether, LateWrite, LateFails, Answer, Decide
  <2> QED BY <2>2 DEF Gate!Next, Gate!Approve
<1>3. CASE ApproverStep
  <2>1. CASE Publish
    <3>1. cur \in Runs /\ Gate!Publish(cur)
      BY <2>1 DEF IInv, TypeOK, ApprovalsAreReal, Publish, Approver, Gate!Publish
    <3> QED BY <3>1 DEF Gate!Next
  <2>2. CASE ~Publish
    BY <1>3, <2>2 DEF ApproverStep, Tick, EndTick, Skip, Load, ReadDecision, Poll, PollFails,
       PublishFails, OpenRun, SaveRun, SaveRunFails, Consume, ConsumeFails, ApproverCrash, Approver
  <2> QED BY <2>1, <2>2
<1>4. CASE OperatorStep
  <2>1. CASE ManualPublish
    <3>1. cliRun \in Runs /\ Gate!Publish(cliRun)
      BY <2>1 DEF IInv, TypeOK, ApprovalsAreReal, ManualPublish, Operator, Gate!Publish
    <3> QED BY <3>1 DEF Gate!Next
  <2>2. ASSUME NEW r \in Runs, StartIngest(r)
        PROVE  Gate!Next
    BY <2>2 DEF StartIngest, Gate!Next, Gate!Approve
  <2>3. CASE ManualOpen \/ ManualSave \/ ManualStops \/ \E r \in Runs : StartReject(r)
    BY <2>3 DEF ManualOpen, ManualSave, ManualStops, StartReject
  <2> QED BY <1>4, <2>1, <2>2, <2>3 DEF OperatorStep
<1>5. CASE UNCHANGED vars
  BY <1>5
<1> QED BY <1>1, <1>2, <1>3, <1>4, <1>5 DEF Next

\* Nothing reaches the database until somebody approves it: the pipeline
\* implements the gate for any runs, threads and happenings.
THEOREM Implements == Spec => ImplementsGate
<1>1. Init => Gate!Init
  BY DEF Init, Gate!Init
<1> QED BY <1>1, StepImplements, SpecInv, PTL DEF Spec, ImplementsGate, Gate!Spec
=============================================================================
