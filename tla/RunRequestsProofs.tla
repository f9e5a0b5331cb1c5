-------------------------- MODULE RunRequestsProofs ---------------------------
(***************************************************************************)
(* What the two jobs do with the requests a Slack command leaves them, for *)
(* any watches, requests and mishaps: those for a run first, then those    *)
(* for results.                                                            *)
(***************************************************************************)
EXTENDS MCRequests, WellFoundedInduction, TLAPS

\* The job takes up only files that a command queued, and those are owed a run.
FilesAreOwed == queue \subseteq owed

\* Each file name has a text, and each command a place.
SlackType ==
    /\ draft \in [Files -> Texts] /\ queued \in [Files -> Texts] /\ claimed \in Texts
    /\ target \in [Commands -> Files]
    /\ at \in [Commands -> {"idle", "draft", "queued", "claimed", "gone", "written"}]

\* Nobody else is at the file of a command that no other overlaps, and it finds
\* there what it has put there.
AloneIsAlone == \A c \in alone :
    /\ c \in Commands /\ Others(c, target[c]) = {}
    /\ \/ at[c] = "draft" /\ draft[target[c]] = "empty"
       \/ at[c] = "written" /\ draft[target[c]] = "whole"

\* At most one request is in hand, and what somebody holds open is where it says.
OneInHand ==
    /\ \A g, h \in file : g = h
    /\ step \notin {"resolve", "run"} => file = {}
HeldIsThere == \A c \in Commands :
    /\ at[c] = "queued" => target[c] \in queue
    /\ at[c] = "claimed" => target[c] \in file

\* Nobody holds the request f, where it is queued or claimed.
Unheld(f, place) == \A c \in Commands : at[c] = place => target[c] # f

\* A request that is kept is whole, and nobody can write to it any more.
KeptIsWhole == \A f \in kept :
    /\ f \in queue => queued[f] = "whole" /\ Unheld(f, "queued")
    /\ step = "resolve" /\ f \in file /\ f \notin queue => claimed = "whole" /\ Unheld(f, "claimed")

\* The job knows the watches that its requests were accepted for: it loaded them
\* after it listed the files, and an entry of `kept' is one that was not deleted.
\* A request in hand that has been made again may have been kept again since.
KnowsTheKept ==
    /\ kept \subseteq watches /\ kept \subseteq Files
    /\ step \in {"next", "resolve", "run"} => \A f \in kept : f \in paths => f \in known
    /\ step = "resolve" => \A f \in kept : f \in file /\ f \notin queue => f \in known
    /\ paths \subseteq queue

\* The watches of the request in hand are run, or are still to run.
RunsThemAll == step = "run" => \A f \in Files : file = {f} => Resolved(f) \subseteq torun \cup ran

IInv == FilesAreOwed /\ SlackType /\ AloneIsAlone /\ OneInHand /\ HeldIsThere
    /\ KeptIsWhole /\ KnowsTheKept /\ RunsThemAll

LEMMA Initially == Init => IInv
BY DEF Init, IInv, FilesAreOwed, SlackType, Texts, AloneIsAlone, OneInHand,
       HeldIsThere,        KeptIsWhole, KnowsTheKept, RunsThemAll, queue, Files

-----------------------------------------------------------------------------
(* The people.                                                             *)

LEMMA AddWatchKeeps == ASSUME IInv, NEW k \in Keys, AddWatch(k) PROVE IInv'
<1>1. FilesAreOwed' /\ SlackType' /\ AloneIsAlone' /\ OneInHand' /\ HeldIsThere' /\ KeptIsWhole'
  BY DEF IInv, FilesAreOwed, SlackType, AloneIsAlone, OneInHand, HeldIsThere, Others, KeptIsWhole, Unheld, queue, 
         AddWatch, slack
<1>2. KnowsTheKept' /\ RunsThemAll'
  BY DEF IInv, KnowsTheKept, RunsThemAll, Resolved, queue, AddWatch, slack
<1> QED BY <1>1, <1>2 DEF IInv

LEMMA DeleteWatchKeeps == ASSUME IInv, NEW k \in Keys, DeleteWatch(k) PROVE IInv'
<1>1. kept' \subseteq kept /\ kept' \subseteq watches'
  BY DEF IInv, KnowsTheKept, DeleteWatch
<1>2. FilesAreOwed' /\ SlackType' /\ AloneIsAlone' /\ OneInHand' /\ HeldIsThere'
  BY DEF IInv, FilesAreOwed, SlackType, AloneIsAlone, OneInHand, HeldIsThere, Others, queue, DeleteWatch, slack
<1>3. KeptIsWhole' /\ KnowsTheKept' /\ RunsThemAll'
  BY <1>1 DEF IInv, KeptIsWhole, Unheld, KnowsTheKept, RunsThemAll, Resolved, queue, DeleteWatch,
              slack
<1> QED BY <1>2, <1>3 DEF IInv

LEMMA RequestKeeps ==
    ASSUME IInv, NEW c \in Commands, NEW f \in Files, Request(c, f) PROVE IInv'
<1>1. FilesAreOwed' /\ KnowsTheKept' /\ RunsThemAll'
  BY DEF IInv, FilesAreOwed, KnowsTheKept, RunsThemAll, Resolved, queue, Request
<1>2. SlackType'
  BY DEF IInv, SlackType, Texts, Request
<1>3. /\ \A d \in Commands : d # c => at'[d] = at[d] /\ target'[d] = target[d]
      /\ at'[c] = "draft" /\ target'[c] = f /\ at[c] = "idle" /\ draft'[f] = "empty"
      /\ \A g \in Files : g # f => draft'[g] = draft[g]
  BY DEF IInv, SlackType, Request
<1>4. AloneIsAlone'
  <2> SUFFICES ASSUME NEW d \in alone'
               PROVE  /\ d \in Commands /\ Others(d, target[d])' = {}
                      /\ \/ at'[d] = "draft" /\ draft'[target'[d]] = "empty"
                         \/ at'[d] = "written" /\ draft'[target'[d]] = "whole"
    BY DEF AloneIsAlone
  <2>1. CASE d = c
    <3>1. Others(c, f) = {}
      <4>1. c \notin alone
        BY <1>3 DEF IInv, AloneIsAlone
      <4> QED BY <4>1, <2>1 DEF Request
    <3> QED BY <1>3, <2>1, <3>1 DEF Others
  <2>2. CASE d # c
    <3>1. d \in alone /\ d \notin Others(c, f)
      BY <2>2 DEF Request
    <3>2. d \in Commands /\ Others(d, target[d]) = {} /\ target[d] \in Files /\ at[d] # "idle"
      BY <3>1 DEF IInv, AloneIsAlone, SlackType
    <3>3. target[d] # f
      BY <3>1, <3>2, <2>2 DEF Others
    <3> QED BY <1>3, <2>2, <3>1, <3>2, <3>3 DEF IInv, AloneIsAlone, Others
  <2> QED BY <2>1, <2>2
<1>5. KeptIsWhole' /\ OneInHand' /\ HeldIsThere'
  BY <1>3 DEF IInv, KeptIsWhole, OneInHand, HeldIsThere, Unheld, queue,
                 Request
<1> QED BY <1>1, <1>2, <1>4, <1>5 DEF IInv

\* A command that writes to a request of its own does not write to a kept one.
LEMMA WriteKeeps == ASSUME IInv, NEW c \in Commands, Write(c) PROVE IInv'
<1> DEFINE f == target[c]
<1>1. f \in Files /\ at[c] \in {"draft", "queued", "claimed", "gone"}
  BY DEF IInv, SlackType, Write
<1>2. PICK new \in {"whole", "torn"} :
        /\ draft' = IF at[c] = "draft" THEN [draft EXCEPT ![f] = new] ELSE draft
        /\ queued' = IF at[c] = "queued" THEN [queued EXCEPT ![f] = new] ELSE queued
        /\ claimed' = IF at[c] = "claimed" THEN new ELSE claimed
        /\ at[c] = "draft" => Over(draft[f], new)
        /\ at[c] = "queued" => Over(queued[f], new)
        /\ at[c] = "claimed" => Over(claimed, new)
  BY DEF Write
<1> HIDE DEF f
<1>3. /\ at' = [at EXCEPT ![c] = "written"]
      /\ UNCHANGED <<watches, target, alone, step, paths, known, file, torun, owed, ran, kept>>
  BY DEF Write
<1>4. SlackType'
  BY <1>1, <1>2, <1>3 DEF IInv, SlackType, Texts
<1>5. queue' = queue
  <2>1. \A g \in Files : queued'[g] # "none" <=> queued[g] # "none"
    <3>1. at[c] = "queued" => queued[f] # "none"
      BY DEF IInv, HeldIsThere, queue, f
    <3> QED BY <1>1, <1>2, <3>1 DEF IInv, SlackType
  <2> QED BY <2>1 DEF queue
<1>6. FilesAreOwed' /\ RunsThemAll' /\ KnowsTheKept'
  BY <1>3, <1>5 DEF IInv, FilesAreOwed, RunsThemAll, KnowsTheKept, Resolved
<1>7. HeldIsThere' /\ OneInHand'
  BY <1>3, <1>5 DEF IInv, HeldIsThere, OneInHand, SlackType
<1>8. AloneIsAlone'
  <2> SUFFICES ASSUME NEW d \in alone
               PROVE  /\ d \in Commands /\ Others(d, target[d])' = {}
                      /\ \/ at'[d] = "draft" /\ draft'[target[d]] = "empty"
                         \/ at'[d] = "written" /\ draft'[target[d]] = "whole"
    BY <1>3 DEF AloneIsAlone
  <2>1. /\ d \in Commands /\ Others(d, target[d]) = {} /\ target[d] \in Files
        /\ \/ at[d] = "draft" /\ draft[target[d]] = "empty"
           \/ at[d] = "written" /\ draft[target[d]] = "whole"
    BY DEF IInv, AloneIsAlone, SlackType
  <2>2. Others(d, target[d])' = {}
    BY <1>1, <1>3, <2>1 DEF Others, IInv, SlackType
  <2>3. CASE d = c
    <3>1. at[c] = "draft" /\ draft[f] = "empty"
      BY <1>1, <2>1, <2>3 DEF f
    <3>2. new = "whole"
      BY <1>2, <3>1 DEF Over
    <3> QED BY <1>1, <1>2, <1>3, <2>1, <2>2, <2>3, <3>1, <3>2 DEF IInv, SlackType, f
  <2>4. CASE d # c
    <3>1. target[d] # f
      BY <1>1, <2>1, <2>4 DEF Others, f
    <3> QED BY <1>1, <1>2, <1>3, <2>1, <2>2, <2>4, <3>1 DEF IInv, SlackType
  <2> QED BY <2>3, <2>4
<1>9. KeptIsWhole'
  <2> SUFFICES ASSUME NEW g \in kept
               PROVE  /\ g \in queue => queued'[g] = "whole" /\ Unheld(g, "queued")'
                      /\ step = "resolve" /\ g \in file /\ g \notin queue
                            => claimed' = "whole" /\ Unheld(g, "claimed")'
    BY <1>3, <1>5 DEF KeptIsWhole
  <2>1. \A p : Unheld(g, p) /\ p # "written" => Unheld(g, p)'
    BY <1>3 DEF Unheld, IInv, SlackType
  <2>2. ASSUME g \in queue PROVE queued'[g] = "whole" /\ Unheld(g, "queued")'
    <3>1. queued[g] = "whole" /\ Unheld(g, "queued") /\ g \in Files
      BY <2>2 DEF IInv, KeptIsWhole, KnowsTheKept
    <3>2. at[c] = "queued" => f # g
      BY <3>1 DEF Unheld, f
    <3> QED BY <1>1, <1>2, <2>1, <3>1, <3>2 DEF IInv, SlackType
  <2>3. ASSUME step = "resolve", g \in file, g \notin queue
        PROVE  claimed' = "whole" /\ Unheld(g, "claimed")'
    <3>1. claimed = "whole" /\ Unheld(g, "claimed")
      BY <2>3 DEF IInv, KeptIsWhole
    <3>2. at[c] # "claimed"
      BY <2>3, <3>1 DEF IInv, HeldIsThere, OneInHand, Unheld
    <3> QED BY <1>2, <2>1, <3>1, <3>2
  <2> QED BY <2>2, <2>3
<1> QED BY <1>4, <1>6, <1>7, <1>8, <1>9 DEF IInv

\* The rename of one command: what it makes of places, and what it leaves alone.
LEMMA RenameMoves ==
    ASSUME IInv, NEW c \in Commands, Rename(c)
    PROVE  LET f == target[c] IN
           /\ f \in Files /\ at[c] = "written" /\ draft[f] # "none"
           /\ queued' = [queued EXCEPT ![f] = draft[f]] /\ draft' = [draft EXCEPT ![f] = "none"]
           /\ queue' = queue \cup {f} /\ alone' = alone \ {c}
           /\ at'[c] = "idle" /\ target' = [target EXCEPT ![c] = All]
           /\ at' \in [Commands -> {"idle", "draft", "queued", "claimed", "gone", "written"}]
           /\ \A d \in Commands \ {c} :
                 /\ target'[d] = target[d] /\ (at'[d] = "idle" <=> at[d] = "idle")
                 /\ target[d] # f => at'[d] = at[d]
                 /\ at'[d] = "claimed" => at[d] = "claimed"
<1> DEFINE f == target[c]
<1>1. f \in Files /\ SlackType
  BY DEF IInv, SlackType
<1>2. /\ at[c] = "written" /\ draft[f] # "none" /\ alone' = alone \ {c}
      /\ queued' = [queued EXCEPT ![f] = draft[f]] /\ draft' = [draft EXCEPT ![f] = "none"]
      /\ at' = [Moved(f, "draft", "queued") EXCEPT ![c] = "idle"]
      /\ target' = [target EXCEPT ![c] = All]
  BY DEF Rename, Answered
<1>3. queue' = queue \cup {f}
  BY <1>1, <1>2 DEF queue, SlackType
<1>4. /\ at'[c] = "idle"
      /\ at' \in [Commands -> {"idle", "draft", "queued", "claimed", "gone", "written"}]
  BY <1>1, <1>2 DEF Moved, SlackType
<1>5. ASSUME NEW d \in Commands \ {c}
      PROVE  /\ target'[d] = target[d] /\ (at'[d] = "idle" <=> at[d] = "idle")
             /\ target[d] # f => at'[d] = at[d]
             /\ at'[d] = "claimed" => at[d] = "claimed"
  BY <1>1, <1>2 DEF Moved, SlackType
<1> QED BY <1>1, <1>2, <1>3, <1>4, <1>5

LEMMA RenameKeeps == ASSUME IInv, NEW c \in Commands, Rename(c) PROVE IInv'
<1> DEFINE f == target[c]
<1>1. /\ f \in Files /\ at[c] = "written" /\ draft[f] # "none"
      /\ queued' = [queued EXCEPT ![f] = draft[f]] /\ draft' = [draft EXCEPT ![f] = "none"]
      /\ queue' = queue \cup {f} /\ alone' = alone \ {c}
      /\ at'[c] = "idle" /\ target' = [target EXCEPT ![c] = All]
      /\ at' \in [Commands -> {"idle", "draft", "queued", "claimed", "gone", "written"}]
      /\ \A d \in Commands \ {c} :
            /\ target'[d] = target[d] /\ (at'[d] = "idle" <=> at[d] = "idle")
            /\ target[d] # f => at'[d] = at[d]
            /\ at'[d] = "claimed" => at[d] = "claimed"
  BY RenameMoves
<1>2. /\ UNCHANGED <<watches, claimed, step, paths, known, file, torun, ran>>
      /\ owed' = owed \cup {f}
      /\ kept' = IF c \notin alone THEN kept \ {f}
                 ELSE IF f \in watches /\ f \notin queue THEN kept \cup {f} ELSE kept
  BY DEF Rename
<1> HIDE DEF f
<1>3. FilesAreOwed' /\ RunsThemAll' /\ OneInHand'
  BY <1>1, <1>2 DEF IInv, FilesAreOwed, RunsThemAll, OneInHand, Resolved
<1>4. SlackType'
  BY <1>1, <1>2 DEF IInv, SlackType, Files, Texts
<1>5. AloneIsAlone'
  <2> SUFFICES ASSUME NEW d \in alone'
               PROVE  /\ d \in Commands /\ Others(d, target[d])' = {}
                      /\ \/ at'[d] = "draft" /\ draft'[target'[d]] = "empty"
                         \/ at'[d] = "written" /\ draft'[target'[d]] = "whole"
    BY DEF AloneIsAlone
  <2>1. /\ d \in Commands \ {c} /\ Others(d, target[d]) = {} /\ target[d] \in Files
        /\ \/ at[d] = "draft" /\ draft[target[d]] = "empty"
           \/ at[d] = "written" /\ draft[target[d]] = "whole"
    BY <1>1 DEF IInv, AloneIsAlone, SlackType
  <2>2. target[d] # f
    BY <1>1, <2>1 DEF Others, f
  <2>3. Others(d, target[d])' = {}
    BY <1>1, <2>1 DEF Others
  <2> QED BY <1>1, <2>1, <2>2, <2>3 DEF IInv, SlackType
<1>6. HeldIsThere'
  BY <1>1, <1>2, <1>4 DEF IInv, HeldIsThere
<1>7. \A g : g # f => (Unheld(g, "queued") => Unheld(g, "queued")')
  BY <1>1 DEF Unheld
<1>8. \A g : Unheld(g, "claimed") => Unheld(g, "claimed")'
  BY <1>1 DEF Unheld
<1>9. KeptIsWhole'
  <2> SUFFICES ASSUME NEW g \in kept'
               PROVE  /\ g \in queue' => queued'[g] = "whole" /\ Unheld(g, "queued")'
                      /\ step = "resolve" /\ g \in file /\ g \notin queue'
                            => claimed = "whole" /\ Unheld(g, "claimed")'
    BY <1>2 DEF KeptIsWhole
  <2>1. CASE g # f
    <3>1. g \in kept /\ g \in Files
      BY <1>2, <2>1 DEF IInv, KnowsTheKept
    <3> QED BY <1>1, <1>7, <1>8, <2>1, <3>1 DEF IInv, KeptIsWhole, SlackType
  <2>2. CASE g = f
    <3>1. c \in alone
      BY <1>2, <2>2
    <3>2. draft[f] = "whole" /\ Others(c, f) = {}
      BY <1>1, <3>1 DEF IInv, AloneIsAlone, f
    <3>3. \A d \in Commands \ {c} : target[d] = f => at[d] = "idle"
      BY <3>2 DEF Others
    <3>4. Unheld(g, "queued")'
      <4> SUFFICES ASSUME NEW d \in Commands, at'[d] = "queued", target'[d] = g PROVE FALSE
        BY DEF Unheld
      <4> QED BY <1>1, <2>2, <3>3
    <3>5. queued'[f] = "whole" /\ f \in queue'
      BY <1>1, <3>2 DEF IInv, SlackType
    <3> QED BY <2>2, <3>4, <3>5
  <2> QED BY <2>1, <2>2
<1>10. KnowsTheKept'
  BY <1>1, <1>2 DEF IInv, KnowsTheKept
<1> QED BY <1>3, <1>4, <1>5, <1>6, <1>9, <1>10 DEF IInv

\* A command that fails leaves its file as it is.
LEMMA FailureKeeps ==
    ASSUME IInv, NEW c \in Commands, RenameFails(c) \/ CommandFails(c) PROVE IInv'
<1>1. /\ at' = [at EXCEPT ![c] = "idle"] /\ target' = [target EXCEPT ![c] = All]
      /\ alone' = alone \ {c}
      /\ UNCHANGED <<watches, draft, queued, claimed, step, paths, known, file, torun, owed, ran, kept>>
  BY DEF RenameFails, CommandFails, Answered
<1>2. queue' = queue
  BY <1>1 DEF queue
<1>3. FilesAreOwed' /\ RunsThemAll' /\ OneInHand' /\ KnowsTheKept'
  BY <1>1, <1>2 DEF IInv, FilesAreOwed, RunsThemAll, OneInHand, KnowsTheKept, Resolved
<1>4. SlackType'
  BY <1>1 DEF IInv, SlackType, Files
<1>5. HeldIsThere'
  BY <1>1, <1>2, <1>4 DEF IInv, HeldIsThere, SlackType
<1>6. AloneIsAlone'
  BY <1>1 DEF IInv, AloneIsAlone, Others, SlackType
<1>7. \A g, place : place # "idle" /\ Unheld(g, place) => Unheld(g, place)'
  BY <1>1 DEF Unheld, IInv, SlackType
<1>8. KeptIsWhole'
  <2> SUFFICES ASSUME NEW g \in kept
               PROVE  /\ g \in queue => queued[g] = "whole" /\ Unheld(g, "queued")'
                      /\ step = "resolve" /\ g \in file /\ g \notin queue
                            => claimed = "whole" /\ Unheld(g, "claimed")'
    BY <1>1, <1>2 DEF KeptIsWhole
  <2> QED BY <1>7 DEF IInv, KeptIsWhole
<1> QED BY <1>3, <1>4, <1>5, <1>6, <1>8 DEF IInv

-----------------------------------------------------------------------------
(* The job.                                                                *)

\* The job alone moves: neither the people nor their files do.
LEMMA JobSteps ==
    ASSUME IInv, UNCHANGED people, UNCHANGED claimed, step' # "resolve",
           OneInHand', RunsThemAll', KnowsTheKept', file \subseteq file'
    PROVE  IInv'
<1>1. FilesAreOwed' /\ SlackType' /\ AloneIsAlone' /\ HeldIsThere' /\ KeptIsWhole'
  BY DEF IInv, people, slack, FilesAreOwed, queue, SlackType, AloneIsAlone, Others, HeldIsThere,
         KeptIsWhole, Unheld
<1> QED BY <1>1 DEF IInv

LEMMA StartKeeps == ASSUME IInv, Start PROVE IInv'
<1>1. /\ UNCHANGED people /\ UNCHANGED claimed /\ step' # "resolve"
      /\ OneInHand' /\ RunsThemAll' /\ KnowsTheKept' /\ file \subseteq file'
  BY DEF IInv, OneInHand, KnowsTheKept, RunsThemAll, Start, Job, people, slack, queue
<1> QED BY <1>1, JobSteps

LEMMA RunKeeps == ASSUME IInv, NEW f \in Files, Run(f) PROVE IInv'
<1>1. /\ UNCHANGED people /\ UNCHANGED claimed /\ step' # "resolve"
      /\ OneInHand' /\ KnowsTheKept' /\ file \subseteq file'
  BY DEF IInv, OneInHand, KnowsTheKept, Run, Job, people, slack, queue
<1>2. RunsThemAll'
  BY DEF RunsThemAll, Run, Job, Resolved
<1> QED BY <1>1, <1>2, JobSteps

LEMMA RunOneKeeps == ASSUME IInv, NEW w \in Keys, RunOne(w) PROVE IInv'
<1>1. /\ UNCHANGED people /\ UNCHANGED claimed /\ step' # "resolve"
      /\ OneInHand' /\ KnowsTheKept' /\ file \subseteq file'
  BY DEF IInv, OneInHand, KnowsTheKept, RunOne, Job, people, slack, queue
<1>2. RunsThemAll'
  BY DEF IInv, RunsThemAll, RunOne, Job, Resolved
<1> QED BY <1>1, <1>2, JobSteps

LEMMA PassingKeeps ==
    ASSUME IInv, End \/ StartFails \/ \E f \in Files : ClaimFails(f) PROVE IInv'
<1>1. /\ UNCHANGED people /\ UNCHANGED claimed /\ step' # "resolve"
      /\ OneInHand' /\ RunsThemAll' /\ KnowsTheKept' /\ file \subseteq file'
  BY DEF IInv, OneInHand, KnowsTheKept, RunsThemAll, End, StartFails, ClaimFails, Job, people,
         slack, queue
<1> QED BY <1>1, JobSteps

LEMMA ClaimKeeps == ASSUME IInv, NEW f \in Files, Claim(f) PROVE IInv'
<1>1. /\ step = "next" /\ step' = "resolve" /\ f \in paths /\ paths' = paths \ {f} /\ f \in queue
      /\ claimed' = queued[f] /\ queued' = [queued EXCEPT ![f] = "none"]
      /\ at' = Moved(f, "queued", "claimed") /\ file' = {f} /\ owed' = owed \ {f}
      /\ UNCHANGED <<watches, draft, target, alone, kept, known, torun, ran>>
  BY DEF Claim
<1>2. queue' = queue \ {f}
  BY <1>1 DEF IInv, SlackType, queue
<1>3. file = {}
  BY <1>1 DEF IInv, OneInHand
<1>4. /\ at' \in [Commands -> {"idle", "draft", "queued", "claimed", "gone", "written"}]
      /\ \A d \in Commands :
            /\ at[d] \in {"idle", "draft", "written"} => at'[d] = at[d]
            /\ at'[d] = "idle" => at[d] = "idle"
            /\ target[d] # f => at'[d] = at[d]
            /\ target[d] = f => at'[d] # "queued"
            /\ at'[d] = "claimed" => at[d] = "queued" /\ target[d] = f
  BY <1>1, <1>3 DEF Moved, IInv, SlackType, HeldIsThere
<1>5. FilesAreOwed' /\ OneInHand' /\ RunsThemAll'
  BY <1>1, <1>2 DEF IInv, FilesAreOwed, OneInHand, RunsThemAll
<1>6. SlackType'
  BY <1>1, <1>4 DEF IInv, SlackType, Texts
<1>7. HeldIsThere'
  BY <1>1, <1>2, <1>4 DEF IInv, HeldIsThere
<1>8. AloneIsAlone'
  BY <1>1, <1>4 DEF IInv, AloneIsAlone, Others
<1>9. KeptIsWhole'
  <2> SUFFICES ASSUME NEW g \in kept
               PROVE  /\ g \in queue' => queued'[g] = "whole" /\ Unheld(g, "queued")'
                      /\ g \in file' /\ g \notin queue'
                            => claimed' = "whole" /\ Unheld(g, "claimed")'
    BY <1>1 DEF KeptIsWhole
  <2>1. g \in queue => queued[g] = "whole" /\ Unheld(g, "queued")
    BY DEF IInv, KeptIsWhole
  <2>2. CASE g = f
    <3>1. Unheld(f, "claimed")'
      BY <1>1, <1>4, <2>1, <2>2 DEF Unheld
    <3> QED BY <1>1, <1>2, <2>1, <2>2, <3>1
  <2>3. CASE g # f
    <3>1. g \in queue' => Unheld(g, "queued")'
      BY <1>1, <1>2, <1>4, <2>1, <2>3 DEF Unheld
    <3> QED BY <1>1, <1>2, <2>1, <2>3, <3>1 DEF IInv, SlackType
  <2> QED BY <2>2, <2>3
<1>10. KnowsTheKept'
  BY <1>1, <1>2 DEF IInv, KnowsTheKept
<1> QED BY <1>5, <1>6, <1>7, <1>8, <1>9, <1>10 DEF IInv

\* The claim is put away, or left by a job that is killed.
LEMMA PutAwayKeeps ==
    ASSUME IInv, PutAway, step' \in {"next", "idle"}, paths' \subseteq paths,
           step' = "next" => step \in {"resolve", "run"} /\ UNCHANGED known
    PROVE  IInv'
<1>1. /\ claimed' = "none" /\ file' = {}
      /\ at' = [d \in Commands |-> IF at[d] = "claimed" THEN "gone" ELSE at[d]]
      /\ UNCHANGED <<watches, draft, queued, target, alone, owed, kept>>
  BY DEF PutAway
<1>2. queue' = queue
  BY <1>1 DEF queue
<1>3. FilesAreOwed' /\ OneInHand' /\ RunsThemAll' /\ KnowsTheKept'
  BY <1>1, <1>2 DEF IInv, FilesAreOwed, OneInHand, RunsThemAll, KnowsTheKept
<1>4. SlackType'
  BY <1>1 DEF IInv, SlackType, Texts
<1>5. HeldIsThere' /\ AloneIsAlone'
  BY <1>1, <1>2 DEF IInv, HeldIsThere, AloneIsAlone, Others
<1>6. KeptIsWhole'
  BY <1>1, <1>2 DEF IInv, KeptIsWhole, Unheld
<1> QED BY <1>3, <1>4, <1>5, <1>6 DEF IInv

LEMMA EndsKeep == ASSUME IInv, Finish \/ Crash \/ \E f \in Files : Drop(f) PROVE IInv'
<1>1. /\ PutAway /\ step' \in {"next", "idle"} /\ paths' \subseteq paths
      /\ step' = "next" => step \in {"resolve", "run"} /\ UNCHANGED known
  BY DEF Finish, Crash, Drop
<1> QED BY <1>1, PutAwayKeeps

LEMMA StepKeeps == IInv /\ [Next]_vars => IInv'
<1> SUFFICES ASSUME IInv, [Next]_vars PROVE IInv'
  OBVIOUS
<1>1. CASE UNCHANGED vars
  BY <1>1 DEF vars, people, slack, IInv, FilesAreOwed, SlackType, AloneIsAlone, Others, OneInHand,
              HeldIsThere, KeptIsWhole, Unheld, KnowsTheKept, RunsThemAll, Resolved, queue
<1>2. CASE Next
  BY <1>2, KeysAssumption, AddWatchKeeps, DeleteWatchKeeps, RequestKeeps, WriteKeeps, RenameKeeps,
     FailureKeeps, StartKeeps, ClaimKeeps, RunKeeps, RunOneKeeps, PassingKeeps, EndsKeep
  DEF Next, Work
<1> QED BY <1>1, <1>2

-----------------------------------------------------------------------------
(* The job claims only files that a command queued since they were last     *)
(* claimed: nothing it does itself brings a request back (the rename before *)
(* the run, pipeline.py).                                                   *)
THEOREM RunOnce == Spec => NeverRerun
<1>1. IInv /\ [Next]_vars => [\A f \in Files : Claim(f) => f \in owed]_vars
  BY DEF IInv, FilesAreOwed, Claim
<1> QED BY <1>1, Initially, StepKeeps, PTL DEF Spec, NeverRerun

(* A request typed as its watch is listed, from a command that no other for *)
(* its key overlapped, is dropped only if that watch was deleted after it   *)
(* was accepted: it is whole when the job reads it (write_json_request,     *)
(* scrapers/mod.rs), and files are listed before the watches are loaded.    *)
THEOREM DroppedAreDeleted == Spec => DropsOnlyDeleted
<1>1. IInv /\ [Next]_vars => [\A f \in Keys : Drop(f) => f \notin kept \/ f \in queue]_vars
  <2> SUFFICES ASSUME IInv, NEW f \in Keys, Drop(f), f \in kept, f \notin queue PROVE FALSE
    OBVIOUS
  <2>1. f \in known /\ claimed = "whole"
    BY DEF IInv, KnowsTheKept, KeptIsWhole, Drop
  <2>2. f # All
    BY KeysAssumption
  <2> QED BY <2>1, <2>2 DEF Drop, Resolved
<1> QED BY <1>1, Initially, StepKeeps, PTL DEF Spec, DropsOnlyDeleted

(* A finished request has run every watch it stands for that the job knew   *)
(* of, whatever raised in between.                                          *)
THEOREM FinishedRan == Spec => FinishRanAll
<1> DEFINE Finished(f) == file = {f} /\ file' = {} /\ step # "resolve" /\ step' # "idle"
<1>1. IInv /\ [Next]_vars => [\A f \in Files : Finished(f) => Resolved(f) \subseteq ran]_vars
  <2> SUFFICES ASSUME IInv, Next, NEW f \in Files, Finished(f) PROVE Resolved(f) \subseteq ran
    BY DEF vars
  <2>1. Finish
    BY DEF Next, Work, AddWatch, DeleteWatch, Request, Write, Rename, RenameFails, CommandFails,
           ClaimFails, Start, StartFails, End, Claim, Run, Drop, RunOne, Crash, Job
  <2> QED BY <2>1 DEF IInv, RunsThemAll, Finish
<1> QED BY <1>1, Initially, StepKeeps, PTL DEF Spec, FinishRanAll

-----------------------------------------------------------------------------
(* Requests for results.  The job lists files that are in the queue, takes  *)
(* them out only as it moves them, and whoever stops it with one in hand    *)
(* owes that one an import again.                                           *)

\* A request in the queue is owed an import, but for the one in hand that has had
\* its turn; what is called imported was.
RequestsAreOwed ==
    /\ listing \subseteq results /\ results \subseteq Names
    /\ \A f \in results : f \in unpaid \/ (drain \in {"imported", "raised"} /\ Results!InHand(f))
    /\ drain = "imported" => \A f \in Names : Results!InHand(f) => f \in imported

\* The first of some names is one of them.
LEMMA FirstName ==
    ASSUME NEW S, S \subseteq Nat, S # {} PROVE Results!Min(S) \in S
<1> DEFINE Less == OpToRel(<, Nat)
<1>1. IsWellFoundedOn(Less, Nat)
  BY NatLessThanWellFounded
<1>2. PICK a \in S : \A b \in S : ~(<<b, a>> \in Less)
  <2> HIDE DEF Less
  <2> QED BY <1>1, WFMin
<1>3. ASSUME NEW b \in S PROVE a <= b
  <2> SUFFICES ASSUME b < a PROVE FALSE
    OBVIOUS
  <2> QED BY <1>2 DEF OpToRel
<1> QED BY <1>3 DEF Results!Min

LEMMA InHandIsQueued ==
    ASSUME RequestsAreOwed, NEW f, Results!InHand(f) PROVE f \in listing /\ f \in results
<1>1. listing \subseteq Nat /\ listing # {} /\ f = Results!Min(listing)
  BY NamesAssumption DEF RequestsAreOwed, Results!InHand
<1> QED BY <1>1, FirstName DEF RequestsAreOwed

LEMMA ResultsBegin == Results!Init => RequestsAreOwed
BY DEF Results!Init, RequestsAreOwed

LEMMA CommandOwes ==
    ASSUME RequestsAreOwed, NEW f \in Names, Results!Command(f) PROVE RequestsAreOwed'
BY DEF RequestsAreOwed, Results!Command, Results!InHand

\* The job starts, ends or imports a file.
LEMMA ReadingOwes ==
    ASSUME RequestsAreOwed,
           \/ Results!Start \/ Results!End
           \/ \E f \in Names : Results!Import(f) \/ Results!ImportFails(f)
    PROVE  RequestsAreOwed'
<1>1. CASE Results!Start
  BY <1>1 DEF RequestsAreOwed, Results!Start, Results!InHand
<1>2. CASE Results!End
  BY <1>2 DEF RequestsAreOwed, Results!End, Results!InHand
<1>3. ASSUME NEW f \in Names, Results!Import(f) PROVE RequestsAreOwed'
  BY <1>3 DEF RequestsAreOwed, Results!Import, Results!InHand
<1>4. ASSUME NEW f \in Names, Results!ImportFails(f) PROVE RequestsAreOwed'
  BY <1>4 DEF RequestsAreOwed, Results!ImportFails, Results!InHand
<1> QED BY <1>1, <1>2, <1>3, <1>4

LEMMA MovingOwes ==
    ASSUME RequestsAreOwed, NEW f \in Names, Results!MoveToDone(f) \/ Results!MoveToFailed(f)
    PROVE  RequestsAreOwed'
<1>1. /\ drain \in {"imported", "raised"} /\ drain' = "next" /\ Results!InHand(f)
      /\ results' = results \ {f} /\ listing' = listing \ {f} /\ UNCHANGED unpaid
  BY DEF Results!MoveToDone, Results!MoveToFailed
<1>2. \A g \in results : Results!InHand(g) => g = f
  BY <1>1 DEF Results!InHand
<1>3. \A g \in results' : g \in unpaid'
  BY <1>1, <1>2 DEF RequestsAreOwed
<1> QED BY <1>1, <1>3 DEF RequestsAreOwed

\* Whatever stops the job, the file it had taken up is owed.
LEMMA StoppingOwes ==
    ASSUME RequestsAreOwed,
           Results!MoveToDoneFails \/ Results!MoveToFailedFails \/ Results!Crash
    PROVE  RequestsAreOwed'
<1>1. CASE Results!MoveToDoneFails
  BY <1>1 DEF RequestsAreOwed, Results!MoveToDoneFails, Results!Mishap, Results!InHand
<1>2. CASE Results!Ends
  BY <1>2 DEF RequestsAreOwed, Results!Ends, Results!InHand
<1> QED BY <1>1, <1>2 DEF Results!MoveToFailedFails, Results!Crash

LEMMA ResultsOwe == RequestsAreOwed /\ [Results!Next]_resultVars => RequestsAreOwed'
<1> SUFFICES ASSUME RequestsAreOwed, [Results!Next]_resultVars PROVE RequestsAreOwed'
  OBVIOUS
<1>1. CASE UNCHANGED resultVars
  BY <1>1 DEF resultVars, RequestsAreOwed, Results!InHand
<1>2. CASE Results!Next
  BY <1>2, CommandOwes, ReadingOwes, MovingOwes, StoppingOwes DEF Results!Next, Results!Work
<1> QED BY <1>1, <1>2

\* A behaviour that follows one hand-over leaves the other at its beginning.
LEMMA BothAreEach ==
    FairBoth => /\ Init /\ [][Next]_vars
                /\ Results!Init /\ [][Results!Next]_resultVars
<1>1. [NextBoth]_<<part, vars, resultVars>> => [Next]_vars /\ [Results!Next]_resultVars
  BY DEF NextBoth
<1>2. InitBoth => Init /\ Results!Init
  BY DEF InitBoth
<1>3. FairBoth => InitBoth /\ [][NextBoth]_<<part, vars, resultVars>>
  BY PTL DEF FairBoth
<1> QED BY <1>1, <1>2, <1>3, PTL

(* No request for results is lost, called done without its rows, or imported *)
(* again unasked, wherever the job is killed and whichever move fails        *)
(* (drain_requests, usamw_results.py).                                       *)
THEOREM ResultsSettle == FairBoth => SettledOnce
<1> DEFINE Right(f) == Results!LeavesForItsPlace(f) /\ Results!ImportedOnce(f)
<1>1. ASSUME RequestsAreOwed, Results!Next, NEW f \in Names PROVE Right(f)
  <2>1. Results!ImportedOnce(f)
    BY <1>1, InHandIsQueued DEF RequestsAreOwed, Results!ImportedOnce, Results!Import
  <2>2. ASSUME f \in results, f \notin results'
        PROVE  Results!MoveToDone(f) \/ Results!MoveToFailed(f)
    BY <1>1, <2>2 DEF Results!Next, Results!Work, Results!Command, Results!Start, Results!End,
                      Results!Import, Results!ImportFails, Results!MoveToDone, Results!MoveToFailed,
                      Results!MoveToDoneFails, Results!MoveToFailedFails, Results!Crash, Results!Ends
  <2>3. Results!LeavesForItsPlace(f)
    BY <1>1, <2>2 DEF Results!LeavesForItsPlace, Results!MoveToDone, Results!MoveToFailed, RequestsAreOwed
  <2> QED BY <2>1, <2>3
<1>2. RequestsAreOwed /\ [Results!Next]_resultVars => [\A f \in Names : Right(f)]_(Results!vars)
  BY <1>1 DEF resultVars, Results!vars
<1> QED BY <1>2, ResultsBegin, ResultsOwe, BothAreEach, PTL
        DEF SettledOnce, Results!SettledOnce
===============================================================================
