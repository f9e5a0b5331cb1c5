---------------------------- MODULE RunRequests -----------------------------
(***************************************************************************)
(* The /meet-run hand-over.  The API accepts a request for a watch key (or *)
(* for all watches), writes run_requests/<key>.json.tmp and renames it to  *)
(* <key>.json; two commands for one key may be at it at once.  The job     *)
(* `run --requested' lists the files, loads the watches, and for each file *)
(* claims it by a rename, reads it, runs its watches and removes the       *)
(* claim.  People add and delete watches meanwhile.                        *)
(***************************************************************************)
EXTENDS Naturals

CONSTANTS
    Keys,      \* spellings of watch keys
    SameKey,   \* pairs of spellings that differ in case only
    All,       \* the file name of a request for every watch
    Commands,  \* bound: commands the API can be serving at one time
    Listed,    \* watches at the start
    Edited,    \* bound: watches that people add and delete
    Asked,     \* bound: the files that commands write
    Together,  \* bound: sets {f, g} of files that may be written at one time
    MaxMishaps \* bound: how often a command, a claim, the job or its loading
               \* of the watches fails

Files == Keys \cup {All}

ASSUME KeysAssumption ==
    /\ All \notin Keys /\ Listed \cup Edited \subseteq Keys /\ Asked \subseteq Files
    /\ SameKey \subseteq SUBSET Keys /\ MaxMishaps \in Nat

Alike(a, b) == a = b \/ {a, b} \in SameKey

\* What a file holds: a request, nothing since it was last truncated, or a
\* shorter request written over a longer one.
Texts == {"none", "empty", "whole", "torn"}

VARIABLES
    watches,   \* keys in watches.json, as they were typed
    draft,     \* text of <name>.json.tmp, for each file name
    queued,    \* text of <name>.json
    claimed,   \* text of the claim <name>.json.processing in hand ("none": no
               \* claim is; nobody reads one that a killed job left)
    target,    \* the file name each command writes (All when it is idle)
    at,        \* where the file is that a command holds open; "written": it
               \* has still to rename; "idle": none is served
    alone,     \* history: commands that no other for their file overlapped
    step,      \* step of the job
    paths,     \* files it has still to take, from the listing at its start
    known,     \* watches it loaded at its start
    file,      \* the request it has claimed ({} or one file)
    mishaps,   \* failures so far
    torun,     \* watches of that request still to run
    owed,      \* history: requests accepted and not claimed since
    ran,       \* history: keys run for the request in hand
    kept       \* history: requested keys, spelled as stored, that have been
               \* watched since their request was first accepted from a
               \* command that no other overlapped

slack == <<draft, queued, target, at, alone>>
people == <<watches, slack, owed, kept>>
vars == <<people, claimed, step, paths, known, file, mishaps, torun, ran>>

\* run_requests/*.json
queue == {f \in Files : queued[f] # "none"}

Init ==
    /\ watches = Listed /\ draft = [f \in Files |-> "none"]
    /\ queued = [f \in Files |-> "none"] /\ claimed = "none"
    /\ target = [c \in Commands |-> All] /\ at = [c \in Commands |-> "idle"] /\ alone = {}
    /\ step = "idle" /\ paths = {} /\ known = {} /\ file = {} /\ torun = {} /\ mishaps = 0
    /\ owed = {} /\ ran = {} /\ kept = {}

Watched(k) == \E w \in watches : Alike(w, k)

\* JsonListStore refuses a key that differs from a stored one in case only.
AddWatch(k) ==
    /\ ~ Watched(k)
    /\ watches' = watches \cup {k}
    /\ UNCHANGED <<slack, claimed, mishaps, step, paths, known, file, torun, owed, ran, kept>>

DeleteWatch(k) ==
    /\ Watched(k)
    /\ watches' = {w \in watches : ~ Alike(w, k)}
    /\ kept' = {q \in kept : ~ Alike(q, k)}
    /\ UNCHANGED <<slack, claimed, mishaps, step, paths, known, file, torun, owed, ran>>

-----------------------------------------------------------------------------
(* One command.                                                            *)

\* Other commands that write the same file.
Others(c, f) == {d \in Commands \ {c} : at[d] # "idle" /\ target[d] = f}

\* An open file stays open wherever its name goes: what is held at `from' is
\* now at `to', and what was there has no name any more.
Moved(f, from, to) ==
    [d \in Commands |->
        IF target[d] # f THEN at[d]
        ELSE IF at[d] = from THEN to ELSE IF at[d] = to THEN "gone" ELSE at[d]]

\* run_reply: the key must be watched, in any case; the file bears the key as
\* it was typed.  fs::write opens the temporary file and truncates it.
Request(c, f) ==
    /\ at[c] = "idle" /\ f \in Asked /\ (f = All \/ Watched(f))
    /\ \A d \in Commands : at[d] # "idle" => {target[d], f} \in Together
    /\ target' = [target EXCEPT ![c] = f] /\ at' = [at EXCEPT ![c] = "draft"]
    /\ draft' = [draft EXCEPT ![f] = "empty"]
    /\ alone' = IF Others(c, f) = {} THEN alone \cup {c} ELSE alone \ Others(c, f)
    /\ UNCHANGED <<watches, queued, claimed, mishaps, step, paths, known, file, torun, owed, ran, kept>>

\* One text from the start of the file, over another's if it wrote first: two
\* requests of one key differ in who asked, so one may be shorter.
Over(text, new) == new = "whole" \/ (text # "empty" /\ new = "torn")

Write(c) ==
    /\ at[c] \in {"draft", "queued", "claimed", "gone"}
    /\ at' = [at EXCEPT ![c] = "written"]
    /\ \E new \in {"whole", "torn"} :
        LET f == target[c] IN
        /\ draft' = IF at[c] = "draft" THEN [draft EXCEPT ![f] = new] ELSE draft
        /\ queued' = IF at[c] = "queued" THEN [queued EXCEPT ![f] = new] ELSE queued
        /\ claimed' = IF at[c] = "claimed" THEN new ELSE claimed
        /\ at[c] = "draft" => Over(draft[f], new)
        /\ at[c] = "queued" => Over(queued[f], new)
        /\ at[c] = "claimed" => Over(claimed, new)
    /\ UNCHANGED <<watches, target, alone, mishaps, step, paths, known, file, torun, owed, ran, kept>>

\* The person has an answer.
Answered(c) == target' = [target EXCEPT ![c] = All] /\ alone' = alone \ {c}

\* The rename that accepts the request: whatever the temporary file holds now.
\* The same request again refreshes one file.
Rename(c) ==
    LET f == target[c] IN
    /\ at[c] = "written" /\ draft[f] # "none"
    /\ queued' = [queued EXCEPT ![f] = draft[f]] /\ draft' = [draft EXCEPT ![f] = "none"]
    /\ at' = [Moved(f, "draft", "queued") EXCEPT ![c] = "idle"] /\ Answered(c)
    /\ owed' = owed \cup {f}
    /\ kept' = IF c \notin alone THEN kept \ {f}
               ELSE IF f \in watches /\ f \notin queue THEN kept \cup {f} ELSE kept
    /\ UNCHANGED <<watches, claimed, mishaps, step, paths, known, file, torun, ran>>

\* The other command's rename took the temporary file: the person is told.
RenameFails(c) ==
    /\ at[c] = "written" /\ draft[target[c]] = "none"
    /\ at' = [at EXCEPT ![c] = "idle"] /\ Answered(c)
    /\ UNCHANGED <<watches, draft, queued, claimed, mishaps, step, paths, known, file,
                   torun, owed, ran, kept>>

\* The file cannot be opened, written or renamed, or the API is stopped.
CommandFails(c) ==
    /\ mishaps < MaxMishaps /\ mishaps' = mishaps + 1
    /\ at[c] # "idle" /\ at' = [at EXCEPT ![c] = "idle"] /\ Answered(c)
    /\ UNCHANGED <<watches, draft, queued, claimed, step, paths, known, file, torun, owed,
                   ran, kept>>

-----------------------------------------------------------------------------
(* The job.                                                                *)

Job(from, to) == step = from /\ step' = to /\ UNCHANGED people

\* A slip: the watches are loaded before the files are listed.
StartWatchesFirst ==
    \/ /\ step = "idle" /\ known # watches
       /\ known' = watches
       /\ UNCHANGED <<people, claimed, mishaps, step, paths, file, torun, ran>>
    \/ /\ queue # {} /\ Job("idle", "next")
       /\ paths' = queue
       /\ UNCHANGED <<mishaps, claimed, known, file, torun, ran>>

\* The glob, then load_watches.
Start ==
    \/ /\ queue # {} /\ Job("idle", "listed")
       /\ paths' = queue
       /\ UNCHANGED <<mishaps, claimed, known, file, torun, ran>>
    \/ /\ Job("listed", "next")
       /\ known' = watches
       /\ UNCHANGED <<mishaps, claimed, paths, file, torun, ran>>

\* load_watches raises on a torn watches.json (EditedList): the queue is left.
StartFails ==
    /\ mishaps < MaxMishaps /\ mishaps' = mishaps + 1
    /\ Job("listed", "idle") /\ paths' = {}
    /\ UNCHANGED <<claimed, known, file, torun, ran>>

End ==
    /\ paths = {} /\ Job("next", "idle")
    /\ known' = {}
    /\ UNCHANGED <<mishaps, claimed, paths, file, torun, ran>>

\* A slip: the claim is a copy.
ClaimByCopy(f) ==
    /\ step = "next" /\ step' = "resolve"
    /\ f \in paths /\ paths' = paths \ {f} /\ f \in queue
    /\ claimed' = queued[f] /\ file' = {f}
    /\ owed' = owed \ {f}
    /\ UNCHANGED <<watches, slack, kept, mishaps, known, torun, ran>>

\* path.rename(claim): replaces a claim that an earlier, killed job left.
Claim(f) ==
    /\ step = "next" /\ step' = "resolve"
    /\ f \in paths /\ paths' = paths \ {f} /\ f \in queue
    /\ claimed' = queued[f] /\ queued' = [queued EXCEPT ![f] = "none"]
    /\ at' = Moved(f, "queued", "claimed")
    /\ file' = {f} /\ owed' = owed \ {f}
    /\ UNCHANGED <<watches, draft, target, alone, kept, mishaps, known, torun, ran>>

\* The directory is not ours to write: the request is passed over.
ClaimFails(f) ==
    /\ mishaps < MaxMishaps /\ mishaps' = mishaps + 1
    /\ Job("next", "next")
    /\ f \in paths /\ paths' = paths \ {f}
    /\ UNCHANGED <<claimed, known, file, torun, ran>>

\* watches_by_key.get(key): the spelling must be the stored one.
Resolved(f) == IF f = All THEN known ELSE known \cap {f}

Run(f) ==
    /\ file = {f} /\ claimed = "whole" /\ Resolved(f) # {}
    /\ Job("resolve", "run")
    /\ torun' = Resolved(f) /\ ran' = {}
    /\ UNCHANGED <<mishaps, claimed, paths, known, file>>

\* No claim is in hand any more: what a command still writes to it nobody reads.
PutAway ==
    /\ claimed' = "none" /\ file' = {}
    /\ at' = [d \in Commands |-> IF at[d] = "claimed" THEN "gone" ELSE at[d]]
    /\ UNCHANGED <<watches, draft, queued, target, alone, owed, kept>>

\* A request that does not parse, or of no such watch, is dropped.
Drop(f) ==
    /\ file = {f} /\ (claimed # "whole" \/ Resolved(f) = {})
    /\ step = "resolve" /\ step' = "next" /\ PutAway
    /\ UNCHANGED <<mishaps, paths, known, torun, ran>>

\* A slip: the first run that raises ends the request and leaves its claim.
RunOneOrStop(w) ==
    /\ step = "run" /\ w \in torun
    /\ UNCHANGED people
    /\ \/ torun' = torun \ {w} /\ ran' = ran \cup {w} /\ UNCHANGED <<step, file>>
       \/ torun' = {} /\ step' = "next" /\ file' = {} /\ UNCHANGED ran
    /\ UNCHANGED <<mishaps, claimed, paths, known>>

\* _run_one, which may raise: the error is counted and the loop goes on.
RunOne(w) ==
    /\ Job("run", "run") /\ w \in torun
    /\ torun' = torun \ {w} /\ ran' = ran \cup {w}
    /\ UNCHANGED <<mishaps, claimed, paths, known, file>>

Finish ==
    /\ torun = {} /\ step = "run" /\ step' = "next"
    /\ PutAway /\ ran' = {}
    /\ UNCHANGED <<mishaps, paths, known, torun>>

Crash ==
    /\ mishaps < MaxMishaps /\ mishaps' = mishaps + 1 /\ step # "idle"
    /\ step' = "idle" /\ PutAway
    /\ paths' = {} /\ known' = {} /\ torun' = {} /\ ran' = {}

-----------------------------------------------------------------------------
Work ==
    \/ Start \/ End \/ Finish
    \/ \E f \in Files : Claim(f) \/ Run(f) \/ Drop(f)
    \/ \E w \in Keys : RunOne(w)

Next ==
    \/ \E k \in Edited : AddWatch(k) \/ DeleteWatch(k)
    \/ \E c \in Commands :
        \/ \E f \in Files : Request(c, f)
        \/ Write(c) \/ Rename(c) \/ RenameFails(c) \/ CommandFails(c)
    \/ \E f \in Files : ClaimFails(f)
    \/ StartFails \/ Work \/ Crash

Spec == Init /\ [][Next]_vars

\* Cron starts the job every two minutes; a job that was started goes on.
FairSpec == Spec /\ WF_vars(Work)

-----------------------------------------------------------------------------
(* A request is run once: without a new command no later tick takes it up   *)
(* again, even when the run failed or the job was killed in the middle.     *)
NeverRerun == [][\A f \in Files : Claim(f) => f \in owed]_vars

(* A request that names one watch as it is stored, and that no other command *)
(* for its key overlapped, is dropped only if that watch was deleted after   *)
(* the request was accepted (and nobody has asked again meanwhile).  Two     *)
(* that overlap can queue an empty or torn file, which the job drops with    *)
(* its watch still listed; a key typed in another case is accepted by the    *)
(* API and always dropped.  Neither kind is counted.                         *)
DropsOnlyDeleted == [][\A f \in Keys : Drop(f) => f \notin kept \/ f \in queue]_vars

(* A finished request ran every watch it stands for that the job knew of,   *)
(* whatever runs before it raised.                                          *)
FinishRanAll ==
    [][\A f \in Files : file = {f} /\ file' = {} /\ step # "resolve" /\ step' # "idle"
          => Resolved(f) \subseteq ran]_vars

(* Every accepted request leaves the queue: a watch that keeps failing      *)
(* cannot wedge it.                                                         *)
QueueDrains == \A f \in Asked : f \in queue ~> f \notin queue
=============================================================================
