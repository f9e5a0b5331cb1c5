------------------------------ MODULE PageWatch -----------------------------
(***************************************************************************)
(* Change detection of scrapers/usaw/meet_automation: `run --all' (daily)  *)
(* and `run --requested' (forced, from Slack) hash the PDFs of a watched   *)
(* page, compare with state/seen.json, fetch the PDFs again to scrape and  *)
(* stage them, post a review to Slack, and then mark the hash as seen, the  *)
(* review posted or not.  The two jobs have separate locks and share        *)
(* seen.json, which each reads, changes and writes whole.                   *)
(***************************************************************************)
EXTENDS Naturals

CONSTANTS
    WatchCount,  \* how many meets are watched, at least one
    Jobs,        \* the staging jobs that may run at the same time
    Forced,      \* the jobs that stage whether or not anything changed
    MaxVersion,  \* bound: how often the PDFs of one page change
    MaxForced,   \* bound: how many forced runs are asked for
    MaxMishaps   \* bound: how often a job is killed between two steps, or a
                 \* review is not posted

Watches == 1..WatchCount    \* in the order of watches.json

VARIABLES
    source,   \* [Watches -> 1..MaxVersion]: the PDFs on the page (their hash)
    seen,     \* [Watches -> 0..MaxVersion]: seen.json, 0 for no entry in a text that parses
    text,     \* seen.json is whole, or empty since a job opened it, or mixed:
              \* one job's text with the end of another's longer one
    staged,   \* <<watch, version>> staged for review
    shown,    \* those whose review is in the channel
    unshown,  \* those whose review could not be posted, which is logged
    job,      \* [Jobs -> Job]
    forced,   \* forced runs so far
    mishaps   \* jobs killed and reviews not posted so far

budget == <<forced, mishaps>>
runs == <<staged, shown, unshown>>
vars == <<source, seen, text, runs, job, budget>>

torn == text # "whole"

Steps == {"idle", "compare", "fetch", "stage", "load", "open", "fill"}

(* watch: the one it works on; hash: what detect computed; body: what it     *)
(* fetched to scrape; map: the copy of seen.json it is about to write.       *)
Job == [step : Steps, watch : Watches, hash : 0..MaxVersion, body : 0..MaxVersion,
        map : [Watches -> 0..MaxVersion]]

Unseen == [w \in Watches |-> 0]
Idle(w) == [step |-> "idle", watch |-> w, hash |-> 0, body |-> 0, map |-> Unseen]

Init ==
    /\ source = [w \in Watches |-> 1]
    /\ seen = Unseen /\ text = "whole"
    /\ staged = {} /\ shown = {} /\ unshown = {}
    /\ forced = 0 /\ mishaps = 0 /\ job \in [Jobs -> {Idle(w) : w \in Watches}]

Put(j, r) == job' = [job EXCEPT ![j] = r]

Stop(j) == Put(j, Idle(job[j].watch))

-----------------------------------------------------------------------------
\* The organisers replace a PDF.
Change(w) ==
    /\ source[w] < MaxVersion
    /\ source' = [source EXCEPT ![w] = @ + 1]
    /\ UNCHANGED <<budget, seen, text, runs, job>>

\* `run --all' takes the watches in order, a request names one.  detect fetches
\* and hashes the PDFs.
Following(w) == (w % WatchCount) + 1

Hash(j, w) ==
    /\ job[j].step = "idle"
    /\ IF j \in Forced THEN forced < MaxForced /\ forced' = forced + 1
                       ELSE w = Following(job[j].watch) /\ forced' = forced
    /\ Put(j, [Idle(w) EXCEPT !.step = "compare", !.hash = source[w]])
    /\ UNCHANGED <<mishaps, source, seen, text, runs>>

\* _load_seen, and the early return of _run_one; a torn file raises.
Compare(j) ==
    /\ job[j].step = "compare"
    /\ IF ~ torn /\ (seen[job[j].watch] # job[j].hash \/ j \in Forced)
         THEN Put(j, [job[j] EXCEPT !.step = "fetch"])
         ELSE Stop(j)
    /\ UNCHANGED <<budget, source, seen, text, runs>>

\* The PDFs are downloaded again for the scrapers.
Fetch(j) ==
    /\ job[j].step = "fetch"
    /\ Put(j, [job[j] EXCEPT !.step = "stage", !.body = source[job[j].watch]])
    /\ UNCHANGED <<budget, source, seen, text, runs>>

\* The bundle is on disk, whether or not its preview can be written too.
Staging(j) == staged' = staged \cup {<<job[j].watch, job[j].body>>}

\* A slip: a failed scrape is marked seen too.
ScrapeFailsMarked(j) ==
    /\ job[j].step = "stage"
    /\ Put(j, [job[j] EXCEPT !.step = "load", !.body = 0])
    /\ UNCHANGED <<budget, source, seen, text, runs>>

\* The fetch or the scrape raised, or found no athletes: nothing is marked.
ScrapeFails(j) ==
    /\ job[j].step = "stage"
    /\ Stop(j)
    /\ UNCHANGED <<budget, source, seen, text, runs>>

\* slack.post_review; the save of its reference that follows is in StagedRuns.
Stage(j) ==
    /\ job[j].step = "stage"
    /\ Staging(j)
    /\ shown' = shown \cup {<<job[j].watch, job[j].body>>} /\ unshown' = unshown
    /\ Put(j, [job[j] EXCEPT !.step = "load", !.body = 0])
    /\ UNCHANGED <<budget, source, seen, text>>

\* It raised, or the job was told not to post: the job says so and goes on.  Or the
\* preview beside the bundle could not be written, or the job was killed before it posted.
StageUnposted(j) ==
    /\ mishaps < MaxMishaps /\ mishaps' = mishaps + 1
    /\ job[j].step = "stage"
    /\ Staging(j) /\ shown' = shown
    /\ \/ /\ unshown' = unshown \cup {<<job[j].watch, job[j].body>>}
          /\ Put(j, [job[j] EXCEPT !.step = "load", !.body = 0])
       \/ unshown' = unshown /\ Stop(j)
    /\ UNCHANGED <<forced, source, seen, text>>

\* A slip: the entry gets the hash of what is on the page by now.
LoadSeenLate(j) ==
    /\ job[j].step = "load" /\ ~ torn
    /\ Put(j, [job[j] EXCEPT !.step = "open", !.hash = 0,
                             !.map = [seen EXCEPT ![job[j].watch] = source[job[j].watch]]])
    /\ UNCHANGED <<budget, source, seen, text, runs>>

\* mark_seen: read the whole map and set one entry,
LoadSeen(j) ==
    /\ job[j].step = "load" /\ ~ torn
    /\ Put(j, [job[j] EXCEPT !.step = "open", !.hash = 0,
                             !.map = [seen EXCEPT ![job[j].watch] = job[j].hash]])
    /\ UNCHANGED <<budget, source, seen, text, runs>>

LoadSeenFails(j) ==
    /\ job[j].step = "load" /\ torn
    /\ Stop(j)
    /\ UNCHANGED <<budget, source, seen, text, runs>>

\* then truncate the file
OpenSeen(j) ==
    /\ job[j].step = "open"
    /\ text' = "empty" /\ seen' = Unseen
    /\ Put(j, [job[j] EXCEPT !.step = "fill"])
    /\ UNCHANGED <<budget, source, runs>>

\* and write the map, from the start of the file: over the other job's text, if that
\* was written since, and then a longer one of it shows behind ours.
FillSeen(j) ==
    /\ job[j].step = "fill"
    /\ \/ seen' = job[j].map /\ text' = "whole"
       \/ text # "empty" /\ text' = "mixed" /\ seen' = Unseen
    /\ Stop(j)
    /\ UNCHANGED <<budget, source, runs>>

Crash(j) ==
    /\ mishaps < MaxMishaps /\ mishaps' = mishaps + 1
    /\ job[j].step # "idle"
    /\ Stop(j)
    /\ UNCHANGED <<forced, source, seen, text, runs>>

-----------------------------------------------------------------------------
Work(j) ==
    \/ Compare(j) \/ Fetch(j) \/ Stage(j) \/ LoadSeen(j) \/ LoadSeenFails(j)
    \/ OpenSeen(j) \/ FillSeen(j)

Next ==
    \/ \E w \in Watches : Change(w)
    \/ \E j \in Jobs :
          \/ \E w \in Watches : Hash(j, w)
          \/ Work(j) \/ ScrapeFails(j) \/ StageUnposted(j) \/ Crash(j)

Spec == Init /\ [][Next]_vars

\* Cron starts the daily job again and again and a job that was started goes
\* on; a page that is tried for ever is scraped some time.
At(j, w) == job[j].watch = w

FairSpec ==
    /\ Spec
    /\ \A j \in Jobs : WF_vars(Work(j))
    /\ \A j \in Jobs \ Forced :
          /\ WF_vars(\E w \in Watches : Hash(j, w))
          /\ \A w \in Watches : SF_vars(At(j, w) /\ Stage(j))

-----------------------------------------------------------------------------
(* An entry of seen.json is backed by a staged run at least as new ("only   *)
(* mark seen after a successful stage"), and people were shown that run or   *)
(* the post of it failed: no run is written off between its staging and its  *)
(* review.  A run whose post failed is marked all the same, and waits on     *)
(* disk for an approval that only the job's log asks for.                    *)
SeenWasStaged ==
    \A w \in Watches : seen[w] # 0 =>
        \E v \in seen[w]..MaxVersion : <<w, v>> \in staged /\ <<w, v>> \in shown \cup unshown

(* A change that stays on the page is staged for review by some later run,  *)
(* whatever other runs and changes of other pages do, unless a job killed   *)
(* while it wrote seen.json, or two that wrote it at once, have left a file  *)
(* that nobody repairs: then every run fails before it compares anything.    *)
(* Staged is not shown: the post of that run may fail.                       *)
ChangeIsStaged ==
    \/ \A w \in Watches, v \in 1..MaxVersion :
          source[w] = v ~> source[w] # v \/ <<w, v>> \in staged
    \/ <>[]torn
=============================================================================
