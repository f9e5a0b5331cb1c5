------------------------------ MODULE JobFrame ------------------------------
(***************************************************************************)
(* What one run of a scrape job looks like to the rest of the system.  A    *)
(* job fetches what a federation's site shows (source), parses it           *)
(* (payload), writes it to its table (rows) in one or more transactions,    *)
(* tells Slack what changed (said) and exits.  The modules of the families  *)
(* of scrapers EXTEND this one and give each job its parser and its way of  *)
(* writing.  run_scraper_job.sh keeps a job from running twice at once, but  *)
(* its lock is per job name: jobs that share a table take turns here         *)
(* (OtherJob), which leaves out that they may overlap; AthleteJobs adds the   *)
(* overlap it speaks of.                                                    *)
(***************************************************************************)
EXTENDS Naturals, Sequences, SequencesExt, TLC

CONSTANT MaxRuns                 \* bound: runs of the job in a behaviour

VARIABLES
    job,        \* the scraper that runs
    source,     \* what its site shows now
    rows,       \* its table: a function from key to the rows stored under it
    pc,         \* where the run is; "idle" between runs
    payload,    \* what was parsed: a function from key to value
    todo,       \* what is still to be written, for jobs with several transactions
    tally,      \* the keys the run counted as inserted, updated, deleted
    hitch,      \* a request or a row of this run failed
    before,     \* history: rows when the run began
    last,       \* history: {the source the latest run stored completely} or {}
    said,       \* {what the latest run told Slack} or {}
    lost,       \* its post failed
    exit,       \* its exit status, or "running"
    left        \* runs left to make (bound)

work == <<payload, todo, tally>>
jobVars == <<job, source, rows, pc, work, hitch, before, last, said, lost, exit, left>>

NoTally == [inserted |-> {}, updated |-> {}, deleted |-> {}]
Nothing == <<>>                          \* the function with no key

\* The rows that a table holds of a key, which it may never have seen, and the
\* table with these rows of it instead.
Held(table, k) == IF k \in DOMAIN table THEN table[k] ELSE <<>>
Holding(table, k, cell) ==
    [x \in DOMAIN table \union {k} |-> IF x = k THEN cell ELSE table[x]]

\* The table with this row of each of these keys.
WithRows(table, keys, records) ==
    [k \in DOMAIN table \union keys |-> IF k \in keys THEN <<records[k]>> ELSE table[k]]

\* Bound: a behaviour that starts at one of the sites of some(job) makes
\* MaxRuns runs and moves among them, one that starts elsewhere makes one run.
FrameInit(jobs, sources(_), some(_), tables(_)) ==
    /\ job \in jobs
    /\ source \in sources(job) \union some(job)
    /\ rows \in tables(job) /\ before = rows
    /\ pc = "idle" /\ payload = Nothing /\ todo = <<>> /\ tally = NoTally
    /\ hitch = FALSE /\ last = {} /\ said = {} /\ lost = FALSE
    /\ exit = "ok" /\ left = IF source \in some(job) THEN MaxRuns ELSE 1

\* The site changes between two runs.
SiteChanges(some(_)) ==
    /\ pc = "idle" /\ 0 < left /\ left < MaxRuns
    /\ source \in some(job)
    /\ source' \in some(job) \ {source}
    /\ UNCHANGED <<job, rows, pc, work, hitch, before, last, said, lost, exit, left>>

\* The next run is another job's, of those that write the same table: between two
\* runs, never in the middle of one.
OtherJob(jobs) ==
    /\ pc = "idle" /\ 0 < left /\ left < MaxRuns
    /\ job \in jobs
    /\ job' \in jobs \ {job}
    /\ last' = {}
    /\ UNCHANGED <<source, rows, pc, work, hitch, before, said, lost, exit, left>>

Start ==
    /\ pc = "idle" /\ left > 0
    /\ pc' = "scrape" /\ exit' = "running" /\ left' = left - 1
    /\ before' = rows /\ said' = {} /\ lost' = FALSE /\ hitch' = FALSE
    /\ payload' = Nothing /\ todo' = <<>> /\ tally' = NoTally
    /\ UNCHANGED <<job, source, rows, last>>

\* The run ends with this status; a complete one read and stored all that the
\* source shows.
Ends(status, complete) ==
    /\ pc' = "idle" /\ exit' = status
    /\ last' = IF complete THEN {source} ELSE {}
    /\ UNCHANGED <<job, source, work, before, left>>

\* It ends before it has written anything.
Quits(status) ==
    /\ Ends(status, FALSE)
    /\ UNCHANGED <<rows, said, lost>>

RequestFails(status) == hitch' = TRUE /\ Quits(status)

\* An uncaught exception, or a kill: what was committed stays.
Dies ==
    /\ pc # "idle"
    /\ hitch' = TRUE
    /\ Quits("failed")

\* Bound: of these, at most one fails in a run.
OneFails(s) == {{}} \union {{x} : x \in s}

\* Posts what was counted, if anything was.  A post that fails, or has no
\* webhook to go to, is only logged.
PostsAnyway ==
    \/ said' = {tally} /\ UNCHANGED lost
    \/ lost' = TRUE /\ UNCHANGED said

Posts == IF tally = NoTally THEN UNCHANGED <<said, lost>> ELSE PostsAnyway

\* What really changed in the table since the run began.
Changes(old, new) ==
    [inserted |-> {k \in DOMAIN new : Len(new[k]) > Len(Held(old, k))},
     updated  |-> {k \in DOMAIN new : <<>> \notin {Held(old, k), new[k]} /\ new[k][1] # Held(old, k)[1]},
     deleted  |-> {k \in DOMAIN new : Len(new[k]) < Len(Held(old, k))}]
Changed == Changes(before, rows)
=============================================================================
