# MeetCal backend: TLA+ models, checks and proofs

MeetCal's backend is a Rust API (`src/app`, axum on tokio over Postgres) and a
set of scrapers (`src/scrapers`, Python and JavaScript, started by cron on the
same host). The API serves meets, schedules, rosters and results to a mobile
app; the scrapers keep the tables up to date; some of them are steered from
Slack, whose buttons and slash commands reach the API, which leaves files that
the crons pick up.

What is hard is of two kinds. Actors meet: requests that share one build of a
package, the cache and the writers of its rows, crons and people that share files
without locks, limits that are read at one moment and used at another. And the
scrapers read what others lay out by hand, write it in pieces, and must neither
delete records because a tab is gone nor give one athlete another's session.
Each part has one module, a small instance that TLC checks, and, for eleven of
them, proofs that hold for every value of the constants.

    tlc -config PackageFlight.cfg MCPackageBuild    # one run
    tlapm PackageBuildProofs.tla                    # the proofs of one component

Conventions: a variable or action has the name of the thing in the code where
TLA+ allows it. A definition whose comment begins "A slip:" is a plausible bug
of the definition that follows it; it is used by nothing in the specification
and exists to be put in its place, to see that a property notices.
`PROJECT.json` lists the runs, the slips with the property each breaks, the source
lines of every definition, the hazards and the theorems.

## 1. Inventory

### Modelled

| Component | Source | State | Operations |
|---|---|---|---|
| Freshness stamp | `routes/meets/get_meet_package.rs` 215-290 | rows of four tables (a row is its `xmin`) | scraper transactions: begin, commit; `freshness_stamp` |
| Package cache | same, 290-345 | `PACKAGE_CACHE` behind one RwLock | `cached_package`, `store_package`, expiry |
| Package endpoint | same, 347-410 and 730-925 | `IN_FLIGHT`, per-key locks and their reference counts, `BUILD_SLOTS`, requests and detached builds | the handler, the build task, cancellation, timeouts, the drops |
| Rate limiter, load shedding, timeout | `common/rate_limit.rs`, `common/load_shed.rs`, `lib.rs` | a bucket per client, the bounded map of them, the semaphore | the two middlewares, sweeps, refill, dropped requests |
| Signing keys | `users/auth.rs` | the cache of keys, the refresh clock and its lock | check of a token, fetch, install, the two throttles, dropped requests |
| Saved sessions | `users/saved_sessions.rs` | the rows of one user | PUT (count, then insert), DELETE |
| Approval gate | `meet_automation/pipeline.py`, `stage.py`, `models.py`, `slack.py`, `ingest.py`, `routes/scrapers/interactions.rs` | `bundle.json` and the decision file of each run, the review thread | stage, press, reply, `approve --all-pending`, `ingest`, `reject` |
| Change detection | `meet_automation/detect.py`, `pipeline.py` | `seen.json`, the pages | hash, compare, fetch, stage, mark seen |
| Run requests | `slack_commands.rs`, `pipeline.py` 88-160 | `run_requests/*.json` and claims, `watches.json` | `/meet-run`, `run --requested`, `/meet-add`, `/meet-delete` |
| Results queue | `slack_commands.rs` 632-658, `usamw_results.py` 551-594 | request files, `done/`, `failed/` | `/usamw-results`, `usamw_results.py --requested` |
| Slack-managed lists | `routes/scrapers/store.rs` | the list's file, the temporary file | `add`, `delete`, `save` by system call |
| Records, standards, qualifying totals | `usaw/`, `usamw/`, `bwl/`, `iwf/`, `umwf/` scrapers | one table each | fetch, parse, write, tell Slack |
| WSO records | `usaw/wso_sheets_scraper` | the rows of one WSO | thirteen layouts, the exact-set write |
| Rankings | `usaw/rankings_scraper` | rows by group | replace per PDF, prune |
| Meet lists and results | `usamw/meets`, Sport80 scrapers | `meets`, Notion, results | read pages, upsert, import |
| Schedule | `usaw/owlcms_schedule_scraper` | `session_schedule` | four layouts of a PDF, the ingest |
| Athletes | entries scraper, `owlcms_schedule_scraper/` (`prelim/assign_sessions.py`, `assign_athlete_sessions.py`), the clean-up | `athletes` | nightly entries, assignment of sessions, collapse of copies |

How they interact: the scrapers' transactions are what the stamp must notice and
what the builds read (MeetCache puts FreshnessStamp and PackageCache together, and
PackageBuild extends it with the requests). Every request passes the rate limiter, then load
shedding, then its handler; the request timeout drops the handler's future, which is
`Drop` in RequestLimits, SigningKeys and SavedSessions, and `Cancel` in PackageBuild.
The Slack commands edit the lists (JsonListStore) and queue requests (RunRequests,
ResultRequests); the staging jobs detect changes (PageWatch) and stage runs, which the
approval gate (StagedRuns) takes to the database. The schedule a scraper writes is
what the assignment of athletes reads, and the nightly entries write the rows the
assignment wrote (AthleteJobs). A job holds a lock per job name
(`run_scraper_job.sh` 43-53): two runs of one job never overlap, two different jobs
may. The meet automation's jobs overlap in the models as they do there. Of the scrape jobs that
share a table, an assignment of sessions may run and commit while the entries or the
clean-up have a transaction open; otherwise they take turns, run by run.

What makes each correct, in a sentence:

- *Endpoint and cache*: a request is never answered with rows older than itself,
  a package is built once however many ask for it, builds are bounded, and no
  cancelled or failed request leaves the key unusable.
- *Limits*: nobody gets tokens or answers for nothing, the map is bounded,
  slots come back, and the wait a 429 names is enough.
- *Signing keys*: an unknown key is refused without a fetch only while it is newer
  than the provider's last answer. *Saved sessions*: the cap holds but for races.
- *Approval gate*: nothing reaches the database before somebody approved that
  very run; a settled run stays settled; a failure is not repeated for ever; a
  decision is acted upon.
- *Change detection*: what is marked seen was staged, and its review posted or the
  post seen to fail; a change that stays is staged.
- *Requests*: one run per command, no request lost but those whose watch
  is gone, and no request that blocks the queue.
- *Lists*: readers see whole lists, lists stay legal, edits are atomic.
- *Scrapers*: what is parsed is what is shown, in every layout; a broken part of a
  source deletes nothing; a second run changes nothing; Slack is told what changed.
- *Athletes*: each gets one row, a session they may lift in, and keeps it.

### Not modelled

- the read endpoints (clubs, comparison data, results, WSOs, health), the
  preferences, the package's queries: one or two statements, no state between
  requests; the estimate of a package is arithmetic on its rows;
- recognising texts: a date, a time, a weight class, a number, a name's folding. In the
  models a text is a value or unreadable. The extraction of tables from PDFs and
  pictures and the browser's steps are the libraries'; a page is its cells or lines;
- the extraction and validation of a staged meet's PDFs and the review preview: in
  StagedRuns and PageWatch a scrape succeeds or fails;
- HMAC checks of Slack's requests, ETags, query parsing, sorting: pure functions;
- the job wrapper's reports and the deployment: shell sequences without another
  actor, whose one rule that matters (a lock per job) is an assumption here;
- the ingest writer's texts (normalisation) and its deletions by meet, which belong to
  the approval gate's ingest, one step in StagedRuns. Its upserts, exact sets, guards and
  transactions are part of the jobs that use them, therefore "partly";
- the start list's TypeScript output, which a person imports; the JavaScript scrapers of
  meets other than the entries; urlwatch (vendored); migrations, backups, CI, load test.

### What is hard here

Interleavings at every `await` of the handler and between jobs that share files;
crashes between two writes (the scrapers write in place, so a file can be cut
short); cancelled futures, whose values are dropped in an order the code relies
on; requests replayed by Slack or pressed twice; errors of one item that end
the work on the others; sources that are half there; rows that an earlier run, an
earlier scraper or another job left; numbers at a limit (map, permits, slots, list,
cap, quota). The hazards in `PROJECT.json` name each of them at its line, with the
properties that would catch it.

## 2. Modules

### The package endpoint

`FreshnessStamp` has the rows of one meet and the transactions that write them.
The stamp is `COUNT(*)` and `MAX(xmin)` of each table, so a row is represented by
its `xmin` only. A transaction gets its id when it first writes and shows its
rows when it commits. `Serialized` says whether writers of one meet may overlap,
`DeleteOnly` whether a transaction may delete and write nothing.

`PackageCache` gives the two operations of the cache as operators on a
sequence in the order of insertion; the time to live is one constant, so expired
entries are a prefix.

`MeetCache` puts rows and cache together. As a specification of its own
(`CacheSpec`) it has requests of one step, for what needs a longer history than
PackageBuild can afford.

`PackageBuild` is the endpoint. `pc[r]` is where request `r` is, from the read of the
stamp to the last drop; a request and the build it spawns are one process, since
the task takes over the request's slot, lock and permit. A cancelled requester
whose build runs is only answered "cancelled". The releases at the end (permit,
guard, slot's destructor, slot's own `Arc`) are four steps in Rust's drop order,
because `BuildSlot::drop` decides by the strong count of the lock, and who has
dropped what at that moment matters. `Refs(l)` is the set of references the count counts.
`since[r][t]` is history: the contents table `t` had since `r` read its stamp.

`KeyedBuilds` is the promise without maps and locks: a key has an owner or none,
an owner may build, a bounded number build. PackageBuild implements it with `owner`
the request that holds the key's lock and `building` those with a permit.

### What the requests of one process share

`RequestLimits` composes the rate limiter and the load shedder around a handler
that may end with any status or be dropped. `level[c]` counts the tokens
spent and not yet back: the unit of time is one token. A bucket that is not in the map
is full. Who a request comes from (key, proxy headers, IPv6 network) is an input.
`TokenBuckets` is the promise: every client has one bucket, always.

`SigningKeys` has the provider, the cache and the clock of the two throttles (`recent`,
`backing`), whose lock is held across the fetch. The keys' document travels with the
request (`document`) until the cache is written. `news` is history: the keys published
since the provider last answered or failed to.

`SavedSessions` has the rows of one user; a PUT counts and inserts in two steps.
`MCRequestLimits` follows one of the three, chosen at the start of a behaviour.

### Meet automation

`StagedRuns` has, per run, the bundle's status on disk, the decision file, the
thread's first decisive reply, and the staging job; and one approve tick and one
operator command, each with the copy of the bundle it loaded. A save is two steps
(truncate, write), since `Path.write_text` is. The API writes a decision to a temporary
file and renames it, and two presses for one run share that file: the runs in
`Contested` may be pressed twice at once, after which the decision file may be empty or cut, or
still be written by the press that lost the race (`late`). An unreadable decision leaves its run pending,
unless the thread decides (`found = "unread"`). `Env` says what may happen around
the code. "early" means that somebody acts while the staging job is between posting the
review and saving its reference. `ApprovalGate` is the promise: `Publish(r)` only after `Approve(r)`.
Left out: the notifications (no state), the webhook-only mode without a bot token
(no thread, no reference: the same as a run whose reference was not saved), the
content of the bundle. Different runs are assumed to have different ids
(`make_run_id` has the resolution of a second).

`PageWatch` has the PDFs of each page as a version number, `seen.json` as a map that each
job reads, changes and writes whole (opening it empties it, and two texts written at once may
mix), and the two downloads (to hash, to scrape) as
two steps. `staged` is what is on disk for review, `shown` what was posted to the channel and
`unshown` what could not be: a failed post is logged and the page marked seen all the same. `MCMeetJobs` follows
PageWatch or StagedRuns.

`RunRequests` has the directory of requests, claims by rename, and the list of
watches with keys in two spellings: the API compares keys without case, the
job exactly. A command opens the temporary file, writes it and renames it, in three steps, and
two commands for one key may interleave: a file has a text (empty, whole, torn), and a command
that has it open writes wherever its name has gone since. The job drops a claimed file that does not
parse. Loading the watches may fail, as `JsonListStore` shows. `ResultRequests` is the other directory: a file is processed first and moved
afterwards, to `done/` or to `failed/`; `owed` holds the files a command still pays for.
`MCRequests` follows one of the two.

### Lists

`JsonListStore` has files as inodes: opening the temporary file again truncates what
another command is writing, and a command that has it open still writes to it
after the rename. A list is the set of its keys; contents are empty, whole, or
"mixed" (one list over the end of a longer one, which does not parse).
`EditedList` says what an edit does when it happens at once. `MCJsonListStore` takes commands and
inodes as symmetric; keys are not, two of them differ only in case.

### Scrape jobs

`JobFrame` is what every scrape job looks like: it starts, fetches the `source`, parses it
into a `payload`, writes its table (`rows`, a function from key to the rows stored under it)
in one or more transactions, tells Slack (`said`) and exits. It may be killed at any step, one request
or row may fail, the post may be lost, the site may change between two runs.
`before` (the rows when the run began) and `last` (the source the latest run stored
completely) are history. The families of scrapers extend it, and each job is a value of `job`:

- `RecordTables`: records and standards as a class (age category, gender, weight class)
  with a value per lift. `RecordJobs` (six scrapers), `StandardsJobs` (three),
  `WsoJobs` (thirteen layouts and the exact-set write with its refusals and its
  limit on how much may shrink). Where men and women are side by side, a row holds a lift of
  either, `RowBelow` says which row of a class holds which lift, and `TopRows` the
  rows in which the Carolinas' reader does not look for a header.
- `RankingsJob`: a page of PDFs, each replacing the rows of its group in a transaction.
- `EventsJobs`: the masters' events page and the Sport80 calendar.
- `ResultsJobs`: the index of meets, their pages of results, the upsert of the
  newest and the import of all.
- `ScheduleReaders`: the four layouts in which `final_scraper.py` finds sessions, platforms,
  dates, times and classes, written as folds over the rows of a page; `ScheduleJobs`
  writes them, with the predecessor `prelim_scraper.py`. Both may take turns on one table
  (`OtherJob`).
- `SessionMatch`: which session of a preliminary schedule suits an athlete;
  `AthleteTable`: whom a row is taken for (a real number, a minted one, a placeholder,
  none, and names in two spellings); `AthleteJobs`: the entries, the assignment and the clean-up of
  copies. The entries go statement by statement through one transaction (the lookup, which
  locks the row it finds, and the upsert), and the clean-up plans and then deletes; between any two of these
  an assignment may commit (`AssignsMeanwhile`).

`MCRecordSites`, `MCScheduleSites` and `MCAthleteSites` render small sites from a truth (what
the site means to say), and add sites that are broken or laid out carelessly;
`MCScrapeJobs` checks them all, a behaviour following one job or, of the schedule
and of the athletes, those that share a table.

## 3. Runs

| Run | Shows | Result |
|---|---|---|
| `meet_cache` | a hit holds the rows of now; every commit changes the stamp; limits kept; evictions only for room | holds (writers one at a time) |
| `package_flight` | one owner per key, KeyedBuilds implemented | holds |
| `package_served` | no answer older than its request; every request ends | holds (no transaction that only deletes) |
| `package_torn_body` | the same with a row inserted and deleted again | violated, see section 6 |
| `approval_gate` | rows only after an approval; settled stays settled; a discarded run unpublished; no retry after a failure | holds |
| `meet_jobs` | seen means staged, and posted or the post failed; a change that stays is staged; every decision is acted upon, except behind a run with an unreadable thread or when a later press makes its file unreadable | holds (unless a crash or two writers left `seen.json` torn) |
| `approval_wedged` | every decision, without the exception | violated, see section 6 |
| `requests` | run once per command, dropped only if the watch is gone (of commands that no other for their key overlaps), all watches run, both queues drain, no result imported again without cause | holds |
| `request_limits` | answers are paid, the map is bounded, slots come back, one bucket per client, the wait is enough; keys refused unfetched only while they are news; the cap of sessions nearly holds | holds |
| `list_store` | lists stay legal in every race; commands that do not overlap are atomic | holds |
| `list_raced` | readers see whole lists when commands overlap | violated, see section 6 |
| `scrape_jobs` | what is parsed is what is shown; a second run is quiet; Slack hears what changed; broken parts and failed PDFs delete nothing; one row, the right session, and kept, for each athlete | holds, with the exceptions the properties name |

Four runs follow one of several components, chosen at the start. These share no
state, so the product of their behaviours would show no more than their union.

Bounds, and why they are enough:

- `package_flight`: three requests, two keys, one permit. Three is where the
  strong count matters: a dropper, a holder and a newcomer; with two keys
  requests of different keys compete for the permit. The rows are cut to one
  version, since control does not look at them. `package_served` has two requests
  on one key and two transactions on one table: the writes that matter
  fall between one request's stamp and its read, and a second request that reads the
  result. `Sizes = {1}` there: the cache's limits are the subject of `meet_cache`, which
  has three keys, bodies from nothing to one more than `MaxBody`, and four
  transactions on two rows, enough for changes that cancel in the count (a row
  deleted, another inserted), in the maximum (the newest row deleted), and both.
- `approval_gate`: one run, all happenings, two presses at once among them. Runs share no file; what one run can do
  to another (end the tick) is the subject of `meet_jobs`, with two runs.
- `meet_jobs`: two pages, each with two versions, one daily and one requested job;
  one forced run and one crash. Losing another job's mark needs one overlap of
  the two, on different pages. One mishap is a kill or a post that fails. Of two staged runs the
  first has the dead thread and the second the two presses; nothing else happens to them
  (`Env = {}`), as what may go wrong with one run is the subject of `approval_gate`.
- `requests`: three keys, two alike, and "all"; two commands at a time, at once only for one of
  the keys (`Together`), since commands for different files share none; one mishap (a crash, a
  command, a claim or the loading of the watches that fails).
  Of results, two names, for the order they are taken in, and two mishaps: one
  leaves a file behind, the next meets it again.
- `request_limits`: two requests at once, three addresses, a map with room for one,
  one overflow bucket, one slot. The bound on the map is reached: both requests read
  its size before either is in it. `Keys = {}`: a key's bucket differs from an address's only in that
  it is never folded or swept; the proofs cover it. Burst 5 is `MAX_ROUTE_COST`,
  the least the code accepts, and 4 tokens a second the least for which the
  code's promise of `Retry-After` holds (see 5). Two signing keys, one cached and
  one rotated in, and two requests, one holding the clock and one in line; four sessions
  and a cap of two, where the excess of two racing PUTs is reached.
- `list_store`: two commands, three inodes (the list, the temporary file, and
  one that a command still has open after it was renamed or replaced), lists of at most two of
  four keys, two of them alike: a full list, a list with room, and an equal key.
- `scrape_jobs`: a table of three age categories, two genders, a weight class and its
  open class, and two lifts; truths with all of them, with one missing or blank; a page with two
  sessions on two platforms in each layout; athletes with every kind of number and spelling.
  The parsers keep little between lines (the section, the last class, a carried date),
  so a change of section and one more line reach every branch. Tables are empty, up to
  date, or hold what earlier runs left. Two runs (`MaxRuns`) on the sites a job may
  see one after the other, since a job carries nothing but its table from run to run;
  one run on the many others. At most one request or row fails in a step. An assignment
  commits once in the middle of another job's run, with what it read before that run or
  now.

Every bound is a CONSTANT (`MaxTx`, `MaxVersion`, `MaxForced`, `MaxCrashes`,
`MaxMishaps`, `MaxStops`, `MaxRuns`) used in a guard. `CHECK_DEADLOCK FALSE` is said only where
transactions or runs are bounded, so that the model comes to rest.

## 4. Fairness

- PackageBuild: weak fairness of each request's own steps (tokio polls ready tasks;
  statements end, by result, error or timeout), and strong fairness of taking the key's lock, as tokio's
  mutex serves waiters first come first served. Nothing is assumed of cancellation,
  writers, expiry.
- StagedRuns: weak fairness of the approve cron as a whole (a tick every five
  minutes, and a tick that runs goes on) and of each staging job that has begun. None of
  people and none of the operator. Which of several outcomes (a save that fails, a
  publish that fails) is not constrained.
- PageWatch: the jobs go on, the daily job starts again and again, and a
  page tried again and again is scraped and posted some time (strong fairness of `Stage` per page).
  The last is about the page, not the code: a page that never parses is never staged.
- RunRequests, ResultRequests: weak fairness of the job as a whole (every two minutes).
  It says nothing of which file is taken, nor of which outcome; that the queues drain
  follows from the listing at the start (a listing whose watches could not be loaded is a bounded
  mishap), and a file that cannot be moved is bounded
  by `MaxStops`: a directory that never lets go of a file is outside the claim.
- The other runs assume none, and fairness excludes no finite behaviour, so the safety
  properties do not depend on it.

## 5. What is proved

Proofs are for every value of the constants that satisfies the named assumptions.

**MeetCacheProofs** (from `FreshnessAssumption`, and `SizesAssumption`: lengths are natural
numbers). `WithinLimits` and `EvictsOnlyForRoom`, for any limits, keys and bodies;
`EveryWriteChangesStamp` and `HitsAreCurrent`, where writers of a meet take turns
(`Serialized`).

`TotalBytes` folds over the cache, and what a fold yields is here the last of a
function of partial sums (`Sums`), whose existence a least counterexample shows
(`SumsExist`): so two caches whose bodies have the same sizes weigh the same, and an
entry at the end adds its size. `Evict` stops at the least start from which the rest
fits (`EvictShape`). `CacheInv` needs of the sequence itself that no key is in it
twice and that the expired entries come first (`KeysDiffer`, `StaleFirst`): with them, what is
left of an entry and everything younger is the same whether the expired and the replaced
one are taken out before the eviction, as the code does, or after it, as the property
says it (`SuffixWithout`).

Writers that take turns get ids in the order of their commits
(`RowsAreSettled`), so a table to which a row was written has a newer newest writer, and
one with the same newest writer lost rows, or nothing: every commit changes the
stamp. `HitsAreCurrent` takes more, as many writes may lie between a store and a hit.
`Ancestors(t)` are the contents a table may once have had, given what it has now: their newest
writer is older than every id still to be committed, and each row that is there
now and is no newer than that writer is as it was then. A commit only adds rows that
are newer, so ancestors stay ancestors (`AncestorsStay`); and one with the newest
writer of now can differ from now only by rows that were lost, which the count tells. `LoyalInv`
says that each cached body is an ancestor of the rows of now and lies under its own stamp.

**PackageBuildProofs** (from `PackageAssumption` and `FreshnessAssumption`: finite sets of
requests, keys and rows, `NoLock` not a request, at least one permit and one transaction). `OneBuildPerKey`, `SlotsAreCurrent`,
`BuildsWithinPermits`, `TypeOK`, and `ImplementsPromise` (the refinement of KeyedBuilds).
The invariant is

    IInv == TypeOK /\ SlotsHaveLocks /\ SlotsAreCurrent /\ OneHolder

One owner per key does not follow from "a lock has one holder" alone: two requests of a
key might have different locks. They have not, because the entry of a key is
never removed while a request has its slot (`SlotsAreCurrent`); and that is so because a
dropper finds a count of at most two only if no other slot refers to the lock: a second
slot makes the map, the dropper and itself three (`TwoSlotsKeepEntry`). That
counting argument is the heart of `BuildSlot::drop`. That a lock is named after the request
that allocated it also needs that a new lock is not in use (a request allocates once).

`EveryWriteChangesStamp` holds here as in MeetCache, since no step of a request touches the
rows. So do `WithinLimits` and `EvictsOnlyForRoom`, whatever the writers do: a build that ends
stores an entry of the cache's type (`BuildsAreTyped`, `CacheChanges`), and a store keeps
`CacheInv` whatever happened to the cache since the build's lookup.
`ServedIsCurrent` is refuted by `package_torn_body`, so `ServesCurrentRows` says what a stale
answer takes: a commit that leaves in some table it changed no newer row than was there
(`WritesAreNewer` is that there is none), which is one that only deletes there, or one older than a row
it finds. Whether writers overlap or delete otherwise does not matter; and where they take turns and
never only delete, there is no such commit (`TurnsWriteNewer`).
Without one, no two contents of a table have the same newest writer, and the one in a request's
stamp tells what it may be answered with from what is too old. The invariant, `ServedInv`,
keeps of every cached body and of every build half way that each table's rows once were
there, have no older newest writer than the stamp they go under, and are, for
every waiting request, either current since it arrived or older than its stamp
(`SoundRows`). That holds whatever the cache drops, so the limits play no part: store and expiry
only have to stay within the entries there were.

**StagedRunsProofs** (from `RunsAssumption`, `EnvAssumption`): `ImplementsGate`,
`LeavesPendingForGood`, `NoPublishAfterDiscard`, `FailureStopsRetries`, `TypeOK`, for any
set of runs and any happenings. The invariant follows the verdict on its way: wherever
an "approved" is found (decision file, thread, the tick's hand, the operator's), that
very run was approved (`ApprovalsAreReal`); what the tick and the operator save is
final (`SavesAreFinal`); a run is settled only after its staging job is over
(`SettledIsOver`), the one party that saves a pending bundle; the run in hand is one
the cron has not rejected (`HandIsOpen`); a spent decision is neither on disk nor in
hand (`SpentIsGone`). A text that a press still writes is an approval only if somebody pressed
Approve, so it is followed like the file it lands in.

**RequestLimitsProofs** (from `LimitsAssumption`, `ClientsAssumption` and, for the last
two parts, `SharedAssumption`: the holder of a free clock is not a request, and the cap
is at least one). `AnswersArePaid`, `SlotsComeBack`, `MapIsBounded`, `RetryAfterIsEnough`, `ImplementsBuckets`, `TypeOK`. Answers are
paid because of what a request has paid at each place it can be (`PaidSoFar`). The
sweeps are invisible because a bucket leaves the map only when it is full. The map is
bounded because of what is in it *or coming* (`MapRoom`): a request that saw room
will insert its address later, so those addresses are counted with the ones in
the map. `LimitsAssumption` asks for at least 4 tokens a second; the code accepts 1 to 3
as well, and then the time named by the second charge's 429 is not always enough for
both charges of the retry.

Of the signing keys, `ThrottledOnlyForNews`.
Who holds the clock has found no recent success and keeps others from stamping one
(`HoldersHold`), so the document it installs is as old as `news` says (`DocumentIsFresh`), and
while a success counts as recent the cache lacks only news (`ThrottleRests`).

Of the saved sessions, `CapNearlyHolds`. The
sessions that are there or may yet be, those of the PUTs that have counted included, are
fewer than the cap and the number of PUTs together (`Bounded`): a PUT that counts finds less
than `Cap` others, and only counting adds to them. How often PUTs race does not matter.

**JsonListStoreProofs** (from `StoreAssumption`): `ListIsLegal` in every race,
`AloneReadsWholeLists`, `AloneEditsAtOnce`, `TypeOK`. A list that is saved was made from a legal list by one
legal edit (`SavesAreLegal`), whatever file it lands in (`FilesAreLegal`: a whole list in any
inode is legal); alone, the temporary file is the one the command writes (`AloneInv`), and what it is to hold is
one edit away from the list that is still there (`SavesAnEdit`).

**PageWatchProofs** (at least one watch and one version): `SeenWasStaged`, for any number of
jobs, kills and failed posts. A job carries a hash to `seen.json` only after it staged PDFs fetched
after the hashing and posted them or failed to, and the map it writes was read from a file whose entries were backed
(`JobKnows`), which they stay. Lost marks lose nothing else, and a mixed text is no entry.

**RunRequestsProofs** (from `KeysAssumption`, and `NamesAssumption`: names of results files are
numbered): `NeverRerun`, `DropsOnlyDeleted`, `FinishRanAll`, `SettledOnce`.
What is listed is there and owed a run (`FilesAreOwed`); the job, which lists first
and loads the watches second, knows the watch of every request that was typed as it is
listed and whose watch was not deleted (`KnowsTheKept`); what the request in hand stands for is
run or still to run (`RunsThemAll`). Of results, whatever
waits in the queue is owed an import unless it is the file in hand after one
(`RequestsAreOwed`); the job imports the least name it listed, and every way to stop it puts the file in
hand back among the owed.

**ScrapeJobsProofs** (from `RankingAssumption`: the names on the pages are entries):
`StoredAsListed` and `ListedGroupsStay`, of the specification that may follow any of the jobs,
for any groups and entries and any number of runs over the pages of `RankingSites`. The steps
of the other jobs are none of the rankings' (`OthersElse`). The invariant `RankInv` says
what a run half way has done (`ReplacedSoFar`): some first PDFs of the page are worked
off, `payload` has their groups, and each group holds what the last of them says of
it. When no PDF is left, that is the whole page, and the prune empties exactly the groups that
no PDF names. A listed group stays because a PDF without rows is refused
(`Replaceable`) and because the prune, which runs only when nothing failed, spares every group of
`payload`.

What the jobs tell Slack (`SlackIsTold`): every job but `usaw_results` and `bwl_import`, over any table, site and
payload, says what it changed. The invariant `TellInv` is that the counts so far are the
difference between the table and the table as the run found it (`before`), which each kind of write keeps; of the
rankings `RankTold` says so group by group, as two PDFs of one group would be counted twice.
What a second run does (`RerunWritesNothing`): `QuietInv` keeps that the table holds what a
complete run read from its site, as long as the same job is looked at, and that a run half way
has read from its site what any run over it reads when no request fails. Proved for
the jobs that take rows one by one, the schedules and the masters' events.

Only model-checked, with the reason:

- of `scrape_jobs`, `ReadsBack`, `BrokenPartDeletesNothing`, `RightSession`, `AthleteOnce` and
  `AssignmentKept`, and of `SlackHearsWhatChanged` and `RerunIsQuiet` the jobs that `SlackIsTold` and
  `RerunWritesNothing` leave out (results and, of the latter, the rankings, the athletes, the American
  qualifying totals and the calendar). They are about what parsers
  and tables compute, as folds over sequences and selections from them. The induction
  over a fold takes an operator as a parameter, which the provers here cannot
  instantiate. (The one fold in `TotalBytes` is treated by a function made for it
  and a least counterexample; these properties go through dozens.)
- Liveness (`EveryRequestEnds`, `DecisionIsTaken`, `ChangesAreStaged`, `QueueDrains`,
  `RequestsSettle`): the provers do not reason about fairness and ENABLED.

## 6. What the code does that one might not expect

Three runs find a documented claim violated:

- `package_torn_body`: a build stores what it read under the stamp read before it
  began. A row inserted after the stamp is read and deleted after the build
  read it brings the stamp back, and requests after the deletion get the deleted row until
  the entry expires. `get_meet_package.rs` 735-736 says that a write
  invalidates immediately. It takes a transaction that only deletes (`DeleteOnly`), such
  as the script that removes duplicate athletes.
- `approval_wedged`: an error of Slack's `conversations.replies` for one run (deleted
  message, archived channel) ends every tick before the runs that sort after
  it. `pipeline.py` 357-358 says one unreadable run must not wedge the others.
- `list_raced`: commands under way at once share one temporary file, so readers can find
  an empty or a cut list; `store.rs` 6-7 says they cannot.

Other behaviours are in the models as they are in the code, and the properties say
so with an exception instead of hiding them. Of the API:

- Writers of one meet that overlap can commit out of id order and leave `COUNT` and
  `MAX(xmin)` as they were (`Serialized = FALSE` breaks `EveryWriteChangesStamp`). The job lock
  serializes runs of one job, not different jobs.
- Two slots dropped at the same time count each other and leave an unused entry in
  `IN_FLIGHT`; the next request for the key uses it.
- A request cut off while it fetches the signing keys leaves no stamp, and the next
  one in line fetches at once, without the back-off.
- After a race an account over its cap of saved sessions finds `Cap` others and can no
  longer edit what it has, contrary to the comment at `saved_sessions.rs` 268-269.
- Edits of a list that overlap can lose one of them; `rename` can report an error
  though the content it wrote was moved in place by the other command; and an empty
  file is read as a list with no items.

Of the meet automation and the queues:

- A save of the staging job puts back `pending_approval` over a decision taken between
  its post and that save (`settled` counts runs whose staging is over).
- A `reject` by hand that falls into a tick which has loaded the run is overwritten by it,
  and a Reject pressed while a publish runs is deleted unread.
- A thread reply cannot be consumed: if the failed status cannot be saved either, the
  next tick follows it again.
- A crash while `seen.json` is written leaves a file that stops all later detection
  (`ChangesAreStaged` has that as its alternative); two jobs can lose each other's
  marks, and an unchanged page is then staged again.
- `/meet-run` accepts a key in another case and the job drops it.
- Two `/meet-run` of one key at once share `<key>.json.tmp`: one renames what the other has just
  truncated, and the job drops the empty or torn file, with its watch still listed. The comment at
  `routes/scrapers/mod.rs` 136-141 says that a reader never sees a file half
  written. Two presses for one run can leave its decision unreadable in the same way, and the run
  pending until somebody presses again or replies.
- A review that cannot be posted is logged, and its page marked seen all the same: the run
  waits on disk, and no later run stages that version unless it is forced.
- When `watches.json` cannot be read, the job raises before it claims anything and the queue
  stays as it is.
- A `/usamw-results` command repeated after its file was processed is queued again and
  imported again, though the comment at `slack_commands.rs` 632-634 says that it
  overwrites its own file. A move to `done/` that fails after the import was committed is told as
  a failed import; a move to `failed/` that fails ends the drain, and the files
  behind wait for the next one. Files are taken in the order of their names, not of the commands.

Of the scrapers:

- Where men and women are side by side, a side that ends above the other is read on as an
  open class of its own (`scraper_carolinas.py` 150-178 with 207-212), which adds a record nobody
  listed; and the Carolinas' reader passes over a header among the first five rows (136-137),
  so a short first category takes the next one's classes. `ReadsBack` names both and leaves them out.
- The sheet service answers a tab that is gone with the first tab of the sheet. Most
  parsers refuse it for what it holds; Ohio's and, for the youth tab, the Carolinas' accept
  one that parses, and store it as the tab that is gone. `BrokenPartDeletesNothing` leaves these out (`Mistaken`);
  the jobs that read one tab only have nothing to compare and are not spoken of.
- The clean-up of copies reads without a lock and deletes by id. An assignment that
  commits in between loses its session with the row, though `dedupe_idless_athletes.py` says that the
  row with an assignment is the one kept; `AssignmentKept` leaves out a clean-up so overtaken.
- Of age bands listed one by one ("W45, W50 77kg") the last is read as a weight class
  (`assign_sessions.py` 264-279), so a session may suit somebody of a class it does not list.
- An entry without a number takes one of two copies without a number, whichever PostgreSQL returns.
- An IWF page that fails deletes its records; a failed lookup of the British records
  inserts a second copy; a Notion lookup that fails adds every meet again. A bulk import
  whose pages end early is never completed later, and one whose maximum id
  cannot be read has its inserts refused.
- Values that could not be read overwrite stored ones (`usaw`, `masters` and the standards).
- `usaw_qt` with two rows of one class alternates between them. Most sheet scrapers post
  nothing; `bwl_results` posts every meet in every run.
- A meet of the masters keeps the status "completed" and gets everything else overwritten; its job tells
  only of insertions.
- Results of two lifters of one name overwrite each other.
- The compact reader of the schedule does not end when a new slot fills before the last waiting
  class (`final_scraper.py` 1705-1707 with 1602-1603); slots without classes
  read from pictures, and pages without a date, yield nothing. Red's session 44 of the national meet is always
  moved to White. Dates of the preliminary layout apply to the rows above them too.
- A schedule's row is found by its label as well, so a changed label leaves the old row
  unless `--replace-existing` is given; an empty parse with it empties the meet.
- The assignment drops copies by number and meet (`assign_athlete_sessions.py` 99), so of two
  athletes without a number, or of a man and a woman of one name with a placeholder, the second never gets a
  session. Somebody in two source meets gets the placement of the later one. An athlete whose number
  changes between two scrapes gets a second row, and the lookup by number does not notice that the
  number was another's of the other gender.

## 7. Plan

Done, in this order: the endpoint (rows, cache, single flight), the approval gate,
change detection, run requests, the limits, the lists; then the scrape jobs by family
(records, standards, WSOs, rankings, meet lists, results, schedules, athletes), the
results queue, the signing keys and the saved sessions; proofs about eleven of them.

What is left, with the reasons for the order:

1. The deletions by meet and the exact sets by meet of the approval gate's ingest, to
   be composed with FreshnessStamp: an ingest is one transaction there already, so what
   it adds is the plan of what to delete.
2. The reader of staged PDFs (`meet_automation/scrape.py`) over the layouts of
   ScheduleReaders, which would join the schedule to the approval gate.
