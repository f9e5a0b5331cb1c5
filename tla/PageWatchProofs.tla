--------------------------- MODULE PageWatchProofs ----------------------------
(***************************************************************************)
(* What seen.json calls seen was staged, and its review posted or failed,  *)
(* for any number of watches, jobs, changes, kills and failed posts.       *)
(*                                                                         *)
(* A job carries a hash to seen.json only after it staged PDFs that it     *)
(* fetched after hashing, so at least as new; and each map a job is about  *)
(* to write was read from a file whose entries were all backed, which they *)
(* stay.                                                                   *)
(***************************************************************************)
EXTENDS PageWatch, TLAPS

Bounds == WatchCount \in Nat \ {0} /\ MaxVersion \in Nat \ {0}

\* Version v of watch w, or a newer one, was staged and its post tried.
Backed(w, h) ==
    \E v \in h..MaxVersion : <<w, v>> \in staged /\ <<w, v>> \in shown \cup unshown
Grows == staged \subseteq staged' /\ shown \subseteq shown' /\ unshown \subseteq unshown'
AllBacked(map) == \A w \in Watches : map[w] # 0 => Backed(w, map[w])

Types ==
    /\ source \in [Watches -> 1..MaxVersion] /\ seen \in [Watches -> 0..MaxVersion]
    /\ job \in [Jobs -> Job]

\* What a job knows of its watch at each step.
JobKnows(j) ==
    /\ job[j].step \in {"compare", "fetch"} => job[j].hash <= source[job[j].watch]
    /\ job[j].step = "stage" => job[j].hash <= job[j].body
    /\ job[j].step = "load" => Backed(job[j].watch, job[j].hash)
    /\ job[j].step \in {"open", "fill"} => AllBacked(job[j].map)

IInv == Types /\ AllBacked(seen) /\ \A j \in Jobs : JobKnows(j)

LEMMA Initially == Bounds /\ Init => IInv
<1> SUFFICES ASSUME Bounds, Init PROVE IInv
  OBVIOUS
<1>1. \A w \in Watches : Idle(w) \in Job /\ Idle(w).step = "idle"
  BY DEF Idle, Job, Steps, Unseen, Bounds, Watches
<1>2. Types
  BY <1>1 DEF Types, Init, Unseen, Bounds, Watches
<1>3. AllBacked(seen)
  BY DEF Init, AllBacked, Unseen
<1>4. ASSUME NEW j \in Jobs PROVE JobKnows(j)
  BY <1>1 DEF Init, JobKnows
<1> QED BY <1>2, <1>3, <1>4 DEF IInv

-----------------------------------------------------------------------------
\* What was backed stays so, and the page only gets newer.
LEMMA OthersKnow ==
    ASSUME NEW j \in Jobs, JobKnows(j), job'[j] = job[j], Grows,
           Types, Types', \A w \in Watches : source[w] <= source'[w]
    PROVE  JobKnows(j)'
<1>1. job[j] \in Job
  BY DEF Types
<1>2. job[j].watch \in Watches /\ job[j].hash \in 0..MaxVersion
  BY <1>1 DEF Job
<1>3. job[j].step \in {"compare", "fetch"} => job[j].hash <= source'[job[j].watch]
  <2>1. source[job[j].watch] \in 1..MaxVersion /\ source'[job[j].watch] \in 1..MaxVersion
    BY <1>2 DEF Types
  <2> QED BY <1>2, <2>1 DEF JobKnows
<1> QED BY <1>3 DEF JobKnows, Backed, AllBacked, Grows

LEMMA BackedStays ==
    ASSUME AllBacked(seen), seen' = seen, Grows PROVE AllBacked(seen)'
BY DEF AllBacked, Backed, Grows

\* A step of one job that leaves the page and seen.json alone.
LEMMA JobStep ==
    ASSUME IInv, Bounds, NEW j \in Jobs, NEW r \in Job, Put(j, r), JobKnows(j)',
           source' = source, seen' \in {seen, Unseen}, Grows
    PROVE  IInv'
<1>0. Unseen \in [Watches -> 0..MaxVersion] /\ (seen' = Unseen => AllBacked(seen)')
  BY DEF Unseen, Bounds, AllBacked
<1>1. Types'
  BY <1>0 DEF IInv, Types, Put
<1>2. ASSUME NEW i \in Jobs PROVE JobKnows(i)'
  <2>1. CASE i # j
    <3>1. job'[i] = job[i] /\ \A w \in Watches : source[w] <= source'[w]
      BY <2>1 DEF IInv, Types, Put
    <3> QED BY <1>1, <3>1, OthersKnow DEF IInv
  <2> QED BY <2>1
<1> QED BY <1>0, <1>1, <1>2, BackedStays DEF IInv

LEMMA StopKeeps ==
    ASSUME IInv, Bounds, NEW j \in Jobs, Stop(j), source' = source, seen' = seen, Grows
    PROVE  IInv'
<1> DEFINE r == Idle(job[j].watch)
<1>1. job[j].watch \in Watches
  BY DEF IInv, Types, Job
<1>2. r \in Job /\ r.step = "idle"
  BY <1>1 DEF Idle, Job, Steps, Unseen, Bounds
<1>3. Put(j, r) /\ job'[j] = r
  BY DEF IInv, Types, Stop, Put
<1> HIDE DEF r
<1>4. JobKnows(j)'
  BY <1>2, <1>3 DEF JobKnows
<1> QED BY <1>2, <1>3, <1>4, JobStep

LEMMA ChangeKeeps == ASSUME IInv, Bounds, NEW w \in Watches, Change(w) PROVE IInv'
<1>1. Types' /\ \A v \in Watches : source[v] <= source'[v]
  BY DEF IInv, Types, Change, Bounds
<1>2. ASSUME NEW i \in Jobs PROVE JobKnows(i)'
  BY <1>1, OthersKnow DEF IInv, Change, runs, Grows
<1> QED BY <1>1, <1>2, BackedStays DEF IInv, Change, runs, Grows

LEMMA HashKeeps ==
    ASSUME IInv, Bounds, NEW j \in Jobs, NEW w \in Watches, Hash(j, w) PROVE IInv'
<1> DEFINE r == [Idle(w) EXCEPT !.step = "compare", !.hash = source[w]]
<1>1. source[w] \in 0..MaxVersion /\ source[w] \in Nat
  BY DEF IInv, Types, Bounds
<1>2. Idle(w) \in Job
  BY DEF Idle, Job, Steps, Unseen, Bounds
<1>3. Idle(w).watch = w
  BY DEF Idle
<1>4. r \in Job
  BY <1>1, <1>2 DEF Job, Steps
<1>5. r.step = "compare" /\ r.hash = source[w] /\ r.watch = w
  BY <1>2, <1>3 DEF Job
<1>6. Put(j, r) /\ job'[j] = r
  BY DEF IInv, Types, Hash, Put
<1> HIDE DEF r
<1>7. JobKnows(j)'
  BY <1>1, <1>5, <1>6 DEF JobKnows, Hash
<1> QED BY <1>4, <1>6, <1>7, JobStep DEF Hash, runs, Grows

LEMMA CompareKeeps == ASSUME IInv, Bounds, NEW j \in Jobs, Compare(j) PROVE IInv'
<1>1. CASE Stop(j)
  BY <1>1, StopKeeps DEF Compare, runs, Grows
<1> DEFINE r == [job[j] EXCEPT !.step = "fetch"]
<1>2. CASE Put(j, r)
  <2>1. job[j] \in Job /\ r \in Job /\ job'[j] = r
    BY <1>2 DEF IInv, Types, Job, Steps, Put
  <2>2. r.step = "fetch" /\ r.hash = job[j].hash /\ r.watch = job[j].watch
    BY <2>1 DEF Job
  <2> HIDE DEF r
  <2>3. JobKnows(j)'
    BY <2>1, <2>2 DEF IInv, JobKnows, Compare
  <2> QED BY <1>2, <2>1, <2>3, JobStep DEF Compare, runs, Grows
<1> QED BY <1>1, <1>2 DEF Compare

LEMMA FetchKeeps == ASSUME IInv, Bounds, NEW j \in Jobs, Fetch(j) PROVE IInv'
<1> DEFINE r == [job[j] EXCEPT !.step = "stage", !.body = source[job[j].watch]]
<1>1. job[j] \in Job /\ job[j].watch \in Watches
  BY DEF IInv, Types, Job
<1>2. source[job[j].watch] \in 0..MaxVersion
  BY <1>1 DEF IInv, Types, Bounds
<1>3. r \in Job
  BY <1>1, <1>2 DEF Job, Steps
<1>4. r.step = "stage" /\ r.hash = job[j].hash /\ r.body = source[job[j].watch]
  BY <1>1 DEF Job
<1>5. Put(j, r) /\ job'[j] = r
  BY DEF IInv, Types, Fetch, Put
<1> HIDE DEF r
<1>6. JobKnows(j)'
  BY <1>4, <1>5 DEF IInv, JobKnows, Fetch
<1> QED BY <1>3, <1>5, <1>6, JobStep DEF Fetch, runs, Grows

\* The run is staged, and its review posted, or not and the job goes on.
LEMMA StageKeeps ==
    ASSUME IInv, Bounds, NEW j \in Jobs, job[j].step = "stage", Staging(j), Grows,
           Put(j, [job[j] EXCEPT !.step = "load", !.body = 0]), source' = source, seen' = seen,
           <<job[j].watch, job[j].body>> \in shown' \cup unshown'
    PROVE  IInv'
<1> DEFINE r == [job[j] EXCEPT !.step = "load", !.body = 0]
<1>0. job[j] \in Job /\ 0 \in 0..MaxVersion
  BY DEF IInv, Types, Bounds
<1>1. job[j] \in Job /\ r \in Job
  BY <1>0 DEF Job, Steps
<1>2. r.step = "load" /\ r.hash = job[j].hash /\ r.watch = job[j].watch
  BY <1>1 DEF Job
<1>3. Put(j, r) /\ job'[j] = r
  BY DEF IInv, Types, Put
<1>4. job[j].hash <= job[j].body /\ job[j].hash \in 0..MaxVersion /\ job[j].body \in 0..MaxVersion
  BY <1>1 DEF IInv, JobKnows, Job
<1> HIDE DEF r
<1>5. \E v \in r.hash..MaxVersion :
          <<r.watch, v>> \in staged' /\ <<r.watch, v>> \in shown' \cup unshown'
  <2>1. job[j].body \in r.hash..MaxVersion
    BY <1>2, <1>4 DEF Bounds
  <2>2. <<r.watch, job[j].body>> \in staged'
    BY <1>2 DEF Staging
  <2> QED BY <1>2, <2>1, <2>2
<1>6. JobKnows(j)'
  BY <1>2, <1>3, <1>5 DEF JobKnows, Backed
<1> QED BY <1>1, <1>3, <1>6, JobStep

LEMMA UnpostedKeeps == ASSUME IInv, Bounds, NEW j \in Jobs, StageUnposted(j) PROVE IInv'
<1>1. Grows
  BY DEF StageUnposted, Staging, Grows
<1>2. CASE Stop(j)
  BY <1>1, <1>2, StopKeeps DEF StageUnposted
<1>3. CASE ~ Stop(j)
  BY <1>1, <1>3, StageKeeps DEF StageUnposted
<1> QED BY <1>2, <1>3

LEMMA LoadSeenKeeps == ASSUME IInv, Bounds, NEW j \in Jobs, LoadSeen(j) PROVE IInv'
<1> DEFINE map == [seen EXCEPT ![job[j].watch] = job[j].hash]
           r == [job[j] EXCEPT !.step = "open", !.hash = 0, !.map = map]
<1>1. job[j] \in Job /\ job[j].watch \in Watches /\ job[j].hash \in 0..MaxVersion
  BY DEF IInv, Types, Job
<1>2. map \in [Watches -> 0..MaxVersion] /\ AllBacked(map)
  BY <1>1 DEF IInv, Types, AllBacked, JobKnows, LoadSeen
<1>3. Put(j, r) /\ job'[j] = r
  BY DEF IInv, Types, LoadSeen, Put
<1> HIDE DEF map
<1>4. r \in Job
  <2>1. 0 \in 0..MaxVersion
    BY DEF Bounds
  <2> QED BY <1>1, <1>2, <2>1 DEF Job, Steps
<1>5. r.step = "open" /\ r.watch = job[j].watch /\ r.map = map
  BY <1>1 DEF Job
<1> HIDE DEF r
<1>6. JobKnows(j)'
  BY <1>2, <1>3, <1>5 DEF IInv, JobKnows, LoadSeen, runs, Backed, AllBacked
<1> QED BY <1>3, <1>4, <1>6, JobStep DEF LoadSeen, runs, Grows

LEMMA OpenSeenKeeps == ASSUME IInv, Bounds, NEW j \in Jobs, OpenSeen(j) PROVE IInv'
<1> DEFINE r == [job[j] EXCEPT !.step = "fill"]
<1>1. job[j] \in Job /\ r \in Job
  BY DEF IInv, Types, Job, Steps
<1>2. r.step = "fill" /\ r.hash = job[j].hash /\ r.watch = job[j].watch /\ r.map = job[j].map
  BY <1>1 DEF Job
<1>3. Put(j, r) /\ job'[j] = r
  BY DEF IInv, Types, OpenSeen, Put
<1> HIDE DEF r
<1>4. JobKnows(j)'
  BY <1>2, <1>3 DEF IInv, JobKnows, OpenSeen, runs, Backed, AllBacked
<1> QED BY <1>1, <1>3, <1>4, JobStep DEF OpenSeen, runs, Grows

LEMMA FillSeenKeeps == ASSUME IInv, Bounds, NEW j \in Jobs, FillSeen(j) PROVE IInv'
<1>1. job[j] \in Job /\ AllBacked(job[j].map)
  BY DEF IInv, Types, JobKnows, FillSeen
<1>2. job'[j] = Idle(job[j].watch) /\ Idle(job[j].watch) \in Job /\ job'[j].step = "idle"
  BY <1>1 DEF IInv, Types, FillSeen, Stop, Put, Idle, Job, Steps, Unseen, Bounds
<1>0. Unseen \in [Watches -> 0..MaxVersion]
  BY DEF Unseen, Bounds
<1>3. Types'
  BY <1>0, <1>1, <1>2 DEF IInv, Types, FillSeen, Stop, Put, Job
<1>4. AllBacked(seen)'
  BY <1>1 DEF FillSeen, AllBacked, Backed, runs, Unseen
<1>5. ASSUME NEW i \in Jobs PROVE JobKnows(i)'
  <2>1. CASE i = j
    BY <1>2, <2>1 DEF JobKnows
  <2>2. CASE i # j
    <3>1. job'[i] = job[i] /\ \A w \in Watches : source[w] <= source'[w]
      BY <2>2 DEF IInv, Types, FillSeen, Stop, Put
    <3> QED BY <1>3, <3>1, OthersKnow DEF IInv, FillSeen, runs, Grows
  <2> QED BY <2>1, <2>2
<1> QED BY <1>3, <1>4, <1>5 DEF IInv

LEMMA StepKeeps == Bounds /\ IInv /\ [Next]_vars => IInv'
<1> SUFFICES ASSUME Bounds, IInv, [Next]_vars PROVE IInv'
  OBVIOUS
<1>1. CASE UNCHANGED vars
  BY <1>1 DEF vars, runs, IInv, Types, AllBacked, Backed, JobKnows
<1>2. ASSUME NEW w \in Watches, Change(w) PROVE IInv'
  BY <1>2, ChangeKeeps
<1>3. ASSUME NEW j \in Jobs, NEW w \in Watches, Hash(j, w) PROVE IInv'
  BY <1>3, HashKeeps
<1>4. ASSUME NEW j \in Jobs, Work(j) PROVE IInv'
  <2>1. CASE Stage(j)
    BY <2>1, StageKeeps DEF Stage, Staging, Grows
  <2>2. CASE LoadSeenFails(j)
    BY <2>2, StopKeeps DEF LoadSeenFails, runs, Grows
  <2> QED BY <1>4, <2>1, <2>2, CompareKeeps, FetchKeeps, LoadSeenKeeps, OpenSeenKeeps, FillSeenKeeps
          DEF Work
<1>5. ASSUME NEW j \in Jobs, ScrapeFails(j) \/ Crash(j) PROVE IInv'
  BY <1>5, StopKeeps DEF ScrapeFails, Crash, runs, Grows
<1>6. ASSUME NEW j \in Jobs, StageUnposted(j) PROVE IInv'
  BY <1>6, UnpostedKeeps
<1> QED BY <1>1, <1>2, <1>3, <1>4, <1>5, <1>6 DEF Next

-----------------------------------------------------------------------------
(* "Only mark seen after a successful stage" (pipeline.py), whatever the    *)
(* jobs overwrite of one another's map and wherever they are killed: every  *)
(* entry of seen.json is backed by a staged run at least as new, whose       *)
(* review was posted or whose post failed.                                   *)
THEOREM Staged ==
    ASSUME WatchCount \in Nat \ {0}, MaxVersion \in Nat \ {0} PROVE Spec => []SeenWasStaged
<1>1. IInv => SeenWasStaged
  BY DEF IInv, AllBacked, Backed, SeenWasStaged
<1>2. Bounds
  BY DEF Bounds
<1> QED BY <1>1, <1>2, Initially, StepKeeps, PTL DEF Spec
===============================================================================
