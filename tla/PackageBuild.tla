----------------------------- MODULE PackageBuild -----------------------------
(***************************************************************************)
(* GET /meets/package (get_meet_package.rs): the handler, the detached     *)
(* build it spawns, the per-key single-flight lock IN_FLIGHT, the build    *)
(* permits BUILD_SLOTS, and the cache in front of them, over tables that   *)
(* scrapers write while requests run.                                      *)
(*                                                                         *)
(* A request is one run of the handler, together with the build task it    *)
(* may spawn: the task takes over the request's slot, lock and permit, and *)
(* goes on when the requester is gone. Every await and every mutex is a    *)
(* point where other requests may step in, so each is an action boundary.  *)
(***************************************************************************)
EXTENDS MeetCache

CONSTANTS
  Requests,      \* runs of the handler
  NoLock,        \* "no entry" in IN_FLIGHT
  MaxBuilds      \* MAX_CONCURRENT_PACKAGE_BUILDS

ASSUME PackageAssumption ==
  /\ IsFiniteSet(Requests) /\ IsFiniteSet(Keys)
  /\ NoLock \notin Requests
  /\ MaxBuilds \in Nat \ {0}

VARIABLES
  pc,        \* pc[r]: where request r, or the build it spawned, is
  key,       \* key[r]: the cache key r asked for
  stamp,     \* stamp[r]: the freshness stamp r read
  inFlight,  \* IN_FLIGHT: key -> the lock of the entry, or NoLock
  lockOf,    \* lockOf[r]: the lock r's BuildSlot refers to, or NoLock
  read,      \* read[r]: table -> rows r's build has read from it so far
  answer,    \* answer[r]: how r was answered
  body,      \* body[r]: the rows of the body r was answered with
  since      \* since[r][t]: the contents table t had since r read its stamp

flightVars == <<pc, key, inFlight, lockOf, answer>>
dataVars == <<stamp, read, body, since>>
vars == <<dbVars, cache, flightVars, dataVars>>

\* A lock (an Arc<Mutex>) is named after the request that allocated it.
Locks == Requests

\* Where a request can be. The "drop" states are the releases at the end of
\* the handler or of the build task, in the order Rust drops the variables.
Places == {"idle", "stamped", "missed", "waiting", "recheck", "want_permit",
           "build", "drop_permit", "drop_guard", "drop_future", "drop_slot",
           "drop_arc", "done"}

HasPermit == {"build", "drop_permit"}
\* A slip: the guard outlives the task (mem::forget), the key stays locked.
NeverUnlocks == Places \ {"idle", "stamped", "missed", "waiting", "drop_future"}
HoldsLock == {"recheck", "want_permit", "drop_guard"} \cup HasPermit
\* The guard, or the future that waits for it, keeps a reference to the lock.
HasGuardRef == {"waiting", "drop_future"} \cup HoldsLock
\* The BuildSlot, until its destructor has looked at the map ...
HasSlot == {"drop_slot"} \cup HasGuardRef
\* ... and its `lock` field, dropped after the destructor returned.
HasSlotRef == {"drop_arc"} \cup HasSlot

At(S) == {r \in Requests : pc[r] \in S}
\* A slip: the lock is not exclusive.
NoHolders(l) == {}
Holders(l) == {r \in At(HoldsLock) : lockOf[r] = l}

\* The references to lock l: the map's, the slots' and the guards'.
Refs(l) ==
  {<<"map", k>> : k \in {k \in Keys : inFlight[k] = l}}
    \cup {<<"slot", r>> : r \in {r \in At(HasSlotRef) : lockOf[r] = l}}
    \cup {<<"guard", r>> : r \in {r \in At(HasGuardRef) : lockOf[r] = l}}
\* A slip: the slot keeps no clone of the lock, so only the map's reference
\* and the guards' are counted.
CountWithoutSlots(l) == Cardinality({h \in Refs(l) : h[1] # "slot"})
StrongCount(l) == Cardinality(Refs(l))

-----------------------------------------------------------------------------
(* The handler, up to the spawn of the build. *)

Goto(r, place) == pc' = [pc EXCEPT ![r] = place]
Answer(r, a) == answer' = [answer EXCEPT ![r] = a]
HitsOf(r) == Hits(cache, key[r], stamp[r])

Init ==
  /\ CacheInit
  /\ pc = [r \in Requests |-> "idle"]
  /\ key \in [Requests -> Keys]
  /\ stamp = [r \in Requests |-> <<>>]
  /\ inFlight = [k \in Keys |-> NoLock]
  /\ lockOf = [r \in Requests |-> NoLock]
  /\ read = [r \in Requests |-> <<>>]
  /\ answer = [r \in Requests |-> "none"]
  /\ body = [r \in Requests |-> <<>>]
  /\ since = [r \in Requests |-> [t \in Tables |-> {}]]

\* freshness_stamp: one query, so one snapshot of all the tables.
ReadStamp(r) ==
  /\ pc[r] = "idle"
  /\ Goto(r, "stamped")
  /\ stamp' = [stamp EXCEPT ![r] = Stamp]
  /\ since' = [since EXCEPT ![r] = [t \in Tables |-> {xmin[t]}]]
  /\ UNCHANGED <<dbVars, cache, key, inFlight, lockOf, answer, read, body>>

\* The meet is unknown (404) or the query fails.
StampFails(r) ==
  /\ pc[r] = "idle"
  /\ Goto(r, "done")
  /\ Answer(r, "failed")
  /\ UNCHANGED <<dbVars, cache, key, inFlight, lockOf, dataVars>>

\* cached_package before the slot, and again by the request that got the
\* lock: a hit is answered at once, else the request goes on to `next`.
Lookup(r, at, hit, next) ==
  /\ pc[r] = at
  /\ \/ \E e \in HitsOf(r) :
          /\ Goto(r, hit)
          /\ Answer(r, "hit")
          /\ body' = [body EXCEPT ![r] = e.body]
     \/ /\ HitsOf(r) = {}
        /\ Goto(r, next)
        /\ UNCHANGED <<answer, body>>
  /\ UNCHANGED <<dbVars, cache, key, inFlight, lockOf, stamp, read, since>>

FirstLookup(r) == Lookup(r, "stamped", "done", "missed")
SecondLookup(r) == Lookup(r, "recheck", "drop_guard", "want_permit")

\* build_slot, under the IN_FLIGHT mutex: the key's lock, or a new one.
BuildSlot(r) ==
  /\ pc[r] = "missed"
  /\ inFlight' = [inFlight EXCEPT ![key[r]] = IF @ = NoLock THEN r ELSE @]
  /\ lockOf' = [lockOf EXCEPT ![r] = inFlight'[key[r]]]
  /\ Goto(r, "waiting")
  /\ UNCHANGED <<dbVars, cache, key, answer, dataVars>>

\* lock_owned().await returns.
AcquireLock(r) ==
  /\ pc[r] = "waiting"
  /\ Holders(lockOf[r]) = {}
  /\ Goto(r, "recheck")
  /\ UNCHANGED <<dbVars, cache, key, inFlight, lockOf, answer, dataVars>>

\* A permit of BUILD_SLOTS is free.
PermitFree == Cardinality(At(HasPermit)) < MaxBuilds

\* acquire_owned().await returns in time and the build is spawned.
AcquirePermit(r) ==
  /\ pc[r] = "want_permit"
  /\ PermitFree
  /\ Goto(r, "build")
  /\ UNCHANGED <<dbVars, cache, key, inFlight, lockOf, answer, dataVars>>

\* PACKAGE_BUILD_SLOT_WAIT runs out: 503.
PermitTimeout(r) ==
  /\ pc[r] = "want_permit"
  /\ Goto(r, "drop_guard")
  /\ Answer(r, "busy")
  /\ UNCHANGED <<dbVars, cache, key, inFlight, lockOf, dataVars>>

\* The client disconnects or the request timeout drops the handler. At an
\* await before the spawn its variables are dropped; the build task only
\* loses its reader.
Cancel(r) ==
  /\ answer[r] = "none"
  /\ \/ pc[r] \in {"idle", "stamped"} /\ Goto(r, "done")
     \/ pc[r] = "waiting" /\ Goto(r, "drop_future")
     \/ pc[r] = "want_permit" /\ Goto(r, "drop_guard")
     \/ pc[r] = "build" /\ UNCHANGED pc
  /\ Answer(r, "cancelled")
  /\ UNCHANGED <<dbVars, cache, key, inFlight, lockOf, dataVars>>

-----------------------------------------------------------------------------
(* The build task. *)

\* The rows read so far, f, and those of table t.
WithTable(f, t, rows) ==
  [u \in DOMAIN f \cup {t} |-> IF u = t THEN rows ELSE f[u]]

\* build_package: the tables are read by separate statements on separate
\* connections, each seeing what is committed when it runs.
ReadTable(r, t) ==
  /\ pc[r] = "build"
  /\ t \in Tables \ DOMAIN read[r]
  /\ read' = [read EXCEPT ![r] = WithTable(@, t, xmin[t])]
  /\ UNCHANGED <<dbVars, cache, flightVars, stamp, body, since>>

\* The build ends and is cached under the stamp read before it began.
FinishBuild(r) ==
  /\ pc[r] = "build"
  /\ DOMAIN read[r] = Tables
  /\ \E size \in Sizes :
       cache' = Stored(cache, Entry(key[r], stamp[r], read[r], size))
  /\ answer' = [answer EXCEPT ![r] = IF @ = "none" THEN "built" ELSE @]
  /\ body' = [body EXCEPT ![r] = read[r]]
  /\ read' = [read EXCEPT ![r] = <<>>]
  /\ Goto(r, "drop_permit")
  /\ UNCHANGED <<dbVars, key, inFlight, lockOf, stamp, since>>

\* A query fails or the task panics: nothing is cached.
BuildFails(r) ==
  /\ pc[r] = "build"
  /\ answer' = [answer EXCEPT ![r] = IF @ = "none" THEN "failed" ELSE @]
  /\ Goto(r, "drop_permit")
  /\ UNCHANGED <<dbVars, cache, key, inFlight, lockOf, dataVars>>

-----------------------------------------------------------------------------
(* Releases. *)

Release(r, from, to) ==
  /\ pc[r] = from
  /\ Goto(r, to)
  /\ UNCHANGED <<dbVars, cache, key, inFlight, lockOf, answer, dataVars>>

DropPermit(r) == Release(r, "drop_permit", "drop_guard")
DropGuard(r) == Release(r, "drop_guard", "drop_slot")
DropFuture(r) == Release(r, "drop_future", "drop_slot")

\* BuildSlot::drop, under the IN_FLIGHT mutex. The slot's own reference to
\* the lock is a field, dropped only after this returns.
DropSlot(r) ==
  /\ pc[r] = "drop_slot"
  /\ inFlight' = [inFlight EXCEPT ![key[r]] =
                    IF @ = lockOf[r] /\ StrongCount(lockOf[r]) <= 2
                    THEN NoLock ELSE @]
  /\ Goto(r, "drop_arc")
  /\ UNCHANGED <<dbVars, cache, key, lockOf, answer, dataVars>>

DropArc(r) == Release(r, "drop_arc", "done")

-----------------------------------------------------------------------------

\* A scraper's transaction on the meet's tables.
Write ==
  /\ DBNext
  /\ since' = [r \in Requests |->
                IF answer[r] # "none" \/ pc[r] = "idle" THEN since[r]
                ELSE [t \in Tables |-> since[r][t] \cup {xmin'[t]}]]
  /\ UNCHANGED <<cache, flightVars, stamp, read, body>>

\* An entry of the cache grows too old.
Expire == Outlive /\ UNCHANGED <<flightVars, dataVars>>

\* The steps of r that nothing but the scheduler decides: every run of the
\* handler takes them unless it is cancelled.
Advance(r) ==
  \/ ReadStamp(r) \/ StampFails(r)
  \/ FirstLookup(r) \/ BuildSlot(r) \/ SecondLookup(r)
  \/ AcquirePermit(r) \/ PermitTimeout(r)
  \/ (\E t \in Tables : ReadTable(r, t)) \/ FinishBuild(r) \/ BuildFails(r)
  \/ DropPermit(r) \/ DropGuard(r) \/ DropFuture(r) \/ DropSlot(r) \/ DropArc(r)

Step(r) == Advance(r) \/ AcquireLock(r) \/ Cancel(r)

Next == (\E r \in Requests : Step(r)) \/ Write \/ Expire

Spec == Init /\ [][Next]_vars

\* Tokio polls every ready task, queries end (DB_ACQUIRE_TIMEOUT, a finished
\* or failed statement), and its mutex serves waiters first come first served.
Fairness ==
  \A r \in Requests : WF_vars(Advance(r)) /\ SF_vars(AcquireLock(r))

FairSpec == Spec /\ Fairness

-----------------------------------------------------------------------------

Answers == {"none", "hit", "built", "failed", "busy", "cancelled"}

TypeOK ==
  /\ pc \in [Requests -> Places]
  /\ key \in [Requests -> Keys]
  /\ inFlight \in [Keys -> Locks \cup {NoLock}]
  /\ lockOf \in [Requests -> Locks \cup {NoLock}]
  /\ answer \in [Requests -> Answers]

\* "Single-flight guard: one build per cache key at a time": across every
\* interleaving of new slots, cancelled waiters, drops that remove the map
\* entry and requests that then allocate another lock for the same key.
OneBuildPerKey ==
  \A r1, r2 \in At(HoldsLock) : key[r1] = key[r2] => r1 = r2

\* Every slot that has not yet been dropped is the one the map hands to the
\* next request for its key: an entry is never removed under a user.
SlotsAreCurrent ==
  \A r \in At(HasSlot) : inFlight[key[r]] = lockOf[r]

\* The request that holds the lock of key k.
OneOf(S) == IF S = {} THEN NoLock ELSE CHOOSE r \in S : TRUE
OwnerOf(k) == OneOf({r \in At(HoldsLock) : key[r] = k})

Promise == INSTANCE KeyedBuilds
             WITH Nobody <- NoLock,
                  owner <- [k \in Keys |-> OwnerOf(k)],
                  building <- At(HasPermit)

\* The handler implements the plain promise of KeyedBuilds: a key passes from
\* owner to nobody to owner, and a build runs only inside an ownership.
ImplementsPromise == Promise!Spec

\* "Package builds that may run at once, across every cache key".
BuildsWithinPermits == Cardinality(At(HasPermit)) <= MaxBuilds

\* What a request is answered with: in every table, rows that were current at
\* some moment after the request arrived, never older ones, whoever built the
\* body and however many writes and expiries happened on the way.
ServedIsCurrent ==
  \A r \in Requests : answer[r] \in {"hit", "built"} =>
    \A t \in Tables : body[r][t] \in since[r][t]

\* Every request that reached the handler ends, whatever its neighbours do:
\* no cancelled waiter or failed build leaves the key locked.
EveryRequestEnds == \A r \in Requests : pc[r] # "idle" ~> pc[r] = "done"
===============================================================================
