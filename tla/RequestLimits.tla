----------------------------- MODULE RequestLimits ----------------------------
(***************************************************************************)
(* The two middlewares in front of every handler: rate_limit, which        *)
(* charges a request to a bucket of its client, and inside it shed_load,   *)
(* which holds one of max_in_flight slots while the handler runs.          *)
(*                                                                         *)
(* A package request is charged in two steps, around the handler: a little *)
(* before, the rest once the status is known.  Buckets of addresses live   *)
(* in a map of bounded size: while it is full, addresses are folded into   *)
(* shared overflow buckets, and a sweep drops buckets that have refilled.  *)
(* Reading the size of the map, charging, sweeping and the handler's end   *)
(* interleave; the request timeout or a lost client drops a request while  *)
(* its handler runs, with whatever it still owes.                          *)
(*                                                                         *)
(* One step of time is what a bucket needs to get one token back.          *)
(***************************************************************************)
EXTENDS Naturals, FiniteSets

CONSTANTS
    Requests,      \* requests in the server at once
    Keys,          \* configured API keys
    Addresses,     \* client networks (an IPv4 address, an IPv6 /64)
    Overflow,      \* the overflow buckets
    Nobody,        \* the client of no request
    MaxTracked,    \* MAX_TRACKED_CLIENTS
    Burst,         \* ip_burst, key_burst
    PerSecond,     \* ip_tokens_per_second, key_tokens_per_second
    MaxInFlight    \* max_in_flight

Routes == {"package", "plain", "costly"}

PackageRouteCost      == 4
PackageRevalidateCost == 1
MaxRouteCost          == 5

RouteCost(p) ==
    CASE p = "package" -> PackageRouteCost [] p = "costly" -> MaxRouteCost [] OTHER -> 1

\* The settings RateLimit::new and LoadShedder::new accept; whole packages are
\* affordable again after any Retry-After only at PackageRouteCost tokens a
\* second or more (the defaults are 40 and 200).
ASSUME LimitsAssumption ==
    /\ IsFiniteSet(Requests) /\ IsFiniteSet(Addresses) /\ IsFiniteSet(Overflow)
    /\ Burst \in Nat /\ Burst >= MaxRouteCost
    /\ PerSecond \in Nat /\ PerSecond >= PackageRouteCost
    /\ MaxTracked \in Nat \ {0} /\ MaxInFlight \in Nat \ {0}

ASSUME ClientsAssumption ==
    /\ Keys \cap Addresses = {} /\ Overflow \cap (Keys \cup Addresses) = {} /\ Overflow # {}
    /\ Nobody \notin Keys \cup Addresses \cup Overflow

Clients == Keys \cup Addresses \cup Overflow

VARIABLES
    enforce,   \* answer 429, or only warn
    slotOf,    \* [Addresses -> Overflow]: the random hash of this process
    level,     \* [Clients -> 0..Burst]: tokens spent and not yet back
    tracked,   \* the addresses and overflow buckets that are in the map
    pc,        \* [Requests -> Places]
    route,     \* [Requests -> Routes]
    client,    \* [Requests -> Clients or Nobody]: whom the request is charged to
    answer,    \* [Requests -> Answers]
    paid,      \* [Requests -> Nat]: history: tokens it has spent
    free       \* slots of the semaphore

buckets == <<level, tracked>>
vars == <<enforce, slotOf, buckets, pc, route, client, answer, paid, free>>

Places == {"idle", "identified", "charged", "running", "answered"}

\* "body" stands for every status a handler may answer with but 304.
Answers == {"none", "body", "not_modified", "overloaded", "limited", "dropped"}

Init ==
    /\ enforce \in BOOLEAN
    /\ slotOf \in [Addresses -> Overflow]
    /\ level = [c \in Clients |-> 0] /\ tracked = {}
    /\ pc = [r \in Requests |-> "idle"]
    /\ route = [r \in Requests |-> "plain"]
    /\ client = [r \in Requests |-> Nobody]
    /\ answer = [r \in Requests |-> "none"]
    /\ paid = [r \in Requests |-> 0]
    /\ free = MaxInFlight

-----------------------------------------------------------------------------
(* The buckets (the governor crate, and RateLimit::charged_client).        *)

\* A bucket that is not in the map is a full one.
Level(c) == IF c \in Keys \cup tracked THEN level[c] ELSE 0

\* A slip: the test comes one address late.
IsFullLate == Cardinality(tracked) > MaxTracked

IsFull == Cardinality(tracked) >= MaxTracked

\* While the map is full every address is charged to a shared bucket.
ChargedClient(c) == IF c \in Addresses /\ IsFull THEN slotOf[c] ELSE c

Affordable(c, n) == Level(c) + n <= Burst

\* RateLimit::check inserts the bucket, and takes n tokens if it holds them.
Check(c, n) ==
    /\ tracked' = tracked \cup ({c} \ Keys)
    /\ level' = [level EXCEPT ![c] = Level(c) + (IF Affordable(c, n) THEN n ELSE 0)]

\* A slip: whole seconds, rounded down.
RetryAfterDown(c, n) == (Level(c) + n - Burst) \div PerSecond

\* Seconds until n tokens are there, rounded up (whole_seconds_at_least_one).
RetryAfter(c, n) == (Level(c) + n - Burst + PerSecond - 1) \div PerSecond

-----------------------------------------------------------------------------
(* One request.                                                            *)

Goto(r, from, to) ==
    /\ pc[r] = from /\ pc' = [pc EXCEPT ![r] = to]
    /\ client' = IF to = "idle" THEN [client EXCEPT ![r] = Nobody] ELSE client
    /\ UNCHANGED <<enforce, slotOf, route>>

\* A request arrives from c; charged_client reads the size of the map.
Identify(r, p, c) ==
    /\ pc[r] = "idle"
    /\ pc' = [pc EXCEPT ![r] = "identified"]
    /\ route' = [route EXCEPT ![r] = p]
    /\ client' = [client EXCEPT ![r] = ChargedClient(c)]
    /\ answer' = [answer EXCEPT ![r] = "none"]
    /\ paid' = [paid EXCEPT ![r] = 0]
    /\ UNCHANGED <<enforce, slotOf, buckets, free>>

\* A slip: a package pays nothing before the handler runs.
UpfrontFree(p) == IF p = "package" THEN 0 ELSE RouteCost(p)

UpfrontCost(p) == IF p = "package" THEN PackageRevalidateCost ELSE RouteCost(p)

SettlementCost(p, a) ==
    IF p = "package" /\ a # "not_modified" THEN PackageRouteCost - PackageRevalidateCost ELSE 0

\* Charge n tokens and go on; past the limit an enforcing server answers 429.
Pay(r, n, from, to) ==
    /\ IF n = 0 THEN UNCHANGED buckets ELSE Check(client[r], n)
    /\ IF Affordable(client[r], n)
         THEN /\ paid' = [paid EXCEPT ![r] = @ + n]
              /\ Goto(r, from, to) /\ UNCHANGED answer
         ELSE /\ Goto(r, from, IF enforce THEN "idle" ELSE to)
              /\ answer' = [answer EXCEPT ![r] = IF enforce THEN "limited" ELSE @]
              /\ UNCHANGED paid
    /\ UNCHANGED free

PayUpfront(r) == Pay(r, UpfrontCost(route[r]), "identified", "charged")

\* shed_load: a slot, or 503 at once.
Admit(r) ==
    /\ free > 0 /\ free' = free - 1
    /\ Goto(r, "charged", "running")
    /\ UNCHANGED <<buckets, answer, paid>>

Shed(r) ==
    /\ free = 0
    /\ Goto(r, "charged", "answered")
    /\ answer' = [answer EXCEPT ![r] = "overloaded"]
    /\ UNCHANGED <<buckets, paid, free>>

\* The handler ends; only the package answers a revalidation with 304.
Answer(r, a) ==
    /\ a = "not_modified" => route[r] = "package"
    /\ Goto(r, "running", "answered")
    /\ answer' = [answer EXCEPT ![r] = a]
    /\ free' = free + 1
    /\ UNCHANGED <<buckets, paid>>

Settle(r) == Pay(r, SettlementCost(route[r], answer[r]), "answered", "idle")

\* A slip: the slot of a dropped request is lost.
DropWithSlot(r) ==
    /\ Goto(r, "running", "idle")
    /\ answer' = [answer EXCEPT ![r] = "dropped"]
    /\ UNCHANGED <<buckets, paid, free>>

\* The request timeout, or the client is gone: the handler's future is dropped
\* with the slot it holds, and nothing is settled.
Drop(r) ==
    /\ Goto(r, "running", "idle")
    /\ answer' = [answer EXCEPT ![r] = "dropped"]
    /\ free' = free + 1
    /\ UNCHANGED <<buckets, paid>>

-----------------------------------------------------------------------------
request == <<enforce, slotOf, pc, route, client, answer, paid, free>>

\* A slip: the sweep drops buckets that can pay for something again.
EvictRecent(c) ==
    /\ c \in tracked /\ level[c] < Burst
    /\ tracked' = tracked \ {c}
    /\ UNCHANGED <<level, request>>

\* evict_idle (retain_recent) drops a bucket that has refilled, at any time:
\* every minute, and when charged_client asks for it.
Evict(c) ==
    /\ c \in tracked /\ level[c] = 0
    /\ tracked' = tracked \ {c}
    /\ UNCHANGED <<level, request>>

Refill ==
    /\ level' = [c \in Clients |-> IF level[c] = 0 THEN 0 ELSE level[c] - 1]
    /\ UNCHANGED <<tracked, request>>

Step(r) ==
    \/ \E p \in Routes, c \in Keys \cup Addresses : Identify(r, p, c)
    \/ PayUpfront(r) \/ Admit(r) \/ Shed(r)
    \/ \E a \in {"body", "not_modified"} : Answer(r, a)
    \/ Settle(r) \/ Drop(r)

Next == (\E r \in Requests : Step(r)) \/ (\E c \in Clients : Evict(c)) \/ Refill

Spec == Init /\ [][Next]_vars

-----------------------------------------------------------------------------
TypeOK ==
    /\ enforce \in BOOLEAN /\ slotOf \in [Addresses -> Overflow]
    /\ level \in [Clients -> 0..Burst] /\ tracked \subseteq Addresses \cup Overflow
    /\ pc \in [Requests -> Places] /\ route \in [Requests -> Routes]
    /\ client \in [Requests -> Clients \cup {Nobody}] /\ answer \in [Requests -> Answers]
    /\ paid \in [Requests -> 0..MaxRouteCost] /\ free \in 0..MaxInFlight

\* What may be charged at once.
Charges ==
    {RouteCost(p) : p \in Routes}
        \cup {PackageRevalidateCost, PackageRouteCost - PackageRevalidateCost}

(* The map of buckets, its sweeps and its two-step charges are not seen by   *)
(* the clients: each bucket behaves as if it had always been there.  A sweep *)
(* gives nobody tokens back, whatever request is under way.                  *)
Plain == INSTANCE TokenBuckets WITH
    spent <- [c \in Clients |-> Level(c)], Costs <- Charges

ImplementsBuckets == Plain!Spec

(* "A stale If-None-Match is never a discount on a full package": when the   *)
(* limits are enforced, whoever gets an answer has paid the whole cost of    *)
(* the route, and a 304 the cost of a revalidation, in whatever state the    *)
(* bucket was before and after the handler.                                  *)
AnswersArePaid ==
    \A r \in Requests :
        enforce /\ pc[r] = "idle" /\ answer[r] \in {"body", "not_modified"}
            => paid[r] = IF answer[r] = "body" THEN RouteCost(route[r]) ELSE PackageRevalidateCost

(* The map does not grow past MAX_TRACKED_CLIENTS + OVERFLOW_BUCKETS by more *)
(* than the requests that read its size, or were charged, before it was full *)
(* and charge after.                                                         *)
MapIsBounded ==
    Cardinality(tracked \ Overflow) <= MaxTracked - 1 + Cardinality(Requests)

(* A slot is held by each running handler and by nothing else, also after    *)
(* timeouts: the server does not end up shedding everything.                 *)
SlotsComeBack ==
    free + Cardinality({r \in Requests : pc[r] = "running"}) = MaxInFlight

\* What a 429 promises: after the seconds it names, and no charges meanwhile,
\* the request can pay both its steps.
PromiseHolds(r) ==
    answer'[r] = "limited" /\ answer[r] # "limited" =>
        LET n == IF pc[r] = "identified" THEN UpfrontCost(route[r])
                                         ELSE SettlementCost(route[r], answer[r])
            waited == RetryAfter(client[r], n) * PerSecond
        IN  level'[client[r]] + RouteCost(route[r]) <= Burst + waited

(* "The bucket holds the request's cost again after this many whole          *)
(* seconds": a client that waits as told, and spends nothing meanwhile, can  *)
(* then pay for the whole request, both steps of it.                         *)
RetryAfterIsEnough == [][\A r \in Requests : PromiseHolds(r)]_vars
===============================================================================
