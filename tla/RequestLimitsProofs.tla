-------------------------- MODULE RequestLimitsProofs --------------------------
(***************************************************************************)
(* What the requests in one API process share, for any number of requests, *)
(* keys, addresses and saved sessions, any map size, any accepted quota    *)
(* and any cap.  That the map and its sweeps are invisible needs only that *)
(* a bucket leaves the map full; that answers are paid needs what each     *)
(* request has paid at each place it can be.                               *)
(***************************************************************************)
EXTENDS MCRequestLimits, FiniteSetTheorems, TLAPS

\* What a request has paid, and what it has been answered, on its way.
PaidSoFar ==
    \A r \in Requests :
        /\ pc[r] = "identified" => paid[r] = 0
        /\ pc[r] \in {"charged", "running", "answered"} =>
              /\ paid[r] <= UpfrontCost(route[r])
              /\ enforce => paid[r] = UpfrontCost(route[r])
        /\ pc[r] \in {"identified", "charged", "running"} => answer[r] = "none"
        /\ pc[r] = "answered" => /\ answer[r] \in {"body", "not_modified", "overloaded"}
                                 /\ answer[r] = "not_modified" => route[r] = "package"

\* A request on its way is charged to somebody.
HasClient == \A r \in Requests : pc[r] # "idle" => client[r] \in Clients

IInv == TypeOK /\ PaidSoFar /\ HasClient /\ AnswersArePaid /\ SlotsComeBack

Running == {r \in Requests : pc[r] = "running"}

USE DEF buckets, vars, request

LEMMA CostFacts ==
    /\ \A p \in Routes : /\ RouteCost(p) \in 0..MaxRouteCost
                         /\ UpfrontCost(p) \in 0..MaxRouteCost
                         /\ 0 < UpfrontCost(p)
    /\ RouteCost("package") = 4 /\ UpfrontCost("package") = 1
    /\ \A p \in Routes, a \in Answers :
          /\ SettlementCost(p, a) \in 0..MaxRouteCost
          /\ a # "not_modified" => UpfrontCost(p) + SettlementCost(p, a) = RouteCost(p)
          /\ a = "not_modified" => SettlementCost(p, a) = 0
          /\ UpfrontCost(p) + SettlementCost(p, a) <= MaxRouteCost
    /\ PackageRevalidateCost = 1
BY DEF RouteCost, UpfrontCost, SettlementCost, MaxRouteCost, PackageRouteCost,
       PackageRevalidateCost, Routes

LEMMA BurstIsNat == Burst \in Nat /\ MaxRouteCost \in Nat
BY LimitsAssumption DEF MaxRouteCost

LEMMA InitInv == Init => IInv
<1> SUFFICES ASSUME Init PROVE IInv
  OBVIOUS
<1>1. TypeOK /\ PaidSoFar /\ HasClient /\ AnswersArePaid
  BY BurstIsNat, CostFacts, LimitsAssumption
     DEF Init, TypeOK, PaidSoFar, HasClient, AnswersArePaid, Places, Answers, Routes
<1>2. {r \in Requests : pc[r] = "running"} = {}
  BY DEF Init
<1>3. SlotsComeBack
  BY <1>2, FS_EmptySet, LimitsAssumption DEF Init, SlotsComeBack
<1> QED BY <1>1, <1>3 DEF IInv

\* How a request that changes place changes the set of running ones.
LEMMA RunningMoves ==
  ASSUME TypeOK, NEW r \in Requests, NEW to \in Places, pc' = [pc EXCEPT ![r] = to]
  PROVE  /\ Cardinality(Running) \in Nat
         /\ pc[r] # "running" /\ to = "running"
                => Cardinality(Running') = Cardinality(Running) + 1
         /\ pc[r] = "running" /\ to # "running"
                => Cardinality(Running') = Cardinality(Running) - 1
         /\ pc[r] # "running" /\ to # "running"
                => Cardinality(Running') = Cardinality(Running)
<1>1. IsFiniteSet(Running) /\ Cardinality(Running) \in Nat
  BY LimitsAssumption, FS_Subset, FS_CardinalityType DEF Running
<1>2. CASE pc[r] # "running" /\ to = "running"
  <2>1. r \notin Running /\ Running' = Running \cup {r}
    BY <1>2 DEF Running, TypeOK
  <2> QED BY <1>1, <1>2, <2>1, FS_AddElement
<1>3. CASE pc[r] = "running" /\ to # "running"
  <2>1. r \in Running /\ Running' = Running \ {r}
    BY <1>3 DEF Running, TypeOK
  <2> QED BY <1>1, <1>3, <2>1, FS_RemoveElement
<1>4. CASE pc[r] # "running" /\ to # "running"
  <2>1. Running' = Running
    BY <1>4 DEF Running, TypeOK
  <2> QED BY <1>1, <1>4, <2>1
<1>5. CASE pc[r] = "running" /\ to = "running"
  BY <1>1, <1>5
<1> QED BY <1>2, <1>3, <1>4, <1>5

LEMMA RunningCount == ASSUME TypeOK PROVE Cardinality(Running)' \in Nat
<1>1. IsFiniteSet(Running')
  BY LimitsAssumption, FS_Subset DEF Running
<1> QED BY <1>1, FS_CardinalityType

\* Slots, for the steps that neither take nor return one.
LEMMA SlotsStay ==
  ASSUME IInv, NEW r \in Requests, NEW to \in Places, pc' = [pc EXCEPT ![r] = to],
         pc[r] # "running", to # "running", free' = free
  PROVE  SlotsComeBack'
BY RunningMoves DEF IInv, SlotsComeBack, Running

\* Buckets keep their range, whoever is charged.
LEMMA CheckType ==
  ASSUME TypeOK, NEW c \in Clients, NEW n \in Nat, Check(c, n)
  PROVE  level' \in [Clients -> 0..Burst] /\ tracked' \subseteq Addresses \cup Overflow
<1>1. level[c] \in 0..Burst /\ Burst \in Nat
  BY BurstIsNat DEF TypeOK
<1>2. Level(c) \in 0..Burst
  BY <1>1 DEF Level
<1>3. Level(c) + (IF Affordable(c, n) THEN n ELSE 0) \in 0..Burst
  BY <1>1, <1>2 DEF Affordable
<1> QED BY <1>3 DEF Check, TypeOK, Clients

LEMMA PayType ==
  ASSUME IInv, NEW r \in Requests, NEW n \in 0..MaxRouteCost, NEW from, NEW to,
         from # "idle", Pay(r, n, from, to)
  PROVE  level' \in [Clients -> 0..Burst] /\ tracked' \subseteq Addresses \cup Overflow
<1>1. client[r] \in Clients /\ n \in Nat
  BY BurstIsNat DEF Pay, Goto, IInv, HasClient
<1> QED BY <1>1, CheckType DEF Pay, IInv, TypeOK

LEMMA IdentifyInv ==
  ASSUME IInv, NEW r \in Requests, NEW p \in Routes, NEW c \in Keys \cup Addresses,
         Identify(r, p, c)
  PROVE  IInv'
<1>1. ChargedClient(c) \in Clients
  BY DEF ChargedClient, Clients, IInv, TypeOK
<1>2. TypeOK'
  BY <1>1, BurstIsNat DEF Identify, IInv, TypeOK, Places, Answers
<1>3. PaidSoFar' /\ HasClient' /\ AnswersArePaid'
  BY <1>1 DEF Identify, IInv, TypeOK, PaidSoFar, HasClient, AnswersArePaid
<1>4. SlotsComeBack'
  BY SlotsStay DEF Identify, Places
<1> QED BY <1>2, <1>3, <1>4 DEF IInv

\* A charge moves a request on, or sends it away.
LEMMA PaySlots ==
  ASSUME IInv, NEW r \in Requests, NEW n, NEW from \in Places, NEW to \in Places,
         Pay(r, n, from, to), from # "running", to # "running"
  PROVE  SlotsComeBack'
<1>1. PICK x \in {"idle", to} : pc[r] = from /\ pc' = [pc EXCEPT ![r] = x] /\ free' = free
  BY DEF Pay, Goto
<1> QED BY <1>1, SlotsStay DEF Places

LEMMA PayUpfrontInv ==
  ASSUME IInv, NEW r \in Requests, PayUpfront(r)
  PROVE  IInv'
<1> DEFINE n == UpfrontCost(route[r])
<1>1. n \in 0..MaxRouteCost /\ route[r] \in Routes /\ pc[r] = "identified" /\ paid[r] = 0
  BY CostFacts DEF IInv, TypeOK, PaidSoFar, PayUpfront, Pay, Goto
<1>2. Pay(r, n, "identified", "charged")
  BY DEF PayUpfront
<1>3. level' \in [Clients -> 0..Burst] /\ tracked' \subseteq Addresses \cup Overflow
  BY <1>1, <1>2, PayType
<1>4. TypeOK'
  <2>1. paid' \in [Requests -> 0..MaxRouteCost]
    BY <1>1, <1>2, BurstIsNat DEF Pay, IInv, TypeOK
  <2> HIDE DEF n
  <2> QED BY <1>2, <1>3, <2>1 DEF Pay, Goto, IInv, TypeOK, Places, Answers
<1>5. PaidSoFar' /\ HasClient' /\ AnswersArePaid'
  <2>1. n \in Nat /\ n <= n /\ 0 <= n /\ n = UpfrontCost(route[r])
    BY <1>1, BurstIsNat
  <2> HIDE DEF n
  <2>2. PaidSoFar'
    BY <1>1, <1>2, <2>1 DEF Pay, Goto, IInv, TypeOK, PaidSoFar
  <2>3. HasClient' /\ AnswersArePaid'
    BY <1>1, <1>2 DEF Pay, Goto, IInv, TypeOK, PaidSoFar, HasClient, AnswersArePaid
  <2> QED BY <2>2, <2>3
<1>6. SlotsComeBack'
  BY <1>2, PaySlots DEF Places
<1> QED BY <1>4, <1>5, <1>6 DEF IInv

LEMMA SettleInv ==
  ASSUME IInv, NEW r \in Requests, Settle(r)
  PROVE  IInv'
<1> DEFINE n == SettlementCost(route[r], answer[r])
<1>1. /\ route[r] \in Routes /\ pc[r] = "answered"
      /\ answer[r] \in {"body", "not_modified", "overloaded"}
      /\ paid[r] \in 0..MaxRouteCost /\ paid[r] <= UpfrontCost(route[r])
      /\ enforce => paid[r] = UpfrontCost(route[r])
      /\ answer[r] = "not_modified" => route[r] = "package"
  BY DEF IInv, TypeOK, PaidSoFar, Settle, Pay, Goto
<1>2. /\ n \in 0..MaxRouteCost /\ paid[r] + n \in 0..MaxRouteCost
      /\ enforce => paid[r] + n = IF answer[r] = "not_modified" THEN PackageRevalidateCost
                                                               ELSE RouteCost(route[r])
  <2>1. answer[r] \in Answers /\ UpfrontCost(route[r]) \in 0..MaxRouteCost
    BY <1>1, CostFacts DEF Answers
  <2> QED BY <1>1, <2>1, CostFacts, BurstIsNat
<1>3. Pay(r, n, "answered", "idle")
  BY DEF Settle
<1>4. level' \in [Clients -> 0..Burst] /\ tracked' \subseteq Addresses \cup Overflow
  BY <1>2, <1>3, PayType
<1> HIDE DEF n
<1>5. TypeOK'
  BY <1>2, <1>3, <1>4 DEF Pay, Goto, IInv, TypeOK, Places, Answers
<1>6. PaidSoFar' /\ HasClient'
  BY <1>1, <1>3 DEF Pay, Goto, IInv, TypeOK, PaidSoFar, HasClient
<1>7. AnswersArePaid'
  BY <1>1, <1>2, <1>3 DEF Pay, Goto, IInv, TypeOK, AnswersArePaid
<1>8. SlotsComeBack'
  BY <1>3, PaySlots DEF Places
<1> QED BY <1>5, <1>6, <1>7, <1>8 DEF IInv

LEMMA HandlerInv ==
  ASSUME IInv, NEW r \in Requests,
         \/ Admit(r) \/ Shed(r) \/ Drop(r)
         \/ \E a \in {"body", "not_modified"} : Answer(r, a)
  PROVE  IInv'
<1>1. CASE Admit(r)
  <2>1. SlotsComeBack' /\ free' \in 0..MaxInFlight
    <3>1. pc[r] = "charged" /\ pc' = [pc EXCEPT ![r] = "running"] /\ "running" \in Places
      BY <1>1 DEF Admit, Goto, Places
    <3>2. Cardinality(Running') = Cardinality(Running) + 1 /\ Cardinality(Running) \in Nat
      BY <3>1, RunningMoves DEF IInv
    <3> QED BY <1>1, <3>2, LimitsAssumption DEF IInv, TypeOK, SlotsComeBack, Admit, Running
  <2>2. TypeOK'
    BY <1>1, <2>1 DEF Admit, Goto, IInv, TypeOK, Places
  <2>3. PaidSoFar' /\ HasClient' /\ AnswersArePaid'
    BY <1>1 DEF Admit, Goto, IInv, TypeOK, PaidSoFar, HasClient, AnswersArePaid
  <2> QED BY <2>1, <2>2, <2>3 DEF IInv
<1>2. CASE Shed(r)
  <2>1. TypeOK'
    BY <1>2 DEF Shed, Goto, IInv, TypeOK, Places, Answers
  <2>2. PaidSoFar' /\ HasClient' /\ AnswersArePaid'
    BY <1>2 DEF Shed, Goto, IInv, TypeOK, PaidSoFar, HasClient, AnswersArePaid
  <2>3. SlotsComeBack'
    BY <1>2, SlotsStay DEF Shed, Goto, Places
  <2> QED BY <2>1, <2>2, <2>3 DEF IInv
<1>3. ASSUME NEW a \in {"body", "not_modified"}, Answer(r, a) PROVE IInv'
  <2>1. SlotsComeBack' /\ free' \in 0..MaxInFlight
    <3>1. pc[r] = "running" /\ pc' = [pc EXCEPT ![r] = "answered"] /\ "answered" \in Places
      BY <1>3 DEF Answer, Goto, Places
    <3>2. /\ Cardinality(Running') = Cardinality(Running) - 1
          /\ Cardinality(Running) \in Nat /\ Cardinality(Running') \in Nat
      BY <3>1, RunningMoves, RunningCount DEF IInv
    <3> QED BY <1>3, <3>2, LimitsAssumption DEF IInv, TypeOK, SlotsComeBack, Answer, Running
  <2>2. TypeOK'
    BY <1>3, <2>1 DEF Answer, Goto, IInv, TypeOK, Places, Answers
  <2>3. PaidSoFar' /\ HasClient' /\ AnswersArePaid'
    BY <1>3 DEF Answer, Goto, IInv, TypeOK, PaidSoFar, HasClient, AnswersArePaid
  <2> QED BY <2>1, <2>2, <2>3 DEF IInv
<1>4. CASE Drop(r)
  <2>1. SlotsComeBack' /\ free' \in 0..MaxInFlight
    <3>1. pc[r] = "running" /\ pc' = [pc EXCEPT ![r] = "idle"] /\ "idle" \in Places
      BY <1>4 DEF Drop, Goto, Places
    <3>2. /\ Cardinality(Running') = Cardinality(Running) - 1
          /\ Cardinality(Running) \in Nat /\ Cardinality(Running') \in Nat
      BY <3>1, RunningMoves, RunningCount DEF IInv
    <3> QED BY <1>4, <3>2, LimitsAssumption DEF IInv, TypeOK, SlotsComeBack, Drop, Running
  <2>2. TypeOK'
    BY <1>4, <2>1 DEF Drop, Goto, IInv, TypeOK, Places, Answers
  <2>3. PaidSoFar' /\ HasClient' /\ AnswersArePaid'
    BY <1>4 DEF Drop, Goto, IInv, TypeOK, PaidSoFar, HasClient, AnswersArePaid
  <2> QED BY <2>1, <2>2, <2>3 DEF IInv
<1> QED BY <1>1, <1>2, <1>3, <1>4

LEMMA BucketsInv ==
  ASSUME IInv, Refill \/ \E c \in Clients : Evict(c)
  PROVE  IInv'
<1>1. TypeOK'
  <2>1. CASE Refill
    <3>1. \A c \in Clients : (IF level[c] = 0 THEN 0 ELSE level[c] - 1) \in 0..Burst
      BY BurstIsNat DEF IInv, TypeOK
    <3> QED BY <2>1, <3>1 DEF Refill, IInv, TypeOK
  <2>2. CASE \E c \in Clients : Evict(c)
    BY <2>2 DEF Evict, IInv, TypeOK
  <2> QED BY <2>1, <2>2
<1>2. UNCHANGED request
  BY DEF Refill, Evict
<1> QED BY <1>1, <1>2 DEF IInv, PaidSoFar, HasClient, AnswersArePaid, SlotsComeBack

LEMMA StepInv == IInv /\ [Next]_vars => IInv'
<1> SUFFICES ASSUME IInv, [Next]_vars PROVE IInv'
  OBVIOUS
<1>1. CASE UNCHANGED vars
  BY <1>1 DEF IInv, TypeOK, PaidSoFar, HasClient, AnswersArePaid, SlotsComeBack
<1>2. ASSUME NEW r \in Requests, Step(r) PROVE IInv'
  BY <1>2, IdentifyInv, PayUpfrontInv, SettleInv, HandlerInv DEF Step
<1>3. CASE Refill \/ \E c \in Clients : Evict(c)
  BY <1>3, BucketsInv
<1> QED BY <1>1, <1>2, <1>3 DEF Next

LEMMA SpecInv == Spec => []IInv
<1> QED BY InitInv, StepInv, PTL DEF Spec

-----------------------------------------------------------------------------
(* Every variable keeps its type: no bucket is overdrawn, and there are      *)
(* never more slots than max_in_flight.                                      *)
THEOREM TypeCorrect == Spec => []TypeOK
<1>1. IInv => TypeOK
  BY DEF IInv
<1> QED BY <1>1, SpecInv, PTL

(* An enforcing server has been paid the whole cost of every answer it gave, *)
(* whatever the bucket of the client went through in between.                *)
THEOREM AnswersPaid == Spec => []AnswersArePaid
<1>1. IInv => AnswersArePaid
  BY DEF IInv
<1> QED BY <1>1, SpecInv, PTL

(* Every slot is free or held by one running handler, through any number of  *)
(* timeouts and lost clients.                                                *)
THEOREM SlotsBack == Spec => []SlotsComeBack
<1>1. IInv => SlotsComeBack
  BY DEF IInv
<1> QED BY <1>1, SpecInv, PTL

-----------------------------------------------------------------------------
(* The buckets in the map, seen as buckets that were always there.           *)
Seen == [c \in Clients |-> Level(c)]

LEMMA LevelType == ASSUME TypeOK, NEW c \in Clients PROVE Level(c) \in 0..Burst
BY BurstIsNat DEF TypeOK, Level

\* A charge moves the bucket of its client, and that one alone.
LEMMA CheckSeen ==
  ASSUME TypeOK, NEW c \in Clients, NEW n, Check(c, n)
  PROVE  Seen' = [Seen EXCEPT ![c] = Level(c) + (IF Affordable(c, n) THEN n ELSE 0)]
<1> DEFINE x == Level(c) + (IF Affordable(c, n) THEN n ELSE 0)
<1>1. c \in Keys \cup tracked' /\ tracked' = tracked \cup ({c} \ Keys) /\ level' = [level EXCEPT ![c] = x]
  BY DEF Check
<1> HIDE DEF x
<1>2. Level(c)' = x
  BY <1>1 DEF Level, TypeOK
<1>3. \A d \in Clients : d # c => Level(d)' = Level(d)
  BY <1>1 DEF Level, TypeOK
<1>4. Seen' = [Seen EXCEPT ![c] = x]
  BY <1>2, <1>3 DEF Seen
<1> QED BY <1>4 DEF x

LEMMA ChargeFacts ==
    /\ \A p \in Routes : UpfrontCost(p) \in Charges
    /\ \A p \in Routes, a \in Answers : SettlementCost(p, a) \in Charges \cup {0}
    /\ Charges \subseteq Nat
BY DEF Charges, UpfrontCost, SettlementCost, RouteCost, Routes, PackageRouteCost,
       PackageRevalidateCost, MaxRouteCost

LEMMA PaySeen ==
  ASSUME IInv, NEW r \in Requests, NEW n \in Charges \cup {0}, NEW from, NEW to,
         from # "idle", Pay(r, n, from, to)
  PROVE  Plain!Next \/ Seen' = Seen
<1> DEFINE c == client[r]
<1>1. c \in Clients /\ TypeOK /\ Level(c) \in 0..Burst /\ Burst \in Nat /\ Seen[c] = Level(c)
  BY LevelType, BurstIsNat DEF Pay, Goto, IInv, HasClient, Seen
<1>2. CASE n = 0
  BY <1>2 DEF Pay, Seen, Level
<1>3. CASE n # 0
  <2>1. n \in Charges /\ Check(c, n)
    BY <1>3 DEF Pay
  <2>2. Seen' = [Seen EXCEPT ![c] = Level(c) + (IF Affordable(c, n) THEN n ELSE 0)]
    BY <1>1, <2>1, CheckSeen
  <2>3. CASE Affordable(c, n)
    <3>1. Seen[c] + n <= Burst /\ Seen' = [Seen EXCEPT ![c] = Seen[c] + n]
      BY <1>1, <2>2, <2>3 DEF Affordable
    <3>2. Plain!Charge(c, n)
      BY <3>1 DEF Plain!Charge, Seen
    <3> QED BY <1>1, <2>1, <3>2 DEF Plain!Next
  <2>4. CASE ~Affordable(c, n)
    <3>0. (IF Affordable(c, n) THEN n ELSE 0) = 0 /\ Level(c) + 0 = Seen[c]
      BY <1>1, <2>4
    <3>1. Seen' = [Seen EXCEPT ![c] = Seen[c]]
      BY <2>2, <3>0
    <3> QED BY <3>1 DEF Seen
  <2> QED BY <2>3, <2>4
<1> QED BY <1>2, <1>3

LEMMA RefillSeen == ASSUME TypeOK, Refill PROVE Plain!Refill
<1>1. \A c \in Clients : Level(c)' = IF Level(c) = 0 THEN 0 ELSE Level(c) - 1
  BY DEF Level, Refill, TypeOK
<1> QED BY <1>1 DEF Plain!Refill

\* Only a full bucket leaves the map, and a bucket that is not there is full.
LEMMA EvictSeen == ASSUME TypeOK, NEW c \in Clients, Evict(c) PROVE Seen' = Seen
<1>1. \A d \in Clients : Level(d)' = Level(d)
  BY DEF Level, Evict, TypeOK
<1> QED BY <1>1 DEF Seen

LEMMA StepSeen ==
  ASSUME IInv, NEW r \in Requests, Step(r)
  PROVE  Plain!Next \/ Seen' = Seen
<1>1. CASE PayUpfront(r)
  <2>1. UpfrontCost(route[r]) \in Charges
    BY ChargeFacts DEF IInv, TypeOK
  <2> QED BY <1>1, <2>1, PaySeen DEF PayUpfront
<1>2. CASE Settle(r)
  <2>1. SettlementCost(route[r], answer[r]) \in Charges \cup {0}
    BY ChargeFacts DEF IInv, TypeOK
  <2> QED BY <1>2, <2>1, PaySeen DEF Settle
<1>3. CASE ~PayUpfront(r) /\ ~Settle(r)
  BY <1>3 DEF Step, Identify, Admit, Shed, Answer, Drop, Seen, Level
<1> QED BY <1>1, <1>2, <1>3

(* The rate limiter implements one bucket per client that was always there:  *)
(* the bounded map, its sweeps at any time, requests that are dropped and    *)
(* charges in two steps give nobody a token.                                 *)
THEOREM Implements == Spec => ImplementsBuckets
<1>1. Init => Plain!Init
  BY DEF Init, Plain!Init, Level, Seen
<1>2. IInv /\ [Next]_vars => [Plain!Next]_Seen
  <2> SUFFICES ASSUME IInv, [Next]_vars PROVE Plain!Next \/ Seen' = Seen
    OBVIOUS
  <2>1. ASSUME NEW r \in Requests, Step(r) PROVE Plain!Next \/ Seen' = Seen
    BY <2>1, StepSeen
  <2>2. ASSUME NEW c \in Clients, Evict(c) PROVE Seen' = Seen
    BY <2>2, EvictSeen DEF IInv
  <2>3. CASE Refill
    BY <2>3, RefillSeen DEF IInv, Plain!Next
  <2>4. CASE UNCHANGED vars
    BY <2>4 DEF Seen, Level
  <2> QED BY <2>1, <2>2, <2>3, <2>4 DEF Next
<1>3. Init /\ [][Next]_vars /\ []IInv => Plain!Init /\ [][Plain!Next]_Seen
  BY <1>1, <1>2, PTL
<1> QED BY <1>3, SpecInv, PTL DEF Spec, ImplementsBuckets, Plain!Spec, Seen

-----------------------------------------------------------------------------
\* Rounding up to whole periods of p.
LEMMA RoundedUp ==
  ASSUME NEW x \in Nat, x >= 1, NEW p \in Nat, p >= 1
  PROVE  LET w == ((x + p - 1) \div p) * p IN w \in Nat /\ w >= x /\ w >= p
<1> DEFINE a == x + p - 1
<1> DEFINE q == a \div p
<1>1. a \in Nat /\ a >= p
  OBVIOUS
<1>2. q \in Int /\ a % p \in 0..(p-1) /\ a = p * q + (a % p)
  BY <1>1
<1> HIDE DEF a, q
<1>3. q * p \in Int /\ q * p = a - (a % p)
  BY <1>1, <1>2
<1>4. q * p >= x
  BY <1>2, <1>3 DEF a
<1>5. q >= 1
  <2> SUFFICES ASSUME q <= 0 PROVE FALSE
    BY <1>2
  <2>1. q * p <= 0
    BY <1>2
  <2> QED BY <2>1, <1>4, <1>3
<1>6. q * p >= p
  <2>1. (q - 1) * p >= 0
    BY <1>5, <1>2
  <2> QED BY <2>1, <1>2
<1> QED BY <1>3, <1>4, <1>6 DEF a, q

\* The whole route is affordable after the wait for one of its steps.
LEMMA PromiseOfPay ==
  ASSUME IInv, NEW r \in Requests, NEW n \in Nat, NEW from, NEW to, from # "idle",
         Pay(r, n, from, to), answer'[r] = "limited", answer[r] # "limited",
         RouteCost(route[r]) = n \/ RouteCost(route[r]) = PackageRouteCost
  PROVE  level'[client[r]] + RouteCost(route[r])
            <= Burst + RetryAfter(client[r], n) * PerSecond
<1> DEFINE c == client[r]
<1> DEFINE x == Level(c) + n - Burst
<1>1. /\ c \in Clients /\ Level(c) \in 0..Burst /\ Burst \in Nat /\ TypeOK
      /\ PerSecond \in Nat /\ PerSecond >= 1 /\ PerSecond >= PackageRouteCost
  BY LevelType, BurstIsNat, LimitsAssumption DEF Pay, Goto, IInv, HasClient, PackageRouteCost
<1>2. ~Affordable(c, n)
  BY DEF Pay, IInv, TypeOK
<1>3. x \in Nat /\ x >= 1 /\ n # 0
  BY <1>1, <1>2 DEF Affordable
<1>4. level'[c] = Level(c)
  BY <1>1, <1>2, <1>3 DEF Pay, Check, TypeOK
<1>5. RetryAfter(c, n) = (x + PerSecond - 1) \div PerSecond
  BY DEF RetryAfter
<1> DEFINE w == ((x + PerSecond - 1) \div PerSecond) * PerSecond
<1>6. w \in Nat /\ w >= x /\ w >= PerSecond
  BY <1>1, <1>3, RoundedUp
<1>7. Level(c) + RouteCost(route[r]) <= Burst + w
  <2>1. Level(c) + n = Burst + x
    BY <1>1
  <2>2. PackageRouteCost \in Nat
    BY DEF PackageRouteCost
  <2> HIDE DEF w, x, c
  <2>3. CASE RouteCost(route[r]) = n
    BY <1>1, <1>3, <1>6, <2>1, <2>3
  <2>4. CASE RouteCost(route[r]) = PackageRouteCost
    BY <1>1, <1>6, <2>2, <2>4
  <2> QED BY <2>3, <2>4
<1> QED BY <1>4, <1>5, <1>7

(* A client that waits as long as a 429 tells it to, and spends nothing      *)
(* meanwhile, can then pay for the whole request.                            *)
THEOREM WaitIsEnough == Spec => RetryAfterIsEnough
<1>1. IInv /\ [Next]_vars => [\A r \in Requests : PromiseHolds(r)]_vars
  <2> SUFFICES ASSUME IInv, Next, NEW r \in Requests,
                      answer'[r] = "limited", answer[r] # "limited"
               PROVE  PromiseHolds(r)
    BY DEF PromiseHolds
  <2>1. CASE PayUpfront(r)
    <3>1. pc[r] = "identified" /\ route[r] \in Routes /\ UpfrontCost(route[r]) \in Nat
      BY <2>1, CostFacts, BurstIsNat DEF PayUpfront, Pay, Goto, IInv, TypeOK
    <3>2. \/ RouteCost(route[r]) = UpfrontCost(route[r])
          \/ RouteCost(route[r]) = PackageRouteCost
      BY DEF RouteCost, UpfrontCost
    <3> QED BY <2>1, <3>1, <3>2, PromiseOfPay DEF PayUpfront, PromiseHolds
  <2>2. CASE Settle(r)
    <3>1. /\ pc[r] = "answered" /\ route[r] \in Routes /\ answer[r] \in Answers
          /\ SettlementCost(route[r], answer[r]) \in Nat
      BY <2>2, CostFacts, BurstIsNat DEF Settle, Pay, Goto, IInv, TypeOK
    <3>2. \/ RouteCost(route[r]) = PackageRouteCost
          \/ SettlementCost(route[r], answer[r]) = 0
      BY DEF RouteCost, SettlementCost
    <3>3. SettlementCost(route[r], answer[r]) # 0
      <4>1. Level(client[r]) \in 0..Burst /\ Burst \in Nat
        BY <3>1, LevelType, BurstIsNat DEF IInv, HasClient
      <4>2. ~Affordable(client[r], SettlementCost(route[r], answer[r]))
        BY <2>2 DEF Settle, Pay, IInv, TypeOK
      <4> QED BY <4>1, <4>2 DEF Affordable
    <3> QED BY <2>2, <3>1, <3>2, <3>3, PromiseOfPay DEF Settle, PromiseHolds
  <2>3. CASE ~PayUpfront(r) /\ ~Settle(r)
    <3>1. answer'[r] # "limited" \/ answer'[r] = answer[r]
      <4>1. ASSUME NEW q \in Requests, Step(q) PROVE answer'[r] # "limited" \/ answer'[r] = answer[r]
        <5>1. CASE q = r
          BY <2>3, <4>1, <5>1 DEF Step, Identify, Admit, Shed, Answer, Drop, IInv, TypeOK
        <5>2. CASE q # r
          BY <4>1, <5>2
             DEF Step, Identify, PayUpfront, Settle, Pay, Admit, Shed, Answer, Drop, IInv, TypeOK
        <5> QED BY <5>1, <5>2
      <4>2. CASE Refill \/ \E c \in Clients : Evict(c)
        BY <4>2 DEF Refill, Evict
      <4> QED BY <4>1, <4>2 DEF Next
    <3> QED BY <3>1
  <2> QED BY <2>1, <2>2, <2>3
<1> QED BY <1>1, SpecInv, PTL DEF Spec, RetryAfterIsEnough

-----------------------------------------------------------------------------
\* The addresses in the map, those that a request under way may still insert,
\* and what the map has room for.
Mapped  == tracked \cap Addresses
Pending == {r \in Requests : pc[r] # "idle" /\ client[r] \in Addresses}
Coming  == {client[r] : r \in Pending}

MapRoom == Cardinality(Mapped \cup Coming) <= MaxTracked - 1 + Cardinality(Requests)

LEMMA MapFinite ==
  /\ IsFiniteSet(Mapped) /\ Cardinality(Mapped) \in Nat
  /\ IsFiniteSet(Coming) /\ Cardinality(Coming) \in Nat
  /\ Cardinality(Coming) <= Cardinality(Requests) /\ Cardinality(Requests) \in Nat
<1>1. IsFiniteSet(Mapped) /\ IsFiniteSet(Pending) /\ Cardinality(Pending) <= Cardinality(Requests)
  BY LimitsAssumption, FS_Subset DEF Mapped, Pending
<1> DEFINE f == [r \in Pending |-> client[r]]
<1>2. f \in Surjection(Pending, Coming)
  BY DEF Surjection, Coming
<1>3. IsFiniteSet(Coming) /\ Cardinality(Coming) <= Cardinality(Pending)
  BY <1>1, <1>2, FS_Surjection
<1> QED BY <1>1, <1>3, LimitsAssumption, FS_CardinalityType

\* Room is left by every step after which no more addresses are in the map or coming.
LEMMA RoomStays ==
  ASSUME MapRoom, (Mapped \cup Coming)' \subseteq Mapped \cup Coming
  PROVE  MapRoom'
<1>1. IsFiniteSet(Mapped \cup Coming)
  BY MapFinite, FS_Union
<1>2. Cardinality((Mapped \cup Coming)') <= Cardinality(Mapped \cup Coming)
  BY <1>1, FS_Subset
<1>3. /\ Cardinality(Mapped \cup Coming) \in Nat
      /\ Cardinality((Mapped \cup Coming)') \in Nat /\ Cardinality(Requests) \in Nat
  BY <1>1, FS_Subset, FS_CardinalityType, LimitsAssumption
<1> QED BY <1>2, <1>3, LimitsAssumption DEF MapRoom

LEMMA IdentifyRoom ==
  ASSUME TypeOK, MapRoom, NEW r \in Requests, NEW p \in Routes,
         NEW c \in Keys \cup Addresses, Identify(r, p, c)
  PROVE  MapRoom'
<1>1. Mapped' = Mapped
  BY DEF Identify, Mapped
<1>2. CASE c \in Addresses /\ ~IsFull
  <2>1. IsFiniteSet(tracked) /\ Cardinality(tracked) \in Nat
    <3>1. IsFiniteSet(Addresses \cup Overflow)
      BY LimitsAssumption, FS_Union
    <3> QED BY <3>1, FS_Subset, FS_CardinalityType DEF TypeOK
  <2>2. Cardinality(Mapped) <= Cardinality(tracked)
    BY <2>1, FS_Subset DEF Mapped
  <2>3. Cardinality(Mapped) <= MaxTracked - 1
    BY <1>2, <2>1, <2>2, MapFinite, LimitsAssumption DEF IsFull
  <2>4. /\ IsFiniteSet(Coming') /\ Cardinality(Coming') \in Nat
        /\ Cardinality(Coming') <= Cardinality(Requests)
    <3>1. IsFiniteSet(Pending') /\ Cardinality(Pending') <= Cardinality(Requests)
      BY LimitsAssumption, FS_Subset DEF Pending
    <3> DEFINE f == [q \in Pending' |-> client'[q]]
    <3>2. f \in Surjection(Pending', Coming')
      BY DEF Surjection, Coming
    <3>3. IsFiniteSet(Coming') /\ Cardinality(Coming') <= Cardinality(Pending')
      BY <3>1, <3>2, FS_Surjection
    <3> QED BY <3>1, <3>3, LimitsAssumption, FS_CardinalityType
  <2>5. Cardinality((Mapped \cup Coming)') <= Cardinality(Mapped) + Cardinality(Coming')
    <3>1. Cardinality(Mapped \cap Coming') \in Nat
      BY MapFinite, FS_Intersection, FS_CardinalityType
    <3>2. (Mapped \cup Coming)' = Mapped \cup Coming'
      BY <1>1
    <3>3. Cardinality(Mapped \cup Coming')
            = Cardinality(Mapped) + Cardinality(Coming') - Cardinality(Mapped \cap Coming')
      BY <2>4, MapFinite, FS_Union
    <3>4. Cardinality(Mapped \cup Coming') <= Cardinality(Mapped) + Cardinality(Coming')
      BY <2>4, <3>1, <3>3, MapFinite
    <3> QED BY <3>2, <3>4
  <2>6. Cardinality((Mapped \cup Coming)') \in Nat
    BY <1>1, <2>4, MapFinite, FS_Union, FS_CardinalityType
  <2> QED BY <2>3, <2>4, <2>5, <2>6, MapFinite, LimitsAssumption DEF MapRoom
<1>3. CASE ~(c \in Addresses /\ ~IsFull)
  <2>1. client' = [client EXCEPT ![r] = ChargedClient(c)] /\ ChargedClient(c) \notin Addresses
    BY <1>3, ClientsAssumption DEF Identify, ChargedClient, TypeOK
  <2>2. Coming' \subseteq Coming
    BY <2>1 DEF Identify, Coming, Pending, TypeOK
  <2> QED BY <1>1, <2>2, RoomStays
<1> QED BY <1>2, <1>3

LEMMA PayRoom ==
  ASSUME IInv, MapRoom, NEW r \in Requests, NEW n, NEW from, NEW to, from # "idle",
         Pay(r, n, from, to)
  PROVE  MapRoom'
<1>1. tracked' \subseteq tracked \cup {client[r]}
  BY DEF Pay, Check
<1>2. Mapped' \subseteq Mapped \cup Coming
  BY <1>1 DEF Mapped, Coming, Pending, Pay, Goto
<1>3. Coming' \subseteq Coming
  BY ClientsAssumption DEF Coming, Pending, Pay, Goto, IInv, TypeOK
<1> QED BY <1>2, <1>3, RoomStays

LEMMA StepRoom == IInv /\ MapRoom /\ [Next]_vars => MapRoom'
<1> SUFFICES ASSUME IInv, MapRoom, [Next]_vars PROVE MapRoom'
  OBVIOUS
<1>1. ASSUME NEW r \in Requests, Step(r) PROVE MapRoom'
  <2>1. CASE \E p \in Routes, c \in Keys \cup Addresses : Identify(r, p, c)
    BY <2>1, IdentifyRoom DEF IInv
  <2>2. CASE PayUpfront(r)
    BY <2>2, PayRoom DEF PayUpfront
  <2>3. CASE Settle(r)
    BY <2>3, PayRoom DEF Settle
  <2>4. CASE Admit(r) \/ Shed(r) \/ Drop(r) \/ \E a \in {"body", "not_modified"} : Answer(r, a)
    <3>1. Mapped' = Mapped
      BY <2>4 DEF Admit, Shed, Drop, Answer, Mapped
    <3>2. Coming' \subseteq Coming
      BY <2>4, ClientsAssumption
         DEF Admit, Shed, Drop, Answer, Goto, Coming, Pending, IInv, TypeOK
    <3> QED BY <3>1, <3>2, RoomStays
  <2> QED BY <1>1, <2>1, <2>2, <2>3, <2>4 DEF Step
<1>2. CASE Refill \/ UNCHANGED vars \/ \E c \in Clients : Evict(c)
  <2>1. Mapped' \subseteq Mapped /\ Coming' = Coming
    BY <1>2 DEF Refill, Evict, Mapped, Coming, Pending
  <2> QED BY <2>1, RoomStays
<1> QED BY <1>1, <1>2 DEF Next

(* However many clients there are, the map holds MAX_TRACKED_CLIENTS of them *)
(* and at most one more for each request that was in the server at once.     *)
THEOREM MapBounded == Spec => []MapIsBounded
<1>1. Init => MapRoom
  <2> SUFFICES ASSUME Init PROVE MapRoom
    OBVIOUS
  <2>1. Mapped \cup Coming = {}
    BY DEF Init, Mapped, Coming, Pending
  <2> QED BY <2>1, MapFinite, FS_EmptySet, LimitsAssumption DEF MapRoom
<1>2. IInv /\ MapRoom => MapIsBounded
  <2> SUFFICES ASSUME IInv, MapRoom PROVE MapIsBounded
    OBVIOUS
  <2>1. tracked \ Overflow = Mapped
    BY ClientsAssumption DEF IInv, TypeOK, Mapped
  <2>2. Cardinality(Mapped) <= Cardinality(Mapped \cup Coming)
    BY MapFinite, FS_Union, FS_Subset
  <2>3. Cardinality(Mapped \cup Coming) \in Nat
    BY MapFinite, FS_Union, FS_CardinalityType
  <2> QED BY <2>1, <2>2, <2>3, MapFinite, LimitsAssumption DEF MapRoom, MapIsBounded
<1>3. Spec => []MapRoom
  BY <1>1, StepRoom, SpecInv, PTL DEF Spec
<1> QED BY <1>2, <1>3, SpecInv, PTL
-----------------------------------------------------------------------------
(* The signing keys, for any number of requests and keys.  Who holds the    *)
(* clock has found no recent success, and keeps others from stamping one;   *)
(* so the document it installs is as old as `news' says, and a request that *)
(* is dropped with the lock leaves no success behind.                       *)

Holding == {"fetches", "installs"}

HoldersHold == \A r \in Requests : place[r] \in Holding => holder = r /\ ~recent

DocumentIsFresh ==
    \A r \in Requests : place[r] = "installs" => published \ document[r] \subseteq news

ThrottleRests == recent => published \ cached \subseteq news

KeysInv == Signing!TypeOK /\ HoldersHold /\ DocumentIsFresh /\ ThrottleRests

LEMMA KeysInitially == Signing!Init => KeysInv
BY DEF Signing!Init, KeysInv, Signing!TypeOK, HoldersHold, DocumentIsFresh, ThrottleRests,
       Holding, Signing!Places, Signing!Over

-----------------------------------------------------------------------------
(* A token: the steps of SigningKeys.                                      *)

LEMMA LookKeeps ==
    ASSUME KeysInv, NEW r \in Requests, NEW k \in KeyIds, Signing!Look(r, k) PROVE KeysInv'
<1>1. Signing!TypeOK'
  BY DEF KeysInv, Signing!TypeOK, Signing!Look, Signing!Goto, Signing!Places, Signing!Over,
         Signing!clock
<1>2. HoldersHold' /\ DocumentIsFresh' /\ ThrottleRests'
  BY DEF KeysInv, Signing!TypeOK, HoldersHold, DocumentIsFresh, ThrottleRests, Signing!Look,
         Signing!Goto, Holding, Signing!clock
<1> QED BY <1>1, <1>2 DEF KeysInv

LEMMA LockKeeps ==
    ASSUME KeysInv, NEW r \in Requests, Signing!Lock(r) PROVE KeysInv'
<1> DEFINE to == IF recent THEN "looksAgain" ELSE IF backing THEN "refused" ELSE "fetches"
<1>1. /\ place' = [place EXCEPT ![r] = to] /\ holder = Nobody
      /\ document' = [document EXCEPT ![r] = {}]
      /\ to \in {"looksAgain", "refused", "fetches"}
  BY DEF Signing!Lock, Signing!Goto
<1>2. Signing!TypeOK'
  BY <1>1 DEF KeysInv, Signing!TypeOK, Signing!Lock, Signing!Places, Signing!Over
<1>3. HoldersHold'
  <2>1. to = "fetches" => holder' = r /\ ~recent'
    BY DEF Signing!Lock
  <2>2. \A s \in Requests : place[s] \notin Holding
    BY <1>1, SharedAssumption DEF KeysInv, HoldersHold
  <2> QED BY <1>1, <2>1, <2>2 DEF KeysInv, Signing!TypeOK, HoldersHold, Holding
<1>4. DocumentIsFresh'
  BY <1>1 DEF KeysInv, Signing!TypeOK, DocumentIsFresh, Signing!Lock
<1>5. ThrottleRests'
  BY DEF KeysInv, ThrottleRests, Signing!Lock
<1> QED BY <1>2, <1>3, <1>4, <1>5 DEF KeysInv

LEMMA FetchedKeeps == ASSUME KeysInv, NEW r \in Requests, Signing!Fetched(r) PROVE KeysInv'
<1>1. Signing!TypeOK'
  BY DEF KeysInv, Signing!TypeOK, Signing!Fetched, Signing!Goto, Signing!Places,
         Signing!Over, Signing!clock
<1>2. ~recent /\ holder = r /\ \A s \in Requests : place[s] \in Holding => s = r
  BY DEF KeysInv, HoldersHold, Signing!Fetched, Signing!Goto, Holding
<1>3. HoldersHold' /\ ThrottleRests'
  BY <1>2
     DEF KeysInv, Signing!TypeOK, HoldersHold, ThrottleRests, Signing!Fetched, Signing!Goto,
         Holding, Signing!clock
<1>4. DocumentIsFresh'
  BY <1>2 DEF KeysInv, Signing!TypeOK, DocumentIsFresh, Signing!Fetched, Signing!Goto, Holding
<1> QED BY <1>1, <1>3, <1>4 DEF KeysInv

LEMMA FetchFailedKeeps == ASSUME KeysInv, NEW r \in Requests, Signing!FetchFailed(r) PROVE KeysInv'
<1>1. Signing!TypeOK'
  BY DEF KeysInv, Signing!TypeOK, Signing!FetchFailed, Signing!Goto, Signing!Places, Signing!Over
<1>2. ~recent /\ \A s \in Requests : place[s] \in Holding => s = r
  BY DEF KeysInv, HoldersHold, Signing!FetchFailed, Signing!Goto, Holding
<1>3. HoldersHold' /\ DocumentIsFresh' /\ ThrottleRests'
  BY <1>2
     DEF KeysInv, Signing!TypeOK, HoldersHold, DocumentIsFresh, ThrottleRests,
         Signing!FetchFailed, Signing!Goto, Holding
<1> QED BY <1>1, <1>3 DEF KeysInv

LEMMA InstallKeeps == ASSUME KeysInv, NEW r \in Requests, Signing!Install(r) PROVE KeysInv'
<1>1. Signing!TypeOK'
  BY DEF KeysInv, Signing!TypeOK, Signing!Install, Signing!Goto, Signing!Places, Signing!Over
<1>2. \A s \in Requests : place[s] \in Holding => s = r
  BY DEF KeysInv, HoldersHold, Signing!Install, Signing!Goto, Holding
<1>3. HoldersHold' /\ DocumentIsFresh'
  BY <1>2
     DEF KeysInv, Signing!TypeOK, HoldersHold, DocumentIsFresh, Signing!Install,
         Signing!Goto, Holding
<1>4. ThrottleRests'
  BY DEF KeysInv, DocumentIsFresh, ThrottleRests, Signing!Install, Signing!Goto
<1> QED BY <1>1, <1>3, <1>4 DEF KeysInv

LEMMA LookAgainKeeps == ASSUME KeysInv, NEW r \in Requests, Signing!LookAgain(r) PROVE KeysInv'
<1>1. Signing!TypeOK'
  BY DEF KeysInv, Signing!TypeOK, Signing!LookAgain, Signing!Goto, Signing!Places,
         Signing!Over, Signing!clock
<1>2. HoldersHold' /\ DocumentIsFresh' /\ ThrottleRests'
  BY DEF KeysInv, Signing!TypeOK, HoldersHold, DocumentIsFresh, ThrottleRests,
         Signing!LookAgain, Signing!Goto, Holding, Signing!clock
<1> QED BY <1>1, <1>2 DEF KeysInv

LEMMA DropKeeps == ASSUME KeysInv, NEW r \in Requests, Signing!Drop(r) PROVE KeysInv'
<1>1. Signing!TypeOK'
  BY DEF KeysInv, Signing!TypeOK, Signing!Drop, Signing!Goto, Signing!Places, Signing!Over
<1>2. HoldersHold' /\ DocumentIsFresh' /\ ThrottleRests'
  BY DEF KeysInv, Signing!TypeOK, HoldersHold, DocumentIsFresh, ThrottleRests, Signing!Drop,
         Signing!Goto, Holding
<1> QED BY <1>1, <1>2 DEF KeysInv

(* Time, and the provider.                                                 *)

LEMMA OthersKeep ==
    ASSUME KeysInv,
           \/ Signing!IntervalEnds \/ Signing!BackoffEnds
           \/ \E k \in KeyIds : Signing!Publish(k) \/ Signing!Withdraw(k)
    PROVE  KeysInv'
<1>1. CASE Signing!IntervalEnds
  BY <1>1
     DEF KeysInv, Signing!TypeOK, HoldersHold, DocumentIsFresh, ThrottleRests,
         Signing!IntervalEnds
<1>2. CASE Signing!BackoffEnds
  BY <1>2
     DEF KeysInv, Signing!TypeOK, HoldersHold, DocumentIsFresh, ThrottleRests,
         Signing!BackoffEnds
<1>3. ASSUME NEW k \in KeyIds, Signing!Publish(k) \/ Signing!Withdraw(k) PROVE KeysInv'
  BY <1>3
     DEF KeysInv, Signing!TypeOK, HoldersHold, DocumentIsFresh, ThrottleRests,
         Signing!Publish, Signing!Withdraw, Signing!clock
<1> QED BY <1>1, <1>3, <1>2

LEMMA KeysStepKeeps == KeysInv /\ [Signing!Next]_keyVars => KeysInv'
<1> SUFFICES ASSUME KeysInv, [Signing!Next]_keyVars PROVE KeysInv'
  OBVIOUS
<1>1. CASE UNCHANGED keyVars
  BY <1>1
     DEF KeysInv, Signing!TypeOK, HoldersHold, DocumentIsFresh, ThrottleRests, keyVars,
         Signing!clock
<1>2. CASE Signing!Next
  BY <1>2, LookKeeps, LockKeeps, FetchedKeeps, FetchFailedKeeps, InstallKeeps, LookAgainKeeps,
     DropKeeps, OthersKeep DEF Signing!Next
<1> QED BY <1>1, <1>2

-----------------------------------------------------------------------------
(* The saved sessions of a user, for any cap and any number of PUTs.  The   *)
(* sessions that are there or may yet be, those of the PUTs that have       *)
(* counted among them, are too few at every moment: a PUT that counts finds *)
(* less than Cap others, and nothing else adds to them.                     *)

Saving == {session[p] : p \in counted}

RowsBounded ==
    /\ IsFiniteSet(rows \cup Saving)
    /\ Cardinality(rows \cup Saving) < Cap + Cardinality(Requests)

RowsInv == Saved!TypeOK /\ RowsBounded

LEMMA Sane == IsFiniteSet(Requests) /\ Cap \in Nat \ {0} /\ Cardinality(Requests) \in Nat
BY LimitsAssumption, SharedAssumption, FS_CardinalityType

\* SavedSessions counts with a FiniteSets of its own.
LEMMA SameCount == ASSUME NEW S PROVE Saved!Cardinality(S) = Cardinality(S)
BY DEF Saved!Cardinality, Cardinality

\* PUTs save no more sessions than they are.
LEMMA FewSaved ==
    ASSUME NEW C \in SUBSET Requests, NEW g
    PROVE  IsFiniteSet({g[p] : p \in C}) /\ Cardinality({g[p] : p \in C}) <= Cardinality(Requests)
<1>1. IsFiniteSet(C) /\ Cardinality(C) <= Cardinality(Requests)
  BY FS_Subset, Sane
<1> DEFINE f == [p \in C |-> g[p]]
           S == {g[p] : p \in C}
<1>2. f \in Surjection(C, S)
  BY DEF Surjection
<1>3. IsFiniteSet(S) /\ Cardinality(S) <= Cardinality(C)
  BY <1>1, <1>2, FS_Surjection
<1> QED BY <1>1, <1>3, FS_CardinalityType, Sane

LEMMA RowsBegin == Saved!Init => RowsInv
<1> SUFFICES ASSUME Saved!Init PROVE RowsInv
  OBVIOUS
<1>1. rows \cup Saving = {} /\ Saved!TypeOK
  BY DEF Saved!Init, Saving, Saved!TypeOK
<1> QED BY <1>1, FS_EmptySet, Sane DEF RowsInv, RowsBounded

LEMMA CountKeeps ==
    ASSUME RowsInv, NEW p \in Requests, NEW s \in Sessions, Saved!Count(p, s)
    PROVE  RowsInv'
<1>1. Saved!TypeOK'
  BY DEF RowsInv, Saved!TypeOK, Saved!Count
<1>2. IsFiniteSet(Saving') /\ Cardinality(Saving') <= Cardinality(Requests)
  BY <1>1, FewSaved DEF Saved!TypeOK, Saving
<1>3. rows' \cup Saving' = (rows \ {s}) \cup Saving'
  <2>1. p \in counted' /\ session'[p] = s
    BY DEF RowsInv, Saved!TypeOK, Saved!Count
  <2> QED BY <2>1 DEF Saved!Count, Saving
<1>4. IsFiniteSet(rows \ {s}) /\ Cardinality(rows \ {s}) < Cap
  <2>1. IsFiniteSet(rows \ {s})
    BY FS_Subset DEF RowsInv, RowsBounded
  <2> QED BY <2>1, SameCount DEF Saved!Count
<1> DEFINE U == (rows \ {s}) \cup Saving'
           I == (rows \ {s}) \cap Saving'
<1>5. IsFiniteSet(U) /\ Cardinality(U) = Cardinality(rows \ {s}) + Cardinality(Saving') - Cardinality(I)
  BY <1>2, <1>4, FS_Union
<1>6. Cardinality(I) \in Nat
  BY <1>2, FS_Subset, FS_CardinalityType
<1>7. Cardinality(Requests) \in Nat /\ Cardinality(Saving') \in Nat /\ Cardinality(rows \ {s}) \in Nat
  BY <1>2, <1>4, FS_CardinalityType, Sane
<1>8. Cardinality(U) < Cap + Cardinality(Requests)
  BY <1>2, <1>4, <1>5, <1>6, <1>7, Sane
<1> QED BY <1>1, <1>3, <1>5, <1>8 DEF RowsInv, RowsBounded

LEMMA FewerKeep ==
    ASSUME RowsBounded, rows' \cup Saving' \subseteq rows \cup Saving
    PROVE  RowsBounded'
<1>1. /\ IsFiniteSet(rows' \cup Saving')
      /\ Cardinality(rows' \cup Saving') <= Cardinality(rows \cup Saving)
  BY FS_Subset DEF RowsBounded
<1>2. /\ Cardinality(rows \cup Saving) \in Nat /\ Cardinality(rows' \cup Saving') \in Nat
  BY <1>1, FS_CardinalityType DEF RowsBounded
<1> QED BY <1>1, <1>2, Sane DEF RowsBounded

LEMMA RowsStepKeep == RowsInv /\ [Saved!Next]_rowVars => RowsInv'
<1> SUFFICES ASSUME RowsInv, [Saved!Next]_rowVars PROVE RowsInv'
  OBVIOUS
<1>1. ASSUME NEW p \in Requests, NEW s \in Sessions, Saved!Count(p, s) PROVE RowsInv'
  BY <1>1, CountKeeps
<1>2. ASSUME NEW p \in Requests, Saved!Commit(p) \/ Saved!Drop(p) PROVE RowsInv'
  <2>1. Saved!TypeOK'
    BY <1>2 DEF RowsInv, Saved!TypeOK, Saved!Commit, Saved!Drop
  <2>2. rows' \cup Saving' \subseteq rows \cup Saving
    BY <1>2 DEF Saved!Commit, Saved!Drop, Saving
  <2> QED BY <2>1, <2>2, FewerKeep DEF RowsInv
<1>3. ASSUME NEW gone \in SUBSET rows, Saved!Delete(gone) PROVE RowsInv'
  <2>1. Saved!TypeOK'
    BY <1>3 DEF RowsInv, Saved!TypeOK, Saved!Delete
  <2>2. rows' \cup Saving' \subseteq rows \cup Saving
    BY <1>3 DEF Saved!Delete, Saving
  <2> QED BY <2>1, <2>2, FewerKeep DEF RowsInv
<1>4. CASE UNCHANGED rowVars
  <2>1. Saved!TypeOK' /\ rows' \cup Saving' \subseteq rows \cup Saving
    BY <1>4 DEF RowsInv, Saved!TypeOK, rowVars, Saving
  <2> QED BY <2>1, FewerKeep DEF RowsInv
<1> QED BY <1>1, <1>2, <1>3, <1>4 DEF Saved!Next

-----------------------------------------------------------------------------
(* The three parts side by side: a step of one is a stutter of the others.  *)
LEMMA EachSteps ==
    ASSUME [NextAll]_<<part, vars, keyVars, rowVars>>
    PROVE  [Next]_vars /\ [Signing!Next]_keyVars /\ [Saved!Next]_rowVars
BY DEF NextAll

LEMMA EachBegins == InitAll => Init /\ Signing!Init /\ Saved!Init
BY DEF InitAll

(* What is proved of the limits holds in the runs that choose a part.       *)
LEMMA LimitsAlone == SpecAll => Spec
<1>1. [NextAll]_<<part, vars, keyVars, rowVars>> => [Next]_vars
  BY EachSteps
<1> QED BY <1>1, EachBegins, PTL DEF SpecAll, Spec

(* Unknown key ids are answered from the cache, without a fetch, only while *)
(* the published keys it lacks are newer than the provider's last answer:   *)
(* refresh_keys stamps a success after the keys are in the cache, and       *)
(* nothing for a fetch that was cut off.                                    *)
THEOREM NewsOnly == SpecAll => []ThrottledOnlyForNews
<1>1. KeysInv => ThrottledOnlyForNews
  BY DEF KeysInv, ThrottleRests, ThrottledOnlyForNews, Signing!ThrottledOnlyForNews
<1>2. InitAll => KeysInv
  BY EachBegins, KeysInitially
<1>3. KeysInv /\ [NextAll]_<<part, vars, keyVars, rowVars>> => KeysInv'
  BY EachSteps, KeysStepKeeps
<1> QED BY <1>1, <1>2, <1>3, PTL DEF SpecAll

(* However PUTs and DELETEs of a user race, time after time, the rows stay  *)
(* below the cap plus the number of PUTs in the API at once                 *)
(* (put_saved_session counts the others and inserts in separate statements).*)
THEOREM CapNearly == SpecAll => []CapNearlyHolds
<1>1. RowsInv => CapNearlyHolds
  <2> SUFFICES ASSUME RowsInv PROVE CapNearlyHolds
    OBVIOUS
  <2>1. IsFiniteSet(rows) /\ Cardinality(rows) <= Cardinality(rows \cup Saving)
    BY FS_Subset DEF RowsInv, RowsBounded
  <2>2. Cardinality(rows \cup Saving) \in Nat /\ Cardinality(rows) \in Nat
    BY <2>1, FS_CardinalityType DEF RowsInv, RowsBounded
  <2>3. Cardinality(rows) < Cap + Cardinality(Requests)
    BY <2>1, <2>2, Sane DEF RowsInv, RowsBounded
  <2> QED BY <2>3, SameCount DEF CapNearlyHolds, Saved!CapNearlyHolds
<1>2. InitAll => RowsInv
  BY EachBegins, RowsBegin
<1>3. RowsInv /\ [NextAll]_<<part, vars, keyVars, rowVars>> => RowsInv'
  BY EachSteps, RowsStepKeep
<1> QED BY <1>1, <1>2, <1>3, PTL DEF SpecAll
===============================================================================
