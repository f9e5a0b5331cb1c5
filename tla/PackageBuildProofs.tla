-------------------------- MODULE PackageBuildProofs --------------------------
(***************************************************************************)
(* What holds of the single-flight guard for any number of requests, keys  *)
(* and permits. The argument is about references: a request that still has *)
(* its slot keeps the strong count of its key's lock at three or more for  *)
(* any other request that drops a slot of the same key, so the map entry   *)
(* stays, every slot of a key refers to the same lock, and a lock has one  *)
(* holder.                                                                 *)
(***************************************************************************)
EXTENDS PackageBuild, MeetCacheProofs

\* A request with a slot refers to a lock.
SlotsHaveLocks == \A r \in At(HasSlotRef) : lockOf[r] # NoLock

\* A lock has at most one holder.
OneHolder ==
  \A r1, r2 \in At(HoldsLock) : lockOf[r1] = lockOf[r2] => r1 = r2

IInv == TypeOK /\ SlotsHaveLocks /\ SlotsAreCurrent /\ OneHolder

\* A set that holds three different things has three elements.
LEMMA ThreeElements ==
  ASSUME NEW a, NEW b, NEW c, a # b, a # c, b # c
  PROVE  IsFiniteSet({a, b, c}) /\ Cardinality({a, b, c}) = 3
<1>1. IsFiniteSet({a}) /\ Cardinality({a}) = 1
  BY FS_Singleton
<1>2. IsFiniteSet({a} \cup {b}) /\ Cardinality({a} \cup {b}) = 2
  <2>1. b \notin {a}
    OBVIOUS
  <2> QED BY <1>1, <2>1, FS_AddElement
<1>3. IsFiniteSet(({a} \cup {b}) \cup {c}) /\ Cardinality(({a} \cup {b}) \cup {c}) = 3
  <2>1. c \notin {a} \cup {b}
    OBVIOUS
  <2> QED BY <1>2, <2>1, FS_AddElement
<1>4. ({a} \cup {b}) \cup {c} = {a, b, c}
  OBVIOUS
<1> QED BY <1>3, <1>4

USE DEF Locks, Places, HasPermit, HoldsLock, HasGuardRef, HasSlot, HasSlotRef,
        Goto, Answer

\* BuildSlot::drop sees at least three references while another request has
\* a slot of the same lock: the map's, its own and the other's.
LEMMA TwoSlotsKeepEntry ==
  ASSUME NEW k \in Keys, NEW r1 \in At(HasSlotRef), NEW r2 \in At(HasSlotRef),
         r1 # r2, lockOf[r1] = inFlight[k], lockOf[r2] = inFlight[k]
  PROVE  ~(StrongCount(inFlight[k]) <= 2)
<1> DEFINE All == ({"map"} \X Keys) \cup ({"slot", "guard"} \X Requests)
           m == <<"map", k>>
           s1 == <<"slot", r1>>
           s2 == <<"slot", r2>>
<1>1. IsFiniteSet(All)
  <2>1. IsFiniteSet({"map"}) /\ IsFiniteSet({"slot", "guard"})
    <3>1. IsFiniteSet({"map"}) /\ IsFiniteSet({"slot"})
      BY FS_Singleton
    <3>2. {"slot", "guard"} = {"slot"} \cup {"guard"}
      OBVIOUS
    <3> QED BY <3>1, <3>2, FS_AddElement
  <2>2. IsFiniteSet({"map"} \X Keys) /\ IsFiniteSet({"slot", "guard"} \X Requests)
    BY <2>1, FS_Product, PackageAssumption
  <2> QED BY <2>2, FS_Union
<1>2. Refs(inFlight[k]) \subseteq All
  BY DEF Refs, At
<1>3. IsFiniteSet(Refs(inFlight[k]))
  BY <1>1, <1>2, FS_Subset
<1>4. {m, s1, s2} \subseteq Refs(inFlight[k])
  BY DEF Refs
<1>5. IsFiniteSet({m, s1, s2}) /\ Cardinality({m, s1, s2}) = 3
  <2>1. m # s1 /\ m # s2 /\ s1 # s2
    OBVIOUS
  <2> HIDE DEF m, s1, s2
  <2> QED BY <2>1, ThreeElements
<1>6. Cardinality(Refs(inFlight[k])) \in Nat /\ 3 <= Cardinality(Refs(inFlight[k]))
  BY <1>3, <1>4, <1>5, FS_Subset, FS_CardinalityType
<1> QED BY <1>6 DEF StrongCount

-----------------------------------------------------------------------------

LEMMA InitInv == Init => IInv
BY PackageAssumption
   DEF Init, IInv, TypeOK, Answers, SlotsHaveLocks, SlotsAreCurrent, OneHolder, At

\* A step that moves one request, and neither hands out nor takes back a slot
\* or a lock, cannot disturb the invariant.
LEMMA MoveKeepsInv ==
  ASSUME IInv, NEW r \in Requests, NEW to \in Places,
         UNCHANGED <<key, inFlight, lockOf>>, Goto(r, to),
         answer' \in [Requests -> Answers],
         to \in HoldsLock => pc[r] \in HoldsLock,
         to \in HasSlot => pc[r] \in HasSlot,
         to \in HasSlotRef => pc[r] \in HasSlotRef
  PROVE  IInv'
<1> USE DEF IInv, TypeOK
<1>1. \A q \in Requests : pc'[q] = IF q = r THEN to ELSE pc[q]
  OBVIOUS
<1>2. pc' \in [Requests -> Places]
  OBVIOUS
<1>3. /\ At(HoldsLock)' \subseteq At(HoldsLock)
      /\ At(HasSlot)' \subseteq At(HasSlot)
      /\ At(HasSlotRef)' \subseteq At(HasSlotRef)
  <2> HIDE DEF HoldsLock, HasSlot, HasSlotRef
  <2> QED BY <1>1 DEF At
<1>4. SlotsHaveLocks' /\ SlotsAreCurrent' /\ OneHolder'
  <2> HIDE DEF HoldsLock, HasSlot, HasSlotRef
  <2>1. At(HasSlot) \subseteq Requests
    BY DEF At
  <2> QED BY <1>3, <2>1 DEF SlotsHaveLocks, SlotsAreCurrent, OneHolder
<1> QED BY <1>2, <1>4

\* build_slot gives the request the lock the map names, allocating it if need
\* be: no slot of that key existed then.
LEMMA BuildSlotKeepsInv ==
  ASSUME IInv, NEW r \in Requests, BuildSlot(r)
  PROVE  IInv'
<1> USE DEF IInv, TypeOK
<1>1. TypeOK'
  BY DEF BuildSlot
<1>2. \A q \in Requests : q # r => pc'[q] = pc[q] /\ lockOf'[q] = lockOf[q]
  BY DEF BuildSlot
<1>3. pc[r] = "missed" /\ pc'[r] = "waiting" /\ key' = key
  BY DEF BuildSlot
<1>4. lockOf'[r] = inFlight'[key[r]] /\ lockOf'[r] \in Requests
  BY DEF BuildSlot
<1>5. \A k \in Keys : inFlight[k] # NoLock => inFlight'[k] = inFlight[k]
  BY DEF BuildSlot
<1>6. SlotsHaveLocks'
  BY <1>2, <1>3, <1>4, PackageAssumption DEF SlotsHaveLocks, At
<1>7. SlotsAreCurrent'
  <2> SUFFICES ASSUME NEW q \in Requests, pc'[q] \in HasSlot
               PROVE  inFlight'[key[q]] = lockOf'[q]
    BY <1>3 DEF SlotsAreCurrent, At
  <2>1. CASE q = r
    BY <2>1, <1>4
  <2>2. CASE q # r
    <3>1. pc[q] \in HasSlot /\ pc[q] \in HasSlotRef
      BY <2>2, <1>2
    <3>2. inFlight[key[q]] = lockOf[q] /\ lockOf[q] # NoLock
      BY <3>1 DEF SlotsAreCurrent, SlotsHaveLocks, At
    <3> QED BY <2>2, <3>2, <1>2, <1>5
  <2> QED BY <2>1, <2>2
<1>8. OneHolder'
  BY <1>2, <1>3 DEF OneHolder, At
<1> QED BY <1>1, <1>6, <1>7, <1>8

\* lock_owned() returns only while nobody holds the lock.
LEMMA AcquireLockKeepsInv ==
  ASSUME IInv, NEW r \in Requests, AcquireLock(r)
  PROVE  IInv'
<1> USE DEF IInv, TypeOK
<1>1. TypeOK'
  BY DEF AcquireLock
<1>2. \A q \in Requests : q # r => pc'[q] = pc[q]
  BY DEF AcquireLock
<1>3. /\ pc[r] = "waiting" /\ pc'[r] = "recheck"
      /\ UNCHANGED <<key, lockOf, inFlight>>
  BY DEF AcquireLock
<1>4. SlotsHaveLocks' /\ SlotsAreCurrent'
  BY <1>2, <1>3 DEF SlotsHaveLocks, SlotsAreCurrent, At
<1>5. \A q \in At(HoldsLock) : lockOf[q] # lockOf[r]
  BY DEF AcquireLock, Holders
<1>6. OneHolder'
  <2>1. \A q \in At(HoldsLock)' : q = r \/ q \in At(HoldsLock)
    BY <1>2 DEF At
  <2> QED BY <2>1, <1>3, <1>5 DEF OneHolder
<1> QED BY <1>1, <1>4, <1>6

\* BuildSlot::drop removes the map entry only when no other request has a slot
\* of that key.
LEMMA DropSlotKeepsInv ==
  ASSUME IInv, NEW r \in Requests, DropSlot(r)
  PROVE  IInv'
<1> USE DEF IInv, TypeOK
<1>1. TypeOK'
  BY DEF DropSlot
<1>2. \A q \in Requests : q # r => pc'[q] = pc[q]
  BY DEF DropSlot
<1>3. pc[r] = "drop_slot" /\ pc'[r] = "drop_arc" /\ UNCHANGED <<key, lockOf>>
  BY DEF DropSlot
<1>4. SlotsHaveLocks' /\ OneHolder'
  BY <1>2, <1>3 DEF SlotsHaveLocks, OneHolder, At
<1>5. SlotsAreCurrent'
  <2> SUFFICES ASSUME NEW q \in Requests, pc'[q] \in HasSlot
               PROVE  inFlight'[key[q]] = lockOf[q]
    BY <1>3 DEF SlotsAreCurrent, At
  <2>1. q # r /\ pc[q] \in HasSlot
    BY <1>2, <1>3
  <2>2. inFlight[key[q]] = lockOf[q]
    BY <2>1 DEF SlotsAreCurrent, At
  <2>3. CASE key[q] # key[r]
    BY <2>2, <2>3 DEF DropSlot
  <2>4. CASE key[q] = key[r]
    <3>1. inFlight[key[r]] = lockOf[r]
      BY <1>3 DEF SlotsAreCurrent, At
    <3>2. r \in At(HasSlotRef) /\ q \in At(HasSlotRef)
      BY <1>3, <2>1 DEF At
    <3>3. ~(StrongCount(inFlight[key[r]]) <= 2)
      BY <2>1, <2>2, <2>4, <3>1, <3>2, TwoSlotsKeepEntry
    <3> QED BY <2>2, <2>4, <3>1, <3>3 DEF DropSlot
  <2> QED BY <2>3, <2>4
<1> QED BY <1>1, <1>4, <1>5

-----------------------------------------------------------------------------

LEMMA NextInv == IInv /\ [Next]_vars => IInv'
<1> SUFFICES ASSUME IInv, [Next]_vars PROVE IInv'
  OBVIOUS
<1>T. /\ pc \in [Requests -> Places]
      /\ answer \in [Requests -> Answers]
  BY DEF IInv, TypeOK
<1> USE DEF Answers
<1>1. ASSUME NEW r \in Requests, ReadStamp(r) PROVE IInv'
  BY <1>1, <1>T, MoveKeepsInv DEF ReadStamp
<1>2. ASSUME NEW r \in Requests, StampFails(r) PROVE IInv'
  BY <1>2, <1>T, MoveKeepsInv DEF StampFails
<1>3. ASSUME NEW r \in Requests, FirstLookup(r) PROVE IInv'
  BY <1>3, <1>T, MoveKeepsInv DEF FirstLookup, Lookup
<1>4. ASSUME NEW r \in Requests, BuildSlot(r) PROVE IInv'
  BY <1>4, BuildSlotKeepsInv
<1>5. ASSUME NEW r \in Requests, SecondLookup(r) PROVE IInv'
  BY <1>5, <1>T, MoveKeepsInv DEF SecondLookup, Lookup
<1>6. ASSUME NEW r \in Requests, AcquirePermit(r) PROVE IInv'
  BY <1>6, <1>T, MoveKeepsInv DEF AcquirePermit
<1>7. ASSUME NEW r \in Requests, PermitTimeout(r) PROVE IInv'
  BY <1>7, <1>T, MoveKeepsInv DEF PermitTimeout
<1>8. ASSUME NEW r \in Requests, NEW t \in Tables, ReadTable(r, t) PROVE IInv'
  BY <1>8 DEF ReadTable, flightVars, IInv, TypeOK, SlotsHaveLocks,
              SlotsAreCurrent, OneHolder, At
<1>9. ASSUME NEW r \in Requests, FinishBuild(r) PROVE IInv'
  BY <1>9, <1>T, MoveKeepsInv DEF FinishBuild
<1>10. ASSUME NEW r \in Requests, BuildFails(r) PROVE IInv'
  BY <1>10, <1>T, MoveKeepsInv DEF BuildFails
<1>11. ASSUME NEW r \in Requests, DropPermit(r) PROVE IInv'
  BY <1>11, <1>T, MoveKeepsInv DEF DropPermit, Release
<1>12. ASSUME NEW r \in Requests, DropGuard(r) \/ DropFuture(r) PROVE IInv'
  BY <1>12, <1>T, MoveKeepsInv DEF DropGuard, DropFuture, Release
<1>13. ASSUME NEW r \in Requests, DropSlot(r) PROVE IInv'
  BY <1>13, DropSlotKeepsInv
<1>14. ASSUME NEW r \in Requests, DropArc(r) PROVE IInv'
  BY <1>14, <1>T, MoveKeepsInv DEF DropArc, Release
<1>15. ASSUME NEW r \in Requests, AcquireLock(r) PROVE IInv'
  BY <1>15, AcquireLockKeepsInv
<1>16. ASSUME NEW r \in Requests, Cancel(r) PROVE IInv'
  <2>1. answer' \in [Requests -> Answers] /\ UNCHANGED <<key, inFlight, lockOf>>
    BY <1>16, <1>T DEF Cancel
  <2>2. CASE pc[r] \in {"idle", "stamped"} /\ Goto(r, "done")
    BY <2>1, <2>2, MoveKeepsInv
  <2>3. CASE pc[r] = "waiting" /\ Goto(r, "drop_future")
    BY <2>1, <2>3, MoveKeepsInv
  <2>4. CASE pc[r] = "want_permit" /\ Goto(r, "drop_guard")
    BY <2>1, <2>4, MoveKeepsInv
  <2>5. CASE pc[r] = "build" /\ UNCHANGED pc
    BY <2>1, <2>5 DEF IInv, TypeOK, SlotsHaveLocks, SlotsAreCurrent, OneHolder, At
  <2> QED BY <1>16, <2>2, <2>3, <2>4, <2>5 DEF Cancel
<1>17. CASE Write \/ Expire \/ UNCHANGED vars
  BY <1>17 DEF Write, Expire, Outlive, vars, flightVars, IInv, TypeOK, SlotsHaveLocks,
               SlotsAreCurrent, OneHolder, At
<1> QED
  BY <1>1, <1>2, <1>3, <1>4, <1>5, <1>6, <1>7, <1>8, <1>9, <1>10, <1>11,
     <1>12, <1>13, <1>14, <1>15, <1>16, <1>17 DEF Next, Step, Advance

\* Two holders for one key hold the same lock, and a lock has one holder.
LEMMA OneBuild == IInv => OneBuildPerKey
<1> SUFFICES ASSUME IInv, NEW r1 \in At(HoldsLock), NEW r2 \in At(HoldsLock),
                    key[r1] = key[r2]
             PROVE  r1 = r2
  BY DEF OneBuildPerKey
<1>1. r1 \in At(HasSlot) /\ r2 \in At(HasSlot)
  BY DEF At
<1>2. lockOf[r1] = lockOf[r2]
  BY <1>1 DEF IInv, SlotsAreCurrent
<1> QED BY <1>2 DEF IInv, OneHolder

THEOREM SpecInv == Spec => []IInv
BY InitInv, NextInv, PTL DEF Spec

\* The variables of the handler, the map and the slots keep their types.
THEOREM TypeCorrect == Spec => []TypeOK
<1>1. IInv => TypeOK
  BY DEF IInv
<1> QED BY <1>1, SpecInv, PTL

\* The IN_FLIGHT entry of a key is the lock of every live slot of that key,
\* for any number of requests and keys.
THEOREM CurrentSlots == Spec => []SlotsAreCurrent
<1>1. IInv => SlotsAreCurrent
  BY DEF IInv
<1> QED BY <1>1, SpecInv, PTL

\* "one build per cache key at a time", for any number of requests and keys.
THEOREM SingleFlight == Spec => []OneBuildPerKey
BY OneBuild, SpecInv, PTL

-----------------------------------------------------------------------------
(* The handler implements KeyedBuilds. *)

\* The owner of a key is whoever holds the key's lock.
LEMMA OwnerIsHolder ==
  ASSUME OneBuildPerKey, NEW r \in At(HoldsLock), key[r] \in Keys
  PROVE  OwnerOf(key[r]) = r
BY DEF OneBuildPerKey, OwnerOf, OneOf

LEMMA OwnersHold ==
  ASSUME NEW k \in Keys, OwnerOf(k) # NoLock
  PROVE  OwnerOf(k) \in At(HoldsLock) /\ key[OwnerOf(k)] = k
BY DEF OwnerOf, OneOf

LEMMA NoHolderNoOwner ==
  ASSUME NEW k \in Keys, \A r \in At(HoldsLock) : key[r] # k
  PROVE  OwnerOf(k) = NoLock
BY DEF OwnerOf, OneOf

\* A step that changes neither the holders of locks nor those of permits is
\* no step of the promise.
LEMMA SameHoldersStutter ==
  ASSUME At(HoldsLock)' = At(HoldsLock), At(HasPermit)' = At(HasPermit),
         UNCHANGED key
  PROVE  UNCHANGED Promise!keyedVars
<1> HIDE DEF HoldsLock, HasPermit
<1> QED BY DEF Promise!keyedVars, OwnerOf

\* Moving one request between places of the same kind is such a step.
LEMMA SameKindStutter ==
  ASSUME IInv, NEW r \in Requests, NEW to \in Places, Goto(r, to), UNCHANGED key,
         to \in HoldsLock <=> pc[r] \in HoldsLock,
         to \in HasPermit <=> pc[r] \in HasPermit
  PROVE  UNCHANGED Promise!keyedVars
<1>1. \A q \in Requests : pc'[q] = IF q = r THEN to ELSE pc[q]
  BY DEF IInv, TypeOK
<1>2. At(HoldsLock)' = At(HoldsLock) /\ At(HasPermit)' = At(HasPermit)
  <2> HIDE DEF HoldsLock, HasPermit
  <2> QED BY <1>1 DEF At
<1> QED BY <1>2, SameHoldersStutter

LEMMA AcquireLockClaims ==
  ASSUME IInv, IInv', NEW r \in Requests, AcquireLock(r)
  PROVE  Promise!Claim(r, key[r])
<1>1. /\ pc[r] = "waiting" /\ UNCHANGED <<key, lockOf, inFlight>>
      /\ \A q \in Requests : pc'[q] = IF q = r THEN "recheck" ELSE pc[q]
  BY DEF AcquireLock, IInv, TypeOK
<1>2. /\ At(HoldsLock)' = At(HoldsLock) \cup {r} /\ r \notin At(HoldsLock)
      /\ At(HasPermit)' = At(HasPermit)
  BY <1>1 DEF At
<1>3. key \in [Requests -> Keys] /\ OneBuildPerKey
  BY OneBuild DEF IInv, TypeOK
<1>4. \A q \in At(HoldsLock) : key[q] # key[r]
  BY <1>1, <1>3 DEF AcquireLock, Holders, IInv, SlotsAreCurrent, At
<1>5. OwnerOf(key[r]) = NoLock
  BY <1>3, <1>4, NoHolderNoOwner
<1>6. \A j \in Keys : OwnerOf(j) # r
  BY <1>2, OwnersHold, PackageAssumption
<1>7. \A j \in Keys : OwnerOf(j)' = IF j = key[r] THEN r ELSE OwnerOf(j)
  <2> SUFFICES ASSUME NEW j \in Keys
               PROVE  OwnerOf(j)' = IF j = key[r] THEN r ELSE OwnerOf(j)
    OBVIOUS
  <2> HIDE DEF HoldsLock
  <2>1. {q \in At(HoldsLock)' : key'[q] = j}
          = IF j = key[r] THEN {r} ELSE {q \in At(HoldsLock) : key[q] = j}
    BY <1>1, <1>2, <1>4
  <2>2. OneOf({r}) = r
    BY DEF OneOf
  <2> QED BY <2>1, <2>2 DEF OwnerOf
<1>8. [j \in Keys |-> OwnerOf(j)]'
        = [[j \in Keys |-> OwnerOf(j)] EXCEPT ![key[r]] = r]
  BY <1>7
<1> QED BY <1>2, <1>3, <1>5, <1>6, <1>8 DEF Promise!Claim

\* The instance counts permits the way this module does.
LEMMA SameCardinality ==
  Promise!Cardinality(At(HasPermit)) = Cardinality(At(HasPermit))
BY DEF Promise!Cardinality, Cardinality

LEMMA AcquirePermitStarts ==
  ASSUME IInv, NEW r \in Requests, AcquirePermit(r)
  PROVE  Promise!Start(r, key[r])
<1>1. /\ pc[r] = "want_permit" /\ UNCHANGED key
      /\ Cardinality(At(HasPermit)) < MaxBuilds
      /\ \A q \in Requests : pc'[q] = IF q = r THEN "build" ELSE pc[q]
  BY DEF AcquirePermit, PermitFree, IInv, TypeOK
<1>2. /\ At(HoldsLock)' = At(HoldsLock) /\ r \in At(HoldsLock)
      /\ At(HasPermit)' = At(HasPermit) \cup {r} /\ r \notin At(HasPermit)
  BY <1>1 DEF At
<1>3. key[r] \in Keys /\ OwnerOf(key[r]) = r
  BY <1>2, OneBuild, OwnerIsHolder DEF IInv, TypeOK
<1>4. UNCHANGED [k \in Keys |-> OwnerOf(k)]
  <2> HIDE DEF HoldsLock
  <2> QED BY <1>1, <1>2 DEF OwnerOf
<1>5. Cardinality(At(HasPermit)) < MaxBuilds
  BY <1>1
<1> HIDE DEF HasPermit, HoldsLock
<1> QED BY <1>2, <1>3, <1>4, <1>5, SameCardinality DEF Promise!Start

LEMMA DropPermitEnds ==
  ASSUME IInv, NEW r \in Requests, DropPermit(r)
  PROVE  Promise!End(r)
<1>1. /\ pc[r] = "drop_permit" /\ UNCHANGED key
      /\ \A q \in Requests : pc'[q] = IF q = r THEN "drop_guard" ELSE pc[q]
  BY DEF DropPermit, Release, IInv, TypeOK
<1>2. /\ At(HoldsLock)' = At(HoldsLock)
      /\ At(HasPermit)' = At(HasPermit) \ {r} /\ r \in At(HasPermit)
  BY <1>1 DEF At
<1>3. UNCHANGED [k \in Keys |-> OwnerOf(k)]
  <2> HIDE DEF HoldsLock
  <2> QED BY <1>1, <1>2 DEF OwnerOf
<1> QED BY <1>2, <1>3 DEF Promise!End

LEMMA DropGuardYields ==
  ASSUME IInv, NEW r \in Requests, DropGuard(r)
  PROVE  Promise!Yield(r, key[r])
<1>1. /\ pc[r] = "drop_guard" /\ UNCHANGED key
      /\ \A q \in Requests : pc'[q] = IF q = r THEN "drop_slot" ELSE pc[q]
  BY DEF DropGuard, Release, IInv, TypeOK
<1>2. /\ At(HoldsLock)' = At(HoldsLock) \ {r} /\ r \in At(HoldsLock)
      /\ At(HasPermit)' = At(HasPermit) /\ r \notin At(HasPermit)
  BY <1>1 DEF At
<1>3. key[r] \in Keys /\ OneBuildPerKey /\ OwnerOf(key[r]) = r
  BY <1>2, OneBuild, OwnerIsHolder DEF IInv, TypeOK
<1>4. \A q \in At(HoldsLock) : key[q] = key[r] => q = r
  BY <1>2, <1>3 DEF OneBuildPerKey
<1>5. \A j \in Keys : OwnerOf(j)' = IF j = key[r] THEN NoLock ELSE OwnerOf(j)
  <2> SUFFICES ASSUME NEW j \in Keys
               PROVE  OwnerOf(j)' = IF j = key[r] THEN NoLock ELSE OwnerOf(j)
    OBVIOUS
  <2> HIDE DEF HoldsLock
  <2>1. {q \in At(HoldsLock)' : key'[q] = j}
          = IF j = key[r] THEN {} ELSE {q \in At(HoldsLock) : key[q] = j}
    BY <1>1, <1>2, <1>4
  <2>2. OneOf({}) = NoLock
    BY DEF OneOf
  <2> QED BY <2>1, <2>2 DEF OwnerOf
<1>6. [j \in Keys |-> OwnerOf(j)]'
        = [[j \in Keys |-> OwnerOf(j)] EXCEPT ![key[r]] = NoLock]
  BY <1>5
<1> QED BY <1>2, <1>3, <1>6 DEF Promise!Yield

LEMMA StepImplements == IInv /\ IInv' /\ [Next]_vars => [Promise!Next]_(Promise!keyedVars)
<1> SUFFICES ASSUME IInv, IInv', [Next]_vars
             PROVE  Promise!Next \/ UNCHANGED Promise!keyedVars
  OBVIOUS
<1>1. ASSUME NEW r \in Requests,
             \/ ReadStamp(r) \/ StampFails(r) \/ FirstLookup(r) \/ BuildSlot(r)
             \/ PermitTimeout(r) \/ FinishBuild(r) \/ BuildFails(r)
             \/ DropFuture(r) \/ DropSlot(r) \/ DropArc(r) \/ SecondLookup(r)
      PROVE  UNCHANGED Promise!keyedVars
  BY <1>1, SameKindStutter
     DEF ReadStamp, StampFails, FirstLookup, SecondLookup, Lookup, BuildSlot,
         PermitTimeout, FinishBuild, BuildFails, DropFuture, DropSlot, DropArc,
         Release
<1>2. ASSUME NEW r \in Requests, Cancel(r) PROVE UNCHANGED Promise!keyedVars
  <2>1. UNCHANGED key
    BY <1>2 DEF Cancel
  <2>2. CASE UNCHANGED pc
    BY <2>1, <2>2, SameHoldersStutter DEF At
  <2>3. CASE \E to \in {"done", "drop_future"} :
               pc[r] \in {"idle", "stamped", "waiting"} /\ Goto(r, to)
    BY <2>1, <2>3, SameKindStutter
  <2>4. CASE pc[r] = "want_permit" /\ Goto(r, "drop_guard")
    BY <2>1, <2>4, SameKindStutter
  <2> QED BY <1>2, <2>2, <2>3, <2>4 DEF Cancel
<1>3. ASSUME \/ Write \/ Expire \/ UNCHANGED vars
             \/ \E r \in Requests, t \in Tables : ReadTable(r, t)
      PROVE  UNCHANGED Promise!keyedVars
  BY <1>3, SameHoldersStutter DEF Write, Expire, Outlive, ReadTable, vars, flightVars, At
<1>4. ASSUME NEW r \in Requests,
             AcquireLock(r) \/ AcquirePermit(r) \/ DropPermit(r) \/ DropGuard(r)
      PROVE  Promise!Next
  <2>1. key[r] \in Keys
    BY DEF IInv, TypeOK
  <2> QED BY <1>4, <2>1, AcquireLockClaims, AcquirePermitStarts, DropPermitEnds,
             DropGuardYields DEF Promise!Next
<1> QED BY <1>1, <1>2, <1>3, <1>4 DEF Next, Step, Advance

\* The handler with its map of reference-counted locks implements KeyedBuilds.
THEOREM Implements == Spec => ImplementsPromise
<1>1. Init => Promise!Init
  BY DEF Init, Promise!Init, At, OwnerOf, OneOf
<1> QED BY <1>1, StepImplements, SpecInv, PTL DEF Spec, ImplementsPromise, Promise!Spec

-----------------------------------------------------------------------------

\* A request takes a permit only when fewer than MaxBuilds are taken.
THEOREM PermitsBound == Spec => []BuildsWithinPermits
<1> DEFINE H == At(HasPermit)
<1>1. Init => BuildsWithinPermits
  <2>1. Init => H = {}
    BY DEF Init, At
  <2> QED BY <2>1, FS_EmptySet, PackageAssumption DEF BuildsWithinPermits
<1>2. IInv /\ IInv' /\ BuildsWithinPermits /\ [Next]_vars => BuildsWithinPermits'
  <2> SUFFICES ASSUME IInv, IInv', BuildsWithinPermits, [Next]_vars
               PROVE  Cardinality(H') <= MaxBuilds
    BY DEF BuildsWithinPermits
  <2>1. IsFiniteSet(H)
    BY FS_Subset, PackageAssumption DEF At
  <2>2. \/ H' = H
        \/ \E r \in Requests : H' = H \ {r}
        \/ \E r \in Requests : H' = H \cup {r} /\ Cardinality(H) < MaxBuilds
    <3>1. CASE UNCHANGED Promise!keyedVars
      BY <3>1 DEF Promise!keyedVars
    <3>2. CASE Promise!Next
      <4> PICK r \in Requests :
             \/ Promise!End(r)
             \/ \E k \in Keys : \/ Promise!Claim(r, k)
                                \/ Promise!Start(r, k)
                                \/ Promise!Yield(r, k)
        BY <3>2 DEF Promise!Next
      <4> HIDE DEF HasPermit, HoldsLock
      <4> QED BY SameCardinality DEF Promise!Claim, Promise!Start, Promise!End, Promise!Yield
    <3> QED BY <3>1, <3>2, StepImplements
  <2>3. Cardinality(H) \in Nat /\ Cardinality(H) <= MaxBuilds
    BY <2>1, FS_CardinalityType DEF BuildsWithinPermits
  <2> HIDE DEF H
  <2>4. ASSUME NEW r \in Requests, H' = H \ {r}
        PROVE  Cardinality(H') <= MaxBuilds
    <3>1. Cardinality(H \ {r}) <= Cardinality(H)
      BY <2>1, <2>3, FS_RemoveElement
    <3>2. Cardinality(H \ {r}) \in Nat
      BY <2>1, FS_RemoveElement, FS_CardinalityType
    <3> QED BY <2>3, <2>4, <3>1, <3>2, PackageAssumption
  <2>5. ASSUME NEW r \in Requests, H' = H \cup {r}, Cardinality(H) < MaxBuilds
        PROVE  Cardinality(H') <= MaxBuilds
    <3>1. Cardinality(H \cup {r}) <= Cardinality(H) + 1
      <4>1. Cardinality(H \cup {r})
              = IF r \in H THEN Cardinality(H) ELSE Cardinality(H) + 1
        BY <2>1, FS_AddElement
      <4> QED BY <2>3, <4>1
    <3>2. Cardinality(H \cup {r}) \in Nat
      BY <2>1, FS_AddElement, FS_CardinalityType
    <3> QED BY <2>3, <2>5, <3>1, <3>2, PackageAssumption
  <2> QED BY <2>2, <2>3, <2>4, <2>5
<1> QED BY <1>1, <1>2, SpecInv, PTL DEF Spec

-----------------------------------------------------------------------------
HIDE DEF Locks, Places, HasPermit, HoldsLock, HasGuardRef, HasSlot, HasSlotRef,
         Goto, Answer

\* Every step writes the rows as a transaction does, or leaves them.
LEMMA StepsOfRows == [Next]_vars => [DBNext]_dbVars
BY DEF Next, Step, Advance, Write, Expire, Outlive, ReadStamp, StampFails, FirstLookup,
       SecondLookup, Lookup, BuildSlot, AcquireLock, AcquirePermit, PermitTimeout,
       Cancel, ReadTable, FinishBuild, BuildFails, DropPermit, DropGuard,
       DropFuture, DropSlot, DropArc, Release, vars

\* Where the writers of a meet take turns, every commit that changes its rows
\* changes the stamp (freshness_stamp), whatever requests and builds are under
\* way.
THEOREM WritesChangeStampMeanwhile == ASSUME Serialized PROVE Spec => EveryWriteChangesStamp
<1>1. Init => RowsAreSettled
  BY RowsBeginSettled DEF Init, CacheInit
<1>2. RowsAreSettled /\ [Next]_vars => RowsAreSettled'
  BY RowsStaySettled, StepsOfRows
<1>3. RowsAreSettled /\ [Next]_vars => [xmin' # xmin => StampOf(xmin') # StampOf(xmin)]_dbVars
  BY RowsStaySettled, StepsOfRows
<1> QED BY <1>1, <1>2, <1>3, PTL DEF Spec, EveryWriteChangesStamp

-----------------------------------------------------------------------------
(* What is served. The contents of a table over time have growing newest    *)
(* writers, and the newest writer in a request's stamp tells those it may   *)
(* be answered with from those that are too old; so it is enough that the   *)
(* bodies that are cached or being read hold rows that once were there,     *)
(* none with an older newest writer than the stamp they go under.           *)

\* A request that is still to be answered.
Pending(r) == pc[r] # "idle" /\ answer[r] = "none"
\* A request or a build that uses its stamp.
Going(r) == Pending(r) \/ pc[r] = "build"
BeforeBuild == {"idle", "stamped", "missed", "waiting", "recheck", "want_permit"}


\* The contents table t may have had: those of now and older ones, and no
\* older ones that a pending request could take for its own.
SoundRows(t) ==
  {f \in Contents :
     /\ f = xmin[t] \/ Newest(f) < Newest(xmin[t])
     /\ \A r \in Requests : Pending(r) => f \in since[r][t] \/ Newest(f) < stamp[r][t][2]}

\* Rows read no earlier than the stamp s says.
SoundBody(b, s) ==
  \A t \in DOMAIN b : b[t] \in SoundRows(t) /\ s[t][2] <= Newest(b[t])

SoundEntries == {e \in Entries : SoundBody(e.body, e.stamp)}

\* A build starts with nothing read, and is the first to answer.
Courses ==
  /\ DOMAIN body = Requests /\ DOMAIN stamp = Requests
  /\ DOMAIN read = Requests /\ DOMAIN since = Requests
  /\ \A r \in Requests :
       /\ pc[r] \in BeforeBuild => answer[r] = "none" /\ read[r] = <<>>
       /\ pc[r] = "build" => answer[r] \in {"none", "cancelled"}

\* No table's newest writer is older than a stamp in use says.
StampsAreOld ==
  \A r \in Requests : Going(r) =>
    /\ stamp[r] \in Stamps
    /\ \A t \in Tables : stamp[r][t][2] <= Newest(xmin[t])

\* A request that is waiting may be answered with what is there now.
SinceHasNow ==
  \A r \in Requests : Pending(r) => \A t \in Tables : xmin[t] \in since[r][t]

\* What a build has read so far is sound under its stamp.
ReadSound(r) ==
  /\ DOMAIN read[r] \subseteq Tables /\ read[r] \in [DOMAIN read[r] -> Contents]
  /\ SoundBody(read[r], stamp[r])

ReadsAreSound == \A r \in Requests : pc[r] = "build" => ReadSound(r)

CacheIsSound == cache \in Seq(SoundEntries)

ServedInv ==
  /\ IInv /\ xmin \in Bodies /\ Courses /\ StampsAreOld /\ SinceHasNow
  /\ ReadsAreSound /\ CacheIsSound /\ ServedIsCurrent

LEMMA InitServes == Init => ServedInv
<1> SUFFICES ASSUME Init PROVE ServedInv
  OBVIOUS
<1>1. xmin \in Bodies /\ IInv
  BY CacheBegins, InitInv DEF Init, CacheInv
<1>2. Courses /\ StampsAreOld /\ SinceHasNow /\ ReadsAreSound /\ ServedIsCurrent
  BY DEF Init, Courses, StampsAreOld, SinceHasNow, ReadsAreSound, ServedIsCurrent,
         Going, Pending
<1>3. CacheIsSound
  BY DEF Init, CacheInit, CacheIsSound
<1> QED BY <1>1, <1>2, <1>3 DEF ServedInv

\* A step of the handler or of the build other than the read of the stamp.
Quiet ==
  /\ UNCHANGED <<dbVars, stamp, since>>
  /\ \A r \in Requests : Pending(r)' => Pending(r)
  /\ \A r \in Requests : Going(r)' => Going(r)

LEMMA StepsAreQuiet ==
  ASSUME TypeOK, Courses, NEW q \in Requests, Step(q)
  PROVE  ReadStamp(q) \/ Quiet
<1> USE DEF TypeOK, Courses, BeforeBuild, Goto, Answer, Places, Answers, Pending, Going,
            Quiet, dataVars, flightVars
<1>1. CASE StampFails(q)
  BY <1>1 DEF StampFails
<1>2. CASE FirstLookup(q) \/ SecondLookup(q)
  BY <1>2 DEF FirstLookup, SecondLookup, Lookup
<1>3. CASE BuildSlot(q) \/ AcquireLock(q) \/ AcquirePermit(q) \/ PermitTimeout(q)
  BY <1>3 DEF BuildSlot, AcquireLock, AcquirePermit, PermitTimeout
<1>4. CASE Cancel(q)
  BY <1>4 DEF Cancel
<1>5. CASE (\E t \in Tables : ReadTable(q, t)) \/ FinishBuild(q) \/ BuildFails(q)
  BY <1>5 DEF ReadTable, FinishBuild, BuildFails
<1>6. CASE DropPermit(q) \/ DropGuard(q) \/ DropFuture(q) \/ DropSlot(q) \/ DropArc(q)
  BY <1>6 DEF DropPermit, DropGuard, DropFuture, DropSlot, DropArc, Release
<1> QED BY <1>1, <1>2, <1>3, <1>4, <1>5, <1>6 DEF Step, Advance

\* A write leaves the requests where they are; those that wait may see it.
LEMMA WriteIsSeen ==
  ASSUME ServedInv, Write
  PROVE  /\ UNCHANGED <<cache, flightVars, stamp, read, body>>
         /\ \A r \in Requests : Pending(r) => \A t \in Tables :
              since[r][t] \subseteq since'[r][t] /\ xmin'[t] \in since'[r][t]
         /\ \A r \in Requests : ~Pending(r) => since'[r] = since[r]
         /\ DOMAIN since' = Requests
BY DEF Write, Pending

\* What a step can do to a pending request and what it saw.
LEMMA PendingSteps ==
  ASSUME ServedInv, [Next]_vars, NEW r \in Requests, Pending(r)'
  PROVE  \/ /\ Pending(r) /\ stamp'[r] = stamp[r]
            /\ \A t \in Tables : since[r][t] \subseteq since'[r][t] /\ xmin'[t] \in since'[r][t]
         \/ /\ stamp'[r] = Stamp /\ xmin' = xmin
            /\ \A t \in Tables : since'[r][t] = {xmin[t]}
<1>1. CASE UNCHANGED vars
  BY <1>1 DEF vars, flightVars, dataVars, dbVars, Pending, ServedInv, SinceHasNow
<1>2. CASE Write
  BY <1>2, WriteIsSeen DEF flightVars, Pending
<1>3. CASE Expire
  BY <1>3 DEF Expire, Outlive, flightVars, dataVars, dbVars, Pending, ServedInv, SinceHasNow
<1>4. ASSUME NEW q \in Requests, Step(q), ~ReadStamp(q) PROVE Quiet
  BY <1>4, StepsAreQuiet DEF ServedInv, IInv
<1>5. CASE Quiet
  BY <1>5 DEF Quiet, dbVars, ServedInv, SinceHasNow
<1>6. ASSUME NEW q \in Requests, ReadStamp(q)
      PROVE  /\ q = r => stamp'[r] = Stamp /\ since'[r] = [t \in Tables |-> {xmin[t]}]
             /\ q # r => Pending(r) /\ stamp'[r] = stamp[r] /\ since'[r] = since[r]
             /\ xmin' = xmin
  BY <1>6 DEF ReadStamp, ServedInv, Courses, Pending, IInv, TypeOK, dbVars, Goto
<1> QED BY <1>1, <1>2, <1>3, <1>4, <1>5, <1>6 DEF Next, ServedInv, SinceHasNow

\* The step leaves, in each table it changes, a newer row than it had.
NewerRows == \A t \in Tables : xmin'[t] = xmin[t] \/ Newest(xmin[t]) < Newest(xmin'[t])

\* The rows of a table only change to newer ones.
LEMMA RowsGetNewer ==
  ASSUME ServedInv, NewerRows, [Next]_vars
  PROVE  /\ xmin' \in Bodies
         /\ \A t \in Tables : /\ xmin'[t] = xmin[t] \/ Newest(xmin[t]) < Newest(xmin'[t])
                              /\ Newest(xmin[t]) \in Nat /\ Newest(xmin'[t]) \in Nat
<1>1. xmin \in Bodies /\ xmin' \in Bodies
  BY StepsOfRows, RowsStayRows DEF ServedInv
<1> QED BY <1>1, NewestBounds, FreshnessAssumption DEF NewerRows, Bodies

\* What the tables may have had, they may still have had after any step.
LEMMA SoundStays ==
  ASSUME ServedInv, NewerRows, [Next]_vars,
         NEW t \in Tables
  PROVE  SoundRows(t) \subseteq SoundRows(t)'
<1> SUFFICES ASSUME NEW f \in SoundRows(t) PROVE f \in SoundRows(t)'
  OBVIOUS
<1>1. f \in Contents /\ Newest(f) \in Nat
  BY NewestBounds, FreshnessAssumption DEF SoundRows
<1>2. f = xmin'[t] \/ Newest(f) < Newest(xmin'[t])
  BY <1>1, RowsGetNewer DEF SoundRows
<1>3. ASSUME NEW r \in Requests, Pending(r)'
      PROVE  f \in since'[r][t] \/ Newest(f) < stamp'[r][t][2]
  <2>1. CASE stamp'[r] = Stamp /\ since'[r][t] = {xmin[t]}
    BY <2>1, StampOfBody DEF SoundRows, ServedInv
  <2>2. CASE Pending(r) /\ stamp'[r] = stamp[r] /\ since[r][t] \subseteq since'[r][t]
    BY <2>2 DEF SoundRows
  <2> QED BY <1>3, <2>1, <2>2, PendingSteps
<1> QED BY <1>1, <1>2, <1>3 DEF SoundRows

\* Stamps stay old, and requests that wait see what is written.
LEMMA SeenStays ==
  ASSUME ServedInv, NewerRows, [Next]_vars
  PROVE  SinceHasNow' /\ StampsAreOld'
<1>1. SinceHasNow'
  BY PendingSteps DEF SinceHasNow
<1>2. ASSUME NEW r \in Requests, Going(r), stamp'[r] = stamp[r]
      PROVE  stamp'[r] \in Stamps /\ \A t \in Tables : stamp'[r][t][2] <= Newest(xmin'[t])
  <2>1. \A t \in Tables : stamp[r][t][2] \in Nat /\ stamp[r][t][2] <= Newest(xmin[t])
    BY <1>2 DEF ServedInv, StampsAreOld, Stamps
  <2> QED BY <1>2, <2>1, RowsGetNewer DEF ServedInv, StampsAreOld
<1>3. ASSUME NEW r \in Requests, Going(r)'
      PROVE  \/ Going(r) /\ stamp'[r] = stamp[r]
             \/ stamp'[r] = Stamp /\ xmin' = xmin
  <2>1. CASE UNCHANGED vars
    BY <1>3, <2>1 DEF vars, flightVars, dataVars, Going, Pending
  <2>2. CASE Write \/ Expire
    BY <1>3, <2>2 DEF Write, Expire, Outlive, flightVars, dataVars, Going, Pending
  <2>3. CASE \E q \in Requests : ReadStamp(q)
    BY <1>3, <2>3 DEF ReadStamp, ServedInv, Courses, Going, Pending, IInv, TypeOK, dbVars, Goto
  <2>4. CASE Quiet
    BY <1>3, <2>4 DEF Quiet
  <2> QED BY <2>1, <2>2, <2>3, <2>4, StepsAreQuiet DEF Next, ServedInv, IInv
<1>4. ASSUME NEW r \in Requests, stamp'[r] = Stamp, xmin' = xmin
      PROVE  stamp'[r] \in Stamps /\ \A t \in Tables : stamp'[r][t][2] <= Newest(xmin'[t])
  <2>1. \A t \in Tables : stamp'[r][t][2] = Newest(xmin'[t]) /\ Newest(xmin'[t]) \in Nat
    BY <1>4, StampOfBody, RowsGetNewer DEF ServedInv
  <2> QED BY <1>4, <2>1, StampOfBody DEF ServedInv
<1>5. StampsAreOld'
  BY <1>2, <1>3, <1>4 DEF StampsAreOld
<1> QED BY <1>1, <1>5

\* The order of the steps of a handler and its build.
LEMMA CoursesStay == ASSUME ServedInv, [Next]_vars PROVE Courses'
<1> USE DEF ServedInv, IInv, TypeOK, Courses, BeforeBuild, Goto, Answer, Places, Answers,
            dataVars, flightVars
<1>1. CASE UNCHANGED vars \/ Expire
  BY <1>1 DEF vars, Expire, Outlive
<1>2. CASE Write
  BY <1>2 DEF Write
<1>3. ASSUME NEW q \in Requests, Step(q) PROVE Courses'
  <2>1. CASE ReadStamp(q) \/ StampFails(q)
    BY <2>1 DEF ReadStamp, StampFails
  <2>2. CASE FirstLookup(q) \/ SecondLookup(q)
    BY <2>2 DEF FirstLookup, SecondLookup, Lookup
  <2>3. CASE BuildSlot(q) \/ AcquireLock(q) \/ AcquirePermit(q) \/ PermitTimeout(q)
    BY <2>3 DEF BuildSlot, AcquireLock, AcquirePermit, PermitTimeout
  <2>4. CASE Cancel(q)
    BY <2>4 DEF Cancel
  <2>5. CASE (\E t \in Tables : ReadTable(q, t)) \/ FinishBuild(q) \/ BuildFails(q)
    BY <2>5 DEF ReadTable, FinishBuild, BuildFails
  <2>6. CASE DropPermit(q) \/ DropGuard(q) \/ DropFuture(q) \/ DropSlot(q) \/ DropArc(q)
    BY <2>6 DEF DropPermit, DropGuard, DropFuture, DropSlot, DropArc, Release
  <2> QED BY <1>3, <2>1, <2>2, <2>3, <2>4, <2>5, <2>6 DEF Step, Advance
<1> QED BY <1>1, <1>2, <1>3 DEF Next

\* A build reads rows that are current, or goes on with what it read.
LEMMA ReadSteps ==
  ASSUME ServedInv, [Next]_vars, NEW r \in Requests, pc'[r] = "build"
  PROVE  /\ Going(r) /\ stamp'[r] = stamp[r]
         /\ \/ read'[r] = <<>>
            \/ pc[r] = "build" /\ read'[r] = read[r]
            \/ \E t \in Tables \ DOMAIN read[r] :
                 /\ pc[r] = "build" /\ xmin' = xmin
                 /\ read'[r] = WithTable(read[r], t, xmin[t])
<1> USE DEF ServedInv, IInv, TypeOK, Courses, BeforeBuild, Goto, Answer, Places, Answers,
            dataVars, flightVars, dbVars, Going, Pending
<1>1. CASE UNCHANGED vars \/ Expire \/ Write
  BY <1>1 DEF vars, Expire, Outlive, Write
<1>2. ASSUME NEW q \in Requests, Step(q), ~(\E t \in Tables : ReadTable(q, t))
      PROVE  /\ Going(r) /\ stamp'[r] = stamp[r]
             /\ read'[r] = <<>> \/ (pc[r] = "build" /\ read'[r] = read[r])
  <2>1. CASE ReadStamp(q) \/ StampFails(q)
    BY <2>1 DEF ReadStamp, StampFails
  <2>2. CASE FirstLookup(q) \/ SecondLookup(q)
    BY <2>2 DEF FirstLookup, SecondLookup, Lookup
  <2>3. CASE BuildSlot(q) \/ AcquireLock(q) \/ AcquirePermit(q) \/ PermitTimeout(q)
    BY <2>3 DEF BuildSlot, AcquireLock, AcquirePermit, PermitTimeout
  <2>4. CASE Cancel(q)
    BY <2>4 DEF Cancel
  <2>5. CASE FinishBuild(q) \/ BuildFails(q)
    BY <2>5 DEF FinishBuild, BuildFails
  <2>6. CASE DropPermit(q) \/ DropGuard(q) \/ DropFuture(q) \/ DropSlot(q) \/ DropArc(q)
    BY <2>6 DEF DropPermit, DropGuard, DropFuture, DropSlot, DropArc, Release
  <2> QED BY <1>2, <2>1, <2>2, <2>3, <2>4, <2>5, <2>6 DEF Step, Advance
<1>3. ASSUME NEW q \in Requests, NEW t \in Tables, ReadTable(q, t)
      PROVE  /\ pc[r] = "build" /\ stamp'[r] = stamp[r] /\ xmin' = xmin
             /\ t \notin DOMAIN read[q]
             /\ read'[r] = IF r = q THEN WithTable(read[r], t, xmin[t]) ELSE read[r]
  BY <1>3 DEF ReadTable
<1> QED BY <1>1, <1>2, <1>3 DEF Next

\* A build that reads one table after another stays sound under writes.
LEMMA ReadsStay ==
  ASSUME ServedInv, NewerRows, [Next]_vars PROVE ReadsAreSound'
<1> SUFFICES ASSUME NEW r \in Requests, pc'[r] = "build"
             PROVE  ReadSound(r)'
  BY DEF ReadsAreSound
<1>1. CASE read'[r] = <<>>
  BY <1>1 DEF SoundBody, ReadSound
<1>2. ASSUME pc[r] = "build"
      PROVE  /\ DOMAIN read[r] \subseteq Tables
             /\ read[r] \in [DOMAIN read[r] -> Contents]
             /\ \A t \in DOMAIN read[r] :
                  read[r][t] \in SoundRows(t)' /\ stamp'[r][t][2] <= Newest(read[r][t])
  <2>1. ReadSound(r)
    BY <1>2 DEF ServedInv, ReadsAreSound
  <2>2. stamp'[r] = stamp[r]
    BY ReadSteps
  <2>3. ASSUME NEW t \in DOMAIN read[r]
        PROVE  read[r][t] \in SoundRows(t)' /\ stamp'[r][t][2] <= Newest(read[r][t])
    <3>1. t \in Tables /\ read[r][t] \in SoundRows(t) /\ stamp[r][t][2] <= Newest(read[r][t])
      BY <2>1 DEF ReadSound, SoundBody
    <3> QED BY <2>2, <3>1, SoundStays
  <2> QED BY <2>1, <2>3 DEF ReadSound
<1>3. CASE pc[r] = "build" /\ read'[r] = read[r]
  BY <1>2, <1>3 DEF ReadSound, SoundBody, SoundRows
<1>4. ASSUME NEW t \in Tables \ DOMAIN read[r], pc[r] = "build", xmin' = xmin,
             read'[r] = WithTable(read[r], t, xmin[t])
      PROVE  ReadSound(r)'
  <2>1. xmin'[t] \in SoundRows(t)' /\ stamp'[r][t][2] <= Newest(xmin'[t])
    BY <1>4, SeenStays, RowsGetNewer DEF SoundRows, StampsAreOld, SinceHasNow, Going, Bodies
  <2> DEFINE f == read[r]
             g == read'[r]
  <2>2. /\ DOMAIN g = DOMAIN f \cup {t} /\ g[t] = xmin'[t]
        /\ \A u \in DOMAIN f : g[u] = f[u]
        /\ g \in [DOMAIN g -> Contents]
    <3>1. g = [u \in DOMAIN f \cup {t} |-> IF u = t THEN xmin[t] ELSE f[u]]
      BY <1>4 DEF WithTable
    <3>2. xmin[t] \in Contents /\ \A u \in DOMAIN f : f[u] \in Contents
      BY <1>2, <1>4 DEF ServedInv, Bodies
    <3>3. xmin'[t] = xmin[t] /\ t \notin DOMAIN f
      BY <1>4
    <3> HIDE DEF f, g
    <3> QED BY <3>1, <3>2, <3>3
  <2>3. \A u \in DOMAIN g : g[u] \in SoundRows(u)' /\ stamp'[r][u][2] <= Newest(g[u])
    BY <1>2, <1>4, <2>1, <2>2
  <2> QED BY <1>2, <1>4, <2>2, <2>3 DEF ReadSound, SoundBody
<1> QED BY <1>1, <1>3, <1>4, ReadSteps

\* An entry that is sound stays sound.
LEMMA EntriesStaySound ==
  ASSUME ServedInv, NewerRows, [Next]_vars
  PROVE  SoundEntries \subseteq SoundEntries'
<1> SUFFICES ASSUME NEW e \in SoundEntries PROVE e \in SoundEntries'
  OBVIOUS
<1>1. e \in Entries /\ DOMAIN e.body = Tables
  BY DEF SoundEntries, Entries, Bodies
<1>2. ASSUME NEW t \in Tables
      PROVE  e.body[t] \in SoundRows(t)' /\ e.stamp[t][2] <= Newest(e.body[t])
  BY <1>1, SoundStays DEF SoundEntries, SoundBody
<1> QED BY <1>1, <1>2 DEF SoundEntries, SoundBody

\* A build caches what is sound; expiry and evictions add nothing.
LEMMA CacheStaysSound ==
  ASSUME ServedInv, NewerRows, [Next]_vars PROVE CacheIsSound'
<1>1. SoundEntries \subseteq SoundEntries' /\ cache \in Seq(SoundEntries)
  BY EntriesStaySound DEF ServedInv, CacheIsSound
<1>2. cache \in Seq(SoundEntries')
  BY <1>1, SeqOfMore
<1>3. CASE Expire
  <2>1. \A e \in SoundEntries : [e EXCEPT !.fresh = FALSE] \in SoundEntries
    BY DEF SoundEntries, Entries
  <2>2. cache' \in Seq(SoundEntries)
    BY <1>1, <1>3, <2>1, ExpiredIn DEF Expire, Outlive
  <2> QED BY <1>1, <2>2, SeqOfMore DEF CacheIsSound
<1>4. ASSUME NEW q \in Requests, FinishBuild(q) PROVE cache' \in Seq(SoundEntries)
  <2>1. PICK size \in Sizes :
          cache' = Stored(cache, Entry(key[q], stamp[q], read[q], size))
    BY <1>4 DEF FinishBuild
  <2>2. /\ key[q] \in Keys /\ stamp[q] \in Stamps /\ read[q] \in [Tables -> Contents]
        /\ SoundBody(read[q], stamp[q])
    BY <1>4 DEF FinishBuild, ServedInv, IInv, TypeOK, StampsAreOld, ReadsAreSound, ReadSound, Going
  <2>3. Entry(key[q], stamp[q], read[q], size) \in SoundEntries
    BY <2>2 DEF Entry, SoundEntries, Entries, Bodies
  <2> QED BY <1>1, <2>1, <2>3, StoredIn
<1>5. CASE \E q \in Requests : FinishBuild(q)
  BY <1>1, <1>4, <1>5, SeqOfMore DEF CacheIsSound
<1>6. Expire \/ (\E q \in Requests : FinishBuild(q)) \/ cache' = cache
  BY DEF Next, Step, Advance, Write, ReadStamp, StampFails, FirstLookup,
       SecondLookup, Lookup, BuildSlot, AcquireLock, AcquirePermit, PermitTimeout,
       Cancel, ReadTable, BuildFails, DropPermit, DropGuard,
       DropFuture, DropSlot, DropArc, Release, vars
<1> QED BY <1>2, <1>3, <1>5, <1>6 DEF CacheIsSound

\* An answer is given from an entry that is sound, or from what was read.
LEMMA AnswerSteps ==
  ASSUME ServedInv, [Next]_vars, NEW r \in Requests, answer'[r] \in {"hit", "built"}
  PROVE  \/ answer'[r] = answer[r] /\ body'[r] = body[r] /\ since'[r] = since[r]
         \/ /\ Pending(r) /\ since'[r] = since[r]
            /\ \/ \E e \in HitsOf(r) : body'[r] = e.body
               \/ pc[r] = "build" /\ DOMAIN read[r] = Tables /\ body'[r] = read[r]
<1> USE DEF ServedInv, IInv, TypeOK, Courses, BeforeBuild, Goto, Answer, Places, Answers,
            dataVars, flightVars, dbVars, Pending
<1>1. CASE UNCHANGED vars \/ Expire \/ Write
  BY <1>1 DEF vars, Expire, Outlive, Write
<1>2. ASSUME NEW q \in Requests, Step(q)
      PROVE  \/ answer'[r] = answer[r] /\ body'[r] = body[r] /\ since'[r] = since[r]
             \/ /\ Pending(r) /\ since'[r] = since[r]
                /\ \/ \E e \in HitsOf(r) : body'[r] = e.body
                   \/ pc[r] = "build" /\ DOMAIN read[r] = Tables /\ body'[r] = read[r]
  <2>1. CASE ReadStamp(q) \/ StampFails(q)
    BY <2>1 DEF ReadStamp, StampFails
  <2>2. CASE FirstLookup(q) \/ SecondLookup(q)
    BY <2>2 DEF FirstLookup, SecondLookup, Lookup
  <2>3. CASE BuildSlot(q) \/ AcquireLock(q) \/ AcquirePermit(q) \/ PermitTimeout(q)
    BY <2>3 DEF BuildSlot, AcquireLock, AcquirePermit, PermitTimeout
  <2>4. CASE Cancel(q)
    BY <2>4 DEF Cancel
  <2>5. CASE (\E t \in Tables : ReadTable(q, t)) \/ FinishBuild(q) \/ BuildFails(q)
    BY <2>5 DEF ReadTable, FinishBuild, BuildFails
  <2>6. CASE DropPermit(q) \/ DropGuard(q) \/ DropFuture(q) \/ DropSlot(q) \/ DropArc(q)
    BY <2>6 DEF DropPermit, DropGuard, DropFuture, DropSlot, DropArc, Release
  <2> QED BY <1>2, <2>1, <2>2, <2>3, <2>4, <2>5, <2>6 DEF Step, Advance
<1> QED BY <1>1, <1>2 DEF Next

\* A hit, or a finished build, answers with rows the request may see.
LEMMA ServedStaysCurrent ==
  ASSUME ServedInv, NewerRows, [Next]_vars PROVE ServedIsCurrent'
<1> SUFFICES ASSUME NEW r \in Requests, answer'[r] \in {"hit", "built"}, NEW t \in Tables
             PROVE  body'[r][t] \in since'[r][t]
  BY DEF ServedIsCurrent
<1>1. ASSUME Pending(r), NEW f \in SoundRows(t), stamp[r][t][2] <= Newest(f)
      PROVE  f \in since[r][t]
  <2>1. stamp[r][t][2] \in Nat /\ Newest(f) \in Nat
    BY <1>1, NewestBounds, FreshnessAssumption
       DEF ServedInv, StampsAreOld, Going, Stamps, SoundRows
  <2> QED BY <1>1, <2>1 DEF SoundRows
<1>2. ASSUME Pending(r), NEW e \in HitsOf(r)
      PROVE  e.body[t] \in SoundRows(t) /\ stamp[r][t][2] <= Newest(e.body[t])
  <2>1. e \in SoundEntries /\ e.stamp = stamp[r]
    BY DEF HitsOf, Hits, ToSet, ServedInv, CacheIsSound
  <2> QED BY <2>1 DEF SoundEntries, SoundBody, Entries, Bodies
<1>3. ASSUME pc[r] = "build", DOMAIN read[r] = Tables
      PROVE  read[r][t] \in SoundRows(t) /\ stamp[r][t][2] <= Newest(read[r][t])
  BY <1>3 DEF ServedInv, ReadsAreSound, ReadSound, SoundBody
<1>4. CASE answer'[r] = answer[r] /\ body'[r] = body[r] /\ since'[r] = since[r]
  BY <1>4 DEF ServedInv, ServedIsCurrent
<1> QED BY <1>1, <1>2, <1>3, <1>4, AnswerSteps

LEMMA NextServes ==
  ASSUME ServedInv, NewerRows, [Next]_vars PROVE ServedInv'
<1>1. IInv'
  BY NextInv DEF ServedInv
<1> QED BY <1>1, RowsGetNewer, CoursesStay, SeenStays, ReadsStay, CacheStaysSound,
           ServedStaysCurrent DEF ServedInv

\* Every commit leaves a newer row in each table of the meet it changes.
WritesAreNewer == [][NewerRows]_vars

\* A request is answered with rows that were current in every table at some
\* moment after it arrived (get_meet_package, cached_package, store_package), as
\* long as no commit leaves a table it changed without a newer row: however
\* writers overlap or delete, a stale answer takes a commit that only deletes
\* from some table, or one older than what it finds. For any number of requests,
\* keys, permits and writes and any limits of the cache.
THEOREM ServesCurrentRows == Spec /\ WritesAreNewer => []ServedIsCurrent
<1>1. ServedInv /\ NewerRows /\ [Next]_vars => ServedInv'
  BY NextServes
<1>2. ServedInv /\ UNCHANGED vars => ServedInv'
  <2> SUFFICES ASSUME ServedInv, UNCHANGED vars PROVE ServedInv'
    OBVIOUS
  <2>1. NewerRows
    BY DEF NewerRows, vars, dbVars
  <2> QED BY <2>1, NextServes
<1>3. ServedInv => ServedIsCurrent
  BY DEF ServedInv
<1> QED BY <1>1, <1>2, <1>3, InitServes, PTL DEF Spec, WritesAreNewer

\* Writers of a meet that take turns, none of them deleting only, leave newer
\* rows in whatever they change: that is how the scrapers mostly write.
THEOREM TurnsWriteNewer ==
  ASSUME Serialized, ~DeleteOnly PROVE Spec => WritesAreNewer
<1>1. Init => RowsAreSettled
  BY RowsBeginSettled DEF Init, CacheInit
<1>2. RowsAreSettled /\ [Next]_vars => RowsAreSettled' /\ NewerRows
  BY RowsStaySettled, StepsOfRows DEF NewerRows
<1> QED BY <1>1, <1>2, PTL DEF Spec, WritesAreNewer

-----------------------------------------------------------------------------
(* The cache, as requests and builds that overlap fill it.                  *)

\* What a build may have read so far.
SomeRows == UNION {[T -> Contents] : T \in SUBSET Tables}

\* A stamp once read is one, and what a build has read are rows.
BuildsAreTyped ==
  /\ DOMAIN stamp = Requests /\ DOMAIN read = Requests
  /\ \A r \in Requests : pc[r] \in {"idle", "done"} \/ stamp[r] \in Stamps
  /\ \A r \in Requests : read[r] \in SomeRows

FilledInv == IInv /\ CacheInv /\ BuildsAreTyped

LEMMA InitFills == Init => FilledInv
<1> SUFFICES ASSUME Init PROVE FilledInv
  OBVIOUS
<1>1. CacheInv
  BY CacheBegins DEF Init
<1>2. BuildsAreTyped
  <2>1. <<>> \in [{} -> Contents] /\ {} \in SUBSET Tables
    OBVIOUS
  <2>2. <<>> \in SomeRows
    BY <2>1 DEF SomeRows
  <2> QED BY <2>2 DEF Init, BuildsAreTyped
<1> QED BY <1>1, <1>2, InitInv DEF FilledInv

LEMMA BuildsStayTyped ==
  ASSUME FilledInv, [Next]_vars PROVE BuildsAreTyped'
<1> USE DEF FilledInv, IInv, TypeOK, BuildsAreTyped, Goto, Answer, dataVars, flightVars
<1>1. CASE UNCHANGED vars \/ Expire \/ Write
  BY <1>1 DEF vars, Expire, Outlive, Write
<1>2. ASSUME NEW q \in Requests, Step(q) PROVE BuildsAreTyped'
  <2>1. CASE ReadStamp(q)
    <3>1. Stamp \in Stamps
      BY StampOfBody DEF CacheInv
    <3> QED BY <2>1, <3>1 DEF ReadStamp
  <2>2. ASSUME NEW t \in Tables, ReadTable(q, t) PROVE BuildsAreTyped'
    <3>1. xmin[t] \in Contents
      BY DEF CacheInv, Bodies
    <3>2. PICK T \in SUBSET Tables : read[q] \in [T -> Contents]
      BY DEF SomeRows
    <3>3. WithTable(read[q], t, xmin[t]) \in [T \cup {t} -> Contents] /\ T \cup {t} \in SUBSET Tables
      BY <3>1, <3>2 DEF WithTable
    <3>4. WithTable(read[q], t, xmin[t]) \in SomeRows
      BY <3>3 DEF SomeRows
    <3> QED BY <2>2, <3>4 DEF ReadTable
  <2>3. CASE FinishBuild(q)
    <3>1. <<>> \in [{} -> Contents] /\ {} \in SUBSET Tables
      OBVIOUS
    <3>2. <<>> \in SomeRows
      BY <3>1 DEF SomeRows
    <3> QED BY <2>3, <3>2 DEF FinishBuild
  <2>4. CASE Cancel(q)
    BY <2>4 DEF Cancel
  <2>5. CASE StampFails(q) \/ FirstLookup(q) \/ SecondLookup(q)
    BY <2>5 DEF StampFails, FirstLookup, SecondLookup, Lookup
  <2>6. CASE BuildSlot(q) \/ AcquireLock(q) \/ AcquirePermit(q) \/ PermitTimeout(q)
    BY <2>6 DEF BuildSlot, AcquireLock, AcquirePermit, PermitTimeout
  <2>7. CASE BuildFails(q) \/ DropPermit(q) \/ DropGuard(q) \/ DropFuture(q) \/ DropSlot(q)
             \/ DropArc(q)
    BY <2>7 DEF BuildFails, DropPermit, DropGuard, DropFuture, DropSlot, DropArc, Release
  <2> QED BY <1>2, <2>1, <2>2, <2>3, <2>4, <2>5, <2>6, <2>7 DEF Step, Advance
<1> QED BY <1>1, <1>2 DEF Next

\* What the requests do to the cache: a finished build stores an entry, and an
\* entry may expire.
LEMMA CacheChanges ==
  ASSUME FilledInv, [Next]_vars
  PROVE  \/ cache' = cache /\ [DBNext]_dbVars
         \/ Outlive
         \/ xmin' = xmin /\ \E e \in Entries : e.fresh /\ cache' = Stored(cache, e)
<1>1. ASSUME NEW q \in Requests, FinishBuild(q)
      PROVE  xmin' = xmin /\ \E e \in Entries : e.fresh /\ cache' = Stored(cache, e)
  <2>1. PICK size \in Sizes :
          cache' = Stored(cache, Entry(key[q], stamp[q], read[q], size))
    BY <1>1 DEF FinishBuild
  <2>2. key[q] \in Keys /\ stamp[q] \in Stamps /\ read[q] \in Bodies
    BY <1>1 DEF FinishBuild, FilledInv, IInv, TypeOK, BuildsAreTyped, SomeRows, Bodies
  <2>3. /\ Entry(key[q], stamp[q], read[q], size) \in Entries
        /\ Entry(key[q], stamp[q], read[q], size).fresh
    BY <2>2 DEF Entry, Entries
  <2>4. xmin' = xmin
    BY <1>1 DEF FinishBuild, dbVars
  <2> QED BY <2>1, <2>3, <2>4
<1>2. Expire \/ (\E q \in Requests : FinishBuild(q)) \/ cache' = cache
  BY DEF Next, Step, Advance, Write, ReadStamp, StampFails, FirstLookup,
       SecondLookup, Lookup, BuildSlot, AcquireLock, AcquirePermit, PermitTimeout,
       Cancel, ReadTable, BuildFails, DropPermit, DropGuard,
       DropFuture, DropSlot, DropArc, Release, vars
<1> QED BY <1>1, <1>2, StepsOfRows DEF Expire

LEMMA NextFills == ASSUME FilledInv, [Next]_vars PROVE FilledInv'
<1>1. ASSUME cache' = cache, [DBNext]_dbVars PROVE CacheInv'
  BY <1>1, RowsStayRows DEF FilledInv, CacheInv, WithinLimits
<1>2. IInv' /\ BuildsAreTyped'
  BY NextInv, BuildsStayTyped DEF FilledInv
<1>3. CacheInv'
  BY <1>1, CacheChanges, StoreKeepsInv, ExpiryKeepsInv DEF FilledInv
<1> QED BY <1>2, <1>3 DEF FilledInv

LEMMA AlwaysFilled == Spec => []FilledInv
BY InitFills, NextFills, PTL DEF Spec

\* However builds overlap, detached ones included, and whatever the writers do,
\* the cache keeps both limits (store_package).
THEOREM LimitsMeanwhile == Spec => []WithinLimits
<1>1. FilledInv => WithinLimits
  BY DEF FilledInv, CacheInv
<1> QED BY <1>1, AlwaysFilled, PTL

\* Nor does any of them evict more than it must: a build that ends late finds
\* the cache as others left it, and makes room by the oldest (store_package).
THEOREM EvictionMeanwhile == Spec => EvictsOnlyForRoom
<1>1. ASSUME FilledInv, [Next]_vars PROVE [ForRoom]_cache
  BY <1>1, CacheChanges, StoreIsForRoom, ExpiryIsForRoom DEF FilledInv
<1>2. Spec => [][ForRoom]_cache
  BY <1>1, AlwaysFilled, PTL DEF Spec
<1> QED BY <1>2 DEF EvictsOnlyForRoom, ForRoom
===============================================================================
