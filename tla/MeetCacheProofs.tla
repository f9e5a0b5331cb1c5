---------------------------- MODULE MeetCacheProofs ----------------------------
(***************************************************************************)
(* The freshness stamp and the cache, for any tables, rows, keys, sizes,   *)
(* limits and any number of writes: the limits hold, a store evicts only   *)
(* for room, a commit changes the stamp, and what is cached under the      *)
(* stamp of now is what there is now; and the lemmas that these and        *)
(* PackageBuildProofs need of both.                                        *)
(***************************************************************************)
EXTENDS MeetCache, FiniteSetTheorems, SequenceTheorems, WellFoundedInduction, TLAPS

-----------------------------------------------------------------------------
(* The freshness stamp. Writers one at a time take growing ids, so the      *)
(* newest writer of a table grows with every write of a row to it, and a    *)
(* table whose newest writer is what it was has only lost rows since.       *)

\* What a table may hold, and its newest writer.
Contents == [Rows -> 0..MaxTx]
Newest(f) == TableStamp(f)[2]

\* A nonempty set of small numbers has a least.
LEMMA LeastNumber ==
  ASSUME NEW n \in Nat, NEW S, S \subseteq 0..n, S # {}
  PROVE  \E a \in S : \A b \in S : a <= b
<1> DEFINE Less == OpToRel(<, Nat)
<1>1. IsWellFoundedOn(Less, Nat)
  BY NatLessThanWellFounded
<1>2. S \subseteq Nat
  OBVIOUS
<1>3. PICK a \in S : \A b \in S : ~(<<b, a>> \in Less)
  <2> HIDE DEF Less
  <2> QED BY <1>1, <1>2, WFMin
<1> WITNESS a \in S
<1> SUFFICES ASSUME NEW b \in S, b < a PROVE FALSE
  BY <1>2
<1> QED BY <1>2, <1>3 DEF OpToRel

\* A nonempty set of small numbers has a greatest.
LEMMA MaxBounds ==
  ASSUME NEW n \in Nat, NEW S, S \subseteq 0..n, S # {}
  PROVE  Max(S) \in S /\ \A x \in S : x <= Max(S)
<1> DEFINE T == {n - x : x \in S}
<1>1. T \subseteq 0..n /\ T # {}
  BY \A x \in S : x \in 0..n /\ n - x \in 0..n
<1>2. PICK m \in T : \A y \in T : m <= y
  <2> HIDE DEF T
  <2> QED BY <1>1, LeastNumber
<1>3. PICK a \in S : m = n - a
  BY <1>2
<1>4. ASSUME NEW x \in S PROVE x <= a
  BY <1>2, <1>3
<1> QED BY <1>3, <1>4 DEF Max

\* The newest writer of a table, 0 if the table is empty.
LEMMA NewestBounds ==
  ASSUME NEW f \in Contents
  PROVE  /\ Newest(f) \in 0..MaxTx
         /\ \A r \in Rows : f[r] <= Newest(f)
         /\ Newest(f) = 0 \/ \E r \in Rows : f[r] = Newest(f)
<1> DEFINE S == {f[r] : r \in Present(f)} \cup {0}
<1>1. S \subseteq 0..MaxTx /\ S # {} /\ MaxTx \in Nat
  BY FreshnessAssumption DEF Contents, Present
<1>2. Max(S) \in S /\ \A x \in S : x <= Max(S)
  <2> HIDE DEF S
  <2> QED BY <1>1, MaxBounds
<1>3. Newest(f) = Max(S)
  BY DEF Newest, TableStamp
<1>4. \A r \in Rows : f[r] \in S
  BY DEF Contents, Present, Absent
<1>5. Max(S) = 0 \/ \E r \in Rows : f[r] = Max(S)
  <2>1. \A x \in S : x = 0 \/ \E r \in Rows : f[r] = x
    BY DEF Present
  <2> HIDE DEF S
  <2> QED BY <1>2, <2>1
<1> HIDE DEF S
<1> QED BY <1>1, <1>2, <1>3, <1>4, <1>5

\* A transaction that writes a row to the table is its newest writer.
LEMMA WritingIsNewer ==
  ASSUME NEW f \in Contents, NEW tx \in 1..MaxTx, \A r \in Rows : f[r] < tx,
         NEW up \in SUBSET Rows, NEW del \in SUBSET Rows
  PROVE  /\ Written(f, tx, up, del) \in Contents
         /\ \A r \in Rows : Written(f, tx, up, del)[r] <= tx
         /\ up # {} => Newest(f) < Newest(Written(f, tx, up, del))
<1> DEFINE g == Written(f, tx, up, del)
<1>1. g \in Contents /\ \A r \in Rows : g[r] <= tx
  BY FreshnessAssumption DEF Contents, Written, Absent
<1>2. ASSUME up # {} PROVE Newest(f) < Newest(g)
  <2>1. PICK r \in up : g[r] = tx
    BY <1>2 DEF Written
  <2>2. tx <= Newest(g) /\ Newest(g) \in Nat
    <3> HIDE DEF g
    <3> QED BY <1>1, <2>1, NewestBounds, FreshnessAssumption
  <2>3. Newest(f) < tx /\ Newest(f) \in Nat
    BY NewestBounds, FreshnessAssumption DEF Contents
  <2> HIDE DEF g
  <2> QED BY <2>2, <2>3
<1> QED BY <1>1, <1>2

\* A table that lost rows has another count or another newest writer.
LEMMA LosingRowsChangesStamp ==
  ASSUME NEW f \in Contents, NEW g \in Contents, TableStamp(f) = TableStamp(g),
         \A r \in Rows : g[r] = f[r] \/ g[r] = Absent
  PROVE  g = f
<1>1. Present(g) \subseteq Present(f) /\ IsFiniteSet(Present(f))
  BY FS_Subset, FreshnessAssumption DEF Present
<1>2. Cardinality(Present(f)) = Cardinality(Present(g))
  BY DEF TableStamp
<1>3. Present(f) = Present(g)
  BY <1>1, <1>2, FS_Subset
<1> QED BY <1>3 DEF Present, Contents

\* The rows there are were written by transactions that are over, before the one
\* that is open.
RowsAreSettled ==
  /\ xmin \in [Tables -> Contents] /\ nextTx \in 1..(MaxTx + 1) /\ open \subseteq 1..MaxTx
  /\ \A t \in Tables, r \in Rows : xmin[t][r] < nextTx
  /\ \A tx \in open :
       /\ tx < nextTx /\ open = {tx}
       /\ \A t \in Tables, r \in Rows : xmin[t][r] < tx

LEMMA RowsBeginSettled == DBInit => RowsAreSettled
BY FreshnessAssumption DEF DBInit, RowsAreSettled, Contents, Absent, LoadTx

LEMMA CommitSettles ==
  ASSUME RowsAreSettled, NEW tx, CommitTx(tx)
  PROVE  /\ RowsAreSettled'
         /\ \A t \in Tables :
              xmin'[t] = xmin[t] \/ TableStamp(xmin'[t]) # TableStamp(xmin[t])
         /\ \A t \in Tables :
              DeleteOnly \/ xmin'[t] = xmin[t] \/ Newest(xmin[t]) < Newest(xmin'[t])
<1>1. PICK up \in [Tables -> SUBSET Rows], del \in [Tables -> SUBSET Rows] :
        /\ DeleteOnly \/ \A t \in Tables : up[t] = {} => del[t] = {}
        /\ xmin' = [t \in Tables |-> Written(xmin[t], tx, up[t], del[t])]
  BY DEF CommitTx
<1>2. /\ tx \in 1..MaxTx /\ open = {tx} /\ tx < nextTx
      /\ open' = {} /\ nextTx' = nextTx
      /\ \A t \in Tables : xmin[t] \in Contents /\ \A r \in Rows : xmin[t][r] < tx
  BY DEF CommitTx, RowsAreSettled
<1>3. ASSUME NEW t \in Tables
      PROVE  /\ xmin'[t] \in Contents /\ \A r \in Rows : xmin'[t][r] <= tx
             /\ up[t] # {} => Newest(xmin[t]) < Newest(xmin'[t])
  BY <1>1, <1>2, WritingIsNewer
<1>4. RowsAreSettled'
  <2>1. xmin' \in [Tables -> Contents]
    BY <1>1, <1>3
  <2>2. \A t \in Tables, r \in Rows : xmin'[t][r] < nextTx
    BY <1>2, <1>3, FreshnessAssumption DEF Contents, RowsAreSettled
  <2> QED BY <1>2, <2>1, <2>2 DEF RowsAreSettled
<1>5. ASSUME NEW t \in Tables, up[t] = {}
      PROVE  \A r \in Rows : xmin'[t][r] = xmin[t][r] \/ xmin'[t][r] = Absent
  BY <1>1, <1>5 DEF Written
<1>6. ASSUME NEW t \in Tables, up[t] = {}, del[t] = {} PROVE xmin'[t] = xmin[t]
  BY <1>1, <1>2, <1>6 DEF Written, Contents
<1>7. ASSUME NEW t \in Tables, TableStamp(xmin'[t]) = TableStamp(xmin[t])
      PROVE  xmin'[t] = xmin[t]
  <2>1. Newest(xmin[t]) \in Nat /\ Newest(xmin'[t]) = Newest(xmin[t])
    BY <1>2, <1>7, NewestBounds, FreshnessAssumption DEF Newest
  <2>2. up[t] = {}
    BY <1>3, <2>1
  <2> QED BY <1>2, <1>3, <1>5, <1>7, <2>2, LosingRowsChangesStamp
<1> QED BY <1>1, <1>3, <1>4, <1>6, <1>7

LEMMA RowsStaySettled ==
  ASSUME Serialized, RowsAreSettled, [DBNext]_dbVars
  PROVE  /\ RowsAreSettled'
         /\ xmin' # xmin => StampOf(xmin') # StampOf(xmin)
         /\ \A t \in Tables :
              DeleteOnly \/ xmin'[t] = xmin[t] \/ Newest(xmin[t]) < Newest(xmin'[t])
<1>1. CASE UNCHANGED dbVars
  BY <1>1 DEF RowsAreSettled, dbVars
<1>2. CASE BeginTx
  <2>1. /\ open' = {nextTx} /\ nextTx' = nextTx + 1 /\ xmin' = xmin
        /\ nextTx \in 1..MaxTx /\ MaxTx \in Nat
    <3>1. open = {}
      BY <1>2, Zenon DEF BeginTx
    <3> QED BY <1>2, <3>1, FreshnessAssumption DEF BeginTx, RowsAreSettled
  <2>2. ASSUME NEW t \in Tables, NEW r \in Rows
        PROVE  xmin[t][r] \in 0..MaxTx /\ xmin[t][r] < nextTx
    BY DEF RowsAreSettled, Contents
  <2>3. \A t \in Tables, r \in Rows : xmin'[t][r] < nextTx'
    BY <2>1, <2>2
  <2> QED BY <2>1, <2>2, <2>3 DEF RowsAreSettled
<1>3. CASE \E tx \in 1..MaxTx : CommitTx(tx)
  <2>1. ASSUME StampOf(xmin') = StampOf(xmin) PROVE xmin' = xmin
    <3>1. \A t \in Tables : TableStamp(xmin'[t]) = TableStamp(xmin[t])
      BY <2>1 DEF StampOf
    <3>2. \A t \in Tables : xmin'[t] = xmin[t]
      BY <1>3, <3>1, CommitSettles
    <3>3. xmin' \in [Tables -> Contents] /\ xmin \in [Tables -> Contents]
      BY <1>3, CommitSettles DEF RowsAreSettled
    <3> QED BY <3>2, <3>3
  <2> QED BY <1>3, <2>1, CommitSettles
<1> QED BY <1>1, <1>2, <1>3 DEF DBNext

Stamps == [Tables -> Nat \X Nat]
Bodies == [Tables -> Contents]

\* freshness_stamp returns counts and newest writers.
LEMMA StampOfBody ==
  ASSUME xmin \in Bodies
  PROVE  Stamp \in Stamps /\ \A t \in Tables : Stamp[t][2] = Newest(xmin[t])
<1>1. ASSUME NEW t \in Tables
      PROVE  TableStamp(xmin[t]) \in Nat \X Nat
  <2>1. xmin[t] \in Contents
    BY DEF Bodies
  <2>2. Newest(xmin[t]) \in Nat
    BY <2>1, NewestBounds, FreshnessAssumption
  <2>3. IsFiniteSet(Present(xmin[t]))
    BY FS_Subset, FreshnessAssumption DEF Present
  <2>4. Cardinality(Present(xmin[t])) \in Nat
    BY <2>3, FS_CardinalityType
  <2> QED BY <2>2, <2>4 DEF Newest, TableStamp
<1> QED BY <1>1 DEF Stamp, StampOf, Stamps, Newest

LEMMA StampIsStamp ==
  ASSUME RowsAreSettled
  PROVE  Stamp \in Stamps /\ \A t \in Tables : Stamp[t][2] = Newest(xmin[t])
BY StampOfBody DEF RowsAreSettled, Bodies

-----------------------------------------------------------------------------
\* The operations of the cache leave entries of a set among those of the set.
LEMMA SuffixIn ==
  ASSUME NEW S, NEW c \in Seq(S), NEW n \in 0..Len(c)
  PROVE  SubSeq(c, n + 1, Len(c)) \in Seq(S)
<1>1. \A i \in (n + 1)..Len(c) : c[i] \in S
  OBVIOUS
<1> QED BY <1>1, SubSeqProperties

LEMMA YoungIn ==
  ASSUME NEW S, NEW c \in Seq(S) PROVE Young(c) \in Seq(S)
<1> DEFINE stale == {i \in DOMAIN c : ~c[i].fresh}
<1>1. stale \subseteq 1..Len(c) /\ Len(c) \in Nat
  OBVIOUS
<1>2. Cardinality(stale) \in 0..Len(c)
  <2> HIDE DEF stale
  <2> DEFINE n == Len(c)
  <2>1. n \in Nat /\ stale \subseteq 1..n
    BY <1>1
  <2> HIDE DEF n
  <2>2. IsFiniteSet(1..n) /\ Cardinality(1..n) = n
    BY <2>1, FS_Interval
  <2>3. Cardinality(stale) \in Nat /\ Cardinality(stale) <= Cardinality(1..n)
    BY <2>1, <2>2, FS_Subset, FS_CardinalityType
  <2>4. Cardinality(stale) \in 0..n
    BY <2>1, <2>2, <2>3
  <2> QED BY <2>4 DEF n
<1> HIDE DEF stale
<1>3. SubSeq(c, Cardinality(stale) + 1, Len(c)) \in Seq(S)
  BY <1>2, SuffixIn
<1> QED BY <1>3 DEF Young, stale

LEMMA WithoutIn ==
  ASSUME NEW S, NEW c \in Seq(S), NEW k PROVE Without(c, k) \in Seq(S)
<1>1. ASSUME NEW i \in DOMAIN c PROVE RemoveAt(c, i) \in Seq(S)
  <2>1. SubSeq(c, 1, i - 1) \in Seq(S) /\ SubSeq(c, i + 1, Len(c)) \in Seq(S)
    BY <1>1, SubSeqProperties
  <2> QED BY <2>1, ConcatProperties DEF RemoveAt
<1>2. CASE \E i \in DOMAIN c : c[i].key = k
  <2> DEFINE i == CHOOSE i \in DOMAIN c : c[i].key = k
  <2>1. i \in DOMAIN c
    BY <1>2
  <2> QED BY <1>1, <1>2, <2>1 DEF Without
<1> QED BY <1>2 DEF Without

\* No more is evicted than it takes.
EnoughRoom(c, n, size) == n = Len(c) \/ Fits(SubSeq(c, n + 1, Len(c)), size)
NoneSooner(c, n, size) == \A m \in 0..(n - 1) : ~Fits(SubSeq(c, m + 1, Len(c)), size)

LEMMA EvictShape ==
  ASSUME NEW S, NEW c \in Seq(S), NEW size
  PROVE  \E n \in 0..Len(c) :
           /\ Evict(c, size) = SubSeq(c, n + 1, Len(c))
           /\ EnoughRoom(c, n, size) /\ NoneSooner(c, n, size)
<1> DEFINE Ends == {n \in 0..Len(c) : EnoughRoom(c, n, size)}
           First(n) == EnoughRoom(c, n, size) /\ NoneSooner(c, n, size)
<1>1. Ends \subseteq 0..Len(c) /\ Ends # {} /\ Len(c) \in Nat
  BY DEF EnoughRoom
<1>2. PICK n \in Ends : \A m \in Ends : n <= m
  <2> HIDE DEF Ends
  <2> QED BY <1>1, LeastNumber
<1>3. n \in 0..Len(c) /\ First(n)
  <2>1. n \in 0..Len(c) /\ EnoughRoom(c, n, size) /\ Len(c) \in Nat
    OBVIOUS
  <2>2. ASSUME NEW m \in 0..(n - 1) PROVE m \in 0..Len(c) /\ ~(n <= m)
    BY <2>1
  <2>3. ASSUME NEW m \in 0..(n - 1), Fits(SubSeq(c, m + 1, Len(c)), size) PROVE FALSE
    <3>1. m \in Ends
      BY <2>2, <2>3 DEF EnoughRoom
    <3> HIDE DEF Ends
    <3> QED BY <1>2, <2>2, <3>1
  <2> QED BY <2>1, <2>3 DEF NoneSooner
<1> DEFINE first == CHOOSE m \in 0..Len(c) : First(m)
<1>4. first \in 0..Len(c) /\ First(first)
  <2> HIDE DEF First
  <2> QED BY <1>3
<1>5. Evict(c, size) = SubSeq(c, first + 1, Len(c))
  BY Zenon DEF Evict, EnoughRoom, NoneSooner
<1> HIDE DEF first
<1> QED BY <1>4, <1>5

LEMMA EvictIn ==
  ASSUME NEW S, NEW c \in Seq(S), NEW size PROVE Evict(c, size) \in Seq(S)
BY EvictShape, SuffixIn

LEMMA StoredIn ==
  ASSUME NEW S, NEW c \in Seq(S), NEW e \in S PROVE Stored(c, e) \in Seq(S)
<1>1. Evict(Without(Young(c), e.key), e.size) \in Seq(S)
  BY YoungIn, WithoutIn, EvictIn
<1> QED BY <1>1, AppendProperties DEF Stored

\* The entry that expires is the oldest that had not.
LEMMA ExpiredShape ==
  ASSUME NEW S, NEW c \in Seq(S), HasFresh(c)
  PROVE  \E i \in DOMAIN c :
           /\ Expired(c) = [c EXCEPT ![i].fresh = FALSE]
           /\ \A m \in DOMAIN c : m < i => ~c[m].fresh
<1> DEFINE Fresh == {j \in DOMAIN c : c[j].fresh}
           First(j) == c[j].fresh /\ \A m \in 1..(j - 1) : ~c[m].fresh
<1>1. Fresh \subseteq 0..Len(c) /\ Fresh # {} /\ Len(c) \in Nat
  BY DEF HasFresh, ToSet
<1>2. PICK n \in Fresh : \A m \in Fresh : n <= m
  <2> HIDE DEF Fresh
  <2> QED BY <1>1, LeastNumber
<1>3. n \in DOMAIN c /\ First(n)
  BY <1>2
<1> DEFINE i == CHOOSE j \in DOMAIN c : First(j)
<1>4. i \in DOMAIN c /\ First(i)
  <2> HIDE DEF First
  <2> QED BY <1>3
<1>5. Expired(c) = [c EXCEPT ![i].fresh = FALSE]
  BY DEF Expired
<1> HIDE DEF i
<1>6. ASSUME NEW m \in DOMAIN c, m < i PROVE ~c[m].fresh
  <2>1. m \in 1..(i - 1)
    BY <1>4, <1>6
  <2> QED BY <1>4, <2>1
<1> QED BY <1>4, <1>5, <1>6

LEMMA ExpiredIn ==
  ASSUME NEW S, NEW c \in Seq(S), HasFresh(c),
         \A e \in S : [e EXCEPT !.fresh = FALSE] \in S
  PROVE  Expired(c) \in Seq(S)
<1>1. ASSUME NEW i \in DOMAIN c PROVE [c EXCEPT ![i].fresh = FALSE] \in Seq(S)
  <2>1. [c EXCEPT ![i] = [c[i] EXCEPT !.fresh = FALSE]] \in Seq(S)
    BY ExceptSeq
  <2> QED BY <2>1
<1> QED BY <1>1, ExpiredShape

\* A sequence over a set is one over a larger set.
LEMMA SeqOfMore ==
  ASSUME NEW S, NEW T, S \subseteq T, NEW c \in Seq(S) PROVE c \in Seq(T)
OBVIOUS

-----------------------------------------------------------------------------
(* What the operations of the cache do to the order of its entries.         *)

\* At most one entry of a key, and those that have expired come first.
KeysDiffer(c) == \A i, j \in DOMAIN c : c[i].key = c[j].key => i = j
StaleFirst(c) == \A i, j \in DOMAIN c : i < j /\ c[i].fresh => c[j].fresh

LEMMA SuffixShape ==
  ASSUME NEW S, NEW c \in Seq(S), NEW i \in 1..(Len(c) + 1)
  PROVE  /\ SubSeq(c, i, Len(c)) \in Seq(S)
         /\ Len(SubSeq(c, i, Len(c))) = Len(c) - i + 1
         /\ \A j \in 1..(Len(c) - i + 1) : SubSeq(c, i, Len(c))[j] = c[i + j - 1]
<1>1. i \in Int /\ Len(c) \in Int /\ \A j \in i..Len(c) : c[j] \in S
  OBVIOUS
<1> QED BY <1>1, SubSeqProperties

LEMMA RemovalShape ==
  ASSUME NEW S, NEW c \in Seq(S), NEW q \in DOMAIN c
  PROVE  /\ RemoveAt(c, q) \in Seq(S) /\ Len(RemoveAt(c, q)) = Len(c) - 1
         /\ \A i \in 1..(q - 1) : RemoveAt(c, q)[i] = c[i]
         /\ \A i \in q..(Len(c) - 1) : RemoveAt(c, q)[i] = c[i + 1]
<1> DEFINE a == SubSeq(c, 1, q - 1)
           b == SubSeq(c, q + 1, Len(c))
<1>0. q \in 1..Len(c) /\ Len(c) \in Nat
  OBVIOUS
<1>1. a \in Seq(S) /\ Len(a) = q - 1 /\ \A i \in 1..(q - 1) : a[i] = c[i]
  <2>1. \A i \in 1..(q - 1) : c[i] \in S
    OBVIOUS
  <2> QED BY <1>0, <2>1, SubSeqProperties
<1>2. b \in Seq(S) /\ Len(b) = Len(c) - q /\ \A i \in 1..(Len(c) - q) : b[i] = c[q + i]
  <2>1. q + 1 \in 1..(Len(c) + 1)
    BY <1>0
  <2> QED BY <1>0, <2>1, SuffixShape
<1>3. RemoveAt(c, q) = a \o b
  BY DEF RemoveAt
<1> HIDE DEF a, b
<1>4. /\ a \o b \in Seq(S) /\ Len(a \o b) = Len(c) - 1
      /\ \A i \in 1..(Len(c) - 1) : (a \o b)[i] = IF i <= q - 1 THEN a[i] ELSE b[i - (q - 1)]
  <2>1. /\ a \o b \in Seq(S) /\ Len(a \o b) = Len(a) + Len(b)
        /\ \A i \in 1..(Len(a) + Len(b)) :
             (a \o b)[i] = IF i <= Len(a) THEN a[i] ELSE b[i - Len(a)]
    BY <1>1, <1>2, ConcatProperties
  <2>2. Len(a) = q - 1 /\ Len(a) + Len(b) = Len(c) - 1
    BY <1>0, <1>1, <1>2
  <2> QED BY <2>1, <2>2
<1>5. ASSUME NEW i \in q..(Len(c) - 1) PROVE (a \o b)[i] = c[i + 1]
  <2>1. i - (q - 1) \in 1..(Len(c) - q) /\ ~(i <= q - 1) /\ i \in 1..(Len(c) - 1)
        /\ q + (i - (q - 1)) = i + 1
    BY <1>0
  <2>2. (a \o b)[i] = b[i - (q - 1)]
    BY <1>4, <2>1
  <2> HIDE <1>4
  <2> QED BY <1>2, <2>1, <2>2
<1>6. ASSUME NEW i \in 1..(q - 1) PROVE (a \o b)[i] = c[i]
  BY <1>0, <1>1, <1>4
<1> QED BY <1>3, <1>4, <1>5, <1>6

\* Without a key, the other entries keep their order.
LEMMA WithoutShape ==
  ASSUME NEW S, NEW c \in Seq(S), NEW k, KeysDiffer(c)
  PROVE  \/ (\A i \in DOMAIN c : c[i].key # k) /\ Without(c, k) = c
         \/ \E q \in DOMAIN c : c[q].key = k /\ Without(c, k) = RemoveAt(c, q)
<1>1. CASE \E q \in DOMAIN c : c[q].key = k
  <2> DEFINE q == CHOOSE i \in DOMAIN c : c[i].key = k
  <2>1. q \in DOMAIN c /\ c[q].key = k
    BY <1>1
  <2>2. Without(c, k) = RemoveAt(c, q)
    BY <1>1 DEF Without
  <2> HIDE DEF q
  <2> QED BY <2>1, <2>2
<1> QED BY <1>1 DEF Without

\* The entries that are left have other keys, in the order they had.
LEMMA WithoutOrder ==
  ASSUME NEW S, NEW c \in Seq(S), NEW k, KeysDiffer(c)
  PROVE  /\ Without(c, k) \in Seq(S)
         /\ KeysDiffer(Without(c, k))
         /\ \A i \in DOMAIN Without(c, k) :
              Without(c, k)[i].key # k /\ \E j \in DOMAIN c : Without(c, k)[i] = c[j]
<1>1. CASE (\A i \in DOMAIN c : c[i].key # k) /\ Without(c, k) = c
  BY <1>1
<1>2. ASSUME NEW q \in DOMAIN c, c[q].key = k, Without(c, k) = RemoveAt(c, q)
      PROVE  /\ Without(c, k) \in Seq(S)
             /\ KeysDiffer(Without(c, k))
             /\ \A i \in DOMAIN Without(c, k) :
                  Without(c, k)[i].key # k /\ \E j \in DOMAIN c : Without(c, k)[i] = c[j]
  <2> DEFINE w == RemoveAt(c, q)
             At(i) == IF i <= q - 1 THEN i ELSE i + 1
  <2>1. /\ w \in Seq(S) /\ Len(w) = Len(c) - 1 /\ Len(c) \in Nat /\ q \in 1..Len(c)
        /\ \A i \in 1..(q - 1) : w[i] = c[i]
        /\ \A i \in q..(Len(c) - 1) : w[i] = c[i + 1]
    <3>1. /\ w \in Seq(S) /\ Len(w) = Len(c) - 1
          /\ \A i \in 1..(q - 1) : w[i] = c[i]
          /\ \A i \in q..(Len(c) - 1) : w[i] = c[i + 1]
      BY RemovalShape, Zenon
    <3> QED BY <3>1
  <2>2. ASSUME NEW i \in DOMAIN w
        PROVE  At(i) \in DOMAIN c /\ At(i) # q /\ w[i] = c[At(i)]
    <3>1. i \in 1..(Len(c) - 1)
      BY <2>1
    <3> HIDE DEF w
    <3> QED BY <2>1, <3>1
  <2>3. \A i, j \in DOMAIN w : At(i) = At(j) => i = j
    <3>1. DOMAIN w \subseteq Int
      BY <2>1
    <3> QED BY <2>1, <3>1
  <2> HIDE DEF w, At
  <2>4. KeysDiffer(w)
    <3> SUFFICES ASSUME NEW i \in DOMAIN w, NEW j \in DOMAIN w, w[i].key = w[j].key
                 PROVE  i = j
      BY DEF KeysDiffer
    <3>1. At(i) = At(j)
      BY <2>2 DEF KeysDiffer
    <3> QED BY <2>3, <3>1
  <2>5. \A i \in DOMAIN w : w[i].key # k /\ \E j \in DOMAIN c : w[i] = c[j]
    BY <1>2, <2>2 DEF KeysDiffer
  <2> QED BY <1>2, <2>1, <2>4, <2>5 DEF w
<1> QED BY <1>1, <1>2, WithoutShape

LEMMA SuffixOrder ==
  ASSUME NEW S, NEW c \in Seq(S), NEW i \in 1..(Len(c) + 1), KeysDiffer(c)
  PROVE  KeysDiffer(SubSeq(c, i, Len(c)))
<1> DEFINE d == SubSeq(c, i, Len(c))
<1>1. /\ d \in Seq(S) /\ Len(d) = Len(c) - i + 1 /\ Len(c) \in Nat
      /\ \A j \in 1..(Len(c) - i + 1) : d[j] = c[i + j - 1]
  BY SuffixShape
<1> HIDE DEF d
<1>2. ASSUME NEW j \in DOMAIN d
      PROVE  j \in Int /\ i + j - 1 \in DOMAIN c /\ d[j] = c[i + j - 1]
  BY <1>1
<1> SUFFICES ASSUME NEW j \in DOMAIN d, NEW l \in DOMAIN d, d[j].key = d[l].key
             PROVE  j = l
  BY DEF KeysDiffer, d
<1>3. i + j - 1 = i + l - 1
  BY <1>2 DEF KeysDiffer
<1> QED BY <1>2, <1>3

\* Two ways to the same entries: w is c without place q, v what w has from j on
\* (from one place earlier if q is before j), and d what c has from j on.
CutEarlier(S, v, d, w, c, n, q, j) ==
  /\ v \in Seq(S) /\ d \in Seq(S) /\ n \in Int /\ q \in Int /\ j \in Int
  /\ 1 <= q /\ q < j /\ j <= n /\ Len(v) = n - j + 1 /\ Len(d) = n - j + 1
  /\ \A i \in 1..(n - j + 1) : v[i] = w[j + i - 2] /\ d[i] = c[i + j - 1]
  /\ \A i \in q..(n - 1) : w[i] = c[i + 1]

LEMMA SameAfterEarlierRemoval ==
  ASSUME NEW S, NEW v, NEW d, NEW w, NEW c, NEW n, NEW q, NEW j,
         CutEarlier(S, v, d, w, c, n, q, j)
  PROVE  v = d
<1>1. ASSUME NEW i \in 1..Len(v) PROVE v[i] = d[i]
  <2>1. i \in Int /\ 1 <= i /\ i <= n - j + 1
    BY DEF CutEarlier
  <2>2. j + i - 2 \in q..(n - 1) /\ (j + i - 2) + 1 = i + j - 1
    BY <2>1 DEF CutEarlier
  <2> QED BY <2>1, <2>2 DEF CutEarlier
<1> QED BY <1>1, SeqEqual DEF CutEarlier

\* The same when the place taken out is not before j; u is d without it.
CutLater(S, v, u, w, c, d, n, q, j, p) ==
  /\ v \in Seq(S) /\ u \in Seq(S) /\ n \in Int /\ q \in Int /\ j \in Int /\ p \in Int
  /\ 1 <= j /\ j < q /\ q <= n /\ p = q - j + 1 /\ Len(v) = n - j /\ Len(u) = n - j
  /\ \A i \in 1..(n - j) : v[i] = w[j + i - 1]
  /\ \A i \in 1..(n - j + 1) : d[i] = c[i + j - 1]
  /\ \A i \in 1..(q - 1) : w[i] = c[i]
  /\ \A i \in q..(n - 1) : w[i] = c[i + 1]
  /\ \A i \in 1..(p - 1) : u[i] = d[i]
  /\ \A i \in p..(n - j) : u[i] = d[i + 1]

LEMMA SameAfterLaterRemoval ==
  ASSUME NEW S, NEW v, NEW u, NEW w, NEW c, NEW d, NEW n, NEW q, NEW j, NEW p,
         CutLater(S, v, u, w, c, d, n, q, j, p)
  PROVE  v = u
<1>1. ASSUME NEW i \in 1..Len(v) PROVE v[i] = u[i]
  <2>1. i \in Int /\ 1 <= i /\ i <= n - j
    BY DEF CutLater
  <2>2. CASE i < p
    <3>1. /\ j + i - 1 \in 1..(q - 1) /\ i \in 1..(p - 1) /\ i \in 1..(n - j + 1)
          /\ j + i - 1 = i + j - 1
      BY <2>1, <2>2 DEF CutLater
    <3>2. v[i] = w[j + i - 1] /\ w[j + i - 1] = c[j + i - 1]
      BY <3>1 DEF CutLater
    <3>3. u[i] = d[i] /\ d[i] = c[i + j - 1]
      BY <3>1 DEF CutLater
    <3> QED BY <3>1, <3>2, <3>3
  <2>3. CASE ~(i < p)
    <3>0. q - j + 1 <= i
      BY <2>1, <2>3 DEF CutLater
    <3>1. /\ j + i - 1 \in q..(n - 1) /\ i \in p..(n - j) /\ i + 1 \in 1..(n - j + 1)
          /\ (j + i - 1) + 1 = (i + 1) + j - 1
      BY <2>1, <3>0 DEF CutLater
    <3>2. v[i] = w[j + i - 1] /\ w[j + i - 1] = c[(j + i - 1) + 1]
      BY <3>1 DEF CutLater
    <3>3. u[i] = d[i + 1] /\ d[i + 1] = c[(i + 1) + j - 1]
      BY <3>1 DEF CutLater
    <3> QED BY <3>1, <3>2, <3>3
  <2> QED BY <2>2, <2>3
<1> QED BY <1>1, SeqEqual DEF CutLater

\* Cutting an older part off and taking a key out can be done in either order.
LEMMA SuffixWithout ==
  ASSUME NEW S, NEW c \in Seq(S), NEW k, KeysDiffer(c), NEW j \in DOMAIN c, c[j].key # k
  PROVE  \E m \in DOMAIN Without(c, k) :
           /\ Without(c, k)[m] = c[j]
           /\ SubSeq(Without(c, k), m, Len(Without(c, k)))
                = Without(SubSeq(c, j, Len(c)), k)
<1> DEFINE d == SubSeq(c, j, Len(c))
           n == Len(c)
<1>1. /\ d \in Seq(S) /\ Len(d) = n - j + 1 /\ n \in Nat /\ j \in 1..n
      /\ \A i \in 1..(n - j + 1) : d[i] = c[i + j - 1]
  <2>1. j \in 1..(Len(c) + 1) /\ j \in 1..Len(c) /\ Len(c) \in Nat
    OBVIOUS
  <2> QED BY <2>1, SuffixShape
<1>0. n \in Nat /\ j \in 1..n
  OBVIOUS
<1>2. KeysDiffer(d)
  <2>1. j \in 1..(Len(c) + 1)
    OBVIOUS
  <2> QED BY <2>1, SuffixOrder
<1>3. CASE (\A i \in DOMAIN c : c[i].key # k) /\ Without(c, k) = c
  <2>1. \A i \in DOMAIN d : d[i].key # k
    <3> HIDE DEF d
    <3> QED BY <1>1, <1>3
  <2>2. Without(d, k) = d
    <3> HIDE DEF d
    <3> QED BY <2>1 DEF Without
  <2> QED BY <1>3, <2>2
<1>4. ASSUME NEW q \in DOMAIN c, c[q].key = k, Without(c, k) = RemoveAt(c, q)
      PROVE  \E m \in DOMAIN RemoveAt(c, q) :
               /\ RemoveAt(c, q)[m] = c[j]
               /\ SubSeq(RemoveAt(c, q), m, Len(RemoveAt(c, q))) = Without(d, k)
  <2> DEFINE w == RemoveAt(c, q)
             m == IF q < j THEN j - 1 ELSE j
             v == SubSeq(w, m, Len(w))
  <2>0. q \in 1..n /\ q # j
    BY <1>1, <1>4
  <2>1. /\ w \in Seq(S) /\ Len(w) = n - 1
        /\ \A i \in 1..(q - 1) : w[i] = c[i]
        /\ \A i \in q..(n - 1) : w[i] = c[i + 1]
    BY RemovalShape, Zenon
  <2> HIDE DEF d, n, w
  <2>2. m \in 1..(n - 1) /\ w[m] = c[j]
    <3>1. CASE q < j
      <4>1. m = j - 1 /\ m \in q..(n - 1) /\ m \in 1..(n - 1) /\ m + 1 = j
        BY <1>0, <2>0, <3>1
      <4> QED BY <2>1, <4>1
    <3>2. CASE ~(q < j)
      <4>1. m = j /\ m \in 1..(q - 1) /\ m \in 1..(n - 1)
        BY <1>0, <2>0, <3>2
      <4> QED BY <2>1, <4>1
    <3> QED BY <3>1, <3>2
  <2>3. /\ v \in Seq(S) /\ Len(v) = n - 1 - m + 1
        /\ \A i \in 1..(n - 1 - m + 1) : v[i] = w[m + i - 1]
    <3> HIDE DEF m
    <3>1. m \in 1..(Len(w) + 1)
      BY <2>1, <2>2, <1>1
    <3>2. /\ v \in Seq(S) /\ Len(v) = Len(w) - m + 1
          /\ \A i \in 1..(Len(w) - m + 1) : v[i] = w[m + i - 1]
      BY <2>1, <3>1, SuffixShape
    <3> QED BY <2>1, <3>2
  <2> HIDE DEF v
  <2>4. CASE q < j
    <3>1. \A i \in DOMAIN d : d[i].key # k
      <4>1. ASSUME NEW i \in DOMAIN d PROVE d[i].key # k
        <5>1. i + j - 1 \in DOMAIN c /\ i + j - 1 # q /\ d[i] = c[i + j - 1]
          BY <1>1, <2>0, <2>4 DEF n
        <5> QED BY <1>4, <5>1 DEF KeysDiffer
      <4> QED BY <4>1
    <3>2. Without(d, k) = d
      BY <3>1 DEF Without
    <3>3. v = d
      <4>1. /\ q \in Int /\ j \in Int /\ n \in Int /\ 1 <= q /\ j <= n
            /\ m = j - 1 /\ n - 1 - m + 1 = n - j + 1
        BY <1>0, <2>0, <2>4
      <4>2. \A i \in 1..(n - j + 1) : m + i - 1 = j + i - 2
        BY <4>1
      <4> HIDE DEF m
      <4>3. /\ Len(v) = n - j + 1
            /\ \A i \in 1..(n - j + 1) : v[i] = w[j + i - 2] /\ d[i] = c[i + j - 1]
        BY <1>1, <2>3, <4>1, <4>2
      <4>4. CutEarlier(S, v, d, w, c, n, q, j)
        BY <1>1, <2>1, <2>3, <2>4, <4>1, <4>3 DEF CutEarlier
      <4> QED BY <4>4, SameAfterEarlierRemoval
    <3> QED BY <2>1, <2>2, <3>2, <3>3 DEF v, w
  <2>5. CASE ~(q < j)
    <3> DEFINE p == q - j + 1
    <3>1. p \in DOMAIN d /\ d[p] = c[q] /\ p \in 1..Len(d)
      BY <1>1, <2>0, <2>5
    <3>2. Without(d, k) = RemoveAt(d, p)
      <4>1. ASSUME NEW i \in DOMAIN d, d[i].key = k PROVE i = p
        BY <1>2, <1>4, <3>1, <4>1 DEF KeysDiffer
      <4>2. PICK i \in DOMAIN d : d[i].key = k /\ Without(d, k) = RemoveAt(d, i)
        BY <1>1, <1>2, <1>4, <3>1, WithoutShape
      <4> HIDE DEF p
      <4> QED BY <4>1, <4>2
    <3> DEFINE u == RemoveAt(d, p)
    <3>3. /\ u \in Seq(S) /\ Len(u) = Len(d) - 1
          /\ \A i \in 1..(p - 1) : u[i] = d[i]
          /\ \A i \in p..(Len(d) - 1) : u[i] = d[i + 1]
      <4> HIDE DEF p
      <4> QED BY <1>1, <3>1, RemovalShape, Zenon
    <3> HIDE DEF u
    <3>4. v = u
      <4>1. /\ q \in Int /\ j \in Int /\ n \in Int /\ p \in Int /\ 1 <= j /\ j < q /\ q <= n
            /\ p = q - j + 1 /\ m = j /\ n - 1 - m + 1 = n - j /\ (n - j + 1) - 1 = n - j
        BY <1>0, <2>0, <2>5
      <4> HIDE DEF m, p
      <4>2. /\ Len(v) = n - j /\ Len(u) = n - j
            /\ \A i \in 1..(n - j) : v[i] = w[j + i - 1]
            /\ \A i \in 1..(p - 1) : u[i] = d[i]
            /\ \A i \in p..(n - j) : u[i] = d[i + 1]
        BY <1>1, <2>3, <3>3, <4>1
      <4>3. CutLater(S, v, u, w, c, d, n, q, j, p)
        BY <1>1, <2>1, <2>3, <3>3, <4>1, <4>2 DEF CutLater
      <4> QED BY <4>3, SameAfterLaterRemoval
    <3> QED BY <2>1, <2>2, <3>2, <3>4 DEF u, v, w
  <2> QED BY <2>4, <2>5
<1> QED BY <1>3, <1>4, WithoutShape

\* Those that have not expired are the last ones.
LEMMA YoungShape ==
  ASSUME NEW S, NEW c \in Seq(S), StaleFirst(c)
  PROVE  \E p \in 0..Len(c) :
           /\ Young(c) = SubSeq(c, p + 1, Len(c))
           /\ \A i \in DOMAIN c : c[i].fresh <=> p < i
<1> DEFINE stale == {i \in DOMAIN c : ~c[i].fresh}
<1>1. stale \subseteq 1..Len(c) /\ stale \subseteq 0..Len(c) /\ Len(c) \in Nat
  OBVIOUS
<1>2. CASE stale = {}
  <2>1. Cardinality(stale) = 0
    BY <1>2, FS_EmptySet
  <2>2. \A i \in DOMAIN c : c[i].fresh <=> 0 < i
    BY <1>2
  <2>3. Young(c) = SubSeq(c, 0 + 1, Len(c))
    BY <2>1 DEF Young
  <2> HIDE DEF stale
  <2> QED BY <1>1, <2>2, <2>3
<1>3. CASE stale # {}
  <2> DEFINE p == Max(stale)
  <2>1. p \in stale /\ \A i \in stale : i <= p
    <3> HIDE DEF stale
    <3> QED BY <1>1, <1>3, MaxBounds
  <2> HIDE DEF p
  <2>2. p \in 1..Len(c) /\ p \in DOMAIN c
    BY <1>1, <2>1
  <2>3. ASSUME NEW i \in DOMAIN c PROVE c[i].fresh <=> p < i
    <3>1. i \in Int /\ p \in Int
      BY <1>1, <2>1
    <3>2. ASSUME ~(p < i) PROVE ~c[i].fresh
      <4>1. i = p \/ i < p
        BY <3>1, <3>2
      <4>2. ~c[p].fresh
        BY <2>1
      <4> QED BY <2>2, <4>1, <4>2 DEF StaleFirst
    <3>3. ASSUME p < i PROVE c[i].fresh
      <4>1. i \notin stale
        <5> HIDE DEF stale
        <5> QED BY <2>1, <3>1, <3>3
      <4> QED BY <4>1
    <3> QED BY <3>2, <3>3
  <2>4. stale = 1..p
    <3>1. \A i \in DOMAIN c : i \in stale <=> i <= p
      BY <2>3, <2>2
    <3>2. DOMAIN c = 1..Len(c)
      OBVIOUS
    <3>3. stale \subseteq DOMAIN c /\ p \in Nat
      BY <2>2
    <3> HIDE DEF stale
    <3>4. ASSUME NEW i \in stale PROVE i \in 1..p
      <4>1. i \in DOMAIN c /\ i <= p
        BY <3>1, <3>3
      <4> QED BY <3>2, <3>3, <4>1
    <3>5. ASSUME NEW i \in 1..p PROVE i \in stale
      <4>1. i \in DOMAIN c /\ i <= p
        BY <2>2, <3>3
      <4> QED BY <3>1, <4>1
    <3> QED BY <3>4, <3>5
  <2>5. Cardinality(stale) = p
    <3> HIDE DEF stale
    <3> QED BY <2>2, <2>4, FS_Interval
  <2>6. Young(c) = SubSeq(c, p + 1, Len(c))
    BY <2>5 DEF Young
  <2> HIDE DEF stale
  <2>7. p \in 0..Len(c)
    BY <1>1, <2>2
  <2> QED BY <2>3, <2>6, <2>7
<1> QED BY <1>2, <1>3

\* What has not expired of a suffix, and a suffix of a suffix.
LEMMA SuffixSuffix ==
  ASSUME NEW S, NEW c \in Seq(S), NEW p \in 0..Len(c), NEW i \in (p + 1)..Len(c)
  PROVE  LET y == SubSeq(c, p + 1, Len(c))
         IN  /\ i - p \in DOMAIN y /\ y[i - p] = c[i]
             /\ SubSeq(y, i - p, Len(y)) = SubSeq(c, i, Len(c))
<1> DEFINE y == SubSeq(c, p + 1, Len(c))
           l == SubSeq(y, i - p, Len(y))
           r == SubSeq(c, i, Len(c))
<1>1. Len(c) \in Nat /\ p + 1 \in 1..(Len(c) + 1) /\ i \in 1..(Len(c) + 1)
  OBVIOUS
<1>2. /\ y \in Seq(S) /\ Len(y) = Len(c) - (p + 1) + 1
      /\ \A j \in 1..(Len(c) - (p + 1) + 1) : y[j] = c[p + 1 + j - 1]
  BY <1>1, SuffixShape
<1>3. /\ r \in Seq(S) /\ Len(r) = Len(c) - i + 1
      /\ \A j \in 1..(Len(c) - i + 1) : r[j] = c[i + j - 1]
  BY <1>1, SuffixShape
<1> HIDE DEF y, r
<1>4. i - p \in 1..Len(y) /\ i - p \in 1..(Len(y) + 1) /\ i - p \in DOMAIN y
  BY <1>1, <1>2
<1>5. /\ l \in Seq(S) /\ Len(l) = Len(y) - (i - p) + 1
      /\ \A j \in 1..(Len(y) - (i - p) + 1) : l[j] = y[i - p + j - 1]
  BY <1>2, <1>4, SuffixShape
<1> HIDE DEF l
<1>6. y[i - p] = c[i]
  BY <1>1, <1>2
<1>7. l = r
  <2>1. Len(l) = Len(c) - i + 1 /\ Len(l) = Len(r)
    BY <1>1, <1>2, <1>3, <1>5
  <2>2. ASSUME NEW j \in 1..Len(l) PROVE l[j] = r[j]
    <3>1. /\ i - p + j - 1 \in 1..(Len(c) - (p + 1) + 1)
          /\ p + 1 + (i - p + j - 1) - 1 = i + j - 1
      BY <1>1, <2>1
    <3>2. l[j] = y[i - p + j - 1] /\ y[i - p + j - 1] = c[p + 1 + (i - p + j - 1) - 1]
      BY <1>2, <1>5, <3>1
    <3> QED BY <1>3, <2>1, <3>1, <3>2
  <2> QED BY <1>3, <1>5, <2>1, <2>2, SeqEqual
<1> QED BY <1>4, <1>6, <1>7 DEF y, l, r

\* What store_package keeps of c when it stores e: of those that have not
\* expired (y), those of other keys (w), without the n oldest.
Keeps(S, c, e, p, y, w, n) ==
  /\ y \in Seq(S) /\ w \in Seq(S)
  /\ y = SubSeq(c, p + 1, Len(c)) /\ w = Without(y, e.key)
  /\ \A i \in DOMAIN c : c[i].fresh <=> p < i
  /\ KeysDiffer(y) /\ KeysDiffer(w)
  /\ \A i \in DOMAIN w : w[i].fresh /\ w[i].key # e.key
  /\ EnoughRoom(w, n, e.size) /\ NoneSooner(w, n, e.size)

LEMMA StoredShape ==
  ASSUME NEW S, NEW c \in Seq(S), NEW e \in S, ~(e.size > MaxBody),
         KeysDiffer(c), StaleFirst(c)
  PROVE  \E p \in 0..Len(c), y, w \in Seq(S) : \E n \in 0..Len(w) :
           /\ Keeps(S, c, e, p, y, w, n)
           /\ Stored(c, e) = Append(SubSeq(w, n + 1, Len(w)), e)
<1>1. PICK p \in 0..Len(c) :
        /\ Young(c) = SubSeq(c, p + 1, Len(c))
        /\ \A i \in DOMAIN c : c[i].fresh <=> p < i
  BY YoungShape
<1> DEFINE y == Young(c)
           w == Without(y, e.key)
<1>2. p + 1 \in 1..(Len(c) + 1) /\ Len(c) \in Nat /\ p \in Nat
  OBVIOUS
<1>3. /\ y \in Seq(S) /\ Len(y) = Len(c) - (p + 1) + 1
      /\ \A j \in 1..(Len(c) - (p + 1) + 1) : y[j] = c[p + 1 + j - 1]
      /\ KeysDiffer(y)
  BY <1>1, <1>2, SuffixShape, SuffixOrder
<1> HIDE DEF y
<1>4. ASSUME NEW j \in DOMAIN y PROVE y[j].fresh
  <2>1. j \in 1..(Len(c) - (p + 1) + 1) /\ p + 1 + j - 1 \in DOMAIN c /\ p < p + 1 + j - 1
    BY <1>2, <1>3
  <2> QED BY <1>1, <1>3, <2>1
<1>5. /\ w \in Seq(S) /\ KeysDiffer(w)
      /\ \A i \in DOMAIN w : w[i].key # e.key /\ \E j \in DOMAIN y : w[i] = y[j]
  BY <1>3, WithoutOrder
<1>6. \A i \in DOMAIN w : w[i].fresh /\ w[i].key # e.key
  BY <1>4, <1>5
<1>7. w = Without(y, e.key)
  OBVIOUS
<1> HIDE DEF w
<1>8. PICK n \in 0..Len(w) :
        /\ Evict(w, e.size) = SubSeq(w, n + 1, Len(w))
        /\ EnoughRoom(w, n, e.size) /\ NoneSooner(w, n, e.size)
  BY <1>5, EvictShape
<1>9. Keeps(S, c, e, p, y, w, n)
  BY <1>1, <1>3, <1>5, <1>6, <1>7, <1>8 DEF Keeps, y
<1>10. Stored(c, e) = Append(SubSeq(w, n + 1, Len(w)), e)
  BY <1>7, <1>8 DEF Stored, y
<1> QED BY <1>3, <1>5, <1>9, <1>10

\* What is kept, in order, with the new body last.
LEMMA AppendOrder ==
  ASSUME NEW S, NEW v \in Seq(S), NEW e \in S, KeysDiffer(v), e.fresh,
         \A i \in DOMAIN v : v[i].fresh /\ v[i].key # e.key
  PROVE  KeysDiffer(Append(v, e)) /\ StaleFirst(Append(v, e))
<1> DEFINE d == Append(v, e)
           n == Len(v)
<1>1. /\ DOMAIN d = 1..(n + 1) /\ n \in Nat /\ d[n + 1] = e /\ DOMAIN v = 1..n
      /\ \A i \in 1..n : d[i] = v[i]
  BY AppendProperties
<1> HIDE DEF d
<1>2. \A i \in DOMAIN d : i = n + 1 \/ i \in DOMAIN v
  BY <1>1
<1>3. \A i \in DOMAIN d : d[i].fresh
  BY <1>1, <1>2
<1>4. KeysDiffer(d)
  <2> SUFFICES ASSUME NEW i \in DOMAIN d, NEW j \in DOMAIN d, d[i].key = d[j].key
               PROVE  i = j
    BY DEF KeysDiffer
  <2>1. CASE i = n + 1 \/ j = n + 1
    BY <1>1, <1>2, <2>1
  <2>2. CASE i \in DOMAIN v /\ j \in DOMAIN v
    BY <1>1, <2>2 DEF KeysDiffer
  <2> QED BY <1>2, <2>1, <2>2
<1> QED BY <1>3, <1>4 DEF StaleFirst, d

LEMMA StoredOrder ==
  ASSUME NEW S, NEW c \in Seq(S), NEW e \in S, e.fresh, KeysDiffer(c), StaleFirst(c)
  PROVE  KeysDiffer(Stored(c, e)) /\ StaleFirst(Stored(c, e))
<1>1. CASE e.size > MaxBody
  BY <1>1 DEF Stored
<1>2. CASE ~(e.size > MaxBody)
  <2>1. PICK p \in 0..Len(c), y, w \in Seq(S) : \E n \in 0..Len(w) :
          /\ Keeps(S, c, e, p, y, w, n)
          /\ Stored(c, e) = Append(SubSeq(w, n + 1, Len(w)), e)
    BY <1>2, StoredShape
  <2>2. PICK n \in 0..Len(w) :
          /\ Keeps(S, c, e, p, y, w, n)
          /\ Stored(c, e) = Append(SubSeq(w, n + 1, Len(w)), e)
    BY <2>1
  <2> DEFINE v == SubSeq(w, n + 1, Len(w))
  <2>3. n + 1 \in 1..(Len(w) + 1) /\ Len(w) \in Nat
    OBVIOUS
  <2>4. /\ v \in Seq(S) /\ Len(v) = Len(w) - (n + 1) + 1 /\ KeysDiffer(v)
        /\ \A j \in 1..(Len(w) - (n + 1) + 1) : v[j] = w[n + 1 + j - 1]
    BY <2>2, <2>3, SuffixShape, SuffixOrder DEF Keeps
  <2> HIDE DEF v
  <2>5. ASSUME NEW i \in DOMAIN v PROVE v[i].fresh /\ v[i].key # e.key
    <3>1. i \in 1..(Len(w) - (n + 1) + 1) /\ n + 1 + i - 1 \in DOMAIN w
      BY <2>3, <2>4
    <3> QED BY <2>2, <2>4, <3>1 DEF Keeps
  <2> QED BY <2>2, <2>4, <2>5, AppendOrder DEF v
<1> QED BY <1>1, <1>2

LEMMA ExpiredOrder ==
  ASSUME NEW S, NEW c \in Seq(S), HasFresh(c), KeysDiffer(c), StaleFirst(c),
         \A e \in S : e = [key |-> e.key, stamp |-> e.stamp, body |-> e.body,
                           size |-> e.size, fresh |-> e.fresh]
  PROVE  /\ KeysDiffer(Expired(c)) /\ StaleFirst(Expired(c))
         /\ DOMAIN Expired(c) = DOMAIN c
         /\ \A j \in DOMAIN c :
              Expired(c)[j].key = c[j].key /\ Expired(c)[j].size = c[j].size
<1>1. PICK i \in DOMAIN c :
        /\ Expired(c) = [c EXCEPT ![i].fresh = FALSE]
        /\ \A m \in DOMAIN c : m < i => ~c[m].fresh
  BY ExpiredShape
<1> DEFINE d == Expired(c)
<1>2. /\ DOMAIN d = DOMAIN c /\ DOMAIN c \subseteq Int
      /\ \A j \in DOMAIN c : j # i => d[j] = c[j]
      /\ d[i] = [c[i] EXCEPT !.fresh = FALSE] /\ c[i] \in S
  BY <1>1
<1>3. d[i].key = c[i].key /\ d[i].size = c[i].size /\ ~d[i].fresh
  BY <1>2
<1> HIDE DEF d
<1>4. \A j \in DOMAIN c : d[j].key = c[j].key /\ d[j].size = c[j].size
  BY <1>2, <1>3
<1>5. KeysDiffer(d)
  BY <1>2, <1>4 DEF KeysDiffer
<1>6. StaleFirst(d)
  <2> SUFFICES ASSUME NEW a \in DOMAIN d, NEW b \in DOMAIN d, a < b, d[a].fresh
               PROVE  d[b].fresh
    BY DEF StaleFirst
  <2>1. a # i /\ c[a].fresh
    BY <1>2, <1>3
  <2>2. c[b].fresh
    BY <1>2, <2>1 DEF StaleFirst
  <2>3. ~(a < i) /\ b # i
    BY <1>1, <1>2, <2>1
  <2> QED BY <1>2, <2>2, <2>3
<1> QED BY <1>2, <1>4, <1>5, <1>6 DEF d

-----------------------------------------------------------------------------
(* The bytes in the cache. TotalBytes is a fold, which is a recursive       *)
(* function on the sets of indices; that there is such a function, and one  *)
(* only, is proved for larger and larger sets.                              *)

\* g[s] is the sum of the sizes of c's entries in s, for all s in 1..n.
Sums(g, c, n) ==
  g = [s \in SUBSET (1..n) |->
         IF s = {} THEN 0 ELSE g[s \ {Max(s)}] + c[Max(s)].size]

\* A set of indices is empty, has n as its last, or ends earlier.
LEMMA LastIndex ==
  ASSUME NEW n \in Nat, NEW s \in SUBSET (1..(n + 1))
  PROVE  /\ n + 1 \in s => Max(s) = n + 1 /\ s \ {n + 1} \in SUBSET (1..n)
         /\ n + 1 \notin s => s \in SUBSET (1..n)
         /\ s # {} => Max(s) \in s
<1>1. s # {} => Max(s) \in s /\ \A x \in s : x <= Max(s)
  BY MaxBounds, n + 1 \in Nat, s \subseteq 0..(n + 1)
<1>2. ASSUME n + 1 \in s PROVE Max(s) = n + 1
  <2>1. Max(s) \in 1..(n + 1) /\ n + 1 <= Max(s)
    BY <1>1, <1>2
  <2> QED BY <2>1
<1> QED BY <1>1, <1>2

LEMMA SumsExist ==
  ASSUME NEW c, NEW k \in Nat PROVE \E g : Sums(g, c, k)
<1> DEFINE Bad == {n \in 0..k : ~\E g : Sums(g, c, n)}
<1> SUFFICES ASSUME Bad # {} PROVE FALSE
  OBVIOUS
<1>1. PICK n \in Bad : \A m \in Bad : n <= m
  <2>1. Bad \subseteq 0..k
    OBVIOUS
  <2> HIDE DEF Bad
  <2> QED BY <2>1, LeastNumber
<1>2. n \in 0..k /\ ~\E g : Sums(g, c, n)
  OBVIOUS
<1>3. CASE n = 0
  <2> DEFINE g == [s \in SUBSET (1..0) |-> 0]
  <2>1. \A s \in SUBSET (1..0) : s = {}
    OBVIOUS
  <2>2. Sums(g, c, 0)
    BY <2>1 DEF Sums
  <2> QED BY <1>2, <1>3, <2>2
<1>4. CASE n # 0
  <2> DEFINE m == n - 1
  <2>1. m \in 0..k /\ m \in Nat /\ n = m + 1 /\ ~(n <= m)
    BY <1>2, <1>4
  <2>2. PICK g : Sums(g, c, m)
    BY <1>1, <2>1
  <2> HIDE DEF m, Bad
  <2> DEFINE h == [s \in SUBSET (1..n) |->
                     IF n \in s THEN g[s \ {n}] + c[n].size ELSE g[s]]
  <2>3. ASSUME NEW s \in SUBSET (1..n)
        PROVE  h[s] = IF s = {} THEN 0 ELSE h[s \ {Max(s)}] + c[Max(s)].size
    <3>1. CASE n \in s
      <4>1. Max(s) = n /\ s \ {n} \in SUBSET (1..m) /\ s \ {n} \in SUBSET (1..n)
        BY <2>1, <3>1, LastIndex
      <4> QED BY <3>1, <4>1
    <3>2. CASE n \notin s
      <4>1. s \in SUBSET (1..m) /\ (s # {} => Max(s) \in s)
        BY <2>1, <3>2, LastIndex
      <4>2. g[s] = IF s = {} THEN 0 ELSE g[s \ {Max(s)}] + c[Max(s)].size
        BY <2>2, <4>1 DEF Sums
      <4>3. h[s] = g[s] /\ h[s \ {Max(s)}] = g[s \ {Max(s)}]
        BY <3>2
      <4> QED BY <4>2, <4>3
    <3> QED BY <3>1, <3>2
  <2>4. Sums(h, c, n)
    <3>1. h = [s \in SUBSET (1..n) |-> h[s]]
      OBVIOUS
    <3> HIDE DEF h
    <3> QED BY <2>3, <3>1 DEF Sums
  <2> QED BY <1>2, <2>4
<1> QED BY <1>3, <1>4

SameSizes(c, d, n) == \A i \in 1..n : c[i].size = d[i].size
NoLonger(n, k) == k \in Nat /\ n \in 0..k

\* Sums depend on nothing but the sizes.
LEMMA SumsAgree ==
  ASSUME NEW c, NEW d, NEW k, NEW n, NoLonger(n, k),
         SameSizes(c, d, n), NEW g, NEW h, Sums(g, c, k), Sums(h, d, n)
  PROVE  \A s \in SUBSET (1..n) : g[s] = h[s]
<1> DEFINE Bad == {m \in 0..n : \E s \in SUBSET (1..m) : g[s] # h[s]}
<1> SUFFICES ASSUME Bad # {} PROVE FALSE
  BY n \in 0..n DEF NoLonger
<1>1. k \in Nat /\ n \in 0..k /\ n \in Nat /\ Bad \subseteq 0..n
  BY DEF NoLonger
<1>2. PICK m \in Bad : \A l \in Bad : m <= l
  <2> HIDE DEF Bad
  <2> QED BY <1>1, LeastNumber
<1>3. PICK s \in SUBSET (1..m) : g[s] # h[s]
  OBVIOUS
<1>4. s \in SUBSET (1..n) /\ s \in SUBSET (1..k) /\ m \in 0..n
  BY <1>1
<1>5. s # {} /\ m # 0
  <2>1. g[{}] = 0 /\ h[{}] = 0
    BY DEF Sums
  <2>2. m = 0 => s = {}
    BY 1..0 = {}
  <2> QED BY <1>3, <2>1, <2>2
<1> DEFINE p == m - 1
<1>6. p \in 0..n /\ p \in Nat /\ m = p + 1 /\ ~(m <= p)
  BY <1>1, <1>4, <1>5
<1>7. \A r \in SUBSET (1..p) : g[r] = h[r]
  <2>1. p \notin Bad
    <3> HIDE DEF Bad, p
    <3> QED BY <1>2, <1>6
  <2> HIDE DEF p
  <2> QED BY <1>6, <2>1
<1> HIDE DEF p, Bad
<1>8. m \in s /\ Max(s) = m /\ s \ {m} \in SUBSET (1..p)
  <2>1. s \in SUBSET (1..(p + 1))
    BY <1>3, <1>6
  <2> QED BY <1>3, <1>6, <1>7, <2>1, LastIndex
<1>9. g[s \ {m}] = h[s \ {m}] /\ c[m].size = d[m].size
  BY <1>4, <1>7, <1>8 DEF SameSizes
<1>10. g[s] = g[s \ {m}] + c[m].size /\ h[s] = h[s \ {m}] + d[m].size
  BY <1>4, <1>5, <1>8 DEF Sums
<1> QED BY <1>3, <1>9, <1>10

LEMMA TotalIsSum ==
  ASSUME NEW S, NEW c \in Seq(S), NEW g, Sums(g, c, Len(c))
  PROVE  TotalBytes(c) = g[1..Len(c)]
<1> DEFINE h == CHOOSE h : Sums(h, c, Len(c))
<1>1. TotalBytes(c) = h[1..Len(c)]
  BY DOMAIN c = 1..Len(c) DEF TotalBytes, FoldLeft, MapThenFoldSet, Sums
<1>2. Sums(h, c, Len(c))
  <2> HIDE DEF Sums
  <2> QED OBVIOUS
<1>3. Len(c) \in Nat /\ NoLonger(Len(c), Len(c)) /\ SameSizes(c, c, Len(c))
  BY DEF SameSizes, NoLonger
<1> HIDE DEF h
<1>4. \A s \in SUBSET (1..Len(c)) : g[s] = h[s]
  BY <1>2, <1>3, SumsAgree
<1> QED BY <1>1, <1>4

LEMMA EmptyTotal == TotalBytes(<<>>) = 0
<1>1. PICK g : Sums(g, <<>>, 0)
  BY SumsExist
<1>2. TotalBytes(<<>>) = g[{}]
  <2>1. <<>> \in Seq({}) /\ Len(<<>>) = 0 /\ 1..0 = {}
    OBVIOUS
  <2> QED BY <1>1, <2>1, TotalIsSum
<1> QED BY <1>1, <1>2 DEF Sums

LEMMA AppendTotal ==
  ASSUME NEW S, NEW c \in Seq(S), NEW e \in S
  PROVE  TotalBytes(Append(c, e)) = TotalBytes(c) + e.size
<1> DEFINE d == Append(c, e)
           n == Len(c)
<1>1. /\ d \in Seq(S) /\ Len(d) = n + 1 /\ n \in Nat /\ d[n + 1] = e
      /\ \A i \in 1..n : d[i] = c[i]
  BY AppendProperties
<1> HIDE DEF d
<1>2. PICK g : Sums(g, c, n)
  BY <1>1, SumsExist
<1>3. PICK h : Sums(h, d, n + 1)
  <2>1. n + 1 \in Nat
    BY <1>1
  <2> QED BY <2>1, SumsExist
<1>4. TotalBytes(c) = g[1..n] /\ TotalBytes(d) = h[1..(n + 1)]
  BY <1>1, <1>2, <1>3, TotalIsSum
<1> HIDE DEF n
<1>5. Max(1..(n + 1)) = n + 1 /\ (1..(n + 1)) \ {n + 1} = 1..n /\ 1..(n + 1) # {}
  <2> DEFINE s == 1..(n + 1)
  <2>1. n + 1 \in s /\ s \ {n + 1} = 1..n /\ s \in SUBSET (1..(n + 1))
    BY <1>1
  <2>2. Max(s) = n + 1
    <3> HIDE DEF s
    <3> QED BY <1>1, <2>1, LastIndex
  <2> QED BY <2>1, <2>2
<1>6. h[1..(n + 1)] = h[1..n] + e.size
  <2> DEFINE s == 1..(n + 1)
  <2>1. s \in SUBSET (1..(n + 1)) /\ s # {} /\ Max(s) = n + 1 /\ s \ {n + 1} = 1..n
    BY <1>5
  <2>2. h[s] = h[s \ {Max(s)}] + d[Max(s)].size
    <3> HIDE DEF s
    <3> QED BY <1>3, <2>1 DEF Sums
  <2> HIDE DEF s
  <2>3. h[s] = h[1..n] + e.size
    BY <1>1, <2>1, <2>2
  <2> QED BY <2>3 DEF s
<1>7. h[1..n] = g[1..n]
  <2>1. /\ n + 1 \in Nat /\ NoLonger(n, n + 1) /\ 1..n \in SUBSET (1..n)
        /\ SameSizes(d, c, n)
    BY <1>1 DEF SameSizes, NoLonger
  <2>2. \A s \in SUBSET (1..n) : h[s] = g[s]
    BY <1>2, <1>3, <2>1, SumsAgree
  <2> QED BY <2>1, <2>2
<1> QED BY <1>4, <1>6, <1>7 DEF d

\* The total does not depend on which entries have expired.
LEMMA SameTotal ==
  ASSUME NEW S, NEW c \in Seq(S), NEW d \in Seq(S), Len(c) = Len(d),
         SameSizes(c, d, Len(c))
  PROVE  TotalBytes(c) = TotalBytes(d)
<1> DEFINE n == Len(c)
<1>1. /\ n \in Nat /\ NoLonger(n, n) /\ Len(d) = n /\ 1..n \in SUBSET (1..n)
      /\ SameSizes(c, d, n)
  BY DEF NoLonger
<1>2. PICK g : Sums(g, c, n)
  BY <1>1, SumsExist
<1>3. PICK h : Sums(h, d, n)
  BY <1>1, SumsExist
<1>4. TotalBytes(c) = g[1..n] /\ TotalBytes(d) = h[1..n]
  BY <1>1, <1>2, <1>3, TotalIsSum
<1>5. \A s \in SUBSET (1..n) : g[s] = h[s]
  <2> HIDE DEF n
  <2> QED BY <1>1, <1>2, <1>3, SumsAgree
<1> QED BY <1>1, <1>4, <1>5

-----------------------------------------------------------------------------
(* The cache in order and within its limits, whatever is written to the rows. *)

\* What the cache holds.
Entries == [key : Keys, stamp : Stamps, body : Bodies, size : Sizes, fresh : BOOLEAN]

LEMMA RowsStayRows ==
  ASSUME xmin \in Bodies, [DBNext]_dbVars PROVE xmin' \in Bodies
<1>1. CASE \E tx \in 1..MaxTx : CommitTx(tx)
  <2>1. PICK tx \in 1..MaxTx : CommitTx(tx)
    BY <1>1
  <2>2. PICK up \in [Tables -> SUBSET Rows], del \in [Tables -> SUBSET Rows] :
          xmin' = [t \in Tables |-> Written(xmin[t], tx, up[t], del[t])]
    BY <2>1 DEF CommitTx
  <2>3. \A t \in Tables : Written(xmin[t], tx, up[t], del[t]) \in Contents
    BY FreshnessAssumption DEF Written, Bodies, Contents, Absent
  <2> QED BY <2>2, <2>3 DEF Bodies
<1> QED BY <1>1 DEF DBNext, BeginTx, dbVars

\* The cache in order: its own invariant, whatever is written to the rows.
CacheInv ==
  /\ xmin \in Bodies /\ cache \in Seq(Entries)
  /\ KeysDiffer(cache) /\ StaleFirst(cache) /\ WithinLimits

\* What a store leaves is within the limits.
LEMMA StoredFits ==
  ASSUME NEW c \in Seq(Entries), NEW e \in Entries, KeysDiffer(c), StaleFirst(c),
         ~(e.size > MaxBody)
  PROVE  Len(Stored(c, e)) <= MaxEntries /\ TotalBytes(Stored(c, e)) <= MaxBytes
<1>1. PICK p \in 0..Len(c), y, w \in Seq(Entries) : \E n \in 0..Len(w) :
        /\ Keeps(Entries, c, e, p, y, w, n)
        /\ Stored(c, e) = Append(SubSeq(w, n + 1, Len(w)), e)
  BY StoredShape
<1>2. PICK n \in 0..Len(w) :
        /\ Keeps(Entries, c, e, p, y, w, n)
        /\ Stored(c, e) = Append(SubSeq(w, n + 1, Len(w)), e)
  BY <1>1
<1> DEFINE v == SubSeq(w, n + 1, Len(w))
<1>3. v \in Seq(Entries) /\ Len(v) = Len(w) - (n + 1) + 1 /\ Len(w) \in Nat
  <2>1. n + 1 \in 1..(Len(w) + 1) /\ Len(w) \in Nat
    OBVIOUS
  <2> QED BY <2>1, SuffixShape
<1>4. n = Len(w) \/ Fits(v, e.size)
  BY <1>2 DEF Keeps, EnoughRoom
<1> HIDE DEF v
<1>5. Len(Append(v, e)) = Len(v) + 1 /\ TotalBytes(Append(v, e)) = TotalBytes(v) + e.size
  BY <1>3, AppendProperties, AppendTotal
<1>6. e.size \in Nat /\ e.size <= MaxBody
  <2>1. e.size \in Nat /\ MaxBody \in Nat
    BY SizesAssumption, CacheAssumption DEF Entries
  <2> QED BY <2>1
<1>7. CASE n = Len(w)
  <2>1. Len(v) = 0
    BY <1>3, <1>7
  <2>2. v = <<>>
    BY <1>3, <2>1, EmptySeq
  <2>3. TotalBytes(v) = 0
    BY <2>2, EmptyTotal
  <2> QED BY <1>2, <1>5, <1>6, <2>1, <2>3, CacheAssumption DEF v
<1>8. CASE Fits(v, e.size)
  <2>1. Len(v) < MaxEntries /\ TotalBytes(v) + e.size <= MaxBytes
    BY <1>8 DEF Fits
  <2>2. Len(v) + 1 <= MaxEntries
    BY <1>3, <2>1, CacheAssumption
  <2> QED BY <1>2, <1>5, <2>1, <2>2 DEF v
<1> QED BY <1>4, <1>7, <1>8

LEMMA CacheBegins == CacheInit => CacheInv
<1> SUFFICES ASSUME CacheInit PROVE CacheInv
  OBVIOUS
<1>1. xmin \in Bodies
  BY FreshnessAssumption DEF CacheInit, DBInit, Bodies, Contents, Absent, LoadTx
<1>2. cache \in Seq(Entries) /\ KeysDiffer(cache) /\ StaleFirst(cache) /\ Len(cache) = 0
  BY DEF CacheInit, KeysDiffer, StaleFirst
<1>3. TotalBytes(cache) = 0
  BY EmptyTotal DEF CacheInit
<1> QED BY <1>1, <1>2, <1>3, CacheAssumption DEF CacheInv, WithinLimits

\* A store keeps the invariant, whoever stores.
LEMMA StoreKeepsInv ==
  ASSUME CacheInv, NEW e \in Entries, e.fresh, cache' = Stored(cache, e), xmin' = xmin
  PROVE  CacheInv'
<1> USE DEF CacheInv
<1>1. cache' \in Seq(Entries) /\ KeysDiffer(cache') /\ StaleFirst(cache')
  BY StoredIn, StoredOrder
<1>2. CASE e.size > MaxBody
  <2>1. cache' = cache
    BY <1>2 DEF Stored
  <2> QED BY <1>1, <2>1 DEF WithinLimits
<1>3. CASE ~(e.size > MaxBody)
  <2>1. Len(cache') <= MaxEntries /\ TotalBytes(cache') <= MaxBytes
    BY <1>3, StoredFits
  <2> QED BY <1>1, <2>1 DEF WithinLimits
<1> QED BY <1>2, <1>3

\* So does an entry that grows too old.
LEMMA ExpiryKeepsInv ==
  ASSUME CacheInv, Outlive PROVE CacheInv'
<1> USE DEF CacheInv
<1>0. \A e \in Entries : [e EXCEPT !.fresh = FALSE] \in Entries
  BY DEF Entries
<1>1. \A e \in Entries : e = [key |-> e.key, stamp |-> e.stamp, body |-> e.body,
                              size |-> e.size, fresh |-> e.fresh]
  BY DEF Entries
<1>2. cache' \in Seq(Entries)
  BY <1>0, ExpiredIn DEF Outlive
<1>3. /\ KeysDiffer(cache') /\ StaleFirst(cache') /\ DOMAIN cache' = DOMAIN cache
      /\ \A j \in DOMAIN cache : cache'[j].size = cache[j].size
  BY <1>1, ExpiredOrder DEF Outlive
<1>4. Len(cache') = Len(cache) /\ SameSizes(cache', cache, Len(cache'))
  BY <1>2, <1>3 DEF SameSizes
<1>5. TotalBytes(cache') = TotalBytes(cache)
  BY <1>2, <1>4, SameTotal
<1> QED BY <1>2, <1>3, <1>4, <1>5 DEF Outlive, dbVars, WithinLimits

LEMMA CacheSteps ==
  ASSUME CacheInv, [CacheNext]_cacheVars PROVE CacheInv'
<1>1. CASE UNCHANGED cache /\ [DBNext]_dbVars
  BY <1>1, RowsStayRows DEF CacheInv, WithinLimits
<1>2. ASSUME NEW k \in Keys, Refresh(k) PROVE CacheInv'
  <2>1. PICK size \in Sizes : cache' = Stored(cache, Entry(k, Stamp, xmin, size))
    BY <1>2 DEF Refresh
  <2>2. Entry(k, Stamp, xmin, size) \in Entries /\ Entry(k, Stamp, xmin, size).fresh
    BY StampOfBody DEF Entry, Entries, CacheInv
  <2>3. xmin' = xmin
    BY <1>2 DEF Refresh, dbVars
  <2> QED BY <2>1, <2>2, <2>3, StoreKeepsInv
<1> QED BY <1>1, <1>2, ExpiryKeepsInv DEF CacheNext, Rewrite, cacheVars

\* The cache never holds more entries or bytes than its limits, for any keys,
\* sizes, limits and writes (store_package).
THEOREM CacheWithinLimits == CacheSpec => []WithinLimits
<1>1. CacheSpec => []CacheInv
  BY CacheBegins, CacheSteps, PTL DEF CacheSpec
<1>2. CacheInv => WithinLimits
  BY DEF CacheInv
<1> QED BY <1>1, <1>2, PTL

\* A store evicts a body that has not expired only for room: with it and what
\* is younger than it, the new one would not fit.
LEMMA StoreEvictsForRoom ==
  ASSUME NEW c \in Seq(Entries), NEW e \in Entries, ~(e.size > MaxBody),
         KeysDiffer(c), StaleFirst(c), NEW i \in DOMAIN c, c[i].fresh,
         c[i].key \notin {x.key : x \in ToSet(Stored(c, e))}
  PROVE  Last(Stored(c, e)) = e /\ ~Fits(Without(SubSeq(c, i, Len(c)), e.key), e.size)
<1>1. PICK p \in 0..Len(c), y, w \in Seq(Entries) : \E n \in 0..Len(w) :
        /\ Keeps(Entries, c, e, p, y, w, n)
        /\ Stored(c, e) = Append(SubSeq(w, n + 1, Len(w)), e)
  BY StoredShape
<1>2. PICK n \in 0..Len(w) :
        /\ Keeps(Entries, c, e, p, y, w, n)
        /\ Stored(c, e) = Append(SubSeq(w, n + 1, Len(w)), e)
  BY <1>1
<1> DEFINE v == SubSeq(w, n + 1, Len(w))
           d == Append(v, e)
<1>3. /\ v \in Seq(Entries) /\ Len(v) = Len(w) - (n + 1) + 1 /\ Len(w) \in Nat
      /\ \A j \in 1..(Len(w) - (n + 1) + 1) : v[j] = w[n + 1 + j - 1]
  <2>1. n + 1 \in 1..(Len(w) + 1) /\ Len(w) \in Nat
    OBVIOUS
  <2> QED BY <2>1, SuffixShape
<1> HIDE DEF v
<1>4. /\ d \in Seq(Entries) /\ Len(d) = Len(v) + 1 /\ d[Len(v) + 1] = e
      /\ \A j \in 1..Len(v) : d[j] = v[j]
  BY <1>3, AppendProperties
<1> HIDE DEF d
<1>5. \A j \in DOMAIN d : c[i].key # d[j].key
  BY <1>2 DEF ToSet, d, v
<1>6. Last(d) = e /\ c[i].key # e.key
  <2>1. Len(d) \in DOMAIN d /\ d[Len(d)] = e
    BY <1>3, <1>4
  <2> QED BY <1>5, <2>1 DEF Last
<1>7. /\ i - p \in DOMAIN y /\ y[i - p] = c[i]
      /\ SubSeq(y, i - p, Len(y)) = SubSeq(c, i, Len(c))
  <2>1. i \in (p + 1)..Len(c) /\ y = SubSeq(c, p + 1, Len(c))
    <3>1. p < i /\ i \in 1..Len(c) /\ p \in Nat /\ Len(c) \in Nat
      BY <1>2 DEF Keeps
    <3> QED BY <1>2, <3>1 DEF Keeps
  <2> QED BY <2>1, SuffixSuffix
<1>8. PICK m \in DOMAIN w :
        /\ w[m] = c[i]
        /\ SubSeq(w, m, Len(w)) = Without(SubSeq(c, i, Len(c)), e.key)
  <2> DEFINE j == i - p
  <2>1. /\ y \in Seq(Entries) /\ j \in DOMAIN y /\ y[j].key # e.key
        /\ KeysDiffer(y) /\ w = Without(y, e.key)
    BY <1>2, <1>6, <1>7 DEF Keeps
  <2> HIDE DEF j
  <2> DEFINE key == e.key
  <2>2. y[j].key # key /\ w = Without(y, key)
    BY <2>1
  <2> HIDE DEF key
  <2>3. \E m \in DOMAIN Without(y, key) :
          /\ Without(y, key)[m] = y[j]
          /\ SubSeq(Without(y, key), m, Len(Without(y, key)))
               = Without(SubSeq(y, j, Len(y)), key)
    BY <2>1, <2>2, SuffixWithout
  <2> QED BY <1>7, <2>2, <2>3 DEF j, key
<1>9. m <= n
  <2> SUFFICES ASSUME ~(m <= n) PROVE FALSE
    OBVIOUS
  <2>0. m \in 1..Len(w) /\ n \in Nat /\ n < m
    OBVIOUS
  <2>1. /\ m - n \in 1..(Len(w) - (n + 1) + 1) /\ m - n \in 1..Len(v) /\ m - n \in DOMAIN d
        /\ n + 1 + (m - n) - 1 = m
    <3>1. m \in Int /\ m <= Len(w) /\ Len(w) \in Int /\ n + 1 + (m - n) - 1 = m
      BY <2>0
    <3>2. m - n \in 1..(Len(w) - (n + 1) + 1)
      BY <2>0, <3>1
    <3>3. m - n \in 1..Len(v) /\ Len(v) \in Nat
      BY <1>3, <3>2
    <3> QED BY <1>4, <3>1, <3>2, <3>3
  <2>2. d[m - n] = v[m - n] /\ v[m - n] = w[n + 1 + (m - n) - 1]
    BY <1>3, <1>4, <2>1
  <2>3. d[m - n] = c[i]
    BY <1>8, <2>1, <2>2
  <2> QED BY <1>5, <2>1, <2>3
<1>10. ~Fits(SubSeq(w, m, Len(w)), e.size)
  <2>1. m - 1 \in 0..(n - 1) /\ (m - 1) + 1 = m
    BY <1>9
  <2>2. ~Fits(SubSeq(w, (m - 1) + 1, Len(w)), e.size)
    BY <1>2, <2>1 DEF Keeps, NoneSooner
  <2> QED BY <2>1, <2>2
<1> QED BY <1>2, <1>6, <1>8, <1>10 DEF d, v

\* A change of the cache that evicts only for room.
ForRoom ==
  \A i \in DOMAIN cache :
    LET keysLeft == {e.key : e \in ToSet(cache')}
        new == Last(cache')
        kept == Without(SubSeq(cache, i, Len(cache)), new.key)
    IN  cache[i].fresh /\ cache[i].key \notin keysLeft => ~Fits(kept, new.size)

LEMMA StoreIsForRoom ==
  ASSUME CacheInv, NEW e \in Entries, cache' = Stored(cache, e) PROVE [ForRoom]_cache
<1>1. CASE e.size > MaxBody
  BY <1>1 DEF Stored
<1>2. CASE ~(e.size > MaxBody)
  BY <1>2, StoreEvictsForRoom DEF CacheInv, ForRoom
<1> QED BY <1>1, <1>2

LEMMA ExpiryIsForRoom ==
  ASSUME CacheInv, Outlive PROVE ForRoom
<1>1. \A e \in Entries : e = [key |-> e.key, stamp |-> e.stamp, body |-> e.body,
                              size |-> e.size, fresh |-> e.fresh]
  BY DEF Entries
<1>2. /\ DOMAIN cache' = DOMAIN cache
      /\ \A j \in DOMAIN cache : cache'[j].key = cache[j].key
  BY <1>1, ExpiredOrder DEF Outlive, CacheInv
<1>3. \A i \in DOMAIN cache : cache[i].key \in {e.key : e \in ToSet(cache')}
  BY <1>2 DEF ToSet
<1> QED BY <1>3 DEF ForRoom

\* store_package evicts no more than it must, for any keys, sizes and limits.
THEOREM NoNeedlessEviction == CacheSpec => EvictsOnlyForRoom
<1>1. ASSUME CacheInv, [CacheNext]_cacheVars PROVE [ForRoom]_cache
  <2>1. ASSUME NEW k \in Keys, Refresh(k) PROVE [ForRoom]_cache
    <3>1. PICK size \in Sizes : cache' = Stored(cache, Entry(k, Stamp, xmin, size))
      BY <2>1 DEF Refresh
    <3>2. Entry(k, Stamp, xmin, size) \in Entries
      BY <1>1, StampOfBody DEF Entry, Entries, CacheInv
    <3> QED BY <1>1, <3>1, <3>2, StoreIsForRoom
  <2> QED BY <1>1, <2>1, ExpiryIsForRoom DEF CacheNext, Rewrite, cacheVars
<1>2. CacheSpec => []CacheInv
  BY CacheBegins, CacheSteps, PTL DEF CacheSpec
<1>3. CacheSpec => [][ForRoom]_cache
  BY <1>1, <1>2, PTL DEF CacheSpec
<1> QED BY <1>3 DEF EvictsOnlyForRoom, ForRoom

-----------------------------------------------------------------------------
(* The stamp as a key. *)

\* Every commit that changes the rows changes the stamp, however many writes
\* came before it, if the meet has one writer at a time (FRESHNESS_SQL).
THEOREM WritesChangeStamp == Serialized => (CacheSpec => EveryWriteChangesStamp)
<1> SUFFICES ASSUME Serialized PROVE CacheSpec => EveryWriteChangesStamp
  OBVIOUS
<1>1. [CacheNext]_cacheVars => [DBNext]_dbVars
  BY DEF CacheNext, Rewrite, Refresh, Outlive, cacheVars, dbVars
<1>2. CacheInit => RowsAreSettled
  BY RowsBeginSettled DEF CacheInit
<1>3. RowsAreSettled /\ [DBNext]_dbVars =>
        /\ RowsAreSettled'
        /\ [xmin' # xmin => StampOf(xmin') # StampOf(xmin)]_dbVars
  BY RowsStaySettled
<1> QED BY <1>1, <1>2, <1>3, PTL DEF CacheSpec, EveryWriteChangesStamp

\* What a table may have held before: what is there now and was written then
\* is as it was.
Ancestors(t) ==
  {f \in Contents :
     /\ Newest(f) < nextTx /\ \A tx \in open : Newest(f) < tx
     /\ \A r \in Rows : xmin[t][r] \in 1..Newest(f) => xmin[t][r] = f[r]}

LEMMA RowsAreTheirAncestors ==
  ASSUME RowsAreSettled, NEW t \in Tables PROVE xmin[t] \in Ancestors(t)
<1>1. xmin[t] \in Contents /\ nextTx \in 1..(MaxTx + 1) /\ MaxTx \in Nat
  BY FreshnessAssumption DEF RowsAreSettled
<1>2. Newest(xmin[t]) = 0 \/ \E r \in Rows : xmin[t][r] = Newest(xmin[t])
  BY <1>1, NewestBounds
<1>3. Newest(xmin[t]) < nextTx /\ \A tx \in open : Newest(xmin[t]) < tx
  BY <1>1, <1>2 DEF RowsAreSettled
<1> QED BY <1>1, <1>3 DEF Ancestors

LEMMA AncestorsStay ==
  ASSUME Serialized, RowsAreSettled, [DBNext]_dbVars, NEW t \in Tables
  PROVE  Ancestors(t) \subseteq Ancestors(t)'
<1> SUFFICES ASSUME NEW f \in Ancestors(t) PROVE f \in Ancestors(t)'
  OBVIOUS
<1>1. f \in Contents /\ Newest(f) \in 0..MaxTx /\ MaxTx \in Nat
  BY NewestBounds, FreshnessAssumption DEF Ancestors
<1>2. CASE UNCHANGED dbVars
  BY <1>2 DEF Ancestors, dbVars
<1>3. CASE BeginTx
  <2>1. open = {}
    BY <1>3, Zenon DEF BeginTx
  <2>2. open' = {nextTx} /\ nextTx' = nextTx + 1 /\ xmin' = xmin /\ nextTx \in Nat
    BY <1>3, <2>1, FreshnessAssumption DEF BeginTx, RowsAreSettled
  <2>3. Newest(f) < nextTx' /\ \A tx \in open' : Newest(f) < tx
    BY <1>1, <2>2 DEF Ancestors
  <2> QED BY <2>2, <2>3 DEF Ancestors
<1>4. ASSUME NEW tx \in 1..MaxTx, CommitTx(tx) PROVE f \in Ancestors(t)'
  <2>1. PICK up \in [Tables -> SUBSET Rows], del \in [Tables -> SUBSET Rows] :
          xmin' = [u \in Tables |-> Written(xmin[u], tx, up[u], del[u])]
    BY <1>4 DEF CommitTx
  <2>2. tx \in open /\ open' \subseteq open /\ nextTx' = nextTx
    BY <1>4 DEF CommitTx
  <2>3. Newest(f) < tx
    BY <2>2 DEF Ancestors
  <2>4. \A r \in Rows : xmin'[t][r] = tx \/ xmin'[t][r] = 0 \/ xmin'[t][r] = xmin[t][r]
    BY <2>1 DEF Written, Absent
  <2>5. \A r \in Rows : xmin'[t][r] \in 1..Newest(f) => xmin'[t][r] = f[r]
    BY <1>1, <2>3, <2>4 DEF Ancestors
  <2> QED BY <2>2, <2>5 DEF Ancestors
<1> QED BY <1>2, <1>3, <1>4 DEF DBNext

\* An entry's stamp is its body's, and the meet had that body.
Loyal ==
  {e \in Entries :
     e.stamp = StampOf(e.body) /\ \A t \in Tables : e.body[t] \in Ancestors(t)}

LoyalInv == RowsAreSettled /\ cache \in Seq(Loyal)

LEMMA LoyalStay ==
  ASSUME Serialized, RowsAreSettled, [DBNext]_dbVars PROVE Loyal \subseteq Loyal'
<1>1. \A t \in Tables : Ancestors(t) \subseteq Ancestors(t)'
  BY AncestorsStay
<1> QED BY <1>1 DEF Loyal

LEMMA CacheStaysLoyal ==
  ASSUME Serialized, LoyalInv, [CacheNext]_cacheVars PROVE LoyalInv'
<1>1. RowsAreSettled' /\ Loyal \subseteq Loyal'
  <2>1. [DBNext]_dbVars
    BY DEF CacheNext, Rewrite, Refresh, Outlive, cacheVars, dbVars
  <2> QED BY <2>1, RowsStaySettled, LoyalStay DEF LoyalInv
<1>2. cache' \in Seq(Loyal)
  <2>1. ASSUME NEW k \in Keys, Refresh(k) PROVE cache' \in Seq(Loyal)
    <3>1. PICK size \in Sizes : cache' = Stored(cache, Entry(k, Stamp, xmin, size))
      BY <2>1 DEF Refresh
    <3>2. xmin \in Bodies /\ Stamp = StampOf(xmin) /\ \A t \in Tables : xmin[t] \in Ancestors(t)
      BY RowsAreTheirAncestors DEF LoyalInv, RowsAreSettled, Bodies, Stamp
    <3>3. Entry(k, Stamp, xmin, size) \in Loyal
      BY <3>2, StampOfBody DEF Entry, Entries, Loyal
    <3> QED BY <3>1, <3>3, StoredIn DEF LoyalInv
  <2>2. CASE Outlive
    <3>1. \A e \in Loyal : [e EXCEPT !.fresh = FALSE] \in Loyal
      BY DEF Loyal, Entries
    <3> QED BY <2>2, <3>1, ExpiredIn DEF Outlive, LoyalInv
  <2>3. CASE UNCHANGED cache
    BY <2>3 DEF LoyalInv
  <2> QED BY <2>1, <2>2, <2>3 DEF CacheNext, Rewrite, cacheVars
<1> QED BY <1>1, <1>2, SeqOfMore DEF LoyalInv

\* What is cached under the stamp of now holds the rows of now, from however
\* many writes ago, if the meet has one writer at a time (cached_package).
THEOREM CachedUnderStampIsCurrent == Serialized => (CacheSpec => []HitsAreCurrent)
<1> SUFFICES ASSUME Serialized PROVE CacheSpec => []HitsAreCurrent
  OBVIOUS
<1>1. CacheInit => LoyalInv
  BY RowsBeginSettled DEF CacheInit, LoyalInv
<1>2. LoyalInv => HitsAreCurrent
  <2> SUFFICES ASSUME LoyalInv, NEW k \in Keys, NEW e \in Hits(cache, k, Stamp)
               PROVE  e.body = xmin
    BY DEF HitsAreCurrent
  <2>1. e \in Loyal /\ e.stamp = Stamp
    BY DEF Hits, ToSet, LoyalInv
  <2>2. e.body \in Bodies /\ xmin \in Bodies
    BY <2>1 DEF Loyal, Entries, LoyalInv, RowsAreSettled, Bodies
  <2>3. ASSUME NEW t \in Tables PROVE e.body[t] = xmin[t]
    <3> DEFINE f == e.body[t]
               g == xmin[t]
    <3>1. f \in Contents /\ g \in Contents /\ f \in Ancestors(t)
      BY <2>1, <2>2 DEF Loyal, Bodies
    <3>2. TableStamp(f) = TableStamp(g)
      BY <2>1 DEF Loyal, Stamp, StampOf
    <3> HIDE DEF f
    <3>3. Newest(f) = Newest(g)
      BY <3>2 DEF Newest
    <3>4. \A r \in Rows : g[r] \in 1..Newest(f) => g[r] = f[r]
      BY <3>1 DEF Ancestors
    <3> HIDE DEF g
    <3>5. \A r \in Rows : g[r] = f[r] \/ g[r] = Absent
      <4>1. \A r \in Rows : g[r] \in 0..MaxTx /\ g[r] <= Newest(g)
        BY <3>1, NewestBounds DEF Contents
      <4>2. Newest(g) \in Nat
        BY <3>1, NewestBounds, FreshnessAssumption
      <4> QED BY <3>3, <3>4, <4>1, <4>2, FreshnessAssumption DEF Absent
    <3>6. g = f
      BY <3>1, <3>2, <3>5, LosingRowsChangesStamp
    <3> QED BY <3>6 DEF f, g
  <2> QED BY <2>2, <2>3 DEF Bodies
<1>3. LoyalInv /\ [CacheNext]_cacheVars => LoyalInv'
  BY CacheStaysLoyal
<1> QED BY <1>1, <1>2, <1>3, PTL DEF CacheSpec
================================================================================
