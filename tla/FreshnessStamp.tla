---------------------------- MODULE FreshnessStamp ----------------------------
(***************************************************************************)
(* The freshness stamp of one meet (FRESHNESS_SQL and freshness_stamp in   *)
(* get_meet_package.rs) and the Postgres transactions that write the       *)
(* meet's rows. A row is known only by its xmin: the id of the transaction *)
(* that wrote the version now visible, which is all the stamp looks at.    *)
(*                                                                         *)
(* The scrapers that write these tables are separate processes. Serialized *)
(* says whether their transactions on one meet may overlap; a transaction  *)
(* takes its id when it starts to write and its rows appear when it        *)
(* commits, so overlapping writers can commit out of id order.             *)
(***************************************************************************)
EXTENDS Naturals, FiniteSets, FiniteSetsExt

CONSTANTS
  Tables,      \* the tables the stamp covers: meets, athletes, schedule, results
  Rows,        \* row identities within a table
  MaxTx,       \* bound on the number of write transactions
  Serialized,  \* TRUE: at most one writer of the meet at a time
  DeleteOnly   \* TRUE: a transaction may delete rows and write none

ASSUME FreshnessAssumption ==
  /\ MaxTx \in Nat \ {0}
  /\ Serialized \in BOOLEAN
  /\ DeleteOnly \in BOOLEAN
  /\ IsFiniteSet(Rows)

VARIABLES
  xmin,    \* xmin[t][r]: writer of the visible version of row r, Absent if none
  nextTx,  \* the next transaction id to hand out
  open     \* ids of the transactions that have started and not ended

dbVars == <<xmin, nextTx, open>>

Absent == 0
LoadTx == 1     \* the transaction that loaded the initial rows

Present(f) == {r \in Rows : f[r] # Absent}

\* Slips in FRESHNESS_SQL: the count alone, the newest writer alone.
CountOnly(f) == <<Cardinality(Present(f)), 0>>
NewestOnly(f) == <<0, Max({f[r] : r \in Present(f)} \cup {0})>>

\* COUNT(*) and COALESCE(MAX(xmin), 0) of one table.
TableStamp(f) ==
  <<Cardinality(Present(f)), Max({f[r] : r \in Present(f)} \cup {0})>>

StampOf(x) == [t \in Tables |-> TableStamp(x[t])]
Stamp == StampOf(xmin)

-----------------------------------------------------------------------------

DBInit ==
  /\ xmin \in [Tables -> [Rows -> {Absent, LoadTx}]]
  /\ nextTx = LoadTx + 1
  /\ open = {}

\* A scraper's transaction makes its first write and is given its id.
BeginTx ==
  /\ nextTx <= MaxTx
  /\ Serialized => open = {}
  /\ open' = open \cup {nextTx}
  /\ nextTx' = nextTx + 1
  /\ UNCHANGED xmin

\* Table rows f after transaction tx wrote the rows of up and deleted those
\* of del: a replace deletes every row and writes the new ones, an upsert
\* writes in place, a deletion writes nothing.
Written(f, tx, up, del) ==
  [r \in Rows |-> IF r \in up THEN tx ELSE IF r \in del THEN Absent ELSE f[r]]

\* The transaction commits: all its writes, to every table, appear at once.
\* A transaction that failed commits nothing (up and del empty).
CommitTx(tx) ==
  /\ tx \in open
  /\ open' = open \ {tx}
  /\ \E up, del \in [Tables -> SUBSET Rows] :
       /\ DeleteOnly \/ \A t \in Tables : up[t] = {} => del[t] = {}
       /\ xmin' = [t \in Tables |-> Written(xmin[t], tx, up[t], del[t])]
  /\ UNCHANGED nextTx

DBNext == BeginTx \/ \E tx \in 1..MaxTx : CommitTx(tx)

DBSpec == DBInit /\ [][DBNext]_dbVars

-----------------------------------------------------------------------------

\* "A replace ingest (delete + insert), an upsert that rewrites a row in
\* place, and a deletion all change one of those": no commit that changes
\* the meet's rows leaves the stamp as it was.
EveryWriteChangesStamp ==
  [][xmin' # xmin => StampOf(xmin') # StampOf(xmin)]_dbVars
===============================================================================
