----------------------------- MODULE PackageCache -----------------------------
(***************************************************************************)
(* PACKAGE_CACHE of get_meet_package.rs: the process-wide cache of         *)
(* serialized package bodies, behind one RwLock, so each operation is one  *)
(* step. The entries are kept as a sequence in the order they were         *)
(* inserted. The time to live is one constant, so the entries that have    *)
(* outlived it are always the oldest: expiry marks them from the front.    *)
(***************************************************************************)
EXTENDS Naturals, Sequences, SequencesExt

CONSTANTS
  MaxEntries,   \* MAX_PACKAGE_CACHE_ENTRIES
  MaxBody,      \* MAX_CACHED_PACKAGE_BYTES
  MaxBytes      \* MAX_PACKAGE_CACHE_BYTES

ASSUME CacheAssumption ==
  /\ MaxEntries \in Nat \ {0}
  /\ MaxBody \in Nat \ {0}
  /\ MaxBytes \in Nat
  /\ MaxBody <= MaxBytes

\* One cached body: its key, the freshness stamp it was built under, its
\* content, its length, and whether it is younger than the time to live.
Entry(k, stamp, body, size) ==
  [key |-> k, stamp |-> stamp, body |-> body, size |-> size, fresh |-> TRUE]

TotalBytes(c) == FoldLeft(LAMBDA sum, e : sum + e.size, 0, c)

\* A slip in cached_package: the stamp is not compared.
HitsAnyStamp(c, k, stamp) == {e \in ToSet(c) : e.key = k /\ e.fresh}

\* The bodies cached_package answers with: same key, same stamp, not expired.
Hits(c, k, stamp) ==
  {e \in ToSet(c) : e.key = k /\ e.stamp = stamp /\ e.fresh}

\* A slip: one entry too many.
FitsOneMore(c, size) == Len(c) <= MaxEntries /\ TotalBytes(c) + size <= MaxBytes

Fits(c, size) ==
  /\ Len(c) < MaxEntries
  /\ TotalBytes(c) + size <= MaxBytes

\* A slip: clear the cache instead of making room.
EvictAll(c, size) == <<>>

\* Drop the oldest entries, one at a time, until a body of this size fits.
Evict(c, size) ==
  LET Rest(n) == SubSeq(c, n + 1, Len(c))
  IN  Rest(CHOOSE n \in 0..Len(c) :
             /\ n = Len(c) \/ Fits(Rest(n), size)
             /\ \A m \in 0..(n - 1) : ~Fits(Rest(m), size))

\* The entries that have not expired: those after the ones that have.
Young(c) == SubSeq(c, Cardinality({i \in DOMAIN c : ~c[i].fresh}) + 1, Len(c))

\* The cache without the entry of key k; there is at most one.
Without(c, k) ==
  IF \A i \in DOMAIN c : c[i].key # k THEN c
  ELSE RemoveAt(c, CHOOSE i \in DOMAIN c : c[i].key = k)

\* store_package.
Stored(c, e) ==
  IF e.size > MaxBody THEN c ELSE Append(Evict(Without(Young(c), e.key), e.size), e)

\* The oldest entry that is still fresh outlives the time to live.
Expired(c) ==
  LET i == CHOOSE j \in DOMAIN c :
             c[j].fresh /\ \A m \in 1..(j - 1) : ~c[m].fresh
  IN  [c EXCEPT ![i].fresh = FALSE]

HasFresh(c) == \E e \in ToSet(c) : e.fresh
===============================================================================
