------------------------------- MODULE MeetCache -------------------------------
(***************************************************************************)
(* The rows of one meet and the packages cached under their freshness      *)
(* stamp. As a specification of its own the module has requests cut down   *)
(* to one step: any sequence of writes to the rows, lookups that miss and  *)
(* store what they read, and entries that grow too old. PackageBuild       *)
(* extends it with the requests in full.                                   *)
(***************************************************************************)
EXTENDS FreshnessStamp, PackageCache

CONSTANTS
  Keys,    \* cache keys of the meet: cutoff date and include set
  Sizes    \* lengths a body may have

ASSUME SizesAssumption == Sizes \subseteq Nat

VARIABLE cache    \* PACKAGE_CACHE, a sequence of PackageCache's entries

cacheVars == <<dbVars, cache>>

CacheInit == DBInit /\ cache = <<>>

Rewrite == DBNext /\ UNCHANGED cache

\* A request that misses builds the package from the rows under its stamp.
Refresh(k) ==
  /\ Hits(cache, k, Stamp) = {}
  /\ \E size \in Sizes : cache' = Stored(cache, Entry(k, Stamp, xmin, size))
  /\ UNCHANGED dbVars

\* The oldest fresh entry of the cache outlives PACKAGE_CACHE_TTL.
Outlive == HasFresh(cache) /\ cache' = Expired(cache) /\ UNCHANGED dbVars

CacheNext == Rewrite \/ (\E k \in Keys : Refresh(k)) \/ Outlive

CacheSpec == CacheInit /\ [][CacheNext]_cacheVars

-----------------------------------------------------------------------------

\* A stamp never names two contents, however far apart (freshness_stamp as a
\* cache key): whatever is cached under the stamp the meet has now, from
\* however many writes ago, holds the rows the meet has now, even after
\* changes that cancel out, such as a row deleted and another inserted.
HitsAreCurrent == \A k \in Keys : \A e \in Hits(cache, k, Stamp) : e.body = xmin

\* Both limits of the cache's footprint, whatever the sizes stored.
WithinLimits ==
  /\ Len(cache) <= MaxEntries
  /\ TotalBytes(cache) <= MaxBytes

\* store_package evicts no more than it must: when a store drops a fresh body
\* of another key, that body and everything younger would not have fitted
\* beside the new one.
EvictsOnlyForRoom ==
  [][\A i \in DOMAIN cache :
       LET keysLeft == {e.key : e \in ToSet(cache')}
           new == Last(cache')
           kept == Without(SubSeq(cache, i, Len(cache)), new.key)
       IN  cache[i].fresh /\ cache[i].key \notin keysLeft
             => ~Fits(kept, new.size)]_cache
===============================================================================
