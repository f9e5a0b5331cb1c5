----------------------------- MODULE SigningKeys ------------------------------
(***************************************************************************)
(* The signing keys of the session tokens, in one API process.  A token    *)
(* names its key; a key that is not in the cache makes the request fetch   *)
(* the provider's document again, unless a fetch succeeded less than a     *)
(* minute ago or failed less than five seconds ago.  The clock of these    *)
(* two is locked across the fetch, so requests wait for one another; the   *)
(* request timeout drops a request wherever it waits, with the lock it     *)
(* holds.  The provider rotates its keys at any time.                      *)
(***************************************************************************)
CONSTANTS
    Requests,   \* requests with a token, at once
    Keys,       \* key ids a token may name, published or not
    Nobody      \* the holder of a free lock

VARIABLES
    published,  \* keys a document of the provider holds, those we can use
    cached,     \* keys of the cache
    recent,     \* the last success is less than MIN_JWKS_REFRESH_INTERVAL ago
    backing,    \* the last failure is less than JWKS_FAILURE_BACKOFF ago
    holder,     \* who has locked the clock
    place,      \* [Requests -> Places]
    kid,        \* [Requests -> Keys]: the key its token names
    document,   \* [Requests -> SUBSET Keys]: the keys it has fetched
    news        \* history: keys published since the provider last answered us,
                \* or failed to

clock == <<recent, backing, holder>>
vars == <<published, cached, clock, place, kid, document, news>>

\* "refused" stands for every 401: the key is unknown, or cannot be fetched.
Over == {"accepted", "refused", "dropped"}
Places == {"waits", "fetches", "installs", "looksAgain"} \cup Over

Init ==
    /\ published \in SUBSET Keys /\ news = published
    /\ cached = {} /\ recent = FALSE /\ backing = FALSE /\ holder = Nobody
    /\ place = [r \in Requests |-> "dropped"]
    /\ kid \in [Requests -> Keys]
    /\ document = [r \in Requests |-> {}]

Goto(r, from, to) ==
    /\ place[r] = from /\ place' = [place EXCEPT ![r] = to]
    /\ document' = [document EXCEPT ![r] = IF to = "installs" THEN published ELSE {}]

-----------------------------------------------------------------------------
(* One token (check, refresh_keys).                                        *)

\* A token comes; the provider is not needed for a cached key.
Look(r, k) ==
    /\ place[r] \in Over /\ Goto(r, place[r], IF k \in cached THEN "accepted" ELSE "waits")
    /\ kid' = [kid EXCEPT ![r] = k]
    /\ UNCHANGED <<published, cached, clock, news>>

Lock(r) ==
    /\ holder = Nobody
    /\ Goto(r, "waits", IF recent THEN "looksAgain" ELSE IF backing THEN "refused" ELSE "fetches")
    /\ holder' = IF recent \/ backing THEN Nobody ELSE r
    /\ UNCHANGED <<published, cached, recent, backing, kid, news>>

\* A slip: the success is stamped when the document has come, before its keys
\* are in the cache.
FetchedEarly(r) ==
    /\ published # {} /\ Goto(r, "fetches", "installs")
    /\ news' = {} /\ recent' = TRUE
    /\ UNCHANGED <<published, cached, backing, holder, kid>>

Fetched(r) ==
    /\ published # {} /\ Goto(r, "fetches", "installs")
    /\ news' = {}
    /\ UNCHANGED <<published, cached, clock, kid>>

\* No answer in five seconds, an error, or a document without a usable key.
FetchFailed(r) ==
    /\ Goto(r, "fetches", "refused")
    /\ news' = {} /\ backing' = TRUE /\ holder' = Nobody
    /\ UNCHANGED <<published, cached, recent, kid>>

\* Once the readers of the cache are out; nothing waits between the keys and
\* the stamps.
Install(r) ==
    /\ Goto(r, "installs", "looksAgain")
    /\ cached' = document[r]
    /\ recent' = TRUE /\ backing' = FALSE /\ holder' = Nobody
    /\ UNCHANGED <<published, kid, news>>

\* The token is judged by what is cached now.
LookAgain(r) ==
    /\ Goto(r, "looksAgain", IF kid[r] \in cached THEN "accepted" ELSE "refused")
    /\ UNCHANGED <<published, cached, clock, kid, news>>

\* The request timeout, or the client is gone: no stamp is left, so the next one
\* in line fetches at once.
Drop(r) ==
    /\ place[r] \notin Over /\ Goto(r, place[r], "dropped")
    /\ holder' = IF holder = r THEN Nobody ELSE holder
    /\ UNCHANGED <<published, cached, recent, backing, kid, news>>

-----------------------------------------------------------------------------
IntervalEnds ==
    /\ recent /\ recent' = FALSE
    /\ UNCHANGED <<published, cached, backing, holder, place, kid, document, news>>

BackoffEnds ==
    /\ backing /\ backing' = FALSE
    /\ UNCHANGED <<published, cached, recent, holder, place, kid, document, news>>

\* The provider.  It never has more keys than one document may contribute
\* (MAX_JWKS_KEYS).
Publish(k) ==
    /\ k \notin published /\ published' = published \cup {k} /\ news' = news \cup {k}
    /\ UNCHANGED <<cached, clock, place, kid, document>>

Withdraw(k) ==
    /\ k \in published /\ published' = published \ {k}
    /\ UNCHANGED <<cached, clock, place, kid, document, news>>

Next ==
    \/ \E r \in Requests :
          \/ \E k \in Keys : Look(r, k)
          \/ Lock(r) \/ Fetched(r) \/ FetchFailed(r) \/ Install(r) \/ LookAgain(r) \/ Drop(r)
    \/ IntervalEnds \/ BackoffEnds
    \/ \E k \in Keys : Publish(k) \/ Withdraw(k)

Spec == Init /\ [][Next]_vars

-----------------------------------------------------------------------------
TypeOK ==
    /\ published \subseteq Keys /\ cached \subseteq Keys /\ news \subseteq Keys
    /\ recent \in BOOLEAN /\ backing \in BOOLEAN
    /\ holder \in Requests \cup {Nobody}
    /\ place \in [Requests -> Places] /\ kid \in [Requests -> Keys]
    /\ document \in [Requests -> SUBSET Keys]

(* While unknown key ids are answered from the cache, without a fetch, the   *)
(* only published keys it lacks are newer than the provider's last answer:   *)
(* "a failed fetch must not start the 60s refresh interval, or a rotated key *)
(* stays unknown until it ends", and no more may one that was cut off.       *)
ThrottledOnlyForNews ==
    recent /\ holder = Nobody => published \ cached \subseteq news
===============================================================================
