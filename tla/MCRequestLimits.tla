--------------------------- MODULE MCRequestLimits ----------------------------
(***************************************************************************)
(* What the requests in one API process share, checked together: the       *)
(* buckets and slots of RequestLimits, the signing keys, and the saved     *)
(* sessions of a user.  A behaviour follows one of the three, chosen at    *)
(* the start.  Requests are interchangeable, and so are addresses.         *)
(***************************************************************************)
EXTENDS RequestLimits, TLC

CONSTANTS
    KeyIds,     \* key ids a token may name
    Sessions,   \* session ids
    Cap         \* MAX_SAVED_SESSIONS_PER_USER

\* Nobody also stands for the holder of a free clock in SigningKeys.
ASSUME SharedAssumption == Nobody \notin Requests /\ Cap \in Nat \ {0}

VARIABLES part,
          published, cached, recent, backing, holder, place, kid, document, news,
          rows, counted, session

Signing == INSTANCE SigningKeys WITH Keys <- KeyIds
Saved == INSTANCE SavedSessions WITH Puts <- Requests

keyVars == <<published, cached, recent, backing, holder, place, kid, document, news>>
rowVars == <<rows, counted, session>>

\* Where the other two begin makes no difference.
InitAll ==
    /\ part \in {"limits", "keys", "sessions"}
    /\ Init /\ (part # "limits" => ~enforce /\ slotOf = [a \in Addresses |-> CHOOSE o \in Overflow : TRUE])
    /\ Signing!Init /\ (part # "keys" => published = {} /\ kid = [r \in Requests |-> CHOOSE k \in KeyIds : TRUE])
    /\ Saved!Init /\ (part # "sessions" => session = [r \in Requests |-> CHOOSE s \in Sessions : TRUE])

NextAll ==
    /\ UNCHANGED part
    /\ \/ part = "limits" /\ Next /\ UNCHANGED <<keyVars, rowVars>>
       \/ part = "keys" /\ Signing!Next /\ UNCHANGED <<vars, rowVars>>
       \/ part = "sessions" /\ Saved!Next /\ UNCHANGED <<vars, keyVars>>

SpecAll == InitAll /\ [][NextAll]_<<part, vars, keyVars, rowVars>>

-----------------------------------------------------------------------------
\* Unknown key ids are refused without a fetch (refresh_keys) only while they are
\* newer than the provider's last answer: SigningKeys.
ThrottledOnlyForNews == Signing!ThrottledOnlyForNews

\* The cap of saved sessions (put_saved_session) is exceeded by no more than the
\* PUTs that race: SavedSessions.
CapNearlyHolds == Saved!CapNearlyHolds

Symmetric == Permutations(Requests) \cup Permutations(Addresses)
===============================================================================
