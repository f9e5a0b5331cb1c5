---------------------------- MODULE RecordTables ----------------------------
(***************************************************************************)
(* The tables of records and standards, as the scrapers see them: a row per *)
(* class (a section, which is an age category and a gender, and a weight    *)
(* class) with a value for each lift.                                       *)
(***************************************************************************)
EXTENDS JobFrame

CONSTANTS Ages, Genders, Classes, Lifts

Sections == Ages \X Genders
Keys == Sections \X Classes

NoValue == 0                 \* a blank or unreadable number
Unreadable == "unreadable"   \* a text that the normalisers do not recognise
Blank == "blank"
NoLifts == [l \in Lifts |-> NoValue]

\* The lifts read so far for a class, and the records with one more of them:
\* a later value of the same lift overwrites the earlier one.
LiftsOf(recs, key) == IF key \in DOMAIN recs THEN recs[key] ELSE NoLifts
Put(recs, key, lift, value) ==
    (key :> [l \in Lifts |-> IF l = lift THEN value ELSE LiftsOf(recs, key)[l]]) @@ recs

\* Several partial readings put together, the last one winning.
Joined(parts) == FoldLeft(LAMBDA all, part : part @@ all, Nothing, parts)

\* The members of a set, one after the other.
Listing(S) == FoldSet(LAMBDA x, seq : Append(seq, x), <<>>, S)

\* The fetch and the parse are done: the records are written next, or the run
\* quits with this status when there are none.
Parsed(records, missed, status) ==
    /\ hitch' = missed
    /\ IF records = Nothing THEN Quits(status)
       ELSE /\ payload' = records
            /\ todo' = Listing(DOMAIN records)
            /\ pc' = "write"
            /\ UNCHANGED <<job, source, rows, tally, before, last, said, lost, exit, left>>


\* A slip: a row that the write left as it was counts as updated.
CountsUnchanged(keys) ==
    /\ rows' = WithRows(rows, keys, payload)
    /\ tally' = [NoTally EXCEPT !.inserted = {k \in keys : Held(rows, k) = <<>>},
                                !.updated = {k \in keys : Held(rows, k) # <<>>}]
    /\ pc' = "notify" /\ todo' = <<>>
    /\ UNCHANGED <<job, source, payload, before, last, said, lost, exit, left>>

\* A slip: a stored row is not looked up, so it is inserted again.
InsertsAgain(keys) ==
    /\ rows' = [k \in DOMAIN rows \union keys |->
                  IF k \in keys THEN Append(Held(rows, k), payload[k]) ELSE rows[k]]
    /\ tally' = [NoTally EXCEPT !.inserted = keys]
    /\ pc' = "notify" /\ todo' = <<>>
    /\ UNCHANGED <<job, source, payload, before, last, said, lost, exit, left>>

\* Upserts these rows in one transaction; each result tells whether the row was
\* new or changed.  A lift that was not read replaces the stored one all the same.
Upsert(keys) ==
    /\ rows' = WithRows(rows, keys, payload)
    /\ tally' = [NoTally EXCEPT !.inserted = {k \in keys : Held(rows, k) = <<>>},
                                !.updated = {k \in keys : Held(rows, k) \notin {<<>>, <<payload[k]>>}}]
    /\ pc' = "notify" /\ todo' = <<>>
    /\ UNCHANGED <<job, source, payload, before, last, said, lost, exit, left>>
=============================================================================
