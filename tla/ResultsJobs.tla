----------------------------- MODULE ResultsJobs -----------------------------
(***************************************************************************)
(* The scrapers of the results that Sport80 publishes.  The index lists the *)
(* meets of a year, and a meet has pages of results; a page that fails ends  *)
(* the reading of the index or the meet without an error.                    *)
(*   usaw_results, bwl_results  the newest meets, upserted meet by meet        *)
(*   bwl_import                 all meets that are not stored yet, each in one   *)
(*                              request to the REST interface of the table       *)
(***************************************************************************)
EXTENDS JobFrame, FiniteSetsExt

CONSTANTS
    Years,          \* the years asked for
    Ids, Lifters,   \* events, and names in their results
    NumEvents       \* how many of the newest meets are read

Keys == Ids \X Lifters
Jobs == {"usaw_results", "bwl_results", "bwl_import"}
Blank == "blank"
Garbled == 99       \* stands for a text where a number should be

\* The results on the first pages of a meet.
Read(pages, n) == FlattenSeq(SubSeq(pages, 1, n))

\* Newest first, or oldest first for the import; the index is not sorted.
InOrder(events) ==
    SortSeq(events, LAMBDA a, b : IF job = "bwl_import" THEN a.date < b.date ELSE a.date > b.date)

Picked(events) ==
    LET sorted == InOrder(events)
    IN SelectSeq(IF job = "bwl_import" THEN sorted ELSE SubSeq(sorted, 1, Min({NumEvents, Len(sorted)})),
                 LAMBDA e : e.id # Blank)

\* The years that could be read, one of them perhaps in part.
IndexRead ==
    /\ pc = "scrape" /\ job \in Jobs
    /\ \E read \in [Years -> 0..Max({Len(source[y]) : y \in Years})] :
          /\ \A y \in Years : read[y] <= Len(source[y])
          /\ Cardinality({y \in Years : read[y] < Len(source[y])}) <= 1          \* bound
          /\ LET events == Picked(FoldSet(LAMBDA y, all : all \o SubSeq(source[y], 1, read[y]), <<>>, Years)) IN
             /\ hitch' = (\E y \in Years : read[y] < Len(source[y]))
             /\ IF events = <<>> THEN Quits("ok")
                ELSE /\ todo' = events
                     /\ payload' = [seen |-> {}, clash |-> FALSE, refused |-> FALSE]
                     /\ pc' = IF job = "bwl_import" THEN "check" ELSE "write"
                     /\ UNCHANGED <<job, source, rows, tally, before, last, said, lost, exit, left>>

\* upsert_lifting_result of one row after the other, but for the bad ones: the
\* keys that were new, and those whose row was another one.
Ingested(id, results, bad) ==
    LET Row(st, i) ==
          LET k == <<id, results[i].name>>
              row == <<results[i].total>>
          IN IF i \in bad THEN st
             ELSE [rows |-> [st.rows EXCEPT ![k] = row],
                   new |-> IF st.rows[k] = <<>> THEN st.new \union {k} ELSE st.new,
                   other |-> IF st.rows[k] \notin {<<>>, row} THEN st.other \union {k} ELSE st.other]
    IN FoldLeftDomain(Row, [rows |-> rows, new |-> {}, other |-> {}], results)

Known(e) == e.meet # Blank /\ e.id \notin payload.seen

\* The meet is passed over: no name, seen before in this run, or no results.
PassOver ==
    /\ pc = "write" /\ job \in Jobs /\ todo # <<>>
    /\ LET e == Head(todo) IN
       \/ ~Known(e) /\ UNCHANGED <<payload, hitch>>
       \/ /\ Known(e)
          /\ Read(e.pages, Len(e.pages)) # <<>> => hitch' = TRUE             \* the request failed
          /\ Read(e.pages, Len(e.pages)) = <<>> => UNCHANGED hitch
          /\ payload' = [payload EXCEPT !.seen = @ \union {e.id}]
    /\ todo' = Tail(todo)
    /\ UNCHANGED <<job, source, rows, pc, tally, before, last, said, lost, exit, left>>

\* A row that fails is undone alone, without a connection all are.  A number that
\* does not parse ends the run, after the meets before it were stored.  The USAW
\* job tells the meets that got new rows, and of the others those that changed;
\* the British one every meet it handed over.
MeetResults ==
    /\ pc = "write" /\ job \in {"usaw_results", "bwl_results"} /\ todo # <<>>
    /\ LET e == Head(todo) IN
       /\ Known(e)
       /\ \E n \in 1..Len(e.pages) :
             LET results == Read(e.pages, n) IN
             /\ results # <<>>
             /\ IF \E i \in DOMAIN results : results[i].total = Garbled
                THEN hitch' = TRUE /\ Quits("failed")
                ELSE \E bad \in OneFails(DOMAIN results) \union {DOMAIN results} :
                     LET done == Ingested(e.id, results, bad)
                     IN /\ rows' = done.rows
                        /\ tally' = IF job = "bwl_results" \/ done.new # {}
                                    THEN [tally EXCEPT !.inserted = @ \union {e.id}]
                                    ELSE IF done.other # {}
                                    THEN [tally EXCEPT !.updated = @ \union {e.id}]
                                    ELSE tally
                        /\ payload' = [payload EXCEPT !.seen = @ \union {e.id}]
                        /\ hitch' = (hitch \/ n < Len(e.pages) \/ bad # {})
                        /\ todo' = Tail(todo)
                        /\ UNCHANGED <<job, source, pc, before, last, said, lost, exit, left>>

\* The import asks for the events that are stored, and for the largest id of a
\* row.  When the first cannot be read there are none; when the second cannot,
\* new rows get the ids of stored ones and are refused.
ImportCheck ==
    /\ pc = "check" /\ job = "bwl_import"
    /\ \E answered, counted \in BOOLEAN :
          /\ payload' = [seen |-> IF answered THEN {k[1] : k \in {x \in Keys : rows[x] # <<>>}} ELSE {},
                         clash |-> ~counted /\ \E k \in Keys : rows[k] # <<>>, refused |-> FALSE]
          /\ hitch' = (hitch \/ ~answered \/ ~counted)
    /\ pc' = "write"
    /\ UNCHANGED <<job, source, rows, todo, tally, before, last, said, lost, exit, left>>

ImportMeet ==
    /\ pc = "write" /\ job = "bwl_import" /\ todo # <<>>
    /\ LET e == Head(todo) IN
       /\ Known(e)
       /\ \E n \in 1..Len(e.pages), accepted \in BOOLEAN :
             LET results == Read(e.pages, n)
                 Of(k) == SelectSeq(results, LAMBDA r : <<e.id, r.name>> = k)
                 stored == accepted /\ ~payload.clash
             IN /\ results # <<>>
                /\ rows' = IF ~stored THEN rows
                           ELSE [k \in DOMAIN rows |->
                                    rows[k] \o [i \in DOMAIN Of(k) |-> Of(k)[i].total]]
                /\ tally' = IF stored THEN [tally EXCEPT !.inserted = @ \union {e.id}] ELSE tally
                /\ hitch' = (hitch \/ ~stored \/ n < Len(e.pages))
                /\ payload' = [payload EXCEPT !.seen = @ \union {e.id}, !.refused = @ \/ ~stored]
    /\ todo' = Tail(todo)
    /\ UNCHANGED <<job, source, pc, before, last, said, lost, exit, left>>

\* The import also tells that meets were refused, without their names.
ResultsReport ==
    /\ pc = "write" /\ job \in Jobs /\ todo = <<>>
    /\ IF payload.refused THEN PostsAnyway ELSE Posts
    /\ Ends("ok", ~hitch)
    /\ UNCHANGED <<rows, hitch>>

Step == IndexRead \/ PassOver \/ MeetResults \/ ImportCheck \/ ImportMeet \/ ResultsReport
=============================================================================
