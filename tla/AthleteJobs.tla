---------------------------- MODULE AthleteJobs ----------------------------
(***************************************************************************)
(* The jobs that write the athletes table.                                  *)
(*   entries  the nightly scraper of a meet's entry list                      *)
(*   assign   assign_athlete_sessions.py ingest, which gives the athletes of   *)
(*            the source meets a session of the schedule                       *)
(*   dedupe   the clean-up of copies an earlier scraper left                   *)
(* The source is the entry list and the schedule with the meet it is of.     *)
(* The counts the first tells Slack are left out.                           *)
(*                                                                         *)
(* Each job has a lock of its own, so an assignment may run while one of the *)
(* other two does, and commit between any two of its statements.  The other   *)
(* overlaps are left out.                                                    *)
(***************************************************************************)
EXTENDS JobFrame, AthleteTable, SessionMatch

CONSTANTS SourceMeets,              \* the meets whose athletes are assigned, in order
          KnownMeets,               \* SOURCE_MEET_NAMES: those without --source-meet
          AdaptiveMeets             \* those of adaptive athletes

Jobs == {"entries", "assign", "dedupe"}

(***************************************************************************)
(* entries.  The list has pages; a page without rows ends it.               *)
(***************************************************************************)
\* Women first, then by weight, the heaviest totals of a class first.
Ordered(list) ==
    LET By(e) == <<IF e.gender = "F" THEN 0 ELSE 1, e.class.kg, IF e.class.plus THEN 1 ELSE 0>>
        Differ(a, b) == {n \in 1..3 : By(a)[n] # By(b)[n]}
        Before(i, j) ==
            LET a == list[i]  b == list[j] IN
            IF Differ(a, b) # {} THEN By(a)[Min(Differ(a, b))] < By(b)[Min(Differ(a, b))]
            ELSE IF a.total # b.total THEN a.total > b.total ELSE i < j
        order == SetToSortSeq(DOMAIN list, Before)
    IN [i \in DOMAIN order |-> list[order[i]]]

Entry(e) ==
    [e EXCEPT !.member = IF @ = NoId THEN Noid(e.name) ELSE @]
    @@ [adaptive |-> FALSE, slot |-> <<>>]

\* An open transaction: how many rows are done, the one looked up and not yet written,
\* the keys locked, what was written, and whether an assignment committed meanwhile.
NoneDone == [done |-> 0, target |-> {}, locked |-> {}, wrote |-> <<>>, overtaken |-> FALSE]

EntriesScrape ==
    /\ pc = "scrape" /\ job = "entries"
    /\ LET blank == SelectInSeq(source.entries, LAMBDA page : page = <<>>)
           pages == IF blank = 0 THEN source.entries ELSE SubSeq(source.entries, 1, blank - 1)
           list == Ordered(FlattenSeq(pages))
       IN \/ RequestFails("failed")
          \/ list = <<>> /\ UNCHANGED hitch /\ Quits("ok")
          \/ /\ list # <<>>
             /\ payload' = [i \in DOMAIN list |-> Entry(list[i])]
             /\ todo' = NoneDone /\ pc' = "write"
             /\ UNCHANGED <<job, source, rows, tally, hitch, before, last, said, lost, exit, left>>

\* postgres_ingest.py ingestEntryAthlete: one transaction, which reads what others
\* commit while it is open.
Seen == FoldLeft(Stored, rows, todo.wrote)
Writing == pc = "write" /\ job = "entries"
Goes == UNCHANGED <<job, source, rows, pc, payload, tally, hitch, before, last, said, lost, exit, left>>

\* The row found is locked; one with a session is skipped.
EntryLookup ==
    /\ Writing /\ todo.target = {} /\ todo.done < Len(payload)
    /\ LET row == payload[todo.done + 1]
           held == {Seen[i].key : i \in Found(Seen, row)}
       IN \E target \in Targets(Seen, row) :
             todo' = IF \E r \in ToSet(Seen) : r.key = target.key /\ r.key \in held /\ Assigned(r)
                     THEN [todo EXCEPT !.done = @ + 1, !.locked = @ \union {target.key}]
                     ELSE [todo EXCEPT !.target = {target},
                                       !.locked = @ \union ({target.key} \intersect held)]
    /\ Goes

\* Where another has stored the key by now, the insert becomes an update.
EntryUpsert ==
    /\ Writing /\ todo.target # {}
    /\ \E target \in todo.target :
          todo' = [todo EXCEPT !.done = @ + 1, !.target = {}, !.locked = @ \union {target.key},
                               !.wrote = Append(@, Preserving(Seen, target))]
    /\ Goes

EntriesCommit ==
    /\ Writing /\ todo.target = {} /\ todo.done = Len(payload)
    /\ rows' = Seen
    /\ Ends("ok", ~hitch /\ ~todo.overtaken)
    /\ UNCHANGED <<hitch, said, lost>>

(***************************************************************************)
(* assign.                                                                 *)
(***************************************************************************)
\* The rows of the source meets, meet by meet, in any order; of those of one member id,
\* of no id, too, the first.
Fetches(table) ==
    LET Of(meet) == {r \in ToSet(table) : r.meet = meet}
        First(seen, r) ==
            IF \E s \in ToSet(seen) : s.member = r.member /\ s.meet = r.meet THEN seen ELSE Append(seen, r)
        orders == FoldLeft(LAMBDA some, meet : {s \o of : s \in some, of \in SetToSeqs(Of(meet))},
                           {<<>>}, SourceMeets)
    IN {FoldLeft(First, <<>>, order) : order \in orders}

\* The athletes of state championships stay at their meet, the others go to that of
\* the schedule.
OutputMeet(r) == IF EventCategory(r.meet) = "wso" THEN r.meet ELSE source.meet

\* An athlete of a meet that is not one of the known ones only matches sessions of it.
Matching(r) ==
    [meet |-> IF r.meet \in KnownMeets THEN source.meet ELSE r.meet, category |-> EventCategory(r.meet), gender |-> r.gender,
     age |-> r.age, class |-> r.class, total |-> r.total]

Placement(r) ==
    LET found == FindSession(Matching(r), source.schedule) IN
    [f \in DOMAIN r \ {"key"} |->
        CASE f = "meet" -> OutputMeet(r)
          [] f = "adaptive" -> r.adaptive \/ r.meet \in AdaptiveMeets
          [] f = "slot" -> (IF found = <<>> THEN <<>> ELSE <<found[1].session, found[1].platform>>)
          [] OTHER -> r[f]]

AssignScrape ==
    /\ pc = "scrape" /\ job = "assign"
    /\ \/ RequestFails("failed")
       \/ /\ \E list \in Fetches(rows) : payload' = [i \in DOMAIN list |-> Placement(list[i])]
          /\ pc' = "write"
          /\ UNCHANGED <<job, source, rows, todo, tally, hitch, before, last, said, lost, exit, left>>

\* One transaction; those without a session are left as they are.
AssignWrite ==
    /\ pc = "write" /\ job = "assign"
    /\ \/ hitch' = TRUE /\ Quits("failed")
       \/ /\ rows' \in AllUpserted(rows, SelectSeq(payload, Assigned))
          /\ Ends("ok", ~hitch)
          /\ UNCHANGED <<hitch, said, lost>>

\* Another process assigns while the entries or the clean-up have a transaction open: it
\* read the table now or when they began, and writes no row that they hold.
\* Bound: once in a run.
AssignsMeanwhile ==
    /\ pc = "write" /\ job \in {"entries", "dedupe"} /\ ~todo.overtaken
    /\ source.schedule # <<>>
    /\ \E table \in {before, rows} : \E list \in Fetches(table) :
          LET placed == SelectSeq([i \in DOMAIN list |-> Placement(list[i])], Assigned)
          IN rows' \in AllUpserted(rows, placed)
    /\ \A r \in ToSet(rows) \union ToSet(rows') :
          r.key \in todo.locked => r \in ToSet(rows) \intersect ToSet(rows')
    /\ rows' # rows
    /\ todo' = [todo EXCEPT !.overtaken = TRUE]
    /\ last' = {}
    /\ UNCHANGED <<job, source, pc, payload, tally, hitch, before, said, lost, exit, left>>

(***************************************************************************)
(* dedupe --all-meets --apply, in one transaction.  It plans from rows that   *)
(* it does not lock and then deletes by their ids.  The plans are made meet   *)
(* by meet, here at one moment.                                              *)
(***************************************************************************)
DedupePlan ==
    /\ pc = "scrape" /\ job = "dedupe"
    /\ \/ RequestFails("failed")
       \/ \E meets \in SetToSeqs({r.meet : r \in ToSet(rows)}) :
             /\ payload' = [was |-> ToSet(rows), is |-> ToSet(FoldLeft(Deduped, rows, meets))]
             /\ todo' = NoneDone /\ pc' = "write"
             /\ UNCHANGED <<job, source, rows, tally, hitch, before, last, said, lost, exit, left>>

\* The rows planned to go are deleted, whatever they hold by now, and those whose number
\* the plan changed get it.
DedupeApply ==
    /\ pc = "write" /\ job = "dedupe"
    /\ LET Keys(some) == {r.key : r \in some}
           kept == SelectSeq(rows, LAMBDA r : r.key \notin Keys(payload.was) \ Keys(payload.is))
           Given(r) == {p.member : p \in {q \in payload.is \ payload.was : q.key = r.key}}
       IN rows' = [i \in DOMAIN kept |->
                      IF Given(kept[i]) = {} THEN kept[i]
                      ELSE [kept[i] EXCEPT !.member = CHOOSE id \in Given(kept[i]) : TRUE]]
    /\ Ends("ok", ~hitch /\ ~todo.overtaken)
    /\ UNCHANGED <<hitch, said, lost>>

Step ==
    \/ EntriesScrape \/ EntryLookup \/ EntryUpsert \/ EntriesCommit
    \/ AssignScrape \/ AssignWrite \/ AssignsMeanwhile
    \/ DedupePlan \/ DedupeApply
=============================================================================
