---------------------------- MODULE ScheduleJobs ----------------------------
(***************************************************************************)
(* The scrapers of a meet's schedule.                                       *)
(*   schedule, schedule_replaced  final_scraper.py ingest, without and with    *)
(*                                --replace-existing                          *)
(*   prelim_schedule              its predecessor, which reads the preliminary  *)
(*                                layout only and writes a row per class       *)
(* A row of the table is found by its session, platform and label; its value  *)
(* is its date and time.                                                    *)
(***************************************************************************)
EXTENDS JobFrame, ScheduleReaders

Jobs == {"schedule", "schedule_replaced", "prelim_schedule"}

Key(slot) == <<slot.session, slot.platform, slot.label>>

\* upsert_session_schedule, in the order of add_ids: of the slots of a key the
\* one of the latest date stays.
Stored(table, slots) ==
    LET LastOf(k) == CHOOSE slot \in slots : /\ Key(slot) = k
                                            /\ \A s \in slots : Key(s) = k => s.date <= slot.date
    IN [k \in DOMAIN table \union {Key(slot) : slot \in slots} |->
            IF \E slot \in slots : Key(slot) = k
            THEN <<[date |-> LastOf(k).date, time |-> LastOf(k).time]>> ELSE table[k]]

\* A PDF that shows no date, of all layouts only the compact one needs it, is an
\* error; one whose reading hangs is left to whoever kills the job.
ScheduleScrape ==
    /\ pc = "scrape" /\ job \in {"schedule", "schedule_replaced"}
    /\ LET read == ScheduleRead(source) IN
       \/ RequestFails("failed")
       \/ read.dateless /\ UNCHANGED hitch /\ Quits("failed")
       \/ /\ ~read.dateless /\ ~read.hangs
          /\ payload' = read.slots
          /\ pc' = "write"
          /\ UNCHANGED <<job, source, rows, todo, tally, hitch, before, last, said, lost, exit, left>>

\* One transaction: a row that fails undoes the deletion, too.
ScheduleWrite ==
    /\ pc = "write" /\ job \in {"schedule", "schedule_replaced"}
    /\ \/ hitch' = TRUE /\ Quits("failed")
       \/ /\ rows' = Stored(IF job = "schedule_replaced" THEN Nothing ELSE rows, payload)
          /\ Ends("ok", ~hitch)
          /\ UNCHANGED <<hitch, said, lost>>

(***************************************************************************)
(* prelim_schedule.                                                        *)
(***************************************************************************)
\* Any row with a date is taken for a heading, and its class, if it has one, lost.
OldRow(columns, st, row) ==
    LET session == IF row.session # 0 THEN row.session ELSE st.session
    IN CASE row.date # 0 -> [st EXCEPT !.date = row.date]
         [] row.kind = "class" /\ row.date = 0 /\ row.columns = columns /\ st.date # 0 /\ session # 0 ->
              [st EXCEPT !.session = session,
                         !.rows = @ \union {[row EXCEPT !.date = st.date, !.session = session]}]
         [] OTHER -> st

\* Without a date above its header, the first one among its first rows is that of
\* the rows above it, too.
OldSection(st, rs, columns, above) ==
    LET shown == SelectSeq(SubSeq(rs, 1, Min({FirstRows, Len(rs)})),
                           LAMBDA row : row.date # 0 /\ (row.kind = "date" \/ row.columns = columns))
        date == IF above # 0 THEN above ELSE IF shown # <<>> THEN shown[1].date ELSE st.date
    IN FoldLeft(LAMBDA s, row : OldRow(columns, s, row), [st EXCEPT !.date = date], rs)

\* The rows above the first header are read under that header.
OldTable(st, table) ==
    LET headers == SelectSeq([i \in DOMAIN table |-> i], LAMBDA i : table[i].kind = "header")
        Section(s, n) ==
            LET h == headers[n]
                end == IF n = Len(headers) THEN Len(table) ELSE headers[n + 1] - 1
            IN [OldSection(s, SubSeq(table, h + 1, end), table[h].columns, DateAbove(table, h))
                   EXCEPT !.columns = table[h].columns]
    IN IF Len(table) < 2 THEN st
       ELSE IF headers # <<>>
       THEN FoldLeftDomain(Section, OldSection(st, SubSeq(table, 1, headers[1] - 1),
                                               table[headers[1]].columns, 0), headers)
       ELSE IF st.columns # Blank THEN OldSection(st, table, st.columns, 0)
       ELSE st

OldRead(pdf) ==
    LET read == FoldLeft(OldTable, [rows |-> {}, date |-> 0, session |-> 0, columns |-> Blank],
                         FlattenSeq([i \in DOMAIN pdf.pages |-> pdf.pages[i].tables]))
    IN {Slot(row.date, row.session, row.platform, row.time, {row.class}) :
           row \in {r \in read.rows : r.class # NoClass}}

PrelimScrape ==
    /\ pc = "scrape" /\ job = "prelim_schedule"
    /\ \/ RequestFails("failed")
       \/ OldRead(source) = {} /\ UNCHANGED hitch /\ Quits("failed")
       \/ /\ OldRead(source) # {}
          /\ payload' = OldRead(source)
          /\ pc' = "write"
          /\ UNCHANGED <<job, source, rows, todo, tally, hitch, before, last, said, lost, exit, left>>

\* One request with all rows, those of one key reduced to the last.
PrelimWrite ==
    /\ pc = "write" /\ job = "prelim_schedule"
    /\ \/ hitch' = TRUE /\ Quits("failed")
       \/ /\ rows' = Stored(rows, payload)
          /\ Ends("ok", ~hitch)
          /\ UNCHANGED <<hitch, said, lost>>

Step == ScheduleScrape \/ ScheduleWrite \/ PrelimScrape \/ PrelimWrite
=============================================================================
