--------------------------- MODULE StandardsJobs ---------------------------
(***************************************************************************)
(* The three scrapers of standards and qualifying totals, each a PDF of     *)
(* tables.                                                                 *)
(*   standards  USA Weightlifting's A and B standards; Lifts are the marks   *)
(*   usaw_qt    its qualifying totals, run by hand, written row by row       *)
(*   usamw_qt   the masters' qualifying totals                              *)
(* Of the qualifying totals an age category is one of an event.             *)
(***************************************************************************)
EXTENDS RecordTables

CONSTANTS                    \* usamw_qt:
    DefaultAges,             \* the columns of a table without a heading
    TableGenders             \* the genders of the first table of a page and of the others

Jobs == {"standards", "usaw_qt", "usamw_qt"}

Readable(s) == SelectSeq(s, LAMBDA x : x # Unreadable)

(***************************************************************************)
(* Parsers                                                                 *)
(***************************************************************************)
\* A heading, a row of classes, a row of totals.  An unreadable heading leaves
\* the section open; classes that cannot be read take no column, so the ones
\* after them move up.  Totals without classes above them are passed over.
StandardsRow(st, r) ==
    CASE r.kind = "heading" ->
            IF Unreadable \in {r.age, r.gender} THEN st
            ELSE [st EXCEPT !.section = <<r.age, r.gender>>, !.mark = r.mark, !.classes = <<>>]
      [] r.kind = "category" ->
            IF st.section = <<>> THEN st ELSE [st EXCEPT !.classes = Readable(r.classes)]
      [] r.kind = "total" ->
            LET columns == {i \in DOMAIN r.values : i \in DOMAIN st.classes /\ r.values[i] # NoValue}
                key(i) == <<st.section, st.classes[i]>>
            IN [st EXCEPT !.classes = <<>>,
                          !.recs = FoldLeft(LAMBDA recs, i :
                                                IF i \notin columns THEN recs
                                                ELSE Put(recs, key(i), st.mark, r.values[i]),
                                            @, [i \in DOMAIN r.values |-> i])]

StandardsRecords(tables) ==
    FoldLeft(LAMBDA recs, table :
                FoldLeft(StandardsRow, [section |-> <<>>, mark |-> Blank, classes |-> <<>>,
                                        recs |-> recs], table).recs,
             Nothing, tables)

\* A row per class.  A cell with several totals is one merged over the rows
\* below it, whose own cells are empty; a row that is skipped takes none.
UsawQtRow(st, r) ==
    IF Unreadable \in {r.age, r.gender, r.class} THEN st
    ELSE LET merged == Len(r.cell) > 1
             empty == r.cell = <<>> /\ st.pending # <<>>
             value == IF empty THEN Head(st.pending)
                      ELSE IF r.cell = <<>> THEN NoValue ELSE Head(r.cell)
         IN [pending |-> IF merged THEN Tail(r.cell) ELSE IF empty THEN Tail(st.pending)
                         ELSE st.pending,
             data |-> IF value = NoValue THEN st.data
                      ELSE Append(st.data, <<<<<<r.age, r.gender>>, r.class>>, value>>)]

\* The tables of the first page begin with two rows of headings.
UsawQtData(pages) ==
    LET Table(page, table) ==
          LET from == IF page = 1 THEN 3 ELSE 1 IN
          FoldLeft(UsawQtRow, [pending |-> <<>>, data |-> <<>>],
                   SubSeq(table, from, Len(table))).data
    IN FlattenSeq([p \in DOMAIN pages |->
                      FlattenSeq([t \in DOMAIN pages[p] |-> Table(p, pages[p][t])])])

\* The first row with enough age categories is the heading, or else the first
\* row.  Its prefix tells the gender, or else the place of the table.
UsamwQtTable(table, gender, enough) ==
    LET headings == {i \in DOMAIN table : Len(Readable(table[i].ages)) >= enough}
        heading == IF headings = {} THEN 1 ELSE CHOOSE i \in headings : \A j \in headings : i <= j
        read == Readable(table[heading].ages)
        ages == IF read = <<>> THEN DefaultAges ELSE read
        of == IF headings = {} THEN gender ELSE table[heading].gender
        Row(recs, r) ==
          IF r.class = Unreadable THEN recs
          ELSE [k \in {<<<<ages[i], of>>, r.class>> :
                          i \in {j \in DOMAIN r.values : j \in DOMAIN ages /\ r.values[j] # NoValue}} |->
                    r.values[CHOOSE i \in DOMAIN ages : ages[i] = k[1][1]]] @@ recs
    IN FoldLeft(Row, Nothing, SubSeq(table, heading + 1, Len(table)))

\* The first table of a page is the men's, the others the women's.  A PDF that shows nothing this way
\* is read again by a simpler reader, which wants more of a heading.
UsamwQtRecords(pages) ==
    LET Page(page, enough) ==
          Joined([t \in DOMAIN page |-> UsamwQtTable(page[t], TableGenders[IF t = 1 THEN 1 ELSE 2], enough)])
        All(enough) == Joined([p \in DOMAIN pages |-> Page(pages[p], enough)])
    IN IF All(1) # Nothing THEN All(1) ELSE All(3)

(***************************************************************************)
(* A run                                                                   *)
(***************************************************************************)
\* The first link to a PDF of standards, else the first one that names them,
\* which is then no PDF and raises.  No page, no link and no standard: the run
\* prints so and exits with 0.
StandardsScrape ==
    /\ pc = "scrape" /\ job = "standards"
    /\ \/ RequestFails("ok")
       \/ source.links = {} /\ UNCHANGED hitch /\ Quits("ok")
       \/ source.links = {"page"} /\ RequestFails("failed")
       \/ "pdf" \in source.links /\ Parsed(StandardsRecords(source.tables), FALSE, "ok")

UsamwQtScrape ==
    /\ pc = "scrape" /\ job = "usamw_qt"
    /\ \/ RequestFails("failed")
       \/ Parsed(UsamwQtRecords(source), FALSE, "failed")

\* No row at all has no columns to sort by, and raises.
UsawQtScrape ==
    /\ pc = "scrape" /\ job = "usaw_qt"
    /\ \/ RequestFails("failed")
       \/ UsawQtData(source) = <<>> /\ UNCHANGED hitch /\ Quits("failed")
       \/ /\ UsawQtData(source) # <<>>
          /\ todo' = UsawQtData(source)
          /\ payload' = Joined([i \in DOMAIN todo' |-> todo'[i][1] :> todo'[i][2]])
          /\ pc' = "write"
          /\ UNCHANGED <<job, source, rows, tally, hitch, before, last, said, lost, exit, left>>

\* One transaction.
WriteSet ==
    /\ pc = "write" /\ job \in {"standards", "usamw_qt"}
    /\ Upsert(DOMAIN payload)
    /\ UNCHANGED hitch

\* Each row is looked up and then updated or inserted, on its own: a run that
\* dies leaves the rows before.
UsawQtWrite ==
    /\ pc = "write" /\ job = "usaw_qt" /\ todo # <<>>
    /\ todo' = Tail(todo)
    /\ LET k == Head(todo)[1]
           value == Head(todo)[2]
           stored == Held(rows, k)
       IN rows' = Holding(rows, k, IF stored = <<>> THEN <<value>> ELSE [stored EXCEPT ![1] = value])
    /\ UNCHANGED <<job, source, pc, payload, tally, hitch, before, last, said, lost, exit, left>>

UsawQtDone ==
    /\ pc = "write" /\ job = "usaw_qt" /\ todo = <<>>
    /\ Ends("ok", TRUE)
    /\ UNCHANGED <<rows, hitch, said, lost>>

\* Only the standards have a webhook.
StandardsReport ==
    /\ pc = "notify" /\ job = "standards"
    /\ Posts
    /\ Ends("ok", TRUE)
    /\ UNCHANGED <<rows, hitch>>

UsamwQtDone ==
    /\ pc = "notify" /\ job = "usamw_qt"
    /\ Ends("ok", TRUE)
    /\ UNCHANGED <<rows, hitch, said, lost>>

Step ==
    \/ StandardsScrape \/ UsamwQtScrape \/ UsawQtScrape \/ WriteSet
    \/ UsawQtWrite \/ UsawQtDone \/ StandardsReport \/ UsamwQtDone
=============================================================================
