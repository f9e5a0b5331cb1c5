----------------------------- MODULE RecordJobs -----------------------------
(***************************************************************************)
(* The six scrapers of the record tables.  A record is kept per class (a   *)
(* section, which is an age category and a gender, and a weight class) and  *)
(* holds the best snatch, clean and jerk, and total.                        *)
(*   usaw     USA Weightlifting American records, one PDF of table cells     *)
(*   masters  USAMW masters records, one PDF with a section per page         *)
(*   umwf     UMWF world records, one published sheet per section            *)
(*   usamw    USAMW national records, one PDF for the men, one for the women *)
(*   bwl      British records, tables or pictures, written through REST      *)
(*   iwf      IWF world records, one page per section, replaced as a whole   *)
(***************************************************************************)
EXTENDS RecordTables, FiniteSetsExt

CONSTANTS
    FullSize, AgeOfPage         \* masters: pages of a PDF whose ages are known by position

Jobs == {"usaw", "masters", "umwf", "usamw", "bwl", "iwf"}

(***************************************************************************)
(* Parsers                                                                 *)
(***************************************************************************)
UsawCell(recs, c) ==
    IF Unreadable \in {c.age, c.gender, c.class} \/ c.value = NoValue THEN recs
    ELSE Put(recs, <<<<c.age, c.gender>>, c.class>>, c.lift, c.value)

UsawRecords(pdf) == FoldLeft(UsawCell, Nothing, pdf)

PutLines(recs, section, lines) ==
    FoldLeft(LAMBDA r, c : IF c.class = Unreadable \/ c.value = NoValue THEN r
                           ELSE Put(r, <<section, c.class>>, c.lift, c.value),
             recs, lines)

\* A masters page without a readable heading takes its age category from its
\* position when the PDF has the known number of pages, else from the page before.
MastersRecords(pdf) ==
    LET Page(st, i) ==
          LET p == pdf[i]
              gender == IF p.gender # Unreadable THEN p.gender ELSE st.gender
              age == IF p.age # Unreadable THEN p.age
                     ELSE IF Len(pdf) = FullSize THEN AgeOfPage[i] ELSE st.age
          IN [age |-> age, gender |-> gender,
              recs |-> IF Unreadable \in {age, gender} THEN st.recs
                       ELSE PutLines(st.recs, <<age, gender>>, p.lines)]
    IN FoldLeftDomain(Page, [age |-> Unreadable, gender |-> Unreadable, recs |-> Nothing],
                      pdf).recs

\* A sheet is a list of class headings and lift rows.  A lift row belongs to
\* the latest heading that was readable: the record of an unreadable heading
\* is the one before it, already in the list and still being filled.
UmwfSheet(section, sheet) ==
    LET Row(st, r) ==
          IF r.heading
          THEN IF r.class = Unreadable THEN st
               ELSE [class |-> r.class,
                     recs |-> (<<section, r.class>> :> NoLifts) @@ st.recs]
          ELSE IF st.class = Unreadable \/ r.value = NoValue THEN st
               ELSE [st EXCEPT !.recs = Put(@, <<section, st.class>>, r.lift, r.value)]
    IN FoldLeft(Row, [class |-> Unreadable, recs |-> Nothing], sheet).recs

\* The sheets that were fetched; a failed one is left out and not reported.
UmwfRecords(sheets, fetched) ==
    [k \in UNION {DOMAIN UmwfSheet(s, sheets[s]) : s \in fetched} |->
        UmwfSheet(k[1], sheets[k[1]])[k]]

\* A page of the national PDFs without a readable heading is skipped whole.
UsamwRecords(pdfs) ==
    LET Pages(g) ==
          FoldLeft(LAMBDA recs, p : IF p.age = Unreadable THEN recs
                                    ELSE PutLines(recs, <<p.age, g>>, p.lines),
                   Nothing, pdfs[g])
    IN [k \in UNION {DOMAIN Pages(g) : g \in Genders} |-> Pages(k[1][2])[k]]

\* Rows of a British table count when they hold a value; of a picture, always.
BwlRows(c, readable) ==
    IF c.table THEN {r \in ToSet(c.rows) : r.lifts # NoLifts}
    ELSE IF c.section \in readable THEN ToSet(c.rows) ELSE {}

\* The first category of a section counts, and of it the row of each class.
BwlRecords(categories, readable) ==
    LET First(s) == categories[Min({i \in DOMAIN categories : categories[i].section = s})]
        Rows(s) == BwlRows(First(s), readable)
        found == {c.section : c \in ToSet(categories)}
    IN [k \in UNION {{<<s, r.class>> : r \in Rows(s)} : s \in found} |->
            (CHOOSE r \in Rows(k[1]) : r.class = k[2]).lifts]

\* A page of the IWF is a list of headings, each with its cards; one that is not
\* of a class or has no cards is passed over.  A page that fails is left out.
IwfPage(section, page) ==
    LET classes == SelectSeq(page, LAMBDA c : c.class # Unreadable /\ c.cards)
    IN Joined([i \in DOMAIN classes |-> <<section, classes[i].class>> :> classes[i].lifts])

IwfRecords(pages, fetched) ==
    FoldSet(LAMBDA s, recs : IwfPage(s, pages[s]) @@ recs, Nothing, fetched)

(***************************************************************************)
(* A run.  usaw, masters, umwf and bwl only print when the site cannot be   *)
(* read or shows no record, and exit with 0; usamw raises.                  *)
(***************************************************************************)
UsawScrape ==
    /\ pc = "scrape" /\ job = "usaw"
    /\ \/ RequestFails("ok")                        \* the page, or the PDF
       \/ ~source.link /\ UNCHANGED hitch /\ Quits("ok")
       \/ source.link /\ Parsed(UsawRecords(source.pdf), FALSE, "ok")

MastersScrape ==
    /\ pc = "scrape" /\ job = "masters"
    /\ RequestFails("ok") \/ Parsed(MastersRecords(source), FALSE, "ok")

UmwfScrape ==
    /\ pc = "scrape" /\ job = "umwf"
    /\ \E failed \in OneFails(Sections) :
          Parsed(UmwfRecords(source, Sections \ failed), failed # {}, "ok")

UsamwScrape ==
    /\ pc = "scrape" /\ job = "usamw"
    /\ \/ RequestFails("failed")
       \/ source.links # Genders /\ UNCHANGED hitch /\ Quits("failed")
       \/ /\ source.links = Genders
          /\ Parsed(UsamwRecords(source.pdfs), FALSE, "failed")

BwlScrape ==
    /\ pc = "scrape" /\ job = "bwl"
    /\ LET pictures == {c.section : c \in {d \in ToSet(source) : ~d.table}} IN
       \/ RequestFails("ok")
       \/ \E failed \in OneFails(pictures) :
             Parsed(BwlRecords(source, pictures \ failed), failed # {}, "ok")

IwfScrape ==
    /\ pc = "scrape" /\ job = "iwf"
    /\ \E failed \in OneFails(Sections) :
          Parsed(IwfRecords(source, Sections \ failed), failed # {}, "failed")

\* usaw, usamw: one transaction, a failing row undoes it and ends the run (Dies).
WriteAll ==
    /\ pc = "write" /\ job \in {"usaw", "usamw"}
    /\ Upsert(DOMAIN payload)
    /\ UNCHANGED hitch

\* masters, umwf: one transaction, a failing row is undone alone and printed.
WriteEach ==
    /\ pc = "write" /\ job \in {"masters", "umwf"}
    /\ \E bad \in OneFails(DOMAIN payload) :
          /\ Upsert(DOMAIN payload \ bad)
          /\ hitch' = (hitch \/ bad # {})

\* bwl: each row is looked up and patched or posted on its own.  An answer to
\* the lookup that is not 200 counts as "no such row".
BwlWrite ==
    /\ pc = "write" /\ job = "bwl" /\ todo # <<>>
    /\ todo' = Tail(todo)
    /\ \E answered, accepted \in IF hitch THEN {TRUE} ELSE BOOLEAN :   \* bound, as OneFails
          LET k == Head(todo)
              stored == Held(rows, k)
              found == answered /\ stored # <<>>
              same == found /\ stored[1] = payload[k]
              written == ~same /\ accepted
          IN /\ hitch' = (hitch \/ ~answered \/ (~same /\ ~accepted))
             /\ rows' = IF ~written THEN rows
                        ELSE IF found THEN Holding(rows, k, [stored EXCEPT ![1] = payload[k]])
                        ELSE Holding(rows, k, Append(stored, payload[k]))
             /\ tally' = IF ~written THEN tally
                         ELSE IF found THEN [tally EXCEPT !.updated = @ \union {k}]
                         ELSE [tally EXCEPT !.inserted = @ \union {k}]
    /\ UNCHANGED <<job, source, pc, payload, before, last, said, lost, exit, left>>

\* No more rows, or no answer at all: the rows after this one are not tried.
BwlStops ==
    /\ pc = "write" /\ job = "bwl"
    /\ pc' = "notify" /\ todo' = <<>>
    /\ hitch' = (hitch \/ todo # <<>>)
    /\ UNCHANGED <<job, source, rows, payload, tally, before, last, said, lost, exit, left>>

\* iwf: what is new and changed, compared with what was read of the table.
IwfCompared(seen) ==
    [NoTally EXCEPT !.inserted = {k \in DOMAIN payload : Held(seen, k) = <<>>},
                    !.updated = {k \in DOMAIN payload : Held(seen, k) \notin {<<>>, <<payload[k]>>}}]

\* A table that cannot be read looks empty.  Then all of it is deleted and what
\* was scraped inserted, in one transaction.  One that fails is told to Slack in
\* place of the counts, and the exit status is 0.
IwfReplace ==
    /\ pc = "write" /\ job = "iwf"
    /\ pc' = "notify" /\ todo' = <<>>
    /\ \/ /\ rows' = WithRows([k \in DOMAIN rows |-> <<>>], DOMAIN payload, payload)
          /\ \E seen \in {rows, [k \in DOMAIN rows |-> <<>>]} :
                tally' = IwfCompared(seen) /\ hitch' = (hitch \/ seen # rows)
       \/ hitch' = TRUE /\ UNCHANGED <<rows, tally>>
    /\ UNCHANGED <<job, source, payload, before, last, said, lost, exit, left>>

Report ==
    /\ pc = "notify" /\ job \in Jobs
    /\ Posts
    /\ Ends("ok", ~hitch)
    /\ UNCHANGED <<rows, hitch>>

Step ==
    \/ UsawScrape \/ MastersScrape \/ UmwfScrape \/ UsamwScrape \/ BwlScrape \/ IwfScrape
    \/ WriteAll \/ WriteEach \/ BwlWrite \/ BwlStops \/ IwfReplace \/ Report
=============================================================================
