------------------------------ MODULE WsoJobs ------------------------------
(***************************************************************************)
(* The thirteen scrapers of the records of the weightlifting state          *)
(* organisations (WSO).  Each has a layout of its own, read from the tabs   *)
(* of a Google sheet or from PDFs, and all of them hand the whole set to    *)
(* one exact-set write: the WSO's rows become what was parsed, a class the  *)
(* source no longer lists is deleted.  So a source that is partly broken    *)
(* has to be refused.                                                       *)
(***************************************************************************)
EXTENDS RecordTables, FiniteSetsExt

CONSTANTS
    AgesOf,             \* tab group -> its age categories, in the order of the tab
    PlusOf,             \* class -> the open class above it
    RowBelow,            \* lift -> its row below the first row of a class
    TopRows,            \* Carolinas: the rows whose header is the tab's own (6)
    Expected,           \* EXPECTED_PDFS
    MinClasses,         \* Illinois: MIN_RECORD_ROWS
    AdultAges,          \* Illinois: ADULT_AGE_GROUPS
    Corrections,        \* Illinois: TOTAL_CORRECTIONS
    MinShrinkAllowed,   \* MIN_WSO_SHRINK_ALLOWED
    ByHand              \* the jobs run with --allow-shrink

TabJobs == {"ohio", "pawv", "carolinas", "florida", "new_jersey"}
FlatJobs == {"california_south", "dmv", "flat"}
PdfJobs == {"mountain_south", "new_england", "new_york"}
Jobs == TabJobs \union FlatJobs \union PdfJobs \union {"tnky", "illinois"}

AgeGroups == DOMAIN AgesOf
Tabs(j) == IF j \in {"ohio", "pawv"} THEN AgeGroups \X Genders
           ELSE IF j = "carolinas" THEN AgeGroups ELSE Ages

(***************************************************************************)
(* Layouts                                                                 *)
(***************************************************************************)
Open(st, class) == [st EXCEPT !.class = class, !.lifts = NoLifts]
StartAge(group) == IF Len(AgesOf[group]) = 1 THEN AgesOf[group][1] ELSE Unreadable

\* Ohio: age rows, class rows and lift rows below one another.  A class is
\* saved at its Total or at the next class; its first listing stays.
OhioTab(tab, lines) ==
    LET Save(st) ==
          LET key == <<<<st.age, tab[2]>>, st.class>> IN
          IF Unreadable \in {st.age, st.class} \/ key \in DOMAIN st.recs THEN st
          ELSE [st EXCEPT !.recs = (key :> st.lifts) @@ @]
        Line(st, r) ==
          CASE r.kind = "age" /\ r.age = Unreadable -> st
            [] r.kind = "age" /\ r.age # Unreadable ->
                  [st EXCEPT !.age = r.age, !.class = Unreadable]
            [] r.kind = "class" -> Open(Save(st), r.class)
            [] r.kind = "lift" /\ r.lift # "total" -> [st EXCEPT !.lifts[r.lift] = r.value]
            [] r.kind = "lift" /\ r.lift = "total" ->
                  Open(Save([st EXCEPT !.lifts["total"] = r.value]), Unreadable)
    IN Save(FoldLeft(Line, [age |-> StartAge(tab[1]), class |-> Unreadable,
                            lifts |-> NoLifts, recs |-> Nothing], lines)).recs

\* Pennsylvania-West Virginia: the same rows.  A class is saved at the next
\* heading of either kind; an unreadable class heading leaves the one before
\* it open, an unreadable age heading leaves the age.
PawvTab(tab, lines) ==
    LET Save(st) ==
          IF Unreadable \in {st.age, st.class} THEN st
          ELSE [st EXCEPT !.recs = (<<<<st.age, tab[2]>>, st.class>> :> st.lifts) @@ @]
        Age(r) == IF StartAge(tab[1]) # Unreadable THEN StartAge(tab[1]) ELSE r.age
        Line(st, r) ==
          CASE r.kind = "age" /\ Age(r) = Unreadable -> st
            [] r.kind = "age" /\ Age(r) # Unreadable ->
                  [Open(Save(st), Unreadable) EXCEPT !.age = Age(r)]
            [] r.kind = "class" /\ r.class = Unreadable -> Save(st)
            [] r.kind = "class" /\ r.class # Unreadable -> Open(Save(st), r.class)
            [] r.kind = "lift" -> [st EXCEPT !.lifts[r.lift] = r.value]
    IN Save(FoldLeft(Line, [age |-> StartAge(tab[1]), class |-> Unreadable,
                            lifts |-> NoLifts, recs |-> Nothing], lines)).recs

\* Men and women side by side.  A side whose class is blank is the open class
\* above the last one read on it, also where the side has simply ended.
Side(above, side) ==
    IF side.class # Blank THEN side.class
    ELSE IF above = Blank THEN Blank ELSE PlusOf[above]

SideBySide(age, above, block, recs, Together(_, _)) ==
    LET key(g) == <<<<age, g>>, Side(above[g], block[g])>>
        new == [k \in {key(g) : g \in {h \in Genders : Side(above[h], block[h]) # Blank}} |->
                    LET lifts == block[k[1][2]].lifts
                    IN IF k \in DOMAIN recs THEN Together(recs[k], lifts) ELSE lifts]
    IN new @@ recs

\* A slip: the class read on a side is not remembered for the blank below it.
Forgotten(above, block) == above

LastRead(above, block) ==
    [g \in Genders |-> IF Side(above[g], block[g]) \in DOMAIN PlusOf
                       THEN Side(above[g], block[g]) ELSE above[g]]

NoneRead == [g \in Genders |-> Blank]
Later(old, new) == new

\* A row per lift.  A class starts where either side names the first lift; the
\* others are read from the rows below, whatever these say they hold.
Starts(line) == \E g \in Genders : line[g].lift \in {l \in Lifts : RowBelow[l] = 0}

ClassAt(lines, i) ==
    LET Value(g, l) == IF i + RowBelow[l] \in DOMAIN lines
                       THEN lines[i + RowBelow[l]][g].value ELSE NoValue
    IN [g \in Genders |-> [class |-> lines[i][g].class, lifts |-> [l \in Lifts |-> Value(g, l)]]]

\* A header below the rows at the top starts the next age category; past the
\* last one the classes stay in it.
Heads(line) == \A g \in Genders : line[g].lift = "header"

LiftRows(ages, top, lines) ==
    LET Line(st, i) ==
          IF Heads(lines[i]) /\ i > top
          THEN [st EXCEPT !.age = Min({@ + 1, Len(ages)}), !.above = NoneRead]
          ELSE IF ~Starts(lines[i]) THEN st
          ELSE [st EXCEPT !.recs = SideBySide(ages[st.age], st.above, ClassAt(lines, i), @, Later),
                          !.above = LastRead(@, ClassAt(lines, i))]
    IN FoldLeft(Line, [age |-> 1, above |-> NoneRead, recs |-> Nothing],
                [i \in DOMAIN lines |-> i]).recs

CarolinasTab(group, lines) == LiftRows(AgesOf[group], TopRows, lines)

\* Florida: a tab per age category, headers are passed over.
FloridaTab(age, lines) == LiftRows(<<age>>, Len(lines), lines)

\* New Jersey: a row per class below the tab's header; of a class listed again
\* the best of each lift.
Best(old, new) == [l \in Lifts |-> Max({old[l], new[l]})]

NewJerseyTab(age, blocks) ==
    LET Row(st, b) ==
          [recs |-> SideBySide(age, st.above, b, st.recs, Best),
           above |-> LastRead(st.above, b)]
    IN FoldLeft(Row, [above |-> NoneRead, recs |-> Nothing], SubSeq(blocks, 2, Len(blocks))).recs

\* Georgia, Pacific Northwest, California North: a lift per row.  The class is
\* the upper bound of the range of body weights; without one it is open.
FlatClass(r) ==
    IF r.max # Blank THEN r.max ELSE IF r.min # Blank THEN PlusOf[r.min] ELSE Blank

FlatRecords(lines) ==
    LET Row(recs, r) ==
          IF Unreadable \in {r.age, r.gender} \/ FlatClass(r) = Blank \/ r.lift \notin Lifts
          THEN recs ELSE Put(recs, <<<<r.age, r.gender>>, FlatClass(r)>>, r.lift, r.value)
    IN FoldLeft(Row, Nothing, lines)

\* The same loop over other columns.
DmvRecords(lines) == FlatRecords(lines)
CaliforniaSouthRecords(lines) == FlatRecords(lines)

\* Tennessee-Kentucky: a section has a row of classes and nine rows below it;
\* one that the sheet ends within is passed over.
TnkyRecords(sections) ==
    LET Column(s, class, l) ==
          FoldLeft(LAMBDA v, c : IF c.class = class /\ c.lifts[l] # NoValue
                                 THEN c.lifts[l] ELSE v, NoValue, s.columns)
        Section(recs, s) ==
          IF Unreadable \in {s.age, s.gender} \/ ~s.whole THEN recs
          ELSE [k \in {<<<<s.age, s.gender>>, c.class>> :
                          c \in {d \in ToSet(s.columns) : d.class # Unreadable}} |->
                    [l \in Lifts |-> Column(s, k[2], l)]] @@ recs
    IN FoldLeft(Section, Nothing, sections)

\* Mountain South: a page has sections of one lift each, and forgets the
\* section of the page before.
MountainSouthPdf(pages) ==
    LET Line(st, r) ==
          CASE r.kind = "section" ->
                  IF Unreadable \in {r.age, r.gender} THEN st
                  ELSE [st EXCEPT !.section = <<r.age, r.gender>>, !.lift = r.lift]
            [] r.kind = "row" ->
                  IF st.lift = Blank THEN st
                  ELSE [st EXCEPT !.recs = Put(@, <<st.section, r.class>>, st.lift, r.value)]
        Page(recs, page) ==
          FoldLeft(Line, [section |-> <<>>, lift |-> Blank, recs |-> recs], page).recs
    IN FoldLeft(Page, Nothing, pages)

\* New York: tables with a section heading, then a row per lift, the first of a
\* class naming it.  A class is saved when the next one begins.
NewYorkTable(table) ==
    LET Save(st) ==
          IF st.section = <<>> \/ st.class = Blank THEN st
          ELSE [st EXCEPT !.recs = (<<st.section, st.class>> :> st.lifts) @@ @]
        Row(st, r) ==
          IF r.kind = "section"
          THEN IF Unreadable \in {r.age, r.gender} THEN st
               ELSE [st EXCEPT !.section = <<r.age, r.gender>>]
          ELSE LET at == IF r.class = Blank THEN st ELSE Open(Save(st), r.class)
               IN [at EXCEPT !.lifts[r.lift] = r.value]
    IN Save(FoldLeft(Row, [section |-> <<>>, class |-> Blank,
                           lifts |-> NoLifts, recs |-> Nothing], table)).recs

\* New England: the same, with the value in another column.
NewEnglandTable(table) == NewYorkTable(table)

(***************************************************************************)
(* Illinois: a lift per line of the PDF.  Two values of a lift conflict     *)
(* unless one of them is zero.  A PDF with a missing page, too few classes, *)
(* a missing adult age group, or more classes for one gender is refused.    *)
(***************************************************************************)
IllinoisKey(r) == <<<<r.age, r.gender>>, r.class>>

Written(read, k, l) == {r.value : r \in {s \in read : IllinoisKey(s) = k /\ s.lift = l}}

\* The record of a lift; a total that is known to be wrong is corrected.
IllinoisValue(read, k, l) ==
    LET value == Max(Written(read, k, l) \union {NoValue})
        checked == {c \in Corrections : <<c.key, "total", c.written>> = <<k, l, value>>}
    IN IF checked = {} THEN value ELSE (CHOOSE c \in checked : TRUE).total

\* Nothing in the PDF contradicts what was read or shows that some is missing.
IllinoisValid(lines, read, keys) ==
    LET pages == {r.number : r \in {s \in ToSet(lines) : s.kind = "footer"}}
        Listed(a, g) == {k \in keys : k[1] = <<a, g>>}
        found == {x \in keys \X Lifts : Written(read, x[1], x[2]) # {}}
    IN /\ \A x \in found : Cardinality(Written(read, x[1], x[2]) \ {NoValue}) <= 1
       /\ \A p \in pages : 1..p \subseteq pages
       /\ Cardinality(keys) >= MinClasses
       /\ Cardinality(found) >= Cardinality(Lifts) * MinClasses
       /\ \A a \in AdultAges, g \in Genders : Listed(a, g) # {}
       /\ \A a \in Ages, g, h \in Genders : Cardinality(Listed(a, g)) = Cardinality(Listed(a, h))

IllinoisRead(lines) ==
    LET read == {r \in ToSet(lines) : r.kind = "row"}
        keys == {IllinoisKey(r) : r \in read}
    IN IF /\ \A r \in ToSet(lines) : r.kind # "unparsed"
          /\ \A r \in read : r.age # Unreadable
          /\ IllinoisValid(lines, read, keys)
       THEN {[k \in keys |-> [l \in Lifts |-> IllinoisValue(read, k, l)]]} ELSE {}

(***************************************************************************)
(* Reading a source: {records}, or {} when it is refused.                   *)
(***************************************************************************)
\* A slip: an empty part goes unnoticed among the others.
AnyPart(parts) == {Joined(parts)}

\* A part (tab, PDF) that parsed to nothing is refused.
EveryPart(parts) ==
    IF \E i \in DOMAIN parts : parts[i] = Nothing THEN {} ELSE {Joined(parts)}

\* Google answers a tab that is gone with the sheet's front tab.
Served(sheet, tab) == IF tab \in sheet.gone THEN sheet.front ELSE sheet.tabs[tab]

EachTab(names, sheet, Parse(_, _)) ==
    LET tabs == Listing(names) IN [i \in DOMAIN tabs |-> Parse(tabs[i], Served(sheet, tabs[i]))]

\* fetch_gviz_tabs: only the tab known to be the front one may read like it.
GvizTabs(names, sheet, first, Parse(_, _)) ==
    IF \E t \in names : Served(sheet, t) = sheet.front /\ t # first THEN {}
    ELSE EveryPart(EachTab(names, sheet, Parse))

\* Ohio's tabs are asked for by name; two that read alike are refused.
OhioRead(sheet) ==
    LET names == Tabs("ohio") IN
    IF \E t, u \in names : t # u /\ Served(sheet, t) = Served(sheet, u) THEN {}
    ELSE EveryPart(EachTab(names, sheet, OhioTab))

\* Pennsylvania-West Virginia's published tabs fail when they are gone.
PawvRead(sheet) ==
    IF sheet.gone # {} THEN {} ELSE EveryPart(EachTab(Tabs("pawv"), sheet, PawvTab))

CarolinasRead(sheet) == GvizTabs(Tabs("carolinas"), sheet, "youth", CarolinasTab)
FloridaRead(sheet) == GvizTabs(Tabs("florida"), sheet, "none", FloridaTab)
NewJerseyRead(sheet) == GvizTabs(Tabs("new_jersey"), sheet, "none", NewJerseyTab)

Distinct(s) == FoldLeft(LAMBDA seen, x : IF x \in ToSet(seen) THEN seen ELSE Append(seen, x), <<>>, s)
Linked(links) == Distinct([i \in DOMAIN links |-> links[i].pdf])
FirstTwo(s) == SubSeq(s, 1, Min({2, Len(s)}))

\* The PDFs taken from the page.  Mountain South takes the first two of a known
\* gender, or else the first two.
MountainSouthLinks(links) ==
    LET records == SelectSeq(links, LAMBDA k : ~k.certificate)
        known == Linked(SelectSeq(records, LAMBDA k : k.gender # Unreadable))
    IN FirstTwo(IF Len(known) >= 2 THEN known ELSE Linked(records))

NewYorkLinks(links) == Linked(SelectSeq(links, LAMBDA k : k.current))
NewEnglandLinks(links) == Linked(links)

PdfsRead(site, pdfs, Parse(_)) ==
    IF Len(pdfs) # Expected THEN {}
    ELSE EveryPart([i \in DOMAIN pdfs |-> Parse(site.pdfs[pdfs[i]])])

TablesOf(Parse(_), pdf) == Joined([i \in DOMAIN pdf |-> Parse(pdf[i])])

MountainSouthRead(site) == PdfsRead(site, MountainSouthLinks(site.links), MountainSouthPdf)
NewYorkRead(site) ==
    PdfsRead(site, NewYorkLinks(site.links), LAMBDA pdf : TablesOf(NewYorkTable, pdf))
NewEnglandRead(site) ==
    PdfsRead(site, NewEnglandLinks(site.links), LAMBDA pdf : TablesOf(NewEnglandTable, pdf))

Read(j, site) ==
    CASE j = "ohio" -> OhioRead(site)
      [] j = "pawv" -> PawvRead(site)
      [] j = "carolinas" -> CarolinasRead(site)
      [] j = "florida" -> FloridaRead(site)
      [] j = "new_jersey" -> NewJerseyRead(site)
      [] j = "california_south" -> {CaliforniaSouthRecords(site)}
      [] j = "dmv" -> {DmvRecords(site)}
      [] j = "flat" -> {FlatRecords(site)}
      [] j = "tnky" -> EveryPart(<<TnkyRecords(site)>>)
      [] j = "illinois" -> IllinoisRead(site)
      [] j = "mountain_south" -> MountainSouthRead(site)
      [] j = "new_york" -> NewYorkRead(site)
      [] j = "new_england" -> NewEnglandRead(site)

(***************************************************************************)
(* A run                                                                   *)
(***************************************************************************)
WsoScrape ==
    /\ pc = "scrape" /\ job \in Jobs
    /\ \/ RequestFails("failed")
       \/ Read(job, source) = {} /\ UNCHANGED hitch /\ Quits("failed")
       \/ \E records \in Read(job, source) : Parsed(records, FALSE, "failed")

\* One transaction.  Of a class stored more than once the first row is kept.
\* More than a quarter of the classes gone, and more than a few, is refused.
WsoSync ==
    /\ pc = "write" /\ job \in Jobs
    /\ LET stored == {k \in DOMAIN rows : rows[k] # <<>>}
           copied == {k \in stored : Len(rows[k]) > 1}
           dropped == stored \ DOMAIN payload
           shrinks == /\ Cardinality(dropped) > MinShrinkAllowed
                      /\ 4 * Cardinality(dropped) > Cardinality(stored)
       IN IF shrinks /\ job \notin ByHand
          THEN UNCHANGED hitch /\ Quits("failed")
          ELSE /\ rows' = WithRows([k \in DOMAIN rows |-> <<>>], DOMAIN payload, payload)
               /\ tally' = [inserted |-> DOMAIN payload \ stored,
                            updated |-> {k \in stored \ dropped : rows[k][1] # payload[k]},
                            deleted |-> dropped \union copied]
               /\ pc' = "notify"
               /\ UNCHANGED <<job, source, payload, todo, hitch, before, last, said,
                              lost, exit, left>>

\* The counts come from the sync, except in the scrapers that still look at
\* lists of their own, which nothing fills: those never post.
SilentEnd ==
    /\ pc = "notify"
    /\ job \in (TabJobs \ {"pawv"}) \union FlatJobs \union {"tnky"}
    /\ Ends("ok", TRUE)
    /\ UNCHANGED <<rows, hitch, said, lost>>

\* A post that fails raises: the run fails after its rows are stored.
RaisingEnd ==
    /\ pc = "notify" /\ job \in {"pawv", "illinois"}
    /\ \/ Posts /\ Ends("ok", TRUE)
       \/ tally # NoTally /\ lost' = TRUE /\ UNCHANGED said /\ Ends("failed", TRUE)
    /\ UNCHANGED <<rows, hitch>>

LoggingEnd ==
    /\ pc = "notify" /\ job \in PdfJobs
    /\ Posts
    /\ Ends("ok", TRUE)
    /\ UNCHANGED <<rows, hitch>>

Step == WsoScrape \/ WsoSync \/ SilentEnd \/ RaisingEnd \/ LoggingEnd
=============================================================================
