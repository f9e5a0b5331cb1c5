-------------------------- MODULE ScheduleReaders --------------------------
(***************************************************************************)
(* How final_scraper.py reads the schedule of a meet out of a PDF.  A slot  *)
(* is one platform of one session: a date, a time (of the weigh-in and of    *)
(* the start) and the classes that lift then.  The PDF comes in one of four  *)
(* layouts, and a start list can name the classes of slots that show none.   *)
(* Dates, times and sessions are numbers, and 0 stands for a blank one.      *)
(***************************************************************************)
EXTENDS Naturals, Sequences, SequencesExt, FiniteSetsExt, TLC

CONSTANTS
    PlatformSeq,        \* PLATFORM_SORT_ORDER
    FirstRows,          \* rows of a section that are searched for its date
    LookBack,           \* rows above a header that are
    MisprintedSession   \* the session whose platform was misprinted once

Order(p) == CHOOSE i \in DOMAIN PlatformSeq : PlatformSeq[i] = p
Blank == "blank"
NoClass == [category |-> Blank, group |-> Blank, weight |-> 0]

Slot(d, s, p, t, label) == [date |-> d, session |-> s, platform |-> p, time |-> t, label |-> label]

(***************************************************************************)
(* Labels.  A class has a category, a group, a weight, and may be entered   *)
(* for a state championship (wso) or be a mere marker.                      *)
(***************************************************************************)
Weights(classes) == {[category |-> "WSO", group |-> Blank, weight |-> c.weight] : c \in classes}

\* A marker is not shown when a category of its group covers its weight.
Shown(classes) ==
    LET covered(c) == \E d \in classes : /\ ~d.marker /\ d.category # Blank
                                         /\ d.group = c.group /\ d.weight = c.weight
    IN {[category |-> c.category, group |-> c.group, weight |-> c.weight] :
            c \in {x \in classes : ~(x.marker /\ covered(x))}}

CompactLabel(classes) ==
    IF \A c \in classes : c.wso THEN Weights(classes) ELSE Shown({c \in classes : ~c.wso})

(***************************************************************************)
(* The compact layout: lines that are a session number, a slot (with its     *)
(* total of lifters, and perhaps its first class) or a class.  A slot takes   *)
(* classes until its total is reached; the classes after that wait for the    *)
(* next slot.                                                                *)
(***************************************************************************)
Short(row) == row.target > 0 /\ row.total < row.target
Full(row) == row.target > 0 /\ row.total >= row.target

Finish(st) == [st EXCEPT !.rows = @ \o st.current, !.current = <<>>]

AddClass(st, c) ==
    IF st.current = <<>> THEN [st EXCEPT !.pending = Append(@, c)]
    ELSE LET row == [st.current[1] EXCEPT !.classes = @ \union {c}, !.total = @ + c.count]
             added == [st EXCEPT !.current = <<row>>]
         IN IF Full(row) THEN Finish(added) ELSE added

\* The waiting classes go to a new slot.  When it is full before the last of them,
\* the loop over them appends to the list it walks and does not end.
AddPending(st) ==
    LET added == FoldLeft(AddClass, [st EXCEPT !.pending = <<>>], st.pending)
    IN [added EXCEPT !.hangs = @ \/ added.pending # <<>>, !.pending = <<>>]

SessionLine(st, line) ==
    IF \E row \in ToSet(st.current) : row.session = line.session /\ Short(row) THEN st
    ELSE [Finish(st) EXCEPT !.next = line.session, !.session = line.session, !.order = 0]

\* A slot line may repeat the slot that is being filled.  It has a session of its
\* own, or that slot's, or the last session number's, or else a platform that does
\* not come after the one before begins another session.
SlotLine(st, line) ==
    LET same == \E row \in ToSet(st.current) :
                    row.platform = line.platform /\ row.time = line.time /\ Short(row)
        session ==
            IF line.session # 0 THEN line.session
            ELSE IF same THEN st.current[1].session
            ELSE IF st.next # 0 THEN st.next
            ELSE IF st.session = 0 THEN 1
            ELSE IF st.order # 0 /\ Order(line.platform) <= st.order THEN st.session + 1
            ELSE st.session
        placed == [st EXCEPT !.session = session, !.order = Order(line.platform),
                             !.next = IF line.session = 0 /\ same THEN @ ELSE 0]
        inline(s) == IF line.class = <<>> THEN s ELSE AddClass(s, line.class[1])
        row == [session |-> session, platform |-> line.platform, time |-> line.time,
                target |-> line.target, classes |-> {}, total |-> 0]
    IN IF same /\ st.current[1].session = session
       THEN inline(IF line.target = 0 THEN placed
                   ELSE [placed EXCEPT !.current[1].target = line.target])
       ELSE inline(AddPending([Finish(placed) EXCEPT !.current = <<row>>]))

CompactLine(st, line) ==
    CASE line.kind = "session" -> SessionLine(st, line)
      [] line.kind = "slot" -> SlotLine(st, line)
      [] line.kind = "class" -> AddClass(st, line.class[1])
      [] OTHER -> st

\* The rows of one slot become one, and the day ends where a new session starts
\* earlier than the row before it.
Dated(first, rows) ==
    LET Key(row) == <<row.session, row.time, row.platform>>
        Merge(merged, row) ==
            LET i == SelectInSeq(merged, LAMBDA m : Key(m) = Key(row))
            IN IF i = 0 THEN Append(merged, row)
               ELSE [merged EXCEPT ![i].classes = @ \union row.classes]
        Date(st, row) ==
            LET new == st.session # 0 /\ row.session # st.session /\ row.time < st.time
                date == IF new THEN st.date + 1 ELSE st.date
            IN [date |-> date, session |-> row.session, time |-> row.time,
                slots |-> st.slots \union
                    {Slot(date, row.session, row.platform, row.time, CompactLabel(row.classes))}]
    IN FoldLeft(Date, [date |-> first, session |-> 0, time |-> 0, slots |-> {}],
                FoldLeft(Merge, <<>>, rows)).slots

CompactSlots(lines) ==
    LET read == FoldLeft(CompactLine, [rows |-> <<>>, current |-> <<>>, pending |-> <<>>, session |-> 0,
                                       next |-> 0, order |-> 0, hangs |-> FALSE], lines)
        dates == SelectSeq(lines, LAMBDA line : line.date # 0)
    IN [dateless |-> dates = <<>>, hangs |-> read.hangs,
        slots |-> IF dates = <<>> THEN {} ELSE Dated(dates[1].date, Finish(read).rows)]

(***************************************************************************)
(* The preliminary layout: tables of rows, one class in a row, whose columns *)
(* a header names.  A row is readable under a header with its own columns.   *)
(***************************************************************************)
\* The date and session of a row, once given, hold for the rows below it; those of
\* a row that was read hold for the tables after this one, too.
PrelimRow(columns, st, row) ==
    LET date == IF row.date # 0 THEN row.date ELSE st.date
        session == IF row.session # 0 THEN row.session ELSE st.session
    IN CASE row.kind = "date" -> [st EXCEPT !.date = row.date, !.kept.date = row.date]
         [] row.kind = "class" /\ row.columns = columns /\ (date = 0 \/ session = 0) ->
              [st EXCEPT !.date = date, !.session = session]
         [] row.kind = "class" /\ row.columns = columns /\ date # 0 /\ session # 0 ->
              [st EXCEPT !.date = date, !.session = session, !.kept = [date |-> date, session |-> session],
                         !.rows = Append(@, [row EXCEPT !.date = date, !.session = session]
                                            @@ [explicit |-> row.session # 0])]
         [] OTHER -> st

\* A section has the date that stands above its header, else that of the rows
\* before it, else the first one it shows.
PrelimSection(st, rows, columns, above) ==
    LET shown == SelectSeq(SubSeq(rows, 1, Min({FirstRows, Len(rows)})),
                           LAMBDA row : row.date # 0 /\ (row.kind = "date" \/ row.columns = columns))
        date == IF above # 0 THEN above
                ELSE IF st.kept.date = 0 /\ shown # <<>> THEN shown[1].date ELSE st.kept.date
        kept == [st.kept EXCEPT !.date = date]
        start == [st EXCEPT !.kept = kept, !.date = date, !.session = st.kept.session]
    IN FoldLeft(LAMBDA s, row : PrelimRow(columns, s, row), start, rows)

DateAbove(table, h) ==
    LET dated == {i \in (IF h > LookBack THEN h - LookBack ELSE 1)..(h - 1) : table[i].date # 0}
    IN IF dated = {} THEN 0 ELSE table[Max(dated)].date

\* The rows above the first header are read under the last header of the tables
\* before.
PrelimTable(st, table) ==
    LET headers == SelectSeq([i \in DOMAIN table |-> i], LAMBDA i : table[i].kind = "header")
        carried(rows) == IF st.columns = Blank THEN st ELSE PrelimSection(st, rows, st.columns, 0)
        Section(s, n) ==
            LET h == headers[n]
                end == IF n = Len(headers) THEN Len(table) ELSE headers[n + 1] - 1
            IN [PrelimSection(s, SubSeq(table, h + 1, end), table[h].columns, DateAbove(table, h))
                   EXCEPT !.columns = table[h].columns]
    IN IF headers = <<>> THEN carried(table)
       ELSE FoldLeftDomain(Section, carried(SubSeq(table, 1, headers[1])), headers)

\* The rows of one date and time are one session: the first that one of them shows,
\* or the one after the session before.
Sessions(rows) ==
    LET At(row) == <<row.date, row.time>>
        Assign(st, row) ==
            LET group == SelectSeq(rows, LAMBDA r : At(r) = At(row))
                shown == SelectSeq(group, LAMBDA r : r.explicit)
                session == IF shown # <<>> THEN shown[1].session
                           ELSE IF st.last # 0 THEN st.last + 1 ELSE group[1].session
            IN IF At(row) \in DOMAIN st.of THEN st
               ELSE [last |-> session, of |-> (At(row) :> session) @@ st.of]
        of == FoldLeft(Assign, [last |-> 0, of |-> <<>>], rows).of
    IN {[row EXCEPT !.session = of[At(row)]] : row \in ToSet(rows)}

\* One session of one championship was printed on the wrong platform.
PlatformFixed(row) ==
    IF row.session = MisprintedSession /\ row.platform = PlatformSeq[1] /\ row.national
    THEN [row EXCEPT !.platform = PlatformSeq[2]] ELSE row

\* The classes of a slot, each once.
Combined(rows) ==
    LET Of(row) == Slot(row.date, row.session, row.platform, row.time, {})
    IN {[slot EXCEPT !.label = {r.class : r \in {x \in rows : Of(x) = slot}} \ {NoClass}] :
           slot \in {Of(row) : row \in rows}}

PrelimRows(tables) ==
    LET read == FoldLeft(PrelimTable, [rows |-> <<>>, date |-> 0, session |-> 0, columns |-> Blank,
                                       kept |-> [date |-> 0, session |-> 0]], tables)
    IN {PlatformFixed(row) : row \in Sessions(read.rows)}

(***************************************************************************)
(* Any other tables and text: rows of a slot without classes, or rows where  *)
(* the date, the session and the platform may be blank.                      *)
(***************************************************************************)
TableRow(st, row) ==
    LET held == [date |-> IF row.date # 0 THEN row.date ELSE st.held.date,
                 session |-> IF row.session # 0 THEN row.session ELSE st.held.session,
                 platform |-> IF row.platform # Blank THEN row.platform ELSE st.held.platform]
        whole == held.date # 0 /\ held.session # 0 /\ held.platform # Blank /\ row.time # 0
        plain == row.kind = "plain" /\ row.session # 0 /\ row.platform # Blank
    IN IF row.kind = "heading" THEN st
       ELSE [held |-> held,
             rows |-> IF whole /\ (plain \/ row.class # NoClass)
                      THEN st.rows \union {held @@ [time |-> row.time, class |-> row.class]} ELSE st.rows]

TextRow(line) == [date |-> line.date, session |-> line.session, platform |-> line.platform,
                  time |-> line.time, class |-> NoClass]

\* What a page image was recognised as: lines with a slot, a class or both.  When
\* every number of lifters could be read, the slots take the classes in order until
\* their totals are reached, else each class goes to the nearest slot.
Distance(i, j) == IF i < j THEN j - i ELSE i - j

ImageRows(lines) ==
    LET slots == SelectSeq([i \in DOMAIN lines |-> i], LAMBDA i : lines[i].slot # <<>>)
        classes == SelectSeq([i \in DOMAIN lines |-> i], LAMBDA i : lines[i].class # NoClass)
        dates == SelectSeq(lines, LAMBDA line : line.date # 0)
        slot(n) == lines[slots[n]].slot[1]
        counted == (\A n \in DOMAIN slots : slot(n).total # 0) /\ (\A i \in ToSet(classes) : lines[i].count # 0)
        Date(n) == dates[1].date
                   + Cardinality({m \in 2..n : slot(m).time < slot(m - 1).time})
        Take(st, n) ==
            LET until == {k \in st.next..Len(classes) :
                             slot(n).total <= MapThenSumSet(LAMBDA j : lines[classes[j]].count, st.next..k)}
                end == IF until = {} THEN Len(classes) ELSE Min(until)
            IN [next |-> end + 1, of |-> Append(st.of, st.next..end)]
        taken == FoldLeftDomain(Take, [next |-> 1, of |-> <<>>], slots).of
        Nearest(i) == CHOOSE n \in DOMAIN slots :
                          \A m \in DOMAIN slots \ {n} :
                             LET d == Distance(slots[n], i)
                                 e == Distance(slots[m], i)
                             IN d < e \/ (d = e /\ n < m)
        mine(n) == IF counted THEN {classes[k] : k \in taken[n]} ELSE {i \in ToSet(classes) : Nearest(i) = n}
    IN IF slots = <<>> \/ dates = <<>> THEN {}
       ELSE UNION {{[date |-> Date(n), session |-> slot(n).session, platform |-> slot(n).platform,
                     time |-> slot(n).time, class |-> lines[i].class] : i \in mine(n)} : n \in DOMAIN slots}

(***************************************************************************)
(* The start list: lines of athletes, some broken in two, with their slot at *)
(* the end.  A line without a slot is held for the next one; those known to   *)
(* be withdrawn are left out.                                                *)
(***************************************************************************)
Grouped(classes, group) == [i \in DOMAIN classes |-> [classes[i] EXCEPT !.group = group]]

StartRows(lines) ==
    LET Join(st, line) ==
          IF line.kind \in {"heading", "withdrawn"} THEN st
          ELSE IF line.slot = <<>> THEN [st EXCEPT !.held = @ \o line.classes]
          ELSE LET classes == st.held \o line.classes
               IN [held |-> <<>>,
                   rows |-> Append(st.rows, [slot |-> line.slot[1],
                                             classes |-> Grouped(classes, line.group)])]
    IN FoldLeft(Join, [held |-> <<>>, rows |-> <<>>], lines).rows

\* A class that one athlete alone has in another group than most of its category,
\* with a weight of theirs, is taken for one of theirs.
Regrouped(classes) ==
    LET real == SelectSeq(classes, LAMBDA c : ~c.marker /\ c.category # Blank)
        Of(k, g) == SelectSeq(real, LAMBDA c : c.category = k /\ c.group = g)
        Most(k) == SelectSeq(real, LAMBDA c : /\ c.category = k
                                               /\ \A d \in ToSet(real) : Len(Of(k, d.group)) <= Len(Of(k, c.group)))
        Group(c) ==
            LET most == Most(c.category)
                lone == /\ most # <<>>
                        /\ Len(Of(c.category, c.group)) = 1
                        /\ \E d \in ToSet(Of(c.category, most[1].group)) : d.weight = c.weight
            IN IF lone THEN most[1].group ELSE c.group
    IN {[c EXCEPT !.group = Group(c)] : c \in ToSet(classes)}

\* A session of one state's athletes, or all of whose athletes are entered for
\* their state, is shown as theirs.
StartListLabel(classes) ==
    LET wso == {c \in ToSet(classes) : c.wso}
        others == SelectSeq(classes, LAMBDA c : ~c.wso)
        teams == {c.team : c \in ToSet(classes)} \ {Blank}
        bare == [i \in DOMAIN classes |->
                    [classes[i] EXCEPT !.category = Blank, !.wso = FALSE, !.marker = TRUE]]
    IN IF /\ wso # {}
          /\ \/ Cardinality(teams) = 1
             \/ {c.athlete : c \in ToSet(classes)} = {c.athlete : c \in wso}
       THEN Weights(wso)
       ELSE Shown(Regrouped(IF others # <<>> THEN others ELSE bare))

StartListLabels(lines) ==
    LET rows == SelectSeq(StartRows(lines), LAMBDA row : row.classes # <<>>)
        Of(k) == SelectSeq(rows, LAMBDA row : row.slot = k)
    IN [k \in {row.slot : row \in ToSet(rows)} |->
           StartListLabel(FlattenSeq([i \in DOMAIN Of(k) |-> Of(k)[i].classes]))]

\* The slots that show no class get the label of their session and platform.
Labelled(slots, lines) ==
    LET labels == StartListLabels(lines)
        k(slot) == <<slot.session, slot.platform>>
    IN {IF slot.label = {} /\ k(slot) \in DOMAIN labels
        THEN [slot EXCEPT !.label = labels[k(slot)]] ELSE slot : slot \in slots}

(***************************************************************************)
(* Which layout it is.                                                      *)
(***************************************************************************)
Read(slots) == [dateless |-> FALSE, hangs |-> FALSE, slots |-> slots]

ScheduleRead(pdf) ==
    LET tables == FlattenSeq([i \in DOMAIN pdf.pages |-> pdf.pages[i].tables])
        prelim == \E i \in DOMAIN tables : \E j \in DOMAIN tables[i] : tables[i][j].kind = "header"
        Table(st, table) == IF Len(table) < 2 THEN st ELSE FoldLeft(TableRow, st, table)
        Page(st, page) ==
            LET read == FoldLeft(Table, st, page.tables)
            IN [read EXCEPT !.rows = @ \union {TextRow(line) : line \in ToSet(page.text)}]
        plain == FoldLeft(Page, [held |-> [date |-> 0, session |-> 0, platform |-> Blank], rows |-> {}],
                          pdf.pages).rows
    IN IF pdf.compact # <<>> THEN CompactSlots(pdf.compact)
       ELSE Read(Labelled(Combined(
                IF prelim THEN PrelimRows(tables)
                ELSE IF plain # {} THEN plain
                ELSE UNION {ImageRows(page.image) : page \in ToSet(pdf.pages)}), pdf.startList))
=============================================================================
