-------------------------- MODULE MCScheduleSites --------------------------
(***************************************************************************)
(* Small schedules, and how each layout of a PDF shows them.  A truth is a   *)
(* sequence of sessions with a date, a time and platforms; what a platform    *)
(* shows is the label its slot must get.                                     *)
(***************************************************************************)
EXTENDS ScheduleJobs

On(p, shown) == [platform |-> p, shown |-> shown]
Session(s, d, t, platforms) == [session |-> s, date |-> d, time |-> t, platforms |-> platforms]
Group(k, g, w) == [category |-> k, group |-> g, weight |-> w]
State(w) == Group("WSO", Blank, w)
Men == Group("open", "men", 60)

\* The third session is on the first day or, earlier, on the second.
ScheduleTruths ==
    {<<Session(1, 1, 8, <<On("red", <<Men>>), On("white", <<Group("open", "men", 71), Group("u15", "men", 60)>>)>>),
       Session(2, 1, 12, <<On("red", shown)>>),
       Session(3, d, IF d = 1 THEN 16 ELSE 8, <<On("red", <<Group("open", "women", w)>>), On("white", <<State(w)>>)>>)>> :
        d \in {1, 2}, w \in {60, 71},
        shown \in {<<State(60)>>, <<State(60), State(71)>>, <<Group("u15", "men", 71), Men>>}}

SlotsOf(t) ==
    UNION {{Slot(t[i].date, t[i].session, p.platform, t[i].time, ToSet(p.shown)) :
                p \in ToSet(t[i].platforms)} : i \in DOMAIN t}
OneByOne(slots) == UNION {{[slot EXCEPT !.label = {c}] : c \in slot.label} : slot \in slots}

\* Op for every platform of every session, in order.
PerSlot(t, Op(_, _, _)) ==
    FlattenSeq([i \in DOMAIN t |->
        FlattenSeq([j \in DOMAIN t[i].platforms |-> Op(t[i], t[i].platforms[j], j)])])
PerClass(p, Op(_, _)) == [k \in DOMAIN p.shown |-> Op(p.shown[k], k)]
First(i, v) == IF i = 1 THEN v ELSE 0

(***************************************************************************)
(* Compact: with session lines, with sessions in the slot lines, with        *)
(* neither, with each slot's first class above it, or with the slot's line    *)
(* repeated above every class.                                               *)
(***************************************************************************)
Entered(c) ==
    IF c.category = "WSO" THEN [category |-> "open", group |-> "men", weight |-> c.weight, wso |-> TRUE, marker |-> FALSE, count |-> 2]
    ELSE c @@ [wso |-> FALSE, marker |-> FALSE, count |-> 2]
Line(k, d, s, p, t, n, c) ==
    [kind |-> k, date |-> d, session |-> s, platform |-> p, time |-> t, target |-> n, class |-> c]
ClassLine(c) == Line("class", 0, 0, Blank, 0, 0, <<Entered(c)>>)

CompactPdf(style, t) ==
    LET Of(x, p, j) ==
          LET n == 2 * Len(p.shown)
              SlotAt(s, c) == Line("slot", 0, s, p.platform, x.time, n, c)
              classes == PerClass(p, LAMBDA c, k : ClassLine(c))
          IN CASE style = "lines" ->
                    (IF j = 1 THEN <<Line("session", 0, x.session, Blank, 0, 0, <<>>)>> ELSE <<>>)
                    \o <<SlotAt(IF j = 1 THEN 0 ELSE x.session, <<>>)>> \o classes
               [] style = "inline" ->
                    <<SlotAt(x.session, <<Entered(p.shown[1])>>)>> \o Tail(classes)
               [] style = "neither" -> <<SlotAt(0, <<>>)>> \o classes
               [] style = "above" -> <<classes[1], SlotAt(x.session, <<>>)>> \o Tail(classes)
               [] style = "repeated" ->
                    FlattenSeq(PerClass(p, LAMBDA c, k : <<SlotAt(IF k = 1 THEN x.session ELSE 0, <<>>), ClassLine(c)>>))
    IN [compact |-> <<Line("other", 1, 0, Blank, 0, 0, <<>>)>> \o PerSlot(t, Of),
        pages |-> <<>>, startList |-> <<>>]

(***************************************************************************)
(* Preliminary: a table per date or one with date rows, with the session in   *)
(* every row, in the first of its slot, or in the first of all.               *)
(***************************************************************************)
PrelimLine(k, d, s, p, t, c, n) ==
    [kind |-> k, columns |-> "wide", date |-> d, session |-> s, platform |-> p, time |-> t,
     class |-> c, national |-> n]
HeaderLine == PrelimLine("header", 0, 0, Blank, 0, NoClass, FALSE)
DateLine(d) == PrelimLine("date", d, 0, Blank, 0, NoClass, FALSE)
OnDate(t, d) == SelectSeq(t, LAMBDA x : x.date = d)

PrelimPages(style, t) ==
    LET Of(x, p, j) ==
          PerClass(p, LAMBDA c, k :
              PrelimLine("class", 0,
                         CASE style = "every" -> x.session
                           [] style = "slots" -> First(k, x.session)
                           [] style = "first" -> IF j = 1 /\ x.session = 1 THEN First(k, 1) ELSE 0,
                         p.platform, x.time, c, FALSE))
        days == SelectSeq(<<1, 2>>, LAMBDA d : OnDate(t, d) # <<>>)
        Table(n) == <<DateLine(days[n])>>
                    \o (IF style = "slots" /\ n > 1 THEN <<>> ELSE <<HeaderLine>>)
                    \o PerSlot(OnDate(t, days[n]), Of)
    IN [compact |-> <<>>, startList |-> <<>>,
        pages |-> [n \in DOMAIN days |-> [tables |-> <<Table(n)>>, text |-> <<>>, image |-> <<>>]]]

(***************************************************************************)
(* Tables, text and images without classes, whose labels are in the start     *)
(* list, and loose tables and images with them.                              *)
(***************************************************************************)
AthleteLines(t) ==
    LET Athlete(c, k, group, slot, entry) ==
          [kind |-> "row", slot |-> slot, group |-> group,
           classes |-> IF c.category = "WSO" /\ entry = 2 THEN <<>>
                       ELSE <<[category |-> IF c.category = "WSO" THEN "open" ELSE c.category,
                               group |-> Blank, weight |-> c.weight, wso |-> c.category = "WSO", marker |-> FALSE,
                               team |-> IF entry = 2 THEN "b" ELSE "a", athlete |-> k]>>]
        \* The first of two athletes takes two lines, and one in between is withdrawn.
        Of(x, p, j) ==
          FlattenSeq(PerClass(p, LAMBDA c, k :
              <<Athlete(c, k, c.group, <<>>, 1),
                [Athlete([c EXCEPT !.weight = 99], k, c.group, <<<<x.session, p.platform>>>>, 2) EXCEPT !.kind = "withdrawn"],
                [Athlete(c, k, c.group, <<<<x.session, p.platform>>>>, 1) EXCEPT !.classes = <<>>],
                Athlete(c, k + 2, c.group, <<<<x.session, p.platform>>>>, 2)>>))
    IN PerSlot(t, Of)

TableLine(k, d, s, p, t, c) ==
    [kind |-> k, date |-> d, session |-> s, platform |-> p, time |-> t, class |-> c]
Heading == TableLine("heading", 0, 0, Blank, 0, NoClass)
ImageLine(d, slot, c, n) == [date |-> d, slot |-> slot, class |-> c, count |-> n]

PlainPdf(style, t) ==
    LET Plain(x, p, j) == <<TableLine("plain", x.date, x.session, p.platform, x.time, NoClass)>>
        Loose(x, p, j) ==
            PerClass(p, LAMBDA c, k :
                TableLine("loose", First(k, x.date), First(k, x.session), IF k = 1 THEN p.platform ELSE Blank, x.time, c))
        Drawn(n) ==
            LET Of(x, p, j) ==
                  <<ImageLine(First(j, 1),
                              <<[session |-> x.session, platform |-> p.platform, time |-> x.time, total |-> n * Len(p.shown)]>>,
                              p.shown[1], n)>>
                  \o Tail(PerClass(p, LAMBDA c, k : ImageLine(0, <<>>, c, n)))
            IN PerSlot(t, Of)
        page(tables, text, image) == <<[tables |-> tables, text |-> text, image |-> image]>>
    IN [compact |-> <<>>,
        startList |-> IF style \in {"plain", "text"} THEN AthleteLines(t) ELSE <<>>,
        pages |-> CASE style = "plain" -> page(<<<<Heading>> \o PerSlot(t, Plain)>>, <<>>, <<>>)
                    [] style = "text" -> page(<<>>, PerSlot(t, Plain), <<>>)
                    [] style = "loose" -> page(<<<<Heading>> \o PerSlot(t, Loose)>>, <<>>, <<>>)
                    [] style = "counted" -> page(<<>>, <<>>, Drawn(2))
                    [] style = "uncounted" -> page(<<>>, <<>>, Drawn(0))]

CompactStyles == {"lines", "inline", "neither", "above", "repeated"}
PrelimStyles == {"every", "slots", "first"}
PlainStyles == {"plain", "text", "loose", "counted", "uncounted"}
SchedulePdf(style, t) ==
    IF style \in CompactStyles THEN CompactPdf(style, t)
    ELSE IF style \in PrelimStyles THEN PrelimPages(style, t) ELSE PlainPdf(style, t)
Styles(j) == IF j = "prelim_schedule" THEN PrelimStyles \ {"first"} ELSE CompactStyles \union PrelimStyles \union PlainStyles

SchedulesIn == [style \in Styles("schedule") |-> [t \in ScheduleTruths |-> SchedulePdf(style, t)]]

OddSchedules ==
    LET t == CHOOSE t \in ScheduleTruths : TRUE
        neither == SchedulesIn["neither"][t]
        slots == SchedulesIn["slots"][t]
    IN {[neither EXCEPT !.compact = Tail(@)],
        [neither EXCEPT !.compact = <<@[1], @[3], @[3]>> \o SubSeq(@, 2, 3)],
        [slots EXCEPT !.pages[1].tables[1][2].columns = "other"],
        [slots EXCEPT !.pages[1].tables[1] = Tail(@)],
        [slots EXCEPT !.pages[1].tables[1][3] = [@ EXCEPT !.session = 44, !.national = TRUE]]}

ScheduleSites(j) ==
    {SchedulesIn[style][t] : style \in Styles(j), t \in ScheduleTruths} \union OddSchedules
SomeSchedules ==
    {SchedulesIn["slots"][t] : t \in {x \in ScheduleTruths : x[2].platforms[1].shown = <<State(60)>>}}

ShownSlots(j, t) == IF j = "prelim_schedule" THEN OneByOne(SlotsOf(t)) ELSE SlotsOf(t)
=============================================================================
