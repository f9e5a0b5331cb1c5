--------------------------- MODULE MCRecordSites ---------------------------
(***************************************************************************)
(* Small sites for the scrapers of records and standards: what each of them *)
(* shows when a given set of records (a truth) holds, and some sites that   *)
(* are broken or laid out as a careless editor leaves them.                 *)
(***************************************************************************)
EXTENDS RecordTables, FiniteSetsExt

AgeSeq == <<"u15", "u17", "senior">>
GenderSeq == <<"men", "women">>
ClassSeq == <<"60", "60+">>
LiftSeq == <<"snatch", "total">>
PlusOf == ("60" :> "60+")
RowBelow == [snatch |-> 0, total |-> 1]
AgesOf == [youth |-> <<"u15", "u17">>, senior |-> <<"senior">>]
GroupSeq == <<"youth", "senior">>
Correction == [key |-> <<<<"senior", "men">>, "60">>, written |-> 9, total |-> 1]
Corrections == {Correction}

U == Unreadable
None == [x \in {} |-> x]

(***************************************************************************)
(* Truths                                                                  *)
(***************************************************************************)
Base == [k \in Keys |-> [l \in Lifts |-> IF k[1][2] = "men" THEN 1 ELSE 2]]
Lacking(keys) == [k \in Keys \ keys |-> Base[k]]
Without(gone) == Lacking({k \in Keys : <<k[1][1], k[2]>> \in gone})
AgeClasses == Ages \X Classes

\* Every record in turn is blank or broken, every class in turn is gone, for one
\* gender or for both, or several are.
Truths ==
    {Base} \union {[Base EXCEPT ![k][l] = v] : k \in Keys, l \in Lifts, v \in {0, 3}}
    \union {Without({c}) : c \in AgeClasses}
    \union {Without({a} \X Classes) : a \in Ages}
    \union {Lacking({k}) : k \in Keys}
    \union {Lacking({s} \X Classes) : s \in Sections}
    \union {Without({<<"u15", "60">>, <<"senior", "60">>})}

OfAge(t, a, g) == SelectSeq(ClassSeq, LAMBDA c : <<<<a, g>>, c>> \in DOMAIN t)
Each(s, Op(_)) == FlattenSeq([i \in DOMAIN s |-> Op(s[i])])
Sec(a, g) == <<a, g>>
ByKey(t, Op(_, _, _)) ==      \* Op for every class of every section, in order
    Each(AgeSeq, LAMBDA a : Each(GenderSeq, LAMBDA g :
        Each(OfAge(t, a, g), LAMBDA c : Op(a, g, c))))
ByLift(t, Op(_, _, _, _, _)) ==
    ByKey(t, LAMBDA a, g, c : [i \in 1..2 |->
        Op(a, g, c, LiftSeq[i], t[<<<<a, g>>, c>>][LiftSeq[i]])])

(***************************************************************************)
(* The record tables                                                       *)
(***************************************************************************)
Cell(a, g, c, l, v) == [age |-> a, gender |-> g, class |-> c, lift |-> l, value |-> v]
ClassLine(c, l, v) == [class |-> c, lift |-> l, value |-> v]
Lines(t, a, g) ==
    Each(OfAge(t, a, g), LAMBDA c :
        [i \in 1..2 |-> ClassLine(c, LiftSeq[i], t[<<<<a, g>>, c>>][LiftSeq[i]])])
Page(a, g, lines) == [age |-> a, gender |-> g, lines |-> lines]
Heading(c) == [heading |-> TRUE, class |-> c]
LiftRow(l, v) == [heading |-> FALSE, lift |-> l, value |-> v]
Cards(c, cards, lifts) == [class |-> c, cards |-> cards, lifts |-> lifts]
Row(c, lifts) == [class |-> c, lifts |-> lifts]

RenderRecords(j, t) ==
    CASE j = "usaw" -> [link |-> TRUE, pdf |-> ByLift(t, Cell)]
      [] j = "masters" ->
            Each(AgeSeq, LAMBDA a : Each(GenderSeq, LAMBDA g : <<Page(a, g, Lines(t, a, g))>>))
      [] j = "umwf" ->
            [s \in Sections |-> Each(OfAge(t, s[1], s[2]), LAMBDA c :
                <<Heading(c)>> \o [i \in 1..2 |-> LiftRow(LiftSeq[i], t[<<s, c>>][LiftSeq[i]])])]
      [] j = "usamw" ->
            [links |-> Genders,
             pdfs |-> [g \in Genders |-> Each(AgeSeq, LAMBDA a : <<Page(a, g, Lines(t, a, g))>>)]]
      [] j = "bwl" ->
            Each(AgeSeq, LAMBDA a : Each(GenderSeq, LAMBDA g :
                <<[section |-> Sec(a, g), table |-> TRUE,
                   rows |-> [i \in DOMAIN OfAge(t, a, g) |->
                        Row(OfAge(t, a, g)[i], t[<<<<a, g>>, OfAge(t, a, g)[i]>>])]]>>))
      [] j = "iwf" ->
            [s \in Sections |-> [i \in DOMAIN OfAge(t, s[1], s[2]) |->
                Cards(OfAge(t, s[1], s[2])[i], TRUE, t[<<s, OfAge(t, s[1], s[2])[i]>>])]]

OddRecords(j) ==
    LET base == RenderRecords(j, Base) IN
    CASE j = "usaw" ->
            {[base EXCEPT !.link = FALSE]}
            \union {[base EXCEPT !.pdf[i][f] = U] : i \in {1, 2, 5}, f \in {"age", "gender", "class"}}
            \union {[base EXCEPT !.pdf[3] = [@ EXCEPT !.class = "60", !.value = v]] : v \in {0, 3}}
      [] j = "masters" ->
            {[base EXCEPT ![i] = [@ EXCEPT !.age = U, !.gender = g]] :
                i \in {1, 2, 4}, g \in Genders \union {U}}
            \union {[Tail(base) EXCEPT ![i].age = U] : i \in {1, 3}}
            \union {[base EXCEPT ![2].lines[1].class = U], <<>>}
      [] j = "umwf" ->
            {[base EXCEPT ![<<"u15", "men">>] = s] :
                s \in {<<>>, <<LiftRow("total", 3)>> \o base[<<"u15", "men">>],
                       <<Heading("60"), LiftRow("snatch", 1), Heading(U), LiftRow("snatch", 3)>>,
                       <<Heading("60"), LiftRow("snatch", 1), Heading("60"), LiftRow("total", 3)>>}}
      [] j = "usamw" ->
            {[base EXCEPT !.links = {"men"}]}
            \union {[base EXCEPT !.pdfs["men"][i].age = U] : i \in 1..3}
            \union {[base EXCEPT !.pdfs["men"][2].lines[1].class = U]}
      [] j = "bwl" ->
            {[base EXCEPT ![1].table = FALSE],
             [base EXCEPT ![1].table = FALSE, ![2].table = FALSE, ![1].rows[1].lifts = NoLifts],
             [base EXCEPT ![3].section = base[1].section, ![1].rows[1].lifts = NoLifts], <<>>}
      [] j = "iwf" ->
            {[base EXCEPT ![<<"u15", "men">>] = s] :
                s \in {<<>>, <<Cards(U, TRUE, NoLifts)>> \o base[<<"u15", "men">>],
                       <<Cards("60", FALSE, NoLifts)>> \o base[<<"u15", "men">>],
                       <<Cards("60", TRUE, NoLifts)>> \o base[<<"u15", "men">>]}}
            \union {[s \in Sections |-> <<>>]}

(***************************************************************************)
(* Standards and qualifying totals                                         *)
(***************************************************************************)
TotalOf(t, a, g, c) ==
    IF <<<<a, g>>, c>> \in DOMAIN t THEN t[<<<<a, g>>, c>>]["total"] ELSE NoValue
Totals(t) == [k \in {k \in DOMAIN t : t[k]["total"] # NoValue} |-> t[k]["total"]]

StdHeading(a, g, m) == [kind |-> "heading", age |-> a, gender |-> g, mark |-> m]
StdClasses(s) == [kind |-> "category", classes |-> s]
StdTotals(s) == [kind |-> "total", values |-> s]
QtRow(a, g, c, cell) == [age |-> a, gender |-> g, class |-> c, cell |-> cell]
MastersHead(ages, g) == [ages |-> ages, gender |-> g, class |-> U, values |-> <<>>]
MastersRow(c, values) == [ages |-> <<>>, gender |-> U, class |-> c, values |-> values]

QtSection(t, a, g) ==
    LET cs == OfAge(t, a, g)
        totals == [i \in DOMAIN cs |-> TotalOf(t, a, g, cs[i])]
    IN [i \in DOMAIN cs |-> QtRow(a, g, cs[i], IF i = 1 THEN totals ELSE <<>>)]
QtTitles == <<QtRow(U, U, U, <<>>), QtRow(U, U, U, <<>>)>>

RenderStandards(j, t) ==
    CASE j = "standards" ->
            [links |-> {"pdf", "page"},
             tables |-> Each(AgeSeq, LAMBDA a : Each(GenderSeq, LAMBDA g :
                <<Each(LiftSeq, LAMBDA m :
                    <<StdHeading(a, g, m), StdClasses(OfAge(t, a, g)),
                      StdTotals([i \in DOMAIN OfAge(t, a, g) |->
                                    t[<<<<a, g>>, OfAge(t, a, g)[i]>>][m]])>>)>>))]
      [] j = "usaw_qt" ->
            <<<<QtTitles \o Each(<<"u15", "u17">>, LAMBDA a : QtSection(t, a, "men"))>>,
              <<QtSection(t, "senior", "men"),
                Each(AgeSeq, LAMBDA a : QtSection(t, a, "women"))>>>>
      [] j = "usamw_qt" ->
            <<[i \in 1..2 |->
                <<MastersHead(AgeSeq, GenderSeq[i])>> \o
                [c \in 1..2 |-> MastersRow(ClassSeq[c],
                    [a \in 1..3 |-> TotalOf(t, AgeSeq[a], GenderSeq[i], ClassSeq[c])])]]>>

OddStandards(j) ==
    LET base == RenderStandards(j, Base) IN
    CASE j = "standards" ->
            {[base EXCEPT !.links = l] : l \in {{}, {"page"}}}
            \union {[base EXCEPT !.tables[1][i] = r] :
                       i \in {1, 4}, r \in {StdHeading(U, "men", "total"), StdHeading("u15", U, Blank),
                                            StdHeading("u15", "men", Blank)}}
            \union {[base EXCEPT !.tables[1][2] = r] :
                       r \in {StdClasses(<<U, "60+">>), StdClasses(<<>>), StdTotals(<<3>>)}}
            \union {[base EXCEPT !.tables = <<>>]}
      [] j = "usaw_qt" ->
            {<<>>, <<<<QtTitles>>>>,
             <<<<QtTitles \o <<QtRow("u15", "men", "60", <<1, 2, 3>>), QtRow(U, "men", "60+", <<>>),
                               QtRow("u15", "men", "60+", <<>>), QtRow("u15", "women", "60", <<1>>),
                               QtRow("u15", "women", "60+", <<>>), QtRow("u17", "women", "60", <<>>)>>>>>>,
             <<<<QtTitles \o <<QtRow("u15", "men", "60", <<1>>), QtRow("u15", "men", "60", <<2>>)>>>>>>}
      [] j = "usamw_qt" ->
            {<<>>, <<<<<<MastersHead(AgeSeq, "men")>>>>>>,
             [base EXCEPT ![1] = <<@[2], @[1]>>],
             [base EXCEPT ![1] = <<@[2]>>],
             [base EXCEPT ![1][1][1].ages = <<U, "u17", "senior">>],
             [base EXCEPT ![1][1][1] = MastersHead(<<>>, U)],
             [base EXCEPT ![1][1][2].class = U],
             <<<<base[1][1], Tail(base[1][2])>>>>}

(***************************************************************************)
(* The tables of the weightlifting state organisations                     *)
(***************************************************************************)
AgeRow(a) == [kind |-> "age", age |-> a]
ClassRow(c) == [kind |-> "class", class |-> c]
KindRow(l, v) == [kind |-> "lift", lift |-> l, value |-> v]
OneSide(c, lifts) == [class |-> c, lifts |-> lifts]
BothSides(x) == [g \in Genders |-> x]
SideLine(c, l, v) == [class |-> c, lift |-> l, value |-> v]
Title == BothSides(SideLine(Blank, Blank, NoValue))
SideHeader == BothSides(SideLine(Blank, "header", NoValue))

OhioLines(t, group, g) ==
    Each(AgesOf[group], LAMBDA a :
        (IF Len(AgesOf[group]) > 1 THEN <<AgeRow(a)>> ELSE <<>>) \o
        Each(OfAge(t, a, g), LAMBDA c :
            <<ClassRow(c)>> \o [i \in 1..2 |-> KindRow(LiftSeq[i], t[<<<<a, g>>, c>>][LiftSeq[i]])]))

\* The open class has no heading of its own below the class it is above; where
\* one side lists fewer classes, the rest of it is blank.
Blocks(t, a) ==
    LET At(g, i) ==
          LET cs == OfAge(t, a, g) IN
          IF i > Len(cs) THEN OneSide(Blank, NoLifts)
          ELSE OneSide(IF i = 2 THEN Blank ELSE cs[i], t[<<<<a, g>>, cs[i]>>])
    IN [i \in 1..Max({Len(OfAge(t, a, g)) : g \in Genders}) |-> [g \in Genders |-> At(g, i)]]

BlockLines(blocks) ==       \* the same, a row per lift
    Each(blocks, LAMBDA b : [i \in 1..2 |-> [g \in Genders |->
        SideLine(IF i = 1 THEN b[g].class ELSE Blank, LiftSeq[i], b[g].lifts[LiftSeq[i]])]])

FlatRow(a, g, c, l, v) ==
    [age |-> a, gender |-> g, lift |-> l, value |-> v,
     max |-> IF c = "60+" THEN Blank ELSE c, min |-> IF c = "60+" THEN "60" ELSE Blank]

Link(pdf, g) == [pdf |-> pdf, gender |-> g, certificate |-> FALSE, current |-> TRUE]
Links == <<Link("p1", "men"), Link("p2", "women")>>
PdfOf == [p1 |-> "men", p2 |-> "women"]
SecRow(a, g, l) == [kind |-> "section", age |-> a, gender |-> g, lift |-> l]
PdfRow(c, l, v) == [kind |-> "row", class |-> c, lift |-> l, value |-> v]

SouthPdf(t, g) ==       \* a page per age category, a section per lift
    [a \in 1..3 |-> Each(LiftSeq, LAMBDA l :
        <<SecRow(AgeSeq[a], g, l)>> \o
        [i \in DOMAIN OfAge(t, AgeSeq[a], g) |->
            PdfRow(OfAge(t, AgeSeq[a], g)[i], l, t[<<<<AgeSeq[a], g>>, OfAge(t, AgeSeq[a], g)[i]>>][l])])]

YorkPdf(t, g) ==        \* a table per age category
    [a \in 1..3 |-> <<SecRow(AgeSeq[a], g, Blank)>> \o
        Each(OfAge(t, AgeSeq[a], g), LAMBDA c :
            [i \in 1..2 |-> PdfRow(IF i = 1 THEN c ELSE Blank, LiftSeq[i],
                                   t[<<<<AgeSeq[a], g>>, c>>][LiftSeq[i]])])]

Illinois(a, g, c, l, v) ==
    [kind |-> "row", age |-> a, gender |-> g, class |-> c, lift |-> l, value |-> v]
Footer(n) == [kind |-> "footer", number |-> n]

RenderWso(j, t) ==
    CASE j \in {"ohio", "pawv"} ->
            [tabs |-> [x \in (DOMAIN AgesOf) \X Genders |-> OhioLines(t, x[1], x[2])],
             gone |-> {}, front |-> <<>>]
      [] j = "carolinas" ->
            LET part(a) == <<SideHeader>> \o BlockLines(Blocks(t, a))
                tab(group) == <<Title>> \o Each(AgesOf[group], part)
            IN [tabs |-> [x \in DOMAIN AgesOf |-> tab(x)], gone |-> {}, front |-> tab("youth")]
      [] j = "florida" ->
            [tabs |-> [a \in Ages |-> <<Title, SideHeader>> \o BlockLines(Blocks(t, a))],
             gone |-> {}, front |-> <<>>]
      [] j = "new_jersey" ->
            [tabs |-> [a \in Ages |-> <<BothSides(OneSide(Blank, NoLifts))>> \o Blocks(t, a)],
             gone |-> {}, front |-> <<>>]
      [] j \in {"california_south", "dmv", "flat"} -> ByLift(t, FlatRow)
      [] j = "tnky" ->
            Each(AgeSeq, LAMBDA a : Each(GenderSeq, LAMBDA g :
                <<[age |-> a, gender |-> g, whole |-> TRUE,
                   columns |-> [i \in DOMAIN OfAge(t, a, g) |->
                        Row(OfAge(t, a, g)[i], t[<<<<a, g>>, OfAge(t, a, g)[i]>>])]]>>))
      [] j = "mountain_south" ->
            [links |-> Links, pdfs |-> [p \in DOMAIN PdfOf |-> SouthPdf(t, PdfOf[p])]]
      [] j \in {"new_york", "new_england"} ->
            [links |-> Links, pdfs |-> [p \in DOMAIN PdfOf |-> YorkPdf(t, PdfOf[p])]]
      [] j = "illinois" -> ByLift(t, Illinois) \o <<Footer(1)>>

\* A tab is gone, with another of the tabs or a foreign one in front, or empty.
OddTabs(base, fronts) ==
    {[base EXCEPT !.gone = {x}, !.front = f] :
        x \in DOMAIN base.tabs, f \in {base.tabs[y] : y \in DOMAIN base.tabs} \union {<<>>} \union fronts}
    \union {[base EXCEPT !.tabs[x] = <<>>] : x \in DOMAIN base.tabs}

OddWso(j) ==
    LET base == RenderWso(j, Base) IN
    CASE j \in {"ohio", "pawv"} ->
            OddTabs(base, {<<AgeRow("u15"), ClassRow("60"), KindRow("total", 3)>>})
            \union {[base EXCEPT !.tabs[<<"youth", "men">>][i] = r] :
                        i \in {1, 2, 5, 8}, r \in {AgeRow(U), ClassRow(U)}}
            \union {[base EXCEPT !.tabs[<<"youth", "men">>][5] = ClassRow("60")]}
      [] j = "carolinas" ->
            OddTabs(base, {BlockLines(Blocks(Without({<<"u15", "60">>}), "u15"))})
            \union {[base EXCEPT !.tabs["youth"] = t, !.front = <<>>] :
                       t \in LET tab == base.tabs["youth"] IN
                             {tab \o <<SideHeader>> \o BlockLines(Blocks(Base, "u15")),
                              Tail(tab), RemoveAt(tab, 4)}}
            \union {[base EXCEPT !.tabs["senior"][5]["men"].class = "60"]}
      [] j = "florida" ->
            OddTabs(base, {BlockLines(Blocks(Base, "u15"))})
            \union {[base EXCEPT !.tabs["u15"] = t] :
                       t \in LET tab == base.tabs["u15"] IN
                             {tab \o tab, tab \o SubSeq(tab, 5, 6), RemoveAt(tab, 4), RemoveAt(tab, Len(tab))}}
      [] j = "new_jersey" ->
            OddTabs(base, {Blocks(Base, "u15")})
            \union {[base EXCEPT !.tabs["u15"] = t] :
                       t \in LET tab == base.tabs["u15"] IN
                             {tab \o <<tab[1]>>, Tail(tab),
                              tab \o Blocks([Base EXCEPT ![<<<<"u15", "men">>, "60">>]["snatch"] = 3], "u15")}}
      [] j \in {"california_south", "dmv", "flat"} ->
            {<<>>} \union {[base EXCEPT ![i][f] = U] : i \in {1, 4}, f \in {"age", "gender", "lift"}}
            \union {[base EXCEPT ![2].max = Blank], [base EXCEPT ![1].max = "60+"]}
            \union {SubSeq(base, 1, n) : n \in {2, 20}}
      [] j = "tnky" ->
            {<<>>, [base EXCEPT ![6].whole = FALSE], [base EXCEPT ![1].age = U],
             [base EXCEPT ![2].columns[1].class = U], [base EXCEPT ![2].columns[2].class = "60"],
             [i \in 1..4 |-> base[i]]}
      [] j = "mountain_south" ->
            {[base EXCEPT !.links = l] :
                l \in {<<>>, <<Link("p1", "men")>>, <<Link("p1", "men"), Link("p1", U)>>,
                       <<Link("p1", U), Link("p2", U)>>,
                       <<[Link("p2", "men") EXCEPT !.certificate = TRUE]>> \o Links}}
            \union {[base EXCEPT !.pdfs["p1"][1][1] = r] : r \in {SecRow(U, "men", "snatch"), PdfRow("60", "snatch", 3)}}
            \union {[base EXCEPT !.pdfs["p2"] = <<>>], [base EXCEPT !.pdfs["p2"] = SubSeq(@, 1, 1)]}
      [] j \in {"new_york", "new_england"} ->
            {[base EXCEPT !.links = l] :
                l \in {<<>>, <<Link("p1", "men")>>, Links \o <<Link("p2", U)>>,
                       <<[Link("p2", "men") EXCEPT !.current = FALSE]>> \o Links,
                       <<[Link("p1", "men") EXCEPT !.current = FALSE], Link("p2", "women")>>}}
            \union {[base EXCEPT !.pdfs["p1"] = p] :
                p \in LET pdf == base.pdfs["p1"] IN
                      {<<>>, <<FlattenSeq(pdf)>>, [pdf EXCEPT ![1] = Tail(pdf[1])],
                       [pdf EXCEPT ![1][2].class = Blank], [pdf EXCEPT ![1][1].age = U]}}
      [] j = "illinois" ->
            {<<>>, base \o <<[kind |-> "unparsed"]>>, base \o <<Footer(3)>>,
             base \o <<Illinois("u15", "men", "60", "snatch", 3)>>,
             base \o <<Illinois("u15", "men", "60", "snatch", 0)>>,
             [base EXCEPT ![1].age = U],
             SelectSeq(base, LAMBDA r : r.kind = "row" => r.age # "senior"),
             SelectSeq(base, LAMBDA r : r.kind = "row" => <<r.age, r.gender, r.class>> # <<"u15", "men", "60">>)}
            \union {[base EXCEPT ![18].value = 9]}
=============================================================================
