--------------------------- MODULE MCAthleteSites ---------------------------
(***************************************************************************)
(* Small tables of athletes, entry lists and schedules, and what must hold  *)
(* of the jobs that join them.                                              *)
(***************************************************************************)
EXTENDS AthleteJobs

(***************************************************************************)
(* Entry lists, over tables with rows that earlier runs, earlier scrapers    *)
(* and other meets left.                                                    *)
(***************************************************************************)
Plus == [kg |-> 86, plus |-> TRUE]
Kg(n) == [kg |-> n, plus |-> FALSE]
Person(member, name, gender, age, meet) ==
    [member |-> member, name |-> name, gender |-> gender, age |-> age, meet |-> meet,
     class |-> Kg(71), total |-> 150]
Ann(s) == <<"ann", s>>
AnnIds == {NoId, Id("noid", "ann"), Id("nine", "r1"), Id("nine", "r2"), Id("real", "7")}
Anns == {Person(id, Ann(s), g, age, "week") : id \in AnnIds, s \in {1, 2}, g \in {"F", "M"}, age \in {20, 21}}
InTable(person, slot) ==
    LET row == person @@ [adaptive |-> FALSE, slot |-> slot] IN row @@ [key |-> KeyOf(row)]
Bob == Person(Id("real", "8"), <<"bob", 1>>, "M", 30, "week")
OtherAnn == Person(Id("nine", "r1"), Ann(1), "F", 20, "junior")

\* Beside Ann: an athlete with her number at another meet, a copy of her, or a copy and
\* herself at a meet she qualified at.
Copy(slot) == [InTable(Person(Id("nine", "r2"), Ann(2), "F", 20, "week"), slot) EXCEPT !.key = <<"old">>]
EntryTables ==
    {<<InTable(a, slot)>> \o more :
        a \in {x \in Anns : x.name = Ann(1) /\ x.gender = "F" /\ (x.age = 21 => x.member = Id("nine", "r1"))},
        slot \in {<<>>, <<1, "red">>},
        more \in {<<>>, <<InTable(OtherAnn, <<>>)>>, <<Copy(<<>>)>>, <<Copy(<<2, "red">>)>>,
                  <<Copy(<<>>), InTable(Person(NoId, Ann(1), "F", 20, "junior"), <<>>)>>}}
    \union {<<>>}
List(pages) == [meet |-> "week", schedule |-> <<>>, entries |-> pages]
EntrySites ==
    {List(<<<<Bob, a>>>>) : a \in Anns}
    \union {List(<<<<a>>, <<Person(NoId, Ann(1), g, 20, "week")>>>>) :
               a \in {x \in Anns : x.name = Ann(2) /\ x.age = 20}, g \in {"F", "M"}}
    \union {List(<<<<>>, <<Bob>>>>)}

(***************************************************************************)
(* Schedules, over a table with athletes of every meet.                     *)
(***************************************************************************)
All == [kind |-> "all", classes |-> {}]
Of(kind, classes) == [kind |-> kind, classes |-> classes]
NoBands == [gender |-> Blank, ages |-> {}, listed |-> FALSE]
Place(n, p, m, g, group, bands, w, totals) ==
    [session |-> n, platform |-> p, meet |-> m, gender |-> g, group |-> group, bands |-> bands,
     weights |-> w, totals |-> totals]

OpenSessions(n) ==
    {Place(n, "red", "week", g, group, NoBands, w, totals) :
        g \in {"F", Blank}, group \in {"nat", "jr_u25", "14_15", "wso", "open", Blank},
        w \in {All, Of("range", {Kg(48), Plus}), Of("list", {Kg(60), Kg(71)})},
        totals \in {<<>>, <<100, 150>>, <<151, 200>>}}
YouthSessions == {Place(1, "blue", "week", g, "u11_u13", NoBands, Of("range", {Kg(30), Kg(k)}), <<>>) :
                      g \in {"F", "M", Blank}, k \in {36, 48}}
UmwfSessions ==
    {Place(2, "red", "umwf", Blank, Blank, [gender |-> g, ages |-> ages, listed |-> listed], w, <<>>) :
        g \in {"F", "M"}, ages \in {{30, 35}, {25, 35}}, listed \in BOOLEAN,
        w \in {All, Of("range", {Kg(75), Kg(81)})}}
    \union {Place(2, "red", "umwf", Blank, Blank, [gender |-> g, ages |-> {30}, listed |-> FALSE], All, <<>>) :
               g \in {"F", "M"}}
FixedSessions == <<Place(3, "white", "week", Blank, "nat", NoBands, Of("list", {Kg(71), Plus}), <<120, 180>>),
                   Place(4, "red", "week", Blank, "14_15", NoBands, All, <<90, 149>>)>>

Rows(persons) == [i \in DOMAIN persons |-> InTable(persons[i], <<>>)]
AthleteTables ==
    {Rows(<<[Person(Id("real", "1"), <<"cat", 1>>, "F", 19, "junior") EXCEPT !.total = 150],
            [Person(Id("noid", "dan"), <<"dan", 1>>, "M", 15, "youth") EXCEPT !.class = Kg(60)],
            [Person(Id("noid", "dan"), <<"dan", 1>>, "F", 12, "youth") EXCEPT !.class = Kg(33)],
            [Person(Id("real", "2"), <<"eve", 1>>, "F", 12, "youth") EXCEPT !.class = Kg(34), !.total = 0],
            Person(Id("real", "3"), <<"fay", 1>>, "F", 35, "state")>>),
     Rows(<<[Person(Id("real", "1"), <<"cat", 1>>, "F", 19, "junior") EXCEPT !.total = 150],
            [Person(Id("real", "1"), <<"cat", 2>>, "F", 19, "nats") EXCEPT !.total = 160],
            [Person(Id("real", "4"), <<"gus", 1>>, "M", 31, "nats") EXCEPT !.class = Plus, !.total = 210],
            [Person(Id("real", "5"), <<"hal", 1>>, "M", 18, "youth") EXCEPT !.class = Kg(71)],
            Person(Id("real", "6"), <<"ivy", 1>>, "F", 0, "nats"),
            Person(Id("real", "9"), <<"jo", 1>>, "F", 20, "local")>>)}
Schedule(meet, sessions) == [meet |-> meet, entries |-> <<>>, schedule |-> sessions]
ScheduleSites ==
    {Schedule("week", <<s>> \o FixedSessions) : s \in OpenSessions(1)}
    \union {Schedule("week", FixedSessions \o <<s>>) : s \in OpenSessions(1)}
    \union {Schedule("week", <<s, Place(2, "red", "week", Blank, "open", NoBands, All, <<>>)>>) : s \in YouthSessions}
    \union {Schedule("umwf", <<s>>) : s \in UmwfSessions} \union {Schedule("week", <<>>)}

(***************************************************************************)
(* The jobs one after the other.                                            *)
(***************************************************************************)
Shown(n, list) ==
    [meet |-> "week", schedule |-> <<Place(n, "red", "week", Blank, Blank, NoBands, All, <<>>)>>,
     entries |-> <<list>>]
SomeAthletes ==
    {Shown(1, <<Person(id, Ann(s), "F", 20, "week"), Bob>>) : id \in {NoId, Id("nine", "r1")}, s \in {1, 2}}
    \union {Shown(2, <<Person(NoId, Ann(1), "F", 20, "state")>>)}

AthleteSites(j) == CASE j = "entries" -> EntrySites [] j = "assign" -> ScheduleSites [] OTHER -> {List(<<>>)}
AthleteTablesOf(j) == IF j = "assign" THEN AthleteTables ELSE EntryTables

(***************************************************************************)
(* Properties                                                              *)
(***************************************************************************)
\* The sessions that are clearly for an athlete and that may be theirs.  Of a label
\* that lists its age bands one by one the last band is read as a weight, so that it
\* may be anyone's in the bands and is clearly nobody's.
MayBe(r, s) ==
    LET sub == YouthSubgroup(r.age)
        numbers == {c.kg : c \in s.weights.classes}
    IN /\ s.meet = Matching(r).meet
       /\ s.gender \in {r.gender, Blank}
       /\ s.group \in ToSet(YouthGroups) => s.group = sub
       /\ s.group = "wso" <=> (EventCategory(r.meet) = "wso" /\ s.group # Blank)
       /\ s.bands.ages # {} => s.bands.gender = r.gender /\ \E b \in Min(s.bands.ages)..Max(s.bands.ages) : r.age \in b..(b + 4)
       /\ \/ s.weights.kind = "all" \/ r.class \in s.weights.classes \/ s.bands.listed
          \/ s.weights.kind = "range" /\ ~r.class.plus /\ Min(numbers) <= r.class.kg /\ r.class.kg <= Max(numbers)
Clearly(r, s) ==
    /\ MayBe(r, s) /\ r.age # 0 /\ ~s.bands.listed
    /\ s.weights.kind = "range" => r.class \in s.weights.classes
    /\ \/ s.group = Blank \/ s.group = EventCategory(r.meet)
       \/ EventCategory(r.meet) = "youth" /\ s.group = YouthSubgroup(r.age)

Off(total, range) ==
    IF total < range[1] THEN range[1] - total ELSE IF total > range[2] THEN total - range[2] ELSE 0

\* Whoever is assigned a session may lift in it, and its range is as near to their
\* total as that of any session that is clearly for them (one for their youth group
\* aside, which comes first); nobody who has such a session is left out.
RightSession ==
    job = "assign" /\ pc = "write" =>
        \A i \in DOMAIN payload :
            LET Same(f) == {r \in ToSet(rows) : r[f] = payload[i][f]}
                r == CHOOSE x \in Same("member") \intersect Same("name") \intersect Same("gender") : TRUE
                mine == {s \in ToSet(source.schedule) : Clearly(r, s)}
                Chosen(s) ==
                    /\ payload[i].slot = <<s.session, s.platform>>
                    /\ MayBe(r, s)
                    /\ s.totals # <<>> /\ r.total # 0 /\ s.group \notin ToSet(YouthGroups) =>
                          \A t \in mine : t.totals # <<>> => Off(r.total, s.totals) <= Off(r.total, t.totals)
            IN IF payload[i].slot = <<>> THEN mine = {}
               ELSE \E s \in ToSet(source.schedule) : Chosen(s)

\* The athlete a row or an entry is about.
Who(r) == <<r.meet, r.name[1], r.gender>>
Once(s) == \A i, j \in DOMAIN s : Who(s[i]) = Who(s[j]) => i = j

\* An athlete whose membership number comes, goes or changes, or who has a nine-digit
\* one and another age, is another athlete.
SameAthlete(table, e, r) ==
    IF ~Idless(e.member) THEN r.member = e.member
    ELSE Idless(r.member) \/ (Minted(table, r) /\ r.age = e.age)

\* From a list that names each athlete once, each gets one row, however the names are
\* spelled and whether the row had a number that was minted, a placeholder or none; and
\* nobody is taken for another, as long as the list gives nobody a number that the
\* table has for one of the other gender, which the lookup would not notice.
AthleteOnce ==
    LET list == FlattenSeq(source.entries)
        Own(e) == \A r \in ToSet(before) :
                      r.meet = e.meet /\ r.member = e.member /\ ~Idless(e.member) => Who(r) = Who(e)
        Rival(e) == \E r \in ToSet(before) : Who(e) = Who(r) /\ ~SameAthlete(before, e, r)
    IN job = "entries" /\ last = {source} /\ Once(before) /\ Once(list)
       /\ (\A e \in ToSet(list) : Own(e))
       => \A e \in ToSet(list) :
              Cardinality({i \in DOMAIN rows : Who(rows[i]) = Who(e)}) = IF Rival(e) THEN 2 ELSE 1

\* The nightly entries never take an athlete's session, also when an assignment commits
\* between any two of their statements; nor does the clean-up, unless one commits between
\* its plan and its deletions, which then delete the assigned row.
SlotsOf(table, who) == {r.slot : r \in {x \in ToSet(table) : Who(x) = who}} \ {<<>>}
KeepsAssignments ==
    pc' = "idle" /\ (job = "entries" \/ (job = "dedupe" /\ (pc = "write" => ~todo.overtaken))) =>
        \A who \in {Who(r) : r \in ToSet(rows)} :
            /\ SlotsOf(rows', who) \subseteq SlotsOf(rows, who)
            /\ SlotsOf(rows, who) # {} => SlotsOf(rows', who) # {}
=============================================================================
