---------------------------- MODULE MCScrapeJobs ----------------------------
(***************************************************************************)
(* The scrape jobs of the record, standard and ranking tables, checked      *)
(* together: a behaviour follows one job, chosen at the start.              *)
(***************************************************************************)
EXTENDS MCRecordSites

CONSTANTS FullSize, Expected, TopRows, MinClasses, AdultAges, MinShrinkAllowed, ByHand,
          Groups, Entries, Meets, LookAhead, MaxPages, Years, Ids, Lifters, NumEvents,
          FirstRows, LookBack, MisprintedSession,
          WsoMeets, YouthMeets, JuniorMeets, NationalMeets, UmwfMeets, FinalsMeets, AdaptiveMeets

AgeOfPage == [i \in 1..FullSize |-> AgeSeq[(i + 1) \div 2]]   \* a page per gender of each age
DefaultAges == AgeSeq
MeetSeq == <<"open", "cup">>
TableGenders == GenderSeq
PlatformSeq == <<"red", "white">>
SourceMeets == <<"junior", "youth", "nats", "state", "local">>
KnownMeets == ToSet(SourceMeets) \ {"local"}

Rec == INSTANCE RecordJobs
Std == INSTANCE StandardsJobs
Wso == INSTANCE WsoJobs
Rank == INSTANCE RankingsJob
Ev == INSTANCE EventsJobs WITH Accepted <- Meets
Res == INSTANCE ResultsJobs
Sch == INSTANCE MCScheduleSites
Ath == INSTANCE MCAthleteSites

(***************************************************************************)
(* Sites and tables                                                        *)
(***************************************************************************)
TruthJobs == Rec!Jobs \union Std!Jobs \union Wso!Jobs

Render(j, t) ==
    IF j \in Rec!Jobs THEN RenderRecords(j, t)
    ELSE IF j \in Std!Jobs THEN RenderStandards(j, t) ELSE RenderWso(j, t)

Odd(j) ==
    IF j \in Rec!Jobs THEN OddRecords(j)
    ELSE IF j \in Std!Jobs THEN OddStandards(j) ELSE OddWso(j)

Rendered == [j \in TruthJobs |-> [t \in Truths |-> Render(j, t)]]

Listed(e, t) == [kind |-> "row", entry |-> e, total |-> t]
Mark(k) == [kind |-> k]
Pdf(g, lines) == [group |-> g, lines |-> lines]

\* The names on the pages of the rankings are some of the entries.
ASSUME RankingAssumption == {"first", "second"} \subseteq Entries

TwoPdfs(v, m, g, e) ==
    <<Pdf("worlds", <<Mark("header"), Listed("first", v), Mark(m), Listed("second", 1)>>),
      Pdf(g, <<Listed("second", 2), Mark("header"), Listed(e, 1), Listed("second", 1)>>)>>

RankingSites ==
    {TwoPdfs(v, m, g, e) : v \in {1, 2}, m \in {"standards", "other"},
                           g \in {"worlds", "pan-ams", U}, e \in Entries}
    \union {<<Pdf("pan-ams", <<Mark("header"), Listed("first", 1)>>)>>}

\* Two masters' events one below the other, in two layouts.
Event(d, p) == [date |-> d, place |-> p, venue |-> "hall"]
EventTruths == [Meets -> {Event(d, p) : d \in {"may", "june"}, p \in {"here", "there"}}]
Text(k, t) == [kind |-> k, text |-> t]
EventLines(m, e, plain) ==
    <<Text("name", m), Text("venue", e.venue)>>
    \o IF plain THEN <<Text("place", e.place), Text("date", e.date), Text("button", "enter")>>
       ELSE <<Text("date", e.date), Text("location", Blank), Text("place", e.place)>>
EventsPage(t, plain) == FlattenSeq([i \in DOMAIN MeetSeq |-> EventLines(MeetSeq[i], t[MeetSeq[i]], plain)])
EventSites ==
    {EventsPage(t, plain) : t \in EventTruths, plain \in BOOLEAN}
    \union {<<Text("name", "open"), Text("date", U), Text("name", m), Text("date", "may"),
              Text("location", "here"), Text("name", m), Text("location", Blank), Text("date", "may")>> :
                m \in Meets \union {"camp"}}

Card(m, q, p, b) == [name |-> m, qualifier |-> q, past |-> p, button |-> b]
CardSites ==
    {<<<<Card("open", q, p, b), Card("filters", FALSE, FALSE, TRUE)>>, <<Card(m, FALSE, FALSE, TRUE)>>>> :
        q, p, b \in BOOLEAN, m \in Meets}

\* Meets in the index of two years, with a page or two of results.
Result(l, v) == [name |-> l, total |-> v]
Listing2(i, m, d, p) == [id |-> i, meet |-> m, date |-> d, pages |-> p]
IndexOf(p, i, m) ==
    [y \in Years |-> IF y = 1 THEN <<Listing2("e1", "open", 2, p), Listing2("e3", "open", 0, <<<<Result("ann", 1)>>>>)>>
                     ELSE <<Listing2(i, m, 1, <<<<Result("bob", 1)>>>>)>>]
Pages(l, v) == <<<<Result("ann", v)>>, <<Result(l, 2)>>>>
ResultSites ==
    {IndexOf(p, i, m) :
        p \in {Pages("ann", 1), Pages("bob", 1), <<<<>>>>, <<<<Result("ann", Res!Garbled)>>>>},
        i \in {"e1", "e2", Blank}, m \in {"cup", Blank}}

Sites(j) ==
    IF j \in Rank!Jobs THEN RankingSites
    ELSE IF j = "usamw_events" THEN EventSites
    ELSE IF j = "usaw_meets" THEN CardSites
    ELSE IF j \in Res!Jobs THEN ResultSites
    ELSE IF j \in Sch!Jobs THEN Sch!ScheduleSites(j)
    ELSE IF j \in Ath!Jobs THEN Ath!AthleteSites(j)
    ELSE Odd(j) \union {Rendered[j][t] : t \in Truths}

\* Sites that two runs of a behaviour may see one after the other.
Some(j) ==
    IF j \in Rank!Jobs
    THEN {<<Pdf("worlds", lines), Pdf(g, <<Mark("header"), Listed("second", 1)>>)>> :
            lines \in {<<Mark("header")>>, <<Mark("header"), Listed("first", 1)>>,
                       <<Mark("header"), Listed("second", 2)>>},
            g \in {"pan-ams", U}}
    ELSE IF j = "usamw_events"
    THEN {EventsPage([m \in Meets |-> Event(d, "here")], TRUE) : d \in {"may", "june"}}
    ELSE IF j = "usaw_meets"
    THEN {<<<<Card("open", FALSE, p, TRUE)>>, <<Card("cup", FALSE, FALSE, TRUE)>>>> : p \in BOOLEAN}
    ELSE IF j \in Res!Jobs THEN {IndexOf(p, "e2", "cup") : p \in {Pages("bob", 1), Pages("bob", 2), Pages("ann", 1)}}
    ELSE IF j \in Sch!Jobs THEN Sch!SomeSchedules
    ELSE IF j \in Ath!Jobs THEN Ath!SomeAthletes
    ELSE {Rendered[j][t] : t \in {Base, Without({<<"u15", "60">>}),
                                  [Base EXCEPT ![<<<<"senior", "men">>, "60">>]["total"] = 3]}}

\* The table is empty, up to date with the base, or (of a WSO) holds a copy.
Tables(j) ==
    IF j \in Rank!Jobs THEN {[k \in Rank!Keys |-> <<>>]}
    ELSE IF j \in Res!Jobs THEN {[k \in Res!Keys |-> <<>>]}
    ELSE IF j \in Sch!Jobs THEN {Nothing}
    ELSE IF j \in Ath!Jobs THEN Ath!AthleteTablesOf(j)
    ELSE IF j = "usaw_meets" THEN {[m \in Meets |-> <<>>]}
    ELSE IF j = "usamw_events"
    THEN {[m \in Meets |-> IF m = "open" THEN row ELSE <<>>] :
             row \in {<<>>, <<Ev!Meet(Event("may", "here"), "completed")>>}}
    ELSE LET Stored(k) == IF j \in {"usaw_qt", "usamw_qt"} THEN Base[k]["total"] ELSE Base[k]
             full == [k \in Keys |-> <<Stored(k)>>]
             one == CHOOSE k \in Keys : TRUE
         IN {[k \in Keys |-> <<>>], full}
            \union IF j \in Wso!Jobs THEN {[full EXCEPT ![one] = <<Stored(one), Stored(one)>>]} ELSE {}

AllJobs == TruthJobs \union Rank!Jobs \union Ev!Jobs \union Res!Jobs \union Sch!Jobs \union Ath!Jobs

Init == FrameInit(AllJobs, Sites, Some, Tables)

Next ==
    \/ SiteChanges(Some) \/ OtherJob(Sch!Jobs) \/ OtherJob(Ath!Jobs) \/ Start \/ Dies
    \/ Rec!Step
    \/ Std!Step
    \/ Wso!Step
    \/ Rank!Step
    \/ Ev!Step
    \/ Res!Step
    \/ Sch!Step
    \/ Ath!Step

Spec == Init /\ [][Next]_jobVars

(***************************************************************************)
(* Properties                                                              *)
(***************************************************************************)
\* The jobs that read men and women from the two sides of one table.  Where one
\* gender has fewer classes in a category, the blank side is read as an open
\* class that holds no record.
SideJobs == {"carolinas", "florida", "new_jersey"}
Shorter(t, s) == \E g \in Genders : Len(OfAge(t, s[1], s[2])) < Len(OfAge(t, s[1], g))

ReadAs(t) ==
    IF job \in {"usaw_qt", "usamw_qt"} THEN payload = Totals(t)
    ELSE IF job \notin SideJobs THEN payload = t
    ELSE /\ \A k \in DOMAIN t : k \in DOMAIN payload /\ payload[k] = t[k]
         /\ \A k \in DOMAIN payload \ DOMAIN t : payload[k] = NoLifts /\ Shorter(t, k[1])

\* Carolinas: with fewer than two classes in the first section of a tab, the
\* header of the next is among the rows at the top and is passed over.
HeaderAtTop(tab) ==
    Cardinality({i \in DOMAIN tab : i <= TopRows /\ Wso!Heads(tab[i])}) > 1

\* What a scraper parses from a site is what the site shows, in every layout,
\* whichever records are blank and whichever classes are missing, of one gender
\* or of both; but for the open classes without a record that a side too short
\* is given, and for a Carolinas tab whose first section is too short.
ReadsBack ==
    pc = "write" /\ ~hitch =>
        /\ job \in TruthJobs =>
              \A t \in Truths :
                 /\ source = Rendered[job][t]
                 /\ job = "carolinas" => \A x \in DOMAIN AgesOf : ~HeaderAtTop(source.tabs[x])
                 => ReadAs(t)
        /\ job = "usamw_events" =>
              \A t \in EventTruths, plain \in BOOLEAN : source = EventsPage(t, plain) => payload = t
        /\ job \in Sch!Jobs =>
              \A t \in Sch!ScheduleTruths, style \in Sch!Styles(job) :
                 source = Sch!SchedulesIn[style][t] => payload = Sch!ShownSlots(job, t)

\* A page may list two PDFs of one group; each run then replaces it twice.
OnePdfPerGroup ==
    \A i, j \in DOMAIN source : source[i].group = source[j].group => i = j

\* The jobs that post nothing.
Silent == {"usaw_qt", "usamw_qt", "tnky", "usaw_meets"} \union (Wso!TabJobs \ {"pawv"}) \union Wso!FlatJobs
          \union Sch!Jobs \union Ath!Jobs

\* What the messages can tell: that of the IWF records tells no deletion, that of
\* the masters' events only new ones, and that of results names meets, not rows.
MeetsIn(keys) == {k[1] : k \in keys}
Tellable(t) ==
    CASE job = "iwf" -> [NoTally EXCEPT !.inserted = t.inserted, !.updated = t.updated]
      [] job = "usamw_events" -> [NoTally EXCEPT !.inserted = t.inserted]
      [] job = "usaw_results" -> [NoTally EXCEPT !.inserted = MeetsIn(t.inserted),
                                                 !.updated = MeetsIn(t.updated) \ MeetsIn(t.inserted)]
      [] job = "bwl_import" -> [NoTally EXCEPT !.inserted = MeetsIn(t.inserted)]
      [] OTHER -> t

\* A meet may list two lifters of one name; each run then changes the row twice.
OneRowPerName ==
    \A y \in Years : \A i \in DOMAIN source[y] :
        LET names == [j \in DOMAIN FlattenSeq(source[y][i].pages) |-> FlattenSeq(source[y][i].pages)[j].name]
        IN \A j, k \in DOMAIN names : names[j] = names[k] => j = k

\* What Slack is told is what changed in the table, and a change that a finished
\* run made is told unless the post failed.  The British results are named in
\* every run, changed or not.
SlackHearsWhatChanged ==
    /\ exit = "ok" /\ job \notin Silent \union {"bwl_results"}
    /\ job \in Rank!Jobs => last = {source} /\ OnePdfPerGroup
    /\ job = "iwf" => ~hitch
    /\ job = "usaw_results" => OneRowPerName
    => IF said = {} THEN lost \/ Tellable(Changed) = NoTally
       ELSE \A t \in said : (IF job = "iwf" THEN Tellable(t) ELSE t) = Tellable(Changed)

\* A run over a site that the run before it stored completely writes nothing.
\* Not so of the British records, whose failed lookups insert again, of the
\* assignment, which takes either of two athletes without a number (and whose writes
\* beside the entries are its own), of the entries over two rows of one athlete, of
\* which they take either, nor of these jobs when a request or a row failed: the IWF
\* records are deleted with the page, of two events of one name the earlier stays, the
\* calendar and the import add everything again, and results of older meets come up
\* when the index lacks the newest.
WritesNothingAgain ==
    /\ exit = "running" /\ last = {source} /\ job \notin {"bwl", "assign"}
    /\ job \in {"iwf", "usamw_events", "usaw_meets"} \union Res!Jobs => ~hitch'
    /\ job \in Rank!Jobs => OnePdfPerGroup
    /\ job \in Res!Jobs => OneRowPerName
    /\ job \in Ath!Jobs => pc' = "idle" /\ Ath!Once(before)
    => rows' = rows

\* A tab that is gone is taken for one that is there when the sheet has a
\* foreign tab in front that reads as records: by Ohio, which only compares its
\* tabs with one another, and by Carolinas for the tab it knows to be the front
\* one.
Mistaken(x) ==
    /\ source.front \notin {source.tabs[y] : y \in DOMAIN source.tabs \ {x}}
    /\ \/ job = "ohio" /\ Wso!OhioTab(x, source.front) # Nothing
       \/ job = "carolinas" /\ x = "youth" /\ Wso!CarolinasTab(x, source.front) # Nothing

\* A tab or a PDF that is gone or empty never costs a WSO a record, neither one
\* of the part itself nor any other, unless the tab is mistaken for another.
\* A job with a single tab cannot tell it gone from changed: of those the
\* property speaks only where the tab is empty.
Broken ==
    CASE job \in Wso!TabJobs ->
            \/ \E x \in source.gone : ~Mistaken(x)
            \/ \E x \in DOMAIN source.tabs : source.tabs[x] = <<>>
      [] job \in Wso!PdfJobs ->
            Len(source.links) < Expected \/ \E p \in DOMAIN source.pdfs : source.pdfs[p] = <<>>
      [] job = "illinois" ->
            \E i \in DOMAIN source : source[i].kind = "unparsed"
      [] OTHER -> source = <<>>

LosesRecord == \E k \in DOMAIN rows : rows[k] # <<>> /\ rows'[k] = <<>>

BrokenPartDeletesNothing == [][Broken /\ job \in Wso!Jobs => ~LosesRecord]_jobVars

RightSession == Ath!RightSession
AthleteOnce == Ath!AthleteOnce
RerunIsQuiet == [][WritesNothingAgain]_jobVars
AssignmentKept == [][Ath!KeepsAssignments]_jobVars
StoredAsListed == Rank!StoredAsListed
ListedGroupsStay == [][Rank!ListedGroupsStay]_jobVars
=============================================================================
