---------------------------- MODULE ScrapeJobsProofs ----------------------------
(***************************************************************************)
(* The scrape jobs, in behaviours that follow any of them.  The rankings:  *)
(* for any groups and any number of runs, a group that the page lists      *)
(* never loses its last row, and a run that succeeds leaves every group as *)
(* the last PDF of it lists it.  The records, standards, WSO records,      *)
(* rankings and events: what Slack is told is what changed in the table,   *)
(* for any table and payload, whatever fails on the way.                   *)
(***************************************************************************)
EXTENDS MCScrapeJobs, SequenceTheorems, WellFoundedInduction, TLAPS

-----------------------------------------------------------------------------
(* The steps of the other jobs are none of the rankings'.                   *)

LEMMA OthersElse ==
  ASSUME Rec!Step \/ Std!Step \/ Wso!Step \/ Ev!Step \/ Res!Step \/ Sch!Step \/ Ath!Step
  PROVE  job \notin Rank!Jobs /\ job' = job
<1> USE DEF Rank!Jobs
<1>1. CASE Rec!Step
  BY <1>1 DEF Rec!Step, Rec!UsawScrape, Rec!MastersScrape, Rec!UmwfScrape, Rec!UsamwScrape,
     Rec!BwlScrape, Rec!IwfScrape, Rec!WriteAll, Rec!WriteEach, Rec!BwlWrite, Rec!BwlStops,
     Rec!IwfReplace, Rec!Report, Rec!Jobs, Rec!Parsed, Rec!Upsert, Rec!RequestFails, Rec!Quits, Rec!Ends,
     Rec!work
<1>2. CASE Std!Step
  BY <1>2 DEF Std!Step, Std!StandardsScrape, Std!UsamwQtScrape, Std!UsawQtScrape,
     Std!WriteSet, Std!UsawQtWrite, Std!UsawQtDone, Std!StandardsReport, Std!UsamwQtDone,
     Std!Parsed, Std!Upsert, Std!RequestFails, Std!Quits, Std!Ends, Std!work
<1>3. CASE Wso!Step
  BY <1>3 DEF Wso!Step, Wso!WsoScrape, Wso!WsoSync, Wso!SilentEnd, Wso!RaisingEnd,
     Wso!LoggingEnd, Wso!Jobs, Wso!TabJobs, Wso!FlatJobs, Wso!PdfJobs,
     Wso!Parsed, Wso!RequestFails, Wso!Quits, Wso!Ends, Wso!work
<1>4. CASE Ev!Step
  BY <1>4 DEF Ev!Step, Ev!EventsScrape, Ev!EventsWrite, Ev!NotionRead, Ev!CalendarRead,
     Ev!NotionAdd, Ev!NotionDone, Ev!EventsReport, Ev!RequestFails, Ev!Quits, Ev!Ends, Ev!work
<1>5. CASE Res!Step
  BY <1>5 DEF Res!Step, Res!IndexRead, Res!PassOver, Res!MeetResults, Res!ImportCheck,
     Res!ImportMeet, Res!ResultsReport, Res!Jobs, Res!RequestFails, Res!Quits, Res!Ends, Res!work
<1>6. CASE Sch!Step
  BY <1>6 DEF Sch!Step, Sch!ScheduleScrape, Sch!ScheduleWrite, Sch!PrelimScrape,
     Sch!PrelimWrite, Sch!RequestFails, Sch!Quits, Sch!Ends, Sch!work
<1>7. CASE Ath!Step
  BY <1>7 DEF Ath!Step, Ath!EntriesScrape, Ath!EntryLookup, Ath!EntryUpsert,
     Ath!EntriesCommit, Ath!Goes, Ath!Writing, Ath!AssignScrape, Ath!AssignWrite,
     Ath!AssignsMeanwhile, Ath!DedupePlan, Ath!DedupeApply, Ath!RequestFails, Ath!Quits, Ath!Ends, Ath!work
<1> QED BY <1>1, <1>2, <1>3, <1>4, <1>5, <1>6, <1>7

-----------------------------------------------------------------------------
(* The pages of the rankings.                                               *)

\* A set of places in a list has a first and a last one.
LEMMA FirstOfPlaces ==
  ASSUME NEW n \in Nat, NEW S, S \subseteq 1..n, S # {}
  PROVE  Rank!Min(S) \in S /\ \A x \in S : Rank!Min(S) <= x
<1> DEFINE Less == OpToRel(<, Nat)
<1>1. IsWellFoundedOn(Less, Nat)
  BY NatLessThanWellFounded
<1>2. S \subseteq Nat
  OBVIOUS
<1>3. PICK m \in S : \A y \in S : ~(<<y, m>> \in Less)
  <2> HIDE DEF Less
  <2> QED BY <1>1, <1>2, WFMin
<1>4. \A y \in S : m <= y
  <2> SUFFICES ASSUME NEW y \in S, y < m PROVE FALSE
    BY <1>2
  <2> QED BY <1>2, <1>3 DEF OpToRel
<1> QED BY <1>4 DEF Rank!Min

LEMMA LastOfPlaces ==
  ASSUME NEW n \in Nat, NEW S, S \subseteq 1..n, S # {}
  PROVE  Rank!Max(S) \in S /\ \A x \in S : x <= Rank!Max(S)
<1> DEFINE T == {n - x + 1 : x \in S}
<1>1. T \subseteq 1..n /\ T # {}
  BY \A x \in S : x \in 1..n /\ n - x + 1 \in 1..n
<1>2. Rank!Min(T) \in T /\ \A y \in T : Rank!Min(T) <= y
  <2> HIDE DEF T
  <2> QED BY <1>1, FirstOfPlaces
<1> DEFINE m == Rank!Min(T)
<1> HIDE DEF m
<1>3. PICK a \in S : m = n - a + 1
  BY <1>2 DEF m
<1>4. ASSUME NEW x \in S PROVE x <= a
  <2>1. n - x + 1 \in T /\ x \in 1..n /\ a \in 1..n
    OBVIOUS
  <2>2. m <= n - x + 1
    <3> HIDE DEF T
    <3> QED BY <1>2, <2>1 DEF m
  <2> QED BY <1>3, <2>1, <2>2
<1> QED BY <1>4 DEF Rank!Max

\* The rows that a PDF lists are rows of entries.
Legible(pdf) ==
  \A i \in Rank!TableLines(pdf.lines) : pdf.lines[i].entry \in Entries

LEMMA RowsAreLegible ==
  ASSUME NEW pdf, NEW S, pdf.lines \in Seq(S),
         \A i \in DOMAIN pdf.lines : pdf.lines[i].kind = "row" => pdf.lines[i].entry \in Entries
  PROVE  Legible(pdf)
<1> DEFINE lines == pdf.lines
           headers == {i \in DOMAIN lines : lines[i].kind = "header"}
<1> SUFFICES ASSUME NEW i \in Rank!TableLines(lines) PROVE lines[i].entry \in Entries
  BY DEF Legible
<1>1. headers # {} /\ i \in (Rank!Min(headers) + 1)..Len(lines) /\ lines[i].kind = "row"
  BY Zenon DEF Rank!TableLines
<1>2. headers \subseteq 1..Len(lines) /\ Len(lines) \in Nat
  OBVIOUS
<1>3. Rank!Min(headers) \in 1..Len(lines)
  <2> HIDE DEF headers
  <2> QED BY <1>1, <1>2, FirstOfPlaces
<1>4. i \in 1..Len(lines)
  <2> HIDE DEF headers
  <2> QED BY <1>1, <1>2, <1>3
<1> QED BY <1>1, <1>4

\* What the page may show.
PdfLines == {Mark(k) : k \in {"header", "standards", "other"}}
         \union {Listed(e, t) : e \in Entries, t \in {1, 2}}
PdfGroups == {"worlds", "pan-ams", U}
Pdfs == {pdf \in [group : PdfGroups, lines : Seq(PdfLines)] : Legible(pdf)}
RankingPages == Seq(Pdfs) \ {<<>>}

LEMMA LinesAreLegible ==
  ASSUME NEW g \in PdfGroups, NEW lines \in Seq(PdfLines) PROVE Pdf(g, lines) \in Pdfs
<1>1. ASSUME NEW x \in PdfLines, x.kind = "row" PROVE x.entry \in Entries
  BY <1>1 DEF PdfLines, Mark, Listed
<1>2. \A i \in DOMAIN lines : lines[i] \in PdfLines
  OBVIOUS
<1>3. Legible(Pdf(g, lines))
  BY <1>1, <1>2, RowsAreLegible DEF Pdf
<1> QED BY <1>3 DEF Pdfs, Pdf

LEMMA ShortLists ==
  ASSUME NEW S, NEW a \in S, NEW b \in S
  PROVE  <<a>> \in Seq(S) \ {<<>>} /\ <<a, b>> \in Seq(S) \ {<<>>}
OBVIOUS

LEMMA SitesArePages == RankingSites \subseteq RankingPages /\ Some("rankings") \subseteq RankingPages
                       /\ Some("one_ranking") \subseteq RankingPages
<1>0. "worlds" \in PdfGroups /\ "pan-ams" \in PdfGroups /\ U \in PdfGroups
  BY DEF PdfGroups
<1>1. ASSUME NEW v \in {1, 2}, NEW m \in {"standards", "other"}, NEW e \in Entries
      PROVE  /\ <<Mark("header"), Listed("first", v), Mark(m), Listed("second", 1)>> \in Seq(PdfLines)
             /\ <<Listed("second", 2), Mark("header"), Listed(e, 1), Listed("second", 1)>> \in Seq(PdfLines)
  <2>1. \A k \in {"header", "standards", "other"} : Mark(k) \in PdfLines
    BY DEF PdfLines
  <2>2. \A x \in Entries, t \in {1, 2} : Listed(x, t) \in PdfLines
    BY DEF PdfLines
  <2> QED BY <2>1, <2>2, RankingAssumption
<1>2. RankingSites \subseteq RankingPages
  <2> SUFFICES ASSUME NEW s \in RankingSites PROVE s \in RankingPages
    OBVIOUS
  <2>1. CASE s = <<Pdf("pan-ams", <<Mark("header"), Listed("first", 1)>>)>>
    <3>1. <<Mark("header"), Listed("first", 1)>> \in Seq(PdfLines)
      BY RankingAssumption DEF PdfLines
    <3>2. Pdf("pan-ams", <<Mark("header"), Listed("first", 1)>>) \in Pdfs
      BY <1>0, <3>1, LinesAreLegible
    <3> QED BY <2>1, <3>2, ShortLists DEF RankingPages
  <2>2. ASSUME NEW v \in {1, 2}, NEW m \in {"standards", "other"},
               NEW g \in {"worlds", "pan-ams", U}, NEW e \in Entries,
               s = TwoPdfs(v, m, g, e)
        PROVE  s \in RankingPages
    <3>1. /\ Pdf("worlds", <<Mark("header"), Listed("first", v), Mark(m), Listed("second", 1)>>) \in Pdfs
          /\ Pdf(g, <<Listed("second", 2), Mark("header"), Listed(e, 1), Listed("second", 1)>>) \in Pdfs
      BY <1>0, <1>1, LinesAreLegible
    <3> DEFINE a == Pdf("worlds", <<Mark("header"), Listed("first", v), Mark(m), Listed("second", 1)>>)
               b == Pdf(g, <<Listed("second", 2), Mark("header"), Listed(e, 1), Listed("second", 1)>>)
    <3>2. s = <<a, b>> /\ a \in Pdfs /\ b \in Pdfs
      BY <2>2, <3>1 DEF TwoPdfs
    <3> HIDE DEF a, b
    <3> QED BY <3>2, ShortLists DEF RankingPages
  <2> QED BY <2>1, <2>2 DEF RankingSites
<1>3. ASSUME NEW lines \in {<<Mark("header")>>, <<Mark("header"), Listed("first", 1)>>,
                            <<Mark("header"), Listed("second", 2)>>},
             NEW g \in {"pan-ams", U}
      PROVE  <<Pdf("worlds", lines), Pdf(g, <<Mark("header"), Listed("second", 1)>>)>> \in RankingPages
  <2>1. lines \in Seq(PdfLines) /\ <<Mark("header"), Listed("second", 1)>> \in Seq(PdfLines)
    <3>1. Mark("header") \in PdfLines /\ Listed("first", 1) \in PdfLines /\ Listed("second", 2) \in PdfLines
          /\ Listed("second", 1) \in PdfLines
      BY RankingAssumption DEF PdfLines
    <3> QED BY <3>1, ShortLists
  <2>2. Pdf("worlds", lines) \in Pdfs /\ Pdf(g, <<Mark("header"), Listed("second", 1)>>) \in Pdfs
    BY <1>0, <2>1, LinesAreLegible
  <2> QED BY <2>2, ShortLists DEF RankingPages
<1>4. \A j \in Rank!Jobs : Some(j) \subseteq RankingPages
  BY <1>3 DEF Some
<1> QED BY <1>2, <1>4 DEF Rank!Jobs

-----------------------------------------------------------------------------
(* The invariant: while nothing has failed, the groups replaced so far hold *)
(* what the last PDF of each lists.                                         *)

Lists(pdf, e) == \E i \in Rank!TableLines(pdf.lines) : pdf.lines[i].entry = e
HoldsGroup(t, pdf, g) == \A e \in Entries : t[<<g, e>>] # <<>> <=> Lists(pdf, e)

\* No PDF among the first d but the i-th and those before it is of its group.
LastOfGroup(s, i, d) == \A j \in (i + 1)..d : s[j].group # s[i].group

\* The groups of the first d PDFs hold what the last PDF of each lists.
HoldsFirst(t, s, d) ==
  \A i \in 1..d : s[i].group \in Groups /\ LastOfGroup(s, i, d) => HoldsGroup(t, s[i], s[i].group)

HoldsAll(t, s) ==
  /\ HoldsFirst(t, s, Len(s))
  /\ \A g \in Groups : (\A i \in DOMAIN s : s[i].group # g) =>
                          \A e \in Entries : t[<<g, e>>] = <<>>

ReplacedSoFar ==
  \E d \in 0..Len(source) :
    /\ todo = SubSeq(source, d + 1, Len(source))
    /\ payload = {source[i].group : i \in 1..d}
    /\ HoldsFirst(rows, source, d)

RankInv ==
  job \in Rank!Jobs =>
    /\ source \in RankingPages /\ DOMAIN rows = Rank!Keys
    /\ pc \in {"idle", "scrape", "write", "notify", "notify_stale"}
    /\ pc = "write" => todo \in Seq(Pdfs)
    /\ exit = "ok" => pc = "idle"
    /\ job = "rankings" =>
         /\ exit = "ok" => \A s \in last : HoldsAll(rows, s)
         /\ pc = "write" /\ ~hitch => ReplacedSoFar
         /\ pc = "notify" /\ ~hitch => HoldsAll(rows, source)

LEMMA RankBegins == Init => RankInv
<1> SUFFICES ASSUME Init, job \in Rank!Jobs PROVE RankInv
  BY DEF RankInv
<1>1. Sites(job) = RankingSites /\ Tables(job) = {[k \in Rank!Keys |-> <<>>]}
  BY DEF Sites, Tables
<1>2. Some(job) \subseteq RankingPages
  BY SitesArePages DEF Rank!Jobs
<1> QED BY <1>1, <1>2, SitesArePages DEF Init, FrameInit, RankInv

\* What a replace does to the groups.
LEMMA ReplaceHolds ==
  ASSUME NEW pdf \in Pdfs, DOMAIN rows = Rank!Keys, rows' = Rank!Replaced(pdf)
  PROVE  /\ DOMAIN rows' = Rank!Keys
         /\ pdf.group \in Groups => HoldsGroup(rows', pdf, pdf.group)
         /\ \A g \in Groups, e \in Entries : g # pdf.group => rows'[<<g, e>>] = rows[<<g, e>>]
<1> DEFINE At(e) == {i \in Rank!TableLines(pdf.lines) : pdf.lines[i].entry = e}
<1>1. \A k \in Rank!Keys :
        rows'[k] = IF k[1] # pdf.group THEN rows[k]
                   ELSE IF At(k[2]) = {} THEN <<>>
                   ELSE <<pdf.lines[CHOOSE i \in At(k[2]) : TRUE].total>>
  BY DEF Rank!Replaced
<1>2. DOMAIN rows' = Rank!Keys
  BY DEF Rank!Replaced
<1>3. \A e : At(e) # {} <=> Lists(pdf, e)
  BY DEF Lists
<1> HIDE DEF At
<1>4. \A g \in Groups, e \in Entries :
        <<g, e>> \in Rank!Keys /\ <<g, e>>[1] = g /\ <<g, e>>[2] = e
  BY DEF Rank!Keys
<1>5. \A x : <<x>> # <<>>
  OBVIOUS
<1>6. ASSUME pdf.group \in Groups PROVE HoldsGroup(rows', pdf, pdf.group)
  <2> SUFFICES ASSUME NEW e \in Entries
               PROVE  rows'[<<pdf.group, e>>] # <<>> <=> Lists(pdf, e)
    BY DEF HoldsGroup, Lists
  <2>1. rows'[<<pdf.group, e>>] = IF At(e) = {} THEN <<>>
                                  ELSE <<pdf.lines[CHOOSE i \in At(e) : TRUE].total>>
    BY <1>1, <1>4, <1>6
  <2> QED BY <1>3, <1>5, <2>1
<1>7. \A g \in Groups, e \in Entries : g # pdf.group => rows'[<<g, e>>] = rows[<<g, e>>]
  BY <1>1, <1>4
<1> QED BY <1>2, <1>6, <1>7

\* The first of the PDFs that are left, and the others.
LEMMA NextPdf ==
  ASSUME NEW S, NEW s \in Seq(S), NEW d \in 0..Len(s), SubSeq(s, d + 1, Len(s)) # <<>>
  PROVE  /\ d + 1 \in DOMAIN s /\ d + 1 \in 0..Len(s)
         /\ Head(SubSeq(s, d + 1, Len(s))) = s[d + 1]
         /\ Tail(SubSeq(s, d + 1, Len(s))) = SubSeq(s, d + 1 + 1, Len(s))
<1> DEFINE t == SubSeq(s, d + 1, Len(s))
           u == SubSeq(s, d + 1 + 1, Len(s))
<1>1. d \in Nat /\ Len(s) \in Nat /\ d <= Len(s) /\ \A j \in 1..Len(s) : s[j] \in S
  OBVIOUS
<1>2. t \in Seq(S) /\ Len(t) = Len(s) - d /\ \A i \in 1..(Len(s) - d) : t[i] = s[d + i]
  BY <1>1, SubSeqProperties
<1>3. d # Len(s)
  <2> SUFFICES ASSUME d = Len(s) PROVE FALSE
    OBVIOUS
  <2>1. Len(t) = 0
    BY <1>2
  <2> HIDE DEF t
  <2>2. t = <<>>
    BY <1>2, <2>1, EmptySeq
  <2> QED BY <2>2 DEF t
<1>4. u \in Seq(S) /\ Len(u) = Len(s) - d - 1 /\ \A i \in 1..(Len(s) - d - 1) : u[i] = s[d + 1 + i]
  BY <1>1, <1>3, SubSeqProperties
<1> HIDE DEF t, u
<1>5. /\ Head(t) = t[1] /\ Tail(t) \in Seq(S) /\ Len(Tail(t)) = Len(t) - 1
      /\ \A i \in 1..Len(Tail(t)) : Tail(t)[i] = t[i + 1]
  <2>1. t # <<>>
    BY <1>1, <1>2, <1>3
  <2> QED BY <1>2, <2>1, HeadTailProperties
<1>6. Tail(t) = u
  <2>1. Len(Tail(t)) = Len(u)
    BY <1>1, <1>2, <1>4, <1>5
  <2>2. ASSUME NEW i \in 1..Len(u) PROVE Tail(t)[i] = u[i]
    <3>1. /\ i \in 1..(Len(s) - d - 1) /\ i + 1 \in 1..(Len(s) - d)
          /\ d + (i + 1) = d + 1 + i /\ i \in 1..Len(Tail(t))
      BY <1>1, <1>4, <2>1
    <3> QED BY <1>2, <1>4, <1>5, <3>1
  <2> QED BY <1>4, <1>5, <2>1, <2>2, SeqEqual
<1>7. Head(t) = s[d + 1] /\ d + 1 \in DOMAIN s /\ d + 1 \in 0..Len(s)
  BY <1>1, <1>2, <1>3, <1>5
<1> QED BY <1>6, <1>7 DEF t, u

LEMMA NothingLeft ==
  ASSUME NEW S, NEW s \in Seq(S), NEW d \in 0..Len(s), SubSeq(s, d + 1, Len(s)) = <<>>
  PROVE  d = Len(s)
<1>1. d \in Nat /\ Len(s) \in Nat /\ d <= Len(s) /\ \A j \in (d + 1)..Len(s) : s[j] \in S
  OBVIOUS
<1>2. Len(SubSeq(s, d + 1, Len(s))) = Len(s) - d
  BY <1>1, SubSeqProperties
<1>3. Len(SubSeq(s, d + 1, Len(s))) = 0
  OBVIOUS
<1> QED BY <1>1, <1>2, <1>3

LEMMA PdfKeepsRankInv ==
  ASSUME RankInv, Rank!RankingsPdf PROVE RankInv'
<1>1. /\ job \in Rank!Jobs /\ pc = "write" /\ todo # <<>> /\ todo' = Tail(todo)
      /\ job' = job /\ source' = source /\ pc' = pc /\ last' = last /\ exit' = exit
  BY DEF Rank!RankingsPdf
<1>2. /\ source \in RankingPages /\ DOMAIN rows = Rank!Keys /\ todo \in Seq(Pdfs)
      /\ exit # "ok" /\ Head(todo) \in Pdfs /\ Tail(todo) \in Seq(Pdfs)
  BY <1>1, HeadTailProperties DEF RankInv
<1>3. CASE hitch' = TRUE /\ UNCHANGED <<rows, payload, tally>>
  BY <1>1, <1>2, <1>3 DEF RankInv
<1>4. CASE /\ rows' = Rank!Replaced(Head(todo)) /\ hitch' = hitch
           /\ payload' = payload \union {Head(todo).group}
  <2> DEFINE pdf == Head(todo)
  <2>1. /\ DOMAIN rows' = Rank!Keys
        /\ pdf.group \in Groups => HoldsGroup(rows', pdf, pdf.group)
        /\ \A g \in Groups, e \in Entries : g # pdf.group => rows'[<<g, e>>] = rows[<<g, e>>]
    BY <1>2, <1>4, ReplaceHolds
  <2>2. ASSUME job = "rankings", ~hitch PROVE ReplacedSoFar'
    <3>1. PICK d \in 0..Len(source) :
            /\ todo = SubSeq(source, d + 1, Len(source))
            /\ payload = {source[i].group : i \in 1..d}
            /\ HoldsFirst(rows, source, d)
      BY <1>1, <2>2 DEF RankInv, ReplacedSoFar
    <3>2. source \in Seq(Pdfs)
      BY <1>2 DEF RankingPages
    <3>3. /\ d + 1 \in DOMAIN source /\ d + 1 \in 0..Len(source) /\ pdf = source[d + 1]
          /\ todo' = SubSeq(source, d + 1 + 1, Len(source))
      BY <1>1, <3>1, <3>2, NextPdf
    <3> HIDE DEF pdf
    <3>4. payload' = {source[i].group : i \in 1..(d + 1)}
      <4>1. 1..(d + 1) = (1..d) \union {d + 1}
        BY <3>1
      <4> QED BY <1>4, <3>1, <3>3, <4>1 DEF pdf
    <3>5. HoldsFirst(rows', source, d + 1)
      <4> SUFFICES ASSUME NEW i \in 1..(d + 1), source[i].group \in Groups,
                          LastOfGroup(source, i, d + 1)
                   PROVE  HoldsGroup(rows', source[i], source[i].group)
        BY <1>1 DEF HoldsFirst, HoldsGroup, LastOfGroup
      <4>1. CASE i = d + 1
        BY <2>1, <3>3, <4>1 DEF HoldsGroup
      <4>2. CASE i # d + 1
        <5>1. i \in 1..d /\ d \in Nat /\ i \in Nat
          BY <3>1, <4>2
        <5>2. d + 1 \in (i + 1)..(d + 1) /\ \A j \in (i + 1)..d : j \in (i + 1)..(d + 1)
          BY <5>1
        <5>3. source[d + 1].group # source[i].group /\ LastOfGroup(source, i, d)
          BY <5>2 DEF LastOfGroup
        <5>4. HoldsGroup(rows, source[i], source[i].group)
          BY <3>1, <5>1, <5>3 DEF HoldsFirst
        <5> QED BY <2>1, <3>3, <5>3, <5>4 DEF HoldsGroup
      <4> QED BY <4>1, <4>2
    <3> QED BY <1>1, <3>3, <3>4, <3>5 DEF ReplacedSoFar
  <2> QED BY <1>1, <1>2, <1>4, <2>1, <2>2 DEF RankInv
<1> QED BY <1>3, <1>4 DEF Rank!RankingsPdf

LEMMA PruneKeepsRankInv ==
  ASSUME RankInv, Rank!RankingsPrune PROVE RankInv'
<1>1. /\ job \in Rank!Jobs /\ pc = "write" /\ todo = <<>>
      /\ job' = job /\ source' = source /\ last' = last /\ exit' = exit /\ hitch' = hitch
      /\ pc' \in {"notify", "notify_stale"} /\ exit # "ok"
  BY DEF Rank!RankingsPrune, RankInv
<1>2. DOMAIN rows' = DOMAIN rows
  BY DEF Rank!RankingsPrune
<1>3. ASSUME job = "rankings", ~hitch, pc' = "notify" PROVE HoldsAll(rows', source)
  <2>1. rows' = [k \in DOMAIN rows |-> IF k[1] \notin payload /\ rows[k] # <<>>
                                       THEN <<>> ELSE rows[k]]
    BY <1>1, <1>3 DEF Rank!RankingsPrune
  <2>2. PICK d \in 0..Len(source) :
          /\ todo = SubSeq(source, d + 1, Len(source))
          /\ payload = {source[i].group : i \in 1..d}
          /\ HoldsFirst(rows, source, d)
    BY <1>1, <1>3 DEF RankInv, ReplacedSoFar
  <2>3. source \in Seq(Pdfs) /\ DOMAIN rows = Rank!Keys
    BY <1>1 DEF RankInv, RankingPages
  <2>4. d = Len(source)
    BY <1>1, <2>2, <2>3, NothingLeft
  <2>5. ASSUME NEW g \in Groups, NEW e \in Entries
        PROVE  rows'[<<g, e>>] = IF g \in payload THEN rows[<<g, e>>] ELSE <<>>
    BY <2>1, <2>3 DEF Rank!Keys
  <2>6. HoldsFirst(rows', source, Len(source))
    <3> SUFFICES ASSUME NEW i \in 1..d, source[i].group \in Groups, LastOfGroup(source, i, d)
                 PROVE  HoldsGroup(rows', source[i], source[i].group)
      BY <1>1, <2>4 DEF HoldsFirst, HoldsGroup, LastOfGroup
    <3>1. source[i].group \in payload
      BY <2>2
    <3>2. HoldsGroup(rows, source[i], source[i].group)
      BY <2>2 DEF HoldsFirst
    <3> QED BY <2>5, <3>1, <3>2 DEF HoldsGroup
  <2>7. ASSUME NEW g \in Groups, \A i \in DOMAIN source : source[i].group # g
        PROVE  \A e \in Entries : rows'[<<g, e>>] = <<>>
    <3>1. g \notin payload
      BY <2>2, <2>3, <2>4, <2>7
    <3> QED BY <2>5, <3>1
  <2> QED BY <1>1, <2>6, <2>7 DEF HoldsAll
<1> QED BY <1>1, <1>2, <1>3 DEF RankInv

LEMMA ScrapeKeepsRankInv ==
  ASSUME RankInv, Rank!RankingsScrape PROVE RankInv'
<1>1. /\ job \in Rank!Jobs /\ job' = job /\ source' = source /\ rows' = rows
      /\ source \in RankingPages /\ DOMAIN rows = Rank!Keys /\ exit # "ok"
  BY DEF Rank!RankingsScrape, Rank!Quits, Rank!Ends, RankInv
<1>2. source \in Seq(Pdfs) /\ source # <<>> /\ source[1] \in Pdfs /\ Len(source) \in Nat
  <2>1. source \in Seq(Pdfs) /\ source # <<>>
    BY <1>1 DEF RankingPages
  <2>2. Len(source) \in Nat /\ Len(source) # 0
    BY <2>1, EmptySeq
  <2> QED BY <2>1, <2>2
<1>3. CASE Rank!Quits("failed")
  BY <1>1, <1>3 DEF Rank!Quits, Rank!Ends, RankInv
<1>4. CASE /\ payload' = {} /\ todo' = IF job = "rankings" THEN source ELSE <<source[1]>>
           /\ pc' = "write" /\ UNCHANGED <<last, exit>>
  <2>1. todo' \in Seq(Pdfs)
    BY <1>2, <1>4, ShortLists
  <2>2. ASSUME job = "rankings" PROVE ReplacedSoFar'
    <3>1. source = SubSeq(source, 0 + 1, Len(source))
      <4> DEFINE t == SubSeq(source, 1, Len(source))
      <4>1. \A j \in 1..Len(source) : source[j] \in Pdfs
        BY <1>2
      <4>2. t \in Seq(Pdfs) /\ Len(t) = Len(source) /\ \A i \in 1..Len(t) : t[i] = source[i]
        BY <1>2, <4>1, SubSeqProperties
      <4> HIDE DEF t
      <4>3. t = source
        BY <1>2, <4>2, SeqEqual
      <4> QED BY <4>3 DEF t
    <3>2. todo' = SubSeq(source, 0 + 1, Len(source)) /\ payload' = {source[i].group : i \in 1..0}
      BY <1>4, <2>2, <3>1
    <3>3. HoldsFirst(rows', source, 0) /\ 0 \in 0..Len(source)
      BY <1>2 DEF HoldsFirst
    <3> QED BY <1>1, <3>2, <3>3 DEF ReplacedSoFar
  <2> QED BY <1>1, <1>4, <2>1, <2>2 DEF RankInv
<1> QED BY <1>3, <1>4 DEF Rank!RankingsScrape

LEMMA ReportKeepsRankInv ==
  ASSUME RankInv, Rank!RankingsReport PROVE RankInv'
<1>1. /\ job \in Rank!Jobs /\ pc \in {"notify", "notify_stale"}
      /\ job' = job /\ source' = source /\ rows' = rows /\ pc' = "idle"
      /\ exit' = IF hitch THEN "failed" ELSE "ok"
      /\ last' = IF ~hitch /\ (pc = "notify_stale" => job = "one_ranking") THEN {source} ELSE {}
  BY DEF Rank!RankingsReport, Rank!Ends
<1>2. ASSUME job = "rankings", exit' = "ok", NEW s \in last' PROVE HoldsAll(rows', s)
  <2>1. ~hitch /\ pc = "notify" /\ s = source
    BY <1>1, <1>2
  <2> QED BY <1>1, <1>2, <2>1 DEF RankInv
<1> QED BY <1>1, <1>2 DEF RankInv

LEMMA FrameKeepsRankInv ==
  ASSUME RankInv,
         SiteChanges(Some) \/ OtherJob(Sch!Jobs) \/ OtherJob(Ath!Jobs) \/ Start \/ Dies
  PROVE  RankInv'
<1>1. CASE SiteChanges(Some)
  <2>1. /\ job' = job /\ rows' = rows /\ pc = "idle" /\ pc' = pc /\ last' = last
        /\ exit' = exit /\ source' \in Some(job)
    BY <1>1 DEF SiteChanges
  <2>2. job \in Rank!Jobs => source' \in RankingPages
    BY <2>1, SitesArePages DEF Rank!Jobs
  <2> QED BY <2>1, <2>2 DEF RankInv
<1>2. CASE OtherJob(Sch!Jobs) \/ OtherJob(Ath!Jobs)
  BY <1>2 DEF OtherJob, Sch!Jobs, Ath!Jobs, Rank!Jobs, RankInv
<1>3. CASE Start
  BY <1>3 DEF Start, RankInv
<1>4. CASE Dies
  BY <1>4 DEF Dies, Quits, Ends, work, RankInv
<1> QED BY <1>1, <1>2, <1>3, <1>4

LEMMA RankSteps == RankInv /\ [Next]_jobVars => RankInv'
<1> SUFFICES ASSUME RankInv, [Next]_jobVars PROVE RankInv'
  OBVIOUS
<1>1. CASE UNCHANGED jobVars
  BY <1>1 DEF jobVars, work, RankInv, ReplacedSoFar
<1>2. CASE Rec!Step \/ Std!Step \/ Wso!Step \/ Ev!Step \/ Res!Step \/ Sch!Step \/ Ath!Step
  BY <1>2, OthersElse DEF RankInv
<1>3. CASE Rank!Step
  BY <1>3, PdfKeepsRankInv, PruneKeepsRankInv, ScrapeKeepsRankInv, ReportKeepsRankInv
     DEF Rank!Step
<1> QED BY <1>1, <1>2, <1>3, FrameKeepsRankInv DEF Next

LEMMA SpecRankInv == Spec => []RankInv
BY RankBegins, RankSteps, PTL DEF Spec

\* After a run of the rankings that exits with success each group is as its last
\* PDF says, and a group of no PDF is empty (scrape_rankings_pdf, prune_missing_groups),
\* for any groups, entries and number of runs on the pages of RankingSites.
THEOREM RankingsAreStored == Spec => []StoredAsListed
<1>1. RankInv => StoredAsListed
  <2> SUFFICES ASSUME RankInv, job = "rankings", exit = "ok", last = {source}, NEW g \in Groups
               PROVE  LET pdfs == {i \in DOMAIN source : source[i].group = g} IN
                      IF pdfs = {} THEN Rank!Empty(g)
                      ELSE HoldsGroup(rows, source[Rank!Max(pdfs)], g)
    BY DEF StoredAsListed, Rank!StoredAsListed, HoldsGroup, Lists
  <2> DEFINE pdfs == {i \in DOMAIN source : source[i].group = g}
             n == Rank!Max(pdfs)
  <2>1. HoldsAll(rows, source) /\ source \in Seq(Pdfs)
    BY DEF RankInv, RankingPages, Rank!Jobs
  <2>2. pdfs \subseteq 1..Len(source) /\ Len(source) \in Nat
    BY <2>1
  <2>3. CASE pdfs = {}
    BY <2>1, <2>3 DEF HoldsAll, Rank!Empty
  <2>4. CASE pdfs # {}
    <3>1. n \in pdfs /\ \A x \in pdfs : x <= n
      <4> HIDE DEF pdfs
      <4> QED BY <2>2, <2>4, LastOfPlaces
    <3> HIDE DEF n
    <3>2. n \in 1..Len(source) /\ source[n].group = g
      BY <2>2, <3>1
    <3>3. LastOfGroup(source, n, Len(source))
      <4> SUFFICES ASSUME NEW j \in (n + 1)..Len(source), source[j].group = g PROVE FALSE
        BY <3>2 DEF LastOfGroup
      <4>1. j \in 1..Len(source) /\ ~(j <= n)
        BY <2>2, <3>2
      <4>2. j \in pdfs
        BY <2>1, <4>1
      <4> HIDE DEF pdfs
      <4> QED BY <3>1, <4>1, <4>2
    <3>4. HoldsGroup(rows, source[n], g)
      BY <2>1, <3>2, <3>3 DEF HoldsAll, HoldsFirst
    <3> QED BY <2>4, <3>4 DEF n
  <2> QED BY <2>3, <2>4
<1> QED BY <1>1, SpecRankInv, PTL

\* A step never empties a group that the page lists, whatever fails and whenever
\* the run dies (replace_intl_rankings_group writes a group in one transaction).
THEOREM ListedStay == Spec => ListedGroupsStay
<1>1. RankInv /\ [Next]_jobVars => [Rank!ListedGroupsStay]_jobVars
  <2> SUFFICES ASSUME RankInv, Next, job \in Rank!Jobs, NEW g \in Groups,
                      g \in Rank!ListedGroups, ~Rank!Empty(g)
               PROVE  ~Rank!Empty(g)'
    BY DEF Rank!ListedGroupsStay
  <2>1. CASE rows' = rows
    BY <2>1 DEF Rank!Empty
  <2>2. CASE Rank!RankingsPdf /\ rows' # rows
    <3>1. DOMAIN rows = Rank!Keys /\ todo \in Seq(Pdfs) /\ todo # <<>>
      BY <2>2 DEF RankInv, Rank!RankingsPdf
    <3> DEFINE pdf == Head(todo)
    <3>2. pdf \in Pdfs /\ rows' = Rank!Replaced(pdf) /\ Rank!Replaceable(pdf)
      BY <2>2, <3>1, HeadTailProperties DEF Rank!RankingsPdf
    <3> HIDE DEF pdf
    <3>3. CASE g = pdf.group
      <4>1. PICK i \in Rank!TableLines(pdf.lines) : pdf.lines[i].entry \in Entries
        BY <3>2 DEF Rank!Replaceable, Pdfs, Legible
      <4>2. Lists(pdf, pdf.lines[i].entry)
        BY DEF Lists
      <4>3. rows'[<<g, pdf.lines[i].entry>>] # <<>>
        BY <3>1, <3>2, <3>3, <4>1, <4>2, ReplaceHolds DEF HoldsGroup
      <4> QED BY <4>1, <4>3 DEF Rank!Empty
    <3>4. CASE g # pdf.group
      BY <3>1, <3>2, <3>4, ReplaceHolds DEF Rank!Empty
    <3> QED BY <3>3, <3>4
  <2>3. CASE Rank!RankingsPrune /\ rows' # rows
    <3>1. /\ job = "rankings" /\ ~hitch /\ todo = <<>> /\ pc = "write"
          /\ rows' = [k \in DOMAIN rows |-> IF k[1] \notin payload /\ rows[k] # <<>>
                                            THEN <<>> ELSE rows[k]]
      BY <2>3 DEF Rank!RankingsPrune, Rank!Jobs
    <3>2. source \in Seq(Pdfs) /\ DOMAIN rows = Rank!Keys
      BY DEF RankInv, RankingPages
    <3>3. PICK d \in 0..Len(source) :
            /\ todo = SubSeq(source, d + 1, Len(source))
            /\ payload = {source[i].group : i \in 1..d}
      BY <3>1 DEF RankInv, ReplacedSoFar
    <3>4. d = Len(source)
      BY <3>1, <3>2, <3>3, NothingLeft
    <3>5. g \in payload
      BY <3>2, <3>3, <3>4 DEF Rank!ListedGroups, Rank!ToSet
    <3>6. \A e \in Entries : rows'[<<g, e>>] = rows[<<g, e>>]
      BY <3>1, <3>2, <3>5 DEF Rank!Keys
    <3> QED BY <3>6 DEF Rank!Empty
  <2>4. Rank!RankingsPdf \/ Rank!RankingsPrune \/ rows' = rows
    <3>1. CASE Rank!RankingsScrape \/ Rank!RankingsReport
      BY <3>1 DEF Rank!RankingsScrape, Rank!RankingsReport, Rank!Quits
    <3>2. CASE SiteChanges(Some) \/ OtherJob(Sch!Jobs) \/ OtherJob(Ath!Jobs) \/ Start \/ Dies
      BY <3>2 DEF SiteChanges, OtherJob, Start, Dies, Quits
    <3> QED BY <3>1, <3>2, OthersElse DEF Next, Rank!Step
  <2> QED BY <2>1, <2>2, <2>3, <2>4
<1> QED BY <1>1, SpecRankInv, PTL DEF Spec, ListedGroupsStay
-----------------------------------------------------------------------------
(* The kinds of step that the jobs of records, standards and events take.   *)

TellJobs == (TruthJobs \ {"usaw_qt"}) \union {"usamw_events"}
Steady == Std!Jobs \union Wso!Jobs        \* jobs whose run ends when a request fails

PartOf(p, q) == DOMAIN p \subseteq DOMAIN q /\ \A k \in DOMAIN p : p[k] = q[k]

\* What a job reads from a site when no request fails.
Readings(j, s) ==
  IF j = "usaw" THEN {Rec!UsawRecords(s.pdf)}
  ELSE IF j = "masters" THEN {Rec!MastersRecords(s)}
  ELSE IF j = "umwf" THEN {Rec!UmwfRecords(s, Rec!Sections)}
  ELSE IF j = "usamw" THEN {Rec!UsamwRecords(s.pdfs)}
  ELSE IF j = "iwf" THEN {Rec!IwfRecords(s, Rec!Sections)}
  ELSE IF j = "standards" THEN {Std!StandardsRecords(s.tables)}
  ELSE IF j = "usamw_qt" THEN {Std!UsamwQtRecords(s)}
  ELSE Wso!Read(j, s)

\* What was read is all of that, or all but what a failed request left out.
RecordsRead ==
  /\ ~hitch => payload \in Readings(job, source)
  /\ job # "iwf" => \E p \in Readings(job, source) : PartOf(payload, p)

EventsRead == todo = Ev!Transformed(Ev!EventsOf(source))

GivesUp ==
  /\ pc # "idle" /\ pc' = "idle" /\ exit' \in {"ok", "failed"} /\ last' = {}
  /\ exit' = "ok" => pc = "scrape"
  /\ UNCHANGED <<job, source, rows, tally, before, said, lost>>

Reads ==
  /\ pc = "scrape" /\ pc' = "write"
  /\ job \notin {"bwl", "usamw_events"} => RecordsRead'
  /\ job = "usamw_events" => EventsRead' /\ hitch' = hitch
  /\ job \in Steady => ~hitch'
  /\ UNCHANGED <<job, source, rows, tally, before, last, said, lost, exit>>

Fresh(keys) ==
  [NoTally EXCEPT !.inserted = {k \in keys : Held(rows, k) = <<>>},
                  !.updated = {k \in keys : Held(rows, k) \notin {<<>>, <<payload[k]>>}}]

Upserts ==
  /\ job \in {"usaw", "usamw", "masters", "umwf", "standards", "usamw_qt"}
  /\ pc = "write" /\ pc' = "notify"
  /\ \E keys \in SUBSET DOMAIN payload :
        /\ rows' = WithRows(rows, keys, payload) /\ tally' = Fresh(keys)
        /\ ~hitch' => ~hitch /\ keys = DOMAIN payload
  /\ job \in Steady => hitch' = hitch
  /\ UNCHANGED <<job, source, payload, before, last, said, lost, exit>>

\* The whole set is written in place of what the table held.
Replaces ==
  /\ pc = "write" /\ pc' = "notify"
  /\ rows' = WithRows([k \in DOMAIN rows |-> <<>>], DOMAIN payload, payload)
  /\ UNCHANGED <<job, source, payload, before, last, said, lost, exit>>

Compares ==
  /\ job = "iwf"
  /\ \/ Replaces /\ (~hitch' => ~hitch /\ tally' = Fresh(DOMAIN payload))
     \/ /\ pc = "write" /\ pc' = "notify" /\ hitch'
        /\ UNCHANGED <<job, source, rows, payload, tally, before, last, said, lost, exit>>

Syncs ==
  /\ job \in Wso!Jobs /\ Replaces /\ UNCHANGED hitch
  /\ LET stored == {k \in DOMAIN rows : rows[k] # <<>>}
     IN tally' = [inserted |-> DOMAIN payload \ stored,
                  updated |-> {k \in stored \intersect DOMAIN payload : rows[k][1] # payload[k]},
                  deleted |-> (stored \ DOMAIN payload) \union {k \in stored : Len(rows[k]) > 1}]

PostsTally ==
  IF tally = NoTally THEN UNCHANGED <<said, lost>>
  ELSE (said' = {tally} /\ UNCHANGED lost) \/ (lost' /\ UNCHANGED said)

Concludes ==
  /\ pc = "notify" /\ pc' = "idle" /\ exit' \in {"ok", "failed"}
  /\ last' = {} \/ (last' = {source} /\ (~hitch \/ job \in Steady))
  /\ exit' = "ok" /\ job \notin Silent => PostsTally
  /\ UNCHANGED <<job, source, rows, tally, hitch, before>>

LEMMA PartOfItself ==
  ASSUME NEW p PROVE PartOf(p, p)
BY DEF PartOf

LEMMA SheetsFetched ==
  ASSUME NEW s, NEW S, NEW T, S \subseteq T
  PROVE  PartOf(Rec!UmwfRecords(s, S), Rec!UmwfRecords(s, T))
BY DEF PartOf, Rec!UmwfRecords

LEMMA RecReads ==
  ASSUME NEW r, NEW missed, NEW status, status \in {"ok", "failed"}, pc = "scrape",
         Rec!Parsed(r, missed, status), job \in Rec!Jobs,
         job \notin {"bwl"} =>
            /\ ~missed => r \in Readings(job, source)
            /\ job # "iwf" => \E p \in Readings(job, source) : PartOf(r, p)
  PROVE  GivesUp \/ Reads
<1>1. CASE Rec!Quits(status)
  BY <1>1 DEF Rec!Quits, Rec!Ends, Rec!work, GivesUp
<1>2. CASE /\ hitch' = missed /\ payload' = r /\ pc' = "write"
           /\ UNCHANGED <<job, source, rows, tally, before, last, said, lost, exit, left>>
  <2>1. job \notin Steady /\ job # "usamw_events"
    BY DEF Steady, Rec!Jobs, Std!Jobs, Wso!Jobs, Wso!TabJobs, Wso!FlatJobs, Wso!PdfJobs
  <2>2. job # "bwl" => RecordsRead'
    BY <1>2 DEF RecordsRead
  <2> QED BY <1>2, <2>1, <2>2 DEF Reads
<1> QED BY <1>1, <1>2 DEF Rec!Parsed

LEMMA RecKinds ==
  ASSUME Rec!Step
  PROVE  \/ GivesUp \/ Reads \/ Upserts \/ Compares \/ Concludes
         \/ Rec!BwlWrite \/ Rec!BwlStops
<1> USE DEF Rec!Jobs
<1>1. CASE Rec!UsawScrape
  <2>1. CASE Rec!RequestFails("ok") \/ Rec!Quits("ok")
    BY <1>1, <2>1 DEF Rec!UsawScrape, Rec!RequestFails, Rec!Quits, Rec!Ends, Rec!work, GivesUp
  <2>2. CASE Rec!Parsed(Rec!UsawRecords(source.pdf), FALSE, "ok")
    <3> DEFINE r == Rec!UsawRecords(source.pdf)
    <3>1. r \in Readings(job, source) /\ job = "usaw" /\ pc = "scrape"
      BY <1>1 DEF Rec!UsawScrape, Readings
    <3> HIDE DEF r
    <3> QED BY <2>2, <3>1, RecReads, PartOfItself DEF r
  <2> QED BY <1>1, <2>1, <2>2 DEF Rec!UsawScrape
<1>2. CASE Rec!MastersScrape
  <2>1. CASE Rec!RequestFails("ok")
    BY <1>2, <2>1 DEF Rec!MastersScrape, Rec!RequestFails, Rec!Quits, Rec!Ends, Rec!work, GivesUp
  <2>2. CASE Rec!Parsed(Rec!MastersRecords(source), FALSE, "ok")
    <3> DEFINE r == Rec!MastersRecords(source)
    <3>1. r \in Readings(job, source) /\ job = "masters" /\ pc = "scrape"
      BY <1>2 DEF Rec!MastersScrape, Readings
    <3> HIDE DEF r
    <3> QED BY <2>2, <3>1, RecReads, PartOfItself DEF r
  <2> QED BY <1>2, <2>1, <2>2 DEF Rec!MastersScrape
<1>3. CASE Rec!UmwfScrape
  <2>1. PICK failed \in Rec!OneFails(Rec!Sections) :
          Rec!Parsed(Rec!UmwfRecords(source, Rec!Sections \ failed), failed # {}, "ok")
    BY <1>3 DEF Rec!UmwfScrape
  <2> DEFINE r == Rec!UmwfRecords(source, Rec!Sections \ failed)
             all == Rec!UmwfRecords(source, Rec!Sections)
  <2>2. job = "umwf" /\ pc = "scrape"
    BY <1>3 DEF Rec!UmwfScrape
  <2>3. PartOf(r, all)
    BY SheetsFetched
  <2>4. failed = {} => r = all
    <3>1. failed = {} => Rec!Sections \ failed = Rec!Sections
      OBVIOUS
    <3> QED BY <3>1
  <2>5. Readings(job, source) = {all}
    BY <2>2 DEF Readings
  <2> HIDE DEF r, all
  <2>6. Rec!Parsed(r, failed # {}, "ok")
    BY <2>1 DEF r
  <2> QED BY <2>2, <2>3, <2>4, <2>5, <2>6, RecReads
<1>4. CASE Rec!UsamwScrape
  <2>1. CASE Rec!RequestFails("failed") \/ Rec!Quits("failed")
    BY <1>4, <2>1 DEF Rec!UsamwScrape, Rec!RequestFails, Rec!Quits, Rec!Ends, Rec!work, GivesUp
  <2>2. CASE Rec!Parsed(Rec!UsamwRecords(source.pdfs), FALSE, "failed")
    <3> DEFINE r == Rec!UsamwRecords(source.pdfs)
    <3>1. r \in Readings(job, source) /\ job = "usamw" /\ pc = "scrape"
      BY <1>4 DEF Rec!UsamwScrape, Readings
    <3> HIDE DEF r
    <3> QED BY <2>2, <3>1, RecReads, PartOfItself DEF r
  <2> QED BY <1>4, <2>1, <2>2 DEF Rec!UsamwScrape
<1>5. CASE Rec!BwlScrape
  <2>1. job = "bwl" /\ pc = "scrape"
    BY <1>5 DEF Rec!BwlScrape
  <2>2. CASE Rec!RequestFails("ok")
    BY <2>1, <2>2 DEF Rec!RequestFails, Rec!Quits, Rec!Ends, Rec!work, GivesUp
  <2>3. ASSUME NEW r, NEW missed, Rec!Parsed(r, missed, "ok") PROVE GivesUp \/ Reads
    BY <2>1, <2>3, RecReads
  <2> QED BY <1>5, <2>2, <2>3 DEF Rec!BwlScrape
<1>6. CASE Rec!IwfScrape
  <2>1. PICK failed \in Rec!OneFails(Rec!Sections) :
          Rec!Parsed(Rec!IwfRecords(source, Rec!Sections \ failed), failed # {}, "failed")
    BY <1>6 DEF Rec!IwfScrape
  <2> DEFINE r == Rec!IwfRecords(source, Rec!Sections \ failed)
  <2>2. job = "iwf" /\ pc = "scrape"
    BY <1>6 DEF Rec!IwfScrape
  <2>3. failed = {} => r \in Readings(job, source)
    <3>1. failed = {} => Rec!Sections \ failed = Rec!Sections
      OBVIOUS
    <3> QED BY <2>2, <3>1 DEF Readings
  <2> HIDE DEF r
  <2>4. Rec!Parsed(r, failed # {}, "failed")
    BY <2>1 DEF r
  <2> QED BY <2>2, <2>3, <2>4, RecReads
<1>7. ASSUME NEW keys \in SUBSET DOMAIN payload, Rec!Upsert(keys),
             pc = "write", job \in {"usaw", "usamw", "masters", "umwf"},
             ~hitch' => ~hitch /\ keys = DOMAIN payload
      PROVE  Upserts
  BY <1>7 DEF Rec!Upsert, Rec!WithRows, Rec!Held, Rec!NoTally, Upserts, Fresh, WithRows, Held,
     NoTally, Steady, Std!Jobs, Wso!Jobs, Wso!TabJobs, Wso!FlatJobs, Wso!PdfJobs
<1>8. CASE Rec!WriteAll
  BY <1>7, <1>8 DEF Rec!WriteAll
<1>9. CASE Rec!WriteEach
  <2>1. PICK bad \in Rec!OneFails(DOMAIN payload) :
          Rec!Upsert(DOMAIN payload \ bad) /\ hitch' = (hitch \/ bad # {})
    BY <1>9 DEF Rec!WriteEach
  <2> DEFINE keys == DOMAIN payload \ bad
  <2>2. keys \in SUBSET DOMAIN payload /\ (~hitch' => ~hitch /\ keys = DOMAIN payload)
    BY <2>1
  <2> HIDE DEF keys
  <2>3. Rec!Upsert(keys)
    BY <2>1 DEF keys
  <2> QED BY <1>7, <1>9, <2>2, <2>3 DEF Rec!WriteEach
<1>10. CASE Rec!IwfReplace
  <2>1. CASE hitch' = TRUE /\ UNCHANGED <<rows, tally>>
    BY <1>10, <2>1 DEF Rec!IwfReplace, Compares
  <2>2. ASSUME NEW seen, tally' = Rec!IwfCompared(seen), hitch' = (hitch \/ seen # rows),
               rows' = Rec!WithRows([k \in DOMAIN rows |-> <<>>], DOMAIN payload, payload)
        PROVE  Compares
    <3>1. ~hitch' => ~hitch /\ tally' = Fresh(DOMAIN payload)
      BY <2>2 DEF Rec!IwfCompared, Rec!Held, Rec!NoTally, Fresh, Held, NoTally
    <3>2. rows' = WithRows([k \in DOMAIN rows |-> <<>>], DOMAIN payload, payload)
      BY <2>2 DEF Rec!WithRows, WithRows
    <3> QED BY <1>10, <3>1, <3>2 DEF Rec!IwfReplace, Compares, Replaces
  <2> QED BY <1>10, <2>1, <2>2 DEF Rec!IwfReplace
<1>11. CASE Rec!Report
  BY <1>11 DEF Rec!Report, Rec!Posts, Rec!PostsAnyway, Rec!Ends, Rec!work, Rec!NoTally,
     NoTally, Concludes, PostsTally
<1> QED BY <1>1, <1>2, <1>3, <1>4, <1>5, <1>6, <1>8, <1>9, <1>10, <1>11 DEF Rec!Step

LEMMA StdKinds ==
  ASSUME Std!Step, job # "usaw_qt"
  PROVE  GivesUp \/ Reads \/ Upserts \/ Concludes
<1> USE DEF Std!Jobs
<1>0. ASSUME NEW r, NEW status, status \in {"ok", "failed"}, pc = "scrape", job \in Std!Jobs,
             Std!Parsed(r, FALSE, status), r \in Readings(job, source)
      PROVE  GivesUp \/ Reads
  <2>1. CASE Std!Quits(status)
    BY <1>0, <2>1 DEF Std!Quits, Std!Ends, Std!work, GivesUp
  <2>2. CASE /\ hitch' = FALSE /\ payload' = r /\ pc' = "write"
             /\ UNCHANGED <<job, source, rows, tally, before, last, said, lost, exit, left>>
    <3>1. RecordsRead'
      BY <1>0, <2>2, PartOfItself DEF RecordsRead
    <3> QED BY <1>0, <2>2, <3>1 DEF Reads
  <2> QED BY <1>0, <2>1, <2>2 DEF Std!Parsed
<1>1. CASE Std!StandardsScrape
  <2>1. CASE Std!RequestFails("ok") \/ Std!Quits("ok") \/ Std!RequestFails("failed")
    BY <1>1, <2>1 DEF Std!StandardsScrape, Std!RequestFails, Std!Quits, Std!Ends, Std!work, GivesUp
  <2>2. CASE Std!Parsed(Std!StandardsRecords(source.tables), FALSE, "ok")
    <3> DEFINE r == Std!StandardsRecords(source.tables)
    <3>1. r \in Readings(job, source) /\ job = "standards" /\ pc = "scrape"
      BY <1>1 DEF Std!StandardsScrape, Readings
    <3> HIDE DEF r
    <3> QED BY <1>0, <2>2, <3>1 DEF r
  <2> QED BY <1>1, <2>1, <2>2 DEF Std!StandardsScrape
<1>2. CASE Std!UsamwQtScrape
  <2>1. CASE Std!RequestFails("failed")
    BY <1>2, <2>1 DEF Std!UsamwQtScrape, Std!RequestFails, Std!Quits, Std!Ends, Std!work, GivesUp
  <2>2. CASE Std!Parsed(Std!UsamwQtRecords(source), FALSE, "failed")
    <3> DEFINE r == Std!UsamwQtRecords(source)
    <3>1. r \in Readings(job, source) /\ job = "usamw_qt" /\ pc = "scrape"
      BY <1>2 DEF Std!UsamwQtScrape, Readings
    <3> HIDE DEF r
    <3> QED BY <1>0, <2>2, <3>1 DEF r
  <2> QED BY <1>2, <2>1, <2>2 DEF Std!UsamwQtScrape
<1>3. CASE Std!WriteSet
  BY <1>3 DEF Std!WriteSet, Std!Upsert, Std!WithRows, Std!Held, Std!NoTally, Upserts, Fresh,
     WithRows, Held, NoTally
<1>4. CASE Std!StandardsReport \/ Std!UsamwQtDone
  BY <1>4 DEF Std!StandardsReport, Std!UsamwQtDone, Std!Posts, Std!PostsAnyway, Std!Ends,
     Std!work, Std!NoTally, NoTally, Concludes, PostsTally, Steady, Silent
<1>5. ~(Std!UsawQtScrape \/ Std!UsawQtWrite \/ Std!UsawQtDone)
  BY DEF Std!UsawQtScrape, Std!UsawQtWrite, Std!UsawQtDone
<1> QED BY <1>1, <1>2, <1>3, <1>4, <1>5 DEF Std!Step

LEMMA WsoKinds ==
  ASSUME Wso!Step
  PROVE  GivesUp \/ Reads \/ Syncs \/ Concludes
<1>1. CASE Wso!WsoScrape
  <2>1. CASE Wso!RequestFails("failed") \/ Wso!Quits("failed")
    BY <1>1, <2>1 DEF Wso!WsoScrape, Wso!RequestFails, Wso!Quits, Wso!Ends, Wso!work, GivesUp
  <2>2. ASSUME NEW r \in Wso!Read(job, source), Wso!Parsed(r, FALSE, "failed")
        PROVE  GivesUp \/ Reads
    <3>1. CASE Wso!Quits("failed")
      BY <1>1, <3>1 DEF Wso!WsoScrape, Wso!Quits, Wso!Ends, Wso!work, GivesUp
    <3>2. CASE /\ hitch' = FALSE /\ payload' = r /\ pc' = "write"
               /\ UNCHANGED <<job, source, rows, tally, before, last, said, lost, exit, left>>
      <4>1. job \in Wso!Jobs /\ pc = "scrape" /\ job # "usamw_events"
        BY <1>1 DEF Wso!WsoScrape, Wso!Jobs, Wso!TabJobs, Wso!FlatJobs, Wso!PdfJobs
      <4>2. Readings(job, source) = Wso!Read(job, source)
        BY <4>1 DEF Readings, Wso!Jobs, Wso!TabJobs, Wso!FlatJobs, Wso!PdfJobs
      <4>3. RecordsRead'
        BY <2>2, <3>2, <4>2, PartOfItself DEF RecordsRead
      <4> QED BY <3>2, <4>1, <4>3 DEF Reads
    <3> QED BY <2>2, <3>1, <3>2 DEF Wso!Parsed
  <2> QED BY <1>1, <2>1, <2>2 DEF Wso!WsoScrape
<1>2. CASE Wso!WsoSync
  BY <1>2 DEF Wso!WsoSync, Wso!Quits, Wso!Ends, Wso!work, Wso!WithRows, WithRows, GivesUp,
     Syncs, Replaces
<1>3. CASE Wso!SilentEnd
  BY <1>3 DEF Wso!SilentEnd, Wso!Ends, Wso!work, Concludes, Steady, Silent, Wso!Jobs,
     Wso!TabJobs, Wso!FlatJobs
<1>4. CASE Wso!RaisingEnd \/ Wso!LoggingEnd
  BY <1>4 DEF Wso!RaisingEnd, Wso!LoggingEnd, Wso!Posts, Wso!PostsAnyway, Wso!Ends, Wso!work,
     Wso!NoTally, NoTally, Concludes, PostsTally, Steady, Wso!Jobs, Wso!TabJobs, Wso!PdfJobs
<1> QED BY <1>1, <1>2, <1>3, <1>4 DEF Wso!Step

\* The events are upserted row by row; a run may lack some of them.
AddsEvents ==
  /\ job = "usamw_events" /\ pc = "write" /\ pc' = "notify"
  /\ \E good \in SUBSET DOMAIN todo :
        /\ rows' = Ev!Upserted(rows, todo, good)
        /\ tally' = [NoTally EXCEPT !.inserted =
                        {m \in {todo[i].name : i \in good} : Held(rows, m) = <<>>}]
        /\ ~hitch' => good = DOMAIN todo
  /\ UNCHANGED <<job, source, before, last, said, lost, exit>>

LEMMA EventsKinds ==
  ASSUME Ev!Step, job = "usamw_events"
  PROVE  GivesUp \/ Reads \/ AddsEvents \/ Concludes
<1>1. CASE Ev!EventsScrape
  <2>1. CASE Ev!RequestFails("ok") \/ Ev!Quits("ok")
    BY <1>1, <2>1 DEF Ev!EventsScrape, Ev!RequestFails, Ev!Quits, Ev!Ends, Ev!work, GivesUp
  <2>2. CASE /\ pc' = "write" /\ todo' = Ev!Transformed(Ev!EventsOf(source))
             /\ UNCHANGED <<job, source, rows, tally, hitch, before, last, said, lost, exit, left>>
    <3>1. job \notin Steady /\ pc = "scrape"
      BY <1>1 DEF Ev!EventsScrape, Steady, Std!Jobs, Wso!Jobs, Wso!TabJobs, Wso!FlatJobs, Wso!PdfJobs
    <3> QED BY <2>2, <3>1 DEF Reads, EventsRead
  <2> QED BY <1>1, <2>1, <2>2, Zenon DEF Ev!EventsScrape
<1>2. CASE Ev!EventsWrite
  <2>1. PICK bad \in Ev!OneFails(DOMAIN todo) \union {DOMAIN todo} :
          LET good == {i \in DOMAIN todo : i \notin bad} IN
          /\ rows' = Ev!Upserted(rows, todo, good)
          /\ tally' = [Ev!NoTally EXCEPT !.inserted =
                          {m \in {todo[i].name : i \in good} : Ev!Held(rows, m) = <<>>}]
          /\ hitch' = (bad # {})
    BY <1>2 DEF Ev!EventsWrite
  <2> DEFINE good == {i \in DOMAIN todo : i \notin bad}
  <2>2. good \in SUBSET DOMAIN todo /\ (~hitch' => good = DOMAIN todo)
    BY <2>1
  <2>3. /\ rows' = Ev!Upserted(rows, todo, good)
        /\ tally' = [NoTally EXCEPT !.inserted =
                        {m \in {todo[i].name : i \in good} : Held(rows, m) = <<>>}]
    BY <2>1 DEF Ev!NoTally, NoTally, Ev!Held, Held
  <2> HIDE DEF good
  <2> QED BY <1>2, <2>2, <2>3 DEF Ev!EventsWrite, AddsEvents
<1>3. CASE Ev!EventsReport
  BY <1>3 DEF Ev!EventsReport, Ev!Posts, Ev!PostsAnyway, Ev!Ends, Ev!work, Ev!NoTally, NoTally,
     Concludes, PostsTally
<1>4. ~(Ev!NotionRead \/ Ev!CalendarRead \/ Ev!NotionAdd \/ Ev!NotionDone)
  BY DEF Ev!NotionRead, Ev!CalendarRead, Ev!NotionAdd, Ev!NotionDone
<1> QED BY <1>1, <1>2, <1>3, <1>4 DEF Ev!Step

-----------------------------------------------------------------------------
(* What a write changes in a table of rows.                                 *)

IsCell(x) == x \in Seq({x[i] : i \in DOMAIN x})
IsTable(t) == t = [k \in DOMAIN t |-> t[k]] /\ \A k \in DOMAIN t : IsCell(t[k])
NoCopies(t) == \A k \in DOMAIN t : Len(t[k]) <= 1

LEMMA NoRow == IsCell(<<>>) /\ Len(<<>>) = 0
BY DEF IsCell

OneRow(v) == <<v>>

LEMMA RowCell ==
  ASSUME NEW v
  PROVE  IsCell(OneRow(v)) /\ Len(OneRow(v)) = 1 /\ OneRow(v)[1] = v /\ OneRow(v) # <<>>
<1>1. {<<v>>[i] : i \in DOMAIN <<v>>} = {v}
  OBVIOUS
<1> QED BY <1>1 DEF IsCell, OneRow

LEMMA CopiedCell ==
  ASSUME NEW v, NEW w
  PROVE  IsCell(<<v, w>>)
<1>1. {<<v, w>>[i] : i \in DOMAIN <<v, w>>} = {v, w}
  OBVIOUS
<1> QED BY <1>1 DEF IsCell

LEMMA CellFacts ==
  ASSUME NEW x, IsCell(x)
  PROVE  Len(x) \in Nat /\ (Len(x) = 0 <=> x = <<>>)
BY EmptySeq DEF IsCell

LEMMA SingleCell ==
  ASSUME NEW x, IsCell(x), Len(x) = 1
  PROVE  x = OneRow(x[1])
<1> DEFINE S == {x[i] : i \in DOMAIN x}
<1>1. x \in Seq(S)
  BY DEF IsCell
<1>2. x[1] \in S
  BY <1>1
<1> HIDE DEF S
<1>3. <<x[1]>> \in Seq(S) /\ Len(<<x[1]>>) = 1 /\ <<x[1]>>[1] = x[1]
  BY <1>2
<1> QED BY <1>1, <1>3, SeqEqual DEF OneRow

LEMMA NoCopyCell ==
  ASSUME NEW x, IsCell(x), Len(x) <= 1
  PROVE  x = <<>> \/ x = OneRow(x[1])
<1>1. Len(x) = 0 \/ Len(x) = 1
  BY CellFacts
<1> QED BY <1>1, CellFacts, SingleCell

LEMMA HeldCell ==
  ASSUME NEW t, IsTable(t), NEW k
  PROVE  IsCell(Held(t, k))
BY NoRow, RowCell DEF IsTable, Held

LEMMA NothingChanges ==
  ASSUME NEW t, IsTable(t)
  PROVE  Changes(t, t) = NoTally
<1>1. \A k \in DOMAIN t : Held(t, k) = t[k] /\ Len(t[k]) \in Nat
  BY CellFacts DEF Held, IsTable
<1>2. /\ {k \in DOMAIN t : Len(t[k]) > Len(Held(t, k))} = {}
      /\ {k \in DOMAIN t : Len(t[k]) < Len(Held(t, k))} = {}
      /\ {k \in DOMAIN t : <<>> \notin {Held(t, k), t[k]} /\ t[k][1] # Held(t, k)[1]} = {}
  BY <1>1
<1> QED BY <1>2 DEF Changes, NoTally

\* The rows of some keys are written, the others left or taken out.
Rewritten(t, new, keys, recs) ==
  /\ DOMAIN new = DOMAIN t \union keys
  /\ \A k \in keys : new[k] = OneRow(recs[k])
  /\ \A k \in DOMAIN t \ keys : new[k] = t[k] \/ new[k] = <<>>

LEMMA WriteChanges ==
  ASSUME NEW t, IsTable(t), NoCopies(t), NEW new, NEW keys, NEW recs,
         Rewritten(t, new, keys, recs)
  PROVE  /\ Changes(t, new).inserted = {k \in keys : Held(t, k) = <<>>}
         /\ Changes(t, new).updated = {k \in keys : Held(t, k) \notin {<<>>, OneRow(recs[k])}}
<1>0. /\ DOMAIN new = DOMAIN t \union keys
      /\ \A k \in keys : new[k] = OneRow(recs[k])
      /\ \A k \in DOMAIN t \ keys : new[k] = t[k] \/ new[k] = <<>>
  BY DEF Rewritten
<1>1. ASSUME NEW k \in keys
      PROVE  /\ Len(new[k]) > Len(Held(t, k)) <=> Held(t, k) = <<>>
             /\ <<>> \notin {Held(t, k), new[k]} /\ new[k][1] # Held(t, k)[1]
                  <=> Held(t, k) \notin {<<>>, OneRow(recs[k])}
  <2> DEFINE old == Held(t, k)
  <2>1. IsCell(old) /\ Len(old) <= 1
    BY HeldCell, NoRow, RowCell DEF Held, NoCopies
  <2> HIDE DEF old
  <2>2. /\ Len(old) \in Nat /\ (Len(old) = 0 <=> old = <<>>)
        /\ old # <<>> => old = OneRow(old[1])
    BY <2>1, CellFacts, NoCopyCell
  <2>3. new[k] = OneRow(recs[k]) /\ Len(new[k]) = 1 /\ new[k][1] = recs[k] /\ new[k] # <<>>
    BY <1>0, RowCell
  <2>4. Len(new[k]) > Len(old) <=> old = <<>>
    BY <2>1, <2>2, <2>3
  <2>5. <<>> \notin {old, new[k]} /\ new[k][1] # old[1] <=> old \notin {<<>>, OneRow(recs[k])}
    BY <2>2, <2>3
  <2> QED BY <2>4, <2>5 DEF old
<1>2. ASSUME NEW k \in DOMAIN t \ keys
      PROVE  /\ ~(Len(new[k]) > Len(Held(t, k)))
             /\ ~(<<>> \notin {Held(t, k), new[k]} /\ new[k][1] # Held(t, k)[1])
  <2>1. Held(t, k) = t[k] /\ Len(t[k]) \in Nat
    BY CellFacts DEF Held, IsTable
  <2>2. CASE new[k] = t[k]
    BY <2>1, <2>2
  <2>3. CASE new[k] = <<>>
    BY <2>1, <2>3
  <2> QED BY <1>0, <2>2, <2>3
<1>3. Changes(t, new).inserted = {k \in DOMAIN new : Len(new[k]) > Len(Held(t, k))}
  BY DEF Changes
<1>4. Changes(t, new).updated =
        {k \in DOMAIN new : <<>> \notin {Held(t, k), new[k]} /\ new[k][1] # Held(t, k)[1]}
  BY DEF Changes
<1>5. Changes(t, new).inserted = {k \in keys : Held(t, k) = <<>>}
  BY <1>0, <1>1, <1>2, <1>3
<1>6. Changes(t, new).updated = {k \in keys : Held(t, k) \notin {<<>>, OneRow(recs[k])}}
  BY <1>0, <1>1, <1>2, <1>4
<1> QED BY <1>5, <1>6

LEMMA Written ==
  ASSUME NEW t, IsTable(t), NEW keys, NEW recs
  PROVE  /\ IsTable(WithRows(t, keys, recs))
         /\ DOMAIN WithRows(t, keys, recs) = DOMAIN t \union keys
         /\ NoCopies(t) => NoCopies(WithRows(t, keys, recs))
         /\ \A k \in keys : WithRows(t, keys, recs)[k] = OneRow(recs[k])
         /\ \A k \in DOMAIN t \ keys : WithRows(t, keys, recs)[k] = t[k]
<1> DEFINE new == WithRows(t, keys, recs)
<1>1. /\ DOMAIN new = DOMAIN t \union keys /\ new = [k \in DOMAIN new |-> new[k]]
      /\ \A k \in keys : new[k] = OneRow(recs[k])
      /\ \A k \in DOMAIN t \ keys : new[k] = t[k]
  BY DEF WithRows, OneRow
<1> HIDE DEF new
<1>2. \A k \in keys : IsCell(new[k]) /\ Len(new[k]) <= 1
  BY <1>1, NoRow, RowCell
<1>3. IsTable(new)
  BY <1>1, <1>2 DEF IsTable
<1>4. NoCopies(t) => NoCopies(new)
  BY <1>1, <1>2 DEF NoCopies
<1> QED BY <1>1, <1>3, <1>4 DEF new

Emptied(t) == [k \in DOMAIN t |-> <<>>]

LEMMA EmptiedTable ==
  ASSUME NEW t PROVE IsTable(Emptied(t)) /\ NoCopies(Emptied(t)) /\ DOMAIN Emptied(t) = DOMAIN t
BY NoRow, RowCell DEF Emptied, IsTable, NoCopies

LEMMA UpsertChanges ==
  ASSUME NEW t, IsTable(t), NoCopies(t), NEW keys, NEW recs
  PROVE  Changes(t, WithRows(t, keys, recs)) =
           [inserted |-> {k \in keys : Held(t, k) = <<>>},
            updated |-> {k \in keys : Held(t, k) \notin {<<>>, OneRow(recs[k])}},
            deleted |-> {}]
<1> DEFINE new == WithRows(t, keys, recs)
<1>1. /\ DOMAIN new = DOMAIN t \union keys
      /\ \A k \in keys : new[k] = OneRow(recs[k])
      /\ \A k \in DOMAIN t \ keys : new[k] = t[k]
  BY DEF WithRows, OneRow
<1> HIDE DEF new
<1>2. /\ Changes(t, new).inserted = {k \in keys : Held(t, k) = <<>>}
      /\ Changes(t, new).updated = {k \in keys : Held(t, k) \notin {<<>>, OneRow(recs[k])}}
  BY <1>1, WriteChanges DEF Rewritten
<1>3. Changes(t, new).deleted = {}
  <2>1. ASSUME NEW k \in DOMAIN new PROVE ~(Len(new[k]) < Len(Held(t, k)))
    <3>1. Len(Held(t, k)) \in Nat /\ Len(Held(t, k)) <= 1
      BY HeldCell, CellFacts, NoRow, RowCell DEF Held, NoCopies
    <3>2. CASE k \in keys
      BY <1>1, <3>1, <3>2, NoRow, RowCell
    <3>3. CASE k \notin keys
      BY <1>1, <3>1, <3>3 DEF Held
    <3> QED BY <3>2, <3>3
  <2> QED BY <2>1 DEF Changes
<1>4. Changes(t, new) = [inserted |-> Changes(t, new).inserted, updated |-> Changes(t, new).updated,
                         deleted |-> Changes(t, new).deleted]
  BY DEF Changes
<1> QED BY <1>2, <1>3, <1>4 DEF new

LEMMA ReplaceChanges ==
  ASSUME NEW t, IsTable(t), NoCopies(t), NEW keys, NEW recs
  PROVE  /\ IsTable(WithRows(Emptied(t), keys, recs)) /\ NoCopies(WithRows(Emptied(t), keys, recs))
         /\ Changes(t, WithRows(Emptied(t), keys, recs)).inserted = {k \in keys : Held(t, k) = <<>>}
         /\ Changes(t, WithRows(Emptied(t), keys, recs)).updated =
               {k \in keys : Held(t, k) \notin {<<>>, OneRow(recs[k])}}
<1> DEFINE e == Emptied(t)
           new == WithRows(e, keys, recs)
<1>1. IsTable(e) /\ NoCopies(e) /\ DOMAIN e = DOMAIN t /\ \A k \in DOMAIN t : e[k] = <<>>
  BY EmptiedTable DEF Emptied
<1> HIDE DEF e
<1>2. IsTable(new) /\ NoCopies(new)
  BY <1>1, Written
<1>3. /\ DOMAIN new = DOMAIN e \union keys
      /\ \A k \in keys : new[k] = OneRow(recs[k])
      /\ \A k \in DOMAIN e \ keys : new[k] = e[k]
  BY DEF WithRows, OneRow
<1> HIDE DEF new
<1>4. Rewritten(t, new, keys, recs)
  BY <1>1, <1>3 DEF Rewritten
<1>5. /\ Changes(t, new).inserted = {k \in keys : Held(t, k) = <<>>}
      /\ Changes(t, new).updated = {k \in keys : Held(t, k) \notin {<<>>, OneRow(recs[k])}}
  BY <1>4, WriteChanges
<1> QED BY <1>2, <1>5 DEF e, new

\* The whole set in place of a table that may hold copies.
LEMMA SyncChanges ==
  ASSUME NEW t, IsTable(t), NEW keys, NEW recs
  PROVE  LET stored == {k \in DOMAIN t : t[k] # <<>>}
         IN Changes(t, WithRows(Emptied(t), keys, recs)) =
              [inserted |-> keys \ stored,
               updated |-> {k \in stored \intersect keys : t[k][1] # recs[k]},
               deleted |-> (stored \ keys) \union {k \in stored : Len(t[k]) > 1}]
<1> DEFINE new == WithRows(Emptied(t), keys, recs)
           stored == {k \in DOMAIN t : t[k] # <<>>}
<1>1. /\ DOMAIN new = DOMAIN t \union keys
      /\ \A k \in keys : new[k] = OneRow(recs[k])
      /\ \A k \in DOMAIN t \ keys : new[k] = <<>>
  <2> DEFINE e == Emptied(t)
  <2>1. IsTable(e) /\ DOMAIN e = DOMAIN t /\ \A k \in DOMAIN t : e[k] = <<>>
    BY EmptiedTable DEF Emptied
  <2> HIDE DEF e
  <2>2. /\ DOMAIN WithRows(e, keys, recs) = DOMAIN e \union keys
        /\ \A k \in keys : WithRows(e, keys, recs)[k] = OneRow(recs[k])
        /\ \A k \in DOMAIN e \ keys : WithRows(e, keys, recs)[k] = e[k]
    BY DEF WithRows, OneRow
  <2> QED BY <2>1, <2>2 DEF e
<1> HIDE DEF new
<1>2. ASSUME NEW k
      PROVE  /\ k \in stored <=> Held(t, k) # <<>>
             /\ k \in DOMAIN t => Held(t, k) = t[k]
             /\ Len(Held(t, k)) \in Nat
             /\ Len(Held(t, k)) = 0 <=> Held(t, k) = <<>>
  <2>1. (k \in stored <=> Held(t, k) # <<>>) /\ (k \in DOMAIN t => Held(t, k) = t[k])
    BY DEF Held
  <2> QED BY <2>1, HeldCell, CellFacts
<1> HIDE DEF stored
<1>3. \A k \in keys : Len(new[k]) = 1 /\ new[k][1] = recs[k] /\ new[k] # <<>>
  BY <1>1, NoRow, RowCell
<1>4. \A k \in DOMAIN t \ keys : Len(new[k]) = 0 /\ new[k] = <<>>
  BY <1>1, NoRow, RowCell
<1>5. stored \subseteq DOMAIN t
  BY DEF stored
<1>6. {k \in DOMAIN new : Len(new[k]) > Len(Held(t, k))} = keys \ stored
  <2>1. ASSUME NEW k \in DOMAIN new
        PROVE  Len(new[k]) > Len(Held(t, k)) <=> k \in keys /\ k \notin stored
    <3>1. CASE k \in keys
      <4>1. Len(new[k]) = 1
        BY <1>3, <3>1
      <4>2. k \in stored <=> Len(Held(t, k)) # 0
        BY <1>2
      <4>3. Len(Held(t, k)) \in Nat
        BY <1>2
      <4> QED BY <3>1, <4>1, <4>2, <4>3
    <3>2. CASE k \notin keys
      <4>1. Len(new[k]) = 0
        BY <1>1, <1>4, <3>2
      <4> QED BY <1>2, <3>2, <4>1
    <3> QED BY <3>1, <3>2
  <2> QED BY <1>1, <2>1
<1>7. {k \in DOMAIN new : <<>> \notin {Held(t, k), new[k]} /\ new[k][1] # Held(t, k)[1]}
        = {k \in stored \intersect keys : t[k][1] # recs[k]}
  <2>1. ASSUME NEW k \in DOMAIN new
        PROVE  <<>> \notin {Held(t, k), new[k]} /\ new[k][1] # Held(t, k)[1]
                 <=> k \in stored /\ k \in keys /\ t[k][1] # recs[k]
    BY <1>1, <1>2, <1>3, <1>4, <1>5
  <2> QED BY <1>1, <2>1
<1>8. {k \in DOMAIN new : Len(new[k]) < Len(Held(t, k))}
        = (stored \ keys) \union {k \in stored : Len(t[k]) > 1}
  <2>1. ASSUME NEW k \in DOMAIN new
        PROVE  Len(new[k]) < Len(Held(t, k))
                 <=> (k \in stored /\ k \notin keys) \/ (k \in stored /\ Len(t[k]) > 1)
    <3>1. CASE k \in keys /\ k \notin stored
      BY <1>2, <1>3, <3>1
    <3>2. CASE k \in keys /\ k \in stored
      BY <1>2, <1>3, <1>5, <3>2
    <3>3. CASE k \notin keys
      <4>1. new[k] = <<>> /\ Len(new[k]) = 0 /\ k \in DOMAIN t
        BY <1>1, <1>4, <3>3
      <4> QED BY <1>2, <3>3, <4>1
    <3> QED BY <3>1, <3>2, <3>3
  <2> QED BY <1>1, <1>5, <2>1
<1> QED BY <1>6, <1>7, <1>8 DEF Changes, new, stored

-----------------------------------------------------------------------------
(* The invariant of what Slack is told: before the one transaction nothing   *)
(* is written, after it the tally is what changed; of the British records     *)
(* that holds after every row.                                              *)

Told(j, t) ==
  IF j = "iwf" THEN [NoTally EXCEPT !.inserted = t.inserted, !.updated = t.updated]
  ELSE IF j = "usamw_events" THEN [NoTally EXCEPT !.inserted = t.inserted] ELSE t

Tells(j, t, old, new) == (IF j = "iwf" THEN Told(j, t) ELSE t) = Told(j, Changes(old, new))

Fit(j, t) == IsTable(t) /\ (j \notin Wso!Jobs \union {"bwl"} => NoCopies(t))

\* Of the rows that were patched or posted, the first is as the site shows it.
Patched(old, new, values) ==
  /\ DOMAIN old \subseteq DOMAIN new
  /\ \A k \in DOMAIN new :
        /\ Len(new[k]) >= Len(Held(old, k))
        /\ new[k] # <<>> /\ (Held(old, k) = <<>> \/ new[k][1] # Held(old, k)[1])
             => new[k][1] = values[k]

Heard ==
  IF said = {} THEN lost \/ Told(job, Changes(before, rows)) = NoTally
  ELSE \A t \in said : Tells(job, t, before, rows)

TellInv ==
  job \in TellJobs =>
    /\ Fit(job, rows) /\ Fit(job, before)
    /\ exit = "ok" => pc = "idle"
    /\ pc # "idle" => said = {} /\ ~lost
    /\ pc = "scrape" \/ (pc = "write" /\ job # "bwl") => rows = before /\ tally = NoTally
    /\ pc = "write" /\ job = "bwl" =>
          tally = Changes(before, rows) /\ Patched(before, rows, payload)
    /\ pc = "notify" /\ (job = "iwf" => ~hitch) => Tells(job, tally, before, rows)
    /\ exit = "ok" /\ job \notin Silent /\ (job = "iwf" => ~hitch) => Heard

LEMMA TellableIs ==
  ASSUME NEW t, job \in TellJobs
  PROVE  Tellable(t) = Told(job, t)
<1>1. CASE job = "iwf"
  BY <1>1 DEF Tellable, Told
<1>2. CASE job = "usamw_events"
  BY <1>2 DEF Tellable, Told
<1>3. CASE job \notin {"iwf", "usamw_events"}
  <2>1. job \notin {"usaw_results", "bwl_import"}
    BY DEF TellJobs, TruthJobs, Rec!Jobs, Std!Jobs, Wso!Jobs, Wso!TabJobs, Wso!FlatJobs, Wso!PdfJobs
  <2> QED BY <1>3, <2>1 DEF Tellable, Told
<1> QED BY <1>1, <1>2, <1>3

LEMMA ToldNothing ==
  ASSUME NEW j PROVE Told(j, NoTally) = NoTally
BY DEF Told, NoTally

LEMMA OthersTell ==
  ASSUME Rank!Step \/ Res!Step \/ Sch!Step \/ Ath!Step
  PROVE  job \notin TellJobs
<1> USE DEF TellJobs, TruthJobs, Rec!Jobs, Std!Jobs, Wso!Jobs, Wso!TabJobs, Wso!FlatJobs, Wso!PdfJobs
<1>1. CASE Rank!Step
  BY <1>1 DEF Rank!Step, Rank!RankingsScrape, Rank!RankingsPdf, Rank!RankingsPrune,
     Rank!RankingsReport, Rank!Jobs
<1>2. CASE Res!Step
  BY <1>2 DEF Res!Step, Res!IndexRead, Res!PassOver, Res!MeetResults, Res!ImportCheck,
     Res!ImportMeet, Res!ResultsReport, Res!Jobs
<1>3. CASE Sch!Step
  BY <1>3 DEF Sch!Step, Sch!ScheduleScrape, Sch!ScheduleWrite, Sch!PrelimScrape, Sch!PrelimWrite
<1>4. CASE Ath!Step
  BY <1>4 DEF Ath!Step, Ath!EntriesScrape, Ath!EntryLookup, Ath!EntryUpsert,
     Ath!EntriesCommit, Ath!Goes, Ath!Writing, Ath!AssignScrape, Ath!AssignWrite,
     Ath!AssignsMeanwhile, Ath!DedupePlan, Ath!DedupeApply
<1> QED BY <1>1, <1>2, <1>3, <1>4

LEMMA TellKinds ==
  ASSUME Next, job \in TellJobs
  PROVE  \/ SiteChanges(Some) \/ Start \/ GivesUp \/ Reads \/ Upserts \/ Compares \/ Syncs
         \/ AddsEvents \/ Concludes \/ Rec!BwlWrite \/ Rec!BwlStops
<1>1. CASE SiteChanges(Some) \/ Start
  BY <1>1
<1>2. CASE OtherJob(Sch!Jobs) \/ OtherJob(Ath!Jobs)
  BY <1>2 DEF OtherJob, Sch!Jobs, Ath!Jobs, TellJobs, TruthJobs, Rec!Jobs, Std!Jobs, Wso!Jobs,
     Wso!TabJobs, Wso!FlatJobs, Wso!PdfJobs
<1>3. CASE Dies
  BY <1>3 DEF Dies, Quits, Ends, work, GivesUp
<1>4. CASE Rec!Step
  BY <1>4, RecKinds
<1>5. CASE Std!Step
  <2>1. job # "usaw_qt"
    BY DEF TellJobs
  <2> QED BY <1>5, <2>1, StdKinds
<1>6. CASE Wso!Step
  BY <1>6, WsoKinds
<1>7. CASE Ev!Step
  <2>1. job = "usamw_events" \/ job = "usaw_meets"
    BY <1>7 DEF Ev!Step, Ev!EventsScrape, Ev!EventsWrite, Ev!NotionRead, Ev!CalendarRead,
       Ev!NotionAdd, Ev!NotionDone, Ev!EventsReport
  <2>2. job = "usamw_events"
    BY <2>1 DEF TellJobs, TruthJobs, Rec!Jobs, Std!Jobs, Wso!Jobs, Wso!TabJobs, Wso!FlatJobs,
       Wso!PdfJobs
  <2> QED BY <1>7, <2>2, EventsKinds
<1> QED BY <1>1, <1>2, <1>3, <1>4, <1>5, <1>6, <1>7, OthersTell DEF Next

LEMMA OthersStay ==
  ASSUME Next, job \notin TellJobs PROVE job' \notin TellJobs
<1>1. CASE Rec!Step \/ Std!Step \/ Wso!Step \/ Ev!Step \/ Res!Step \/ Sch!Step \/ Ath!Step
  BY <1>1, OthersElse
<1>2. CASE Rank!Step
  BY <1>2 DEF Rank!Step, Rank!RankingsScrape, Rank!RankingsPdf, Rank!RankingsPrune,
     Rank!RankingsReport, Rank!Quits, Rank!Ends
<1>3. CASE OtherJob(Sch!Jobs) \/ OtherJob(Ath!Jobs)
  BY <1>3 DEF OtherJob, Sch!Jobs, Ath!Jobs, TellJobs, TruthJobs, Rec!Jobs, Std!Jobs, Wso!Jobs,
     Wso!TabJobs, Wso!FlatJobs, Wso!PdfJobs
<1>4. CASE SiteChanges(Some) \/ Start \/ Dies
  BY <1>4 DEF SiteChanges, Start, Dies, Quits, Ends
<1> QED BY <1>1, <1>2, <1>3, <1>4 DEF Next

LEMMA FrameTells ==
  ASSUME TellInv, job \in TellJobs,
         SiteChanges(Some) \/ Start \/ GivesUp \/ Reads \/ UNCHANGED jobVars
  PROVE  TellInv'
<1>1. /\ Fit(job, rows) /\ Fit(job, before) /\ job' = job /\ rows' = rows
      /\ exit = "ok" => pc = "idle"
      /\ pc # "idle" => said = {} /\ ~lost
      /\ pc = "scrape" \/ (pc = "write" /\ job # "bwl") => rows = before /\ tally = NoTally
      /\ pc = "write" /\ job = "bwl" =>
            tally = Changes(before, rows) /\ Patched(before, rows, payload)
      /\ pc = "notify" /\ (job = "iwf" => ~hitch) => Tells(job, tally, before, rows)
      /\ exit = "ok" /\ job \notin Silent /\ (job = "iwf" => ~hitch) => Heard
  BY DEF TellInv, SiteChanges, Start, GivesUp, Reads, jobVars
<1>2. CASE UNCHANGED jobVars
  BY <1>1, <1>2 DEF TellInv, Heard, jobVars, work
<1>3. CASE SiteChanges(Some)
  BY <1>1, <1>3 DEF TellInv, Heard, SiteChanges, work
<1>4. CASE Start
  BY <1>1, <1>4 DEF TellInv, Start
<1>5. CASE GivesUp
  <2>1. exit' = "ok" => Heard'
    <3>1. ASSUME exit' = "ok" PROVE said' = {} /\ before' = before /\ rows' = before
      BY <1>1, <1>5, <3>1 DEF GivesUp
    <3>2. Changes(before, before) = NoTally
      BY <1>1, NothingChanges DEF Fit
    <3>3. Told(job, NoTally) = NoTally
      BY ToldNothing
    <3> QED BY <1>1, <3>1, <3>2, <3>3 DEF Heard
  <2> QED BY <1>1, <1>5, <2>1 DEF TellInv, GivesUp
<1>6. CASE Reads
  <2>1. rows = before /\ tally = NoTally /\ exit # "ok"
    BY <1>1, <1>6 DEF Reads
  <2>2. Changes(before, before) = NoTally
    BY <1>1, NothingChanges DEF Fit
  <2>3. ASSUME NEW values PROVE Patched(before, before, values)
    <3>1. \A k \in DOMAIN before : Held(before, k) = before[k] /\ Len(before[k]) \in Nat
      BY <1>1, CellFacts DEF Held, IsTable, Fit
    <3> QED BY <3>1 DEF Patched
  <2> QED BY <1>1, <1>6, <2>1, <2>2, <2>3 DEF TellInv, Reads
<1> QED BY <1>2, <1>3, <1>4, <1>5, <1>6

\* Before it writes, such a job has changed nothing.
LEMMA BeforeWriting ==
  ASSUME TellInv, job \in TellJobs, pc = "write", job # "bwl"
  PROVE  /\ Fit(job, rows) /\ rows = before /\ tally = NoTally /\ exit # "ok"
         /\ said = {} /\ ~lost
BY DEF TellInv

LEMMA AfterWriting ==
  ASSUME TellInv, job \in TellJobs, pc = "write", job # "bwl", pc' = "notify",
         UNCHANGED <<job, before, said, lost, exit>>, Fit(job, rows'),
         (job = "iwf" => ~hitch') => Tells(job, tally', before, rows')
  PROVE  TellInv'
BY BeforeWriting DEF TellInv

LEMMA TallyOf ==
  ASSUME NEW i, NEW u
  PROVE  [NoTally EXCEPT !.inserted = i, !.updated = u] = [inserted |-> i, updated |-> u, deleted |-> {}]
<1> DEFINE t == [NoTally EXCEPT !.inserted = i, !.updated = u]
<1>1. t \in [inserted : {i}, updated : {u}, deleted : {{}}]
  BY DEF NoTally
<1> HIDE DEF t
<1>2. t = [inserted |-> i, updated |-> u, deleted |-> {}]
  BY <1>1
<1> QED BY <1>2 DEF t

LEMMA FreshIs ==
  ASSUME NEW keys
  PROVE  Fresh(keys) = [inserted |-> {k \in keys : Held(rows, k) = <<>>},
                        updated |-> {k \in keys : Held(rows, k) \notin {<<>>, OneRow(payload[k])}},
                        deleted |-> {}]
<1> DEFINE i == {k \in keys : Held(rows, k) = <<>>}
           u == {k \in keys : Held(rows, k) \notin {<<>>, OneRow(payload[k])}}
<1>1. Fresh(keys) = [NoTally EXCEPT !.inserted = i, !.updated = u]
  BY DEF Fresh, OneRow
<1> HIDE DEF i, u
<1>2. Fresh(keys) = [inserted |-> i, updated |-> u, deleted |-> {}]
  BY <1>1, TallyOf
<1> QED BY <1>2 DEF i, u

LEMMA FreshChanges ==
  ASSUME IsTable(rows), NoCopies(rows), NEW keys
  PROVE  Fresh(keys) = Changes(rows, WithRows(rows, keys, payload))
<1> DEFINE c == [inserted |-> {k \in keys : Held(rows, k) = <<>>},
                 updated |-> {k \in keys : Held(rows, k) \notin {<<>>, OneRow(payload[k])}},
                 deleted |-> {}]
<1>1. Fresh(keys) = c
  BY FreshIs, Zenon
<1>2. Changes(rows, WithRows(rows, keys, payload)) = c
  <2> DEFINE f == payload
  <2> HIDE DEF f
  <2>1. Changes(rows, WithRows(rows, keys, f)) =
          [inserted |-> {k \in keys : Held(rows, k) = <<>>},
           updated |-> {k \in keys : Held(rows, k) \notin {<<>>, OneRow(f[k])}},
           deleted |-> {}]
    BY UpsertChanges
  <2> QED BY <2>1 DEF f
<1> QED BY <1>1, <1>2

LEMMA UpsertsTell ==
  ASSUME TellInv, job \in TellJobs, Upserts PROVE TellInv'
<1>1. PICK keys \in SUBSET DOMAIN payload :
        rows' = WithRows(rows, keys, payload) /\ tally' = Fresh(keys)
  BY DEF Upserts
<1>2. /\ job \notin Wso!Jobs \union {"bwl", "iwf", "usamw_events"} /\ pc = "write" /\ pc' = "notify"
      /\ UNCHANGED <<job, before, said, lost, exit>>
  BY DEF Upserts, Wso!Jobs, Wso!TabJobs, Wso!FlatJobs, Wso!PdfJobs
<1>3. Fit(job, rows) /\ rows = before
  BY <1>2, BeforeWriting
<1>4. IsTable(rows) /\ NoCopies(rows)
  BY <1>2, <1>3 DEF Fit
<1>5. tally' = Changes(before, rows')
  BY <1>1, <1>3, <1>4, FreshChanges
<1>6. Fit(job, rows')
  BY <1>1, <1>4, Written DEF Fit
<1>7. Tells(job, tally', before, rows')
  BY <1>2, <1>5 DEF Tells, Told
<1> QED BY <1>2, <1>6, <1>7, AfterWriting

LEMMA ComparesTell ==
  ASSUME TellInv, job \in TellJobs, Compares PROVE TellInv'
<1>1. /\ job = "iwf" /\ pc = "write" /\ pc' = "notify"
      /\ UNCHANGED <<job, before, said, lost, exit>>
      /\ "iwf" \notin Wso!Jobs \union {"bwl"}
  BY DEF Compares, Replaces, Wso!Jobs, Wso!TabJobs, Wso!FlatJobs, Wso!PdfJobs
<1>2. Fit(job, rows) /\ rows = before /\ IsTable(before) /\ NoCopies(before)
  BY <1>1, BeforeWriting DEF Fit
<1>3. CASE hitch' /\ UNCHANGED rows
  BY <1>1, <1>2, <1>3, AfterWriting
<1>4. CASE Replaces /\ (~hitch' => ~hitch /\ tally' = Fresh(DOMAIN payload))
  <2> DEFINE f == payload
             new == WithRows(Emptied(before), DOMAIN payload, f)
  <2>3. rows' = new
    BY <1>2, <1>4 DEF Replaces, Emptied
  <2> HIDE DEF f
  <2>4. /\ IsTable(new) /\ NoCopies(new)
        /\ Changes(before, new).inserted = {k \in DOMAIN payload : Held(before, k) = <<>>}
        /\ Changes(before, new).updated =
              {k \in DOMAIN payload : Held(before, k) \notin {<<>>, OneRow(f[k])}}
    BY <1>2, ReplaceChanges
  <2> HIDE DEF new
  <2>5. Changes(before, new).updated =
              {k \in DOMAIN payload : Held(before, k) \notin {<<>>, OneRow(payload[k])}}
    BY <2>4 DEF f
  <2>6. ASSUME ~hitch' PROVE Tells(job, tally', before, rows')
    <3>1. tally' = [inserted |-> {k \in DOMAIN payload : Held(rows, k) = <<>>},
                    updated |-> {k \in DOMAIN payload : Held(rows, k) \notin {<<>>, OneRow(payload[k])}},
                    deleted |-> {}]
      BY <1>4, <2>6, FreshIs
    <3>2. tally'.inserted = Changes(before, new).inserted /\ tally'.updated = Changes(before, new).updated
      BY <1>2, <2>4, <2>5, <3>1
    <3> QED BY <1>1, <2>3, <3>2 DEF Tells, Told
  <2> QED BY <1>1, <2>3, <2>4, <2>6, AfterWriting DEF Fit
<1> QED BY <1>3, <1>4 DEF Compares

LEMMA SyncsTell ==
  ASSUME TellInv, job \in TellJobs, Syncs PROVE TellInv'
<1>1. /\ job \in Wso!Jobs /\ job \notin {"bwl", "iwf", "usamw_events"}
      /\ pc = "write" /\ pc' = "notify" /\ UNCHANGED <<job, before, said, lost, exit>>
  BY DEF Syncs, Replaces, Wso!Jobs, Wso!TabJobs, Wso!FlatJobs, Wso!PdfJobs
<1>2. Fit(job, rows) /\ rows = before /\ IsTable(before)
  BY <1>1, BeforeWriting DEF Fit
<1>3. rows' = WithRows(Emptied(before), DOMAIN payload, payload)
  BY <1>2 DEF Syncs, Replaces, Emptied
<1>4. tally' = Changes(before, rows')
  <2> DEFINE keys == DOMAIN payload
             stored == {k \in DOMAIN rows : rows[k] # <<>>}
             counted == [inserted |-> keys \ stored,
                         updated |-> {k \in stored \intersect keys : rows[k][1] # payload[k]},
                         deleted |-> (stored \ keys) \union {k \in stored : Len(rows[k]) > 1}]
  <2>1. tally' = counted
    BY DEF Syncs
  <2>2. Changes(rows, WithRows(Emptied(rows), keys, payload)) = counted
    <3> HIDE DEF keys
    <3> QED BY <1>2, SyncChanges
  <2> QED BY <1>2, <1>3, <2>1, <2>2
<1>5. Fit(job, rows')
  <2>1. IsTable(rows')
    BY <1>3, EmptiedTable, Written
  <2> QED BY <1>1, <2>1 DEF Fit
<1>6. Tells(job, tally', before, rows')
  BY <1>1, <1>4 DEF Tells, Told
<1> QED BY <1>1, <1>5, <1>6, AfterWriting

LEMMA EventsUpserted ==
  ASSUME NEW t, IsTable(t), NoCopies(t), NEW found, NEW good
  PROVE  /\ IsTable(Ev!Upserted(t, found, good)) /\ NoCopies(Ev!Upserted(t, found, good))
         /\ Changes(t, Ev!Upserted(t, found, good)).inserted
              = {m \in {found[i].name : i \in good} : Held(t, m) = <<>>}
<1> DEFINE names == {found[i].name : i \in good}
           LastOf(m) == CHOOSE i \in good : /\ found[i].name = m
                                           /\ \A j \in good : found[j].name = m => j <= i
           Status(old) == IF old # <<>> /\ old[1].status = "completed" THEN "completed" ELSE "upcoming"
           X(m) == Ev!Meet(found[LastOf(m)].event, Status(Ev!Held(t, m)))
           new == Ev!Upserted(t, found, good)
           recs == [m \in names |-> X(m)]
<1>1. new = [m \in DOMAIN t \union names |-> IF m \in names THEN <<X(m)>> ELSE t[m]]
  BY DEF Ev!Upserted
<1> HIDE DEF X, new
<1>2. \A m \in names : recs[m] = X(m)
  OBVIOUS
<1>3. new = WithRows(t, names, recs)
  BY <1>1, <1>2 DEF WithRows
<1> HIDE DEF names, recs
<1>4. Rewritten(t, new, names, recs)
  BY <1>3 DEF Rewritten, WithRows, OneRow
<1>6. IsTable(new) /\ NoCopies(new)
  BY <1>3, Written
<1>7. Changes(t, new).inserted = {m \in names : Held(t, m) = <<>>}
  BY <1>4, WriteChanges
<1> QED BY <1>6, <1>7 DEF new, names

LEMMA EventsTell ==
  ASSUME TellInv, job \in TellJobs, AddsEvents PROVE TellInv'
<1>1. /\ job = "usamw_events" /\ job \notin Wso!Jobs \union {"bwl", "iwf"}
      /\ pc = "write" /\ pc' = "notify" /\ UNCHANGED <<job, before, said, lost, exit>>
  BY DEF AddsEvents, Wso!Jobs, Wso!TabJobs, Wso!FlatJobs, Wso!PdfJobs
<1>2. Fit(job, rows) /\ rows = before /\ IsTable(rows) /\ NoCopies(rows)
  BY <1>1, BeforeWriting DEF Fit
<1>3. PICK good \in SUBSET DOMAIN todo :
        /\ rows' = Ev!Upserted(rows, todo, good)
        /\ tally' = [NoTally EXCEPT !.inserted =
                        {m \in {todo[i].name : i \in good} : Held(rows, m) = <<>>}]
  BY DEF AddsEvents
<1> DEFINE found == todo
<1> HIDE DEF found
<1>4. /\ IsTable(Ev!Upserted(rows, found, good)) /\ NoCopies(Ev!Upserted(rows, found, good))
      /\ Changes(rows, Ev!Upserted(rows, found, good)).inserted
           = {m \in {found[i].name : i \in good} : Held(rows, m) = <<>>}
  BY <1>2, EventsUpserted
<1>5. /\ IsTable(rows') /\ NoCopies(rows')
      /\ Changes(rows, rows').inserted = {m \in {todo[i].name : i \in good} : Held(rows, m) = <<>>}
  BY <1>3, <1>4 DEF found
<1>6. tally' = Told(job, Changes(before, rows'))
  BY <1>1, <1>2, <1>3, <1>5 DEF Told
<1> QED BY <1>1, <1>5, <1>6, AfterWriting DEF Fit, Tells

LEMMA ConcludesTells ==
  ASSUME TellInv, job \in TellJobs, Concludes PROVE TellInv'
<1>1. /\ Fit(job, rows) /\ Fit(job, before) /\ said = {} /\ ~lost
      /\ (job = "iwf" => ~hitch) => Tells(job, tally, before, rows)
  BY DEF TellInv, Concludes
<1>2. ASSUME exit' = "ok", job \notin Silent, job = "iwf" => ~hitch PROVE Heard'
  <2>1. tally = NoTally => Told(job, Changes(before, rows)) = NoTally
    BY <1>1, <1>2, ToldNothing DEF Tells
  <2>2. CASE tally = NoTally
    BY <1>1, <1>2, <2>1, <2>2 DEF Concludes, PostsTally, Heard
  <2>3. CASE said' = {tally}
    BY <1>1, <1>2, <2>3 DEF Concludes, Heard
  <2>4. CASE lost' /\ said' = said
    BY <1>1, <2>4 DEF Heard
  <2> QED BY <1>2, <2>2, <2>3, <2>4 DEF Concludes, PostsTally
<1> QED BY <1>1, <1>2 DEF TellInv, Concludes

LEMMA AppendedCell ==
  ASSUME NEW x, IsCell(x), NEW v
  PROVE  /\ IsCell(Append(x, v)) /\ Len(Append(x, v)) = Len(x) + 1 /\ Append(x, v) # <<>>
         /\ Append(x, v)[1] = IF x = <<>> THEN v ELSE x[1]
<1> DEFINE S == {x[i] : i \in DOMAIN x} \union {v}
           y == Append(x, v)
<1>1. x \in Seq({x[i] : i \in DOMAIN x}) /\ Len(x) \in Nat
  BY DEF IsCell
<1>2. x \in Seq(S)
  BY <1>1
<1>3. /\ y \in Seq(S) /\ Len(y) = Len(x) + 1 /\ \A i \in 1..Len(x) : y[i] = x[i]
      /\ y[Len(x) + 1] = v
  <2> HIDE DEF S
  <2>1. v \in S
    BY DEF S
  <2> QED BY <1>2, <2>1, AppendProperties
<1>4. \A i \in DOMAIN y : i \in 1..Len(x) \/ i = Len(x) + 1
  <2> HIDE DEF S
  <2> QED BY <1>1, <1>3
<1> HIDE DEF S, y
<1>5. IsCell(y)
  <2>1. DOMAIN y = 1..Len(y)
    BY <1>3
  <2>2. y \in [1..Len(y) -> {y[i] : i \in DOMAIN y}]
    BY <1>3, <2>1
  <2>3. Len(y) \in Nat
    BY <1>1, <1>3
  <2> QED BY <2>2, <2>3 DEF IsCell
<1>6. y # <<>>
  BY <1>1, <1>3
<1>7. x = <<>> => y[1] = v
  BY <1>3
<1>8. x # <<>> => y[1] = x[1]
  <2>1. x # <<>> => Len(x) # 0
    BY CellFacts
  <2> QED BY <1>1, <1>3, <2>1
<1> QED BY <1>3, <1>5, <1>6, <1>7, <1>8 DEF y

LEMMA PatchedCell ==
  ASSUME NEW x, IsCell(x), x # <<>>, NEW v
  PROVE  LET y == [x EXCEPT ![1] = v]
         IN IsCell(y) /\ Len(y) = Len(x) /\ y # <<>> /\ y[1] = v
<1> DEFINE y == [x EXCEPT ![1] = v]
<1>1. x \in Seq({x[i] : i \in DOMAIN x}) /\ Len(x) \in Nat /\ Len(x) # 0
  BY CellFacts DEF IsCell
<1>2. x \in [1..Len(x) -> {x[i] : i \in DOMAIN x}] /\ 1 \in 1..Len(x)
  BY <1>1
<1>3. y = [i \in 1..Len(x) |-> IF i = 1 THEN v ELSE x[i]] /\ y[1] = v
  BY <1>2
<1>4. y \in [1..Len(x) -> {y[i] : i \in DOMAIN y}] /\ DOMAIN y = 1..Len(x)
  BY <1>3
<1> HIDE DEF y
<1>5. y \in Seq({y[i] : i \in DOMAIN y})
  BY <1>1, <1>4
<1>6. Len(y) = Len(x)
  BY <1>1, <1>4, <1>5
<1>7. y # <<>>
  BY <1>1, <1>6
<1> QED BY <1>3, <1>5, <1>6, <1>7 DEF IsCell, y

LEMMA OneCellHeld ==
  ASSUME NEW t, IsTable(t), NEW k, NEW c, IsCell(c)
  PROVE  LET new == Holding(t, k, c)
         IN /\ IsTable(new) /\ DOMAIN new = DOMAIN t \union {k} /\ new[k] = c
            /\ \A x \in DOMAIN t \ {k} : new[x] = t[x]
BY DEF IsTable, Holding

\* A row of the British records is patched: its class counts as updated.
LEMMA RowPatched ==
  ASSUME NEW old, IsTable(old), NEW new, IsTable(new), NEW values, Patched(old, new, values),
         NEW k, Held(new, k) # <<>>, Held(new, k)[1] # values[k],
         NEW c, IsCell(c), Len(c) = Len(Held(new, k)), c # <<>>, c[1] = values[k]
  PROVE  LET t == Holding(new, k, c)
         IN /\ Patched(old, t, values)
            /\ Changes(old, t).inserted = Changes(old, new).inserted
            /\ Changes(old, t).updated = Changes(old, new).updated \union {k}
            /\ Changes(old, t).deleted = Changes(old, new).deleted
<1> DEFINE t == Holding(new, k, c)
<1>1. k \in DOMAIN new /\ Held(new, k) = new[k]
  BY DEF Held
<1>2. DOMAIN t = DOMAIN new /\ t[k] = c /\ \A x \in DOMAIN new \ {k} : t[x] = new[x]
  BY <1>1 DEF Holding
<1> HIDE DEF t
<1>3. Held(old, k) # <<>> /\ new[k][1] = Held(old, k)[1] /\ new[k] # <<>>
  BY <1>1 DEF Patched
<1>4. Patched(old, t, values)
  BY <1>1, <1>2 DEF Patched
<1>5. \A x \in DOMAIN new : Len(t[x]) = Len(new[x])
  BY <1>1, <1>2
<1>6. ASSUME NEW x \in DOMAIN new
      PROVE  <<>> \notin {Held(old, x), t[x]} /\ t[x][1] # Held(old, x)[1]
               <=> x = k \/ (<<>> \notin {Held(old, x), new[x]} /\ new[x][1] # Held(old, x)[1])
  <2>1. CASE x = k
    BY <1>1, <1>2, <1>3, <2>1
  <2>2. CASE x # k
    BY <1>2, <2>2
  <2> QED BY <2>1, <2>2
<1>7. Changes(old, t).inserted = Changes(old, new).inserted
  BY <1>2, <1>5 DEF Changes
<1>8. Changes(old, t).deleted = Changes(old, new).deleted
  BY <1>2, <1>5 DEF Changes
<1>9. Changes(old, t).updated = Changes(old, new).updated \union {k}
  <2>1. Changes(old, t).updated =
          {x \in DOMAIN new : <<>> \notin {Held(old, x), t[x]} /\ t[x][1] # Held(old, x)[1]}
    BY <1>2 DEF Changes
  <2>2. Changes(old, new).updated =
          {x \in DOMAIN new : <<>> \notin {Held(old, x), new[x]} /\ new[x][1] # Held(old, x)[1]}
    BY DEF Changes
  <2> QED BY <1>1, <1>6, <2>1, <2>2
<1> QED BY <1>4, <1>7, <1>8, <1>9 DEF t

\* A row is posted, below one that was not found or as the first: it counts as inserted.
LEMMA RowPosted ==
  ASSUME NEW old, IsTable(old), NEW new, IsTable(new), NEW values, Patched(old, new, values),
         NEW k,
         NEW c, IsCell(c), Len(c) = Len(Held(new, k)) + 1, c # <<>>,
         c[1] = IF Held(new, k) = <<>> THEN values[k] ELSE Held(new, k)[1]
  PROVE  LET t == Holding(new, k, c)
         IN /\ Patched(old, t, values)
            /\ Changes(old, t).inserted = Changes(old, new).inserted \union {k}
            /\ Changes(old, t).updated = Changes(old, new).updated
            /\ Changes(old, t).deleted = Changes(old, new).deleted
<1> DEFINE t == Holding(new, k, c)
<1>1. DOMAIN t = DOMAIN new \union {k} /\ t[k] = c /\ \A x \in DOMAIN new \ {k} : t[x] = new[x]
  BY DEF Holding
<1> HIDE DEF t
<1>2. /\ Len(Held(old, k)) \in Nat /\ Len(Held(new, k)) \in Nat
      /\ Len(Held(old, k)) = 0 <=> Held(old, k) = <<>>
      /\ Len(Held(new, k)) = 0 <=> Held(new, k) = <<>>
  BY HeldCell, CellFacts
<1>3. Len(Held(new, k)) >= Len(Held(old, k))
  <2>1. CASE k \in DOMAIN new
    BY <2>1 DEF Patched, Held
  <2>2. CASE k \notin DOMAIN new
    <3>1. Held(old, k) = <<>> /\ Held(new, k) = <<>>
      BY <2>2 DEF Patched, Held
    <3> QED BY <1>2, <3>1
  <2> QED BY <2>1, <2>2
<1>4. Len(t[k]) > Len(Held(old, k)) /\ Len(t[k]) >= Len(Held(old, k))
  BY <1>1, <1>2, <1>3
<1>5. k \in DOMAIN new => Held(new, k) = new[k]
  BY DEF Held
<1>6. Held(old, k) # <<>> => k \in DOMAIN new /\ new[k] # <<>> /\ Held(new, k) = new[k]
  <2>1. Held(old, k) # <<>> => Held(new, k) # <<>>
    BY <1>2, <1>3
  <2> QED BY <2>1 DEF Held
<1>7. /\ Held(old, k) = <<>> \/ t[k][1] # Held(old, k)[1] => t[k][1] = values[k]
      /\ Held(old, k) # <<>> => t[k][1] = new[k][1]
  <2>1. Held(old, k) # <<>> => t[k][1] = new[k][1]
    BY <1>1, <1>6
  <2>2. CASE Held(new, k) = <<>>
    BY <1>1, <2>1, <2>2
  <2>3. CASE Held(new, k) # <<>>
    <3>1. k \in DOMAIN new /\ new[k] # <<>> /\ t[k][1] = new[k][1]
      BY <1>1, <2>3 DEF Held
    <3> QED BY <2>1, <3>1 DEF Patched
  <2> QED BY <2>2, <2>3
<1>8. Patched(old, t, values)
  <2>1. DOMAIN old \subseteq DOMAIN t
    BY <1>1 DEF Patched
  <2>2. ASSUME NEW x \in DOMAIN t
        PROVE  /\ Len(t[x]) >= Len(Held(old, x))
               /\ t[x] # <<>> /\ (Held(old, x) = <<>> \/ t[x][1] # Held(old, x)[1])
                    => t[x][1] = values[x]
    <3>1. CASE x = k
      BY <1>4, <1>7, <3>1
    <3>2. CASE x # k
      BY <1>1, <3>2 DEF Patched
    <3> QED BY <3>1, <3>2
  <2> QED BY <2>1, <2>2 DEF Patched
<1>9. Changes(old, t).inserted = Changes(old, new).inserted \union {k}
  <2>1. Changes(old, t).inserted = {x \in DOMAIN t : Len(t[x]) > Len(Held(old, x))}
    BY DEF Changes
  <2>2. Changes(old, new).inserted = {x \in DOMAIN new : Len(new[x]) > Len(Held(old, x))}
    BY DEF Changes
  <2> QED BY <1>1, <1>4, <2>1, <2>2
<1>10. Changes(old, t).updated = Changes(old, new).updated
  <2>1. Changes(old, t).updated =
          {x \in DOMAIN t : <<>> \notin {Held(old, x), t[x]} /\ t[x][1] # Held(old, x)[1]}
    BY DEF Changes
  <2>2. Changes(old, new).updated =
          {x \in DOMAIN new : <<>> \notin {Held(old, x), new[x]} /\ new[x][1] # Held(old, x)[1]}
    BY DEF Changes
  <2>3. ASSUME NEW x
        PROVE  x \in Changes(old, t).updated <=> x \in Changes(old, new).updated
    <3>1. CASE x = k
      BY <1>1, <1>6, <1>7, <2>1, <2>2, <3>1
    <3>2. CASE x # k
      BY <1>1, <2>1, <2>2, <3>2
    <3> QED BY <3>1, <3>2
  <2> QED BY <2>3, <2>1, <2>2
<1>11. Changes(old, t).deleted = Changes(old, new).deleted
  <2>1. Changes(old, t).deleted = {x \in DOMAIN t : Len(t[x]) < Len(Held(old, x))}
    BY DEF Changes
  <2>2. Changes(old, new).deleted = {x \in DOMAIN new : Len(new[x]) < Len(Held(old, x))}
    BY DEF Changes
  <2>3. ASSUME NEW x \in DOMAIN t PROVE ~(Len(t[x]) < Len(Held(old, x)))
    <3>1. Len(t[x]) \in Nat /\ Len(Held(old, x)) \in Nat
      <4>1. IsTable(t)
        BY OneCellHeld DEF t
      <4> QED BY <4>1, HeldCell, CellFacts DEF IsTable
    <3> QED BY <1>8, <3>1 DEF Patched
  <2>4. ASSUME NEW x \in DOMAIN new PROVE ~(Len(new[x]) < Len(Held(old, x)))
    <3>1. Len(new[x]) \in Nat /\ Len(Held(old, x)) \in Nat
      BY HeldCell, CellFacts DEF IsTable
    <3> QED BY <3>1 DEF Patched
  <2> QED BY <2>1, <2>2, <2>3, <2>4
<1> QED BY <1>8, <1>9, <1>10, <1>11 DEF t

LEMMA BwlRowTells ==
  ASSUME TellInv, job \in TellJobs, Rec!BwlWrite PROVE TellInv'
<1>1. /\ job = "bwl" /\ pc = "write" /\ exit # "ok" /\ said = {} /\ ~lost
      /\ IsTable(rows) /\ IsTable(before) /\ tally = Changes(before, rows)
      /\ Patched(before, rows, payload)
      /\ UNCHANGED <<job, source, pc, payload, before, last, said, lost, exit>>
  BY DEF TellInv, Rec!BwlWrite, Fit
<1>2. PICK answered, accepted \in BOOLEAN :
        LET k == Head(todo)
            stored == Rec!Held(rows, k)
            found == answered /\ stored # <<>>
            same == found /\ stored[1] = payload[k]
            written == ~same /\ accepted
        IN /\ rows' = IF ~written THEN rows
                      ELSE IF found THEN Rec!Holding(rows, k, [stored EXCEPT ![1] = payload[k]])
                      ELSE Rec!Holding(rows, k, Append(stored, payload[k]))
           /\ tally' = IF ~written THEN tally
                       ELSE IF found THEN [tally EXCEPT !.updated = @ \union {k}]
                       ELSE [tally EXCEPT !.inserted = @ \union {k}]
  BY DEF Rec!BwlWrite
<1> DEFINE k == Head(todo)
           stored == Held(rows, k)
           found == answered /\ stored # <<>>
           same == found /\ stored[1] = payload[k]
           written == ~same /\ accepted
           values == payload
           patch == [stored EXCEPT ![1] = payload[k]]
           post == Append(stored, payload[k])
<1>3. /\ rows' = IF ~written THEN rows
                 ELSE IF found THEN Holding(rows, k, patch) ELSE Holding(rows, k, post)
      /\ tally' = IF ~written THEN tally
                  ELSE IF found THEN [tally EXCEPT !.updated = @ \union {k}]
                  ELSE [tally EXCEPT !.inserted = @ \union {k}]
  BY <1>2 DEF Rec!Held, Rec!Holding, Held, Holding
<1>4. IsCell(stored)
  BY <1>1, HeldCell
<1> HIDE DEF k, values
<1>5. IsTable(rows') /\ Patched(before, rows', values) /\ tally' = Changes(before, rows')
  <2>1. CASE ~written
    BY <1>1, <1>3, <2>1 DEF values
  <2>2. CASE written /\ found
    <3>1. IsCell(patch) /\ Len(patch) = Len(stored) /\ patch # <<>> /\ patch[1] = payload[k]
      BY <1>4, <2>2, PatchedCell
    <3> DEFINE t == Holding(rows, k, patch)
    <3> HIDE DEF patch
    <3>2. IsTable(t)
      BY <1>1, <3>1, OneCellHeld
    <3>3. /\ Patched(before, t, values)
          /\ Changes(before, t).inserted = Changes(before, rows).inserted
          /\ Changes(before, t).updated = Changes(before, rows).updated \union {k}
          /\ Changes(before, t).deleted = Changes(before, rows).deleted
      <4>1. values[k] = payload[k] /\ Patched(before, rows, values)
        BY <1>1 DEF values
      <4> QED BY <1>1, <2>2, <3>1, <4>1, RowPatched
    <3>4. rows' = t /\ tally' = [Changes(before, rows) EXCEPT !.updated = @ \union {k}]
      BY <1>1, <1>3, <2>2
    <3> HIDE DEF t
    <3>5. tally' = Changes(before, t)
      BY <3>3, <3>4 DEF Changes
    <3> QED BY <3>2, <3>3, <3>4, <3>5
  <2>3. CASE written /\ ~found
    <3>1. /\ IsCell(post) /\ Len(post) = Len(stored) + 1 /\ post # <<>>
          /\ post[1] = IF stored = <<>> THEN payload[k] ELSE stored[1]
      BY <1>4, AppendedCell
    <3> DEFINE t == Holding(rows, k, post)
    <3> HIDE DEF post
    <3>2. IsTable(t)
      BY <1>1, <3>1, OneCellHeld
    <3>3. /\ Patched(before, t, values)
          /\ Changes(before, t).inserted = Changes(before, rows).inserted \union {k}
          /\ Changes(before, t).updated = Changes(before, rows).updated
          /\ Changes(before, t).deleted = Changes(before, rows).deleted
      <4>1. values[k] = payload[k] /\ Patched(before, rows, values)
        BY <1>1 DEF values
      <4> QED BY <1>1, <3>1, <4>1, RowPosted
    <3>4. rows' = t /\ tally' = [Changes(before, rows) EXCEPT !.inserted = @ \union {k}]
      BY <1>1, <1>3, <2>3
    <3> HIDE DEF t
    <3>5. tally' = Changes(before, t)
      BY <3>3, <3>4 DEF Changes
    <3> QED BY <3>2, <3>3, <3>4, <3>5
  <2> QED BY <2>1, <2>2, <2>3
<1>6. Patched(before, rows', payload')
  BY <1>1, <1>5 DEF values
<1> QED BY <1>1, <1>5, <1>6 DEF TellInv, Fit

LEMMA BwlStopTells ==
  ASSUME TellInv, job \in TellJobs, Rec!BwlStops PROVE TellInv'
<1>1. /\ job = "bwl" /\ pc = "write" /\ pc' = "notify" /\ exit # "ok"
      /\ tally = Changes(before, rows) /\ said = {} /\ ~lost /\ Fit(job, rows) /\ Fit(job, before)
      /\ UNCHANGED <<job, source, rows, tally, payload, before, last, said, lost, exit>>
  BY DEF TellInv, Rec!BwlStops
<1> QED BY <1>1 DEF TellInv, Tells, Told

LEMMA TellBegins == Init => TellInv
<1> SUFFICES ASSUME Init, job \in TellJobs PROVE TellInv
  BY DEF TellInv
<1>1. /\ rows \in Tables(job) /\ before = rows /\ pc = "idle" /\ tally = NoTally
      /\ said = {} /\ ~lost
  BY DEF Init, FrameInit
<1>2. Fit(job, rows)
  <2>1. ASSUME job # "usamw_events"
        PROVE  LET Stored(k) == IF job \in {"usaw_qt", "usamw_qt"} THEN Base[k]["total"] ELSE Base[k]
                   full == [k \in Keys |-> <<Stored(k)>>]
                   one == CHOOSE k \in Keys : TRUE
               IN rows \in {[k \in Keys |-> <<>>], full}
                           \union IF job \in Wso!Jobs
                                  THEN {[full EXCEPT ![one] = <<Stored(one), Stored(one)>>]} ELSE {}
    BY <1>1, <2>1 DEF Tables, TellJobs, TruthJobs, Rec!Jobs, Std!Jobs, Wso!Jobs, Wso!TabJobs,
       Wso!FlatJobs, Wso!PdfJobs, Rank!Jobs, Res!Jobs, Sch!Jobs, Ath!Jobs
  <2> DEFINE Stored(k) == IF job \in {"usaw_qt", "usamw_qt"} THEN Base[k]["total"] ELSE Base[k]
             full == [k \in Keys |-> OneRow(Stored(k))]
             one == CHOOSE k \in Keys : TRUE
             two == <<Stored(one), Stored(one)>>
  <2>2. CASE job = "usamw_events"
    <3>1. PICK row \in {<<>>, <<Ev!Meet(Event("may", "here"), "completed")>>} :
            rows = [m \in Meets |-> IF m = "open" THEN row ELSE <<>>]
      BY <1>1, <2>2 DEF Tables, Rank!Jobs, Res!Jobs, Sch!Jobs, Ath!Jobs
    <3>2. row = <<>> \/ row = OneRow(Ev!Meet(Event("may", "here"), "completed"))
      BY DEF OneRow
    <3>3. IsCell(row) /\ Len(row) <= 1
      BY <3>2, NoRow, RowCell
    <3> QED BY <3>1, <3>3, NoRow DEF Fit, IsTable, NoCopies
  <2>3. CASE rows = [k \in Keys |-> <<>>]
    BY <2>3, NoRow DEF Fit, IsTable, NoCopies
  <2>4. IsTable(full) /\ NoCopies(full)
    <3>1. /\ DOMAIN full = Keys /\ full = [k \in DOMAIN full |-> full[k]]
          /\ \A k \in Keys : full[k] = OneRow(Stored(k))
      OBVIOUS
    <3> HIDE DEF full
    <3>2. ASSUME NEW k \in Keys PROVE IsCell(full[k]) /\ Len(full[k]) <= 1
      <4> DEFINE v == Stored(k)
      <4> HIDE DEF v
      <4>1. full[k] = OneRow(v)
        BY <3>1 DEF v
      <4> QED BY <4>1, RowCell
    <3> QED BY <3>1, <3>2 DEF IsTable, NoCopies
  <2>5. CASE rows = full
    BY <2>4, <2>5 DEF Fit
  <2>6. CASE job \in Wso!Jobs /\ rows = [full EXCEPT ![one] = two]
    <3>1. IsCell(two)
      BY CopiedCell
    <3> HIDE DEF full, two
    <3>2. IsTable(rows)
      BY <2>4, <2>6, <3>1 DEF IsTable
    <3> QED BY <2>6, <3>2 DEF Fit
  <2>7. job # "usamw_events" =>
          \/ rows = [k \in Keys |-> <<>>] \/ rows = full
          \/ job \in Wso!Jobs /\ rows = [full EXCEPT ![one] = two]
    BY <2>1 DEF OneRow
  <2> HIDE DEF full, two, one
  <2> QED BY <2>2, <2>3, <2>5, <2>6, <2>7
<1>3. Heard
  <2>1. Changes(before, rows) = NoTally
    BY <1>1, <1>2, NothingChanges DEF Fit
  <2> QED BY <1>1, <2>1, ToldNothing DEF Heard
<1> QED BY <1>1, <1>2, <1>3 DEF TellInv

LEMMA TellSteps == TellInv /\ [Next]_jobVars => TellInv'
<1> SUFFICES ASSUME TellInv, [Next]_jobVars PROVE TellInv'
  OBVIOUS
<1>1. CASE job \in TellJobs
  BY <1>1, TellKinds, FrameTells, UpsertsTell, ComparesTell, SyncsTell, EventsTell,
     ConcludesTells, BwlRowTells, BwlStopTells
<1>2. CASE job \notin TellJobs
  <2>1. job' \notin TellJobs
    BY <1>2, OthersStay DEF jobVars
  <2> QED BY <2>1 DEF TellInv
<1> QED BY <1>1, <1>2

LEMMA SpecTellInv == Spec => []TellInv
BY TellBegins, TellSteps, PTL DEF Spec

-----------------------------------------------------------------------------
(* The same of the rankings, where a page lists one PDF of a group at most:   *)
(* the groups that are not replaced yet are as they were before the run.      *)

OnePdf(s) == \A i, j \in DOMAIN s : s[i].group = s[j].group => i = j

RankTable(t) == IsTable(t) /\ NoCopies(t) /\ DOMAIN t = Rank!Keys

RankCounted ==
  /\ tally = Changes(before, rows)
  /\ \A k \in Rank!Keys : k[1] \notin payload => rows[k] = before[k]
  /\ \A i \in DOMAIN todo : todo[i].group \notin payload
  /\ OnePdf(todo)

RankHeard ==
  IF said = {} THEN lost \/ Changes(before, rows) = NoTally
  ELSE \A t \in said : t = Changes(before, rows)

RankTold ==
  job \in Rank!Jobs =>
    /\ RankTable(rows) /\ RankTable(before)
    /\ pc = "scrape" => rows = before /\ tally = NoTally
    /\ pc # "idle" => said = {} /\ ~lost
    /\ OnePdf(source) /\ pc = "write" => RankCounted
    /\ OnePdf(source) /\ pc \in {"notify", "notify_stale"} => tally = Changes(before, rows)
    /\ \A s \in last : exit = "ok" /\ OnePdf(s) => RankHeard

LEMMA RankChanges ==
  ASSUME NEW old, RankTable(old), NEW new, RankTable(new)
  PROVE  /\ Changes(old, new).inserted = {k \in Rank!Keys : old[k] = <<>> /\ new[k] # <<>>}
         /\ Changes(old, new).updated =
               {k \in Rank!Keys : old[k] # <<>> /\ new[k] # <<>> /\ new[k] # old[k]}
         /\ Changes(old, new).deleted = {k \in Rank!Keys : old[k] # <<>> /\ new[k] = <<>>}
<1>1. ASSUME NEW k \in Rank!Keys
      PROVE  /\ Len(new[k]) > Len(Held(old, k)) <=> old[k] = <<>> /\ new[k] # <<>>
             /\ Len(new[k]) < Len(Held(old, k)) <=> old[k] # <<>> /\ new[k] = <<>>
             /\ <<>> \notin {Held(old, k), new[k]} /\ new[k][1] # Held(old, k)[1]
                  <=> old[k] # <<>> /\ new[k] # <<>> /\ new[k] # old[k]
  <2> DEFINE x == old[k]
             y == new[k]
  <2>1. Held(old, k) = x /\ IsCell(x) /\ IsCell(y) /\ Len(x) <= 1 /\ Len(y) <= 1
    BY DEF RankTable, Held, IsTable, NoCopies
  <2> HIDE DEF x, y
  <2>2. /\ Len(x) \in Nat /\ (Len(x) = 0 <=> x = <<>>)
        /\ Len(y) \in Nat /\ (Len(y) = 0 <=> y = <<>>)
    BY <2>1, CellFacts
  <2>3. /\ x = <<>> \/ x = OneRow(x[1])
        /\ y = <<>> \/ y = OneRow(y[1])
    BY <2>1, NoCopyCell
  <2>4. Len(y) > Len(x) <=> x = <<>> /\ y # <<>>
    BY <2>1, <2>2
  <2>5. Len(y) < Len(x) <=> x # <<>> /\ y = <<>>
    BY <2>1, <2>2
  <2>6. <<>> \notin {x, y} /\ y[1] # x[1] <=> x # <<>> /\ y # <<>> /\ y # x
    BY <2>3
  <2> QED BY <2>1, <2>4, <2>5, <2>6 DEF x, y
<1>2. DOMAIN new = Rank!Keys
  BY DEF RankTable
<1>3. Changes(old, new).inserted = {k \in Rank!Keys : old[k] = <<>> /\ new[k] # <<>>}
  <2>1. Changes(old, new).inserted = {k \in Rank!Keys : Len(new[k]) > Len(Held(old, k))}
    BY <1>2 DEF Changes
  <2> QED BY <1>1, <2>1
<1>4. Changes(old, new).deleted = {k \in Rank!Keys : old[k] # <<>> /\ new[k] = <<>>}
  <2>1. Changes(old, new).deleted = {k \in Rank!Keys : Len(new[k]) < Len(Held(old, k))}
    BY <1>2 DEF Changes
  <2> QED BY <1>1, <2>1
<1>5. Changes(old, new).updated =
        {k \in Rank!Keys : old[k] # <<>> /\ new[k] # <<>> /\ new[k] # old[k]}
  <2>1. Changes(old, new).updated =
          {k \in Rank!Keys : <<>> \notin {Held(old, k), new[k]} /\ new[k][1] # Held(old, k)[1]}
    BY <1>2 DEF Changes
  <2> QED BY <1>1, <2>1
<1> QED BY <1>3, <1>4, <1>5

LEMMA TallyFields ==
  ASSUME NEW old, NEW new, NEW i, NEW u, NEW d,
         i = Changes(old, new).inserted, u = Changes(old, new).updated, d = Changes(old, new).deleted
  PROVE  [inserted |-> i, updated |-> u, deleted |-> d] = Changes(old, new)
BY DEF Changes

\* What was counted so far and what one more write changes, in keys whose rows
\* were as before the run, are together what changed.
LEMMA CountsAddUp ==
  ASSUME NEW old, NEW mid, NEW new, RankTable(old), RankTable(mid), RankTable(new),
         \A k \in Rank!Keys : new[k] = mid[k] \/ mid[k] = old[k]
  PROVE  Changes(old, new) =
           [inserted |-> Changes(old, mid).inserted \union
                            {k \in Rank!Keys : mid[k] = <<>> /\ new[k] # <<>>},
            updated |-> Changes(old, mid).updated \union
                            {k \in Rank!Keys : mid[k] # <<>> /\ new[k] # <<>> /\ new[k] # mid[k]},
            deleted |-> Changes(old, mid).deleted \union
                            {k \in Rank!Keys : mid[k] # <<>> /\ new[k] = <<>>}]
<1>1. /\ Changes(old, mid).inserted \union {k \in Rank!Keys : mid[k] = <<>> /\ new[k] # <<>>}
           = Changes(old, new).inserted
      /\ Changes(old, mid).updated \union
           {k \in Rank!Keys : mid[k] # <<>> /\ new[k] # <<>> /\ new[k] # mid[k]}
           = Changes(old, new).updated
      /\ Changes(old, mid).deleted \union {k \in Rank!Keys : mid[k] # <<>> /\ new[k] = <<>>}
           = Changes(old, new).deleted
  <2>1. /\ Changes(old, new).inserted = {k \in Rank!Keys : old[k] = <<>> /\ new[k] # <<>>}
        /\ Changes(old, new).updated =
              {k \in Rank!Keys : old[k] # <<>> /\ new[k] # <<>> /\ new[k] # old[k]}
        /\ Changes(old, new).deleted = {k \in Rank!Keys : old[k] # <<>> /\ new[k] = <<>>}
    BY RankChanges
  <2>2. /\ Changes(old, mid).inserted = {k \in Rank!Keys : old[k] = <<>> /\ mid[k] # <<>>}
        /\ Changes(old, mid).updated =
              {k \in Rank!Keys : old[k] # <<>> /\ mid[k] # <<>> /\ mid[k] # old[k]}
        /\ Changes(old, mid).deleted = {k \in Rank!Keys : old[k] # <<>> /\ mid[k] = <<>>}
    BY RankChanges
  <2>3. Changes(old, mid).inserted \union {k \in Rank!Keys : mid[k] = <<>> /\ new[k] # <<>>}
          = Changes(old, new).inserted
    BY <2>1, <2>2
  <2>4. Changes(old, mid).updated \union
          {k \in Rank!Keys : mid[k] # <<>> /\ new[k] # <<>> /\ new[k] # mid[k]}
          = Changes(old, new).updated
    BY <2>1, <2>2
  <2>5. Changes(old, mid).deleted \union {k \in Rank!Keys : mid[k] # <<>> /\ new[k] = <<>>}
          = Changes(old, new).deleted
    BY <2>1, <2>2
  <2> QED BY <2>3, <2>4, <2>5
<1> QED BY <1>1, TallyFields

LEMMA ReplacedTable ==
  ASSUME NEW pdf, RankTable(rows)
  PROVE  /\ RankTable(Rank!Replaced(pdf))
         /\ \A k \in Rank!Keys : k[1] # pdf.group => Rank!Replaced(pdf)[k] = rows[k]
<1> DEFINE At(k) == {i \in Rank!TableLines(pdf.lines) : pdf.lines[i].entry = k[2]}
           total(k) == pdf.lines[CHOOSE i \in At(k) : TRUE].total
           new == Rank!Replaced(pdf)
           totals == [k \in Rank!Keys |-> total(k)]
<1>1. new = [k \in DOMAIN rows |-> IF k[1] # pdf.group THEN rows[k]
                                   ELSE IF At(k) = {} THEN <<>> ELSE <<total(k)>>]
  BY DEF Rank!Replaced
<1>2. DOMAIN rows = Rank!Keys /\ IsTable(rows) /\ NoCopies(rows)
  BY DEF RankTable
<1>3. /\ DOMAIN new = Rank!Keys /\ new = [k \in DOMAIN new |-> new[k]]
      /\ \A k \in Rank!Keys : k[1] # pdf.group => new[k] = rows[k]
      /\ \A k \in Rank!Keys : new[k] = rows[k] \/ new[k] = <<>> \/ new[k] = OneRow(totals[k])
  BY <1>1, <1>2 DEF OneRow
<1> HIDE DEF At, total, new, totals
<1>4. ASSUME NEW k \in Rank!Keys PROVE IsCell(new[k]) /\ Len(new[k]) <= 1
  <2>1. CASE new[k] = rows[k]
    BY <1>2, <2>1 DEF IsTable, NoCopies
  <2>2. CASE new[k] = <<>>
    BY <2>2, NoRow
  <2>3. CASE new[k] = OneRow(totals[k])
    <3> DEFINE v == totals[k]
    <3> HIDE DEF v
    <3>1. new[k] = OneRow(v)
      BY <2>3 DEF v
    <3> QED BY <3>1, RowCell
  <2> QED BY <1>3, <2>1, <2>2, <2>3
<1> QED BY <1>3, <1>4 DEF RankTable, IsTable, NoCopies, new

LEMMA PdfIsCounted ==
  ASSUME RankInv, RankTold, Rank!RankingsPdf PROVE RankTold'
<1>1. /\ job \in Rank!Jobs /\ pc = "write" /\ todo # <<>> /\ todo' = Tail(todo)
      /\ UNCHANGED <<job, source, pc, before, last, said, lost, exit>>
  BY DEF Rank!RankingsPdf
<1>2. /\ RankTable(rows) /\ RankTable(before) /\ said = {} /\ ~lost /\ exit # "ok"
      /\ todo \in Seq(Pdfs)
      /\ OnePdf(source) => RankCounted
  BY <1>1 DEF RankTold, RankInv
<1>3. /\ Len(todo) \in Nat /\ 1 \in DOMAIN todo /\ Head(todo) = todo[1]
      /\ \A i \in DOMAIN Tail(todo) : i + 1 \in DOMAIN todo /\ i + 1 # 1 /\ Tail(todo)[i] = todo[i + 1]
      /\ \A i, j \in DOMAIN Tail(todo) : i + 1 = j + 1 => i = j
  <2>1. Len(todo) \in Nat /\ Len(todo) # 0
    BY <1>1, <1>2, EmptySeq
  <2>2. /\ Head(todo) = todo[1] /\ Tail(todo) \in Seq(Pdfs) /\ Len(Tail(todo)) = Len(todo) - 1
        /\ \A i \in 1..Len(Tail(todo)) : Tail(todo)[i] = todo[i + 1]
    BY <1>1, <1>2, HeadTailProperties
  <2>3. DOMAIN Tail(todo) = 1..(Len(todo) - 1) /\ DOMAIN todo = 1..Len(todo)
    BY <1>2, <2>2
  <2> QED BY <2>1, <2>2, <2>3
<1>4. ASSUME OnePdf(source)
      PROVE  /\ \A i \in DOMAIN todo' : todo'[i].group \notin payload \union {Head(todo).group}
             /\ OnePdf(todo') /\ Head(todo).group \notin payload
  <2>1. OnePdf(todo) /\ \A i \in DOMAIN todo : todo[i].group \notin payload
    BY <1>2, <1>4 DEF RankCounted
  <2>2. OnePdf(Tail(todo))
    BY <1>3, <2>1 DEF OnePdf
  <2>3. \A i \in DOMAIN Tail(todo) : Tail(todo)[i].group # Head(todo).group
    BY <1>3, <2>1 DEF OnePdf
  <2> QED BY <1>1, <1>3, <2>1, <2>2, <2>3 DEF OnePdf
<1>5. CASE hitch' = TRUE /\ UNCHANGED <<rows, payload, tally>>
  <2>1. OnePdf(source) => RankCounted'
    BY <1>1, <1>2, <1>4, <1>5 DEF RankCounted
  <2> QED BY <1>1, <1>2, <1>5, <2>1 DEF RankTold
<1>6. CASE /\ rows' = Rank!Replaced(Head(todo))
           /\ payload' = payload \union {Head(todo).group}
           /\ tally' = [inserted |-> tally.inserted \union
                             {k \in DOMAIN rows : rows[k] = <<>> /\ rows'[k] # <<>>},
                        updated |-> tally.updated \union
                             {k \in DOMAIN rows : <<>> \notin {rows[k], rows'[k]} /\ rows'[k] # rows[k]},
                        deleted |-> tally.deleted \union
                             {k \in DOMAIN rows : rows[k] # <<>> /\ rows'[k] = <<>>}]
  <2> DEFINE g == Head(todo).group
             new == rows'
  <2>1. RankTable(new) /\ \A k \in Rank!Keys : k[1] # g => new[k] = rows[k]
    BY <1>2, <1>6, ReplacedTable
  <2>2. ASSUME OnePdf(source) PROVE RankCounted'
    <3>1. /\ tally = Changes(before, rows) /\ g \notin payload
          /\ \A k \in Rank!Keys : k[1] \notin payload => rows[k] = before[k]
      BY <1>2, <1>4, <2>2 DEF RankCounted
    <3>2. \A k \in Rank!Keys : new[k] = rows[k] \/ rows[k] = before[k]
      BY <2>1, <3>1
    <3>3. \A k \in Rank!Keys : k[1] \notin payload' => new[k] = before[k]
      BY <1>6, <2>1, <3>1
    <3>4. DOMAIN rows = Rank!Keys
      BY <1>2 DEF RankTable
    <3>5. tally' = [inserted |-> Changes(before, rows).inserted \union
                             {k \in Rank!Keys : rows[k] = <<>> /\ new[k] # <<>>},
                    updated |-> Changes(before, rows).updated \union
                             {k \in Rank!Keys : rows[k] # <<>> /\ new[k] # <<>> /\ new[k] # rows[k]},
                    deleted |-> Changes(before, rows).deleted \union
                             {k \in Rank!Keys : rows[k] # <<>> /\ new[k] = <<>>}]
      <4>1. {k \in DOMAIN rows : <<>> \notin {rows[k], new[k]} /\ new[k] # rows[k]}
              = {k \in Rank!Keys : rows[k] # <<>> /\ new[k] # <<>> /\ new[k] # rows[k]}
        BY <3>4
      <4>2. /\ {k \in DOMAIN rows : rows[k] = <<>> /\ new[k] # <<>>}
                 = {k \in Rank!Keys : rows[k] = <<>> /\ new[k] # <<>>}
            /\ {k \in DOMAIN rows : rows[k] # <<>> /\ new[k] = <<>>}
                 = {k \in Rank!Keys : rows[k] # <<>> /\ new[k] = <<>>}
        BY <3>4
      <4> QED BY <1>6, <3>1, <4>1, <4>2
    <3>6. tally' = Changes(before, new)
      <4> HIDE DEF new
      <4> QED BY <1>2, <2>1, <3>2, <3>5, CountsAddUp
    <3> QED BY <1>1, <1>4, <1>6, <2>2, <3>3, <3>6 DEF RankCounted
  <2> QED BY <1>1, <1>2, <2>1, <2>2 DEF RankTold
<1> QED BY <1>5, <1>6 DEF Rank!RankingsPdf

LEMMA PruneIsCounted ==
  ASSUME RankInv, RankTold, Rank!RankingsPrune PROVE RankTold'
<1>1. /\ job \in Rank!Jobs /\ pc = "write" /\ pc' \in {"notify", "notify_stale"}
      /\ UNCHANGED <<job, source, before, last, said, lost, exit>>
  BY DEF Rank!RankingsPrune
<1>2. /\ RankTable(rows) /\ RankTable(before) /\ said = {} /\ ~lost /\ exit # "ok"
      /\ OnePdf(source) => RankCounted
  BY <1>1 DEF RankTold, RankInv
<1>3. CASE UNCHANGED <<rows, tally>>
  BY <1>1, <1>2, <1>3 DEF RankTold, RankCounted
<1>4. CASE LET stale == {k \in DOMAIN rows : k[1] \notin payload /\ rows[k] # <<>>} IN
           /\ rows' = [k \in DOMAIN rows |-> IF k \in stale THEN <<>> ELSE rows[k]]
           /\ tally' = [tally EXCEPT !.deleted = @ \union stale]
  <2> DEFINE stale == {k \in Rank!Keys : k[1] \notin payload /\ rows[k] # <<>>}
             new == rows'
  <2>1. DOMAIN rows = Rank!Keys /\ IsTable(rows) /\ NoCopies(rows)
    BY <1>2 DEF RankTable
  <2>2. /\ new = [k \in Rank!Keys |-> IF k \in stale THEN <<>> ELSE rows[k]]
        /\ tally' = [tally EXCEPT !.deleted = @ \union stale]
    BY <1>4, <2>1
  <2>3. RankTable(new)
    BY <2>1, <2>2, NoRow DEF RankTable, IsTable, NoCopies
  <2>4. ASSUME OnePdf(source) PROVE tally' = Changes(before, new)
    <3>1. /\ tally = Changes(before, rows)
          /\ \A k \in Rank!Keys : k[1] \notin payload => rows[k] = before[k]
      BY <1>2, <2>4 DEF RankCounted
    <3>2. \A k \in Rank!Keys : new[k] = rows[k] \/ rows[k] = before[k]
      BY <2>2, <3>1
    <3>3. /\ {k \in Rank!Keys : rows[k] = <<>> /\ new[k] # <<>>} = {}
          /\ {k \in Rank!Keys : rows[k] # <<>> /\ new[k] # <<>> /\ new[k] # rows[k]} = {}
          /\ {k \in Rank!Keys : rows[k] # <<>> /\ new[k] = <<>>} = stale
      BY <2>2
    <3> HIDE DEF new, stale
    <3>4. Changes(before, new) =
            [inserted |-> Changes(before, rows).inserted \union {},
             updated |-> Changes(before, rows).updated \union {},
             deleted |-> Changes(before, rows).deleted \union stale]
      <4> DEFINE a == {k \in Rank!Keys : rows[k] = <<>> /\ new[k] # <<>>}
                 b == {k \in Rank!Keys : rows[k] # <<>> /\ new[k] # <<>> /\ new[k] # rows[k]}
                 c == {k \in Rank!Keys : rows[k] # <<>> /\ new[k] = <<>>}
                 old == before
                 mid == rows
      <4>1. Changes(old, new) = [inserted |-> Changes(old, mid).inserted \union a,
                                 updated |-> Changes(old, mid).updated \union b,
                                 deleted |-> Changes(old, mid).deleted \union c]
        <5>1. /\ RankTable(old) /\ RankTable(mid) /\ RankTable(new)
              /\ \A k \in Rank!Keys : new[k] = mid[k] \/ mid[k] = old[k]
          BY <1>2, <2>3, <3>2
        <5>2. /\ a = {k \in Rank!Keys : mid[k] = <<>> /\ new[k] # <<>>}
              /\ b = {k \in Rank!Keys : mid[k] # <<>> /\ new[k] # <<>> /\ new[k] # mid[k]}
              /\ c = {k \in Rank!Keys : mid[k] # <<>> /\ new[k] = <<>>}
          OBVIOUS
        <5> HIDE DEF old, mid, a, b, c
        <5>3. Changes(old, new) =
                [inserted |-> Changes(old, mid).inserted \union
                                 {k \in Rank!Keys : mid[k] = <<>> /\ new[k] # <<>>},
                 updated |-> Changes(old, mid).updated \union
                                 {k \in Rank!Keys : mid[k] # <<>> /\ new[k] # <<>> /\ new[k] # mid[k]},
                 deleted |-> Changes(old, mid).deleted \union
                                 {k \in Rank!Keys : mid[k] # <<>> /\ new[k] = <<>>}]
          BY <5>1, CountsAddUp
        <5> QED BY <5>2, <5>3
      <4>2. a = {} /\ b = {} /\ c = stale
        BY <3>3
      <4> HIDE DEF a, b, c
      <4> QED BY <4>1, <4>2
    <3>5. tally = [inserted |-> tally.inserted, updated |-> tally.updated, deleted |-> tally.deleted]
      BY <3>1 DEF Changes
    <3>6. tally' = [inserted |-> tally.inserted, updated |-> tally.updated,
                    deleted |-> tally.deleted \union stale]
      BY <2>2, <3>5
    <3> QED BY <3>1, <3>4, <3>6
  <2> QED BY <1>1, <1>2, <2>3, <2>4 DEF RankTold
<1> QED BY <1>3, <1>4 DEF Rank!RankingsPrune

LEMMA ScrapeIsCounted ==
  ASSUME RankInv, RankTold, Rank!RankingsScrape PROVE RankTold'
<1>1. /\ job \in Rank!Jobs /\ pc = "scrape" /\ UNCHANGED <<job, source, rows, before, said, lost>>
      /\ exit # "ok" /\ source \in RankingPages
  BY DEF Rank!RankingsScrape, Rank!Quits, Rank!Ends, RankInv
<1>2. /\ RankTable(rows) /\ RankTable(before) /\ said = {} /\ ~lost
      /\ rows = before /\ tally = NoTally
  BY <1>1 DEF RankTold
<1>3. CASE Rank!Quits("failed")
  BY <1>1, <1>2, <1>3 DEF Rank!Quits, Rank!Ends, RankTold
<1>4. CASE /\ payload' = {} /\ todo' = IF job = "rankings" THEN source ELSE <<source[1]>>
           /\ pc' = "write" /\ UNCHANGED <<tally, last, exit>>
  <2>1. ASSUME OnePdf(source) PROVE OnePdf(todo')
    <3>1. CASE job = "rankings"
      BY <1>4, <2>1, <3>1 DEF OnePdf
    <3>2. CASE job # "rankings"
      <4>1. \A i, j \in DOMAIN <<source[1]>> : i = j
        OBVIOUS
      <4> QED BY <1>4, <3>2, <4>1 DEF OnePdf
    <3> QED BY <3>1, <3>2
  <2>2. Changes(before, rows) = NoTally
    BY <1>2, NothingChanges DEF RankTable
  <2>3. OnePdf(source) => RankCounted'
    BY <1>1, <1>2, <1>4, <2>1, <2>2 DEF RankCounted
  <2> QED BY <1>1, <1>2, <1>4, <2>3 DEF RankTold
<1> QED BY <1>3, <1>4 DEF Rank!RankingsScrape

LEMMA ReportIsTold ==
  ASSUME RankInv, RankTold, Rank!RankingsReport PROVE RankTold'
<1>1. /\ job \in Rank!Jobs /\ pc \in {"notify", "notify_stale"} /\ pc' = "idle"
      /\ UNCHANGED <<job, source, rows, before>>
      /\ last' \subseteq {source}
      /\ IF tally = NoTally THEN UNCHANGED <<said, lost>>
         ELSE (said' = {tally} /\ UNCHANGED lost) \/ (lost' = TRUE /\ UNCHANGED said)
  BY DEF Rank!RankingsReport, Rank!Ends, Rank!Posts, Rank!PostsAnyway, Rank!NoTally, NoTally
<1>2. /\ RankTable(rows) /\ RankTable(before) /\ said = {} /\ ~lost
      /\ OnePdf(source) => tally = Changes(before, rows)
  BY <1>1 DEF RankTold
<1>3. ASSUME OnePdf(source) PROVE RankHeard'
  <2>1. CASE tally = NoTally
    BY <1>1, <1>2, <1>3, <2>1 DEF RankHeard
  <2>2. CASE said' = {tally}
    BY <1>1, <1>2, <1>3, <2>2 DEF RankHeard
  <2>3. CASE lost' = TRUE /\ UNCHANGED said
    BY <1>2, <2>3 DEF RankHeard
  <2> QED BY <1>1, <2>1, <2>2, <2>3
<1> QED BY <1>1, <1>2, <1>3 DEF RankTold

LEMMA FrameIsTold ==
  ASSUME RankInv, RankTold,
         SiteChanges(Some) \/ OtherJob(Sch!Jobs) \/ OtherJob(Ath!Jobs) \/ Start \/ Dies
  PROVE  RankTold'
<1>1. CASE SiteChanges(Some)
  <2>1. /\ pc = "idle" /\ UNCHANGED <<job, rows, pc, before, last, said, lost, exit>>
    BY <1>1 DEF SiteChanges
  <2> QED BY <2>1 DEF RankTold, RankHeard
<1>2. CASE OtherJob(Sch!Jobs) \/ OtherJob(Ath!Jobs)
  BY <1>2 DEF OtherJob, Sch!Jobs, Ath!Jobs, Rank!Jobs, RankTold
<1>3. CASE Start
  BY <1>3 DEF Start, RankTold
<1>4. CASE Dies
  BY <1>4 DEF Dies, Quits, Ends, work, RankTold
<1> QED BY <1>1, <1>2, <1>3, <1>4

LEMMA RankToldSteps == RankInv /\ RankTold /\ [Next]_jobVars => RankTold'
<1> SUFFICES ASSUME RankInv, RankTold, [Next]_jobVars PROVE RankTold'
  OBVIOUS
<1>1. CASE UNCHANGED jobVars
  BY <1>1 DEF jobVars, work, RankTold, RankHeard, RankCounted
<1>2. CASE Rec!Step \/ Std!Step \/ Wso!Step \/ Ev!Step \/ Res!Step \/ Sch!Step \/ Ath!Step
  BY <1>2, OthersElse DEF RankTold
<1>3. CASE Rank!Step
  BY <1>3, PdfIsCounted, PruneIsCounted, ScrapeIsCounted, ReportIsTold DEF Rank!Step
<1> QED BY <1>1, <1>2, <1>3, FrameIsTold DEF Next

LEMMA RankToldBegins == Init => RankTold
<1> SUFFICES ASSUME Init, job \in Rank!Jobs PROVE RankTold
  BY DEF RankTold
<1>1. /\ rows = [k \in Rank!Keys |-> <<>>] /\ before = rows /\ pc = "idle" /\ last = {}
  BY DEF Init, FrameInit, Tables
<1>2. RankTable(rows)
  BY <1>1, NoRow DEF RankTable, IsTable, NoCopies
<1> QED BY <1>1, <1>2 DEF RankTold

LEMMA SpecRankTold == Spec => []RankTold
BY SpecRankInv, RankToldBegins, RankToldSteps, PTL DEF Spec

JobIsOne == job \in AllJobs

LEMMA JobIsKnown == Spec => []JobIsOne
<1>1. Init => JobIsOne
  BY DEF Init, FrameInit, JobIsOne
<1>2. JobIsOne /\ [Next]_jobVars => JobIsOne'
  <2> SUFFICES ASSUME job \in AllJobs, [Next]_jobVars PROVE job' \in AllJobs
    BY DEF JobIsOne
  <2>1. CASE Rec!Step \/ Std!Step \/ Wso!Step \/ Ev!Step \/ Res!Step \/ Sch!Step \/ Ath!Step
    BY <2>1, OthersElse
  <2>2. CASE Rank!Step
    BY <2>2 DEF Rank!Step, Rank!RankingsScrape, Rank!RankingsPdf, Rank!RankingsPrune,
       Rank!RankingsReport, Rank!Quits, Rank!Ends
  <2>3. CASE OtherJob(Sch!Jobs) \/ OtherJob(Ath!Jobs)
    BY <2>3 DEF OtherJob, AllJobs
  <2>4. CASE SiteChanges(Some) \/ Start \/ Dies \/ UNCHANGED jobVars
    BY <2>4 DEF SiteChanges, Start, Dies, Quits, Ends, jobVars
  <2> QED BY <2>1, <2>2, <2>3, <2>4 DEF Next
<1> QED BY <1>1, <1>2, PTL DEF Spec

\* What Slack is told after a run is what changed in the table, whatever failed on
\* the way, for any table and payload (the inserted, updated and deleted counts of
\* upsert_record, sync_wso_records and replace_intl_rankings_group, _post_slack).
\* The jobs of results, whose messages name meets that are put together from several
\* pages, are left to the run.
THEOREM SlackIsTold ==
  Spec => [](job \notin {"usaw_results", "bwl_import"} => SlackHearsWhatChanged)
<1>1. TellInv /\ RankTold /\ JobIsOne
        => (job \notin {"usaw_results", "bwl_import"} => SlackHearsWhatChanged)
  <2> SUFFICES ASSUME TellInv, RankTold, job \in AllJobs,
                      job \notin {"usaw_results", "bwl_import"},
                      exit = "ok", job \notin Silent \union {"bwl_results"},
                      job \in Rank!Jobs => last = {source} /\ OnePdfPerGroup,
                      job = "iwf" => ~hitch
               PROVE  IF said = {} THEN lost \/ Tellable(Changed) = NoTally
                      ELSE \A t \in said :
                             (IF job = "iwf" THEN Tellable(t) ELSE t) = Tellable(Changed)
    BY DEF SlackHearsWhatChanged, JobIsOne
  <2>1. CASE job \in TellJobs
    <3>1. Heard
      BY <2>1 DEF TellInv
    <3>2. \A t : Tellable(t) = Told(job, t)
      BY <2>1, TellableIs
    <3> QED BY <3>1, <3>2 DEF Heard, Tells, Changed
  <2>2. CASE job \in Rank!Jobs
    <3>1. RankHeard
      BY <2>2 DEF RankTold, OnePdf, OnePdfPerGroup
    <3>2. \A t : Tellable(t) = t
      BY <2>2 DEF Tellable, Rank!Jobs
    <3> QED BY <2>2, <3>1, <3>2 DEF RankHeard, Changed, Rank!Jobs
  <2>3. job \in TellJobs \union Rank!Jobs
    BY DEF AllJobs, TellJobs, Silent, Ev!Jobs, Res!Jobs
  <2> QED BY <2>1, <2>2, <2>3
<1> QED BY <1>1, SpecTellInv, SpecRankTold, JobIsKnown, PTL

-----------------------------------------------------------------------------
(* The invariant of a second run: what a complete run read from its site is   *)
(* in the table as another run over that site would write it.                 *)

QuietJobs == TellJobs \ {"bwl"}

EventsIn(s) == Ev!Transformed(Ev!EventsOf(s))
SlotsIn(j, s) == IF j = "prelim_schedule" THEN Sch!OldRead(s) ELSE Sch!ScheduleRead(s).slots

\* The table as the schedule jobs write it.
Scheduled(j, t, slots) == Sch!Stored(IF j = "schedule_replaced" THEN Nothing ELSE t, slots)

\* The table has each of these records, and no other where it is written whole.
Has(j, t, p) ==
  /\ DOMAIN p \subseteq DOMAIN t
  /\ \A k \in DOMAIN p : t[k] = OneRow(p[k])
  /\ j \in {"iwf"} \union Wso!Jobs => \A k \in DOMAIN t \ DOMAIN p : t[k] = <<>>

Holds(j, t, s) ==
  IF j = "usamw_events" THEN Ev!Upserted(t, EventsIn(s), DOMAIN EventsIn(s)) = t
  ELSE IF j \in Sch!Jobs THEN Scheduled(j, t, SlotsIn(j, s)) = t
  ELSE \A p \in Readings(j, s) : Has(j, t, p)

\* A failed request or row of these may make a second run write.
Excused == job \in {"iwf", "usamw_events"} /\ hitch

ReadRight ==
  IF job = "usamw_events" THEN EventsRead
  ELSE IF job \in Sch!Jobs THEN payload = SlotsIn(job, source)
  ELSE RecordsRead

QuietInv ==
  job \in QuietJobs \union Sch!Jobs =>
    /\ \A s \in last : Holds(job, rows, s) \/ (pc # "idle" /\ (source # s \/ Excused))
    /\ pc = "scrape" => ~hitch
    /\ pc \in {"write", "notify"} /\ job \in Steady => ~hitch
    /\ pc = "write" => ReadRight /\ (job = "usamw_events" => ~hitch)
    /\ pc = "notify" /\ ~hitch => Holds(job, rows, source)

LEMMA RewriteHeld ==
  ASSUME NEW t, t = [k \in DOMAIN t |-> t[k]], NEW keys, NEW recs,
         keys \subseteq DOMAIN t, \A k \in keys : t[k] = OneRow(recs[k])
  PROVE  WithRows(t, keys, recs) = t
BY DEF WithRows, OneRow

LEMMA WholeHeld ==
  ASSUME NEW t, t = [k \in DOMAIN t |-> t[k]], NEW keys, NEW recs,
         keys \subseteq DOMAIN t, \A k \in keys : t[k] = OneRow(recs[k]),
         \A k \in DOMAIN t \ keys : t[k] = <<>>
  PROVE  WithRows([k \in DOMAIN t |-> <<>>], keys, recs) = t
BY DEF WithRows, OneRow

\* A source of a WSO reads one way, if it is not refused.
LEMMA OneReading ==
  ASSUME NEW j \in Wso!Jobs, NEW s, NEW p \in Wso!Read(j, s), NEW q \in Wso!Read(j, s)
  PROVE  p = q
<1>1. ASSUME NEW parts, p \in Wso!EveryPart(parts), q \in Wso!EveryPart(parts) PROVE p = q
  BY <1>1 DEF Wso!EveryPart
<1>2. CASE j = "ohio"
  <2>1. Wso!Read(j, s) = Wso!OhioRead(s)
    BY <1>2 DEF Wso!Read
  <2> QED BY <1>1, <2>1 DEF Wso!OhioRead
<1>3. CASE j = "pawv"
  <2>1. Wso!Read(j, s) = Wso!PawvRead(s)
    BY <1>3 DEF Wso!Read
  <2> QED BY <1>1, <2>1 DEF Wso!PawvRead
<1>4. CASE j = "carolinas"
  <2>1. Wso!Read(j, s) = Wso!CarolinasRead(s)
    BY <1>4 DEF Wso!Read
  <2> QED BY <1>1, <2>1 DEF Wso!CarolinasRead, Wso!GvizTabs
<1>5. CASE j = "florida"
  <2>1. Wso!Read(j, s) = Wso!FloridaRead(s)
    BY <1>5 DEF Wso!Read
  <2> QED BY <1>1, <2>1 DEF Wso!FloridaRead, Wso!GvizTabs
<1>6. CASE j = "new_jersey"
  <2>1. Wso!Read(j, s) = Wso!NewJerseyRead(s)
    BY <1>6 DEF Wso!Read
  <2> QED BY <1>1, <2>1 DEF Wso!NewJerseyRead, Wso!GvizTabs
<1>7. CASE j = "tnky"
  <2>1. Wso!Read(j, s) = Wso!EveryPart(<<Wso!TnkyRecords(s)>>)
    BY <1>7 DEF Wso!Read
  <2> QED BY <1>1, <2>1
<1>8. CASE j = "illinois"
  <2> DEFINE read == {r \in Wso!ToSet(s) : r.kind = "row"}
             x == [k \in {Wso!IllinoisKey(r) : r \in read} |->
                      [l \in Lifts |-> Wso!IllinoisValue(read, k, l)]]
  <2>1. Wso!Read(j, s) = Wso!IllinoisRead(s)
    BY <1>8 DEF Wso!Read
  <2>2. Wso!IllinoisRead(s) = {x} \/ Wso!IllinoisRead(s) = {}
    BY Zenon DEF Wso!IllinoisRead
  <2> HIDE DEF x
  <2> QED BY <2>1, <2>2
<1>9. CASE j = "mountain_south"
  <2>1. Wso!Read(j, s) = Wso!MountainSouthRead(s)
    BY <1>9 DEF Wso!Read
  <2> QED BY <1>1, <2>1 DEF Wso!MountainSouthRead, Wso!PdfsRead
<1>10. CASE j = "new_york"
  <2>1. Wso!Read(j, s) = Wso!NewYorkRead(s)
    BY <1>10 DEF Wso!Read
  <2> QED BY <1>1, <2>1 DEF Wso!NewYorkRead, Wso!PdfsRead
<1>11. CASE j = "new_england"
  <2>1. Wso!Read(j, s) = Wso!NewEnglandRead(s)
    BY <1>11 DEF Wso!Read
  <2> QED BY <1>1, <2>1 DEF Wso!NewEnglandRead, Wso!PdfsRead
<1>12. CASE j = "california_south"
  BY <1>12 DEF Wso!Read
<1>13. CASE j = "dmv"
  BY <1>13 DEF Wso!Read
<1>14. CASE j = "flat"
  BY <1>14 DEF Wso!Read
<1> QED BY <1>2, <1>3, <1>4, <1>5, <1>6, <1>7, <1>8, <1>9, <1>10, <1>11, <1>12, <1>13, <1>14
     DEF Wso!Jobs, Wso!TabJobs, Wso!FlatJobs, Wso!PdfJobs

LEMMA OnlyReading ==
  ASSUME NEW j \in QuietJobs \ {"usamw_events"}, NEW s, NEW p \in Readings(j, s), NEW q \in Readings(j, s)
  PROVE  p = q
<1>1. CASE j \in Wso!Jobs
  <2>1. Readings(j, s) = Wso!Read(j, s)
    BY <1>1 DEF Readings, Wso!Jobs, Wso!TabJobs, Wso!FlatJobs, Wso!PdfJobs
  <2> QED BY <1>1, <2>1, OneReading
<1>2. CASE j \in {"usaw", "masters", "umwf", "usamw", "iwf", "standards", "usamw_qt"}
  <2>1. \E x : Readings(j, s) = {x}
    BY <1>2, Zenon DEF Readings
  <2> QED BY <2>1
<1> QED BY <1>1, <1>2 DEF QuietJobs, TellJobs, TruthJobs, Rec!Jobs, Std!Jobs

LEMMA RecordsHold ==
  ASSUME NEW j \in QuietJobs \ {"usamw_events"}, NEW t, NEW s
  PROVE  Holds(j, t, s) <=> \A p \in Readings(j, s) : Has(j, t, p)
<1>1. j \notin Sch!Jobs
  BY DEF Sch!Jobs, QuietJobs, TellJobs, TruthJobs, Rec!Jobs, Std!Jobs, Wso!Jobs,
     Wso!TabJobs, Wso!FlatJobs, Wso!PdfJobs
<1> QED BY <1>1 DEF Holds

\* A second run over the same site writes nothing in this step.
NothingAgain == last = {source} /\ (job \in {"iwf", "usamw_events"} => ~hitch') => rows' = rows

\* What every write of a quiet job is shown to do.
LEMMA QuietWrite ==
  ASSUME QuietInv, job \in QuietJobs, pc = "write", pc' = "notify",
         UNCHANGED <<job, source, last>>,
         Excused => Excused', job \in Steady => ~hitch',
         Holds(job, rows, source) /\ ~Excused' => rows' = rows,
         ~hitch' => Holds(job, rows', source)
  PROVE  QuietInv' /\ NothingAgain
<1>1. \A s \in last : Holds(job, rows, s) \/ source # s \/ Excused
  BY DEF QuietInv
<1>2. NothingAgain
  BY <1>1 DEF NothingAgain, Excused
<1>3. ASSUME NEW s \in last PROVE Holds(job, rows', s) \/ source # s \/ Excused'
  BY <1>1
<1> QED BY <1>2, <1>3 DEF QuietInv

LEMMA TableFcn ==
  ASSUME TellInv, job \in QuietJobs PROVE rows = [k \in DOMAIN rows |-> rows[k]]
BY DEF TellInv, Fit, IsTable, QuietJobs

LEMMA UpsertsQuiet ==
  ASSUME TellInv, QuietInv, job \in QuietJobs, Upserts PROVE QuietInv' /\ NothingAgain
<1>1. /\ job \in QuietJobs \ {"usamw_events"} /\ job \notin Sch!Jobs
      /\ job \notin {"iwf", "usamw_events"} /\ job \notin Wso!Jobs
      /\ pc = "write" /\ pc' = "notify" /\ UNCHANGED <<job, source, payload, last>>
      /\ job \in Steady => hitch' = hitch
  BY DEF Upserts, Sch!Jobs, Wso!Jobs, Wso!TabJobs, Wso!FlatJobs, Wso!PdfJobs
<1>2. RecordsRead /\ (job \in Steady => ~hitch)
  BY <1>1 DEF QuietInv, ReadRight
<1>3. PICK keys \in SUBSET DOMAIN payload :
        rows' = WithRows(rows, keys, payload) /\ (~hitch' => ~hitch /\ keys = DOMAIN payload)
  BY DEF Upserts
<1>4. ASSUME Holds(job, rows, source) PROVE rows' = rows
  <2>1. PICK p \in Readings(job, source) : PartOf(payload, p)
    BY <1>1, <1>2 DEF RecordsRead
  <2>2. Has(job, rows, p)
    BY <1>1, <1>4, <2>1, RecordsHold
  <2>3. keys \subseteq DOMAIN rows /\ \A k \in keys : rows[k] = OneRow(payload[k])
    BY <2>1, <2>2 DEF Has, PartOf
  <2> QED BY <1>3, <2>3, TableFcn, RewriteHeld
<1>5. ASSUME ~hitch' PROVE Holds(job, rows', source)
  <2>1. payload \in Readings(job, source) /\ rows' = WithRows(rows, DOMAIN payload, payload)
    BY <1>2, <1>3, <1>5 DEF RecordsRead
  <2>2. Has(job, rows', payload)
    BY <1>1, <2>1 DEF Has, WithRows, OneRow
  <2>3. \A p \in Readings(job, source) : p = payload
    BY <1>1, <2>1, OnlyReading
  <2> QED BY <1>1, <2>2, <2>3, RecordsHold
<1>6. Excused => Excused'
  BY <1>1 DEF Excused
<1> QED BY <1>1, <1>2, <1>4, <1>5, <1>6, QuietWrite

LEMMA ReplacesQuiet ==
  ASSUME TellInv, QuietInv, job \in {"iwf"} \union Wso!Jobs, job \in QuietJobs, Replaces
  PROVE  /\ Holds(job, rows, source) /\ ~hitch => rows' = rows
         /\ ~hitch => Holds(job, rows', source)
<1>1. job \in QuietJobs \ {"usamw_events"} /\ job \notin Sch!Jobs /\ job # "usamw_events"
  BY DEF Sch!Jobs, Wso!Jobs, Wso!TabJobs, Wso!FlatJobs, Wso!PdfJobs
<1>2. ~hitch => payload \in Readings(job, source)
  BY <1>1 DEF QuietInv, ReadRight, RecordsRead, Replaces
<1>3. rows' = WithRows([k \in DOMAIN rows |-> <<>>], DOMAIN payload, payload)
  BY DEF Replaces
<1>4. ASSUME Holds(job, rows, source), ~hitch PROVE rows' = rows
  <2>1. Has(job, rows, payload)
    BY <1>1, <1>2, <1>4, RecordsHold
  <2>2. /\ DOMAIN payload \subseteq DOMAIN rows
        /\ \A k \in DOMAIN payload : rows[k] = OneRow(payload[k])
        /\ \A k \in DOMAIN rows \ DOMAIN payload : rows[k] = <<>>
    BY <2>1 DEF Has
  <2> QED BY <1>3, <2>2, TableFcn, WholeHeld
<1>5. ASSUME ~hitch PROVE Holds(job, rows', source)
  <2>1. Has(job, rows', payload)
    BY <1>3 DEF Has, WithRows, OneRow
  <2>2. \A p \in Readings(job, source) : p = payload
    BY <1>1, <1>2, <1>5, OnlyReading
  <2> QED BY <1>1, <2>1, <2>2, RecordsHold
<1> QED BY <1>4, <1>5

LEMMA ComparesQuiet ==
  ASSUME TellInv, QuietInv, job \in QuietJobs, Compares PROVE QuietInv' /\ NothingAgain
<1>1. job = "iwf" /\ job \notin Steady
  BY DEF Compares, Steady, Std!Jobs, Wso!Jobs, Wso!TabJobs, Wso!FlatJobs, Wso!PdfJobs
<1>2. /\ pc = "write" /\ pc' = "notify" /\ UNCHANGED <<job, source, last>>
      /\ ~hitch' => Replaces /\ ~hitch
  BY DEF Compares, Replaces
<1>3. (Excused => Excused') /\ (~Excused' => ~hitch')
  BY <1>1, <1>2 DEF Excused
<1>4. Holds(job, rows, source) /\ ~Excused' => rows' = rows
  BY <1>1, <1>2, <1>3, ReplacesQuiet
<1>5. ~hitch' => Holds(job, rows', source)
  BY <1>1, <1>2, ReplacesQuiet
<1> QED BY <1>1, <1>2, <1>3, <1>4, <1>5, QuietWrite

LEMMA SyncsQuiet ==
  ASSUME TellInv, QuietInv, job \in QuietJobs, Syncs PROVE QuietInv' /\ NothingAgain
<1>1. /\ job \in Wso!Jobs /\ job \in Steady /\ job \notin {"iwf", "usamw_events"} /\ Replaces
      /\ job \notin Sch!Jobs /\ hitch' = hitch
  BY DEF Syncs, Steady, Sch!Jobs, Wso!Jobs, Wso!TabJobs, Wso!FlatJobs, Wso!PdfJobs
<1>2. pc = "write" /\ pc' = "notify" /\ UNCHANGED <<job, source, last>>
  BY <1>1 DEF Replaces
<1>3. ~hitch
  BY <1>1, <1>2 DEF QuietInv
<1>4. Excused => Excused'
  BY <1>1 DEF Excused
<1> QED BY <1>1, <1>2, <1>3, <1>4, ReplacesQuiet, QuietWrite

\* The same events, upserted again, change nothing: a completed meet stays so.
LEMMA UpsertedTwice ==
  ASSUME NEW t, NEW found, NEW good
  PROVE  Ev!Upserted(Ev!Upserted(t, found, good), found, good) = Ev!Upserted(t, found, good)
<1> DEFINE names == {found[i].name : i \in good}
           LastOf(m) == CHOOSE i \in good : /\ found[i].name = m
                                           /\ \A j \in good : found[j].name = m => j <= i
           Status(old) == IF old # <<>> /\ old[1].status = "completed" THEN "completed" ELSE "upcoming"
           X(u, m) == Ev!Meet(found[LastOf(m)].event, Status(Ev!Held(u, m)))
           new == Ev!Upserted(t, found, good)
<1>1. \A u : Ev!Upserted(u, found, good) =
                [m \in DOMAIN u \union names |-> IF m \in names THEN OneRow(X(u, m)) ELSE u[m]]
  BY DEF Ev!Upserted, OneRow
<1> HIDE DEF X, names
<1>2. new = [m \in DOMAIN t \union names |-> IF m \in names THEN OneRow(X(t, m)) ELSE t[m]]
  BY <1>1 DEF new
<1> HIDE DEF new
<1>3. ASSUME NEW m \in names PROVE X(new, m) = X(t, m)
  <2> DEFINE old == Ev!Held(t, m)
             x == X(t, m)
  <2>1. Ev!Held(new, m) = OneRow(x)
    BY <1>2 DEF Ev!Held
  <2>2. x.status = Status(old)
    BY DEF X, Ev!Meet
  <2> HIDE DEF x, old
  <2>3. OneRow(x) # <<>> /\ OneRow(x)[1] = x
    BY RowCell
  <2>4. Status(OneRow(x)) = Status(old)
    BY <2>2, <2>3
  <2> HIDE DEF Status
  <2> QED BY <2>1, <2>4 DEF X, x, old
<1>4. /\ DOMAIN new = DOMAIN t \union names
      /\ \A m \in DOMAIN t \ names : new[m] = t[m]
  BY <1>2
<1>5. Ev!Upserted(new, found, good)
        = [m \in DOMAIN new \union names |-> IF m \in names THEN OneRow(X(new, m)) ELSE new[m]]
  BY <1>1
<1>6. Ev!Upserted(new, found, good)
        = [m \in DOMAIN t \union names |-> IF m \in names THEN OneRow(X(t, m)) ELSE t[m]]
  BY <1>3, <1>4, <1>5
<1> QED BY <1>2, <1>6 DEF new

LEMMA EventsQuiet ==
  ASSUME QuietInv, job \in QuietJobs, AddsEvents PROVE QuietInv' /\ NothingAgain
<1>1. /\ job = "usamw_events" /\ job \notin Steady
      /\ pc = "write" /\ pc' = "notify" /\ UNCHANGED <<job, source, last>>
  BY DEF AddsEvents, Steady, Std!Jobs, Wso!Jobs, Wso!TabJobs, Wso!FlatJobs, Wso!PdfJobs
<1>2. todo = EventsIn(source)
  BY <1>1 DEF QuietInv, ReadRight, EventsRead, EventsIn
<1>3. ~hitch' => rows' = Ev!Upserted(rows, EventsIn(source), DOMAIN EventsIn(source))
  BY <1>2 DEF AddsEvents
<1>4. Holds(job, rows, source) /\ ~Excused' => rows' = rows
  BY <1>1, <1>3 DEF Holds, Excused
<1>5. ~hitch' => Holds(job, rows', source)
  BY <1>1, <1>3, UpsertedTwice DEF Holds
<1>6. ~Excused
  BY <1>1 DEF QuietInv, Excused
<1> QED BY <1>1, <1>4, <1>5, <1>6, QuietWrite

LEMMA ConcludesQuiet ==
  ASSUME QuietInv, job \in QuietJobs, Concludes PROVE QuietInv' /\ NothingAgain
<1>1. /\ pc = "notify" /\ pc' = "idle" /\ UNCHANGED <<job, source, rows>>
      /\ last' = {} \/ (last' = {source} /\ (~hitch \/ job \in Steady))
  BY DEF Concludes
<1>2. last' # {} => Holds(job, rows, source)
  BY <1>1 DEF QuietInv
<1> QED BY <1>1, <1>2 DEF QuietInv, NothingAgain

LEMMA FrameQuiet ==
  ASSUME QuietInv, job \in QuietJobs \union Sch!Jobs,
         SiteChanges(Some) \/ Start \/ GivesUp \/ (job \in QuietJobs /\ Reads) \/ UNCHANGED jobVars
  PROVE  QuietInv' /\ NothingAgain
<1>1. job' = job /\ rows' = rows
  BY DEF SiteChanges, Start, GivesUp, Reads, jobVars
<1>2. NothingAgain
  BY <1>1 DEF NothingAgain
<1>3. CASE UNCHANGED jobVars
  BY <1>1, <1>2, <1>3 DEF QuietInv, Excused, ReadRight, RecordsRead, EventsRead, jobVars, work
<1>4. CASE SiteChanges(Some)
  BY <1>1, <1>2, <1>4 DEF QuietInv, SiteChanges
<1>5. CASE Start
  BY <1>1, <1>2, <1>5 DEF QuietInv, Start
<1>6. CASE GivesUp
  BY <1>1, <1>2, <1>6 DEF QuietInv, GivesUp
<1>7. CASE job \in QuietJobs /\ Reads
  <2>1. ~hitch /\ pc = "scrape" /\ pc' = "write" /\ last' = last /\ source' = source
    BY <1>7 DEF QuietInv, Reads
  <2>2. \A s \in last : Holds(job, rows, s) \/ source # s
    BY <2>1 DEF QuietInv, Excused
  <2>3. ReadRight'
    <3>1. job \notin Sch!Jobs /\ job # "bwl"
      BY <1>7 DEF Sch!Jobs, QuietJobs, TellJobs, TruthJobs, Rec!Jobs, Std!Jobs, Wso!Jobs,
         Wso!TabJobs, Wso!FlatJobs, Wso!PdfJobs
    <3> QED BY <1>1, <1>7, <3>1 DEF Reads, ReadRight
  <2> QED BY <1>1, <1>2, <1>7, <2>1, <2>2, <2>3 DEF QuietInv, Reads
<1> QED BY <1>3, <1>4, <1>5, <1>6, <1>7

\* The slots of a schedule, written again, change nothing.
LEMMA StoredTwice ==
  ASSUME NEW t, NEW slots
  PROVE  Sch!Stored(Sch!Stored(t, slots), slots) = Sch!Stored(t, slots)
<1> DEFINE keys == {Sch!Key(slot) : slot \in slots}
           LastOf(k) == CHOOSE slot \in slots : /\ Sch!Key(slot) = k
                                               /\ \A s \in slots : Sch!Key(s) = k => s.date <= slot.date
           X(k) == <<[date |-> LastOf(k).date, time |-> LastOf(k).time]>>
           new == Sch!Stored(t, slots)
<1>1. \A u : Sch!Stored(u, slots) =
                [k \in DOMAIN u \union keys |-> IF k \in keys THEN X(k) ELSE u[k]]
  BY DEF Sch!Stored
<1> HIDE DEF X, keys
<1>2. new = [k \in DOMAIN t \union keys |-> IF k \in keys THEN X(k) ELSE t[k]]
  BY <1>1 DEF new
<1> HIDE DEF new
<1>3. Sch!Stored(new, slots) = [k \in DOMAIN new \union keys |-> IF k \in keys THEN X(k) ELSE new[k]]
  BY <1>1
<1> QED BY <1>2, <1>3 DEF new

LEMMA ScheduledTwice ==
  ASSUME NEW j \in Sch!Jobs, NEW t, NEW s
  PROVE  Holds(j, Scheduled(j, t, SlotsIn(j, s)), s)
<1> DEFINE slots == SlotsIn(j, s)
<1> HIDE DEF slots
<1>1. Scheduled(j, Scheduled(j, t, slots), slots) = Scheduled(j, t, slots)
  BY StoredTwice DEF Scheduled
<1>2. j # "usamw_events"
  BY DEF Sch!Jobs
<1> QED BY <1>1, <1>2 DEF Holds, slots

LEMMA ScheduleKinds ==
  ASSUME Next, job \in Sch!Jobs
  PROVE  SiteChanges(Some) \/ OtherJob(Sch!Jobs) \/ Start \/ GivesUp \/ Sch!Step
<1> USE DEF Sch!Jobs
<1>1. ~(Rec!Step \/ Std!Step)
  BY DEF Rec!Step, Rec!UsawScrape, Rec!MastersScrape, Rec!UmwfScrape, Rec!UsamwScrape,
     Rec!BwlScrape, Rec!IwfScrape, Rec!WriteAll, Rec!WriteEach, Rec!BwlWrite, Rec!BwlStops,
     Rec!IwfReplace, Rec!Report, Rec!Jobs, Std!Step, Std!StandardsScrape, Std!UsamwQtScrape,
     Std!UsawQtScrape, Std!WriteSet, Std!UsawQtWrite, Std!UsawQtDone, Std!StandardsReport,
     Std!UsamwQtDone
<1>2. ~(Wso!Step \/ Ev!Step)
  BY DEF Wso!Step, Wso!WsoScrape, Wso!WsoSync, Wso!SilentEnd, Wso!RaisingEnd, Wso!LoggingEnd,
     Wso!Jobs, Wso!TabJobs, Wso!FlatJobs, Wso!PdfJobs, Ev!Step, Ev!EventsScrape, Ev!EventsWrite,
     Ev!NotionRead, Ev!CalendarRead, Ev!NotionAdd, Ev!NotionDone, Ev!EventsReport
<1>3. ~(Rank!Step \/ Res!Step \/ Ath!Step \/ OtherJob(Ath!Jobs))
  BY DEF Rank!Step, Rank!RankingsScrape, Rank!RankingsPdf, Rank!RankingsPrune,
     Rank!RankingsReport, Rank!Jobs, Res!Step, Res!IndexRead, Res!PassOver, Res!MeetResults,
     Res!ImportCheck, Res!ImportMeet, Res!ResultsReport, Res!Jobs, Ath!Step, Ath!EntriesScrape,
     Ath!EntryLookup, Ath!EntryUpsert, Ath!EntriesCommit, Ath!Goes, Ath!Writing, Ath!AssignScrape,
     Ath!AssignWrite, Ath!AssignsMeanwhile, Ath!DedupePlan, Ath!DedupeApply, Ath!Jobs, OtherJob
<1>4. CASE Dies
  BY <1>4 DEF Dies, Quits, Ends, work, GivesUp
<1> QED BY <1>1, <1>2, <1>3, <1>4 DEF Next

LEMMA ScheduleQuiet ==
  ASSUME QuietInv, job \in Sch!Jobs, Sch!Step PROVE QuietInv' /\ NothingAgain
<1>0. /\ job \notin QuietJobs /\ job \notin Steady /\ job \notin {"iwf", "usamw_events"}
      /\ pc \in {"scrape", "write"}
  BY DEF Sch!Step, Sch!ScheduleScrape, Sch!ScheduleWrite, Sch!PrelimScrape, Sch!PrelimWrite,
     Sch!Jobs, Steady, QuietJobs, TellJobs, TruthJobs, Rec!Jobs, Std!Jobs, Wso!Jobs,
     Wso!TabJobs, Wso!FlatJobs, Wso!PdfJobs
<1>1. CASE pc' = "idle" /\ last' = {} /\ UNCHANGED <<job, rows>>
  BY <1>1 DEF QuietInv, NothingAgain
<1>2. CASE /\ pc = "scrape" /\ pc' = "write" /\ payload' = SlotsIn(job, source)
           /\ UNCHANGED <<job, source, rows, hitch, last>>
  <2>1. ReadRight'
    BY <1>0, <1>2 DEF ReadRight
  <2>2. \A s \in last : Holds(job, rows, s) \/ source # s
    BY <1>0, <1>2 DEF QuietInv, Excused
  <2> QED BY <1>0, <1>2, <2>1, <2>2 DEF QuietInv, NothingAgain
<1>3. CASE /\ pc = "write" /\ pc' = "idle" /\ rows' = Scheduled(job, rows, payload)
           /\ last' \in {{}, {source}} /\ UNCHANGED <<job, source, payload>>
  <2>1. payload = SlotsIn(job, source)
    BY <1>0, <1>3 DEF QuietInv, ReadRight
  <2>2. Holds(job, rows', source)
    BY <1>3, <2>1, ScheduledTwice
  <2>3. last = {source} => Holds(job, rows, source)
    BY <1>0, <1>3 DEF QuietInv, Excused
  <2>4. Holds(job, rows, source) => rows' = rows
    BY <1>0, <1>3, <2>1 DEF Holds
  <2> QED BY <1>3, <2>2, <2>3, <2>4 DEF QuietInv, NothingAgain
<1>4. CASE Sch!ScheduleScrape \/ Sch!PrelimScrape
  BY <1>1, <1>2, <1>4 DEF Sch!ScheduleScrape, Sch!PrelimScrape, Sch!RequestFails, Sch!Quits,
     Sch!Ends, SlotsIn
<1>5. CASE Sch!ScheduleWrite \/ Sch!PrelimWrite
  BY <1>1, <1>3, <1>5 DEF Sch!ScheduleWrite, Sch!PrelimWrite, Sch!Quits, Sch!Ends, Sch!work,
     Sch!Nothing, Nothing, Scheduled
<1> QED BY <1>4, <1>5 DEF Sch!Step

LEMMA OtherJobQuiet ==
  ASSUME OtherJob(Sch!Jobs) \/ OtherJob(Ath!Jobs) PROVE QuietInv'
BY DEF OtherJob, QuietInv

LEMMA OneJob ==
  ASSUME Next PROVE job' = job \/ OtherJob(Sch!Jobs) \/ OtherJob(Ath!Jobs)
<1>1. CASE Rec!Step \/ Std!Step \/ Wso!Step \/ Ev!Step \/ Res!Step \/ Sch!Step \/ Ath!Step
  BY <1>1, OthersElse
<1>2. CASE Rank!Step
  BY <1>2 DEF Rank!Step, Rank!RankingsScrape, Rank!RankingsPdf, Rank!RankingsPrune,
     Rank!RankingsReport, Rank!Quits, Rank!Ends
<1>3. CASE SiteChanges(Some) \/ Start \/ Dies
  BY <1>3 DEF SiteChanges, Start, Dies, Quits, Ends
<1> QED BY <1>1, <1>2, <1>3 DEF Next

LEMMA QuietSteps ==
  ASSUME TellInv, QuietInv, [Next]_jobVars
  PROVE  QuietInv' /\ (job \in QuietJobs \union Sch!Jobs => NothingAgain)
<1>1. CASE UNCHANGED jobVars
  <2>1. job \in QuietJobs \union Sch!Jobs => QuietInv' /\ NothingAgain
    BY <1>1, FrameQuiet
  <2>2. job \notin QuietJobs \union Sch!Jobs => QuietInv'
    BY <1>1 DEF QuietInv, jobVars
  <2> QED BY <2>1, <2>2
<1>2. CASE Next /\ job \in QuietJobs
  <2>1. job \in TellJobs /\ ~(Rec!BwlWrite \/ Rec!BwlStops)
    BY <1>2 DEF QuietJobs, Rec!BwlWrite, Rec!BwlStops
  <2> QED BY <1>2, <2>1, TellKinds, FrameQuiet, UpsertsQuiet, ComparesQuiet, SyncsQuiet,
             EventsQuiet, ConcludesQuiet
<1>3. CASE Next /\ job \in Sch!Jobs
  <2>1. CASE OtherJob(Sch!Jobs)
    BY <2>1, OtherJobQuiet DEF OtherJob, NothingAgain
  <2> QED BY <1>3, <2>1, ScheduleKinds, FrameQuiet, ScheduleQuiet
<1>4. CASE Next /\ job \notin QuietJobs \union Sch!Jobs
  <2>1. CASE job' = job
    BY <1>4, <2>1 DEF QuietInv
  <2> QED BY <1>4, <2>1, OneJob, OtherJobQuiet
<1> QED BY <1>1, <1>2, <1>3, <1>4

LEMMA QuietBegins == Init => QuietInv
BY DEF Init, FrameInit, QuietInv

LEMMA SpecQuietInv == Spec => []QuietInv
<1>1. TellInv /\ QuietInv /\ [Next]_jobVars => QuietInv'
  BY QuietSteps
<1> QED BY <1>1, QuietBegins, SpecTellInv, PTL DEF Spec

\* A run over a site that the run before it stored completely writes nothing, whichever
\* site, table and payload: so of every job that takes the rows of a table one by one,
\* of the schedules and of the masters' events.  Left to the runs are the rankings, the
\* results, the athletes, the American qualifying totals and the calendar.
THEOREM RerunWritesNothing ==
  Spec => [][job \notin Rank!Jobs \union Res!Jobs \union Ath!Jobs \union {"usaw_qt", "usaw_meets"}
             => WritesNothingAgain]_jobVars
<1> DEFINE Left == Rank!Jobs \union Res!Jobs \union Ath!Jobs \union {"usaw_qt", "usaw_meets"}
<1>1. TellInv /\ QuietInv /\ JobIsOne /\ [Next]_jobVars
        => [job \notin Left => WritesNothingAgain]_jobVars
  <2> SUFFICES ASSUME TellInv, QuietInv, job \in AllJobs, [Next]_jobVars, job \notin Left,
                      job # "bwl", last = {source},
                      job \in {"iwf", "usamw_events"} => ~hitch'
               PROVE  rows' = rows
    BY DEF WritesNothingAgain, JobIsOne
  <2>1. job \in QuietJobs \union Sch!Jobs
    BY DEF AllJobs, QuietJobs, TellJobs, TruthJobs, Ev!Jobs, Std!Jobs
  <2> QED BY <2>1, QuietSteps DEF NothingAgain
<1> HIDE DEF Left
<1> QED BY <1>1, SpecTellInv, SpecQuietInv, JobIsKnown, PTL DEF Spec, Left
===============================================================================
