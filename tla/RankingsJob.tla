----------------------------- MODULE RankingsJob -----------------------------
(***************************************************************************)
(* The scraper of the international rankings: every PDF linked from the     *)
(* standings page replaces the rows of its group (meet, gender, age         *)
(* category) in a transaction of its own; when all of them succeeded, the   *)
(* groups that no PDF named are pruned.  With one URL it only replaces.     *)
(***************************************************************************)
EXTENDS JobFrame, FiniteSetsExt

CONSTANTS Groups, Entries          \* an entry is a place and a name

Keys == Groups \X Entries
Jobs == {"rankings", "one_ranking"}
Unreadable == "unreadable"

\* The rows below the first header line and above the first line that looks
\* like the table of standards (a line of digits alone does).
TableLines(lines) ==
    LET headers == {i \in DOMAIN lines : lines[i].kind = "header"}
        below == IF headers = {} THEN {} ELSE (Min(headers) + 1)..Len(lines)
    IN {i \in below : /\ lines[i].kind = "row"
                      /\ \A j \in below : j < i => lines[j].kind # "standards"}

\* A slip: a table without a row is taken for an empty group.
ReplaceableByNone(pdf) ==
    /\ pdf.group # Unreadable
    /\ \A i, j \in TableLines(pdf.lines) : pdf.lines[i].entry = pdf.lines[j].entry => i = j

\* A payload that the replace accepts: of a known group, not empty, and with
\* no key twice.
Replaceable(pdf) ==
    LET table == TableLines(pdf.lines) IN
    /\ pdf.group # Unreadable
    /\ table # {}
    /\ \A i, j \in table : pdf.lines[i].entry = pdf.lines[j].entry => i = j

\* A slip: rows of the group that the PDF no longer lists are kept.
Added(pdf) ==
    LET Listed(k) == {i \in TableLines(pdf.lines) : pdf.lines[i].entry = k[2]} IN
    [k \in DOMAIN rows |->
        IF k[1] # pdf.group \/ Listed(k) = {} THEN rows[k]
        ELSE <<pdf.lines[CHOOSE i \in Listed(k) : TRUE].total>>]

\* The group holds exactly what the PDF lists.
Replaced(pdf) ==
    LET Listed(k) == {i \in TableLines(pdf.lines) : pdf.lines[i].entry = k[2]} IN
    [k \in DOMAIN rows |->
        IF k[1] # pdf.group THEN rows[k]
        ELSE IF Listed(k) = {} THEN <<>>
        ELSE <<pdf.lines[CHOOSE i \in Listed(k) : TRUE].total>>]

RankingsScrape ==
    /\ pc = "scrape" /\ job \in Jobs
    /\ \/ /\ job = "one_ranking" \/ source # <<>>
          /\ payload' = {}                       \* the groups that are active
          /\ todo' = IF job = "rankings" THEN source ELSE <<source[1]>>
          /\ pc' = "write"
          /\ UNCHANGED <<job, source, rows, tally, hitch, before, last, said, lost, exit, left>>
       \/ /\ job = "rankings"                    \* no page, or no link on it
          /\ hitch' = TRUE /\ Quits("failed")

RankingsPdf ==
    /\ pc = "write" /\ job \in Jobs /\ todo # <<>>
    /\ todo' = Tail(todo)
    /\ \/ /\ hitch' = TRUE                       \* download, text or database failed
          /\ UNCHANGED <<rows, payload, tally>>
       \/ /\ Replaceable(Head(todo))
          /\ rows' = Replaced(Head(todo))
          /\ payload' = payload \union {Head(todo).group}
          /\ tally' = [inserted |-> tally.inserted \union
                            {k \in DOMAIN rows : rows[k] = <<>> /\ rows'[k] # <<>>},
                       updated |-> tally.updated \union
                            {k \in DOMAIN rows : <<>> \notin {rows[k], rows'[k]} /\ rows'[k] # rows[k]},
                       deleted |-> tally.deleted \union
                            {k \in DOMAIN rows : rows[k] # <<>> /\ rows'[k] = <<>>}]
          /\ UNCHANGED hitch
    /\ UNCHANGED <<job, source, pc, before, last, said, lost, exit, left>>

\* Deletes the groups no PDF named, unless a PDF failed.  Its own failure is
\* logged and leaves the exit status alone.
RankingsPrune ==
    /\ pc = "write" /\ job \in Jobs /\ todo = <<>>
    /\ LET stale == {k \in DOMAIN rows : k[1] \notin payload /\ rows[k] # <<>>} IN
       IF job = "one_ranking" \/ hitch
       THEN pc' = "notify" /\ UNCHANGED <<rows, tally>>
       ELSE \/ pc' = "notify_stale" /\ UNCHANGED <<rows, tally>>
            \/ /\ pc' = "notify"
               /\ rows' = [k \in DOMAIN rows |-> IF k \in stale THEN <<>> ELSE rows[k]]
               /\ tally' = [tally EXCEPT !.deleted = @ \union stale]
    /\ UNCHANGED <<job, source, payload, todo, hitch, before, last, said, lost, exit, left>>

RankingsReport ==
    /\ pc \in {"notify", "notify_stale"} /\ job \in Jobs
    /\ Posts
    /\ Ends(IF hitch THEN "failed" ELSE "ok",
            ~hitch /\ (pc = "notify_stale" => job = "one_ranking"))
    /\ UNCHANGED <<rows, hitch>>

Step == RankingsScrape \/ RankingsPdf \/ RankingsPrune \/ RankingsReport

(***************************************************************************)
(* Properties                                                              *)
(***************************************************************************)
ListedGroups == {pdf.group : pdf \in ToSet(source)}
Empty(g) == \A e \in Entries : rows[<<g, e>>] = <<>>

\* A group that the page lists never loses its last row, whatever fails.
ListedGroupsStay ==
    job \in Jobs =>
        \A g \in Groups \intersect ListedGroups : ~Empty(g) => ~Empty(g)'

\* After a run that exits with success the entries stored of each listed group are
\* those of its last PDF, whatever totals they are stored with; of other groups, none.
StoredAsListed ==
    job = "rankings" /\ exit = "ok" /\ last = {source} =>
        \A g \in Groups :
            LET pdfs == {i \in DOMAIN source : source[i].group = g} IN
            IF pdfs = {} THEN Empty(g)
            ELSE LET pdf == source[Max(pdfs)] IN
                 \A e \in Entries :
                    rows[<<g, e>>] # <<>> <=>
                        \E i \in TableLines(pdf.lines) : pdf.lines[i].entry = e
=============================================================================
