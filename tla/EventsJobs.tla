----------------------------- MODULE EventsJobs -----------------------------
(***************************************************************************)
(* The two scrapers of lists of meets.                                      *)
(*   usamw_events  the page of the masters' events, whose lines are read for *)
(*                 names with a date, place and venue below; written to meets *)
(*   usaw_meets    the calendar of Sport80, page by page in a browser; meets  *)
(*                 not yet there are added to a Notion database               *)
(***************************************************************************)
EXTENDS JobFrame, FiniteSetsExt

CONSTANTS
    Meets,          \* names of meets
    Accepted,       \* those that pass for the name of a masters event
    LookAhead,      \* lines below a name that are searched
    MaxPages        \* max_pages

Keys == Meets
Jobs == {"usamw_events", "usaw_meets"}
Blank == "blank"
Unreadable == "unreadable"

(***************************************************************************)
(* usamw_events.  A line has a kind and a text.                             *)
(***************************************************************************)
NoEvent == [date |-> Blank, place |-> Blank, venue |-> Blank]

\* What the lines below a name add up to: the first date, the last place with
\* the word Location (whose place may be on the line below it) or else the
\* first one above the date, and the first venue.
Below(lines, i) ==
    LET Line(event, j) ==
          LET line == lines[j]
              next == IF j = Len(lines) THEN [kind |-> "date", text |-> Blank] ELSE lines[j + 1]
              set(old, new) == IF old = Blank THEN new ELSE old
          IN CASE line.kind = "date" -> [event EXCEPT !.date = set(@, line.text)]
               [] line.kind = "location" /\ line.text # Blank -> [event EXCEPT !.place = line.text]
               [] line.kind = "location" /\ line.text = Blank ->
                     IF next.kind = "date" THEN event ELSE [event EXCEPT !.place = next.text]
               [] line.kind = "place" /\ event.date = Blank -> [event EXCEPT !.place = set(@, line.text)]
               [] line.kind = "venue" -> [event EXCEPT !.venue = set(@, line.text)]
               [] OTHER -> event
    IN FoldLeft(Line, NoEvent, [n \in 1..(Min({i + LookAhead, Len(lines)}) - i) |-> i + n])

\* The events with a date, the first of those alike in name, date and place.
EventsOf(lines) ==
    LET Name(found, i) ==
          LET event == [Below(lines, i) EXCEPT !.venue = IF @ = Blank THEN lines[i].text ELSE @]
              name == lines[i].text
          IN IF \/ lines[i].kind # "name" \/ name \notin Accepted \/ event.date = Blank
                \/ \E k \in DOMAIN found : /\ found[k].name = name
                                           /\ found[k].event.date = event.date
                                           /\ found[k].event.place = event.place
             THEN found ELSE Append(found, [name |-> name, event |-> event])
    IN FoldLeftDomain(Name, <<>>, lines)

\* Dates that do not parse are left out.
Transformed(found) == SelectSeq(found, LAMBDA e : e.event.date # Unreadable)

\* upsert_meet of one row after the other, but for the bad ones: keyed by the
\* name, the last row of a name stays, and completed stays completed.
Meet(event, status) ==
    [date |-> event.date, place |-> event.place, venue |-> event.venue, status |-> status]

Upserted(table, found, good) ==
    LET names == {found[i].name : i \in good}
        LastOf(m) == CHOOSE i \in good : /\ found[i].name = m
                                        /\ \A j \in good : found[j].name = m => j <= i
        Status(old) == IF old # <<>> /\ old[1].status = "completed" THEN "completed" ELSE "upcoming"
    IN [m \in DOMAIN table \union names |->
            IF m \in names THEN <<Meet(found[LastOf(m)].event, Status(Held(table, m)))>>
            ELSE table[m]]

EventsScrape ==
    /\ pc = "scrape" /\ job = "usamw_events"
    /\ LET found == Transformed(EventsOf(source)) IN
       \/ RequestFails("ok")
       \/ found = <<>> /\ UNCHANGED hitch /\ Quits("ok")
       \/ /\ found # <<>>
          /\ pc' = "write" /\ todo' = found
          /\ payload' = FoldLeft(LAMBDA all, e : (e.name :> e.event) @@ all, Nothing, found)
          /\ UNCHANGED <<job, source, rows, tally, hitch, before, last, said, lost, exit, left>>

\* A failing row is undone alone; without a connection none is written.
EventsWrite ==
    /\ pc = "write" /\ job = "usamw_events"
    /\ \E bad \in OneFails(DOMAIN todo) \union {DOMAIN todo} :
          LET good == {i \in DOMAIN todo : i \notin bad} IN
          /\ rows' = Upserted(rows, todo, good)
          /\ tally' = [NoTally EXCEPT !.inserted =
                          {m \in {todo[i].name : i \in good} : Held(rows, m) = <<>>}]
          /\ hitch' = (bad # {})
    /\ pc' = "notify"
    /\ UNCHANGED <<job, source, payload, todo, before, last, said, lost, exit, left>>

(***************************************************************************)
(* usaw_meets.  A page is a list of cards.                                  *)
(***************************************************************************)
Wanted(card) == card.name \in Meets /\ ~card.qualifier /\ ~card.past

\* The names in the Notion database.  When they cannot be read there are none.
NotionRead ==
    /\ pc = "scrape" /\ job = "usaw_meets"
    /\ \E answered \in BOOLEAN :
          /\ payload' = IF answered THEN {m \in Meets : rows[m] # <<>>} ELSE {}
          /\ hitch' = ~answered
    /\ pc' = "calendar"
    /\ UNCHANGED <<job, source, rows, todo, tally, before, last, said, lost, exit, left>>

\* A page that does not come ends the listing; a meet with no button to its own
\* page is left out; an error ends the search with the meets found so far.
CalendarRead ==
    /\ pc = "calendar" /\ job = "usaw_meets"
    /\ \E n \in 0..Min({MaxPages, Len(source)}) :
          LET cards == FlattenSeq(SubSeq(source, 1, n))
              meets == SelectSeq(cards, LAMBDA c : Wanted(c) /\ c.button)
          IN \E k \in 0..Len(meets) :
                /\ todo' = SubSeq(meets, 1, k)
                /\ hitch' = (hitch \/ n < Len(source) \/ k < Len(meets))
    /\ pc' = "write"
    /\ UNCHANGED <<job, source, rows, payload, tally, before, last, said, lost, exit, left>>

\* A page that was added counts as existing for the rest of the run.
NotionAdd ==
    /\ pc = "write" /\ job = "usaw_meets" /\ todo # <<>>
    /\ LET m == Head(todo).name IN
       \/ m \in payload /\ UNCHANGED <<rows, payload, tally, hitch>>
       \/ /\ m \notin payload
          /\ rows' = [rows EXCEPT ![m] = Append(@, "added")]
          /\ payload' = payload \union {m}
          /\ tally' = [tally EXCEPT !.inserted = @ \union {m}]
          /\ UNCHANGED hitch
       \/ m \notin payload /\ hitch' = TRUE /\ UNCHANGED <<rows, payload, tally>>
    /\ todo' = Tail(todo)
    /\ UNCHANGED <<job, source, pc, before, last, said, lost, exit, left>>

NotionDone ==
    /\ pc = "write" /\ job = "usaw_meets" /\ todo = <<>>
    /\ Ends("ok", ~hitch)
    /\ UNCHANGED <<rows, hitch, said, lost>>

EventsReport ==
    /\ pc = "notify" /\ job = "usamw_events"
    /\ Posts
    /\ Ends("ok", ~hitch)
    /\ UNCHANGED <<rows, hitch>>

Step == EventsScrape \/ EventsWrite \/ NotionRead \/ CalendarRead \/ NotionAdd \/ NotionDone \/ EventsReport
=============================================================================
