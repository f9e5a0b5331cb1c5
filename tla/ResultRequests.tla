---------------------------- MODULE ResultRequests ----------------------------
(***************************************************************************)
(* The /usamw-results hand-over.  The API drops one file per request, named *)
(* after the request, so that Slack's repetition of it names the same file; *)
(* the job `usamw_results.py --requested' takes the files in order of their *)
(* names, imports each in one transaction and moves it to done/, or to      *)
(* failed/ when anything raises.                                            *)
(***************************************************************************)
EXTENDS Naturals, FiniteSetsExt

CONSTANTS
    Names,      \* names of request files, numbered as they sort
    MaxMishaps  \* bound: how often the job is killed or cannot move a file

VARIABLES
    queue,      \* files that await the job
    done,       \* files in done/
    failed,     \* files in failed/
    step,       \* step of the job
    listing,    \* files it has still to take, from the listing at its start
    mishaps,    \* how often it was killed or could not move a file
    imported,   \* history: requests whose rows were committed
    owed        \* history: requests made, or cut short, since they were imported

vars == <<queue, done, failed, step, listing, mishaps, imported, owed>>

Steps == {"idle", "next", "imported", "raised"}

Init ==
    /\ queue = {} /\ done = {} /\ failed = {}
    /\ step = "idle" /\ listing = {} /\ mishaps = 0
    /\ imported = {} /\ owed = {}

\* The command, or a repetition of it: a file that is still there is replaced by
\* the same request; one that has been moved is back.
Command(f) ==
    /\ queue' = queue \cup {f} /\ owed' = owed \cup {f}
    /\ UNCHANGED <<done, failed, step, listing, mishaps, imported>>

-----------------------------------------------------------------------------
(* drain_requests.                                                         *)

\* The file in hand.
InHand(f) == listing # {} /\ f = Min(listing)

Start ==
    /\ step = "idle" /\ queue # {}
    /\ step' = "next" /\ listing' = queue
    /\ UNCHANGED <<queue, done, failed, mishaps, imported, owed>>

End ==
    /\ step = "next" /\ listing = {} /\ step' = "idle"
    /\ UNCHANGED <<queue, done, failed, listing, mishaps, imported, owed>>

\* Every page is read and parsed before the one transaction that writes.
Import(f) ==
    /\ step = "next" /\ InHand(f) /\ step' = "imported"
    /\ imported' = imported \cup {f} /\ owed' = owed \ {f}
    /\ UNCHANGED <<queue, done, failed, listing, mishaps>>

\* A slip: a request that failed is left where it is, to be tried again.
ImportFailsForNow(f) ==
    /\ step = "next" /\ InHand(f) /\ listing' = listing \ {f}
    /\ UNCHANGED <<queue, done, failed, step, mishaps, imported, owed>>

\* The file, a page or the database cannot be read, or no row is found in them.
ImportFails(f) ==
    /\ step = "next" /\ InHand(f) /\ step' = "raised"
    /\ UNCHANGED <<queue, done, failed, listing, mishaps, imported, owed>>

\* A slip: the file is copied.
CopyToDone(f) ==
    /\ step = "imported" /\ InHand(f) /\ step' = "next"
    /\ done' = done \cup {f} /\ listing' = listing \ {f}
    /\ UNCHANGED <<queue, failed, mishaps, imported, owed>>

MoveToDone(f) ==
    /\ step = "imported" /\ InHand(f) /\ step' = "next"
    /\ queue' = queue \ {f} /\ done' = done \cup {f} /\ listing' = listing \ {f}
    /\ UNCHANGED <<failed, mishaps, imported, owed>>

MoveToFailed(f) ==
    /\ step = "raised" /\ InHand(f) /\ step' = "next"
    /\ queue' = queue \ {f} /\ failed' = failed \cup {f} /\ listing' = listing \ {f}
    /\ UNCHANGED <<done, mishaps, imported, owed>>

Mishap == mishaps < MaxMishaps /\ mishaps' = mishaps + 1

\* The file is told as failed, although its rows are there.
MoveToDoneFails ==
    /\ Mishap /\ step = "imported" /\ step' = "raised"
    /\ UNCHANGED <<queue, done, failed, listing, imported, owed>>

\* The job ends; the file in hand is taken up again by the next one.
Ends ==
    /\ step' = "idle" /\ listing' = {}
    /\ owed' = IF step \in {"imported", "raised"} THEN owed \cup {Min(listing)} ELSE owed
    /\ UNCHANGED <<queue, done, failed, imported>>

\* Nothing catches an exception of the exception handler.
MoveToFailedFails == Mishap /\ step = "raised" /\ Ends

Crash == Mishap /\ step # "idle" /\ Ends

-----------------------------------------------------------------------------
Work ==
    \/ Start \/ End
    \/ \E f \in Names : Import(f) \/ ImportFails(f) \/ MoveToDone(f) \/ MoveToFailed(f)

Next == (\E f \in Names : Command(f)) \/ Work \/ MoveToDoneFails \/ MoveToFailedFails \/ Crash

Spec == Init /\ [][Next]_vars

\* Cron starts the job every few minutes; a job that was started goes on.
FairSpec == Spec /\ WF_vars(Work)

-----------------------------------------------------------------------------
TypeOK ==
    /\ queue \subseteq Names /\ done \subseteq Names /\ failed \subseteq Names
    /\ step \in Steps /\ listing \subseteq queue /\ mishaps \in 0..MaxMishaps
    /\ imported \subseteq Names /\ owed \subseteq Names

\* It leaves the queue for done/, imported, or for failed/.
LeavesForItsPlace(f) ==
    f \in queue /\ f \notin queue' => (f \in done' /\ f \in imported) \/ f \in failed'

\* It is imported a second time only when it was asked for again, or the job was
\* stopped with it in hand.
ImportedOnce(f) == Import(f) => f \in owed

(* No request is lost, called done without its rows, or imported again and   *)
(* again, wherever the job is killed and whichever move fails.               *)
SettledOnce == [][\A f \in Names : LeavesForItsPlace(f) /\ ImportedOnce(f)]_vars

(* Every request leaves the queue: one that keeps failing wedges neither     *)
(* itself nor those that sort after it.                                      *)
RequestsSettle == \A f \in Names : f \in queue ~> f \notin queue
===============================================================================
