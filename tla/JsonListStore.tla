---------------------------- MODULE JsonListStore -----------------------------
(***************************************************************************)
(* The file behind a Slack-managed list (watches.json,                     *)
(* entries_targets.json).  A slash command reads the whole file, edits the *)
(* list in memory, writes it to a temporary file and renames that over the *)
(* list.  Commands run concurrently in the API, with no lock, and share    *)
(* the name of the temporary file; the crons read the list at any time,    *)
(* and the API may be killed between any two steps.                        *)
(*                                                                         *)
(* A file is an inode: opening the temporary file again truncates what     *)
(* another command is writing, and whoever has it open still writes to it  *)
(* after the rename.                                                       *)
(***************************************************************************)
EXTENDS Naturals, FiniteSets

CONSTANTS
    Editors,       \* slash commands in the API at once
    Keys,          \* keys somebody may type
    SameKey,       \* sets of keys that differ only in case
    MaxItems,      \* MAX_LIST_ITEMS
    Inodes,        \* enough for the list, the temporary file and all writers
    NoFile         \* the inode of a path that does not exist

ASSUME StoreAssumption ==
    /\ MaxItems \in Nat \ {0} /\ IsFiniteSet(Keys)
    /\ NoFile \notin Inodes

VARIABLES
    content,       \* [Inodes -> Contents]
    live,          \* the inode at the path of the list
    tmp,           \* the inode at that path with the extension json.tmp
    pc,            \* [Editors -> Places]
    items,         \* [Editors -> SUBSET Keys]: the list it is saving
    file,          \* [Editors -> Inodes or NoFile]: the file it has open
    reply,         \* [Editors -> Replies]: what Slack shows
    overlapped     \* history: two commands have been under way at once

files == <<content, live, tmp>>
vars  == <<files, pc, items, file, reply, overlapped>>

Places  == {"idle", "open", "write", "rename"}
Replies == {"none", "done", "refused", "failed"}

\* A file is created empty.  "mixed" is a list followed by the end of a longer
\* one, which does not parse.
Empty       == [kind |-> "empty", items |-> {}]
Mixed       == [kind |-> "mixed", items |-> {}]
Whole(list) == [kind |-> "whole", items |-> list]
Contents    == [kind : {"empty", "mixed", "whole"}, items : SUBSET Keys]

\* What JsonListStore::items finds: no file and an empty one are an empty list.
Stored == IF live = NoFile THEN Empty ELSE content[live]

List == INSTANCE EditedList WITH list <- Stored.items

Init ==
    /\ \/ live = NoFile /\ content = [i \in Inodes |-> Empty]
       \/ \E list \in SUBSET Keys :
             /\ List!Legal(list)
             /\ live \in Inodes
             /\ content = [i \in Inodes |-> IF i = live THEN Whole(list) ELSE Empty]
    /\ tmp = NoFile
    /\ pc = [e \in Editors |-> "idle"]
    /\ items = [e \in Editors |-> {}]
    /\ file = [e \in Editors |-> NoFile]
    /\ reply = [e \in Editors |-> "none"]
    /\ overlapped = FALSE

-----------------------------------------------------------------------------
(* add and delete.                                                         *)

Answered(e, r) ==
    /\ pc' = [pc EXCEPT ![e] = "idle"]
    /\ items' = [items EXCEPT ![e] = {}]
    /\ file' = [file EXCEPT ![e] = NoFile]
    /\ reply' = [reply EXCEPT ![e] = r]

\* Read the list; save(list) is what follows, or the command is refused.
Edit(e, accepted, list) ==
    /\ pc[e] = "idle"
    /\ overlapped' = (overlapped \/ \E f \in Editors : pc[f] # "idle")
    /\ IF accepted /\ Stored.kind # "mixed"
         THEN /\ pc' = [pc EXCEPT ![e] = "open"]
              /\ items' = [items EXCEPT ![e] = list]
              /\ reply' = [reply EXCEPT ![e] = "none"]
              /\ UNCHANGED file
         ELSE Answered(e, "refused")
    /\ UNCHANGED files

\* A slip: keys are compared as they are typed.
AddAsTyped(e, k) ==
    Edit(e, k \notin Stored.items /\ Cardinality(Stored.items) < MaxItems, Stored.items \cup {k})

Add(e, k) ==
    Edit(e, /\ \A l \in Stored.items : ~List!Alike(k, l)
            /\ Cardinality(Stored.items) < MaxItems,
         Stored.items \cup {k})

Delete(e, k) ==
    Edit(e, \E l \in Stored.items : List!Alike(k, l),
         {l \in Stored.items : ~List!Alike(k, l)})

-----------------------------------------------------------------------------
(* save, one system call at a time.                                        *)

\* An inode nobody has open and no path leads to.
Unused == Inodes \ ({live, tmp} \cup {file[e] : e \in Editors})

\* fs::write creates the temporary file, or truncates the one that is there.
Open(e) ==
    /\ pc[e] = "open"
    /\ \E i \in IF tmp = NoFile THEN Unused ELSE {tmp} :
          /\ content' = [content EXCEPT ![i] = Empty]
          /\ tmp' = i
          /\ file' = [file EXCEPT ![e] = i]
    /\ pc' = [pc EXCEPT ![e] = "write"]
    /\ UNCHANGED <<live, items, reply, overlapped>>

\* A list written from the start of a file over what is there.  A list with
\* fewer items than the other is shorter; else it may be either.
Over(list, there) ==
    IF there.kind = "empty" THEN {Whole(list)}
    ELSE IF there.kind = "mixed" THEN {Whole(list), Mixed}
    ELSE {c \in {Whole(list), Mixed} :
             /\ there.items \subseteq list => c = Whole(list)
             /\ list \subseteq there.items /\ list # there.items => c = Mixed}

Write(e) ==
    /\ pc[e] = "write"
    /\ \E c \in Over(items[e], content[file[e]]) : content' = [content EXCEPT ![file[e]] = c]
    /\ pc' = [pc EXCEPT ![e] = "rename"]
    /\ UNCHANGED <<live, tmp, items, file, reply, overlapped>>

\* A slip: a list that could not be written is put in place all the same.
WriteFailsUnseen(e) ==
    /\ pc[e] = "write"
    /\ content' = [content EXCEPT ![file[e]] = Mixed]
    /\ pc' = [pc EXCEPT ![e] = "rename"]
    /\ UNCHANGED <<live, tmp, items, file, reply, overlapped>>

\* A slip: the error is dropped.
WriteFailsSilently(e) ==
    /\ pc[e] = "write"
    /\ \E c \in {content[file[e]], Mixed} : content' = [content EXCEPT ![file[e]] = c]
    /\ Answered(e, "done")
    /\ UNCHANGED <<live, tmp, overlapped>>

\* The disk is full; a part of the list may be there.
WriteFails(e) ==
    /\ pc[e] = "write"
    /\ \E c \in {content[file[e]], Mixed} : content' = [content EXCEPT ![file[e]] = c]
    /\ Answered(e, "failed")
    /\ UNCHANGED <<live, tmp, overlapped>>

\* The rename fails when another command has already moved the file.
Rename(e) ==
    /\ pc[e] = "rename"
    /\ IF tmp = NoFile
         THEN UNCHANGED <<live, tmp>> /\ Answered(e, "failed")
         ELSE live' = tmp /\ tmp' = NoFile /\ Answered(e, "done")
    /\ UNCHANGED <<content, overlapped>>

\* The API is killed or restarted; a temporary file stays.
Crash ==
    /\ \E e \in Editors : pc[e] # "idle"
    /\ pc' = [e \in Editors |-> "idle"]
    /\ items' = [e \in Editors |-> {}]
    /\ file' = [e \in Editors |-> NoFile]
    /\ reply' = [e \in Editors |-> "none"]
    /\ UNCHANGED <<files, overlapped>>

Next ==
    \/ \E e \in Editors :
          \/ \E k \in Keys : Add(e, k) \/ Delete(e, k)
          \/ Open(e) \/ Write(e) \/ WriteFails(e) \/ Rename(e)
    \/ Crash

Spec == Init /\ [][Next]_vars

-----------------------------------------------------------------------------
TypeOK ==
    /\ content \in [Inodes -> Contents]
    /\ live \in Inodes \cup {NoFile} /\ tmp \in Inodes \cup {NoFile}
    /\ pc \in [Editors -> Places]
    /\ items \in [Editors -> SUBSET Keys]
    /\ file \in [Editors -> Inodes \cup {NoFile}]
    /\ \A e \in Editors : pc[e] \in {"write", "rename"} <=> file[e] # NoFile
    /\ tmp # NoFile => tmp # live
    /\ reply \in [Editors -> Replies]
    /\ overlapped \in BOOLEAN

(* However commands race, fail and crash, a list that parses holds no key    *)
(* twice in two spellings and at most MAX_LIST_ITEMS items: each list saved  *)
(* is one edit away from a list that was there.                              *)
ListIsLegal == List!Legal(Stored.items)

(* "Writes are atomic (temp file + rename) so the scraper cron ... never     *)
(* observes a half-written list" (store.rs): the file is never there with    *)
(* less, or something else, than a whole list in it.                         *)
CronReadsWholeLists == live # NoFile => content[live].kind = "whole"

(* The same while no two commands have ever been under way at once: write    *)
(* errors and crashes, and the temporary files they leave, do not reach the  *)
(* list.                                                                     *)
AloneReadsWholeLists == ~overlapped => CronReadsWholeLists

(* And then the list changes as if each edit happened at once, when Slack is *)
(* told so and at no other time.                                             *)
AloneEditsAtOnce ==
    [][~overlapped' =>
         /\ Stored' # Stored => List!Next
         /\ (\E e \in Editors : reply'[e] = "done" /\ reply[e] # "done") <=> Stored' # Stored]_vars
===============================================================================
