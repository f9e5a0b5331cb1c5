-------------------------- MODULE JsonListStoreProofs -------------------------
(***************************************************************************)
(* For any number of commands and keys, and however they race, fail and    *)
(* crash: every whole list that is in any file, and every list that is on  *)
(* its way to one, is legal.                                               *)
(***************************************************************************)
EXTENDS JsonListStore, FiniteSetTheorems, TLAPS

\* Only whole lists have items.
FilesAreLegal ==
    \A i \in Inodes : List!Legal(content[i].items)

SavesAreLegal == \A e \in Editors : List!Legal(items[e])

IInv == TypeOK /\ FilesAreLegal /\ SavesAreLegal

USE DEF files, vars

LEMMA Shapes ==
    /\ Empty \in Contents /\ Mixed \in Contents
    /\ Empty.items = {} /\ Mixed.items = {}
    /\ \A list \in SUBSET Keys : Whole(list) \in Contents /\ Whole(list).items = list
    /\ \A c \in Contents : c.items \in SUBSET Keys /\ c.kind \in {"empty", "mixed", "whole"}
BY DEF Empty, Mixed, Whole, Contents

\* The counting of EditedList is that of this module.
LEMMA SameCount == \A S : List!Cardinality(S) = Cardinality(S)
BY DEF List!Cardinality, Cardinality, List!IsFiniteSet, IsFiniteSet

LEMMA LegalMeans ==
    \A list : List!Legal(list) <=> /\ Cardinality(list) <= MaxItems
                                  /\ \A k, l \in list : List!Alike(k, l) => k = l
BY SameCount DEF List!Legal

LEMMA EmptyIsLegal == List!Legal({})
BY LegalMeans, FS_EmptySet, StoreAssumption

LEMMA StoredFacts ==
  ASSUME IInv
  PROVE  Stored.items \in SUBSET Keys /\ List!Legal(Stored.items)
BY Shapes, EmptyIsLegal DEF IInv, TypeOK, FilesAreLegal, Stored

\* One addition to a legal list, and one deletion from it, leave a legal list.
LEMMA AddIsLegal ==
  ASSUME NEW list \in SUBSET Keys, List!Legal(list), NEW k \in Keys,
         \A l \in list : ~List!Alike(k, l), Cardinality(list) < MaxItems
  PROVE  List!Legal(list \cup {k})
<1>1. IsFiniteSet(list) /\ Cardinality(list) \in Nat
  BY StoreAssumption, FS_Subset, FS_CardinalityType
<1>2. k \notin list
  BY DEF List!Alike
<1>3. Cardinality(list \cup {k}) = Cardinality(list) + 1
  BY <1>1, <1>2, FS_AddElement
<1>4. Cardinality(list \cup {k}) <= MaxItems
  BY <1>1, <1>3, StoreAssumption
<1>5. ASSUME NEW l \in list \cup {k}, NEW m \in list \cup {k}, List!Alike(l, m) PROVE l = m
  <2>1. List!Alike(m, l)
    BY <1>5 DEF List!Alike
  <2> QED BY <1>5, <2>1, LegalMeans
<1> QED BY <1>4, <1>5, LegalMeans

LEMMA DeleteIsLegal ==
  ASSUME NEW list \in SUBSET Keys, List!Legal(list), NEW rest \in SUBSET list
  PROVE  List!Legal(rest)
<1>1. IsFiniteSet(list) /\ Cardinality(list) \in Nat
  BY StoreAssumption, FS_Subset, FS_CardinalityType
<1>2. Cardinality(rest) <= Cardinality(list) /\ Cardinality(rest) \in Nat
  BY <1>1, FS_Subset, FS_CardinalityType
<1>3. Cardinality(list) <= MaxItems /\ \A k, l \in list : List!Alike(k, l) => k = l
  BY LegalMeans
<1>4. Cardinality(rest) <= MaxItems
  BY <1>1, <1>2, <1>3, StoreAssumption
<1> QED BY <1>3, <1>4, LegalMeans

LEMMA InitInv == Init => IInv
<1> SUFFICES ASSUME Init PROVE IInv
  OBVIOUS
<1>1. CASE live = NoFile /\ content = [i \in Inodes |-> Empty]
  BY <1>1, Shapes, EmptyIsLegal
     DEF Init, IInv, TypeOK, FilesAreLegal, SavesAreLegal, Places, Replies
<1>2. ASSUME NEW list \in SUBSET Keys, List!Legal(list), live \in Inodes,
             content = [i \in Inodes |-> IF i = live THEN Whole(list) ELSE Empty]
      PROVE  IInv
  BY <1>2, Shapes, EmptyIsLegal
     DEF Init, IInv, TypeOK, FilesAreLegal, SavesAreLegal, Places, Replies
<1> QED BY <1>1, <1>2 DEF Init

\* A command ends.
LEMMA AnsweredInv ==
  ASSUME IInv, NEW e \in Editors, NEW r \in Replies, Answered(e, r)
  PROVE  /\ pc' \in [Editors -> Places] /\ items' \in [Editors -> SUBSET Keys]
         /\ file' \in [Editors -> Inodes \cup {NoFile}] /\ reply' \in [Editors -> Replies]
         /\ \A f \in Editors : pc'[f] \in {"write", "rename"} <=> file'[f] # NoFile
         /\ SavesAreLegal'
BY EmptyIsLegal DEF Answered, IInv, TypeOK, SavesAreLegal, Places, List!Legal, List!Alike

LEMMA EditInv ==
  ASSUME IInv, NEW e \in Editors, NEW accepted, NEW list,
         accepted => list \in SUBSET Keys /\ List!Legal(list),
         Edit(e, accepted, list)
  PROVE  IInv'
<1>1. CASE accepted /\ Stored.kind # "mixed"
  BY <1>1 DEF Edit, IInv, TypeOK, FilesAreLegal, SavesAreLegal, Places, Replies,
              List!Legal, List!Alike
<1>2. CASE ~(accepted /\ Stored.kind # "mixed")
  <2>1. Answered(e, "refused") /\ "refused" \in Replies
    BY <1>2 DEF Edit, Replies
  <2> QED BY <2>1, AnsweredInv DEF Edit, IInv, TypeOK, FilesAreLegal, List!Legal, List!Alike
<1> QED BY <1>1, <1>2

LEMMA OpenInv == ASSUME IInv, NEW e \in Editors, Open(e) PROVE IInv'
<1>1. PICK i \in Inodes :
         /\ i # live
         /\ content' = [content EXCEPT ![i] = Empty] /\ tmp' = i
         /\ file' = [file EXCEPT ![e] = i]
  BY DEF Open, Unused, IInv, TypeOK
<1>2. i # NoFile
  BY <1>1, StoreAssumption
<1>3. TypeOK'
  BY <1>1, <1>2, Shapes DEF Open, IInv, TypeOK, Places
<1>4. FilesAreLegal'
  BY <1>1, Shapes, EmptyIsLegal DEF IInv, TypeOK, FilesAreLegal, List!Legal, List!Alike
<1>5. SavesAreLegal'
  BY DEF Open, IInv, SavesAreLegal, List!Legal, List!Alike
<1> QED BY <1>3, <1>4, <1>5 DEF IInv

\* What a write leaves in a file.
LEMMA WrittenIsLegal ==
  ASSUME NEW list \in SUBSET Keys, List!Legal(list), NEW there, NEW c \in Over(list, there)
  PROVE  c \in Contents /\ List!Legal(c.items)
<1>1. c = Whole(list) \/ c = Mixed
  BY DEF Over
<1>2. Mixed.items = {} /\ Mixed \in Contents /\ Whole(list).items = list /\ Whole(list) \in Contents
  BY Shapes
<1> QED BY <1>1, <1>2, EmptyIsLegal

LEMMA WriteInv == ASSUME IInv, NEW e \in Editors, Write(e) PROVE IInv'
<1>1. PICK c \in Over(items[e], content[file[e]]) : content' = [content EXCEPT ![file[e]] = c]
  BY DEF Write
<1>2. c \in Contents /\ List!Legal(c.items)
  BY <1>1, WrittenIsLegal DEF IInv, TypeOK, SavesAreLegal
<1>3. file[e] \in Inodes
  BY DEF Write, IInv, TypeOK
<1>4. TypeOK'
  BY <1>1, <1>2, <1>3 DEF Write, IInv, TypeOK, Places
<1>5. FilesAreLegal'
  BY <1>1, <1>2, <1>3 DEF IInv, TypeOK, FilesAreLegal, List!Legal, List!Alike
<1>6. SavesAreLegal'
  BY DEF Write, IInv, SavesAreLegal, List!Legal, List!Alike
<1> QED BY <1>4, <1>5, <1>6 DEF IInv

LEMMA WriteFailsInv == ASSUME IInv, NEW e \in Editors, WriteFails(e) PROVE IInv'
<1>1. PICK c \in {content[file[e]], Mixed} : content' = [content EXCEPT ![file[e]] = c]
  BY DEF WriteFails
<1>2. file[e] \in Inodes
  BY DEF WriteFails, IInv, TypeOK
<1>3. c \in Contents /\ List!Legal(c.items)
  <2>1. CASE c = Mixed
    BY <2>1, Shapes, EmptyIsLegal
  <2>2. CASE c = content[file[e]]
    BY <1>2, <2>2 DEF IInv, TypeOK, FilesAreLegal
  <2> QED BY <1>1, <2>1, <2>2
<1>4. Answered(e, "failed") /\ "failed" \in Replies
  BY DEF WriteFails, Replies
<1>5. TypeOK'
  BY <1>1, <1>2, <1>3, <1>4, AnsweredInv DEF WriteFails, IInv, TypeOK
<1>6. FilesAreLegal'
  BY <1>1, <1>2, <1>3 DEF IInv, TypeOK, FilesAreLegal, List!Legal, List!Alike
<1> QED BY <1>4, <1>5, <1>6, AnsweredInv DEF IInv

LEMMA RenameInv == ASSUME IInv, NEW e \in Editors, Rename(e) PROVE IInv'
<1>1. PICK r \in Replies : Answered(e, r)
  BY DEF Rename, Replies
<1>2. TypeOK'
  BY <1>1, AnsweredInv DEF Rename, IInv, TypeOK
<1>3. FilesAreLegal'
  BY DEF Rename, IInv, FilesAreLegal, List!Legal, List!Alike
<1> QED BY <1>1, <1>2, <1>3, AnsweredInv DEF IInv

LEMMA CrashInv == ASSUME IInv, Crash PROVE IInv'
<1>1. TypeOK' /\ FilesAreLegal'
  BY DEF Crash, IInv, TypeOK, FilesAreLegal, Places, Replies, List!Legal, List!Alike
<1>2. \A e \in Editors : items'[e] = {}
  BY DEF Crash
<1>3. SavesAreLegal'
  BY <1>2, EmptyIsLegal DEF SavesAreLegal, List!Legal, List!Alike
<1> QED BY <1>1, <1>3 DEF IInv

LEMMA StepInv == IInv /\ [Next]_vars => IInv'
<1> SUFFICES ASSUME IInv, [Next]_vars PROVE IInv'
  OBVIOUS
<1>1. ASSUME NEW e \in Editors, NEW k \in Keys, Add(e, k) PROVE IInv'
  <2> DEFINE accepted == /\ \A l \in Stored.items : ~List!Alike(k, l)
                         /\ Cardinality(Stored.items) < MaxItems
  <2>1. accepted => Stored.items \cup {k} \in SUBSET Keys /\ List!Legal(Stored.items \cup {k})
    BY StoredFacts, AddIsLegal
  <2>2. Edit(e, accepted, Stored.items \cup {k})
    BY <1>1 DEF Add
  <2> QED BY <2>1, <2>2, EditInv
<1>2. ASSUME NEW e \in Editors, NEW k \in Keys, Delete(e, k) PROVE IInv'
  <2> DEFINE rest == {l \in Stored.items : ~List!Alike(k, l)}
  <2>1. rest \in SUBSET Keys /\ List!Legal(rest)
    BY StoredFacts, DeleteIsLegal
  <2>2. Edit(e, \E l \in Stored.items : List!Alike(k, l), rest)
    BY <1>2 DEF Delete
  <2> QED BY <2>1, <2>2, EditInv
<1>3. ASSUME NEW e \in Editors, Open(e) \/ Write(e) \/ WriteFails(e) \/ Rename(e) PROVE IInv'
  BY <1>3, OpenInv, WriteInv, WriteFailsInv, RenameInv
<1>4. CASE Crash
  BY <1>4, CrashInv
<1>5. CASE UNCHANGED vars
  BY <1>5 DEF IInv, TypeOK, FilesAreLegal, SavesAreLegal, List!Legal, List!Alike
<1> QED BY <1>1, <1>2, <1>3, <1>4, <1>5 DEF Next

LEMMA SpecInv == Spec => []IInv
<1> QED BY InitInv, StepInv, PTL DEF Spec

(* Every variable keeps its type; a command has a file open exactly while it *)
(* writes and renames, and the temporary file is never the list.             *)
THEOREM TypeCorrect == Spec => []TypeOK
<1>1. IInv => TypeOK
  BY DEF IInv
<1> QED BY <1>1, SpecInv, PTL

(* No race, failed write or crash makes a list with one key in two spellings *)
(* or with more than MAX_LIST_ITEMS items.                                   *)
THEOREM ListLegal == Spec => []ListIsLegal
<1>1. IInv => ListIsLegal
  BY StoredFacts DEF ListIsLegal
<1> QED BY <1>1, SpecInv, PTL

-----------------------------------------------------------------------------
\* While commands never overlapped: one is under way at most, the file it has
\* open is the temporary one, and that is whole before it becomes the list.
OneAtATime ==
    \A e, f \in Editors : pc[e] # "idle" /\ pc[f] # "idle" => e = f

WritesTmp ==
    \A e \in Editors :
        /\ pc[e] \in {"write", "rename"} => file[e] = tmp
        /\ pc[e] = "write" => content[tmp].kind = "empty"
        /\ pc[e] = "rename" => content[tmp].kind = "whole"

AloneInv == ~overlapped => CronReadsWholeLists /\ OneAtATime /\ WritesTmp

LEMMA EditAlone ==
  ASSUME IInv, AloneInv, NEW e \in Editors, NEW accepted, NEW list, Edit(e, accepted, list)
  PROVE  AloneInv'
<1> SUFFICES ASSUME ~overlapped' PROVE (CronReadsWholeLists /\ OneAtATime /\ WritesTmp)'
  BY DEF AloneInv
<1>1. ~overlapped /\ \A f \in Editors : pc[f] = "idle"
  BY DEF Edit, IInv, TypeOK
<1>2. \A f \in Editors : f # e => pc'[f] = "idle"
  BY <1>1 DEF Edit, Answered, IInv, TypeOK
<1>3. pc'[e] \in {"idle", "open"}
  BY DEF Edit, Answered, IInv, TypeOK
<1> QED BY <1>1, <1>2, <1>3 DEF AloneInv, CronReadsWholeLists, OneAtATime, WritesTmp, Edit

LEMMA OpenAlone ==
  ASSUME IInv, AloneInv, NEW e \in Editors, Open(e) PROVE AloneInv'
<1> SUFFICES ASSUME ~overlapped PROVE (CronReadsWholeLists /\ OneAtATime /\ WritesTmp)'
  BY DEF AloneInv, Open
<1>1. PICK i \in Inodes :
         /\ i # live
         /\ content' = [content EXCEPT ![i] = Empty] /\ tmp' = i
         /\ file' = [file EXCEPT ![e] = i]
  BY DEF Open, Unused, IInv, TypeOK
<1>2. \A f \in Editors : f # e => pc'[f] = "idle"
  BY DEF Open, IInv, TypeOK, AloneInv, OneAtATime
<1>3. content'[tmp'].kind = "empty" /\ file'[e] = tmp' /\ pc'[e] = "write"
  BY <1>1 DEF Open, Empty, IInv, TypeOK
<1>4. CronReadsWholeLists'
  BY <1>1 DEF Open, AloneInv, CronReadsWholeLists, IInv, TypeOK
<1> QED BY <1>2, <1>3, <1>4 DEF OneAtATime, WritesTmp

LEMMA WriteAlone ==
  ASSUME IInv, AloneInv, NEW e \in Editors, Write(e) PROVE AloneInv'
<1> SUFFICES ASSUME ~overlapped PROVE (CronReadsWholeLists /\ OneAtATime /\ WritesTmp)'
  BY DEF AloneInv, Write
<1>1. file[e] = tmp /\ tmp \in Inodes /\ tmp # live /\ content[tmp].kind = "empty"
  BY DEF Write, AloneInv, WritesTmp, IInv, TypeOK
<1>2. content' = [content EXCEPT ![tmp] = Whole(items[e])]
  BY <1>1 DEF Write, Over
<1>3. \A f \in Editors : f # e => pc'[f] = "idle"
  BY DEF Write, IInv, TypeOK, AloneInv, OneAtATime
<1>4. content'[tmp'].kind = "whole" /\ file'[e] = tmp' /\ pc'[e] = "rename"
  BY <1>1, <1>2 DEF Write, Whole, IInv, TypeOK
<1>5. CronReadsWholeLists'
  BY <1>1, <1>2 DEF Write, AloneInv, CronReadsWholeLists, IInv, TypeOK
<1> QED BY <1>3, <1>4, <1>5 DEF OneAtATime, WritesTmp

\* The steps after which no command is under way.
LEMMA EndAlone ==
  ASSUME IInv, AloneInv, NEW e \in Editors, WriteFails(e) \/ Rename(e) PROVE AloneInv'
<1> SUFFICES ASSUME ~overlapped PROVE (CronReadsWholeLists /\ OneAtATime /\ WritesTmp)'
  BY DEF AloneInv, WriteFails, Rename
<1>1. PICK r \in Replies : Answered(e, r)
  BY DEF WriteFails, Rename, Replies
<1>2. \A f \in Editors : pc'[f] = "idle"
  BY <1>1 DEF Answered, WriteFails, Rename, IInv, TypeOK, AloneInv, OneAtATime
<1>3. CASE WriteFails(e)
  <2>1. file[e] = tmp /\ tmp \in Inodes /\ tmp # live
    BY <1>3 DEF WriteFails, AloneInv, WritesTmp, IInv, TypeOK
  <2>2. CronReadsWholeLists'
    BY <1>3, <2>1 DEF WriteFails, AloneInv, CronReadsWholeLists, IInv, TypeOK
  <2> QED BY <1>2, <2>2 DEF OneAtATime, WritesTmp
<1>4. CASE Rename(e)
  <2>1. tmp # NoFile /\ content[tmp].kind = "whole"
    BY <1>4 DEF Rename, AloneInv, WritesTmp, IInv, TypeOK
  <2>2. CronReadsWholeLists'
    BY <1>4, <2>1 DEF Rename, CronReadsWholeLists
  <2> QED BY <1>2, <2>2 DEF OneAtATime, WritesTmp
<1> QED BY <1>3, <1>4

LEMMA StepAlone == IInv /\ AloneInv /\ [Next]_vars => AloneInv'
<1> SUFFICES ASSUME IInv, AloneInv, [Next]_vars PROVE AloneInv'
  OBVIOUS
<1>1. ASSUME NEW e \in Editors, NEW k \in Keys, Add(e, k) \/ Delete(e, k) PROVE AloneInv'
  BY <1>1, EditAlone DEF Add, Delete
<1>2. ASSUME NEW e \in Editors, Open(e) \/ Write(e) \/ WriteFails(e) \/ Rename(e) PROVE AloneInv'
  BY <1>2, OpenAlone, WriteAlone, EndAlone
<1>3. CASE Crash
  BY <1>3 DEF Crash, AloneInv, CronReadsWholeLists, OneAtATime, WritesTmp
<1>4. CASE UNCHANGED vars
  BY <1>4 DEF AloneInv, CronReadsWholeLists, OneAtATime, WritesTmp
<1> QED BY <1>1, <1>2, <1>3, <1>4 DEF Next

\* No command is under way at the start.
LEMMA InitAlone == Init => AloneInv
<1> SUFFICES ASSUME Init PROVE CronReadsWholeLists /\ OneAtATime /\ WritesTmp
  BY DEF AloneInv
<1>1. CronReadsWholeLists
  BY DEF Init, CronReadsWholeLists, Whole
<1> QED BY <1>1 DEF Init, OneAtATime, WritesTmp

(* As long as no two commands overlap, whoever reads the file finds a whole  *)
(* list, through write errors, crashes and the temporary files they leave.   *)
THEOREM AloneWhole == Spec => []AloneReadsWholeLists
<1>1. AloneInv => AloneReadsWholeLists
  BY DEF AloneInv, AloneReadsWholeLists
<1> QED BY <1>1, InitAlone, StepAlone, SpecInv, PTL DEF Spec
-----------------------------------------------------------------------------
\* What one command makes of a list.
EditOf(list, new) ==
    \E k \in Keys :
        \/ /\ \A l \in list : ~List!Alike(k, l)
           /\ Cardinality(list) < MaxItems
           /\ new = list \cup {k}
        \/ /\ \E l \in list : List!Alike(k, l)
           /\ new = {l \in list : ~List!Alike(k, l)}

\* The list a command saves is an edit of the one that is there, the temporary
\* file holds it before the rename, and nobody has been told yet.
SavesAnEdit ==
    \A e \in Editors :
        /\ pc[e] # "idle" => EditOf(Stored.items, items[e]) /\ reply[e] = "none"
        /\ pc[e] = "rename" => content[tmp] = Whole(items[e])

AloneSaves == ~overlapped => SavesAnEdit

\* An edit changes the list.
LEMMA EditsChange ==
  ASSUME NEW list, NEW new, EditOf(list, new) PROVE new # list
BY DEF EditOf, List!Alike

\* List!Next of lists that are values.
LEMMA EditIsNext ==
  ASSUME EditOf(Stored.items, Stored'.items) PROVE List!Next
<1>1. PICK k \in Keys :
        \/ /\ \A l \in Stored.items : ~List!Alike(k, l)
           /\ Cardinality(Stored.items) < MaxItems
           /\ Stored'.items = Stored.items \cup {k}
        \/ /\ \E l \in Stored.items : List!Alike(k, l)
           /\ Stored'.items = {l \in Stored.items : ~List!Alike(k, l)}
  BY DEF EditOf
<1>2. List!Add(k) \/ List!Delete(k)
  BY <1>1, SameCount DEF List!Add, List!Delete
<1> QED BY <1>2 DEF List!Next

\* Until the rename nothing a lone command does reaches the list.
LEMMA StoredStays ==
  ASSUME IInv, AloneInv, ~overlapped, NEW e \in Editors,
         \/ \E k \in Keys : Add(e, k) \/ Delete(e, k)
         \/ Open(e) \/ Write(e) \/ WriteFails(e)
  PROVE  Stored' = Stored
<1>1. CASE \E k \in Keys : Add(e, k) \/ Delete(e, k)
  BY <1>1 DEF Add, Delete, Edit, Stored
<1>2. CASE Open(e)
  <2>1. PICK i \in Inodes : i # live /\ content' = [content EXCEPT ![i] = Empty]
    BY <1>2 DEF Open, Unused, IInv, TypeOK
  <2> QED BY <1>2, <2>1 DEF Open, Stored, IInv, TypeOK
<1>3. CASE Write(e) \/ WriteFails(e)
  <2>1. file[e] = tmp /\ tmp \in Inodes /\ tmp # live
    BY <1>3 DEF Write, WriteFails, AloneInv, WritesTmp, IInv, TypeOK
  <2>2. live' = live /\ \A i \in Inodes : i # tmp => content'[i] = content[i]
    BY <1>3, <2>1 DEF Write, WriteFails, IInv, TypeOK
  <2> QED BY <2>1, <2>2 DEF Stored, IInv, TypeOK
<1> QED BY <1>1, <1>2, <1>3

LEMMA EditSaves ==
  ASSUME IInv, AloneInv, AloneSaves, ~overlapped', NEW e \in Editors,
         \E k \in Keys : Add(e, k) \/ Delete(e, k)
  PROVE  SavesAnEdit'
<1>1. ~overlapped /\ \A f \in Editors : pc[f] = "idle"
  BY DEF Add, Delete, Edit, IInv, TypeOK
<1>2. Stored' = Stored
  BY <1>1, StoredStays
<1>3. \A f \in Editors : f # e => pc'[f] = "idle"
  BY <1>1 DEF Add, Delete, Edit, Answered, IInv, TypeOK
<1>4. pc'[e] = "idle" \/ (pc'[e] = "open" /\ reply'[e] = "none" /\ EditOf(Stored.items, items'[e]))
  BY DEF Add, Delete, Edit, Answered, EditOf, IInv, TypeOK
<1> QED BY <1>2, <1>3, <1>4 DEF SavesAnEdit, EditOf, List!Alike

LEMMA MoveSaves ==
  ASSUME IInv, AloneInv, AloneSaves, ~overlapped, NEW e \in Editors, Open(e) \/ Write(e)
  PROVE  SavesAnEdit'
<1>1. Stored' = Stored
  BY StoredStays
<1>2. \A f \in Editors : f # e => pc'[f] = "idle"
  BY DEF Open, Write, IInv, TypeOK, AloneInv, OneAtATime
<1>3. items' = items /\ reply' = reply /\ pc[e] # "idle"
  BY DEF Open, Write
<1>4. EditOf(Stored.items, items[e]) /\ reply[e] = "none"
  BY <1>3 DEF AloneSaves, SavesAnEdit
<1>5. pc'[e] = "rename" => content'[tmp'] = Whole(items[e])
  <2>1. CASE Open(e)
    BY <2>1 DEF Open, IInv, TypeOK
  <2>2. CASE Write(e)
    <3>1. file[e] = tmp /\ tmp \in Inodes /\ content[tmp].kind = "empty"
      BY <2>2 DEF Write, AloneInv, WritesTmp, IInv, TypeOK
    <3> QED BY <2>2, <3>1 DEF Write, Over, IInv, TypeOK
  <2> QED BY <2>1, <2>2
<1> QED BY <1>1, <1>2, <1>3, <1>4, <1>5 DEF SavesAnEdit, EditOf, List!Alike

LEMMA EndSaves ==
  ASSUME IInv, AloneInv, ~overlapped, NEW e \in Editors, WriteFails(e) \/ Rename(e)
  PROVE  SavesAnEdit'
<1>1. \A f \in Editors : pc'[f] = "idle"
  BY DEF WriteFails, Rename, Answered, IInv, TypeOK, AloneInv, OneAtATime
<1> QED BY <1>1 DEF SavesAnEdit

LEMMA StepSaves ==
  ASSUME IInv, AloneInv, AloneSaves, [Next]_vars PROVE AloneSaves'
<1>1. ASSUME NEW e \in Editors, \E k \in Keys : Add(e, k) \/ Delete(e, k) PROVE AloneSaves'
  BY <1>1, EditSaves DEF AloneSaves
<1>2. ASSUME NEW e \in Editors, Open(e) \/ Write(e) PROVE AloneSaves'
  BY <1>2, MoveSaves DEF AloneSaves, Open, Write
<1>3. ASSUME NEW e \in Editors, WriteFails(e) \/ Rename(e) PROVE AloneSaves'
  BY <1>3, EndSaves DEF AloneSaves, WriteFails, Rename
<1>4. CASE Crash
  BY <1>4 DEF Crash, AloneSaves, SavesAnEdit
<1>5. CASE UNCHANGED vars
  BY <1>5 DEF AloneSaves, SavesAnEdit, EditOf, List!Alike, Stored
<1> QED BY <1>1, <1>2, <1>3, <1>4, <1>5 DEF Next

\* The rename of a lone command is its edit.
LEMMA RenameEdits ==
  ASSUME IInv, AloneInv, AloneSaves, ~overlapped, NEW e \in Editors, Rename(e)
  PROVE  /\ List!Next /\ Stored' # Stored
         /\ reply'[e] = "done" /\ reply[e] # "done"
<1>1. /\ tmp \in Inodes /\ tmp # NoFile /\ pc[e] = "rename"
      /\ content[tmp] = Whole(items[e]) /\ EditOf(Stored.items, items[e]) /\ reply[e] = "none"
  BY StoreAssumption DEF Rename, AloneInv, WritesTmp, IInv, TypeOK, AloneSaves, SavesAnEdit
<1>2. live' = tmp /\ content' = content /\ reply'[e] = "done"
  BY <1>1 DEF Rename, Answered, IInv, TypeOK
<1>3. Stored' = Whole(items[e])
  BY <1>1, <1>2 DEF Stored
<1>4. Stored'.items = items[e] /\ items[e] # Stored.items
  BY <1>1, <1>3, EditsChange DEF Whole
<1> QED BY <1>1, <1>2, <1>4, EditIsNext

LEMMA StepEdits ==
  ASSUME IInv, AloneInv, AloneSaves, [Next]_vars, ~overlapped'
  PROVE  /\ Stored' # Stored => List!Next
         /\ (\E e \in Editors : reply'[e] = "done" /\ reply[e] # "done") <=> Stored' # Stored
<1> DEFINE Told == \E e \in Editors : reply'[e] = "done" /\ reply[e] # "done"
<1>1. ~overlapped
  BY DEF Next, Add, Delete, Edit, Open, Write, WriteFails, Rename, Crash, IInv, TypeOK
<1>2. ASSUME NEW e \in Editors,
             \/ \E k \in Keys : Add(e, k) \/ Delete(e, k)
             \/ Open(e) \/ Write(e) \/ WriteFails(e)
      PROVE  Stored' = Stored /\ ~Told
  <2>1. ~Told
    BY <1>2 DEF Add, Delete, Edit, Answered, Open, Write, WriteFails, IInv, TypeOK
  <2> QED BY <1>1, <1>2, <2>1, StoredStays
<1>3. ASSUME NEW e \in Editors, Rename(e) PROVE List!Next /\ Stored' # Stored /\ Told
  BY <1>1, <1>3, RenameEdits
<1>4. CASE Crash \/ UNCHANGED vars
  <2>1. Stored' = Stored /\ ~Told
    BY <1>4 DEF Crash, Stored, IInv, TypeOK
  <2> QED BY <2>1
<1> QED BY <1>2, <1>3, <1>4 DEF Next

(* As long as no two commands overlap, the list changes by whole edits, each *)
(* at the moment its author is told so, through write errors, crashes and    *)
(* restarts.                                                                 *)
THEOREM AloneEdits == Spec => AloneEditsAtOnce
<1>1. Init => AloneSaves
  BY DEF Init, AloneSaves, SavesAnEdit
<1>2. IInv /\ AloneInv /\ AloneSaves /\ [Next]_vars => AloneSaves'
  BY StepSaves
<1>3. IInv /\ AloneInv /\ AloneSaves /\ [Next]_vars =>
        [~overlapped' =>
           /\ Stored' # Stored => List!Next
           /\ (\E e \in Editors : reply'[e] = "done" /\ reply[e] # "done") <=> Stored' # Stored]_vars
  BY StepEdits
<1> QED BY <1>1, <1>2, <1>3, InitAlone, StepAlone, SpecInv, PTL DEF Spec, AloneEditsAtOnce
===============================================================================
