---------------------------- MODULE AthleteTable ----------------------------
(***************************************************************************)
(* The athletes table: a sequence of rows in the order of their ids, each    *)
(* with a key (convex_id) that no other has.  A row is one athlete of one      *)
(* meet, with a member id, a name as it was spelled and, once assigned, a      *)
(* slot: the number and the platform of a session.                           *)
(*                                                                         *)
(* A member id is none, a placeholder made of the name (noid), a number of   *)
(* nine digits, which may be real or minted at random by an earlier scraper,  *)
(* or another number.  A name is <<whose, how it is spelled>>.                *)
(***************************************************************************)
EXTENDS Naturals, Sequences, SequencesExt, FiniteSetsExt

Id(kind, of) == [kind |-> kind, of |-> of]
NoId == Id("none", "")
Noid(name) == Id("noid", name[1])
Idless(id) == id.kind \in {"none", "noid"}

Assigned(row) == row.slot # <<>>

\* stable_id.  The placeholder itself is not part of an id-less athlete's key.
KeyOf(row) ==
    IF Idless(row.member) THEN <<row.meet, "noid", row.name[1], row.gender>>
    ELSE <<row.meet, row.member, row.name>>

\* A nine-digit number that no other meet knows is taken for a random one.
Elsewhere(table, id, meet) == \E r \in ToSet(table) : r.member = id /\ r.meet # meet
Minted(table, r) == r.member.kind = "nine" /\ ~Elsewhere(table, r.member, r.meet)

\* A slip: a federated athlete is looked up by the key alone, so that another spelling
\* of the name is another athlete.
ByExactKey(table, r, row) ==
    IF r.key = KeyOf(row) THEN 0
    ELSE IF r.meet # row.meet \/ r.name[1] # row.name[1] \/ r.gender # row.gender THEN 3
    ELSE IF ~Idless(row.member) THEN 3
    ELSE IF Idless(r.member) THEN 1
    ELSE IF Minted(table, r) /\ r.age = row.age THEN 2 ELSE 3

\* How well a stored row answers to one that comes in; the least answers, 3 not at all.
Rank(table, r, row) ==
    IF r.key = KeyOf(row) THEN 0
    ELSE IF r.meet # row.meet \/ r.name[1] # row.name[1] THEN 3
    ELSE IF ~Idless(row.member) THEN (IF r.member = row.member THEN 1 ELSE 3)
    ELSE IF r.gender # row.gender THEN 3
    ELSE IF Idless(r.member) THEN 1
    ELSE IF Minted(table, r) /\ r.age = row.age THEN 2 ELSE 3

\* The rows the lookup may return.  Of federated ones it takes the first; of others
\* PostgreSQL chooses.
Found(table, row) ==
    LET rank(i) == Rank(table, table[i], row)
        best == {i \in DOMAIN table : rank(i) < 3 /\ \A j \in DOMAIN table : rank(i) <= rank(j)}
    IN IF Idless(row.member) \/ best = {} THEN best ELSE {Min(best)}

\* An id-less row that adopts a stored one keeps its key and its number.
Merged(old, row) ==
    [row EXCEPT !.member = IF Idless(@) /\ ~Idless(old.member) THEN old.member ELSE @]
    @@ [key |-> old.key]

\* The row that a lookup led to: one for each row it may have found.
Targets(table, row) ==
    IF Found(table, row) = {} THEN {row @@ [key |-> KeyOf(row)]}
    ELSE {Merged(table[i], row) : i \in Found(table, row)}

\* INSERT ... ON CONFLICT (convex_id) DO UPDATE
Stored(table, row) ==
    IF \E i \in DOMAIN table : table[i].key = row.key
    THEN [i \in DOMAIN table |-> IF table[i].key = row.key THEN row ELSE table[i]]
    ELSE Append(table, row)

\* upsert_athlete: the tables it may leave.
Upserted(table, row) == {Stored(table, target) : target \in Targets(table, row)}

AllUpserted(table, list) ==
    FoldLeft(LAMBDA tables, row : UNION {Upserted(t, row) : t \in tables}, {table}, list)

\* A slip: the update takes the session of the row that comes in.
Overwriting(table, row) == row

\* preserve_assigned_session: the update keeps the session that the row has by then.
Preserving(table, row) ==
    LET assigned == {r \in ToSet(table) : r.key = row.key /\ Assigned(r)}
    IN IF assigned = {} THEN row ELSE [row EXCEPT !.slot = (CHOOSE r \in assigned : TRUE).slot]

(***************************************************************************)
(* dedupe_idless_athletes.                                                 *)
(***************************************************************************)
Collapsible(r) == Idless(r.member) \/ r.member.kind = "nine"

\* The group of a row: the rows that name the same athlete of its meet.
Copies(table, r) ==
    {i \in DOMAIN table : /\ table[i].meet = r.meet /\ table[i].name[1] = r.name[1]
                          /\ table[i].gender = r.gender /\ table[i].age = r.age}

Collapses(table, r) ==
    LET copies == Copies(table, r) IN
    /\ Cardinality(copies) > 1
    /\ \A i \in copies : Collapsible(table[i]) /\ ~(~Idless(table[i].member) /\ Elsewhere(table, table[i].member, r.meet))

Keeper(table, r) ==
    LET copies == Copies(table, r)
        assigned == {i \in copies : Assigned(table[i])}
    IN Max(IF assigned = {} THEN copies ELSE assigned)

Deduped(table, meet) ==
    LET mine(i) == table[i].meet = meet /\ Collapses(table, table[i])
        kept == SelectSeq([i \in DOMAIN table |-> i], LAMBDA i : mine(i) => i = Keeper(table, table[i]))
        Row(i) == IF mine(i) /\ table[i].member = NoId
                  THEN [table[i] EXCEPT !.member = Noid(table[i].name)] ELSE table[i]
    IN [n \in DOMAIN kept |-> Row(kept[n])]
=============================================================================
