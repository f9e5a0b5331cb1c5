---------------------------- MODULE SessionMatch ----------------------------
(***************************************************************************)
(* Which session of a preliminary schedule an athlete lifts in.  A session  *)
(* of the schedule names a meet, and may name a gender, an age group, five-  *)
(* year age bands, weight classes and a range of entry totals.  Of the       *)
(* sessions that suit an athlete the one whose range their total fits best    *)
(* is theirs.  Zero stands for a missing age or total.                       *)
(***************************************************************************)
EXTENDS Naturals, Sequences, SequencesExt, FiniteSetsExt

CONSTANTS WsoMeets, YouthMeets, JuniorMeets, NationalMeets,   \* by the words in their names
          UmwfMeets, FinalsMeets

Blank == "blank"

EventCategory(meet) ==
    IF meet \in WsoMeets THEN "wso"
    ELSE IF meet \in YouthMeets THEN "youth"
    ELSE IF meet \in JuniorMeets THEN "jr_u25"
    ELSE IF meet \in NationalMeets THEN "nat" ELSE "unknown"

YouthGroups == <<"u11_u13", "14_15", "16_17">>
YouthSubgroup(age) ==
    CASE age <= 13 -> "u11_u13" [] age \in 14..15 -> "14_15" [] age \in 16..17 -> "16_17" [] OTHER -> Blank

\* The groups of a session that say something about who lifts in it.
Known == {"wso", "nat", "jr_u25"} \union ToSet(YouthGroups)

\* An athlete of a meet whose name says nothing is a youth when young enough.
CategoryOf(a) ==
    IF a.category = "unknown" /\ a.age # 0 /\ YouthSubgroup(a.age) # Blank THEN "youth" ELSE a.category
YouthOf(a) == IF CategoryOf(a) = "youth" THEN YouthSubgroup(a.age) ELSE Blank

SameMeet(a, s) ==
    CASE a.meet \in UmwfMeets -> s.meet \in UmwfMeets
      [] a.meet \in FinalsMeets \ UmwfMeets -> s.meet \in FinalsMeets \ UmwfMeets
      [] OTHER -> s.meet \in {a.meet, Blank} \/ a.meet = Blank

\* A slip: whoever is too old for the youth groups is let into all of them.
AdultsToo(a, group) ==
    \/ group = Blank
    \/ LET category == CategoryOf(a) IN
       CASE group = "wso" \/ category = "wso" -> group = category
         [] category # "wso" /\ group \in ToSet(YouthGroups) -> YouthOf(a) \in {group, Blank}
         [] category # "wso" /\ group \notin Known -> YouthOf(a) = Blank
         [] OTHER -> group = category

\* A blank group is open to all.  One that is not known is to all but the youth, those
\* of a youth meet who are too old for its groups aside, and the state championships.
GroupSuits(a, group) ==
    \/ group = Blank
    \/ LET category == CategoryOf(a) IN
       CASE group = "wso" \/ category = "wso" -> group = category
         [] category # "wso" /\ group \in ToSet(YouthGroups) -> group = YouthOf(a)
         [] category # "wso" /\ group \notin Known -> YouthOf(a) = Blank
         [] OTHER -> group = category

\* Each band is named by its first age.
BandSuits(a, s) ==
    \/ a.meet \notin UmwfMeets
    \/ s.bands.ages = {}
    \/ /\ a.age \in Min(s.bands.ages)..(Max(s.bands.ages) + 4)
       /\ s.bands.gender = a.gender

(***************************************************************************)
(* Weights: a session is for all of them, for those it lists, or for those   *)
(* from the first to the last it lists.  A class with a plus is one of its    *)
(* own, which no range covers.  The numbers of the age bands before them are   *)
(* cut off, but for the last of bands that are listed one by one, which is    *)
(* read as one more weight.                                                 *)
(***************************************************************************)
Men == [lowest |-> 32, highest |-> 52, classes |-> {32, 36, 40, 44, 48, 52}]
Women == [lowest |-> 30, highest |-> 36, classes |-> {30, 33, 36}]

ClassesRead(s) ==
    s.weights.classes
    \union IF s.bands.listed THEN {[kg |-> Max(s.bands.ages), plus |-> FALSE]} ELSE {}

WeightSuits(a, s) ==
    \/ s.weights.kind = "all"
    \/ a.class \in ClassesRead(s)
    \/ LET numbers == {c.kg : c \in ClassesRead(s)}
           Youth(rule, gender) ==
               s.gender = gender /\ Min(numbers) = rule.lowest /\ Max(numbers) = rule.highest
       IN /\ s.weights.kind = "range"
          /\ Cardinality(ClassesRead(s)) >= 2
          /\ ~a.class.plus
          /\ CASE Youth(Men, "M") -> a.class.kg \in Men.classes
               [] Youth(Women, "F") -> a.class.kg \in Women.classes
               [] OTHER -> a.class.kg \in Min(numbers)..Max(numbers)

Suits(a, s) ==
    /\ SameMeet(a, s)
    /\ s.gender \in {a.gender, Blank}
    /\ GroupSuits(a, s.group)
    /\ BandSuits(a, s)
    /\ WeightSuits(a, s)

(***************************************************************************)
(* The choice.  A range is empty or <<least, greatest>>.                    *)
(***************************************************************************)
InRange(total, range) == total \in range[1]..range[2]
Apart(x, y) == IF x < y THEN y - x ELSE x - y
Miss(total, range) ==
    IF InRange(total, range) THEN 0 ELSE Min({Apart(total, range[1]), Apart(total, range[2])})
OffMiddle(total, range) == Apart(2 * total, range[1] + range[2])

\* The first session with a range of the least score; without a range, the first.
Best(sessions, Score(_)) ==
    LET ranged == SelectSeq(sessions, LAMBDA s : s.totals # <<>>)
        least == SelectSeq(ranged, LAMBDA s : \A r \in ToSet(ranged) : Score(s.totals) <= Score(r.totals))
    IN IF ranged = <<>> THEN Head(sessions) ELSE Head(least)

\* Sessions for the athlete's own youth group come before those open to all.
OwnGroup(a, sessions) ==
    LET own == SelectSeq(sessions, LAMBDA s : YouthOf(a) # Blank /\ s.group = YouthOf(a))
    IN IF own = <<>> THEN sessions ELSE own

\* The athlete's session, or none.  When no range holds the total, the nearest does.
FindSession(a, schedule) ==
    LET suited == SelectSeq(schedule, LAMBDA s : Suits(a, s))
        fitting == SelectSeq(suited, LAMBDA s : s.totals = <<>> \/ a.total = 0 \/ InRange(a.total, s.totals))
    IN IF a.age = 0 THEN <<>>
       ELSE IF fitting # <<>>
       THEN <<IF a.total = 0 THEN Head(OwnGroup(a, fitting))
              ELSE Best(OwnGroup(a, fitting), LAMBDA range : OffMiddle(a.total, range))>>
       ELSE IF suited # <<>> THEN <<Best(OwnGroup(a, suited), LAMBDA range : Miss(a.total, range))>>
       ELSE <<>>
=============================================================================
