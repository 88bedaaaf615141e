--------------------------- MODULE RestDaysProofs ---------------------------
(***************************************************************************)
(* Proofs about the monthly planner, for every roster, calendar, policy    *)
(* and history of requests and pins.                                       *)
(***************************************************************************)
EXTENDS RestDays, TLAPS

\* The day as it stands for the caddie being planned: behind the month what
\* the table says, inside it what the month pass is going to write.
Standing(d) == Earlier(caddie, d) \/ (d \in Dates /\ DayFor(d) = "working")
Over(d) == \A e \in (d - MaxRun)..d : Standing(e)

BackOK == pc = "back" =>
  /\ worked <= MaxRun
  /\ inserted = {}
  /\ \A e \in (First - worked)..(First - 1) : Earlier(caddie, e)

\* The run behind index is known exactly until it reaches the limit, and the
\* days already settled are right.
PlaceOK == pc = "place" =>
  /\ First <= index
  /\ index <= Last + 1
  /\ worked < MaxRun => \A d \in Int : d = index - worked - 1 => ~Standing(d)
  /\ \A d \in First..(index - 1) : Over(d) => Pinned(d)

InsertedOK == pc \in {"place", "topup", "write"} => \A d \in inserted : ~Pinned(d)

AssignableOK == pc \in {"place", "topup"} => caddie \in Assignable

LimitOK == pc \in {"topup", "write"} => \A d \in Dates : Over(d) => Pinned(d)

PromiseOK == pc = "write" /\ caddie \in Assignable =>
  Cardinality(RestDaysSoFar) >= MinRest \/ Spare = {}

\* Where the month pass stands.
Front == IF pc = "write" THEN index ELSE First

StreakOK == pc \in {"place", "topup", "write"} =>
  /\ \A e \in (Front - streak)..(Front - 1) : Standing(e)
  /\ streak < MaxRun => \A d \in Int : d = Front - streak - 1 => ~Standing(d)

WriteOK == pc = "write" =>
  /\ First <= index
  /\ index <= Last + 1
  /\ \A d \in First..(index - 1) : plan[caddie][d] = DayFor(d)
  /\ caddie \in overworked <=> \E d \in First..(index - 1) : Over(d)

ReportOK == pc # "idle" =>
  /\ \A c \in overworked : c <= caddie
  /\ pc \in {"back", "place", "topup"} => caddie \notin overworked

WrittenOK(c) ==
  /\ \A d \in Dates : OverLimit(c, d) => d \in pins[c]
  /\ c \in overworked <=> \E d \in Dates : OverLimit(c, d)
  /\ c \in Assignable =>
       \/ Cardinality({d \in Dates : plan[c][d] # "working"}) >= MinRest
       \/ {d \in Dates : plan[c][d] = "working"} \subseteq pins[c]

PlanInv ==
  /\ TypeOK
  /\ BackOK
  /\ PlaceOK
  /\ InsertedOK
  /\ AssignableOK
  /\ LimitOK
  /\ PromiseOK
  /\ StreakOK
  /\ WriteOK
  /\ ReportOK
  /\ \A c \in Written : WrittenOK(c)

USE RosterAssumption, CalendarAssumption, PolicyAssumption

-----------------------------------------------------------------------------
\* First and Last are days of the calendar, in order.
LEMMA MonthType ==
  ASSUME TypeOK
  PROVE  /\ First \in Int
         /\ Last \in Int
         /\ First <= Last
         /\ Dates \subseteq Days
  BY DEF TypeOK, First, Last, Dates

LEMMA TypeStep == TypeOK /\ [Next]_vars => TypeOK'
<1> SUFFICES ASSUME TypeOK, [Next]_vars PROVE TypeOK'
  OBVIOUS
<1> USE DEF TypeOK, desk, report, Roster, Kinds
<1>1. ASSUME NEW c \in Roster, NEW d \in Days, NEW k \in {"off", "working"},
             NEW b \in BOOLEAN, EditDay(c, d, k, b)
      PROVE  TypeOK'
  <2>1. shifts' \in [Roster -> [Days -> Kinds]]
    BY <1>1 DEF EditDay
  <2>2. pins' \in [Roster -> SUBSET Days]
    BY <1>1 DEF EditDay
  <2> QED  BY <1>1, <2>1, <2>2 DEF EditDay, Change
<1>2. ASSUME NEW c \in Roster, NEW d \in Days, NEW k \in {"off", "working"},
             FileRequest(c, d, k)
      PROVE  TypeOK'
  BY <1>2 DEF FileRequest, Change
<1>3. ASSUME NEW m \in Months, Generate(m) PROVE TypeOK'
  BY <1>3 DEF Generate, NewTurn
<1>4. CASE CountBack
  BY <1>4 DEF CountBack
<1>5. CASE Counted
  BY <1>5, MonthType DEF Counted
<1>6. ASSUME NEW r \in Days, TakeFiledRest(r) PROVE TypeOK'
  BY <1>6 DEF TakeFiledRest, Rest
<1>7. ASSUME NEW r \in Days, InsertRest(r) PROVE TypeOK'
  BY <1>7 DEF InsertRest, Rest
<1>8. ASSUME NEW r \in Days, TopUp(r) PROVE TypeOK'
  BY <1>8 DEF TopUp, Rest
<1>9. CASE NoRest
  BY <1>9 DEF NoRest, Deadline
<1>10. CASE Placed
  BY <1>10 DEF Placed
<1>11. CASE ToppedUp
  BY <1>11, MonthType DEF ToppedUp
<1>12. CASE WriteDay
  <2>2. DayFor(index) \in Kinds
    BY DEF DayFor, Pinned
  <2>3. plan' \in [Roster -> [Days -> Kinds]]
    BY <1>12, <2>2 DEF WriteDay
  <2>4. streak' \in Nat /\ overworked' \in SUBSET Roster /\ unplaced' \in SUBSET Roster
    BY <1>12 DEF WriteDay
  <2> QED  BY <1>12, <2>3, <2>4 DEF WriteDay
<1>13. CASE NextCaddie
  BY <1>13 DEF NextCaddie, NewTurn
<1>14. CASE LastCaddie
  BY <1>14 DEF LastCaddie
<1>15. CASE Save
  BY <1>15 DEF Save
<1>16. CASE Preview
  BY <1>16 DEF Preview
<1>17. CASE UNCHANGED vars
  BY <1>17 DEF vars
<1> HIDE DEF TypeOK, desk, report, Roster, Kinds
<1>18. CASE Desk
  BY <1>18, <1>1, <1>2 DEF Desk
<1>19. CASE Run
  BY <1>19, <1>4, <1>5, <1>6, <1>7, <1>8, <1>9, <1>10, <1>11, <1>12,
     <1>13, <1>14, <1>15, <1>16 DEF Run, Place
<1> QED  BY <1>3, <1>17, <1>18, <1>19 DEF Next

-----------------------------------------------------------------------------
\* What the operators over the caddie being planned depend on.
Subject == <<shifts, pins, requests, month, caddie>>

\* More rest days never make a day stand that did not: the runs only shrink.
LEMMA StandingShrinks ==
  ASSUME UNCHANGED Subject, inserted \subseteq inserted',
         NEW d \in Int, Standing(d)'
  PROVE  Standing(d)
  BY DEF Subject, Standing, Earlier, Dates, First, Last, DayFor, Pinned, FiledOff

LEMMA OverShrinks ==
  ASSUME UNCHANGED Subject, inserted \subseteq inserted',
         NEW d \in Int, Over(d)'
  PROVE  Over(d)
<1> SUFFICES ASSUME NEW e \in (d - MaxRun)..d PROVE Standing(e)
  BY DEF Over
<1>1. Standing(e)'
  BY DEF Over
<1> QED  BY <1>1, StandingShrinks

LEMMA SameStanding ==
  ASSUME UNCHANGED Subject, UNCHANGED inserted, NEW d \in Int
  PROVE  Standing(d)' <=> Standing(d)
  BY DEF Subject, Standing, Earlier, Dates, First, Last, DayFor, Pinned, FiledOff

LEMMA SameOver ==
  ASSUME UNCHANGED Subject, UNCHANGED inserted, NEW d \in Int
  PROVE  Over(d)' <=> Over(d)
<1>1. \A e \in Int : Standing(e)' <=> Standing(e)
  BY SameStanding
<1> QED  BY <1>1 DEF Over

\* The days behind the month do not depend on the rest days chosen.
LEMMA StandingBehind ==
  ASSUME UNCHANGED Subject, TypeOK, NEW d \in Int, d < First
  PROVE  Standing(d)' <=> Standing(d)
  BY MonthType DEF Subject, Standing, Earlier, Dates, First, Last, DayFor, Pinned, FiledOff

\* A day that has to be taken off by the deadline: before it, no run can pass
\* the limit, because the day that ended the last run is still in reach.
LEMMA WindowFree ==
  ASSUME TypeOK, PlaceOK, pc = "place", NEW d \in Int, index <= d, d < Deadline
  PROVE  ~Over(d)
<1>1. worked < MaxRun /\ Deadline = index + (MaxRun - worked)
  BY DEF Deadline, TypeOK
<1>2. ~Standing(index - worked - 1)
  BY <1>1 DEF PlaceOK, TypeOK
<1>3. index - worked - 1 \in (d - MaxRun)..d
  BY <1>1 DEF TypeOK
<1> QED  BY <1>2, <1>3 DEF Over

\* A day the caddie is off anyway does not stand.
LEMMA OffDay ==
  ASSUME TypeOK, NEW r \in Dates, AlreadyOff(r)
  PROVE  ~Standing(r)
  BY MonthType DEF Standing, Earlier, Dates, AlreadyOff, DayFor, TypeOK

\* Nor does a day chosen for a rest.
LEMMA RestedDay ==
  ASSUME TypeOK, NEW r \in Dates, ~AlreadyOff(r), CanRest(r), r \in inserted',
         UNCHANGED Subject
  PROVE  ~Standing(r)'
<1>1. ~Pinned(r)
  BY DEF AlreadyOff, CanRest
<1> QED  BY <1>1, MonthType DEF Subject, Standing, Earlier, Dates, First, Last, DayFor, Pinned

-----------------------------------------------------------------------------
\* A caddie already written stays as written while the plan, the desk's table
\* and the report about that caddie stay.
LEMMA StillWritten ==
  ASSUME NEW c \in Roster, WrittenOK(c), UNCHANGED <<shifts, pins, month>>,
         plan'[c] = plan[c], c \in overworked' <=> c \in overworked
  PROVE  WrittenOK(c)'
<1>1. \A d : Works(c, d)' <=> Works(c, d)
  BY DEF Works, Earlier, Dates, First, Last
<1>2. \A d : OverLimit(c, d)' <=> OverLimit(c, d)
  BY <1>1 DEF OverLimit
<1> QED  BY <1>2 DEF WrittenOK, Dates, First, Last

\* Once the pass has crossed the month, the caddie's written days are the
\* days that stood, and what was known of them holds of the plan.
LEMMA TurnEnds ==
  ASSUME PlanInv, pc = "write", index > Last
  PROVE  WrittenOK(caddie)
<1> USE DEF PlanInv
<1>1. \A d \in Dates : plan[caddie][d] = DayFor(d)
  BY MonthType DEF WriteOK, Dates, TypeOK
<1>2. \A d : Works(caddie, d) <=> Standing(d)
  BY <1>1 DEF Works, Standing
<1>3. \A d : OverLimit(caddie, d) <=> Over(d)
  BY <1>2 DEF OverLimit, Over
<1>4. \A d \in Dates : OverLimit(caddie, d) => d \in pins[caddie]
  BY <1>3 DEF LimitOK, Pinned
<1>5. First..(index - 1) = Dates
  BY MonthType DEF WriteOK, Dates, TypeOK
<1>6. caddie \in overworked <=> \E d \in Dates : OverLimit(caddie, d)
  BY <1>3, <1>5 DEF WriteOK
<1>7. ASSUME caddie \in Assignable
      PROVE  \/ Cardinality({d \in Dates : plan[caddie][d] # "working"}) >= MinRest
             \/ {d \in Dates : plan[caddie][d] = "working"} \subseteq pins[caddie]
  <2>1. \A d \in Dates : plan[caddie][d] # "working" <=> AlreadyOff(d) \/ d \in inserted
    <3> SUFFICES ASSUME NEW d \in Dates
                 PROVE  DayFor(d) # "working" <=> AlreadyOff(d) \/ d \in inserted
      BY <1>1
    <3>1. Pinned(d) => d \notin inserted
      BY DEF InsertedOK
    <3> QED  BY <3>1, <1>7 DEF DayFor, AlreadyOff
  <2>2. {d \in Dates : plan[caddie][d] # "working"} = RestDaysSoFar
    BY <2>1 DEF RestDaysSoFar
  <2>3. Spare = {} => {d \in Dates : plan[caddie][d] = "working"} \subseteq pins[caddie]
    BY <2>1 DEF Spare, CanRest, Pinned
  <2> QED  BY <1>7, <2>2, <2>3 DEF PromiseOK
<1> QED  BY <1>4, <1>6, <1>7 DEF WrittenOK

-----------------------------------------------------------------------------
\* Every step of the planner, the desk and the callers keeps the invariant.
LEMMA PlanStep == PlanInv /\ [Next]_vars => PlanInv'
<1> SUFFICES ASSUME PlanInv, [Next]_vars PROVE PlanInv'
  OBVIOUS
<1>t. TypeOK /\ TypeOK'
  BY TypeStep DEF PlanInv
<1>m. First \in Int /\ Last \in Int /\ First <= Last /\ Dates \subseteq Days
  BY <1>t, MonthType
<1>idle. ASSUME pc' = "idle" PROVE PlanInv'
  BY <1>idle, <1>t DEF PlanInv, BackOK, PlaceOK, InsertedOK, AssignableOK, LimitOK, PromiseOK,
                    StreakOK, WriteOK, ReportOK, Written
<1>gen. ASSUME NEW m \in Months, Generate(m) PROVE PlanInv'
  <2>1. Written' = {}
    BY <1>gen DEF Generate, NewTurn, Written, Roster
  <2> QED
    BY <1>gen, <1>t, <2>1 DEF Generate, NewTurn, PlanInv, BackOK, PlaceOK, InsertedOK, AssignableOK,
        LimitOK, PromiseOK, StreakOK, WriteOK, ReportOK, First, TypeOK
<1>back. CASE CountBack
  <2>1. BackOK'
    <3>1. \A e \in (First - (worked + 1))..(First - 1) : Earlier(caddie, e)
      <4> SUFFICES ASSUME NEW e \in (First - (worked + 1))..(First - 1)
                   PROVE  Earlier(caddie, e)
        OBVIOUS
      <4>1. worked \in Nat
        BY <1>t DEF TypeOK
      <4>2. e = First - worked - 1 \/ e \in (First - worked)..(First - 1)
        BY <4>1, <1>m
      <4> QED  BY <4>2, <1>back DEF CountBack, PlanInv, BackOK
    <3>2. \A e : Earlier(caddie, e)' <=> Earlier(caddie, e)
      BY <1>back DEF CountBack, desk, First, Earlier
    <3>3. First' = First /\ worked' = worked + 1 /\ worked + 1 <= MaxRun /\ inserted' = {}
      BY <1>back, <1>t DEF CountBack, First, TypeOK, PlanInv, BackOK
    <3> QED  BY <3>1, <3>2, <3>3 DEF BackOK
  <2>2. \A c \in Written' : WrittenOK(c)'
    BY <1>back, StillWritten DEF CountBack, PlanInv, desk, report, Written
  <2> QED
    BY <1>back, <1>t, <2>1, <2>2 DEF CountBack, PlanInv, PlaceOK, InsertedOK, AssignableOK,
        LimitOK, PromiseOK, StreakOK, WriteOK, ReportOK, report
<1>counted. CASE Counted
  <2>s. UNCHANGED Subject /\ UNCHANGED inserted /\ inserted = {}
    BY <1>counted DEF Counted, desk, Subject, PlanInv, BackOK
  <2>1. \A e \in (First - worked)..(First - 1) : Standing(e)
    BY <1>counted DEF Counted, PlanInv, BackOK, Standing
  <2>2. MaxRun <= worked \/ ~Standing(First - worked - 1)
    BY <1>counted, <1>m, <1>t DEF Counted, Standing, Dates, TypeOK
  <2>3. /\ \A e \in (First - worked)..(First - 1) : Standing(e)'
        /\ worked < MaxRun => \A d \in Int : d = First - worked - 1 => ~Standing(d)'
    BY <2>1, <2>2, <2>s, <1>m, <1>t, SameStanding DEF TypeOK
  <2>4. First' = First /\ Last' = Last /\ Dates' = Dates
    BY <1>counted DEF Counted, First, Last, Dates
  <2>5. StreakOK'
    BY <1>counted, <2>3, <2>4 DEF Counted, StreakOK, Front
  <2>6. PlaceOK'
    BY <1>counted, <2>3, <2>4, <1>m DEF Counted, PlaceOK
  <2>7. LimitOK'
    <3> SUFFICES ASSUME pc' = "write", NEW d \in Dates, Over(d)' PROVE Pinned(d)'
      BY <1>counted, <2>4 DEF LimitOK, Counted
    <3>1. caddie \notin Assignable
      BY <1>counted DEF Counted
    <3>2. Standing(d)'
      BY <1>m DEF Over, Dates
    <3>3. DayFor(d)' = "working"
      BY <3>2, <2>4, <1>m DEF Standing, Earlier, Dates
    <3> QED  BY <3>1, <3>3, <2>s DEF DayFor, Subject
  <2>8. WriteOK'
    <3> SUFFICES ASSUME pc' = "write" PROVE WriteOK'
      BY DEF WriteOK
    <3>1. First..(First - 1) = {}
      BY <1>m
    <3>2. caddie \notin overworked
      BY <1>counted DEF Counted, PlanInv, ReportOK
    <3> QED  BY <1>counted, <2>4, <3>1, <3>2, <1>m DEF Counted, WriteOK
  <2>9. \A c \in Written' : WrittenOK(c)'
    BY <1>counted, StillWritten DEF Counted, PlanInv, desk, Written
  <2>10. PromiseOK' /\ BackOK' /\ InsertedOK' /\ AssignableOK' /\ ReportOK'
    BY <1>counted, <2>s DEF Counted, PlanInv, PromiseOK, BackOK, InsertedOK, AssignableOK, ReportOK
  <2> QED  BY <1>t, <2>5, <2>6, <2>7, <2>8, <2>9, <2>10 DEF PlanInv
\* The steps that settle a stretch of days leave the report alone.
<1>place. ASSUME pc = "place", pc' \in {"place", "topup"}, UNCHANGED Subject, UNCHANGED report,
                 inserted \subseteq inserted', InsertedOK', PlaceOK', LimitOK'
          PROVE  PlanInv'
  <2>1. StreakOK'
    <3>1. Front = First /\ Front' = First
      BY <1>place DEF Front, First, Subject
    <3>2. \A e \in (First - streak)..(First - 1) : Standing(e)'
      BY <3>1, <1>place, <1>m, <1>t, StandingBehind DEF PlanInv, StreakOK, TypeOK
    <3>3. streak < MaxRun => \A d \in Int : d = First - streak - 1 => ~Standing(d)'
      BY <3>1, <1>place, <1>m, <1>t, StandingBehind DEF PlanInv, StreakOK, TypeOK
    <3> QED  BY <3>1, <3>2, <3>3, <1>place DEF StreakOK, report
  <2>2. \A c \in Written' : WrittenOK(c)'
    BY <1>place, StillWritten DEF PlanInv, Subject, report, Written
  <2> QED
    BY <1>place, <1>t, <2>1, <2>2 DEF PlanInv, BackOK, AssignableOK, PromiseOK, WriteOK,
        ReportOK, Subject, report
<1>filed. ASSUME NEW r \in Days, TakeFiledRest(r) PROVE PlanInv'
  <2>s. UNCHANGED Subject /\ UNCHANGED inserted /\ pc = "place" /\ pc' = "place"
    BY <1>filed DEF TakeFiledRest, desk, Subject
  <2>d. First' = First /\ Last' = Last
    BY <2>s DEF Subject, First, Last
  <2>r. r \in Int /\ index <= r /\ r <= Deadline /\ r <= Last /\ First <= index /\ r \in Dates
    BY <1>filed, <1>m, <1>t, <2>s DEF TakeFiledRest, Window, Deadline, PlanInv, PlaceOK, TypeOK, Dates
  <2>1. ~Standing(r)'
    BY <1>filed, <1>t, <2>r, <2>s, OffDay, SameStanding DEF TakeFiledRest
  <2>2. \A d \in First..r : Over(d)' => Pinned(d)'
    <3> SUFFICES ASSUME NEW d \in First..r, Over(d)' PROVE Pinned(d)'
      OBVIOUS
    <3>1. Over(d)
      BY <1>m, <2>r, <2>s, OverShrinks
    <3>2. d # r
      BY <2>1, <2>r DEF Over
    <3>3. CASE d < index
      BY <3>1, <3>3, <1>m, <1>t, <2>s DEF PlanInv, PlaceOK, Pinned, Subject, TypeOK
    <3>4. CASE index <= d
      BY <3>1, <3>2, <3>4, <1>t, <1>m, <2>r, <2>s, WindowFree DEF PlanInv, TypeOK, Deadline
    <3> QED  BY <3>3, <3>4, <1>m, <1>t DEF TypeOK
  <2>3. PlaceOK'
    <3>1. index' = r + 1 /\ worked' = 0
      BY <1>filed DEF TakeFiledRest
    <3>2. \A d \in Int : d = index' - worked' - 1 => ~Standing(d)'
      BY <3>1, <2>1, <2>r
    <3>3. \A d \in First'..(index' - 1) : Over(d)' => Pinned(d)'
      BY <3>1, <2>2, <2>d, <2>r, <1>m
    <3>4. First' <= index' /\ index' <= Last' + 1
      BY <3>1, <2>d, <2>r, <1>m, <1>t DEF TypeOK
    <3> QED  BY <3>2, <3>3, <3>4 DEF PlaceOK
  <2> QED
    BY <1>place, <1>filed, <2>s, <2>3 DEF TakeFiledRest, PlanInv, InsertedOK, LimitOK, Pinned, Subject
<1>insert. ASSUME NEW r \in Days, InsertRest(r) PROVE PlanInv'
  <2>s. UNCHANGED Subject /\ inserted' = inserted \cup {r} /\ pc = "place" /\ pc' = "place"
    BY <1>insert DEF InsertRest, desk, Subject
  <2>d. First' = First /\ Last' = Last
    BY <2>s DEF Subject, First, Last
  <2>r. r \in Int /\ index <= r /\ r <= Deadline /\ r <= Last /\ First <= index /\ r \in Dates
    BY <1>insert, <1>m, <1>t, <2>s
    DEF InsertRest, IsChoice, Window, Deadline, PlanInv, PlaceOK, TypeOK, Dates
  <2>0. ~AlreadyOff(r) /\ CanRest(r)
    BY <1>insert DEF InsertRest, IsChoice
  <2>1. ~Standing(r)'
    BY <1>t, <2>0, <2>r, <2>s, RestedDay
  <2>2. \A d \in First..r : Over(d)' => Pinned(d)'
    <3> SUFFICES ASSUME NEW d \in First..r, Over(d)' PROVE Pinned(d)'
      OBVIOUS
    <3>1. Over(d)
      BY <1>m, <2>r, <2>s, OverShrinks
    <3>2. d # r
      BY <2>1, <2>r DEF Over
    <3>3. CASE d < index
      BY <3>1, <3>3, <1>m, <1>t, <2>s DEF PlanInv, PlaceOK, Pinned, Subject, TypeOK
    <3>4. CASE index <= d
      BY <3>1, <3>2, <3>4, <1>t, <1>m, <2>r, <2>s, WindowFree DEF PlanInv, TypeOK, Deadline
    <3> QED  BY <3>3, <3>4, <1>m, <1>t DEF TypeOK
  <2>3. PlaceOK'
    <3>1. index' = r + 1 /\ worked' = 0
      BY <1>insert DEF InsertRest
    <3>2. \A d \in Int : d = index' - worked' - 1 => ~Standing(d)'
      BY <3>1, <2>1, <2>r
    <3>3. \A d \in First'..(index' - 1) : Over(d)' => Pinned(d)'
      BY <3>1, <2>2, <2>d, <2>r, <1>m
    <3>4. First' <= index' /\ index' <= Last' + 1
      BY <3>1, <2>d, <2>r, <1>m, <1>t DEF TypeOK
    <3> QED  BY <3>2, <3>3, <3>4 DEF PlaceOK
  <2>4. InsertedOK'
    <3>1. ~Pinned(r)
      BY <2>0 DEF AlreadyOff, CanRest
    <3> QED  BY <2>s, <3>1 DEF PlanInv, InsertedOK, Pinned, Subject
  <2> QED
    BY <1>place, <1>insert, <2>s, <2>3, <2>4 DEF InsertRest, LimitOK
<1>norest. CASE NoRest
  <2>s. UNCHANGED Subject /\ UNCHANGED inserted /\ pc = "place" /\ pc' = "place"
    BY <1>norest DEF NoRest, desk, Subject
  <2>d. First' = First /\ Last' = Last
    BY <2>s DEF Subject, First, Last
  <2>r. /\ Deadline \in Int /\ index <= Deadline /\ Deadline <= Last /\ First <= index
        /\ worked' > MaxRun /\ index' = Deadline + 1
    BY <1>norest, <1>t, <2>s DEF NoRest, Deadline, PlanInv, PlaceOK, TypeOK
  <2>2. \A d \in First..Deadline : Over(d)' => Pinned(d)'
    <3> SUFFICES ASSUME NEW d \in First..Deadline, Over(d)' PROVE Pinned(d)'
      OBVIOUS
    <3>1. Over(d)
      BY <1>m, <2>s, OverShrinks
    <3>3. CASE d < index
      BY <3>1, <3>3, <1>m, <1>t, <2>s DEF PlanInv, PlaceOK, Pinned, Subject, TypeOK
    <3>4. CASE index <= d
      BY <3>4, <1>norest, <1>m, <1>t, <2>s, <2>r DEF NoRest, Window, CanRest, Pinned, Subject, TypeOK
    <3> QED  BY <3>3, <3>4, <1>m, <1>t DEF TypeOK
  <2>3. PlaceOK'
    <3>1. ~(worked' < MaxRun)
      BY <2>r, <1>t DEF TypeOK
    <3>2. \A d \in First'..(index' - 1) : Over(d)' => Pinned(d)'
      BY <2>2, <2>d, <2>r, <1>m
    <3>3. First' <= index' /\ index' <= Last' + 1
      BY <2>d, <2>r, <1>m, <1>t DEF TypeOK
    <3> QED  BY <3>1, <3>2, <3>3 DEF PlaceOK
  <2> QED
    BY <1>place, <1>norest, <2>s, <2>3 DEF NoRest, PlanInv, InsertedOK, LimitOK, Pinned, Subject
<1>placed. CASE Placed
  <2>s. UNCHANGED Subject /\ UNCHANGED inserted /\ pc = "place" /\ pc' = "topup"
    BY <1>placed DEF Placed, desk, Subject
  <2>d. First' = First /\ Last' = Last /\ Dates' = Dates
    BY <2>s DEF Subject, First, Last, Dates
  <2>1. LimitOK'
    <3> SUFFICES ASSUME NEW d \in Dates, Over(d)' PROVE Pinned(d)'
      BY <2>d DEF LimitOK
    <3>0. d \in First..Last
      BY DEF Dates
    <3>1. Over(d)
      BY <1>m, <2>s, <3>0, OverShrinks
    <3>3. CASE d < index
      BY <3>0, <3>1, <3>3, <1>m, <1>t, <2>s DEF PlanInv, PlaceOK, Pinned, Subject, TypeOK
    <3>4. CASE index <= d
      BY <3>0, <3>1, <3>4, <1>placed, <1>m, <1>t, <2>s, WindowFree
      DEF Placed, PlanInv, TypeOK, Deadline
    <3> QED  BY <3>0, <3>3, <3>4, <1>m, <1>t DEF TypeOK
  <2> QED
    BY <1>place, <1>placed, <2>s, <2>1 DEF Placed, PlanInv, InsertedOK, PlaceOK, Pinned, Subject
<1>topup. ASSUME NEW r \in Days, TopUp(r) PROVE PlanInv'
  <2>s. UNCHANGED Subject /\ inserted' = inserted \cup {r} /\ pc = "topup" /\ pc' = "topup"
        /\ UNCHANGED report
    BY <1>topup DEF TopUp, desk, Subject
  <2>d. First' = First /\ Last' = Last /\ Dates' = Dates
    BY <2>s DEF Subject, First, Last, Dates
  <2>1. ~Pinned(r)
    BY <1>topup DEF TopUp, Spare, AlreadyOff, CanRest
  <2>2. InsertedOK'
    BY <2>s, <2>1 DEF PlanInv, InsertedOK, Pinned, Subject
  <2>3. LimitOK'
    <3> SUFFICES ASSUME NEW d \in Dates, Over(d)' PROVE Pinned(d)'
      BY <2>d DEF LimitOK
    <3>1. d \in Int
      BY DEF Dates
    <3> QED  BY <3>1, <2>s, OverShrinks DEF PlanInv, LimitOK, Pinned, Subject
  <2>4. StreakOK'
    <3>1. Front = First /\ Front' = First
      BY <2>s, <2>d DEF Front
    <3>2. \A e \in (First - streak)..(First - 1) : Standing(e)'
      BY <3>1, <2>s, <1>m, <1>t, StandingBehind DEF PlanInv, StreakOK, TypeOK
    <3>3. streak < MaxRun => \A d \in Int : d = First - streak - 1 => ~Standing(d)'
      BY <3>1, <2>s, <1>m, <1>t, StandingBehind DEF PlanInv, StreakOK, TypeOK
    <3> QED  BY <3>1, <3>2, <3>3, <2>s DEF StreakOK, report
  <2>5. \A c \in Written' : WrittenOK(c)'
    BY <2>s, StillWritten DEF PlanInv, Subject, report, Written
  <2> QED
    BY <2>s, <1>t, <2>2, <2>3, <2>4, <2>5 DEF PlanInv, BackOK, PlaceOK, AssignableOK, PromiseOK,
        WriteOK, ReportOK, Subject, report
<1>topped. CASE ToppedUp
  <2>s. UNCHANGED Subject /\ UNCHANGED inserted /\ pc = "topup" /\ pc' = "write"
        /\ UNCHANGED report /\ index' = First
    BY <1>topped DEF ToppedUp, desk, Subject
  <2>d. First' = First /\ Last' = Last /\ Dates' = Dates
    BY <2>s DEF Subject, First, Last, Dates
  <2>1. LimitOK'
    <3> SUFFICES ASSUME NEW d \in Dates, Over(d)' PROVE Pinned(d)'
      BY <2>d DEF LimitOK
    <3>1. d \in Int
      BY DEF Dates
    <3> QED  BY <3>1, <2>s, OverShrinks DEF PlanInv, LimitOK, Pinned, Subject
  <2>2. PromiseOK'
    <3>1. RestDaysSoFar' = RestDaysSoFar /\ Spare' = Spare
      BY <2>s, <2>d DEF RestDaysSoFar, Spare, AlreadyOff, CanRest, FiledOff, Pinned, Subject
    <3> QED  BY <3>1, <1>topped DEF ToppedUp, PromiseOK
  <2>3. StreakOK'
    <3>1. Front = First /\ Front' = First
      BY <2>s, <2>d DEF Front
    <3>2. \A e \in (First - streak)..(First - 1) : Standing(e)'
      BY <3>1, <2>s, <1>m, <1>t, StandingBehind DEF PlanInv, StreakOK, TypeOK
    <3>3. streak < MaxRun => \A d \in Int : d = First - streak - 1 => ~Standing(d)'
      BY <3>1, <2>s, <1>m, <1>t, StandingBehind DEF PlanInv, StreakOK, TypeOK
    <3> QED  BY <3>1, <3>2, <3>3, <2>s DEF StreakOK, report
  <2>4. WriteOK'
    <3>1. First..(First - 1) = {}
      BY <1>m
    <3>2. caddie \notin overworked'
      BY <2>s DEF PlanInv, ReportOK, report
    <3> QED  BY <2>s, <2>d, <3>1, <3>2, <1>m DEF WriteOK, Subject
  <2>5. \A c \in Written' : WrittenOK(c)'
    BY <2>s, StillWritten DEF PlanInv, Subject, report, Written
  <2> QED
    BY <2>s, <1>t, <2>1, <2>2, <2>3, <2>4, <2>5 DEF PlanInv, BackOK, PlaceOK, InsertedOK,
        AssignableOK, ReportOK, Subject, report, Pinned
<1>write. CASE WriteDay
  <2> DEFINE run == IF DayFor(index) = "working" THEN streak + 1 ELSE 0
  <2>s. UNCHANGED Subject /\ UNCHANGED inserted /\ pc = "write" /\ pc' = "write"
        /\ index' = index + 1 /\ streak' = run
        /\ plan' = [plan EXCEPT ![caddie][index] = DayFor(index)]
    BY <1>write DEF WriteDay, desk, Subject
  <2>o. overworked' = IF run > MaxRun THEN overworked \cup {caddie} ELSE overworked
    BY <1>write DEF WriteDay
  <2>d. First' = First /\ Last' = Last /\ Dates' = Dates
    BY <2>s DEF Subject, First, Last, Dates
  <2>i. index \in Int /\ First <= index /\ index <= Last /\ index \in Dates /\ index \in Days
    BY <1>write, <1>t, <1>m DEF WriteDay, PlanInv, WriteOK, TypeOK, Dates
  <2>st. streak \in Nat
    BY <1>t DEF TypeOK
  <2>sd. \A d \in Int : Standing(d)' <=> Standing(d)
    BY <2>s, SameStanding
  <2>od. \A d \in Int : Over(d)' <=> Over(d)
    BY <2>s, SameOver
  <2>sx. Standing(index) <=> DayFor(index) = "working"
    BY <2>i, <1>m DEF Standing, Earlier
  <2>before. /\ \A e \in (index - streak)..(index - 1) : Standing(e)
             /\ MaxRun <= streak \/ ~Standing(index - streak - 1)
    BY <2>s, <2>i, <2>st DEF PlanInv, StreakOK, Front
  <2>over. run > MaxRun <=> Over(index)
    <3>1. CASE DayFor(index) # "working"
      <4>1. ~Standing(index) /\ run = 0
        BY <3>1, <2>sx
      <4> QED  BY <4>1, <2>i DEF Over
    <3>2. CASE DayFor(index) = "working" /\ streak < MaxRun
      <4>1. index - streak - 1 \in (index - MaxRun)..index
        BY <3>2, <2>i, <2>st
      <4>2. ~Over(index)
        BY <4>1, <3>2, <2>before, <2>st DEF Over
      <4> QED  BY <4>2, <3>2, <2>st
    <3>3. CASE DayFor(index) = "working" /\ streak >= MaxRun
      <4>1. \A e \in (index - MaxRun)..index : Standing(e)
        BY <3>3, <2>before, <2>sx, <2>i, <2>st
      <4> QED  BY <4>1, <3>3, <2>st DEF Over
    <3> QED  BY <3>1, <3>2, <3>3, <2>st
  <2>1. StreakOK'
    <3>1. Front' = index + 1
      BY <2>s DEF Front
    <3>2. CASE DayFor(index) # "working"
      <4>1. run = 0 /\ \A d \in Int : d = index => ~Standing(d)'
        BY <3>2, <2>sx, <2>sd, <2>i
      <4>2. Front' - streak' - 1 = index
        BY <4>1, <3>1, <2>s, <2>i
      <4>3. (Front' - streak')..(Front' - 1) = {}
        BY <4>1, <3>1, <2>s, <2>i
      <4> QED  BY <4>1, <4>2, <4>3 DEF StreakOK
    <3>3. CASE DayFor(index) = "working"
      <4>1. run = streak + 1
        BY <3>3
      <4>2. Front' - streak' = index - streak /\ Front' - 1 = index
        BY <4>1, <3>1, <2>s, <2>i, <2>st
      <4>3. \A e \in (index - streak)..index : Standing(e)'
        BY <3>3, <2>before, <2>sx, <2>sd, <2>i, <2>st
      <4>4. streak + 1 < MaxRun => \A d \in Int : d = index - streak - 1 => ~Standing(d)'
        BY <2>before, <2>sd, <2>i, <2>st
      <4> QED  BY <4>1, <4>2, <4>3, <4>4, <2>s DEF StreakOK
    <3> QED  BY <3>2, <3>3
  <2>2. WriteOK'
    <3>1. plan'[caddie][index] = DayFor(index)
      BY <2>s, <2>i, <1>t DEF TypeOK
    <3>2. \A d \in First..(index - 1) : plan'[caddie][d] = plan[caddie][d]
      BY <2>s, <2>i, <1>t, <1>m DEF TypeOK
    <3>3. \A d : DayFor(d)' = DayFor(d)
      BY <2>s DEF DayFor, Pinned, FiledOff, Subject
    <3>4. \A d \in First..index : plan'[caddie][d] = DayFor(d)'
      BY <3>1, <3>2, <3>3, <2>s, <2>i, <1>m DEF PlanInv, WriteOK
    <3>5. caddie \in overworked' <=> \E d \in First..index : Over(d)
      <4>1. caddie \in overworked <=> \E d \in First..(index - 1) : Over(d)
        BY <2>s DEF PlanInv, WriteOK
      <4>2. First..index = First..(index - 1) \cup {index}
        BY <2>i, <1>m
      <4> QED  BY <4>1, <4>2, <2>o, <2>over
    <3>6. caddie' = caddie /\ index' - 1 = index
      BY <2>s, <2>i DEF Subject
    <3>7. \A d \in First..index : Over(d)' <=> Over(d)
      BY <2>od, <2>i, <1>m
    <3> QED  BY <3>4, <3>5, <3>6, <3>7, <2>d, <2>s, <2>i, <1>m DEF WriteOK
  <2>3. LimitOK'
    <3> SUFFICES ASSUME NEW d \in Dates, Over(d)' PROVE Pinned(d)'
      BY <2>d DEF LimitOK
    <3>1. d \in Int
      BY DEF Dates
    <3> QED  BY <3>1, <2>s, <2>od DEF PlanInv, LimitOK, Pinned, Subject
  <2>4. PromiseOK'
    <3>1. RestDaysSoFar' = RestDaysSoFar /\ Spare' = Spare
      BY <2>s, <2>d DEF RestDaysSoFar, Spare, AlreadyOff, CanRest, FiledOff, Pinned, Subject
    <3> QED  BY <3>1, <2>s DEF PlanInv, PromiseOK, Subject
  <2>5. \A c \in Written' : WrittenOK(c)'
    <3> SUFFICES ASSUME NEW c \in Written' PROVE WrittenOK(c)'
      OBVIOUS
    <3>1. c \in Written /\ c \in Roster /\ c # caddie
      BY <2>s, <1>t DEF Written, Subject, TypeOK, Roster
    <3>2. plan'[c] = plan[c] /\ (c \in overworked' <=> c \in overworked)
      BY <3>1, <2>s, <2>o, <1>t DEF TypeOK
    <3> QED  BY <3>1, <3>2, <2>s, StillWritten DEF PlanInv, Subject
  <2>6. ReportOK'
    BY <2>s, <2>o, <1>t DEF PlanInv, ReportOK, Subject, TypeOK, Roster
  <2> QED
    BY <2>s, <1>t, <2>1, <2>2, <2>3, <2>4, <2>5, <2>6 DEF PlanInv, BackOK, PlaceOK, InsertedOK,
        AssignableOK, Subject, Pinned
<1>next. CASE NextCaddie
  <2>s. UNCHANGED <<shifts, pins, requests, month, plan, overworked>> /\ pc = "write" /\ pc' = "back"
        /\ caddie' = caddie + 1 /\ worked' = 0 /\ inserted' = {} /\ index > Last
    BY <1>next DEF NextCaddie, NewTurn, desk, report
  <2>1. \A c \in Written' : WrittenOK(c)
    <3> SUFFICES ASSUME NEW c \in Roster, c < caddie + 1 PROVE WrittenOK(c)
      BY <2>s DEF Written
    <3>1. CASE c = caddie
      BY <3>1, <2>s, TurnEnds
    <3>2. CASE c < caddie
      BY <3>2, <2>s DEF PlanInv, Written
    <3> QED  BY <3>1, <3>2, <1>t DEF TypeOK, Roster
  <2>2. \A c \in Written' : WrittenOK(c)'
    <3>1. Written' \subseteq Roster
      BY DEF Written
    <3> QED  BY <2>1, <3>1, <2>s, StillWritten
  <2>3. BackOK'
    BY <2>s, <1>m DEF BackOK, First
  <2>4. ReportOK'
    BY <2>s, <1>t DEF PlanInv, ReportOK, TypeOK, Roster
  <2> QED
    BY <2>s, <1>t, <2>2, <2>3, <2>4 DEF PlanInv, PlaceOK, InsertedOK, AssignableOK, LimitOK,
        PromiseOK, StreakOK, WriteOK
<1>last. CASE LastCaddie
  <2>s. UNCHANGED <<shifts, pins, month, caddie, plan, overworked>> /\ pc = "write" /\ pc' = "done"
        /\ index > Last /\ caddie = RosterSize
    BY <1>last DEF LastCaddie, desk, report
  <2>1. \A c \in Roster : WrittenOK(c)
    <3> SUFFICES ASSUME NEW c \in Roster PROVE WrittenOK(c)
      OBVIOUS
    <3>1. CASE c = caddie
      BY <3>1, <2>s, TurnEnds
    <3>2. CASE c < caddie
      BY <3>2, <2>s DEF PlanInv, Written
    <3> QED  BY <3>1, <3>2, <2>s DEF Roster
  <2>2. \A c \in Written' : WrittenOK(c)'
    BY <2>1, <2>s, StillWritten DEF Written
  <2> QED
    BY <2>s, <1>t, <2>2 DEF PlanInv, BackOK, PlaceOK, InsertedOK, AssignableOK, LimitOK,
        PromiseOK, StreakOK, WriteOK, ReportOK
<1>desk. CASE Desk
  BY <1>desk, <1>idle DEF Desk, EditDay, FileRequest, Change
<1>save. CASE Save
  BY <1>save, <1>idle DEF Save
<1>preview. CASE Preview
  BY <1>preview, <1>idle DEF Preview
<1>stutter. CASE UNCHANGED vars
  <2>s. UNCHANGED Subject /\ UNCHANGED <<pc, index, worked, inserted, resting, plan, streak, overworked>>
    BY <1>stutter DEF vars, Subject
  <2>sd. \A d \in Int : Standing(d)' <=> Standing(d)
    BY <2>s, SameStanding
  <2>od. \A d \in Int : Over(d)' <=> Over(d)
    BY <2>s, SameOver
  <2>d. First' = First /\ Last' = Last /\ Dates' = Dates
    BY <2>s DEF Subject, First, Last, Dates
  <2>1. \A c \in Written' : WrittenOK(c)'
    BY <2>s, StillWritten DEF PlanInv, Subject, Written
  <2>2. BackOK' /\ InsertedOK' /\ AssignableOK' /\ ReportOK'
    BY <2>s, <2>d DEF PlanInv, BackOK, InsertedOK, AssignableOK, ReportOK, Subject, Earlier, Pinned
  <2>3. PromiseOK'
    <3>1. RestDaysSoFar' = RestDaysSoFar /\ Spare' = Spare
      BY <2>s, <2>d DEF RestDaysSoFar, Spare, AlreadyOff, CanRest, FiledOff, Pinned, Subject
    <3> QED  BY <3>1, <2>s DEF PlanInv, PromiseOK, Subject
  <2>4. PlaceOK'
    BY <2>s, <2>sd, <2>od, <2>d, <1>m, <1>t DEF PlanInv, PlaceOK, Pinned, Subject, TypeOK
  <2>5. LimitOK'
    BY <2>s, <2>od, <2>d, <1>m DEF PlanInv, LimitOK, Pinned, Subject, Dates
  <2>6. StreakOK'
    <3>1. Front' = Front /\ Front \in Int
      BY <2>s, <2>d, <1>m, <1>t DEF Front, TypeOK
    <3> QED  BY <3>1, <2>s, <2>sd, <1>t DEF PlanInv, StreakOK, TypeOK
  <2>7. WriteOK'
    <3>1. \A d : DayFor(d)' = DayFor(d)
      BY <2>s DEF DayFor, Pinned, FiledOff, Subject
    <3>2. \A d \in First..(index - 1) : Over(d)' <=> Over(d)
      BY <2>od, <1>m, <1>t DEF TypeOK
    <3> QED  BY <3>1, <3>2, <2>s, <2>d DEF PlanInv, WriteOK, Subject
  <2> QED  BY <1>t, <2>1, <2>2, <2>3, <2>4, <2>5, <2>6, <2>7 DEF PlanInv
<1>run. CASE Run
  BY <1>run, <1>back, <1>counted, <1>filed, <1>insert, <1>topup, <1>norest, <1>placed, <1>topped,
     <1>write, <1>next, <1>last, <1>save, <1>preview DEF Run, Place
<1> QED  BY <1>gen, <1>desk, <1>run, <1>stutter DEF Next

LEMMA PlanInit == Init => PlanInv
<1> SUFFICES ASSUME Init PROVE PlanInv
  OBVIOUS
<1>1. TypeOK
  BY DEF Init, TypeOK, Roster, Kinds
<1> QED
  BY <1>1 DEF Init, PlanInv, BackOK, PlaceOK, InsertedOK, AssignableOK, LimitOK, PromiseOK,
     StreakOK, WriteOK, ReportOK, Written

LEMMA PlanAlways == Spec => []PlanInv
  BY PlanInit, PlanStep, PTL DEF Spec

-----------------------------------------------------------------------------
\* Whatever the roster, the calendar, the policy, the requests and the pins,
\* the planner takes nobody past the limit except by a day the desk pinned
\* (place_rest_days, plan_month_shifts).
THEOREM LimitHolds == Spec => []OnlyPinsOverwork
<1>1. PlanInv => OnlyPinsOverwork
  BY DEF PlanInv, WrittenOK, OnlyPinsOverwork
<1> QED  BY <1>1, PlanAlways, PTL

\* The overworked report of plan_month_shifts is exact.
THEOREM ReportIsExact == Spec => []OverworkedReported
<1>1. PlanInv => OverworkedReported
  BY DEF PlanInv, WrittenOK, OverworkedReported
<1> QED  BY <1>1, PlanAlways, PTL

\* The monthly promise of rest days is kept unless only pinned days are left.
THEOREM PromiseHolds == Spec => []RestPromiseKept
<1>1. PlanInv => RestPromiseKept
  BY DEF PlanInv, WrittenOK, RestPromiseKept
<1> QED  BY <1>1, PlanAlways, PTL
=============================================================================
