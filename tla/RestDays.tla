------------------------------ MODULE RestDays ------------------------------
(***************************************************************************)
(* The monthly planner of caddie days (caddie_shift.rs), step by step.     *)
(*                                                                         *)
(* For each caddie of the roster plan_month_shifts counts the run of work  *)
(* that reaches into the month (run_before), chooses the rest days         *)
(* (place_rest_days: one per window, then a top-up to the club's promise)  *)
(* and writes the month day by day, reporting who is over the limit.  The  *)
(* count of people off each day is shared by the whole roster, in roster   *)
(* order.  Between runs the desk pins and edits days and requests are      *)
(* filed.  The run itself works on one reading of the table; what happens  *)
(* to the table meanwhile is the subject of ShiftMirror.                   *)
(***************************************************************************)
EXTENDS Integers, FiniteSets

CONSTANTS
  RosterSize,   \* caddies, numbered in roster order
  Assignable,   \* those neither retired nor suspended
  HasCourse,    \* those with a main course
  Days,         \* the calendar, as integers
  Months,       \* months that may be planned
  FirstOf,      \* first day of each month
  LastOf,       \* last day of each month
  Statute,      \* MAX_CONSECUTIVE_WORK_DAYS
  MaxRun,       \* the club's limit, clamped to the statute
  MinRest,      \* rest days promised per month
  Avoided,      \* days on weekdays the club protects from rest days
  UnfiledOff,   \* whether a day nobody filed for reads as off
  MaxChanges    \* bound: edits, pins and filings in one behaviour

Roster == 1..RosterSize
Kinds == {"none", "off", "working"}

ASSUME RosterAssumption == RosterSize \in Nat \ {0} /\ Assignable \subseteq Roster
ASSUME CalendarAssumption ==
  /\ Days \subseteq Int
  /\ FirstOf \in [Months -> Days]
  /\ LastOf \in [Months -> Days]
  /\ \A m \in Months : FirstOf[m] <= LastOf[m] /\ FirstOf[m]..LastOf[m] \subseteq Days
ASSUME PolicyAssumption ==
  /\ Statute \in Nat
  /\ MaxRun \in 1..Statute
  /\ MinRest \in Nat
  /\ UnfiledOff \in BOOLEAN
ASSUME BoundAssumption == MaxChanges \in Nat

VARIABLES
  shifts,      \* golf_caddie_shifts: "none" where nothing is confirmed
  pins,        \* the days of each caddie the desk pinned
  requests,    \* what each caddie filed: "none", "off" or "working"
  changes,     \* edits, pins and filings so far
  \* the run
  pc,          \* idle, back, place, topup, write or done
  month,       \* the month being planned
  caddie,      \* the caddie being planned
  index,       \* the next day to settle
  worked,      \* working days in a row behind index
  inserted,    \* rest days chosen for this caddie
  resting,     \* how many are off each day so far
  plan,        \* the days written so far
  streak,      \* worked_in_a_row
  overworked,  \* caddies reported over the limit
  unplaced     \* caddies reported as working nowhere

desk == <<shifts, pins, requests, changes>>
report == <<plan, streak, overworked, unplaced>>
vars == <<shifts, pins, requests, changes, pc, month, caddie, index, worked, inserted,
          resting, plan, streak, overworked, unplaced>>

First == FirstOf[month]
Last == LastOf[month]
Dates == First..Last

Init ==
  /\ shifts = [c \in Roster |-> [d \in Days |-> "none"]]
  /\ pins = [c \in Roster |-> {}]
  /\ requests = [c \in Roster |-> [d \in Days |-> "none"]]
  /\ changes = 0
  /\ pc = "idle"
  /\ month \in Months
  /\ caddie = 1
  /\ index = FirstOf[month]
  /\ worked = 0
  /\ inserted = {}
  /\ resting = [d \in Days |-> 0]
  /\ plan = [c \in Roster |-> [d \in Days |-> "none"]]
  /\ streak = 0
  /\ overworked = {}
  /\ unplaced = {}

-----------------------------------------------------------------------------
(* What happens between runs. *)

Change == pc = "idle" /\ changes < MaxChanges /\ changes' = changes + 1

\* ShiftEdit::apply: the desk settles one day, and may hold it.
EditDay(c, d, k, pinned) ==
  /\ Change
  /\ shifts' = [shifts EXCEPT ![c][d] = k]
  /\ pins' = [pins EXCEPT ![c] = IF pinned THEN @ \cup {d} ELSE @ \ {d}]
  /\ UNCHANGED <<requests, pc, month, caddie, index, worked, inserted, resting, report>>

FileRequest(c, d, k) ==
  /\ Change
  /\ requests[c][d] # k
  /\ requests' = [requests EXCEPT ![c][d] = k]
  /\ UNCHANGED <<shifts, pins, pc, month, caddie, index, worked, inserted, resting, report>>

-----------------------------------------------------------------------------
(* plan_month_shifts. *)

\* A caddie's turn starts with nothing counted and nothing chosen.
NewTurn(c) == caddie' = c /\ worked' = 0 /\ inserted' = {} /\ pc' = "back"

Generate(m) ==
  /\ pc = "idle"
  /\ month' = m
  /\ NewTurn(1)
  /\ index' = FirstOf[m]
  /\ resting' = [d \in Days |-> 0]
  /\ plan' = [c \in Roster |-> [d \in Days |-> "none"]]
  /\ overworked' = {}
  /\ unplaced' = {}
  /\ UNCHANGED <<desk, streak>>

\* The days before the month the run reads: no further back than the statute.
Earlier(c, d) == /\ d \in Days
                 /\ d < First
                 /\ d >= First - Statute
                 /\ shifts[c][d] = "working"

\* run_before: one more working day behind the first of the month ...
CountBack ==
  /\ pc = "back"
  /\ worked < MaxRun
  /\ Earlier(caddie, First - worked - 1)
  /\ worked' = worked + 1
  /\ UNCHANGED <<desk, pc, month, caddie, index, inserted, resting, report>>

\* Mutant: the month pass forgets the run it starts from.
CountedAfresh ==
  /\ pc = "back"
  /\ ~(worked < MaxRun /\ Earlier(caddie, First - worked - 1))
  /\ pc' = IF caddie \in Assignable THEN "place" ELSE "write"
  /\ index' = First
  /\ streak' = 0
  /\ UNCHANGED <<desk, month, caddie, worked, inserted, resting, plan, overworked, unplaced>>

\* ... until a day off, a day nothing was confirmed for, or the limit.
\* A caddie who is not assignable has no rest days to place.
Counted ==
  /\ pc = "back"
  /\ ~(worked < MaxRun /\ Earlier(caddie, First - worked - 1))
  /\ pc' = IF caddie \in Assignable THEN "place" ELSE "write"
  /\ index' = First
  /\ streak' = worked
  /\ UNCHANGED <<desk, month, caddie, worked, inserted, resting, plan, overworked, unplaced>>

-----------------------------------------------------------------------------
(* place_rest_days. *)

Pinned(d) == d \in pins[caddie]

FiledOff(d) == \/ requests[caddie][d] = "off"
               \/ requests[caddie][d] = "none" /\ UnfiledOff

\* A day already spoken for: pinned off, or filed off.
AlreadyOff(d) == IF Pinned(d) THEN shifts[caddie][d] # "working" ELSE FiledOff(d)

\* A day pinned as working cannot be turned into a rest day.
CanRest(d) == ~(Pinned(d) /\ shifts[caddie][d] = "working")

\* Mutant: an exhausted allowance still gives one more day.
DeadlineLate == index + (IF worked < MaxRun THEN MaxRun - worked ELSE 1)

\* The last day by which a rest has to fall.
Deadline == index + (IF worked < MaxRun THEN MaxRun - worked ELSE 0)
Window == index..Deadline

Protected(d) == IF d \in Avoided THEN 1 ELSE 0

\* The order of choice: not protected, then fewest colleagues off.
Busier(d, e) == \/ Protected(d) < Protected(e)
                \/ Protected(d) = Protected(e) /\ resting[d] < resting[e]
Level(d, e) == Protected(d) = Protected(e) /\ resting[d] = resting[e]

\* choose_rest_day: the best day of the window, the latest among equals.
IsChoice(r) ==
  /\ r \in Window
  /\ CanRest(r)
  /\ \A d \in Window : CanRest(d) => Busier(r, d) \/ (Level(r, d) /\ d <= r)

\* resting_by_date: one more colleague is off that day.
Rest(r) == resting' = [resting EXCEPT ![r] = @ + 1]

\* The first day of the window the caddie is off anyway.
TakeFiledRest(r) ==
  /\ pc = "place"
  /\ Deadline <= Last
  /\ r \in Window
  /\ AlreadyOff(r)
  /\ \A d \in Window : AlreadyOff(d) => r <= d
  /\ Rest(r)
  /\ index' = r + 1
  /\ worked' = 0
  /\ UNCHANGED <<desk, pc, month, caddie, inserted, report>>

InsertRest(r) ==
  /\ pc = "place"
  /\ Deadline <= Last
  /\ \A d \in Window : ~AlreadyOff(d)
  /\ IsChoice(r)
  /\ Rest(r)
  /\ inserted' = inserted \cup {r}
  /\ index' = r + 1
  /\ worked' = 0
  /\ UNCHANGED <<desk, pc, month, caddie, report>>

\* Mutant: the loop does not move past a window it cannot rest in.
NoRestStuck ==
  /\ pc = "place"
  /\ Deadline <= Last
  /\ \A d \in Window : ~AlreadyOff(d) /\ ~CanRest(d)
  /\ worked' = worked
  /\ UNCHANGED <<desk, pc, month, caddie, index, inserted, resting, report>>

\* Every day of the window is pinned as working.
NoRest ==
  /\ pc = "place"
  /\ Deadline <= Last
  /\ \A d \in Window : ~AlreadyOff(d) /\ ~CanRest(d)
  /\ worked' = worked + (Deadline + 1 - index)
  /\ index' = Deadline + 1
  /\ UNCHANGED <<desk, pc, month, caddie, inserted, resting, report>>

\* The deadline falls past the end of the month.
Placed ==
  /\ pc = "place"
  /\ Deadline > Last
  /\ pc' = "topup"
  /\ UNCHANGED <<desk, month, caddie, index, worked, inserted, resting, report>>

\* Mutant: a day filed off counts although the desk pinned it as working.
RestDaysAsFiled == {d \in Dates : FiledOff(d) \/ d \in inserted}

RestDaysSoFar == {d \in Dates : AlreadyOff(d) \/ d \in inserted}
Spare == {d \in Dates : d \notin inserted /\ ~AlreadyOff(d) /\ CanRest(d)}

\* One more day off, the earliest among equals.
TopUp(r) ==
  /\ pc = "topup"
  /\ Cardinality(RestDaysSoFar) < MinRest
  /\ r \in Spare
  /\ \A d \in Spare : Busier(r, d) \/ (Level(r, d) /\ r <= d)
  /\ Rest(r)
  /\ inserted' = inserted \cup {r}
  /\ UNCHANGED <<desk, pc, month, caddie, index, worked, report>>

ToppedUp ==
  /\ pc = "topup"
  /\ Cardinality(RestDaysSoFar) >= MinRest \/ Spare = {}
  /\ pc' = "write"
  /\ index' = First
  /\ UNCHANGED <<desk, month, caddie, worked, inserted, resting, report>>

-----------------------------------------------------------------------------
(* The month pass. *)

\* plan_one_day, with the inserted rest days taken out; a pinned day stands.
DayFor(d) ==
  IF Pinned(d) THEN shifts[caddie][d]
  ELSE IF caddie \notin Assignable \/ FiledOff(d) \/ d \in inserted THEN "off"
  ELSE "working"

WriteDay ==
  LET k == DayFor(index)
      run == IF k = "working" THEN streak + 1 ELSE 0
  IN /\ pc = "write"
     /\ index <= Last
     /\ plan' = [plan EXCEPT ![caddie][index] = k]
     /\ streak' = run
     /\ overworked' = IF run > MaxRun THEN overworked \cup {caddie} ELSE overworked
     /\ unplaced' = IF k = "working" /\ ~Pinned(index) /\ caddie \notin HasCourse
                    THEN unplaced \cup {caddie} ELSE unplaced
     /\ index' = index + 1
     /\ UNCHANGED <<desk, pc, month, caddie, worked, inserted, resting>>

NextCaddie ==
  /\ pc = "write"
  /\ index > Last
  /\ caddie < RosterSize
  /\ NewTurn(caddie + 1)
  /\ UNCHANGED <<desk, month, index, resting, report>>

LastCaddie ==
  /\ pc = "write"
  /\ index > Last
  /\ caddie = RosterSize
  /\ pc' = "done"
  /\ UNCHANGED <<desk, month, caddie, index, worked, inserted, resting, report>>

\* save_shifts over the whole month; a preview writes nothing.
Save ==
  /\ pc = "done"
  /\ shifts' = [c \in Roster |-> [d \in Days |->
                  IF d \in Dates THEN plan[c][d] ELSE shifts[c][d]]]
  /\ pc' = "idle"
  /\ UNCHANGED <<pins, requests, changes, month, caddie, index, worked, inserted, resting, report>>

Preview ==
  /\ pc = "done"
  /\ pc' = "idle"
  /\ UNCHANGED <<desk, month, caddie, index, worked, inserted, resting, report>>

-----------------------------------------------------------------------------
Place ==
  \/ \E r \in Days : TakeFiledRest(r) \/ InsertRest(r) \/ TopUp(r)
  \/ NoRest
  \/ Placed
  \/ ToppedUp

Run ==
  \/ CountBack
  \/ Counted
  \/ Place
  \/ WriteDay
  \/ NextCaddie
  \/ LastCaddie
  \/ Save
  \/ Preview

Desk ==
  \E c \in Roster, d \in Days, k \in {"off", "working"} :
    \/ \E pinned \in BOOLEAN : EditDay(c, d, k, pinned)
    \/ FileRequest(c, d, k)

Next == Desk \/ (\E m \in Months : Generate(m)) \/ Run

\* The planner is a loop on one thread: once started it runs on.
Spec == Init /\ [][Next]_vars /\ WF_vars(Run)

-----------------------------------------------------------------------------
(* Properties. *)

TypeOK ==
  /\ shifts \in [Roster -> [Days -> Kinds]]
  /\ pins \in [Roster -> SUBSET Days]
  /\ requests \in [Roster -> [Days -> Kinds]]
  /\ changes \in Nat
  /\ pc \in {"idle", "back", "place", "topup", "write", "done"}
  /\ month \in Months
  /\ caddie \in Roster
  /\ index \in Int
  /\ worked \in Nat
  /\ inserted \in SUBSET Days
  /\ resting \in [Days -> Nat]
  /\ plan \in [Roster -> [Days -> Kinds]]
  /\ streak \in Nat
  /\ overworked \in SUBSET Roster
  /\ unplaced \in SUBSET Roster

\* Caddies whose month has been written.
Written == IF pc = "done" THEN Roster
           ELSE IF pc = "idle" THEN {} ELSE {c \in Roster : c < caddie}

Works(c, d) == Earlier(c, d) \/ (d \in Dates /\ plan[c][d] = "working")

\* Day d ends a run of more than MaxRun working days.
OverLimit(c, d) == \A e \in (d - MaxRun)..d : Works(c, e)

\* "Only pinned days can do this": whatever was filed, pinned, protected and
\* worked before the month, a day that takes a caddie past the limit is a day
\* the desk pinned, never one the run could have turned into a rest day
\* (place_rest_days against plan_month_shifts' own pass).
OnlyPinsOverwork ==
  \A c \in Written : \A d \in Dates : OverLimit(c, d) => d \in pins[c]

\* The report names exactly the caddies over the limit, runs that began in
\* the previous month included (worked_in_a_row and run_before against the
\* written month).
OverworkedReported ==
  \A c \in Written : c \in overworked <=> \E d \in Dates : OverLimit(c, d)

\* The club's promise is kept, or nothing is left to give: fewer than MinRest
\* days off means that every day worked is one the desk pinned.
RestPromiseKept ==
  \A c \in Written \cap Assignable :
    \/ Cardinality({d \in Dates : plan[c][d] # "working"}) >= MinRest
    \/ {d \in Dates : plan[c][d] = "working"} \subseteq pins[c]

\* The planner's loops end: every run comes back to the desk.
RunEnds == pc # "idle" ~> pc = "idle"

=============================================================================
