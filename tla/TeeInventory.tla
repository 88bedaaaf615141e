---------------------------- MODULE TeeInventory ----------------------------
(***************************************************************************)
(* How far ahead tee times are on sale (usecase/course_schedule.rs).       *)
(* Field stores a course's week and builds dated tee times from it;        *)
(* CourseBoard keeps the booking horizon and, per course, a watermark of   *)
(* the days it had built.  There is no scheduler: every read of the start  *)
(* ledger tops the courses up to the horizon and then brings Field's own   *)
(* rolling window into line.  Saving a week, moving the horizon and the    *)
(* ledger reads of several desks run side by side, and a PUT whose caller  *)
(* gave up on it may reach Field later.                                    *)
(*                                                                         *)
(* Days are numbered from 1.  A course without a watermark has 0 for both  *)
(* of its dates, which every comparison in the code treats alike.          *)
(***************************************************************************)
EXTENDS Naturals, FiniteSets

CONSTANTS Courses,     \* courses linked to an active reservation resource
          Readers,     \* ledger reads that may run at once
          Busy,        \* those that follow one another all day and end
          Horizons,    \* horizons the club may choose, [mode, n]
          FirstHorizon,
          MaxSpan,     \* BookingHorizon::MAX_DAYS
          FieldMax,    \* FIELD_ROLLING_WINDOW_MAX_DAYS
          NoCourse,
          Ranges,      \* days the operator may build by hand, <<first, last>>
          MaxDay,      \* bound: days
          MaxStrays,   \* bound: PUTs given up on and still on their way
          MaxOffice    \* bound: weeks saved and moves of the horizon, in all

Horizon == [mode : {"days", "through"}, n : Nat]

ASSUME HorizonsAssumption == Horizons \subseteq Horizon /\ FirstHorizon \in Horizons
ASSUME SpansAssumption ==
  /\ MaxSpan \in Nat \ {0} /\ FieldMax \in Nat
  /\ MaxDay \in Nat \ {0} /\ MaxStrays \in Nat /\ MaxOffice \in Nat
ASSUME BusyAssumption == Busy \subseteq Readers
ASSUME NoCourseAssumption == NoCourse \notin Courses
ASSUME RangesAssumption == Ranges \subseteq Nat \X Nat

VARIABLES today,      \* the club's own date
          horizon,    \* the booking horizon in the extension config
          week,       \* week[c]: the week Field holds for c, by save
          rolling,    \* rolling[c]: Field's rollingWindowDays, 0 for null
          built,      \* built[c]: the days Field has tee times for, each with its week
          through,    \* through[c]: generated_through
          checked,    \* checked[c]: checked_on
          ledger,     \* ledger[d]: a ledger read, by step
          save,       \* the week being saved, by step
          move,       \* the move of the horizon, by step
          saves,      \* weeks saved so far
          moves,      \* horizon moves so far
          strays,     \* PUTs of a schedule given up on, which may still reach Field
          saved,      \* ghost, saved[c]: the week last stored, 0 if an older PUT was under way
          owing       \* ghost, owing[c]: the week changed, and not by a save that built it

inventoryVars == <<today, horizon, week, rolling, built, through, checked, ledger, save,
                   move, saves, moves, strays, saved, owing>>
office == <<save, move, saves, moves, strays, saved, owing>>

\* The last date a booking may land on, as of day t.
LastBookable(h, t) ==
  IF h.mode = "days" THEN t + h.n
  ELSE IF h.n < t + MaxSpan THEN h.n ELSE t + MaxSpan

\* What Field can be told of a horizon: a fixed date, or more days than Field
\* takes, opts out.
FieldDays(h) == IF h.mode = "days" /\ h.n <= FieldMax THEN h.n ELSE 0

\* A ledger read: pc, the day it began, the watermarks it saw, the courses it
\* has not come to, the course it is at and the edge it builds to; in its
\* second half the window it expects and the week it saw.
Ledger(pc, day, seen, todo, at, edge, wk) ==
  [pc |-> pc, day |-> day, seen |-> seen, todo |-> todo, at |-> at, edge |-> edge,
   wk |-> wk]
NoMarks == [c \in Courses |-> 0]
Away == Ledger("away", 0, NoMarks, {}, NoCourse, 0, 0)

\* A save or a move: pc, the course at hand, the courses left, the horizon it
\* read, the day it took for today and the edge it builds to.
Task(pc, at, todo, h, day, edge) ==
  [pc |-> pc, at |-> at, todo |-> todo, h |-> h, day |-> day, edge |-> edge]
NoTask == Task("none", NoCourse, {}, FirstHorizon, 0, 0)

\* A schedule on its way to Field: the course, the week, and the window unless
\* the body leaves the window out.
Put(c, wk, edge, keeps) == [at |-> c, wk |-> wk, edge |-> edge, keeps |-> keeps]

\* The days of c on sale, and those of them built from the week Field holds.
Days(c) == {x[1] : x \in built[c]}
Current(c) == {x[1] : x \in {y \in built[c] : y[2] = week[c]}}

InventoryTypeOK ==
  /\ today \in Nat \ {0} /\ horizon \in Horizons
  /\ week \in [Courses -> Nat] /\ saved \in [Courses -> Nat]
  /\ rolling \in [Courses -> Nat]
  /\ built \in [Courses -> SUBSET (Nat \X Nat)]
  /\ through \in [Courses -> Nat] /\ checked \in [Courses -> Nat]
  /\ ledger \in [Readers -> [pc : {"away", "horizon", "top", "mark", "sync", "put"},
                             day : Nat, seen : [Courses -> Nat],
                             todo : SUBSET Courses, at : Courses \cup {NoCourse},
                             edge : Nat, wk : Nat]]
  /\ save \in [pc : {"none", "store", "blind", "build", "mark"},
               at : Courses \cup {NoCourse}, todo : SUBSET Courses,
               h : Horizons, day : Nat, edge : Nat]
  /\ move \in [pc : {"none", "build", "mark"},
               at : Courses \cup {NoCourse}, todo : SUBSET Courses,
               h : Horizons, day : Nat, edge : Nat]
  /\ save.pc # "none" => save.at \in Courses
  /\ move.pc = "mark" => move.at \in Courses
  /\ \A d \in Readers : ledger[d].pc \in {"mark", "put"} => ledger[d].at \in Courses
  /\ saves \in Nat /\ moves \in Nat /\ owing \in [Courses -> BOOLEAN]
  /\ strays \subseteq [at : Courses, wk : Nat, edge : Nat, keeps : BOOLEAN]

InventoryInit ==
  /\ today = 1 /\ horizon = FirstHorizon
  /\ week = [c \in Courses |-> 0] /\ saved = [c \in Courses |-> 0]
  /\ rolling = [c \in Courses |-> 0]
  /\ built = [c \in Courses |-> {}]
  /\ through = [c \in Courses |-> 0] /\ checked = [c \in Courses |-> 0]
  /\ ledger = [d \in Readers |-> Away]
  /\ save = NoTask /\ move = NoTask
  /\ saves = 0 /\ moves = 0 /\ strays = {}
  /\ owing = [c \in Courses |-> FALSE]

\* Field builds the days from a to b of course c from the week it holds; days
\* it had built from another week are brought into line with this one.
Generate(c, a, b) ==
  built' = [built EXCEPT ![c] = {x \in @ : x[1] \notin a..b} \cup ((a..b) \X {week[c]})]

\* Field holds the week w for course c from now on.
HoldWeek(c, w) == /\ week' = [week EXCEPT ![c] = w]
                  /\ owing' = [owing EXCEPT ![c] = @ \/ w # week[c]]

SetWatermark(c, t, day) == /\ through' = [through EXCEPT ![c] = t]
                           /\ checked' = [checked EXCEPT ![c] = day]

\* Midnight.  The last day of the model begins with the office idle.
Midnight ==
  /\ today < MaxDay
  /\ today + 1 = MaxDay => save.pc = "none" /\ move.pc = "none"
  /\ today' = today + 1
  /\ UNCHANGED <<horizon, week, rolling, built, through, checked, ledger, office>>

-----------------------------------------------------------------------------
(* Reading the start ledger: the top-up (ExtendCourseInventoryUseCase). *)

\* (mutant) A course that was ever checked is not looked at again.
CheckedOnce == Courses # {} /\ \A c \in Courses : checked[c] > 0

\* Every course has been built and checked today.
CheckedToday == Courses # {} /\ \A c \in Courses : checked[c] >= today

\* The clock and the watermarks are read; on almost every call that is all.
OpenLedger(d) ==
  /\ ledger[d].pc = "away"
  /\ ledger' = [ledger EXCEPT ![d] =
       IF CheckedToday THEN Ledger("sync", today, NoMarks, Courses, NoCourse,
                                   FieldDays(horizon), 0)
       ELSE Ledger("horizon", today, through, Courses, NoCourse, 0, 0)]
  /\ UNCHANGED <<today, horizon, week, rolling, built, through, checked, office>>

ReadHorizon(d) ==
  LET r == ledger[d] IN
  /\ r.pc = "horizon"
  /\ ledger' = [ledger EXCEPT ![d] = Ledger("top", r.day, r.seen, r.todo, NoCourse,
                                           LastBookable(horizon, r.day), 0)]
  /\ UNCHANGED <<today, horizon, week, rolling, built, through, checked, office>>

\* (mutant) The top-up resumes a day late.
ResumeLate(mark, day) == IF mark + 2 > day THEN mark + 2 ELSE day

\* top_up_range: the day after the watermark, never before today.
Resume(mark, day) == IF mark + 1 > day THEN mark + 1 ELSE day

\* A course that already reaches the edge, or a book that is closed.
Skip(d, c) ==
  LET r == ledger[d] IN
  /\ r.pc = "top" /\ c \in r.todo
  /\ r.edge < r.day \/ r.seen[c] >= r.edge
  /\ ledger' = [ledger EXCEPT ![d] = Ledger("top", r.day, r.seen, r.todo \ {c},
                                           NoCourse, r.edge, 0)]
  /\ UNCHANGED <<today, horizon, week, rolling, built, through, checked, office>>

TopUp(d, c) ==
  LET r == ledger[d] IN
  /\ r.pc = "top" /\ c \in r.todo /\ r.edge >= r.day /\ r.seen[c] < r.edge
  /\ Generate(c, Resume(r.seen[c], r.day), r.edge)
  /\ ledger' = [ledger EXCEPT ![d] = Ledger("mark", r.day, r.seen, r.todo \ {c}, c,
                                           r.edge, 0)]
  /\ UNCHANGED <<today, horizon, week, rolling, through, checked, office>>

\* A course that will not build is left for the next read.
TopUpFails(d, c) ==
  LET r == ledger[d] IN
  /\ r.pc = "top" /\ c \in r.todo /\ r.edge >= r.day /\ r.seen[c] < r.edge
  /\ ledger' = [ledger EXCEPT ![d] = Ledger("top", r.day, r.seen, r.todo \ {c},
                                           NoCourse, r.edge, 0)]
  /\ UNCHANGED <<today, horizon, week, rolling, built, through, checked, office>>

\* Written only after Field said it built the days.
Mark(d) ==
  LET r == ledger[d] IN
  /\ r.pc = "mark"
  /\ SetWatermark(r.at, r.edge, r.day)
  /\ ledger' = [ledger EXCEPT ![d] = Ledger("top", r.day, r.seen, r.todo, NoCourse,
                                           r.edge, 0)]
  /\ UNCHANGED <<today, horizon, week, rolling, built, office>>

MarkFails(d) ==
  LET r == ledger[d] IN
  /\ r.pc = "mark"
  /\ ledger' = [ledger EXCEPT ![d] = Ledger("top", r.day, r.seen, r.todo, NoCourse,
                                           r.edge, 0)]
  /\ UNCHANGED <<today, horizon, week, rolling, built, through, checked, office>>

\* The top-up is over, or stopped short: a failed read ends it, not the ledger.
StartSync(d) ==
  LET r == ledger[d] IN
  /\ r.pc = "horizon" \/ (r.pc = "top" /\ r.todo = {})
  /\ ledger' = [ledger EXCEPT ![d] = Ledger("sync", r.day, NoMarks, Courses, NoCourse,
                                           FieldDays(horizon), 0)]
  /\ UNCHANGED <<today, horizon, week, rolling, built, through, checked, office>>

-----------------------------------------------------------------------------
(* Reading the start ledger: Field's rolling window                        *)
(* (SyncRollingWindowOptInUseCase), under a deadline.                      *)

\* The schedule is read; one that already agrees is left alone.
ReadSchedule(d, c) ==
  LET r == ledger[d] IN
  /\ r.pc = "sync" /\ c \in r.todo
  /\ ledger' = [ledger EXCEPT ![d] =
       IF rolling[c] = r.edge
       THEN Ledger("sync", r.day, NoMarks, r.todo \ {c}, NoCourse, r.edge, 0)
       ELSE Ledger("put", r.day, NoMarks, r.todo \ {c}, c, r.edge, week[c])]
  /\ UNCHANGED <<today, horizon, week, rolling, built, through, checked, office>>

\* (mutant) The body names the window only, and the week is replaced by none.
PutScheduleBare(d) ==
  LET r == ledger[d] IN
  /\ r.pc = "put"
  /\ HoldWeek(r.at, 0)
  /\ rolling' = [rolling EXCEPT ![r.at] = r.edge]
  /\ ledger' = [ledger EXCEPT ![d] = Ledger("sync", r.day, NoMarks, r.todo, NoCourse,
                                           r.edge, 0)]
  /\ UNCHANGED <<today, horizon, built, through, checked, save, move, saves, moves, strays,
                 saved>>

\* Field's PUT replaces the whole schedule: the window, and the week as read.
PutSchedule(d) ==
  LET r == ledger[d] IN
  /\ r.pc = "put"
  /\ HoldWeek(r.at, r.wk)
  /\ rolling' = [rolling EXCEPT ![r.at] = r.edge]
  /\ ledger' = [ledger EXCEPT ![d] = Ledger("sync", r.day, NoMarks, r.todo, NoCourse,
                                           r.edge, 0)]
  /\ UNCHANGED <<today, horizon, built, through, checked, save, move, saves, moves, strays,
                 saved>>

\* The courses are done, the deadline passed, or a call failed; the ledger is
\* drawn.
CloseLedger(d) ==
  /\ ledger[d].pc \in {"sync", "put"}
  /\ ledger' = [ledger EXCEPT ![d] = Away]
  /\ UNCHANGED <<today, horizon, week, rolling, built, through, checked, office>>

\* The deadline passed while a PUT was on its way: the call is dropped, not the
\* PUT.
LeavePut(d) ==
  LET r == ledger[d] IN
  /\ r.pc = "put" /\ Cardinality(strays) < MaxStrays
  /\ strays' = strays \cup {Put(r.at, r.wk, r.edge, FALSE)}
  /\ ledger' = [ledger EXCEPT ![d] = Away]
  /\ UNCHANGED <<today, horizon, week, rolling, built, through, checked, save, move,
                 saves, moves, saved, owing>>

\* It reaches Field after all.
StrayPut(p) ==
  /\ HoldWeek(p.at, p.wk)
  /\ rolling' = IF p.keeps THEN rolling ELSE [rolling EXCEPT ![p.at] = p.edge]
  /\ strays' = strays \ {p}
  /\ UNCHANGED <<today, horizon, built, through, checked, ledger, save, move, saves,
                 moves, saved>>

-----------------------------------------------------------------------------
(* Saving a week (ReplaceCourseScheduleUseCase). *)

\* The horizon is read before the week is stored; not being able to read it
\* does not stop the save.
Save(c, pc) ==
  /\ save.pc = "none" /\ saves + moves < MaxOffice /\ today < MaxDay
  /\ pc \in {"store", "blind"}
  /\ saves' = saves + 1
  /\ save' = Task(pc, c, {}, horizon, 0, 0)
  /\ UNCHANGED <<today, horizon, week, rolling, built, through, checked, ledger, move,
                 moves, strays, saved, owing>>

\* An older schedule of c is on its way, or a sync has read it to put it back.
OlderPut(c) == \/ \E d \in Readers : ledger[d].pc = "put" /\ ledger[d].at = c
               \/ \E p \in strays : p.at = c

\* The week is stored with the window of the horizon that was read.  Today is
\* read next; a closing date behind it leaves nothing to build.
Store ==
  LET edge == LastBookable(save.h, today) IN
  /\ save.pc = "store"
  /\ HoldWeek(save.at, saves)
  /\ saved' = [saved EXCEPT ![save.at] = IF OlderPut(save.at) THEN 0 ELSE saves]
  /\ rolling' = [rolling EXCEPT ![save.at] = FieldDays(save.h)]
  /\ save' = IF edge < today THEN NoTask
             ELSE Task("build", save.at, {}, save.h, today, edge)
  /\ UNCHANGED <<today, horizon, built, through, checked, ledger, move, saves, moves,
                 strays>>

\* Without a horizon the window is left as it is and nothing is built.
StoreBlind ==
  /\ save.pc = "blind"
  /\ HoldWeek(save.at, saves)
  /\ saved' = [saved EXCEPT ![save.at] = IF OlderPut(save.at) THEN 0 ELSE saves]
  /\ save' = NoTask
  /\ UNCHANGED <<today, horizon, rolling, built, through, checked, ledger, move, saves,
                 moves, strays>>

\* The PUT got no answer: the save is reported failed and may be stored yet.
StoreUnanswered ==
  /\ save.pc \in {"store", "blind"} /\ Cardinality(strays) < MaxStrays
  /\ strays' = strays \cup {Put(save.at, saves, FieldDays(save.h), save.pc = "blind")}
  /\ saved' = [saved EXCEPT ![save.at] = 0]
  /\ save' = NoTask
  /\ UNCHANGED <<today, horizon, week, rolling, built, through, checked, ledger, move,
                 saves, moves, owing>>

\* (mutant) A save extends the book as a ledger read does.
SaveTopsUp ==
  /\ save.pc = "build"
  /\ Generate(save.at, Resume(through[save.at], save.day), save.edge)
  /\ save' = Task("mark", save.at, {}, save.h, save.day, save.edge)
  /\ UNCHANGED <<today, horizon, week, rolling, through, checked, ledger, move, saves,
                 moves, strays, saved, owing>>

SaveBuilds ==
  /\ save.pc = "build"
  /\ Generate(save.at, save.day, save.edge)
  /\ save' = Task("mark", save.at, {}, save.h, save.day, save.edge)
  /\ UNCHANGED <<today, horizon, week, rolling, through, checked, ledger, move, saves,
                 moves, strays, saved, owing>>

\* A top-up or a move of the horizon may yet file what it saw or built before.
Filing(c) == \/ \E d \in Readers : ledger[d].pc \in {"horizon", "top", "mark"}
             \/ move.pc = "mark" /\ move.at = c

SaveMarks ==
  /\ save.pc = "mark"
  /\ SetWatermark(save.at, save.edge, save.day)
  /\ save' = NoTask
  /\ owing' = [owing EXCEPT ![save.at] = @ /\ (saved[save.at] # saves \/ Filing(save.at))]
  /\ UNCHANGED <<today, horizon, week, rolling, built, ledger, move, saves, moves, strays,
                 saved>>

\* A call failed: what was written stays, nothing is taken back.
SaveFails ==
  /\ save.pc # "none"
  /\ save' = NoTask
  /\ UNCHANGED <<today, horizon, week, rolling, built, through, checked, ledger, move,
                 saves, moves, strays, saved, owing>>

-----------------------------------------------------------------------------
(* Moving the horizon (SetBookingHorizonUseCase), and building by hand. *)

\* A fixed date must be one the book can reach from today.
Allowed(h) == h.mode = "through" => h.n >= today /\ h.n <= today + MaxSpan

MoveHorizon(h) ==
  /\ move.pc = "none" /\ saves + moves < MaxOffice /\ today < MaxDay
  /\ Allowed(h)
  /\ horizon' = h /\ moves' = moves + 1
  /\ move' = Task("build", NoCourse, Courses, h, today, LastBookable(h, today))
  /\ UNCHANGED <<today, week, rolling, built, through, checked, ledger, save, saves,
                 strays, saved, owing>>

\* Every course is rebuilt from today.
Rebuild(c) ==
  /\ move.pc = "build" /\ c \in move.todo
  /\ Generate(c, move.day, move.edge)
  /\ move' = Task("mark", c, move.todo \ {c}, move.h, move.day, move.edge)
  /\ UNCHANGED <<today, horizon, week, rolling, through, checked, ledger, save, saves,
                 moves, strays, saved, owing>>

\* One course that would not rebuild does not stop the others.
RebuildFails(c) ==
  /\ move.pc = "build" /\ c \in move.todo
  /\ move' = Task("build", NoCourse, move.todo \ {c}, move.h, move.day, move.edge)
  /\ UNCHANGED <<today, horizon, week, rolling, built, through, checked, ledger, save,
                 saves, moves, strays, saved, owing>>

RebuildMarks ==
  /\ move.pc = "mark"
  /\ SetWatermark(move.at, move.edge, move.day)
  /\ move' = Task("build", NoCourse, move.todo, move.h, move.day, move.edge)
  /\ UNCHANGED <<today, horizon, week, rolling, built, ledger, save, saves, moves, strays,
                 saved, owing>>

RebuildMarkFails ==
  /\ move.pc = "mark"
  /\ move' = Task("build", NoCourse, move.todo, move.h, move.day, move.edge)
  /\ UNCHANGED <<today, horizon, week, rolling, built, through, checked, ledger, save,
                 saves, moves, strays, saved, owing>>

\* The courses are done, or they could not be listed.
MoveEnds ==
  /\ move.pc = "build"
  /\ move' = NoTask
  /\ UNCHANGED <<today, horizon, week, rolling, built, through, checked, ledger, save,
                 saves, moves, strays, saved, owing>>

\* Tee times built by hand over a range of the operator's: no watermark.
GenerateByHand(c, a, b) ==
  /\ a <= b /\ b - a < MaxSpan + 1
  /\ Generate(c, a, b)
  /\ UNCHANGED <<today, horizon, week, rolling, through, checked, ledger, office>>

-----------------------------------------------------------------------------
LedgerStep(d) ==
  \/ OpenLedger(d) \/ ReadHorizon(d) \/ Mark(d) \/ MarkFails(d) \/ StartSync(d)
  \/ PutSchedule(d) \/ CloseLedger(d) \/ LeavePut(d)
  \/ \E c \in Courses : \/ Skip(d, c) \/ TopUp(d, c) \/ TopUpFails(d, c)
                         \/ ReadSchedule(d, c)
SaveStep == Store \/ StoreBlind \/ StoreUnanswered \/ SaveBuilds \/ SaveMarks \/ SaveFails
MoveStep == \/ RebuildMarks \/ RebuildMarkFails \/ MoveEnds
            \/ \E c \in Courses : Rebuild(c) \/ RebuildFails(c)

InventoryNext ==
  \/ Midnight
  \/ \E d \in Readers : LedgerStep(d)
  \/ SaveStep \/ MoveStep
  \/ \E p \in strays : StrayPut(p)
  \/ \E c \in Courses : \E pc \in {"store", "blind"} : Save(c, pc)
  \/ \E h \in Horizons : MoveHorizon(h)
  \/ \E c \in Courses : \E r \in Ranges : GenerateByHand(c, r[1], r[2])

InventorySpec == InventoryInit /\ [][InventoryNext]_inventoryVars

\* A busy desk opens the ledger again and again, its reads end, and a call that is
\* made again and again gets through; the read of another desk may stop anywhere.
\* Requests of the office end.
InventoryFairness ==
  /\ WF_inventoryVars(Midnight) /\ WF_inventoryVars(SaveStep) /\ WF_inventoryVars(MoveStep)
  /\ \A d \in Busy :
       /\ WF_inventoryVars(LedgerStep(d))
       /\ SF_inventoryVars(ReadHorizon(d)) /\ SF_inventoryVars(Mark(d))
       /\ SF_inventoryVars(PutSchedule(d))
       /\ \A c \in Courses : SF_inventoryVars(TopUp(d, c)) /\ SF_inventoryVars(ReadSchedule(d, c))
InventoryFairSpec == InventorySpec /\ InventoryFairness

-----------------------------------------------------------------------------
(* Properties. *)

\* The comment at the top-up: "a watermark ahead of the inventory would skip
\* the days it claims".  Whatever ran side by side or failed, every day from
\* today to a course's watermark has tee times.
WatermarkIsBuilt == \A c \in Courses : \A x \in today..through[c] : x \in Days(c)

\* A week the operator stored stays stored until the next save: the ledger
\* read, which puts the whole schedule back, undoes it only if it had read the
\* one before (sync_rolling_window_opt_in).
SavedWeekStands == \A c \in Courses : saved[c] # 0 => week[c] = saved[c]

\* The days a watermark claims are sold by the week Field holds, unless that
\* week came in without its build: a save whose build or watermark failed (the
\* week is stored all the same), or an older schedule put back over it.  Then
\* the days on sale stay those of the week before, and the top-up, which goes by
\* the watermark, never comes back to them.
WatermarkIsCurrent ==
  \A c \in Courses : ~owing[c] => today..through[c] \subseteq Current(c)

\* On a day on which one desk keeps reading the ledger, beside reads that stall
\* and an idle office, every course comes to be built up to the horizon: from
\* the week Field held when each day was built, which may be an empty one or the
\* one before, and from the week it holds now where nothing is owed.
WindowIsFilled ==
  <>[](\A c \in Courses :
         LET window == today..LastBookable(horizon, today) IN
         window \subseteq Days(c) /\ (~owing[c] => window \subseteq Current(c)))

=============================================================================
