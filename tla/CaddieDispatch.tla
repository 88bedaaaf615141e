--------------------------- MODULE CaddieDispatch ---------------------------
(***************************************************************************)
(* One day's caddie assignments.                                           *)
(*                                                                         *)
(* Field keeps the bookings and the assignment rows, CourseBoard the other *)
(* work a caddie is put on and the record of cancellations.  Nothing ties  *)
(* them together: every use case reads the day, decides, and then writes   *)
(* to Field one call at a time.  A request here is one run of a use case.  *)
(* Its reads and checks are one step, every write after them is another,   *)
(* and other requests may run in between.                                  *)
(*                                                                         *)
(* A round lasts RoundLength, which a row does not say: CourseBoard files  *)
(* none and reads every row back as Length (DEFAULT_ASSIGNMENT_MINUTES).   *)
(* Groups are numbered in tee-time order.                                  *)
(*                                                                         *)
(* The assignment table closes a row by writing it back as it was loaded,  *)
(* and update_caddie_assignment checks nothing.  So rows are kept as each  *)
(* Screen loaded them, and stale names the rows such a write has moved or  *)
(* revived behind the checks' back.                                        *)
(***************************************************************************)
EXTENDS Integers, Sequences, FiniteSets

CONSTANTS
  Requests,     \* use-case runs that may be in progress at once
  Screens,      \* assignment tables open at the desk
  GroupCount,   \* bookings of the day
  StartOf,      \* tee time of each group
  Length,       \* how long a row holds its caddie
  RoundLength,  \* how long each group's round lasts by its plan
  NeedsCaddie,  \* groups whose plan includes a caddie
  Caddies,
  Assignable,   \* caddies taking rounds
  ConfirmedOff, \* caddies whose confirmed day is off
  OnShift,      \* tee times each caddie's shift request covers
  StandsOn,     \* groups on the course each caddie is placed on
  MaxRounds,    \* daily limit of each caddie
  Windows,      \* stretches of other work, [from, to]
  Nobody,
  MaxRequests   \* bound: requests in one behaviour

Groups == 1..GroupCount
Statuses == {"assigned", "completed", "cancelled"}

ASSUME DayAssumption ==
  /\ GroupCount \in Nat
  /\ StartOf \in [Groups -> Int]
  /\ \A g, h \in Groups : g < h => StartOf[g] <= StartOf[h]
  /\ Length \in Nat \ {0}
  /\ RoundLength \in [Groups -> Nat \ {0}]
  /\ NeedsCaddie \subseteq Groups
  /\ \A w \in Windows : w.from \in Int /\ w.to \in Int /\ w.from < w.to
ASSUME RosterAssumption ==
  /\ Assignable \subseteq Caddies
  /\ ConfirmedOff \subseteq Caddies
  /\ Nobody \notin Caddies
  /\ OnShift \in [Caddies -> SUBSET Int]
  /\ StandsOn \in [Caddies -> SUBSET Groups]
  /\ MaxRounds \in [Caddies -> Nat]
ASSUME BoundAssumption == MaxRequests \in Nat

VARIABLES
  booked,  \* Field: whether each booking still stands
  rows,    \* Field: the assignments, in the order they were filed
  duties,  \* CourseBoard: the windows each caddie is on other work
  ledger,  \* CourseBoard: "none", or a cancellation "bare" or in "full" detail
  pc,      \* what each request does next
  job,     \* what it was asked
  todo,    \* the rows it has still to write
  begun,   \* requests begun
  seen,    \* the rows as each screen loaded them
  stale    \* observed: rows a status update moved or revived

day == <<booked, rows, duties, ledger, stale>>
vars == <<booked, rows, duties, ledger, pc, job, todo, begun, seen, stale>>

Row(c, g, t, s) == [caddie |-> c, group |-> g, at |-> t, status |-> s]
\* A pending write: row 0 is a row to be created.
Write(i, row) == [id |-> i, row |-> row]
Job(k, G) == [kind |-> k, groups |-> G, full |-> TRUE, clean |-> TRUE,
              caddie |-> Nobody, window |-> [from |-> 0, to |-> 0]]
NoJob == Job("none", {})

Init ==
  /\ booked = [g \in Groups |-> TRUE]
  /\ rows = <<>>
  /\ duties = [c \in Caddies |-> {}]
  /\ ledger = [g \in Groups |-> "none"]
  /\ pc = [r \in Requests |-> "idle"]
  /\ job = [r \in Requests |-> NoJob]
  /\ todo = [r \in Requests |-> <<>>]
  /\ begun = 0
  /\ seen = [p \in Screens |-> <<>>]
  /\ stale = {}

-----------------------------------------------------------------------------
(* The checks. *)

\* holds_the_round
Live(row) == row.status # "cancelled"
\* A stretch of d hours from t meets one of e hours from u.
Overlaps(t, d, u, e) == t < u + e /\ u < t + d
Blocks(w, t, d) == w.from < t + d /\ t < w.to
\* A round of d hours from t meets the hours a row is read to hold.
Clashes(row, t, d) == Overlaps(row.at, Length, t, d)

\* The hours a caller states for a round placed by hand: its plan's, or none.
Stated(g) == {RoundLength[g], Length}

\* Mutant: the group's own row is looked for among the caddie's rounds only.
CanWalkOwnRows(c, g, t, d, moving) ==
  /\ c \in Assignable
  /\ \A w \in duties[c] : ~Blocks(w, t, d)
  /\ t \in OnShift[c]
  /\ \A i \in DOMAIN rows \ moving : Live(rows[i]) /\ rows[i].caddie = c =>
       rows[i].group # g /\ ~Clashes(rows[i], t, d)

\* Mutant: rounds are compared by tee time, not by the hours they take.
CanWalkByTeeTime(c, g, t, d, moving) ==
  /\ c \in Assignable
  /\ \A w \in duties[c] : ~Blocks(w, t, d)
  /\ t \in OnShift[c]
  /\ \A i \in DOMAIN rows \ moving : Live(rows[i]) =>
       /\ rows[i].group # g
       /\ ~(rows[i].caddie = c /\ rows[i].at = t)

\* check_round_can_be_walked for d hours; moving holds the row being moved, if
\* any.
CanWalk(c, g, t, d, moving) ==
  /\ c \in Assignable
  /\ \A w \in duties[c] : ~Blocks(w, t, d)
  /\ t \in OnShift[c]
  /\ \A i \in DOMAIN rows \ moving : Live(rows[i]) =>
       /\ rows[i].group # g
       /\ ~(rows[i].caddie = c /\ Clashes(rows[i], t, d))

\* The members of a finite set of numbers, smallest first.
Ascending(S) ==
  LET N == 1..Cardinality(S) IN
  CHOOSE q \in [N -> S] : /\ \A x \in S : \E n \in N : q[n] = x
                         /\ \A m, n \in N : m < n => q[m] < q[n]

Begin(r) ==
  /\ pc[r] = "idle"
  /\ begun < MaxRequests
  /\ begun' = begun + 1
  /\ UNCHANGED seen

Starts(r, step, j, writes) ==
  /\ pc' = [pc EXCEPT ![r] = step]
  /\ job' = [job EXCEPT ![r] = j]
  /\ todo' = [todo EXCEPT ![r] = writes]
  /\ UNCHANGED day

-----------------------------------------------------------------------------
(* Placing a round by hand. *)

\* create_caddie_assignment
Name(r, c, g) ==
  /\ Begin(r)
  /\ \E d \in Stated(g) : CanWalk(c, g, StartOf[g], d, {})
  /\ Starts(r, "write", Job("name", {g}), <<Write(0, Row(c, g, StartOf[g], "assigned"))>>)

\* reassign_caddie_assignment: what is not sent stays as it was read, the
\* status always.
Reassign(r, i, c, g, t) ==
  /\ Begin(r)
  /\ Live(rows[i])
  /\ t \in {StartOf[g], rows[i].at}
  /\ \E d \in Stated(g) : CanWalk(c, g, t, d, {i})
  /\ Starts(r, "write", Job("move", {g}), <<Write(i, Row(c, g, t, rows[i].status))>>)

\* The table is loaded, or loaded again.
Load(p) ==
  /\ seen' = [seen EXCEPT ![p] = rows]
  /\ UNCHANGED <<day, pc, job, todo, begun>>

\* updateStatus, update_caddie_assignment: row i goes back as screen p loaded
\* it, closed.  A round whose booking is gone is offered only its cancellation.
UpdateStatus(r, p, i, s) ==
  LET row == seen[p][i] IN
  /\ Begin(r)
  /\ \/ row.status = "assigned"
     \/ s = "cancelled" /\ Live(row) /\ ~booked[row.group]
  /\ Starts(r, "write", Job("status", {}),
            <<Write(i, Row(row.caddie, row.group, row.at, s))>>)

-----------------------------------------------------------------------------
(* auto_assign_caddies *)

\* The tee sheet is read first.
AutoAssign(r) ==
  /\ Begin(r)
  /\ Starts(r, "plan", Job("auto", {g \in NeedsCaddie : booked[g]}), <<>>)

Rounds(c) == {i \in DOMAIN rows : rows[i].caddie = c /\ Live(rows[i])}

\* Groups nobody is on yet.
Open(G) == {g \in G : \A i \in DOMAIN rows : Live(rows[i]) => rows[i].group # g}

\* Mutant: a pick is not remembered against the caddie's limit.
EligibleUncounted(c, g, f) ==
  LET earlier == {h \in DOMAIN f : h < g /\ f[h] = c} IN
  /\ c \in Assignable \ ConfirmedOff
  /\ Cardinality(Rounds(c)) < MaxRounds[c]
  /\ g \in StandsOn[c]
  /\ StartOf[g] \in OnShift[c]
  /\ \A i \in Rounds(c) : ~Clashes(rows[i], StartOf[g], RoundLength[g])
  /\ \A h \in earlier : ~Overlaps(StartOf[h], RoundLength[h], StartOf[g], RoundLength[g])
  /\ \A w \in duties[c] : ~Blocks(w, StartOf[g], RoundLength[g])

\* Who may take group g when the picks f are made for the groups before it.
Eligible(c, g, f) ==
  LET earlier == {h \in DOMAIN f : h < g /\ f[h] = c} IN
  /\ c \in Assignable \ ConfirmedOff
  /\ Cardinality(Rounds(c)) + Cardinality(earlier) < MaxRounds[c]
  /\ g \in StandsOn[c]
  /\ StartOf[g] \in OnShift[c]
  /\ \A i \in Rounds(c) : ~Clashes(rows[i], StartOf[g], RoundLength[g])
  /\ \A h \in earlier : ~Overlaps(StartOf[h], RoundLength[h], StartOf[g], RoundLength[g])
  /\ \A w \in duties[c] : ~Blocks(w, StartOf[g], RoundLength[g])

\* plan_caddie_assignments, whoever the ranking prefers: in tee-time order a
\* group gets an eligible caddie, or is skipped when there is none.
IsPlan(f) ==
  \A g \in DOMAIN f :
    IF f[g] = Nobody THEN \A c \in Caddies : ~Eligible(c, g, f)
                     ELSE Eligible(f[g], g, f)

InOrder(f) == Ascending({g \in DOMAIN f : f[g] # Nobody})

AutoPlan(r) ==
  /\ pc[r] = "plan"
  /\ \E f \in [Open(job[r].groups) -> Caddies \cup {Nobody}] :
       LET picks == InOrder(f) IN
       /\ IsPlan(f)
       /\ todo' = [todo EXCEPT ![r] = [n \in DOMAIN picks |->
             Write(0, Row(f[picks[n]], picks[n], StartOf[picks[n]], "assigned"))]]
       /\ pc' = [pc EXCEPT ![r] = IF picks = <<>> THEN "idle" ELSE "write"]
  /\ UNCHANGED <<day, job, begun, seen>>

-----------------------------------------------------------------------------
(* Taking rounds off. *)

\* The writes that cancel the rows I.
Releases(I) ==
  LET ids == Ascending(I) IN
  [n \in DOMAIN ids |->
     LET row == rows[ids[n]] IN Write(ids[n], Row(row.caddie, row.group, row.at, "cancelled"))]

\* release_assignments leaves started rounds alone.
Unstarted(row) == row.status = "assigned"

\* release_day_caddie_assignments
ReleaseDay(r) ==
  LET writes == Releases({i \in DOMAIN rows : Unstarted(rows[i])}) IN
  /\ Begin(r)
  /\ writes # <<>>
  /\ Starts(r, "release", Job("release", {}), writes)

\* cancel_reservation: the booking is read, for the detail only.
Cancel(r, g, full) ==
  /\ Begin(r)
  /\ Starts(r, "withdraw", [Job("cancel", {g}) EXCEPT !.full = full], <<>>)

CancelField(r) ==
  /\ pc[r] = "withdraw"
  /\ booked' = [g \in Groups |-> booked[g] /\ g \notin job[r].groups]
  /\ pc' = [pc EXCEPT ![r] = "record"]
  /\ UNCHANGED <<rows, duties, ledger, job, todo, begun, seen, stale>>

\* Mutant: the second record replaces the first.
RecordAnew(r) ==
  /\ pc[r] = "record"
  /\ ledger' = [g \in Groups |->
        IF g \in job[r].groups THEN (IF job[r].full THEN "full" ELSE "bare") ELSE ledger[g]]
  /\ pc' = [pc EXCEPT ![r] = "list"]
  /\ UNCHANGED <<booked, rows, duties, job, todo, begun, seen, stale>>

\* record_cancellation: a second record changes the reason, never the detail.
Record(r) ==
  /\ pc[r] = "record"
  /\ ledger' = [g \in Groups |->
        IF g \in job[r].groups /\ ledger[g] = "none"
        THEN (IF job[r].full THEN "full" ELSE "bare") ELSE ledger[g]]
  /\ pc' = [pc EXCEPT ![r] = "list"]
  /\ UNCHANGED <<booked, rows, duties, job, todo, begun, seen, stale>>

RecordFails(r) ==
  /\ pc[r] = "record"
  /\ pc' = [pc EXCEPT ![r] = "list"]
  /\ UNCHANGED <<day, job, todo, begun, seen>>

\* Mutant: only rounds not yet started come off a cancelled booking.
HoldsGroupUnstarted(row, G) == row.group \in G /\ row.status = "assigned"

\* The rows release_caddies takes off the booking.
HoldsGroup(row, G) == row.group \in G /\ Live(row)

\* release_caddies: the rows are read only now.
ListRows(r) ==
  LET writes == Releases({i \in DOMAIN rows : HoldsGroup(rows[i], job[r].groups)}) IN
  /\ pc[r] = "list"
  /\ todo' = [todo EXCEPT ![r] = writes]
  /\ pc' = [pc EXCEPT ![r] = IF writes = <<>> THEN "idle" ELSE "release"]
  /\ UNCHANGED <<day, job, begun, seen>>

-----------------------------------------------------------------------------
(* Writing rows to Field, which replaces the whole row. *)

Writing(r) == pc[r] \in {"write", "release"}

Place(row) == <<row.caddie, row.group, row.at>>

\* Whether writing row over row i moves it or brings it back.
Upsets(i, row) == ~Live(rows[i]) \/ Place(rows[i]) # Place(row)

\* A move has passed the checks and a cancelled row disturbs nobody; a status
\* update that upsets a row and leaves it standing has passed none.
Apply(r, w) ==
  /\ rows' = IF w.id = 0 THEN Append(rows, w.row) ELSE [rows EXCEPT ![w.id] = w.row]
  /\ stale' = IF job[r].kind = "status" /\ Live(w.row)
              THEN stale \cup {i \in DOMAIN rows : i = w.id /\ Upsets(i, w.row)}
              ELSE stale \ {w.id}

\* On to the next row, or to the end of the request.
NextRow(r) ==
  /\ todo' = [todo EXCEPT ![r] = Tail(@)]
  /\ pc' = [pc EXCEPT ![r] = IF Len(todo[r]) = 1 THEN "idle" ELSE @]

WriteRow(r) ==
  /\ Writing(r)
  /\ Apply(r, Head(todo[r]))
  /\ NextRow(r)
  /\ UNCHANGED <<booked, duties, ledger, job, begun, seen>>

Unclean(r) == job' = [job EXCEPT ![r].clean = FALSE]

\* A release that fails is swallowed and the next row is tried.
ReleaseFails(r) ==
  /\ pc[r] = "release"
  /\ NextRow(r)
  /\ Unclean(r)
  /\ UNCHANGED <<day, begun, seen>>

\* The request ends here: a call that is not best effort failed, or the
\* process died.
Abort(r) ==
  /\ pc[r] # "idle"
  /\ pc' = [pc EXCEPT ![r] = "idle"]
  /\ todo' = [todo EXCEPT ![r] = <<>>]
  /\ Unclean(r)
  /\ UNCHANGED <<day, begun, seen>>

\* The write lands and its answer is lost, so the request ends as failed.
WriteLost(r) ==
  /\ pc[r] = "write"
  /\ Apply(r, Head(todo[r]))
  /\ pc' = [pc EXCEPT ![r] = "idle"]
  /\ todo' = [todo EXCEPT ![r] = <<>>]
  /\ Unclean(r)
  /\ UNCHANGED <<booked, duties, ledger, begun, seen>>

-----------------------------------------------------------------------------
(* Other work. *)

Meet(v, w) == v.from < w.to /\ w.from < v.to

\* assign_caddie_duty: filing the same start again corrects that stretch.
AssignDuty(r, c, w) ==
  /\ Begin(r)
  /\ \A v \in duties[c] : v.from # w.from => ~Meet(v, w)
  /\ \A i \in Rounds(c) : ~Blocks(w, rows[i].at, Length)
  /\ Starts(r, "duty", [Job("duty", {}) EXCEPT !.caddie = c, !.window = w], <<>>)

\* save_duty_assignment, keyed by the start.
SaveDuty(r) ==
  LET c == job[r].caddie  w == job[r].window IN
  /\ pc[r] = "duty"
  /\ duties' = [duties EXCEPT ![c] = {v \in @ : v.from # w.from} \cup {w}]
  /\ pc' = [pc EXCEPT ![r] = "idle"]
  /\ UNCHANGED <<booked, rows, ledger, job, todo, begun, seen, stale>>

ClearDuty(c, w) ==
  /\ w \in duties[c]
  /\ duties' = [duties EXCEPT ![c] = @ \ {w}]
  /\ UNCHANGED <<booked, rows, ledger, pc, job, todo, begun, seen, stale>>

-----------------------------------------------------------------------------
Start(r) ==
  \/ \E c \in Caddies, g \in Groups :
       \/ Name(r, c, g)
       \/ \E i \in DOMAIN rows : \E t \in {StartOf[g], rows[i].at} : Reassign(r, i, c, g, t)
  \/ \E p \in Screens : \E i \in DOMAIN seen[p], s \in {"completed", "cancelled"} :
       UpdateStatus(r, p, i, s)
  \/ AutoAssign(r)
  \/ ReleaseDay(r)
  \/ \E g \in Groups, full \in BOOLEAN : Cancel(r, g, full)
  \/ \E c \in Caddies, w \in Windows : AssignDuty(r, c, w)

Proceed(r) ==
  \/ AutoPlan(r)
  \/ CancelField(r)
  \/ Record(r)
  \/ RecordFails(r)
  \/ ListRows(r)
  \/ WriteRow(r)
  \/ ReleaseFails(r)
  \/ WriteLost(r)
  \/ Abort(r)
  \/ SaveDuty(r)

Next == \/ \E r \in Requests : Start(r) \/ Proceed(r)
        \/ \E c \in Caddies, w \in Windows : ClearDuty(c, w)
        \/ \E p \in Screens : Load(p)

Spec == Init /\ [][Next]_vars

-----------------------------------------------------------------------------
(* Properties.  They hold when one request runs at a time. *)

RowType == [caddie : Caddies, group : Groups, at : Int, status : Statuses]
JobType ==
  [kind : {"none", "name", "move", "status", "auto", "release", "cancel", "duty"},
   groups : SUBSET Groups, full : BOOLEAN, clean : BOOLEAN,
   caddie : Caddies \cup {Nobody}, window : Windows \cup {NoJob.window}]

\* What a request may be doing for the use case it runs.
Situated(r) ==
  /\ pc[r] = "plan" => job[r].kind = "auto"
  /\ pc[r] = "write" => job[r].kind \in {"name", "move", "status", "auto"}
  /\ pc[r] = "release" => job[r].kind \in {"release", "cancel"}
  /\ pc[r] \in {"withdraw", "record", "list"} => job[r].kind = "cancel"
  /\ pc[r] = "duty" => /\ job[r].kind = "duty"
                      /\ job[r].caddie \in Caddies
                      /\ job[r].window \in Windows

TypeOK ==
  /\ booked \in [Groups -> BOOLEAN]
  /\ rows \in Seq(RowType)
  /\ duties \in [Caddies -> SUBSET Windows]
  /\ ledger \in [Groups -> {"none", "bare", "full"}]
  /\ pc \in [Requests -> {"idle", "plan", "write", "release", "withdraw", "record",
                         "list", "duty"}]
  /\ job \in [Requests -> JobType]
  /\ todo \in [Requests -> Seq([id : Nat, row : RowType])]
  /\ \A r \in Requests :
       /\ Situated(r)
       /\ Writing(r) <=> todo[r] # <<>>
       /\ \A n \in DOMAIN todo[r] : todo[r][n].id \in 0..Len(rows)
  /\ begun \in 0..MaxRequests
  /\ seen \in [Screens -> Seq(RowType)]
  /\ \A p \in Screens : Len(seen[p]) <= Len(rows)
  /\ stale \subseteq DOMAIN rows

\* The rows no unchecked status update has moved or revived.
Checked == DOMAIN rows \ stale

\* "two caddies on one group" never happens, whichever of naming, moving and
\* planning placed them (check_round_can_be_walked, plan_caddie_assignments).
\* A row the table wrote back as it once loaded it is not counted: nothing
\* checks that write, and it can put a second caddie on a group.
OneCaddiePerGroup ==
  \A i, j \in Checked :
    i # j /\ Live(rows[i]) /\ Live(rows[j]) => rows[i].group # rows[j].group

\* The hours of a row's round that every check keeps free: all of them, unless
\* the round lasts longer than the row is read to hold.
HoursHeld(row) == IF RoundLength[row.group] < Length THEN RoundLength[row.group] ELSE Length

\* Nobody is in two places: the hours held by a caddie's rounds overlap neither
\* each other nor the other work they are on, and that work does not overlap
\* itself.
NobodyInTwoPlaces ==
  \A c \in Caddies :
    /\ \A i, j \in Rounds(c) \cap Checked : i # j =>
         ~Overlaps(rows[i].at, HoursHeld(rows[i]), rows[j].at, HoursHeld(rows[j]))
    /\ \A i \in Rounds(c) \cap Checked, w \in duties[c] : ~Blocks(w, rows[i].at, HoursHeld(rows[i]))
    /\ \A v, w \in duties[c] : v # w => ~Meet(v, w)

\* The run never takes a caddie past the daily limit, counting the rounds
\* they had and the ones this run gave them (plan_caddie_assignments).
PlanKeepsLimit ==
  [][\A r \in Requests : job[r].kind = "auto" /\ Len(rows') > Len(rows) /\ WriteRow(r) =>
       LET c == rows'[Len(rows')].caddie IN
       Cardinality({i \in DOMAIN rows' : rows'[i].caddie = c /\ Live(rows'[i])}) <= MaxRounds[c]]_vars

\* A cancellation none of whose calls failed leaves nobody on the group
\* (cancel_reservation).
CancelReleases ==
  [][\A r \in Requests : job[r].kind = "cancel" /\ pc[r] # "idle"
                         /\ pc'[r] = "idle" /\ job'[r].clean =>
       \A i \in DOMAIN rows' : rows'[i].group \in job[r].groups => ~Live(rows'[i])]_vars

\* The detail kept of a cancelled booking outlives every later attempt to
\* cancel it, by whoever and however the calls fail (record_cancellation).
DetailKept ==
  [][\A g \in Groups : ledger[g] = "full" => ledger'[g] = "full"]_vars
=============================================================================
