----------------------------- MODULE ShiftMirror -----------------------------
(***************************************************************************)
(* Confirmed caddie days and their mirror in Field's HRM.                  *)
(*                                                                         *)
(* CourseBoard confirms caddie days in its own table                       *)
(* (golf_caddie_shifts); Field, an external ERP, holds the generic half of *)
(* a working day as a staff shift.  Three handlers write:                  *)
(*                                                                         *)
(*   update_caddie_shift          one day, Field first, then the row;      *)
(*   generate_caddie_shifts       the whole month, CourseBoard only, after *)
(*                                which the board starts a push;           *)
(*   sync_caddie_shifts_to_field  one batch of the days that are behind,   *)
(*                                called by the board in a loop.           *)
(*                                                                         *)
(* Each runs in a request (an element of Requests) and takes one step per  *)
(* database transaction or Field call, so everything between two awaits    *)
(* interleaves.  A day stands for one (caddie, date) pair.                 *)
(***************************************************************************)
EXTENDS Naturals, FiniteSets

CONSTANTS
  Days,         \* the month's (caddie, date) pairs, numbered in queue order
  Requests,     \* requests that may run at once
  ShiftIds,     \* ids Field can hand out for a staff shift
  StaffIds,     \* HRM staff records
  Spans,        \* how much of a day is worked: full_day, morning, afternoon
  HoursOf,      \* the clock hours a span is filed as
  Batch,        \* days per push call (BATCH)
  Faults,       \* what may go wrong with a call or a request
  Meddling,     \* what others may do meanwhile
  MaxRequests,  \* bound: requests begun in one behaviour
  Nothing       \* SQL NULL, Option::None

ASSUME DaysAssumption == Days \subseteq Nat /\ IsFiniteSet(Days)
ASSUME BatchAssumption == Batch \in Nat \ {0}
ASSUME SpansAssumption == "off" \notin Spans /\ Nothing \notin Spans \cup {"off"}
ASSUME NothingAssumption == Nothing \notin ShiftIds \cup StaffIds
ASSUME FaultsAssumption == Faults \subseteq {"lost", "unreachable", "refused", "crash"}
ASSUME MeddlingAssumption ==
  Meddling \subseteq {"delete", "relink", "staff_gone", "redeploy"}
ASSUME BoundAssumption == MaxRequests \in Nat

Off == "off"
Plans == Spans \cup {Off}
Origins == {"generated", "edited", "pinned"}
MaybeId == ShiftIds \cup {Nothing}
MaybeStaff == StaffIds \cup {Nothing}

VARIABLES
  \* golf_caddie_shifts, one variable per column
  plan,      \* is_working and span; Nothing when the day has no row
  origin,    \* generated, edited or pinned
  link,      \* field_shift_id
  behind,    \* field_synced_at IS NULL OR field_synced_at < updated_at
  \* Field's HRM, external
  field,     \* the shift standing behind each id, Nothing when there is none
  issued,    \* ids handed out so far
  profile,   \* the staff record each day's caddie profile names
  gone,      \* staff records soft-deleted on Field's own screens
  \* the service
  writeBack, \* whether this deployment mirrors to Field at all
  pc,        \* where each request stands
  work,      \* what each request read about the days it handles
  previous,  \* the push loop's last remaining count
  begun,     \* requests begun, for the bound
  \* history
  mark       \* what befell a day's mirror that no later step can see

table == <<plan, origin, link, behind>>
hrm == <<field, issued>>
roster == <<profile, gone>>
vars == <<plan, origin, link, behind, field, issued, profile, gone, writeBack,
          pc, work, previous, begun, mark>>

\* A staff member Field still has: what the roster read resolves a caddie to.
Linkable(d) == IF profile[d] \in StaffIds \ gone THEN profile[d] ELSE Nothing

(***************************************************************************)
(* The entry a request keeps for a day: the shift it is writing, the staff *)
(* record and the link it read, how far the Field call got, and the link   *)
(* to store.                                                               *)
(***************************************************************************)
Stages == {"out", "plan", "todo", "post", "ok", "refused", "failed"}
Entry == [stage : Stages, plan : Plans, origin : Origins,
          staff : MaybeStaff, existing : MaybeId, link : MaybeId]
NoEntry == [stage |-> "out", plan |-> Off, origin |-> "generated",
            staff |-> Nothing, existing |-> Nothing, link |-> Nothing]
Planned(p, o) == [stage |-> "plan", plan |-> p, origin |-> o,
                  staff |-> Nothing, existing |-> Nothing, link |-> Nothing]
Read(d, p, o) == [stage |-> "todo", plan |-> p, origin |-> o, staff |-> Linkable(d),
                  existing |-> link[d], link |-> Nothing]
Answered(e, s, l) == [stage |-> s, plan |-> e.plan, origin |-> e.origin,
                      staff |-> e.staff, existing |-> e.existing, link |-> l]
NoWork == [d \in Days |-> NoEntry]

FieldShift == [day : Days, staff : StaffIds, hours : {HoursOf[s] : s \in Spans}]
ASSUME NoShiftAssumption == Nothing \notin FieldShift

\* The desk's loop starts from Number.POSITIVE_INFINITY: more than any count.
Infinity == Cardinality(Days) + 1

Confirmed == {d \in Days : plan[d] # Nothing}
Behind == {d \in Confirmed : behind[d]}
Held(d) == {i \in ShiftIds : field[i] # Nothing /\ field[i].day = d}

\* Request r holds day d between its read and its last write, Field included.
Carries(r, d) == work[r][d].stage \notin {"out", "plan"}
InFlight(d) == \E r \in Requests : Carries(r, d)
Quiet == \A r \in Requests : pc[r] = "idle"

Marks == {"clean", "untold", "disturbed"}
Worsen(D, E) == [d \in Days |-> IF d \in D THEN "disturbed"
                                ELSE IF d \in E /\ mark[d] = "clean" THEN "untold"
                                ELSE mark[d]]

-----------------------------------------------------------------------------
Init ==
  /\ plan = [d \in Days |-> Nothing]
  /\ origin = [d \in Days |-> "generated"]
  /\ link = [d \in Days |-> Nothing]
  /\ behind = [d \in Days |-> TRUE]
  /\ field = [i \in ShiftIds |-> Nothing]
  /\ issued = {}
  /\ profile \in [Days -> MaybeStaff]
  /\ gone = {}
  /\ writeBack = TRUE
  /\ pc = [r \in Requests |-> "idle"]
  /\ work = [r \in Requests |-> NoWork]
  /\ previous = [r \in Requests |-> Infinity]
  /\ begun = 0
  /\ mark = [d \in Days |-> "clean"]

Begin(r) == /\ pc[r] = "idle"
            /\ begun < MaxRequests
            /\ begun' = begun + 1

\* Mutant: the save forgets updated_at.
SaveShiftsKeepsStamp(D, newPlan, newOrigin) ==
  /\ plan' = [d \in Days |-> IF d \in D THEN newPlan[d] ELSE plan[d]]
  /\ origin' = [d \in Days |-> IF d \in D THEN newOrigin[d] ELSE origin[d]]
  /\ UNCHANGED <<link, behind>>

\* save_shifts: one transaction over D.  Content and updated_at move; the
\* link and the stamp are left alone, so every saved day is behind again.
SaveShifts(D, newPlan, newOrigin) ==
  /\ plan' = [d \in Days |-> IF d \in D THEN newPlan[d] ELSE plan[d]]
  /\ origin' = [d \in Days |-> IF d \in D THEN newOrigin[d] ELSE origin[d]]
  /\ behind' = [d \in Days |-> IF d \in D THEN TRUE ELSE behind[d]]
  /\ UNCHANGED link

\* set_field_shift_links: an UPDATE, so a day without a row stays without one.
SetFieldShiftLinks(D, newLink) ==
  /\ link' = [d \in Days |-> IF d \in D \cap Confirmed THEN newLink[d] ELSE link[d]]
  /\ behind' = [d \in Days |-> IF d \in D \cap Confirmed THEN FALSE ELSE behind[d]]
  /\ UNCHANGED <<plan, origin>>

-----------------------------------------------------------------------------
(* update_caddie_shift: the desk changes one day. *)

\* The edit is valid; the roster, the link and the hours are read.
EditBegin(r, d, p, o) ==
  /\ writeBack
  /\ Begin(r)
  /\ pc' = [pc EXCEPT ![r] = "edit"]
  /\ work' = [work EXCEPT ![r][d] = Read(d, p, o)]
  /\ mark' = Worsen({e \in {d} : InFlight(e)}, {})
  /\ UNCHANGED <<table, hrm, roster, writeBack, previous>>

\* Write-back off: the row and nothing else.
EditLocally(r, d, p, o) ==
  /\ ~writeBack
  /\ Begin(r)
  /\ SaveShifts({d}, [e \in Days |-> p], [e \in Days |-> o])
  /\ mark' = Worsen({e \in {d} : InFlight(e)}, {})
  /\ UNCHANGED <<hrm, roster, writeBack, pc, work, previous>>

Edited(r) == {d \in Days : work[r][d].stage # "out"}

EditSave(r) ==
  /\ pc[r] = "edit"
  /\ \A d \in Edited(r) : work[r][d].stage = "ok"
  /\ SaveShifts(Edited(r), [d \in Days |-> work[r][d].plan],
                           [d \in Days |-> work[r][d].origin])
  /\ pc' = [pc EXCEPT ![r] = "saved"]
  /\ UNCHANGED <<hrm, roster, writeBack, work, previous, begun, mark>>

EditBank(r) ==
  /\ pc[r] = "saved"
  /\ SetFieldShiftLinks(Edited(r), [d \in Days |-> work[r][d].link])
  /\ mark' = Worsen({}, {d \in Edited(r) : work[r][d].staff = Nothing})
  /\ pc' = [pc EXCEPT ![r] = "idle"]
  /\ work' = [work EXCEPT ![r] = NoWork]
  /\ UNCHANGED <<hrm, roster, writeBack, previous, begun>>

\* A Field error fails the edit: nothing is written to the row.
EditFail(r) ==
  /\ pc[r] = "edit"
  /\ \E d \in Edited(r) : work[r][d].stage \in {"refused", "failed"}
  /\ pc' = [pc EXCEPT ![r] = "idle"]
  /\ work' = [work EXCEPT ![r] = NoWork]
  /\ UNCHANGED <<table, hrm, roster, writeBack, previous, begun, mark>>

-----------------------------------------------------------------------------
(* generate_caddie_shifts: the month is planned from one reading of the    *)
(* table and saved whole.  What the planner decides for a day that is not  *)
(* pinned is left open here (module RestDays has the planner's own rules). *)

\* Mutant: a regeneration protects nothing.
SurvivesNever(o) == FALSE

\* survives_regeneration
Survives(o) == o = "pinned"

ConfirmBegin(r, newPlan) ==
  /\ Begin(r)
  /\ pc' = [pc EXCEPT ![r] = "confirm"]
  /\ work' = [work EXCEPT ![r] = [d \in Days |->
        IF plan[d] # Nothing /\ Survives(origin[d])
        THEN Planned(plan[d], origin[d])
        ELSE Planned(newPlan[d], "generated")]]
  /\ UNCHANGED <<table, hrm, roster, writeBack, previous, mark>>

\* The save, after which the board starts pushing the month.
ConfirmSave(r) ==
  /\ pc[r] = "confirm"
  /\ SaveShifts(Days, [d \in Days |-> work[r][d].plan],
                      [d \in Days |-> work[r][d].origin])
  /\ mark' = Worsen({d \in Days : InFlight(d)}, {})
  /\ pc' = [pc EXCEPT ![r] = "read"]
  /\ work' = [work EXCEPT ![r] = NoWork]
  /\ previous' = [previous EXCEPT ![r] = Infinity]
  /\ UNCHANGED <<hrm, roster, writeBack, begun>>

-----------------------------------------------------------------------------
(* sync_caddie_shifts_to_field, and the board's pushMonthToField loop.     *)

\* The re-send button: the stamps are cleared, the ids are kept.
SyncBegin(r) ==
  /\ writeBack
  /\ Begin(r)
  /\ behind' = [d \in Days |-> TRUE]
  /\ pc' = [pc EXCEPT ![r] = "read"]
  /\ previous' = [previous EXCEPT ![r] = Infinity]
  /\ UNCHANGED <<plan, origin, link, hrm, roster, writeBack, work, mark>>

\* unsynced_shifts: the first Batch days of the queue.
IsBatch(B) ==
  /\ B \subseteq Behind
  /\ Cardinality(B) <= Batch
  /\ B # Behind => Cardinality(B) = Batch
  /\ \A d \in B, e \in Behind \ B : d < e

SyncRead(r) ==
  /\ pc[r] = "read"
  /\ writeBack
  /\ Behind # {}
  /\ \E B \in SUBSET Behind :
       /\ IsBatch(B)
       /\ work' = [work EXCEPT ![r] = [d \in Days |->
             IF d \in B THEN Read(d, plan[d], origin[d]) ELSE NoEntry]]
       /\ mark' = Worsen({d \in B : InFlight(d)}, {})
  /\ pc' = [pc EXCEPT ![r] = "push"]
  /\ UNCHANGED <<table, hrm, roster, writeBack, previous, begun>>

\* nothing_to_do: no mirror in this deployment, or nothing behind.
SyncNothing(r) ==
  /\ pc[r] = "read"
  /\ ~writeBack \/ Behind = {}
  /\ pc' = [pc EXCEPT ![r] = "idle"]
  /\ UNCHANGED <<table, hrm, roster, writeBack, work, previous, begun, mark>>

\* A day Field argued with is stamped with the link it had; a day Field could
\* not answer for stays queued.
Banked(r) == {d \in Days : work[r][d].stage \in {"ok", "refused"}}

SyncBank(r) ==
  /\ pc[r] = "push"
  /\ \A d \in Days : work[r][d].stage \notin {"todo", "post"}
  /\ SetFieldShiftLinks(Banked(r), [d \in Days |-> work[r][d].link])
  /\ mark' = Worsen({}, {d \in Banked(r) : \/ work[r][d].staff = Nothing
                                           \/ work[r][d].stage = "refused"})
  /\ pc' = [pc EXCEPT ![r] = "count"]
  /\ work' = [work EXCEPT ![r] = NoWork]
  /\ UNCHANGED <<hrm, roster, writeBack, previous, begun>>

\* Mutant: the board trusts the queue to empty.
SyncCountTrusting(r) ==
  LET remaining == Cardinality(Behind)
      stop == remaining = 0
  IN /\ pc[r] = "count"
     /\ pc' = [pc EXCEPT ![r] = IF stop THEN "idle" ELSE "read"]
     /\ previous' = [previous EXCEPT ![r] = IF stop THEN Infinity ELSE remaining]
     /\ UNCHANGED <<table, hrm, roster, writeBack, work, begun, mark>>

\* Mutant: the board asks for one batch only.
SyncCountOnce(r) ==
  /\ pc[r] = "count"
  /\ pc' = [pc EXCEPT ![r] = "idle"]
  /\ UNCHANGED <<table, hrm, roster, writeBack, work, previous, begun, mark>>

\* The answer carries count_unsynced; the board asks for the next batch while
\* the queue shrinks.
SyncCount(r) ==
  LET remaining == Cardinality(Behind)
      stop == remaining = 0 \/ remaining >= previous[r]
  IN /\ pc[r] = "count"
     /\ pc' = [pc EXCEPT ![r] = IF stop THEN "idle" ELSE "read"]
     /\ previous' = [previous EXCEPT ![r] = IF stop THEN Infinity ELSE remaining]
     /\ UNCHANGED <<table, hrm, roster, writeBack, work, begun, mark>>

-----------------------------------------------------------------------------
(* mirror_shift_to_field and the gateway under it: what one day's write    *)
(* asks of Field, one step per call.                                       *)

Pushing(r) == pc[r] \in {"edit", "push"}
At(r, d, s) == Pushing(r) /\ work[r][d].stage = s

Settle(r, d, s, l) ==
  work' = [work EXCEPT ![r][d] = Answered(work[r][d], s, l)]

\* Field was told and said so; from here the day's mirror is current again.
Told(d) == mark' = [mark EXCEPT ![d] = IF @ = "untold" THEN "clean" ELSE @]

\* Mutant: the link of a caddie without a staff record is dropped.
UnlinkableForgets(r, d) ==
  /\ At(r, d, "todo")
  /\ work[r][d].staff = Nothing
  /\ Settle(r, d, "ok", Nothing)
  /\ UNCHANGED <<table, hrm, roster, writeBack, pc, previous, begun, mark>>

\* No staff record to file under: the link, if any, is kept.
Unlinkable(r, d) ==
  /\ At(r, d, "todo")
  /\ work[r][d].staff = Nothing
  /\ Settle(r, d, "ok", work[r][d].existing)
  /\ UNCHANGED <<table, hrm, roster, writeBack, pc, previous, begun, mark>>

\* A day off that Field was never told about.
NothingToWithdraw(r, d) ==
  /\ At(r, d, "todo")
  /\ work[r][d].staff # Nothing
  /\ work[r][d].plan = Off
  /\ work[r][d].existing = Nothing
  /\ Settle(r, d, "ok", Nothing)
  /\ Told(d)
  /\ UNCHANGED <<table, hrm, roster, writeBack, pc, previous, begun>>

\* The path of a shift names its staff member, who must still resolve.
Resolves(e) == /\ e.staff \notin gone
               /\ e.existing \in ShiftIds
               /\ field[e.existing] # Nothing
               /\ field[e.existing].staff = e.staff

\* DELETE of a shift Field holds.
DeleteLands(r, d) ==
  LET e == work[r][d] IN
  /\ At(r, d, "todo")
  /\ e.staff # Nothing
  /\ e.plan = Off
  /\ Resolves(e)
  /\ field' = [field EXCEPT ![e.existing] = Nothing]
  /\ UNCHANGED <<table, issued, roster, writeBack, pc, previous, begun>>

Withdraw(r, d) ==
  /\ DeleteLands(r, d)
  /\ Settle(r, d, "ok", Nothing)
  /\ Told(d)

\* The answer is lost on the way back: to the caller an error like any other.
WithdrawLost(r, d) ==
  /\ "lost" \in Faults
  /\ DeleteLands(r, d)
  /\ Settle(r, d, "failed", work[r][d].existing)
  /\ mark' = Worsen({}, {d})

\* DELETE answered 404: already gone is the state asked for.
WithdrawMissing(r, d) ==
  LET e == work[r][d] IN
  /\ At(r, d, "todo")
  /\ e.staff # Nothing
  /\ e.plan = Off
  /\ e.existing # Nothing
  /\ ~Resolves(e)
  /\ Settle(r, d, "ok", Nothing)
  /\ Told(d)
  /\ UNCHANGED <<table, hrm, roster, writeBack, pc, previous, begun>>

\* PATCH of a shift Field holds under that staff member.
PatchLands(r, d) ==
  LET e == work[r][d] IN
  /\ At(r, d, "todo")
  /\ e.staff # Nothing
  /\ e.plan # Off
  /\ Resolves(e)
  /\ field' = [field EXCEPT ![e.existing] =
        [day |-> field[e.existing].day, staff |-> e.staff, hours |-> HoursOf[e.plan]]]
  /\ UNCHANGED <<table, issued, roster, writeBack, pc, previous, begun>>

Patch(r, d) ==
  /\ PatchLands(r, d)
  /\ Settle(r, d, "ok", work[r][d].existing)
  /\ Told(d)

PatchLost(r, d) ==
  /\ "lost" \in Faults
  /\ PatchLands(r, d)
  /\ Settle(r, d, "failed", work[r][d].existing)
  /\ mark' = Worsen({}, {d})

\* PATCH answered 404: the day is filed afresh by the POST that follows.
PatchMissing(r, d) ==
  LET e == work[r][d] IN
  /\ At(r, d, "todo")
  /\ e.staff # Nothing
  /\ e.plan # Off
  /\ e.existing # Nothing
  /\ ~Resolves(e)
  /\ Settle(r, d, "post", Nothing)
  /\ UNCHANGED <<table, hrm, roster, writeBack, pc, previous, begun, mark>>

Posts(r, d) ==
  LET e == work[r][d] IN
  /\ Pushing(r)
  /\ e.staff # Nothing
  /\ e.plan # Off
  /\ e.stage = "post" \/ (e.stage = "todo" /\ e.existing = Nothing)

\* POST: Field files a new shift, whatever it already holds for that day.
PostLands(r, d, i) ==
  LET e == work[r][d] IN
  /\ Posts(r, d)
  /\ e.staff \notin gone
  /\ i \in ShiftIds \ issued
  /\ issued' = issued \cup {i}
  /\ field' = [field EXCEPT ![i] =
        [day |-> d, staff |-> e.staff, hours |-> HoursOf[e.plan]]]
  /\ UNCHANGED <<table, roster, writeBack, pc, previous, begun>>

Post(r, d, i) ==
  /\ PostLands(r, d, i)
  /\ Settle(r, d, "ok", i)
  /\ Told(d)

PostLost(r, d, i) ==
  /\ "lost" \in Faults
  /\ PostLands(r, d, i)
  /\ Settle(r, d, "failed", work[r][d].existing)
  /\ mark' = Worsen({d}, {})

\* A 4xx the gateway does not read as "no such shift", and a POST under a
\* staff member who no longer resolves: permanent, the same next time.
Refuse(r, d) ==
  LET e == work[r][d] IN
  /\ Pushing(r)
  /\ e.stage \in {"todo", "post"}
  /\ e.staff # Nothing
  /\ e.plan = Off => e.existing # Nothing
  /\ \/ "refused" \in Faults
     \/ Posts(r, d) /\ e.staff \in gone
  /\ Settle(r, d, "refused", e.existing)
  /\ UNCHANGED <<table, hrm, roster, writeBack, pc, previous, begun, mark>>

\* Field unreachable, or failing inside, before the call took effect.
Unreachable(r, d) ==
  LET e == work[r][d] IN
  /\ "unreachable" \in Faults
  /\ Pushing(r)
  /\ e.stage \in {"todo", "post"}
  /\ e.staff # Nothing
  /\ e.plan = Off => e.existing # Nothing
  /\ Settle(r, d, "failed", e.existing)
  /\ UNCHANGED <<table, hrm, roster, writeBack, pc, previous, begun, mark>>

-----------------------------------------------------------------------------
(* What ends a request early, and what others do meanwhile.                *)

\* Days whose shift request r filed for the first time and has not banked.
FiledUnbanked(r) == {d \in Days : /\ work[r][d].stage = "ok"
                                  /\ work[r][d].link \notin {Nothing, work[r][d].existing}}
\* Days request r told Field something about and has not banked.
ToldUnbanked(r) == {d \in Days : work[r][d].stage = "ok" /\ work[r][d].staff # Nothing}

\* The process dies, or the next database write fails.
Abort(r) ==
  /\ "crash" \in Faults
  /\ pc[r] # "idle"
  /\ mark' = Worsen(FiledUnbanked(r), ToldUnbanked(r))
  /\ pc' = [pc EXCEPT ![r] = "idle"]
  /\ work' = [work EXCEPT ![r] = NoWork]
  /\ previous' = [previous EXCEPT ![r] = Infinity]
  /\ UNCHANGED <<table, hrm, roster, writeBack, begun>>

\* Somebody deletes a shift on Field's own screens.
FieldDelete(i) ==
  /\ "delete" \in Meddling
  /\ field[i] # Nothing
  /\ field' = [field EXCEPT ![i] = Nothing]
  /\ mark' = Worsen({}, {field[i].day})
  /\ UNCHANGED <<table, issued, roster, writeBack, pc, work, previous, begun>>

\* A caddie profile is pointed at another staff record, or at none.  The
\* shift filed under the old one cannot be reached through the new one.
Relink(d, s) ==
  /\ "relink" \in Meddling
  /\ s # profile[d]
  /\ profile' = [profile EXCEPT ![d] = s]
  /\ mark' = Worsen({e \in {d} : \/ InFlight(e)
                                 \/ /\ s # Nothing
                                    /\ \E i \in Held(e) : field[i].staff # s}, {d})
  /\ UNCHANGED <<table, hrm, gone, writeBack, pc, work, previous, begun>>

\* A staff record is soft-deleted in Field; profiles keep naming it.
StaffGone(s) ==
  LET D == {d \in Days : \/ profile[d] = s
                         \/ \E r \in Requests : work[r][d].staff = s}
  IN /\ "staff_gone" \in Meddling
     /\ s \notin gone
     /\ gone' = gone \cup {s}
     /\ mark' = Worsen({d \in D : InFlight(d)}, D)
     /\ UNCHANGED <<table, hrm, profile, writeBack, pc, work, previous, begun>>

\* A deployment with the write-back switched the other way.
Redeploy ==
  /\ "redeploy" \in Meddling
  /\ Quiet
  /\ writeBack' = ~writeBack
  /\ UNCHANGED <<table, hrm, roster, pc, work, previous, begun, mark>>

-----------------------------------------------------------------------------
Push(r, d) ==
  \/ Unlinkable(r, d)
  \/ NothingToWithdraw(r, d)
  \/ Withdraw(r, d)
  \/ WithdrawLost(r, d)
  \/ WithdrawMissing(r, d)
  \/ Patch(r, d)
  \/ PatchLost(r, d)
  \/ PatchMissing(r, d)
  \/ \E i \in ShiftIds : Post(r, d, i) \/ PostLost(r, d, i)
  \/ Refuse(r, d)
  \/ Unreachable(r, d)

\* What a request does once it has begun.
Proceed(r) ==
  \/ EditSave(r)
  \/ EditBank(r)
  \/ EditFail(r)
  \/ ConfirmSave(r)
  \/ SyncRead(r)
  \/ SyncNothing(r)
  \/ SyncBank(r)
  \/ SyncCount(r)
  \/ \E d \in Days : Push(r, d)

Start(r) ==
  \/ \E d \in Days, p \in Plans, o \in {"edited", "pinned"} :
       EditBegin(r, d, p, o) \/ EditLocally(r, d, p, o)
  \/ \E newPlan \in [Days -> Plans] : ConfirmBegin(r, newPlan)
  \/ SyncBegin(r)

Others ==
  \/ \E i \in ShiftIds : FieldDelete(i)
  \/ \E d \in Days, s \in MaybeStaff : Relink(d, s)
  \/ \E s \in StaffIds : StaffGone(s)
  \/ Redeploy

Next ==
  \/ \E r \in Requests : Start(r) \/ Proceed(r) \/ Abort(r)
  \/ Others

\* A request that has begun keeps being polled, and every Field call ends in
\* an answer or an error; nothing forces anyone to begin a request.
Spec == /\ Init
        /\ [][Next]_vars
        /\ \A r \in Requests : WF_vars(Proceed(r))

-----------------------------------------------------------------------------
(* Properties. *)

TypeOK ==
  /\ plan \in [Days -> Plans \cup {Nothing}]
  /\ origin \in [Days -> Origins]
  /\ link \in [Days -> MaybeId]
  /\ behind \in [Days -> BOOLEAN]
  /\ field \in [ShiftIds -> FieldShift \cup {Nothing}]
  /\ issued \subseteq ShiftIds
  /\ profile \in [Days -> MaybeStaff]
  /\ gone \subseteq StaffIds
  /\ writeBack \in BOOLEAN
  /\ pc \in [Requests -> {"idle", "edit", "saved", "confirm", "read", "push", "count"}]
  /\ work \in [Requests -> [Days -> Entry]]
  /\ previous \in [Requests -> Nat]
  /\ begun \in Nat
  /\ mark \in [Days -> Marks]

\* Field holds for day d exactly what the row says.
FieldAgrees(d) ==
  IF plan[d] = Off
  THEN Held(d) = {}
  ELSE /\ link[d] # Nothing
       /\ Held(d) = {link[d]}
       /\ field[link[d]] = [day |-> d, staff |-> profile[d], hours |-> HoursOf[plan[d]]]

\* A stamped day is a day Field has the current version of
\* (BEHIND_FIELD in caddie_shift_repository.rs), whatever the other days of
\* the batch went through: Field agrees with every row that is not behind,
\* unless the day was reported instead (unlinkable, refused, changed by
\* somebody else), or was damaged by a lost call, a crash or an overlapping
\* write on that same day.
SyncedMeansTold ==
  \A d \in Confirmed :
    mark[d] = "clean" /\ ~behind[d] /\ ~InFlight(d) => FieldAgrees(d)

\* Field enforces no uniqueness, so the stored id is the only thing that stops
\* a second shift on a day: outside the same damage, Field never holds a shift
\* for a day that neither the row nor the request working on it can name.
HandleKept ==
  \A d \in Days : mark[d] # "disturbed" =>
    \A i \in Held(d) : \/ i = link[d]
                       \/ \E r \in Requests : Carries(r, d) /\ work[r][d].link = i

\* Regenerating a month leaves a pinned day alone (survives_regeneration):
\* only an edit of that day changes what a pinned row says.
PinnedSurvives ==
  [][\A d \in Confirmed : origin[d] = "pinned" =>
       \/ plan'[d] = plan[d] /\ origin'[d] = "pinned"
       \/ \E r \in Requests : pc[r] = "edit" /\ Carries(r, d)
       \/ ~writeBack]_vars

\* The push loop ends (ShiftBoardPage.tsx): it stops on an empty queue and on
\* a queue that fails to shrink, so every request finishes however often
\* Field fails to answer.
RequestEnds == \A r \in Requests : pc[r] # "idle" ~> pc[r] = "idle"

Failing == \E r \in Requests, d \in Days : work[r][d].stage = "failed"

\* While Field answers every call, every day a save or a re-send put in the
\* queue leaves it, however small the batch (sync_caddie_shifts_to_field
\* under the board's loop).
QueueDrains ==
  []~Failing => \A d \in Days : (plan[d] # Nothing /\ behind[d]) ~> ~behind[d]
=============================================================================
