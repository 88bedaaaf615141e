------------------------- MODULE ShiftMirrorProofs -------------------------
(***************************************************************************)
(* SyncedMeansTold and HandleKept for every month, batch size, number of   *)
(* requests and set of faults, and PinnedSurvives for one request at a     *)
(* time.                                                                   *)
(*                                                                         *)
(* The argument follows one day.  While its mirror is not disturbed, at    *)
(* most one request carries it, that request's copy of the row's link is   *)
(* still the row's, and what Field holds is determined by how far the      *)
(* request's Field call got.                                               *)
(***************************************************************************)
EXTENDS ShiftMirror, FiniteSetTheorems, TLAPS

\* What a request may hold at each program counter.
StageOK ==
  \A r \in Requests :
    /\ pc[r] \in {"idle", "read", "count"} => \A d \in Days : work[r][d].stage = "out"
    /\ pc[r] = "confirm" => \A d \in Days : work[r][d].stage = "plan"
    /\ pc[r] \in {"edit", "saved", "push"} => \A d \in Days : work[r][d].stage # "plan"
    /\ pc[r] = "saved" => \A d \in Edited(r) : work[r][d].stage = "ok"
    /\ pc[r] \in {"edit", "saved"} => \A d, e \in Edited(r) : d = e

\* An id kept for a day was issued, and names no other day's shift.
Names(i, d) ==
  i = Nothing \/ (i \in issued /\ (field[i] # Nothing => field[i].day = d))

IdsOK ==
  /\ \A i \in ShiftIds : field[i] # Nothing => i \in issued
  /\ \A d \in Days : Names(link[d], d)
  /\ \A r \in Requests, d \in Days :
       Names(work[r][d].existing, d) /\ Names(work[r][d].link, d)

\* One request per undisturbed day.
Single ==
  \A d \in Days : mark[d] # "disturbed" =>
    \A r, s \in Requests : Carries(r, d) /\ Carries(s, d) => r = s

\* The request's entry is the row's: link, staff record and, for a push or a
\* saved edit, content.
FreshEntry(r, d) ==
  /\ work[r][d].existing = link[d]
  /\ work[r][d].staff = Linkable(d)
  /\ pc[r] \in {"push", "saved"} => work[r][d].plan = plan[d]
  /\ pc[r] = "saved" => behind[d]

\* Field after the call a request made for the day.
AfterCall(r, d) ==
  LET e == work[r][d] IN
  /\ e.stage = "post" => Held(d) = {} /\ e.staff # Nothing /\ e.plan # Off
  /\ e.stage \in {"refused", "failed"} => e.link = e.existing
  /\ e.stage = "ok" /\ e.staff = Nothing => e.link = e.existing
  /\ e.stage = "ok" => Held(d) \subseteq {e.link}
  /\ e.stage = "ok" /\ e.staff # Nothing /\ e.plan = Off => e.link = Nothing
  /\ e.stage = "ok" /\ e.staff # Nothing /\ e.plan # Off => e.link # Nothing
  /\ e.stage = "ok" /\ e.staff # Nothing /\ e.plan # Off /\ mark[d] = "clean" =>
       field[e.link] = [day |-> d, staff |-> e.staff, hours |-> HoursOf[e.plan]]

Flight ==
  \A r \in Requests, d \in Days :
    mark[d] # "disturbed" /\ Carries(r, d) => FreshEntry(r, d) /\ AfterCall(r, d)

\* Some request has told Field about the day and not banked it.
ToldInFlight(d) ==
  \E r \in Requests : work[r][d].stage = "ok" /\ work[r][d].staff # Nothing

\* Until then Field holds at most the linked shift.
Reachable ==
  \A d \in Days : mark[d] # "disturbed" /\ ~ToldInFlight(d) => Held(d) \subseteq {link[d]}

\* A shift Field holds is filed under the staff member the profile names.
StaffOK ==
  \A d \in Days : mark[d] # "disturbed" =>
    \A i \in Held(d) : profile[d] \in {Nothing, field[i].staff}

Agree ==
  \A d \in Confirmed :
    mark[d] = "clean" /\ ~behind[d] /\ ~ToldInFlight(d) => FieldAgrees(d)

MirrorInv ==
  /\ TypeOK
  /\ StageOK
  /\ IdsOK
  /\ Single
  /\ Flight
  /\ Reachable
  /\ StaffOK
  /\ Agree

-----------------------------------------------------------------------------
(* Facts about the counts the push loop compares. *)

LEMMA CountIsNat == Infinity \in Nat /\ (Cardinality(Behind) \in Nat)
<1>1. IsFiniteSet(Behind)
  BY DaysAssumption, FS_Subset DEF Behind, Confirmed
<1> QED BY <1>1, DaysAssumption, FS_CardinalityType DEF Infinity

LEMMA NoEntryType == NoEntry \in Entry /\ NoWork \in [Days -> Entry]
BY DEF NoEntry, Entry, NoWork, Stages, Plans, Origins, MaybeStaff, MaybeId

LEMMA SettleType ==
  ASSUME TypeOK, NEW r \in Requests, NEW d \in Days, NEW s \in Stages, NEW l \in MaybeId,
         Settle(r, d, s, l)
  PROVE  work' \in [Requests -> [Days -> Entry]]
<1>1. Answered(work[r][d], s, l) \in Entry
  BY DEF TypeOK, Answered, Entry
<1> QED BY <1>1 DEF TypeOK, Settle

LEMMA TypeStep == TypeOK /\ [Next]_vars => TypeOK'
<1> SUFFICES ASSUME TypeOK, [Next]_vars PROVE TypeOK'
  OBVIOUS
<1> USE DEF TypeOK, table, hrm, roster
<1>1. ASSUME NEW r \in Requests, NEW d \in Days, NEW p \in Plans,
             NEW o \in {"edited", "pinned"}, EditBegin(r, d, p, o)
      PROVE  TypeOK'
  BY <1>1 DEF Worsen, Marks, EditBegin, Begin, Read, Entry, Stages, Origins, Linkable, MaybeStaff, MaybeId
<1>2. ASSUME NEW r \in Requests, NEW d \in Days, NEW p \in Plans,
             NEW o \in {"edited", "pinned"}, EditLocally(r, d, p, o)
      PROVE  TypeOK'
  <2>1. mark' \in [Days -> Marks]
    BY <1>2 DEF EditLocally, Worsen, Marks
  <2>2. plan' \in [Days -> Plans \cup {Nothing}] /\ origin' \in [Days -> Origins]
    BY <1>2 DEF EditLocally, SaveShifts, Origins
  <2>3. behind' \in [Days -> BOOLEAN] /\ link' = link
    BY <1>2 DEF EditLocally, SaveShifts
  <2> QED BY <1>2, <2>1, <2>2, <2>3 DEF EditLocally, Begin
<1>3. ASSUME NEW r \in Requests, NEW newPlan \in [Days -> Plans], ConfirmBegin(r, newPlan)
      PROVE  TypeOK'
  BY <1>3, NoEntryType DEF ConfirmBegin, Begin, Planned, Entry, Stages, Origins, MaybeId, MaybeStaff
<1>4. ASSUME NEW r \in Requests, SyncBegin(r) PROVE TypeOK'
  BY <1>4, CountIsNat DEF SyncBegin, Begin
<1>5. ASSUME NEW r \in Requests, EditSave(r) PROVE TypeOK'
  BY <1>5 DEF EditSave, SaveShifts, Entry
<1>6. ASSUME NEW r \in Requests, EditBank(r) PROVE TypeOK'
  <2>1. mark' \in [Days -> Marks]
    BY <1>6 DEF EditBank, Worsen, Marks
  <2>2. link' \in [Days -> MaybeId]
    BY <1>6 DEF EditBank, SetFieldShiftLinks, Entry
  <2> QED BY <1>6, <2>1, <2>2, NoEntryType DEF EditBank, SetFieldShiftLinks
<1>7. ASSUME NEW r \in Requests, EditFail(r) PROVE TypeOK'
  BY <1>7, NoEntryType DEF EditFail
<1>8. ASSUME NEW r \in Requests, ConfirmSave(r) PROVE TypeOK'
  BY <1>8, NoEntryType, CountIsNat DEF Worsen, Marks, ConfirmSave, SaveShifts, Entry
<1>9. ASSUME NEW r \in Requests, SyncRead(r) PROVE TypeOK'
  <2>1. mark' \in [Days -> Marks]
    BY <1>9 DEF SyncRead, Worsen, Marks
  <2>2. ASSUME NEW d \in Days, d \in Behind
        PROVE  Read(d, plan[d], origin[d]) \in Entry
    BY <2>2 DEF Read, Behind, Confirmed, Entry, Stages, Linkable, MaybeStaff, MaybeId
  <2>3. work' \in [Requests -> [Days -> Entry]]
    BY <1>9, <2>2, NoEntryType DEF SyncRead
  <2> QED BY <1>9, <2>1, <2>3 DEF SyncRead
<1>10. ASSUME NEW r \in Requests, SyncNothing(r) PROVE TypeOK'
  BY <1>10 DEF SyncNothing
<1>11. ASSUME NEW r \in Requests, SyncBank(r) PROVE TypeOK'
  <2>1. mark' \in [Days -> Marks]
    BY <1>11 DEF SyncBank, Worsen, Marks
  <2>2. link' \in [Days -> MaybeId]
    BY <1>11 DEF SyncBank, SetFieldShiftLinks, Entry
  <2> QED BY <1>11, <2>1, <2>2, NoEntryType DEF SyncBank, SetFieldShiftLinks
<1>12. ASSUME NEW r \in Requests, SyncCount(r) PROVE TypeOK'
  BY <1>12, CountIsNat DEF SyncCount
<1>13. ASSUME NEW r \in Requests, NEW d \in Days, Unlinkable(r, d) PROVE TypeOK'
  BY <1>13 DEF Unlinkable, Settle, Answered, Entry, Stages
<1>14. ASSUME NEW r \in Requests, NEW d \in Days, NothingToWithdraw(r, d) PROVE TypeOK'
  BY <1>14 DEF NothingToWithdraw, Settle, Answered, Told, Marks, Entry, Stages, MaybeId
<1>15. ASSUME NEW r \in Requests, NEW d \in Days, Withdraw(r, d) \/ WithdrawLost(r, d)
       PROVE  TypeOK'
  <2>1. mark' \in [Days -> Marks]
    BY <1>15 DEF Withdraw, WithdrawLost, Worsen, Told, Marks
  <2>2. work' \in [Requests -> [Days -> Entry]]
    BY <1>15, SettleType DEF Withdraw, WithdrawLost, Entry, Stages, MaybeId
  <2> QED BY <1>15, <2>1, <2>2 DEF Withdraw, WithdrawLost, DeleteLands, Resolves
<1>16. ASSUME NEW r \in Requests, NEW d \in Days, WithdrawMissing(r, d) PROVE TypeOK'
  BY <1>16 DEF WithdrawMissing, Settle, Answered, Told, Marks, Entry, Stages, MaybeId
<1>17. ASSUME NEW r \in Requests, NEW d \in Days, Patch(r, d) \/ PatchLost(r, d)
       PROVE  TypeOK'
  <2>1. mark' \in [Days -> Marks]
    BY <1>17 DEF Patch, PatchLost, Worsen, Told, Marks
  <2>2. work' \in [Requests -> [Days -> Entry]]
    BY <1>17, SettleType DEF Patch, PatchLost, Entry, Stages
  <2>3. work[r][d].plan \in Spans /\ work[r][d].staff \in StaffIds
    BY <1>17 DEF Patch, PatchLost, PatchLands, Entry, Plans, MaybeStaff
  <2>4. field' \in [ShiftIds -> FieldShift \cup {Nothing}]
    BY <1>17, <2>3 DEF Patch, PatchLost, PatchLands, Resolves, FieldShift
  <2> QED BY <1>17, <2>1, <2>2, <2>4 DEF Patch, PatchLost, PatchLands
<1>18. ASSUME NEW r \in Requests, NEW d \in Days, PatchMissing(r, d) PROVE TypeOK'
  BY <1>18 DEF PatchMissing, Settle, Answered, Entry, Stages, MaybeId
<1>19. ASSUME NEW r \in Requests, NEW d \in Days, NEW i \in ShiftIds,
              Post(r, d, i) \/ PostLost(r, d, i)
       PROVE  TypeOK'
  <2>1. mark' \in [Days -> Marks]
    BY <1>19 DEF Post, PostLost, Worsen, Told, Marks
  <2>2. work' \in [Requests -> [Days -> Entry]]
    BY <1>19, SettleType DEF Post, PostLost, Entry, Stages, MaybeId
  <2>3. work[r][d].plan \in Spans /\ work[r][d].staff \in StaffIds
    BY <1>19 DEF Post, PostLost, PostLands, Posts, Entry, Plans, MaybeStaff
  <2>4. field' \in [ShiftIds -> FieldShift \cup {Nothing}]
    BY <1>19, <2>3 DEF Post, PostLost, PostLands, FieldShift
  <2> QED BY <1>19, <2>1, <2>2, <2>4 DEF Post, PostLost, PostLands
<1>20. ASSUME NEW r \in Requests, NEW d \in Days, Refuse(r, d) PROVE TypeOK'
  BY <1>20 DEF Refuse, Settle, Answered, Entry, Stages
<1>21. ASSUME NEW r \in Requests, NEW d \in Days, Unreachable(r, d) PROVE TypeOK'
  BY <1>21 DEF Unreachable, Settle, Answered, Entry, Stages
<1>22. ASSUME NEW r \in Requests, Abort(r) PROVE TypeOK'
  BY <1>22, NoEntryType, CountIsNat DEF Worsen, Marks, Abort
<1>23. CASE Others
  <2>1. mark' \in [Days -> Marks]
    BY <1>23 DEF Others, FieldDelete, Relink, StaffGone, Redeploy, Worsen, Marks
  <2> QED BY <1>23, <2>1 DEF Others, FieldDelete, Relink, StaffGone, Redeploy, MaybeStaff
<1>24. CASE UNCHANGED vars
  BY <1>24 DEF vars
<1> QED
  BY <1>1, <1>2, <1>3, <1>4, <1>5, <1>6, <1>7, <1>8, <1>9, <1>10, <1>11, <1>12,
     <1>13, <1>14, <1>15, <1>16, <1>17, <1>18, <1>19, <1>20, <1>21, <1>22, <1>23, <1>24
  DEF Next, Start, Proceed, Push

\* Every variable keeps the type its column, counter or snapshot has in the
\* code, at every step of every handler.
THEOREM TypeCorrect == Spec => []TypeOK
<1>1. Init => TypeOK
  BY NoEntryType, CountIsNat DEF Init, TypeOK, Marks, Origins, MaybeId, Plans
<1> QED BY <1>1, TypeStep, PTL DEF Spec

-----------------------------------------------------------------------------
(* One answer from Field.  Every Push action settles one day of one request *)
(* and changes Field, if at all, for that day only; so what is left to      *)
(* check per action concerns that day alone.                                *)

\* What an answer may change.
OneDayAnswer(r, d, s, l) ==
  /\ Pushing(r)
  /\ work[r][d].stage \in {"todo", "post"}
  /\ Settle(r, d, s, l)
  /\ UNCHANGED <<table, roster, pc>>
  /\ \A e \in Days : e # d \/ mark[e] = "disturbed" => mark'[e] = mark[e]
  /\ issued \subseteq issued'
  /\ \A i \in ShiftIds : field'[i] # field[i] =>
       /\ field[i] # Nothing => field[i].day = d
       /\ field'[i] # Nothing => field'[i].day = d /\ i \in issued'
       /\ field[i] = Nothing => i \notin issued
  /\ l = Nothing \/ (l \in issued' /\ (field'[l] # Nothing => field'[l].day = d))

\* What the day owes the invariant once it is settled.
DaySettled(r, d, s) ==
  mark'[d] # "disturbed" =>
    /\ AfterCall(r, d)'
    /\ \A i \in Held(d)' : profile[d] \in {Nothing, field'[i].staff}
    /\ ~(s = "ok" /\ work[r][d].staff # Nothing) =>
         /\ Held(d)' \subseteq {link[d]}
         /\ d \in Confirmed /\ mark'[d] = "clean" /\ ~behind[d] => FieldAgrees(d)'

LEMMA SettleFacts ==
  ASSUME TypeOK, NEW r \in Requests, NEW d \in Days, NEW s, NEW l, Settle(r, d, s, l)
  PROVE  /\ \A q \in Requests, e \in Days : q # r \/ e # d => work'[q][e] = work[q][e]
         /\ work'[r][d].stage = s
         /\ work'[r][d].link = l
         /\ work'[r][d].plan = work[r][d].plan
         /\ work'[r][d].staff = work[r][d].staff
         /\ work'[r][d].existing = work[r][d].existing
BY DEF TypeOK, Settle, Answered

LEMMA AnswerStep ==
  ASSUME MirrorInv, TypeOK', NEW r \in Requests, NEW d \in Days,
         NEW s \in {"post", "ok", "refused", "failed"}, NEW l \in MaybeId,
         OneDayAnswer(r, d, s, l), DaySettled(r, d, s)
  PROVE  MirrorInv'
<1> USE DEF table, roster
<1>t. TypeOK
  BY DEF MirrorInv
<1>f. /\ \A q \in Requests, e \in Days : q # r \/ e # d => work'[q][e] = work[q][e]
      /\ work'[r][d].stage = s
      /\ work'[r][d].link = l
      /\ work'[r][d].plan = work[r][d].plan
      /\ work'[r][d].staff = work[r][d].staff
      /\ work'[r][d].existing = work[r][d].existing
  BY <1>t, SettleFacts DEF OneDayAnswer
<1>p. pc' = pc /\ pc[r] \in {"edit", "push"}
  BY DEF OneDayAnswer, Pushing
<1>c. \A q \in Requests, e \in Days : Carries(q, e)' <=> Carries(q, e)
  BY <1>f DEF Carries, OneDayAnswer
<1>1. StageOK'
  BY <1>f, <1>p DEF MirrorInv, StageOK, Edited, OneDayAnswer
<1>2. IdsOK'
  <2>1. \A i \in ShiftIds : field'[i] # Nothing => i \in issued'
    BY DEF MirrorInv, IdsOK, OneDayAnswer
  <2>2. ASSUME NEW e \in Days, NEW i \in MaybeId, Names(i, e)
        PROVE  i = Nothing \/ (i \in issued' /\ (field'[i] # Nothing => field'[i].day = e))
    BY <2>2, <1>t DEF Names, OneDayAnswer, MaybeId, TypeOK
  <2>3. ASSUME NEW e \in Days PROVE Names(link[e], e)'
    BY <2>2, <1>t DEF MirrorInv, IdsOK, Names, OneDayAnswer, TypeOK
  <2>4. ASSUME NEW q \in Requests, NEW e \in Days
        PROVE  (Names(work[q][e].existing, e) /\ Names(work[q][e].link, e))'
    <3>1. work[q][e].existing \in MaybeId /\ work[q][e].link \in MaybeId
      BY <1>t DEF TypeOK, Entry
    <3>2. Names(work[q][e].existing, e) /\ Names(work[q][e].link, e)
      BY DEF MirrorInv, IdsOK
    <3>3. work'[q][e].existing = work[q][e].existing
      BY <1>f
    <3>4. Names(work[q][e].existing, e)'
      BY <2>2, <3>1, <3>2, <3>3 DEF Names
    <3>5. CASE q = r /\ e = d
      BY <3>4, <3>5, <1>f DEF OneDayAnswer, Names
    <3>6. CASE q # r \/ e # d
      <4>1. work'[q][e].link = work[q][e].link
        BY <3>6, <1>f
      <4> QED BY <2>2, <3>1, <3>2, <3>4, <4>1 DEF Names
    <3> QED BY <3>5, <3>6
  <2> QED BY <2>1, <2>3, <2>4 DEF IdsOK
<1>3. Single'
  BY <1>c DEF MirrorInv, Single, OneDayAnswer
<1>h. ASSUME NEW e \in Days, e # d
      PROVE  /\ Held(e)' = Held(e)
             /\ \A i \in Held(e) : field'[i] = field[i]
  BY <1>h, <1>t DEF Held, OneDayAnswer, TypeOK
<1>4. Flight'
  <2> SUFFICES ASSUME NEW q \in Requests, NEW e \in Days,
                      mark'[e] # "disturbed", Carries(q, e)
               PROVE  FreshEntry(q, e)' /\ AfterCall(q, e)'
    BY <1>c DEF Flight
  <2>1. mark[e] # "disturbed"
    BY DEF OneDayAnswer
  <2>2. FreshEntry(q, e) /\ AfterCall(q, e)
    BY <2>1 DEF MirrorInv, Flight
  <2>3. Linkable(e)' = Linkable(e)
    BY DEF OneDayAnswer, Linkable
  <2>4. CASE e = d
    <3>1. q = r
      BY <2>1, <2>4 DEF MirrorInv, Single, OneDayAnswer, Carries
    <3>2. FreshEntry(q, e)'
      BY <1>f, <1>p, <2>2, <2>3, <2>4, <3>1 DEF FreshEntry, OneDayAnswer
    <3> QED BY <2>4, <3>1, <3>2 DEF DaySettled
  <2>5. CASE e # d
    <3>1. work'[q][e] = work[q][e]
      BY <1>f, <2>5
    <3>2. FreshEntry(q, e)'
      BY <1>p, <2>2, <2>3, <3>1 DEF FreshEntry, OneDayAnswer
    <3>3. mark'[e] = mark[e] /\ Held(e)' = Held(e)
      BY <2>5, <1>h DEF OneDayAnswer
    <3>4. work[q][e].link \in MaybeId /\ Names(work[q][e].link, e)
      BY <1>t DEF TypeOK, Entry, MirrorInv, IdsOK
    <3>5. ASSUME work[q][e].stage = "ok", work[q][e].staff # Nothing,
                 work[q][e].plan # Off, mark[e] = "clean"
          PROVE  field'[work[q][e].link] =
                   [day |-> e, staff |-> work[q][e].staff, hours |-> HoursOf[work[q][e].plan]]
      <4>1. /\ work[q][e].link # Nothing
            /\ field[work[q][e].link] =
                 [day |-> e, staff |-> work[q][e].staff, hours |-> HoursOf[work[q][e].plan]]
        BY <2>2, <3>5 DEF AfterCall
      <4>2. work[q][e].link \in ShiftIds
        BY <3>4, <4>1 DEF MaybeId
      <4>3. work[q][e].staff \in StaffIds /\ work[q][e].plan \in Spans
        BY <3>5, <1>t DEF TypeOK, Entry, MaybeStaff, Plans
      <4>4. work[q][e].link \in Held(e)
        BY <4>1, <4>2, <4>3, NoShiftAssumption DEF Held, FieldShift
      <4> QED BY <4>1, <4>4, <1>h, <2>5
    <3>6. AfterCall(q, e)'
      BY <2>2, <3>1, <3>3, <3>5 DEF AfterCall
    <3> QED BY <3>2, <3>6
  <2> QED BY <2>4, <2>5
<1>5. \A e \in Days : e # d => (ToldInFlight(e)' <=> ToldInFlight(e))
  BY <1>f DEF ToldInFlight
<1>6. ~ToldInFlight(d)' => ~(s = "ok" /\ work[r][d].staff # Nothing)
  BY <1>f DEF ToldInFlight
<1>7. Reachable'
  <2> SUFFICES ASSUME NEW e \in Days, mark'[e] # "disturbed", ~ToldInFlight(e)'
               PROVE  Held(e)' \subseteq {link'[e]}
    BY DEF Reachable
  <2>1. CASE e = d
    BY <2>1, <1>6 DEF DaySettled, OneDayAnswer
  <2>2. CASE e # d
    BY <2>2, <1>5, <1>h DEF MirrorInv, Reachable, OneDayAnswer
  <2> QED BY <2>1, <2>2
<1>8. StaffOK'
  <2> SUFFICES ASSUME NEW e \in Days, mark'[e] # "disturbed", NEW i \in Held(e)'
               PROVE  profile'[e] \in {Nothing, field'[i].staff}
    BY DEF StaffOK
  <2>1. CASE e = d
    BY <2>1 DEF DaySettled, OneDayAnswer
  <2>2. CASE e # d
    BY <2>2, <1>h DEF MirrorInv, StaffOK, OneDayAnswer
  <2> QED BY <2>1, <2>2
<1>9. Agree'
  <2> SUFFICES ASSUME NEW e \in Days, e \in Confirmed, mark'[e] = "clean", ~behind[e],
                      ~ToldInFlight(e)'
               PROVE  FieldAgrees(e)'
    BY DEF Agree, Confirmed, OneDayAnswer
  <2>1. CASE e = d
    BY <2>1, <1>6 DEF DaySettled
  <2>2. CASE e # d
    <3>1. FieldAgrees(e)
      BY <2>2, <1>5 DEF MirrorInv, Agree, OneDayAnswer
    <3>2. plan' = plan /\ link' = link /\ profile' = profile
      BY DEF OneDayAnswer
    <3> QED BY <2>2, <3>1, <3>2, <1>h DEF FieldAgrees
  <2> QED BY <2>1, <2>2
<1> QED BY <1>1, <1>2, <1>3, <1>4, <1>7, <1>8, <1>9 DEF MirrorInv

\* Before Field answers for an undisturbed day, what it holds for that day is
\* what the request read, filed under the staff member it resolved.
LEMMA CarriedDay ==
  ASSUME MirrorInv, NEW r \in Requests, NEW d \in Days,
         work[r][d].stage \in {"todo", "post"}, mark[d] # "disturbed"
  PROVE  /\ work[r][d].existing = link[d]
         /\ work[r][d].staff = Linkable(d)
         /\ Held(d) \subseteq {link[d]}
         /\ \A i \in Held(d) : profile[d] \in {Nothing, field[i].staff}
         /\ d \in Confirmed /\ mark[d] = "clean" /\ ~behind[d] => FieldAgrees(d)
<1>1. Carries(r, d)
  BY DEF Carries
<1>2. ~ToldInFlight(d)
  BY <1>1 DEF MirrorInv, Single, Carries, ToldInFlight
<1> QED BY <1>1, <1>2 DEF MirrorInv, Flight, FreshEntry, Reachable, StaffOK, Agree

\* An answer that leaves Field as it was, for a day that stays with its link.
LEMMA QuietAnswer ==
  ASSUME MirrorInv, NEW r \in Requests, NEW d \in Days,
         NEW s \in {"ok", "refused", "failed"},
         Pushing(r), work[r][d].stage \in {"todo", "post"},
         s = "ok" => work[r][d].staff = Nothing,
         Settle(r, d, s, work[r][d].existing),
         UNCHANGED <<table, hrm, roster, pc, mark>>
  PROVE  OneDayAnswer(r, d, s, work[r][d].existing) /\ DaySettled(r, d, s)
<1> USE DEF table, hrm, roster
<1>t. TypeOK
  BY DEF MirrorInv
<1>1. OneDayAnswer(r, d, s, work[r][d].existing)
  BY DEF OneDayAnswer, MirrorInv, IdsOK, Names
<1>2. ASSUME mark'[d] # "disturbed"
      PROVE  AfterCall(r, d)'
  BY <1>2, <1>t, CarriedDay, SettleFacts DEF AfterCall, Held
<1>3. ASSUME mark'[d] # "disturbed"
      PROVE  /\ Held(d)' = Held(d)
             /\ FieldAgrees(d)' <=> FieldAgrees(d)
  BY DEF Held, FieldAgrees
<1> QED BY <1>1, <1>2, <1>3, CarriedDay DEF DaySettled

LEMMA PushStep ==
  ASSUME MirrorInv, TypeOK', NEW r \in Requests, NEW d \in Days, Push(r, d)
  PROVE  MirrorInv'
<1> USE DEF table, hrm, roster
<1>t. TypeOK
  BY DEF MirrorInv
<1>e. work[r][d].existing \in MaybeId /\ Nothing \in MaybeId
  BY <1>t DEF TypeOK, Entry, MaybeId
<1>n. /\ \A i \in ShiftIds : field[i] # Nothing => i \in issued
      /\ Names(work[r][d].existing, d)
  BY DEF MirrorInv, IdsOK
<1>1. CASE Unlinkable(r, d)
  BY <1>1, <1>e, QuietAnswer, AnswerStep DEF Unlinkable, At
<1>2. CASE Refuse(r, d) \/ Unreachable(r, d)
  BY <1>2, <1>e, QuietAnswer, AnswerStep DEF Refuse, Unreachable
<1>3. CASE NothingToWithdraw(r, d)
  <2>1. OneDayAnswer(r, d, "ok", Nothing)
    BY <1>3, <1>t DEF NothingToWithdraw, OneDayAnswer, At, Told, TypeOK, Marks
  <2>2. DaySettled(r, d, "ok")
    <3> SUFFICES ASSUME mark'[d] # "disturbed"
                 PROVE  AfterCall(r, d)' /\ Held(d)' = {}
      BY <1>3 DEF DaySettled, NothingToWithdraw
    <3>1. mark[d] # "disturbed"
      BY <1>3, <1>t DEF NothingToWithdraw, Told, TypeOK
    <3>2. Held(d)' = {}
      BY <1>3, <3>1, CarriedDay, NothingAssumption DEF NothingToWithdraw, At, Held
    <3> QED BY <1>3, <1>t, <3>2, SettleFacts DEF NothingToWithdraw, AfterCall
  <2> QED BY <1>e, <2>1, <2>2, AnswerStep
<1>4. CASE Withdraw(r, d)
  <2>1. OneDayAnswer(r, d, "ok", Nothing)
    <3>1. /\ work[r][d].existing \in ShiftIds
          /\ field[work[r][d].existing] # Nothing
          /\ field[work[r][d].existing].day = d
          /\ field' = [field EXCEPT ![work[r][d].existing] = Nothing]
          /\ work[r][d].existing \in issued /\ issued' = issued
      BY <1>4, <1>n, NothingAssumption DEF Withdraw, DeleteLands, Resolves, Names
    <3>2. \A e \in Days : e # d \/ mark[e] = "disturbed" => mark'[e] = mark[e]
      BY <1>4, <1>t DEF Withdraw, Told, TypeOK
    <3>3. \A i \in ShiftIds : field'[i] # field[i] => i = work[r][d].existing /\ field'[i] = Nothing
      BY <3>1, <1>t DEF TypeOK
    <3> QED BY <1>4, <3>1, <3>2, <3>3 DEF Withdraw, DeleteLands, OneDayAnswer, At
  <2>2. DaySettled(r, d, "ok")
    <3> SUFFICES ASSUME mark'[d] # "disturbed"
                 PROVE  AfterCall(r, d)' /\ Held(d)' = {}
      BY <1>4 DEF DaySettled, Withdraw, DeleteLands
    <3>1. mark[d] # "disturbed"
      BY <1>4, <1>t DEF Withdraw, Told, TypeOK
    <3>2. Held(d)' = {}
      BY <1>4, <1>t, <3>1, CarriedDay DEF Withdraw, DeleteLands, At, Held, Resolves, TypeOK
    <3> QED BY <1>4, <1>t, <3>2, SettleFacts DEF Withdraw, DeleteLands, AfterCall
  <2> QED BY <1>e, <2>1, <2>2, AnswerStep
<1>5. CASE WithdrawLost(r, d)
  <2>1. OneDayAnswer(r, d, "failed", work[r][d].existing)
    <3>1. /\ work[r][d].existing \in ShiftIds
          /\ field[work[r][d].existing] # Nothing
          /\ field[work[r][d].existing].day = d
          /\ field' = [field EXCEPT ![work[r][d].existing] = Nothing]
          /\ work[r][d].existing \in issued /\ issued' = issued
      BY <1>5, <1>n, NothingAssumption DEF WithdrawLost, DeleteLands, Resolves, Names
    <3>2. \A e \in Days : e # d \/ mark[e] = "disturbed" => mark'[e] = mark[e]
      BY <1>5, <1>t DEF WithdrawLost, Worsen, TypeOK
    <3>3. \A i \in ShiftIds : field'[i] # field[i] => i = work[r][d].existing /\ field'[i] = Nothing
      BY <3>1, <1>t DEF TypeOK
    <3> QED BY <1>5, <3>1, <3>2, <3>3 DEF WithdrawLost, DeleteLands, OneDayAnswer, At
  <2>2. DaySettled(r, d, "failed")
    <3> SUFFICES ASSUME mark'[d] # "disturbed"
                 PROVE  AfterCall(r, d)' /\ Held(d)' = {} /\ mark'[d] # "clean"
      BY DEF DaySettled
    <3>1. mark[d] # "disturbed" /\ mark'[d] # "clean"
      BY <1>5, <1>t DEF WithdrawLost, Worsen, TypeOK, Marks
    <3>2. Held(d)' = {}
      BY <1>5, <1>t, <3>1, CarriedDay DEF WithdrawLost, DeleteLands, At, Held, Resolves, TypeOK
    <3> QED BY <1>5, <1>t, <3>1, <3>2, SettleFacts DEF WithdrawLost, AfterCall
  <2> QED BY <1>e, <2>1, <2>2, AnswerStep
<1>6. ASSUME mark[d] # "disturbed", work[r][d].stage = "todo", work[r][d].staff # Nothing,
             ~Resolves(work[r][d])
      PROVE  Held(d) = {}
  <2>1. work[r][d].staff = profile[d] /\ profile[d] \in StaffIds \ gone
    BY <1>6, CarriedDay DEF Linkable
  <2> QED BY <1>6, <2>1, CarriedDay, NothingAssumption DEF Resolves, Held
<1>7. CASE WithdrawMissing(r, d)
  <2>1. OneDayAnswer(r, d, "ok", Nothing)
    BY <1>7, <1>t DEF WithdrawMissing, OneDayAnswer, At, Told, TypeOK, Marks
  <2>2. DaySettled(r, d, "ok")
    <3> SUFFICES ASSUME mark'[d] # "disturbed"
                 PROVE  AfterCall(r, d)' /\ Held(d)' = {}
      BY <1>7 DEF DaySettled, WithdrawMissing
    <3>1. mark[d] # "disturbed"
      BY <1>7, <1>t DEF WithdrawMissing, Told, TypeOK
    <3>2. Held(d)' = {}
      BY <1>6, <1>7, <3>1 DEF WithdrawMissing, At, Held
    <3> QED BY <1>7, <1>t, <3>2, SettleFacts DEF WithdrawMissing, AfterCall
  <2> QED BY <1>e, <2>1, <2>2, AnswerStep
<1>8. CASE PatchMissing(r, d)
  <2>1. OneDayAnswer(r, d, "post", Nothing)
    BY <1>8, <1>t DEF PatchMissing, OneDayAnswer, At, TypeOK
  <2>2. DaySettled(r, d, "post")
    <3> SUFFICES ASSUME mark'[d] # "disturbed"
                 PROVE  /\ AfterCall(r, d)'
                        /\ Held(d)' = {}
                        /\ d \in Confirmed /\ mark'[d] = "clean" /\ ~behind[d] => FieldAgrees(d)'
      BY DEF DaySettled
    <3>1. Held(d) = {} /\ Held(d)' = {}
      BY <1>6, <1>8 DEF PatchMissing, At, Held
    <3>2. d \in Confirmed /\ mark'[d] = "clean" /\ ~behind[d] => FieldAgrees(d)'
      BY <1>8, CarriedDay DEF PatchMissing, At, FieldAgrees, Held
    <3> QED BY <1>8, <1>t, <3>1, <3>2, SettleFacts DEF PatchMissing, AfterCall
  <2> QED BY <1>e, <2>1, <2>2, AnswerStep
<1>9. ASSUME PatchLands(r, d)
      PROVE  /\ \A i \in ShiftIds : field'[i] # field[i] => i = work[r][d].existing
             /\ work[r][d].existing \in ShiftIds /\ field[work[r][d].existing] # Nothing
             /\ field[work[r][d].existing].day = d
             /\ field'[work[r][d].existing] =
                  [day |-> d, staff |-> work[r][d].staff, hours |-> HoursOf[work[r][d].plan]]
             /\ work[r][d].existing \in issued /\ issued' = issued
  BY <1>9, <1>t, <1>n, NothingAssumption DEF PatchLands, Resolves, Names, TypeOK
<1>10. ASSUME PatchLands(r, d), mark[d] # "disturbed"
       PROVE  /\ Held(d)' \subseteq {work[r][d].existing}
              /\ work[r][d].existing = link[d]
              /\ work[r][d].staff = profile[d]
  <2>1. work[r][d].staff = profile[d]
    BY <1>10, CarriedDay DEF PatchLands, At, Linkable
  <2> QED BY <1>9, <1>10, <2>1, CarriedDay DEF PatchLands, At, Held
<1>11. CASE Patch(r, d)
  <2>1. OneDayAnswer(r, d, "ok", work[r][d].existing)
    <3>1. \A e \in Days : e # d \/ mark[e] = "disturbed" => mark'[e] = mark[e]
      BY <1>11, <1>t DEF Patch, Told, TypeOK
    <3> QED BY <1>9, <1>11, <3>1 DEF Patch, PatchLands, OneDayAnswer, At
  <2>2. DaySettled(r, d, "ok")
    <3> SUFFICES ASSUME mark'[d] # "disturbed"
                 PROVE  /\ AfterCall(r, d)'
                        /\ \A i \in Held(d)' : profile[d] \in {Nothing, field'[i].staff}
      BY <1>11 DEF DaySettled, Patch, PatchLands
    <3>1. mark[d] # "disturbed"
      BY <1>11, <1>t DEF Patch, Told, TypeOK
    <3>2. \A i \in Held(d)' : profile[d] \in {Nothing, field'[i].staff}
      BY <1>9, <1>10, <1>11, <3>1 DEF Patch
    <3>3. work[r][d].existing # Nothing /\ work[r][d].plan # Off /\ work[r][d].staff # Nothing
      BY <1>9, <1>11, NothingAssumption DEF Patch, PatchLands
    <3> QED BY <1>9, <1>10, <1>11, <1>t, <3>1, <3>2, <3>3, SettleFacts DEF Patch, AfterCall
  <2> QED BY <1>e, <2>1, <2>2, AnswerStep
<1>12. CASE PatchLost(r, d)
  <2>1. OneDayAnswer(r, d, "failed", work[r][d].existing)
    <3>1. \A e \in Days : e # d \/ mark[e] = "disturbed" => mark'[e] = mark[e]
      BY <1>12, <1>t DEF PatchLost, Worsen, TypeOK
    <3> QED BY <1>9, <1>12, <3>1 DEF PatchLost, PatchLands, OneDayAnswer, At
  <2>2. DaySettled(r, d, "failed")
    <3> SUFFICES ASSUME mark'[d] # "disturbed"
                 PROVE  /\ AfterCall(r, d)'
                        /\ \A i \in Held(d)' : profile[d] \in {Nothing, field'[i].staff}
                        /\ Held(d)' \subseteq {link[d]}
                        /\ mark'[d] # "clean"
      BY DEF DaySettled
    <3>1. mark[d] # "disturbed" /\ mark'[d] # "clean"
      BY <1>12, <1>t DEF PatchLost, Worsen, TypeOK, Marks
    <3>2. \A i \in Held(d)' : profile[d] \in {Nothing, field'[i].staff}
      BY <1>9, <1>10, <1>12, <3>1 DEF PatchLost
    <3> QED BY <1>10, <1>12, <1>t, <3>1, <3>2, SettleFacts DEF PatchLost, AfterCall
  <2> QED BY <1>e, <2>1, <2>2, AnswerStep
<1>13. ASSUME NEW i \in ShiftIds, PostLands(r, d, i)
       PROVE  /\ \A j \in ShiftIds : j # i => field'[j] = field[j]
              /\ field[i] = Nothing /\ i \notin issued /\ issued' = issued \cup {i}
              /\ field'[i] = [day |-> d, staff |-> work[r][d].staff, hours |-> HoursOf[work[r][d].plan]]
              /\ work[r][d].stage \in {"todo", "post"}
  BY <1>13, <1>t, <1>n DEF PostLands, Posts, TypeOK
<1>14. ASSUME NEW i \in ShiftIds, Post(r, d, i)
       PROVE  MirrorInv'
  <2>1. OneDayAnswer(r, d, "ok", i)
    <3>1. \A e \in Days : e # d \/ mark[e] = "disturbed" => mark'[e] = mark[e]
      BY <1>14, <1>t DEF Post, Told, TypeOK
    <3>f. /\ \A j \in ShiftIds : j # i => field'[j] = field[j]
          /\ field[i] = Nothing /\ i \notin issued /\ issued' = issued \cup {i}
          /\ field'[i].day = d
      BY <1>13, <1>14 DEF Post
    <3>g. \A j \in ShiftIds : field'[j] # field[j] =>
            /\ field[j] # Nothing => field[j].day = d
            /\ field'[j] # Nothing => field'[j].day = d /\ j \in issued'
            /\ field[j] = Nothing => j \notin issued
      BY <3>f
    <3> QED BY <1>14, <3>1, <3>f, <3>g DEF Post, PostLands, Posts, OneDayAnswer
  <2>2. DaySettled(r, d, "ok")
    <3> SUFFICES ASSUME mark'[d] # "disturbed"
                 PROVE  /\ AfterCall(r, d)'
                        /\ \A j \in Held(d)' : profile[d] \in {Nothing, field'[j].staff}
      BY <1>14 DEF DaySettled, Post, PostLands, Posts
    <3>1. mark[d] # "disturbed"
      BY <1>14, <1>t DEF Post, Told, TypeOK
    <3>2. Held(d) = {}
      <4>1. CASE work[r][d].stage = "post"
        BY <3>1, <4>1 DEF MirrorInv, Flight, AfterCall, Carries
      <4>2. CASE work[r][d].stage = "todo" /\ work[r][d].existing = Nothing
        BY <3>1, <4>2, CarriedDay, NothingAssumption DEF Held
      <4> QED BY <1>14, <4>1, <4>2 DEF Post, PostLands, Posts
    <3>3. Held(d)' \subseteq {i}
      BY <1>13, <1>14, <3>2 DEF Post, Held
    <3>4. work[r][d].staff = profile[d] /\ work[r][d].plan # Off /\ work[r][d].staff # Nothing
      BY <1>13, <1>14, <3>1, CarriedDay DEF Post, PostLands, Posts, Linkable
    <3>5. i # Nothing
      BY NothingAssumption
    <3>6. \A j \in Held(d)' : profile[d] \in {Nothing, field'[j].staff}
      BY <1>13, <1>14, <3>3, <3>4 DEF Post
    <3> QED BY <1>13, <1>14, <1>t, <3>3, <3>4, <3>5, <3>6, SettleFacts DEF Post, AfterCall
  <2> QED BY <2>1, <2>2, AnswerStep DEF MaybeId
<1>15. ASSUME NEW i \in ShiftIds, PostLost(r, d, i)
       PROVE  MirrorInv'
  <2>1. OneDayAnswer(r, d, "failed", work[r][d].existing)
    <3>1. \A e \in Days : e # d \/ mark[e] = "disturbed" => mark'[e] = mark[e]
      BY <1>15, <1>t DEF PostLost, Worsen, TypeOK
    <3>2. \/ work[r][d].existing = Nothing
          \/ /\ work[r][d].existing \in issued /\ work[r][d].existing \in ShiftIds
             /\ field[work[r][d].existing] # Nothing => field[work[r][d].existing].day = d
      BY <1>n, <1>t DEF Names, TypeOK
    <3>f. /\ \A j \in ShiftIds : j # i => field'[j] = field[j]
          /\ field[i] = Nothing /\ i \notin issued /\ issued' = issued \cup {i}
          /\ field'[i].day = d
      BY <1>13, <1>15 DEF PostLost
    <3>g. \A j \in ShiftIds : field'[j] # field[j] =>
            /\ field[j] # Nothing => field[j].day = d
            /\ field'[j] # Nothing => field'[j].day = d /\ j \in issued'
            /\ field[j] = Nothing => j \notin issued
      BY <3>f
    <3>h. work[r][d].existing = Nothing \/
            (/\ work[r][d].existing \in issued'
             /\ field'[work[r][d].existing] # Nothing => field'[work[r][d].existing].day = d)
      BY <3>2, <3>f
    <3> QED BY <1>15, <3>1, <3>f, <3>g, <3>h DEF PostLost, PostLands, Posts, OneDayAnswer
  <2>2. DaySettled(r, d, "failed")
    BY <1>15, <1>t DEF PostLost, DaySettled, Worsen, TypeOK
  <2> QED BY <1>e, <2>1, <2>2, AnswerStep
<1> QED BY <1>1, <1>2, <1>3, <1>4, <1>5, <1>7, <1>8, <1>11, <1>12, <1>14, <1>15 DEF Push

-----------------------------------------------------------------------------
(* The step: one case per handler step, one leaf per conjunct.             *)

LEMMA MirrorStep == MirrorInv /\ [Next]_vars => MirrorInv'
<1> SUFFICES ASSUME MirrorInv, [Next]_vars PROVE MirrorInv'
  OBVIOUS
<1>t. TypeOK /\ TypeOK'
  BY TypeStep DEF MirrorInv
<1> USE DEF table, hrm, roster
<1>1. ASSUME NEW r \in Requests, NEW d \in Days, 
             NEW p \in Plans, NEW o \in {"edited", "pinned"}, EditBegin(r, d, p, o)
      PROVE  MirrorInv'
  <2>1. StageOK'
    BY <1>1, <1>t, NothingAssumption
    DEF MirrorInv, TypeOK, StageOK, Edited, EditBegin, Begin, Read, Worsen, InFlight, Carries
  <2>2. IdsOK'
    BY <1>1, <1>t, NothingAssumption
    DEF MirrorInv, TypeOK, IdsOK, Names, EditBegin, Begin, Read, Worsen, InFlight, Carries
  <2>3. Single'
    BY <1>1, <1>t, NothingAssumption
    DEF MirrorInv, TypeOK, Single, Carries, EditBegin, Begin, Read, Worsen, InFlight
  <2>4. Flight'
    BY <1>1, <1>t, NothingAssumption
    DEF MirrorInv, TypeOK, Flight, FreshEntry, AfterCall, Carries, Held, Linkable, EditBegin, Begin, Read, Worsen, InFlight
  <2>5. Reachable'
    <3>1. ASSUME NEW e \in Days, ToldInFlight(e) PROVE ToldInFlight(e)'
      BY <1>1, <1>t, <3>1 DEF MirrorInv, StageOK, TypeOK, ToldInFlight, EditBegin, Begin
    <3> QED BY <1>1, <1>t, <3>1 DEF MirrorInv, Reachable, Held, EditBegin, Worsen, TypeOK
  <2>6. StaffOK'
    BY <1>1, <1>t, NothingAssumption
    DEF MirrorInv, TypeOK, StaffOK, Held, EditBegin, Begin, Read, Worsen, InFlight, Carries
  <2>7. Agree'
    <3>1. ASSUME NEW e \in Days, ToldInFlight(e) PROVE ToldInFlight(e)'
      BY <1>1, <1>t, <3>1 DEF MirrorInv, StageOK, TypeOK, ToldInFlight, EditBegin, Begin
    <3>2. ASSUME NEW e \in Days, mark'[e] = "clean" PROVE mark[e] = "clean"
      BY <1>1, <1>t, <3>2 DEF EditBegin, Worsen, TypeOK
    <3> QED BY <1>1, <3>1, <3>2 DEF MirrorInv, Agree, Confirmed, FieldAgrees, Held, EditBegin
  <2> QED BY <1>t, <2>1, <2>2, <2>3, <2>4, <2>5, <2>6, <2>7 DEF MirrorInv
<1>2. ASSUME NEW r \in Requests, NEW d \in Days, 
             NEW p \in Plans, NEW o \in {"edited", "pinned"}, EditLocally(r, d, p, o)
      PROVE  MirrorInv'
  <2>1. StageOK'
    BY <1>2, <1>t, NothingAssumption
    DEF MirrorInv, TypeOK, StageOK, Edited, EditLocally, Begin, SaveShifts, Worsen, InFlight, Carries
  <2>2. IdsOK'
    BY <1>2, <1>t, NothingAssumption
    DEF MirrorInv, TypeOK, IdsOK, Names, EditLocally, Begin, SaveShifts, Worsen, InFlight, Carries
  <2>3. Single'
    BY <1>2, <1>t, NothingAssumption
    DEF MirrorInv, TypeOK, Single, Carries, EditLocally, Begin, SaveShifts, Worsen, InFlight
  <2>4. Flight'
    BY <1>2, <1>t, NothingAssumption
    DEF MirrorInv, TypeOK, Flight, FreshEntry, AfterCall, Carries, Held, Linkable, EditLocally, Begin, SaveShifts, Worsen, InFlight
  <2>5. Reachable'
    BY <1>2, <1>t, NothingAssumption
    DEF MirrorInv, TypeOK, Reachable, ToldInFlight, Held, EditLocally, Begin, SaveShifts, Worsen, InFlight, Carries
  <2>6. StaffOK'
    BY <1>2, <1>t, NothingAssumption
    DEF MirrorInv, TypeOK, StaffOK, Held, EditLocally, Begin, SaveShifts, Worsen, InFlight, Carries
  <2>7. Agree'
    BY <1>2, <1>t, NothingAssumption
    DEF MirrorInv, TypeOK, Agree, FieldAgrees, ToldInFlight, Confirmed, Held, EditLocally, Begin, SaveShifts, Worsen, InFlight, Carries
  <2> QED BY <1>t, <2>1, <2>2, <2>3, <2>4, <2>5, <2>6, <2>7 DEF MirrorInv
<1>3. ASSUME NEW r \in Requests, NEW newPlan \in [Days -> Plans], ConfirmBegin(r, newPlan)
      PROVE  MirrorInv'
  <2>1. StageOK'
    BY <1>3, <1>t, NothingAssumption
    DEF MirrorInv, TypeOK, StageOK, Edited, ConfirmBegin, Begin, Planned, InFlight, Carries
  <2>2. IdsOK'
    BY <1>3, <1>t, NothingAssumption
    DEF MirrorInv, TypeOK, IdsOK, Names, ConfirmBegin, Begin, Planned, InFlight, Carries
  <2>3. Single'
    BY <1>3, <1>t, NothingAssumption
    DEF MirrorInv, TypeOK, Single, Carries, ConfirmBegin, Begin, Planned, InFlight
  <2>4. Flight'
    BY <1>3, <1>t, NothingAssumption
    DEF MirrorInv, TypeOK, Flight, FreshEntry, AfterCall, Carries, Held, Linkable, ConfirmBegin, Begin, Planned, InFlight
  <2>5. Reachable'
    <3>1. ASSUME NEW e \in Days, ToldInFlight(e) PROVE ToldInFlight(e)'
      BY <1>3, <1>t, <3>1 DEF MirrorInv, StageOK, TypeOK, ToldInFlight, ConfirmBegin, Begin
    <3> QED BY <1>3, <3>1 DEF MirrorInv, Reachable, Held, ConfirmBegin
  <2>6. StaffOK'
    BY <1>3, <1>t, NothingAssumption
    DEF MirrorInv, TypeOK, StaffOK, Held, ConfirmBegin, Begin, Planned, InFlight, Carries
  <2>7. Agree'
    <3>1. ASSUME NEW e \in Days, ToldInFlight(e) PROVE ToldInFlight(e)'
      BY <1>3, <1>t, <3>1 DEF MirrorInv, StageOK, TypeOK, ToldInFlight, ConfirmBegin, Begin
    <3> QED BY <1>3, <3>1 DEF MirrorInv, Agree, Confirmed, FieldAgrees, Held, ConfirmBegin
  <2> QED BY <1>t, <2>1, <2>2, <2>3, <2>4, <2>5, <2>6, <2>7 DEF MirrorInv
<1>4. ASSUME NEW r \in Requests, SyncBegin(r)
      PROVE  MirrorInv'
  <2>1. StageOK'
    BY <1>4, <1>t, NothingAssumption
    DEF MirrorInv, TypeOK, StageOK, Edited, SyncBegin, Begin, InFlight, Carries
  <2>2. IdsOK'
    BY <1>4, <1>t, NothingAssumption
    DEF MirrorInv, TypeOK, IdsOK, Names, SyncBegin, Begin, InFlight, Carries
  <2>3. Single'
    BY <1>4, <1>t, NothingAssumption
    DEF MirrorInv, TypeOK, Single, Carries, SyncBegin, Begin, InFlight
  <2>4. Flight'
    BY <1>4, <1>t, NothingAssumption
    DEF MirrorInv, TypeOK, Flight, FreshEntry, AfterCall, Carries, Held, Linkable, SyncBegin, Begin, InFlight
  <2>5. Reachable'
    BY <1>4, <1>t, NothingAssumption
    DEF MirrorInv, TypeOK, Reachable, ToldInFlight, Held, SyncBegin, Begin, InFlight, Carries
  <2>6. StaffOK'
    BY <1>4, <1>t, NothingAssumption
    DEF MirrorInv, TypeOK, StaffOK, Held, SyncBegin, Begin, InFlight, Carries
  <2>7. Agree'
    BY <1>4, <1>t, NothingAssumption
    DEF MirrorInv, TypeOK, Agree, FieldAgrees, ToldInFlight, Confirmed, Held, SyncBegin, Begin, InFlight, Carries
  <2> QED BY <1>t, <2>1, <2>2, <2>3, <2>4, <2>5, <2>6, <2>7 DEF MirrorInv
<1>5. ASSUME NEW r \in Requests, EditSave(r)
      PROVE  MirrorInv'
  <2>1. StageOK'
    BY <1>5, <1>t, NothingAssumption
    DEF MirrorInv, TypeOK, StageOK, Edited, EditSave, SaveShifts, InFlight, Carries
  <2>2. IdsOK'
    BY <1>5, <1>t, NothingAssumption
    DEF MirrorInv, TypeOK, IdsOK, Names, EditSave, SaveShifts, Edited, InFlight, Carries
  <2>3. Single'
    BY <1>5, <1>t, NothingAssumption
    DEF MirrorInv, TypeOK, Single, Carries, EditSave, SaveShifts, Edited, InFlight
  <2>4. Flight'
    <3> SUFFICES ASSUME NEW q \in Requests, NEW e \in Days, mark[e] # "disturbed", Carries(q, e)
                 PROVE  FreshEntry(q, e)' /\ AfterCall(q, e)'
      BY <1>5 DEF Flight, EditSave, Carries
    <3>1. FreshEntry(q, e) /\ AfterCall(q, e)
      BY DEF MirrorInv, Flight
    <3>2. AfterCall(q, e)'
      BY <1>5, <3>1 DEF AfterCall, Held, EditSave
    <3>3. ASSUME q = r PROVE FreshEntry(q, e)'
      BY <1>5, <1>t, <3>1, <3>3 DEF FreshEntry, Linkable, EditSave, SaveShifts, Edited, Carries, TypeOK
    <3>4. ASSUME q # r PROVE FreshEntry(q, e)'
      <4>1. e \notin Edited(r)
        BY <1>5, <3>4 DEF MirrorInv, Single, Edited, Carries, EditSave
      <4> QED BY <1>5, <1>t, <3>1, <3>4, <4>1 DEF FreshEntry, Linkable, EditSave, SaveShifts, TypeOK
    <3> QED BY <3>2, <3>3, <3>4
  <2>5. Reachable'
    BY <1>5, <1>t, NothingAssumption
    DEF MirrorInv, TypeOK, Reachable, ToldInFlight, Held, EditSave, SaveShifts, Edited, InFlight, Carries
  <2>6. StaffOK'
    BY <1>5, <1>t, NothingAssumption
    DEF MirrorInv, TypeOK, StaffOK, Held, EditSave, SaveShifts, Edited, InFlight, Carries
  <2>7. Agree'
    BY <1>5, <1>t, NothingAssumption
    DEF MirrorInv, TypeOK, Agree, FieldAgrees, ToldInFlight, Confirmed, Held, EditSave, SaveShifts, Edited, InFlight, Carries
  <2> QED BY <1>t, <2>1, <2>2, <2>3, <2>4, <2>5, <2>6, <2>7 DEF MirrorInv
<1>6. ASSUME NEW r \in Requests, EditBank(r)
      PROVE  MirrorInv'
  <2>1. StageOK'
    BY <1>6, <1>t, NothingAssumption
    DEF MirrorInv, TypeOK, StageOK, Edited, EditBank, SetFieldShiftLinks, Worsen, NoWork, NoEntry, InFlight, Carries
  <2>2. IdsOK'
    BY <1>6, <1>t, NothingAssumption
    DEF MirrorInv, TypeOK, IdsOK, Names, EditBank, SetFieldShiftLinks, Edited, Worsen, NoWork, NoEntry, InFlight, Carries
  <2>3. Single'
    BY <1>6, <1>t, NothingAssumption
    DEF MirrorInv, TypeOK, Single, Carries, EditBank, SetFieldShiftLinks, Edited, Worsen, NoWork, NoEntry, InFlight
  <2>4. Flight'
    <3> SUFFICES ASSUME NEW q \in Requests, NEW e \in Days, mark'[e] # "disturbed", Carries(q, e)'
                 PROVE  FreshEntry(q, e)' /\ AfterCall(q, e)'
      BY DEF Flight
    <3>1. q # r /\ work'[q] = work[q] /\ pc'[q] = pc[q] /\ Carries(q, e)
      BY <1>6, <1>t DEF EditBank, NoWork, NoEntry, Carries, TypeOK
    <3>2. mark[e] # "disturbed" /\ (mark'[e] = "clean" => mark[e] = "clean")
      BY <1>6, <1>t DEF EditBank, Worsen, TypeOK
    <3>3. FreshEntry(q, e) /\ AfterCall(q, e)
      BY <3>1, <3>2 DEF MirrorInv, Flight
    <3>4. ~Carries(r, e)
      BY <3>1, <3>2 DEF MirrorInv, Single
    <3>5. plan' = plan /\ link'[e] = link[e] /\ behind'[e] = behind[e]
      BY <1>6, <1>t, <3>4 DEF EditBank, SetFieldShiftLinks, Edited, Carries, TypeOK, MirrorInv, StageOK
    <3>6. FreshEntry(q, e)'
      BY <1>6, <3>1, <3>3, <3>5 DEF FreshEntry, Linkable, EditBank
    <3> QED BY <1>6, <3>1, <3>2, <3>3, <3>6 DEF AfterCall, Held, EditBank
  <2>5. Reachable'
    <3>1. ASSUME NEW e \in Days, ToldInFlight(e), ~ToldInFlight(e)'
          PROVE  work[r][e].stage = "ok" /\ work[r][e].staff # Nothing
      BY <1>6, <1>t, <3>1 DEF ToldInFlight, EditBank, TypeOK
    <3> SUFFICES ASSUME NEW e \in Days, mark'[e] # "disturbed", ~ToldInFlight(e)'
                 PROVE  Held(e)' \subseteq {link'[e]}
      BY DEF Reachable
    <3>2. mark[e] # "disturbed" /\ Held(e)' = Held(e)
      BY <1>6, <1>t DEF EditBank, Worsen, Held, TypeOK
    <3>3. CASE e \in Edited(r)
      <4>1. Carries(r, e) /\ FreshEntry(r, e) /\ AfterCall(r, e)
        BY <1>6, <3>2, <3>3 DEF MirrorInv, Flight, StageOK, Carries, Edited, EditBank
      <4>2. e \in Confirmed
        BY <1>6, <1>t, <4>1, SpansAssumption DEF FreshEntry, Confirmed, EditBank, TypeOK, Entry, Plans, Off
      <4>3. link'[e] = work[r][e].link
        BY <1>6, <3>3, <4>2 DEF EditBank, SetFieldShiftLinks
      <4>4. work[r][e].stage = "refused" => Held(e) \subseteq {link[e]}
        BY <1>6, <3>1, <3>2, <4>1 DEF MirrorInv, Reachable
      <4> QED BY <1>6, <3>2, <3>3, <4>1, <4>3, <4>4 DEF AfterCall, FreshEntry, Edited, MirrorInv, StageOK, EditBank
    <3>4. CASE e \notin Edited(r)
      <4>1. link'[e] = link[e]
        BY <1>6, <3>4 DEF EditBank, SetFieldShiftLinks
      <4>2. ~ToldInFlight(e)
        BY <3>1, <3>4 DEF Edited
      <4> QED BY <3>2, <4>1, <4>2 DEF MirrorInv, Reachable
    <3> QED BY <3>3, <3>4
  <2>6. StaffOK'
    BY <1>6, <1>t, NothingAssumption
    DEF MirrorInv, TypeOK, StaffOK, Held, EditBank, SetFieldShiftLinks, Edited, Worsen, NoWork, NoEntry, InFlight, Carries
  <2>7. Agree'
    <3>1. ASSUME NEW e \in Days, ToldInFlight(e), ~ToldInFlight(e)'
          PROVE  work[r][e].stage = "ok" /\ work[r][e].staff # Nothing
      BY <1>6, <1>t, <3>1 DEF ToldInFlight, EditBank, TypeOK
    <3> SUFFICES ASSUME NEW e \in Days, plan[e] # Nothing, mark'[e] = "clean", ~behind'[e],
                        ~ToldInFlight(e)'
                 PROVE  FieldAgrees(e)'
      BY <1>6 DEF Agree, Confirmed, EditBank, SetFieldShiftLinks
    <3>2. mark[e] = "clean" /\ Held(e)' = Held(e) /\ field' = field /\ plan' = plan /\ profile' = profile
      BY <1>6, <1>t DEF EditBank, Worsen, Held, TypeOK, SetFieldShiftLinks
    <3>3. CASE e \in Edited(r)
      <4>1. Carries(r, e) /\ FreshEntry(r, e) /\ AfterCall(r, e)
        BY <1>6, <3>2, <3>3 DEF MirrorInv, Flight, StageOK, Carries, Edited, EditBank
      <4>2. link'[e] = work[r][e].link
        BY <1>6, <3>3 DEF EditBank, SetFieldShiftLinks, Confirmed
      <4>3. work[r][e].stage = "ok" /\ work[r][e].staff # Nothing
        BY <1>6, <1>t, <3>2, <3>3 DEF EditBank, Worsen, TypeOK, Edited, MirrorInv, StageOK
      <4>4. work[r][e].staff = profile[e] /\ work[r][e].plan = plan[e]
        BY <1>6, <4>1, <4>3 DEF FreshEntry, Linkable, EditBank
      <4>5. CASE plan[e] = Off
        <5>1. Held(e) \subseteq {Nothing}
          BY <4>1, <4>3, <4>4, <4>5 DEF AfterCall
        <5> QED BY <3>2, <4>5, <5>1, NothingAssumption DEF FieldAgrees, Held
      <4>6. CASE plan[e] # Off
        <5>1. /\ work[r][e].link # Nothing
              /\ Held(e) \subseteq {work[r][e].link}
              /\ field[work[r][e].link] = [day |-> e, staff |-> profile[e], hours |-> HoursOf[plan[e]]]
          BY <3>2, <4>1, <4>3, <4>4, <4>6 DEF AfterCall
        <5>2. work[r][e].link \in Held(e)
          <6>1. work[r][e].link \in ShiftIds /\ profile[e] \in StaffIds /\ plan[e] \in Spans
            BY <1>t, <4>3, <4>4, <4>6, <5>1 DEF TypeOK, Entry, MaybeId, MaybeStaff, Plans
          <6> QED BY <5>1, <6>1, NoShiftAssumption DEF Held, FieldShift
        <5> QED BY <3>2, <4>2, <4>6, <5>1, <5>2 DEF FieldAgrees
      <4> QED BY <4>5, <4>6
    <3>4. CASE e \notin Edited(r)
      <4>1. link'[e] = link[e] /\ behind'[e] = behind[e]
        BY <1>6, <3>4 DEF EditBank, SetFieldShiftLinks
      <4>2. ~ToldInFlight(e)
        BY <3>1, <3>4 DEF Edited
      <4>3. FieldAgrees(e)
        BY <3>2, <4>1, <4>2 DEF MirrorInv, Agree, Confirmed
      <4> QED BY <3>2, <4>1, <4>3 DEF FieldAgrees
    <3> QED BY <3>3, <3>4
  <2> QED BY <1>t, <2>1, <2>2, <2>3, <2>4, <2>5, <2>6, <2>7 DEF MirrorInv
<1>7. ASSUME NEW r \in Requests, EditFail(r)
      PROVE  MirrorInv'
  <2>1. StageOK'
    BY <1>7, <1>t, NothingAssumption
    DEF MirrorInv, TypeOK, StageOK, Edited, EditFail, NoWork, NoEntry, InFlight, Carries
  <2>2. IdsOK'
    BY <1>7, <1>t, NothingAssumption
    DEF MirrorInv, TypeOK, IdsOK, Names, EditFail, Edited, NoWork, NoEntry, InFlight, Carries
  <2>3. Single'
    BY <1>7, <1>t, NothingAssumption
    DEF MirrorInv, TypeOK, Single, Carries, EditFail, Edited, NoWork, NoEntry, InFlight
  <2>4. Flight'
    BY <1>7, <1>t, NothingAssumption
    DEF MirrorInv, TypeOK, Flight, FreshEntry, AfterCall, Carries, Held, Linkable, EditFail, Edited, NoWork, NoEntry, InFlight
  <2>5. Reachable'
    <3>1. ASSUME NEW e \in Days, ToldInFlight(e) PROVE ToldInFlight(e)'
      BY <1>7, <1>t, <3>1 DEF MirrorInv, StageOK, TypeOK, ToldInFlight, EditFail, Edited
    <3> QED BY <1>7, <3>1 DEF MirrorInv, Reachable, Held, EditFail
  <2>6. StaffOK'
    BY <1>7, <1>t, NothingAssumption
    DEF MirrorInv, TypeOK, StaffOK, Held, EditFail, Edited, NoWork, NoEntry, InFlight, Carries
  <2>7. Agree'
    <3>1. ASSUME NEW e \in Days, ToldInFlight(e) PROVE ToldInFlight(e)'
      BY <1>7, <1>t, <3>1 DEF MirrorInv, StageOK, TypeOK, ToldInFlight, EditFail, Edited
    <3> QED BY <1>7, <3>1 DEF MirrorInv, Agree, Confirmed, FieldAgrees, Held, EditFail
  <2> QED BY <1>t, <2>1, <2>2, <2>3, <2>4, <2>5, <2>6, <2>7 DEF MirrorInv
<1>8. ASSUME NEW r \in Requests, ConfirmSave(r)
      PROVE  MirrorInv'
  <2>1. StageOK'
    BY <1>8, <1>t, NothingAssumption
    DEF MirrorInv, TypeOK, StageOK, Edited, ConfirmSave, SaveShifts, Worsen, NoWork, NoEntry, InFlight, Carries
  <2>2. IdsOK'
    BY <1>8, <1>t, NothingAssumption
    DEF MirrorInv, TypeOK, IdsOK, Names, ConfirmSave, SaveShifts, Worsen, NoWork, NoEntry, InFlight, Carries
  <2>3. Single'
    BY <1>8, <1>t, NothingAssumption
    DEF MirrorInv, TypeOK, Single, Carries, ConfirmSave, SaveShifts, Worsen, NoWork, NoEntry, InFlight
  <2>4. Flight'
    BY <1>8, <1>t, NothingAssumption
    DEF MirrorInv, TypeOK, Flight, FreshEntry, AfterCall, Carries, Held, Linkable, ConfirmSave, SaveShifts, Worsen, NoWork, NoEntry, InFlight
  <2>5. Reachable'
    BY <1>8, <1>t, NothingAssumption
    DEF MirrorInv, TypeOK, Reachable, ToldInFlight, Held, ConfirmSave, SaveShifts, Worsen, NoWork, NoEntry, InFlight, Carries
  <2>6. StaffOK'
    BY <1>8, <1>t, NothingAssumption
    DEF MirrorInv, TypeOK, StaffOK, Held, ConfirmSave, SaveShifts, Worsen, NoWork, NoEntry, InFlight, Carries
  <2>7. Agree'
    BY <1>8, <1>t, NothingAssumption
    DEF MirrorInv, TypeOK, Agree, FieldAgrees, ToldInFlight, Confirmed, Held, ConfirmSave, SaveShifts, Worsen, NoWork, NoEntry, InFlight, Carries
  <2> QED BY <1>t, <2>1, <2>2, <2>3, <2>4, <2>5, <2>6, <2>7 DEF MirrorInv
<1>9. ASSUME NEW r \in Requests, SyncRead(r)
      PROVE  MirrorInv'
  <2>1. StageOK'
    BY <1>9, <1>t, NothingAssumption
    DEF MirrorInv, TypeOK, StageOK, Edited, SyncRead, Read, Worsen, NoEntry, Behind, InFlight, Carries
  <2>2. IdsOK'
    BY <1>9, <1>t, NothingAssumption
    DEF MirrorInv, TypeOK, IdsOK, Names, SyncRead, Read, Worsen, NoEntry, Behind, InFlight, Carries
  <2>3. Single'
    BY <1>9, <1>t, NothingAssumption
    DEF MirrorInv, TypeOK, Single, Carries, SyncRead, Read, Worsen, NoEntry, Behind, InFlight
  <2>4. Flight'
    <3> SUFFICES ASSUME NEW q \in Requests, NEW e \in Days, mark'[e] # "disturbed", Carries(q, e)'
                 PROVE  FreshEntry(q, e)' /\ AfterCall(q, e)'
      BY DEF Flight
    <3>1. mark[e] # "disturbed" /\ (mark'[e] = "clean" => mark[e] = "clean")
      BY <1>9, <1>t DEF SyncRead, Worsen, TypeOK
    <3>2. CASE q = r
      <4>1. work'[q][e] = Read(e, plan[e], origin[e]) /\ pc'[q] = "push"
        BY <1>9, <1>t, <3>2 DEF SyncRead, TypeOK, Carries, NoEntry
      <4>2. Linkable(e)' = Linkable(e)
        BY <1>9 DEF SyncRead, Linkable
      <4>3. FreshEntry(q, e)'
        BY <1>9, <4>1, <4>2 DEF FreshEntry, Read, SyncRead
      <4> QED BY <4>1, <4>3 DEF AfterCall, Read
    <3>3. CASE q # r
      <4>1. work'[q] = work[q] /\ pc'[q] = pc[q]
        BY <1>9, <1>t, <3>3 DEF SyncRead, TypeOK
      <4>2. FreshEntry(q, e) /\ AfterCall(q, e)
        BY <3>1, <4>1 DEF MirrorInv, Flight, Carries
      <4> QED BY <1>9, <3>1, <4>1, <4>2 DEF FreshEntry, AfterCall, Linkable, Held, SyncRead
    <3> QED BY <3>2, <3>3
  <2>5. Reachable'
    <3>1. ASSUME NEW e \in Days, ToldInFlight(e) PROVE ToldInFlight(e)'
      BY <1>9, <1>t, <3>1 DEF MirrorInv, StageOK, TypeOK, ToldInFlight, SyncRead
    <3>2. ASSUME NEW e \in Days
          PROVE  /\ mark'[e] # "disturbed" => mark[e] # "disturbed"
                 /\ mark'[e] = "clean" => mark[e] = "clean"
      BY <1>9, <1>t DEF SyncRead, Worsen, TypeOK
    <3> QED BY <1>9, <3>1, <3>2 DEF MirrorInv, Reachable, Held, SyncRead
  <2>6. StaffOK'
    BY <1>9, <1>t, NothingAssumption
    DEF MirrorInv, TypeOK, StaffOK, Held, SyncRead, Read, Worsen, NoEntry, Behind, InFlight, Carries
  <2>7. Agree'
    <3>1. ASSUME NEW e \in Days, ToldInFlight(e) PROVE ToldInFlight(e)'
      BY <1>9, <1>t, <3>1 DEF MirrorInv, StageOK, TypeOK, ToldInFlight, SyncRead
    <3>2. ASSUME NEW e \in Days
          PROVE  /\ mark'[e] # "disturbed" => mark[e] # "disturbed"
                 /\ mark'[e] = "clean" => mark[e] = "clean"
      BY <1>9, <1>t DEF SyncRead, Worsen, TypeOK
    <3> QED BY <1>9, <3>1, <3>2 DEF MirrorInv, Agree, Confirmed, FieldAgrees, Held, SyncRead
  <2> QED BY <1>t, <2>1, <2>2, <2>3, <2>4, <2>5, <2>6, <2>7 DEF MirrorInv
<1>10. ASSUME NEW r \in Requests, SyncNothing(r)
      PROVE  MirrorInv'
  <2>1. StageOK'
    BY <1>10, <1>t, NothingAssumption
    DEF MirrorInv, TypeOK, StageOK, Edited, SyncNothing, InFlight, Carries
  <2>2. IdsOK'
    BY <1>10, <1>t, NothingAssumption
    DEF MirrorInv, TypeOK, IdsOK, Names, SyncNothing, InFlight, Carries
  <2>3. Single'
    BY <1>10, <1>t, NothingAssumption
    DEF MirrorInv, TypeOK, Single, Carries, SyncNothing, InFlight
  <2>4. Flight'
    BY <1>10, <1>t, NothingAssumption
    DEF MirrorInv, TypeOK, Flight, FreshEntry, AfterCall, Carries, Held, Linkable, SyncNothing, InFlight
  <2>5. Reachable'
    BY <1>10, <1>t, NothingAssumption
    DEF MirrorInv, TypeOK, Reachable, ToldInFlight, Held, SyncNothing, InFlight, Carries
  <2>6. StaffOK'
    BY <1>10, <1>t, NothingAssumption
    DEF MirrorInv, TypeOK, StaffOK, Held, SyncNothing, InFlight, Carries
  <2>7. Agree'
    BY <1>10, <1>t, NothingAssumption
    DEF MirrorInv, TypeOK, Agree, FieldAgrees, ToldInFlight, Confirmed, Held, SyncNothing, InFlight, Carries
  <2> QED BY <1>t, <2>1, <2>2, <2>3, <2>4, <2>5, <2>6, <2>7 DEF MirrorInv
<1>11. ASSUME NEW r \in Requests, SyncBank(r)
      PROVE  MirrorInv'
  <2>1. StageOK'
    BY <1>11, <1>t, NothingAssumption
    DEF MirrorInv, TypeOK, StageOK, Edited, SyncBank, Banked, SetFieldShiftLinks, Worsen, NoWork, NoEntry, InFlight, Carries
  <2>2. IdsOK'
    BY <1>11, <1>t, NothingAssumption
    DEF MirrorInv, TypeOK, IdsOK, Names, SyncBank, Banked, SetFieldShiftLinks, Worsen, NoWork, NoEntry, InFlight, Carries
  <2>3. Single'
    BY <1>11, <1>t, NothingAssumption
    DEF MirrorInv, TypeOK, Single, Carries, SyncBank, Banked, SetFieldShiftLinks, Worsen, NoWork, NoEntry, InFlight
  <2>4. Flight'
    <3> SUFFICES ASSUME NEW q \in Requests, NEW e \in Days, mark'[e] # "disturbed", Carries(q, e)'
                 PROVE  FreshEntry(q, e)' /\ AfterCall(q, e)'
      BY DEF Flight
    <3>1. q # r /\ work'[q] = work[q] /\ pc'[q] = pc[q] /\ Carries(q, e)
      BY <1>11, <1>t DEF SyncBank, NoWork, NoEntry, Carries, TypeOK
    <3>2. mark[e] # "disturbed" /\ (mark'[e] = "clean" => mark[e] = "clean")
      BY <1>11, <1>t DEF SyncBank, Worsen, TypeOK
    <3>3. FreshEntry(q, e) /\ AfterCall(q, e)
      BY <3>1, <3>2 DEF MirrorInv, Flight
    <3>4. ~Carries(r, e)
      BY <3>1, <3>2 DEF MirrorInv, Single
    <3>5. plan' = plan /\ link'[e] = link[e] /\ behind'[e] = behind[e]
      BY <1>11, <1>t, <3>4 DEF SyncBank, SetFieldShiftLinks, Banked, Carries, TypeOK, MirrorInv, StageOK
    <3>6. FreshEntry(q, e)'
      BY <1>11, <3>1, <3>3, <3>5 DEF FreshEntry, Linkable, SyncBank
    <3> QED BY <1>11, <3>1, <3>2, <3>3, <3>6 DEF AfterCall, Held, SyncBank
  <2>5. Reachable'
    <3>1. ASSUME NEW e \in Days, ToldInFlight(e), ~ToldInFlight(e)'
          PROVE  work[r][e].stage = "ok" /\ work[r][e].staff # Nothing
      BY <1>11, <1>t, <3>1 DEF ToldInFlight, SyncBank, TypeOK
    <3> SUFFICES ASSUME NEW e \in Days, mark'[e] # "disturbed", ~ToldInFlight(e)'
                 PROVE  Held(e)' \subseteq {link'[e]}
      BY DEF Reachable
    <3>2. mark[e] # "disturbed" /\ Held(e)' = Held(e)
      BY <1>11, <1>t DEF SyncBank, Worsen, Held, TypeOK
    <3>3. CASE e \in Banked(r)
      <4>1. Carries(r, e) /\ FreshEntry(r, e) /\ AfterCall(r, e)
        BY <1>11, <3>2, <3>3 DEF MirrorInv, Flight, StageOK, Carries, Banked, SyncBank
      <4>2. e \in Confirmed
        BY <1>11, <1>t, <4>1, SpansAssumption DEF FreshEntry, Confirmed, SyncBank, TypeOK, Entry, Plans, Off
      <4>3. link'[e] = work[r][e].link
        BY <1>11, <3>3, <4>2 DEF SyncBank, SetFieldShiftLinks
      <4>4. work[r][e].stage = "refused" => Held(e) \subseteq {link[e]}
        BY <1>11, <3>1, <3>2, <4>1 DEF MirrorInv, Reachable
      <4> QED BY <1>11, <3>2, <3>3, <4>1, <4>3, <4>4 DEF AfterCall, FreshEntry, Banked, MirrorInv, StageOK, SyncBank
    <3>4. CASE e \notin Banked(r)
      <4>1. link'[e] = link[e]
        BY <1>11, <3>4 DEF SyncBank, SetFieldShiftLinks
      <4>2. ~ToldInFlight(e)
        BY <3>1, <3>4 DEF Banked
      <4> QED BY <3>2, <4>1, <4>2 DEF MirrorInv, Reachable
    <3> QED BY <3>3, <3>4
  <2>6. StaffOK'
    BY <1>11, <1>t, NothingAssumption
    DEF MirrorInv, TypeOK, StaffOK, Held, SyncBank, Banked, SetFieldShiftLinks, Worsen, NoWork, NoEntry, InFlight, Carries
  <2>7. Agree'
    <3>1. ASSUME NEW e \in Days, ToldInFlight(e), ~ToldInFlight(e)'
          PROVE  work[r][e].stage = "ok" /\ work[r][e].staff # Nothing
      BY <1>11, <1>t, <3>1 DEF ToldInFlight, SyncBank, TypeOK
    <3> SUFFICES ASSUME NEW e \in Days, plan[e] # Nothing, mark'[e] = "clean", ~behind'[e],
                        ~ToldInFlight(e)'
                 PROVE  FieldAgrees(e)'
      BY <1>11 DEF Agree, Confirmed, SyncBank, SetFieldShiftLinks
    <3>2. mark[e] = "clean" /\ Held(e)' = Held(e) /\ field' = field /\ plan' = plan /\ profile' = profile
      BY <1>11, <1>t DEF SyncBank, Worsen, Held, TypeOK, SetFieldShiftLinks
    <3>3. CASE e \in Banked(r)
      <4>1. Carries(r, e) /\ FreshEntry(r, e) /\ AfterCall(r, e)
        BY <1>11, <3>2, <3>3 DEF MirrorInv, Flight, StageOK, Carries, Banked, SyncBank
      <4>2. link'[e] = work[r][e].link
        BY <1>11, <3>3 DEF SyncBank, SetFieldShiftLinks, Confirmed
      <4>3. work[r][e].stage = "ok" /\ work[r][e].staff # Nothing
        BY <1>11, <1>t, <3>2, <3>3 DEF SyncBank, Worsen, TypeOK, Banked, MirrorInv, StageOK
      <4>4. work[r][e].staff = profile[e] /\ work[r][e].plan = plan[e]
        BY <1>11, <4>1, <4>3 DEF FreshEntry, Linkable, SyncBank
      <4>5. CASE plan[e] = Off
        <5>1. Held(e) \subseteq {Nothing}
          BY <4>1, <4>3, <4>4, <4>5 DEF AfterCall
        <5> QED BY <3>2, <4>5, <5>1, NothingAssumption DEF FieldAgrees, Held
      <4>6. CASE plan[e] # Off
        <5>1. /\ work[r][e].link # Nothing
              /\ Held(e) \subseteq {work[r][e].link}
              /\ field[work[r][e].link] = [day |-> e, staff |-> profile[e], hours |-> HoursOf[plan[e]]]
          BY <3>2, <4>1, <4>3, <4>4, <4>6 DEF AfterCall
        <5>2. work[r][e].link \in Held(e)
          <6>1. work[r][e].link \in ShiftIds /\ profile[e] \in StaffIds /\ plan[e] \in Spans
            BY <1>t, <4>3, <4>4, <4>6, <5>1 DEF TypeOK, Entry, MaybeId, MaybeStaff, Plans
          <6> QED BY <5>1, <6>1, NoShiftAssumption DEF Held, FieldShift
        <5> QED BY <3>2, <4>2, <4>6, <5>1, <5>2 DEF FieldAgrees
      <4> QED BY <4>5, <4>6
    <3>4. CASE e \notin Banked(r)
      <4>1. link'[e] = link[e] /\ behind'[e] = behind[e]
        BY <1>11, <3>4 DEF SyncBank, SetFieldShiftLinks
      <4>2. ~ToldInFlight(e)
        BY <3>1, <3>4 DEF Banked
      <4>3. FieldAgrees(e)
        BY <3>2, <4>1, <4>2 DEF MirrorInv, Agree, Confirmed
      <4> QED BY <3>2, <4>1, <4>3 DEF FieldAgrees
    <3> QED BY <3>3, <3>4
  <2> QED BY <1>t, <2>1, <2>2, <2>3, <2>4, <2>5, <2>6, <2>7 DEF MirrorInv
<1>12. ASSUME NEW r \in Requests, SyncCount(r)
      PROVE  MirrorInv'
  <2>1. StageOK'
    BY <1>12, <1>t, NothingAssumption
    DEF MirrorInv, TypeOK, StageOK, Edited, SyncCount, InFlight, Carries
  <2>2. IdsOK'
    BY <1>12, <1>t, NothingAssumption
    DEF MirrorInv, TypeOK, IdsOK, Names, SyncCount, InFlight, Carries
  <2>3. Single'
    BY <1>12, <1>t, NothingAssumption
    DEF MirrorInv, TypeOK, Single, Carries, SyncCount, InFlight
  <2>4. Flight'
    BY <1>12, <1>t, NothingAssumption
    DEF MirrorInv, TypeOK, Flight, FreshEntry, AfterCall, Carries, Held, Linkable, SyncCount, InFlight
  <2>5. Reachable'
    BY <1>12, <1>t, NothingAssumption
    DEF MirrorInv, TypeOK, Reachable, ToldInFlight, Held, SyncCount, InFlight, Carries
  <2>6. StaffOK'
    BY <1>12, <1>t, NothingAssumption
    DEF MirrorInv, TypeOK, StaffOK, Held, SyncCount, InFlight, Carries
  <2>7. Agree'
    BY <1>12, <1>t, NothingAssumption
    DEF MirrorInv, TypeOK, Agree, FieldAgrees, ToldInFlight, Confirmed, Held, SyncCount, InFlight, Carries
  <2> QED BY <1>t, <2>1, <2>2, <2>3, <2>4, <2>5, <2>6, <2>7 DEF MirrorInv
<1>13. ASSUME NEW r \in Requests, Abort(r)
      PROVE  MirrorInv'
  <2>1. StageOK'
    BY <1>13, <1>t, NothingAssumption
    DEF MirrorInv, TypeOK, StageOK, Edited, Abort, FiledUnbanked, ToldUnbanked, Worsen, NoWork, NoEntry, InFlight, Carries
  <2>2. IdsOK'
    BY <1>13, <1>t, NothingAssumption
    DEF MirrorInv, TypeOK, IdsOK, Names, Abort, FiledUnbanked, ToldUnbanked, Worsen, NoWork, NoEntry, InFlight, Carries
  <2>3. Single'
    BY <1>13, <1>t, NothingAssumption
    DEF MirrorInv, TypeOK, Single, Carries, Abort, FiledUnbanked, ToldUnbanked, Worsen, NoWork, NoEntry, InFlight
  <2>4. Flight'
    BY <1>13, <1>t, NothingAssumption
    DEF MirrorInv, TypeOK, Flight, FreshEntry, AfterCall, Carries, Held, Linkable, Abort, FiledUnbanked, ToldUnbanked, Worsen, NoWork, NoEntry, InFlight
  <2>5. Reachable'
    <3>1. ASSUME NEW e \in Days, ToldInFlight(e), ~ToldInFlight(e)'
          PROVE  work[r][e].stage = "ok" /\ work[r][e].staff # Nothing
      BY <1>13, <1>t, <3>1 DEF ToldInFlight, Abort, TypeOK
    <3> SUFFICES ASSUME NEW e \in Days, mark'[e] # "disturbed", ~ToldInFlight(e)'
                 PROVE  Held(e) \subseteq {link[e]}
      BY <1>13 DEF Reachable, Held, Abort
    <3>2. mark[e] # "disturbed" /\ e \notin FiledUnbanked(r)
      BY <1>13, <1>t DEF Abort, Worsen, TypeOK
    <3>3. CASE ToldInFlight(e)
      <4>1. FreshEntry(r, e) /\ AfterCall(r, e)
        BY <3>1, <3>2, <3>3 DEF MirrorInv, Flight, Carries
      <4>2. work[r][e].link \in {Nothing, link[e]}
        BY <3>1, <3>2, <3>3, <4>1 DEF FreshEntry, FiledUnbanked
      <4> QED BY <3>1, <3>3, <4>1, <4>2, NothingAssumption DEF AfterCall, Held
    <3>4. CASE ~ToldInFlight(e)
      BY <3>2, <3>4 DEF MirrorInv, Reachable
    <3> QED BY <3>3, <3>4
  <2>6. StaffOK'
    BY <1>13, <1>t, NothingAssumption
    DEF MirrorInv, TypeOK, StaffOK, Held, Abort, FiledUnbanked, ToldUnbanked, Worsen, NoWork, NoEntry, InFlight, Carries
  <2>7. Agree'
    BY <1>13, <1>t, NothingAssumption
    DEF MirrorInv, TypeOK, Agree, FieldAgrees, ToldInFlight, Confirmed, Held, Abort, FiledUnbanked, ToldUnbanked, Worsen, NoWork, NoEntry, InFlight, Carries
  <2> QED BY <1>t, <2>1, <2>2, <2>3, <2>4, <2>5, <2>6, <2>7 DEF MirrorInv
<1>14. ASSUME NEW i \in ShiftIds, FieldDelete(i)
      PROVE  MirrorInv'
  <2>1. StageOK'
    BY <1>14, <1>t, NothingAssumption
    DEF MirrorInv, TypeOK, StageOK, Edited, FieldDelete, Worsen, InFlight, Carries
  <2>2. IdsOK'
    BY <1>14, <1>t, NothingAssumption
    DEF MirrorInv, TypeOK, IdsOK, Names, FieldDelete, Worsen, InFlight, Carries
  <2>3. Single'
    BY <1>14, <1>t, NothingAssumption
    DEF MirrorInv, TypeOK, Single, Carries, FieldDelete, Worsen, InFlight
  <2>4. Flight'
    BY <1>14, <1>t, NothingAssumption
    DEF MirrorInv, TypeOK, Flight, FreshEntry, AfterCall, Carries, Held, Linkable, FieldDelete, Worsen, InFlight
  <2>5. Reachable'
    BY <1>14, <1>t, NothingAssumption
    DEF MirrorInv, TypeOK, Reachable, ToldInFlight, Held, FieldDelete, Worsen, InFlight, Carries
  <2>6. StaffOK'
    BY <1>14, <1>t, NothingAssumption
    DEF MirrorInv, TypeOK, StaffOK, Held, FieldDelete, Worsen, InFlight, Carries
  <2>7. Agree'
    BY <1>14, <1>t, NothingAssumption
    DEF MirrorInv, TypeOK, Agree, FieldAgrees, ToldInFlight, Confirmed, Held, FieldDelete, Worsen, InFlight, Carries
  <2> QED BY <1>t, <2>1, <2>2, <2>3, <2>4, <2>5, <2>6, <2>7 DEF MirrorInv
<1>15. ASSUME NEW d \in Days, NEW s \in MaybeStaff, Relink(d, s)
      PROVE  MirrorInv'
  <2>1. StageOK'
    BY <1>15, <1>t, NothingAssumption
    DEF MirrorInv, TypeOK, StageOK, Edited, Relink, Worsen, InFlight, Carries
  <2>2. IdsOK'
    BY <1>15, <1>t, NothingAssumption
    DEF MirrorInv, TypeOK, IdsOK, Names, Relink, Worsen, InFlight, Carries
  <2>3. Single'
    BY <1>15, <1>t, NothingAssumption
    DEF MirrorInv, TypeOK, Single, Carries, Relink, Worsen, InFlight
  <2>4. Flight'
    BY <1>15, <1>t, NothingAssumption
    DEF MirrorInv, TypeOK, Flight, FreshEntry, AfterCall, Carries, Held, Linkable, Relink, Worsen, InFlight
  <2>5. Reachable'
    BY <1>15, <1>t, NothingAssumption
    DEF MirrorInv, TypeOK, Reachable, ToldInFlight, Held, Relink, Worsen, InFlight, Carries
  <2>6. StaffOK'
    BY <1>15, <1>t, NothingAssumption
    DEF MirrorInv, TypeOK, StaffOK, Held, Relink, Worsen, InFlight, Carries
  <2>7. Agree'
    <3>1. SUFFICES ASSUME NEW e \in Days, plan'[e] # Nothing, mark'[e] = "clean",
                          ~behind'[e], ~ToldInFlight(e)'
                   PROVE  FieldAgrees(e)'
      BY DEF Agree, Confirmed
    <3>2. UNCHANGED <<plan, behind, link, field, work>> /\ mark \in [Days -> Marks]
      BY <1>15 DEF Relink, table, hrm, MirrorInv, TypeOK
    <3>3. mark[e] = "clean" /\ e # d
      BY <1>15, <3>1, <3>2 DEF Relink, Worsen, Marks
    <3>4. profile'[e] = profile[e]
      BY <1>15, <3>3 DEF Relink, MirrorInv, TypeOK
    <3>5. FieldAgrees(e)
      BY <3>1, <3>2, <3>3 DEF MirrorInv, Agree, Confirmed, ToldInFlight
    <3> QED  BY <3>2, <3>4, <3>5 DEF FieldAgrees, Held
  <2> QED BY <1>t, <2>1, <2>2, <2>3, <2>4, <2>5, <2>6, <2>7 DEF MirrorInv
<1>16. ASSUME NEW s \in StaffIds, StaffGone(s)
      PROVE  MirrorInv'
  <2>1. StageOK'
    BY <1>16, <1>t, NothingAssumption
    DEF MirrorInv, TypeOK, StageOK, Edited, StaffGone, Worsen, InFlight, Carries
  <2>2. IdsOK'
    BY <1>16, <1>t, NothingAssumption
    DEF MirrorInv, TypeOK, IdsOK, Names, StaffGone, Worsen, InFlight, Carries
  <2>3. Single'
    BY <1>16, <1>t, NothingAssumption
    DEF MirrorInv, TypeOK, Single, Carries, StaffGone, Worsen, InFlight
  <2>4. Flight'
    BY <1>16, <1>t, NothingAssumption
    DEF MirrorInv, TypeOK, Flight, FreshEntry, AfterCall, Carries, Held, Linkable, StaffGone, Worsen, InFlight
  <2>5. Reachable'
    BY <1>16, <1>t, NothingAssumption
    DEF MirrorInv, TypeOK, Reachable, ToldInFlight, Held, StaffGone, Worsen, InFlight, Carries
  <2>6. StaffOK'
    BY <1>16, <1>t, NothingAssumption
    DEF MirrorInv, TypeOK, StaffOK, Held, StaffGone, Worsen, InFlight, Carries
  <2>7. Agree'
    BY <1>16, <1>t, NothingAssumption
    DEF MirrorInv, TypeOK, Agree, FieldAgrees, ToldInFlight, Confirmed, Held, StaffGone, Worsen, InFlight, Carries
  <2> QED BY <1>t, <2>1, <2>2, <2>3, <2>4, <2>5, <2>6, <2>7 DEF MirrorInv
<1>17. CASE Redeploy \/ UNCHANGED vars
  BY <1>17, <1>t
  DEF Redeploy, vars, MirrorInv, StageOK, Edited, IdsOK, Names, Single, Flight, FreshEntry, AfterCall,
      Reachable, StaffOK, Agree, FieldAgrees, Confirmed, ToldInFlight, Held, Linkable, Carries
<1> QED
  BY <1>t, PushStep, <1>1, <1>2, <1>3, <1>4, <1>5, <1>6, <1>7, <1>8, <1>9, <1>10, <1>11, <1>12, <1>13, <1>14, <1>15, <1>16, <1>17
  DEF Next, Start, Proceed, Others

LEMMA MirrorInit == Init => MirrorInv
<1> SUFFICES ASSUME Init PROVE MirrorInv
  OBVIOUS
<1>1. TypeOK
  BY NoEntryType, CountIsNat DEF Init, TypeOK, Marks, Origins, MaybeId, Plans
<1>2. \A r \in Requests, d \in Days : work[r][d] = NoEntry
  BY DEF Init, NoWork
<1>3. Confirmed = {} /\ \A d \in Days : Held(d) = {}
  BY DEF Init, Held, Confirmed
<1>4. StageOK
  BY <1>2 DEF Init, StageOK, NoEntry
<1>5. IdsOK
  BY <1>2 DEF Init, IdsOK, Names, NoEntry
<1>6. Single /\ Flight
  BY <1>2 DEF Single, Flight, Carries, NoEntry
<1>7. Reachable /\ StaffOK /\ Agree
  BY <1>3 DEF Reachable, StaffOK, Agree
<1> QED BY <1>1, <1>4, <1>5, <1>6, <1>7 DEF MirrorInv

\* A stamp means Field was told: for every month, batch size, number of
\* requests and mix of faults, Field agrees with each stamped row whose mirror
\* was not damaged on that very day (BEHIND_FIELD, caddie_shift_repository.rs).
THEOREM StampsAreTruthful == Spec => []SyncedMeansTold
<1>1. MirrorInv => SyncedMeansTold
  BY DEF MirrorInv, Agree, SyncedMeansTold, ToldInFlight, InFlight, Carries
<1> QED BY <1>1, MirrorInit, MirrorStep, PTL DEF Spec

\* No handle is lost: every shift Field holds for an undisturbed day is named
\* by the row or by the one request working on that day.
THEOREM HandlesAreKept == Spec => []HandleKept
<1>1. MirrorInv => HandleKept
  <2> SUFFICES ASSUME MirrorInv, NEW d \in Days, mark[d] # "disturbed", NEW i \in Held(d)
               PROVE  \/ i = link[d]
                      \/ \E r \in Requests : Carries(r, d) /\ work[r][d].link = i
    BY DEF HandleKept
  <2>1. CASE ToldInFlight(d)
    BY <2>1 DEF MirrorInv, Flight, AfterCall, ToldInFlight, Carries
  <2>2. CASE ~ToldInFlight(d)
    BY <2>2 DEF MirrorInv, Reachable
  <2> QED BY <2>1, <2>2
<1> QED BY <1>1, MirrorInit, MirrorStep, PTL DEF Spec

-----------------------------------------------------------------------------
(* Pinned days, while one request runs at a time. *)

\* What a confirmation is about to save keeps every day pinned now.
PinsPlanned(r) ==
  pc[r] = "confirm" =>
    \A d \in Confirmed : origin[d] = "pinned" =>
      work[r][d].plan = plan[d] /\ work[r][d].origin = "pinned"

\* A push changes neither the rows nor what any request does next.
LEMMA PushKeeps ==
  ASSUME NEW r \in Requests, NEW d \in Days, Push(r, d)
  PROVE  UNCHANGED <<plan, origin, pc>> /\ pc[r] # "confirm"
  BY DEF Push, Unlinkable, NothingToWithdraw, Withdraw, WithdrawLost, WithdrawMissing, Patch,
         PatchLost, PatchMissing, Post, PostLost, DeleteLands, PatchLands, PostLands, Posts,
         Refuse, Unreachable, At, Pushing, table

\* Between its reading and its save nobody but the one request writes rows.
LEMMA PinsStep ==
  ASSUME NEW R, Requests = {R}, TypeOK, PinsPlanned(R), [Next]_vars
  PROVE  PinsPlanned(R)'
<1> USE DEF PinsPlanned, Confirmed
<1>r. R \in Requests /\ \A r \in Requests : r = R
  OBVIOUS
<1>1. ASSUME NEW newPlan \in [Days -> Plans], ConfirmBegin(R, newPlan) PROVE PinsPlanned(R)'
  BY <1>r, <1>1 DEF ConfirmBegin, Survives, table, Planned, TypeOK
<1>2. ASSUME Start(R), pc'[R] = "confirm" PROVE PinsPlanned(R)'
  BY <1>r, <1>1, <1>2 DEF Start, EditBegin, EditLocally, SyncBegin, Begin, TypeOK
<1>3. ASSUME Proceed(R), pc'[R] = "confirm" PROVE FALSE
  BY <1>r, <1>3, PushKeeps
     DEF Proceed, EditSave, EditBank, EditFail, ConfirmSave, SyncRead, SyncNothing, SyncBank,
         SyncCount, TypeOK
<1>4. ASSUME Abort(R), pc'[R] = "confirm" PROVE FALSE
  BY <1>r, <1>4 DEF Abort, TypeOK
<1>5. ASSUME Others PROVE PinsPlanned(R)'
  BY <1>5 DEF Others, FieldDelete, Relink, StaffGone, Redeploy, table
<1>6. ASSUME UNCHANGED vars PROVE PinsPlanned(R)'
  BY <1>6 DEF vars, table
<1> QED  BY <1>r, <1>2, <1>3, <1>4, <1>5, <1>6 DEF Next

\* While requests run one at a time, only an edit of that very day changes
\* what a pinned row says: no confirmation, push or failure does, for any
\* month and roster (survives_regeneration, generate_caddie_shifts).
THEOREM PinsAlwaysSurvive ==
  ASSUME NEW CONSTANT R, Requests = {R}
  PROVE  Spec => PinnedSurvives
<1> DEFINE Kept ==
      \A d \in Confirmed : origin[d] = "pinned" =>
        \/ plan'[d] = plan[d] /\ origin'[d] = "pinned"
        \/ \E r \in Requests : pc[r] = "edit" /\ Carries(r, d)
        \/ ~writeBack
<1>1. Init => PinsPlanned(R)
  BY DEF Init, PinsPlanned
<1>2. TypeOK /\ PinsPlanned(R) /\ [Next]_vars => PinsPlanned(R)'
  BY PinsStep
<1>3. TypeOK /\ PinsPlanned(R) /\ [Next]_vars => [Kept]_vars
  <2> SUFFICES ASSUME TypeOK, PinsPlanned(R), Next, NEW d \in Confirmed, origin[d] = "pinned",
                      writeBack
               PROVE  \/ plan'[d] = plan[d] /\ origin'[d] = "pinned"
                      \/ \E r \in Requests : pc[r] = "edit" /\ Carries(r, d)
    BY DEF vars
  <2>r. R \in Requests /\ \A r \in Requests : r = R
    OBVIOUS
  <2>1. CASE EditSave(R)
    <3>1. pc[R] = "edit" /\ SaveShifts(Edited(R), [e \in Days |-> work[R][e].plan],
                                                  [e \in Days |-> work[R][e].origin])
          /\ \A e \in Edited(R) : work[R][e].stage = "ok"
      BY <2>1 DEF EditSave
    <3>2. CASE d \in Edited(R)
      BY <2>r, <3>1, <3>2 DEF Carries
    <3>3. CASE d \notin Edited(R)
      BY <3>1, <3>3 DEF SaveShifts, Confirmed
    <3> QED  BY <3>2, <3>3
  <2>2. CASE ConfirmSave(R)
    BY <2>2 DEF ConfirmSave, SaveShifts, PinsPlanned, Confirmed
  <2>3. ASSUME Start(R) PROVE UNCHANGED <<plan, origin>>
    BY <2>3 DEF Start, EditBegin, EditLocally, ConfirmBegin, SyncBegin, table
  <2>4. ASSUME Proceed(R), ~EditSave(R), ~ConfirmSave(R) PROVE UNCHANGED <<plan, origin>>
    BY <2>r, <2>4, PushKeeps
       DEF Proceed, EditBank, EditFail, SyncRead, SyncNothing, SyncBank, SyncCount,
           SetFieldShiftLinks, table
  <2>5. ASSUME Abort(R) \/ Others PROVE UNCHANGED <<plan, origin>>
    BY <2>5 DEF Abort, Others, FieldDelete, Relink, StaffGone, Redeploy, table
  <2> QED  BY <2>r, <2>1, <2>2, <2>3, <2>4, <2>5 DEF Next
<1> QED  BY <1>1, <1>2, <1>3, TypeCorrect, PTL DEF PinnedSurvives, Spec
=============================================================================
