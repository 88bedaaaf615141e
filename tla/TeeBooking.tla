----------------------------- MODULE TeeBooking -----------------------------
(***************************************************************************)
(* Selling tee times: the desk's booking (usecase/create_reservation.rs),  *)
(* the groups of a paper start ledger sent as one request                  *)
(* (usecase/import_start_ledger_parties.rs), the marks that shut a tee     *)
(* time (usecase/slot_overrides.rs), cancellation, and the three           *)
(* corrections of a booking already taken.  Bookings and generated         *)
(* inventory are Field's; the marks are CourseBoard's own.  No lock spans  *)
(* the two: a request checks the mark, reads Field twice and only then     *)
(* sends the POST, which may land after its request has been given up.     *)
(***************************************************************************)
EXTENDS Naturals, Sequences, FiniteSets

CONSTANTS Slots,       \* tee times of one course on one day
          Capacity,    \* groups each may send out, as generated
          Legacy,      \* tee times of older bookings, in the order taken,
                       \* that went through the compatibility manual slot
          Paper,       \* tee times of the paper ledger's groups, in order
          Desks,
          Import,      \* the import page; it has one request at a time
          Editors,     \* corrections of a booking that may run at once
          Plans, Seats,    \* Seats[p]: max_players_per_group
          NewPlan, NewQuantity,  \* how the booking form sells a round
          Quantities,
          ListLimit,   \* bookings Field's listing returns, newest first
          NoSlot,
          MaxEvents    \* bound: calls taken, marks moved, requests given up,
                       \* cancellations and corrections, in all

ASSUME SlotsAssumption == NoSlot \notin Slots /\ Capacity \in [Slots -> Nat]
ASSUME LedgersAssumption == Legacy \in Seq(Slots) /\ Paper \in Seq(Slots)
\* The older bookings did not oversell their tee times.
ASSUME LegacyAssumption ==
  \A s \in Slots : Cardinality({i \in DOMAIN Legacy : Legacy[i] = s}) <= Capacity[s]
ASSUME PlansAssumption ==
  /\ Seats \in [Plans -> Nat] /\ NewPlan \in Plans
  /\ NewQuantity \in 1..Seats[NewPlan] /\ Quantities \subseteq Nat \ {0}
ASSUME ImportAssumption == Import \notin Desks
ASSUME BoundsAssumption == ListLimit \in Nat /\ MaxEvents \in Nat

VARIABLES bookings,   \* Field's bookings, oldest first
          reserved,   \* reserved[s]: reservedQuantity of the generated row
          shut,       \* tee times marked closed
          req,        \* req[r]: the booking request of a desk or the import
          adrift,     \* POSTs whose request is gone and that may still land
          told,       \* told[k]: what the page knows of the k-th paper group
          edit,       \* edit[e]: a correction, by step
          events,     \* those events so far
          raced,      \* ghost: tee times where a POST landed on a reading
                      \* older than another landing there
          late,       \* ghost: tee times where a POST landed adrift
          mixed       \* ghost: bookings where one correction landed between
                      \* another's reading and its write

vars == <<bookings, reserved, shut, req, adrift, told, edit, events, raced, late, mixed>>
ghosts == <<raced, late, mixed>>

Requests == Desks \cup {Import}

\* A booking: tee time, whether it holds generated inventory, whether its
\* status is a tee-sheet candidate, whether its custom fields still name the
\* course, who took it, players and plan.
Booking(at, gen, live, course, by, qty, plan) ==
  [at |-> at, gen |-> gen, live |-> live, course |-> course, by |-> by,
   qty |-> qty, plan |-> plan]

\* A request: pc, the tee time at hand, paper groups still to come, tee times
\* of the listing an import began with, tee times it has claimed, outcomes so
\* far, what the slot row and the bookings read said, when the latter was
\* read (bookings taken by then), and whether the tee time has been open at
\* some moment since the booking began.
Request(pc, at, todo, seen, claimed, out, up, board, asOf, open) ==
  [pc |-> pc, at |-> at, todo |-> todo, seen |-> seen, claimed |-> claimed, out |-> out,
   up |-> up, board |-> board, asOf |-> asOf, open |-> open]
Unread == {}
Idle == Request("idle", NoSlot, <<>>, {}, {}, <<>>, Unread, Unread, 0, FALSE)

Edit(pc, kind, b, val, stale) ==
  [pc |-> pc, kind |-> kind, b |-> b, val |-> val, stale |-> stale]
NoEdit == Edit("idle", "none", 0, 0, FALSE)

BookingType == [at : Slots, gen : BOOLEAN, live : BOOLEAN, course : BOOLEAN,
                by : {"desk", "import", "legacy"}, qty : Nat, plan : Plans]
RequestType == [pc : {"idle", "turn", "mark", "read", "post", "landed"},
                at : Slots \cup {NoSlot}, todo : Seq(Slots),
                seen : SUBSET Slots, claimed : SUBSET Slots,
                out : Seq({"created", "already", "failed"}),
                up : SUBSET Nat, board : SUBSET Nat, asOf : Nat, open : BOOLEAN]
PostType == [n : Nat, at : Slots, asOf : Nat, by : {"desk", "import"}, open : BOOLEAN]

\* A correction writes a number of players, a plan or the detail.
EditType(kind) == [pc : {"idle", "patch"}, kind : {kind}, b : Nat, stale : BOOLEAN,
                   val : CASE kind = "quantity" -> Nat
                           [] kind = "plan" -> Plans
                           [] kind = "party" -> BOOLEAN
                           [] OTHER -> {0}]

\* Groups of generated inventory standing on s.
Taken(s) == {i \in DOMAIN bookings : bookings[i].live /\ bookings[i].at = s
                                         /\ bookings[i].gen}

\* Paper groups a request accounts for: done, at hand, to come.
Accounted(q) == Len(q.out) + Len(q.todo) + IF q.at = NoSlot THEN 0 ELSE 1

TypeOK ==
  /\ bookings \in Seq(BookingType)
  /\ reserved \in [Slots -> Nat]
  /\ \A s \in Slots : reserved[s] = Cardinality(Taken(s)) /\ reserved[s] <= Capacity[s]
  /\ shut \subseteq Slots
  /\ req \in [Requests -> RequestType]
  /\ \A r \in Requests : /\ req[r].pc \in {"mark", "read", "post", "landed"} <=> req[r].at \in Slots
                         /\ req[r].asOf <= Len(bookings)
  /\ req[Import].pc # "idle" => Accounted(req[Import]) = Len(Paper)
  /\ adrift \subseteq PostType /\ \A p \in adrift : p.asOf <= Len(bookings)
  /\ told \in [DOMAIN Paper -> {"none", "created", "already", "failed"}]
  /\ DOMAIN edit = Editors
  /\ \A e \in Editors : /\ edit[e].kind \in {"none", "quantity", "plan", "party"}
                        /\ edit[e] \in EditType(edit[e].kind)
                        /\ edit[e].pc = "patch" => edit[e].b \in DOMAIN bookings
  /\ events \in Nat
  /\ raced \subseteq Slots /\ late \subseteq Slots /\ mixed \subseteq DOMAIN bookings

Init ==
  /\ bookings = [i \in DOMAIN Legacy |->
                   Booking(Legacy[i], FALSE, TRUE, TRUE, "legacy", NewQuantity, NewPlan)]
  /\ reserved = [s \in Slots |-> 0]
  /\ shut = {} /\ adrift = {}
  /\ req = [r \in Requests |-> Idle]
  /\ told = [k \in DOMAIN Paper |-> "none"]
  /\ edit = [e \in Editors |-> NoEdit]
  /\ events = 0
  /\ raced = {} /\ late = {} /\ mixed = {}

-----------------------------------------------------------------------------
(* What Field answers. *)

\* Field's listing: the newest ListLimit bookings, whatever their status.
Listed == {i \in DOMAIN bookings : i + ListLimit > Len(bookings)}

\* Groups standing on s as the listing shows them.  The board matches a
\* booking by its course or by its resource.
OnBoard(s) == {i \in Listed : bookings[i].live /\ bookings[i].at = s}

\* Tee times on which the import finds a group: by its course alone.
BookedTimes == {s \in Slots : \E i \in OnBoard(s) : bookings[i].course}

\* (mutant) Field's count alone decides.
RemainingUpstream(s, up, board) == up

\* The smaller of Field's count and the board's own.
Remaining(s, up, board) ==
  LET own == IF Capacity[s] > board THEN Capacity[s] - board ELSE 0
  IN IF up < own THEN up ELSE own

\* The POST lands: Field's guarded update takes a unit of the row and stores
\* the booking in one transaction.  asOf is when its sender read the list.
Lands(s, by, asOf) ==
  /\ reserved[s] < Capacity[s]
  /\ reserved' = [reserved EXCEPT ![s] = @ + 1]
  /\ bookings' = Append(bookings,
                        Booking(s, TRUE, TRUE, TRUE, by, NewQuantity, NewPlan))
  /\ raced' = IF \E i \in DOMAIN bookings : i > asOf /\ bookings[i].at = s
              THEN raced \cup {s} ELSE raced

-----------------------------------------------------------------------------
(* Taking a booking: CreateReservationUseCase. *)

\* The request ends for the desk; the import notes the outcome and turns to
\* its next group.
Settle(r, outcome, claimed) ==
  req' = [req EXCEPT ![r] =
    IF r \in Desks THEN Idle
    ELSE Request("turn", NoSlot, @.todo, @.seen, claimed, Append(@.out, outcome),
                 Unread, Unread, 0, FALSE)]

\* The desk takes a call for s.
TakeCall(d, s) ==
  /\ req[d].pc = "idle" /\ events < MaxEvents
  /\ events' = events + 1
  /\ req' = [req EXCEPT ![d] =
       Request("mark", s, <<>>, {}, {}, <<>>, Unread, Unread, 0, s \notin shut)]
  /\ UNCHANGED <<bookings, reserved, shut, adrift, told, edit, ghosts>>

\* (mutant) The marks are not asked.
CheckMarkUnasked(r) ==
  /\ req[r].pc = "mark"
  /\ req' = [req EXCEPT ![r].pc = "read"]
  /\ UNCHANGED <<bookings, reserved, shut, adrift, told, edit, events, ghosts>>

\* A tee time the desk has shut is refused.
CheckMark(r) ==
  /\ req[r].pc = "mark"
  /\ \/ req[r].at \in shut /\ Settle(r, "failed", req[r].claimed)
     \/ req[r].at \notin shut /\ req' = [req EXCEPT ![r].pc = "read"]
  /\ UNCHANGED <<bookings, reserved, shut, adrift, told, edit, events, ghosts>>

\* The slot row and the bookings are read side by side.
ReadSlot(r) ==
  /\ req[r].pc = "read" /\ req[r].up = Unread
  /\ req' = [req EXCEPT ![r].up = {Capacity[req[r].at] - reserved[req[r].at]}]
  /\ UNCHANGED <<bookings, reserved, shut, adrift, told, edit, events, ghosts>>

ReadBoard(r) ==
  /\ req[r].pc = "read" /\ req[r].board = Unread
  /\ req' = [req EXCEPT ![r].board = {Cardinality(OnBoard(req[r].at))},
                        ![r].asOf = Len(bookings)]
  /\ UNCHANGED <<bookings, reserved, shut, adrift, told, edit, events, ghosts>>

\* Both are in: a full tee time is refused, the POST of another is sent.
EnsureAvailable(r) ==
  /\ req[r].pc = "read" /\ req[r].up # Unread /\ req[r].board # Unread
  /\ \E up \in req[r].up, board \in req[r].board :
       \/ Remaining(req[r].at, up, board) = 0 /\ Settle(r, "failed", req[r].claimed)
       \/ Remaining(req[r].at, up, board) > 0 /\ req' = [req EXCEPT ![r].pc = "post"]
  /\ UNCHANGED <<bookings, reserved, shut, adrift, told, edit, events, ghosts>>

PostLands(r) ==
  /\ req[r].pc = "post"
  /\ Lands(req[r].at, IF r = Import THEN "import" ELSE "desk", req[r].asOf)
  /\ req' = [req EXCEPT ![r].pc = "landed"]
  /\ UNCHANGED <<shut, adrift, told, edit, events, late, mixed>>

\* Field's guard finds the row full.
PostRefused(r) ==
  /\ req[r].pc = "post" /\ reserved[req[r].at] = Capacity[req[r].at]
  /\ Settle(r, "failed", req[r].claimed)
  /\ UNCHANGED <<bookings, reserved, shut, adrift, told, edit, events, ghosts>>

\* (mutant) A group just booked is not remembered.
AnsweredUnclaimed(r) ==
  /\ req[r].pc = "landed"
  /\ Settle(r, "created", req[r].claimed)
  /\ UNCHANGED <<bookings, reserved, shut, adrift, told, edit, events, ghosts>>

\* The booking's id comes back.  The membership warnings that follow are
\* advice and change nothing.
Answered(r) ==
  /\ req[r].pc = "landed"
  /\ Settle(r, "created", req[r].claimed \cup {req[r].at})
  /\ UNCHANGED <<bookings, reserved, shut, adrift, told, edit, events, ghosts>>

\* Any call fails, times out or loses its answer, or the caller goes away and
\* the handler is dropped: the desk is told of a failure, the import aborts
\* with no outcomes at all.  A POST under way is adrift.
GivenUp(r) ==
  /\ req[r].pc # "idle" /\ events < MaxEvents
  /\ events' = events + 1
  /\ adrift' = IF req[r].pc = "post"
               THEN adrift \cup {[n |-> events, at |-> req[r].at, asOf |-> req[r].asOf,
                                  by |-> IF r = Import THEN "import" ELSE "desk",
                                  open |-> req[r].open]}
               ELSE adrift
  /\ req' = [req EXCEPT ![r] = Idle]
  /\ UNCHANGED <<bookings, reserved, shut, told, edit, ghosts>>

LateLanding(p) ==
  /\ p \in adrift /\ adrift' = adrift \ {p}
  /\ Lands(p.at, p.by, p.asOf)
  /\ late' = late \cup {p.at}
  /\ UNCHANGED <<shut, req, told, edit, events, mixed>>

\* It never arrives, or finds the row full.
LateLost(p) ==
  /\ p \in adrift /\ adrift' = adrift \ {p}
  /\ UNCHANGED <<bookings, reserved, shut, req, told, edit, events, ghosts>>

-----------------------------------------------------------------------------
(* The groups of a paper ledger: ImportStartLedgerPartiesUseCase and the   *)
(* page that sends them.                                                   *)

Pending == {k \in DOMAIN Paper : told[k] \notin {"created", "already"}}

\* In the order of the paper.
PendingGroups ==
  LET N == 1..Cardinality(Pending) IN
  CHOOSE ks \in [N -> Pending] : /\ \A k \in Pending : \E j \in N : ks[j] = k
                                 /\ \A i, j \in N : i < j => ks[i] < ks[j]
PendingTimes == [j \in DOMAIN PendingGroups |-> Paper[PendingGroups[j]]]

\* The page sends every group not known to be in the ledger: the first time,
\* or again when an answer was lost.  The listing is read once, up front.
SendImport ==
  /\ req[Import].pc = "idle" /\ \E k \in DOMAIN Paper : told[k] = "none"
  /\ req' = [req EXCEPT ![Import] =
       Request("turn", NoSlot, PendingTimes, BookedTimes, {}, <<>>, Unread, Unread, 0, FALSE)]
  /\ UNCHANGED <<bookings, reserved, shut, adrift, told, edit, events, ghosts>>

\* The next group: one on a tee time that has a group, or that this request
\* has claimed, is skipped; any other goes through the desk's own path.
Prepare ==
  LET me == req[Import]
      s  == Head(me.todo)
  IN /\ me.pc = "turn" /\ me.todo # <<>>
     /\ req' = [req EXCEPT ![Import] =
          IF s \in me.claimed \cup me.seen
          THEN Request("turn", NoSlot, Tail(me.todo), me.seen, me.claimed,
                       Append(me.out, "already"), Unread, Unread, 0, FALSE)
          ELSE Request("mark", s, Tail(me.todo), me.seen, me.claimed, me.out,
                       Unread, Unread, 0, s \notin shut)]
     /\ UNCHANGED <<bookings, reserved, shut, adrift, told, edit, events, ghosts>>

\* (mutant) The page keeps only what was booked.
ImportAnsweredCreated ==
  LET me == req[Import]
      ks == PendingGroups
  IN /\ me.pc = "turn" /\ me.todo = <<>>
     /\ told' = [k \in DOMAIN Paper |->
                   IF \E j \in DOMAIN ks : ks[j] = k /\ me.out[j] = "created"
                   THEN "created" ELSE told[k]]
     /\ req' = [req EXCEPT ![Import] = Idle]
     /\ UNCHANGED <<bookings, reserved, shut, adrift, edit, events, ghosts>>

\* Every group has an outcome and the page receives them together.
ImportAnswered ==
  LET me == req[Import]
      ks == PendingGroups
  IN /\ me.pc = "turn" /\ me.todo = <<>>
     /\ told' = [k \in DOMAIN Paper |->
                   IF k \in Pending THEN me.out[CHOOSE j \in DOMAIN ks : ks[j] = k]
                   ELSE told[k]]
     /\ req' = [req EXCEPT ![Import] = Idle]
     /\ UNCHANGED <<bookings, reserved, shut, adrift, edit, events, ghosts>>

-----------------------------------------------------------------------------
(* Marks, cancellation and corrections. *)

\* A band of tee times is shut, one transaction.  A group already on one of
\* them keeps its place.
UpsertMarks(band) ==
  /\ events < MaxEvents /\ band \subseteq Slots /\ band # {}
  /\ events' = events + 1
  /\ shut' = shut \cup band
  /\ UNCHANGED <<bookings, reserved, req, adrift, told, edit, ghosts>>

\* Marks are cleared, or made special rates.
DeleteMarks(band) ==
  /\ events < MaxEvents /\ band \subseteq shut /\ band # {}
  /\ events' = events + 1
  /\ shut' = shut \ band
  /\ req' = [r \in Requests |->
               IF req[r].at \in band THEN [req[r] EXCEPT !.open = TRUE] ELSE req[r]]
  /\ adrift' = {IF p.at \in band THEN [p EXCEPT !.open = TRUE] ELSE p : p \in adrift}
  /\ UNCHANGED <<bookings, reserved, told, edit, ghosts>>

\* Field gives a cancelled booking's inventory back.
Cancel(i) ==
  /\ i \in DOMAIN bookings /\ bookings[i].live /\ events < MaxEvents
  /\ events' = events + 1
  /\ bookings' = [bookings EXCEPT ![i].live = FALSE]
  /\ reserved' = IF bookings[i].gen
                 THEN [reserved EXCEPT ![bookings[i].at] = @ - 1] ELSE reserved
  /\ UNCHANGED <<shut, req, adrift, told, edit, ghosts>>

\* A correction has read the booking and passed its check; its PATCH is sent.
Sent(e, kind, i, val) ==
  /\ edit[e].pc = "idle" /\ events < MaxEvents /\ i \in DOMAIN bookings
  /\ events' = events + 1
  /\ edit' = [edit EXCEPT ![e] = Edit("patch", kind, i, val, FALSE)]
  /\ UNCHANGED <<bookings, reserved, shut, req, adrift, told, ghosts>>

\* (mutant) The plan's cap is left to the booking form.
UpdateBookingUncapped(e, i, qty) == Sent(e, "quantity", i, qty)

\* Another headcount, within the plan's seats.
UpdateBooking(e, i, qty) ==
  /\ i \in DOMAIN bookings /\ qty <= Seats[bookings[i].plan]
  /\ Sent(e, "quantity", i, qty)

\* Another plan that seats the group.
ChangePlan(e, i, plan) ==
  /\ i \in DOMAIN bookings /\ bookings[i].qty <= Seats[plan]
  /\ Sent(e, "plan", i, plan)

\* The group's detail, merged into the custom fields as read.
UpdateParty(e, i) == i \in DOMAIN bookings /\ Sent(e, "party", i, bookings[i].course)

\* The PATCH lands; other corrections of the booking now rest on an old
\* reading.
Patched(e) ==
  LET x == edit[e]
  IN /\ x.pc = "patch"
     /\ bookings' = [bookings EXCEPT ![x.b] =
          Booking(@.at, @.gen, @.live, IF x.kind = "party" THEN x.val ELSE @.course, @.by,
                  IF x.kind = "quantity" THEN x.val ELSE @.qty,
                  IF x.kind = "plan" THEN x.val ELSE @.plan)]
     /\ edit' = [f \in Editors |->
                   IF f = e THEN NoEdit
                   ELSE IF edit[f].b = x.b THEN [edit[f] EXCEPT !.stale = TRUE]
                   ELSE edit[f]]
     /\ mixed' = IF x.stale THEN mixed \cup {x.b} ELSE mixed
     /\ UNCHANGED <<reserved, shut, req, adrift, told, events, raced, late>>

PatchLost(e) ==
  /\ edit[e].pc = "patch"
  /\ edit' = [edit EXCEPT ![e] = NoEdit]
  /\ UNCHANGED <<bookings, reserved, shut, req, adrift, told, events, ghosts>>

-----------------------------------------------------------------------------
Step(r) == \/ CheckMark(r) \/ ReadSlot(r) \/ ReadBoard(r) \/ EnsureAvailable(r)
           \/ PostLands(r) \/ PostRefused(r) \/ Answered(r)

Next ==
  \/ \E d \in Desks, s \in Slots : TakeCall(d, s)
  \/ \E r \in Requests : Step(r) \/ GivenUp(r)
  \/ \E p \in adrift : LateLanding(p) \/ LateLost(p)
  \/ SendImport \/ Prepare \/ ImportAnswered
  \/ \E band \in SUBSET Slots : UpsertMarks(band) \/ DeleteMarks(band)
  \/ \E i \in DOMAIN bookings : Cancel(i)
  \/ \E e \in Editors, i \in DOMAIN bookings :
       \/ \E q \in Quantities : UpdateBooking(e, i, q)
       \/ \E p \in Plans : ChangePlan(e, i, p)
       \/ UpdateParty(e, i)
  \/ \E e \in Editors : Patched(e) \/ PatchLost(e)

\* A request that is not given up goes on, and the person at the import page
\* sends again what has no answer yet.
Fairness == /\ WF_vars(Step(Import)) /\ WF_vars(Prepare)
            /\ WF_vars(ImportAnswered) /\ WF_vars(SendImport)

Spec == Init /\ [][Next]_vars /\ Fairness

-----------------------------------------------------------------------------
(* Properties. *)

Standing(s) == {i \in DOMAIN bookings : bookings[i].live /\ bookings[i].at = s}

\* A tee time never holds more groups than it may send out, older manual-slot
\* bookings that Field's count does not see included: as long as every booking
\* is within Field's listing, only two requests that read the board before
\* either landed can oversell it (ensure_slot_available, reconcile_remaining).
NotOversold ==
  Len(bookings) <= ListLimit =>
    \A s \in Slots \ raced : Cardinality(Standing(s)) <= Capacity[s]

\* However often the paper ledger is sent, and wherever an answer was lost, a
\* tee time gets one group from it, unless the POST of a request given up
\* landed behind the next sending's back (prepare, claimed).
BookedOnce ==
  Len(bookings) <= ListLimit =>
    \A s \in Slots \ late : Cardinality({i \in Standing(s) : bookings[i].by = "import"}) <= 1

\* A group is booked onto a shut tee time only if the mark was not there at
\* some moment since its booking began; an import asks anew for every group
\* (refuse_a_tee_time_the_desk_shut).
NobodyOnAShutTime ==
  [][ /\ \A r \in Requests : PostLands(r) => req[r].open
      /\ \A p \in adrift : LateLanding(p) => p.open ]_vars

\* A correction never leaves a group larger than its plan seats, unless two
\* corrections of the booking overlapped (UpdateReservationBookingUseCase,
\* ChangeReservationPlanUseCase).
SeatsFit == \A i \in DOMAIN bookings \ mixed : bookings[i].qty <= Seats[bookings[i].plan]

\* Every group of the paper ledger gets an answer in the end, whatever failed
\* on the way (failed_or_abort, the page's resend).
EveryGroupIsTold == \A k \in DOMAIN Paper : <>(told[k] # "none")
=============================================================================
