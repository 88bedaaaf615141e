---------------------------- MODULE TeeTimeProofs ----------------------------
(***************************************************************************)
(* Proofs about tee times: who gets one (TeeBooking) and how far ahead     *)
(* they are on sale (TeeInventory, in the second part), for any            *)
(* number of desks, tee times, courses and requests on their way.          *)
(*                                                                         *)
(* Booking: every answer a step gives is built from what was true when its *)
(* request began, so each invariant follows the value from the read to the *)
(* POST: the marks it saw (OpenSeen), the count it read (ReadingHolds),    *)
(* the sheet as Field knew it (Known), the plan a headcount was checked    *)
(* against (EditFits).                                                     *)
(***************************************************************************)
EXTENDS TeeBooking, TeeInventory, FiniteSetTheorems, TLAPS

-----------------------------------------------------------------------------
(* The type invariant, by the variables it speaks of. *)

StockOK ==
  /\ bookings \in Seq(BookingType)
  /\ reserved \in [Slots -> Nat]
  /\ \A s \in Slots : reserved[s] = Cardinality(Taken(s)) /\ reserved[s] <= Capacity[s]

RequestOK(q, n) ==
  /\ q \in RequestType
  /\ q.pc \in {"mark", "read", "post", "landed"} <=> q.at \in Slots
  /\ q.asOf <= n

RequestsOK ==
  /\ req \in [Requests -> RequestType]
  /\ \A r \in Requests : RequestOK(req[r], Len(bookings))
  /\ req[Import].pc # "idle" => Accounted(req[Import]) = Len(Paper)

AdriftOK == adrift \subseteq PostType /\ \A p \in adrift : p.asOf <= Len(bookings)

EditsOK ==
  /\ DOMAIN edit = Editors
  /\ \A e \in Editors : /\ edit[e].kind \in {"none", "quantity", "plan", "party"}
                        /\ edit[e] \in EditType(edit[e].kind)
                        /\ edit[e].pc = "patch" => edit[e].b \in DOMAIN bookings

RestOK ==
  /\ shut \subseteq Slots
  /\ told \in [DOMAIN Paper -> {"none", "created", "already", "failed"}]
  /\ events \in Nat
  /\ raced \subseteq Slots /\ late \subseteq Slots /\ mixed \subseteq DOMAIN bookings

LEMMA TypeParts == TypeOK <=> StockOK /\ RequestsOK /\ AdriftOK /\ EditsOK /\ RestOK
BY DEF TypeOK, StockOK, RequestsOK, RequestOK, AdriftOK, EditsOK, RestOK

LEMMA Rebuilt ==
  ASSUME StockOK', RequestsOK', AdriftOK', EditsOK', RestOK'
  PROVE  TypeOK'
BY DEF TypeOK, StockOK, RequestsOK, RequestOK, AdriftOK, EditsOK, RestOK

\* The page hears of all its groups at once, so a group it knows nothing of is
\* one of a sheet it knows nothing of.
ToldTogether ==
  /\ (\E k \in DOMAIN Paper : told[k] = "none") => \A k \in DOMAIN Paper : told[k] = "none"
  /\ req[Import].pc # "idle" => \A k \in DOMAIN Paper : told[k] = "none"

-----------------------------------------------------------------------------
(* What Field holds. *)

LEMMA BookingTyped ==
  ASSUME NEW s \in Slots, NEW by \in {"desk", "import", "legacy"}, NEW gen \in BOOLEAN
  PROVE  Booking(s, gen, TRUE, TRUE, by, NewQuantity, NewPlan) \in BookingType
<1>1. NewPlan \in Plans /\ NewQuantity \in Nat
  BY PlansAssumption
<1> QED  BY <1>1 DEF Booking, BookingType

LEMMA BookingsFinite ==
  ASSUME bookings \in Seq(BookingType), NEW S \in SUBSET (DOMAIN bookings)
  PROVE  IsFiniteSet(S) /\ Cardinality(S) \in Nat /\ Len(bookings) \in Nat
<1>1. DOMAIN bookings = 1..Len(bookings) /\ Len(bookings) \in Nat
  OBVIOUS
<1>2. IsFiniteSet(1..Len(bookings))
  BY <1>1, FS_Interval
<1>3. IsFiniteSet(S)
  BY <1>1, <1>2, FS_Subset
<1> QED  BY <1>1, <1>3, FS_CardinalityType

\* A POST that lands: one more booking at the end, the others untouched.
LEMMA LandsAppends ==
  ASSUME StockOK, NEW s \in Slots, NEW by \in {"desk", "import"}, NEW asOf \in Nat,
         Lands(s, by, asOf)
  PROVE  /\ bookings' \in Seq(BookingType)
         /\ Len(bookings) \in Nat /\ Len(bookings') = Len(bookings) + 1
         /\ \A i \in 1..Len(bookings) : bookings'[i] = bookings[i]
         /\ bookings'[Len(bookings) + 1] =
              Booking(s, TRUE, TRUE, TRUE, by, NewQuantity, NewPlan)
<1> DEFINE b == Booking(s, TRUE, TRUE, TRUE, by, NewQuantity, NewPlan)
<1>1. b \in BookingType
  BY BookingTyped
<1>2. bookings' = Append(bookings, b) /\ bookings \in Seq(BookingType)
  BY DEF Lands, StockOK
<1> HIDE DEF b
<1>3. /\ bookings' \in Seq(BookingType)
      /\ Len(bookings) \in Nat /\ Len(bookings') = Len(bookings) + 1
      /\ \A i \in 1..Len(bookings) : bookings'[i] = bookings[i]
      /\ bookings'[Len(bookings) + 1] = b
  BY <1>1, <1>2
<1> QED  BY <1>3 DEF b

LEMMA LandsStock ==
  ASSUME StockOK, NEW s \in Slots, NEW by \in {"desk", "import"}, NEW asOf \in Nat,
         Lands(s, by, asOf)
  PROVE  StockOK'
<1> DEFINE n == Len(bookings) + 1
<1>1. /\ bookings' \in Seq(BookingType) /\ n \in Nat /\ Len(bookings) \in Nat
      /\ Len(bookings') = n /\ DOMAIN bookings' = DOMAIN bookings \cup {n}
      /\ n \notin DOMAIN bookings
      /\ \A i \in DOMAIN bookings : bookings'[i] = bookings[i]
      /\ bookings'[n].live /\ bookings'[n].at = s /\ bookings'[n].gen
  <2>1. /\ bookings' \in Seq(BookingType)
        /\ Len(bookings) \in Nat /\ Len(bookings') = Len(bookings) + 1
        /\ \A i \in 1..Len(bookings) : bookings'[i] = bookings[i]
        /\ bookings'[n] = Booking(s, TRUE, TRUE, TRUE, by, NewQuantity, NewPlan)
    BY LandsAppends
  <2>2. DOMAIN bookings = 1..Len(bookings) /\ DOMAIN bookings' = 1..(Len(bookings) + 1)
    BY <2>1 DEF StockOK
  <2>3. bookings'[n].live /\ bookings'[n].at = s /\ bookings'[n].gen
    BY <2>1 DEF Booking
  <2>4. n \in Nat /\ n \notin DOMAIN bookings /\ DOMAIN bookings' = DOMAIN bookings \cup {n}
    BY <2>1, <2>2
  <2> QED  BY <2>1, <2>2, <2>3, <2>4
<1>2. /\ reserved[s] < Capacity[s] /\ reserved' = [reserved EXCEPT ![s] = @ + 1]
      /\ reserved \in [Slots -> Nat] /\ Capacity[s] \in Nat
      /\ bookings \in Seq(BookingType)
  BY SlotsAssumption DEF Lands, StockOK
<1>3. ASSUME NEW x \in Slots
      PROVE  reserved'[x] = Cardinality(Taken(x)') /\ reserved'[x] <= Capacity[x]
  <2>1. Taken(x)' = IF x = s THEN Taken(x) \cup {n} ELSE Taken(x)
    BY <1>1 DEF Taken
  <2>2. n \notin Taken(x) /\ Taken(x) \subseteq DOMAIN bookings
    BY <1>1 DEF Taken
  <2>3. IsFiniteSet(Taken(x)) /\ Cardinality(Taken(x)) \in Nat
    BY <1>2, <2>2, BookingsFinite
  <2>4. Cardinality(Taken(x) \cup {n}) = Cardinality(Taken(x)) + 1
    BY <2>2, <2>3, FS_AddElement
  <2>5. reserved[x] = Cardinality(Taken(x)) /\ reserved[x] <= Capacity[x]
    BY DEF StockOK
  <2> QED  BY <1>2, <2>1, <2>4, <2>5
<1>4. reserved' \in [Slots -> Nat]
  BY <1>2
<1> QED  BY <1>1, <1>3, <1>4 DEF StockOK

LEMMA CancelKeeps ==
  ASSUME StockOK, NEW i \in DOMAIN bookings, Cancel(i)
  PROVE  /\ bookings' \in Seq(BookingType) /\ DOMAIN bookings' = DOMAIN bookings
         /\ Len(bookings') = Len(bookings)
         /\ \A j \in DOMAIN bookings : j # i => bookings'[j] = bookings[j]
         /\ bookings'[i] = [bookings[i] EXCEPT !.live = FALSE]
<1>1. bookings \in Seq(BookingType) /\ bookings[i] \in BookingType
  BY DEF StockOK
<1>2. [bookings[i] EXCEPT !.live = FALSE] \in BookingType
  BY <1>1 DEF BookingType
<1>3. PICK b \in BookingType : b = [bookings[i] EXCEPT !.live = FALSE]
  BY <1>2
<1>4. bookings' = [bookings EXCEPT ![i] = b]
  BY <1>3 DEF Cancel
<1> QED  BY <1>1, <1>3, <1>4

LEMMA CancelStock ==
  ASSUME StockOK, NEW i \in DOMAIN bookings, Cancel(i)
  PROVE  StockOK'
<1>1. bookings[i] \in BookingType /\ bookings[i].live
  BY DEF StockOK, Cancel
<1>2. bookings[i].at \in Slots /\ bookings[i].gen \in BOOLEAN
  BY <1>1 DEF BookingType
<1>3. /\ bookings'[i].at = bookings[i].at /\ bookings'[i].gen = bookings[i].gen
      /\ ~ bookings'[i].live
  <2>1. PICK b \in BookingType : b = bookings[i]
    BY <1>1
  <2>2. bookings'[i] = [b EXCEPT !.live = FALSE]
    BY <2>1, CancelKeeps
  <2> QED  BY <2>1, <2>2 DEF BookingType
<1>4. /\ reserved \in [Slots -> Nat]
      /\ reserved' = IF bookings[i].gen
                     THEN [reserved EXCEPT ![bookings[i].at] = @ - 1] ELSE reserved
  BY DEF StockOK, Cancel
<1>5. ASSUME NEW x \in Slots
      PROVE  /\ reserved'[x] = Cardinality(Taken(x)') /\ reserved'[x] <= Capacity[x]
             /\ reserved'[x] \in Nat
  <2>1. Taken(x)' = Taken(x) \ {i}
    BY <1>3, CancelKeeps DEF Taken
  <2>2. i \in Taken(x) <=> x = bookings[i].at /\ bookings[i].gen
    BY <1>1 DEF Taken
  <2>3. IsFiniteSet(Taken(x)) /\ Cardinality(Taken(x)) \in Nat
    BY BookingsFinite DEF Taken, StockOK
  <2>4. IsFiniteSet(Taken(x) \ {i}) /\ Cardinality(Taken(x) \ {i}) \in Nat
    BY <2>3, FS_RemoveElement, FS_CardinalityType
  <2>5. Cardinality(Taken(x) \ {i}) =
          IF i \in Taken(x) THEN Cardinality(Taken(x)) - 1 ELSE Cardinality(Taken(x))
    BY <2>3, FS_RemoveElement
  <2>6. reserved[x] = Cardinality(Taken(x)) /\ reserved[x] <= Capacity[x]
        /\ Capacity[x] \in Nat
    BY SlotsAssumption DEF StockOK
  <2>7. reserved'[x] = IF x = bookings[i].at /\ bookings[i].gen
                       THEN reserved[x] - 1 ELSE reserved[x]
    BY <1>2, <1>4
  <2> QED  BY <2>1, <2>2, <2>3, <2>4, <2>5, <2>6, <2>7
<1>6. reserved' \in [Slots -> Nat]
  BY <1>2, <1>4, <1>5
<1> QED  BY <1>5, <1>6, CancelKeeps DEF StockOK

\* A PATCH that lands changes one booking's headcount, plan or detail.
LEMMA PatchedKeeps ==
  ASSUME StockOK, EditsOK, NEW e \in Editors, Patched(e)
  PROVE  /\ edit[e].b \in DOMAIN bookings
         /\ bookings' \in Seq(BookingType) /\ DOMAIN bookings' = DOMAIN bookings
         /\ Len(bookings') = Len(bookings)
         /\ \A j \in DOMAIN bookings : j # edit[e].b => bookings'[j] = bookings[j]
         /\ bookings'[edit[e].b].at = bookings[edit[e].b].at
         /\ bookings'[edit[e].b].gen = bookings[edit[e].b].gen
         /\ bookings'[edit[e].b].live = bookings[edit[e].b].live
         /\ bookings'[edit[e].b].by = bookings[edit[e].b].by
         /\ bookings'[edit[e].b].course = IF edit[e].kind = "party" THEN edit[e].val
                                          ELSE bookings[edit[e].b].course
         /\ bookings'[edit[e].b].qty = IF edit[e].kind = "quantity" THEN edit[e].val
                                       ELSE bookings[edit[e].b].qty
         /\ bookings'[edit[e].b].plan = IF edit[e].kind = "plan" THEN edit[e].val
                                        ELSE bookings[edit[e].b].plan
<1> DEFINE x == edit[e]
           old == bookings[x.b]
           new == Booking(old.at, old.gen, old.live,
                          IF x.kind = "party" THEN x.val ELSE old.course, old.by,
                          IF x.kind = "quantity" THEN x.val ELSE old.qty,
                          IF x.kind = "plan" THEN x.val ELSE old.plan)
<1>1. x.b \in DOMAIN bookings /\ x.pc = "patch"
  BY DEF Patched, EditsOK
<1>2. bookings \in Seq(BookingType) /\ old \in BookingType
  BY <1>1 DEF StockOK
<1>3. /\ x.kind = "quantity" => x.val \in Nat
      /\ x.kind = "plan" => x.val \in Plans
      /\ x.kind = "party" => x.val \in BOOLEAN
  <2>1. x \in EditType(x.kind)
    BY DEF EditsOK
  <2> QED  BY <2>1 DEF EditType
<1>4. new \in BookingType
  BY <1>2, <1>3 DEF Booking, BookingType
<1>5. bookings' = [bookings EXCEPT ![x.b] = new]
  BY DEF Patched
<1>6. /\ new.at = old.at /\ new.gen = old.gen /\ new.live = old.live /\ new.by = old.by
      /\ new.course = IF x.kind = "party" THEN x.val ELSE old.course
      /\ new.qty = IF x.kind = "quantity" THEN x.val ELSE old.qty
      /\ new.plan = IF x.kind = "plan" THEN x.val ELSE old.plan
  BY DEF Booking
<1> HIDE DEF new
<1>7. /\ bookings' \in Seq(BookingType) /\ DOMAIN bookings' = DOMAIN bookings
      /\ Len(bookings') = Len(bookings) /\ bookings'[x.b] = new
      /\ \A j \in DOMAIN bookings : j # x.b => bookings'[j] = bookings[j]
  BY <1>1, <1>2, <1>4, <1>5
<1> QED  BY <1>1, <1>6, <1>7

LEMMA PatchedStock ==
  ASSUME StockOK, EditsOK, NEW e \in Editors, Patched(e)
  PROVE  StockOK'
<1>1. \A i \in DOMAIN bookings : /\ bookings'[i].live = bookings[i].live
                                 /\ bookings'[i].at = bookings[i].at
                                 /\ bookings'[i].gen = bookings[i].gen
  BY PatchedKeeps
<1>2. \A s \in Slots : Taken(s)' = Taken(s)
  BY <1>1, PatchedKeeps DEF Taken
<1>3. reserved' = reserved
  BY DEF Patched
<1> QED  BY <1>2, <1>3, PatchedKeeps DEF StockOK

LEMMA SameStock ==
  ASSUME StockOK, UNCHANGED <<bookings, reserved>>
  PROVE  StockOK'
BY DEF StockOK, Taken

-----------------------------------------------------------------------------
(* What the requests hold. *)

LEMMA IdleTyped ==
  ASSUME NEW n \in Nat
  PROVE  RequestOK(Idle, n) /\ Idle.pc = "idle" /\ Idle.board = {}
BY SlotsAssumption DEF RequestOK, RequestType, Idle, Request, Unread

\* One request moves on.
LEMMA PutRequest ==
  ASSUME RequestsOK, NEW r \in Requests, NEW q, req' = [req EXCEPT ![r] = q],
         Len(bookings) \in Nat, Len(bookings') \in Nat, Len(bookings) <= Len(bookings'),
         RequestOK(q, Len(bookings')),
         r = Import /\ q.pc # "idle" => Accounted(q) = Len(Paper)
  PROVE  RequestsOK' /\ req'[r] = q /\ \A x \in Requests \ {r} : req'[x] = req[x]
<1>1. req \in [Requests -> RequestType] /\ q \in RequestType /\ Import \in Requests
  BY DEF RequestsOK, RequestOK, Requests
<1>2. /\ req' \in [Requests -> RequestType] /\ req'[r] = q
      /\ \A x \in Requests \ {r} : req'[x] = req[x]
  BY <1>1
<1>3. ASSUME NEW x \in Requests PROVE RequestOK(req'[x], Len(bookings'))
  <2>1. CASE x = r
    BY <1>2, <2>1
  <2>2. CASE x # r
    <3>1. RequestOK(req[x], Len(bookings)) /\ req[x].asOf \in Nat
      BY DEF RequestsOK, RequestOK, RequestType
    <3> QED  BY <1>2, <2>2, <3>1 DEF RequestOK
  <2> QED  BY <2>1, <2>2
<1>4. req'[Import].pc # "idle" => Accounted(req'[Import]) = Len(Paper)
  BY <1>1, <1>2 DEF RequestsOK
<1> QED  BY <1>2, <1>3, <1>4 DEF RequestsOK

\* The same while Field's bookings stay as they are.
LEMMA MoveRequest ==
  ASSUME RequestsOK, NEW r \in Requests, NEW q, req' = [req EXCEPT ![r] = q],
         Len(bookings) \in Nat, UNCHANGED bookings,
         RequestOK(q, Len(bookings)),
         r = Import /\ q.pc # "idle" => Accounted(q) = Len(Paper)
  PROVE  RequestsOK' /\ req'[r] = q /\ \A x \in Requests \ {r} : req'[x] = req[x]
<1>1. Len(bookings') \in Nat /\ Len(bookings) <= Len(bookings')
  OBVIOUS
<1>2. RequestOK(q, Len(bookings'))
  OBVIOUS
<1> QED  BY <1>1, <1>2, PutRequest

\* Nobody moves; there may be one booking more.
LEMMA SameRequests ==
  ASSUME RequestsOK, UNCHANGED req, Len(bookings) \in Nat, Len(bookings') \in Nat,
         Len(bookings) <= Len(bookings')
  PROVE  RequestsOK'
<1>1. ASSUME NEW x \in Requests PROVE RequestOK(req[x], Len(bookings'))
  <2>1. RequestOK(req[x], Len(bookings)) /\ req[x].asOf \in Nat
    BY DEF RequestsOK, RequestOK, RequestType
  <2> QED  BY <2>1 DEF RequestOK
<1> QED  BY <1>1 DEF RequestsOK

\* A request with a tee time at hand is one whose booking is under way.
LEMMA AtHand ==
  ASSUME RequestsOK, NEW r \in Requests
  PROVE  /\ req[r] \in RequestType
         /\ req[r].pc \in {"mark", "read", "post", "landed"} <=> req[r].at \in Slots
         /\ req[r].asOf <= Len(bookings)
         /\ r = Import /\ req[r].pc # "idle" => Accounted(req[r]) = Len(Paper)
BY DEF RequestsOK, RequestOK

\* The next step of a booking, within reach of the tee time at hand.
LEMMA NextStep ==
  ASSUME RequestsOK, NEW r \in Requests, req[r].at \in Slots, UNCHANGED bookings,
         Len(bookings) \in Nat, NEW p \in {"read", "post", "landed"},
         req' = [req EXCEPT ![r].pc = p]
  PROVE  /\ RequestsOK' /\ \A x \in Requests \ {r} : req'[x] = req[x]
         /\ req'[r] = [req[r] EXCEPT !.pc = p]
<1>1. PICK q : q = [req[r] EXCEPT !.pc = p]
  OBVIOUS
<1>2. req[r] \in RequestType /\ req[r].asOf <= Len(bookings)
  BY AtHand
<1>3. /\ q \in RequestType /\ q.pc = p /\ q.at = req[r].at /\ q.asOf = req[r].asOf
      /\ q.out = req[r].out /\ q.todo = req[r].todo
  BY <1>1, <1>2 DEF RequestType
<1>4. req[r].pc # "idle"
  BY AtHand
<1>5. r = Import => Accounted(q) = Len(Paper)
  BY <1>3, <1>4, AtHand DEF Accounted
<1>6. RequestOK(q, Len(bookings))
  BY <1>2, <1>3 DEF RequestOK
<1>7. req' = [req EXCEPT ![r] = q]
  BY <1>1
<1> QED  BY <1>1, <1>5, <1>6, <1>7, MoveRequest

\* A booking that ends, with an outcome, ends the desk's request and turns the
\* import to its next group.
LEMMA Settled ==
  ASSUME RequestsOK, NEW r \in Requests, req[r].at \in Slots, UNCHANGED bookings,
         Len(bookings) \in Nat, NEW o \in {"created", "already", "failed"},
         NEW claimed \in SUBSET Slots, Settle(r, o, claimed)
  PROVE  /\ RequestsOK' /\ \A x \in Requests \ {r} : req'[x] = req[x]
         /\ req'[r].pc \in {"idle", "turn"} /\ req'[r].board = {}
         /\ r = Import => /\ req'[r].pc = "turn" /\ req'[r].seen = req[r].seen
                          /\ req'[r].claimed = claimed
<1>1. req[r] \in RequestType /\ req[r].pc # "idle"
  BY AtHand
<1>2. CASE r \in Desks
  <2>1. r # Import
    BY <1>2, ImportAssumption
  <2>2. req' = [req EXCEPT ![r] = Idle]
    BY <1>2 DEF Settle
  <2>3. RequestOK(Idle, Len(bookings)) /\ Idle.pc = "idle" /\ Idle.board = {}
    BY IdleTyped
  <2> QED  BY <2>1, <2>2, <2>3, MoveRequest
<1>3. CASE r \notin Desks
  <2>1. r = Import
    BY <1>3 DEF Requests
  <2>2. PICK q : q = Request("turn", NoSlot, req[r].todo, req[r].seen, claimed,
                             Append(req[r].out, o), Unread, Unread, 0, FALSE)
    OBVIOUS
  <2>3. req' = [req EXCEPT ![r] = q]
    BY <1>3, <2>2 DEF Settle
  <2>4. /\ q.pc = "turn" /\ q.at = NoSlot /\ q.todo = req[r].todo
        /\ q.out = Append(req[r].out, o) /\ q.seen = req[r].seen /\ q.asOf = 0
        /\ q.claimed = claimed /\ q.board = {}
    BY <2>2 DEF Request, Unread
  <2>5. /\ Append(req[r].out, o) \in Seq({"created", "already", "failed"})
        /\ Len(Append(req[r].out, o)) = Len(req[r].out) + 1
        /\ Len(req[r].out) \in Nat /\ Len(req[r].todo) \in Nat
    BY <1>1 DEF RequestType
  <2>6. q \in RequestType
    BY <1>1, <2>2, <2>5 DEF Request, RequestType, Unread
  <2>7. Accounted(q) = Accounted(req[r])
    <3>1. Accounted(q) = Len(req[r].out) + 1 + Len(req[r].todo)
      BY <2>4, <2>5 DEF Accounted
    <3>2. req[r].at # NoSlot
      BY SlotsAssumption
    <3>3. Accounted(req[r]) = Len(req[r].out) + Len(req[r].todo) + 1
      BY <3>2 DEF Accounted
    <3>4. \A m, n \in Nat : m + 1 + n = m + n + 1
      OBVIOUS
    <3> QED  BY <2>5, <3>1, <3>3, <3>4
  <2>8. RequestOK(q, Len(bookings))
    BY <2>4, <2>6, SlotsAssumption DEF RequestOK
  <2>9. Accounted(q) = Len(Paper)
    BY <1>1, <2>1, <2>7, AtHand
  <2> QED  BY <2>1, <2>3, <2>4, <2>8, <2>9, MoveRequest
<1> QED  BY <1>2, <1>3

LEMMA TakeCallRequests ==
  ASSUME RequestsOK, Len(bookings) \in Nat, NEW d \in Desks, NEW s \in Slots, TakeCall(d, s)
  PROVE  /\ RequestsOK' /\ \A x \in Requests \ {d} : req'[x] = req[x]
         /\ req'[d].pc = "mark" /\ req'[d].at = s /\ req'[d].board = {}
         /\ req'[d].open = (s \notin shut) /\ d \in Requests /\ d # Import
<1>1. d \in Requests /\ d # Import
  BY ImportAssumption DEF Requests
<1>2. PICK q : q = Request("mark", s, <<>>, {}, {}, <<>>, Unread, Unread, 0, s \notin shut)
  OBVIOUS
<1>3. /\ q \in RequestType /\ q.pc = "mark" /\ q.at = s /\ q.asOf = 0 /\ q.board = {}
      /\ q.open = (s \notin shut)
  BY <1>2 DEF Request, RequestType, Unread
<1>4. RequestOK(q, Len(bookings))
  BY <1>3 DEF RequestOK
<1>5. req' = [req EXCEPT ![d] = q] /\ UNCHANGED bookings
  BY <1>2 DEF TakeCall
<1> QED  BY <1>1, <1>3, <1>4, <1>5, MoveRequest

LEMMA ReadSlotRequests ==
  ASSUME StockOK, RequestsOK, Len(bookings) \in Nat, NEW r \in Requests, ReadSlot(r)
  PROVE  /\ RequestsOK' /\ \A x \in Requests \ {r} : req'[x] = req[x]
         /\ req'[r] = [req[r] EXCEPT !.up = {Capacity[req[r].at] - reserved[req[r].at]}]
<1>1. req[r] \in RequestType /\ req[r].at \in Slots /\ req[r].pc # "idle"
  BY AtHand DEF ReadSlot
<1>2. Capacity[req[r].at] - reserved[req[r].at] \in Nat
  BY <1>1, SlotsAssumption DEF StockOK
<1>3. PICK q : q = [req[r] EXCEPT !.up = {Capacity[req[r].at] - reserved[req[r].at]}]
  OBVIOUS
<1>4. /\ q \in RequestType /\ q.pc = req[r].pc /\ q.at = req[r].at
      /\ q.asOf = req[r].asOf /\ q.out = req[r].out /\ q.todo = req[r].todo
  BY <1>1, <1>2, <1>3 DEF RequestType
<1>5. RequestOK(q, Len(bookings))
  BY <1>4, AtHand DEF RequestOK
<1>6. r = Import => Accounted(q) = Len(Paper)
  BY <1>1, <1>4, AtHand DEF Accounted
<1>7. req' = [req EXCEPT ![r] = q] /\ UNCHANGED bookings
  BY <1>3 DEF ReadSlot
<1> QED  BY <1>3, <1>5, <1>6, <1>7, MoveRequest

LEMMA ReadBoardRequests ==
  ASSUME StockOK, RequestsOK, Len(bookings) \in Nat, NEW r \in Requests, ReadBoard(r)
  PROVE  /\ RequestsOK' /\ \A x \in Requests \ {r} : req'[x] = req[x]
         /\ req'[r] = [req[r] EXCEPT !.board = {Cardinality(OnBoard(req[r].at))},
                                     !.asOf = Len(bookings)]
<1>1. req[r] \in RequestType /\ req[r].at \in Slots /\ req[r].pc # "idle"
  BY AtHand DEF ReadBoard
<1>2. Cardinality(OnBoard(req[r].at)) \in Nat
  BY BookingsFinite DEF StockOK, OnBoard, Listed
<1>3. PICK q : q = [req[r] EXCEPT !.board = {Cardinality(OnBoard(req[r].at))},
                                  !.asOf = Len(bookings)]
  OBVIOUS
<1>4. /\ q \in RequestType /\ q.pc = req[r].pc /\ q.at = req[r].at
      /\ q.asOf = Len(bookings) /\ q.out = req[r].out /\ q.todo = req[r].todo
  BY <1>1, <1>2, <1>3 DEF RequestType
<1>5. RequestOK(q, Len(bookings))
  BY <1>4, AtHand DEF RequestOK
<1>6. r = Import => Accounted(q) = Len(Paper)
  BY <1>1, <1>4, AtHand DEF Accounted
<1>7. req' = [req EXCEPT ![r] = q] /\ UNCHANGED bookings
  BY <1>3 DEF ReadBoard
<1> QED  BY <1>3, <1>5, <1>6, <1>7, MoveRequest

\* A request that is gone.
LEMMA ToIdle ==
  ASSUME RequestsOK, Len(bookings) \in Nat, UNCHANGED bookings,
         NEW r \in Requests, req' = [req EXCEPT ![r] = Idle]
  PROVE  /\ RequestsOK' /\ \A x \in Requests \ {r} : req'[x] = req[x]
         /\ req'[r].pc = "idle" /\ req'[r].board = {}
<1>1. RequestOK(Idle, Len(bookings)) /\ Idle.pc = "idle" /\ Idle.board = {}
  BY IdleTyped
<1> QED  BY <1>1, MoveRequest

LEMMA PostLandsRequests ==
  ASSUME StockOK, RequestsOK, NEW r \in Requests, PostLands(r)
  PROVE  /\ RequestsOK' /\ \A x \in Requests \ {r} : req'[x] = req[x]
         /\ req'[r] = [req[r] EXCEPT !.pc = "landed"] /\ req[r].at \in Slots
         /\ req[r].asOf \in Nat
         /\ Lands(req[r].at, IF r = Import THEN "import" ELSE "desk", req[r].asOf)
         /\ Len(bookings) \in Nat /\ Len(bookings') = Len(bookings) + 1
<1>1. req[r] \in RequestType /\ req[r].at \in Slots /\ req[r].pc # "idle"
  BY AtHand DEF PostLands
<1>2. PICK by \in {"desk", "import"} : by = IF r = Import THEN "import" ELSE "desk"
  OBVIOUS
<1>3. Lands(req[r].at, by, req[r].asOf) /\ req[r].asOf \in Nat
  BY <1>1, <1>2 DEF PostLands, RequestType
<1>4. Len(bookings) \in Nat /\ Len(bookings') = Len(bookings) + 1
  BY <1>1, <1>3, LandsAppends
<1>5. PICK q : q = [req[r] EXCEPT !.pc = "landed"]
  OBVIOUS
<1>6. /\ q \in RequestType /\ q.pc = "landed" /\ q.at = req[r].at
      /\ q.asOf = req[r].asOf /\ q.out = req[r].out /\ q.todo = req[r].todo
  BY <1>1, <1>5 DEF RequestType
<1>7. RequestOK(q, Len(bookings'))
  BY <1>1, <1>3, <1>4, <1>6, AtHand DEF RequestOK
<1>8. r = Import => Accounted(q) = Len(Paper)
  BY <1>1, <1>6, AtHand DEF Accounted
<1>9. req' = [req EXCEPT ![r] = q]
  BY <1>5 DEF PostLands
<1>10. Len(bookings') \in Nat /\ Len(bookings) <= Len(bookings')
  BY <1>4
<1> QED  BY <1>1, <1>2, <1>3, <1>4, <1>5, <1>7, <1>8, <1>9, <1>10, PutRequest

LEMMA DeleteMarksRequests ==
  ASSUME RequestsOK, Len(bookings) \in Nat, NEW band, DeleteMarks(band)
  PROVE  /\ RequestsOK'
         /\ \A r \in Requests :
              req'[r] = IF req[r].at \in band THEN [req[r] EXCEPT !.open = TRUE] ELSE req[r]
<1>1. /\ \A r \in Requests :
           req'[r] = IF req[r].at \in band THEN [req[r] EXCEPT !.open = TRUE] ELSE req[r]
      /\ DOMAIN req' = Requests /\ UNCHANGED bookings /\ Import \in Requests
      /\ req' = [r \in Requests |-> req'[r]]
  BY DEF DeleteMarks, Requests
<1>2. ASSUME NEW r \in Requests
      PROVE  /\ req'[r] \in RequestType /\ req'[r].pc = req[r].pc /\ req'[r].at = req[r].at
             /\ req'[r].asOf = req[r].asOf /\ req'[r].out = req[r].out
             /\ req'[r].todo = req[r].todo
  <2>1. req[r] \in RequestType
    BY AtHand
  <2>2. PICK q \in RequestType : q = req[r]
    BY <2>1
  <2>3. req'[r] = IF q.at \in band THEN [q EXCEPT !.open = TRUE] ELSE q
    BY <1>1, <2>2
  <2>4. [q EXCEPT !.open = TRUE] \in RequestType
    BY DEF RequestType
  <2> QED  BY <2>2, <2>3, <2>4 DEF RequestType
<1>3. req' \in [Requests -> RequestType]
  BY <1>1, <1>2
<1>4. ASSUME NEW r \in Requests PROVE RequestOK(req'[r], Len(bookings'))
  BY <1>1, <1>2, AtHand DEF RequestOK
<1>5. req'[Import].pc # "idle" => Accounted(req'[Import]) = Len(Paper)
  <2>1. /\ req'[Import].pc = req[Import].pc /\ req'[Import].at = req[Import].at
        /\ req'[Import].out = req[Import].out /\ req'[Import].todo = req[Import].todo
    BY <1>1, <1>2
  <2>2. req[Import].pc # "idle" => Accounted(req[Import]) = Len(Paper)
    BY <1>1, AtHand
  <2> QED  BY <2>1, <2>2 DEF Accounted
<1> QED  BY <1>1, <1>3, <1>4, <1>5 DEF RequestsOK

-----------------------------------------------------------------------------
(* The groups of the paper ledger. *)

\* While the page knows nothing, every group is pending, in its own place.
LEMMA AllPending ==
  ASSUME \A k \in DOMAIN Paper : told[k] = "none"
  PROVE  /\ DOMAIN Paper = 1..Len(Paper) /\ Len(Paper) \in Nat
         /\ Pending = DOMAIN Paper /\ Cardinality(Pending) = Len(Paper)
         /\ PendingGroups \in [1..Len(Paper) -> 1..Len(Paper)]
         /\ \A k \in DOMAIN Paper : \E j \in 1..Len(Paper) : PendingGroups[j] = k
         /\ PendingTimes \in Seq(Slots) /\ Len(PendingTimes) = Len(Paper)
<1> DEFINE n == Len(Paper)
<1>1. Paper \in Seq(Slots)
  BY LedgersAssumption
<1>2. DOMAIN Paper = 1..n /\ n \in Nat
  BY <1>1
<1>3. Pending = 1..n
  BY <1>2 DEF Pending
<1>4. Cardinality(Pending) = n
  BY <1>2, <1>3, FS_Interval
<1> DEFINE P(ks) == /\ \A k \in 1..n : \E j \in 1..n : ks[j] = k
                    /\ \A i, j \in 1..n : i < j => ks[i] < ks[j]
<1>5. PendingGroups = CHOOSE ks \in [1..n -> 1..n] : P(ks)
  BY <1>3, <1>4 DEF PendingGroups
<1>6. [k \in 1..n |-> k] \in [1..n -> 1..n] /\ P([k \in 1..n |-> k])
  BY <1>2
<1> HIDE DEF P
<1>7. PendingGroups \in [1..n -> 1..n] /\ P(PendingGroups)
  BY <1>5, <1>6
<1>8. \A k \in 1..n : \E j \in 1..n : PendingGroups[j] = k
  BY <1>7 DEF P
<1>9. PendingTimes \in [1..n -> Slots]
  <2>1. \A j \in 1..n : Paper[PendingGroups[j]] \in Slots
    BY <1>1, <1>2, <1>7
  <2>2. DOMAIN PendingGroups = 1..n
    BY <1>7
  <2> QED  BY <2>1, <2>2 DEF PendingTimes
<1>10. PendingTimes \in Seq(Slots) /\ Len(PendingTimes) = n
  BY <1>2, <1>9
<1> QED  BY <1>2, <1>3, <1>4, <1>7, <1>8, <1>10

LEMMA AccountedIs ==
  ASSUME NEW q, NEW m \in Nat, NEW n \in Nat, Len(q.out) = m, Len(q.todo) = n
  PROVE  /\ q.at = NoSlot => Accounted(q) = m + n
         /\ q.at # NoSlot => Accounted(q) = m + n + 1
BY DEF Accounted

LEMMA SendImportRequests ==
  ASSUME RequestsOK, ToldTogether, Len(bookings) \in Nat, SendImport
  PROVE  /\ RequestsOK' /\ \A x \in Requests \ {Import} : req'[x] = req[x]
         /\ Import \in Requests
         /\ req'[Import].pc = "turn" /\ req'[Import].board = {}
         /\ req'[Import].seen = BookedTimes /\ req'[Import].claimed = {}
<1>1. \A k \in DOMAIN Paper : told[k] = "none"
  BY DEF SendImport, ToldTogether
<1>2. PendingTimes \in Seq(Slots) /\ Len(PendingTimes) = Len(Paper) /\ Len(Paper) \in Nat
  BY <1>1, AllPending
<1>3. PICK q : q = Request("turn", NoSlot, PendingTimes, BookedTimes, {}, <<>>,
                           Unread, Unread, 0, FALSE)
  OBVIOUS
<1>4. /\ q.pc = "turn" /\ q.at = NoSlot /\ q.todo = PendingTimes /\ q.out = <<>>
      /\ q.asOf = 0 /\ q.board = {} /\ q.seen = BookedTimes /\ q.claimed = {}
  BY <1>3 DEF Request, Unread
<1>5. q \in RequestType
  BY <1>2, <1>3 DEF Request, RequestType, Unread, BookedTimes
<1>6. RequestOK(q, Len(bookings))
  BY <1>4, <1>5, SlotsAssumption DEF RequestOK
<1>7. Accounted(q) = Len(Paper)
  BY <1>2, <1>4 DEF Accounted
<1>8. req' = [req EXCEPT ![Import] = q] /\ UNCHANGED bookings /\ Import \in Requests
  BY <1>3 DEF SendImport, Requests
<1> QED  BY <1>4, <1>6, <1>7, <1>8, MoveRequest

LEMMA PrepareRequests ==
  ASSUME RequestsOK, Len(bookings) \in Nat, Prepare
  PROVE  /\ RequestsOK' /\ \A x \in Requests \ {Import} : req'[x] = req[x]
         /\ Import \in Requests /\ req[Import].pc = "turn"
         /\ req'[Import].board = {} /\ req'[Import].pc \in {"turn", "mark"}
         /\ req'[Import].seen = req[Import].seen
         /\ req'[Import].claimed = req[Import].claimed
         /\ req'[Import].pc = "mark" =>
              /\ req'[Import].at \notin req[Import].seen \cup req[Import].claimed
              /\ req'[Import].open = (req'[Import].at \notin shut)
<1> DEFINE me == req[Import]
           s == Head(me.todo)
<1>1. /\ me.pc = "turn" /\ me.todo # <<>> /\ UNCHANGED bookings /\ Import \in Requests
  BY DEF Prepare, Requests
<1>2. me \in RequestType /\ me.at = NoSlot /\ Accounted(me) = Len(Paper)
  <2>1. me \in RequestType /\ me.at \notin Slots /\ Accounted(me) = Len(Paper)
    BY <1>1, AtHand
  <2> QED  BY <2>1 DEF RequestType
<1>3. PICK t \in Seq(Slots), m \in Nat : t = me.todo /\ m = Len(me.out)
  BY <1>2 DEF RequestType
<1>4. /\ s \in Slots /\ Tail(t) \in Seq(Slots) /\ Len(t) \in Nat
      /\ Len(Tail(t)) = Len(t) - 1
  BY <1>1, <1>3
<1>5. PICK n \in Nat : n = Len(Tail(t)) /\ Len(t) = n + 1
  <2>1. t \in Seq(Slots) /\ t # <<>>
    BY <1>1, <1>3
  <2>2. Len(t) - 1 \in Nat /\ Len(t) = (Len(t) - 1) + 1
    BY <2>1
  <2> QED  BY <1>4, <2>2
<1>6. Len(Paper) = m + Len(t)
  BY <1>2, <1>3, <1>4, AccountedIs
<1>7. CASE s \in me.claimed \cup me.seen
  <2>1. PICK q : q = Request("turn", NoSlot, Tail(me.todo), me.seen, me.claimed,
                             Append(me.out, "already"), Unread, Unread, 0, FALSE)
    OBVIOUS
  <2>2. /\ q.pc = "turn" /\ q.at = NoSlot /\ q.todo = Tail(t) /\ q.asOf = 0
        /\ q.out = Append(me.out, "already") /\ q.board = {} /\ q.seen = me.seen
        /\ q.claimed = me.claimed
    BY <1>3, <2>1 DEF Request, Unread
  <2>3. /\ Append(me.out, "already") \in Seq({"created", "already", "failed"})
        /\ Len(Append(me.out, "already")) = m + 1
    BY <1>2, <1>3 DEF RequestType
  <2>4. q \in RequestType
    BY <1>2, <1>3, <1>4, <2>1, <2>3 DEF Request, RequestType, Unread
  <2>5. RequestOK(q, Len(bookings))
    BY <2>2, <2>4, SlotsAssumption DEF RequestOK
  <2>6. Accounted(q) = Len(Paper)
    <3>1. Len(q.out) = m + 1 /\ Len(q.todo) = n /\ m + 1 \in Nat
      BY <1>5, <2>2, <2>3
    <3>2. Accounted(q) = (m + 1) + n
      BY <2>2, <3>1, AccountedIs
    <3>3. (m + 1) + n = m + (n + 1)
      OBVIOUS
    <3> QED  BY <1>6, <1>5, <3>2, <3>3
  <2>7. req' = [req EXCEPT ![Import] = q]
    BY <1>7, <2>1 DEF Prepare
  <2> QED  BY <1>1, <2>2, <2>5, <2>6, <2>7, MoveRequest
<1>8. CASE s \notin me.claimed \cup me.seen
  <2>1. PICK q : q = Request("mark", s, Tail(me.todo), me.seen, me.claimed, me.out,
                             Unread, Unread, 0, s \notin shut)
    OBVIOUS
  <2>2. /\ q.pc = "mark" /\ q.at = s /\ q.todo = Tail(t) /\ q.asOf = 0
        /\ q.out = me.out /\ q.board = {} /\ q.seen = me.seen
        /\ q.claimed = me.claimed /\ q.open = (s \notin shut)
    BY <1>3, <2>1 DEF Request, Unread
  <2>3. q \in RequestType
    BY <1>2, <1>3, <1>4, <2>1 DEF Request, RequestType, Unread
  <2>4. RequestOK(q, Len(bookings))
    BY <1>4, <2>2, <2>3 DEF RequestOK
  <2>5. Accounted(q) = Len(Paper)
    <3>1. Len(q.out) = m /\ Len(q.todo) = n /\ q.at # NoSlot
      BY <1>3, <1>4, <1>5, <2>2, SlotsAssumption
    <3>2. Accounted(q) = m + n + 1
      BY <3>1, AccountedIs
    <3> QED  BY <1>6, <1>5, <3>2
  <2>6. req' = [req EXCEPT ![Import] = q]
    BY <1>8, <2>1 DEF Prepare
  <2>7. RequestsOK' /\ req'[Import] = q /\ \A x \in Requests \ {Import} : req'[x] = req[x]
    BY <1>1, <2>4, <2>5, <2>6, MoveRequest
  <2> QED  BY <1>1, <1>8, <2>2, <2>7
<1> QED  BY <1>7, <1>8

\* Every pending group is given its outcome.
LEMMA ImportAnsweredTold ==
  ASSUME RequestsOK, ToldTogether, Len(bookings) \in Nat, ImportAnswered
  PROVE  told' \in [DOMAIN Paper -> {"created", "already", "failed"}]
<1> DEFINE me == req[Import]
           ks == PendingGroups
           O == {"created", "already", "failed"}
<1>1. me.pc = "turn" /\ me.todo = <<>> /\ Import \in Requests
  BY DEF ImportAnswered, Requests
<1>2. \A k \in DOMAIN Paper : told[k] = "none"
  BY <1>1 DEF ToldTogether
<1>3. me \in RequestType /\ me.at = NoSlot /\ Accounted(me) = Len(Paper)
  <2>1. me \in RequestType /\ me.at \notin Slots /\ Accounted(me) = Len(Paper)
    BY <1>1, AtHand
  <2> QED  BY <2>1 DEF RequestType
<1>4. me.out \in Seq(O) /\ Len(me.out) = Len(Paper)
  BY <1>1, <1>3 DEF RequestType, Accounted
<1>5. /\ DOMAIN Paper = 1..Len(Paper) /\ Pending = DOMAIN Paper
      /\ ks \in [1..Len(Paper) -> 1..Len(Paper)]
      /\ \A k \in DOMAIN Paper : \E j \in 1..Len(Paper) : ks[j] = k
  BY <1>2, AllPending
<1>6. ASSUME NEW k \in DOMAIN Paper
      PROVE  me.out[CHOOSE j \in DOMAIN ks : ks[j] = k] \in O
  <2>1. (CHOOSE j \in DOMAIN ks : ks[j] = k) \in 1..Len(Paper)
    BY <1>5
  <2> QED  BY <1>4, <2>1
<1>7. told' = [k \in DOMAIN Paper |->
                 IF k \in Pending THEN me.out[CHOOSE j \in DOMAIN ks : ks[j] = k]
                 ELSE told[k]]
  BY DEF ImportAnswered
<1> QED  BY <1>5, <1>6, <1>7

-----------------------------------------------------------------------------
(* POSTs adrift and corrections. *)

LEMMA AdriftKept ==
  ASSUME AdriftOK, adrift' \subseteq adrift, Len(bookings) \in Nat, Len(bookings') \in Nat,
         Len(bookings) <= Len(bookings')
  PROVE  AdriftOK'
BY DEF AdriftOK, PostType

LEMMA GivenUpAdrift ==
  ASSUME RequestsOK, AdriftOK, events \in Nat, NEW r \in Requests, GivenUp(r)
  PROVE  /\ AdriftOK'
         /\ \A p \in adrift' : p \notin adrift =>
              /\ req[r].pc = "post" /\ p.at = req[r].at /\ p.asOf = req[r].asOf
              /\ p.open = req[r].open
<1>1. CASE req[r].pc = "post"
  <2>1. PICK p : p = [n |-> events, at |-> req[r].at, asOf |-> req[r].asOf,
                      by |-> IF r = Import THEN "import" ELSE "desk", open |-> req[r].open]
    OBVIOUS
  <2>2. req[r] \in RequestType /\ req[r].at \in Slots /\ req[r].asOf <= Len(bookings)
    BY <1>1, AtHand
  <2>3. p \in PostType /\ p.at = req[r].at /\ p.asOf = req[r].asOf /\ p.open = req[r].open
    BY <2>1, <2>2 DEF PostType, RequestType
  <2>4. adrift' = adrift \cup {p} /\ UNCHANGED bookings
    BY <1>1, <2>1 DEF GivenUp
  <2> QED  BY <1>1, <2>2, <2>3, <2>4 DEF AdriftOK
<1>2. CASE req[r].pc # "post"
  BY <1>2 DEF GivenUp, AdriftOK
<1> QED  BY <1>1, <1>2

LEMMA DeleteMarksAdrift ==
  ASSUME AdriftOK, NEW band, DeleteMarks(band)
  PROVE  /\ AdriftOK'
         /\ \A p \in adrift' : \E o \in adrift : /\ p.at = o.at /\ p.asOf = o.asOf
                                                 /\ o.open => p.open
<1>1. adrift' = {IF p.at \in band THEN [p EXCEPT !.open = TRUE] ELSE p : p \in adrift}
      /\ UNCHANGED bookings
  BY DEF DeleteMarks
<1>2. ASSUME NEW p \in adrift'
      PROVE  /\ p \in PostType /\ p.asOf <= Len(bookings)
             /\ \E o \in adrift : p.at = o.at /\ p.asOf = o.asOf /\ (o.open => p.open)
  <2>1. PICK o \in adrift : p = IF o.at \in band THEN [o EXCEPT !.open = TRUE] ELSE o
    BY <1>1
  <2>2. o \in PostType /\ o.asOf <= Len(bookings)
    BY DEF AdriftOK
  <2>3. p \in PostType /\ p.at = o.at /\ p.asOf = o.asOf /\ (o.open => p.open)
    BY <2>1, <2>2 DEF PostType
  <2> QED  BY <2>2, <2>3
<1> QED  BY <1>1, <1>2 DEF AdriftOK

LEMMA EditsKept ==
  ASSUME EditsOK, UNCHANGED edit, DOMAIN bookings \subseteq DOMAIN bookings'
  PROVE  EditsOK'
BY DEF EditsOK

LEMMA SentEdits ==
  ASSUME EditsOK, bookings \in Seq(BookingType), NEW e \in Editors,
         NEW i \in DOMAIN bookings,
         NEW kind \in {"quantity", "plan", "party"}, NEW val,
         /\ kind = "quantity" => val \in Nat
         /\ kind = "plan" => val \in Plans
         /\ kind = "party" => val \in BOOLEAN,
         Sent(e, kind, i, val)
  PROVE  /\ EditsOK' /\ \A f \in Editors \ {e} : edit'[f] = edit[f]
         /\ edit'[e].kind = kind /\ edit'[e].b = i /\ edit'[e].val = val /\ ~ edit'[e].stale
<1>1. PICK x : x = Edit("patch", kind, i, val, FALSE)
  OBVIOUS
<1>2. /\ x.pc = "patch" /\ x.kind = kind /\ x.b = i /\ x.val = val /\ x.stale = FALSE
  BY <1>1 DEF Edit
<1>3. x \in EditType(kind)
  BY <1>1 DEF Edit, EditType
<1>4. edit' = [edit EXCEPT ![e] = x] /\ UNCHANGED bookings
  BY <1>1 DEF Sent
<1>5. /\ DOMAIN edit' = Editors /\ edit'[e] = x
      /\ \A f \in Editors \ {e} : edit'[f] = edit[f]
  BY <1>4 DEF EditsOK
<1> QED  BY <1>2, <1>3, <1>4, <1>5 DEF EditsOK

LEMMA NoEditTyped ==
  NoEdit.kind = "none" /\ NoEdit \in EditType("none") /\ NoEdit.pc = "idle"
BY DEF NoEdit, Edit, EditType

LEMMA PatchedEdits ==
  ASSUME StockOK, EditsOK, NEW e \in Editors, Patched(e)
  PROVE  /\ EditsOK' /\ edit'[e].pc = "idle" /\ edit'[e].kind = "none"
         /\ \A f \in Editors \ {e} :
              /\ edit'[f].pc = edit[f].pc /\ edit'[f].kind = edit[f].kind
              /\ edit'[f].b = edit[f].b /\ edit'[f].val = edit[f].val
              /\ edit'[f].stale = (edit[f].stale \/ edit[f].b = edit[e].b)
<1>1. edit' = [f \in Editors |->
                 IF f = e THEN NoEdit
                 ELSE IF edit[f].b = edit[e].b THEN [edit[f] EXCEPT !.stale = TRUE]
                 ELSE edit[f]]
  BY DEF Patched
<1>2. edit'[e] = NoEdit /\ DOMAIN edit' = Editors
  BY <1>1
<1>3. ASSUME NEW f \in Editors, f # e
      PROVE  /\ edit'[f] \in EditType(edit[f].kind)
             /\ edit'[f].pc = edit[f].pc /\ edit'[f].kind = edit[f].kind
             /\ edit'[f].b = edit[f].b /\ edit'[f].val = edit[f].val
             /\ edit'[f].stale = (edit[f].stale \/ edit[f].b = edit[e].b)
  <2>1. edit[f] \in EditType(edit[f].kind)
    BY DEF EditsOK
  <2>2. edit'[f] = IF edit[f].b = edit[e].b THEN [edit[f] EXCEPT !.stale = TRUE] ELSE edit[f]
    BY <1>1, <1>3
  <2> QED  BY <2>1, <2>2 DEF EditType
<1>4. DOMAIN bookings' = DOMAIN bookings
  BY PatchedKeeps
<1>5. ASSUME NEW f \in Editors
      PROVE  /\ edit'[f].kind \in {"none", "quantity", "plan", "party"}
             /\ edit'[f] \in EditType(edit'[f].kind)
             /\ edit'[f].pc = "patch" => edit'[f].b \in DOMAIN bookings'
  <2>1. CASE f = e
    BY <1>2, <2>1, NoEditTyped
  <2>2. CASE f # e
    BY <1>3, <1>4, <2>2 DEF EditsOK
  <2> QED  BY <2>1, <2>2
<1>6. EditsOK'
  BY <1>2, <1>5 DEF EditsOK
<1> QED  BY <1>2, <1>3, <1>6, NoEditTyped

LEMMA PatchLostEdits ==
  ASSUME EditsOK, NEW e \in Editors, PatchLost(e)
  PROVE  /\ EditsOK' /\ edit'[e].pc = "idle" /\ edit'[e].kind = "none"
         /\ \A f \in Editors \ {e} : edit'[f] = edit[f]
<1>1. edit' = [edit EXCEPT ![e] = NoEdit] /\ UNCHANGED bookings
  BY DEF PatchLost
<1>2. /\ DOMAIN edit' = Editors /\ edit'[e] = NoEdit
      /\ \A f \in Editors \ {e} : edit'[f] = edit[f]
  BY <1>1 DEF EditsOK
<1> QED  BY <1>1, <1>2, NoEditTyped DEF EditsOK

-----------------------------------------------------------------------------
(* Every step keeps the types. *)

LEMMA BookingsLen ==
  ASSUME TypeOK
  PROVE  /\ bookings \in Seq(BookingType) /\ Len(bookings) \in Nat
         /\ DOMAIN bookings = 1..Len(bookings)
BY DEF TypeOK

\* A step of requests alone.
LEMMA RequestsOnly ==
  ASSUME TypeOK, RequestsOK',
         UNCHANGED <<bookings, reserved, shut, adrift, told, edit, events, ghosts>>
  PROVE  TypeOK'
<1>1. StockOK /\ AdriftOK /\ EditsOK /\ RestOK
  BY TypeParts
<1>2. /\ bookings' = bookings /\ reserved' = reserved /\ shut' = shut /\ adrift' = adrift
      /\ told' = told /\ edit' = edit /\ events' = events /\ raced' = raced
      /\ late' = late /\ mixed' = mixed
  BY DEF ghosts
<1>3. StockOK'
  BY <1>1, <1>2, SameStock
<1>4. AdriftOK' /\ EditsOK' /\ RestOK'
  BY <1>1, <1>2 DEF AdriftOK, EditsOK, RestOK
<1> QED  BY <1>3, <1>4, Rebuilt

\* A step of a booking request, up to its POST and from its answer on.
LEMMA StepType ==
  ASSUME TypeOK, NEW r \in Requests,
         \/ CheckMark(r) \/ ReadSlot(r) \/ ReadBoard(r) \/ EnsureAvailable(r)
         \/ PostRefused(r) \/ Answered(r)
  PROVE  TypeOK'
<1>1. StockOK /\ RequestsOK /\ Len(bookings) \in Nat
  BY TypeParts, BookingsLen
<1>2. UNCHANGED <<bookings, reserved, shut, adrift, told, edit, events, ghosts>>
  BY DEF CheckMark, ReadSlot, ReadBoard, EnsureAvailable, PostRefused, Answered
<1>3. req[r].at \in Slots /\ req[r].claimed \in SUBSET Slots /\ UNCHANGED bookings
  <2>1. req[r].pc \in {"mark", "read", "post", "landed"}
    BY DEF CheckMark, ReadSlot, ReadBoard, EnsureAvailable, PostRefused, Answered
  <2> QED  BY <1>1, <1>2, <2>1, AtHand DEF RequestType
<1>4. CASE \E o \in {"created", "already", "failed"}, claimed \in SUBSET Slots :
             Settle(r, o, claimed)
  <2>1. RequestsOK'
    BY <1>1, <1>3, <1>4, Settled
  <2> QED  BY <1>2, <2>1, RequestsOnly
<1>5. CASE \E p \in {"read", "post", "landed"} : req' = [req EXCEPT ![r].pc = p]
  <2>1. RequestsOK'
    BY <1>1, <1>3, <1>5, NextStep
  <2> QED  BY <1>2, <2>1, RequestsOnly
<1>6. CASE CheckMark(r)
  BY <1>3, <1>4, <1>5, <1>6 DEF CheckMark
<1>7. CASE ReadSlot(r)
  BY <1>1, <1>2, <1>7, ReadSlotRequests, RequestsOnly
<1>8. CASE ReadBoard(r)
  BY <1>1, <1>2, <1>8, ReadBoardRequests, RequestsOnly
<1>9. CASE EnsureAvailable(r)
  BY <1>3, <1>4, <1>5, <1>9 DEF EnsureAvailable
<1>10. CASE PostRefused(r)
  BY <1>3, <1>4, <1>10 DEF PostRefused
<1>11. CASE Answered(r)
  <2>1. req[r].claimed \cup {req[r].at} \in SUBSET Slots
    BY <1>3
  <2> QED  BY <1>4, <1>11, <2>1 DEF Answered
<1> QED  BY <1>6, <1>7, <1>8, <1>9, <1>10, <1>11

LEMMA TypeStep ==
  ASSUME TypeOK, ToldTogether, [Next]_vars
  PROVE  TypeOK'
<1>0. /\ StockOK /\ RequestsOK /\ AdriftOK /\ EditsOK /\ RestOK
      /\ bookings \in Seq(BookingType) /\ Len(bookings) \in Nat
      /\ DOMAIN bookings = 1..Len(bookings) /\ Import \in Requests
  BY TypeParts, BookingsLen DEF Requests
<1>1. ASSUME NEW d \in Desks, NEW s \in Slots, TakeCall(d, s) PROVE TypeOK'
  <2>1. RequestsOK'
    BY <1>0, <1>1, TakeCallRequests
  <2>2. UNCHANGED <<bookings, reserved, adrift, edit>>
    BY <1>1 DEF TakeCall
  <2>3. RestOK'
    BY <1>0, <1>1 DEF TakeCall, RestOK, ghosts
  <2>8. StockOK'
    BY <1>0, <2>1, <2>2, SameStock
  <2>9. AdriftOK' /\ EditsOK'
    BY <1>0, <2>1, <2>2 DEF AdriftOK, EditsOK
  <2> QED  BY <2>1, <2>3, <2>8, <2>9, Rebuilt
<1>2. ASSUME NEW r \in Requests, PostLands(r) PROVE TypeOK'
  <2>1. PICK by \in {"desk", "import"}, s \in Slots, n \in Nat : Lands(s, by, n)
    BY <1>0, <1>2, PostLandsRequests
  <2>2. StockOK' /\ Len(bookings') = Len(bookings) + 1 /\ bookings' \in Seq(BookingType)
    BY <1>0, <2>1, LandsStock, LandsAppends
  <2>3. DOMAIN bookings \subseteq DOMAIN bookings' /\ Len(bookings') \in Nat
        /\ Len(bookings) <= Len(bookings')
    BY <1>0, <2>2
  <2>4. RequestsOK'
    BY <1>0, <1>2, PostLandsRequests
  <2>5. UNCHANGED <<shut, adrift, told, edit, events, late, mixed>> /\ raced' \subseteq Slots
    BY <1>0, <1>2, <2>1 DEF PostLands, Lands, RestOK
  <2>6. AdriftOK'
    BY <1>0, <2>3, <2>5, AdriftKept
  <2>7. EditsOK'
    BY <1>0, <2>3, <2>5, EditsKept
  <2>8. RestOK'
    BY <1>0, <2>3, <2>5 DEF RestOK
  <2> QED  BY <2>2, <2>4, <2>6, <2>7, <2>8, Rebuilt
<1>3. ASSUME NEW r \in Requests, GivenUp(r) PROVE TypeOK'
  <2>1. UNCHANGED <<bookings, reserved, edit>> /\ req' = [req EXCEPT ![r] = Idle]
    BY <1>3 DEF GivenUp
  <2>2. RequestsOK'
    BY <1>0, <2>1, ToIdle
  <2>3. RestOK'
    BY <1>0, <1>3 DEF GivenUp, RestOK, ghosts
  <2>4. AdriftOK'
    BY <1>0, <1>3, GivenUpAdrift DEF RestOK
  <2>8. StockOK'
    BY <1>0, <2>1, SameStock
  <2>9. EditsOK'
    BY <1>0, <2>1 DEF EditsOK
  <2> QED  BY <2>2, <2>3, <2>4, <2>8, <2>9, Rebuilt
<1>4. ASSUME NEW p \in adrift, LateLanding(p) PROVE TypeOK'
  <2>1. p \in PostType /\ Lands(p.at, p.by, p.asOf)
    BY <1>0, <1>4 DEF AdriftOK, LateLanding
  <2>2. PICK by \in {"desk", "import"}, s \in Slots, n \in Nat :
          Lands(s, by, n) /\ s = p.at
    BY <2>1 DEF PostType
  <2>3. StockOK' /\ Len(bookings') = Len(bookings) + 1 /\ bookings' \in Seq(BookingType)
    BY <1>0, <2>2, LandsStock, LandsAppends
  <2>4. DOMAIN bookings \subseteq DOMAIN bookings' /\ Len(bookings') \in Nat
        /\ Len(bookings) <= Len(bookings')
    BY <1>0, <2>3
  <2>5. /\ UNCHANGED <<shut, req, told, edit, events, mixed>>
        /\ adrift' \subseteq adrift /\ late' = late \cup {p.at}
        /\ raced' \subseteq Slots
    BY <1>0, <1>4, <2>2 DEF LateLanding, Lands, RestOK
  <2>6. RequestsOK'
    BY <1>0, <2>4, <2>5, SameRequests
  <2>7. AdriftOK'
    BY <1>0, <2>4, <2>5, AdriftKept
  <2>8. EditsOK'
    BY <1>0, <2>4, <2>5, EditsKept
  <2>9. RestOK'
    BY <1>0, <2>2, <2>4, <2>5 DEF RestOK
  <2> QED  BY <2>3, <2>6, <2>7, <2>8, <2>9, Rebuilt
<1>5. ASSUME NEW p \in adrift, LateLost(p) PROVE TypeOK'
  <2>1. UNCHANGED <<bookings, reserved, req, edit>> /\ adrift' \subseteq adrift
    BY <1>5 DEF LateLost
  <2>2. AdriftOK'
    BY <1>0, <2>1, AdriftKept
  <2>3. RestOK'
    BY <1>0, <1>5 DEF LateLost, RestOK, ghosts
  <2>4. RequestsOK'
    BY <1>0, <2>1, SameRequests
  <2>8. StockOK'
    BY <1>0, <2>1, SameStock
  <2>9. EditsOK'
    BY <1>0, <2>1 DEF EditsOK
  <2> QED  BY <2>2, <2>3, <2>4, <2>8, <2>9, Rebuilt
<1>6. ASSUME SendImport PROVE TypeOK'
  <2>1. UNCHANGED <<bookings, reserved, shut, adrift, told, edit, events, ghosts>>
    BY <1>6 DEF SendImport
  <2> QED  BY <1>0, <1>6, <2>1, SendImportRequests, RequestsOnly
<1>7. ASSUME Prepare PROVE TypeOK'
  <2>1. UNCHANGED <<bookings, reserved, shut, adrift, told, edit, events, ghosts>>
    BY <1>7 DEF Prepare
  <2> QED  BY <1>0, <1>7, <2>1, PrepareRequests, RequestsOnly
<1>8. ASSUME ImportAnswered PROVE TypeOK'
  <2>1. UNCHANGED <<bookings, reserved, shut, adrift, edit, events, raced, late, mixed>>
        /\ req' = [req EXCEPT ![Import] = Idle]
    BY <1>8 DEF ImportAnswered, ghosts
  <2>2. RequestsOK'
    BY <1>0, <2>1, ToIdle
  <2>3. told' \in [DOMAIN Paper -> {"created", "already", "failed"}]
    BY <1>0, <1>8, ImportAnsweredTold
  <2>4. RestOK'
    BY <1>0, <2>1, <2>3 DEF RestOK
  <2>8. StockOK'
    BY <1>0, <2>1, SameStock
  <2>9. AdriftOK' /\ EditsOK'
    BY <1>0, <2>1 DEF AdriftOK, EditsOK
  <2> QED  BY <2>2, <2>4, <2>8, <2>9, Rebuilt
<1>9. ASSUME NEW band \in SUBSET Slots, UpsertMarks(band) PROVE TypeOK'
  <2>1. UNCHANGED <<bookings, reserved, req, adrift, edit>>
    BY <1>9 DEF UpsertMarks
  <2>2. RestOK'
    BY <1>0, <1>9 DEF UpsertMarks, RestOK, ghosts
  <2>3. RequestsOK'
    BY <1>0, <2>1, SameRequests
  <2>8. StockOK'
    BY <1>0, <2>1, SameStock
  <2>9. AdriftOK' /\ EditsOK'
    BY <1>0, <2>1 DEF AdriftOK, EditsOK
  <2> QED  BY <2>2, <2>3, <2>8, <2>9, Rebuilt
<1>10. ASSUME NEW band \in SUBSET Slots, DeleteMarks(band) PROVE TypeOK'
  <2>1. UNCHANGED <<bookings, reserved, edit>>
    BY <1>10 DEF DeleteMarks
  <2>2. RestOK'
    BY <1>0, <1>10 DEF DeleteMarks, RestOK, ghosts
  <2>3. RequestsOK' /\ AdriftOK'
    BY <1>0, <1>10, DeleteMarksRequests, DeleteMarksAdrift
  <2>8. StockOK'
    BY <1>0, <2>1, SameStock
  <2>9. EditsOK'
    BY <1>0, <2>1 DEF EditsOK
  <2> QED  BY <2>2, <2>3, <2>8, <2>9, Rebuilt
<1>11. ASSUME NEW i \in DOMAIN bookings, Cancel(i) PROVE TypeOK'
  <2>1. /\ UNCHANGED <<shut, req, adrift, told, edit, raced, late, mixed>>
        /\ events' = events + 1
    BY <1>11 DEF Cancel, ghosts
  <2>2. DOMAIN bookings' = DOMAIN bookings /\ Len(bookings') = Len(bookings)
    BY <1>0, <1>11, CancelKeeps
  <2>3. StockOK'
    BY <1>0, <1>11, CancelStock
  <2>4. RequestsOK'
    BY <1>0, <2>1, <2>2, SameRequests
  <2>5. AdriftOK' /\ EditsOK' /\ RestOK'
    BY <1>0, <2>1, <2>2 DEF AdriftOK, EditsOK, RestOK
  <2> QED  BY <2>3, <2>4, <2>5, Rebuilt
<1>12. ASSUME NEW e \in Editors, NEW i \in DOMAIN bookings,
              NEW kind \in {"quantity", "plan", "party"}, NEW val,
              /\ kind = "quantity" => val \in Nat
              /\ kind = "plan" => val \in Plans
              /\ kind = "party" => val \in BOOLEAN,
              Sent(e, kind, i, val)
       PROVE  TypeOK'
  <2>1. UNCHANGED <<bookings, reserved, shut, req, adrift, told, raced, late, mixed>>
        /\ events' = events + 1
    BY <1>12 DEF Sent, ghosts
  <2>2. EditsOK'
    BY <1>0, <1>12, SentEdits
  <2>3. RequestsOK'
    BY <1>0, <2>1, SameRequests
  <2>4. AdriftOK' /\ RestOK'
    BY <1>0, <2>1 DEF AdriftOK, RestOK
  <2>8. StockOK'
    BY <1>0, <2>1, SameStock
  <2> QED  BY <2>2, <2>3, <2>4, <2>8, Rebuilt
<1>13. ASSUME NEW e \in Editors, NEW i \in DOMAIN bookings, NEW q \in Quantities,
              UpdateBooking(e, i, q)
       PROVE  TypeOK'
  <2>1. q \in Nat
    BY PlansAssumption
  <2> QED  BY <1>12, <1>13, <2>1 DEF UpdateBooking
<1>14. ASSUME NEW e \in Editors, NEW i \in DOMAIN bookings, NEW p \in Plans,
              ChangePlan(e, i, p)
       PROVE  TypeOK'
  BY <1>12, <1>14 DEF ChangePlan
<1>15. ASSUME NEW e \in Editors, NEW i \in DOMAIN bookings, UpdateParty(e, i) PROVE TypeOK'
  <2>1. bookings[i].course \in BOOLEAN
    <3>1. bookings[i] \in BookingType
      BY <1>0
    <3> QED  BY <3>1 DEF BookingType
  <2> QED  BY <1>12, <1>15, <2>1 DEF UpdateParty
<1>16. ASSUME NEW e \in Editors, Patched(e) PROVE TypeOK'
  <2>1. /\ edit[e].b \in DOMAIN bookings /\ DOMAIN bookings' = DOMAIN bookings
        /\ Len(bookings') = Len(bookings)
    BY <1>0, <1>16, PatchedKeeps
  <2>2. StockOK' /\ EditsOK'
    BY <1>0, <1>16, PatchedStock, PatchedEdits
  <2>3. /\ UNCHANGED <<shut, req, adrift, told, events, raced, late>>
        /\ mixed' \subseteq mixed \cup {edit[e].b}
    BY <1>16 DEF Patched
  <2>4. RequestsOK'
    BY <1>0, <2>1, <2>3, SameRequests
  <2>5. AdriftOK' /\ RestOK'
    BY <1>0, <2>1, <2>3 DEF AdriftOK, RestOK
  <2> QED  BY <2>2, <2>4, <2>5, Rebuilt
<1>17. ASSUME NEW e \in Editors, PatchLost(e) PROVE TypeOK'
  <2>1. UNCHANGED <<bookings, reserved, shut, req, adrift, told, events, raced, late, mixed>>
    BY <1>17 DEF PatchLost, ghosts
  <2>2. EditsOK'
    BY <1>0, <1>17, PatchLostEdits
  <2>3. RequestsOK'
    BY <1>0, <2>1, SameRequests
  <2>4. AdriftOK' /\ RestOK'
    BY <1>0, <2>1 DEF AdriftOK, RestOK
  <2>8. StockOK'
    BY <1>0, <2>1, SameStock
  <2> QED  BY <2>2, <2>3, <2>4, <2>8, Rebuilt
<1>18. ASSUME UNCHANGED vars PROVE TypeOK'
  <2>1. UNCHANGED <<bookings, reserved, shut, adrift, told, edit, events, ghosts>>
        /\ UNCHANGED req
    BY <1>18 DEF vars, ghosts
  <2>2. RequestsOK'
    BY <1>0, <2>1, SameRequests
  <2> QED  BY <2>1, <2>2, RequestsOnly
<1> QED  BY <1>1, <1>2, <1>3, <1>4, <1>5, <1>6, <1>7, <1>8, <1>9, <1>10, <1>11, <1>13,
            <1>14, <1>15, <1>16, <1>17, <1>18, StepType DEF Next, Step

-----------------------------------------------------------------------------
(* What a step may do to a request, as far as the properties tell. *)

\* It stays where it is; if its tee time reopens, it has seen it open.
Stays(r) ==
  /\ req'[r].pc = req[r].pc /\ req'[r].at = req[r].at /\ req'[r].asOf = req[r].asOf
  /\ req'[r].board = req[r].board
  /\ req'[r].seen = req[r].seen /\ req'[r].claimed = req[r].claimed
  /\ req[r].open => req'[r].open
  /\ req[r].at \in shut /\ req[r].at \notin shut' => req'[r].open

\* It begins a booking: a desk a call, the import a group nobody is known to
\* stand for.
Begins(r) ==
  /\ req'[r].pc = "mark" /\ req'[r].board = {} /\ UNCHANGED shut
  /\ req'[r].open = (req'[r].at \notin shut)
  /\ r = Import => /\ req[r].pc = "turn"
                   /\ req'[r].seen = req[r].seen /\ req'[r].claimed = req[r].claimed
                   /\ req'[r].at \notin req[r].seen \cup req[r].claimed

\* It goes on with its booking: past the mark, to its POST, past its landing.
Proceeds(r) ==
  /\ UNCHANGED shut /\ req[r].at \in Slots
  /\ req'[r].at = req[r].at /\ req'[r].asOf = req[r].asOf /\ req'[r].board = req[r].board
  /\ req'[r].seen = req[r].seen /\ req'[r].claimed = req[r].claimed
  /\ req'[r].open = req[r].open
  /\ \/ req[r].pc = "mark" /\ req'[r].pc = "read" /\ req[r].at \notin shut
     \/ /\ req[r].pc = "read" /\ req'[r].pc = "post"
        /\ UNCHANGED bookings /\ \E m \in req[r].board : m < Capacity[req[r].at]
     \/ req[r].pc = "post" /\ req'[r].pc = "landed" /\ PostLands(r)

\* It has the board read.
Looks(r) ==
  /\ UNCHANGED <<shut, bookings>> /\ req[r].at \in Slots
  /\ req[r].pc = "read" /\ req'[r].pc = "read" /\ req'[r].at = req[r].at
  /\ req'[r].board = {Cardinality(OnBoard(req[r].at))} /\ req'[r].asOf = Len(bookings)
  /\ req'[r].seen = req[r].seen /\ req'[r].claimed = req[r].claimed
  /\ req'[r].open = req[r].open

\* It is over, or the import is between two groups.
Rests(r) ==
  /\ UNCHANGED bookings
  /\ req'[r].pc \in {"idle", "turn"} /\ req'[r].board = {}
  /\ r = Import /\ req'[r].pc = "turn" =>
       \/ /\ req[r].pc \in {"turn", "mark", "read", "post"}
          /\ req'[r].seen = req[r].seen /\ req'[r].claimed = req[r].claimed
       \/ /\ req[r].pc = "landed" /\ req'[r].seen = req[r].seen
          /\ req'[r].claimed = req[r].claimed \cup {req[r].at}
       \/ req[r].pc = "idle" /\ req'[r].seen = BookedTimes /\ SendImport

Moves(r) == Stays(r) \/ Begins(r) \/ Proceeds(r) \/ Looks(r) \/ Rests(r)

LEMMA StaysPut ==
  ASSUME NEW r, req'[r] = req[r], shut \subseteq shut'
  PROVE  Stays(r)
BY DEF Stays

\* A full tee time is refused, whichever count says so.
LEMMA RemainingBound ==
  ASSUME NEW s \in Slots, NEW up \in Nat, NEW m \in Nat, Remaining(s, up, m) > 0
  PROVE  m < Capacity[s]
<1>1. Capacity[s] \in Nat
  BY SlotsAssumption
<1> QED  BY <1>1 DEF Remaining

LEMMA StepMoves ==
  ASSUME TypeOK, NEW r \in Requests, Step(r), NEW x \in Requests
  PROVE  Moves(x)
<1>1. StockOK /\ RequestsOK /\ Len(bookings) \in Nat
  BY TypeParts, BookingsLen
<1>2. UNCHANGED shut
  BY DEF Step, CheckMark, ReadSlot, ReadBoard, EnsureAvailable, PostLands, PostRefused,
         Answered, ghosts
<1>3. /\ req[r].at \in Slots /\ req[r].claimed \in SUBSET Slots /\ req[r] \in RequestType
      /\ req[r].pc \in {"mark", "read", "post", "landed"}
  <2>1. req[r].pc \in {"mark", "read", "post", "landed"}
    BY DEF Step, CheckMark, ReadSlot, ReadBoard, EnsureAvailable, PostLands, PostRefused,
           Answered
  <2> QED  BY <1>1, <2>1, AtHand DEF RequestType
<1>4. CASE x # r
  <2>1. req'[x] = req[x]
    <3>1. req \in [Requests -> RequestType]
      BY <1>1 DEF RequestsOK
    <3> QED  BY <1>4, <3>1 DEF Step, CheckMark, ReadSlot, ReadBoard, EnsureAvailable,
                               PostLands, PostRefused, Answered, Settle
  <2> QED  BY <1>2, <2>1, StaysPut DEF Moves
<1>5. ASSUME UNCHANGED bookings, Settle(r, "failed", req[r].claimed), req[r].pc # "landed"
      PROVE  Rests(r)
  <2>1. /\ req'[r].pc \in {"idle", "turn"} /\ req'[r].board = {}
        /\ r = Import => /\ req'[r].pc = "turn" /\ req'[r].seen = req[r].seen
                         /\ req'[r].claimed = req[r].claimed
    BY <1>1, <1>3, <1>5, Settled
  <2> QED  BY <1>3, <1>5, <2>1 DEF Rests
<1>6. ASSUME NEW p \in {"read", "post", "landed"}, req' = [req EXCEPT ![r].pc = p]
      PROVE  /\ req'[r].at = req[r].at /\ req'[r].asOf = req[r].asOf
             /\ req'[r].board = req[r].board /\ req'[r].pc = p
             /\ req'[r].seen = req[r].seen /\ req'[r].claimed = req[r].claimed
             /\ req'[r].open = req[r].open
  <2>1. req \in [Requests -> RequestType]
    BY <1>1 DEF RequestsOK
  <2>2. req'[r] = [req[r] EXCEPT !.pc = p]
    BY <1>6, <2>1
  <2> QED  BY <1>3, <2>2 DEF RequestType
<1>7. CASE CheckMark(r)
  BY <1>2, <1>3, <1>4, <1>5, <1>6, <1>7 DEF CheckMark, Moves, Proceeds
<1>8. CASE ReadSlot(r)
  <2>1. req'[r] = [req[r] EXCEPT !.up = {Capacity[req[r].at] - reserved[req[r].at]}]
    BY <1>1, <1>8, ReadSlotRequests
  <2>2. Stays(r)
    BY <1>2, <1>3, <2>1 DEF RequestType, Stays
  <2> QED  BY <1>4, <2>2 DEF Moves
<1>9. CASE ReadBoard(r)
  <2>1. req'[r] = [req[r] EXCEPT !.board = {Cardinality(OnBoard(req[r].at))},
                                 !.asOf = Len(bookings)]
    BY <1>1, <1>9, ReadBoardRequests
  <2>2. req[r].pc = "read" /\ UNCHANGED bookings
    BY <1>9 DEF ReadBoard
  <2>3. Looks(r)
    BY <1>2, <1>3, <2>1, <2>2 DEF RequestType, Looks
  <2> QED  BY <1>4, <2>3 DEF Moves
<1>10. CASE EnsureAvailable(r)
  <2>1. PICK up \in req[r].up, board \in req[r].board :
          \/ Settle(r, "failed", req[r].claimed)
          \/ Remaining(req[r].at, up, board) > 0 /\ req' = [req EXCEPT ![r].pc = "post"]
    BY <1>10 DEF EnsureAvailable
  <2>2. req[r].pc = "read" /\ UNCHANGED bookings /\ up \in Nat /\ board \in Nat
    BY <1>3, <1>10 DEF EnsureAvailable, RequestType
  <2>3. CASE Settle(r, "failed", req[r].claimed)
    BY <1>4, <1>5, <2>2, <2>3 DEF Moves
  <2>4. CASE Remaining(req[r].at, up, board) > 0 /\ req' = [req EXCEPT ![r].pc = "post"]
    <3>1. board < Capacity[req[r].at]
      BY <1>3, <2>2, <2>4, RemainingBound
    <3>2. Proceeds(r)
      BY <1>2, <1>3, <1>6, <2>2, <2>4, <3>1 DEF Proceeds
    <3> QED  BY <1>4, <3>2 DEF Moves
  <2> QED  BY <2>1, <2>3, <2>4
<1>11. CASE PostLands(r)
  <2>1. req[r].pc = "post" /\ req' = [req EXCEPT ![r].pc = "landed"]
    BY <1>11 DEF PostLands
  <2>2. Proceeds(r)
    BY <1>2, <1>3, <1>6, <1>11, <2>1 DEF Proceeds
  <2> QED  BY <1>4, <2>2 DEF Moves
<1>12. CASE PostRefused(r)
  BY <1>4, <1>5, <1>12 DEF PostRefused, Moves
<1>13. CASE Answered(r)
  <2>1. req[r].claimed \cup {req[r].at} \in SUBSET Slots
    BY <1>3
  <2>2. /\ req[r].pc = "landed" /\ UNCHANGED bookings
        /\ Settle(r, "created", req[r].claimed \cup {req[r].at})
    BY <1>13 DEF Answered
  <2>3. /\ req'[r].pc \in {"idle", "turn"} /\ req'[r].board = {}
        /\ r = Import => /\ req'[r].pc = "turn" /\ req'[r].seen = req[r].seen
                         /\ req'[r].claimed = req[r].claimed \cup {req[r].at}
    BY <1>1, <1>3, <2>1, <2>2, Settled
  <2>4. Rests(r)
    BY <2>2, <2>3 DEF Rests
  <2> QED  BY <1>4, <2>4 DEF Moves
<1> QED  BY <1>7, <1>8, <1>9, <1>10, <1>11, <1>12, <1>13 DEF Step

LEMMA EveryMove ==
  ASSUME TypeOK, ToldTogether, [Next]_vars, NEW x \in Requests
  PROVE  Moves(x)
<1>1. /\ RequestsOK /\ Len(bookings) \in Nat /\ Import \in Requests
      /\ req \in [Requests -> RequestType]
  BY TypeParts, BookingsLen DEF Requests, RequestsOK
<1>2. ASSUME NEW d \in Desks, NEW s \in Slots, TakeCall(d, s) PROVE Moves(x)
  <2>1. /\ \A y \in Requests \ {d} : req'[y] = req[y]
        /\ req'[d].pc = "mark" /\ req'[d].at = s /\ req'[d].board = {}
        /\ req'[d].open = (s \notin shut) /\ d # Import
    BY <1>1, <1>2, TakeCallRequests
  <2>2. UNCHANGED shut
    BY <1>2 DEF TakeCall
  <2>3. Begins(d)
    BY <2>1, <2>2 DEF Begins
  <2> QED  BY <2>1, <2>2, <2>3, StaysPut DEF Moves
<1>3. ASSUME NEW r \in Requests, GivenUp(r) PROVE Moves(x)
  <2>1. UNCHANGED <<bookings, shut>> /\ req' = [req EXCEPT ![r] = Idle]
    BY <1>3 DEF GivenUp
  <2>2. /\ \A y \in Requests \ {r} : req'[y] = req[y]
        /\ req'[r].pc = "idle" /\ req'[r].board = {}
    BY <1>1, <2>1, ToIdle
  <2>3. Rests(r)
    BY <2>1, <2>2 DEF Rests
  <2> QED  BY <2>1, <2>2, <2>3, StaysPut DEF Moves
<1>4. ASSUME SendImport PROVE Moves(x)
  <2>1. UNCHANGED <<bookings, shut>> /\ req[Import].pc = "idle"
    BY <1>4 DEF SendImport
  <2>2. /\ \A y \in Requests \ {Import} : req'[y] = req[y]
        /\ req'[Import].pc = "turn" /\ req'[Import].board = {}
        /\ req'[Import].seen = BookedTimes
    BY <1>1, <1>4, SendImportRequests
  <2>3. Rests(Import)
    BY <1>4, <2>1, <2>2 DEF Rests
  <2> QED  BY <2>1, <2>2, <2>3, StaysPut DEF Moves
<1>5. ASSUME Prepare PROVE Moves(x)
  <2>1. UNCHANGED <<bookings, shut>>
    BY <1>5 DEF Prepare
  <2>2. /\ \A y \in Requests \ {Import} : req'[y] = req[y]
        /\ req[Import].pc = "turn"
        /\ req'[Import].board = {} /\ req'[Import].pc \in {"turn", "mark"}
        /\ req'[Import].seen = req[Import].seen
        /\ req'[Import].claimed = req[Import].claimed
        /\ req'[Import].pc = "mark" =>
             /\ req'[Import].at \notin req[Import].seen \cup req[Import].claimed
             /\ req'[Import].open = (req'[Import].at \notin shut)
    BY <1>1, <1>5, PrepareRequests
  <2>3. CASE req'[Import].pc = "turn"
    <3>1. Rests(Import)
      BY <2>1, <2>2, <2>3 DEF Rests
    <3> QED  BY <2>1, <2>2, <3>1, StaysPut DEF Moves
  <2>4. CASE req'[Import].pc = "mark"
    <3>1. Begins(Import)
      BY <2>1, <2>2, <2>4 DEF Begins
    <3> QED  BY <2>1, <2>2, <3>1, StaysPut DEF Moves
  <2> QED  BY <2>2, <2>3, <2>4
<1>6. ASSUME ImportAnswered PROVE Moves(x)
  <2>1. UNCHANGED <<bookings, shut>> /\ req' = [req EXCEPT ![Import] = Idle]
    BY <1>6 DEF ImportAnswered
  <2>2. /\ \A y \in Requests \ {Import} : req'[y] = req[y]
        /\ req'[Import].pc = "idle" /\ req'[Import].board = {}
    BY <1>1, <2>1, ToIdle
  <2>3. Rests(Import)
    BY <2>1, <2>2 DEF Rests
  <2> QED  BY <2>1, <2>2, <2>3, StaysPut DEF Moves
<1>7. ASSUME NEW band \in SUBSET Slots, DeleteMarks(band) PROVE Moves(x)
  <2>1. req'[x] = IF req[x].at \in band THEN [req[x] EXCEPT !.open = TRUE] ELSE req[x]
    BY <1>1, <1>7, DeleteMarksRequests
  <2>2. req[x] \in RequestType /\ shut' = shut \ band
    BY <1>1, <1>7 DEF DeleteMarks
  <2>3. Stays(x)
    BY <2>1, <2>2 DEF Stays, RequestType
  <2> QED  BY <2>3 DEF Moves
<1>8. ASSUME req' = req, shut \subseteq shut' PROVE Moves(x)
  BY <1>8, StaysPut DEF Moves
<1>9. ASSUME NEW p \in adrift, LateLanding(p) \/ LateLost(p) PROVE Moves(x)
  BY <1>8, <1>9 DEF LateLanding, LateLost
<1>10. ASSUME NEW band \in SUBSET Slots, UpsertMarks(band) PROVE Moves(x)
  BY <1>8, <1>10 DEF UpsertMarks
<1>11. ASSUME NEW i \in DOMAIN bookings, Cancel(i) PROVE Moves(x)
  BY <1>8, <1>11 DEF Cancel
<1>12. ASSUME NEW e \in Editors, NEW i \in DOMAIN bookings,
              \/ \E q \in Quantities : UpdateBooking(e, i, q)
              \/ \E p \in Plans : ChangePlan(e, i, p)
              \/ UpdateParty(e, i)
       PROVE  Moves(x)
  BY <1>8, <1>12 DEF UpdateBooking, ChangePlan, UpdateParty, Sent
<1>13. ASSUME NEW e \in Editors, Patched(e) \/ PatchLost(e) PROVE Moves(x)
  BY <1>8, <1>13 DEF Patched, PatchLost
<1>14. ASSUME UNCHANGED vars PROVE Moves(x)
  BY <1>8, <1>14 DEF vars
<1> QED  BY <1>2, <1>3, <1>4, <1>5, <1>6, <1>7, <1>9, <1>10, <1>11, <1>12, <1>13, <1>14,
            StepMoves DEF Next

-----------------------------------------------------------------------------
(* What a step may do to the bookings and to the POSTs adrift. *)

\* None is added; one may be cancelled or corrected.
Thins ==
  /\ Len(bookings') = Len(bookings) /\ DOMAIN bookings' = DOMAIN bookings
  /\ UNCHANGED <<raced, late>>
  /\ \A i \in DOMAIN bookings : /\ bookings'[i].at = bookings[i].at
                                /\ bookings'[i].by = bookings[i].by
                                /\ bookings'[i].live => bookings[i].live

\* The POST of a request, or one adrift, lands.
Gains ==
  \E s \in Slots, by \in {"desk", "import"}, n \in Nat :
    /\ Lands(s, by, n) /\ UNCHANGED <<edit, mixed>>
    /\ \/ \E r \in Requests : /\ PostLands(r) /\ s = req[r].at /\ n = req[r].asOf
                              /\ by = "import" => r = Import
                              /\ UNCHANGED late
       \/ \E p \in adrift : s = p.at /\ n = p.asOf /\ late' = late \cup {s}

LEMMA EveryBooking ==
  ASSUME TypeOK, [Next]_vars
  PROVE  Thins \/ Gains
<1>1. /\ StockOK /\ RequestsOK /\ AdriftOK /\ EditsOK
      /\ bookings \in Seq(BookingType) /\ Len(bookings) \in Nat
  BY TypeParts, BookingsLen
<1>2. ASSUME UNCHANGED <<bookings, raced, late>> PROVE Thins
  BY <1>2 DEF Thins
<1>3. ASSUME NEW r \in Requests, PostLands(r) PROVE Gains
  <2>1. /\ req[r].at \in Slots /\ req[r].asOf \in Nat
        /\ Lands(req[r].at, IF r = Import THEN "import" ELSE "desk", req[r].asOf)
    BY <1>1, <1>3, PostLandsRequests
  <2>2. UNCHANGED <<edit, late, mixed>>
    BY <1>3 DEF PostLands
  <2>3. PICK by \in {"desk", "import"} : by = IF r = Import THEN "import" ELSE "desk"
    OBVIOUS
  <2> QED  BY <1>3, <2>1, <2>2, <2>3 DEF Gains
<1>4. ASSUME NEW p \in adrift, LateLanding(p) PROVE Gains
  <2>1. p \in PostType /\ Lands(p.at, p.by, p.asOf) /\ late' = late \cup {p.at}
        /\ UNCHANGED <<edit, mixed>>
    BY <1>1, <1>4 DEF AdriftOK, LateLanding
  <2>2. p.at \in Slots /\ p.by \in {"desk", "import"} /\ p.asOf \in Nat
    BY <2>1 DEF PostType
  <2> QED  BY <2>1, <2>2 DEF Gains
<1>5. ASSUME NEW i \in DOMAIN bookings, Cancel(i) PROVE Thins
  <2>1. /\ DOMAIN bookings' = DOMAIN bookings /\ Len(bookings') = Len(bookings)
        /\ \A j \in DOMAIN bookings : j # i => bookings'[j] = bookings[j]
        /\ bookings'[i] = [bookings[i] EXCEPT !.live = FALSE]
    BY <1>1, <1>5, CancelKeeps
  <2>2. bookings[i] \in BookingType /\ UNCHANGED <<raced, late>>
    BY <1>1, <1>5 DEF Cancel, ghosts
  <2>3. /\ bookings'[i].at = bookings[i].at /\ bookings'[i].by = bookings[i].by
        /\ ~ bookings'[i].live
    BY <2>1, <2>2 DEF BookingType
  <2> QED  BY <2>1, <2>2, <2>3 DEF Thins
<1>6. ASSUME NEW e \in Editors, Patched(e) PROVE Thins
  <2>1. UNCHANGED <<raced, late>>
    BY <1>6 DEF Patched
  <2> QED  BY <1>1, <1>6, <2>1, PatchedKeeps DEF Thins
<1>7. ASSUME NEW d \in Desks, NEW s \in Slots, TakeCall(d, s) PROVE Thins
  BY <1>2, <1>7 DEF TakeCall, ghosts
<1>8. ASSUME NEW r \in Requests,
             \/ CheckMark(r) \/ ReadSlot(r) \/ ReadBoard(r) \/ EnsureAvailable(r)
             \/ PostRefused(r) \/ Answered(r) \/ GivenUp(r)
      PROVE  Thins
  BY <1>2, <1>8 DEF CheckMark, ReadSlot, ReadBoard, EnsureAvailable, PostRefused,
                    Answered, GivenUp, ghosts
<1>9. ASSUME NEW p \in adrift, LateLost(p) PROVE Thins
  BY <1>2, <1>9 DEF LateLost, ghosts
<1>10. ASSUME SendImport \/ Prepare \/ ImportAnswered PROVE Thins
  BY <1>2, <1>10 DEF SendImport, Prepare, ImportAnswered, ghosts
<1>11. ASSUME NEW band \in SUBSET Slots, UpsertMarks(band) \/ DeleteMarks(band) PROVE Thins
  BY <1>2, <1>11 DEF UpsertMarks, DeleteMarks, ghosts
<1>12. ASSUME NEW e \in Editors, NEW i \in DOMAIN bookings,
              \/ \E q \in Quantities : UpdateBooking(e, i, q)
              \/ \E p \in Plans : ChangePlan(e, i, p)
              \/ UpdateParty(e, i)
       PROVE  Thins
  BY <1>2, <1>12 DEF UpdateBooking, ChangePlan, UpdateParty, Sent, ghosts
<1>13. ASSUME NEW e \in Editors, PatchLost(e) PROVE Thins
  BY <1>2, <1>13 DEF PatchLost, ghosts
<1>14. ASSUME UNCHANGED vars PROVE Thins
  BY <1>2, <1>14 DEF vars
<1> QED  BY <1>3, <1>4, <1>5, <1>6, <1>7, <1>8, <1>9, <1>10, <1>11, <1>12, <1>13, <1>14
         DEF Next, Step

\* A POST adrift was adrift before, or was under way.
Drifts(p) ==
  \/ \E o \in adrift : p.at = o.at /\ p.asOf = o.asOf /\ (o.open => p.open)
  \/ \E r \in Requests : /\ req[r].pc = "post" /\ p.at = req[r].at
                         /\ p.asOf = req[r].asOf /\ p.open = req[r].open

LEMMA EveryDrift ==
  ASSUME TypeOK, [Next]_vars, NEW p \in adrift'
  PROVE  Drifts(p)
<1>1. RequestsOK /\ AdriftOK /\ events \in Nat
  BY TypeParts DEF RestOK
<1>2. ASSUME adrift' \subseteq adrift PROVE Drifts(p)
  BY <1>2 DEF Drifts
<1>3. ASSUME NEW r \in Requests, GivenUp(r) PROVE Drifts(p)
  <2>1. p \notin adrift => /\ req[r].pc = "post" /\ p.at = req[r].at
                           /\ p.asOf = req[r].asOf /\ p.open = req[r].open
    BY <1>1, <1>3, GivenUpAdrift
  <2> QED  BY <2>1 DEF Drifts
<1>4. ASSUME NEW band \in SUBSET Slots, DeleteMarks(band) PROVE Drifts(p)
  BY <1>1, <1>4, DeleteMarksAdrift DEF Drifts
<1>5. ASSUME NEW d \in Desks, NEW s \in Slots, TakeCall(d, s) PROVE Drifts(p)
  BY <1>2, <1>5 DEF TakeCall
<1>6. ASSUME NEW r \in Requests, Step(r) PROVE Drifts(p)
  BY <1>2, <1>6 DEF Step, CheckMark, ReadSlot, ReadBoard, EnsureAvailable, PostLands,
                    PostRefused, Answered
<1>7. ASSUME NEW o \in adrift, LateLanding(o) \/ LateLost(o) PROVE Drifts(p)
  BY <1>2, <1>7 DEF LateLanding, LateLost
<1>8. ASSUME SendImport \/ Prepare \/ ImportAnswered PROVE Drifts(p)
  BY <1>2, <1>8 DEF SendImport, Prepare, ImportAnswered
<1>9. ASSUME NEW band \in SUBSET Slots, UpsertMarks(band) PROVE Drifts(p)
  BY <1>2, <1>9 DEF UpsertMarks
<1>10. ASSUME NEW i \in DOMAIN bookings, Cancel(i) PROVE Drifts(p)
  BY <1>2, <1>10 DEF Cancel
<1>11. ASSUME NEW e \in Editors, NEW i \in DOMAIN bookings,
              \/ \E q \in Quantities : UpdateBooking(e, i, q)
              \/ \E o \in Plans : ChangePlan(e, i, o)
              \/ UpdateParty(e, i)
       PROVE  Drifts(p)
  BY <1>2, <1>11 DEF UpdateBooking, ChangePlan, UpdateParty, Sent
<1>12. ASSUME NEW e \in Editors, Patched(e) \/ PatchLost(e) PROVE Drifts(p)
  BY <1>2, <1>12 DEF Patched, PatchLost
<1>13. ASSUME UNCHANGED vars PROVE Drifts(p)
  BY <1>2, <1>13 DEF vars
<1> QED  BY <1>3, <1>4, <1>5, <1>6, <1>7, <1>8, <1>9, <1>10, <1>11, <1>12, <1>13 DEF Next

-----------------------------------------------------------------------------
(* The type theorem. *)

LEMMA ToldKept ==
  ASSUME [Next]_vars
  PROVE  UNCHANGED told \/ ImportAnswered
BY DEF Next, vars, TakeCall, Step, CheckMark, ReadSlot, ReadBoard, EnsureAvailable,
       PostLands, PostRefused, Answered, GivenUp, LateLanding, LateLost, SendImport,
       Prepare, UpsertMarks, DeleteMarks, Cancel, UpdateBooking, ChangePlan,
       UpdateParty, Sent, Patched, PatchLost

LEMMA ToldStep ==
  ASSUME TypeOK, ToldTogether, [Next]_vars
  PROVE  ToldTogether'
<1>1. RequestsOK /\ Len(bookings) \in Nat /\ Import \in Requests
  BY TypeParts, BookingsLen DEF Requests
<1>2. CASE ImportAnswered
  <2>1. told' \in [DOMAIN Paper -> {"created", "already", "failed"}]
    BY <1>1, <1>2, ImportAnsweredTold
  <2>2. req' = [req EXCEPT ![Import] = Idle] /\ UNCHANGED bookings
    BY <1>2 DEF ImportAnswered
  <2>3. req'[Import].pc = "idle"
    BY <1>1, <2>2, ToIdle
  <2> QED  BY <2>1, <2>3 DEF ToldTogether
<1>3. CASE UNCHANGED told
  <2>1. Moves(Import)
    BY <1>1, EveryMove
  <2>2. req'[Import].pc # "idle" => req[Import].pc # "idle" \/ SendImport
    BY <2>1 DEF Moves, Stays, Begins, Proceeds, Looks, Rests
  <2>3. SendImport => \A k \in DOMAIN Paper : told[k] = "none"
    BY DEF SendImport, ToldTogether
  <2> QED  BY <1>3, <2>2, <2>3 DEF ToldTogether
<1> QED  BY <1>2, <1>3, ToldKept

LEMMA InitType == Init => TypeOK /\ ToldTogether
<1> SUFFICES ASSUME Init PROVE TypeOK /\ ToldTogether
  OBVIOUS
<1>1. Legacy \in Seq(Slots) /\ Len(Legacy) \in Nat /\ DOMAIN Legacy = 1..Len(Legacy)
  BY LedgersAssumption
<1>2. \A i \in 1..Len(Legacy) :
        Booking(Legacy[i], FALSE, TRUE, TRUE, "legacy", NewQuantity, NewPlan) \in BookingType
  <2> TAKE i \in 1..Len(Legacy)
  <2>1. Legacy[i] \in Slots
    BY <1>1
  <2> QED  BY <2>1, BookingTyped
<1>3. /\ bookings \in [1..Len(Legacy) -> BookingType]
      /\ \A i \in 1..Len(Legacy) :
           bookings[i] = Booking(Legacy[i], FALSE, TRUE, TRUE, "legacy", NewQuantity, NewPlan)
  BY <1>1, <1>2 DEF Init
<1>4. bookings \in Seq(BookingType) /\ DOMAIN bookings = 1..Len(Legacy)
      /\ Len(bookings) = Len(Legacy)
  BY <1>1, <1>3
<1>5. \A i \in DOMAIN bookings : ~ bookings[i].gen
  BY <1>3, <1>4 DEF Booking
<1>6. \A s \in Slots : Taken(s) = {}
  BY <1>5 DEF Taken
<1>7. StockOK
  <2>1. reserved = [s \in Slots |-> 0]
    BY DEF Init
  <2>2. \A s \in Slots : Capacity[s] \in Nat
    BY SlotsAssumption
  <2>3. \A s \in Slots : reserved[s] = Cardinality(Taken(s))
    BY <1>6, <2>1, FS_EmptySet
  <2>4. \A s \in Slots : reserved[s] <= Capacity[s]
    BY <2>1, <2>2
  <2> QED  BY <1>4, <2>1, <2>3, <2>4 DEF StockOK
<1>8. RequestsOK
  <2>1. RequestOK(Idle, Len(bookings)) /\ Idle.pc = "idle" /\ Idle \in RequestType
    BY <1>1, <1>4, IdleTyped DEF RequestOK
  <2>2. req = [r \in Requests |-> Idle] /\ Import \in Requests
    BY DEF Init, Requests
  <2> QED  BY <2>1, <2>2 DEF RequestsOK
<1>9. EditsOK
  BY NoEditTyped DEF EditsOK, Init
<1>10. AdriftOK /\ RestOK
  BY DEF AdriftOK, RestOK, Init
<1>11. ToldTogether
  BY DEF ToldTogether, Init
<1> QED  BY <1>7, <1>8, <1>9, <1>10, <1>11, TypeParts

\* Every behaviour keeps the types, and what the page was told.
LEMMA TypesHold == Spec => [](TypeOK /\ ToldTogether)
<1>1. TypeOK /\ ToldTogether /\ [Next]_vars => (TypeOK /\ ToldTogether)'
  BY TypeStep, ToldStep
<1> QED  BY InitType, <1>1, PTL DEF Spec

\* Whatever happens on the desks, in Field and on the way between them, the
\* bookings, counts, marks, requests and corrections stay what they are; in
\* particular Field's count of a tee time is the number of bookings that hold
\* its inventory, never more than was generated.
THEOREM TypeCorrect == Spec => []TypeOK
BY TypesHold, PTL

-----------------------------------------------------------------------------
(* Marks: a request whose booking went past the mark has seen the tee time *)
(* open.                                                                   *)

OpenSeen ==
  /\ \A r \in Requests :
       /\ req[r].pc \in {"read", "post", "landed"} => req[r].open
       /\ req[r].pc = "mark" /\ req[r].at \notin shut => req[r].open
  /\ \A p \in adrift : p.open

LEMMA OpenStep ==
  ASSUME TypeOK, ToldTogether, OpenSeen, [Next]_vars
  PROVE  OpenSeen'
<1>1. ASSUME NEW r \in Requests
      PROVE  /\ req'[r].pc \in {"read", "post", "landed"} => req'[r].open
             /\ req'[r].pc = "mark" /\ req'[r].at \notin shut' => req'[r].open
  <2>1. Moves(r)
    BY EveryMove
  <2>2. /\ req[r].pc \in {"read", "post", "landed"} => req[r].open
        /\ req[r].pc = "mark" /\ req[r].at \notin shut => req[r].open
    BY DEF OpenSeen
  <2>3. CASE Stays(r)
    BY <2>2, <2>3 DEF Stays
  <2>4. CASE Begins(r)
    BY <2>4 DEF Begins
  <2>5. CASE Proceeds(r)
    BY <2>2, <2>5 DEF Proceeds
  <2>6. CASE Looks(r)
    BY <2>2, <2>6 DEF Looks
  <2>7. CASE Rests(r)
    BY <2>7 DEF Rests
  <2> QED  BY <2>1, <2>3, <2>4, <2>5, <2>6, <2>7 DEF Moves
<1>2. ASSUME NEW p \in adrift' PROVE p.open
  <2>1. Drifts(p)
    BY EveryDrift
  <2> QED  BY <2>1 DEF Drifts, OpenSeen
<1> QED  BY <1>1, <1>2 DEF OpenSeen

\* A group is booked onto a shut tee time only if the mark was not there at
\* some moment since its booking began, whoever sets or clears marks
\* meanwhile and however late its POST lands.
THEOREM NeverOntoAShutTime == Spec => NobodyOnAShutTime
<1>1. Init => OpenSeen
  BY IdleTyped DEF Init, OpenSeen
<1>2. TypeOK /\ ToldTogether /\ OpenSeen /\ [Next]_vars => OpenSeen'
  BY OpenStep
<1>3. OpenSeen => /\ \A r \in Requests : PostLands(r) => req[r].open
                  /\ \A p \in adrift : LateLanding(p) => p.open
  BY DEF OpenSeen, PostLands
<1>4. OpenSeen /\ [Next]_vars =>
        [ /\ \A r \in Requests : PostLands(r) => req[r].open
          /\ \A p \in adrift : LateLanding(p) => p.open ]_vars
  BY <1>3
<1> QED  BY <1>1, <1>2, <1>4, TypesHold, PTL DEF Spec, NobodyOnAShutTime

-----------------------------------------------------------------------------
(* Corrections: one that rests on the booking as it is keeps it seated. *)

EditFits ==
  \A e \in Editors : edit[e].pc = "patch" /\ ~ edit[e].stale =>
    /\ edit[e].kind = "quantity" => edit[e].val <= Seats[bookings[edit[e].b].plan]
    /\ edit[e].kind = "plan" => bookings[edit[e].b].qty <= Seats[edit[e].val]

SeatsInv == SeatsFit /\ EditFits

\* Bookings that keep their headcount and plan keep their seats.
LEMMA SeatsKept ==
  ASSUME EditsOK, SeatsInv, UNCHANGED <<edit, mixed>>,
         DOMAIN bookings \subseteq DOMAIN bookings',
         \A i \in DOMAIN bookings : /\ bookings'[i].qty = bookings[i].qty
                                    /\ bookings'[i].plan = bookings[i].plan,
         \A i \in DOMAIN bookings' \ DOMAIN bookings :
           bookings'[i].qty <= Seats[bookings'[i].plan]
  PROVE  SeatsInv'
BY DEF SeatsInv, SeatsFit, EditFits, EditsOK

LEMMA SentSeats ==
  ASSUME EditsOK, SeatsInv, NEW e \in Editors, NEW i \in DOMAIN bookings,
         UNCHANGED <<bookings, mixed>>,
         \A f \in Editors \ {e} : edit'[f] = edit[f],
         edit'[e].b = i,
         edit'[e].kind = "quantity" => edit'[e].val <= Seats[bookings[i].plan],
         edit'[e].kind = "plan" => bookings[i].qty <= Seats[edit'[e].val]
  PROVE  SeatsInv'
BY DEF SeatsInv, SeatsFit, EditFits

LEMMA PatchedSeats ==
  ASSUME StockOK, EditsOK, SeatsInv, NEW e \in Editors, Patched(e)
  PROVE  SeatsInv'
<1> DEFINE x == edit[e]
<1>1. /\ x.b \in DOMAIN bookings /\ DOMAIN bookings' = DOMAIN bookings
      /\ \A j \in DOMAIN bookings : j # x.b => bookings'[j] = bookings[j]
      /\ bookings'[x.b].qty = IF x.kind = "quantity" THEN x.val ELSE bookings[x.b].qty
      /\ bookings'[x.b].plan = IF x.kind = "plan" THEN x.val ELSE bookings[x.b].plan
  BY PatchedKeeps
<1>2. x.pc = "patch" /\ mixed' = IF x.stale THEN mixed \cup {x.b} ELSE mixed
  BY DEF Patched
<1>3. ASSUME NEW i \in DOMAIN bookings' \ mixed'
      PROVE  bookings'[i].qty <= Seats[bookings'[i].plan]
  <2>1. i \in DOMAIN bookings \ mixed
    BY <1>1, <1>2
  <2>2. bookings[i].qty <= Seats[bookings[i].plan]
    BY <2>1 DEF SeatsInv, SeatsFit
  <2>3. CASE i # x.b
    BY <1>1, <2>1, <2>2, <2>3
  <2>4. CASE i = x.b
    <3>1. ~ x.stale
      BY <1>2, <2>4
    <3>2. /\ x.kind = "quantity" => x.val <= Seats[bookings[x.b].plan]
          /\ x.kind = "plan" => bookings[x.b].qty <= Seats[x.val]
      BY <1>2, <3>1 DEF SeatsInv, EditFits
    <3> QED  BY <1>1, <2>2, <2>4, <3>2
  <2> QED  BY <2>3, <2>4
<1>4. ASSUME NEW f \in Editors, edit'[f].pc = "patch", ~ edit'[f].stale
      PROVE  /\ edit'[f].kind = "quantity" =>
                  edit'[f].val <= Seats[bookings'[edit'[f].b].plan]
             /\ edit'[f].kind = "plan" => bookings'[edit'[f].b].qty <= Seats[edit'[f].val]
  <2>1. f # e
    BY <1>4, PatchedEdits
  <2>2. /\ edit'[f].pc = edit[f].pc /\ edit'[f].kind = edit[f].kind
        /\ edit'[f].b = edit[f].b /\ edit'[f].val = edit[f].val
        /\ edit'[f].stale = (edit[f].stale \/ edit[f].b = x.b)
    BY <2>1, PatchedEdits
  <2>3. edit[f].b # x.b /\ ~ edit[f].stale /\ edit[f].b \in DOMAIN bookings
    BY <1>4, <2>2 DEF EditsOK
  <2>4. bookings'[edit[f].b] = bookings[edit[f].b]
    BY <1>1, <2>3
  <2>5. /\ edit[f].kind = "quantity" => edit[f].val <= Seats[bookings[edit[f].b].plan]
        /\ edit[f].kind = "plan" => bookings[edit[f].b].qty <= Seats[edit[f].val]
    BY <1>4, <2>2, <2>3 DEF SeatsInv, EditFits
  <2> QED  BY <2>2, <2>4, <2>5
<1> QED  BY <1>3, <1>4 DEF SeatsInv, SeatsFit, EditFits

LEMMA GainsBooking ==
  ASSUME TypeOK, Gains
  PROVE  /\ Len(bookings) \in Nat /\ Len(bookings') = Len(bookings) + 1
         /\ DOMAIN bookings = 1..Len(bookings)
         /\ DOMAIN bookings' = 1..(Len(bookings) + 1)
         /\ \A i \in DOMAIN bookings : bookings'[i] = bookings[i]
         /\ bookings'[Len(bookings) + 1].qty = NewQuantity
         /\ bookings'[Len(bookings) + 1].plan = NewPlan
         /\ bookings'[Len(bookings) + 1].course
<1>1. PICK s \in Slots, by \in {"desk", "import"}, n \in Nat : Lands(s, by, n)
  BY DEF Gains
<1>2. StockOK /\ bookings \in Seq(BookingType) /\ DOMAIN bookings = 1..Len(bookings)
  BY TypeParts, BookingsLen
<1>3. /\ bookings' \in Seq(BookingType)
      /\ Len(bookings) \in Nat /\ Len(bookings') = Len(bookings) + 1
      /\ \A i \in 1..Len(bookings) : bookings'[i] = bookings[i]
      /\ bookings'[Len(bookings) + 1] =
           Booking(s, TRUE, TRUE, TRUE, by, NewQuantity, NewPlan)
  BY <1>1, <1>2, LandsAppends
<1>4. DOMAIN bookings' = 1..(Len(bookings) + 1)
  BY <1>3
<1>5. LET b == Booking(s, TRUE, TRUE, TRUE, by, NewQuantity, NewPlan)
      IN b.qty = NewQuantity /\ b.plan = NewPlan /\ b.course
  BY DEF Booking
<1> QED  BY <1>2, <1>3, <1>4, <1>5

LEMMA SeatsStep ==
  ASSUME TypeOK, SeatsInv, [Next]_vars
  PROVE  SeatsInv'
<1>1. StockOK /\ EditsOK /\ bookings \in Seq(BookingType)
  BY TypeParts, BookingsLen
<1>2. ASSUME UNCHANGED <<bookings, edit, mixed>> PROVE SeatsInv'
  BY <1>2 DEF SeatsInv, SeatsFit, EditFits
<1>3. ASSUME Gains PROVE SeatsInv'
  <2>1. NewQuantity <= Seats[NewPlan]
    BY PlansAssumption
  <2>2. UNCHANGED <<edit, mixed>>
    BY <1>3 DEF Gains
  <2>3. /\ DOMAIN bookings \subseteq DOMAIN bookings'
        /\ \A i \in DOMAIN bookings : bookings'[i] = bookings[i]
        /\ \A i \in DOMAIN bookings' \ DOMAIN bookings : i = Len(bookings) + 1
        /\ bookings'[Len(bookings) + 1].qty = NewQuantity
        /\ bookings'[Len(bookings) + 1].plan = NewPlan
    BY <1>3, GainsBooking
  <2> QED  BY <1>1, <2>1, <2>2, <2>3, SeatsKept
<1>4. ASSUME NEW r \in Requests, PostLands(r) PROVE SeatsInv'
  <2>1. Len(bookings') = Len(bookings) + 1 /\ Len(bookings) \in Nat
    BY <1>1, <1>4, TypeParts, PostLandsRequests
  <2> QED  BY <1>3, <2>1, EveryBooking DEF Thins
<1>5. ASSUME NEW p \in adrift, LateLanding(p) PROVE SeatsInv'
  <2>1. PICK s \in Slots, by \in {"desk", "import"}, n \in Nat : Lands(s, by, n)
    <3>1. p \in PostType
      BY DEF TypeOK
    <3> QED  BY <1>5, <3>1 DEF LateLanding, PostType
  <2>2. Len(bookings') = Len(bookings) + 1 /\ Len(bookings) \in Nat
    BY <1>1, <2>1, LandsAppends
  <2> QED  BY <1>3, <2>2, EveryBooking DEF Thins
<1>6. ASSUME NEW i \in DOMAIN bookings, Cancel(i) PROVE SeatsInv'
  <2>1. /\ DOMAIN bookings' = DOMAIN bookings /\ UNCHANGED <<edit, mixed>>
        /\ \A j \in DOMAIN bookings : j # i => bookings'[j] = bookings[j]
        /\ bookings'[i] = [bookings[i] EXCEPT !.live = FALSE]
    BY <1>1, <1>6, CancelKeeps DEF Cancel, ghosts
  <2>2. bookings[i] \in BookingType
    BY <1>1
  <2>3. bookings'[i].qty = bookings[i].qty /\ bookings'[i].plan = bookings[i].plan
    BY <2>1, <2>2 DEF BookingType
  <2> QED  BY <1>1, <2>1, <2>3, SeatsKept
<1>7. ASSUME NEW e \in Editors, NEW i \in DOMAIN bookings, NEW q \in Quantities,
             UpdateBooking(e, i, q)
      PROVE  SeatsInv'
  <2>1. q \in Nat /\ Sent(e, "quantity", i, q) /\ q <= Seats[bookings[i].plan]
    BY <1>7, PlansAssumption DEF UpdateBooking
  <2>2. /\ \A f \in Editors \ {e} : edit'[f] = edit[f]
        /\ edit'[e].kind = "quantity" /\ edit'[e].b = i /\ edit'[e].val = q
    BY <1>1, <2>1, SentEdits
  <2>3. UNCHANGED <<bookings, mixed>>
    BY <2>1 DEF Sent, ghosts
  <2> QED  BY <1>1, <2>1, <2>2, <2>3, SentSeats
<1>8. ASSUME NEW e \in Editors, NEW i \in DOMAIN bookings, NEW p \in Plans,
             ChangePlan(e, i, p)
      PROVE  SeatsInv'
  <2>1. Sent(e, "plan", i, p) /\ bookings[i].qty <= Seats[p]
    BY <1>8 DEF ChangePlan
  <2>2. /\ \A f \in Editors \ {e} : edit'[f] = edit[f]
        /\ edit'[e].kind = "plan" /\ edit'[e].b = i /\ edit'[e].val = p
    BY <1>1, <2>1, SentEdits
  <2>3. UNCHANGED <<bookings, mixed>>
    BY <2>1 DEF Sent, ghosts
  <2> QED  BY <1>1, <2>1, <2>2, <2>3, SentSeats
<1>9. ASSUME NEW e \in Editors, NEW i \in DOMAIN bookings, UpdateParty(e, i)
      PROVE  SeatsInv'
  <2>1. Sent(e, "party", i, bookings[i].course) /\ bookings[i].course \in BOOLEAN
    <3>1. bookings[i] \in BookingType
      BY <1>1
    <3> QED  BY <1>9, <3>1 DEF UpdateParty, BookingType
  <2>2. /\ \A f \in Editors \ {e} : edit'[f] = edit[f]
        /\ edit'[e].kind = "party" /\ edit'[e].b = i
    BY <1>1, <2>1, SentEdits
  <2>3. UNCHANGED <<bookings, mixed>>
    BY <2>1 DEF Sent, ghosts
  <2> QED  BY <1>1, <2>2, <2>3, SentSeats
<1>10. ASSUME NEW e \in Editors, Patched(e) PROVE SeatsInv'
  BY <1>1, <1>10, PatchedSeats
<1>11. ASSUME NEW e \in Editors, PatchLost(e) PROVE SeatsInv'
  <2>1. /\ edit'[e].pc = "idle" /\ \A f \in Editors \ {e} : edit'[f] = edit[f]
    BY <1>1, <1>11, PatchLostEdits
  <2>2. UNCHANGED <<bookings, mixed>>
    BY <1>11 DEF PatchLost, ghosts
  <2> QED  BY <2>1, <2>2 DEF SeatsInv, SeatsFit, EditFits
<1>12. ASSUME NEW d \in Desks, NEW s \in Slots, TakeCall(d, s) PROVE SeatsInv'
  BY <1>2, <1>12 DEF TakeCall, ghosts
<1>13. ASSUME NEW r \in Requests,
              \/ CheckMark(r) \/ ReadSlot(r) \/ ReadBoard(r) \/ EnsureAvailable(r)
              \/ PostRefused(r) \/ Answered(r) \/ GivenUp(r)
       PROVE  SeatsInv'
  BY <1>2, <1>13 DEF CheckMark, ReadSlot, ReadBoard, EnsureAvailable, PostRefused,
                     Answered, GivenUp, ghosts
<1>14. ASSUME NEW p \in adrift, LateLost(p) PROVE SeatsInv'
  BY <1>2, <1>14 DEF LateLost, ghosts
<1>15. ASSUME SendImport \/ Prepare \/ ImportAnswered PROVE SeatsInv'
  BY <1>2, <1>15 DEF SendImport, Prepare, ImportAnswered, ghosts
<1>16. ASSUME NEW band \in SUBSET Slots, UpsertMarks(band) \/ DeleteMarks(band)
       PROVE  SeatsInv'
  BY <1>2, <1>16 DEF UpsertMarks, DeleteMarks, ghosts
<1>17. ASSUME UNCHANGED vars PROVE SeatsInv'
  BY <1>2, <1>17 DEF vars
<1> QED  BY <1>4, <1>5, <1>6, <1>7, <1>8, <1>9, <1>10, <1>11, <1>12, <1>13, <1>14, <1>15,
            <1>16, <1>17 DEF Next, Step

\* A correction never leaves a group larger than its plan seats, unless two
\* corrections of that booking overlapped, for any plans and headcounts.
THEOREM SeatsAlwaysFit == Spec => []SeatsFit
<1>1. Init => SeatsInv
  <2> SUFFICES ASSUME Init PROVE SeatsInv
    OBVIOUS
  <2>1. \A i \in DOMAIN bookings :
          bookings[i].qty = NewQuantity /\ bookings[i].plan = NewPlan
    BY DEF Init, Booking
  <2>2. NewQuantity <= Seats[NewPlan]
    BY PlansAssumption
  <2>3. \A e \in Editors : edit[e].pc = "idle"
    BY NoEditTyped DEF Init
  <2> QED  BY <2>1, <2>2, <2>3 DEF SeatsInv, SeatsFit, EditFits
<1>2. TypeOK /\ SeatsInv /\ [Next]_vars => SeatsInv'
  BY SeatsStep
<1>3. SeatsInv => SeatsFit
  BY DEF SeatsInv
<1> QED  BY <1>1, <1>2, <1>3, TypesHold, PTL DEF Spec

-----------------------------------------------------------------------------
(* Overselling: what a request read of the board still bounds the groups   *)
(* that were there when it read.                                           *)

\* Of the first n bookings, those that stand on s.
Upto(bs, s, n) == {i \in DOMAIN bs : bs[i].live /\ bs[i].at = s /\ i <= n}

ReadingHolds ==
  Len(bookings) <= ListLimit =>
    /\ \A r \in Requests :
         /\ \A m \in req[r].board : Cardinality(Upto(bookings, req[r].at, req[r].asOf)) <= m
         /\ req[r].pc = "post" =>
              Cardinality(Upto(bookings, req[r].at, req[r].asOf)) < Capacity[req[r].at]
    /\ \A p \in adrift : Cardinality(Upto(bookings, p.at, p.asOf)) < Capacity[p.at]

SoldInv == ReadingHolds /\ NotOversold

LEMMA UptoFinite ==
  ASSUME bookings \in Seq(BookingType), NEW s, NEW n
  PROVE  IsFiniteSet(Upto(bookings, s, n)) /\ Cardinality(Upto(bookings, s, n)) \in Nat
<1>1. Upto(bookings, s, n) \subseteq DOMAIN bookings
  BY DEF Upto
<1> QED  BY <1>1, BookingsFinite

\* Later bookings do not come into a reading, and the ones in it only go.
LEMMA UptoThins ==
  ASSUME TypeOK, Thins \/ Gains, NEW s, NEW n \in Nat, n <= Len(bookings)
  PROVE  /\ Cardinality(Upto(bookings', s, n)) <= Cardinality(Upto(bookings, s, n))
         /\ Cardinality(Upto(bookings', s, n)) \in Nat
         /\ Cardinality(Upto(bookings, s, n)) \in Nat
<1>1. bookings \in Seq(BookingType) /\ Len(bookings) \in Nat
      /\ DOMAIN bookings = 1..Len(bookings)
  BY TypeParts, BookingsLen DEF StockOK
<1>2. Upto(bookings', s, n) \subseteq Upto(bookings, s, n)
  <2>1. CASE Thins
    BY <2>1 DEF Thins, Upto
  <2>2. CASE Gains
    <3>1. /\ DOMAIN bookings' = 1..(Len(bookings) + 1)
          /\ \A i \in DOMAIN bookings : bookings'[i] = bookings[i]
      BY <2>2, GainsBooking
    <3> QED  BY <1>1, <3>1 DEF Upto
  <2> QED  BY <2>1, <2>2
<1>3. IsFiniteSet(Upto(bookings, s, n)) /\ Cardinality(Upto(bookings, s, n)) \in Nat
  BY <1>1, UptoFinite
<1>4. /\ IsFiniteSet(Upto(bookings', s, n))
      /\ Cardinality(Upto(bookings', s, n)) <= Cardinality(Upto(bookings, s, n))
  BY <1>2, <1>3, FS_Subset
<1> QED  BY <1>3, <1>4, FS_CardinalityType

\* While the listing holds every booking, the board shows every group.
LEMMA BoardIsWhole ==
  ASSUME bookings \in Seq(BookingType), Len(bookings) <= ListLimit, NEW s
  PROVE  /\ OnBoard(s) = Upto(bookings, s, Len(bookings))
         /\ OnBoard(s) = Standing(s)
<1>1. DOMAIN bookings = 1..Len(bookings) /\ Len(bookings) \in Nat /\ ListLimit \in Nat
  BY BoundsAssumption
<1>2. Listed = DOMAIN bookings
  BY <1>1 DEF Listed
<1>3. \A i \in DOMAIN bookings : i <= Len(bookings)
  BY <1>1
<1> QED  BY <1>2, <1>3 DEF OnBoard, Standing, Upto

LEMMA ReadingStep ==
  ASSUME TypeOK, ToldTogether, ReadingHolds, [Next]_vars
  PROVE  ReadingHolds'
<1> SUFFICES ASSUME Len(bookings') <= ListLimit
             PROVE  /\ \A r \in Requests :
                         /\ \A m \in req'[r].board :
                              Cardinality(Upto(bookings', req'[r].at, req'[r].asOf)) <= m
                         /\ req'[r].pc = "post" =>
                              Cardinality(Upto(bookings', req'[r].at, req'[r].asOf))
                                < Capacity[req'[r].at]
                    /\ \A p \in adrift' :
                         Cardinality(Upto(bookings', p.at, p.asOf)) < Capacity[p.at]
  BY DEF ReadingHolds
<1>1. /\ bookings \in Seq(BookingType) /\ Len(bookings) \in Nat
      /\ RequestsOK /\ AdriftOK /\ ListLimit \in Nat
  BY TypeParts, BookingsLen, BoundsAssumption DEF StockOK
<1>2. Thins \/ Gains
  BY EveryBooking
<1>3. Len(bookings) <= ListLimit
  <2>1. Len(bookings') = Len(bookings) \/ Len(bookings') = Len(bookings) + 1
    BY <1>2, GainsBooking DEF Thins
  <2> QED  BY <1>1, <2>1
<1>4. ASSUME NEW r \in Requests
      PROVE  /\ req[r].asOf \in Nat /\ req[r].asOf <= Len(bookings)
             /\ req[r].board \subseteq Nat
             /\ req[r].at \in Slots => Capacity[req[r].at] \in Nat
             /\ req[r].pc = "post" => req[r].at \in Slots
             /\ \A m \in req[r].board :
                  Cardinality(Upto(bookings, req[r].at, req[r].asOf)) <= m
             /\ req[r].pc = "post" =>
                  Cardinality(Upto(bookings, req[r].at, req[r].asOf)) < Capacity[req[r].at]
  <2>1. RequestOK(req[r], Len(bookings)) /\ req[r] \in RequestType
    BY <1>1, <1>4 DEF RequestsOK, RequestOK
  <2>2. req[r].asOf \in Nat /\ req[r].board \subseteq Nat
    BY <2>1 DEF RequestType
  <2>3. req[r].at \in Slots => Capacity[req[r].at] \in Nat
    BY SlotsAssumption
  <2> QED  BY <1>3, <1>4, <2>1, <2>2, <2>3 DEF RequestOK, ReadingHolds
<1>5. ASSUME NEW r \in Requests
      PROVE  /\ \A m \in req'[r].board :
                  Cardinality(Upto(bookings', req'[r].at, req'[r].asOf)) <= m
             /\ req'[r].pc = "post" =>
                  Cardinality(Upto(bookings', req'[r].at, req'[r].asOf)) < Capacity[req'[r].at]
  <2>1. Moves(r)
    BY <1>5, EveryMove
  <2>2. /\ Cardinality(Upto(bookings', req[r].at, req[r].asOf))
             <= Cardinality(Upto(bookings, req[r].at, req[r].asOf))
        /\ Cardinality(Upto(bookings', req[r].at, req[r].asOf)) \in Nat
        /\ Cardinality(Upto(bookings, req[r].at, req[r].asOf)) \in Nat
    BY <1>2, <1>4, <1>5, UptoThins
  <2>3. CASE Stays(r)
    <3>1. /\ req'[r].pc = req[r].pc /\ req'[r].at = req[r].at
          /\ req'[r].asOf = req[r].asOf /\ req'[r].board = req[r].board
      BY <2>3 DEF Stays
    <3> QED  BY <1>4, <1>5, <2>2, <3>1
  <2>4. CASE Begins(r)
    BY <2>4 DEF Begins
  <2>5. CASE Proceeds(r)
    <3>1. /\ req'[r].at = req[r].at /\ req[r].at \in Slots
          /\ req'[r].asOf = req[r].asOf /\ req'[r].board = req[r].board
          /\ req'[r].pc = "post" => \E m \in req[r].board : m < Capacity[req[r].at]
      BY <2>5 DEF Proceeds
    <3> QED  BY <1>4, <1>5, <2>2, <3>1
  <2>6. CASE Looks(r)
    <3>1. /\ req'[r].at = req[r].at /\ bookings' = bookings /\ req'[r].pc = "read"
          /\ req'[r].board = {Cardinality(OnBoard(req[r].at))}
          /\ req'[r].asOf = Len(bookings)
      BY <2>6 DEF Looks
    <3>2. OnBoard(req[r].at) = Upto(bookings, req[r].at, Len(bookings))
      BY <1>1, <1>3, BoardIsWhole
    <3>3. Cardinality(Upto(bookings, req[r].at, Len(bookings))) \in Nat
      BY <1>1, UptoFinite
    <3> QED  BY <3>1, <3>2, <3>3
  <2>7. CASE Rests(r)
    BY <2>7 DEF Rests
  <2> QED  BY <2>1, <2>3, <2>4, <2>5, <2>6, <2>7 DEF Moves
<1>6. ASSUME NEW p \in adrift'
      PROVE  Cardinality(Upto(bookings', p.at, p.asOf)) < Capacity[p.at]
  <2>1. Drifts(p)
    BY <1>6, EveryDrift
  <2>2. CASE \E o \in adrift : p.at = o.at /\ p.asOf = o.asOf
    <3>1. PICK o \in adrift : p.at = o.at /\ p.asOf = o.asOf
      BY <2>2
    <3>2. o \in PostType /\ o.asOf <= Len(bookings)
      BY <1>1, <3>1 DEF AdriftOK
    <3>3. o.asOf \in Nat /\ Capacity[o.at] \in Nat
      BY <3>2, SlotsAssumption DEF PostType
    <3>4. Cardinality(Upto(bookings, o.at, o.asOf)) < Capacity[o.at]
      BY <1>3, <3>1 DEF ReadingHolds
    <3>5. /\ Cardinality(Upto(bookings', o.at, o.asOf))
               <= Cardinality(Upto(bookings, o.at, o.asOf))
          /\ Cardinality(Upto(bookings', o.at, o.asOf)) \in Nat
          /\ Cardinality(Upto(bookings, o.at, o.asOf)) \in Nat
      BY <1>2, <3>2, <3>3, UptoThins
    <3> QED  BY <3>1, <3>3, <3>4, <3>5
  <2>3. CASE \E r \in Requests : /\ req[r].pc = "post" /\ p.at = req[r].at
                                 /\ p.asOf = req[r].asOf
    <3>1. PICK r \in Requests : /\ req[r].pc = "post" /\ p.at = req[r].at
                                /\ p.asOf = req[r].asOf
      BY <2>3
    <3>2. /\ req[r].asOf \in Nat /\ req[r].asOf <= Len(bookings)
          /\ Capacity[req[r].at] \in Nat
          /\ Cardinality(Upto(bookings, req[r].at, req[r].asOf)) < Capacity[req[r].at]
      BY <1>4, <3>1
    <3>3. /\ Cardinality(Upto(bookings', req[r].at, req[r].asOf))
               <= Cardinality(Upto(bookings, req[r].at, req[r].asOf))
          /\ Cardinality(Upto(bookings', req[r].at, req[r].asOf)) \in Nat
          /\ Cardinality(Upto(bookings, req[r].at, req[r].asOf)) \in Nat
      BY <1>2, <3>2, UptoThins
    <3> QED  BY <3>1, <3>2, <3>3
  <2> QED  BY <2>1, <2>2, <2>3 DEF Drifts
<1> QED  BY <1>5, <1>6

\* A booking that lands where no other did since its sender read the board
\* finds no more groups there than the reading showed.
LEMMA SoldStep ==
  ASSUME TypeOK, ReadingHolds, NotOversold, [Next]_vars
  PROVE  NotOversold'
<1> SUFFICES ASSUME Len(bookings') <= ListLimit, NEW x \in Slots \ raced'
             PROVE  Cardinality(Standing(x)') <= Capacity[x]
  BY DEF NotOversold
<1>1. /\ bookings \in Seq(BookingType) /\ Len(bookings) \in Nat /\ StockOK
      /\ RequestsOK /\ AdriftOK /\ ListLimit \in Nat /\ Capacity[x] \in Nat
      /\ DOMAIN bookings = 1..Len(bookings)
  BY TypeParts, BookingsLen, BoundsAssumption, SlotsAssumption DEF StockOK
<1>2. IsFiniteSet(Standing(x)) /\ Cardinality(Standing(x)) \in Nat
  <2>1. Standing(x) \subseteq DOMAIN bookings
    BY DEF Standing
  <2> QED  BY <1>1, <2>1, BookingsFinite
<1>3. ASSUME Standing(x)' \subseteq Standing(x), x \notin raced, Len(bookings) <= ListLimit
      PROVE  Cardinality(Standing(x)') <= Capacity[x]
  <2>1. Cardinality(Standing(x)) <= Capacity[x]
    BY <1>3 DEF NotOversold
  <2>2. IsFiniteSet(Standing(x)') /\ Cardinality(Standing(x)') <= Cardinality(Standing(x))
    BY <1>2, <1>3, FS_Subset
  <2>3. Cardinality(Standing(x)') \in Nat
    BY <2>2, FS_CardinalityType
  <2> QED  BY <1>1, <1>2, <2>1, <2>2, <2>3
<1>4. CASE Thins
  <2>1. Standing(x)' \subseteq Standing(x)
    BY <1>4 DEF Thins, Standing
  <2>2. raced' = raced /\ Len(bookings') = Len(bookings)
    BY <1>4 DEF Thins
  <2> QED  BY <1>3, <2>1, <2>2
<1>5. CASE Gains
  <2>1. PICK s \in Slots, by \in {"desk", "import"}, n \in Nat :
          /\ Lands(s, by, n)
          /\ \/ \E r \in Requests : PostLands(r) /\ s = req[r].at /\ n = req[r].asOf
             \/ \E p \in adrift : s = p.at /\ n = p.asOf
    BY <1>5 DEF Gains
  <2>2. /\ Len(bookings') = Len(bookings) + 1
        /\ \A i \in 1..Len(bookings) : bookings'[i] = bookings[i]
        /\ bookings'[Len(bookings) + 1].at = s
        /\ DOMAIN bookings' = 1..(Len(bookings) + 1)
    <3>1. /\ Len(bookings') = Len(bookings) + 1
          /\ \A i \in 1..Len(bookings) : bookings'[i] = bookings[i]
          /\ bookings'[Len(bookings) + 1] =
               Booking(s, TRUE, TRUE, TRUE, by, NewQuantity, NewPlan)
      BY <1>1, <2>1, LandsAppends
    <3> QED  BY <1>5, <3>1, GainsBooking DEF Booking
  <2>3. /\ raced \subseteq raced' /\ Len(bookings) <= ListLimit
        /\ s \notin raced' => \A i \in DOMAIN bookings : bookings[i].at = s => ~ i > n
    BY <1>1, <2>1, <2>2 DEF Lands
  <2>4. CASE x # s
    <3>1. Standing(x)' \subseteq Standing(x)
      BY <1>1, <2>2, <2>4 DEF Standing
    <3> QED  BY <1>3, <2>3, <3>1
  <2>5. CASE x = s
    <3>1. Cardinality(Upto(bookings, s, n)) < Capacity[s]
      BY <2>1, <2>3 DEF ReadingHolds, PostLands
    <3>2. \A i \in DOMAIN bookings : bookings[i].at = s => i <= n
      BY <1>1, <2>3, <2>5
    <3>3. Standing(s) = Upto(bookings, s, n)
      BY <3>2 DEF Standing, Upto
    <3>4. Standing(s)' \subseteq Standing(s) \cup {Len(bookings) + 1}
      BY <1>1, <2>2 DEF Standing
    <3>5. Len(bookings) + 1 \notin Standing(s)
      BY <1>1 DEF Standing
    <3>6. /\ IsFiniteSet(Standing(s) \cup {Len(bookings) + 1})
          /\ Cardinality(Standing(s) \cup {Len(bookings) + 1}) = Cardinality(Standing(s)) + 1
      BY <1>2, <2>5, <3>5, FS_AddElement
    <3>7. /\ IsFiniteSet(Standing(s)')
          /\ Cardinality(Standing(s)') <= Cardinality(Standing(s) \cup {Len(bookings) + 1})
      BY <3>4, <3>6, FS_Subset
    <3>8. Cardinality(Standing(s)') \in Nat
      BY <3>7, FS_CardinalityType
    <3> QED  BY <1>1, <1>2, <2>5, <3>1, <3>3, <3>6, <3>7, <3>8
  <2> QED  BY <2>4, <2>5
<1> QED  BY <1>4, <1>5, EveryBooking

\* A tee time never holds more groups than it may send out, older manual-slot
\* bookings included, as long as Field's listing holds every booking and no
\* POST landed there on a reading older than another landing: for any number
\* of desks, tee times and bookings, cancellations and late POSTs included.
THEOREM NeverOversold == Spec => []NotOversold
<1>1. Init => ReadingHolds
  BY IdleTyped DEF Init, ReadingHolds
<1>2. Init => NotOversold
  <2> SUFFICES ASSUME Init, NEW s \in Slots PROVE Cardinality(Standing(s)) <= Capacity[s]
    BY DEF NotOversold
  <2>1. Standing(s) = {i \in DOMAIN Legacy : Legacy[i] = s}
    BY DEF Init, Standing, Booking
  <2> QED  BY <2>1, LegacyAssumption
<1>3. TypeOK /\ ToldTogether /\ SoldInv /\ [Next]_vars => SoldInv'
  BY ReadingStep, SoldStep DEF SoldInv
<1>4. Init => SoldInv
  BY <1>1, <1>2 DEF SoldInv
<1>5. SoldInv => NotOversold
  BY DEF SoldInv
<1> QED  BY <1>3, <1>4, <1>5, TypesHold, PTL DEF Spec

-----------------------------------------------------------------------------
(* The paper ledger: the import finds its earlier groups again, because no *)
(* booking loses its course and the request under way knows every tee time *)
(* an import has booked, but for those where a POST landed adrift.         *)

CourseKept ==
  /\ \A i \in DOMAIN bookings : bookings[i].course
  /\ \A e \in Editors : edit[e].kind = "party" => edit[e].val

Imported(s) == {i \in Standing(s) : bookings[i].by = "import"}

\* Tee times the import's request knows to have a group.
KnownTimes ==
  req[Import].seen \cup req[Import].claimed
    \cup {s \in Slots : req[Import].pc = "landed" /\ s = req[Import].at}

Known ==
  /\ Len(bookings) <= ListLimit /\ req[Import].pc # "idle" =>
       \A s \in Slots \ late : Imported(s) # {} => s \in KnownTimes
  /\ req[Import].pc \in {"mark", "read", "post"} =>
       req[Import].at \notin req[Import].seen \cup req[Import].claimed

ImportInv == CourseKept /\ Known /\ BookedOnce

LEMMA CourseStep ==
  ASSUME TypeOK, CourseKept, [Next]_vars
  PROVE  CourseKept'
<1>1. StockOK /\ EditsOK /\ bookings \in Seq(BookingType)
  BY TypeParts, BookingsLen
<1>2. ASSUME UNCHANGED <<bookings, edit>> PROVE CourseKept'
  BY <1>2 DEF CourseKept
<1>3. ASSUME Gains PROVE CourseKept'
  <2>1. UNCHANGED edit
    BY <1>3 DEF Gains
  <2>2. /\ \A i \in DOMAIN bookings : bookings'[i] = bookings[i]
        /\ \A i \in DOMAIN bookings' \ DOMAIN bookings : i = Len(bookings) + 1
        /\ bookings'[Len(bookings) + 1].course
    BY <1>3, GainsBooking
  <2> QED  BY <2>1, <2>2 DEF CourseKept
<1>4. ASSUME NEW r \in Requests, PostLands(r) PROVE CourseKept'
  <2>1. Len(bookings') = Len(bookings) + 1 /\ Len(bookings) \in Nat
    BY <1>1, <1>4, TypeParts, PostLandsRequests
  <2> QED  BY <1>3, <2>1, EveryBooking DEF Thins
<1>5. ASSUME NEW p \in adrift, LateLanding(p) PROVE CourseKept'
  <2>1. PICK s \in Slots, by \in {"desk", "import"}, n \in Nat : Lands(s, by, n)
    <3>1. p \in PostType
      BY DEF TypeOK
    <3> QED  BY <1>5, <3>1 DEF LateLanding, PostType
  <2>2. Len(bookings') = Len(bookings) + 1 /\ Len(bookings) \in Nat
    BY <1>1, <2>1, LandsAppends
  <2> QED  BY <1>3, <2>2, EveryBooking DEF Thins
<1>6. ASSUME NEW i \in DOMAIN bookings, Cancel(i) PROVE CourseKept'
  <2>1. /\ DOMAIN bookings' = DOMAIN bookings /\ UNCHANGED edit
        /\ \A j \in DOMAIN bookings : j # i => bookings'[j] = bookings[j]
        /\ bookings'[i] = [bookings[i] EXCEPT !.live = FALSE]
    BY <1>1, <1>6, CancelKeeps DEF Cancel
  <2>2. bookings[i] \in BookingType
    BY <1>1
  <2>3. bookings'[i].course = bookings[i].course
    BY <2>1, <2>2 DEF BookingType
  <2> QED  BY <2>1, <2>3 DEF CourseKept
<1>7. ASSUME NEW e \in Editors, NEW i \in DOMAIN bookings, NEW q \in Quantities,
             UpdateBooking(e, i, q)
      PROVE  CourseKept'
  <2>1. q \in Nat /\ Sent(e, "quantity", i, q)
    BY <1>7, PlansAssumption DEF UpdateBooking
  <2>2. /\ \A f \in Editors \ {e} : edit'[f] = edit[f]
        /\ edit'[e].kind = "quantity"
    BY <1>1, <2>1, SentEdits
  <2>3. UNCHANGED bookings
    BY <2>1 DEF Sent
  <2> QED  BY <2>2, <2>3 DEF CourseKept
<1>8. ASSUME NEW e \in Editors, NEW i \in DOMAIN bookings, NEW p \in Plans,
             ChangePlan(e, i, p)
      PROVE  CourseKept'
  <2>1. Sent(e, "plan", i, p)
    BY <1>8 DEF ChangePlan
  <2>2. /\ \A f \in Editors \ {e} : edit'[f] = edit[f]
        /\ edit'[e].kind = "plan"
    BY <1>1, <2>1, SentEdits
  <2>3. UNCHANGED bookings
    BY <2>1 DEF Sent
  <2> QED  BY <2>2, <2>3 DEF CourseKept
<1>9. ASSUME NEW e \in Editors, NEW i \in DOMAIN bookings, UpdateParty(e, i)
      PROVE  CourseKept'
  <2>1. Sent(e, "party", i, bookings[i].course) /\ bookings[i].course \in BOOLEAN
    <3>1. bookings[i] \in BookingType
      BY <1>1
    <3> QED  BY <1>9, <3>1 DEF UpdateParty, BookingType
  <2>2. /\ \A f \in Editors \ {e} : edit'[f] = edit[f]
        /\ edit'[e].val = bookings[i].course
    BY <1>1, <2>1, SentEdits
  <2>3. UNCHANGED bookings
    BY <2>1 DEF Sent
  <2> QED  BY <2>2, <2>3 DEF CourseKept
<1>10. ASSUME NEW e \in Editors, Patched(e) PROVE CourseKept'
  <2>1. /\ DOMAIN bookings' = DOMAIN bookings /\ edit[e].b \in DOMAIN bookings
        /\ \A j \in DOMAIN bookings : j # edit[e].b => bookings'[j] = bookings[j]
        /\ bookings'[edit[e].b].course = IF edit[e].kind = "party" THEN edit[e].val
                                         ELSE bookings[edit[e].b].course
    BY <1>1, <1>10, PatchedKeeps
  <2>2. /\ edit'[e].kind = "none"
        /\ \A f \in Editors \ {e} : edit'[f].kind = edit[f].kind /\ edit'[f].val = edit[f].val
    BY <1>1, <1>10, PatchedEdits
  <2>3. \A i \in DOMAIN bookings' : bookings'[i].course
    BY <1>10, <2>1 DEF CourseKept
  <2> QED  BY <2>2, <2>3 DEF CourseKept
<1>11. ASSUME NEW e \in Editors, PatchLost(e) PROVE CourseKept'
  <2>1. /\ edit'[e].kind = "none" /\ \A f \in Editors \ {e} : edit'[f] = edit[f]
    BY <1>1, <1>11, PatchLostEdits
  <2>2. UNCHANGED bookings
    BY <1>11 DEF PatchLost
  <2> QED  BY <2>1, <2>2 DEF CourseKept
<1>12. ASSUME NEW d \in Desks, NEW s \in Slots, TakeCall(d, s) PROVE CourseKept'
  BY <1>2, <1>12 DEF TakeCall
<1>13. ASSUME NEW r \in Requests,
              \/ CheckMark(r) \/ ReadSlot(r) \/ ReadBoard(r) \/ EnsureAvailable(r)
              \/ PostRefused(r) \/ Answered(r) \/ GivenUp(r)
       PROVE  CourseKept'
  BY <1>2, <1>13 DEF CheckMark, ReadSlot, ReadBoard, EnsureAvailable, PostRefused,
                     Answered, GivenUp
<1>14. ASSUME NEW p \in adrift, LateLost(p) PROVE CourseKept'
  BY <1>2, <1>14 DEF LateLost
<1>15. ASSUME SendImport \/ Prepare \/ ImportAnswered PROVE CourseKept'
  BY <1>2, <1>15 DEF SendImport, Prepare, ImportAnswered
<1>16. ASSUME NEW band \in SUBSET Slots, UpsertMarks(band) \/ DeleteMarks(band)
       PROVE  CourseKept'
  BY <1>2, <1>16 DEF UpsertMarks, DeleteMarks
<1>17. ASSUME UNCHANGED vars PROVE CourseKept'
  BY <1>2, <1>17 DEF vars
<1> QED  BY <1>4, <1>5, <1>6, <1>7, <1>8, <1>9, <1>10, <1>11, <1>12, <1>13, <1>14, <1>15,
            <1>16, <1>17 DEF Next, Step

\* Only the import's own POST gives a tee time an import's group, unless it
\* lands adrift.
LEMMA ImportedGrows ==
  ASSUME TypeOK, [Next]_vars, NEW x \in Slots \ late'
  PROVE  /\ x \notin late
         /\ \/ Imported(x)' \subseteq Imported(x)
            \/ /\ PostLands(Import) /\ x = req[Import].at
               /\ Imported(x)' \subseteq Imported(x) \cup {Len(bookings) + 1}
<1>1. /\ bookings \in Seq(BookingType) /\ Len(bookings) \in Nat /\ StockOK
      /\ DOMAIN bookings = 1..Len(bookings)
  BY TypeParts, BookingsLen
<1>2. CASE Thins
  <2>1. late' = late /\ Imported(x)' \subseteq Imported(x)
    BY <1>2 DEF Thins, Imported, Standing
  <2> QED  BY <2>1
<1>3. CASE Gains
  <2>1. PICK s \in Slots, by \in {"desk", "import"}, n \in Nat :
          /\ Lands(s, by, n)
          /\ \/ \E r \in Requests : /\ PostLands(r) /\ s = req[r].at
                                    /\ by = "import" => r = Import
                                    /\ UNCHANGED late
             \/ late' = late \cup {s}
    BY <1>3 DEF Gains
  <2>2. /\ \A i \in 1..Len(bookings) : bookings'[i] = bookings[i]
        /\ bookings'[Len(bookings) + 1].at = s
        /\ bookings'[Len(bookings) + 1].by = by
        /\ DOMAIN bookings' = 1..(Len(bookings) + 1)
    <3>1. /\ \A i \in 1..Len(bookings) : bookings'[i] = bookings[i]
          /\ bookings'[Len(bookings) + 1] =
               Booking(s, TRUE, TRUE, TRUE, by, NewQuantity, NewPlan)
      BY <1>1, <2>1, LandsAppends
    <3> QED  BY <1>3, <3>1, GainsBooking DEF Booking
  <2>3. x \notin late
    BY <2>1
  <2>4. Imported(x)' \subseteq Imported(x) \cup {Len(bookings) + 1}
    BY <1>1, <2>2 DEF Imported, Standing
  <2>5. x # s \/ by # "import" => Imported(x)' \subseteq Imported(x)
    BY <1>1, <2>2 DEF Imported, Standing
  <2> QED  BY <2>1, <2>3, <2>4, <2>5
<1> QED  BY <1>2, <1>3, EveryBooking

LEMMA KnownStep ==
  ASSUME TypeOK, ToldTogether, CourseKept, Known, [Next]_vars
  PROVE  Known'
<1>1. /\ bookings \in Seq(BookingType) /\ Len(bookings) \in Nat /\ Import \in Requests
      /\ StockOK /\ RequestsOK /\ ListLimit \in Nat
  BY TypeParts, BookingsLen, BoundsAssumption DEF Requests
<1>2. Moves(Import)
  BY <1>1, EveryMove
<1>3. ASSUME req'[Import].pc \in {"mark", "read", "post"}
      PROVE  req'[Import].at \notin req'[Import].seen \cup req'[Import].claimed
  BY <1>2, <1>3 DEF Known, Moves, Stays, Begins, Proceeds, Looks, Rests
<1>4. ASSUME Len(bookings') <= ListLimit, req'[Import].pc # "idle",
             NEW x \in Slots \ late', Imported(x)' # {}
      PROVE  x \in KnownTimes'
  <2>1. Len(bookings) <= ListLimit
    <3>1. Len(bookings') = Len(bookings) \/ Len(bookings') = Len(bookings) + 1
      BY EveryBooking, GainsBooking DEF Thins
    <3> QED  BY <1>1, <1>4, <3>1
  <2>2. x \notin late /\ (Imported(x) # {} \/ (PostLands(Import) /\ x = req[Import].at))
    BY <1>4, ImportedGrows
  <2>3. CASE PostLands(Import) /\ x = req[Import].at
    <3>1. /\ req'[Import] = [req[Import] EXCEPT !.pc = "landed"]
          /\ req[Import] \in RequestType
      BY <1>1, <2>3, PostLandsRequests DEF RequestsOK
    <3>2. req'[Import].pc = "landed" /\ req'[Import].at = req[Import].at
      BY <3>1 DEF RequestType
    <3> QED  BY <2>3, <3>2 DEF KnownTimes
  <2>4. CASE Imported(x) # {} /\ req[Import].pc = "idle"
    <3>1. UNCHANGED bookings /\ req'[Import].seen = BookedTimes
      BY <1>2, <1>4, <2>4, <1>1 DEF Moves, Stays, Begins, Proceeds, Looks, Rests
    <3>2. PICK i \in Standing(x) : TRUE
      BY <2>4 DEF Imported
    <3>3. OnBoard(x) = Standing(x)
      BY <1>1, <2>1, BoardIsWhole
    <3>4. i \in OnBoard(x) /\ bookings[i].course
      BY <3>2, <3>3 DEF Standing, CourseKept
    <3>5. x \in BookedTimes
      BY <3>4 DEF BookedTimes
    <3> QED  BY <3>1, <3>5 DEF KnownTimes
  <2>5. CASE Imported(x) # {} /\ req[Import].pc # "idle"
    <3>1. x \in KnownTimes
      BY <2>1, <2>2, <2>5 DEF Known
    <3>2. CASE Stays(Import)
      BY <3>1, <3>2 DEF Stays, KnownTimes
    <3>3. CASE Begins(Import)
      BY <3>1, <3>3 DEF Begins, KnownTimes
    <3>4. CASE Proceeds(Import)
      BY <3>1, <3>4 DEF Proceeds, KnownTimes
    <3>5. CASE Looks(Import)
      BY <3>1, <3>5 DEF Looks, KnownTimes
    <3>6. CASE Rests(Import)
      <4>1. req'[Import].pc = "turn"
        BY <1>4, <3>6 DEF Rests
      <4> QED  BY <2>5, <3>1, <3>6, <4>1 DEF Rests, KnownTimes
    <3> QED  BY <1>2, <3>2, <3>3, <3>4, <3>5, <3>6 DEF Moves
  <2> QED  BY <2>2, <2>3, <2>4, <2>5
<1> QED  BY <1>3, <1>4 DEF Known

LEMMA OnceStep ==
  ASSUME TypeOK, Known, BookedOnce, [Next]_vars
  PROVE  BookedOnce'
<1> SUFFICES ASSUME Len(bookings') <= ListLimit, NEW x \in Slots \ late'
             PROVE  Cardinality(Imported(x)') <= 1
  BY DEF BookedOnce, Imported
<1>1. /\ bookings \in Seq(BookingType) /\ Len(bookings) \in Nat /\ ListLimit \in Nat
      /\ RequestsOK
  BY TypeParts, BookingsLen, BoundsAssumption
<1>2. Len(bookings) <= ListLimit
  <2>1. Len(bookings') = Len(bookings) \/ Len(bookings') = Len(bookings) + 1
    BY EveryBooking, GainsBooking DEF Thins
  <2> QED  BY <1>1, <2>1
<1>3. x \notin late
  BY ImportedGrows
<1>4. IsFiniteSet(Imported(x)) /\ Cardinality(Imported(x)) \in Nat
  <2>1. Imported(x) \subseteq DOMAIN bookings
    BY DEF Imported, Standing
  <2> QED  BY <1>1, <2>1, BookingsFinite
<1>5. CASE Imported(x)' \subseteq Imported(x)
  <2>1. Cardinality(Imported(x)) <= 1
    BY <1>2, <1>3 DEF BookedOnce, Imported
  <2>2. IsFiniteSet(Imported(x)') /\ Cardinality(Imported(x)') <= Cardinality(Imported(x))
    BY <1>4, <1>5, FS_Subset
  <2>3. Cardinality(Imported(x)') \in Nat
    BY <2>2, FS_CardinalityType
  <2> QED  BY <1>4, <2>1, <2>2, <2>3
<1>6. CASE /\ PostLands(Import) /\ x = req[Import].at
           /\ Imported(x)' \subseteq Imported(x) \cup {Len(bookings) + 1}
  <2>1. req[Import].pc = "post"
    BY <1>6 DEF PostLands
  <2>2. x \notin KnownTimes
    BY <1>6, <2>1 DEF Known, KnownTimes
  <2>3. Imported(x) = {}
    BY <1>2, <1>3, <2>1, <2>2 DEF Known
  <2>4. Imported(x)' \subseteq {Len(bookings) + 1}
    BY <1>6, <2>3
  <2>5. IsFiniteSet({Len(bookings) + 1}) /\ Cardinality({Len(bookings) + 1}) = 1
    BY FS_Singleton
  <2>6. IsFiniteSet(Imported(x)') /\ Cardinality(Imported(x)') <= 1
    BY <2>4, <2>5, FS_Subset
  <2> QED  BY <2>6
<1> QED  BY <1>5, <1>6, ImportedGrows

\* However often the paper ledger is sent, and wherever an answer was lost, a
\* tee time gets one group from it, unless the POST of a request given up
\* landed behind the next sending's back: for any sheet, any number of desks
\* and any corrections of the bookings meanwhile.
THEOREM BookedAtMostOnce == Spec => []BookedOnce
<1>1. Init => ImportInv
  <2> SUFFICES ASSUME Init PROVE ImportInv
    OBVIOUS
  <2>1. \A i \in DOMAIN bookings : bookings[i].course /\ bookings[i].by = "legacy"
    BY DEF Init, Booking
  <2>2. \A s \in Slots : Imported(s) = {}
    BY <2>1 DEF Imported, Standing
  <2>3. \A e \in Editors : edit[e].kind = "none"
    BY NoEditTyped DEF Init
  <2>4. req[Import].pc = "idle"
    BY IdleTyped DEF Init, Requests
  <2>5. BookedOnce
    BY <2>2, FS_EmptySet DEF BookedOnce, Imported
  <2> QED  BY <2>1, <2>3, <2>4, <2>5 DEF ImportInv, CourseKept, Known
<1>2. TypeOK /\ ToldTogether /\ ImportInv /\ [Next]_vars => ImportInv'
  BY CourseStep, KnownStep, OnceStep DEF ImportInv
<1>3. ImportInv => BookedOnce
  BY DEF ImportInv
<1> QED  BY <1>1, <1>2, <1>3, TypesHold, PTL DEF Spec

-----------------------------------------------------------------------------
(***************************************************************************)
(* How far ahead tee times are on sale: TeeInventory.  A watermark is      *)
(* honest because three things the requests carry along are honest: the    *)
(* watermarks a ledger read saw, the edge it is about to file, and the day *)
(* it took for today, which never lies ahead of the clock.                 *)
(***************************************************************************)

\* A request's own today is not ahead of the clock.
DaysArePast ==
  /\ \A d \in Readers : ledger[d].day <= today
  /\ save.day <= today /\ move.day <= today

\* The watermarks a ledger read saw still hold.
SeenIsBuilt ==
  \A d \in Readers : ledger[d].pc \in {"horizon", "top", "mark"} =>
    \A c \in Courses : \A x \in today..ledger[d].seen[c] : x \in Days(c)

\* Whoever is about to file a watermark has had its days built.
AboutToMark ==
  /\ \A d \in Readers : ledger[d].pc = "mark" =>
       \A x \in today..ledger[d].edge : x \in Days(ledger[d].at)
  /\ save.pc = "mark" => \A x \in today..save.edge : x \in Days(save.at)
  /\ move.pc = "mark" => \A x \in today..move.edge : x \in Days(move.at)

\* What a sync is about to put back is the week that was saved, where a save
\* has a claim.
ReadingIsSaved ==
  /\ \A d \in Readers : ledger[d].pc = "put" /\ saved[ledger[d].at] # 0
       => ledger[d].wk = saved[ledger[d].at]
  /\ \A p \in strays : saved[p.at] # 0 => p.wk = saved[p.at]

WeekInv == SavedWeekStands /\ ReadingIsSaved

InventoryInv == InventoryTypeOK /\ DaysArePast /\ SeenIsBuilt /\ AboutToMark
                /\ WatermarkIsBuilt

-----------------------------------------------------------------------------
\* The edge of a horizon is a day.
LEMMA LastBookableIsDay ==
  ASSUME NEW h \in Horizons, NEW t \in Nat
  PROVE  LastBookable(h, t) \in Nat
<1>1. h.n \in Nat /\ MaxSpan \in Nat
  BY HorizonsAssumption, SpansAssumption DEF Horizon
<1> QED  BY <1>1 DEF LastBookable

\* What Field is told is a number.
LEMMA FieldDaysIsNat == ASSUME NEW h \in Horizons PROVE FieldDays(h) \in Nat
BY HorizonsAssumption DEF Horizon, FieldDays

\* The days on sale are those Field has built.
LEMMA SameDays == ASSUME UNCHANGED built PROVE \A c \in Courses : Days(c)' = Days(c)
BY DEF Days

\* Building takes no day off sale, and puts on sale those of its range.
LEMMA MoreDays ==
  ASSUME built \in [Courses -> SUBSET (Nat \X Nat)], NEW c \in Courses, NEW a, NEW b,
         built' = [built EXCEPT ![c] = {x \in @ : x[1] \notin a..b} \cup ((a..b) \X {week[c]})]
  PROVE  /\ \A cc \in Courses : Days(cc) \subseteq Days(cc)'
         /\ a..b \subseteq Days(c)'
<1>1. ASSUME NEW cc \in Courses, NEW x \in Days(cc) PROVE x \in Days(cc)'
  <2>1. PICK y \in built[cc] : x = y[1]
    BY <1>1 DEF Days
  <2>2. CASE y \in built'[cc]
    BY <2>1, <2>2 DEF Days
  <2>3. CASE y \notin built'[cc]
    <3>1. cc = c /\ y[1] \in a..b
      BY <2>1, <2>3
    <3>2. <<x, week[c]>> \in built'[c]
      BY <2>1, <3>1
    <3> QED  BY <3>1, <3>2 DEF Days
  <2> QED  BY <2>2, <2>3
<1>2. ASSUME NEW x \in a..b PROVE x \in Days(c)'
  <2>1. <<x, week[c]>> \in built'[c]
    BY <1>2
  <2> QED  BY <2>1 DEF Days
<1> QED  BY <1>1, <1>2

\* The first state.
LEMMA InventoryStart == InventoryInit => InventoryInv
<1> SUFFICES ASSUME InventoryInit PROVE InventoryInv
  OBVIOUS
<1>1. InventoryTypeOK
  BY HorizonsAssumption DEF InventoryInit, InventoryTypeOK, Away, Ledger, NoMarks, NoTask,
     Task
<1>2. DaysArePast /\ SeenIsBuilt /\ AboutToMark
  BY DEF InventoryInit, DaysArePast, SeenIsBuilt, AboutToMark, Away, Ledger, NoTask, Task
<1>3. WatermarkIsBuilt
  BY DEF InventoryInit, WatermarkIsBuilt
<1> QED  BY <1>1, <1>2, <1>3 DEF InventoryInv

\* Every step keeps the types.
LEMMA InventoryTypes == InventoryTypeOK /\ [InventoryNext]_inventoryVars => InventoryTypeOK'
<1> SUFFICES ASSUME InventoryTypeOK, [InventoryNext]_inventoryVars PROVE InventoryTypeOK'
  OBVIOUS
<1>1. ASSUME Midnight PROVE InventoryTypeOK'
  BY <1>1 DEF Midnight, InventoryTypeOK, office
<1>2. ASSUME NEW d \in Readers, OpenLedger(d) PROVE InventoryTypeOK'
  BY <1>2, FieldDaysIsNat DEF OpenLedger, InventoryTypeOK, office, Ledger, NoMarks
<1>3. ASSUME NEW d \in Readers, ReadHorizon(d) PROVE InventoryTypeOK'
  BY <1>3, LastBookableIsDay DEF ReadHorizon, InventoryTypeOK, office, Ledger
<1>4. ASSUME NEW d \in Readers, Mark(d) PROVE InventoryTypeOK'
  BY <1>4 DEF Mark, InventoryTypeOK, office, Ledger, SetWatermark
<1>5. ASSUME NEW d \in Readers, MarkFails(d) PROVE InventoryTypeOK'
  BY <1>5 DEF MarkFails, InventoryTypeOK, office, Ledger
<1>6. ASSUME NEW d \in Readers, StartSync(d) PROVE InventoryTypeOK'
  BY <1>6, FieldDaysIsNat DEF StartSync, InventoryTypeOK, office, Ledger, NoMarks
<1>7. ASSUME NEW d \in Readers, PutSchedule(d) PROVE InventoryTypeOK'
  BY <1>7 DEF PutSchedule, HoldWeek, InventoryTypeOK, office, Ledger, NoMarks
<1>8. ASSUME NEW d \in Readers, CloseLedger(d) PROVE InventoryTypeOK'
  BY <1>8 DEF CloseLedger, InventoryTypeOK, office, Ledger, Away, NoMarks
<1>9. ASSUME NEW d \in Readers, NEW c \in Courses, Skip(d, c) PROVE InventoryTypeOK'
  BY <1>9 DEF Skip, InventoryTypeOK, office, Ledger
<1>10. ASSUME NEW d \in Readers, NEW c \in Courses, TopUp(d, c) PROVE InventoryTypeOK'
  <2>1. Resume(ledger[d].seen[c], ledger[d].day) \in Nat /\ ledger[d].edge \in Nat
    BY DEF InventoryTypeOK, Resume
  <2>2. built' \in [Courses -> SUBSET (Nat \X Nat)]
    BY <1>10, <2>1 DEF TopUp, Generate, InventoryTypeOK
  <2> QED  BY <1>10, <2>2 DEF TopUp, InventoryTypeOK, office, Ledger
<1>11. ASSUME NEW d \in Readers, NEW c \in Courses, TopUpFails(d, c) PROVE InventoryTypeOK'
  BY <1>11 DEF TopUpFails, InventoryTypeOK, office, Ledger
<1>12. ASSUME NEW d \in Readers, NEW c \in Courses, ReadSchedule(d, c)
       PROVE  InventoryTypeOK'
  BY <1>12 DEF ReadSchedule, InventoryTypeOK, office, Ledger, NoMarks
<1>13. ASSUME Store PROVE InventoryTypeOK'
  BY <1>13, LastBookableIsDay, FieldDaysIsNat, HorizonsAssumption DEF Store,
     HoldWeek, InventoryTypeOK, office, Task, NoTask
<1>14. ASSUME StoreBlind PROVE InventoryTypeOK'
  BY <1>14, HorizonsAssumption DEF StoreBlind, HoldWeek, InventoryTypeOK, office, Task, NoTask
<1>15. ASSUME SaveBuilds PROVE InventoryTypeOK'
  BY <1>15, HorizonsAssumption DEF SaveBuilds, InventoryTypeOK, office, Generate, Task,
     NoTask
<1>16. ASSUME SaveMarks PROVE InventoryTypeOK'
  BY <1>16, HorizonsAssumption DEF SaveMarks, InventoryTypeOK, office, SetWatermark, Task,
     NoTask
<1>17. ASSUME SaveFails PROVE InventoryTypeOK'
  BY <1>17, HorizonsAssumption DEF SaveFails, InventoryTypeOK, office, Task, NoTask
<1>18. ASSUME RebuildMarks PROVE InventoryTypeOK'
  BY <1>18, HorizonsAssumption DEF RebuildMarks, InventoryTypeOK, office, SetWatermark,
     Task, NoTask
<1>19. ASSUME RebuildMarkFails PROVE InventoryTypeOK'
  BY <1>19, HorizonsAssumption DEF RebuildMarkFails, InventoryTypeOK, office, Task, NoTask
<1>20. ASSUME MoveEnds PROVE InventoryTypeOK'
  BY <1>20, HorizonsAssumption DEF MoveEnds, InventoryTypeOK, office, Task, NoTask
<1>21. ASSUME NEW c \in Courses, Rebuild(c) PROVE InventoryTypeOK'
  BY <1>21, HorizonsAssumption DEF Rebuild, InventoryTypeOK, office, Generate, Task, NoTask
<1>22. ASSUME NEW c \in Courses, RebuildFails(c) PROVE InventoryTypeOK'
  BY <1>22, HorizonsAssumption DEF RebuildFails, InventoryTypeOK, office, Task, NoTask
<1>23. ASSUME NEW c \in Courses, NEW pc \in {"store", "blind"}, Save(c, pc)
       PROVE  InventoryTypeOK'
  BY <1>23, HorizonsAssumption DEF Save, InventoryTypeOK, office, Task, NoTask
<1>24. ASSUME NEW h \in Horizons, MoveHorizon(h) PROVE InventoryTypeOK'
  <2>1. today \in Nat /\ LastBookable(h, today) \in Nat
    BY LastBookableIsDay DEF InventoryTypeOK
  <2> QED  BY <1>24, <2>1 DEF MoveHorizon, InventoryTypeOK, Task
<1>25. ASSUME NEW c \in Courses, NEW r \in Ranges, GenerateByHand(c, r[1], r[2])
       PROVE  InventoryTypeOK'
  BY <1>25, RangesAssumption DEF GenerateByHand, InventoryTypeOK, office, Generate
<1>27. ASSUME NEW d \in Readers, LeavePut(d) PROVE InventoryTypeOK'
  <2>1. Put(ledger[d].at, ledger[d].wk, ledger[d].edge, FALSE)
          \in [at : Courses, wk : Nat, edge : Nat, keeps : BOOLEAN]
    BY <1>27 DEF LeavePut, Put, InventoryTypeOK
  <2> QED  BY <1>27, <2>1 DEF LeavePut, Ledger, Away, NoMarks, InventoryTypeOK
<1>28. ASSUME NEW p \in strays, StrayPut(p) PROVE InventoryTypeOK'
  BY <1>28 DEF StrayPut, HoldWeek, InventoryTypeOK
<1>29. ASSUME StoreUnanswered PROVE InventoryTypeOK'
  <2>1. Put(save.at, saves, FieldDays(save.h), save.pc = "blind")
          \in [at : Courses, wk : Nat, edge : Nat, keeps : BOOLEAN]
    BY <1>29, FieldDaysIsNat DEF StoreUnanswered, Put, InventoryTypeOK
  <2>2. NoTask' = NoTask /\ NoTask \in [pc : {"none"}, at : {NoCourse}, todo : SUBSET Courses,
                                       h : Horizons, day : Nat, edge : Nat]
    BY HorizonsAssumption DEF NoTask, Task
  <2> QED  BY <1>29, <2>1, <2>2 DEF StoreUnanswered, InventoryTypeOK
<1>26. CASE UNCHANGED inventoryVars
  BY <1>26 DEF inventoryVars, office, InventoryTypeOK
<1> QED
  BY <1>1, <1>2, <1>3, <1>4, <1>5, <1>6, <1>7, <1>8, <1>9, <1>10, <1>11,
     <1>12, <1>13, <1>14, <1>15, <1>16, <1>17, <1>18, <1>19, <1>20, <1>21,
     <1>22, <1>23, <1>24, <1>25, <1>26, <1>27, <1>28, <1>29 DEF InventoryNext, LedgerStep, SaveStep,
     MoveStep

\* Every step keeps the promises requests carry along.
LEMMA BuiltStep ==
  InventoryInv /\ InventoryTypeOK' /\ [InventoryNext]_inventoryVars =>
    (DaysArePast /\ SeenIsBuilt /\ AboutToMark /\ WatermarkIsBuilt)'
<1> DEFINE Built == DaysArePast /\ SeenIsBuilt /\ AboutToMark /\ WatermarkIsBuilt
<1> SUFFICES ASSUME InventoryTypeOK, DaysArePast, SeenIsBuilt, AboutToMark, WatermarkIsBuilt,
                    InventoryTypeOK', [InventoryNext]_inventoryVars
             PROVE  Built'
  BY DEF InventoryInv
<1>1. ASSUME Midnight PROVE Built'
  BY <1>1, SameDays DEF Midnight, InventoryTypeOK, office, DaysArePast, SeenIsBuilt,
     AboutToMark, WatermarkIsBuilt
<1>2. ASSUME NEW d \in Readers, OpenLedger(d) PROVE Built'
  BY <1>2, SameDays, FieldDaysIsNat DEF OpenLedger, InventoryTypeOK, office, Ledger, NoMarks,
     DaysArePast, SeenIsBuilt, AboutToMark, WatermarkIsBuilt
<1>3. ASSUME NEW d \in Readers, ReadHorizon(d) PROVE Built'
  BY <1>3, SameDays, LastBookableIsDay DEF ReadHorizon, InventoryTypeOK, office, Ledger,
     DaysArePast, SeenIsBuilt, AboutToMark, WatermarkIsBuilt
<1>4. ASSUME NEW d \in Readers, Mark(d) PROVE Built'
  BY <1>4, SameDays DEF Mark, InventoryTypeOK, office, Ledger, SetWatermark, DaysArePast,
     SeenIsBuilt, AboutToMark, WatermarkIsBuilt
<1>5. ASSUME NEW d \in Readers, MarkFails(d) PROVE Built'
  BY <1>5, SameDays DEF MarkFails, InventoryTypeOK, office, Ledger, DaysArePast, SeenIsBuilt,
     AboutToMark, WatermarkIsBuilt
<1>6. ASSUME NEW d \in Readers, StartSync(d) PROVE Built'
  BY <1>6, SameDays, FieldDaysIsNat DEF StartSync, InventoryTypeOK, office, Ledger, NoMarks,
     DaysArePast, SeenIsBuilt, AboutToMark, WatermarkIsBuilt
<1>7. ASSUME NEW d \in Readers, PutSchedule(d) PROVE Built'
  BY <1>7, SameDays DEF PutSchedule, HoldWeek, InventoryTypeOK, office, Ledger, NoMarks,
     DaysArePast, SeenIsBuilt, AboutToMark, WatermarkIsBuilt
<1>8. ASSUME NEW d \in Readers, CloseLedger(d) PROVE Built'
  BY <1>8, SameDays DEF CloseLedger, InventoryTypeOK, office, Ledger, Away, NoMarks,
     DaysArePast, SeenIsBuilt, AboutToMark, WatermarkIsBuilt
<1>9. ASSUME NEW d \in Readers, NEW c \in Courses, Skip(d, c) PROVE Built'
  BY <1>9, SameDays DEF Skip, InventoryTypeOK, office, Ledger, DaysArePast, SeenIsBuilt,
     AboutToMark, WatermarkIsBuilt
<1>10. ASSUME NEW d \in Readers, NEW c \in Courses, TopUp(d, c) PROVE Built'
  <2>1. /\ \A cc \in Courses : Days(cc) \subseteq Days(cc)'
        /\ Resume(ledger[d].seen[c], ledger[d].day)..ledger[d].edge \subseteq Days(c)'
    BY <1>10, MoreDays DEF TopUp, Generate, InventoryTypeOK
  <2>2. \A x \in today..ledger[d].edge : x \in Days(c)'
    <3>1. \A x \in today..ledger[d].seen[c] : x \in Days(c)
      BY <1>10 DEF TopUp, SeenIsBuilt
    <3>2. ledger[d].day <= today /\ today \in Nat /\ ledger[d].edge \in Nat
          /\ ledger[d].seen[c] \in Nat /\ ledger[d].day \in Nat
      BY DEF DaysArePast, InventoryTypeOK
    <3> QED  BY <2>1, <3>1, <3>2 DEF Resume
  <2>3. /\ ledger' = [ledger EXCEPT ![d] = Ledger("mark", ledger[d].day, ledger[d].seen,
                                      ledger[d].todo \ {c}, c, ledger[d].edge, 0)]
        /\ ledger[d].pc = "top"
        /\ UNCHANGED <<today, save, move, through>>
    BY <1>10 DEF TopUp, office
  <2> QED  BY <2>1, <2>2, <2>3 DEF InventoryTypeOK, Ledger, DaysArePast, SeenIsBuilt,
              AboutToMark, WatermarkIsBuilt
<1>11. ASSUME NEW d \in Readers, NEW c \in Courses, TopUpFails(d, c) PROVE Built'
  BY <1>11, SameDays DEF TopUpFails, InventoryTypeOK, office, Ledger, DaysArePast, SeenIsBuilt,
     AboutToMark, WatermarkIsBuilt
<1>12. ASSUME NEW d \in Readers, NEW c \in Courses, ReadSchedule(d, c) PROVE Built'
  BY <1>12, SameDays DEF ReadSchedule, InventoryTypeOK, office, Ledger, NoMarks, DaysArePast,
     SeenIsBuilt, AboutToMark, WatermarkIsBuilt
<1>13. ASSUME Store PROVE Built'
  <2>1. /\ UNCHANGED <<today, built, through, checked, ledger, move>>
        /\ save.pc = "store"
        /\ save' = IF LastBookable(save.h, today) < today THEN NoTask
                   ELSE Task("build", save.at, {}, save.h, today, LastBookable(save.h, today))
    BY <1>13 DEF Store
  <2>2. \A c \in Courses : Days(c)' = Days(c)
    BY <2>1, SameDays
  <2>3. save.h \in Horizons /\ save'.pc # "mark" /\ save'.day <= today
    BY <2>1, SpansAssumption, HorizonsAssumption DEF InventoryTypeOK, Task, NoTask
  <2> QED  BY <2>1, <2>2, <2>3 DEF InventoryTypeOK, DaysArePast, SeenIsBuilt, AboutToMark,
              WatermarkIsBuilt
<1>14. ASSUME StoreBlind PROVE Built'
  BY <1>14, SameDays, HorizonsAssumption DEF StoreBlind, HoldWeek, InventoryTypeOK, office,
     Task, NoTask, DaysArePast, SeenIsBuilt, AboutToMark, WatermarkIsBuilt
<1>15. ASSUME SaveBuilds PROVE Built'
  <2>1. /\ \A cc \in Courses : Days(cc) \subseteq Days(cc)'
        /\ \A cc \in Courses : cc = save.at => save.day..save.edge \subseteq Days(cc)'
    <3>1. save.at \in Courses
      BY <1>15 DEF SaveBuilds, InventoryTypeOK
    <3> QED  BY <1>15, <3>1, MoreDays DEF SaveBuilds, Generate, InventoryTypeOK
  <2>2. /\ save' = Task("mark", save.at, {}, save.h, save.day, save.edge)
        /\ save.at \in Courses
        /\ UNCHANGED <<today, ledger, move, through>>
    BY <1>15 DEF SaveBuilds, InventoryTypeOK
  <2>3. save'.at = save.at /\ save'.edge = save.edge /\ save'.day = save.day
    BY <2>2 DEF Task
  <2>4. DaysArePast' /\ SeenIsBuilt' /\ WatermarkIsBuilt'
    BY <2>1, <2>2, <2>3 DEF InventoryTypeOK, DaysArePast, SeenIsBuilt, WatermarkIsBuilt
  <2>5. save.day \in Nat /\ save.edge \in Nat /\ today \in Nat /\ save.day <= today
    BY DEF InventoryTypeOK, DaysArePast
  <2>6. today..save.edge \subseteq save.day..save.edge
    BY <2>5
  <2>7. \A x \in today'..save'.edge : x \in Days(save.at)'
    BY <2>1, <2>2, <2>3, <2>6
  <2> QED  BY <2>1, <2>2, <2>4, <2>7 DEF InventoryTypeOK, AboutToMark
<1>16. ASSUME SaveMarks PROVE Built'
  BY <1>16, SameDays, HorizonsAssumption DEF SaveMarks, InventoryTypeOK, office,
     SetWatermark, Task, NoTask, DaysArePast, SeenIsBuilt, AboutToMark, WatermarkIsBuilt
<1>17. ASSUME SaveFails PROVE Built'
  BY <1>17, SameDays, HorizonsAssumption DEF SaveFails, InventoryTypeOK, office, Task, NoTask,
     DaysArePast, SeenIsBuilt, AboutToMark, WatermarkIsBuilt
<1>18. ASSUME RebuildMarks PROVE Built'
  BY <1>18, SameDays, HorizonsAssumption DEF RebuildMarks, InventoryTypeOK, office,
     SetWatermark, Task, NoTask, DaysArePast, SeenIsBuilt, AboutToMark, WatermarkIsBuilt
<1>19. ASSUME RebuildMarkFails PROVE Built'
  BY <1>19, SameDays, HorizonsAssumption DEF RebuildMarkFails, InventoryTypeOK, office, Task,
     NoTask, DaysArePast, SeenIsBuilt, AboutToMark, WatermarkIsBuilt
<1>20. ASSUME MoveEnds PROVE Built'
  BY <1>20, SameDays, HorizonsAssumption DEF MoveEnds, InventoryTypeOK, office, Task, NoTask,
     DaysArePast, SeenIsBuilt, AboutToMark, WatermarkIsBuilt
<1>21. ASSUME NEW c \in Courses, Rebuild(c) PROVE Built'
  <2>1. /\ \A cc \in Courses : Days(cc) \subseteq Days(cc)'
        /\ move.day..move.edge \subseteq Days(c)'
    BY <1>21, MoreDays DEF Rebuild, Generate, InventoryTypeOK
  <2>2. /\ move' = Task("mark", c, move.todo \ {c}, move.h, move.day, move.edge)
        /\ UNCHANGED <<today, ledger, save, through>>
    BY <1>21 DEF Rebuild
  <2> QED  BY <2>1, <2>2 DEF InventoryTypeOK, Task, DaysArePast, SeenIsBuilt, AboutToMark,
              WatermarkIsBuilt
<1>22. ASSUME NEW c \in Courses, RebuildFails(c) PROVE Built'
  BY <1>22, SameDays, HorizonsAssumption DEF RebuildFails, InventoryTypeOK, office, Task,
     NoTask, DaysArePast, SeenIsBuilt, AboutToMark, WatermarkIsBuilt
<1>23. ASSUME NEW c \in Courses, NEW pc \in {"store", "blind"}, Save(c, pc) PROVE Built'
  BY <1>23, SameDays, HorizonsAssumption DEF Save, InventoryTypeOK, office, Task, NoTask,
     DaysArePast, SeenIsBuilt, AboutToMark, WatermarkIsBuilt
<1>24. ASSUME NEW h \in Horizons, MoveHorizon(h) PROVE Built'
  BY <1>24, SameDays, LastBookableIsDay, HorizonsAssumption DEF MoveHorizon, InventoryTypeOK,
     office, Task, NoTask, DaysArePast, SeenIsBuilt, AboutToMark, WatermarkIsBuilt
<1>25. ASSUME NEW c \in Courses, NEW r \in Ranges, GenerateByHand(c, r[1], r[2])
       PROVE  Built'
  <2>1. \A cc \in Courses : Days(cc) \subseteq Days(cc)'
    BY <1>25, MoreDays DEF GenerateByHand, Generate, InventoryTypeOK
  <2> QED  BY <1>25, <2>1, RangesAssumption DEF GenerateByHand, InventoryTypeOK, office,
              Generate, DaysArePast, SeenIsBuilt, AboutToMark, WatermarkIsBuilt
<1>27. ASSUME NEW d \in Readers, LeavePut(d) PROVE Built'
  BY <1>27, SameDays DEF LeavePut, Put, Ledger, Away, NoMarks, InventoryTypeOK, DaysArePast,
     SeenIsBuilt, AboutToMark, WatermarkIsBuilt
<1>28. ASSUME NEW p \in strays, StrayPut(p) PROVE Built'
  BY <1>28, SameDays DEF StrayPut, HoldWeek, InventoryTypeOK, DaysArePast, SeenIsBuilt,
     AboutToMark, WatermarkIsBuilt
<1>29. ASSUME StoreUnanswered PROVE Built'
  BY <1>29, SameDays, FieldDaysIsNat, HorizonsAssumption DEF StoreUnanswered, Put, Task,
     NoTask, InventoryTypeOK, DaysArePast, SeenIsBuilt, AboutToMark, WatermarkIsBuilt
<1>26. CASE UNCHANGED inventoryVars
  BY <1>26, SameDays DEF inventoryVars, office, InventoryTypeOK, DaysArePast, SeenIsBuilt,
     AboutToMark, WatermarkIsBuilt
<1> QED
  BY <1>1, <1>2, <1>3, <1>4, <1>5, <1>6, <1>7, <1>8, <1>9, <1>10, <1>11,
     <1>12, <1>13, <1>14, <1>15, <1>16, <1>17, <1>18, <1>19, <1>20, <1>21,
     <1>22, <1>23, <1>24, <1>25, <1>26, <1>27, <1>28, <1>29 DEF InventoryNext, LedgerStep, SaveStep,
     MoveStep

\* Both together: IInv is inductive.
LEMMA InventoryStep == InventoryInv /\ [InventoryNext]_inventoryVars => InventoryInv'
BY InventoryTypes, BuiltStep DEF InventoryInv

\* Every behaviour keeps the inductive invariant.
LEMMA InventoryHolds == InventorySpec => []InventoryInv
BY InventoryStart, InventoryStep, PTL DEF InventorySpec

\* The types hold in every behaviour, for any number of courses and desks.
THEOREM InventoryTypeCorrect == InventorySpec => []InventoryTypeOK
<1>1. InventoryInv => InventoryTypeOK
  BY DEF InventoryInv
<1> QED  BY <1>1, InventoryHolds, PTL

\* generated_through never claims a day Field has not built, whichever of
\* saves, horizon moves and ledger reads overlap, at whatever step they fail
\* and wherever midnight falls.
THEOREM WatermarkHonest == InventorySpec => []WatermarkIsBuilt
<1>1. InventoryInv => WatermarkIsBuilt
  BY DEF InventoryInv
<1> QED  BY <1>1, InventoryHolds, PTL

\* A stored week is changed by a save, or by a sync that read the schedule
\* before that save: one that reads it later puts back what it found.
LEMMA WeekStep == InventoryTypeOK /\ WeekInv /\ [InventoryNext]_inventoryVars => WeekInv'
<1> SUFFICES ASSUME InventoryTypeOK, WeekInv, [InventoryNext]_inventoryVars PROVE WeekInv'
  OBVIOUS
<1>1. ASSUME Midnight PROVE WeekInv'
  BY <1>1 DEF Midnight, WeekInv, SavedWeekStands, ReadingIsSaved, InventoryTypeOK, office
<1>2. ASSUME NEW d \in Readers, OpenLedger(d) PROVE WeekInv'
  BY <1>2 DEF OpenLedger, Ledger, Away, WeekInv, SavedWeekStands, ReadingIsSaved,
     InventoryTypeOK, office
<1>3. ASSUME NEW d \in Readers, ReadHorizon(d) PROVE WeekInv'
  BY <1>3 DEF ReadHorizon, Ledger, Away, WeekInv, SavedWeekStands, ReadingIsSaved,
     InventoryTypeOK, office
<1>4. ASSUME NEW d \in Readers, Mark(d) PROVE WeekInv'
  BY <1>4 DEF Mark, Ledger, Away, WeekInv, SavedWeekStands, ReadingIsSaved,
     InventoryTypeOK, office
<1>5. ASSUME NEW d \in Readers, MarkFails(d) PROVE WeekInv'
  BY <1>5 DEF MarkFails, Ledger, Away, WeekInv, SavedWeekStands, ReadingIsSaved,
     InventoryTypeOK, office
<1>6. ASSUME NEW d \in Readers, StartSync(d) PROVE WeekInv'
  BY <1>6 DEF StartSync, Ledger, Away, WeekInv, SavedWeekStands, ReadingIsSaved,
     InventoryTypeOK, office
<1>7. ASSUME NEW d \in Readers, CloseLedger(d) PROVE WeekInv'
  BY <1>7 DEF CloseLedger, Ledger, Away, WeekInv, SavedWeekStands, ReadingIsSaved,
     InventoryTypeOK, office
<1>8. ASSUME NEW d \in Readers, PutSchedule(d) PROVE WeekInv'
  BY <1>8 DEF PutSchedule, HoldWeek, Ledger, WeekInv, SavedWeekStands, ReadingIsSaved,
     InventoryTypeOK, office
<1>9. ASSUME NEW d \in Readers, NEW c \in Courses, Skip(d, c) PROVE WeekInv'
  BY <1>9 DEF Skip, Ledger, WeekInv, SavedWeekStands, ReadingIsSaved, InventoryTypeOK,
     office
<1>10. ASSUME NEW d \in Readers, NEW c \in Courses, TopUp(d, c) PROVE WeekInv'
  BY <1>10 DEF TopUp, Ledger, WeekInv, SavedWeekStands, ReadingIsSaved, InventoryTypeOK,
     office
<1>11. ASSUME NEW d \in Readers, NEW c \in Courses, TopUpFails(d, c) PROVE WeekInv'
  BY <1>11 DEF TopUpFails, Ledger, WeekInv, SavedWeekStands, ReadingIsSaved,
     InventoryTypeOK, office
<1>12. ASSUME NEW d \in Readers, NEW c \in Courses, ReadSchedule(d, c) PROVE WeekInv'
  BY <1>12 DEF ReadSchedule, Ledger, WeekInv, SavedWeekStands, ReadingIsSaved,
     InventoryTypeOK, office
<1>13. ASSUME Store PROVE WeekInv'
  BY <1>13 DEF Store, HoldWeek, OlderPut, WeekInv, SavedWeekStands, ReadingIsSaved,
     InventoryTypeOK, office
<1>14. ASSUME StoreBlind PROVE WeekInv'
  BY <1>14 DEF StoreBlind, HoldWeek, OlderPut, WeekInv, SavedWeekStands, ReadingIsSaved,
     InventoryTypeOK, office
<1>15. ASSUME SaveBuilds PROVE WeekInv'
  BY <1>15 DEF SaveBuilds, WeekInv, SavedWeekStands, ReadingIsSaved, InventoryTypeOK,
     office
<1>16. ASSUME SaveMarks PROVE WeekInv'
  BY <1>16 DEF SaveMarks, WeekInv, SavedWeekStands, ReadingIsSaved, InventoryTypeOK, office
<1>17. ASSUME SaveFails PROVE WeekInv'
  BY <1>17 DEF SaveFails, WeekInv, SavedWeekStands, ReadingIsSaved, InventoryTypeOK, office
<1>18. ASSUME RebuildMarks PROVE WeekInv'
  BY <1>18 DEF RebuildMarks, WeekInv, SavedWeekStands, ReadingIsSaved, InventoryTypeOK,
     office
<1>19. ASSUME RebuildMarkFails PROVE WeekInv'
  BY <1>19 DEF RebuildMarkFails, WeekInv, SavedWeekStands, ReadingIsSaved,
     InventoryTypeOK, office
<1>20. ASSUME MoveEnds PROVE WeekInv'
  BY <1>20 DEF MoveEnds, WeekInv, SavedWeekStands, ReadingIsSaved, InventoryTypeOK, office
<1>21. ASSUME NEW c \in Courses, Rebuild(c) PROVE WeekInv'
  BY <1>21 DEF Rebuild, WeekInv, SavedWeekStands, ReadingIsSaved, InventoryTypeOK, office
<1>22. ASSUME NEW c \in Courses, RebuildFails(c) PROVE WeekInv'
  BY <1>22 DEF RebuildFails, WeekInv, SavedWeekStands, ReadingIsSaved, InventoryTypeOK,
     office
<1>23. ASSUME NEW c \in Courses, NEW pc \in {"store", "blind"}, Save(c, pc) PROVE WeekInv'
  BY <1>23 DEF Save, WeekInv, SavedWeekStands, ReadingIsSaved, InventoryTypeOK, office
<1>24. ASSUME NEW h \in Horizons, MoveHorizon(h) PROVE WeekInv'
  BY <1>24 DEF MoveHorizon, WeekInv, SavedWeekStands, ReadingIsSaved, InventoryTypeOK,
     office
<1>25. ASSUME NEW c \in Courses, NEW r \in Ranges, GenerateByHand(c, r[1], r[2])
       PROVE  WeekInv'
  BY <1>25 DEF GenerateByHand, WeekInv, SavedWeekStands, ReadingIsSaved, InventoryTypeOK,
     office
<1>27. ASSUME NEW d \in Readers, LeavePut(d) PROVE WeekInv'
  BY <1>27 DEF LeavePut, Put, Ledger, Away, NoMarks, WeekInv, SavedWeekStands, ReadingIsSaved,
     InventoryTypeOK
<1>28. ASSUME NEW p \in strays, StrayPut(p) PROVE WeekInv'
  BY <1>28 DEF StrayPut, HoldWeek, WeekInv, SavedWeekStands, ReadingIsSaved,
     InventoryTypeOK
<1>29. ASSUME StoreUnanswered PROVE WeekInv'
  BY <1>29, FieldDaysIsNat, HorizonsAssumption DEF StoreUnanswered, Put, Task, NoTask,
     WeekInv, SavedWeekStands, ReadingIsSaved, InventoryTypeOK
<1>26. CASE UNCHANGED inventoryVars
  BY <1>26 DEF inventoryVars, WeekInv, SavedWeekStands, ReadingIsSaved, InventoryTypeOK,
     office
<1> QED
  BY <1>1, <1>2, <1>3, <1>4, <1>5, <1>6, <1>7, <1>8, <1>9, <1>10, <1>11,
     <1>12, <1>13, <1>14, <1>15, <1>16, <1>17, <1>18, <1>19, <1>20, <1>21,
     <1>22, <1>23, <1>24, <1>25, <1>26, <1>27, <1>28, <1>29 DEF InventoryNext, LedgerStep, SaveStep,
     MoveStep

\* A ledger read, however many run, undoes a saved week only if it had read
\* the schedule before the save.
THEOREM SavedWeeksStand == InventorySpec => []SavedWeekStands
<1>1. InventoryInit => WeekInv
  BY DEF InventoryInit, WeekInv, SavedWeekStands, ReadingIsSaved, Away, Ledger
<1>2. InventoryInv => InventoryTypeOK
  BY DEF InventoryInv
<1>3. WeekInv => SavedWeekStands
  BY DEF WeekInv
<1> QED  BY <1>1, <1>2, <1>3, InventoryHolds, WeekStep, PTL DEF InventorySpec

-----------------------------------------------------------------------------
(* The days a watermark claims are sold by the week in force.               *)

\* What a top-up saw, and what anybody is about to file, holds of the week in
\* force where nothing is owed; a save vouches for its own week as long as no
\* older schedule was under way when it stored it.
SeenIsCurrent ==
  \A d \in Readers : ledger[d].pc \in {"horizon", "top", "mark"} =>
    \A c \in Courses : ~owing[c] => \A x \in today..ledger[d].seen[c] : x \in Current(c)
FilingIsCurrent ==
  /\ \A d \in Readers : \A c \in Courses :
       ledger[d].pc = "mark" /\ ledger[d].at = c /\ ~owing[c] =>
         \A x \in today..ledger[d].edge : x \in Current(c)
  /\ \A c \in Courses :
       save.pc = "mark" /\ save.at = c /\ (~owing[c] \/ saved[c] = saves) =>
         \A x \in today..save.edge : x \in Current(c)
  /\ \A c \in Courses : move.pc = "mark" /\ move.at = c /\ ~owing[c] =>
       \A x \in today..move.edge : x \in Current(c)
SaveCounts == save.pc # "none" => saves > 0

CurrentInv == WatermarkIsCurrent /\ SeenIsCurrent /\ FilingIsCurrent /\ SaveCounts

\* What is built, and from which week, changes only where Field builds or
\* takes another week.
LEMMA SameCurrent ==
  ASSUME UNCHANGED built
  PROVE  \A c \in Courses : week'[c] = week[c] => Current(c)' = Current(c)
BY DEF Current

\* Where the week in force changed something is owed.
LEMMA HeldCurrent ==
  ASSUME week \in [Courses -> Nat], owing \in [Courses -> BOOLEAN], UNCHANGED built,
         NEW c \in Courses, NEW w \in Nat,
         week' = [week EXCEPT ![c] = w], owing' = [owing EXCEPT ![c] = @ \/ w # week[c]]
  PROVE  \A cc \in Courses : ~owing'[cc] => ~owing[cc] /\ Current(cc)' = Current(cc)
<1> SUFFICES ASSUME NEW cc \in Courses, ~owing'[cc]
             PROVE  ~owing[cc] /\ Current(cc)' = Current(cc)
  OBVIOUS
<1>1. CASE cc = c
  <2>1. ~owing[c] /\ w = week[c]
    BY <1>1
  <2> QED  BY <1>1, <2>1, SameCurrent
<1>2. CASE cc # c
  BY <1>2, SameCurrent
<1> QED  BY <1>1, <1>2

\* Building brings its range into line and takes no other day out of it.
LEMMA MoreCurrent ==
  ASSUME built \in [Courses -> SUBSET (Nat \X Nat)], NEW c \in Courses, NEW a, NEW b,
         built' = [built EXCEPT ![c] = {x \in @ : x[1] \notin a..b} \cup ((a..b) \X {week[c]})],
         UNCHANGED week
  PROVE  \A cc \in Courses : /\ Current(cc) \subseteq Current(cc)'
                             /\ cc = c => a..b \subseteq Current(cc)'
<1>1. ASSUME NEW cc \in Courses, NEW x \in Current(cc) PROVE x \in Current(cc)'
  <2>1. PICK y \in built[cc] : x = y[1] /\ y[2] = week[cc]
    BY <1>1 DEF Current
  <2>2. CASE y \in built'[cc]
    BY <2>1, <2>2 DEF Current
  <2>3. CASE y \notin built'[cc]
    <3>1. cc = c /\ y[1] \in a..b
      BY <2>1, <2>3
    <3>2. <<x, week[c]>> \in built'[c]
      BY <2>1, <3>1
    <3> QED  BY <3>1, <3>2 DEF Current
  <2> QED  BY <2>2, <2>3
<1>2. ASSUME NEW x \in a..b PROVE x \in Current(c)'
  <2>1. <<x, week[c]>> \in built'[c]
    BY <1>2
  <2> QED  BY <2>1 DEF Current
<1> QED  BY <1>1, <1>2

LEMMA CurrentStart == InventoryInit => CurrentInv
BY DEF InventoryInit, CurrentInv, WatermarkIsCurrent, SeenIsCurrent, FilingIsCurrent,
   SaveCounts, Away, Ledger, NoMarks, NoTask, Task

LEMMA CurrentStep ==
  InventoryInv /\ InventoryTypeOK' /\ WeekInv /\ CurrentInv /\ [InventoryNext]_inventoryVars
    => CurrentInv'
<1> DEFINE Kept == WatermarkIsCurrent /\ SeenIsCurrent /\ FilingIsCurrent /\ SaveCounts
<1> SUFFICES ASSUME InventoryTypeOK, DaysArePast, InventoryTypeOK', SavedWeekStands,
                    ReadingIsSaved, WatermarkIsCurrent, SeenIsCurrent, FilingIsCurrent,
                    SaveCounts, [InventoryNext]_inventoryVars
             PROVE  Kept'
  BY DEF InventoryInv, WeekInv, CurrentInv
<1>1. ASSUME Midnight PROVE Kept'
  BY <1>1, SameCurrent DEF Midnight, office, InventoryTypeOK, DaysArePast, WatermarkIsCurrent,
     SeenIsCurrent, FilingIsCurrent, SaveCounts
<1>2. ASSUME NEW d \in Readers, OpenLedger(d) PROVE Kept'
  BY <1>2, SameCurrent DEF OpenLedger, Ledger, NoMarks, office, InventoryTypeOK,
     DaysArePast, WatermarkIsCurrent, SeenIsCurrent, FilingIsCurrent, SaveCounts
<1>3. ASSUME NEW d \in Readers, ReadHorizon(d) PROVE Kept'
  BY <1>3, SameCurrent DEF ReadHorizon, Ledger, office, InventoryTypeOK, DaysArePast,
     WatermarkIsCurrent, SeenIsCurrent, FilingIsCurrent, SaveCounts
<1>4. ASSUME NEW d \in Readers, Mark(d) PROVE Kept'
  BY <1>4, SameCurrent DEF Mark, Ledger, SetWatermark, office, InventoryTypeOK, DaysArePast,
     WatermarkIsCurrent, SeenIsCurrent, FilingIsCurrent, SaveCounts
<1>5. ASSUME NEW d \in Readers, MarkFails(d) PROVE Kept'
  BY <1>5, SameCurrent DEF MarkFails, Ledger, office, InventoryTypeOK, DaysArePast,
     WatermarkIsCurrent, SeenIsCurrent, FilingIsCurrent, SaveCounts
<1>6. ASSUME NEW d \in Readers, StartSync(d) PROVE Kept'
  BY <1>6, SameCurrent DEF StartSync, Ledger, NoMarks, office, InventoryTypeOK, DaysArePast,
     WatermarkIsCurrent, SeenIsCurrent, FilingIsCurrent, SaveCounts
<1>7. ASSUME NEW d \in Readers, CloseLedger(d) PROVE Kept'
  BY <1>7, SameCurrent DEF CloseLedger, Ledger, Away, NoMarks, office, InventoryTypeOK,
     DaysArePast, WatermarkIsCurrent, SeenIsCurrent, FilingIsCurrent, SaveCounts
<1>8. ASSUME NEW d \in Readers, LeavePut(d) PROVE Kept'
  BY <1>8, SameCurrent DEF LeavePut, Ledger, Away, NoMarks, office, InventoryTypeOK,
     DaysArePast, WatermarkIsCurrent, SeenIsCurrent, FilingIsCurrent, SaveCounts
<1>9. ASSUME NEW d \in Readers, NEW c \in Courses, Skip(d, c) PROVE Kept'
  BY <1>9, SameCurrent DEF Skip, Ledger, office, InventoryTypeOK, DaysArePast,
     WatermarkIsCurrent, SeenIsCurrent, FilingIsCurrent, SaveCounts
<1>10. ASSUME NEW d \in Readers, NEW c \in Courses, TopUpFails(d, c) PROVE Kept'
  BY <1>10, SameCurrent DEF TopUpFails, Ledger, office, InventoryTypeOK, DaysArePast,
     WatermarkIsCurrent, SeenIsCurrent, FilingIsCurrent, SaveCounts
<1>11. ASSUME NEW d \in Readers, NEW c \in Courses, ReadSchedule(d, c) PROVE Kept'
  BY <1>11, SameCurrent DEF ReadSchedule, Ledger, NoMarks, office, InventoryTypeOK,
     DaysArePast, WatermarkIsCurrent, SeenIsCurrent, FilingIsCurrent, SaveCounts
<1>12. ASSUME SaveFails PROVE Kept'
  BY <1>12, SameCurrent DEF SaveFails, Task, NoTask, office, InventoryTypeOK, DaysArePast,
     WatermarkIsCurrent, SeenIsCurrent, FilingIsCurrent, SaveCounts
<1>13. ASSUME RebuildMarks PROVE Kept'
  BY <1>13, SameCurrent DEF RebuildMarks, SetWatermark, Task, office, InventoryTypeOK,
     DaysArePast, WatermarkIsCurrent, SeenIsCurrent, FilingIsCurrent, SaveCounts
<1>14. ASSUME RebuildMarkFails PROVE Kept'
  BY <1>14, SameCurrent DEF RebuildMarkFails, Task, office, InventoryTypeOK, DaysArePast,
     WatermarkIsCurrent, SeenIsCurrent, FilingIsCurrent, SaveCounts
<1>15. ASSUME MoveEnds PROVE Kept'
  BY <1>15, SameCurrent DEF MoveEnds, Task, NoTask, office, InventoryTypeOK, DaysArePast,
     WatermarkIsCurrent, SeenIsCurrent, FilingIsCurrent, SaveCounts
<1>16. ASSUME StoreUnanswered PROVE Kept'
  BY <1>16, SameCurrent DEF StoreUnanswered, Task, NoTask, office, InventoryTypeOK,
     DaysArePast, WatermarkIsCurrent, SeenIsCurrent, FilingIsCurrent, SaveCounts
<1>17. ASSUME SaveMarks PROVE Kept'
  BY <1>17, SameCurrent DEF SaveMarks, SetWatermark, Filing, Task, NoTask, office,
     InventoryTypeOK, DaysArePast, WatermarkIsCurrent, SeenIsCurrent, FilingIsCurrent,
     SaveCounts
<1>18. ASSUME NEW c \in Courses, RebuildFails(c) PROVE Kept'
  BY <1>18, SameCurrent DEF RebuildFails, Task, office, InventoryTypeOK, DaysArePast,
     WatermarkIsCurrent, SeenIsCurrent, FilingIsCurrent, SaveCounts
<1>19. ASSUME NEW c \in Courses, NEW pc \in {"store", "blind"}, Save(c, pc) PROVE Kept'
  BY <1>19, SameCurrent DEF Save, Task, office, InventoryTypeOK, DaysArePast,
     WatermarkIsCurrent, SeenIsCurrent, FilingIsCurrent, SaveCounts
<1>20. ASSUME NEW h \in Horizons, MoveHorizon(h) PROVE Kept'
  BY <1>20, SameCurrent DEF MoveHorizon, Task, office, InventoryTypeOK, DaysArePast,
     WatermarkIsCurrent, SeenIsCurrent, FilingIsCurrent, SaveCounts
<1>21. ASSUME Store PROVE Kept'
  <2>1. save.at \in Courses /\ save'.pc # "mark" /\ UNCHANGED <<today, through, ledger, move>>
    BY <1>21 DEF Store, Task, NoTask, InventoryTypeOK
  <2>2. \A c \in Courses : ~owing'[c] => ~owing[c] /\ Current(c)' = Current(c)
    BY <1>21, <2>1, HeldCurrent DEF Store, HoldWeek, InventoryTypeOK
  <2>3. save'.pc # "none" => saves' > 0
    BY <1>21 DEF Store, SaveCounts
  <2> QED  BY <2>1, <2>2, <2>3 DEF InventoryTypeOK, DaysArePast, WatermarkIsCurrent,
              SeenIsCurrent, FilingIsCurrent, SaveCounts
<1>22. ASSUME StoreBlind PROVE Kept'
  <2>1. save.at \in Courses /\ save'.pc # "mark" /\ UNCHANGED <<today, through, ledger, move>>
    BY <1>22 DEF StoreBlind, Task, NoTask, InventoryTypeOK
  <2>2. \A c \in Courses : ~owing'[c] => ~owing[c] /\ Current(c)' = Current(c)
    BY <1>22, <2>1, HeldCurrent DEF StoreBlind, HoldWeek, InventoryTypeOK
  <2>3. save'.pc # "none" => saves' > 0
    BY <1>22 DEF StoreBlind, SaveCounts
  <2> QED  BY <2>1, <2>2, <2>3 DEF InventoryTypeOK, DaysArePast, WatermarkIsCurrent,
              SeenIsCurrent, FilingIsCurrent, SaveCounts
<1>23. ASSUME NEW d \in Readers, PutSchedule(d) PROVE Kept'
  <2>1. /\ ledger[d].at \in Courses /\ ledger[d].wk \in Nat /\ ledger[d].pc = "put"
        /\ ledger' = [ledger EXCEPT ![d] = Ledger("sync", ledger[d].day, NoMarks,
                                      ledger[d].todo, NoCourse, ledger[d].edge, 0)]
        /\ UNCHANGED <<today, through, save, move, saved, saves>>
    BY <1>23 DEF PutSchedule, InventoryTypeOK
  <2>2. \A c \in Courses : ~owing'[c] => ~owing[c] /\ Current(c)' = Current(c)
    BY <1>23, <2>1, HeldCurrent DEF PutSchedule, HoldWeek, InventoryTypeOK
  <2>3. \A c \in Courses : saved[c] # 0 => Current(c)' = Current(c)
    BY <1>23, <2>1, SameCurrent DEF PutSchedule, HoldWeek, SavedWeekStands, ReadingIsSaved,
       InventoryTypeOK
  <2>4. \A c \in Courses : save.pc = "mark" /\ saved[c] = saves => saved[c] # 0
    BY DEF SaveCounts, InventoryTypeOK
  <2>5. WatermarkIsCurrent' /\ SeenIsCurrent' /\ SaveCounts'
    BY <2>1, <2>2 DEF Ledger, InventoryTypeOK, DaysArePast, WatermarkIsCurrent, SeenIsCurrent,
              FilingIsCurrent, SaveCounts
  <2>6. FilingIsCurrent'
    BY <2>1, <2>2, <2>3, <2>4 DEF Ledger, InventoryTypeOK, FilingIsCurrent
  <2> QED  BY <2>5, <2>6
<1>24. ASSUME NEW p \in strays, StrayPut(p) PROVE Kept'
  <2>1. p.at \in Courses /\ p.wk \in Nat /\ UNCHANGED <<today, through, ledger, save, move, saved, saves>>
    BY <1>24 DEF StrayPut, InventoryTypeOK
  <2>2. \A c \in Courses : ~owing'[c] => ~owing[c] /\ Current(c)' = Current(c)
    BY <1>24, <2>1, HeldCurrent DEF StrayPut, HoldWeek, InventoryTypeOK
  <2>3. \A c \in Courses : saved[c] # 0 => Current(c)' = Current(c)
    BY <1>24, <2>1, SameCurrent DEF StrayPut, HoldWeek, SavedWeekStands, ReadingIsSaved,
       InventoryTypeOK
  <2>4. \A c \in Courses : save.pc = "mark" /\ saved[c] = saves => saved[c] # 0
    BY DEF SaveCounts, InventoryTypeOK
  <2>5. WatermarkIsCurrent' /\ SeenIsCurrent' /\ SaveCounts'
    BY <2>1, <2>2 DEF InventoryTypeOK, DaysArePast, WatermarkIsCurrent, SeenIsCurrent,
              FilingIsCurrent, SaveCounts
  <2>6. FilingIsCurrent'
    BY <2>1, <2>2, <2>3, <2>4 DEF InventoryTypeOK, FilingIsCurrent
  <2> QED  BY <2>5, <2>6
<1>25. ASSUME NEW d \in Readers, NEW c \in Courses, TopUp(d, c) PROVE Kept'
  <2>1. \A cc \in Courses :
          /\ Current(cc) \subseteq Current(cc)'
          /\ cc = c => Resume(ledger[d].seen[c], ledger[d].day)..ledger[d].edge
                         \subseteq Current(cc)'
    BY <1>25, MoreCurrent DEF TopUp, Generate, InventoryTypeOK
  <2>2. /\ ledger' = [ledger EXCEPT ![d] = Ledger("mark", ledger[d].day, ledger[d].seen,
                                      ledger[d].todo \ {c}, c, ledger[d].edge, 0)]
        /\ ledger[d].pc = "top"
        /\ UNCHANGED <<today, save, move, through, owing, saved, saves>>
    BY <1>25 DEF TopUp, office
  <2>3. ~owing[c] => \A x \in today..ledger[d].edge : x \in Current(c)'
    <3>1. ledger[d].day <= today /\ today \in Nat /\ ledger[d].edge \in Nat
          /\ ledger[d].seen[c] \in Nat /\ ledger[d].day \in Nat
      BY DEF DaysArePast, InventoryTypeOK
    <3>2. ~owing[c] => \A x \in today..ledger[d].seen[c] : x \in Current(c)
      BY <2>2 DEF SeenIsCurrent
    <3> QED  BY <2>1, <3>1, <3>2 DEF Resume
  <2>4. WatermarkIsCurrent' /\ SeenIsCurrent' /\ SaveCounts'
    BY <2>1, <2>2 DEF Ledger, InventoryTypeOK, DaysArePast, WatermarkIsCurrent, SeenIsCurrent,
              FilingIsCurrent, SaveCounts
  <2>5. FilingIsCurrent'
    BY <2>1, <2>2, <2>3 DEF Ledger, InventoryTypeOK, FilingIsCurrent
  <2> QED  BY <2>4, <2>5
<1>26. ASSUME SaveBuilds PROVE Kept'
  <2>1. save.at \in Courses /\ save.day <= today /\ save.day \in Nat /\ save.edge \in Nat /\ today \in Nat
    BY <1>26 DEF SaveBuilds, DaysArePast, InventoryTypeOK
  <2>2. \A cc \in Courses : /\ Current(cc) \subseteq Current(cc)'
                            /\ cc = save.at => save.day..save.edge \subseteq Current(cc)'
    BY <1>26, <2>1, MoreCurrent DEF SaveBuilds, Generate, InventoryTypeOK
  <2>3. /\ save'.pc = "mark" /\ save'.at = save.at /\ save'.edge = save.edge /\ save.pc = "build"
        /\ UNCHANGED <<today, ledger, move, through, owing, saved, saves>>
    BY <1>26 DEF SaveBuilds, Task
  <2>4. WatermarkIsCurrent' /\ SeenIsCurrent' /\ SaveCounts'
    BY <2>2, <2>3 DEF InventoryTypeOK, DaysArePast, WatermarkIsCurrent, SeenIsCurrent,
              FilingIsCurrent, SaveCounts
  <2>5. today..save.edge \subseteq save.day..save.edge
    BY <2>1
  <2>6. FilingIsCurrent'
    BY <2>2, <2>3, <2>5 DEF InventoryTypeOK, FilingIsCurrent
  <2> QED  BY <2>4, <2>6
<1>27. ASSUME NEW c \in Courses, Rebuild(c) PROVE Kept'
  <2>1. c \in Courses /\ move.day <= today /\ move.day \in Nat /\ move.edge \in Nat /\ today \in Nat
    BY <1>27 DEF Rebuild, DaysArePast, InventoryTypeOK
  <2>2. \A cc \in Courses : /\ Current(cc) \subseteq Current(cc)'
                            /\ cc = c => move.day..move.edge \subseteq Current(cc)'
    BY <1>27, <2>1, MoreCurrent DEF Rebuild, Generate, InventoryTypeOK
  <2>3. /\ move'.pc = "mark" /\ move'.at = c /\ move'.edge = move.edge /\ move.pc = "build"
        /\ UNCHANGED <<today, ledger, save, through, owing, saved, saves>>
    BY <1>27 DEF Rebuild, Task
  <2>4. WatermarkIsCurrent' /\ SeenIsCurrent' /\ SaveCounts'
    BY <2>2, <2>3 DEF InventoryTypeOK, DaysArePast, WatermarkIsCurrent, SeenIsCurrent,
              FilingIsCurrent, SaveCounts
  <2>5. today..move.edge \subseteq move.day..move.edge
    BY <2>1
  <2>6. FilingIsCurrent'
    BY <2>2, <2>3, <2>5 DEF InventoryTypeOK, FilingIsCurrent
  <2> QED  BY <2>4, <2>6
<1>28. ASSUME NEW c \in Courses, NEW r \in Ranges, GenerateByHand(c, r[1], r[2]) PROVE Kept'
  BY <1>28, MoreCurrent DEF GenerateByHand, Generate, office, InventoryTypeOK, DaysArePast,
     WatermarkIsCurrent, SeenIsCurrent, FilingIsCurrent, SaveCounts
<1>29. CASE UNCHANGED inventoryVars
  BY <1>29, SameCurrent DEF inventoryVars, office, InventoryTypeOK, DaysArePast,
     WatermarkIsCurrent, SeenIsCurrent, FilingIsCurrent, SaveCounts
<1> QED
  BY <1>1, <1>2, <1>3, <1>4, <1>5, <1>6, <1>7, <1>8, <1>9, <1>10, <1>11, <1>12, <1>13,
     <1>14, <1>15, <1>16, <1>17, <1>18, <1>19, <1>20, <1>21, <1>22, <1>23, <1>24, <1>25, <1>26,
     <1>27, <1>28, <1>29 DEF InventoryNext, LedgerStep, SaveStep, MoveStep

\* The days a course's watermark claims are those of the week Field holds,
\* unless that week came in without its build, for any courses and desks.
THEOREM WatermarkCurrent == InventorySpec => []WatermarkIsCurrent
<1>1. InventoryInit => WeekInv
  BY DEF InventoryInit, WeekInv, SavedWeekStands, ReadingIsSaved, Away, Ledger
<1>2. InventoryInv => InventoryTypeOK
  BY DEF InventoryInv
<1>3. CurrentInv => WatermarkIsCurrent
  BY DEF CurrentInv
<1> QED  BY <1>1, <1>2, <1>3, InventoryHolds, WeekStep, CurrentStart, CurrentStep, PTL
         DEF InventorySpec

=============================================================================
