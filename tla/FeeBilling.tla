----------------------------- MODULE FeeBilling -----------------------------
(***************************************************************************)
(* Billing recorded cancellations (usecase/settle_cancellation_fees.rs,    *)
(* infrastructure/reservation_cancellation_repository.rs) from the sheet   *)
(* of desktop/src/features/golf/customers/CancellationsPage.tsx: an        *)
(* invoice per payer is created in Field first, then the rows are marked   *)
(* invoiced in CourseBoard.  Either call may be lost, a POST may arrive    *)
(* after the sheet gave up on it, and the page may be reloaded anywhere.   *)
(* A submission is a loop nothing aborts: navigating away inside the app   *)
(* takes its sheet off the screen and leaves the loop running, beside a    *)
(* sheet opened later in the same browser tab.                             *)
(*                                                                         *)
(* A bill is what one POST asks for.  Its idempotency key is made of       *)
(* exactly these fields, and Field derives the invoice number from the     *)
(* key, so an invoice is identified with its bill.                         *)
(***************************************************************************)
EXTENDS Naturals, FiniteSets

CONSTANTS Bookings,     \* bookings
          Payer,        \* Payer[b]: the customer billed for b, or b's own name
          Rates,        \* amounts and due dates the desk may type in
          Desks,        \* billing sheets, each a mount of the component
          Tab,          \* Tab[d]: the browser tab of sheet d, with its own storage
          SourceCap,    \* bookings an invoice may name as its sources
          NoBill,       \* no invoice
          Cancelled,    \* bookings cancelled before the first sheet is opened
          MaxOpens      \* bound: sheets opened, for billing or for waiving

Tabs == {Tab[d] : d \in Desks}
ASSUME TabAssumption == Desks # {} /\ DOMAIN Tab = Desks
ASSUME BookingsAssumption == Bookings \subseteq Nat /\ DOMAIN Payer = Bookings
ASSUME BoundsAssumption == MaxOpens \in Nat /\ SourceCap \in Nat

Bill == [payer : {Payer[b] : b \in Bookings}, rate : Rates,
         of : SUBSET Bookings]
ASSUME NoBillAssumption == NoBill \notin Bill

VARIABLES rows,      \* rows[b]: the cancellation record of b and its fee
          invoices,  \* the bills Field holds an invoice for
          wire,      \* POSTs on their way that have had no effect yet
          sheet,     \* sheet[d]: what sheet d holds
          left,      \* sheets that are off the screen while their loop runs
          kept,      \* kept[t]: recoveries in the session storage of tab t
          opens,     \* sheets opened
          contested  \* ghost: a sheet was opened that was not alone

vars == <<rows, invoices, wire, sheet, left, kept, opens, contested>>

\* fee_state and fee_invoice_id of a row ("absent": never cancelled).
RowStates == {"absent", "unsettled", "waived", "invoiced"}
Row(state, invoice) == [state |-> state, invoice |-> invoice]

Closed == [pc |-> "closed", rows |-> {}, known |-> {}, frozen |-> {},
           todo |-> {}, bill |-> NoBill, fresh |-> FALSE, billed |-> {}]

Sheet == [pc : {"closed", "reading", "ready", "posting", "waiting", "settling"},
          rows : SUBSET Bookings, known : SUBSET Bookings,
          frozen : SUBSET Bill, todo : SUBSET Bill,
          bill : Bill \cup {NoBill}, fresh : BOOLEAN, billed : SUBSET Bill]

TypeOK ==
  /\ rows \in [Bookings -> [state : RowStates, invoice : Bill \cup {NoBill}]]
  /\ invoices \subseteq Bill /\ wire \subseteq Bill
  /\ sheet \in [Desks -> Sheet]
  /\ left \subseteq Desks
  /\ kept \in [Tabs -> SUBSET Bill]
  /\ opens \in 0..MaxOpens /\ contested \in BOOLEAN

Init ==
  /\ rows = [b \in Bookings |->
              Row(IF b \in Cancelled THEN "unsettled" ELSE "absent", NoBill)]
  /\ invoices = {} /\ wire = {}
  /\ sheet = [d \in Desks |-> Closed] /\ left = {}
  /\ kept = [t \in Tabs |-> {}]
  /\ opens = 0 /\ contested = FALSE

-----------------------------------------------------------------------------
(* CourseBoard's table. *)

\* Cancelling a booking files its row; a second cancel only corrects the
\* reason of the row that is there.
RecordCancellation(b) ==
  /\ rows' = [rows EXCEPT ![b] =
                IF @.state = "absent" THEN Row("unsettled", NoBill) ELSE @]
  /\ UNCHANGED <<invoices, wire, sheet, kept, opens, left, contested>>

\* One transaction for the batch; a decision about a booking without a row
\* updates nothing.
Settled(decided) ==
  [b \in Bookings |->
     IF b \in DOMAIN decided /\ rows[b].state # "absent" THEN decided[b]
                                                         ELSE rows[b]]

\* Nothing covers the page of a tab but loops that outlived their sheet.
Clear(t) == \A d \in Desks : Tab[d] = t => sheet[d].pc = "closed" \/ d \in left

\* The desk decides not to charge for the rows it selected.
Waive(t, S) ==
  /\ Clear(t) /\ opens < MaxOpens
  /\ S # {} /\ \A b \in S : rows[b].state # "absent"
  /\ rows' = Settled([b \in S |-> Row("waived", NoBill)])
  /\ opens' = opens + 1
  /\ UNCHANGED <<invoices, wire, sheet, kept, left, contested>>

-----------------------------------------------------------------------------
(* The billing sheet. *)

\* No other sheet and no loop is under way, and no other tab holds a recovery.
Alone(d) == /\ \A e \in Desks : sheet[e].pc = "closed"
            /\ \A t \in Tabs : t # Tab[d] => kept[t] = {}

\* Opening mounts a new sheet, which loads the recoveries of its tab.
Open(d, S) ==
  /\ sheet[d].pc = "closed" /\ Clear(Tab[d]) /\ opens < MaxOpens
  /\ S # {} /\ \A b \in S : rows[b].state # "absent"
  /\ sheet' = [sheet EXCEPT ![d] = [Closed EXCEPT !.pc = "reading", !.rows = S,
                                                  !.frozen = kept[Tab[d]]]]
  /\ opens' = opens + 1
  /\ contested' = (contested \/ ~Alone(d))
  /\ UNCHANGED <<rows, invoices, wire, kept, left>>

\* cancellationFeeSources: Field takes only so many sources, so the bookings
\* past the cap, in id order, are not named.
Sources(bill) ==
  {b \in bill.of : Cardinality({c \in bill.of : c < b}) < SourceCap}

\* Every page of Field's cancellation-fee invoices is read before the sheet
\* can be submitted; a failed read leaves it waiting.
Reconcile(d) ==
  /\ sheet[d].pc = "reading"
  /\ sheet' = [sheet EXCEPT ![d].pc = "ready",
                            ![d].known = UNION {Sources(i) : i \in invoices}]
  /\ UNCHANGED <<rows, invoices, wire, kept, opens, left, contested>>

\* planCancellationFees: one group per payer of the rows Field does not
\* already hold an invoice for.
Groups(d) ==
  LET open == sheet[d].rows \ sheet[d].known IN
    {{b \in open : Payer[b] = p} : p \in {Payer[b] : b \in open}}

\* recoveryConflicts: a recovery that shares bookings with a group but is not
\* for the same bookings.
Conflict(d) == \E g \in Groups(d), f \in sheet[d].frozen :
                 f.of # g /\ f.of \cap g # {}

\* The bill of a group: its frozen body, or a new one at the rate in the sheet.
BillFor(d, rate, g) ==
  IF \E f \in sheet[d].frozen : f.of = g
  THEN CHOOSE f \in sheet[d].frozen : f.of = g
  ELSE [payer |-> Payer[CHOOSE b \in g : TRUE], rate |-> rate, of |-> g]

Planned(d, rate) == {BillFor(d, rate, g) : g \in Groups(d)}

Submit(d, rate) ==
  /\ sheet[d].pc = "ready" /\ d \notin left /\ ~Conflict(d) /\ Groups(d) # {}
  /\ sheet' = [sheet EXCEPT ![d].pc = "posting", ![d].billed = {},
                            ![d].todo = Planned(d, rate)]
  /\ UNCHANGED <<rows, invoices, wire, kept, opens, left, contested>>

\* The recovery is saved before the POST is dispatched.
Post(d, bill) ==
  /\ sheet[d].pc = "posting" /\ bill \in sheet[d].todo
  /\ sheet' = [sheet EXCEPT ![d].pc = "waiting", ![d].bill = bill,
                 ![d].todo = @ \ {bill}, ![d].frozen = @ \cup {bill},
                 ![d].fresh = bill \notin sheet[d].frozen]
  /\ kept' = [kept EXCEPT ![Tab[d]] = sheet[d].frozen \cup {bill}]
  /\ wire' = wire \cup {bill}
  /\ UNCHANGED <<rows, invoices, opens, left, contested>>

\* Field accepts a POST that arrives, whether or not anybody still waits.
Arrive(bill) ==
  /\ bill \in wire
  /\ wire' = wire \ {bill} /\ invoices' = invoices \cup {bill}
  /\ UNCHANGED <<rows, sheet, kept, opens, left, contested>>

\* A POST is lost on the way.
Drop(bill) ==
  /\ bill \in wire
  /\ wire' = wire \ {bill}
  /\ UNCHANGED <<rows, invoices, sheet, kept, opens, left, contested>>

\* Field answers with the invoice of this key.
Answered(d) ==
  /\ sheet[d].pc = "waiting" /\ sheet[d].bill \in invoices
  /\ sheet' = [sheet EXCEPT ![d].pc = "posting", ![d].bill = NoBill,
                            ![d].billed = @ \cup {sheet[d].bill}]
  /\ UNCHANGED <<rows, invoices, wire, kept, opens, left, contested>>

\* No answer, or one that does not settle it (5xx, 408, 409, 429): the
\* recovery stays frozen.
Unanswered(d) ==
  /\ sheet[d].pc = "waiting"
  /\ sheet' = [sheet EXCEPT ![d].pc = "posting", ![d].bill = NoBill]
  /\ UNCHANGED <<rows, invoices, wire, kept, opens, left, contested>>

\* (mutant) A refusal is taken as final whichever attempt it answers.
LeftAfterAnyRefusal(d) == sheet[d].frozen \ {sheet[d].bill}

\* The recovery is discarded only if the refusal answers the first attempt.
LeftAfterRefusal(d) ==
  IF sheet[d].fresh THEN sheet[d].frozen \ {sheet[d].bill} ELSE sheet[d].frozen

\* Field refuses this POST for good (a 4xx other than 408, 409 and 429); an
\* earlier copy of it may still be on its way.
Refused(d) ==
  /\ sheet[d].pc = "waiting" /\ sheet[d].bill \in wire
  /\ \/ wire' = wire \ {sheet[d].bill}
     \/ ~sheet[d].fresh /\ wire' = wire
  /\ sheet' = [sheet EXCEPT ![d].pc = "posting", ![d].bill = NoBill,
                            ![d].frozen = LeftAfterRefusal(d)]
  /\ kept' = [kept EXCEPT ![Tab[d]] = LeftAfterRefusal(d)]
  /\ UNCHANGED <<rows, invoices, opens, left, contested>>

\* (mutant) A batch of which nothing came through is not handed back.
FinishBilled(d) ==
  /\ sheet[d].pc = "posting" /\ sheet[d].todo = {} /\ sheet[d].billed # {}
  /\ sheet' = [sheet EXCEPT ![d].pc = "settling"]
  /\ UNCHANGED <<rows, invoices, wire, kept, opens, left, contested>>

\* All groups were tried: nothing to record, or the decisions go out.
Finish(d) ==
  /\ sheet[d].pc = "posting" /\ sheet[d].todo = {}
  /\ sheet' = [sheet EXCEPT ![d].pc = IF sheet[d].billed = {} THEN "ready"
                                                              ELSE "settling"]
  /\ UNCHANGED <<rows, invoices, wire, kept, opens, left, contested>>

\* (mutant) Every bill tried is recorded, answered or not.
DecisionsUnheard(d) ==
  [b \in UNION {i.of : i \in sheet[d].frozen} |->
     Row("invoiced", CHOOSE i \in sheet[d].frozen : b \in i.of)]

\* The decisions of the invoices that exist, one per booking of each.
Decisions(d) ==
  [b \in UNION {i.of : i \in sheet[d].billed} |->
     Row("invoiced", CHOOSE i \in sheet[d].billed : b \in i.of)]

\* The rows are marked, the settled recoveries forgotten and the selection
\* cleared.
Record(d) ==
  /\ sheet[d].pc = "settling"
  /\ rows' = Settled(Decisions(d))
  /\ kept' = [kept EXCEPT ![Tab[d]] = sheet[d].frozen \ sheet[d].billed]
  /\ sheet' = [sheet EXCEPT ![d] = Closed]
  /\ left' = left \ {d}
  /\ UNCHANGED <<invoices, wire, opens, contested>>

\* Recording fails, or lands and its answer is lost: the sheet stays open
\* with what it read from Field before.
RecordFails(d) ==
  /\ sheet[d].pc = "settling"
  /\ rows' \in {rows, Settled(Decisions(d))}
  /\ sheet' = [sheet EXCEPT ![d].pc = "ready", ![d].billed = {}]
  /\ UNCHANGED <<invoices, wire, kept, opens, left, contested>>

\* The sheet is closed or navigated away from, which it allows while it is
\* not saving; of a sheet off the screen nothing is left once its loop is over.
Leave(d) ==
  /\ sheet[d].pc \in {"reading", "ready"}
  /\ sheet' = [sheet EXCEPT ![d] = Closed]
  /\ left' = left \ {d}
  /\ UNCHANGED <<rows, invoices, wire, kept, opens, contested>>

\* The desk moves to another page of the app while a call of the submission is
\* out: the sheet goes, its loop and the recoveries it holds stay.
Navigate(d) ==
  /\ sheet[d].pc \in {"waiting", "settling"} /\ d \notin left
  /\ left' = left \cup {d}
  /\ UNCHANGED <<rows, invoices, wire, sheet, kept, opens, contested>>

\* The tab is reloaded, or its operator changes: its sheets and loops end, the
\* storage stays.
Reload(t) ==
  /\ \E d \in Desks : Tab[d] = t /\ sheet[d].pc # "closed"
  /\ sheet' = [d \in Desks |-> IF Tab[d] = t THEN Closed ELSE sheet[d]]
  /\ left' = {d \in left : Tab[d] # t}
  /\ UNCHANGED <<rows, invoices, wire, kept, opens, contested>>

Next ==
  \/ \E b \in Bookings : RecordCancellation(b)
  \/ \E bill \in wire : Arrive(bill) \/ Drop(bill)
  \/ \E t \in Tabs : Reload(t) \/ \E S \in SUBSET Bookings : Waive(t, S)
  \/ \E d \in Desks :
       \/ \E S \in SUBSET Bookings : Open(d, S)
       \/ Reconcile(d)
       \/ \E r \in Rates : Submit(d, r)
       \/ \E bill \in sheet[d].todo : Post(d, bill)
       \/ Answered(d) \/ Unanswered(d) \/ Refused(d)
       \/ Finish(d) \/ Record(d) \/ RecordFails(d) \/ Leave(d) \/ Navigate(d)

\* A submission keeps going: every call it makes ends in an answer or an
\* error.  Nobody has to open, submit, retry or leave.
Step(d) == \/ \E bill \in sheet[d].todo : Post(d, bill)
           \/ Answered(d) \/ Unanswered(d) \/ Refused(d)
           \/ Finish(d) \/ Record(d) \/ RecordFails(d)

Fairness == \A d \in Desks : WF_vars(Step(d))

Spec == Init /\ [][Next]_vars /\ Fairness

-----------------------------------------------------------------------------
(* Properties *)

\* A row marked invoiced points at an invoice Field holds, and that invoice
\* is for this booking: the id is written only after the invoice exists
\* (settle_cancellation_fees.rs), and an invoice is never taken back here.
InvoicedPointsAtInvoice ==
  \A b \in Bookings : rows[b].state = "invoiced" =>
     rows[b].invoice \in invoices /\ b \in rows[b].invoice.of

\* However many POSTs are lost, delayed or repeated and however often the page
\* is reloaded, left or the fee retyped, sheets that bill one after another are
\* the abstract ledger: each step that Field's invoices show charges for bookings
\* nobody was charged for, once.  This is what the frozen recoveries and the read
\* of Field's invoices are there for (BatchRecovery in CancellationsPage.tsx,
\* invoicedReservationIds in models.ts, "the guard against billing somebody
\* twice").  It does not outlive a sheet opened beside another, beside a loop
\* navigation left behind, or in a tab that does not have the recoveries.
Ledger == INSTANCE FeeLedger WITH
            Charges <- Bill,
            charge <- [b \in Bookings |-> {i \in invoices : b \in i.of}]

ImplementsLedger == Ledger!Spec

\* A submitted batch comes to an end, on the screen or off it, also beside the
\* loop of another sheet that writes the same storage.
SubmissionEnds ==
  \A d \in Desks : sheet[d].pc = "posting" ~> sheet[d].pc \in {"ready", "closed"}

=============================================================================
