--------------------------- MODULE CustomerProofs ---------------------------
(***************************************************************************)
(* Proofs about what a club keeps on its customers: cancellation fees      *)
(* (FeeBilling) and the figures of their play (CustomerVisits, in the      *)
(* second part).  Billing: what a row marked invoiced points at, for any   *)
(* number of sheets in any tabs, and that sheets which bill in turn are    *)
(* the abstract ledger, for every set of bookings, payers and rates.       *)
(***************************************************************************)
EXTENDS FeeBilling, CustomerVisits, FiniteSetTheorems, SequenceTheorems, TLAPS

\* What the sheets take for billed is billed.
RowInv ==
  /\ \A d \in Desks : sheet[d].billed \subseteq invoices
  /\ InvoicedPointsAtInvoice

\* Everything that was or may yet be charged for from sheet D.
Claims(D) == wire \cup invoices \cup kept[Tab[D]] \cup sheet[D].todo

Submitting == {"posting", "waiting"}

FrozenIsKept(D) == sheet[D].pc # "closed" => sheet[D].frozen = kept[Tab[D]]

TodoIsSubmitted(D) == sheet[D].pc \notin Submitting => sheet[D].todo = {}

OnePayer(D) == \A x \in Claims(D) : \A b \in x.of : Payer[b] = x.payer

\* No booking is claimed by two bills.
Disjoint(D) == \A x, y \in Claims(D) : x.of \cap y.of # {} => x = y

WireIsKept(D) == wire \subseteq kept[Tab[D]] \cup invoices

\* A sheet past its read of Field's invoices holds a recovery, or knows all
\* the bookings, of every bill Field has or may still get.
Covered(D) == sheet[D].pc \notin {"closed", "reading"} =>
  \A x \in wire \cup invoices : x \in kept[Tab[D]] \/ x.of \subseteq sheet[D].known

TodoIsOpen(D) ==
  \A x \in sheet[D].todo : x.of # {} /\ x.of \cap sheet[D].known = {}

\* A refusal of a first attempt answers the only copy of the bill.
FirstAttempt(D) ==
  sheet[D].pc = "waiting" /\ sheet[D].fresh /\ sheet[D].bill \in wire
    => sheet[D].bill \notin invoices

PageInv(D) ==
  /\ FrozenIsKept(D) /\ TodoIsSubmitted(D) /\ OnePayer(D) /\ Disjoint(D)
  /\ WireIsKept(D) /\ Covered(D) /\ TodoIsOpen(D) /\ FirstAttempt(D)

\* Sheet D, or none, is under way, and only its tab may hold recoveries.
Lead(D) ==
  /\ PageInv(D)
  /\ \A e \in Desks : e # D => sheet[e].pc = "closed" /\ sheet[e].todo = {}
  /\ \A t \in Tabs : t # Tab[D] => kept[t] = {}

\* While nothing is contested the sheets take turns.
InTurn == contested \/ \E D \in Desks : Lead(D)

\* No payer has more bookings than an invoice can name.
WithinCap ==
  /\ IsFiniteSet(Bookings)
  /\ \A b \in Bookings :
       Cardinality({c \in Bookings : Payer[c] = Payer[b]}) <= SourceCap

USE BookingsAssumption, BoundsAssumption, NoBillAssumption

-----------------------------------------------------------------------------
(* Facts about the operators *)

\* A sheet is replaced as a whole.
LEMMA SheetPut ==
  ASSUME NEW f \in [Desks -> Sheet], NEW d \in Desks, NEW v \in Sheet
  PROVE  /\ [f EXCEPT ![d] = v] \in [Desks -> Sheet]
         /\ [f EXCEPT ![d] = v][d] = v
         /\ \A e \in Desks : e # d => [f EXCEPT ![d] = v][e] = f[e]
  OBVIOUS

LEMMA SheetWith ==
  ASSUME NEW x \in Sheet, NEW K \in SUBSET Bookings, NEW A \in SUBSET Bill,
         NEW B \in SUBSET Bill, NEW bill \in Bill \cup {NoBill}, NEW f \in BOOLEAN
  PROVE  /\ [x EXCEPT !.pc = "ready", !.known = K] \in Sheet
         /\ [x EXCEPT !.pc = "waiting", !.bill = bill, !.todo = A, !.frozen = B,
                      !.fresh = f] \in Sheet
         /\ [x EXCEPT !.pc = "posting", !.bill = bill, !.billed = A] \in Sheet
         /\ [x EXCEPT !.pc = "posting", !.bill = bill, !.frozen = A] \in Sheet
  BY DEF Sheet

LEMMA TabOf == \A d \in Desks : Tab[d] \in Tabs
  BY DEF Tabs

LEMMA ClosedType == Closed \in Sheet
  BY DEF Closed, Sheet

\* Every group is the open rows of one payer.
LEMMA GroupFacts ==
  ASSUME TypeOK, NEW d \in Desks, NEW g \in Groups(d)
  PROVE  /\ g # {} /\ g \subseteq sheet[d].rows \ sheet[d].known
         /\ g \subseteq Bookings
         /\ \A a, b \in g : Payer[a] = Payer[b]
         /\ \A h \in Groups(d) : h \cap g # {} => h = g
<1> DEFINE open == sheet[d].rows \ sheet[d].known
<1>1. open \subseteq Bookings
  BY DEF TypeOK, Sheet
<1>2. PICK p \in {Payer[b] : b \in open} : g = {b \in open : Payer[b] = p}
  BY DEF Groups
<1>3. \A h \in Groups(d) : \E q \in {Payer[b] : b \in open} :
        h = {b \in open : Payer[b] = q}
  BY DEF Groups
<1> QED  BY <1>1, <1>2, <1>3

\* The bill of a group is its recovery or a new one, and is for the group.
LEMMA BillForFacts ==
  ASSUME TypeOK, NEW d \in Desks, NEW r \in Rates, NEW g \in Groups(d)
  PROVE  /\ BillFor(d, r, g) \in Bill
         /\ BillFor(d, r, g).of = g
         /\ \/ BillFor(d, r, g) \in sheet[d].frozen
            \/ /\ ~ \E f \in sheet[d].frozen : f.of = g
               /\ \A b \in g : Payer[b] = BillFor(d, r, g).payer
<1>1. sheet[d].frozen \subseteq Bill
  BY DEF TypeOK, Sheet
<1>2. CASE \E f \in sheet[d].frozen : f.of = g
  <2> DEFINE x == CHOOSE f \in sheet[d].frozen : f.of = g
  <2>1. x \in sheet[d].frozen /\ x.of = g
    BY <1>2, Zenon
  <2>2. BillFor(d, r, g) = x
    BY <1>2 DEF BillFor
  <2> QED  BY <1>1, <2>1, <2>2
<1>3. CASE ~ \E f \in sheet[d].frozen : f.of = g
  <2> DEFINE c == CHOOSE b \in g : TRUE
  <2>1. g # {} /\ g \subseteq Bookings /\ \A a, b \in g : Payer[a] = Payer[b]
    BY GroupFacts
  <2>2. c \in g
    BY <2>1, Zenon
  <2>3. BillFor(d, r, g) = [payer |-> Payer[c], rate |-> r, of |-> g]
    BY <1>3 DEF BillFor
  <2> HIDE DEF c
  <2>4. [payer |-> Payer[c], rate |-> r, of |-> g] \in Bill
    BY <2>1, <2>2 DEF Bill
  <2> QED  BY <1>3, <2>1, <2>2, <2>3, <2>4
<1> QED  BY <1>2, <1>3

\* A decision names an invoice the sheet was answered with, for that booking.
LEMMA DecisionFacts ==
  ASSUME TypeOK, NEW d \in Desks
  PROVE  /\ DOMAIN Decisions(d) = UNION {i.of : i \in sheet[d].billed}
         /\ \A b \in DOMAIN Decisions(d) :
              /\ Decisions(d)[b] \in [state : RowStates, invoice : Bill]
              /\ Decisions(d)[b].invoice \in sheet[d].billed
              /\ b \in Decisions(d)[b].invoice.of
<1>1. sheet[d].billed \subseteq Bill
  BY DEF TypeOK, Sheet
<1>2. DOMAIN Decisions(d) = UNION {i.of : i \in sheet[d].billed}
  BY DEF Decisions
<1>3. ASSUME NEW b \in DOMAIN Decisions(d)
      PROVE  /\ Decisions(d)[b] \in [state : RowStates, invoice : Bill]
             /\ Decisions(d)[b].invoice \in sheet[d].billed
             /\ b \in Decisions(d)[b].invoice.of
  <2> DEFINE i == CHOOSE i \in sheet[d].billed : b \in i.of
  <2>1. i \in sheet[d].billed /\ b \in i.of
    <3>1. \E j \in sheet[d].billed : b \in j.of
      BY <1>2
    <3> QED  BY <3>1, Zenon
  <2>2. Decisions(d)[b] = Row("invoiced", i)
    BY <1>2, Zenon DEF Decisions
  <2> HIDE DEF i
  <2> QED  BY <1>1, <2>1, <2>2 DEF Row, RowStates
<1> QED  BY <1>2, <1>3

\* What recording the decisions leaves in the table.
LEMMA RecordFacts ==
  ASSUME TypeOK, NEW d \in Desks, rows' = Settled(Decisions(d))
  PROVE  /\ rows' \in [Bookings -> [state : RowStates, invoice : Bill \cup {NoBill}]]
         /\ \A b \in Bookings :
              \/ rows'[b] = rows[b]
              \/ rows'[b].invoice \in sheet[d].billed /\ b \in rows'[b].invoice.of
<1>1. ASSUME NEW b \in Bookings
      PROVE  /\ rows'[b] \in [state : RowStates, invoice : Bill \cup {NoBill}]
             /\ \/ rows'[b] = rows[b]
                \/ rows'[b].invoice \in sheet[d].billed /\ b \in rows'[b].invoice.of
  <2>1. \/ rows'[b] = rows[b]
        \/ b \in DOMAIN Decisions(d) /\ rows'[b] = Decisions(d)[b]
    BY DEF Settled
  <2> QED  BY <2>1, DecisionFacts DEF TypeOK
<1>2. rows' = [b \in Bookings |-> rows'[b]]
  BY DEF Settled
<1> QED  BY <1>1, <1>2

-----------------------------------------------------------------------------
(* Types *)

\* What a step of page d leaves in its sheet; the other pages keep theirs.
Shows(d, p, known, frozen, todo, bill, billed) ==
  /\ sheet' \in [Desks -> Sheet]
  /\ \A e \in Desks : e # d => sheet'[e] = sheet[e]
  /\ sheet'[d].pc = p
  /\ sheet'[d].known = known
  /\ sheet'[d].frozen = frozen
  /\ sheet'[d].todo = todo
  /\ sheet'[d].bill = bill
  /\ sheet'[d].billed = billed

LEMMA OpenSheet ==
  ASSUME TypeOK, NEW d \in Desks, NEW S \in SUBSET Bookings, Open(d, S)
  PROVE  Shows(d, "reading", {}, kept[Tab[d]],
                {}, NoBill, {})
<1>1. kept[Tab[d]] \in SUBSET Bill
  BY TabOf DEF TypeOK
<1> DEFINE v == [Closed EXCEPT !.pc = "reading", !.rows = S, !.frozen = kept[Tab[d]]]
<1>2. v \in Sheet
  BY <1>1 DEF TypeOK, Sheet, Closed
<1>3. sheet' = [sheet EXCEPT ![d] = v]
  BY DEF Open
<1>4. /\ v.pc = "reading"
      /\ v.known = {}
      /\ v.frozen = kept[Tab[d]]
      /\ v.todo = {}
      /\ v.bill = NoBill
      /\ v.billed = {}
  <2>1. sheet[d] \in Sheet
    BY DEF TypeOK
  <2> QED  BY <2>1 DEF Sheet, Closed
<1> HIDE DEF v
<1>5. sheet' \in [Desks -> Sheet] /\ sheet'[d] = v
      /\ \A e \in Desks : e # d => sheet'[e] = sheet[e]
  BY <1>2, <1>3, SheetPut DEF TypeOK
<1> QED  BY <1>4, <1>5 DEF Shows

LEMMA ReconcileSheet ==
  ASSUME TypeOK, NEW d \in Desks, Reconcile(d)
  PROVE  Shows(d, "ready", UNION {Sources(i) : i \in invoices}, sheet[d].frozen,
                sheet[d].todo, sheet[d].bill, sheet[d].billed)
<1>1. UNION {Sources(i) : i \in invoices} \in SUBSET Bookings
  <2>1. \A i \in invoices : Sources(i) \subseteq Bookings
    BY DEF TypeOK, Sources, Bill
  <2> QED  BY <2>1
<1> DEFINE v == [sheet[d] EXCEPT !.pc = "ready", !.known = UNION {Sources(i) : i \in invoices}]
<1>2. v \in Sheet
  <2>1. sheet[d] \in Sheet
    BY DEF TypeOK
  <2> QED  BY <1>1, <2>1, SheetWith
<1>3. sheet' = [sheet EXCEPT ![d] = v]
  BY DEF Reconcile
<1>4. /\ v.pc = "ready"
      /\ v.known = UNION {Sources(i) : i \in invoices}
      /\ v.frozen = sheet[d].frozen
      /\ v.todo = sheet[d].todo
      /\ v.bill = sheet[d].bill
      /\ v.billed = sheet[d].billed
  <2>1. sheet[d] \in Sheet
    BY DEF TypeOK
  <2> QED  BY <2>1 DEF Sheet
<1> HIDE DEF v
<1>5. sheet' \in [Desks -> Sheet] /\ sheet'[d] = v
      /\ \A e \in Desks : e # d => sheet'[e] = sheet[e]
  BY <1>2, <1>3, SheetPut DEF TypeOK
<1> QED  BY <1>4, <1>5 DEF Shows

LEMMA SubmitSheet ==
  ASSUME TypeOK, NEW d \in Desks, NEW r \in Rates, Submit(d, r)
  PROVE  Shows(d, "posting", sheet[d].known, sheet[d].frozen,
                Planned(d, r), sheet[d].bill, {})
<1>1. Planned(d, r) \subseteq Bill
  BY BillForFacts DEF Planned
<1> DEFINE v == [sheet[d] EXCEPT !.pc = "posting", !.billed = {}, !.todo = Planned(d, r)]
<1>2. v \in Sheet
  <2>1. sheet[d] \in Sheet
    BY DEF TypeOK
  <2> QED  BY <1>1, <2>1 DEF Sheet
<1>3. sheet' = [sheet EXCEPT ![d] = v]
  BY DEF Submit
<1>4. /\ v.pc = "posting"
      /\ v.known = sheet[d].known
      /\ v.frozen = sheet[d].frozen
      /\ v.todo = Planned(d, r)
      /\ v.bill = sheet[d].bill
      /\ v.billed = {}
  <2>1. sheet[d] \in Sheet
    BY DEF TypeOK
  <2> QED  BY <2>1 DEF Sheet
<1> HIDE DEF v
<1>5. sheet' \in [Desks -> Sheet] /\ sheet'[d] = v
      /\ \A e \in Desks : e # d => sheet'[e] = sheet[e]
  BY <1>2, <1>3, SheetPut DEF TypeOK
<1> QED  BY <1>4, <1>5 DEF Shows

LEMMA PostSheet ==
  ASSUME TypeOK, NEW d \in Desks, NEW bill \in sheet[d].todo, Post(d, bill)
  PROVE  /\ Shows(d, "waiting", sheet[d].known, sheet[d].frozen \cup {bill},
                   sheet[d].todo \ {bill}, bill, sheet[d].billed)
         /\ sheet'[d].fresh <=> bill \notin sheet[d].frozen
<1>1. bill \in Bill
  BY DEF TypeOK, Sheet
<1> DEFINE v == [sheet[d] EXCEPT !.pc = "waiting", !.bill = bill,
         !.todo = sheet[d].todo \ {bill}, !.frozen = sheet[d].frozen \cup {bill},
         !.fresh = bill \notin sheet[d].frozen]
<1>2. v \in Sheet
  <2>1. sheet[d] \in Sheet
    BY DEF TypeOK
  <2>2. /\ sheet[d].todo \ {bill} \in SUBSET Bill
        /\ sheet[d].frozen \cup {bill} \in SUBSET Bill
    BY <1>1, <2>1 DEF Sheet
  <2>3. (bill \notin sheet[d].frozen) \in BOOLEAN
    OBVIOUS
  <2> QED  BY <1>1, <2>1, <2>2, <2>3, SheetWith
<1>3. sheet' = [sheet EXCEPT ![d] = v]
  BY DEF Post
<1>4. /\ v.pc = "waiting"
      /\ v.known = sheet[d].known
      /\ v.frozen = sheet[d].frozen \cup {bill}
      /\ v.todo = sheet[d].todo \ {bill}
      /\ v.bill = bill
      /\ v.billed = sheet[d].billed
      /\ v.fresh <=> bill \notin sheet[d].frozen
  <2>1. sheet[d] \in Sheet
    BY DEF TypeOK
  <2> QED  BY <2>1 DEF Sheet
<1> HIDE DEF v
<1>5. sheet' \in [Desks -> Sheet] /\ sheet'[d] = v
      /\ \A e \in Desks : e # d => sheet'[e] = sheet[e]
  BY <1>2, <1>3, SheetPut DEF TypeOK
<1> QED  BY <1>4, <1>5 DEF Shows

LEMMA AnsweredSheet ==
  ASSUME TypeOK, NEW d \in Desks, Answered(d)
  PROVE  Shows(d, "posting", sheet[d].known, sheet[d].frozen,
                sheet[d].todo, NoBill, sheet[d].billed \cup {sheet[d].bill})
<1>1. sheet[d].bill \in Bill
  BY DEF Answered, TypeOK
<1> DEFINE v == [sheet[d] EXCEPT !.pc = "posting", !.bill = NoBill,
                                     !.billed = sheet[d].billed \cup {sheet[d].bill}]
<1>2. v \in Sheet
  <2>1. sheet[d] \in Sheet
    BY DEF TypeOK
  <2>2. sheet[d].billed \cup {sheet[d].bill} \in SUBSET Bill
    BY <1>1, <2>1 DEF Sheet
  <2> QED  BY <2>1, <2>2, SheetWith
<1>3. sheet' = [sheet EXCEPT ![d] = v]
  BY DEF Answered
<1>4. /\ v.pc = "posting"
      /\ v.known = sheet[d].known
      /\ v.frozen = sheet[d].frozen
      /\ v.todo = sheet[d].todo
      /\ v.bill = NoBill
      /\ v.billed = sheet[d].billed \cup {sheet[d].bill}
  <2>1. sheet[d] \in Sheet
    BY DEF TypeOK
  <2> QED  BY <2>1 DEF Sheet
<1> HIDE DEF v
<1>5. sheet' \in [Desks -> Sheet] /\ sheet'[d] = v
      /\ \A e \in Desks : e # d => sheet'[e] = sheet[e]
  BY <1>2, <1>3, SheetPut DEF TypeOK
<1> QED  BY <1>4, <1>5 DEF Shows

LEMMA UnansweredSheet ==
  ASSUME TypeOK, NEW d \in Desks, Unanswered(d)
  PROVE  Shows(d, "posting", sheet[d].known, sheet[d].frozen,
                sheet[d].todo, NoBill, sheet[d].billed)
<1> DEFINE v == [sheet[d] EXCEPT !.pc = "posting", !.bill = NoBill]
<1>1. v \in Sheet
  <2>1. sheet[d] \in Sheet
    BY DEF TypeOK
  <2> QED  BY <2>1 DEF Sheet
<1>2. sheet' = [sheet EXCEPT ![d] = v]
  BY DEF Unanswered
<1>3. /\ v.pc = "posting"
      /\ v.known = sheet[d].known
      /\ v.frozen = sheet[d].frozen
      /\ v.todo = sheet[d].todo
      /\ v.bill = NoBill
      /\ v.billed = sheet[d].billed
  <2>1. sheet[d] \in Sheet
    BY DEF TypeOK
  <2> QED  BY <2>1 DEF Sheet
<1> HIDE DEF v
<1>4. sheet' \in [Desks -> Sheet] /\ sheet'[d] = v
      /\ \A e \in Desks : e # d => sheet'[e] = sheet[e]
  BY <1>1, <1>2, SheetPut DEF TypeOK
<1> QED  BY <1>3, <1>4 DEF Shows

LEMMA RefusedSheet ==
  ASSUME TypeOK, NEW d \in Desks, Refused(d)
  PROVE  Shows(d, "posting", sheet[d].known, LeftAfterRefusal(d),
                sheet[d].todo, NoBill, sheet[d].billed)
<1>1. LeftAfterRefusal(d) \in SUBSET Bill
  BY DEF LeftAfterRefusal, TypeOK, Sheet
<1> DEFINE v == [sheet[d] EXCEPT !.pc = "posting", !.bill = NoBill,
                                     !.frozen = LeftAfterRefusal(d)]
<1>2. v \in Sheet
  <2>1. sheet[d] \in Sheet
    BY DEF TypeOK
  <2> QED  BY <1>1, <2>1, SheetWith
<1>3. sheet' = [sheet EXCEPT ![d] = v]
  BY DEF Refused
<1>4. /\ v.pc = "posting"
      /\ v.known = sheet[d].known
      /\ v.frozen = LeftAfterRefusal(d)
      /\ v.todo = sheet[d].todo
      /\ v.bill = NoBill
      /\ v.billed = sheet[d].billed
  <2>1. sheet[d] \in Sheet
    BY DEF TypeOK
  <2> QED  BY <2>1 DEF Sheet
<1> HIDE DEF v
<1>5. sheet' \in [Desks -> Sheet] /\ sheet'[d] = v
      /\ \A e \in Desks : e # d => sheet'[e] = sheet[e]
  BY <1>2, <1>3, SheetPut DEF TypeOK
<1> QED  BY <1>4, <1>5 DEF Shows

LEMMA FinishSheet ==
  ASSUME TypeOK, NEW d \in Desks, Finish(d)
  PROVE  Shows(d, (IF sheet[d].billed = {} THEN "ready" ELSE "settling"), sheet[d].known, sheet[d].frozen,
                sheet[d].todo, sheet[d].bill, sheet[d].billed)
<1> DEFINE v == [sheet[d] EXCEPT !.pc = IF sheet[d].billed = {} THEN "ready"
                                                            ELSE "settling"]
<1>1. v \in Sheet
  <2>1. sheet[d] \in Sheet
    BY DEF TypeOK
  <2>2. (IF sheet[d].billed = {} THEN "ready" ELSE "settling") \in {"ready", "settling"}
    OBVIOUS
  <2> QED  BY <2>1, <2>2 DEF Sheet
<1>2. sheet' = [sheet EXCEPT ![d] = v]
  BY DEF Finish
<1>3. /\ v.pc = (IF sheet[d].billed = {} THEN "ready" ELSE "settling")
      /\ v.known = sheet[d].known
      /\ v.frozen = sheet[d].frozen
      /\ v.todo = sheet[d].todo
      /\ v.bill = sheet[d].bill
      /\ v.billed = sheet[d].billed
  <2>1. sheet[d] \in Sheet
    BY DEF TypeOK
  <2> QED  BY <2>1 DEF Sheet
<1> HIDE DEF v
<1>4. sheet' \in [Desks -> Sheet] /\ sheet'[d] = v
      /\ \A e \in Desks : e # d => sheet'[e] = sheet[e]
  BY <1>1, <1>2, SheetPut DEF TypeOK
<1> QED  BY <1>3, <1>4 DEF Shows

LEMMA RecordSheet ==
  ASSUME TypeOK, NEW d \in Desks, Record(d)
  PROVE  Shows(d, "closed", {}, {},
                {}, NoBill, {})
<1>1. sheet' = [sheet EXCEPT ![d] = Closed]
  BY DEF Record
<1>2. sheet' \in [Desks -> Sheet] /\ sheet'[d] = Closed
      /\ \A e \in Desks : e # d => sheet'[e] = sheet[e]
  BY <1>1, ClosedType, SheetPut DEF TypeOK
<1> QED  BY <1>2 DEF Shows, Closed

LEMMA RecordFailsSheet ==
  ASSUME TypeOK, NEW d \in Desks, RecordFails(d)
  PROVE  Shows(d, "ready", sheet[d].known, sheet[d].frozen,
                sheet[d].todo, sheet[d].bill, {})
<1> DEFINE v == [sheet[d] EXCEPT !.pc = "ready", !.billed = {}]
<1>1. v \in Sheet
  <2>1. sheet[d] \in Sheet
    BY DEF TypeOK
  <2> QED  BY <2>1 DEF Sheet
<1>2. sheet' = [sheet EXCEPT ![d] = v]
  BY DEF RecordFails
<1>3. /\ v.pc = "ready"
      /\ v.known = sheet[d].known
      /\ v.frozen = sheet[d].frozen
      /\ v.todo = sheet[d].todo
      /\ v.bill = sheet[d].bill
      /\ v.billed = {}
  <2>1. sheet[d] \in Sheet
    BY DEF TypeOK
  <2> QED  BY <2>1 DEF Sheet
<1> HIDE DEF v
<1>4. sheet' \in [Desks -> Sheet] /\ sheet'[d] = v
      /\ \A e \in Desks : e # d => sheet'[e] = sheet[e]
  BY <1>1, <1>2, SheetPut DEF TypeOK
<1> QED  BY <1>3, <1>4 DEF Shows

LEMMA LeaveSheet ==
  ASSUME TypeOK, NEW d \in Desks, Leave(d)
  PROVE  Shows(d, "closed", {}, {},
                {}, NoBill, {})
<1>1. sheet' = [sheet EXCEPT ![d] = Closed]
  BY DEF Leave
<1>2. sheet' \in [Desks -> Sheet] /\ sheet'[d] = Closed
      /\ \A e \in Desks : e # d => sheet'[e] = sheet[e]
  BY <1>1, ClosedType, SheetPut DEF TypeOK
<1> QED  BY <1>2 DEF Shows, Closed

\* A reload closes the sheets of its tab and no other.
LEMMA ReloadSheet ==
  ASSUME TypeOK, NEW t \in Tabs, Reload(t)
  PROVE  /\ sheet' \in [Desks -> Sheet]
         /\ \A e \in Desks : sheet'[e] = IF Tab[e] = t THEN Closed ELSE sheet[e]
  BY ClosedType DEF Reload, TypeOK

\* What is waived has no invoice.
LEMMA WaiveFacts ==
  ASSUME TypeOK, NEW t \in Tabs, NEW S \in SUBSET Bookings, Waive(t, S)
  PROVE  /\ rows' \in [Bookings -> [state : RowStates, invoice : Bill \cup {NoBill}]]
         /\ \A b \in Bookings : rows'[b] = rows[b] \/ rows'[b].state = "waived"
<1> DEFINE w == [b \in S |-> Row("waived", NoBill)]
<1>1. rows' = Settled(w)
  BY DEF Waive
<1>2. ASSUME NEW b \in Bookings
      PROVE  rows'[b] = rows[b] \/ rows'[b] = [state |-> "waived", invoice |-> NoBill]
  BY <1>1 DEF Settled, Row
<1>3. rows' = [b \in Bookings |-> rows'[b]]
  BY <1>1 DEF Settled
<1> HIDE DEF w
<1> QED  BY <1>2, <1>3 DEF TypeOK, RowStates

LEMMA TypeInit == Init => TypeOK
<1> SUFFICES ASSUME Init PROVE TypeOK
  OBVIOUS
<1>1. rows \in [Bookings -> [state : RowStates, invoice : Bill \cup {NoBill}]]
  BY DEF Init, Row, RowStates
<1>2. sheet \in [Desks -> Sheet]
  BY ClosedType DEF Init
<1>3. opens \in 0..MaxOpens /\ kept \in [Tabs -> SUBSET Bill] /\ left \subseteq Desks
  BY BoundsAssumption DEF Init
<1>4. contested \in BOOLEAN /\ invoices \subseteq Bill /\ wire \subseteq Bill
  BY DEF Init
<1> QED  BY <1>1, <1>2, <1>3, <1>4 DEF TypeOK

LEMMA TypeStep ==
  ASSUME TypeOK, [Next]_vars
  PROVE  TypeOK'
<1>1. ASSUME NEW b \in Bookings, RecordCancellation(b) PROVE TypeOK'
  <2>1. rows' \in [Bookings -> [state : RowStates, invoice : Bill \cup {NoBill}]]
    BY <1>1 DEF RecordCancellation, TypeOK, Row, RowStates
  <2> QED  BY <1>1, <2>1 DEF RecordCancellation, TypeOK
<1>2. ASSUME NEW bill \in wire, Arrive(bill) PROVE TypeOK'
  BY <1>2 DEF Arrive, TypeOK
<1>3. ASSUME NEW bill \in wire, Drop(bill) PROVE TypeOK'
  BY <1>3 DEF Drop, TypeOK
<1>4. ASSUME NEW t \in Tabs, NEW S \in SUBSET Bookings, Waive(t, S)
      PROVE  TypeOK'
  <2>1. opens' \in 0..MaxOpens
    BY <1>4 DEF Waive, TypeOK
  <2> QED  BY <1>4, <2>1, WaiveFacts DEF Waive, TypeOK
<1>5. ASSUME NEW d \in Desks, NEW S \in SUBSET Bookings, Open(d, S)
      PROVE  TypeOK'
  <2>1. opens' \in 0..MaxOpens
    BY <1>5 DEF Open, TypeOK
  <2>2. sheet' \in [Desks -> Sheet]
    BY <1>5, OpenSheet DEF Shows
  <2> QED  BY <1>5, <2>1, <2>2 DEF Open, TypeOK
<1>6. ASSUME NEW d \in Desks, Reconcile(d) PROVE TypeOK'
  <2>1. sheet' \in [Desks -> Sheet]
    BY <1>6, ReconcileSheet DEF Shows
  <2> QED  BY <1>6, <2>1 DEF Reconcile, TypeOK
<1>7. ASSUME NEW d \in Desks, NEW r \in Rates, Submit(d, r) PROVE TypeOK'
  <2>1. sheet' \in [Desks -> Sheet]
    BY <1>7, SubmitSheet DEF Shows
  <2> QED  BY <1>7, <2>1 DEF Submit, TypeOK
<1>8. ASSUME NEW d \in Desks, NEW bill \in sheet[d].todo, Post(d, bill)
      PROVE  TypeOK'
  <2>1. sheet' \in [Desks -> Sheet]
    BY <1>8, PostSheet DEF Shows
  <2>2. bill \in Bill /\ sheet[d].frozen \in SUBSET Bill
    BY DEF TypeOK, Sheet
  <2> QED  BY <1>8, <2>1, <2>2 DEF Post, TypeOK
<1>9. ASSUME NEW d \in Desks, Answered(d) PROVE TypeOK'
  <2>1. sheet' \in [Desks -> Sheet]
    BY <1>9, AnsweredSheet DEF Shows
  <2> QED  BY <1>9, <2>1 DEF Answered, TypeOK
<1>10. ASSUME NEW d \in Desks, Unanswered(d) PROVE TypeOK'
  <2>1. sheet' \in [Desks -> Sheet]
    BY <1>10, UnansweredSheet DEF Shows
  <2> QED  BY <1>10, <2>1 DEF Unanswered, TypeOK
<1>11. ASSUME NEW d \in Desks, Refused(d) PROVE TypeOK'
  <2>1. sheet' \in [Desks -> Sheet]
    BY <1>11, RefusedSheet DEF Shows
  <2>2. LeftAfterRefusal(d) \in SUBSET Bill
    BY DEF LeftAfterRefusal, TypeOK, Sheet
  <2>3. wire' \subseteq Bill
    BY <1>11 DEF Refused, TypeOK
  <2> QED  BY <1>11, <2>1, <2>2, <2>3 DEF Refused, TypeOK
<1>12. ASSUME NEW d \in Desks, Finish(d) PROVE TypeOK'
  <2>1. sheet' \in [Desks -> Sheet]
    BY <1>12, FinishSheet DEF Shows
  <2> QED  BY <1>12, <2>1 DEF Finish, TypeOK
<1>13. ASSUME NEW d \in Desks, Record(d) PROVE TypeOK'
  <2>1. sheet' \in [Desks -> Sheet]
    BY <1>13, RecordSheet DEF Shows
  <2>2. sheet[d].frozen \ sheet[d].billed \in SUBSET Bill
    BY DEF TypeOK, Sheet
  <2> QED  BY <1>13, <2>1, <2>2, RecordFacts DEF Record, TypeOK
<1>14. ASSUME NEW d \in Desks, RecordFails(d) PROVE TypeOK'
  <2>1. sheet' \in [Desks -> Sheet]
    BY <1>14, RecordFailsSheet DEF Shows
  <2>2. rows' \in [Bookings -> [state : RowStates, invoice : Bill \cup {NoBill}]]
    BY <1>14, RecordFacts DEF RecordFails, TypeOK
  <2> QED  BY <1>14, <2>1, <2>2 DEF RecordFails, TypeOK
<1>15. ASSUME NEW d \in Desks, Leave(d) PROVE TypeOK'
  <2>1. sheet' \in [Desks -> Sheet]
    BY <1>15, LeaveSheet DEF Shows
  <2> QED  BY <1>15, <2>1 DEF Leave, TypeOK
<1>16. ASSUME UNCHANGED vars PROVE TypeOK'
  BY <1>16 DEF vars, TypeOK
<1>17. ASSUME NEW d \in Desks, Navigate(d) PROVE TypeOK'
  BY <1>17 DEF Navigate, TypeOK
<1>18. ASSUME NEW t \in Tabs, Reload(t) PROVE TypeOK'
  <2>1. sheet' \in [Desks -> Sheet]
    BY <1>18, ReloadSheet
  <2> QED  BY <1>18, <2>1 DEF Reload, TypeOK
<1> QED
  BY <1>1, <1>2, <1>3, <1>4, <1>5, <1>6, <1>7, <1>8, <1>9, <1>10, <1>11, <1>12,
     <1>13, <1>14, <1>15, <1>16, <1>17, <1>18 DEF Next

-----------------------------------------------------------------------------
(* What a row marked invoiced points at *)

LEMMA RowStep ==
  ASSUME TypeOK, RowInv, [Next]_vars
  PROVE  RowInv'
<1>0. InvoicedPointsAtInvoice /\ \A e \in Desks : sheet[e].billed \subseteq invoices
  BY DEF RowInv
<1>1. ASSUME NEW b \in Bookings, RecordCancellation(b) PROVE RowInv'
  <2>1. \A c \in Bookings : rows'[c] = rows[c] \/ rows'[c].state = "unsettled"
    BY <1>1 DEF RecordCancellation, TypeOK, Row
  <2> QED  BY <1>0, <1>1, <2>1 DEF RecordCancellation, RowInv, InvoicedPointsAtInvoice
<1>2. ASSUME NEW bill \in wire, Arrive(bill) PROVE RowInv'
  BY <1>0, <1>2 DEF Arrive, RowInv, InvoicedPointsAtInvoice
<1>3. ASSUME NEW bill \in wire, Drop(bill) PROVE RowInv'
  BY <1>0, <1>3 DEF Drop, RowInv, InvoicedPointsAtInvoice
<1>4. ASSUME NEW t \in Tabs, NEW S \in SUBSET Bookings, Waive(t, S)
      PROVE  RowInv'
  BY <1>0, <1>4, WaiveFacts DEF Waive, RowInv, InvoicedPointsAtInvoice
<1>5. ASSUME NEW d \in Desks, NEW S \in SUBSET Bookings, Open(d, S)
      PROVE  RowInv'
  <2>1. \A e \in Desks : sheet'[e].billed \subseteq invoices
    <3>1. sheet'[d].billed = {}
          /\ \A e \in Desks : e # d => sheet'[e] = sheet[e]
      BY <1>5, OpenSheet DEF Shows
    <3> QED  BY <1>0, <1>5, <3>1
  <2> QED  BY <1>0, <1>5, <2>1 DEF Open, RowInv, InvoicedPointsAtInvoice
<1>6. ASSUME NEW d \in Desks, Reconcile(d) PROVE RowInv'
  <2>1. \A e \in Desks : sheet'[e].billed \subseteq invoices
    <3>1. sheet'[d].billed = sheet[d].billed
          /\ \A e \in Desks : e # d => sheet'[e] = sheet[e]
      BY <1>6, ReconcileSheet DEF Shows
    <3> QED  BY <1>0, <1>6, <3>1
  <2> QED  BY <1>0, <1>6, <2>1 DEF Reconcile, RowInv, InvoicedPointsAtInvoice
<1>7. ASSUME NEW d \in Desks, NEW r \in Rates, Submit(d, r) PROVE RowInv'
  <2>1. \A e \in Desks : sheet'[e].billed \subseteq invoices
    <3>1. sheet'[d].billed = {}
          /\ \A e \in Desks : e # d => sheet'[e] = sheet[e]
      BY <1>7, SubmitSheet DEF Shows
    <3> QED  BY <1>0, <1>7, <3>1
  <2> QED  BY <1>0, <1>7, <2>1 DEF Submit, RowInv, InvoicedPointsAtInvoice
<1>8. ASSUME NEW d \in Desks, NEW bill \in sheet[d].todo, Post(d, bill)
      PROVE  RowInv'
  <2>1. \A e \in Desks : sheet'[e].billed \subseteq invoices
    <3>1. sheet'[d].billed = sheet[d].billed
          /\ \A e \in Desks : e # d => sheet'[e] = sheet[e]
      BY <1>8, PostSheet DEF Shows
    <3> QED  BY <1>0, <1>8, <3>1
  <2> QED  BY <1>0, <1>8, <2>1 DEF Post, RowInv, InvoicedPointsAtInvoice
<1>9. ASSUME NEW d \in Desks, Answered(d) PROVE RowInv'
  <2>1. \A e \in Desks : sheet'[e].billed \subseteq invoices
    <3>1. sheet'[d].billed = sheet[d].billed \cup {sheet[d].bill}
          /\ \A e \in Desks : e # d => sheet'[e] = sheet[e]
      BY <1>9, AnsweredSheet DEF Shows
    <3> QED  BY <1>0, <1>9, <3>1 DEF Answered
  <2> QED  BY <1>0, <1>9, <2>1 DEF Answered, RowInv, InvoicedPointsAtInvoice
<1>10. ASSUME NEW d \in Desks, Unanswered(d) PROVE RowInv'
  <2>1. \A e \in Desks : sheet'[e].billed \subseteq invoices
    <3>1. sheet'[d].billed = sheet[d].billed
          /\ \A e \in Desks : e # d => sheet'[e] = sheet[e]
      BY <1>10, UnansweredSheet DEF Shows
    <3> QED  BY <1>0, <1>10, <3>1
  <2> QED  BY <1>0, <1>10, <2>1 DEF Unanswered, RowInv, InvoicedPointsAtInvoice
<1>11. ASSUME NEW d \in Desks, Refused(d) PROVE RowInv'
  <2>1. \A e \in Desks : sheet'[e].billed \subseteq invoices
    <3>1. sheet'[d].billed = sheet[d].billed
          /\ \A e \in Desks : e # d => sheet'[e] = sheet[e]
      BY <1>11, RefusedSheet DEF Shows
    <3> QED  BY <1>0, <1>11, <3>1
  <2> QED  BY <1>0, <1>11, <2>1 DEF Refused, RowInv, InvoicedPointsAtInvoice
<1>12. ASSUME NEW d \in Desks, Finish(d) PROVE RowInv'
  <2>1. \A e \in Desks : sheet'[e].billed \subseteq invoices
    <3>1. sheet'[d].billed = sheet[d].billed
          /\ \A e \in Desks : e # d => sheet'[e] = sheet[e]
      BY <1>12, FinishSheet DEF Shows
    <3> QED  BY <1>0, <1>12, <3>1
  <2> QED  BY <1>0, <1>12, <2>1 DEF Finish, RowInv, InvoicedPointsAtInvoice
<1>13. ASSUME NEW d \in Desks, Record(d) PROVE RowInv'
  <2>1. \A e \in Desks : sheet'[e].billed \subseteq invoices
    <3>1. sheet'[d].billed = {}
          /\ \A e \in Desks : e # d => sheet'[e] = sheet[e]
      BY <1>13, RecordSheet DEF Shows
    <3> QED  BY <1>0, <1>13, <3>1
  <2>2. \A b \in Bookings :
          \/ rows'[b] = rows[b]
          \/ rows'[b].invoice \in sheet[d].billed /\ b \in rows'[b].invoice.of
    BY <1>13, RecordFacts DEF Record
  <2> QED  BY <1>0, <1>13, <2>1, <2>2 DEF Record, RowInv, InvoicedPointsAtInvoice
<1>14. ASSUME NEW d \in Desks, RecordFails(d) PROVE RowInv'
  <2>1. \A e \in Desks : sheet'[e].billed \subseteq invoices
    <3>1. sheet'[d].billed = {}
          /\ \A e \in Desks : e # d => sheet'[e] = sheet[e]
      BY <1>14, RecordFailsSheet DEF Shows
    <3> QED  BY <1>0, <1>14, <3>1
  <2>2. \A b \in Bookings :
          \/ rows'[b] = rows[b]
          \/ rows'[b].invoice \in sheet[d].billed /\ b \in rows'[b].invoice.of
    BY <1>14, RecordFacts DEF RecordFails
  <2> QED  BY <1>0, <1>14, <2>1, <2>2 DEF RecordFails, RowInv, InvoicedPointsAtInvoice
<1>15. ASSUME NEW d \in Desks, Leave(d) PROVE RowInv'
  <2>1. \A e \in Desks : sheet'[e].billed \subseteq invoices
    <3>1. sheet'[d].billed = {}
          /\ \A e \in Desks : e # d => sheet'[e] = sheet[e]
      BY <1>15, LeaveSheet DEF Shows
    <3> QED  BY <1>0, <1>15, <3>1
  <2> QED  BY <1>0, <1>15, <2>1 DEF Leave, RowInv, InvoicedPointsAtInvoice
<1>16. ASSUME UNCHANGED vars PROVE RowInv'
  BY <1>0, <1>16 DEF vars, RowInv, InvoicedPointsAtInvoice
<1>17. ASSUME NEW d \in Desks, Navigate(d) PROVE RowInv'
  BY <1>0, <1>17 DEF Navigate, RowInv, InvoicedPointsAtInvoice
<1>18. ASSUME NEW t \in Tabs, Reload(t) PROVE RowInv'
  <2>1. \A e \in Desks : sheet'[e].billed = {} \/ sheet'[e].billed = sheet[e].billed
    BY <1>18, ReloadSheet DEF Closed
  <2>2. UNCHANGED <<rows, invoices>>
    BY <1>18 DEF Reload
  <2>3. \A e \in Desks : sheet'[e].billed \subseteq invoices'
    BY <1>0, <2>1, <2>2
  <2> QED  BY <1>0, <2>2, <2>3 DEF RowInv, InvoicedPointsAtInvoice
<1> QED
  BY <1>1, <1>2, <1>3, <1>4, <1>5, <1>6, <1>7, <1>8, <1>9, <1>10, <1>11, <1>12,
     <1>13, <1>14, <1>15, <1>16, <1>17, <1>18 DEF Next

LEMMA RowInductive == Spec => [](TypeOK /\ RowInv)
<1>1. Init => RowInv
  BY DEF Init, RowInv, InvoicedPointsAtInvoice, Row, Closed
<1>2. TypeOK /\ RowInv /\ [Next]_vars => (TypeOK /\ RowInv)'
  BY TypeStep, RowStep
<1> QED  BY <1>1, <1>2, TypeInit, PTL DEF Spec

\* The records, the invoices, the calls and every sheet keep their types.
THEOREM TypeCorrect == Spec => []TypeOK
  BY RowInductive, PTL

\* However many pages bill, waive, retry and record at the same time, a row
\* marked invoiced names an invoice Field holds for that booking.
THEOREM InvoicedRowsHaveInvoices == Spec => []InvoicedPointsAtInvoice
<1>1. RowInv => InvoicedPointsAtInvoice
  BY DEF RowInv
<1> QED  BY <1>1, RowInductive, PTL

-----------------------------------------------------------------------------
(* One sheet *)

\* Then every booking of an invoice is named as its source.
LEMMA SourcesAll ==
  ASSUME WithinCap, NEW x \in Bill, \A b \in x.of : Payer[b] = x.payer
  PROVE  Sources(x) = x.of
<1>1. ASSUME NEW b \in x.of
      PROVE  Cardinality({c \in x.of : c < b}) < SourceCap
  <2> DEFINE P == {c \in Bookings : Payer[c] = Payer[b]}
             T == {c \in x.of : c < b}
  <2>1. x.of \subseteq Bookings /\ b \in Bookings
    BY DEF Bill
  <2>2. IsFiniteSet(P) /\ b \in P /\ T \subseteq P \ {b}
    <3>1. IsFiniteSet(P)
      BY FS_Subset DEF WithinCap
    <3>2. b \in Nat /\ b \in P
      BY <2>1, BookingsAssumption
    <3>3. ASSUME NEW c \in T PROVE c \in P /\ c # b
      <4>1. c \in x.of /\ c < b /\ ~ b < b
        BY <3>2
      <4> QED  BY <2>1, <4>1
    <3> QED  BY <3>1, <3>2, <3>3
  <2> HIDE DEF P, T
  <2>3. /\ IsFiniteSet(P \ {b}) /\ Cardinality(P \ {b}) = Cardinality(P) - 1
        /\ Cardinality(P) \in Nat
    BY <2>2, FS_RemoveElement, FS_CardinalityType
  <2>4. Cardinality(T) <= Cardinality(P \ {b}) /\ Cardinality(T) \in Nat
    BY <2>2, <2>3, FS_Subset, FS_CardinalityType
  <2>5. Cardinality(P) <= SourceCap
    BY <2>1 DEF WithinCap, P
  <2>6. Cardinality(T) < SourceCap
    BY <2>3, <2>4, <2>5
  <2> QED  BY <2>6 DEF T
<1> QED  BY <1>1 DEF Sources

\* A step of sheet D.
StepOf(D) ==
  \/ \E S \in SUBSET Bookings : Open(D, S)
  \/ Reconcile(D)
  \/ \E r \in Rates : Submit(D, r)
  \/ \E bill \in sheet[D].todo : Post(D, bill)
  \/ Answered(D) \/ Unanswered(D) \/ Refused(D)
  \/ Finish(D) \/ Record(D) \/ RecordFails(D) \/ Leave(D) \/ Navigate(D)

\* A step that leaves all sheets and the storage alone.
Around ==
  \/ \E b \in Bookings : RecordCancellation(b)
  \/ \E bill \in wire : Arrive(bill) \/ Drop(bill)
  \/ \E t \in Tabs : \E S \in SUBSET Bookings : Waive(t, S)
  \/ UNCHANGED vars

LEMMA PageStep ==
  ASSUME WithinCap, NEW D \in Desks, TypeOK, RowInv, PageInv(D),
         Around \/ StepOf(D) \/ Reload(Tab[D])
  PROVE  PageInv(D)'
<1>0. /\ FrozenIsKept(D) /\ TodoIsSubmitted(D) /\ OnePayer(D) /\ Disjoint(D)
      /\ WireIsKept(D) /\ Covered(D) /\ TodoIsOpen(D) /\ FirstAttempt(D)
  BY DEF PageInv
<1>a. D \in Desks /\ Tab[D] \in Tabs
  BY TabOf
<1>b. /\ wire \subseteq Bill /\ invoices \subseteq Bill /\ kept[Tab[D]] \subseteq Bill
      /\ sheet[D].todo \subseteq Bill /\ sheet[D].frozen \subseteq Bill
      /\ sheet[D].billed \subseteq invoices
  BY <1>a DEF TypeOK, Sheet, RowInv
<1>1. ASSUME NEW b \in Bookings, RecordCancellation(b) PROVE PageInv(D)'
  BY <1>0, <1>1 DEF RecordCancellation, PageInv, FrozenIsKept, TodoIsSubmitted, OnePayer,
     Disjoint, WireIsKept, Covered, TodoIsOpen, FirstAttempt, Claims
<1>2. ASSUME NEW bill \in wire, Arrive(bill) PROVE PageInv(D)'
  <2>1. wire' = wire \ {bill} /\ invoices' = invoices \cup {bill} /\ UNCHANGED <<sheet, kept>>
    BY <1>2 DEF Arrive
  <2>2. bill \in wire
    OBVIOUS
  <2>3. FrozenIsKept(D)'
    BY <1>0, <1>b, <2>1, <2>2 DEF FrozenIsKept
  <2>4. TodoIsSubmitted(D)'
    BY <1>0, <1>b, <2>1, <2>2 DEF TodoIsSubmitted, Submitting
  <2>5. OnePayer(D)'
    BY <1>0, <1>b, <2>1, <2>2 DEF OnePayer, Claims, FrozenIsKept
  <2>6. Disjoint(D)'
    BY <1>0, <1>b, <2>1, <2>2 DEF Disjoint, Claims, FrozenIsKept
  <2>7. WireIsKept(D)'
    BY <1>0, <1>b, <2>1, <2>2 DEF WireIsKept, FrozenIsKept
  <2>8. Covered(D)'
    BY <1>0, <1>b, <2>1, <2>2 DEF Covered, FrozenIsKept, WireIsKept
  <2>9. TodoIsOpen(D)'
    BY <1>0, <1>b, <2>1, <2>2 DEF TodoIsOpen, TodoIsSubmitted, Submitting
  <2>10. FirstAttempt(D)'
    BY <1>0, <1>b, <2>1, <2>2 DEF FirstAttempt, FrozenIsKept, Covered, TodoIsOpen
  <2> QED  BY <2>3, <2>4, <2>5, <2>6, <2>7, <2>8, <2>9, <2>10 DEF PageInv
<1>3. ASSUME NEW bill \in wire, Drop(bill) PROVE PageInv(D)'
  <2>1. wire' = wire \ {bill} /\ UNCHANGED <<invoices, sheet, kept>>
    BY <1>3 DEF Drop
  <2>2. bill \in wire
    OBVIOUS
  <2>3. FrozenIsKept(D)'
    BY <1>0, <1>b, <2>1, <2>2 DEF FrozenIsKept
  <2>4. TodoIsSubmitted(D)'
    BY <1>0, <1>b, <2>1, <2>2 DEF TodoIsSubmitted, Submitting
  <2>5. OnePayer(D)'
    BY <1>0, <1>b, <2>1, <2>2 DEF OnePayer, Claims, FrozenIsKept
  <2>6. Disjoint(D)'
    BY <1>0, <1>b, <2>1, <2>2 DEF Disjoint, Claims, FrozenIsKept
  <2>7. WireIsKept(D)'
    BY <1>0, <1>b, <2>1, <2>2 DEF WireIsKept, FrozenIsKept
  <2>8. Covered(D)'
    BY <1>0, <1>b, <2>1, <2>2 DEF Covered, FrozenIsKept, WireIsKept
  <2>9. TodoIsOpen(D)'
    BY <1>0, <1>b, <2>1, <2>2 DEF TodoIsOpen, TodoIsSubmitted, Submitting
  <2>10. FirstAttempt(D)'
    BY <1>0, <1>b, <2>1, <2>2 DEF FirstAttempt, FrozenIsKept, Covered, TodoIsOpen
  <2> QED  BY <2>3, <2>4, <2>5, <2>6, <2>7, <2>8, <2>9, <2>10 DEF PageInv
<1>4. ASSUME NEW t \in Tabs, NEW S \in SUBSET Bookings, Waive(t, S) PROVE PageInv(D)'
  BY <1>0, <1>4 DEF Waive, PageInv, FrozenIsKept, TodoIsSubmitted, OnePayer,
     Disjoint, WireIsKept, Covered, TodoIsOpen, FirstAttempt, Claims
<1>5. ASSUME NEW S \in SUBSET Bookings, Open(D, S) PROVE PageInv(D)'
  <2>1. sheet[D].pc = "closed" /\ UNCHANGED <<wire, invoices, kept>>
    BY <1>a, <1>5 DEF Open, TypeOK
  <2>2. /\ sheet'[D].pc = "reading"
        /\ sheet'[D].known = {}
        /\ sheet'[D].frozen = kept[Tab[D]]
        /\ sheet'[D].todo = {}
        /\ sheet'[D].bill = NoBill
    BY <1>a, <1>5, OpenSheet DEF Shows
  <2>3. FrozenIsKept(D)'
    BY <1>0, <1>b, <2>1, <2>2 DEF FrozenIsKept
  <2>4. TodoIsSubmitted(D)'
    BY <1>0, <1>b, <2>1, <2>2 DEF TodoIsSubmitted, Submitting
  <2>5. OnePayer(D)'
    BY <1>0, <1>b, <2>1, <2>2 DEF OnePayer, Claims, FrozenIsKept
  <2>6. Disjoint(D)'
    BY <1>0, <1>b, <2>1, <2>2 DEF Disjoint, Claims, FrozenIsKept
  <2>7. WireIsKept(D)'
    BY <1>0, <1>b, <2>1, <2>2 DEF WireIsKept, FrozenIsKept
  <2>8. Covered(D)'
    BY <1>0, <1>b, <2>1, <2>2 DEF Covered, FrozenIsKept, WireIsKept
  <2>9. TodoIsOpen(D)'
    BY <1>0, <1>b, <2>1, <2>2 DEF TodoIsOpen, TodoIsSubmitted, Submitting
  <2>10. FirstAttempt(D)'
    BY <1>0, <1>b, <2>1, <2>2 DEF FirstAttempt, FrozenIsKept, Covered, TodoIsOpen
  <2> QED  BY <2>3, <2>4, <2>5, <2>6, <2>7, <2>8, <2>9, <2>10 DEF PageInv
<1>6. ASSUME Reconcile(D) PROVE PageInv(D)'
  <2>1. sheet[D].pc = "reading" /\ UNCHANGED <<wire, invoices, kept>>
    BY <1>a, <1>6 DEF Reconcile, TypeOK
  <2>2. /\ sheet'[D].pc = "ready"
        /\ sheet'[D].known = UNION {Sources(i) : i \in invoices}
        /\ sheet'[D].frozen = sheet[D].frozen
        /\ sheet'[D].todo = sheet[D].todo
        /\ sheet'[D].bill = sheet[D].bill
    BY <1>a, <1>6, ReconcileSheet DEF Shows
  <2>3. FrozenIsKept(D)'
    BY <1>0, <1>b, <2>1, <2>2 DEF FrozenIsKept
  <2>4. TodoIsSubmitted(D)'
    BY <1>0, <1>b, <2>1, <2>2 DEF TodoIsSubmitted, Submitting
  <2>5. OnePayer(D)'
    BY <1>0, <1>b, <2>1, <2>2 DEF OnePayer, Claims, FrozenIsKept
  <2>6. Disjoint(D)'
    BY <1>0, <1>b, <2>1, <2>2 DEF Disjoint, Claims, FrozenIsKept
  <2>7. WireIsKept(D)'
    BY <1>0, <1>b, <2>1, <2>2 DEF WireIsKept, FrozenIsKept
  <2>8. Covered(D)'
    <3>1. \A i \in invoices : Sources(i) = i.of
      BY <1>0, <1>b, SourcesAll DEF OnePayer, Claims
    <3>2. \A i \in invoices : i.of \subseteq sheet'[D].known
      BY <2>2, <3>1
    <3> QED  BY <1>0, <2>1, <3>2 DEF Covered, WireIsKept
  <2>9. TodoIsOpen(D)'
    BY <1>0, <1>b, <2>1, <2>2 DEF TodoIsOpen, TodoIsSubmitted, Submitting
  <2>10. FirstAttempt(D)'
    BY <1>0, <1>b, <2>1, <2>2 DEF FirstAttempt, FrozenIsKept, Covered, TodoIsOpen
  <2> QED  BY <2>3, <2>4, <2>5, <2>6, <2>7, <2>8, <2>9, <2>10 DEF PageInv
<1>7. ASSUME NEW r \in Rates, Submit(D, r) PROVE PageInv(D)'
  <2>1. /\ sheet[D].pc = "ready" /\ ~Conflict(D)
        /\ UNCHANGED <<wire, invoices, kept>>
    BY <1>a, <1>7 DEF Submit, TypeOK
  <2>2. /\ sheet'[D].pc = "posting"
        /\ sheet'[D].known = sheet[D].known
        /\ sheet'[D].frozen = sheet[D].frozen
        /\ sheet'[D].todo = Planned(D, r)
        /\ sheet'[D].bill = sheet[D].bill
    BY <1>a, <1>7, SubmitSheet DEF Shows
  <2>a. ASSUME NEW x \in Planned(D, r)
        PROVE  /\ x \in Bill /\ x.of \in Groups(D)
               /\ x.of # {} /\ x.of \cap sheet[D].known = {}
               /\ \/ x \in kept[Tab[D]]
                  \/ /\ \A f \in kept[Tab[D]] : f.of \cap x.of = {}
                     /\ \A b \in x.of : Payer[b] = x.payer
    <3>1. PICK g \in Groups(D) : x = BillFor(D, r, g)
      BY DEF Planned
    <3>2. /\ x \in Bill /\ x.of = g
          /\ \/ x \in sheet[D].frozen
             \/ /\ ~ \E f \in sheet[D].frozen : f.of = g
                /\ \A b \in g : Payer[b] = x.payer
      BY <1>a, <3>1, BillForFacts
    <3>3. g # {} /\ g \cap sheet[D].known = {}
      BY <1>a, GroupFacts
    <3>4. sheet[D].frozen = kept[Tab[D]]
      BY <1>0, <2>1 DEF FrozenIsKept
    <3>5. \A f \in kept[Tab[D]] : f.of # g => f.of \cap g = {}
      BY <2>1, <3>4 DEF Conflict
    <3> QED  BY <3>2, <3>3, <3>4, <3>5
  <2>b. ASSUME NEW x \in Planned(D, r), NEW y \in Planned(D, r), x.of \cap y.of # {}
        PROVE  x = y
    <3>1. PICK g \in Groups(D) : x = BillFor(D, r, g)
      BY DEF Planned
    <3>2. PICK h \in Groups(D) : y = BillFor(D, r, h)
      BY DEF Planned
    <3>3. x.of = g /\ y.of = h
      BY <1>a, <3>1, <3>2, BillForFacts
    <3>4. g = h
      BY <1>a, <2>b, <3>3, GroupFacts
    <3> QED  BY <3>1, <3>2, <3>4
  <2>c. Claims(D)' = wire \cup invoices \cup kept[Tab[D]] \cup Planned(D, r)
    BY <2>1, <2>2 DEF Claims
  <2>3. FrozenIsKept(D)'
    BY <1>0, <1>b, <2>1, <2>2 DEF FrozenIsKept
  <2>4. TodoIsSubmitted(D)'
    BY <1>0, <1>b, <2>1, <2>2 DEF TodoIsSubmitted, Submitting
  <2>5. OnePayer(D)'
    <3> SUFFICES ASSUME NEW x \in Claims(D)', NEW b \in x.of
                 PROVE  Payer[b] = x.payer
      BY DEF OnePayer
    <3>1. CASE x \in Claims(D)
      BY <1>0, <3>1 DEF OnePayer
    <3>2. CASE x \in Planned(D, r) /\ x \notin kept[Tab[D]]
      BY <2>a, <3>2
    <3> QED  BY <2>c, <3>1, <3>2 DEF Claims
  <2>6. Disjoint(D)'
    <3>1. ASSUME NEW x \in Planned(D, r), NEW y \in Claims(D), x.of \cap y.of # {}
          PROVE  x = y
      <4>1. sheet[D].todo = {}
        BY <1>0, <2>1 DEF TodoIsSubmitted, Submitting
      <4>2. x \in kept[Tab[D]] => x \in Claims(D)
        BY DEF Claims
      <4>3. y \in kept[Tab[D]] \/ y.of \subseteq sheet[D].known
        BY <1>0, <2>1, <4>1 DEF Covered, Claims
      <4>4. y \in kept[Tab[D]]
        BY <2>a, <3>1, <4>3
      <4>5. x \in kept[Tab[D]]
        BY <2>a, <3>1, <4>4
      <4> QED  BY <1>0, <3>1, <4>2, <4>5 DEF Disjoint
    <3> SUFFICES ASSUME NEW x \in Claims(D)', NEW y \in Claims(D)', x.of \cap y.of # {}
                 PROVE  x = y
      BY DEF Disjoint
    <3>2. CASE x \in Claims(D) /\ y \in Claims(D)
      BY <1>0, <3>2 DEF Disjoint
    <3>3. CASE x \in Planned(D, r) /\ y \in Claims(D)
      BY <3>1, <3>3
    <3>4. CASE x \in Claims(D) /\ y \in Planned(D, r)
      BY <3>1, <3>4
    <3>5. CASE x \in Planned(D, r) /\ y \in Planned(D, r)
      BY <2>b, <3>5
    <3> QED  BY <2>c, <3>2, <3>3, <3>4, <3>5 DEF Claims
  <2>7. WireIsKept(D)'
    BY <1>0, <1>b, <2>1, <2>2 DEF WireIsKept, FrozenIsKept
  <2>8. Covered(D)'
    BY <1>0, <1>b, <2>1, <2>2 DEF Covered, FrozenIsKept, WireIsKept
  <2>9. TodoIsOpen(D)'
    BY <2>2, <2>a DEF TodoIsOpen
  <2>10. FirstAttempt(D)'
    BY <1>0, <1>b, <2>1, <2>2 DEF FirstAttempt, FrozenIsKept, Covered, TodoIsOpen
  <2> QED  BY <2>3, <2>4, <2>5, <2>6, <2>7, <2>8, <2>9, <2>10 DEF PageInv
<1>8. ASSUME NEW bill \in sheet[D].todo, Post(D, bill) PROVE PageInv(D)'
  <2>1. /\ sheet[D].pc = "posting"
        /\ wire' = wire \cup {bill} /\ invoices' = invoices /\ kept'[Tab[D]] = sheet[D].frozen \cup {bill}
    BY <1>a, <1>8 DEF Post, TypeOK
  <2>2. /\ sheet'[D].pc = "waiting"
        /\ sheet'[D].known = sheet[D].known
        /\ sheet'[D].frozen = sheet[D].frozen \cup {bill}
        /\ sheet'[D].todo = sheet[D].todo \ {bill}
        /\ sheet'[D].bill = bill
        /\ sheet'[D].fresh <=> bill \notin sheet[D].frozen
    BY <1>a, <1>8, PostSheet DEF Shows
  <2>3. FrozenIsKept(D)'
    BY <1>0, <1>b, <2>1, <2>2 DEF FrozenIsKept
  <2>4. TodoIsSubmitted(D)'
    BY <1>0, <1>b, <2>1, <2>2 DEF TodoIsSubmitted, Submitting
  <2>5. OnePayer(D)'
    BY <1>0, <1>b, <2>1, <2>2 DEF OnePayer, Claims, FrozenIsKept
  <2>6. Disjoint(D)'
    BY <1>0, <1>b, <2>1, <2>2 DEF Disjoint, Claims, FrozenIsKept
  <2>7. WireIsKept(D)'
    BY <1>0, <1>b, <2>1, <2>2 DEF WireIsKept, FrozenIsKept
  <2>8. Covered(D)'
    BY <1>0, <1>b, <2>1, <2>2 DEF Covered, FrozenIsKept, WireIsKept
  <2>9. TodoIsOpen(D)'
    BY <1>0, <1>b, <2>1, <2>2 DEF TodoIsOpen, TodoIsSubmitted, Submitting
  <2>10. FirstAttempt(D)'
    BY <1>0, <1>b, <2>1, <2>2 DEF FirstAttempt, FrozenIsKept, Covered, TodoIsOpen
  <2> QED  BY <2>3, <2>4, <2>5, <2>6, <2>7, <2>8, <2>9, <2>10 DEF PageInv
<1>9. ASSUME Answered(D) PROVE PageInv(D)'
  <2>1. sheet[D].pc = "waiting" /\ UNCHANGED <<wire, invoices, kept>>
    BY <1>a, <1>9 DEF Answered, TypeOK
  <2>2. /\ sheet'[D].pc = "posting"
        /\ sheet'[D].known = sheet[D].known
        /\ sheet'[D].frozen = sheet[D].frozen
        /\ sheet'[D].todo = sheet[D].todo
        /\ sheet'[D].bill = NoBill
    BY <1>a, <1>9, AnsweredSheet DEF Shows
  <2>3. FrozenIsKept(D)'
    BY <1>0, <1>b, <2>1, <2>2 DEF FrozenIsKept
  <2>4. TodoIsSubmitted(D)'
    BY <1>0, <1>b, <2>1, <2>2 DEF TodoIsSubmitted, Submitting
  <2>5. OnePayer(D)'
    BY <1>0, <1>b, <2>1, <2>2 DEF OnePayer, Claims, FrozenIsKept
  <2>6. Disjoint(D)'
    BY <1>0, <1>b, <2>1, <2>2 DEF Disjoint, Claims, FrozenIsKept
  <2>7. WireIsKept(D)'
    BY <1>0, <1>b, <2>1, <2>2 DEF WireIsKept, FrozenIsKept
  <2>8. Covered(D)'
    BY <1>0, <1>b, <2>1, <2>2 DEF Covered, FrozenIsKept, WireIsKept
  <2>9. TodoIsOpen(D)'
    BY <1>0, <1>b, <2>1, <2>2 DEF TodoIsOpen, TodoIsSubmitted, Submitting
  <2>10. FirstAttempt(D)'
    BY <1>0, <1>b, <2>1, <2>2 DEF FirstAttempt, FrozenIsKept, Covered, TodoIsOpen
  <2> QED  BY <2>3, <2>4, <2>5, <2>6, <2>7, <2>8, <2>9, <2>10 DEF PageInv
<1>10. ASSUME Unanswered(D) PROVE PageInv(D)'
  <2>1. sheet[D].pc = "waiting" /\ UNCHANGED <<wire, invoices, kept>>
    BY <1>a, <1>10 DEF Unanswered, TypeOK
  <2>2. /\ sheet'[D].pc = "posting"
        /\ sheet'[D].known = sheet[D].known
        /\ sheet'[D].frozen = sheet[D].frozen
        /\ sheet'[D].todo = sheet[D].todo
        /\ sheet'[D].bill = NoBill
    BY <1>a, <1>10, UnansweredSheet DEF Shows
  <2>3. FrozenIsKept(D)'
    BY <1>0, <1>b, <2>1, <2>2 DEF FrozenIsKept
  <2>4. TodoIsSubmitted(D)'
    BY <1>0, <1>b, <2>1, <2>2 DEF TodoIsSubmitted, Submitting
  <2>5. OnePayer(D)'
    BY <1>0, <1>b, <2>1, <2>2 DEF OnePayer, Claims, FrozenIsKept
  <2>6. Disjoint(D)'
    BY <1>0, <1>b, <2>1, <2>2 DEF Disjoint, Claims, FrozenIsKept
  <2>7. WireIsKept(D)'
    BY <1>0, <1>b, <2>1, <2>2 DEF WireIsKept, FrozenIsKept
  <2>8. Covered(D)'
    BY <1>0, <1>b, <2>1, <2>2 DEF Covered, FrozenIsKept, WireIsKept
  <2>9. TodoIsOpen(D)'
    BY <1>0, <1>b, <2>1, <2>2 DEF TodoIsOpen, TodoIsSubmitted, Submitting
  <2>10. FirstAttempt(D)'
    BY <1>0, <1>b, <2>1, <2>2 DEF FirstAttempt, FrozenIsKept, Covered, TodoIsOpen
  <2> QED  BY <2>3, <2>4, <2>5, <2>6, <2>7, <2>8, <2>9, <2>10 DEF PageInv
<1>11. ASSUME Refused(D) PROVE PageInv(D)'
  <2>1. /\ sheet[D].pc = "waiting" /\ sheet[D].bill \in wire
        /\ invoices' = invoices /\ kept'[Tab[D]] = LeftAfterRefusal(D)
    BY <1>a, <1>11 DEF Refused, TypeOK
  <2>2. /\ sheet'[D].pc = "posting"
        /\ sheet'[D].known = sheet[D].known
        /\ sheet'[D].frozen = LeftAfterRefusal(D)
        /\ sheet'[D].todo = sheet[D].todo
        /\ sheet'[D].bill = NoBill
    BY <1>a, <1>11, RefusedSheet DEF Shows
  <2>a. \/ wire' = wire \ {sheet[D].bill}
        \/ ~sheet[D].fresh /\ wire' = wire
    BY <1>11 DEF Refused
  <2>b. /\ sheet[D].frozen = kept[Tab[D]] /\ kept'[Tab[D]] \subseteq kept[Tab[D]]
        /\ sheet[D].fresh => kept'[Tab[D]] = kept[Tab[D]] \ {sheet[D].bill}
        /\ ~sheet[D].fresh => kept'[Tab[D]] = kept[Tab[D]]
    BY <1>0, <2>1 DEF FrozenIsKept, LeftAfterRefusal
  <2>c. Claims(D)' \subseteq Claims(D) /\ wire' \subseteq wire
    BY <2>1, <2>2, <2>a, <2>b DEF Claims
  <2>3. FrozenIsKept(D)'
    BY <1>0, <1>b, <2>1, <2>2 DEF FrozenIsKept
  <2>4. TodoIsSubmitted(D)'
    BY <1>0, <1>b, <2>1, <2>2 DEF TodoIsSubmitted, Submitting
  <2>5. OnePayer(D)'
    BY <1>0, <2>c DEF OnePayer
  <2>6. Disjoint(D)'
    BY <1>0, <2>c DEF Disjoint
  <2>7. WireIsKept(D)'
    BY <1>0, <2>1, <2>a, <2>b, <2>c DEF WireIsKept
  <2>8. Covered(D)'
    <3>1. sheet[D].fresh => sheet[D].bill \notin wire' \cup invoices
      BY <1>0, <2>1, <2>a DEF FirstAttempt
    <3> QED  BY <1>0, <2>1, <2>2, <2>b, <2>c, <3>1 DEF Covered
  <2>9. TodoIsOpen(D)'
    BY <1>0, <1>b, <2>1, <2>2 DEF TodoIsOpen, TodoIsSubmitted, Submitting
  <2>10. FirstAttempt(D)'
    BY <1>0, <1>b, <2>1, <2>2 DEF FirstAttempt, FrozenIsKept, Covered, TodoIsOpen
  <2> QED  BY <2>3, <2>4, <2>5, <2>6, <2>7, <2>8, <2>9, <2>10 DEF PageInv
<1>12. ASSUME Finish(D) PROVE PageInv(D)'
  <2>1. /\ sheet[D].pc = "posting" /\ sheet[D].todo = {}
        /\ UNCHANGED <<wire, invoices, kept>>
    BY <1>a, <1>12 DEF Finish, TypeOK
  <2>2. /\ sheet'[D].pc \in {"ready", "settling"}
        /\ sheet'[D].known = sheet[D].known
        /\ sheet'[D].frozen = sheet[D].frozen
        /\ sheet'[D].todo = sheet[D].todo
        /\ sheet'[D].bill = sheet[D].bill
    BY <1>a, <1>12, FinishSheet DEF Shows
  <2>3. FrozenIsKept(D)'
    BY <1>0, <1>b, <2>1, <2>2 DEF FrozenIsKept
  <2>4. TodoIsSubmitted(D)'
    BY <1>0, <1>b, <2>1, <2>2 DEF TodoIsSubmitted, Submitting
  <2>5. OnePayer(D)'
    BY <1>0, <1>b, <2>1, <2>2 DEF OnePayer, Claims, FrozenIsKept
  <2>6. Disjoint(D)'
    BY <1>0, <1>b, <2>1, <2>2 DEF Disjoint, Claims, FrozenIsKept
  <2>7. WireIsKept(D)'
    BY <1>0, <1>b, <2>1, <2>2 DEF WireIsKept, FrozenIsKept
  <2>8. Covered(D)'
    BY <1>0, <1>b, <2>1, <2>2 DEF Covered, FrozenIsKept, WireIsKept
  <2>9. TodoIsOpen(D)'
    BY <1>0, <1>b, <2>1, <2>2 DEF TodoIsOpen, TodoIsSubmitted, Submitting
  <2>10. FirstAttempt(D)'
    BY <1>0, <1>b, <2>1, <2>2 DEF FirstAttempt, FrozenIsKept, Covered, TodoIsOpen
  <2> QED  BY <2>3, <2>4, <2>5, <2>6, <2>7, <2>8, <2>9, <2>10 DEF PageInv
<1>13. ASSUME Record(D) PROVE PageInv(D)'
  <2>1. /\ sheet[D].pc = "settling"
        /\ UNCHANGED <<wire, invoices>> /\ kept'[Tab[D]] = sheet[D].frozen \ sheet[D].billed
    BY <1>a, <1>13 DEF Record, TypeOK
  <2>2. /\ sheet'[D].pc = "closed"
        /\ sheet'[D].known = {}
        /\ sheet'[D].frozen = {}
        /\ sheet'[D].todo = {}
        /\ sheet'[D].bill = NoBill
    BY <1>a, <1>13, RecordSheet DEF Shows
  <2>3. FrozenIsKept(D)'
    BY <1>0, <1>b, <2>1, <2>2 DEF FrozenIsKept
  <2>4. TodoIsSubmitted(D)'
    BY <1>0, <1>b, <2>1, <2>2 DEF TodoIsSubmitted, Submitting
  <2>5. OnePayer(D)'
    BY <1>0, <1>b, <2>1, <2>2 DEF OnePayer, Claims, FrozenIsKept
  <2>6. Disjoint(D)'
    BY <1>0, <1>b, <2>1, <2>2 DEF Disjoint, Claims, FrozenIsKept
  <2>7. WireIsKept(D)'
    BY <1>0, <1>b, <2>1, <2>2 DEF WireIsKept, FrozenIsKept
  <2>8. Covered(D)'
    BY <1>0, <1>b, <2>1, <2>2 DEF Covered, FrozenIsKept, WireIsKept
  <2>9. TodoIsOpen(D)'
    BY <1>0, <1>b, <2>1, <2>2 DEF TodoIsOpen, TodoIsSubmitted, Submitting
  <2>10. FirstAttempt(D)'
    BY <1>0, <1>b, <2>1, <2>2 DEF FirstAttempt, FrozenIsKept, Covered, TodoIsOpen
  <2> QED  BY <2>3, <2>4, <2>5, <2>6, <2>7, <2>8, <2>9, <2>10 DEF PageInv
<1>14. ASSUME RecordFails(D) PROVE PageInv(D)'
  <2>1. sheet[D].pc = "settling" /\ UNCHANGED <<wire, invoices, kept>>
    BY <1>a, <1>14 DEF RecordFails, TypeOK
  <2>2. /\ sheet'[D].pc = "ready"
        /\ sheet'[D].known = sheet[D].known
        /\ sheet'[D].frozen = sheet[D].frozen
        /\ sheet'[D].todo = sheet[D].todo
        /\ sheet'[D].bill = sheet[D].bill
    BY <1>a, <1>14, RecordFailsSheet DEF Shows
  <2>3. FrozenIsKept(D)'
    BY <1>0, <1>b, <2>1, <2>2 DEF FrozenIsKept
  <2>4. TodoIsSubmitted(D)'
    BY <1>0, <1>b, <2>1, <2>2 DEF TodoIsSubmitted, Submitting
  <2>5. OnePayer(D)'
    BY <1>0, <1>b, <2>1, <2>2 DEF OnePayer, Claims, FrozenIsKept
  <2>6. Disjoint(D)'
    BY <1>0, <1>b, <2>1, <2>2 DEF Disjoint, Claims, FrozenIsKept
  <2>7. WireIsKept(D)'
    BY <1>0, <1>b, <2>1, <2>2 DEF WireIsKept, FrozenIsKept
  <2>8. Covered(D)'
    BY <1>0, <1>b, <2>1, <2>2 DEF Covered, FrozenIsKept, WireIsKept
  <2>9. TodoIsOpen(D)'
    BY <1>0, <1>b, <2>1, <2>2 DEF TodoIsOpen, TodoIsSubmitted, Submitting
  <2>10. FirstAttempt(D)'
    BY <1>0, <1>b, <2>1, <2>2 DEF FirstAttempt, FrozenIsKept, Covered, TodoIsOpen
  <2> QED  BY <2>3, <2>4, <2>5, <2>6, <2>7, <2>8, <2>9, <2>10 DEF PageInv
<1>15. ASSUME Leave(D) \/ Reload(Tab[D]) PROVE PageInv(D)'
  <2>1. UNCHANGED <<wire, invoices, kept>>
    BY <1>15 DEF Leave, Reload
  <2>2. /\ sheet'[D].pc = "closed"
        /\ sheet'[D].known = {}
        /\ sheet'[D].frozen = {}
        /\ sheet'[D].todo = {}
        /\ sheet'[D].bill = NoBill
    <3>1. CASE Leave(D)
      BY <1>a, <3>1, LeaveSheet DEF Shows
    <3>2. CASE Reload(Tab[D])
      BY <1>a, <3>2, ReloadSheet DEF Closed
    <3> QED  BY <1>15, <3>1, <3>2 DEF Closed
  <2>3. FrozenIsKept(D)'
    BY <1>0, <1>b, <2>1, <2>2 DEF FrozenIsKept
  <2>4. TodoIsSubmitted(D)'
    BY <1>0, <1>b, <2>1, <2>2 DEF TodoIsSubmitted, Submitting
  <2>5. OnePayer(D)'
    BY <1>0, <1>b, <2>1, <2>2 DEF OnePayer, Claims, FrozenIsKept
  <2>6. Disjoint(D)'
    BY <1>0, <1>b, <2>1, <2>2 DEF Disjoint, Claims, FrozenIsKept
  <2>7. WireIsKept(D)'
    BY <1>0, <1>b, <2>1, <2>2 DEF WireIsKept, FrozenIsKept
  <2>8. Covered(D)'
    BY <1>0, <1>b, <2>1, <2>2 DEF Covered, FrozenIsKept, WireIsKept
  <2>9. TodoIsOpen(D)'
    BY <1>0, <1>b, <2>1, <2>2 DEF TodoIsOpen, TodoIsSubmitted, Submitting
  <2>10. FirstAttempt(D)'
    BY <1>0, <1>b, <2>1, <2>2 DEF FirstAttempt, FrozenIsKept, Covered, TodoIsOpen
  <2> QED  BY <2>3, <2>4, <2>5, <2>6, <2>7, <2>8, <2>9, <2>10 DEF PageInv
<1>16. ASSUME UNCHANGED vars PROVE PageInv(D)'
  BY <1>0, <1>16 DEF vars, PageInv, FrozenIsKept, TodoIsSubmitted, OnePayer,
     Disjoint, WireIsKept, Covered, TodoIsOpen, FirstAttempt, Claims
<1>17. ASSUME Navigate(D) PROVE PageInv(D)'
  BY <1>0, <1>17 DEF Navigate, PageInv, FrozenIsKept, TodoIsSubmitted, OnePayer,
     Disjoint, WireIsKept, Covered, TodoIsOpen, FirstAttempt, Claims
<1> QED
  BY <1>1, <1>2, <1>3, <1>4, <1>5, <1>6, <1>7, <1>8, <1>9, <1>10, <1>11, <1>12,
     <1>13, <1>14, <1>15, <1>16, <1>17 DEF Around, StepOf

\* A sheet touches no other sheet, and the storage of its own tab only.
LEMMA OthersKept ==
  ASSUME TypeOK, NEW D \in Desks, StepOf(D)
  PROVE  /\ \A e \in Desks : e # D => sheet'[e] = sheet[e]
         /\ \A t \in Tabs : t # Tab[D] => kept'[t] = kept[t]
<1>1. \A e \in Desks : e # D => sheet'[e] = sheet[e]
  BY OpenSheet, ReconcileSheet, SubmitSheet, PostSheet, AnsweredSheet, UnansweredSheet,
     RefusedSheet, FinishSheet, RecordSheet, RecordFailsSheet, LeaveSheet
     DEF StepOf, Shows, Navigate
<1>2. kept' = kept \/ \E x : kept' = [kept EXCEPT ![Tab[D]] = x]
  BY DEF StepOf, Open, Reconcile, Submit, Post, Answered, Unanswered, Refused, Finish,
         Record, RecordFails, Leave, Navigate
<1>3. \A t \in Tabs : t # Tab[D] => kept'[t] = kept[t]
  BY <1>2 DEF TypeOK
<1> QED  BY <1>1, <1>3

\* A sheet opened when the others are over takes up what the last one left.
LEMMA Handover ==
  ASSUME NEW D \in Desks, Lead(D), NEW d \in Desks, Alone(d)
  PROVE  PageInv(d)
<1>1. /\ sheet[D].pc = "closed" /\ sheet[d].pc = "closed"
      /\ sheet[d].todo = {}
  BY DEF Alone, Lead, PageInv, TodoIsSubmitted, Submitting
<1>2. kept[Tab[d]] = kept[Tab[D]]
  BY TabOf DEF Alone, Lead
<1>3. Claims(d) \subseteq Claims(D)
  BY <1>1, <1>2 DEF Claims
<1>4. OnePayer(d) /\ Disjoint(d) /\ WireIsKept(d)
  BY <1>2, <1>3 DEF Lead, PageInv, OnePayer, Disjoint, WireIsKept
<1>5. FrozenIsKept(d) /\ TodoIsSubmitted(d) /\ Covered(d) /\ TodoIsOpen(d) /\ FirstAttempt(d)
  BY <1>1 DEF FrozenIsKept, TodoIsSubmitted, Covered, TodoIsOpen, FirstAttempt
<1> QED  BY <1>4, <1>5 DEF PageInv

LEMMA TurnStep ==
  ASSUME WithinCap, TypeOK, RowInv, InTurn, [Next]_vars
  PROVE  InTurn'
<1>1. CASE contested
  <2>1. contested'
    BY <1>1 DEF Next, vars, RecordCancellation, Arrive, Drop, Waive, Open, Reconcile, Submit,
       Post, Answered, Unanswered, Refused, Finish, Record, RecordFails, Leave, Navigate,
       Reload
  <2> QED  BY <2>1 DEF InTurn
<1>2. ASSUME NEW D \in Desks, Lead(D) PROVE InTurn'
  <2>a. PageInv(D) /\ Tab[D] \in Tabs
    BY <1>2, TabOf DEF Lead
  <2>1. CASE Around
    <3>1. PageInv(D)'
      BY <2>1, <2>a, PageStep
    <3>2. UNCHANGED <<sheet, kept>>
      BY <2>1 DEF Around, vars, RecordCancellation, Arrive, Drop, Waive
    <3> QED  BY <1>2, <3>1, <3>2 DEF Lead, InTurn
  <2>2. CASE StepOf(D)
    <3>1. PageInv(D)'
      BY <2>2, <2>a, PageStep
    <3> QED  BY <1>2, <2>2, <3>1, OthersKept DEF Lead, InTurn
  <2>3. ASSUME NEW t \in Tabs, Reload(t) PROVE InTurn'
    <3>1. t = Tab[D]
      BY <1>2, <2>3 DEF Reload, Lead
    <3>2. PageInv(D)'
      BY <2>3, <3>1, <2>a, PageStep
    <3>3. /\ kept' = kept
          /\ sheet' = [d \in Desks |-> IF Tab[d] = t THEN Closed ELSE sheet[d]]
      BY <2>3 DEF Reload
    <3>4. \A e \in Desks : e # D => sheet'[e].pc = "closed" /\ sheet'[e].todo = {}
      BY <1>2, <3>3 DEF Lead, Closed
    <3> QED  BY <1>2, <3>2, <3>3, <3>4 DEF Lead, InTurn
  <2>4. ASSUME NEW d \in Desks, d # D, StepOf(d) PROVE InTurn'
    <3>1. sheet[d].pc = "closed" /\ sheet[d].todo = {}
      BY <1>2, <2>4 DEF Lead
    <3>2. PICK S \in SUBSET Bookings : Open(d, S)
      BY <2>4, <3>1 DEF StepOf, Reconcile, Submit, Post, Answered, Unanswered, Refused,
         Finish, Record, RecordFails, Leave, Navigate
    <3>3. CASE ~Alone(d)
      BY <3>2, <3>3 DEF Open, InTurn
    <3>4. CASE Alone(d)
      <4>1. PageInv(d)'
        BY <1>2, <2>4, <3>4, Handover, PageStep
      <4>2. \A e \in Desks : sheet[e].pc = "closed" /\ sheet[e].todo = {}
        BY <1>2, <3>4 DEF Alone, Lead, PageInv, TodoIsSubmitted, Submitting
      <4>3. /\ \A e \in Desks : e # d => sheet'[e] = sheet[e]
            /\ \A t \in Tabs : t # Tab[d] => kept'[t] = kept[t]
        BY <2>4, OthersKept
      <4> QED  BY <3>4, <4>1, <4>2, <4>3 DEF Alone, Lead, InTurn
    <3> QED  BY <3>3, <3>4
  <2> QED  BY <2>1, <2>2, <2>3, <2>4 DEF Next, Around, StepOf
<1> QED  BY <1>1, <1>2 DEF InTurn

LEMMA TurnInductive == WithinCap => (Spec => [](TypeOK /\ InTurn))
<1> SUFFICES ASSUME WithinCap PROVE Spec => [](TypeOK /\ InTurn)
  OBVIOUS
<1>1. Init => InTurn
  <2> SUFFICES ASSUME Init PROVE InTurn
    OBVIOUS
  <2>1. PICK D \in Desks : TRUE
    BY TabAssumption
  <2>2. PageInv(D)
    BY TabOf DEF Init, PageInv, FrozenIsKept, TodoIsSubmitted, OnePayer, Disjoint,
       WireIsKept, Covered, TodoIsOpen, FirstAttempt, Claims, Closed
  <2>3. /\ \A e \in Desks : sheet[e].pc = "closed" /\ sheet[e].todo = {}
        /\ \A t \in Tabs : kept[t] = {}
    BY DEF Init, Closed
  <2> QED  BY <2>1, <2>2, <2>3 DEF Lead, InTurn
<1>2. TypeOK /\ RowInv /\ InTurn /\ [Next]_vars => InTurn'
  BY TurnStep
<1> QED  BY <1>1, <1>2, RowInductive, PTL DEF Spec

-----------------------------------------------------------------------------
(* The refinement *)

\* What Field's invoices say each booking was charged for.
Charged == [b \in Bookings |-> {i \in invoices : b \in i.of}]

LEMMA LedgerInit == Init => Ledger!Init
  BY DEF Init, Ledger!Init

\* Only a POST that arrives changes what Field holds, and while the sheets take
\* turns its bookings are charged for by it already or by nothing.
LEMMA LedgerStep ==
  ASSUME TypeOK, InTurn, [Next]_vars
  PROVE  Ledger!Next \/ UNCHANGED <<Charged, contested>>
<1>1. CASE invoices' = invoices /\ contested' = contested
  BY <1>1 DEF Charged
<1>2. ASSUME NEW bill \in wire, Arrive(bill)
      PROVE  Ledger!Next \/ UNCHANGED <<Charged, contested>>
  <2>1. invoices' = invoices \cup {bill} /\ contested' = contested /\ bill \in Bill
    BY <1>2 DEF Arrive, TypeOK
  <2>2. CASE bill \in invoices
    BY <1>1, <2>1, <2>2
  <2>3. CASE bill \notin invoices
    <3>1. contested \/ \A b \in bill.of : Charged[b] = {}
      <4> SUFFICES ASSUME ~contested, NEW b \in bill.of PROVE Charged[b] = {}
        OBVIOUS
      <4>1. PICK D \in Desks : Lead(D)
        BY DEF InTurn
      <4>2. ASSUME NEW i \in invoices PROVE b \notin i.of
        BY <2>3, <4>1 DEF Lead, PageInv, Disjoint, Claims
      <4> QED  BY <2>1, <4>2 DEF Charged, Bill
    <3>2. Charged' = [b \in Bookings |-> IF b \in bill.of THEN Charged[b] \cup {bill}
                                                        ELSE Charged[b]]
      <4>1. ASSUME NEW b \in Bookings
            PROVE  {i \in invoices' : b \in i.of} =
                     IF b \in bill.of THEN {i \in invoices : b \in i.of} \cup {bill}
                                       ELSE {i \in invoices : b \in i.of}
        BY <2>1
      <4> QED  BY <4>1 DEF Charged
    <3>3. Ledger!Charge(bill)
      BY <2>1, <3>1, <3>2 DEF Ledger!Charge, Charged
    <3> QED  BY <2>1, <3>3 DEF Ledger!Next
  <2> QED  BY <2>2, <2>3
<1>3. ASSUME NEW d \in Desks, NEW S \in SUBSET Bookings, Open(d, S)
      PROVE  Ledger!Next \/ UNCHANGED <<Charged, contested>>
  <2>1. invoices' = invoices /\ (contested' = TRUE \/ contested' = contested)
    BY <1>3 DEF Open, TypeOK
  <2>2. CASE contested' = TRUE
    BY <2>1, <2>2 DEF Ledger!Next, Ledger!Contest
  <2> QED  BY <1>1, <2>1, <2>2
<1>4. CASE UNCHANGED vars \/ \E b \in Bookings : RecordCancellation(b)
  BY <1>1, <1>4 DEF vars, RecordCancellation
<1>5. ASSUME NEW bill \in wire, Drop(bill)
      PROVE  invoices' = invoices /\ contested' = contested
  BY <1>5 DEF Drop
<1>6. ASSUME NEW S \in SUBSET Bookings, NEW t \in Tabs, Reload(t) \/ Waive(t, S)
      PROVE  invoices' = invoices /\ contested' = contested
  BY <1>6 DEF Waive, Reload
<1>7. ASSUME NEW d \in Desks,
             \/ Reconcile(d) \/ \E r \in Rates : Submit(d, r)
             \/ \E bill \in sheet[d].todo : Post(d, bill)
      PROVE  invoices' = invoices /\ contested' = contested
  BY <1>7 DEF Reconcile, Submit, Post
<1>8. ASSUME NEW d \in Desks,
             \/ Answered(d) \/ Unanswered(d) \/ Refused(d) \/ Finish(d)
             \/ Record(d) \/ RecordFails(d) \/ Leave(d) \/ Navigate(d)
      PROVE  invoices' = invoices /\ contested' = contested
  BY <1>8 DEF Answered, Unanswered, Refused, Finish, Record, RecordFails, Leave, Navigate
<1> QED  BY <1>1, <1>2, <1>3, <1>4, <1>5, <1>6, <1>7, <1>8 DEF Next

\* Sheets that bill in turn charge for each booking at most once and never take
\* a charge back, for any tabs, bookings, payers and rates, whatever POSTs are
\* lost, late, repeated or refused and however often a page is reloaded, or left
\* for a submission to end without it.
THEOREM SheetsInTurnAreTheLedger == WithinCap => (Spec => ImplementsLedger)
<1> SUFFICES ASSUME WithinCap PROVE Spec => ImplementsLedger
  OBVIOUS
<1>1. TypeOK /\ InTurn /\ [Next]_vars => [Ledger!Next]_<<Charged, contested>>
  BY LedgerStep
<1>2. Spec => [](TypeOK /\ InTurn)
  BY TurnInductive
<1> QED
  BY <1>1, <1>2, LedgerInit, PTL DEF Spec, ImplementsLedger, Ledger!Spec, Charged

-----------------------------------------------------------------------------
(***************************************************************************)
(* What a customer's play adds up to: CustomerVisits, for any customers,   *)
(* tee times, page size, cap and number of overlapping batches.            *)
(***************************************************************************)

-----------------------------------------------------------------------------
(* Ranks: a tee time's place in the listing is the number ahead of it. *)

Ahead(D, t) == {u \in D : u > t}

LEMMA AheadFinite ==
  ASSUME NEW D, IsFiniteSet(D), NEW t
  PROVE  /\ IsFiniteSet(Ahead(D, t)) /\ Cardinality(Ahead(D, t)) \in Nat
         /\ Cardinality(D) \in Nat /\ Cardinality(Ahead(D, t)) <= Cardinality(D)
<1>1. Ahead(D, t) \subseteq D
  BY DEF Ahead
<1>2. IsFiniteSet(Ahead(D, t)) /\ Cardinality(Ahead(D, t)) <= Cardinality(D)
  BY <1>1, FS_Subset
<1> QED  BY <1>2, FS_CardinalityType

\* The later of two has fewer ahead of it.
LEMMA AheadStrict ==
  ASSUME NEW D \in SUBSET Nat, IsFiniteSet(D), NEW s \in Nat, NEW t \in D, s < t
  PROVE  Cardinality(Ahead(D, t)) < Cardinality(Ahead(D, s))
<1>1. Ahead(D, t) \cup {t} \subseteq Ahead(D, s) /\ t \notin Ahead(D, t)
  <2>1. t \in Nat /\ \A u \in D : u \in Nat
    OBVIOUS
  <2>2. \A u \in D : u > t => u > s
    BY <2>1
  <2>3. t > s /\ ~ t > t
    BY <2>1
  <2> QED  BY <2>2, <2>3 DEF Ahead
<1>2. /\ IsFiniteSet(Ahead(D, t)) /\ IsFiniteSet(Ahead(D, s))
      /\ Cardinality(Ahead(D, t)) \in Nat /\ Cardinality(Ahead(D, s)) \in Nat
  BY AheadFinite
<1>3. Cardinality(Ahead(D, t) \cup {t}) = Cardinality(Ahead(D, t)) + 1
  BY <1>1, <1>2, FS_AddElement
<1>4. Cardinality(Ahead(D, t) \cup {t}) <= Cardinality(Ahead(D, s))
  BY <1>1, <1>2, FS_Subset
<1> QED  BY <1>2, <1>3, <1>4

LEMMA AheadOnce ==
  ASSUME NEW D \in SUBSET Nat, IsFiniteSet(D), NEW s \in D, NEW t \in D,
         Cardinality(Ahead(D, s)) = Cardinality(Ahead(D, t))
  PROVE  s = t
<1>1. Cardinality(Ahead(D, s)) \in Nat /\ Cardinality(Ahead(D, t)) \in Nat
  BY AheadFinite
<1>2. s \in Nat /\ t \in Nat
  OBVIOUS
<1>3. ~ s < t
  BY <1>1, <1>2, AheadStrict
<1>4. ~ t < s
  BY <1>1, <1>2, AheadStrict
<1> QED  BY <1>2, <1>3, <1>4

\* Every place is taken: the places are as many as the tee times, and no two
\* tee times share one.
LEMMA EveryPlace ==
  ASSUME NEW D \in SUBSET Nat, IsFiniteSet(D), NEW i \in 1..Cardinality(D)
  PROVE  \E t \in D : Cardinality(Ahead(D, t)) = i - 1
<1> DEFINE n == Cardinality(D)
           f == [t \in D |-> Cardinality(Ahead(D, t))]
           R == {f[t] : t \in D}
<1>1. n \in Nat
  BY FS_CardinalityType
<1>2. ASSUME NEW t \in D PROVE f[t] \in 0..(n - 1)
  <2>1. /\ IsFiniteSet(Ahead(D, t)) /\ Cardinality(Ahead(D, t)) \in Nat
        /\ Cardinality(Ahead(D, t)) <= n
    BY AheadFinite
  <2>2. Ahead(D, t) # D /\ Ahead(D, t) \in SUBSET D
    <3>1. t \in Nat
      OBVIOUS
    <3> QED  BY <3>1 DEF Ahead
  <2>3. Cardinality(Ahead(D, t)) # n
    BY <2>2, FS_Subset
  <2> QED  BY <1>1, <2>1, <2>3
<1>3. R \subseteq 0..(n - 1)
  BY <1>2
<1>4. f \in Bijection(D, R)
  <2>1. f \in [D -> R] /\ \A s, t \in D : f[s] = f[t] => s = t
    BY AheadOnce
  <2> HIDE DEF f, n
  <2>2. f \in [D -> R] /\ \A y \in R : \E s \in D : f[s] = y
    BY <2>1
  <2> HIDE DEF R
  <2> QED  BY <2>1, <2>2 DEF Bijection, Injection, Surjection, IsInjective
<1> HIDE DEF f, R
<1>5. Cardinality(R) = n
  <2>1. ExistsBijection(D, R)
    BY <1>4 DEF ExistsBijection
  <2> QED  BY <2>1, FS_Bijection
<1>6. IsFiniteSet(0..(n - 1)) /\ Cardinality(0..(n - 1)) = n
  <2> HIDE DEF n
  <2>1. 0 \in Int /\ n - 1 \in Int
    BY <1>1
  <2>2. /\ IsFiniteSet(0..(n - 1))
        /\ Cardinality(0..(n - 1)) = IF 0 > n - 1 THEN 0 ELSE n - 1 - 0 + 1
    BY <2>1, FS_Interval
  <2> QED  BY <1>1, <2>2
<1>7. R = 0..(n - 1)
  BY <1>3, <1>5, <1>6, FS_Subset
<1>8. i - 1 \in R
  BY <1>1, <1>7
<1> QED  BY <1>8 DEF R, f

\* A tee time below t moves nothing from t on.
LEMMA AheadAbove ==
  ASSUME NEW D \in SUBSET Nat, NEW b \in Nat, NEW t \in Nat, b <= t
  PROVE  Ahead(D \cup {b}, t) = Ahead(D, t)
BY DEF Ahead

-----------------------------------------------------------------------------
(* Field's listing. *)

ListingRow == [at : Times, owner : Who, status : Statuses]

BookingsOK ==
  /\ bookings \in [DOMAIN bookings -> [owner : Who, status : Statuses]]
  /\ DOMAIN bookings \subseteq Times /\ IsFiniteSet(DOMAIN bookings)

LEMMA ListingRanks ==
  ASSUME BookingsOK
  PROVE  /\ Listing \in Seq(ListingRow) /\ Len(Listing) = Cardinality(DOMAIN bookings)
         /\ Cardinality(DOMAIN bookings) \in Nat
         /\ \A i \in 1..Cardinality(DOMAIN bookings) :
              /\ Listing[i].at \in DOMAIN bookings
              /\ Cardinality(Ahead(DOMAIN bookings, Listing[i].at)) = i - 1
<1> DEFINE D == DOMAIN bookings
           n == Cardinality(D)
           ranked(i) == CHOOSE t \in D : Cardinality({u \in D : u > t}) = i - 1
<1>1. D \in SUBSET Nat /\ IsFiniteSet(D) /\ n \in Nat
  BY TimesAssumption, FS_CardinalityType DEF BookingsOK
<1>2. ASSUME NEW i \in 1..n
      PROVE  ranked(i) \in D /\ Cardinality(Ahead(D, ranked(i))) = i - 1
  <2>1. \E t \in D : Cardinality({u \in D : u > t}) = i - 1
    BY <1>1, EveryPlace DEF Ahead
  <2> QED  BY <2>1 DEF Ahead
<1> HIDE DEF ranked
<1>3. Listing = [i \in 1..n |-> [at |-> ranked(i), owner |-> bookings[ranked(i)].owner,
                                 status |-> bookings[ranked(i)].status]]
  BY DEF Listing, ranked
<1>4. ASSUME NEW i \in 1..n
      PROVE  Listing[i] \in ListingRow /\ Listing[i].at = ranked(i)
  <2>1. ranked(i) \in Times /\ bookings[ranked(i)] \in [owner : Who, status : Statuses]
    BY <1>2 DEF BookingsOK
  <2> QED  BY <1>3, <2>1 DEF ListingRow
<1>5. Listing \in [1..n -> ListingRow]
  BY <1>3, <1>4
<1>6. Listing \in Seq(ListingRow) /\ Len(Listing) = n
  <2> HIDE DEF n
  <2> QED  BY <1>1, <1>5
<1> QED  BY <1>1, <1>2, <1>4, <1>6

\* The rows read so far, and the next page.
NextRows(got) == got \o PageOf(Listing, Len(got))

LEMMA PageAdds ==
  ASSUME Listing \in Seq(ListingRow), NEW got \in Seq(ListingRow), Len(got) <= Len(Listing)
  PROVE  /\ NextRows(got) \in Seq(ListingRow)
         /\ Len(NextRows(got)) = Len(got) + Len(PageOf(Listing, Len(got)))
         /\ Len(PageOf(Listing, Len(got))) =
              IF Len(got) + PageSize < Len(Listing) THEN PageSize
              ELSE Len(Listing) - Len(got)
         /\ \A i \in 1..Len(got) : NextRows(got)[i] = got[i]
         /\ \A i \in 1..Len(NextRows(got)) :
              i > Len(got) => NextRows(got)[i] = Listing[i]
<1> DEFINE m == Len(got)
           k == IF m + PageSize < Len(Listing) THEN m + PageSize ELSE Len(Listing)
           page == SubSeq(Listing, m + 1, k)
<1>1. /\ m \in Nat /\ Len(Listing) \in Nat /\ PageSize \in Nat \ {0} /\ k \in Nat
      /\ m <= k /\ k <= Len(Listing)
  BY PagingAssumption
<1>2. PageOf(Listing, m) = page
  BY DEF PageOf
<1> HIDE DEF k
<1>3. \A i \in (m + 1)..k : Listing[i] \in ListingRow
  BY <1>1
<1>4. /\ page \in Seq(ListingRow) /\ Len(page) = (IF m + 1 <= k THEN k - (m + 1) + 1 ELSE 0)
      /\ \A i \in 1..(k - (m + 1) + 1) : page[i] = Listing[(m + 1) + i - 1]
  <2>1. m + 1 \in Int /\ k \in Int
    BY <1>1
  <2> QED  BY <1>3, <2>1, SubSeqProperties
<1>5. Len(page) = k - m /\ \A i \in 1..(k - m) : page[i] = Listing[m + i]
  BY <1>1, <1>4
<1> HIDE DEF page
<1>6. /\ got \o page \in Seq(ListingRow) /\ Len(got \o page) = m + Len(page)
      /\ \A i \in 1..(m + Len(page)) :
           (got \o page)[i] = IF i <= m THEN got[i] ELSE page[i - m]
  BY <1>4, ConcatProperties
<1> HIDE DEF m
<1>7. Len(page) = IF m + PageSize < Len(Listing) THEN PageSize ELSE Len(Listing) - m
  BY <1>1, <1>5 DEF k
<1>8. \A i \in 1..Len(got \o page) : i > m => (got \o page)[i] = Listing[i]
  <2> TAKE i \in 1..Len(got \o page)
  <2> HAVE i > m
  <2>1. i \in Nat /\ i <= k /\ i - m \in 1..(k - m) /\ ~ i <= m
    BY <1>1, <1>5, <1>6
  <2>2. (got \o page)[i] = page[i - m]
    BY <1>6, <2>1
  <2>3. page[i - m] = Listing[m + (i - m)] /\ m + (i - m) = i
    BY <1>1, <1>5, <2>1
  <2> QED  BY <2>2, <2>3
<1>9. \A i \in 1..m : (got \o page)[i] = got[i]
  BY <1>1, <1>5, <1>6
<1>10. NextRows(got) = got \o page
  BY <1>2 DEF NextRows, m
<1> QED  BY <1>2, <1>4, <1>6, <1>7, <1>8, <1>9, <1>10 DEF m

-----------------------------------------------------------------------------
(* The batches. *)

CheckinRow == [of : Times, seat : SeatNos, who : Who]

CheckinsOK ==
  /\ checkins \in Seq(CheckinRow)
  /\ \A i, j \in DOMAIN checkins :
        checkins[i].of = checkins[j].of /\ checkins[i].seat = checkins[j].seat => i = j

\* No two batches under way have the same run row, and theirs are open.
RunsApart ==
  /\ runs \in Seq({"running", "succeeded", "failed"})
  /\ \A w \in Sweeps : sweep[w].pc # "idle" =>
       sweep[w].run \in DOMAIN runs /\ runs[sweep[w].run] = "running"
  /\ \A v, w \in Sweeps : v # w /\ sweep[v].pc # "idle" /\ sweep[w].pc # "idle" =>
       sweep[v].run # sweep[w].run

\* A batch's record, whatever check-ins it has read.
SweepOK(x) ==
  /\ x = Sweep(x.pc, x.run, x.all, x.seen, x.todo, x.cut, x.quiet)
  /\ x.pc \in {"idle", "bookings", "checkins", "write"}
  /\ x.all \in Seq(ListingRow) /\ Len(x.all) <= MaxRows + PageSize
  /\ x.todo \subseteq Customers
  /\ x.pc = "bookings" => Len(x.all) < MaxRows \/ Len(x.all) = 0

SweepsOK == DOMAIN sweep = Sweeps /\ \A w \in Sweeps : SweepOK(sweep[w])

\* A batch has read bookings that are there, and unless the listing moved
\* under it, the first ones in order.
ReadInOrder ==
  \A w \in Sweeps : sweep[w].pc = "bookings" =>
    /\ Len(sweep[w].all) <= Cardinality(DOMAIN bookings)
    /\ w \notin shifted => \A i \in DOMAIN sweep[w].all :
         /\ sweep[w].all[i].at \in DOMAIN bookings
         /\ Cardinality(Ahead(DOMAIN bookings, sweep[w].all[i].at)) = i - 1

VisitsInv ==
  /\ BookingsOK /\ CheckinsOK /\ RunsApart /\ SweepsOK /\ ReadInOrder
  /\ DOMAIN summary = Customers /\ shifted \subseteq Sweeps

LEMMA VisitsTyped == VisitsInv => VisitsTypeOK
<1> SUFFICES ASSUME VisitsInv PROVE VisitsTypeOK
  OBVIOUS
<1>1. /\ DOMAIN bookings \subseteq Times
      /\ \A t \in DOMAIN bookings : bookings[t] \in [owner : Who, status : Statuses]
  BY DEF VisitsInv, BookingsOK
<1>2. /\ \A i \in DOMAIN checkins : checkins[i] \in [of : Times, seat : SeatNos, who : Who]
      /\ \A i, j \in DOMAIN checkins :
            checkins[i].of = checkins[j].of /\ checkins[i].seat = checkins[j].seat => i = j
  <2>1. CheckinsOK
    BY DEF VisitsInv
  <2>2. \A i \in DOMAIN checkins : checkins[i] \in CheckinRow
    BY <2>1 DEF CheckinsOK
  <2> QED  BY <2>1, <2>2 DEF CheckinsOK, CheckinRow
<1>3. \A i \in DOMAIN runs : runs[i] \in {"running", "succeeded", "failed"}
  BY DEF VisitsInv, RunsApart
<1>4. \A w \in Sweeps : /\ sweep[w].pc \in {"idle", "bookings", "checkins", "write"}
                        /\ sweep[w].todo \subseteq Customers
                        /\ sweep[w].pc # "idle" => runs[sweep[w].run] = "running"
                        /\ Len(sweep[w].all) <= MaxRows + PageSize
  BY DEF VisitsInv, RunsApart, SweepsOK, SweepOK
<1> QED  BY <1>1, <1>2, <1>3, <1>4 DEF VisitsInv, VisitsTypeOK

LEMMA IdleSweep == SweepOK(Idle) /\ Idle.pc = "idle"
<1>1. /\ Idle.pc = "idle" /\ Idle.all = <<>> /\ Idle.todo = {}
      /\ Idle = Sweep(Idle.pc, Idle.run, Idle.all, Idle.seen, Idle.todo, Idle.cut, Idle.quiet)
  BY DEF Idle, Sweep
<1>2. <<>> \in Seq(ListingRow) /\ Len(<<>>) = 0 /\ MaxRows \in Nat /\ PageSize \in Nat
  BY PagingAssumption
<1>3. 0 <= MaxRows + PageSize
  BY <1>2
<1> QED  BY <1>1, <1>2, <1>3 DEF SweepOK

\* What a batch beside which something happens keeps.
LEMMA DisturbedKeeps ==
  ASSUME SweepsOK
  PROVE  /\ DOMAIN Disturbed = Sweeps
         /\ \A w \in Sweeps :
              /\ SweepOK(Disturbed[w])
              /\ Disturbed[w].pc = sweep[w].pc /\ Disturbed[w].run = sweep[w].run
              /\ Disturbed[w].all = sweep[w].all
<1> SUFFICES ASSUME NEW w \in Sweeps
             PROVE  /\ SweepOK(Disturbed[w])
                    /\ Disturbed[w].pc = sweep[w].pc /\ Disturbed[w].run = sweep[w].run
                    /\ Disturbed[w].all = sweep[w].all
  BY DEF Disturbed
<1> DEFINE x == sweep[w]
           y == Disturbed[w]
<1>1. SweepOK(x)
  BY DEF SweepsOK
<1>2. x = Sweep(x.pc, x.run, x.all, x.seen, x.todo, x.cut, x.quiet)
  BY <1>1 DEF SweepOK
<1>3. y = [x EXCEPT !.quiet = x.pc = "idle"]
  BY DEF Disturbed
<1> HIDE DEF x, y
<1>4. y = Sweep(x.pc, x.run, x.all, x.seen, x.todo, x.cut, x.pc = "idle")
  BY <1>2, <1>3 DEF Sweep
<1>5. /\ y.pc = x.pc /\ y.run = x.run /\ y.all = x.all /\ y.seen = x.seen
      /\ y.todo = x.todo /\ y.cut = x.cut /\ y.quiet = (x.pc = "idle")
  BY <1>4 DEF Sweep
<1>6. SweepOK(y)
  BY <1>1, <1>4, <1>5 DEF SweepOK
<1> QED  BY <1>5, <1>6 DEF x, y

\* One batch moves on.
LEMMA PutSweep ==
  ASSUME SweepsOK, NEW w \in Sweeps, NEW x, SweepOK(x), sweep' = [sweep EXCEPT ![w] = x]
  PROVE  /\ SweepsOK' /\ sweep'[w] = x
         /\ \A v \in Sweeps \ {w} : sweep'[v] = sweep[v]
BY DEF SweepsOK

LEMMA SweepFields ==
  ASSUME NEW pc, NEW run, NEW all, NEW seen, NEW todo, NEW cut, NEW quiet
  PROVE  LET x == Sweep(pc, run, all, seen, todo, cut, quiet)
         IN /\ x.pc = pc /\ x.run = run /\ x.all = all /\ x.seen = seen /\ x.todo = todo
            /\ x.cut = cut /\ x.quiet = quiet
BY DEF Sweep

LEMMA RunsKept ==
  ASSUME RunsApart, UNCHANGED runs,
         \A w \in Sweeps : sweep'[w].pc # "idle" =>
           sweep[w].pc # "idle" /\ sweep'[w].run = sweep[w].run
  PROVE  RunsApart'
BY DEF RunsApart

\* A run is closed by its own batch.
LEMMA RunClosed ==
  ASSUME RunsApart, NEW w \in Sweeps, sweep[w].pc # "idle", sweep'[w].pc = "idle",
         \A v \in Sweeps \ {w} : sweep'[v] = sweep[v],
         NEW s \in {"succeeded", "failed"}, runs' = [runs EXCEPT ![sweep[w].run] = s]
  PROVE  RunsApart'
<1>1. runs \in Seq({"running", "succeeded", "failed"}) /\ sweep[w].run \in DOMAIN runs
  BY DEF RunsApart
<1>2. /\ runs' \in Seq({"running", "succeeded", "failed"}) /\ DOMAIN runs' = DOMAIN runs
      /\ \A i \in DOMAIN runs : i # sweep[w].run => runs'[i] = runs[i]
  BY <1>1
<1>3. ASSUME NEW v \in Sweeps, sweep'[v].pc # "idle"
      PROVE  sweep'[v].run \in DOMAIN runs' /\ runs'[sweep'[v].run] = "running"
  <2>1. v # w /\ sweep'[v] = sweep[v]
    BY <1>3
  <2>2. /\ sweep[v].run \in DOMAIN runs /\ runs[sweep[v].run] = "running"
        /\ sweep[v].run # sweep[w].run
    BY <1>3, <2>1 DEF RunsApart
  <2> QED  BY <1>2, <2>1, <2>2
<1>4. ASSUME NEW u \in Sweeps, NEW v \in Sweeps, u # v, sweep'[u].pc # "idle",
             sweep'[v].pc # "idle"
      PROVE  sweep'[u].run # sweep'[v].run
  BY <1>4 DEF RunsApart
<1> QED  BY <1>2, <1>3, <1>4 DEF RunsApart

LEMMA OrderKept ==
  ASSUME ReadInOrder, DOMAIN bookings' = DOMAIN bookings, shifted \subseteq shifted',
         \A w \in Sweeps : sweep'[w].pc = "bookings" =>
           sweep[w].pc = "bookings" /\ sweep'[w].all = sweep[w].all
  PROVE  ReadInOrder'
BY DEF ReadInOrder

LEMMA StartRunKeeps ==
  ASSUME VisitsInv, NEW w \in Sweeps, StartRun(w)
  PROVE  VisitsInv'
<1> DEFINE x == Sweep("bookings", Len(runs) + 1, <<>>, <<>>, {}, FALSE, TRUE)
<1>1. /\ runs' = Append(runs, "running") /\ shifted' = shifted \ {w}
      /\ sweep[w].pc = "idle" /\ sweep' = [sweep EXCEPT ![w] = x]
      /\ UNCHANGED <<bookings, checkins, summary>>
  BY DEF StartRun
<1>2. /\ x.pc = "bookings" /\ x.run = Len(runs) + 1 /\ x.all = <<>> /\ x.todo = {}
      /\ x = Sweep(x.pc, x.run, x.all, x.seen, x.todo, x.cut, x.quiet)
  BY DEF Sweep
<1> HIDE DEF x
<1>3. SweepOK(x)
  <2>1. <<>> \in Seq(ListingRow) /\ Len(<<>>) = 0 /\ MaxRows + PageSize >= 0
    BY PagingAssumption
  <2> QED  BY <1>2, <2>1 DEF SweepOK
<1>4. /\ SweepsOK' /\ sweep'[w] = x
      /\ \A v \in Sweeps \ {w} : sweep'[v] = sweep[v]
  BY <1>1, <1>3, PutSweep DEF VisitsInv
<1>5. /\ runs \in Seq({"running", "succeeded", "failed"}) /\ Len(runs) \in Nat
      /\ DOMAIN runs = 1..Len(runs)
  BY DEF VisitsInv, RunsApart
<1>6. /\ runs' \in Seq({"running", "succeeded", "failed"})
      /\ DOMAIN runs' = 1..(Len(runs) + 1) /\ runs'[Len(runs) + 1] = "running"
      /\ \A i \in DOMAIN runs : runs'[i] = runs[i]
  BY <1>1, <1>5
<1>7. RunsApart'
  <2>1. ASSUME NEW v \in Sweeps, sweep'[v].pc # "idle"
        PROVE  /\ sweep'[v].run \in DOMAIN runs' /\ runs'[sweep'[v].run] = "running"
               /\ v # w => sweep'[v].run \in DOMAIN runs
    <3>1. CASE v = w
      BY <1>2, <1>4, <1>5, <1>6, <3>1
    <3>2. CASE v # w
      <4>1. sweep[v].run \in DOMAIN runs /\ runs[sweep[v].run] = "running"
        BY <1>4, <2>1, <3>2 DEF VisitsInv, RunsApart
      <4> QED  BY <1>4, <1>5, <1>6, <3>2, <4>1
    <3> QED  BY <3>1, <3>2
  <2>2. ASSUME NEW u \in Sweeps, NEW v \in Sweeps, u # v, sweep'[u].pc # "idle",
               sweep'[v].pc # "idle"
        PROVE  sweep'[u].run # sweep'[v].run
    <3>1. CASE u # w /\ v # w
      BY <1>4, <2>2, <3>1 DEF VisitsInv, RunsApart
    <3>2. CASE u = w
      BY <1>2, <1>4, <1>5, <2>1, <2>2, <3>2
    <3>3. CASE v = w
      BY <1>2, <1>4, <1>5, <2>1, <2>2, <3>3
    <3> QED  BY <3>1, <3>2, <3>3
  <2> QED  BY <1>6, <2>1, <2>2 DEF RunsApart
<1>8. ReadInOrder'
  <2>1. Cardinality(DOMAIN bookings) \in Nat
    BY FS_CardinalityType DEF VisitsInv, BookingsOK
  <2>2. ASSUME NEW v \in Sweeps, sweep'[v].pc = "bookings"
        PROVE  /\ Len(sweep'[v].all) <= Cardinality(DOMAIN bookings')
               /\ v \notin shifted' => \A i \in DOMAIN sweep'[v].all :
                    /\ sweep'[v].all[i].at \in DOMAIN bookings'
                    /\ Cardinality(Ahead(DOMAIN bookings', sweep'[v].all[i].at)) = i - 1
    <3>1. CASE v = w
      BY <1>1, <1>2, <1>4, <2>1, <3>1
    <3>2. CASE v # w
      BY <1>1, <1>4, <2>2, <3>2 DEF VisitsInv, ReadInOrder
    <3> QED  BY <3>1, <3>2
  <2> QED  BY <2>2 DEF ReadInOrder
<1> QED  BY <1>1, <1>4, <1>7, <1>8 DEF VisitsInv, BookingsOK, CheckinsOK

\* A page read: the rows so far and the next ones of the listing.
LEMMA ReadPageAdds ==
  ASSUME VisitsInv, NEW w \in Sweeps, ReadPage(w)
  PROVE  LET all  == sweep'[w].all
             n    == Cardinality(DOMAIN bookings)
         IN /\ sweep'[w] = Sweep(sweep'[w].pc, sweep[w].run, all, <<>>, {}, sweep'[w].cut,
                                 sweep[w].quiet)
            /\ \A v \in Sweeps \ {w} : sweep'[v] = sweep[v]
            /\ DOMAIN sweep' = Sweeps /\ n \in Nat
            /\ UNCHANGED <<bookings, checkins, summary, runs, shifted>>
            /\ sweep[w].pc = "bookings" /\ sweep'[w].pc \in {"bookings", "checkins"}
            /\ all \in Seq(ListingRow) /\ Len(all) \in Nat /\ Len(all) <= n
            /\ Len(all) <= MaxRows + PageSize
            /\ sweep'[w].pc = "bookings" => Len(all) < MaxRows
            /\ sweep'[w].pc = "checkins" /\ Len(all) < n => sweep'[w].cut
            /\ \A i \in 1..Len(sweep[w].all) : all[i] = sweep[w].all[i]
            /\ \A i \in 1..Len(all) : i > Len(sweep[w].all) => all[i] = Listing[i]
<1> DEFINE me == sweep[w]
           n == Cardinality(DOMAIN bookings)
           page == PageOf(Listing, Len(me.all))
           all == me.all \o page
           short == Len(page) < PageSize
           done == short \/ Len(all) >= MaxRows
           x == Sweep(IF done THEN "checkins" ELSE "bookings", me.run, all, <<>>, {},
                      done /\ ~short, me.quiet)
<1>1. /\ me.pc = "bookings" /\ sweep' = [sweep EXCEPT ![w] = x]
      /\ UNCHANGED <<bookings, checkins, summary, runs, shifted>>
  BY DEF ReadPage
<1>2. /\ Listing \in Seq(ListingRow) /\ Len(Listing) = n /\ n \in Nat
  BY ListingRanks DEF VisitsInv
<1>3. /\ me.all \in Seq(ListingRow) /\ Len(me.all) <= n /\ Len(me.all) \in Nat
      /\ Len(me.all) < MaxRows \/ Len(me.all) = 0
      /\ DOMAIN sweep = Sweeps
  BY <1>1 DEF VisitsInv, SweepsOK, SweepOK, ReadInOrder
<1>4. /\ all \in Seq(ListingRow) /\ Len(all) = Len(me.all) + Len(page)
      /\ Len(page) = IF Len(me.all) + PageSize < n THEN PageSize ELSE n - Len(me.all)
      /\ \A i \in 1..Len(me.all) : all[i] = me.all[i]
      /\ \A i \in 1..Len(all) : i > Len(me.all) => all[i] = Listing[i]
  <2>1. Len(me.all) <= Len(Listing)
    BY <1>2, <1>3
  <2> HIDE DEF me, n
  <2>2. /\ all \in Seq(ListingRow) /\ Len(all) = Len(me.all) + Len(page)
        /\ Len(page) = IF Len(me.all) + PageSize < Len(Listing) THEN PageSize
                       ELSE Len(Listing) - Len(me.all)
        /\ \A i \in 1..Len(me.all) : all[i] = me.all[i]
        /\ \A i \in 1..Len(all) : i > Len(me.all) => all[i] = Listing[i]
    <3>1. Listing \in Seq(ListingRow) /\ me.all \in Seq(ListingRow)
      BY <1>2, <1>3
    <3>2. all = NextRows(me.all)
      BY DEF NextRows
    <3> HIDE DEF all
    <3> QED  BY <2>1, <3>1, <3>2, PageAdds
  <2> QED  BY <1>2, <2>2
<1>5. /\ x.pc = (IF done THEN "checkins" ELSE "bookings") /\ x.all = all
      /\ x.cut = (done /\ ~short)
      /\ x = Sweep(x.pc, me.run, all, <<>>, {}, x.cut, me.quiet)
  BY DEF Sweep
<1>6. sweep'[w] = x /\ DOMAIN sweep' = Sweeps /\ \A v \in Sweeps \ {w} : sweep'[v] = sweep[v]
  BY <1>1, <1>3
<1> HIDE DEF x, all, page, n, me
<1>7. PageSize \in Nat /\ MaxRows \in Nat
  BY PagingAssumption
<1>8. /\ Len(all) \in Nat /\ Len(all) <= n /\ Len(all) <= MaxRows + PageSize
      /\ ~ done => Len(all) < MaxRows
      /\ Len(all) < n => ~ short
  <2>1. CASE Len(me.all) + PageSize < n
    BY <1>2, <1>3, <1>4, <1>7, <2>1
  <2>2. CASE ~ Len(me.all) + PageSize < n
    <3>1. Len(page) = n - Len(me.all)
      BY <1>4, <2>2
    <3>2. Len(all) = n
      BY <1>2, <1>3, <1>4, <3>1
    <3> QED  BY <1>2, <1>3, <1>7, <2>2, <3>1, <3>2
  <2> QED  BY <2>1, <2>2
<1>9. x.pc = "bookings" => ~ done
  BY <1>5
<1>10. x.pc = "checkins" => done
  BY <1>5
<1>11. x.pc = "checkins" /\ Len(all) < n => x.cut
  BY <1>5, <1>8, <1>10
<1>12. x.pc \in {"bookings", "checkins"}
  BY <1>5
<1> QED  BY <1>1, <1>2, <1>4, <1>5, <1>6, <1>8, <1>9, <1>11, <1>12 DEF me, n

\* An unshifted batch has read the first bookings, each once and in order.
LEMMA ReadPageOrder ==
  ASSUME VisitsInv, NEW w \in Sweeps \ shifted, ReadPage(w)
  PROVE  \A i \in 1..Len(sweep'[w].all) :
           /\ sweep'[w].all[i].at \in DOMAIN bookings
           /\ Cardinality(Ahead(DOMAIN bookings, sweep'[w].all[i].at)) = i - 1
           /\ sweep'[w].all[i].at = Listing[i].at
<1> DEFINE D == DOMAIN bookings
           n == Cardinality(D)
           got == sweep[w].all
           all == sweep'[w].all
<1>1. /\ n \in Nat /\ Len(all) \in Nat /\ Len(all) <= n /\ sweep[w].pc = "bookings"
      /\ \A i \in 1..Len(got) : all[i] = got[i]
      /\ \A i \in 1..Len(all) : i > Len(got) => all[i] = Listing[i]
  BY ReadPageAdds
<1>2. \A i \in 1..n : Listing[i].at \in D /\ Cardinality(Ahead(D, Listing[i].at)) = i - 1
  BY ListingRanks DEF VisitsInv
<1>3. /\ got \in Seq(ListingRow) /\ Len(got) \in Nat /\ DOMAIN got = 1..Len(got)
      /\ \A i \in 1..Len(got) : got[i].at \in D /\ Cardinality(Ahead(D, got[i].at)) = i - 1
  <2>1. got \in Seq(ListingRow)
    BY DEF VisitsInv, SweepsOK, SweepOK
  <2>2. Len(got) \in Nat /\ DOMAIN got = 1..Len(got)
    BY <2>1
  <2> QED  BY <1>1, <2>1, <2>2 DEF VisitsInv, ReadInOrder
<1>4. D \in SUBSET Nat /\ IsFiniteSet(D)
  BY TimesAssumption DEF VisitsInv, BookingsOK
<1> HIDE DEF D, n, got, all
<1>5. \A s, t \in D : Cardinality(Ahead(D, s)) = Cardinality(Ahead(D, t)) => s = t
  BY <1>4, AheadOnce
<1>6. ASSUME NEW i \in 1..Len(all)
      PROVE  /\ all[i].at \in D /\ Cardinality(Ahead(D, all[i].at)) = i - 1
             /\ all[i].at = Listing[i].at
  <2>1. i \in 1..n /\ i \in Nat
    BY <1>1
  <2>2. CASE i > Len(got)
    BY <1>1, <1>2, <2>1, <2>2
  <2>3. CASE ~ i > Len(got)
    <3>1. i \in 1..Len(got)
      BY <1>3, <2>1, <2>3
    <3>2. all[i].at \in D /\ Cardinality(Ahead(D, all[i].at)) = i - 1
      BY <1>1, <1>3, <3>1
    <3>3. /\ Listing[i].at \in D
          /\ Cardinality(Ahead(D, all[i].at)) = Cardinality(Ahead(D, Listing[i].at))
      BY <1>2, <2>1, <3>2
    <3>4. all[i].at = Listing[i].at
      BY <1>5, <3>2, <3>3
    <3> QED  BY <3>2, <3>4
  <2> QED  BY <2>2, <2>3
<1> QED  BY <1>6 DEF D, all

LEMMA ReadPageKeeps ==
  ASSUME VisitsInv, NEW w \in Sweeps, ReadPage(w)
  PROVE  VisitsInv'
<1> DEFINE y == sweep'[w]
<1>1. /\ y = Sweep(y.pc, sweep[w].run, y.all, <<>>, {}, y.cut, sweep[w].quiet)
      /\ \A v \in Sweeps \ {w} : sweep'[v] = sweep[v]
      /\ DOMAIN sweep' = Sweeps
      /\ UNCHANGED <<bookings, checkins, summary, runs, shifted>>
      /\ sweep[w].pc = "bookings" /\ y.pc \in {"bookings", "checkins"}
      /\ y.all \in Seq(ListingRow) /\ Len(y.all) \in Nat
      /\ Len(y.all) <= Cardinality(DOMAIN bookings)
      /\ Len(y.all) <= MaxRows + PageSize
      /\ y.pc = "bookings" => Len(y.all) < MaxRows
  BY ReadPageAdds
<1>2. y.run = sweep[w].run /\ y.seen = <<>> /\ y.todo = {} /\ y.quiet = sweep[w].quiet
  BY <1>1, SweepFields
<1>3. w \notin shifted => \A i \in DOMAIN y.all :
        /\ y.all[i].at \in DOMAIN bookings
        /\ Cardinality(Ahead(DOMAIN bookings, y.all[i].at)) = i - 1
  <2>1. DOMAIN y.all = 1..Len(y.all)
    BY <1>1
  <2> QED  BY <2>1, ReadPageOrder
<1> HIDE DEF y
<1>4. SweepOK(y)
  BY <1>1, <1>2 DEF SweepOK
<1>5. SweepsOK'
  BY <1>1, <1>4 DEF VisitsInv, SweepsOK, y
<1>6. RunsApart'
  BY <1>1, <1>2, RunsKept DEF VisitsInv, y
<1>7. ReadInOrder'
  BY <1>1, <1>3 DEF VisitsInv, ReadInOrder, y
<1> QED  BY <1>1, <1>5, <1>6, <1>7 DEF VisitsInv, BookingsOK, CheckinsOK

\* A batch past its bookings goes on with what it has read.
LEMMA LaterKeeps ==
  ASSUME VisitsInv, NEW w \in Sweeps, sweep[w].pc \in {"checkins", "write"},
         sweep'[w].pc \in {"checkins", "write"},
         \A v \in Sweeps :
           /\ SweepOK(sweep'[v]) /\ (v # w => sweep'[v].pc = sweep[v].pc)
           /\ sweep'[v].run = sweep[v].run /\ sweep'[v].all = sweep[v].all,
         DOMAIN sweep' = Sweeps, DOMAIN summary' = Customers,
         UNCHANGED <<bookings, checkins, runs, shifted>>
  PROVE  VisitsInv'
<1>1. SweepsOK'
  BY DEF SweepsOK
<1>2. RunsApart'
  BY RunsKept DEF VisitsInv
<1>3. ReadInOrder'
  BY OrderKept DEF VisitsInv
<1> QED  BY <1>1, <1>2, <1>3 DEF VisitsInv, BookingsOK, CheckinsOK

\* Such a batch still has all of its parts.
LEMMA LaterIsOK ==
  ASSUME NEW me, SweepOK(me), NEW pc \in {"checkins", "write"}, NEW seen,
         NEW todo \in SUBSET Customers
  PROVE  LET x == Sweep(pc, me.run, me.all, seen, todo, me.cut, me.quiet)
         IN  SweepOK(x) /\ x.pc = pc /\ x.run = me.run /\ x.all = me.all
<1> DEFINE x == Sweep(pc, me.run, me.all, seen, todo, me.cut, me.quiet)
<1>1. /\ x.pc = pc /\ x.run = me.run /\ x.all = me.all /\ x.todo = todo
      /\ x = Sweep(x.pc, x.run, x.all, x.seen, x.todo, x.cut, x.quiet)
  BY SweepFields
<1> HIDE DEF x
<1>2. SweepOK(x)
  BY <1>1 DEF SweepOK
<1> QED  BY <1>1, <1>2 DEF x

LEMMA ReadCheckinsKeeps ==
  ASSUME VisitsInv, NEW w \in Sweeps, ReadCheckins(w)
  PROVE  VisitsInv'
<1> DEFINE me == sweep[w]
           page == PageOf(Linked, Len(me.seen))
           seen == me.seen \o page
           done == Len(page) < PageSize \/ Len(seen) >= MaxRows
           pc == IF done THEN "write" ELSE "checkins"
           todo == IF done THEN RefreshedCustomers(me.all, seen) ELSE {}
           x == Sweep(pc, me.run, me.all, seen, todo, me.cut, me.quiet)
<1>1. /\ sweep[w].pc = "checkins" /\ sweep' = [sweep EXCEPT ![w] = x]
      /\ UNCHANGED <<bookings, checkins, summary, runs, shifted>>
  BY DEF ReadCheckins
<1>2. pc \in {"checkins", "write"} /\ todo \in SUBSET Customers
  BY DEF RefreshedCustomers
<1> HIDE DEF page, seen, done, pc, todo
<1>3. /\ DOMAIN sweep = Sweeps /\ \A v \in Sweeps : SweepOK(sweep[v])
      /\ DOMAIN summary = Customers
  BY DEF VisitsInv, SweepsOK
<1>4. SweepOK(x) /\ x.pc = pc /\ x.run = me.run /\ x.all = me.all
  <2>1. SweepOK(me)
    BY <1>3
  <2> HIDE DEF me
  <2> QED  BY <1>2, <2>1, LaterIsOK
<1> HIDE DEF x
<1>5. sweep'[w] = x /\ DOMAIN sweep' = Sweeps /\ \A v \in Sweeps \ {w} : sweep'[v] = sweep[v]
  BY <1>1, <1>3
<1>6. \A v \in Sweeps :
        /\ SweepOK(sweep'[v]) /\ (v # w => sweep'[v].pc = sweep[v].pc)
        /\ sweep'[v].run = sweep[v].run /\ sweep'[v].all = sweep[v].all
  BY <1>3, <1>4, <1>5
<1> QED  BY <1>1, <1>2, <1>3, <1>4, <1>5, <1>6, LaterKeeps

LEMMA WriteChunkKeeps ==
  ASSUME VisitsInv, NEW w \in Sweeps, NEW c \in Customers, WriteChunk(w, c)
  PROVE  VisitsInv'
<1> DEFINE me == sweep[w]
           todo == me.todo \ {c}
           x == Sweep("write", me.run, me.all, me.seen, todo, me.cut, me.quiet)
<1>1. /\ sweep[w].pc = "write" /\ sweep' = [Disturbed EXCEPT ![w] = x]
      /\ UNCHANGED <<bookings, checkins, runs, shifted>>
      /\ summary' = [summary EXCEPT ![c] = SweepFigures(c, me.all, me.seen, me.cut)]
  BY DEF WriteChunk
<1>2. todo \in SUBSET Customers /\ SweepOK(me)
  BY DEF VisitsInv, SweepsOK, SweepOK
<1> HIDE DEF todo
<1>3. /\ DOMAIN Disturbed = Sweeps
      /\ \A v \in Sweeps : /\ SweepOK(Disturbed[v])
                           /\ Disturbed[v].pc = sweep[v].pc
                           /\ Disturbed[v].run = sweep[v].run
                           /\ Disturbed[v].all = sweep[v].all
  BY DisturbedKeeps DEF VisitsInv
<1>4. SweepOK(x) /\ x.pc = "write" /\ x.run = me.run /\ x.all = me.all
  BY <1>2, LaterIsOK
<1> HIDE DEF x
<1>5. /\ sweep'[w] = x /\ DOMAIN sweep' = Sweeps
      /\ \A v \in Sweeps \ {w} : sweep'[v] = Disturbed[v]
  BY <1>1, <1>3
<1>6. DOMAIN summary' = Customers
  BY <1>1 DEF VisitsInv
<1>7. \A v \in Sweeps :
        /\ SweepOK(sweep'[v]) /\ (v # w => sweep'[v].pc = sweep[v].pc)
        /\ sweep'[v].run = sweep[v].run /\ sweep'[v].all = sweep[v].all
  BY <1>3, <1>4, <1>5
<1> QED  BY <1>1, <1>4, <1>5, <1>6, <1>7, LaterKeeps

\* A batch is over: done, failed or dead.
LEMMA EndKeeps ==
  ASSUME VisitsInv, NEW w \in Sweeps, FinishRun(w) \/ FailRun(w) \/ Die(w)
  PROVE  VisitsInv'
<1>1. /\ sweep[w].pc # "idle" /\ sweep' = [sweep EXCEPT ![w] = Idle]
      /\ UNCHANGED <<bookings, checkins, summary, shifted>>
  BY DEF FinishRun, FailRun, Die
<1>2. \/ UNCHANGED runs
      \/ \E s \in {"succeeded", "failed"} : runs' = [runs EXCEPT ![sweep[w].run] = s]
  BY DEF FinishRun, FailRun, Die
<1>3. /\ SweepsOK' /\ sweep'[w] = Idle /\ sweep'[w].pc = "idle"
      /\ \A v \in Sweeps \ {w} : sweep'[v] = sweep[v]
  BY <1>1, IdleSweep, PutSweep DEF VisitsInv
<1>4. RunsApart'
  <2>1. CASE UNCHANGED runs
    BY <1>3, <2>1, RunsKept DEF VisitsInv
  <2>2. CASE \E s \in {"succeeded", "failed"} : runs' = [runs EXCEPT ![sweep[w].run] = s]
    BY <1>1, <1>3, <2>2, RunClosed DEF VisitsInv
  <2> QED  BY <1>2, <2>1, <2>2
<1>5. ReadInOrder'
  BY <1>1, <1>3, OrderKept DEF VisitsInv
<1> QED  BY <1>1, <1>3, <1>4, <1>5 DEF VisitsInv, BookingsOK, CheckinsOK

-----------------------------------------------------------------------------
(* The desk. *)

\* What happens beside the batches leaves them their rows.
LEMMA HappensKeeps ==
  ASSUME VisitsInv, NEW moved \in SUBSET Sweeps, Happens(moved)
  PROVE  /\ SweepsOK' /\ RunsApart' /\ DOMAIN summary' = Customers
         /\ shifted' = shifted \cup moved /\ shifted' \subseteq Sweeps
         /\ \A v \in Sweeps : sweep'[v].pc = sweep[v].pc /\ sweep'[v].all = sweep[v].all
<1>1. sweep' = Disturbed /\ shifted' = shifted \cup moved /\ UNCHANGED <<summary, runs>>
  BY DEF Happens
<1>2. /\ DOMAIN Disturbed = Sweeps
      /\ \A v \in Sweeps : /\ SweepOK(Disturbed[v])
                           /\ Disturbed[v].pc = sweep[v].pc
                           /\ Disturbed[v].run = sweep[v].run
                           /\ Disturbed[v].all = sweep[v].all
  BY DisturbedKeeps DEF VisitsInv
<1> HIDE DEF Disturbed
<1>3. SweepsOK'
  BY <1>1, <1>2 DEF SweepsOK
<1>4. RunsApart'
  BY <1>1, <1>2, RunsKept DEF VisitsInv
<1> QED  BY <1>1, <1>2, <1>3, <1>4 DEF VisitsInv

\* A booking below every row a batch has read leaves their places alone; one
\* above the last of them shifts the batch.
LEMMA BookKeeps ==
  ASSUME VisitsInv, NEW t \in Times, NEW c \in Customers, Book(t, c)
  PROVE  VisitsInv'
<1> DEFINE D == DOMAIN bookings
           moved == {w \in Sweeps : /\ sweep[w].pc = "bookings" /\ sweep[w].all # <<>>
                                    /\ t > sweep[w].all[Len(sweep[w].all)].at}
<1>1. /\ t \notin D /\ UNCHANGED checkins /\ Happens(moved) /\ moved \in SUBSET Sweeps
      /\ bookings' = [u \in D \cup {t} |->
                        IF u = t THEN [owner |-> c, status |-> "live"] ELSE bookings[u]]
  BY DEF Book
<1>2. D \in SUBSET Nat /\ IsFiniteSet(D) /\ D \subseteq Times /\ t \in Nat
  BY TimesAssumption DEF VisitsInv, BookingsOK
<1>3. DOMAIN bookings' = D \cup {t}
  BY <1>1
<1>4. /\ Cardinality(D) \in Nat /\ Cardinality(D \cup {t}) = Cardinality(D) + 1
      /\ IsFiniteSet(D \cup {t})
  BY <1>1, <1>2, FS_AddElement, FS_CardinalityType
<1>5. BookingsOK'
  <2>1. [owner |-> c, status |-> "live"] \in [owner : Who, status : Statuses]
    BY DEF Who, Statuses
  <2>2. \A u \in D : bookings[u] \in [owner : Who, status : Statuses]
    BY DEF VisitsInv, BookingsOK
  <2>3. bookings' \in [D \cup {t} -> [owner : Who, status : Statuses]]
    BY <1>1, <2>1, <2>2
  <2> QED  BY <1>2, <1>3, <1>4, <2>3 DEF BookingsOK
<1>6. /\ SweepsOK' /\ RunsApart' /\ DOMAIN summary' = Customers
      /\ shifted' = shifted \cup moved /\ shifted' \subseteq Sweeps
      /\ \A v \in Sweeps : sweep'[v].pc = sweep[v].pc /\ sweep'[v].all = sweep[v].all
  BY <1>1, HappensKeeps
<1>7. ASSUME NEW w \in Sweeps, sweep[w].pc = "bookings"
      PROVE  /\ Len(sweep[w].all) <= Cardinality(D \cup {t})
             /\ w \notin shifted' => \A i \in DOMAIN sweep[w].all :
                  /\ sweep[w].all[i].at \in D \cup {t}
                  /\ Cardinality(Ahead(D \cup {t}, sweep[w].all[i].at)) = i - 1
  <2> DEFINE got == sweep[w].all
  <2>1. /\ got \in Seq(ListingRow) /\ Len(got) \in Nat /\ DOMAIN got = 1..Len(got)
        /\ Len(got) <= Cardinality(D)
    <3>1. got \in Seq(ListingRow)
      BY DEF VisitsInv, SweepsOK, SweepOK
    <3> QED  BY <1>7, <3>1 DEF VisitsInv, ReadInOrder
  <2>2. ASSUME w \notin shifted', NEW i \in DOMAIN got
        PROVE  /\ got[i].at \in D \cup {t}
               /\ Cardinality(Ahead(D \cup {t}, got[i].at)) = i - 1
    <3> DEFINE last == got[Len(got)].at
               at == got[i].at
    <3>1. w \notin shifted /\ w \notin moved
      BY <1>6, <2>2
    <3>2. /\ i \in 1..Len(got) /\ Len(got) \in 1..Len(got) /\ got # <<>>
      BY <2>1, <2>2
    <3>3. /\ at \in D /\ Cardinality(Ahead(D, at)) = i - 1
          /\ last \in D /\ Cardinality(Ahead(D, last)) = Len(got) - 1
      BY <1>7, <2>1, <3>1, <3>2 DEF VisitsInv, ReadInOrder
    <3>4. ~ t > last
      BY <1>7, <3>1, <3>2
    <3> HIDE DEF at, last
    <3>5. ~ at < last
      <4> SUFFICES ASSUME at < last PROVE FALSE
        OBVIOUS
      <4>1. at \in Nat /\ Cardinality(Ahead(D, last)) < Cardinality(Ahead(D, at))
        BY <1>2, <3>3, AheadStrict
      <4> QED  BY <2>1, <3>2, <3>3, <4>1
    <3>6. at \in Nat /\ last \in Nat /\ t <= at
      BY <1>2, <3>3, <3>4, <3>5
    <3>7. Ahead(D \cup {t}, at) = Ahead(D, at)
      BY <1>2, <3>6, AheadAbove
    <3> QED  BY <3>3, <3>7 DEF at
  <2>3. Len(got) <= Cardinality(D \cup {t})
    <3> HIDE DEF got, D
    <3> QED  BY <1>4, <2>1
  <2> QED  BY <2>2, <2>3
<1> HIDE DEF D, moved
<1>8. ReadInOrder'
  BY <1>3, <1>6, <1>7 DEF ReadInOrder
<1> QED  BY <1>1, <1>5, <1>6, <1>8 DEF VisitsInv, CheckinsOK

\* A booking is settled or relinked where it stands.
LEMMA CorrectKeeps ==
  ASSUME VisitsInv, NEW t \in Times,
         \/ \E s \in Statuses : SetStatus(t, s)
         \/ \E c \in Customers : RelinkBooking(t, c)
  PROVE  VisitsInv'
<1>1. t \in DOMAIN bookings /\ UNCHANGED checkins /\ Happens({})
  BY DEF SetStatus, RelinkBooking
<1>2. /\ bookings \in [DOMAIN bookings -> [owner : Who, status : Statuses]]
      /\ bookings[t] \in [owner : Who, status : Statuses]
  BY <1>1 DEF VisitsInv, BookingsOK
<1>3. /\ DOMAIN bookings' = DOMAIN bookings
      /\ bookings' \in [DOMAIN bookings -> [owner : Who, status : Statuses]]
  <2>1. ASSUME NEW s \in Statuses, SetStatus(t, s)
        PROVE  /\ DOMAIN bookings' = DOMAIN bookings
               /\ bookings' \in [DOMAIN bookings -> [owner : Who, status : Statuses]]
    BY <1>2, <2>1 DEF SetStatus
  <2>2. ASSUME NEW c \in Customers, RelinkBooking(t, c)
        PROVE  /\ DOMAIN bookings' = DOMAIN bookings
               /\ bookings' \in [DOMAIN bookings -> [owner : Who, status : Statuses]]
    BY <1>2, <2>2 DEF RelinkBooking, Who
  <2> QED  BY <2>1, <2>2
<1>4. BookingsOK'
  BY <1>3 DEF VisitsInv, BookingsOK
<1>5. /\ SweepsOK' /\ RunsApart' /\ DOMAIN summary' = Customers
      /\ shifted' = shifted \cup {} /\ shifted' \subseteq Sweeps
      /\ \A v \in Sweeps : sweep'[v].pc = sweep[v].pc /\ sweep'[v].all = sweep[v].all
  <2>1. {} \in SUBSET Sweeps
    OBVIOUS
  <2> QED  BY <1>1, <2>1, HappensKeeps
<1>6. ReadInOrder'
  BY <1>3, <1>5, OrderKept DEF VisitsInv
<1> QED  BY <1>1, <1>4, <1>5, <1>6 DEF VisitsInv, CheckinsOK

LEMMA RecordCheckinKeeps ==
  ASSUME VisitsInv, NEW t \in Times, NEW seat \in SeatNos, NEW who \in Who,
         RecordCheckin(t, seat, who)
  PROVE  VisitsInv'
<1> DEFINE row == {i \in DOMAIN checkins : checkins[i].of = t /\ checkins[i].seat = seat}
           moved == {w \in Sweeps : sweep[w].pc = "checkins" /\ row # {}}
           new == [of |-> t, seat |-> seat, who |-> who]
<1>1. /\ UNCHANGED bookings /\ Happens(moved) /\ moved \in SUBSET Sweeps
      /\ checkins' = IF row = {} THEN Append(checkins, new)
                     ELSE [i \in DOMAIN checkins |->
                             IF i \in row THEN [checkins[i] EXCEPT !.who = who] ELSE checkins[i]]
  BY DEF RecordCheckin
<1>2. /\ SweepsOK' /\ RunsApart' /\ DOMAIN summary' = Customers
      /\ shifted' = shifted \cup moved /\ shifted' \subseteq Sweeps
      /\ \A v \in Sweeps : sweep'[v].pc = sweep[v].pc /\ sweep'[v].all = sweep[v].all
  BY <1>1, HappensKeeps
<1>3. ReadInOrder'
  BY <1>1, <1>2, OrderKept DEF VisitsInv
<1>4. /\ checkins \in Seq(CheckinRow) /\ DOMAIN checkins = 1..Len(checkins)
      /\ Len(checkins) \in Nat /\ \A i \in DOMAIN checkins : checkins[i] \in CheckinRow
  <2>1. checkins \in Seq(CheckinRow)
    BY DEF VisitsInv, CheckinsOK
  <2> QED  BY <2>1
<1>5. new \in CheckinRow /\ new.of = t /\ new.seat = seat
  BY DEF CheckinRow
<1>6. CheckinsOK'
  <2>1. CASE row = {}
    <3> HIDE DEF new
    <3>1. checkins' = Append(checkins, new)
      BY <1>1, <2>1
    <3>2. /\ checkins' \in Seq(CheckinRow) /\ DOMAIN checkins' = 1..(Len(checkins) + 1)
          /\ checkins'[Len(checkins) + 1] = new
          /\ \A i \in 1..Len(checkins) : checkins'[i] = checkins[i]
      BY <1>4, <1>5, <3>1
    <3>3. \A i \in 1..Len(checkins) : ~ (checkins[i].of = t /\ checkins[i].seat = seat)
      BY <1>4, <2>1
    <3>4. \A i \in 1..(Len(checkins) + 1) : i \in 1..Len(checkins) \/ i = Len(checkins) + 1
      BY <1>4
    <3>5. ASSUME NEW i \in DOMAIN checkins', NEW j \in DOMAIN checkins',
                 checkins'[i].of = checkins'[j].of, checkins'[i].seat = checkins'[j].seat
          PROVE  i = j
      <4>1. CASE i \in 1..Len(checkins) /\ j \in 1..Len(checkins)
        BY <1>4, <3>2, <3>5, <4>1 DEF VisitsInv, CheckinsOK
      <4>2. CASE i \in 1..Len(checkins) /\ j = Len(checkins) + 1
        BY <1>5, <3>2, <3>3, <3>5, <4>2
      <4>3. CASE i = Len(checkins) + 1 /\ j \in 1..Len(checkins)
        BY <1>5, <3>2, <3>3, <3>5, <4>3
      <4> QED  BY <3>2, <3>4, <4>1, <4>2, <4>3
    <3> QED  BY <3>2, <3>5 DEF CheckinsOK
  <2>2. CASE row # {}
    <3> HIDE DEF row
    <3>1. checkins' = [i \in DOMAIN checkins |->
                         IF i \in row THEN [checkins[i] EXCEPT !.who = who] ELSE checkins[i]]
      BY <1>1, <2>2
    <3>2. ASSUME NEW i \in DOMAIN checkins
          PROVE  /\ checkins'[i] \in CheckinRow
                 /\ checkins'[i].of = checkins[i].of /\ checkins'[i].seat = checkins[i].seat
      <4>1. checkins[i] \in CheckinRow
        BY <1>4
      <4> QED  BY <3>1, <4>1 DEF CheckinRow
    <3>3. checkins' \in [1..Len(checkins) -> CheckinRow]
      BY <1>4, <3>1, <3>2
    <3>4. checkins' \in Seq(CheckinRow) /\ DOMAIN checkins' = DOMAIN checkins
      BY <1>4, <3>3
    <3> QED  BY <3>2, <3>4 DEF VisitsInv, CheckinsOK
  <2> QED  BY <2>1, <2>2
<1> QED  BY <1>1, <1>2, <1>3, <1>6 DEF VisitsInv, BookingsOK

-----------------------------------------------------------------------------
(* The theorems. *)

LEMMA VisitsStep ==
  ASSUME VisitsInv, [VisitsNext]_visitVars
  PROVE  VisitsInv'
<1>1. ASSUME NEW w \in Sweeps, StartRun(w) \/ SweepStep(w) \/ FailRun(w) \/ Die(w)
      PROVE  VisitsInv'
  BY <1>1, StartRunKeeps, ReadPageKeeps, ReadCheckinsKeeps, WriteChunkKeeps, EndKeeps
     DEF SweepStep
<1>2. ASSUME NEW t \in Times, NEW c \in Customers, Book(t, c) PROVE VisitsInv'
  BY <1>2, BookKeeps
<1>3. ASSUME NEW t \in Times, NEW c \in Customers, RelinkBooking(t, c) PROVE VisitsInv'
  BY <1>3, CorrectKeeps
<1>4. ASSUME NEW t \in Times, NEW s \in Statuses \ {"live"}, SetStatus(t, s)
      PROVE  VisitsInv'
  BY <1>4, CorrectKeeps
<1>5. ASSUME NEW t \in Times, NEW seat \in SeatNos, NEW who \in Who,
             RecordCheckin(t, seat, who)
      PROVE  VisitsInv'
  BY <1>5, RecordCheckinKeeps
<1>6. CASE UNCHANGED visitVars
  BY <1>6 DEF visitVars, VisitsInv, BookingsOK, CheckinsOK, RunsApart, SweepsOK,
     ReadInOrder
<1> QED  BY <1>1, <1>2, <1>3, <1>4, <1>5, <1>6 DEF VisitsNext

LEMMA VisitsStart == VisitsInit => VisitsInv
<1> SUFFICES ASSUME VisitsInit PROVE VisitsInv
  OBVIOUS
<1>1. PICK who \in [FirstBooked -> Customers] :
        bookings = [t \in FirstBooked |-> [owner |-> who[t], status |-> "live"]]
  BY DEF VisitsInit
<1>2. BookingsOK
  <2>1. \A t \in FirstBooked :
          [owner |-> who[t], status |-> "live"] \in [owner : Who, status : Statuses]
    BY DEF Who, Statuses
  <2>2. /\ DOMAIN bookings = FirstBooked
        /\ bookings \in [FirstBooked -> [owner : Who, status : Statuses]]
    BY <1>1, <2>1
  <2> QED  BY <2>2, TimesAssumption DEF BookingsOK
<1>3. CheckinsOK
  BY CheckinsAssumption DEF VisitsInit, CheckinsOK, CheckinRow, Who
<1>4. DOMAIN sweep = Sweeps /\ \A w \in Sweeps : sweep[w] = Idle
  BY DEF VisitsInit
<1>5. SweepsOK /\ \A w \in Sweeps : sweep[w].pc = "idle"
  BY <1>4, IdleSweep DEF SweepsOK
<1>6. RunsApart /\ ReadInOrder
  BY <1>5 DEF VisitsInit, RunsApart, ReadInOrder
<1> QED  BY <1>2, <1>3, <1>5, <1>6 DEF VisitsInit, VisitsInv

LEMMA VisitsHold == VisitsSpec => []VisitsInv
<1>1. VisitsInv /\ [VisitsNext]_visitVars => VisitsInv'
  BY VisitsStep
<1> QED  BY <1>1, VisitsStart, PTL DEF VisitsSpec

\* Bookings, check-ins, run rows and batches stay what they are: no seat is
\* checked in twice, a batch under way has a run row of its own that is open,
\* and it never reads more than a page beyond the cap.
THEOREM VisitsTypeCorrect == VisitsSpec => []VisitsTypeOK
BY VisitsHold, VisitsTyped, PTL

\* A batch beside which no booking was taken ahead of where it reads has, after
\* every page, the first bookings of the listing, each once and in order, and
\* stops before the last of them only with its cut flag raised: for any page
\* size, cap and number of bookings, whatever is cancelled, settled, relinked
\* or checked in meanwhile.
THEOREM PagesAlwaysMeet == VisitsSpec => PagesMeet
<1>1. ASSUME VisitsInv, NEW w \in Sweeps \ shifted, ReadPage(w)
      PROVE  LET all == sweep'[w].all IN
               /\ Len(all) <= Len(Listing)
               /\ \A i \in DOMAIN all : all[i].at = Listing[i].at
               /\ sweep'[w].pc = "checkins" /\ Len(all) < Len(Listing) => sweep'[w].cut
  <2>1. Len(Listing) = Cardinality(DOMAIN bookings)
    BY <1>1, ListingRanks DEF VisitsInv
  <2>2. /\ sweep'[w].all \in Seq(ListingRow)
        /\ Len(sweep'[w].all) <= Cardinality(DOMAIN bookings)
        /\ sweep'[w].pc = "checkins" /\ Len(sweep'[w].all) < Cardinality(DOMAIN bookings)
             => sweep'[w].cut
    BY <1>1, ReadPageAdds
  <2>3. DOMAIN sweep'[w].all = 1..Len(sweep'[w].all)
    BY <2>2
  <2>4. \A i \in 1..Len(sweep'[w].all) : sweep'[w].all[i].at = Listing[i].at
    BY <1>1, ReadPageOrder
  <2> QED  BY <2>1, <2>2, <2>3, <2>4
<1>2. VisitsInv =>
        \A w \in Sweeps \ shifted : ReadPage(w) =>
          LET all == sweep'[w].all IN
            /\ Len(all) <= Len(Listing)
            /\ \A i \in DOMAIN all : all[i].at = Listing[i].at
            /\ sweep'[w].pc = "checkins" /\ Len(all) < Len(Listing) => sweep'[w].cut
  BY <1>1
<1>3. VisitsInv =>
        [\A w \in Sweeps \ shifted : ReadPage(w) =>
          LET all == sweep'[w].all IN
            /\ Len(all) <= Len(Listing)
            /\ \A i \in DOMAIN all : all[i].at = Listing[i].at
            /\ sweep'[w].pc = "checkins" /\ Len(all) < Len(Listing) => sweep'[w].cut]_visitVars
  BY <1>2
<1> QED  BY <1>3, VisitsHold, PTL DEF PagesMeet

=============================================================================
