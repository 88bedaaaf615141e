----------------------------- MODULE FeeLedger -----------------------------
(***************************************************************************)
(* What billing cancellation fees promises, whatever is lost on the way:   *)
(* a booking is charged for at most once, a charge is never taken back,    *)
(* and all the bookings of one invoice are charged together.  Once several *)
(* sheets have billed side by side a booking may be charged for again; a   *)
(* charge still stands and still covers its bookings together.             *)
(***************************************************************************)
CONSTANTS Bookings,   \* cancelled bookings
          Charges     \* invoices the desk may ask for, each .of some bookings

VARIABLES charge,     \* charge[b]: the invoices that charge for b
          contested   \* whether sheets have billed side by side

Init == charge = [b \in Bookings |-> {}] /\ contested = FALSE

\* One invoice is raised, for bookings nobody was charged for before.
Charge(c) ==
  /\ contested \/ \A b \in c.of : charge[b] = {}
  /\ charge' = [b \in Bookings |-> IF b \in c.of THEN charge[b] \cup {c} ELSE charge[b]]
  /\ UNCHANGED contested

Contest == contested' = TRUE /\ UNCHANGED charge

Next == Contest \/ \E c \in Charges : Charge(c)

Spec == Init /\ [][Next]_<<charge, contested>>
=============================================================================
