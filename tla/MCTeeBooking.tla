---------------------------- MODULE MCTeeBooking ----------------------------
(* One course, two tee times; the first carries an older manual-slot       *)
(* booking, the paper ledger names the second twice.                       *)
EXTENDS TeeBooking

CONSTANTS a, b, small, large

TwoSlots   == {a, b}
Generated  == [s \in TwoSlots |-> 2]
OneLegacy  == <<a>>
PaperSheet == <<b, b>>
TwoPlans   == {small, large}
PlanSeats  == [p \in TwoPlans |-> IF p = small THEN 1 ELSE 2]
=============================================================================
