--------------------------- MODULE MCTeeInventory ---------------------------
(* A rolling window of one day, and a closing date Field cannot keep; a day *)
(* built by hand past the window.                                           *)
EXTENDS TeeInventory
CONSTANTS c1, d1, d2
Rolling(n) == [mode |-> "days", n |-> n]
ClosesOn(n) == [mode |-> "through", n |-> n]
HorizonSet == {Rolling(1), ClosesOn(3)}
ByHand == {<<3, 3>>}
OneDayAhead == Rolling(1)
=============================================================================
