-------------------------- MODULE MCCustomerVisits --------------------------
(* Two customers, four tee times of which the last is still ahead, pages    *)
(* of two and a cap of four; a page of three own bookings and one lookup.   *)
(* Three of the four seats booked are checked in at first, so that both     *)
(* the bookings and the check-ins can pass the cap.                         *)
EXTENDS CustomerVisits

CONSTANTS x, y

FourTimes == 1..4
OldTimes  == {1, 3}
TwoSeats  == {0, 1}
Seated(t, seat, who) == [of |-> t, seat |-> seat, who |-> who]
ThreeSeated == <<Seated(1, 0, x), Seated(1, 1, y), Seated(3, 0, y)>>
=============================================================================
