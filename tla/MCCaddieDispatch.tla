-------------------------- MODULE MCCaddieDispatch --------------------------
(* Instances of CaddieDispatch for TLC. *)
EXTENDS CaddieDispatch, TLC

CONSTANTS c1, c2

\* Groups at 0 and 4 can share a caddie; the one at 2 overlaps both.
ThreeStarts == <<0, 2, 4>>
\* A short round, a long one, and one of the hours a row is read to hold.
ThreeLengths == <<2, 4, 3>>

\* The second caddie filed the first start off and stands on the other course.
ShiftOf == (c1 :> {0, 2, 4}) @@ (c2 :> {2, 4})
CourseOf == (c1 :> {1, 3}) @@ (c2 :> {2, 3})
LimitOf == (c1 :> 1) @@ (c2 :> 2)

Morning == [from |-> 0, to |-> 3]
Midday == [from |-> 2, to |-> 4]
AllMorning == [from |-> 0, to |-> 4]
Jobs == {Morning, Midday, AllMorning}
=============================================================================
