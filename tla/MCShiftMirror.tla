--------------------------- MODULE MCShiftMirror ---------------------------
(* Instances of ShiftMirror for TLC. *)
EXTENDS ShiftMirror, TLC

\* Every span of the source; a half day is filed as its own hours.
MCHours == [s \in Spans |-> s]

TwoDays == {1, 2}

\* Requests, Field's ids and staff records are interchangeable.
MCSymmetry == Permutations(Requests) \cup Permutations(ShiftIds) \cup Permutations(StaffIds)
=============================================================================
