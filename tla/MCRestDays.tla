----------------------------- MODULE MCRestDays -----------------------------
(* Instances of RestDays for TLC. *)
EXTENDS RestDays

\* Two short months, the first of which ends on protected days.
Boundary == 1..6
BoundaryFirst == <<1, 4>>
BoundaryLast == <<3, 6>>
=============================================================================
