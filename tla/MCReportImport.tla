--------------------------- MODULE MCReportImport ---------------------------
(* Two facilities and one course: a facility is unlinked, linked to the      *)
(* course, or gives way to the other one there.                              *)
EXTENDS ReportImport, TLC
CONSTANTS f1, f2, c1, i1, i2, j1, k1, am, pm

HalfDaysOf == (i1 :> {<<f2, am>>}) @@ (i2 :> {<<f1, pm>>, <<f2, am>>})
                @@ (j1 :> {<<f1, am>>, <<f1, pm>>})
OnCourse(f) == [g \in Facs |-> IF g = f THEN c1 ELSE g]
LinksOf == (i1 :> {OnCourse(f2)}) @@ (i2 :> {OnCourse(f2), OnCourse(f1)})
             @@ (j1 :> {OnCourse(f1), OnCourse(f2)})
OldRow(b, s, f) == [bucket |-> b, slot |-> s, fac |-> f, file |-> OldFile]
LegacyRows == {OldRow(c1, am, f1), OldRow(c1, pm, f1), OldRow(f2, am, f2)}
=============================================================================
