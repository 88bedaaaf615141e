---------------------------- MODULE MCAccessGate ----------------------------
(* Instances of AccessGate for TLC. *)
EXTENDS AccessGate

CONSTANT live

MCTenantOf == [s \in Scopes |-> "tn"]

\* A board that is read, a change that is written, an export whose handler
\* asks for itself, a route the delivery rules forgot, one the action table
\* forgot, and a public page.
MCRoutes == {"board", "change", "rows", "unmapped", "unlisted", "page"}
MCStanding == [board |-> "list", change |-> "manage", rows |-> "bearer",
               unmapped |-> "bearer", unlisted |-> "unlisted", page |-> "public"]
MCCase == [board |-> "none", change |-> "manage", rows |-> "list",
           unmapped |-> "none", unlisted |-> "none", page |-> "none"]
MCFeature == [board |-> "caddies", change |-> "dispatch", rows |-> "exports",
              unmapped |-> "unmapped", unlisted |-> "exempt", page |-> "exempt"]
MCExtra == [rt \in MCRoutes |-> IF rt = "rows" THEN {"dispatch"} ELSE {}]

\* dispatch builds on caddies, caddies on the tee sheet.
MCFeatures == {"sheet", "caddies", "dispatch", "exports"}
MCRequires == [sheet |-> {}, caddies |-> {"sheet"}, dispatch |-> {"caddies"}, exports |-> {}]
=============================================================================
