----------------------------- MODULE MCRankFees -----------------------------
(* RankFees with two caddies of different ranks, both on fees of their own. *)
EXTENDS RankFees

MCConfig == [k \in Ranks |-> 1]
MCProfile == [c \in Caddies |-> [rank |-> c, fee |-> 1, live |-> TRUE]]
MCOffered == {[k \in Ranks |-> k], [k \in Ranks |-> k - 1]}
=============================================================================
