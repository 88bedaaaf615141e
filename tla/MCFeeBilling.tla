---------------------------- MODULE MCFeeBilling ----------------------------
(* An instance of FeeBilling for TLC. *)
EXTENDS FeeBilling

\* Both sheets are mounts in one browser tab, and one customer pays for both
\* bookings: what one sheet bills alone another may bill together.
OneTab == [d \in Desks |-> "tab"]
PayerOf == [b \in Bookings |-> "customer"]
=============================================================================
