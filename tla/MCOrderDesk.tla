---------------------------- MODULE MCOrderDesk -----------------------------
(* Instances of OrderDesk for TLC. *)
EXTENDS OrderDesk, TLC

CONSTANTS o1, o2, o3, m1, m2, m3

\* A swap settles at its quote, or one unit worse; or always worse.
Worse == {-1}
AtMostQuoted == {-1, 0}

Twins == Permutations(Orders) \cup Permutations(Mints)
=============================================================================
