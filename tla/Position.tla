------------------------------ MODULE Position ------------------------------
(***************************************************************************)
(* What a keeper promises of the one position it is given: it sells parts  *)
(* of it, never more than there is and never all of it, and then ends it   *)
(* once, by selling exactly the rest or by giving up.                      *)
(***************************************************************************)
EXTENDS Integers

CONSTANTS
    Whole,      \* the units bought
    Rates       \* what a unit may be sold for

VARIABLES
    left,       \* units that are still held
    income,     \* what the units sold have brought in
    over        \* has the position been ended?

pvars == <<left, income, over>>

PInit ==
    /\ left = Whole
    /\ income = 0
    /\ over = FALSE

Reduce ==
    /\ ~over
    /\ \E units \in 1 .. left - 1, rate \in Rates :
          /\ left' = left - units
          /\ income' = income + units * rate
    /\ UNCHANGED over

End ==
    /\ ~over
    /\ over' = TRUE
    /\ \/ \E rate \in Rates : left' = 0 /\ income' = income + left * rate
       \/ UNCHANGED <<left, income>>

PNext == Reduce \/ End

PSpec == PInit /\ [][PNext]_pvars
=============================================================================
