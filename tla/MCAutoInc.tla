------------------------------ MODULE MCAutoInc ------------------------------
(***************************************************************************)
(* Instances of AutoInc for TLC: sessions a and b of one node, c of        *)
(* another.                                                                *)
(***************************************************************************)
EXTENDS AutoInc, TLC

CONSTANTS a, b, c, n1, n2

TwoNodes == [s \in {a, b, c} |-> IF s = c THEN n2 ELSE n1]
OneNode  == [s \in {a, b} |-> n1]
OneAndZero == [n \in {n1, n2} |-> IF n = n1 THEN 1 ELSE 0]
Symmetry == Permutations({a, b})
One       == [n \in {n1} |-> 1]
=============================================================================
