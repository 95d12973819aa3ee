----------------------------- MODULE MCPlainTrx -----------------------------
(***************************************************************************)
(* An instance of PlainTrx for TLC: two sessions, one of them with         *)
(* spider_trans_rollback, and two backends with a connection each.         *)
(***************************************************************************)
EXTENDS PlainTrx, TLC

CONSTANTS s1, s2, b1, b2, c1, c2, RR, RC, UTC, CST

Targets == [c \in Conn |-> IF c = c2 THEN b2 ELSE b1]

\* A session without spider_trans_rollback keeps a connection on which a
\* setting was refused, so this happens to the other one only.
MCFaults == (Session \X Fault) \ {<<s2, "set_err">>}

\* A backend and its connection can be exchanged for the others.
Symmetry == {b1 :> b2 @@ b2 :> b1 @@ c1 :> c2 @@ c2 :> c1}
=============================================================================
