---------------------------- MODULE MCBgSearch ------------------------------
(***************************************************************************)
(* Instances of BgSearch for TLC: two sessions with a handler each, and    *)
(* one session alone.                                                      *)
(***************************************************************************)
EXTENDS BgSearch

CONSTANTS s1, s2, a, c

OneEach == [h \in {a, c} |-> IF h = a THEN s1 ELSE s2]
OneOnly == [h \in {a} |-> s1]
=============================================================================
