----------------------------- MODULE MCJoinTree -----------------------------
(***************************************************************************)
(* Instances of JoinTree for TLC.  Connections are interchangeable.        *)
(***************************************************************************)
EXTENDS JoinTree

Symmetry == Permutations(Conn)
=============================================================================
