---------------------------- MODULE MCConnPool ------------------------------
(***************************************************************************)
(* Instances of ConnPool for TLC.  Sessions are interchangeable, so the    *)
(* invariants are checked up to symmetry.                                  *)
(***************************************************************************)
EXTENDS ConnPool, TLC

Symmetry == Permutations(Session)

\* Everything that can happen to a connection but to be idle for long.
ShortLived == AllFaults \ {"idle"}

\* Connections are idle for long, are lost, or are closed after an error.
Closing == {"idle", "lost", "error", "oom_trx"}
=============================================================================
