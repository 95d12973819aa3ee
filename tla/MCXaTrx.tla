------------------------------ MODULE MCXaTrx -------------------------------
(***************************************************************************)
(* Fault sets for the runs of XaTrx.                                       *)
(***************************************************************************)
EXTENDS XaTrx

\* Everything but a break of the connection to the deciding backend.
DeciderReachable == AllFaults \ {<<"decide", "lost">>}

\* ... and the deciding backend never refuses to commit.
DeciderCommits == {f \in AllFaults : f[1] # "decide"}

\* ... or refuses with XAER_NOTA only, and every backend a statement is routed
\* to is connected to.
BranchesStart == {f \in DeciderCommits : f[1] \notin {"connect", "start"}}
                   \cup {<<"decide", "nota">>}

\* One fault, for the counterexample.
DeciderLostOnly == {<<"decide", "lost">>}
=============================================================================
