---------------------------- MODULE AtomicCommit ----------------------------
(***************************************************************************)
(* What the internal XA transactions of TSpider promise, without saying    *)
(* how: each transaction t has a branch at every backend c, and a branch   *)
(* is committed only when no branch of t is rolled back and every other    *)
(* one is ready to follow.  XaTrx is shown to implement it.                *)
(***************************************************************************)
CONSTANTS Trx, Conn

VARIABLE branch

States == {"none", "active", "prepared", "committed", "rolledback"}

Type == branch \in [Trx -> [Conn -> States]]

ACInit == branch = [t \in Trx |-> [c \in Conn |-> "none"]]

Became(t, c, state) == branch' = [branch EXCEPT ![t][c] = state]

\* A branch joins, as long as the transaction is not decided.
Start(t, c) ==
  /\ branch[t][c] = "none"
  /\ \A d \in Conn : branch[t][d] \in {"none", "active", "rolledback"}
  /\ Became(t, c, "active")

Prepare(t, c) ==
  /\ branch[t][c] = "active"
  /\ \A d \in Conn : branch[t][d] # "committed"
  /\ Became(t, c, "prepared")

\* The first branch to commit decides: all the others are ready.
CommitBranch(t, c) ==
  /\ branch[t][c] \in {"active", "prepared"}
  /\ \A d \in Conn \ {c} : branch[t][d] \in {"none", "prepared", "committed"}
  /\ Became(t, c, "committed")

\* The branches of t at the backends of s are rolled back.
AbortBranches(t, s) ==
  /\ \A d \in Conn : branch[t][d] # "committed"
  /\ \A c \in s : branch[t][c] # "rolledback"
  /\ branch' = [branch EXCEPT ![t] =
                  [c \in Conn |-> IF c \in s THEN "rolledback" ELSE branch[t][c]]]

ACNext ==
  \E t \in Trx :
    \/ \E c \in Conn : Start(t, c) \/ Prepare(t, c) \/ CommitBranch(t, c)
    \/ \E s \in SUBSET Conn : AbortBranches(t, s)

ACSpec == ACInit /\ [][ACNext]_branch
=============================================================================
