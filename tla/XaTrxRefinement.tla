--------------------------- MODULE XaTrxRefinement --------------------------
(***************************************************************************)
(* XaTrx implements AtomicCommit, for every number of backends and         *)
(* transactions: each step of the session, of a backend or of the daemon   *)
(* is a step of the abstract specification on the branches, or leaves them *)
(* as they are.                                                            *)
(***************************************************************************)
EXTENDS XaTrxProofs

USE NAssumption, MaxTrxAssumption

Simulated == AC!ACNext \/ UNCHANGED branch

\* Each abstract action, from the state of the branches it needs.
LEMMA StartSim ==
  ASSUME TypeOK, NEW t \in Trx, NEW c \in Conn,
         branch[t][c] \in {"none", "active"},
         \A d \in Conn : branch[t][d] \in {"none", "active"},
         branch' = [branch EXCEPT ![t][c] = "active"]
  PROVE  Simulated
<1>1. CASE branch[t][c] = "none"
  BY <1>1 DEF Simulated, AC!ACNext, AC!Start, AC!Became
<1>2. CASE branch[t][c] = "active"
  BY <1>2 DEF Simulated, TypeOK
<1> QED
  BY <1>1, <1>2

LEMMA PrepareSim ==
  ASSUME NEW t \in Trx, NEW c \in Conn,
         branch[t][c] = "active",
         \A d \in Conn : branch[t][d] # "committed",
         branch' = [branch EXCEPT ![t][c] = "prepared"]
  PROVE  Simulated
BY DEF Simulated, AC!ACNext, AC!Prepare, AC!Became

LEMMA CommitSim ==
  ASSUME NEW t \in Trx, NEW c \in Conn,
         branch[t][c] \in {"active", "prepared"},
         \A d \in Conn \ {c} : branch[t][d] \in {"none", "prepared", "committed"},
         branch' = [branch EXCEPT ![t][c] = "committed"]
  PROVE  Simulated
BY DEF Simulated, AC!ACNext, AC!CommitBranch, AC!Became

LEMMA AbortSim ==
  ASSUME TypeOK, NEW t \in Trx, NEW c \in Conn,
         branch[t][c] # "rolledback",
         \A d \in Conn : branch[t][d] # "committed",
         branch' = [branch EXCEPT ![t][c] = "rolledback"]
  PROVE  Simulated
<1> DEFINE after == [branch EXCEPT ![t] =
                       [d \in Conn |-> IF d \in {c} THEN "rolledback" ELSE branch[t][d]]]
<1>1. branch' = after
  <2>1. branch'[t] = after[t]
    BY DEF TypeOK
  <2>2. \A u \in Trx : u # t => branch'[u] = after[u]
    BY DEF TypeOK
  <2>3. branch' \in [Trx -> [Conn -> BranchState]]
    BY DEF TypeOK, BranchState
  <2>4. DOMAIN branch' = Trx /\ DOMAIN after = Trx
    BY DEF TypeOK
  <2> QED
    BY <2>1, <2>2, <2>3, <2>4
<1>2. AC!AbortBranches(t, {c})
  BY <1>1 DEF AC!AbortBranches
<1>3. {c} \in SUBSET Conn
  OBVIOUS
<1> QED
  BY <1>2, <1>3 DEF Simulated, AC!ACNext

\* The backends drop sessions: the active branches among them are aborted, and
\* a transaction that is logged has none.
LEMMA DisconnectSim ==
  ASSUME Inv, cur \in Trx, NEW s \in SUBSET Conn, branch' = Disconnected(s)
  PROVE  Simulated
<1>t. TypeOK /\ LogInv
  BY DEF Inv
<1> DEFINE a == {c \in s : branch[cur][c] = "active"}
<1>1. branch' = [branch EXCEPT ![cur] =
                   [c \in Conn |-> IF c \in a THEN "rolledback" ELSE branch[cur][c]]]
  BY DEF Disconnected
<1>2. CASE a = {}
  <2>1. [c \in Conn |-> IF c \in a THEN "rolledback" ELSE branch[cur][c]] = branch[cur]
    BY <1>2, <1>t DEF TypeOK
  <2> QED
    BY <1>1, <2>1, <1>t DEF Simulated, TypeOK
<1>3. CASE a # {}
  <2>1. ~Logged(cur)
    BY <1>3, <1>t DEF LogInv
  <2>2. \A d \in Conn : branch[cur][d] # "committed"
    BY <2>1, <1>t DEF LogInv
  <2>3. AC!AbortBranches(cur, a)
    <3>1. \A c \in a : branch[cur][c] # "rolledback"
      OBVIOUS
    <3> HIDE DEF a
    <3> QED
      BY <1>1, <2>2, <3>1 DEF AC!AbortBranches
  <2>4. a \in SUBSET Conn
    OBVIOUS
  <2> HIDE DEF a
  <2> QED
    BY <2>3, <2>4 DEF Simulated, AC!ACNext
<1> QED
  BY <1>2, <1>3

\* A transaction that is not logged has no committed branch, one that is
\* logged has no branch that is rolled back or still active.
LEMMA LogFacts ==
  ASSUME Inv, NEW t \in Trx
  PROVE  /\ ~Logged(t) => \A d \in Conn : branch[t][d] # "committed"
         /\ Logged(t) => \A d \in Conn : branch[t][d] \in {"none", "prepared", "committed"}
BY DEF Inv, LogInv

LEMMA StepSim == SafeConfig /\ Inv /\ [Next]_vars => Simulated
<1> SUFFICES ASSUME SafeConfig, Inv, [Next]_vars PROVE Simulated
  OBVIOUS
<1>t. /\ TypeOK /\ SessionInv /\ LogInv /\ PendingInv
      /\ pc # "idle" => cur \in Trx
  BY InvFacts
<1>1. CASE Begin \/ Commit \/ Rollback
  BY <1>1 DEF Begin, Commit, Rollback, Simulated
<1>2. ASSUME NEW c \in Conn, QueryOk(c) \/ QueryErr(c) \/ QueryLost(c)
      PROVE  Simulated
  <2>1. /\ pc = "work"
        /\ \/ branch' = [branch EXCEPT ![cur][c] = "active"]
           \/ branch' = [branch EXCEPT ![cur][c] = "rolledback"]
    BY <1>2 DEF QueryOk, QueryErr, QueryLost, Started, SetBranch
  <2>2. cur \in Trx /\ \A d \in Conn : branch[cur][d] \in {"none", "active"}
    BY <2>1, <1>t DEF SessionInv
  <2> QED
    BY <2>1, <2>2, <1>t, StartSim, AbortSim
<1>3. ASSUME NEW c \in Conn, StartErr(c) \/ QueryGone(c)
      PROVE  Simulated
  BY <1>3 DEF StartErr, QueryGone, Simulated
<1>4. ASSUME NEW c \in Conn, PrepareConn(c)
      PROVE  Simulated
  <2>1. /\ pc = "prepare"
        /\ \/ branch[cur][c] = "active" /\ branch' = [branch EXCEPT ![cur][c] = "prepared"]
           \/ UNCHANGED branch
    BY <1>4 DEF PrepareConn, SetBranch
  <2>2. cur \in Trx /\ ~Logged(cur)
    BY <2>1, <1>t DEF SessionInv
  <2> QED
    BY <2>1, <2>2, LogFacts, PrepareSim DEF Simulated
<1>5. ASSUME NEW c \in Conn, DecideConn(c)
      PROVE  Simulated
  <2>1. /\ pc = "prepare" /\ todo = {c}
        /\ \/ branch[cur][c] = "active" /\ branch' = [branch EXCEPT ![cur][c] = "committed"]
           \/ UNCHANGED branch
    BY <1>5 DEF DecideConn, SetBranch
  <2>2. cur \in Trx /\ \A d \in Conn \ {c} : branch[cur][d] \in {"none", "prepared"}
    BY <2>1, <1>t DEF SessionInv
  <2> QED
    BY <2>1, <2>2, CommitSim DEF Simulated
<1>6. ASSUME NEW c \in Conn, DecideErr(c) \/ DecideLost(c)
      PROVE  Simulated
  <2>1. cur \in Trx
    BY <1>6, <1>t DEF DecideErr, DecideLost
  <2>2. branch' = Disconnected(Conn) \/ UNCHANGED branch
    BY <1>6 DEF DecideErr, DecideLost
  <2> QED
    BY <2>1, <2>2, DisconnectSim DEF Simulated
<1>7. ASSUME NEW c \in Conn, OnePhaseConn(c)
      PROVE  Simulated
  <2>1. /\ pc = "onephase" /\ todo = {c}
        /\ \/ branch[cur][c] = "active" /\ branch' = [branch EXCEPT ![cur][c] = "committed"]
           \/ branch' = Disconnected({c})
           \/ UNCHANGED branch
    BY <1>7 DEF OnePhaseConn, SetBranch
  <2>2. cur \in Trx /\ \A d \in Conn \ {c} : branch[cur][d] = "none"
    BY <2>1, <1>t DEF SessionInv
  <2> QED
    BY <2>1, <2>2, CommitSim, DisconnectSim DEF Simulated
<1>8. ASSUME NEW c \in Conn, CommitConn(c)
      PROVE  Simulated
  <2>1. /\ pc = "commit"
        /\ \/ branch[cur][c] = "prepared" /\ branch' = [branch EXCEPT ![cur][c] = "committed"]
           \/ UNCHANGED branch
    BY <1>8 DEF CommitConn, SetBranch
  <2>2. cur \in Trx /\ Logged(cur)
    BY <2>1, <1>t DEF SessionInv
  <2> QED
    BY <2>1, <2>2, LogFacts, CommitSim DEF Simulated
<1>9. ASSUME NEW c \in Conn, RollbackConn(c)
      PROVE  Simulated
  <2>1. /\ pc = "rollback"
        /\ \/ /\ branch[cur][c] \in {"active", "prepared"}
              /\ branch' = [branch EXCEPT ![cur][c] = "rolledback"]
           \/ branch' = Disconnected({c})
           \/ UNCHANGED branch
    BY <1>9 DEF RollbackConn, SetBranch
  <2>2. cur \in Trx /\ ~Logged(cur)
    BY <2>1, <1>t DEF SessionInv
  <2> QED
    BY <2>1, <2>2, <1>t, LogFacts, AbortSim, DisconnectSim DEF Simulated
<1>10. CASE CommitEnd \/ RollbackEnd
  BY <1>10 DEF CommitEnd, RollbackEnd, Simulated
<1>11. CASE KillRollback \/ Crash
  <2>1. cur \in Trx
    BY <1>11, <1>t DEF KillRollback, Crash
  <2>2. \E s \in SUBSET Conn : branch' = Disconnected(s)
    <3>1. Idle(pending) \in SUBSET Conn /\ Idle(pending') \in SUBSET Conn
      BY DEF Idle
    <3> QED
      BY <1>11, <3>1 DEF KillRollback, Crash
  <2> QED
    BY <2>1, <2>2, DisconnectSim
<1>12. ASSUME NEW t \in Trx, NEW c \in Conn, NEW call \in Call, BackendFinish(t, c, call)
       PROVE  Simulated
  <2>1. CASE call = "prepare" /\ branch[t][c] = "active"
             /\ branch' = [branch EXCEPT ![t][c] = "prepared"]
    <3>1. ~Logged(t)
      BY <2>1, <1>t DEF LogInv
    <3> QED
      BY <2>1, <3>1, LogFacts, PrepareSim
  <2>2. CASE call = "decide" /\ branch[t][c] = "active"
             /\ branch' = [branch EXCEPT ![t][c] = "committed"]
    <3>1. \A d \in Conn \ {c} : branch[t][d] \in {"none", "prepared"}
      BY <2>2, <1>12, <1>t DEF BackendFinish, PendingInv
    <3> QED
      BY <2>2, <3>1, CommitSim
  <2>3. CASE call = "commit" /\ branch[t][c] = "prepared"
             /\ branch' = [branch EXCEPT ![t][c] = "committed"]
    <3>1. Logged(t)
      BY <2>3, <1>12, <1>t DEF BackendFinish, PendingInv
    <3> QED
      BY <2>3, <3>1, LogFacts, CommitSim
  <2>4. CASE call = "rollback" /\ branch[t][c] = "prepared"
             /\ branch' = [branch EXCEPT ![t][c] = "rolledback"]
    <3>1. ~Logged(t)
      BY <2>4, <1>12, <1>t DEF BackendFinish, PendingInv
    <3> QED
      BY <2>4, <3>1, <1>t, LogFacts, AbortSim
  <2>5. CASE branch' = [branch EXCEPT ![t][c] = IF @ = "active" THEN "rolledback" ELSE @]
    <3>1. CASE branch[t][c] = "active"
      <4>1. ~Logged(t)
        BY <3>1, <1>t DEF LogInv
      <4> QED
        BY <2>5, <3>1, <4>1, <1>t, LogFacts, AbortSim
    <3>2. CASE branch[t][c] # "active"
      BY <2>5, <3>2, <1>t DEF Simulated, TypeOK
    <3> QED
      BY <3>1, <3>2
  <2> QED
    BY <1>12, <2>1, <2>2, <2>3, <2>4, <2>5 DEF BackendFinish
<1>13. ASSUME NEW t \in Trx, NEW c \in Conn, Daemon(t, c)
       PROVE  Simulated
  <2>1. CASE Logged(t)
    <3>1. branch[t][c] = "prepared" /\ branch' = [branch EXCEPT ![t][c] = "committed"]
      BY <1>13, <2>1 DEF Daemon, Logged
    <3> QED
      BY <2>1, <3>1, LogFacts, CommitSim
  <2>2. CASE ~Logged(t)
    <3>1. branch[t][c] = "prepared" /\ branch' = [branch EXCEPT ![t][c] = "rolledback"]
      BY <1>13, <2>2 DEF Daemon, Logged
    <3> QED
      BY <2>2, <3>1, <1>t, LogFacts, AbortSim
  <2> QED
    BY <2>1, <2>2
<1>14. CASE UNCHANGED vars
  BY <1>14 DEF vars, Simulated
<1> QED
  BY <1>1, <1>2, <1>3, <1>4, <1>5, <1>6, <1>7, <1>8, <1>9, <1>10, <1>11, <1>12,
     <1>13, <1>14 DEF Next, Client, Coordinator, Backend, Tdbctl, Quiet

\* The internal XA transactions implement atomic commitment: whatever breaks
\* (but for the faults SafeConfig excludes), the first branch to commit does
\* so when all the others are prepared, no branch is rolled back after that,
\* and a branch that is committed or rolled back stays so.
THEOREM Refinement == SafeConfig => (Spec => ImplementsAtomicCommit)
<1> SUFFICES ASSUME SafeConfig PROVE Spec => ImplementsAtomicCommit
  OBVIOUS
<1>1. Init => AC!ACInit
  BY DEF Init, AC!ACInit
<1>2. Inv /\ [Next]_vars => [AC!ACNext]_branch
  BY StepSim DEF Simulated
<1> QED
  BY <1>1, <1>2, Invariance, PTL DEF Spec, ImplementsAtomicCommit, AC!ACSpec
=============================================================================
