----------------------------- MODULE XaTrxProofs ----------------------------
(***************************************************************************)
(* Proofs about XaTrx, for every number of backends and transactions.      *)
(***************************************************************************)
EXTENDS XaTrx, TLAPS

USE NAssumption, MaxTrxAssumption

(***************************************************************************)
(* Type correctness.  The bound of the xid counter is what needs an        *)
(* invariant: spider_internal_start_trx takes at most one xid a time.      *)
(***************************************************************************)
TypeInv == TypeOK /\ CounterInv

LEMMA TypeInit == Init => TypeInv
<1> SUFFICES ASSUME Init PROVE TypeInv
  OBVIOUS
<1>1. /\ branch \in [Trx -> [Conn -> BranchState]]
      /\ xidOf \in [Trx -> 0..MaxTrx]
      /\ reply \in [Trx -> Reply]
  BY DEF Init, BranchState, Reply
<1>2. cur \in 0..MaxTrx /\ xid \in 0..MaxTrx /\ spider_xid_gtrid \in 1..(MaxTrx + 1)
  BY DEF Init
<1>3. trx_start \in BOOLEAN
  BY Zenon DEF Init
<1>4. pc \in PC
  BY DEF Init, PC
<1>5. CounterInv
  BY DEF Init, CounterInv
<1> QED
  BY <1>1, <1>2, <1>3, <1>4, <1>5 DEF Init, TypeInv, TypeOK

\* The branches keep their type under the two ways a step changes them.
LEMMA SetBranchType ==
  ASSUME TypeOK, NEW c \in Conn, NEW state \in BranchState, SetBranch(c, state)
  PROVE  branch' \in [Trx -> [Conn -> BranchState]]
BY DEF TypeOK, SetBranch

LEMMA DisconnectedType ==
  ASSUME TypeOK, NEW s
  PROVE  Disconnected(s) \in [Trx -> [Conn -> BranchState]]
BY DEF TypeOK, Disconnected, BranchState

LEMMA StartTrxType ==
  ASSUME TypeInv, pc = "work", NEW c \in Conn, StartTrx(c)
  PROVE  /\ cur \in Trx /\ cur' = cur
         /\ trx_start'
         /\ xid' \in 0..MaxTrx
         /\ spider_xid_gtrid' \in 1..(MaxTrx + 1)
         /\ spider_xid_gtrid' <= cur + 1
         /\ xidOf' \in [Trx -> 0..MaxTrx]
         /\ tree' \subseteq Conn /\ tree \subseteq tree'
BY DEF TypeInv, TypeOK, CounterInv, StartTrx, Trx

\* What the handlers that end a transaction do to the types.
LEMMA EndTrxType ==
  ASSUME TypeInv, pc # "idle", NEW r \in Reply, EndTrx(r),
         branch' \in [Trx -> [Conn -> BranchState]],
         xa_commit_log' \subseteq 0..MaxTrx,
         pending' \subseteq Trx \X Conn \X Call
  PROVE  TypeInv'
<1>1. reply' \in [Trx -> Reply]
  BY DEF EndTrx, Answer, TypeInv, TypeOK
<1>2. trx_start' \in BOOLEAN
  BY Zenon DEF EndTrx
<1>3. pc' = "idle" /\ pc' \in PC
  BY DEF EndTrx, Answer, PC
<1>4. CounterInv'
  BY <1>3 DEF EndTrx, TypeInv, CounterInv
<1> QED
  BY <1>1, <1>2, <1>3, <1>4 DEF EndTrx, FreeTrxConn, TypeInv, TypeOK

\* ... and what a step inside a loop over the join tree does.
LEMMA LoopType ==
  ASSUME TypeInv, pc \notin {"idle", "work"},
         pc' \in PC \ {"idle", "work"},
         branch' \in [Trx -> [Conn -> BranchState]],
         xa_commit_log' \subseteq 0..MaxTrx,
         pending' \subseteq Trx \X Conn \X Call,
         server_lost' \subseteq Conn, one_phase' \subseteq Conn,
         todo' \subseteq tree,
         error_num' \in {"none", "fail", "timeout"},
         UNCHANGED <<sessionVars, tree, queueVars, reply>>
  PROVE  TypeInv'
<1>1. trx_start' \in BOOLEAN
  BY DEF TypeInv, TypeOK, sessionVars
<1>2. CounterInv'
  BY DEF TypeInv, CounterInv, sessionVars
<1> QED
  BY <1>1, <1>2 DEF TypeInv, TypeOK, sessionVars, queueVars

\* ... and what a statement of the client does.
LEMMA StatementType ==
  ASSUME TypeInv, pc = "work", NEW c \in Conn, StartTrx(c),
         StatementError \/ UNCHANGED <<pc, todo, error_num>>,
         branch' \in [Trx -> [Conn -> BranchState]],
         queued_connect' \subseteq Conn, queued_xa_start' \subseteq Conn,
         server_lost' \subseteq Conn,
         UNCHANGED <<one_phase, xa_commit_log, pending, reply>>
  PROVE  TypeInv'
<1>1. /\ cur' \in 0..MaxTrx
      /\ xid' \in 0..MaxTrx
      /\ spider_xid_gtrid' \in 1..(MaxTrx + 1)
      /\ xidOf' \in [Trx -> 0..MaxTrx]
      /\ tree' \subseteq Conn
      /\ CounterInv'
  BY StartTrxType DEF CounterInv, TypeInv, Trx
<1>2. trx_start' \in BOOLEAN
  BY Zenon DEF StartTrx
<1>3. /\ pc' \in PC
      /\ todo' \subseteq tree'
      /\ error_num' \in {"none", "fail", "timeout"}
  BY StartTrxType DEF StatementError, EnterLoop, PC, TypeInv, TypeOK
<1> QED
  BY <1>1, <1>2, <1>3 DEF TypeInv, TypeOK

LEMMA TypeStep == TypeInv /\ [Next]_vars => TypeInv'
<1> SUFFICES ASSUME TypeInv, [Next]_vars PROVE TypeInv'
  OBVIOUS
<1>t. TypeOK /\ CounterInv /\ cur \in 0..MaxTrx
  BY DEF TypeInv, TypeOK
<1>b. {"none", "active", "prepared", "committed", "rolledback"} = BranchState
  BY DEF BranchState
<1>1. CASE Begin
  <2>1. cur' \in 0..MaxTrx /\ CounterInv'
    BY <1>1, <1>t DEF Begin, CounterInv, TypeOK
  <2> QED
    BY <1>1, <1>t, <2>1 DEF Begin, TypeInv, TypeOK, PC, connVars, queueVars
<1>2. CASE Commit \/ Rollback
  <2>1. pc' \in PC \ {"idle", "work"} /\ todo' = tree
        /\ error_num' \in {"none", "fail", "timeout"} /\ pc = "work"
    BY <1>2 DEF Commit, Rollback, EnterLoop, PC
  <2>2. trx_start' \in BOOLEAN
    BY <1>2, <1>t DEF Commit, Rollback, TypeOK, sessionVars
  <2>3. CounterInv'
    BY <1>2, <1>t, <2>1 DEF Commit, Rollback, CounterInv, sessionVars
  <2> QED
    BY <1>2, <1>t, <2>1, <2>2, <2>3
    DEF Commit, Rollback, TypeInv, TypeOK, sessionVars, connVars, queueVars
<1>3. ASSUME NEW c \in Conn, QueryOk(c) \/ QueryErr(c) \/ QueryLost(c)
      PROVE  TypeInv'
  <2>1. branch' \in [Trx -> [Conn -> BranchState]]
    BY <1>3, <1>t, <1>b, SetBranchType DEF QueryOk, QueryErr, QueryLost
  <2>2. StatementError \/ UNCHANGED <<pc, todo, error_num>>
    BY <1>3 DEF QueryOk, QueryErr, QueryLost
  <2>3. /\ queued_connect' \subseteq Conn /\ queued_xa_start' \subseteq Conn
        /\ server_lost' \subseteq Conn
    BY <1>3, <1>t DEF QueryOk, QueryErr, QueryLost, Started, TypeOK
  <2> QED
    BY <1>3, <2>1, <2>2, <2>3, StatementType
    DEF QueryOk, QueryErr, QueryLost, Started
<1>4. ASSUME NEW c \in Conn, StartErr(c) \/ QueryGone(c)
      PROVE  TypeInv'
  <2>1. branch' \in [Trx -> [Conn -> BranchState]]
    BY <1>4, <1>t DEF StartErr, QueryGone, TypeOK
  <2>2. /\ queued_connect' \subseteq Conn /\ queued_xa_start' \subseteq Conn
        /\ server_lost' \subseteq Conn
    BY <1>4, <1>t DEF StartErr, QueryGone, queueVars, TypeOK
  <2> QED
    BY <1>4, <2>1, <2>2, StatementType DEF StartErr, QueryGone
<1>5. ASSUME NEW c \in Conn, PrepareConn(c)
      PROVE  TypeInv'
  <2>1. branch' \in [Trx -> [Conn -> BranchState]]
    BY <1>5, <1>t, <1>b, SetBranchType DEF PrepareConn, TypeOK
  <2>2. /\ pc' \in PC \ {"idle", "work"} /\ todo' \subseteq tree
        /\ error_num' \in {"none", "fail", "timeout"}
    BY <1>5, <1>t DEF PrepareConn, EnterLoop, TypeOK, PC
  <2>3. pending' \subseteq Trx \X Conn \X Call /\ server_lost' \subseteq Conn
    BY <1>5, <1>t DEF PrepareConn, TypeOK, CounterInv, Trx, Call
  <2> QED
    BY <1>5, <1>t, <2>1, <2>2, <2>3, LoopType DEF PrepareConn, TypeOK
<1>6. ASSUME NEW c \in Conn, DecideConn(c)
      PROVE  TypeInv'
  <2>1. branch' \in [Trx -> [Conn -> BranchState]]
    BY <1>6, <1>t, <1>b, SetBranchType DEF DecideConn, TypeOK
  <2>2. xa_commit_log' \subseteq 0..MaxTrx /\ one_phase' \subseteq Conn
    BY <1>6, <1>t DEF DecideConn, TypeOK
  <2> QED
    BY <1>6, <1>t, <2>1, <2>2, LoopType DEF DecideConn, EnterLoop, TypeOK, PC
<1>7. ASSUME NEW c \in Conn, DecideErr(c)
      PROVE  TypeInv'
  <2>1. CASE EnterLoop("rollback", tree, "fail") /\ UNCHANGED <<branch, connVars, reply>>
    BY <1>7, <1>t, <2>1, LoopType DEF DecideErr, EnterLoop, TypeOK, PC, connVars
  <2>2. CASE branch' = Disconnected(Conn) /\ FreeTrxConn /\ Answer("timeout")
    <3>1. branch' \in [Trx -> [Conn -> BranchState]]
      BY <2>2, <1>t, DisconnectedType
    <3>2. reply' \in [Trx -> Reply]
      BY <2>2, <1>t DEF Answer, TypeOK, Reply
    <3>3. trx_start' \in BOOLEAN
      BY <1>7, <1>t DEF DecideErr, sessionVars, TypeOK
    <3>4. CounterInv'
      BY <1>7, <1>t, <2>2 DEF DecideErr, sessionVars, CounterInv, Answer
    <3> QED
      BY <1>7, <1>t, <2>2, <3>1, <3>2, <3>3, <3>4
      DEF DecideErr, FreeTrxConn, Answer, sessionVars, TypeInv, TypeOK, PC
  <2> QED
    BY <1>7, <2>1, <2>2 DEF DecideErr
<1>8. ASSUME NEW c \in Conn, DecideLost(c)
      PROVE  TypeInv'
  <2>1. pending' \subseteq Trx \X Conn \X Call /\ server_lost' \subseteq Conn
    BY <1>8, <1>t DEF DecideLost, TypeOK, CounterInv, Trx, Call
  <2> QED
    BY <1>8, <1>t, <2>1, LoopType DEF DecideLost, EnterLoop, TypeOK, PC
<1>9. ASSUME NEW c \in Conn, OnePhaseConn(c)
      PROVE  TypeInv'
  <2>1. branch' \in [Trx -> [Conn -> BranchState]]
    BY <1>9, <1>t, <1>b, SetBranchType, DisconnectedType DEF OnePhaseConn, TypeOK
  <2>2. xa_commit_log' \subseteq 0..MaxTrx
    BY <1>9, <1>t DEF OnePhaseConn, TypeOK
  <2>3. pending' \subseteq Trx \X Conn \X Call
    BY <1>9, <1>t DEF OnePhaseConn, TypeOK, CounterInv, Trx, Call
  <2>4. EndTrx("success") \/ EndTrx("timeout")
    BY <1>9 DEF OnePhaseConn
  <2> QED
    BY <1>9, <2>1, <2>2, <2>3, <2>4, EndTrxType DEF OnePhaseConn, Reply
<1>10. ASSUME NEW c \in Conn, CommitConn(c)
       PROVE  TypeInv'
  <2>1. branch' \in [Trx -> [Conn -> BranchState]]
    BY <1>10, <1>t, <1>b, SetBranchType DEF CommitConn, TypeOK
  <2>2. pending' \subseteq Trx \X Conn \X Call /\ server_lost' \subseteq Conn
    <3>1. <<cur, c, "commit">> \in Trx \X Conn \X Call
      BY <1>10, <1>t DEF CommitConn, CounterInv, Trx, Call
    <3> QED
      BY <1>10, <1>t, <3>1 DEF CommitConn, TypeOK
  <2>3. error_num' \in {"none", "fail", "timeout"}
    BY <1>10, <1>t DEF CommitConn, KeepCommitError, TypeOK
  <2> QED
    BY <1>10, <1>t, <2>1, <2>2, <2>3, LoopType DEF CommitConn, TypeOK, PC
<1>11. CASE CommitEnd \/ RollbackEnd
  <2>1. EndTrx("success") \/ EndTrx("timeout") \/ EndTrx("fail")
    BY <1>11, <1>t DEF CommitEnd, RollbackEnd, TypeOK
  <2> QED
    BY <1>11, <1>t, <2>1, EndTrxType DEF CommitEnd, RollbackEnd, TypeOK, Reply
<1>12. ASSUME NEW c \in Conn, RollbackConn(c)
       PROVE  TypeInv'
  <2>1. branch' \in [Trx -> [Conn -> BranchState]]
    BY <1>12, <1>t, <1>b, SetBranchType, DisconnectedType DEF RollbackConn, TypeOK
  <2>2. pending' \subseteq Trx \X Conn \X Call /\ server_lost' \subseteq Conn
    BY <1>12, <1>t DEF RollbackConn, TypeOK, CounterInv, Trx, Call
  <2> QED
    BY <1>12, <1>t, <2>1, <2>2, LoopType DEF RollbackConn, TypeOK, PC
<1>13. CASE KillRollback \/ Crash
  <2>1. branch' \in [Trx -> [Conn -> BranchState]]
    BY <1>13, <1>t, DisconnectedType DEF KillRollback, Crash
  <2>2. reply' \in [Trx -> Reply]
    BY <1>13, <1>t DEF KillRollback, Crash, TypeOK, Reply
  <2>3. pending' \subseteq Trx \X Conn \X Call
    <3>1. cur \in Trx
      BY <1>13, <1>t DEF KillRollback, Crash, CounterInv, Trx
    <3>2. \A c : InFlight(c) \in Call
      BY DEF InFlight, Call
    <3>3. todo \subseteq Conn
      BY <1>t DEF TypeOK
    <3> QED
      BY <1>13, <1>t, <3>1, <3>2, <3>3 DEF KillRollback, Crash, TypeOK
  <2>4. trx_start' \in BOOLEAN
    BY <1>13, <1>t DEF KillRollback, Crash, Close, sessionVars, TypeOK
  <2>5. CounterInv'
    BY <1>13, <1>t DEF KillRollback, Crash, Close, sessionVars, CounterInv
  <2> QED
    BY <1>13, <1>t, <2>1, <2>2, <2>3, <2>4, <2>5
    DEF KillRollback, Crash, Close, FreeTrxConn, sessionVars, TypeInv, TypeOK, PC
<1>14. ASSUME NEW t \in Trx, NEW c \in Conn,
              Daemon(t, c) \/ \E call \in Call : BackendFinish(t, c, call)
       PROVE  TypeInv'
  <2>1. \E state \in BranchState : branch' = [branch EXCEPT ![t][c] = state]
    <3>1. branch[t][c] \in BranchState
      BY <1>t DEF TypeOK
    <3> QED
      BY <1>14, <1>b, <3>1 DEF BackendFinish, Daemon
  <2>2. branch' \in [Trx -> [Conn -> BranchState]]
    BY <1>t, <2>1 DEF TypeOK
  <2>3. xa_commit_log' \subseteq 0..MaxTrx
    <3>1. xidOf[t] \in 0..MaxTrx /\ xa_commit_log \subseteq 0..MaxTrx
      BY <1>t DEF TypeOK
    <3> QED
      BY <1>14, <3>1 DEF BackendFinish, Daemon
  <2>4. pending' \subseteq Trx \X Conn \X Call
    BY <1>14, <1>t DEF BackendFinish, Daemon, TypeOK
  <2>5. UNCHANGED <<pc, sessionVars, connVars, todo, error_num, reply>>
    BY <1>14 DEF BackendFinish, Daemon
  <2>6. trx_start' \in BOOLEAN
    BY <2>5, <1>t DEF sessionVars, TypeOK
  <2>7. CounterInv'
    BY <2>5, <1>t DEF sessionVars, CounterInv
  <2> QED
    BY <1>t, <2>2, <2>3, <2>4, <2>5, <2>6, <2>7
    DEF TypeInv, TypeOK, sessionVars, connVars, queueVars
<1>15. CASE UNCHANGED vars
  <2>1. trx_start' \in BOOLEAN
    BY <1>15, <1>t DEF vars, sessionVars, TypeOK
  <2>2. CounterInv'
    BY <1>15, <1>t DEF vars, sessionVars, CounterInv
  <2> QED
    BY <1>15, <1>t, <2>1, <2>2
    DEF vars, sessionVars, connVars, queueVars, TypeInv, TypeOK
<1> QED
  BY <1>1, <1>2, <1>3, <1>4, <1>5, <1>6, <1>7, <1>8, <1>9, <1>10, <1>11, <1>12,
     <1>13, <1>14, <1>15 DEF Next, Client, Coordinator, Backend, Tdbctl, Quiet

\* Every state the session, its connections and the backends reach is well
\* typed: in particular a handler never indexes a transaction that has not
\* begun, and the xid counter never runs ahead of the transactions.
THEOREM TypeCorrect == Spec => []TypeOK
<1>1. Init => TypeInv
  BY TypeInit
<1>2. TypeInv /\ [Next]_vars => TypeInv'
  BY TypeStep
<1>3. TypeInv => TypeOK
  BY DEF TypeInv
<1> QED
  BY <1>1, <1>2, <1>3, PTL DEF Spec

-----------------------------------------------------------------------------
(***************************************************************************)
(* The inductive invariant.                                                *)
(***************************************************************************)
LEMMA InvInit == Init => Inv
<1> SUFFICES ASSUME Init PROVE Inv
  OBVIOUS
<1>1. TypeOK /\ CounterInv
  BY TypeInit DEF TypeInv
<1>2. XidInv
  BY DEF Init, XidInv, PC
<1>3. SessionInv
  BY DEF Init, SessionInv, Queued
<1>4. FutureInv /\ LogInv /\ PendingInv
  BY <1>1 DEF Init, FutureInv, LogInv, PendingInv, Logged, NoRequest, Trx
<1>5. ReplyInv
  BY DEF Init, ReplyInv
<1> QED
  BY <1>1, <1>2, <1>3, <1>4, <1>5 DEF Inv

\* Facts every case of the induction step starts from.
LEMMA InvFacts ==
  ASSUME Inv
  PROVE  /\ TypeInv /\ TypeOK /\ CounterInv /\ XidInv /\ SessionInv
         /\ FutureInv /\ LogInv
         /\ PendingInv /\ ReplyInv
         /\ cur \in 0..MaxTrx /\ Trx = 1..MaxTrx
         /\ pc # "idle" => cur \in Trx
BY DEF Inv, TypeInv, TypeOK, CounterInv, Trx

(***************************************************************************)
(* The client's statements.                                                *)
(***************************************************************************)
LEMMA BeginInv ==
  ASSUME Inv, Begin
  PROVE  XidInv' /\ SessionInv' /\ FutureInv' /\ LogInv' /\ PendingInv' /\ ReplyInv'
<1>t. /\ TypeOK /\ XidInv /\ SessionInv /\ FutureInv /\ LogInv /\ PendingInv /\ ReplyInv
      /\ cur \in 0..MaxTrx /\ Trx = 1..MaxTrx
  BY InvFacts
<1>b. /\ pc = "idle" /\ cur < MaxTrx /\ cur' = cur + 1 /\ cur' \in Trx /\ pc' = "work"
      /\ UNCHANGED <<branch, xa_commit_log, pending, trx_start, xid,
                     spider_xid_gtrid, xidOf, connVars, todo, error_num, reply>>
  BY <1>t DEF Begin
<1>n. cur' > cur /\ xidOf[cur'] = 0 /\ ~trx_start /\ tree = {}
  BY <1>t, <1>b DEF XidInv, SessionInv
<1>1. XidInv'
  BY <1>t, <1>b, <1>n DEF XidInv, connVars, PC
<1>2. SessionInv'
  <2>1. ~Logged(cur')
    BY <1>t, <1>n DEF XidInv, Logged
  <2>2. /\ \A c \in Conn, call \in Call : <<cur', c, call>> \notin pending
        /\ \A c \in Conn : branch[cur'][c] = "none"
    BY <1>t, <1>b, <1>n DEF FutureInv, NoRequest
  <2> QED
    BY <1>t, <1>b, <1>n, <2>1, <2>2
    DEF SessionInv, Queued, connVars, queueVars, Logged, NoRequest
<1>3. LogInv'
  BY <1>t, <1>b DEF LogInv, Logged
<1>4. \A t \in Trx : Over(t) => Over(t)'
  BY <1>t, <1>b DEF Over
<1>5. FutureInv'
  <2>1. \A t \in Trx : t > cur' => t > cur
    BY <1>t, <1>b
  <2> QED
    BY <1>t, <1>b, <2>1 DEF FutureInv, NoRequest
<1>6. PendingInv'
  BY <1>t, <1>b, <1>4 DEF PendingInv, Logged
<1>7. ReplyInv'
  BY <1>t, <1>b, <1>4 DEF ReplyInv, Logged
<1> QED
  BY <1>1, <1>2, <1>3, <1>5, <1>6, <1>7

\* spider_internal_start_trx: the xid stays unique and out of the log.
LEMMA StartTrxInv ==
  ASSUME Inv, pc = "work", NEW c \in Conn, StartTrx(c),
         pc' \in {"work", "rollback"}, UNCHANGED xa_commit_log
  PROVE  /\ XidInv'
         /\ \A t \in Trx : Logged(t)' <=> Logged(t)
         /\ cur \in Trx /\ cur' = cur
         /\ tree' = tree \cup {c}
<1>t. /\ TypeInv /\ TypeOK /\ CounterInv /\ XidInv /\ SessionInv
      /\ cur \in Trx /\ Trx = 1..MaxTrx
  BY InvFacts
<1>s. /\ trx_start' /\ cur' = cur /\ tree' = tree \cup {c}
      /\ xidOf' = [xidOf EXCEPT ![cur] = xid']
      /\ trx_start => UNCHANGED <<xid, spider_xid_gtrid>>
      /\ ~trx_start => xid' = spider_xid_gtrid /\ spider_xid_gtrid' = spider_xid_gtrid + 1
  BY DEF StartTrx
<1>1. CASE trx_start
  <2>1. xidOf' = xidOf
    BY <1>1, <1>t, <1>s DEF XidInv, TypeOK, PC
  <2>2. UNCHANGED <<xid, spider_xid_gtrid>>
    BY <1>1, <1>s
  <2> QED
    BY <1>1, <1>t, <1>s, <2>1, <2>2 DEF XidInv, Logged, PC
<1>2. CASE ~trx_start
  <2>1. xid' = spider_xid_gtrid /\ spider_xid_gtrid' = spider_xid_gtrid + 1
    BY <1>2, <1>s
  <2>2. /\ spider_xid_gtrid \in Int /\ spider_xid_gtrid # 0
        /\ \A t \in Trx : xidOf[t] \in Int
        /\ \A x \in xa_commit_log : x \in Int
    BY <1>t DEF TypeOK
  <2>3. /\ xidOf'[cur] = spider_xid_gtrid
        /\ \A t \in Trx : t # cur => xidOf'[t] = xidOf[t]
    BY <1>t, <1>s, <2>1 DEF TypeOK
  <2>4. spider_xid_gtrid \notin xa_commit_log /\ 0 \notin xa_commit_log /\ xidOf[cur] = 0
    BY <1>2, <1>t, <2>2 DEF XidInv
  <2>5. XidInv'
    <3>1. \A t \in Trx : /\ xidOf'[t] < spider_xid_gtrid'
                         /\ t > cur' => xidOf'[t] = 0
      BY <1>t, <1>s, <2>1, <2>2, <2>3 DEF XidInv
    <3>2. \A t, u \in Trx : xidOf'[t] = xidOf'[u] /\ xidOf'[t] # 0 => t = u
      BY <1>t, <2>2, <2>3 DEF XidInv
    <3>3. \A x \in xa_commit_log' : x # 0 /\ x < spider_xid_gtrid'
      BY <1>t, <2>1, <2>2 DEF XidInv
    <3>4. xid' = xidOf'[cur'] /\ xid' # 0
      BY <1>s, <2>1, <2>2, <2>3
    <3> QED
      BY <1>s, <3>1, <3>2, <3>3, <3>4 DEF XidInv, PC
  <2>6. \A t \in Trx : Logged(t)' <=> Logged(t)
    BY <2>3, <2>4 DEF Logged
  <2> QED
    BY <1>t, <1>s, <2>5, <2>6
<1> QED
  BY <1>1, <1>2

\* A statement that goes through: one more active branch.
LEMMA QueryOkInv ==
  ASSUME Inv, NEW c \in Conn, QueryOk(c)
  PROVE  XidInv' /\ SessionInv' /\ FutureInv' /\ LogInv' /\ PendingInv' /\ ReplyInv'
<1>q. /\ pc = "work" /\ pc' = "work" /\ StartTrx(c)
      /\ branch' = [branch EXCEPT ![cur][c] = "active"]
      /\ queued_connect' = queued_connect \ {c}
      /\ queued_xa_start' = queued_xa_start \ {c}
      /\ server_lost' = server_lost \ {c}
      /\ UNCHANGED <<one_phase, xa_commit_log, pending, reply, todo>>
  BY DEF QueryOk, Started, SetBranch
<1>t. /\ TypeOK /\ SessionInv /\ FutureInv /\ LogInv /\ PendingInv /\ ReplyInv
      /\ cur \in Trx /\ Trx = 1..MaxTrx
  BY <1>q, InvFacts
<1>s. /\ XidInv' /\ \A t \in Trx : Logged(t)' <=> Logged(t)
      /\ cur' = cur /\ tree' = tree \cup {c}
  BY <1>q, StartTrxInv
<1>b. /\ branch'[cur][c] = "active"
      /\ \A t \in Trx, d \in Conn : t # cur \/ d # c => branch'[t][d] = branch[t][d]
  BY <1>q, <1>t DEF TypeOK
<1>w. ~Logged(cur) /\ NoRequest(cur)
  BY <1>q, <1>t DEF SessionInv
<1>1. SessionInv'
  BY <1>q, <1>t, <1>s, <1>b, <1>w DEF SessionInv, Queued, NoRequest
<1>2. FutureInv'
  BY <1>q, <1>t, <1>s, <1>b DEF FutureInv, NoRequest
<1>3. LogInv'
  BY <1>t, <1>s, <1>b, <1>w DEF LogInv
<1>4. \A t \in Trx : Over(t) => Over(t)' /\ t # cur
  BY <1>q, <1>t, <1>s DEF Over
<1>5. PendingInv'
  <2>1. \A t \in Trx : t # cur => xidOf'[t] = xidOf[t]
    BY <1>q, <1>t DEF StartTrx, TypeOK
  <2> QED
    BY <1>q, <1>t, <1>s, <1>b, <1>4, <2>1 DEF PendingInv
<1>6. ReplyInv'
  BY <1>q, <1>t, <1>s, <1>4 DEF ReplyInv
<1> QED
  BY <1>s, <1>1, <1>2, <1>3, <1>5, <1>6

\* A statement that fails: spider_trans_rollback ends the transaction.
LEMMA QueryBadInv ==
  ASSUME SafeConfig, Inv, NEW c \in Conn,
         QueryErr(c) \/ QueryLost(c) \/ StartErr(c) \/ QueryGone(c)
  PROVE  XidInv' /\ SessionInv' /\ FutureInv' /\ LogInv' /\ PendingInv' /\ ReplyInv'
<1>q. /\ pc = "work" /\ pc' = "rollback" /\ StartTrx(c)
      /\ \/ branch' = branch
         \/ branch' = [branch EXCEPT ![cur][c] = "active"]
         \/ branch' = [branch EXCEPT ![cur][c] = "rolledback"]
      /\ UNCHANGED <<xa_commit_log, pending, reply>>
  BY DEF SafeConfig, QueryErr, QueryLost, StartErr, QueryGone, Started, SetBranch,
         StatementError, EnterLoop
<1>t. /\ TypeOK /\ SessionInv /\ FutureInv /\ LogInv /\ PendingInv /\ ReplyInv
      /\ cur \in Trx /\ Trx = 1..MaxTrx
  BY <1>q, InvFacts
<1>s. /\ XidInv' /\ \A t \in Trx : Logged(t)' <=> Logged(t)
      /\ cur' = cur
  BY <1>q, StartTrxInv
<1>w. ~Logged(cur) /\ NoRequest(cur) /\ \A d \in Conn : branch[cur][d] # "committed"
  BY <1>q, <1>t DEF SessionInv
<1>b. /\ \A d \in Conn : branch'[cur][d] # "committed"
      /\ \A t \in Trx, d \in Conn : t # cur => branch'[t][d] = branch[t][d]
  BY <1>q, <1>t, <1>w DEF TypeOK
<1>1. SessionInv'
  BY <1>q, <1>t, <1>s, <1>w DEF SessionInv
<1>2. FutureInv'
  BY <1>q, <1>t, <1>s, <1>b DEF FutureInv, NoRequest
<1>3. LogInv'
  BY <1>t, <1>s, <1>b, <1>w DEF LogInv
<1>4. \A t \in Trx : Over(t) => Over(t)' /\ t # cur
  BY <1>q, <1>t, <1>s DEF Over
<1>5. PendingInv'
  <2>1. \A t \in Trx : t # cur => xidOf'[t] = xidOf[t]
    BY <1>q, <1>t DEF StartTrx, TypeOK
  <2> QED
    BY <1>q, <1>t, <1>s, <1>b, <1>4, <2>1 DEF PendingInv
<1>6. ReplyInv'
  BY <1>q, <1>t, <1>s, <1>4 DEF ReplyInv
<1> QED
  BY <1>s, <1>1, <1>2, <1>3, <1>5, <1>6

(***************************************************************************)
(* The loops over the join tree.                                           *)
(***************************************************************************)
\* A step of a running handler that goes on with the transaction.
LEMMA LoopXid ==
  ASSUME Inv, pc \notin {"idle", "closed"}, pc = "work" => tree # {},
         pc' \in PC \ {"idle", "work"}, UNCHANGED sessionVars,
         \A x \in xa_commit_log' : x \in xa_commit_log \/ x = xid
  PROVE  XidInv'
<1>t. TypeOK /\ XidInv /\ cur \in Trx /\ Trx = 1..MaxTrx
  BY InvFacts
<1>s. UNCHANGED <<cur, trx_start, xid, spider_xid_gtrid, xidOf>>
  BY DEF sessionVars
<1>1. trx_start /\ xid = xidOf[cur] /\ xid # 0
  BY <1>t DEF XidInv, TypeOK, PC
<1>2. \A x \in xa_commit_log' : x # 0 /\ x < spider_xid_gtrid'
  BY <1>t, <1>s, <1>1 DEF XidInv
<1> QED
  BY <1>t, <1>s, <1>1, <1>2 DEF XidInv

LEMMA CommitRollbackInv ==
  ASSUME Inv, Commit \/ Rollback
  PROVE  XidInv' /\ SessionInv' /\ FutureInv' /\ LogInv' /\ PendingInv' /\ ReplyInv'
<1>q. /\ pc = "work" /\ tree # {} /\ todo' = tree
      /\ \/ pc' = "onephase" /\ \E c \in tree : tree = {c}
         \/ pc' = "prepare"
         \/ pc' = "rollback"
      /\ UNCHANGED <<branch, xa_commit_log, pending, sessionVars, connVars, reply>>
  BY DEF Commit, Rollback, EnterLoop
<1>t. /\ TypeOK /\ SessionInv /\ FutureInv /\ LogInv /\ PendingInv /\ ReplyInv
      /\ cur \in Trx /\ Trx = 1..MaxTrx
  BY <1>q, InvFacts
<1>s. /\ UNCHANGED <<cur, xidOf, tree, queued_connect, queued_xa_start,
                     server_lost, one_phase>>
      /\ \A t \in Trx : Over(t) <=> t < cur
      /\ \A t \in Trx : Over(t)' <=> t < cur
  BY <1>q, <1>t DEF sessionVars, connVars, queueVars, Over
<1>1. XidInv'
  BY <1>q, LoopXid DEF PC
<1>2. SessionInv'
  BY <1>q, <1>t, <1>s DEF SessionInv, Queued, Logged, NoRequest
<1>3. FutureInv' /\ LogInv'
  BY <1>q, <1>t, <1>s DEF FutureInv, LogInv, Logged, NoRequest
<1>4. PendingInv'
  BY <1>q, <1>t, <1>s DEF PendingInv, Logged
<1>5. ReplyInv'
  BY <1>q, <1>t, <1>s DEF ReplyInv, Logged
<1> QED
  BY <1>1, <1>2, <1>3, <1>4, <1>5

(***************************************************************************)
(* A step of a loop that neither decides nor ends the transaction: it may  *)
(* change one branch of it, and leave one request on a broken connection.  *)
(***************************************************************************)
LEMMA VisitInv ==
  ASSUME Inv, pc \in {"prepare", "commit", "rollback"},
         pc' \in {"prepare", "commit", "rollback"},
         UNCHANGED <<xa_commit_log, sessionVars, reply>>,
         NEW c \in Conn, NEW call \in Call \ {"decide"},
         pending' = pending \/ pending' = pending \cup {<<cur, c, call>>},
         call = "commit" => Logged(cur),
         call \in {"prepare", "rollback"} => ~Logged(cur),
         branch' \in [Trx -> [Conn -> BranchState]],
         \A t \in Trx : t # cur => branch'[t] = branch[t],
         \A d \in Conn : branch'[cur][d] = "committed" => Logged(cur),
         \A d \in Conn : Logged(cur) =>
                           branch'[cur][d] \in {"none", "prepared", "committed"}
  PROVE  XidInv' /\ FutureInv' /\ LogInv' /\ PendingInv' /\ ReplyInv'
<1>t. /\ TypeOK /\ FutureInv /\ LogInv /\ PendingInv /\ ReplyInv
      /\ cur \in Trx /\ Trx = 1..MaxTrx
  BY InvFacts
<1>s. /\ UNCHANGED <<cur, xidOf>>
      /\ \A t \in Trx : Over(t) <=> t < cur
      /\ \A t \in Trx : Over(t)' <=> t < cur
      /\ \A t \in Trx : Logged(t)' <=> Logged(t)
  BY <1>t DEF sessionVars, Over, Logged
<1>p. \A t \in Trx, d \in Conn, k \in Call :
        /\ t # cur \/ k = "decide" => (<<t, d, k>> \in pending' <=> <<t, d, k>> \in pending)
        /\ <<t, d, k>> \in pending' => <<t, d, k>> \in pending \/ (t = cur /\ k = call)
  OBVIOUS
<1>o. \A t \in Trx : Over(t) => t # cur
  BY <1>t, <1>s
<1>c. {"commit", "prepare", "rollback", "decide"} \subseteq Call
  BY DEF Call
<1>1. XidInv'
  BY LoopXid DEF PC
<1>2. FutureInv'
  <2>1. \A t \in Trx : t > cur => t # cur
    BY <1>t
  <2> QED
    BY <1>t, <1>s, <1>p, <2>1 DEF FutureInv, NoRequest
<1>3. LogInv'
  BY <1>t, <1>s DEF LogInv
<1>4. PendingInv'
  <2>1. ASSUME NEW t \in Trx, NEW d \in Conn
        PROVE  /\ <<t, d, "commit">> \in pending' => Logged(t)
               /\ <<t, d, "prepare">> \in pending' => ~Logged(t)
               /\ <<t, d, "rollback">> \in pending' => ~Logged(t)
    <3>1. /\ <<t, d, "commit">> \in pending => Logged(t)
          /\ <<t, d, "prepare">> \in pending => ~Logged(t)
          /\ <<t, d, "rollback">> \in pending => ~Logged(t)
      BY <1>t DEF PendingInv
    <3> QED
      BY <3>1, <1>p, <1>c
  <2>2. \A t \in Trx, d \in Conn : <<t, d, "decide">> \in pending' =>
          t # cur /\ <<t, d, "decide">> \in pending
    BY <1>t, <1>o, <1>p, <1>c DEF PendingInv
  <2> QED
    BY <1>t, <1>s, <1>p, <2>1, <2>2 DEF PendingInv
<1>5. ReplyInv'
  BY <1>t, <1>s, <1>p DEF ReplyInv, Call
<1> QED
  BY <1>1, <1>2, <1>3, <1>4, <1>5

LEMMA PrepareConnInv ==
  ASSUME Inv, NEW c \in Conn, PrepareConn(c)
  PROVE  XidInv' /\ SessionInv' /\ FutureInv' /\ LogInv' /\ PendingInv' /\ ReplyInv'
<1>q. /\ pc = "prepare" /\ c \in todo
      /\ UNCHANGED <<xa_commit_log, sessionVars, tree, queueVars, one_phase, reply>>
  BY DEF PrepareConn, IsFirst
<1>t. /\ TypeOK /\ SessionInv /\ cur \in Trx
      /\ ~Logged(cur) /\ NoRequest(cur) /\ Queued = {} /\ server_lost = {}
      /\ UNCHANGED <<cur, xidOf, queued_connect, queued_xa_start>>
  BY <1>q, InvFacts DEF SessionInv, sessionVars, queueVars
<1>c. /\ \A d \in Conn : branch[cur][d] # "committed"
      /\ "prepare" \in Call \ {"decide"}
  BY <1>q, <1>t DEF SessionInv, Call
<1>1. CASE /\ pc' = "prepare" /\ todo' = todo \ {c}
           /\ branch' = [branch EXCEPT ![cur][c] = "prepared"]
           /\ UNCHANGED <<pending, server_lost>>
  <2>1. /\ branch'[cur][c] = "prepared"
        /\ \A d \in Conn : d # c => branch'[cur][d] = branch[cur][d]
        /\ \A t \in Trx : t # cur => branch'[t] = branch[t]
        /\ branch' \in [Trx -> [Conn -> BranchState]]
    BY <1>1, <1>t DEF TypeOK, BranchState
  <2>2. SessionInv'
    BY <1>q, <1>t, <1>1, <2>1 DEF SessionInv, Queued, Logged, NoRequest, TypeOK
  <2> QED
    BY <1>q, <1>t, <1>c, <1>1, <2>1, <2>2, VisitInv
<1>2. CASE /\ pc' = "rollback"
           /\ \/ UNCHANGED pending
              \/ pending' = pending \cup {<<cur, c, "prepare">>}
           /\ UNCHANGED branch
  <2>1. SessionInv'
    BY <1>q, <1>t, <1>2 DEF SessionInv, Logged
  <2>2. /\ \A t \in Trx : t # cur => branch'[t] = branch[t]
        /\ branch' \in [Trx -> [Conn -> BranchState]]
    BY <1>2, <1>t DEF TypeOK
  <2> QED
    BY <1>q, <1>t, <1>c, <1>2, <2>1, <2>2, VisitInv
<1> QED
  BY <1>1, <1>2, <1>t DEF PrepareConn, EnterLoop, SetBranch

LEMMA CommitConnInv ==
  ASSUME Inv, NEW c \in Conn, CommitConn(c)
  PROVE  XidInv' /\ SessionInv' /\ FutureInv' /\ LogInv' /\ PendingInv' /\ ReplyInv'
<1>q. /\ pc = "commit" /\ pc' = "commit"
      /\ UNCHANGED <<xa_commit_log, sessionVars, reply>>
      /\ pending' = pending \/ pending' = pending \cup {<<cur, c, "commit">>}
      /\ branch' = branch \/ branch' = [branch EXCEPT ![cur][c] = "committed"]
  BY DEF CommitConn, SetBranch
<1>t. /\ TypeOK /\ SessionInv /\ LogInv /\ cur \in Trx /\ Logged(cur)
      /\ UNCHANGED <<cur, xidOf>>
  BY <1>q, InvFacts DEF SessionInv, sessionVars
<1>e. error_num' = "fail" => ForceCommit = 2
  BY <1>q, <1>t DEF CommitConn, KeepCommitError, SessionInv
<1>1. SessionInv'
  BY <1>q, <1>e, <1>t DEF SessionInv, Logged
<1>2. /\ \A t \in Trx : t # cur => branch'[t] = branch[t]
      /\ branch' \in [Trx -> [Conn -> BranchState]]
  BY <1>q, <1>t DEF TypeOK, BranchState
<1>3. \A d \in Conn : branch'[cur][d] \in {"none", "prepared", "committed"}
  BY <1>q, <1>t DEF TypeOK, LogInv
<1>4. "commit" \in Call \ {"decide"}
  BY DEF Call
<1> QED
  BY <1>q, <1>t, <1>1, <1>2, <1>3, <1>4, VisitInv

LEMMA RollbackConnInv ==
  ASSUME Inv, NEW c \in Conn, RollbackConn(c)
  PROVE  XidInv' /\ SessionInv' /\ FutureInv' /\ LogInv' /\ PendingInv' /\ ReplyInv'
<1>q. /\ pc = "rollback" /\ pc' = "rollback"
      /\ UNCHANGED <<xa_commit_log, sessionVars, reply>>
      /\ pending' = pending \/ pending' = pending \cup {<<cur, c, "rollback">>}
      /\ \/ branch' = branch
         \/ branch' = [branch EXCEPT ![cur][c] = "rolledback"]
         \/ branch' = Disconnected({c})
  BY DEF RollbackConn, SetBranch
<1>t. /\ TypeOK /\ SessionInv /\ LogInv /\ cur \in Trx /\ ~Logged(cur)
      /\ UNCHANGED <<cur, xidOf>>
  BY <1>q, InvFacts DEF SessionInv, sessionVars
<1>1. SessionInv'
  BY <1>q, <1>t DEF SessionInv, Logged
<1>2. branch' \in [Trx -> [Conn -> BranchState]]
  BY <1>q, <1>t, DisconnectedType DEF TypeOK, BranchState
<1>3. /\ \A t \in Trx : t # cur => branch'[t] = branch[t]
      /\ \A d \in Conn : branch'[cur][d] # "committed"
  <2>1. \A d \in Conn : branch[cur][d] # "committed"
    BY <1>t DEF LogInv
  <2> QED
    BY <1>q, <1>t, <2>1 DEF TypeOK, Disconnected
<1>4. "rollback" \in Call \ {"decide"}
  BY DEF Call
<1> QED
  BY <1>q, <1>t, <1>1, <1>2, <1>3, <1>4, VisitInv

(***************************************************************************)
(* The decision: "xa commit one phase with log" commits the last active    *)
(* branch of a transaction and puts its xid in the log, in one step.  It   *)
(* is taken by the coordinator in either path, or later by the backend.    *)
(***************************************************************************)
LEMMA DecideInv ==
  ASSUME Inv, NEW t \in Trx, NEW c \in Conn, xidOf[t] # 0, ~Logged(t),
         branch[t][c] = "active",
         \A d \in Conn \ {c} : branch[t][d] \in {"none", "prepared"},
         branch' = [branch EXCEPT ![t][c] = "committed"],
         xa_commit_log' = xa_commit_log \cup {xidOf[t]},
         UNCHANGED xidOf
  PROVE  /\ LogInv'
         /\ Logged(t)'
         /\ \A u \in Trx : u # t => (Logged(u)' <=> Logged(u))
         /\ \A u \in Trx, d \in Conn : u # t \/ d # c => branch'[u][d] = branch[u][d]
<1>t. TypeOK /\ XidInv /\ LogInv
  BY InvFacts
<1>1. \A u \in Trx : u # t => xidOf[u] # xidOf[t]
  BY <1>t DEF XidInv
<1>2. /\ Logged(t)'
      /\ \A u \in Trx : u # t => (Logged(u)' <=> Logged(u))
  BY <1>1 DEF Logged
<1>3. /\ branch'[t][c] = "committed"
      /\ \A u \in Trx, d \in Conn : u # t \/ d # c => branch'[u][d] = branch[u][d]
  BY <1>t DEF TypeOK
<1>4. LogInv'
  BY <1>t, <1>2, <1>3 DEF LogInv
<1> QED
  BY <1>2, <1>3, <1>4

LEMMA DecideConnInv ==
  ASSUME Inv, NEW c \in Conn, DecideConn(c)
  PROVE  XidInv' /\ SessionInv' /\ FutureInv' /\ LogInv' /\ PendingInv' /\ ReplyInv'
<1>p. pc = "prepare" /\ todo = {c}
  BY DEF DecideConn
<1>t. /\ TypeOK /\ XidInv /\ SessionInv /\ FutureInv /\ LogInv /\ PendingInv /\ ReplyInv
      /\ cur \in Trx /\ Trx = 1..MaxTrx
      /\ Queued = {} /\ ~Logged(cur) /\ NoRequest(cur)
      /\ branch[cur][c] = "active"
      /\ \A d \in Conn \ {c} : branch[cur][d] \in {"none", "prepared"}
  BY <1>p, InvFacts DEF SessionInv
<1>x. xid = xidOf[cur] /\ xid # 0
  BY <1>p, <1>t DEF XidInv, PC
<1>q. /\ pc' = "commit" /\ error_num' = "none"
      /\ branch' = [branch EXCEPT ![cur][c] = "committed"]
      /\ xa_commit_log' = xa_commit_log \cup {xidOf[cur]}
      /\ UNCHANGED <<cur, xidOf, sessionVars, pending, reply>>
  BY <1>t, <1>x DEF DecideConn, SetBranch, EnterLoop, sessionVars
<1>d. /\ LogInv' /\ Logged(cur)'
      /\ \A u \in Trx : u # cur => (Logged(u)' <=> Logged(u))
      /\ \A u \in Trx, d \in Conn : u # cur \/ d # c => branch'[u][d] = branch[u][d]
  BY <1>t, <1>x, <1>q, DecideInv
<1>o. \A u \in Trx : /\ Over(u) <=> u < cur
                     /\ Over(u)' <=> u < cur
                     /\ Over(u) => u # cur
  BY <1>p, <1>t, <1>q DEF Over
<1>1. XidInv'
  BY <1>p, <1>q, <1>x, LoopXid DEF PC
<1>2. SessionInv'
  BY <1>q, <1>d DEF SessionInv
<1>3. FutureInv'
  BY <1>t, <1>q, <1>d DEF FutureInv, NoRequest
<1>4. PendingInv'
  <2>1. \A u \in Trx, d \in Conn, k \in Call : <<u, d, k>> \in pending => u # cur
    BY <1>t DEF NoRequest
  <2>2. {"commit", "prepare", "rollback", "decide"} \subseteq Call
    BY DEF Call
  <2> QED
    BY <1>t, <1>q, <1>d, <1>o, <2>1, <2>2 DEF PendingInv
<1>5. ReplyInv'
  BY <1>t, <1>q, <1>d, <1>o DEF ReplyInv
<1> QED
  BY <1>1, <1>2, <1>3, <1>d, <1>4, <1>5

\* The deciding connection is gone: it cannot be, in this configuration.
LEMMA DecideLostInv ==
  ASSUME SafeConfig, Inv, NEW c \in Conn, DecideLost(c)
  PROVE  FALSE
<1>1. SessionInv
  BY InvFacts
<1> QED
  BY <1>1 DEF SafeConfig, DecideLost, SessionInv

(***************************************************************************)
(* The steps that end a transaction.                                       *)
(***************************************************************************)
\* The session answers r (or "none") and forgets its connections.
LEMMA EndInv ==
  ASSUME Inv, pc \notin {"idle", "closed"},
         pc' \in {"idle", "closed"},
         pc' = "idle" => ~trx_start' \/ cur = MaxTrx,
         UNCHANGED <<cur, xidOf, spider_xid_gtrid>>,
         \A x \in xa_commit_log' : x # 0 /\ x < spider_xid_gtrid,
         \A t \in Trx : t # cur => (Logged(t)' <=> Logged(t)),
         FreeTrxConn,
         NEW r \in Reply, r = "none" \/ reply' = [reply EXCEPT ![cur] = r],
         r = "none" => UNCHANGED reply,
         r = "success" => Logged(cur)',
         r = "fail" => /\ Logged(cur)' => ForceCommit = 2
                       /\ \A c \in Conn : <<cur, c, "decide">> \notin pending',
         LogInv',
         \A t \in Trx : t # cur => branch'[t] = branch[t],
         \A t \in Trx, c \in Conn, k \in Call :
           t # cur => (<<t, c, k>> \in pending' <=> <<t, c, k>> \in pending),
         \A c \in Conn :
           /\ <<cur, c, "commit">> \in pending' => Logged(cur)'
           /\ <<cur, c, "prepare">> \in pending' => ~Logged(cur)'
           /\ <<cur, c, "rollback">> \in pending' => ~Logged(cur)',
         \A c \in Conn : <<cur, c, "decide">> \in pending' =>
           /\ xidOf[cur] # 0
           /\ branch'[cur][c] = "active"
           /\ \A d \in Conn \ {c} : branch'[cur][d] \in {"none", "prepared"}
           /\ \A d \in Conn, k \in Call :
                <<cur, d, k>> \in pending' => d = c /\ k = "decide"
  PROVE  XidInv' /\ SessionInv' /\ FutureInv' /\ PendingInv' /\ ReplyInv'
<1>t. /\ TypeOK /\ XidInv /\ SessionInv /\ FutureInv /\ LogInv /\ PendingInv /\ ReplyInv
      /\ cur \in Trx /\ Trx = 1..MaxTrx
  BY InvFacts
<1>o. \A t \in Trx : /\ Over(t) => Over(t)'
                     /\ Over(cur)'
  BY <1>t DEF Over
<1>c. {"commit", "prepare", "rollback", "decide"} \subseteq Call
  BY DEF Call
<1>1. XidInv'
  BY <1>t DEF XidInv, FreeTrxConn, PC
<1>2. SessionInv'
  BY DEF SessionInv, FreeTrxConn, Queued
<1>3. FutureInv'
  <2>1. \A t \in Trx : t > cur => t # cur
    BY <1>t
  <2>2. ASSUME NEW t \in Trx, t > cur
        PROVE  NoRequest(t)' /\ \A c \in Conn : branch'[t][c] = "none"
    <3>1. t # cur /\ branch'[t] = branch[t] /\ NoRequest(t)
          /\ \A c \in Conn : branch[t][c] = "none"
      BY <2>1, <2>2, <1>t DEF FutureInv
    <3>2. \A c \in Conn, k \in Call :
            <<t, c, k>> \in pending' <=> <<t, c, k>> \in pending
      BY <3>1
    <3> QED
      BY <3>1, <3>2 DEF NoRequest
  <2> QED
    BY <2>2 DEF FutureInv
<1>4. PendingInv'
  <2>1. ASSUME NEW t \in Trx, NEW c \in Conn
        PROVE  /\ <<t, c, "commit">> \in pending' => Logged(t)'
               /\ <<t, c, "prepare">> \in pending' => ~Logged(t)'
               /\ <<t, c, "rollback">> \in pending' => ~Logged(t)'
    <3>1. /\ <<t, c, "commit">> \in pending => Logged(t)
          /\ <<t, c, "prepare">> \in pending => ~Logged(t)
          /\ <<t, c, "rollback">> \in pending => ~Logged(t)
      BY <1>t DEF PendingInv
    <3>2. CASE t = cur
      BY <3>2
    <3>3. CASE t # cur
      <4>1. Logged(t)' <=> Logged(t)
        BY <3>3
      <4>2. \A k \in Call : <<t, c, k>> \in pending' <=> <<t, c, k>> \in pending
        BY <3>3
      <4> QED
        BY <3>1, <4>1, <4>2, <1>c
    <3> QED
      BY <3>2, <3>3
  <2>2. ASSUME NEW t \in Trx, NEW c \in Conn, <<t, c, "decide">> \in pending'
        PROVE  /\ Over(t)' /\ xidOf[t] # 0
               /\ branch'[t][c] = "active"
               /\ \A d \in Conn \ {c} : branch'[t][d] \in {"none", "prepared"}
               /\ \A d \in Conn, k \in Call :
                    <<t, d, k>> \in pending' => d = c /\ k = "decide"
    <3>1. CASE t = cur
      BY <3>1, <2>2, <1>o, <1>t
    <3>2. CASE t # cur
      <4>1. <<t, c, "decide">> \in pending
        BY <3>2, <2>2, <1>c
      <4> QED
        BY <3>2, <4>1, <1>o, <1>t DEF PendingInv
    <3> QED
      BY <3>1, <3>2
  <2> QED
    BY <1>o, <2>1, <2>2 DEF PendingInv
<1>5. ReplyInv'
  <2>1. ASSUME NEW t \in Trx
        PROVE  /\ reply'[t] # "none" => Over(t)'
               /\ reply'[t] = "success" => Logged(t)'
               /\ reply'[t] = "fail" =>
                    (Logged(t)' => ForceCommit = 2) /\ \A c \in Conn : <<t, c, "decide">> \notin pending'
    <3>1. CASE t = cur /\ r # "none"
      <4>1. reply'[t] = r
        BY <3>1, <1>t DEF TypeOK
      <4> QED
        BY <3>1, <4>1, <1>o, <1>t
    <3>2. CASE t # cur
      <4>1. reply'[t] = reply[t]
        BY <3>2, <1>t DEF TypeOK
      <4> QED
        BY <3>2, <4>1, <1>o, <1>t, <1>c DEF ReplyInv
    <3>3. CASE t = cur /\ r = "none"
      <4>1. reply'[t] = "none"
        BY <3>3, <1>t DEF ReplyInv, Over, TypeOK
      <4> QED
        BY <4>1
    <3> QED
      BY <3>1, <3>2, <3>3
  <2> QED
    BY <2>1 DEF ReplyInv
<1> QED
  BY <1>1, <1>2, <1>3, <1>4, <1>5

\* The backends that lose their session roll back what was not prepared.
LEMMA DisconnectedInv ==
  ASSUME Inv, cur \in Trx, NEW s, branch' = Disconnected(s),
         UNCHANGED <<xa_commit_log, xidOf>>
  PROVE  /\ LogInv'
         /\ \A t \in Trx : t # cur => branch'[t] = branch[t]
         /\ \A c \in Conn : branch[cur][c] # "active" \/ c \notin s =>
                              branch'[cur][c] = branch[cur][c]
<1>t. TypeOK /\ LogInv
  BY InvFacts
<1>1. /\ \A t \in Trx : t # cur => branch'[t] = branch[t]
      /\ \A c \in Conn : branch'[cur][c] = IF c \in s /\ branch[cur][c] = "active"
                                           THEN "rolledback" ELSE branch[cur][c]
  BY <1>t DEF TypeOK, Disconnected
<1>2. \A t \in Trx : Logged(t)' <=> Logged(t)
  BY DEF Logged
<1>3. LogInv'
  BY <1>t, <1>1, <1>2 DEF LogInv
<1> QED
  BY <1>1, <1>3

\* The requests of a transaction that is not over agree with the log.
LEMMA RequestFacts ==
  ASSUME Inv, pc \notin {"idle", "closed"}
  PROVE  \A c \in Conn :
           /\ <<cur, c, "commit">> \in pending => Logged(cur)
           /\ <<cur, c, "prepare">> \in pending => ~Logged(cur)
           /\ <<cur, c, "rollback">> \in pending => ~Logged(cur)
           /\ <<cur, c, "decide">> \notin pending
<1>t. PendingInv /\ cur \in Trx /\ Trx = 1..MaxTrx
  BY InvFacts
<1>1. ~Over(cur)
  BY <1>t DEF Over
<1> QED
  BY <1>t, <1>1 DEF PendingInv

LEMMA CommitEndInv ==
  ASSUME Inv, CommitEnd \/ RollbackEnd
  PROVE  XidInv' /\ SessionInv' /\ FutureInv' /\ LogInv' /\ PendingInv' /\ ReplyInv'
<1> DEFINE r == IF pc = "rollback" THEN "fail"
                ELSE IF error_num = "none" THEN "success" ELSE error_num
<1>q. /\ pc \in {"commit", "rollback"} /\ EndTrx(r)
      /\ UNCHANGED <<branch, xa_commit_log, pending>>
  BY DEF CommitEnd, RollbackEnd
<1>e. /\ pc' = "idle" /\ ~trx_start' /\ FreeTrxConn
      /\ UNCHANGED <<cur, xidOf, spider_xid_gtrid>>
      /\ reply' = [reply EXCEPT ![cur] = r]
  BY <1>q, Zenon DEF EndTrx, Answer
<1>t. XidInv /\ SessionInv /\ LogInv /\ cur \in Trx /\ r \in Reply
  BY <1>q, InvFacts DEF Reply, TypeOK
<1>l. \A t \in Trx : Logged(t)' <=> Logged(t)
  BY <1>q, <1>e DEF Logged
<1>1. LogInv'
  BY <1>q, <1>t, <1>l DEF LogInv
<1>2. /\ r = "success" => Logged(cur)
      /\ r = "fail" => (Logged(cur) => ForceCommit = 2)
      /\ r # "none"
  BY <1>q, <1>t DEF SessionInv
<1>3. \A x \in xa_commit_log' : x # 0 /\ x < spider_xid_gtrid
  BY <1>q, <1>t DEF XidInv
<1>4. \A c \in Conn :
        /\ <<cur, c, "commit">> \in pending' => Logged(cur)'
        /\ <<cur, c, "prepare">> \in pending' => ~Logged(cur)'
        /\ <<cur, c, "rollback">> \in pending' => ~Logged(cur)'
        /\ <<cur, c, "decide">> \notin pending'
  <2>1. Logged(cur)' <=> Logged(cur)
    BY <1>q, <1>e DEF Logged
  <2> QED
    BY <1>q, <2>1, RequestFacts
<1> HIDE DEF r
<1> QED
  BY <1>q, <1>e, <1>t, <1>l, <1>1, <1>2, <1>3, <1>4, EndInv

\* ER_SPIDER_XA_TIMEOUT: trx_start stays set, so no transaction may follow.
LEMMA DecideErrInv ==
  ASSUME SafeConfig, Inv, NEW c \in Conn, DecideErr(c)
  PROVE  XidInv' /\ SessionInv' /\ FutureInv' /\ LogInv' /\ PendingInv' /\ ReplyInv'
<1>q. /\ pc = "prepare" /\ FreeTrxConn /\ branch' = Disconnected(Conn)
      /\ pc' = "idle" /\ reply' = [reply EXCEPT ![cur] = "timeout"]
      /\ MaxTrx = 1
      /\ UNCHANGED <<xa_commit_log, pending, cur, xidOf, spider_xid_gtrid>>
  BY DEF SafeConfig, DecideErr, Answer, sessionVars
<1>t. /\ XidInv /\ SessionInv /\ NoRequest(cur) /\ cur \in Trx /\ Trx = 1..MaxTrx
      /\ cur = MaxTrx
  BY <1>q, InvFacts DEF SessionInv
<1>1. LogInv' /\ \A t \in Trx : t # cur => branch'[t] = branch[t]
  BY <1>q, <1>t, DisconnectedInv
<1>2. \A t \in Trx : Logged(t)' <=> Logged(t)
  BY <1>q DEF Logged
<1>3. \A x \in xa_commit_log' : x # 0 /\ x < spider_xid_gtrid
  BY <1>q, <1>t DEF XidInv
<1>4. \A d \in Conn, k \in Call : <<cur, d, k>> \notin pending'
  BY <1>q, <1>t DEF NoRequest
<1>5. {"commit", "prepare", "rollback", "decide"} \subseteq Call /\ "timeout" \in Reply
  BY DEF Call, Reply
<1> QED
  BY <1>q, <1>t, <1>1, <1>2, <1>3, <1>4, <1>5, EndInv

LEMMA OnePhaseConnInv ==
  ASSUME SafeConfig, Inv, NEW c \in Conn, OnePhaseConn(c)
  PROVE  XidInv' /\ SessionInv' /\ FutureInv' /\ LogInv' /\ PendingInv' /\ ReplyInv'
<1>p. pc = "onephase" /\ todo = {c}
  BY DEF OnePhaseConn
<1>t. /\ TypeOK /\ XidInv /\ SessionInv /\ cur \in Trx
      /\ Queued = {} /\ server_lost = {} /\ ~Logged(cur) /\ NoRequest(cur)
      /\ branch[cur][c] = "active"
      /\ \A d \in Conn \ {c} : branch[cur][d] \in {"none", "prepared"}
  BY <1>p, InvFacts DEF SessionInv
<1>x. xid = xidOf[cur] /\ xid # 0
  BY <1>p, <1>t DEF XidInv, PC
<1>q. /\ pending' = pending
      /\ \/ /\ branch' = [branch EXCEPT ![cur][c] = "committed"]
            /\ xa_commit_log' = xa_commit_log \cup {xidOf[cur]}
            /\ EndTrx("success")
         \/ /\ branch' = Disconnected({c})
            /\ EndTrx("timeout")
            /\ UNCHANGED xa_commit_log
  BY <1>t, <1>x DEF OnePhaseConn, SafeConfig, SetBranch
<1>e. ASSUME NEW r \in Reply, EndTrx(r)
      PROVE  /\ pc' = "idle" /\ ~trx_start' /\ FreeTrxConn
             /\ UNCHANGED <<cur, xidOf, spider_xid_gtrid>>
             /\ reply' = [reply EXCEPT ![cur] = r]
  BY <1>e, Zenon DEF EndTrx, Answer
<1>r. "success" \in Reply /\ "timeout" \in Reply
      /\ {"commit", "prepare", "rollback", "decide"} \subseteq Call
  BY DEF Reply, Call
<1>4. \A d \in Conn, k \in Call : <<cur, d, k>> \notin pending'
  BY <1>q, <1>t DEF NoRequest
<1>5. UNCHANGED <<cur, xidOf>>
  BY <1>q, <1>r, <1>e
<1>1. CASE /\ branch' = [branch EXCEPT ![cur][c] = "committed"]
           /\ xa_commit_log' = xa_commit_log \cup {xidOf[cur]}
           /\ EndTrx("success")
  <2>1. /\ LogInv' /\ xidOf'[cur] \in xa_commit_log'
        /\ \A u \in Trx : u # cur => (Logged(u)' <=> Logged(u))
    BY <1>1, <1>t, <1>x, <1>5, DecideInv DEF Logged
  <2>2. \A t \in Trx : t # cur => branch'[t] = branch[t]
    BY <1>1, <1>t DEF TypeOK
  <2>3. \A x \in xa_commit_log' : x # 0 /\ x < spider_xid_gtrid
    BY <1>1, <1>t, <1>x DEF XidInv
  <2>4. Logged(cur)'
    BY <2>1, <1>5 DEF Logged
  <2> QED
    BY <1>1, <1>q, <1>p, <1>t, <1>e, <1>r, <1>4, <2>1, <2>2, <2>3, <2>4, EndInv
<1>2. CASE /\ branch' = Disconnected({c})
           /\ EndTrx("timeout")
           /\ UNCHANGED xa_commit_log
  <2>1. LogInv' /\ \A t \in Trx : t # cur => branch'[t] = branch[t]
    BY <1>2, <1>t, <1>5, DisconnectedInv
  <2>2. \A u \in Trx : Logged(u)' <=> Logged(u)
    BY <1>2, <1>5 DEF Logged
  <2>3. \A x \in xa_commit_log' : x # 0 /\ x < spider_xid_gtrid
    BY <1>2, <1>t DEF XidInv
  <2> QED
    BY <1>2, <1>q, <1>p, <1>t, <1>e, <1>r, <1>4, <2>1, <2>2, <2>3, EndInv
<1> QED
  BY <1>1, <1>2, <1>q

\* KILL CONNECTION: the transaction was to be rolled back and is not logged.
LEMMA KillRollbackInv ==
  ASSUME Inv, KillRollback
  PROVE  XidInv' /\ SessionInv' /\ FutureInv' /\ LogInv' /\ PendingInv' /\ ReplyInv'
<1>q. /\ pc = "rollback" /\ pc' = "closed" /\ FreeTrxConn
      /\ branch' = Disconnected(Idle(pending))
      /\ reply' = [reply EXCEPT ![cur] = "fail"]
      /\ UNCHANGED <<xa_commit_log, pending, cur, xidOf, spider_xid_gtrid>>
  BY DEF KillRollback, Close, sessionVars
<1>t. XidInv /\ SessionInv /\ cur \in Trx /\ ~Logged(cur) /\ "fail" \in Reply
  BY <1>q, InvFacts DEF SessionInv, Reply
<1>1. LogInv' /\ \A t \in Trx : t # cur => branch'[t] = branch[t]
  BY <1>q, <1>t, DisconnectedInv
<1>2. (\A t \in Trx : Logged(t)' <=> Logged(t)) /\ (Logged(cur)' <=> Logged(cur))
  BY <1>q DEF Logged
<1>3. \A x \in xa_commit_log' : x # 0 /\ x < spider_xid_gtrid
  BY <1>q, <1>t DEF XidInv
<1>4. \A c \in Conn :
        /\ <<cur, c, "commit">> \in pending' => Logged(cur)'
        /\ <<cur, c, "prepare">> \in pending' => ~Logged(cur)'
        /\ <<cur, c, "rollback">> \in pending' => ~Logged(cur)'
        /\ <<cur, c, "decide">> \notin pending'
  BY <1>q, <1>2, RequestFacts
<1> QED
  BY <1>q, <1>t, <1>1, <1>2, <1>3, <1>4, EndInv

\* A crash: the request it leaves behind is one the coordinator could make.
LEMMA CrashInv ==
  ASSUME Inv, Crash
  PROVE  XidInv' /\ SessionInv' /\ FutureInv' /\ LogInv' /\ PendingInv' /\ ReplyInv'
<1>q. /\ pc \in PC \ {"closed", "idle"} /\ pc' = "closed" /\ FreeTrxConn
      /\ branch' = Disconnected(Idle(pending'))
      /\ \/ UNCHANGED pending
         \/ \E c \in todo : pending' = pending \cup {<<cur, c, InFlight(c)>>}
      /\ UNCHANGED <<xa_commit_log, cur, xidOf, spider_xid_gtrid, reply>>
  BY DEF Crash, Close, sessionVars
<1>t. TypeOK /\ XidInv /\ SessionInv /\ cur \in Trx /\ todo \subseteq tree /\ tree \subseteq Conn
  BY <1>q, InvFacts DEF TypeOK
<1>1. /\ LogInv' /\ \A t \in Trx : t # cur => branch'[t] = branch[t]
      /\ \A c \in Conn : branch[cur][c] # "active" \/ c \notin Idle(pending') =>
                           branch'[cur][c] = branch[cur][c]
  BY <1>q, <1>t, DisconnectedInv
<1>2. (\A t \in Trx : Logged(t)' <=> Logged(t)) /\ (Logged(cur)' <=> Logged(cur))
  BY <1>q DEF Logged
<1>3. \A x \in xa_commit_log' : x # 0 /\ x < spider_xid_gtrid
  BY <1>q, <1>t DEF XidInv
<1>4. \A c \in Conn :
        /\ <<cur, c, "commit">> \in pending => Logged(cur)
        /\ <<cur, c, "prepare">> \in pending => ~Logged(cur)
        /\ <<cur, c, "rollback">> \in pending => ~Logged(cur)
        /\ <<cur, c, "decide">> \notin pending
  BY <1>q, RequestFacts
<1>5. "none" \in Reply /\ {"commit", "prepare", "rollback", "decide"} \subseteq Call
  BY DEF Reply, Call
<1>6. CASE UNCHANGED pending
  BY <1>6, <1>q, <1>t, <1>1, <1>2, <1>3, <1>4, <1>5, EndInv
<1>7. ASSUME NEW c \in todo, pending' = pending \cup {<<cur, c, InFlight(c)>>}
      PROVE  XidInv' /\ SessionInv' /\ FutureInv' /\ LogInv' /\ PendingInv' /\ ReplyInv'
  <2>1. \A t \in Trx, d \in Conn, k \in Call :
          t # cur => (<<t, d, k>> \in pending' <=> <<t, d, k>> \in pending)
    BY <1>7
  <2>2. CASE InFlight(c) = "decide"
    <3>1. pc \in {"prepare", "onephase"} /\ (pc = "prepare" => todo = {c})
      BY <2>2 DEF InFlight
    <3>2. /\ branch[cur][c] = "active" /\ NoRequest(cur)
          /\ \A d \in Conn \ {c} : branch[cur][d] \in {"none", "prepared"}
      BY <3>1, <1>t, <1>7 DEF SessionInv
    <3>3. c \notin Idle(pending')
      BY <1>7, <2>2 DEF Idle
    <3>4. /\ branch'[cur][c] = "active"
          /\ \A d \in Conn \ {c} : branch'[cur][d] \in {"none", "prepared"}
      BY <1>1, <1>t, <1>7, <3>2, <3>3
    <3>5. \A d \in Conn, k \in Call :
            <<cur, d, k>> \in pending' => d = c /\ k = "decide"
      BY <1>7, <2>2, <3>2 DEF NoRequest
    <3>6. \A d \in Conn, k \in {"commit", "prepare", "rollback"} :
            <<cur, d, k>> \notin pending'
      BY <1>5, <3>5
    <3>7. \A d \in Conn : <<cur, d, "decide">> \in pending' =>
            /\ xidOf[cur] # 0
            /\ branch'[cur][d] = "active"
            /\ \A b \in Conn \ {d} : branch'[cur][b] \in {"none", "prepared"}
            /\ \A b \in Conn, k \in Call :
                 <<cur, b, k>> \in pending' => b = d /\ k = "decide"
      <4>1. xidOf[cur] # 0
        BY <3>1, <1>t DEF XidInv, PC
      <4> QED
        BY <1>5, <3>4, <3>5, <4>1
    <3> QED
      BY <1>q, <1>t, <1>1, <1>2, <1>3, <1>5, <2>1, <3>6, <3>7, EndInv
  <2>3. CASE InFlight(c) # "decide"
    <3>1. \/ InFlight(c) = "prepare" /\ pc = "prepare"
          \/ InFlight(c) = "commit" /\ pc = "commit"
          \/ InFlight(c) = "rollback" /\ pc \in {"work", "rollback"}
      BY <2>3, <1>q DEF InFlight, PC
    <3>2. /\ InFlight(c) = "commit" => Logged(cur)
          /\ InFlight(c) \in {"prepare", "rollback"} => ~Logged(cur)
      BY <3>1, <1>t DEF SessionInv
    <3>3. \A d \in Conn :
            /\ <<cur, d, "commit">> \in pending' => Logged(cur)'
            /\ <<cur, d, "prepare">> \in pending' => ~Logged(cur)'
            /\ <<cur, d, "rollback">> \in pending' => ~Logged(cur)'
            /\ <<cur, d, "decide">> \notin pending'
      BY <1>2, <1>4, <1>7, <2>3, <3>2
    <3> QED
      BY <1>q, <1>t, <1>1, <1>2, <1>3, <1>5, <2>1, <3>3, EndInv
  <2> QED
    BY <2>2, <2>3
<1> QED
  BY <1>6, <1>7, <1>q

(***************************************************************************)
(* The backends and Tdbctl.                                                *)
(***************************************************************************)
\* A branch of t is settled or prepared behind the session's back, one
\* request of t may be used up, and t may be decided.
LEMMA BehindInv ==
  ASSUME Inv, NEW t \in Trx, NEW c \in Conn,
         t <= cur,
         t = cur => pc \in {"idle", "closed", "commit", "rollback"},
         UNCHANGED <<pc, sessionVars, connVars, todo, error_num, reply>>,
         pending' \subseteq pending,
         \A u \in Trx : u # t => branch'[u] = branch[u],
         \A u \in Trx : u # t => (Logged(u)' <=> Logged(u)),
         \A x \in xa_commit_log' : x # 0 /\ x < spider_xid_gtrid,
         \/ Logged(t)' <=> Logged(t)
         \/ /\ Logged(t)' /\ reply[t] # "fail" /\ NoRequest(t)' /\ Over(t),
         \A d \in Conn : <<t, d, "decide">> \notin pending',
         LogInv'
  PROVE  XidInv' /\ SessionInv' /\ FutureInv' /\ PendingInv' /\ ReplyInv'
<1>t. /\ TypeOK /\ XidInv /\ SessionInv /\ FutureInv /\ PendingInv /\ ReplyInv
      /\ cur \in 0..MaxTrx /\ Trx = 1..MaxTrx
  BY InvFacts
<1>s. /\ UNCHANGED <<cur, trx_start, xid, spider_xid_gtrid, xidOf>>
      /\ UNCHANGED <<tree, queued_connect, queued_xa_start, server_lost, one_phase>>
      /\ \A u \in Trx : Over(u)' <=> Over(u)
      /\ \A u : NoRequest(u) => NoRequest(u)'
  BY DEF sessionVars, connVars, queueVars, Over, NoRequest
<1>c. {"commit", "prepare", "rollback", "decide"} \subseteq Call
  BY DEF Call
<1>1. XidInv'
  BY <1>t, <1>s DEF XidInv
<1>2. SessionInv'
  <2>1. CASE pc \in {"idle", "closed"}
    BY <2>1, <1>t, <1>s DEF SessionInv, Queued
  <2>2. CASE pc \notin {"idle", "closed"} /\ t # cur
    <3>1. cur \in Trx
      BY <2>2, InvFacts
    <3>2. branch'[cur] = branch[cur] /\ (Logged(cur)' <=> Logged(cur))
      BY <3>1, <2>2, <1>s DEF Logged
    <3> QED
      BY <2>2, <3>2, <1>t, <1>s DEF SessionInv, Queued
  <2>3. CASE pc \in {"commit", "rollback"} /\ t = cur
    <3>1. ~Over(t)
      BY <2>3, <1>t DEF Over
    <3>2. Logged(cur)' <=> Logged(cur)
      BY <2>3, <3>1, <1>s DEF Logged
    <3> QED
      BY <2>3, <3>2, <1>t, <1>s DEF SessionInv
  <2> QED
    BY <2>1, <2>2, <2>3
<1>3. FutureInv'
  <2>1. \A u \in Trx : u > cur => u # t
    BY <1>t
  <2> QED
    BY <2>1, <1>t, <1>s DEF FutureInv
<1>4. PendingInv'
  <2>1. ASSUME NEW u \in Trx, NEW d \in Conn
        PROVE  /\ <<u, d, "commit">> \in pending' => Logged(u)'
               /\ <<u, d, "prepare">> \in pending' => ~Logged(u)'
               /\ <<u, d, "rollback">> \in pending' => ~Logged(u)'
    <3>1. /\ <<u, d, "commit">> \in pending' => Logged(u)
          /\ <<u, d, "prepare">> \in pending' => ~Logged(u)
          /\ <<u, d, "rollback">> \in pending' => ~Logged(u)
      BY <1>t DEF PendingInv
    <3>2. CASE Logged(u)' <=> Logged(u)
      BY <3>1, <3>2
    <3>3. CASE u = t /\ NoRequest(t)'
      BY <3>3, <1>c DEF NoRequest
    <3> QED
      BY <3>2, <3>3
  <2>2. ASSUME NEW u \in Trx, NEW d \in Conn, <<u, d, "decide">> \in pending'
        PROVE  /\ Over(u)' /\ xidOf'[u] # 0
               /\ branch'[u][d] = "active"
               /\ \A b \in Conn \ {d} : branch'[u][b] \in {"none", "prepared"}
               /\ \A b \in Conn, call \in Call :
                    <<u, b, call>> \in pending' => b = d /\ call = "decide"
    <3>1. u # t /\ branch'[u] = branch[u] /\ <<u, d, "decide">> \in pending
      BY <2>2
    <3> QED
      BY <3>1, <1>t, <1>s DEF PendingInv
  <2> QED
    BY <2>1, <2>2 DEF PendingInv
<1>5. ReplyInv'
  <2>1. \A u \in Trx : /\ Logged(u) => Logged(u)'
                       /\ reply[u] = "fail" => (Logged(u)' <=> Logged(u))
    OBVIOUS
  <2> QED
    BY <2>1, <1>t, <1>s DEF ReplyInv
<1> QED
  BY <1>1, <1>2, <1>3, <1>4, <1>5

LEMMA BackendFinishInv ==
  ASSUME Inv, NEW t \in Trx, NEW c \in Conn, NEW call \in Call,
         BackendFinish(t, c, call)
  PROVE  XidInv' /\ SessionInv' /\ FutureInv' /\ LogInv' /\ PendingInv' /\ ReplyInv'
<1>q. /\ <<t, c, call>> \in pending
      /\ pending' = pending \ {<<t, c, call>>}
      /\ UNCHANGED <<pc, sessionVars, connVars, todo, error_num, reply>>
      /\ UNCHANGED <<cur, xidOf>>
  BY DEF BackendFinish, sessionVars
<1>t. /\ TypeOK /\ XidInv /\ SessionInv /\ FutureInv /\ LogInv /\ PendingInv /\ ReplyInv
      /\ cur \in 0..MaxTrx /\ Trx = 1..MaxTrx
  BY InvFacts
<1>1. t <= cur
  BY <1>q, <1>t DEF FutureInv, NoRequest
<1>2. t = cur => pc \in {"idle", "closed", "commit", "rollback"}
  BY <1>q, <1>t DEF SessionInv, NoRequest, TypeOK, PC
<1>3. \A d \in Conn : <<t, d, "decide">> \notin pending'
  BY <1>q, <1>t DEF PendingInv
<1>4. CASE /\ call = "decide" /\ branch[t][c] = "active"
           /\ branch' = [branch EXCEPT ![t][c] = "committed"]
           /\ xa_commit_log' = xa_commit_log \cup {xidOf[t]}
  <2>1. /\ Over(t) /\ xidOf[t] # 0
        /\ \A d \in Conn \ {c} : branch[t][d] \in {"none", "prepared"}
        /\ \A d \in Conn, k \in Call : <<t, d, k>> \in pending => d = c /\ k = "decide"
    BY <1>4, <1>q, <1>t DEF PendingInv
  <2>2. ~Logged(t)
    BY <1>4, <1>t DEF LogInv
  <2>3. /\ LogInv' /\ Logged(t)'
        /\ \A u \in Trx : u # t => (Logged(u)' <=> Logged(u))
    BY <1>4, <1>q, <2>1, <2>2, DecideInv
  <2>4. \A u \in Trx : u # t => branch'[u] = branch[u]
    BY <1>4, <1>t DEF TypeOK
  <2>5. \A x \in xa_commit_log' : x # 0 /\ x < spider_xid_gtrid
    BY <1>4, <1>t, <2>1 DEF XidInv
  <2>6. NoRequest(t)'
    BY <1>4, <1>q, <2>1 DEF NoRequest
  <2>7. reply[t] # "fail"
    BY <1>4, <1>q, <1>t DEF ReplyInv
  <2> QED
    BY <1>q, <1>1, <1>2, <1>3, <2>1, <2>3, <2>4, <2>5, <2>6, <2>7, BehindInv
<1>5. CASE /\ UNCHANGED xa_commit_log
           /\ \/ /\ call = "prepare" /\ branch' = [branch EXCEPT ![t][c] = "prepared"]
                 /\ branch[t][c] = "active"
              \/ call = "commit" /\ branch' = [branch EXCEPT ![t][c] = "committed"]
              \/ call = "rollback" /\ branch' = [branch EXCEPT ![t][c] = "rolledback"]
              \/ branch' = [branch EXCEPT ![t][c] = IF @ = "active" THEN "rolledback"
                                                    ELSE @]
  <2>1. /\ call = "commit" => Logged(t)
        /\ call = "rollback" => ~Logged(t)
    BY <1>q, <1>t DEF PendingInv
  <2>2. \A u \in Trx : Logged(u)' <=> Logged(u)
    BY <1>5, <1>q DEF Logged
  <2>3. \A u \in Trx : u # t => branch'[u] = branch[u]
    BY <1>5, <1>t DEF TypeOK
  <2>4. /\ \A d \in Conn : d # c => branch'[t][d] = branch[t][d]
        /\ \/ branch'[t][c] = "prepared" /\ branch[t][c] = "active"
           \/ branch'[t][c] = "committed" /\ Logged(t)
           \/ branch'[t][c] = "rolledback" /\ ~Logged(t)
           \/ branch'[t][c] = "rolledback" /\ branch[t][c] = "active"
           \/ branch'[t][c] = branch[t][c]
    BY <1>5, <1>t, <2>1 DEF TypeOK
  <2>5. LogInv'
    <3>1. ASSUME NEW u \in Trx, NEW d \in Conn
          PROVE  /\ branch'[u][d] = "committed" => Logged(u)
                 /\ Logged(u) => branch'[u][d] \in {"none", "prepared", "committed"}
      BY <1>t, <2>3, <2>4 DEF LogInv
    <3> QED
      BY <2>2, <3>1 DEF LogInv
  <2>6. \A x \in xa_commit_log' : x # 0 /\ x < spider_xid_gtrid
    BY <1>5, <1>t DEF XidInv
  <2> QED
    BY <1>q, <1>1, <1>2, <1>3, <2>2, <2>3, <2>5, <2>6, BehindInv
<1> QED
  BY <1>4, <1>5 DEF BackendFinish

\* The daemon waits until the transaction is over, and obeys the log.
LEMMA DaemonInv ==
  ASSUME SafeConfig, Inv, NEW t \in Trx, NEW c \in Conn, Daemon(t, c)
  PROVE  XidInv' /\ SessionInv' /\ FutureInv' /\ LogInv' /\ PendingInv' /\ ReplyInv'
<1>q. /\ branch[t][c] = "prepared"
      /\ t < cur \/ pc \in {"idle", "closed", "commit", "rollback"}
      /\ \A p \in pending : p[1] = t => p[3] \in {"commit", "rollback"}
      /\ branch' = [branch EXCEPT ![t][c] = IF Logged(t) THEN "committed"
                                            ELSE "rolledback"]
      /\ UNCHANGED <<xa_commit_log, pending>>
      /\ UNCHANGED <<pc, sessionVars, connVars, todo, error_num, reply>>
      /\ UNCHANGED <<cur, xidOf>>
  BY DEF SafeConfig, Daemon, Overdue, Logged, sessionVars
<1>t. /\ TypeOK /\ XidInv /\ FutureInv /\ LogInv
      /\ cur \in 0..MaxTrx /\ Trx = 1..MaxTrx
  BY InvFacts
<1>1. t <= cur
  BY <1>q, <1>t DEF FutureInv
<1>2. t = cur => pc \in {"idle", "closed", "commit", "rollback"}
  BY <1>q, <1>t
<1>3. \A d \in Conn : <<t, d, "decide">> \notin pending'
  BY <1>q
<1>4. \A u \in Trx : Logged(u)' <=> Logged(u)
  BY <1>q DEF Logged
<1>5. /\ \A u \in Trx : u # t => branch'[u] = branch[u]
      /\ \A d \in Conn : d # c => branch'[t][d] = branch[t][d]
      /\ branch'[t][c] = IF Logged(t) THEN "committed" ELSE "rolledback"
  BY <1>q, <1>t DEF TypeOK
<1>6. LogInv'
  <2>1. ASSUME NEW u \in Trx, NEW d \in Conn
        PROVE  /\ branch'[u][d] = "committed" => Logged(u)
               /\ Logged(u) => branch'[u][d] \in {"none", "prepared", "committed"}
    BY <1>t, <1>5 DEF LogInv
  <2> QED
    BY <1>4, <2>1 DEF LogInv
<1>7. \A x \in xa_commit_log' : x # 0 /\ x < spider_xid_gtrid
  BY <1>q, <1>t DEF XidInv
<1> QED
  BY <1>q, <1>1, <1>2, <1>3, <1>4, <1>5, <1>6, <1>7, BehindInv

LEMMA StutterInv ==
  ASSUME Inv, UNCHANGED vars
  PROVE  XidInv' /\ SessionInv' /\ FutureInv' /\ LogInv' /\ PendingInv' /\ ReplyInv'
<1>t. XidInv /\ SessionInv /\ FutureInv /\ LogInv /\ PendingInv /\ ReplyInv
  BY InvFacts
<1>v. UNCHANGED <<branch, xa_commit_log, pending, pc, cur, trx_start, xid,
                  spider_xid_gtrid, xidOf, tree, queued_connect,
                  queued_xa_start, server_lost, one_phase, todo, error_num,
                  reply>>
  BY DEF vars, sessionVars, connVars, queueVars
<1>1. XidInv'
  BY <1>t, <1>v DEF XidInv
<1>2. SessionInv'
  BY <1>t, <1>v DEF SessionInv, Queued, Logged, NoRequest
<1>3. FutureInv' /\ LogInv'
  BY <1>t, <1>v DEF FutureInv, LogInv, Logged, NoRequest
<1>4. PendingInv' /\ ReplyInv'
  BY <1>t, <1>v DEF PendingInv, ReplyInv, Over, Logged
<1> QED
  BY <1>1, <1>2, <1>3, <1>4

LEMMA InvStep == SafeConfig /\ Inv /\ [Next]_vars => Inv'
<1> SUFFICES ASSUME SafeConfig, Inv, [Next]_vars PROVE Inv'
  OBVIOUS
<1>t. TypeOK' /\ CounterInv'
  BY InvFacts, TypeStep DEF TypeInv
<1> DEFINE Rest == XidInv' /\ SessionInv' /\ FutureInv' /\ LogInv' /\ PendingInv' /\ ReplyInv'
<1>1. ASSUME Client PROVE Rest
  BY <1>1, BeginInv, CommitRollbackInv, QueryOkInv, QueryBadInv DEF Client
<1>2. ASSUME Coordinator PROVE Rest
  <2>1. ASSUME CommitEnd \/ RollbackEnd PROVE Rest
    BY <2>1, CommitEndInv
  <2>2. ASSUME NEW c \in Conn,
               PrepareConn(c) \/ CommitConn(c) \/ RollbackConn(c) \/ DecideConn(c)
        PROVE  Rest
    BY <2>2, PrepareConnInv, CommitConnInv, RollbackConnInv, DecideConnInv
  <2>3. ASSUME NEW c \in Conn, DecideErr(c) \/ DecideLost(c) \/ OnePhaseConn(c)
        PROVE  Rest
    BY <2>3, DecideErrInv, DecideLostInv, OnePhaseConnInv
  <2> QED
    BY <1>2, <2>1, <2>2, <2>3 DEF Coordinator
<1>3. ASSUME KillRollback \/ Crash PROVE Rest
  BY <1>3, KillRollbackInv, CrashInv
<1>4. ASSUME Backend PROVE Rest
  BY <1>4, BackendFinishInv DEF Backend
<1>5. ASSUME Tdbctl PROVE Rest
  BY <1>5, DaemonInv DEF Tdbctl
<1>6. ASSUME UNCHANGED vars PROVE Rest
  BY <1>6, StutterInv
<1>7. Rest
  BY <1>1, <1>2, <1>3, <1>4, <1>5, <1>6 DEF Next, Quiet
<1> QED
  BY <1>t, <1>7 DEF Inv

-----------------------------------------------------------------------------
(***************************************************************************)
(* The theorems, for the configurations of SafeConfig: any number of       *)
(* backends and transactions, any fault but the ones the counterexample    *)
(* runs are about.                                                         *)
(***************************************************************************)

\* The branches, the requests left on broken connections, the session and the
\* answers agree with mysql.xa_commit_log in every reachable state.
THEOREM Invariance == SafeConfig => (Spec => []Inv)
<1> SUFFICES ASSUME SafeConfig PROVE Spec => []Inv
  OBVIOUS
<1>1. Init => Inv
  BY InvInit
<1>2. Inv /\ [Next]_vars => Inv'
  BY InvStep
<1> QED
  BY <1>1, <1>2, PTL DEF Spec

\* The internal XA transaction is atomic: spider_commit, spider_rollback, late
\* requests and the daemon never commit one branch and roll another back.
THEOREM Atomicity == SafeConfig => (Spec => []Atomic)
<1> SUFFICES ASSUME SafeConfig PROVE Spec => []Atomic
  OBVIOUS
<1>1. Inv => Atomic
  BY DEF Inv, LogInv, Atomic
<1> QED
  BY <1>1, Invariance, PTL

\* A refusal is true, unless spider_force_commit = 2 lets the error of the
\* second phase through: when spider_commit or spider_rollback answered
\* "fail", no branch is committed, then or later.
THEOREM TrueFailure ==
  SafeConfig /\ ForceCommit # 2 => (Spec => []FailMeansUnmodified)
<1> SUFFICES ASSUME SafeConfig, ForceCommit # 2 PROVE Spec => []FailMeansUnmodified
  OBVIOUS
<1>1. Inv => FailMeansUnmodified
  BY DEF Inv, LogInv, ReplyInv, FailMeansUnmodified
<1> QED
  BY <1>1, Invariance, PTL

\* A success is true: when spider_commit answered "success", every branch is
\* committed, or prepared under a logged xid, which the daemon will commit.
THEOREM TrueSuccess == SafeConfig => (Spec => []SuccessMeansCommitted)
<1> SUFFICES ASSUME SafeConfig PROVE Spec => []SuccessMeansCommitted
  OBVIOUS
<1>1. Inv => SuccessMeansCommitted
  BY DEF Inv, LogInv, ReplyInv, SuccessMeansCommitted, Logged
<1> QED
  BY <1>1, Invariance, PTL

\* The decision is logged before it is acted on: no step of the second phase,
\* of a backend or of the daemon commits a prepared branch of an xid that is
\* not in mysql.xa_commit_log.
THEOREM WriteAhead == SafeConfig => (Spec => LoggedBeforeCommit)
<1> DEFINE Act == \A t \in Trx, c \in Conn :
                    branch[t][c] = "prepared" /\ branch'[t][c] = "committed"
                      => xidOf[t] \in xa_commit_log
<1> SUFFICES ASSUME SafeConfig PROVE Spec => LoggedBeforeCommit
  OBVIOUS
<1>1. Inv /\ [Next]_vars => [Act]_vars
  <2> SUFFICES ASSUME Inv, Next,
                      NEW t \in Trx, NEW c \in Conn,
                      branch[t][c] = "prepared", branch'[t][c] = "committed"
               PROVE  xidOf[t] \in xa_commit_log
    OBVIOUS
  <2>t. TypeOK /\ SessionInv /\ LogInv /\ PendingInv /\ (pc # "idle" => cur \in Trx)
    BY InvFacts
  <2>1. CASE Client
    BY <2>1, <2>t
    DEF Client, Begin, Commit, Rollback, QueryOk, QueryErr, QueryLost, StartErr,
        QueryGone, Started, SetBranch, TypeOK
  <2>2. CASE Coordinator
    <3>1. ASSUME NEW d \in Conn, DecideConn(d) \/ OnePhaseConn(d) PROVE FALSE
      <4>1. /\ pc \in {"prepare", "onephase"} /\ todo = {d} /\ cur \in Trx
            /\ branch[cur][d] = "active"
        BY <3>1, <2>t DEF DecideConn, OnePhaseConn, SessionInv, TypeOK
      <4> QED
        BY <3>1, <4>1, <2>t DEF DecideConn, OnePhaseConn, SetBranch, Disconnected, TypeOK
    <3>2. ASSUME NEW d \in Conn, CommitConn(d) PROVE xidOf[t] \in xa_commit_log
      <4>1. pc = "commit" /\ cur \in Trx /\ Logged(cur)
        BY <3>2, <2>t DEF CommitConn, SessionInv
      <4>2. t = cur
        BY <3>2, <4>1, <2>t DEF CommitConn, SetBranch, TypeOK
      <4> QED
        BY <4>1, <4>2 DEF Logged
    <3>3. ASSUME NEW d \in Conn, PrepareConn(d) \/ RollbackConn(d) PROVE FALSE
      BY <3>3, <2>t DEF PrepareConn, RollbackConn, SetBranch, Disconnected, TypeOK
    <3>4. ASSUME NEW d \in Conn, DecideErr(d) \/ DecideLost(d) PROVE FALSE
      BY <3>4, <2>t DEF DecideErr, DecideLost, Disconnected, TypeOK
    <3>5. CASE CommitEnd \/ RollbackEnd
      BY <3>5 DEF CommitEnd, RollbackEnd
    <3> QED
      BY <2>2, <3>1, <3>2, <3>3, <3>4, <3>5 DEF Coordinator
  <2>3. CASE KillRollback \/ Crash
    BY <2>3, <2>t DEF KillRollback, Crash, Disconnected, TypeOK
  <2>4. CASE Backend
    <3>1. PICK u \in Trx, d \in Conn, call \in Call : BackendFinish(u, d, call)
      BY <2>4 DEF Backend
    <3>2. u = t /\ d = c
      BY <3>1, <2>t DEF BackendFinish, TypeOK
    <3>3. call = "commit"
      BY <3>1, <3>2, <2>t DEF BackendFinish, TypeOK
    <3> QED
      BY <3>1, <3>2, <3>3, <2>t DEF BackendFinish, PendingInv, Logged
  <2>5. CASE Tdbctl
    BY <2>5, <2>t DEF Tdbctl, Daemon, TypeOK
  <2>6. CASE UNCHANGED vars
    BY <2>6 DEF vars
  <2> QED
    BY <2>1, <2>2, <2>3, <2>4, <2>5, <2>6 DEF Next, Quiet
<1> QED
  BY <1>1, Invariance, PTL DEF Spec, LoggedBeforeCommit
=============================================================================
