------------------------------- MODULE XaTrx --------------------------------
(***************************************************************************)
(* The internal XA transaction of one client session of TSpider            *)
(* (spider_internal_xa = ON), from the first statement that reaches a      *)
(* backend to the answer the client gets to COMMIT or ROLLBACK:            *)
(*   storage/spider/spd_trx.cc      the coordinator (start, prepare,       *)
(*                                  commit, rollback)                      *)
(*   storage/spider/spd_db_conn.cc  the remote call and how its failure    *)
(*                                  is classified (spider_db_errorno)      *)
(*   storage/spider/spd_db_mysql.cc the statements that go on the wire     *)
(*                                                                         *)
(* The session holds at most one connection per backend, so a connection   *)
(* and its backend are the same number c \in Conn; the numbers are the     *)
(* in-order positions of the join tree (SPIDER_CONN.priority), and the     *)
(* last joined connection is the one that decides: its branch is committed *)
(* in one phase "with log", which records the xid in mysql.xa_commit_log.  *)
(***************************************************************************)
EXTENDS Integers

CONSTANTS
  N,              \* number of backends
  MaxTrx,         \* bound: transactions the session runs one after another
  Faults,         \* the <<call, outcome>> pairs that may go wrong
  TransRollback,  \* spider_trans_rollback
  ForceCommit     \* spider_force_commit: 0, 1 or 2

Conn == 1..N
Trx  == 1..MaxTrx
Call == {"connect", "start", "query", "prepare", "decide", "commit", "rollback"}

(***************************************************************************)
(* What can go wrong with a remote call: the backend answers with an error *)
(* ("err"; "nota" is the class of is_xa_nota_error), or the connection     *)
(* breaks or times out before the answer is read ("lost": the request may  *)
(* or may not be executed, now or later).  TSpider itself may crash, and   *)
(* the client may be killed.                                               *)
(***************************************************************************)
AllFaults ==
  {<<"connect", "err">>, <<"decide", "nota">>}
    \cup ((Call \ {"connect"}) \X {"err", "lost"})
    \cup ({"tspider"} \X {"crash", "kill"})

ASSUME NAssumption      == N \in Nat \ {0}
ASSUME MaxTrxAssumption == MaxTrx \in Nat \ {0}
ASSUME FaultsAssumption == Faults \subseteq AllFaults
ASSUME ParamAssumption  == /\ TransRollback \in BOOLEAN
                           /\ ForceCommit \in 0..2

VARIABLES
  branch,            \* branch[t][c]: state at backend c of its branch of t
  xa_commit_log,     \* xids recorded by "xa commit one phase with log"
  pending,           \* <<t, c, call>> sent on a connection that broke
  pc,                \* what the session's thread is doing
  cur,               \* number of the client's current transaction
  trx_start,         \* SPIDER_TRX.trx_start (and trx_xa)
  xid,               \* SPIDER_TRX.xid
  spider_xid_gtrid,  \* the counter the next xid is made of
  xidOf,             \* xidOf[t]: the xid transaction t ran under (0: none)
  tree,              \* connections on trx->join_trx_top
  queued_connect,    \* SPIDER_CONN.queued_connect
  queued_xa_start,   \* SPIDER_CONN.queued_xa_start
  server_lost,       \* SPIDER_CONN.server_lost
  one_phase,         \* SPIDER_CONN.is_xa_commit_one_phase
  todo,              \* connections the running loop has still to visit
  error_num,         \* error the client will be told: the one the handler
                     \* returns, or leaves in the diagnostics area
  reply              \* reply[t]: what the client was told about t

sessionVars == <<cur, trx_start, xid, spider_xid_gtrid, xidOf>>
queueVars   == <<queued_connect, queued_xa_start>>
connVars    == <<tree, queueVars, server_lost, one_phase>>
vars == <<branch, xa_commit_log, pending, pc, sessionVars, connVars, todo,
          error_num, reply>>

BranchState == {"none", "active", "prepared", "committed", "rolledback"}
PC    == {"idle", "work", "prepare", "onephase", "commit", "rollback", "closed"}
Reply == {"none", "success", "fail", "timeout"}

TypeOK ==
  /\ branch \in [Trx -> [Conn -> BranchState]]
  /\ xa_commit_log \subseteq 0..MaxTrx
  /\ pending \subseteq Trx \X Conn \X Call
  /\ pc \in PC
  /\ cur \in 0..MaxTrx
  /\ trx_start \in BOOLEAN
  /\ xid \in 0..MaxTrx
  /\ spider_xid_gtrid \in 1..(MaxTrx + 1)
  /\ xidOf \in [Trx -> 0..MaxTrx]
  /\ tree \subseteq Conn
  /\ queued_connect \subseteq Conn
  /\ queued_xa_start \subseteq Conn
  /\ server_lost \subseteq Conn
  /\ one_phase \subseteq Conn
  /\ todo \subseteq tree
  /\ error_num \in {"none", "fail", "timeout"}
  /\ reply \in [Trx -> Reply]

Init ==
  /\ branch = [t \in Trx |-> [c \in Conn |-> "none"]]
  /\ xa_commit_log = {}
  /\ pending = {}
  /\ pc = "idle"
  /\ cur = 0
  /\ trx_start = FALSE
  /\ xid = 0
  /\ spider_xid_gtrid = 1
  /\ xidOf = [t \in Trx |-> 0]
  /\ tree = {}
  /\ queued_connect = {}
  /\ queued_xa_start = {}
  /\ server_lost = {}
  /\ one_phase = {}
  /\ todo = {}
  /\ error_num = "none"
  /\ reply = [t \in Trx |-> "none"]

-----------------------------------------------------------------------------
\* Mutant: a comparison that no connection satisfies with itself.
IsFirst_Strict(c, s) == c \in s /\ \A d \in s : c < d

\* spider_tree_first: the connection of s that comes first in priority order.
IsFirst(c, s) == c \in s /\ \A d \in s : c <= d

\* The environment may make this call fail this way.
May(call, outcome) == <<call, outcome>> \in Faults

SetBranch(c, state) == branch' = [branch EXCEPT ![cur][c] = state]

(***************************************************************************)
(* The backends drop the sessions of the connections in s: a branch that   *)
(* was not prepared is rolled back, a prepared one survives.               *)
(***************************************************************************)
Disconnected(s) ==
  [branch EXCEPT ![cur] =
     [c \in Conn |-> IF c \in s /\ branch[cur][c] = "active"
                     THEN "rolledback" ELSE branch[cur][c]]]

\* Mutant: the loop position survives the connections it points to.
FreeTrxConn_KeepsTodo == /\ tree' = {}
                         /\ queued_connect' = {}
                         /\ queued_xa_start' = {}
                         /\ server_lost' = {}
                         /\ one_phase' = {}
                         /\ error_num' = "none"
                         /\ UNCHANGED todo

\* spider_conn_clear_queue_at_commit and spider_free_conn_from_trx: every
\* connection leaves the transaction, for the pool or for good.
FreeTrxConn == /\ tree' = {}
               /\ queued_connect' = {}
               /\ queued_xa_start' = {}
               /\ server_lost' = {}
               /\ one_phase' = {}
               /\ todo' = {}
               /\ error_num' = "none"

\* The client gets its answer and the session waits for the next statement.
Answer(r) == /\ reply' = [reply EXCEPT ![cur] = r]
             /\ pc' = "idle"

\* Mutant: trx_start is left set, as on the path of DecideErr.
EndTrx_KeepsXid(r) == /\ FreeTrxConn
                      /\ Answer(r)
                      /\ UNCHANGED sessionVars

\* spider_commit and spider_rollback: the transaction is over.
EndTrx(r) == /\ FreeTrxConn
             /\ Answer(r)
             /\ trx_start' = FALSE
             /\ UNCHANGED <<xid, spider_xid_gtrid, xidOf, cur>>

\* The loop starts over at the first joined connection.
EnterLoop(p, conns, e) == /\ pc' = p
                          /\ todo' = conns
                          /\ error_num' = e

-----------------------------------------------------------------------------
(***************************************************************************)
(* Statements of the client.                                               *)
(***************************************************************************)
Begin ==
  /\ pc = "idle"
  /\ cur < MaxTrx
  /\ cur' = cur + 1
  /\ pc' = "work"
  /\ UNCHANGED <<branch, xa_commit_log, pending, trx_start, xid,
                 spider_xid_gtrid, xidOf, connVars, todo, error_num, reply>>

\* spider_internal_start_trx: a session whose trx_start is still set keeps
\* the xid it has; otherwise the transaction gets a new one.
StartTrx(c) ==
  /\ trx_start' = TRUE
  /\ IF trx_start
     THEN UNCHANGED <<xid, spider_xid_gtrid>>
     ELSE /\ xid' = spider_xid_gtrid
          /\ spider_xid_gtrid' = spider_xid_gtrid + 1
  /\ xidOf' = [xidOf EXCEPT ![cur] = xid']
  /\ tree' = tree \cup {c}
  /\ UNCHANGED cur

\* Mutant: spider_trans_rollback is not looked at.
StatementError_Ignored == UNCHANGED <<pc, todo, error_num>>

\* A statement failed: with spider_trans_rollback the whole transaction is
\* rolled back at the end of the statement, without it the client goes on.
StatementError ==
  IF TransRollback
  THEN EnterLoop("rollback", tree', "fail")
  ELSE UNCHANGED <<pc, todo, error_num>>

\* XA START is not yet sent on these, so spider_db_xa_* skip them.
Queued == queued_connect \cup queued_xa_start

\* XA START is still to be sent on c, before its next statement.
NeedsStart(c) == c \notin tree \/ c \in Queued

\* XAER_DUPID: backend c still knows the xid, from an earlier transaction.
XidInUse(c, x) ==
  \E t \in Trx : xidOf[t] = x /\ branch[t][c] \in {"active", "prepared"}

\* Mutant: a connection that broke is reconnected inside the transaction.
Reachable_Reconnects(c) == c \in Conn

\* spider_db_conn_queue_action: a connection that is gone is used again only
\* if its connect is still queued.
Reachable(c) == c \notin server_lost \/ c \in queued_connect

(***************************************************************************)
(* A statement is routed to backend c: spider_get_conn_by_idx joins the    *)
(* connection, spider_db_query sends what is queued (connect, XA START)    *)
(* and then the statement.  Started: what is queued goes through.          *)
(***************************************************************************)
Started(c) ==
  /\ pc = "work"
  /\ Reachable(c)
  /\ StartTrx(c)
  /\ NeedsStart(c) => ~XidInUse(c, xid')
  /\ queued_connect' = queued_connect \ {c}
  /\ queued_xa_start' = queued_xa_start \ {c}
  /\ UNCHANGED <<one_phase, xa_commit_log, pending, reply>>

QueryOk(c) ==
  /\ Started(c)
  /\ SetBranch(c, "active")
  /\ server_lost' = server_lost \ {c}
  /\ UNCHANGED <<pc, todo, error_num>>

\* The backend executes XA START but refuses the statement.
QueryErr(c) ==
  /\ May("query", "err")
  /\ Started(c)
  /\ SetBranch(c, "active")
  /\ server_lost' = server_lost \ {c}
  /\ StatementError

\* The connection breaks under a statement: the backend rolls its branch back.
QueryLost(c) ==
  /\ May("query", "lost")
  /\ Started(c)
  /\ SetBranch(c, "rolledback")
  /\ server_lost' = server_lost \cup {c}
  /\ StatementError

\* Connect or XA START fails: XA START stays queued, and a failed connect too.
StartErr(c) ==
  /\ pc = "work"
  /\ NeedsStart(c)
  /\ Reachable(c)
  /\ StartTrx(c)
  /\ \/ /\ May("connect", "err")
        /\ queued_connect' = queued_connect \cup {c}
        /\ server_lost' = server_lost \cup {c}
     \/ /\ May("start", "lost")
        /\ queued_connect' = queued_connect \ {c}
        /\ server_lost' = server_lost \cup {c}
     \/ /\ May("start", "err") \/ XidInUse(c, xid')
        /\ queued_connect' = queued_connect \ {c}
        /\ server_lost' = server_lost \ {c}
  /\ queued_xa_start' = queued_xa_start \cup {c}
  /\ StatementError
  /\ UNCHANGED <<branch, one_phase, xa_commit_log, pending, reply>>

\* spider_db_before_query: the connection is gone and is not reconnected.
QueryGone(c) ==
  /\ pc = "work"
  /\ ~Reachable(c)
  /\ StartTrx(c)
  /\ StatementError
  /\ UNCHANGED <<branch, queueVars, server_lost, one_phase,
                 xa_commit_log, pending, reply>>

\* Mutant: the loop of the first phase misses the first connection.
Commit_SkipsFirst ==
  /\ pc = "work"
  /\ tree # {}
  /\ EnterLoop(IF \E c \in tree : tree = {c} THEN "onephase" ELSE "prepare",
               {c \in tree : tree = {c} \/ ~IsFirst(c, tree)}, "none")
  /\ UNCHANGED <<branch, xa_commit_log, pending, sessionVars, connVars, reply>>

\* COMMIT: spider_commit, one phase for one connection, two for more.
Commit ==
  /\ pc = "work"
  /\ tree # {}
  /\ EnterLoop(IF \E c \in tree : tree = {c} THEN "onephase" ELSE "prepare",
               tree, "none")
  /\ UNCHANGED <<branch, xa_commit_log, pending, sessionVars, connVars, reply>>

\* ROLLBACK: spider_rollback.
Rollback ==
  /\ pc = "work"
  /\ tree # {}
  /\ EnterLoop("rollback", tree, "fail")
  /\ UNCHANGED <<branch, xa_commit_log, pending, sessionVars, connVars, reply>>

-----------------------------------------------------------------------------
(***************************************************************************)
(* spider_internal_xa_prepare, one visited connection at a time.           *)
(***************************************************************************)
\* spider_db_xa_end_and_prepare on every connection but the last.
PrepareConn(c) ==
  /\ pc = "prepare"
  /\ IsFirst(c, todo)
  /\ todo # {c}
  /\ \/ /\ c \in Queued
        /\ todo' = todo \ {c}
        /\ UNCHANGED <<branch, pending, server_lost, pc, error_num>>
     \/ /\ c \in server_lost \ Queued
        /\ EnterLoop("rollback", tree, "fail")
        /\ UNCHANGED <<branch, pending, server_lost>>
     \/ /\ c \notin Queued \cup server_lost
        /\ \/ /\ branch[cur][c] = "active"
              /\ SetBranch(c, "prepared")
              /\ todo' = todo \ {c}
              /\ UNCHANGED <<pending, server_lost, pc, error_num>>
           \/ /\ May("prepare", "err")
              /\ EnterLoop("rollback", tree, "fail")
              /\ UNCHANGED <<branch, pending, server_lost>>
           \/ /\ May("prepare", "lost")
              /\ pending' = pending \cup {<<cur, c, "prepare">>}
              /\ server_lost' = server_lost \cup {c}
              /\ EnterLoop("rollback", tree, "fail")
              /\ UNCHANGED branch
  /\ UNCHANGED <<xa_commit_log, sessionVars, tree, queueVars, one_phase,
                 reply>>

\* Mutant: "xa commit one phase" without "with log".
DecideConn_NoLog(c) ==
  /\ pc = "prepare"
  /\ todo = {c}
  /\ c \notin server_lost \/ c \in Queued
  /\ \/ /\ c \in Queued
        /\ UNCHANGED <<branch, one_phase>>
     \/ /\ c \notin Queued
        /\ branch[cur][c] = "active"
        /\ SetBranch(c, "committed")
        /\ one_phase' = one_phase \cup {c}
  /\ EnterLoop("commit", tree, "none")
  /\ UNCHANGED <<xa_commit_log, pending, sessionVars, tree, queueVars,
                 server_lost, reply>>

\* "xa end; xa commit one phase with log" on the last connection, answered.
DecideConn(c) ==
  /\ pc = "prepare"
  /\ todo = {c}
  /\ c \notin server_lost \/ c \in Queued
  /\ \/ /\ c \in Queued
        /\ UNCHANGED <<branch, xa_commit_log, one_phase>>
     \/ /\ c \notin Queued
        /\ branch[cur][c] = "active"
        /\ SetBranch(c, "committed")
        /\ xa_commit_log' = xa_commit_log \cup {xid}
        /\ one_phase' = one_phase \cup {c}
  /\ EnterLoop("commit", tree, "none")
  /\ UNCHANGED <<pending, sessionVars, tree, queueVars, server_lost, reply>>

(***************************************************************************)
(* The deciding backend answers with an error, which spider_db_errorno     *)
(* turns into ER_SPIDER_XA_TIMEOUT: spider_free_prepared_trx closes every  *)
(* connection, and spider_commit returns with trx_start and xid as they    *)
(* are.  Under spider_force_commit = 1 the errors of is_xa_nota_error      *)
(* stay themselves and the transaction is rolled back.                     *)
(***************************************************************************)
DecideErr(c) ==
  /\ pc = "prepare"
  /\ todo = {c}
  /\ c \notin Queued \cup server_lost
  /\ \/ /\ May("decide", "err") \/ (May("decide", "nota") /\ ForceCommit # 1)
        /\ branch' = Disconnected(Conn)
        /\ FreeTrxConn
        /\ Answer("timeout")
     \/ /\ May("decide", "nota") /\ ForceCommit = 1
        /\ EnterLoop("rollback", tree, "fail")
        /\ UNCHANGED <<branch, connVars, reply>>
  /\ UNCHANGED <<xa_commit_log, pending, sessionVars>>

\* The connection to the deciding backend is gone, or breaks before the
\* answer: ER_SPIDER_REMOTE_SERVER_GONE_AWAY, and spider_rollback follows.
DecideLost(c) ==
  /\ pc = "prepare"
  /\ todo = {c}
  /\ c \notin Queued
  /\ \/ c \in server_lost /\ UNCHANGED pending
     \/ /\ c \notin server_lost
        /\ May("decide", "lost")
        /\ pending' = pending \cup {<<cur, c, "decide">>}
  /\ server_lost' = server_lost \cup {c}
  /\ EnterLoop("rollback", tree, "fail")
  /\ UNCHANGED <<branch, xa_commit_log, sessionVars, tree, queueVars,
                 one_phase, reply>>

-----------------------------------------------------------------------------
\* Mutant: what goes wrong with the one-phase commit is not looked at.
OnePhaseConn_ErrorDropped(c) ==
  /\ pc = "onephase"
  /\ todo = {c}
  /\ \/ /\ branch[cur][c] = "active"
        /\ SetBranch(c, "committed")
        /\ xa_commit_log' = xa_commit_log \cup {xid}
     \/ /\ May("decide", "err")
        /\ branch' = Disconnected({c})
        /\ UNCHANGED xa_commit_log
  /\ EndTrx("success")
  /\ UNCHANGED pending

\* spider_internal_xa_commit_one_phase: the only joined connection commits
\* in one phase; what goes wrong is answered with a timeout, but ER_XAER_NOTA,
\* which only spider_force_commit = 1 lets through, with success.
OnePhaseConn(c) ==
  /\ pc = "onephase"
  /\ todo = {c}
  /\ \/ /\ c \in Queued
        /\ EndTrx("success")
        /\ UNCHANGED <<branch, xa_commit_log, pending>>
     \/ /\ c \in server_lost \ Queued
        /\ EndTrx("timeout")
        /\ UNCHANGED <<branch, xa_commit_log, pending>>
     \/ /\ c \notin Queued \cup server_lost
        /\ \/ /\ branch[cur][c] = "active"
              /\ SetBranch(c, "committed")
              /\ xa_commit_log' = xa_commit_log \cup {xid}
              /\ EndTrx("success")
              /\ UNCHANGED pending
           \/ /\ May("decide", "err") \/ May("decide", "nota")
              /\ branch' = Disconnected({c})
              /\ \/ EndTrx("timeout")
                 \/ /\ May("decide", "nota") /\ ForceCommit = 1
                    /\ EndTrx("success")
              /\ UNCHANGED <<xa_commit_log, pending>>
           \/ /\ May("decide", "lost")
              /\ pending' = pending \cup {<<cur, c, "decide">>}
              /\ EndTrx("timeout")
              /\ UNCHANGED <<branch, xa_commit_log>>

(***************************************************************************)
(* spider_internal_xa_commit: the second phase.  spider_db_errorno has put *)
(* the error of a failed XA COMMIT into the diagnostics area, or, with     *)
(* spider_force_commit = 1 and XAER_NOTA (the answer for a branch the      *)
(* backend no longer has), a warning.  The loop then replaces the error by *)
(* a timeout, or with spider_force_commit = 2 leaves it where it is: the   *)
(* handler returns no error, but the OK packet does not overwrite it       *)
(* (set_ok_status), and the client is told the error of the backend.       *)
(***************************************************************************)
KeepCommitError(nota) ==
  error_num' = IF ForceCommit = 2 THEN "fail"
               ELSE IF ForceCommit = 1 /\ nota THEN error_num ELSE "timeout"

CommitConn(c) ==
  /\ pc = "commit"
  /\ IsFirst(c, todo)
  /\ todo' = todo \ {c}
  /\ \/ /\ c \in one_phase \cup Queued
        /\ UNCHANGED <<branch, pending, server_lost, error_num>>
     \/ /\ c \notin one_phase \cup Queued
        /\ \/ /\ branch[cur][c] = "prepared"
              /\ SetBranch(c, "committed")
              /\ UNCHANGED <<pending, server_lost, error_num>>
           \/ /\ branch[cur][c] # "prepared"
              /\ KeepCommitError(TRUE)
              /\ UNCHANGED <<branch, pending, server_lost>>
           \/ /\ May("commit", "err")
              /\ KeepCommitError(FALSE)
              /\ UNCHANGED <<branch, pending, server_lost>>
           \/ /\ May("commit", "lost")
              /\ pending' = pending \cup {<<cur, c, "commit">>}
              /\ server_lost' = server_lost \cup {c}
              /\ KeepCommitError(FALSE)
              /\ UNCHANGED branch
  /\ UNCHANGED <<xa_commit_log, pc, sessionVars, tree, queueVars, one_phase,
                 reply>>

\* Mutant: a failure of the second phase is reported as a failed transaction.
CommitEnd_Fails ==
  /\ pc = "commit"
  /\ todo = {}
  /\ EndTrx(IF error_num = "none" THEN "success" ELSE "fail")
  /\ UNCHANGED <<branch, xa_commit_log, pending>>

CommitEnd ==
  /\ pc = "commit"
  /\ todo = {}
  /\ EndTrx(IF error_num = "none" THEN "success" ELSE error_num)
  /\ UNCHANGED <<branch, xa_commit_log, pending>>

(***************************************************************************)
(* spider_internal_xa_rollback: XA END and XA ROLLBACK on every joined     *)
(* connection that is not lost and has started its branch.                 *)
(***************************************************************************)
RollbackConn(c) ==
  /\ pc = "rollback"
  /\ IsFirst(c, todo)
  /\ todo' = todo \ {c}
  /\ \/ /\ c \in Queued \cup server_lost
        /\ UNCHANGED <<branch, pending, server_lost>>
     \/ /\ c \notin Queued \cup server_lost
        /\ \/ /\ branch[cur][c] \in {"active", "prepared"}
              /\ SetBranch(c, "rolledback")
              /\ UNCHANGED <<pending, server_lost>>
           \/ /\ \/ branch[cur][c] \notin {"active", "prepared"}
                 \/ May("rollback", "err")
              /\ branch' = Disconnected({c})
              /\ UNCHANGED <<pending, server_lost>>
           \/ /\ May("rollback", "lost")
              /\ pending' = pending \cup {<<cur, c, "rollback">>}
              /\ server_lost' = server_lost \cup {c}
              /\ UNCHANGED branch
  /\ UNCHANGED <<xa_commit_log, pc, sessionVars, tree, queueVars,
                 one_phase, error_num, reply>>

RollbackEnd ==
  /\ pc = "rollback"
  /\ todo = {}
  /\ EndTrx("fail")
  /\ UNCHANGED <<branch, xa_commit_log, pending>>

-----------------------------------------------------------------------------
(***************************************************************************)
(* The end of the session: KILL CONNECTION seen by spider_rollback, which  *)
(* forgets the joined connections and returns, and a crash of TSpider,     *)
(* which may leave the call it was making on its way to the backend.  The  *)
(* sessions of the connections with no request of that kind end at once.   *)
(***************************************************************************)
Idle(requests) ==
  {c \in Conn : \A call \in {"prepare", "decide"} :
                   <<cur, c, call>> \notin requests}

Close == /\ pc' = "closed"
         /\ FreeTrxConn
         /\ UNCHANGED <<xa_commit_log, sessionVars>>

KillRollback ==
  /\ pc = "rollback"
  /\ todo = tree
  /\ May("tspider", "kill")
  /\ branch' = Disconnected(Idle(pending))
  /\ reply' = [reply EXCEPT ![cur] = "fail"]
  /\ Close
  /\ UNCHANGED pending

InFlight(c) ==
  CASE pc = "prepare" /\ todo # {c} -> "prepare"
    [] pc = "prepare" /\ todo = {c} -> "decide"
    [] pc = "onephase"              -> "decide"
    [] pc = "commit"                -> "commit"
    [] OTHER                        -> "rollback"

Crash ==
  /\ May("tspider", "crash")
  /\ pc \in PC \ {"closed", "idle"}
  /\ \/ UNCHANGED pending
     \/ \E c \in todo \ (Queued \cup server_lost \cup one_phase) :
          /\ IsFirst(c, todo)
          /\ pending' = pending \cup {<<cur, c, InFlight(c)>>}
  /\ branch' = Disconnected(Idle(pending'))
  /\ Close
  /\ UNCHANGED reply

-----------------------------------------------------------------------------
(***************************************************************************)
(* The backend (TenDB) behind a connection that broke: the request it was  *)
(* sent is executed after all, or is lost and the session rolled back.     *)
(***************************************************************************)
BackendFinish(t, c, call) ==
  /\ <<t, c, call>> \in pending
  /\ pending' = pending \ {<<t, c, call>>}
  /\ \/ /\ call = "prepare"
        /\ branch[t][c] = "active"
        /\ branch' = [branch EXCEPT ![t][c] = "prepared"]
        /\ UNCHANGED xa_commit_log
     \/ /\ call = "decide"
        /\ branch[t][c] = "active"
        /\ branch' = [branch EXCEPT ![t][c] = "committed"]
        /\ xa_commit_log' = xa_commit_log \cup {xidOf[t]}
     \/ /\ call = "commit"
        /\ branch[t][c] = "prepared"
        /\ branch' = [branch EXCEPT ![t][c] = "committed"]
        /\ UNCHANGED xa_commit_log
     \/ /\ call = "rollback"
        /\ branch[t][c] = "prepared"
        /\ branch' = [branch EXCEPT ![t][c] = "rolledback"]
        /\ UNCHANGED xa_commit_log
     \/ /\ branch' = [branch EXCEPT ![t][c] = IF @ = "active" THEN "rolledback"
                                              ELSE @]
        /\ UNCHANGED xa_commit_log
  /\ UNCHANGED <<pc, sessionVars, connVars, todo, error_num, reply>>

(***************************************************************************)
(* The daemon of Tdbctl settles a branch that has been prepared for 30     *)
(* seconds: XA COMMIT if its xid is in xa_commit_log, XA ROLLBACK if not.  *)
(* The 30 seconds are long enough for the first phase to be over and for   *)
(* its requests to have run; the second phase, its lost requests and       *)
(* XA ROLLBACKs may still be on their way and find the branch settled.     *)
(***************************************************************************)
Overdue(t) ==
  /\ t < cur \/ pc \in {"idle", "closed", "commit", "rollback"}
  /\ \A p \in pending : p[1] = t => p[3] \in {"commit", "rollback"}

\* Mutant: the daemon settles only what it finds in xa_commit_log.
Daemon_OnlyLogged(t, c) ==
  /\ branch[t][c] = "prepared"
  /\ Overdue(t)
  /\ xidOf[t] \in xa_commit_log
  /\ branch' = [branch EXCEPT ![t][c] = "committed"]
  /\ UNCHANGED <<xa_commit_log, pending, pc, sessionVars, connVars, todo,
                 error_num, reply>>

Daemon(t, c) ==
  /\ branch[t][c] = "prepared"
  /\ Overdue(t)
  /\ branch' = [branch EXCEPT ![t][c] = IF xidOf[t] \in xa_commit_log
                                        THEN "committed" ELSE "rolledback"]
  /\ UNCHANGED <<xa_commit_log, pending, pc, sessionVars, connVars, todo,
                 error_num, reply>>

-----------------------------------------------------------------------------
Client == \/ Begin \/ Commit \/ Rollback
          \/ \E c \in Conn : QueryOk(c) \/ QueryErr(c) \/ StartErr(c)
                             \/ QueryLost(c) \/ QueryGone(c)

Coordinator == \/ CommitEnd \/ RollbackEnd
               \/ \E c \in Conn : \/ PrepareConn(c) \/ DecideConn(c)
                                  \/ DecideErr(c) \/ DecideLost(c)
                                  \/ OnePhaseConn(c)
                                  \/ CommitConn(c) \/ RollbackConn(c)

Backend == \E t \in Trx, c \in Conn, call \in Call : BackendFinish(t, c, call)

Tdbctl == \E t \in Trx, c \in Conn : Daemon(t, c)

\* The session is over and nothing is left to settle, or the client is idle.
Quiet == /\ pc = "closed" \/ (pc = "idle" /\ cur = MaxTrx)
         /\ UNCHANGED vars

Next == \/ Client \/ Coordinator \/ KillRollback \/ Crash
        \/ Backend \/ Tdbctl \/ Quiet

Spec == Init /\ [][Next]_vars

(***************************************************************************)
(* The thread of the session keeps running, a backend finishes what it was *)
(* sent, and the daemon of Tdbctl keeps looking.  Nothing makes the client *)
(* send a statement, or a fault happen.                                    *)
(***************************************************************************)
FairSpec == /\ Spec
            /\ WF_vars(Coordinator)
            /\ WF_vars(Backend)
            /\ WF_vars(Tdbctl)
-----------------------------------------------------------------------------
(***************************************************************************)
(* Properties.                                                             *)
(***************************************************************************)

\* The branches of XaTrx behave as AtomicCommit allows: a branch commits only
\* when all the others have prepared, no branch is rolled back once one has
\* committed, and both states are final.
AC == INSTANCE AtomicCommit WITH Trx <- Trx, Conn <- Conn, branch <- branch
ImplementsAtomicCommit == AC!ACSpec

\* Atomicity of a distributed transaction: no backend commits its branch of a
\* transaction when another one rolls its branch back, whichever of the
\* coordinator, a late request or the daemon settles each of them.
Atomic ==
  \A t \in Trx, c, d \in Conn :
    ~(branch[t][c] = "committed" /\ branch[t][d] = "rolledback")

\* An answer other than success and timeout says that nothing was modified:
\* no branch of the transaction is committed, now or by a late request.  (Not
\* so with spider_force_commit = 2: see KeepCommitError.)
FailMeansUnmodified ==
  \A t \in Trx : reply[t] = "fail" => \A c \in Conn : branch[t][c] # "committed"

\* Success says that the transaction is fully executed: each of its branches
\* is committed, or prepared with a logged xid so that the daemon commits it.
SuccessMeansCommitted ==
  \A t \in Trx : reply[t] = "success" =>
    \A c \in Conn : \/ branch[t][c] \in {"none", "committed"}
                    \/ branch[t][c] = "prepared" /\ xidOf[t] \in xa_commit_log

\* The decision is on record before it is acted on: the second phase, a late
\* request or the daemon commits a prepared branch only if the xid of the
\* transaction is already in xa_commit_log.
LoggedBeforeCommit ==
  [][\A t \in Trx, c \in Conn :
       branch[t][c] = "prepared" /\ branch'[t][c] = "committed"
         => xidOf[t] \in xa_commit_log]_vars

\* A prepared branch holds its locks until it is settled: the coordinator or
\* the daemon of Tdbctl eventually commits it or rolls it back.
PreparedIsSettled ==
  \A t \in Trx, c \in Conn :
    branch[t][c] = "prepared" ~> branch[t][c] \in {"committed", "rolledback"}

\* What one backend has committed is committed everywhere in the end, whatever
\* the client was told: a crash, a lost or refused XA COMMIT, or the daemon
\* that overtakes the second phase may delay a branch, never keep it back.
CommitIsCompleted ==
  \A t \in Trx, c \in Conn :
    (branch[t][c] # "none" /\ \E d \in Conn : branch[t][d] = "committed")
      ~> branch[t][c] = "committed"

\* COMMIT and ROLLBACK are answered: the loops over the join tree end, unless
\* the session is closed under them.
EveryCommitIsAnswered ==
  \A t \in Trx :
    cur = t /\ pc \in {"prepare", "onephase", "commit", "rollback"}
      ~> reply[t] # "none" \/ pc = "closed"

-----------------------------------------------------------------------------
(***************************************************************************)
(* Why the properties hold: the inductive invariant.  It needs the         *)
(* configuration the protocol is safe in; the counterexample runs show     *)
(* what each condition keeps out.                                          *)
(***************************************************************************)
SafeConfig ==
  /\ TransRollback
  /\ ~May("decide", "lost")
  /\ ForceCommit = 1 => ~May("decide", "nota")
  /\ MaxTrx > 1 => ~May("decide", "err") /\ ~May("decide", "nota")

Logged(t) == xidOf[t] \in xa_commit_log

\* Transaction t has its answer, or nobody is left to give one.
Over(t) == t < cur \/ (t = cur /\ pc \in {"idle", "closed"})

NoRequest(t) == \A c \in Conn, call \in Call : <<t, c, call>> \notin pending

\* The counter the xids are made of runs at most one ahead of the session.
CounterInv ==
  /\ pc # "idle" => cur >= 1
  /\ spider_xid_gtrid <= cur + 1
  /\ pc = "work" /\ ~trx_start => spider_xid_gtrid <= cur

\* No two transactions share an xid, and a new xid is not in the log.
XidInv ==
  /\ \A t \in Trx : /\ xidOf[t] < spider_xid_gtrid
                    /\ t > cur => xidOf[t] = 0
  /\ \A t, u \in Trx : xidOf[t] = xidOf[u] /\ xidOf[t] # 0 => t = u
  /\ \A x \in xa_commit_log : x # 0 /\ x < spider_xid_gtrid
  /\ pc = "idle" /\ cur < MaxTrx => ~trx_start
  /\ pc = "work" /\ ~trx_start => tree = {} /\ xidOf[cur] = 0
  /\ pc \in PC \ {"idle", "closed", "work"} => trx_start
  /\ pc \in PC \ {"idle", "closed"} /\ trx_start => xid = xidOf[cur] /\ xid # 0

\* Where the session is in its current transaction.
SessionInv ==
  /\ pc \in {"idle", "closed"} => tree = {}
  /\ pc \in {"idle", "closed", "work", "prepare", "onephase"} =>
       /\ Queued = {}
       /\ server_lost = {}
       /\ one_phase = {}
  /\ pc \in {"work", "prepare", "onephase"} =>
       /\ ~Logged(cur)
       /\ NoRequest(cur)
       /\ \A c \in Conn \ tree : branch[cur][c] = "none"
  /\ pc \in {"work", "onephase"} => \A c \in tree : branch[cur][c] = "active"
  /\ pc = "prepare" => /\ \A c \in todo : branch[cur][c] = "active"
                       /\ \A c \in tree \ todo : branch[cur][c] = "prepared"
  /\ pc = "onephase" => todo = tree /\ \E c \in tree : tree = {c}
  /\ pc = "commit" => Logged(cur) /\ (error_num = "fail" => ForceCommit = 2)
  /\ pc = "rollback" => ~Logged(cur)

\* A transaction that has not begun has no branch and no request.
FutureInv ==
  \A t \in Trx : t > cur => /\ NoRequest(t)
                            /\ \A c \in Conn : branch[t][c] = "none"

\* What the log says of the branches: a committed branch is logged, and a
\* logged transaction has no branch that is, or still can be, rolled back.
LogInv ==
  /\ \A t \in Trx, c \in Conn : branch[t][c] = "committed" => Logged(t)
  /\ \A t \in Trx, c \in Conn :
       Logged(t) => branch[t][c] \in {"none", "prepared", "committed"}

\* What is left on broken connections agrees with the log, and a request to
\* decide is the last one of its transaction.
PendingInv ==
  /\ \A t \in Trx, c \in Conn :
       /\ <<t, c, "commit">> \in pending => Logged(t)
       /\ <<t, c, "prepare">> \in pending => ~Logged(t)
       /\ <<t, c, "rollback">> \in pending => ~Logged(t)
  /\ \A t \in Trx, c \in Conn : <<t, c, "decide">> \in pending =>
       /\ Over(t) /\ xidOf[t] # 0
       /\ branch[t][c] = "active"
       /\ \A d \in Conn \ {c} : branch[t][d] \in {"none", "prepared"}
       /\ \A d \in Conn, call \in Call :
            <<t, d, call>> \in pending => d = c /\ call = "decide"

\* What the client was told agrees with the log; only spider_force_commit = 2
\* reports a logged transaction, of which an XA COMMIT failed, as a failure.
ReplyInv ==
  \A t \in Trx :
    /\ reply[t] # "none" => Over(t)
    /\ reply[t] = "success" => Logged(t)
    /\ reply[t] = "fail" => /\ Logged(t) => ForceCommit = 2
                            /\ \A c \in Conn : <<t, c, "decide">> \notin pending

\* The invariant behind atomicity: xids are unique, and branches, requests on
\* broken connections, the session and the answers all agree with the log.
Inv == /\ TypeOK
       /\ CounterInv
       /\ XidInv
       /\ SessionInv
       /\ FutureInv
       /\ LogInv
       /\ PendingInv
       /\ ReplyInv
=============================================================================
