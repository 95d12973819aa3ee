------------------------------ MODULE PlainTrx ------------------------------
(***************************************************************************)
(* Transactions without XA, and the settings of the connections they run   *)
(* on (spd_trx.cc, spd_db_conn.cc, spd_conn.cc).  A client has settings of *)
(* its own (autocommit, isolation level, time zone); the connections to    *)
(* the backends are taken from a pool, each with the settings its last     *)
(* user has left.  TSpider remembers what it has set on a connection,      *)
(* queues what the next user wants, and sends what differs, together with  *)
(* START TRANSACTION, in front of the user's first statement.  COMMIT and  *)
(* ROLLBACK go to each connection in turn, and only where TSpider believes *)
(* that there is something to end.                                         *)
(*                                                                         *)
(* If it is wrong about any of this, work is lost, or belongs to somebody  *)
(* else's transaction.                                                     *)
(*                                                                         *)
(* spider_sync_* and spider_semi_trx are on, spider_with_begin_commit is   *)
(* off (their defaults).  sql_log_off is treated as time_zone is, and left *)
(* out, as are consistent snapshots and LOCK TABLES.                       *)
(***************************************************************************)
EXTENDS Integers, Functions

CONSTANTS
  Session,
  Backend,
  Conn,           \* connection objects
  Target,         \* the backend of each
  Level,          \* isolation levels
  Zone,           \* time zones
  DefaultLevel,   \* of a new session, of a client and at a backend
  DefaultZone,
  None,           \* a value that is not known, or not queued
  TransRollback,  \* the sessions with spider_trans_rollback
  Faults,         \* pairs of a session and what may happen to it: see Fault
  MaxTrx,         \* bound: transactions of all sessions
  MaxSet          \* bound: settings changed by all sessions

\* A backend cannot be connected to; one of the settings is refused, or the
\* connection breaks under them; the same for a statement, and for the COMMIT
\* or ROLLBACK at the end; the session is killed.
Fault == {"connect", "set_err", "set_lost", "query_err", "query_lost",
          "end_err", "end_lost", "kill"}

ASSUME TargetAssumption  == Target \in [Conn -> Backend]
ASSUME DefaultAssumption == DefaultLevel \in Level /\ DefaultZone \in Zone
ASSUME NoneAssumption    == None \notin Level \cup Zone \cup BOOLEAN \cup Session
ASSUME PlaceAssumption   == {"none", "pool"} \cap Session = {}
ASSUME TransRollbackAssumption == TransRollback \subseteq Session
ASSUME FaultsAssumption  == Faults \subseteq Session \X Fault
ASSUME BoundAssumption   == MaxTrx \in Nat /\ MaxSet \in Nat

VARIABLES
  thd,        \* the settings of each session, and OPTION_BEGIN
  pc,         \* where it is: between statements, in one, in a loop
  todo,       \* the connections its loop has not visited
  is_error,   \* thd->is_error()
  cur,        \* the transaction it is in, 0: none
  conn,       \* the SPIDER_CONNs
  srv,        \* the backends' sessions of the connections (external)
  committed,  \* work the backends have committed (external)
  nset,       \* number of settings changed
  ntrx,       \* history: number of transactions begun
  written,    \* history: work a backend has answered with success
  reply       \* history: how each transaction ended for its client

client == <<thd, pc, todo, is_error, cur>>
vars   == <<client, conn, srv, committed, nset, ntrx, written, reply>>

Trx  == 1..MaxTrx
Work == Trx \X Backend

\* The settings TSpider knows, or has queued.
Settings == [trx_isolation : Level \cup {None},
             autocommit    : BOOLEAN \cup {None},
             time_zone     : Zone \cup {None}]

\* A connection is nowhere (not created), in the pool, or in the
\* trx_conn_hash of a session.
ConnType == [place            : {"none", "pool"} \cup Session,
             queued_connect   : BOOLEAN,
             server_lost      : BOOLEAN,
             join_trx         : BOOLEAN,
             trx_start        : BOOLEAN,
             queued_trx_start : BOOLEAN,
             queued           : Settings,
             known            : Settings]

\* A backend's session: level is the isolation level of its transaction, None
\* outside of one; work is what the transaction has written.
ServerType == [trx_isolation : Level, autocommit : BOOLEAN, time_zone : Zone,
               level : Level \cup {None}, work : SUBSET Trx]

Held(s) == {c \in Conn : conn[c].place = s}

TypeOK ==
  /\ thd \in [Session -> [autocommit : BOOLEAN, begin : BOOLEAN,
                          trx_isolation : Level, time_zone : Zone]]
  /\ pc \in [Session -> {"idle", "stmt", "commit", "rollback"}]
  /\ todo \in [Session -> SUBSET Conn]
  /\ \A s \in Session : todo[s] \subseteq Held(s)
  /\ is_error \in [Session -> BOOLEAN]
  /\ cur \in [Session -> 0..MaxTrx]
  /\ conn \in [Conn -> ConnType]
  /\ srv \in [Conn -> ServerType]
  /\ committed \subseteq Work
  /\ ntrx \in 0..MaxTrx /\ nset \in 0..MaxSet
  /\ written \subseteq Work
  /\ reply \in [Trx -> {"none", "success", "fail", "rolledback"}]

NoSettings == [trx_isolation |-> None, autocommit |-> None, time_zone |-> None]

\* spider_create_conn
NewConn == [place |-> "none", queued_connect |-> TRUE, server_lost |-> FALSE,
            join_trx |-> FALSE, trx_start |-> FALSE, queued_trx_start |-> FALSE,
            queued |-> NoSettings, known |-> NoSettings]

\* A session of a backend that has just been opened.
NewServer == [trx_isolation |-> DefaultLevel, autocommit |-> TRUE,
              time_zone |-> DefaultZone, level |-> None, work |-> {}]

NewClient == [autocommit |-> TRUE, begin |-> FALSE,
              trx_isolation |-> DefaultLevel, time_zone |-> DefaultZone]

Init ==
  /\ thd = [s \in Session |-> NewClient]
  /\ pc = [s \in Session |-> "idle"]
  /\ todo = [s \in Session |-> {}]
  /\ is_error = [s \in Session |-> FALSE]
  /\ cur = [s \in Session |-> 0]
  /\ conn = [c \in Conn |-> NewConn]
  /\ srv = [c \in Conn |-> NewServer]
  /\ committed = {}
  /\ ntrx = 0 /\ nset = 0
  /\ written = {}
  /\ reply = [t \in Trx |-> "none"]

May(s, fault) == <<s, fault>> \in Faults

\* thd_test_options(thd, OPTION_NOT_AUTOCOMMIT | OPTION_BEGIN), and
\* spider_db_mysql::trx_transmit_begin_commit.
InTrx(s) == thd[s].begin \/ ~thd[s].autocommit
-----------------------------------------------------------------------------
(***************************************************************************)
(* A remote call changes a link: a connection, the backend's session it    *)
(* stands for, and, in done, the work the backend commits on the way.  Its *)
(* outcomes are a set of links with an error.                              *)
(***************************************************************************)
Link(r, c) == [conn |-> r, srv |-> srv[c], done |-> {}, error |-> FALSE]

\* The backend ends the transaction, and what was written is committed.
CommitAt(x) == [x EXCEPT !.done = @ \cup x.srv.work,
                         !.srv.work = {}, !.srv.level = None]

RollbackAt(x) == [x EXCEPT !.srv.work = {}, !.srv.level = None]

Failed(x) == [x EXCEPT !.error = TRUE]

\* spider_db_errorno: the connection is gone, and the backend's session with it.
Lost(x) == [x EXCEPT !.conn.server_lost = TRUE, !.srv = NewServer, !.error = TRUE]

\* A backend executes one of the statements of spider_db_conn_queue_action.
Exec(x, item) ==
  IF item = "trx_start"
  THEN [CommitAt(x) EXCEPT !.srv.level = x.srv.trx_isolation]
  ELSE IF item = "autocommit" /\ x.conn.queued.autocommit
  THEN [CommitAt(x) EXCEPT !.srv.autocommit = TRUE]
  ELSE [x EXCEPT !.srv[item] = x.conn.queued[item]]

\* Mutant: the transaction is started before its settings are made.
BulkOrder_StartFirst == <<"trx_start", "trx_isolation", "autocommit", "time_zone">>

BulkOrder == <<"trx_isolation", "autocommit", "time_zone", "trx_start">>

\* What is sent: what is queued and differs from what is known; START
\* TRANSACTION only if the client has one.
Bulk(s, r) ==
  {item \in Range(BulkOrder) :
     IF item = "trx_start" THEN r.queued_trx_start /\ InTrx(s)
                           ELSE r.queued[item] \notin {None, r.known[item]}}

\* spider_conn_clear_queue
ClearQueue(r) == [r EXCEPT !.queued = NoSettings, !.queued_trx_start = FALSE]

\* Mutant: what was sent stays queued, START TRANSACTION too.
Sent_KeepsQueue(x) ==
  LET known == [i \in DOMAIN NoSettings |->
                  IF x.conn.queued[i] = None THEN x.conn.known[i] ELSE x.conn.queued[i]]
  IN [x EXCEPT !.conn.known = known]

\* All went well: what was queued is known.
Sent(x) ==
  LET known == [i \in DOMAIN NoSettings |->
                  IF x.conn.queued[i] = None THEN x.conn.known[i] ELSE x.conn.queued[i]]
  IN [x EXCEPT !.conn = ClearQueue([@ EXCEPT !.known = known])]

\* spider_db_connect and spider_reset_conn_setted_parameter
Connect(s, x) ==
  LET y == [x EXCEPT !.conn.known = NoSettings]
  IN IF ~x.conn.queued_connect THEN {x}
     ELSE {[y EXCEPT !.conn.queued_connect = FALSE, !.conn.server_lost = FALSE,
                     !.srv = NewServer]}
            \cup (IF May(s, "connect") THEN {[y EXCEPT !.conn.server_lost = TRUE]} ELSE {})

\* The link before each of the items of bulk, and at the end.
Stages(x, bulk) ==
  LET next(y, i) == IF BulkOrder[i] \in bulk THEN Exec(y, BulkOrder[i]) ELSE y
      x1 == next(x, 1)
      x2 == next(x1, 2)
      x3 == next(x2, 3)
  IN <<x, x1, x2, x3, next(x3, 4)>>

\* spider_db_conn_queue_action: a connection that is lost is not connected
\* again; after an error nothing is known to be set and everything stays queued.
QueueAction(s, x) ==
  UNION {LET bulk  == Bulk(s, y.conn)
             stage == Stages(y, bulk)
             parts == {stage[i] : i \in {i \in 1..4 : BulkOrder[i] \in bulk}}
         IN IF y.conn.server_lost THEN {Failed(y)}
            ELSE {Sent(stage[5])}
                   \cup (IF May(s, "set_err") THEN {Failed(z) : z \in parts} ELSE {})
                   \cup (IF May(s, "set_lost") THEN {Lost(z) : z \in parts} ELSE {})
         : y \in Connect(s, x)}

\* A statement of transaction t at the backend, which commits it at once in
\* autocommit mode and begins a transaction by itself without.
Write(x, t) ==
  IF x.srv.level = None /\ x.srv.autocommit
  THEN [x EXCEPT !.done = @ \cup {t}]
  ELSE [x EXCEPT !.srv.work = @ \cup {t},
                 !.srv.level = IF @ = None THEN x.srv.trx_isolation ELSE @]

\* spider_db_query, with spider_db_before_query.
RunStatement(s, x, t) ==
  UNION {IF y.error THEN {y}
         ELSE {Write(y, t)}
                \cup (IF May(s, "query_err") THEN {Failed(y)} ELSE {})
                \cup (IF May(s, "query_lost") THEN {Lost(y), Lost(Write(y, t))} ELSE {})
         : y \in QueueAction(s, x)}

\* spider_db_mysql::commit and rollback, sent to the backend.
SendEnd(s, x, how) ==
  UNION {LET ended == IF how = "commit" THEN CommitAt(y) ELSE RollbackAt(y)
         IN IF y.error THEN {y}
            ELSE {ended}
                   \cup (IF May(s, "end_err") THEN {Failed(y)} ELSE {})
                   \cup (IF May(s, "end_lost") THEN {Lost(y), Lost(ended)} ELSE {})
         : y \in QueueAction(s, x)}

\* The link of c is now y.
SetLink(c, y) ==
  /\ conn' = [conn EXCEPT ![c] = y.conn]
  /\ srv' = [srv EXCEPT ![c] = y.srv]
  /\ committed' = committed \cup {<<t, Target[c]>> : t \in y.done}
-----------------------------------------------------------------------------
(***************************************************************************)
(* Statements.                                                             *)
(***************************************************************************)

\* spider_get_conn: from the session's hash, from the pool, or a new one.
Candidates(s, b) ==
  LET at(p) == {c \in Conn : Target[c] = b /\ conn[c].place = p}
  IN IF at(s) # {} THEN at(s) ELSE IF at("pool") # {} THEN at("pool") ELSE at("none")

\* spider_set_trx_status_info and spider_internal_start_trx: the connection
\* joins the transaction once, and the isolation level is queued each time.
\* In autocommit mode the transaction is queued too (semi_trx), but not sent.
Joined(s, r) ==
  LET start == ~r.join_trx /\ (thd[s].begin \/ thd[s].autocommit)
  IN [r EXCEPT !.place = s, !.join_trx = TRUE,
               !.trx_start = @ \/ start,
               !.queued_trx_start = @ \/ start,
               !.queued.trx_isolation = thd[s].trx_isolation,
               !.queued.autocommit = IF r.join_trx THEN @ ELSE thd[s].autocommit,
               !.queued.time_zone = IF r.join_trx THEN @ ELSE thd[s].time_zone]

\* A loop over the connections of the transaction begins.
EnterLoop(s, loop, conns) ==
  /\ pc' = [pc EXCEPT ![s] = loop]
  /\ todo' = [todo EXCEPT ![s] = conns]

\* The statement goes on, or ends with an error: outside of a transaction, and
\* with spider_trans_rollback, it is rolled back with all there is.
AfterQuery(s, c, error) ==
  IF ~error
  THEN /\ pc' = [pc EXCEPT ![s] = IF InTrx(s) THEN "idle" ELSE "stmt"]
       /\ UNCHANGED <<todo, is_error>>
  ELSE IF InTrx(s) /\ s \notin TransRollback
  THEN pc' = [pc EXCEPT ![s] = "idle"] /\ UNCHANGED <<todo, is_error>>
  ELSE EnterLoop(s, "rollback", Held(s) \cup {c}) /\ is_error' = [is_error EXCEPT ![s] = TRUE]

\* A statement of session s needs backend b.  In a transaction it may be the
\* next one, outside of one it is another shard of the same.
Query(s, b) ==
  /\ pc[s] = "idle" \/ pc[s] = "stmt"
  /\ cur[s] = 0 => ntrx < MaxTrx
  /\ ntrx' = IF cur[s] = 0 THEN ntrx + 1 ELSE ntrx
  /\ cur' = [cur EXCEPT ![s] = IF @ = 0 THEN ntrx' ELSE @]
  /\ \E c \in Candidates(s, b) :
       \E y \in RunStatement(s, Link(Joined(s, conn[c]), c), cur'[s]) :
         /\ SetLink(c, y)
         /\ written' = IF y.error THEN written ELSE written \cup {<<cur'[s], b>>}
         /\ AfterQuery(s, c, y.error)
  /\ UNCHANGED <<thd, nset, reply>>

\* The statement ends: outside of a transaction it is committed.
EndStmt(s) ==
  /\ pc[s] = "stmt"
  /\ EnterLoop(s, "commit", Held(s))
  /\ UNCHANGED <<thd, is_error, cur, conn, srv, committed, nset, ntrx, written, reply>>
-----------------------------------------------------------------------------
(***************************************************************************)
(* The end of a transaction.                                               *)
(***************************************************************************)

\* COMMIT, or a statement that implies it.
Commit(s) ==
  /\ pc[s] = "idle" /\ cur[s] # 0
  /\ EnterLoop(s, "commit", Held(s))
  /\ UNCHANGED <<thd, is_error, cur, conn, srv, committed, nset, ntrx, written, reply>>

Rollback(s) ==
  /\ pc[s] = "idle" /\ cur[s] # 0
  /\ EnterLoop(s, "rollback", Held(s))
  /\ UNCHANGED <<thd, is_error, cur, conn, srv, committed, nset, ntrx, written, reply>>

\* Is there something to end on this connection?
ToEnd(r) == r.known.autocommit # TRUE \/ r.trx_start

\* START TRANSACTION, or even the connect, was never sent.
NotStarted(r) == r.queued_connect \/ r.queued_trx_start

NoTrx(x) == [x EXCEPT !.conn.trx_start = FALSE]

\* Mutant: a lost connection is no error, as in spider_db_rollback.
DbCommit_LostIsNoError(s, x) ==
  IF ~ToEnd(x.conn) THEN {x}
  ELSE IF NotStarted(x.conn) \/ ~InTrx(s) THEN {NoTrx(x)}
  ELSE {IF y.error /\ ~y.conn.server_lost THEN y
        ELSE [NoTrx(y) EXCEPT !.error = FALSE] : y \in SendEnd(s, x, "commit")}

\* spider_db_commit.  Outside of a transaction nothing is sent.
DbCommit(s, x) ==
  IF ~ToEnd(x.conn) THEN {x}
  ELSE IF NotStarted(x.conn) \/ ~InTrx(s) THEN {NoTrx(x)}
  ELSE {IF y.error THEN y ELSE NoTrx(y) : y \in SendEnd(s, x, "commit")}

\* spider_db_rollback, also outside of a transaction; that the connection was
\* lost is no error unless there was one before.
DbRollback(s, x) ==
  IF x.conn.server_lost \/ ~ToEnd(x.conn) THEN {x}
  ELSE IF NotStarted(x.conn) THEN {NoTrx(x)}
  ELSE {IF y.error /\ (is_error[s] \/ ~y.conn.server_lost) THEN y
        ELSE [NoTrx(y) EXCEPT !.error = FALSE] : y \in SendEnd(s, x, "rollback")}

\* A turn of the loop of spider_commit or spider_rollback.
EndConn(s, c, outcomes) ==
  /\ todo' = [todo EXCEPT ![s] = @ \ {c}]
  /\ \E y \in outcomes :
       /\ SetLink(c, [y EXCEPT !.conn.join_trx = FALSE])
       /\ is_error' = [is_error EXCEPT ![s] = @ \/ y.error]
  /\ UNCHANGED <<thd, pc, cur, nset, ntrx, written, reply>>

CommitConn(s) ==
  /\ pc[s] = "commit"
  /\ \E c \in todo[s] : EndConn(s, c, DbCommit(s, Link(conn[c], c)))

RollbackConn(s) ==
  /\ pc[s] = "rollback"
  /\ \E c \in todo[s] : EndConn(s, c, DbRollback(s, Link(conn[c], c)))

\* Mutant: a failed transaction's connections are pooled.
Pooled_AfterError(s, r) == ~r.server_lost

\* spider_free_conn_from_trx: may the connection be used by others?
Pooled(s, r) == ~r.server_lost /\ ~is_error[s]

\* spider_conn_clear_queue_at_commit and spider_conn_clear_queue
Cleared(r) ==
  ClearQueue([r EXCEPT !.place = "pool",
                       !.trx_start = @ /\ ~r.queued_trx_start])

\* spider_free_trx_conn: the connections go to the pool, or are closed.
FreeTrxConn(s, keep) ==
  /\ conn' = [c \in Conn |-> IF c \notin Held(s) THEN conn[c]
                             ELSE IF c \in keep THEN Cleared(conn[c]) ELSE NewConn]
  /\ srv' = [c \in Conn |-> IF c \in Held(s) \ keep THEN NewServer ELSE srv[c]]

\* Mutant: the loop's connections are not forgotten.
EndTrx_KeepsTodo(s, how, begin) ==
  /\ pc' = [pc EXCEPT ![s] = "idle"]
  /\ todo' = [todo EXCEPT ![s] = Held(s)]
  /\ cur' = [cur EXCEPT ![s] = 0]
  /\ is_error' = [is_error EXCEPT ![s] = FALSE]
  /\ thd' = [thd EXCEPT ![s].begin = begin]
  /\ reply' = [reply EXCEPT ![cur[s]] = how]
  /\ UNCHANGED <<committed, nset, ntrx, written>>

\* The transaction is over, and the client has its answer.
EndTrx(s, how, begin) ==
  /\ pc' = [pc EXCEPT ![s] = "idle"]
  /\ todo' = [todo EXCEPT ![s] = {}]
  /\ cur' = [cur EXCEPT ![s] = 0]
  /\ is_error' = [is_error EXCEPT ![s] = FALSE]
  /\ thd' = [thd EXCEPT ![s].begin = begin]
  /\ reply' = [reply EXCEPT ![cur[s]] = how]
  /\ UNCHANGED <<committed, nset, ntrx, written>>

\* The end of spider_commit and of spider_rollback.  After a rollback that a
\* failed statement has caused, the client is still between BEGIN and COMMIT.
LoopEnd(s) ==
  /\ pc[s] \in {"commit", "rollback"} /\ todo[s] = {}
  /\ FreeTrxConn(s, {c \in Held(s) : Pooled(s, conn[c])})
  /\ EndTrx(s, IF pc[s] = "rollback" /\ InTrx(s) THEN "rolledback"
               ELSE IF is_error[s] THEN "fail" ELSE "success",
            thd[s].begin /\ pc[s] = "rollback" /\ is_error[s])

\* KILL: spider_rollback returns at once, and the connections are closed.
Kill(s) ==
  /\ May(s, "kill")
  /\ pc[s] \in {"idle", "stmt"} /\ cur[s] # 0
  /\ FreeTrxConn(s, {})
  /\ EndTrx(s, IF InTrx(s) THEN "rolledback" ELSE "fail", FALSE)
-----------------------------------------------------------------------------
(***************************************************************************)
(* What a client sets.                                                     *)
(***************************************************************************)

Set(s, new) ==
  /\ pc[s] = "idle" /\ new # thd[s]
  /\ thd' = [thd EXCEPT ![s] = new]
  /\ UNCHANGED <<pc, todo, is_error, cur, conn, srv, committed, ntrx, written, reply>>

CountSet == nset < MaxSet /\ nset' = nset + 1

\* BEGIN commits first.
Begin(s) ==
  cur[s] = 0 /\ Set(s, [thd[s] EXCEPT !.begin = TRUE]) /\ UNCHANGED nset

\* fix_autocommit: SET autocommit = 1 commits first, and ends a BEGIN too.
SetAutocommit(s, v) ==
  /\ CountSet
  /\ v # thd[s].autocommit
  /\ v => cur[s] = 0
  /\ Set(s, [thd[s] EXCEPT !.autocommit = v, !.begin = @ /\ ~v])

\* A new isolation level is for the next transaction.
SetTrxIsolation(s, v) ==
  CountSet /\ cur[s] = 0 /\ Set(s, [thd[s] EXCEPT !.trx_isolation = v])

SetTimeZone(s, v) == CountSet /\ Set(s, [thd[s] EXCEPT !.time_zone = v])

Next ==
  \E s \in Session :
    \/ \E b \in Backend : Query(s, b)
    \/ EndStmt(s) \/ Commit(s) \/ Rollback(s)
    \/ CommitConn(s) \/ RollbackConn(s) \/ LoopEnd(s)
    \/ Kill(s)
    \/ Begin(s)
    \/ \E v \in BOOLEAN : SetAutocommit(s, v)
    \/ \E v \in Level : SetTrxIsolation(s, v)
    \/ \E v \in Zone : SetTimeZone(s, v)

Spec == Init /\ [][Next]_vars
-----------------------------------------------------------------------------
(***************************************************************************)
(* Properties.                                                             *)
(***************************************************************************)

\* A transaction answered with success is committed wherever a backend has
\* executed a statement of it.  TSpider sends COMMIT only where it believes a
\* transaction to be open, and none at all in autocommit mode: that it is right
\* depends on what it remembers of a connection that others have used.
Durable ==
  \A w \in written : reply[w[1]] = "success" => w \in committed

\* A transaction that was rolled back stays so: what it has written is not left
\* on a connection, where the next user's START TRANSACTION, COMMIT or
\* autocommit would commit it.
StaysRolledBack ==
  \A w \in Work : reply[w[1]] = "rolledback" => w \notin committed

\* Nobody finds traces of another session on a pooled connection: no open
\* transaction (the assertion in spider_conn_queue_start_transaction), nothing
\* queued, and what TSpider remembers to have set is set.
CleanPool ==
  \A c \in Conn : conn[c].place = "pool" =>
    /\ srv[c].level = None /\ ~conn[c].trx_start /\ ~conn[c].join_trx
    /\ conn[c].queued = NoSettings /\ ~conn[c].queued_trx_start
    /\ \A i \in DOMAIN NoSettings : conn[c].known[i] \in {None, srv[c][i]}

\* A statement runs as its client has asked, whoever has used the connection
\* before: at the client's isolation level, inside a transaction if the client
\* is in one, and, if the connection has just joined the transaction, in the
\* client's time zone.  (A time zone set later is not sent any more.)
RunsAsAsked ==
  [][\A s \in Session, c \in Conn :
       conn'[c].place = s /\ <<cur'[s], Target[c]>> \in written' \ written =>
         /\ srv'[c].trx_isolation = thd[s].trx_isolation
         /\ srv'[c].level = IF InTrx(s) THEN thd[s].trx_isolation ELSE None
         /\ ~conn[c].join_trx => srv'[c].time_zone = thd[s].time_zone]_vars
=============================================================================
