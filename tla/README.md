# TLA+ models of TSpider

TSpider is the SQL layer of TenDB Cluster: a MariaDB server whose Spider storage
engine (`src/storage/spider/`) splits every table over many MySQL backends
("TenDB" instances) and turns the statements of a client into statements for
them. What makes it hard is not the SQL but what happens around it: one client
transaction is many transactions on many backends, the connections to the
backends are shared by all clients of a node, and all of it happens while
connections break, sessions are killed and the node itself may crash.

This directory holds TLA+ models of those parts, TLC configurations for them,
and proofs, checked by TLAPS, of the properties that matter most. Every
definition that models code is translated from the source; `PROJECT.json` maps
each one to its lines.

## 1. Inventory

### The parts of the system

| Part | State it keeps | Operations |
|---|---|---|
| Internal XA transactions (`spd_trx.cc`, `spd_db_conn.cc`) | `SPIDER_TRX`: `trx_start`, `trx_xa`, `xid`, the join tree; per connection `queued_connect`, `queued_xa_start`, `server_lost`, `is_xa_commit_one_phase`; the counter behind the xids | start of a branch, prepare, one-phase commit with log, commit, rollback, KILL, the answer to the client |
| Join tree of a transaction (`spd_conn.cc`) | `join_trx_top`, four pointers and a priority in each `SPIDER_CONN` | insert, first, next, last, delete, count |
| Connection pool (`spd_conn.cc`) | `spd_connect_pools` (a queue of idle connections per key), `spider_ipport_conns` (a counter and a waiting count per backend), each session's `trx_conn_hash` | get, wait, create, put back, free, recycle, flush |
| Background search threads (`spd_conn.cc`) | per connection: a thread, two mutexes with a condition each, a dozen flags | start, search, break, wait, kill |
| Cluster-wide auto-increment (`sql/ha_partition.cc`, `sql/handler.cc`, `ha_spider.cc`) | `next_auto_inc_val`, `auto_inc_initialized` and `last_insert_failed` of the table's share; the interval a statement has reserved and its cursor in it | reserve, release, raise, reset, initialise from the backends |
| Queue of settings of a connection (`spd_conn.cc`, `spd_db_conn.cc`) | per connection: what is queued (`queued_*`), and what was set before (`trx_isolation`, `autocommit`, `time_zone`, `sql_log_off`) | queue, send before the next statement, clear |
| Transactions without XA, consistent snapshots (`spd_trx.cc`) | as for XA, without `xid`; `trx_start` of each connection | start, commit, rollback, start with snapshot |
| External XA (`spd_trx.cc`) | log tables `mysql.spider_xa*` | the XA statements of the client |
| Handlers kept in a transaction (`spd_trx.cc`, trx_ha) | a hash of handlers | create, update, check, reuse |
| Statistics and monitoring threads (`spd_conn.cc`, `spd_table.cc`, `spd_ping_table.cc`) | cached table status, link status | refresh, ping |
| SQL generation, shares, parameters, UDFs (the rest) | configuration | no concurrency of their own |

Outside of TSpider, and visible in the models as its environment: the backends,
which run XA branches, and Tdbctl, whose daemon settles the branches that a
crashed or killed TSpider leaves behind. They are described in
`src/Documentation/re-book/transaction-en.md`; the models contain what the code
in `src/` relies on.

### How they interact

A statement of a client reaches the handlers (`ha_spider`) of the shards it
needs. Each asks for a connection (`spider_get_conn`): from the transaction's
hash, from the pool, or a new one, waiting if the backend has as many as
`spider_max_connections` allows. The connection joins the transaction
(`spider_internal_start_trx`): it gets the transaction's xid and a place in the
join tree, and its XA START is queued, to be sent in front of the next statement.
COMMIT walks the tree: with one connection it commits in one phase, with more it
prepares all but the last, lets the last one decide by
`xa commit one phase with log`, which also records the xid in
`mysql.xa_commit_log` of that backend, and commits the others. At the end of the
transaction all connections go back to the pool, where a recycler thread closes
those that have been idle for long.

With `spider_bgs_mode` and `spider_bgs_dml` a statement over several shards runs
in parallel: each connection has a background thread, to which the session hands
its searches and writes (`spider_bg_conn_search`). A scan is read ahead by one
result; an INSERT is sent in batches while the next batch is put together; the
answers are collected at the end (`get_bg_result`). Parallel statements run only
outside of transactions, so the connection is given back when the statement
commits, which may be before the thread has finished.

Without `spider_internal_xa` the connection still joins the transaction, and
START TRANSACTION is queued instead of XA START. With it are queued the isolation
level, the autocommit mode and the time zone of the client: the connection comes
from the pool with the settings of its last user. TSpider remembers what it has
set on a connection and sends what differs, in one string, in front of the next
statement (`spider_db_conn_queue_action`). COMMIT and ROLLBACK visit the joined
connections and are sent where there seems to be something to end.

An INSERT into a table with an auto-increment column reserves an interval of
values from a counter that the sessions of a node share, takes them one by one,
and gives back what is left. Nodes do not talk to each other: each takes the
values that are its `spider_auto_increment_mode_value` modulo
`spider_auto_increment_step`. The counter is in memory only; when it is not known,
after a crash, FLUSH TABLES or a failed insert, it is read from the partitions.

### What is hard

* Partial failure: any remote call may fail, or fail in a way that leaves
  unknown whether it was executed. A request on a broken connection may still be
  executed later.
* Crash and KILL between two of those calls, and a daemon that acts on the same
  branches.
* State that survives from one transaction of a session to the next: the xid,
  `trx_start`, the tree pointers of pooled connections.
* Races around the pool: the search for a backend's counter and its insertion
  are under different locks, the limit is tested long before the connection is
  created, `waiting_count` is read without its mutex.
* The handshake with the background threads: conditions without a predicate,
  flags read without the mutex, buffers and results shared by both sides, and
  connections that change hands while a search runs.
* Settings that outlive their user: whether a statement is committed, and at which
  isolation level it runs, depends on what TSpider remembers of a connection that
  others have used, after failures too.
* A counter that is lowered, raised by explicit values, thrown away and read back
  while other sessions hold values of it that no table shows yet.

`PROJECT.json` lists the hazards one by one, at the line where each bites, with
the properties that would catch it.

## 2. The modules

| Module | What it is |
|---|---|
| `XaTrx` | the internal XA transaction of one session, with its environment |
| `AtomicCommit` | what `XaTrx` promises: atomic commitment of the branches, without a protocol |
| `XaTrxProofs`, `XaTrxRefinement` | the theorems about `XaTrx`: its invariant, and that it implements `AtomicCommit` |
| `ConnPool` | the connection pool of one TSpider node |
| `ConnPoolProofs` | the theorems about `ConnPool` |
| `JoinTree` | the tree of a transaction's connections, pointer by pointer |
| `JoinTreeProofs` | the theorems about `JoinTree` |
| `BgSearch` | a connection, its background thread and the sessions that own it in turn |
| `BgSearchProofs` | the theorems about `BgSearch` |
| `PlainTrx` | transactions without XA, and the settings of pooled connections |
| `PlainTrxProofs` | the theorems about `PlainTrx` |
| `AutoInc` | the auto-increment column of a table: the counters of several nodes |
| `UniqueIds` | what `AutoInc` promises: values that nobody else has |
| `AutoIncProofs`, `AutoIncRefinement` | the theorems about `AutoInc`: its invariants in three layers, and that it implements `UniqueIds` |
| `MCXaTrx`, `MCConnPool`, `MCJoinTree`, `MCBgSearch`, `MCPlainTrx`, `MCAutoInc` | instances for TLC: sets of faults, symmetry, who owns which handler |

Definitions whose name contains an underscore and whose comment begins with
"Mutant" are deliberately wrong versions of the definition that follows them.
Putting one in the place of the right one must break the property named in
`PROJECT.json`: that is how we know that a property is about the code.

### XaTrx

One session, backends `1..N`, and `MaxTrx` transactions one after another. A
session has at most one connection per backend, so a connection is the number of
its backend, and the numbers are the order of the join tree: the last joined
connection decides. (That the tree really yields this order is the subject of
`JoinTree`.)

| State | In the code |
|---|---|
| `branch[t][c]` | the XA branch of transaction `t` at backend `c` (external) |
| `xa_commit_log` | the xids in `mysql.xa_commit_log` (external) |
| `pending` | requests sent on connections that broke, not yet executed (external) |
| `pc`, `todo`, `error_num` | which loop of `spider_commit` / `spider_rollback` runs, the connections it has still to visit, the error it will return |
| `trx_start`, `xid`, `spider_xid_gtrid` | the fields of `SPIDER_TRX` and the counter of `spider_internal_start_trx` |
| `tree`, `queued_connect`, `queued_xa_start`, `server_lost`, `one_phase` | the join tree and the flags of its connections |
| `xidOf`, `cur`, `reply` | history: the xid each transaction ran under, and what the client was told |

| Action | In the code |
|---|---|
| `QueryOk`, `QueryErr`, `QueryLost`, `StartErr`, `QueryGone` | a statement at one backend: `spider_get_conn_by_idx`, `spider_internal_start_trx`, `spider_db_before_query`, `spider_db_conn_queue_action`, `exec_query`; with `spider_trans_rollback` a failed statement rolls the transaction back |
| `Commit`, `Rollback` | the entry of `spider_commit` and `spider_rollback` |
| `PrepareConn` | a turn of the loop of `spider_internal_xa_prepare` |
| `DecideConn`, `DecideErr`, `DecideLost` | its last connection: commit in one phase with log, and the three ways this ends |
| `OnePhaseConn` | `spider_internal_xa_commit_one_phase` |
| `CommitConn`, `CommitEnd` | `spider_internal_xa_commit` and the end of `spider_commit` |
| `RollbackConn`, `RollbackEnd` | `spider_internal_xa_rollback` and the end of `spider_rollback` |
| `KillRollback`, `Crash` | a killed session in `spider_rollback`; a crash of the node at any point, the request it was sending included |
| `BackendFinish` | a backend executes, or loses, what a broken connection left behind |
| `Daemon` | Tdbctl settles a prepared branch by `xa_commit_log` |

What an error of a remote call becomes is `spider_db_errorno`; a skipped
connection (`Queued`) is the test for `queued_connect` and `queued_xa_start` at
the start of every `spider_db_xa_*`.

### ConnPool

`NKey` backends, sessions that take and give back connections, and the recycler
thread. Connections and counters are numbered objects (`NConn`, `NRecord` bound
how many exist at once), so that "the same connection twice" is a state the
model can be in. Every lock region of the code is one step, and what the code
does between two regions is another: the test of the limit, the start of the
wait, the creation, the insertion of the counter, putting a connection back,
reading `waiting_count`, signalling. Faults are a constant: allocation failures
at each place where the code handles one, failed statements, lost connections, a
flush, and the passing of idle time (`Age`).

### JoinTree

The four pointers of `SPIDER_CONN`, `spider_tree_insert`, `_delete`, `_first`,
`_next`, `_last`, the loop of `spider_internal_xa_prepare` that finds the
decider, and the loop of `spider_free_prepared_trx`, which deletes while it
walks. Pointers are not reset when a transaction ends, as in the code. A loop
that follows pointers is a function of the number of turns (`Steps`), where it ends
is `Loop`; there are as many turns as connections, which the theorems show to be
enough. `joined` is the reference: what a walk should visit, kept as a sequence into
which a connection is put behind those whose priority is not bigger (`Place`).

### BgSearch

One connection, its thread (`spider_bg_conn_action`), the sessions that own the
connection one after another, and the recycler. A session has handlers
(`ha_spider`), each with a result list.

| State | In the code |
|---|---|
| `owner` | who has the connection: a session's `trx_conn_hash`, the pool, the recycler |
| `conn` | the fields `bg_init`, `bg_search`, `bg_caller_wait`, `bg_caller_sync_wait`, `bg_kill`, `bg_conn_working`, `bg_conn_finish_exec`, `bg_target` of `SPIDER_CONN` |
| `bg`, `exec_sql` | where the thread is, and the statement it executes (for an INSERT a copy, for the others the handler's buffer) |
| `pc`, `cur`, `call` | where each session is, the handler it works for, what it hands over |
| `hd[h]` | of `result_list`: `sql_type`, `bgs_phase`, `bgs_working`, `bgs_error`, `finish_flg`; whether `quick_mode` is 3 and the rows are fetched by `spider_db_fetch_minimum_columns` (`quick3`); whether the current result has rows left (`unread`) and how many results follow it (`ahead`); `use_pre_call`; the statement in the buffer |
| `jobs`, `executed`, `failed`, `hd[h].ended` | history: statements handed over, the last one executed, those that failed, a scan that has been told end of file |

| Action | In the code |
|---|---|
| `StartRead`, `StartWrite` | `pre_rnd_next` and its like; `spider_db_bulk_insert`, `spider_db_direct_update`, `spider_db_direct_delete` |
| `CreateThread`, `BgStart` | `spider_create_conn_thread` |
| `Post`, `Resume` | `spider_bg_conn_search`: with `bg_conn_mutex`, and after the answer |
| `SyncParallel` | `ha_spider::pre_sync_parallel` |
| `PreNext`, `Fetch`, `SeekNext`, `Await`, `Advance` | `spider_bg_all_conn_pre_next`, `spider_db_fetch`, `spider_db_seek_next` |
| `BeforeQuery`, `GetBgResult`, `Reset`, with `Break` | the three places that wait for the thread by locking and unlocking `bg_conn_mutex` |
| `Collect`, `FreeResult` | what they do then |
| `Release`, `Acquire`, `Recycle`, `FreeConn`, `Joined` | the connection changes hands, or is freed with its thread |
| `Bg...` | the loop of `spider_bg_conn_action`, one action for each change another thread can see |

The thread holds `bg_conn_mutex` whenever it is not waiting for work, so what a
caller does with this mutex is invisible to it until the caller waits, and is one
step of the model. Everything read without the mutex (`bg_search`, `bgs_working`,
`bg_conn_working`, `finish_flg`, `bgs_error`) is read in a step of its own.
`spider_mta_conn_mutex_lock`, which upstream protects the connection, is an empty
macro here (`spd_include.h:262`). `FreeEarly` is FALSE in the runs: a session
that resets its handlers reads the connection it has already given back, and is
assumed to do so before the recycler frees it, which happens after
`spider_idle_conn_recycle_interval` at the earliest.

### PlainTrx

Sessions, backends, and connections that the sessions take from the pool and give
back. The autocommit mode is either way, clients may say BEGIN, and change their
isolation level and time zone.

| State | In the code |
|---|---|
| `thd[s]` | of the client: autocommit, `OPTION_BEGIN`, isolation level, time zone |
| `pc`, `todo`, `is_error`, `cur` | where the session is, the connections its loop has still to visit, `thd->is_error()`, its transaction |
| `conn[c]` | of `SPIDER_CONN`: `queued_connect`, `server_lost`, `join_trx`, `trx_start`, `queued_trx_start`; `queued`, the settings waiting to be sent, and `known`, those sent before; `place`, a session's `trx_conn_hash` or the pool |
| `srv[c]` | the backend's session of the connection: its settings, the level of its transaction, the work in it (external) |
| `committed` | what the backends have committed (external) |
| `written`, `reply`, `ntrx` | history: statements answered with success, what the client was told |

| Action | In the code |
|---|---|
| `Query` | `spider_get_conn`, `spider_set_trx_status_info`, `spider_internal_start_trx`, `spider_db_query` with `spider_db_conn_queue_action`; a failed statement outside of a transaction, or with `spider_trans_rollback`, goes on to `spider_rollback` |
| `EndStmt`, `Commit`, `Rollback` | the entries of `spider_commit` and `spider_rollback` |
| `CommitConn`, `RollbackConn` | a turn of their loops: `spider_db_commit`, `spider_db_rollback` |
| `LoopEnd` | their end, with `spider_free_trx_conn` |
| `Kill` | KILL CONNECTION: `spider_rollback` returns at once and the connections are freed (KILL QUERY is a failed statement) |
| `Begin`, `SetAutocommit`, `SetTrxIsolation`, `SetTimeZone` | what clients set |

A remote call is a function from a connection and its backend's session to the
set of their possible next states: the settings may be refused or lost after any
prefix of the string, a statement or a COMMIT before or after it is executed.
`Bulk` is what `spider_db_conn_queue_action` puts into one string, `BulkOrder` their
order in it, and `Stages` the states a backend goes through while it executes the
string.

### AutoInc

Nodes with a counter each, sessions connected to them, and the rows of one table in
its partitions. Every region under the share's mutex is one action, what is done
between two of them another.

| State | In the code |
|---|---|
| `initialized`, `failed`, `next` | `auto_inc_initialized`, `last_insert_failed`, `next_auto_inc_val` of `Partition_share` |
| `share_value` | `auto_increment_value` of the `SPIDER_SHARE`s |
| `nid`, `imin`, `imax`, `cnt`, `cur` | `next_insert_id`, `auto_inc_interval_for_cur_row`, `auto_inc_intervals_count`, `insert_id_for_cur_row` of the handler |
| `est`, `left`, `val`, `prev` | rows the statement is known to have, rows to come, the row's value, `prev_insert_id` of `write_record` |
| `info_called`, `is_error` | `info_auto_called`; the statement has failed |
| `batch`, `open`, `rows` | rows of running statements, rows of earlier statements of transactions that are open or prepared, rows of the table (external) |

| Action | In the code |
|---|---|
| `Begin`, `StartRow` | `mysql_insert`, `write_record`, `ha_partition::write_row` with `update_next_auto_inc_val` and `info(HA_STATUS_AUTO)` |
| `UseExplicit`, `UseReserved`, `Reserve` | `handler::update_auto_increment`, `ha_partition::get_auto_increment` |
| `WriteRow` | the row goes to a partition or is refused: `set_auto_increment_if_higher`, `restore_auto_increment` |
| `Release`, `EndBulk` | `ha_release_auto_increment`, `end_bulk_insert` |
| `EndStmt` | the end of a statement: the rows stay in the transaction of a session in `LongTrx`; others commit, which may leave them prepared (autocommit over several partitions uses XA too, `spd_trx.cc:1408`) |
| `Commit`, `Rollback`, `Settle` | the end of a transaction of several statements; the daemon settles prepared rows (external) |
| `Update`, `Raise` | `ha_partition::update_row` |
| `Truncate` | `ha_partition::truncate`, `ha_spider::truncate` |
| `Flush` | `close_cached_tables`: the table is closed when no statement uses it, and its `Partition_share` goes; transactions go on |
| `Crash` | the node ends: its open transactions are rolled back, prepared rows stay |

The arithmetic is `ulonglong`, modulo `Width`; `WidthAssumption` says that the
bounds stay away from the end of it, as 64 bits do.

## 3. What is checked

Every run is a cfg of an MC module. `TypeOK` is checked once per module, but
not in `JoinTree`, where a pointer of the wrong type would end a walk.

### Passing runs

| Run | Instance | Shows |
|---|---|---|
| `atomic` | 4 backends, 1 transaction, `spider_trans_rollback` on, `spider_force_commit` 2 (the default); every fault but a break of the deciding connection; 5775 states | the branches behave as `AtomicCommit` (`ImplementsAtomicCommit`); success is answered only for a decided transaction (`SuccessMeansCommitted`); no branch is committed before its xid is logged (`LoggedBeforeCommit`); under fairness prepared branches are settled (`PreparedIsSettled`), what one backend has committed is committed everywhere, whatever the client was told (`CommitIsCompleted`), and commits are answered (`EveryCommitIsAnswered`) |
| `sequence` | 3 backends, 2 transactions, `spider_force_commit` 0; no fault at the decider; 100696 states | `Atomic` with the late requests of the first transaction still on their way while the second runs, and `Inv`, the invariant of the proofs |
| `keep_going` | 3 backends, 2 transactions, `spider_trans_rollback` off, `spider_force_commit` 1; statements, prepares, commits and rollbacks may fail or be lost, the decider may answer XAER_NOTA; 142003 states | a branch lost on the way takes the whole transaction with it though the client goes on (`ImplementsAtomicCommit`), and fail means unmodified (`FailMeansUnmodified`) |
| `pool_limits` | 3 sessions, 1 backend, a limit of 1, 2 connections, 2 counters, every fault but idling; 414837 states (up to symmetry) | connections are in one place (`NoSharing`), counters are exact (`CountIsExact`) and below the limit (`RecordLimit`), and `waiting_count` is the number of waiting threads (`WaitersCounted`) |
| `pool_waits` | 2 sessions and the recycler, 2 backends, a limit of 1, 2 connections and 2 counters, which may be of one backend (two connections in one queue) or of both (each session holds what the other waits for); connections that idle, are lost, or are closed after an error; 369974 states | under fairness every request for a connection ends with a connection or an error (`RequestsAnswered`), though holders may never give theirs back, wait for each other's, or close one beside a waiter; no idle connection stays pooled for ever (`IdleIsSettled`), and the recycler closes none that is used (`NoSharing`) |
| `tree` | 4 connections, 3 priorities, 2 transactions; 679343 states (up to symmetry) | a walk visits every joined connection once and in order (`WalkVisitsAll`), the prepare loop ends on the last one (`LastDecides`), and no pointer leads to freed memory (`NoDangling`) |
| `parallel` | 2 sessions with a handler each, the scans of one also in quick mode 3, 3 statements handed over; 758361 states | the connection has one user at a time (`OneUser`), a handler is not reset under the thread (`TargetAlive`), statements are executed once and in order (`ExecutedInOrder`), a scan finds its next result (`NextResultThere`) and, unless in quick mode 3, ends after its last row (`RowsDelivered`), a failed write is reported (`LastErrorReported`), and under fairness all waits end (`WaitsEnd`) |
| `plain` | 2 sessions, one with `spider_trans_rollback`, 2 backends with a connection each, 2 transactions, 1 change of a setting, 2 levels, 2 time zones, every fault but a refused setting without `spider_trans_rollback`; 1320962 states (up to symmetry) | a success is committed wherever a statement was executed (`Durable`), what was rolled back is never committed (`StaysRolledBack`), a pooled connection has no traces but those TSpider knows of (`CleanPool`), and a statement runs at the level, in the transaction and in the time zone of its client (`RunsAsAsked`) |
| `autoinc` | 2 nodes, 2 sessions of one whose transactions outlive their statements and 1 autocommit session of the other, step 2, 1 partition, a column of 4 values, 3 statements of 2 rows or of an unknown number (1), an explicit value, failed batches; 679766 states (up to symmetry) | the generated values are unique in the cluster, those of rows left open or prepared included (`ImplementsUniqueIds`, a refinement), nodes keep to their classes (`OwnClass`), nobody gets what another statement has reserved (`Exclusive`), and the cursor stays above the start of its interval (`CursorNotBelow`) |

Why the bounds are enough. A transaction needs three backends for all its roles:
one prepared branch before and one after the point of failure, and the decider;
the fourth lets two loops stop at different places. Two transactions are needed,
and enough, for everything one leaves to the next: the code keeps no older state.
In the pool two sessions reach every race between two steps of two threads; the
third adds a second waiter beside a waiter and a giver. Four connections give
every shape of the tree around a deleted node: parent, node, two children, or a
node whose small child has a big child. Three priorities allow smaller, equal and
greater at once. Three statements take a scan through all its phases (first,
look-ahead, next), and two sessions with three statements let one be handed over
while another of the previous owner runs and a third has been executed. In `plain`
each session can use a connection the other one has left, in either order and in
another mode, and fail in every way. Two changes of a setting (5323320 states), and
three transactions with one backend (150030 states), were checked too, with fewer
faults. In `pool_waits` two records are those of one backend or one of each; `Room`
bounds them: a backend that has no record is not asked for when none is left for
it. In `autoinc` three statements let one reserve while a second holds values, in its
statement, open or prepared, and a third ends or crashes, in the same node and in the
other one. A column of four values has two of each node; rows are refused as
duplicates of the explicit value and because the column cannot hold a value.

The runs `tree`, `plain` and `autoinc` end in a deadlock when `MaxTrx`, `MaxSet` or
`MaxStmt` is used up: these are bounds of the model. All other runs check deadlock.

### Fairness

* `XaTrx`: weak fairness of the session's thread inside a loop, of a backend with
  a request to finish, and of Tdbctl's daemon. The session's loops make remote
  calls whose timeouts are finite, a backend ends the session of a connection
  that is gone, and the daemon polls. Nothing forces the client to send a
  statement.
* `ConnPool`: weak fairness of a thread that is not blocked and of the recycler,
  whose loop runs until the server stops. Strong fairness of the timeout of a
  wait: what is left of it is computed from its start (`spd_conn.cc:3558`), so it
  is reached however often the thread is woken up in vain. There is no fairness
  for giving a connection back: a client may keep its transaction open for ever, and
  two sessions may hold one backend's connection each and wait for the other's, which
  `pool_waits` reaches. `RequestsAnswered` takes the error after the timeout for an
  answer. It does not exclude a lost wake-up: `waiting_count` is read without the
  mutex (`spd_conn.cc:501`), a thread that has found the backend full may miss the
  connection that is given back before it waits, and nobody is woken up when one
  is closed (`spd_conn.cc:910`). The code leaves both to the timeout.
* `BgSearch`: weak fairness of the thread, of the recycler once it frees a
  connection, and of a session that has begun an operation: they are threads that
  run or wait for what another of them does. Nothing forces a session to begin an
  operation, to go on with a scan or to end its statement.
* `PlainTrx`, `AutoInc` and `JoinTree` have no fairness: what they promise is safety,
  and their loops are over a fixed set.

### Runs that find a disagreement

Each of these checks one property, a sentence of the documentation or of the
code, and TLC finds a behaviour of the code that violates it.

| Run | What happens |
|---|---|
| `decider_lost` | The connection breaks after "xa commit one phase with log" was sent. `spider_db_errorno` treats it as an ordinary error (`spd_db_conn.cc:567`), the other branches are rolled back and the client is told "fail", but the decider commits. |
| `batch_error` | A parallel INSERT in batches: the error of a batch is cleared when the thread takes the next one (`spd_conn.cc:2123`), before anybody has read it. The statement succeeds without the rows of that batch. |
| `reopened` | An INSERT SELECT reserves a second interval after another session has reserved one, and its first row is refused: `restore_auto_increment` sets the cursor below the new interval (`handler.h:3684`), and the release lowers the counter over the values of the other session. One value is given twice. |

More disagreements of this kind are described here only; what they need is in the
models, unless said otherwise.

* With the default `spider_force_commit` 2 the error of an XA COMMIT that fails, is
  lost or finds the branch settled by the daemon stays in the diagnostics area:
  `spider_db_errorno` has put it there (`spd_db_conn.cc:573` and `610`),
  `spd_trx.cc:1602` neither clears nor replaces it, and the OK packet does not
  overwrite it (`sql_error.cc:340`). The client is told an error other than timeout
  of a transaction that is, or will be, committed everywhere, against the sentence of
  the finding of `decider_lost` (`FailMeansUnmodified` with `ForceCommit` 2, even
  without faults). With 0 and 1 it is told a timeout, which is what `keep_going` and
  the theorem `TrueFailure` are about.
* With `spider_trans_rollback` off, and a last connection that never sent its XA
  START, the one-phase commit is skipped (`spd_db_conn.cc:995`) and nothing is
  logged; if the commit of one of the other branches is lost, the daemon rolls it
  back though the rest is committed (`Atomic` under the faults connect/err,
  commit/lost).
* The decider answers with an error; `spider_commit` returns without resetting
  `trx_start` (`spd_trx.cc:2780`). The next transaction runs under the same xid, and
  its log record makes the daemon commit what the first one left prepared (`Atomic`
  with two transactions and the fault decide/err; `SafeConfig` keeps it out).
* If the first phase takes longer than the 30 seconds of Tdbctl's daemon, branches are
  rolled back that the decider then commits; the late XA COMMIT gets XAER_NOTA, and
  with `spider_force_commit` 1, where this is only a warning (`spd_db_conn.cc:588`),
  the client is told success. The daemon of the model waits for the end of the first
  phase; it may overtake the second one.
* Two sessions open the first connection to a backend at once, and each inserts a
  counter (`spd_conn.cc:723`): `spider_max_connections` holds for each counter, which is
  `RecordLimit`, not for the backend.
* A connection that goes back to the pool between a session's test of the limit and
  its wait wakes nobody (`spd_conn.cc:501`), and the session times out beside an idle
  connection; one that is freed rather than pooled (`spd_conn.cc:910`) makes room
  under the limit without waking anybody who waits.
* The recycler counts the idle connections of a queue but closes as many from its
  other end (`spd_conn.cc:3815`), so that an idle one may outlive the round that
  found it.
* `poll_last_visited` returns on out of memory with the queue's mutex locked
  (`spd_conn.cc:3745`): every later get and put of this key blocks. This allocation does
  not fail in the model.
* `reset()` clears `bgs_error` before it waits for the thread (`ha_spider.cc:1037`).
  The thread may set it again, and the next UPDATE or DELETE of this handler may be
  refused for it.
* In quick mode 3, `spider_db_fetch_minimum_columns` ends a scan as soon as the thread
  has found the end (`spd_db_conn.cc:2418`, `EndsEarly`), whatever rows of the current
  result are left. This is not only `spider_quick_mode = 3`: every scan that sorts runs
  in quick mode 3 by default (`spider_adaptive_quick_mode`, `spd_param.cc:1138`,
  `spd_table.cc:5908`). `RowsDelivered` and `NoRowLost` are about the other scans.
* The settings of a connection and START TRANSACTION are sent as one string. If one of
  them is refused, say a time zone the backend does not know, those before it are set
  but not remembered (`spd_db_conn.cc:345`). With `spider_trans_rollback` the connection
  is closed; without it, the default, it goes back to the pool after the client's next
  COMMIT. If it was left at autocommit 0 and is remembered at 1, the next client's
  INSERT in autocommit mode is answered with success and not committed by anybody
  (`Durable` with the fault set_err for `s2` and three transactions).
* A time zone that is changed inside a transaction is not sent to connections that
  have joined it before; `RunsAsAsked` leaves this out.
* With `spider_use_consistent_snapshot` (not in the model) the snapshot is taken before
  the isolation level is queued (`ha_spider.cc:11382`), and so at the level of the
  connection's last user; `spider_trx_all_start_trx` (`spd_trx.cc:270`) has the right order.
  The error of a snapshot that cannot be started is dropped (`ha_spider.cc:11351`), and
  the statement runs outside of the transaction.
* With INSERT IGNORE (the fault ignore) and more than one reservation the cursor goes
  below its interval without the end of the statement, against the assertion in
  `handler.cc:2839`. With a single reservation per statement this does not happen
  (theorem `CursorInInterval`), and it is the reason why the statements of `autoinc`
  with an unknown number of rows have one row.
* `auto_inc_initialized` may be cleared by another session between `info()` and
  `get_auto_increment()`: the assertion in `ha_partition.cc:9281` can fail.
* If a partition does not answer when its maximum is read, it counts as empty
  (`ha_spider.cc:6711`, the fault read): values that are stored are given again.
* The maximum is read without locks (`ha_spider.cc:2368`), so it does not show rows that
  are not committed. FLUSH TABLES drops the counter and waits for statements, not for
  transactions (`sql_base.cc:371`); a crash drops it, and branches that are prepared
  survive. After either the next INSERT of the node gets a value again that an open
  or prepared row already has, against the same line of `auto-increase-en.md`. This is
  the fault drop: with `Faults = {"drop"}` TLC violates `Unique` after 12 states, by an
  INSERT whose transaction stays open, FLUSH TABLES and another INSERT; in `LongTrx = {}`
  by one that stays prepared. `autoinc` and the theorems on uniqueness leave this fault
  out and say so (`CounterKept`): there a node loses its counter only when no row of
  its transactions that is not committed will stay.
* A mode value above the step is accepted (0 to 128 and 1 to 64, `sys_vars.cc:6115`) and
  makes the rounding underflow; two nodes with the same value are not noticed either.
  `ModeAssumption` and `ModesDiffer` keep both out.

## 4. What is proved

Every theorem holds for every value of the constants that satisfies the named
assumptions of its component's module; TLC evaluates those on each run. Each
inductive invariant was checked with TLC on small instances before it was proved.
The proofs go through the actions one by one, a lemma for each (or for a group of
them), and under it a step for each conjunct that the action can disturb.

### XaTrx

`XaTrxProofs`, for every number of backends and transactions, every set of
faults and every value of the parameters (`NAssumption`, `MaxTrxAssumption`,
`FaultsAssumption`, `ParamAssumption`):

* `TypeCorrect`: `Spec => []TypeOK`. It needs `CounterInv`: that the counter of the
  xids stays in its range depends on the session never starting more transactions
  than it has, also over the path that keeps the old xid.

and, under `SafeConfig`:

* `Invariance`: `Spec => []Inv`;
* `Atomicity`: `Spec => []Atomic`, no transaction has both a committed and a
  rolled back branch;
* `TrueFailure`: `Spec => []FailMeansUnmodified`, if `spider_force_commit` is not 2
  (section 3 has what happens then), and `TrueSuccess`:
  `Spec => []SuccessMeansCommitted`;
* `WriteAhead`: `Spec => LoggedBeforeCommit`;
* `Refinement` (in `XaTrxRefinement`): `Spec => ImplementsAtomicCommit`.

The argument. None of the properties is inductive. The idea of the protocol is
that `xa_commit_log` is the truth about a transaction, so the invariant says that
everything else agrees with the log: committed branches are logged and logged
transactions have no branch that is, or still could be, rolled back (`LogInv`);
requests on broken connections agree with it, and one to decide is the last of its
transaction (`PendingInv`); so do the answers, but for the errors that
`spider_force_commit` 2 lets through (`ReplyInv`), and the position of the
session in its loops (`SessionInv`). This needs that an xid stands for one
transaction and is not logged when it is handed out (`XidInv`, which rests on
`CounterInv`), and that a transaction not yet begun has left nothing anywhere
(`FutureInv`).

The refinement maps each step of the session, a backend or the daemon to a step of
`AtomicCommit` or to none. A branch that is committed belongs to a logged
transaction, and by `LogInv` the others are then prepared or committed already; one
that is rolled back belongs to a transaction that is not logged, and by `LogInv` no
branch of it is committed. A crash rolls back all active branches of a transaction
at once, which is the step `AbortBranches` for a set of branches.

`SafeConfig` is exactly what the protocol needs; section 3 shows what each condition
keeps out: `TransRollback` (without it nothing may be logged, see above),
no break of the deciding connection (`decider_lost`), no error of the decider when
another transaction may follow (its xid would be used again, see above), and, under
`spider_force_commit = 1`, no XAER_NOTA from the decider, which the one-connection path
answers with success.

### ConnPool

`ConnPoolProofs`, for every number of connections, backends and records, every
finite set of sessions (`SessionAssumption`; waiting sessions are counted), every
`spider_max_connections` and every set of faults:

* `PoolInvariance`: `Spec => []PoolInv`, and from it `TypeCorrect`, `Exclusion`
  (`NoSharing`), `ExactCount` (`CountIsExact`), `Limit` (`RecordLimit`) and
  `ExactWaiters` (`WaitersCounted`).

The argument. Who has a connection, what is pooled and what the recycler has popped
are disjoint, and a queue of the pool holds a connection once (`PlaceInv`): this is
what makes taking the last one and returning one safe. The counters are exact
because a connection carries a record only when the record is in the hash
(`RecordInv`), and because the record a session is about to insert, whose count is
already 1, is known to nobody else until then. `LocalInv` relates the place of a
session in `spider_create_conn` to what it has in its local variables. The counts
themselves are cardinalities, so the steps that change one go through lemmas on
adding and removing an element.

### BgSearch

`BgSearchProofs`, for every set of sessions and handlers, every bound on the jobs,
and whether or not a connection may be freed before the `reset()` of its last owner
(`PoolAssumption` says only that the pool is not a thread):

* `BgInvariance`: `Spec => []BgInv`, and from it `TypeCorrect`, `ConnectionExclusion`
  (`OneUser`), `NoDanglingTarget` (`TargetAlive`), `NextResult` (`NextResultThere`),
  `NoRowLost` (`RowsDelivered`: for scans not in quick mode 3), `NoLastErrorLost` (`LastErrorReported`) and
  `ExecutionOrder` (the action property `ExecutedInOrder`).

The argument. The handshake has no predicate of its own: that a thread which is
woken finds a job, and that an owner which sleeps is woken, follows only from where
both are. `ConnInv` ties the flags of the connection to the place of its thread,
`OwnerWaits` says what the thread may rely on (whoever handed the statement over
still waits), `WaitOk` what the owner may (together `HandshakeInv`). `OwnerInv` is
about the owners that succeed each other, `WorkInv` about the handler for which
`bgs_working` is set and which is therefore not reset. On these rest the order of
the statements (`OrderInv`) and, with what a session in the middle of a call knows
of its handler (`PlaceInv`), the results: how many are ahead, what is read and what
is finished (`ResultInv`), and which errors are still to be reported (`FailInv`).

### AutoInc

`AutoIncProofs` and `AutoIncRefinement`, for every number of nodes, sessions and
partitions, every step, every assignment of different mode values below the step,
every width of the column (`WidthAssumption`: far enough below the width of the
arithmetic), every bound on statements and rows. `PowerAssumption` states what the
prover does not know of powers of two, by which intervals grow.

* In every configuration: `ClassInvariance`, and from it `TypeCorrect` and
  `OwnResidueClass` (`OwnClass`). So values of different nodes never meet, whatever
  fails.
* Under `OneReservation` and `CounterKept`: `ReserveInvariance`, and from it
  `CursorInInterval` (`CursorNotBelow`) and `ReservedIsOwn` (`Exclusive`).
* Under `SafeConfig`, which adds that the partitions answer (the fault read is not in
  `Faults`): `AllocInvariance`, and from it `NoValueTwice` (`Unique`) and
  `Refinement` (`ImplementsUniqueIds`).

`OneReservation` says that no statement needs a second interval: an INSERT SELECT has
one row, and explicit values occur only in statements of at most two rows. It is not
an artefact of the proof: with a second reservation, `reopened` refutes `Unique`.
`CounterKept` says that no node loses its counter, by FLUSH TABLES or a crash, while
rows of its transactions are open or prepared and stay; section 3 tells what happens
otherwise. Refused rows, batches that fail, INSERT IGNORE, transactions of several
statements, commits that leave prepared rows, and all other crashes and flushes are
allowed.

The argument. The first layer rests on lemmas on `RoundUp` and `Above`: without
overflow they give the first value of the class that is not below, or is above,
their argument. The cursor is of the class from then on, also when a refused row
takes it back, because `prev_insert_id` is (`ClassInv`); and a statement cannot
reserve more often than it has rows (`CountInv`), which bounds the intervals.

The second layer is about the counter that a release lowers. A release lowers it
only when the statement's interval ends at the counter, and to a value of the
interval; the intervals and values of the other sessions of the node do not overlap
with it (`HandInv`) and lie below the counter, so they lie below the lowered one.
This needs that the cursor is in the interval, above all values given to rows of the
batch, and that an interval suffices for the rows that are still to come
(`CursorInv`); the latter is where `OneReservation` enters.

The third layer adds the rows of the table. The counter is in memory, counts as not
initialised after a failure, and is still used by the statements that are running;
`Loaded` says when it is in use, and it is then above all generated values of the
node's class in the table (`StoredBelow`), which are in no interval and in no hand
(`StoredApart`). The values of open and prepared rows are in the hand of their session
(`InHand`), so they are below the counter too (`HandInv`), and a commit, late as it may
be, only moves them from the hand into the table (`Moves`); a node that loses its
counter has none of them left, which is where `CounterKept` enters. The simulation
maps `UseReserved` and `Reserve` to `Take`, an update or a truncation to `Remove` and
everything else, a commit too, to `Settle`, possibly of nothing.

The invariants of the three layers were checked with TLC on one node with two
sessions, one of them with longer transactions, refused rows, failed batches and INSERT
IGNORE: with an explicit value (1,129,988 states) and without explicit values and with
statements of three rows (369,800 states); the first layer also with two
reservations, partitions that do not answer and the fault drop (1,337,540 states).

### PlainTrx

`PlainTrxProofs`, for every number of sessions, backends, connections and
transactions, every isolation level and time zone, and every set of faults. In every
configuration: `PlainTypeCorrect`. Under `RefusedIsRolledBack`: `PlainInvariance`
(`PlainInv` is inductive), and from it `PlainDurable`, `PlainStaysRolledBack`,
`PlainCleanPool` and the action property `PlainRunsAsAsked`.

`RefusedIsRolledBack` says that a backend refuses a setting (the fault set_err) only to
sessions with `spider_trans_rollback`, whose transaction is then rolled back and whose
connection is closed. It is not an artefact of the proof: without it, TLC finds a
violation of each of the four properties with three transactions; section 3 has the
one of `Durable`. Connections that break anywhere in the string of settings, in the
statement, in COMMIT or ROLLBACK, statements that are refused, and KILL need no
hypothesis.

The argument. What must be known of a connection depends on who has it, so the
invariant is stated on a link: a connection and its backend's session (`ConnInv`).
Wherever it is, work is part of an open transaction and nothing is queued that would
commit it (`LinkInv`). In the pool nothing is queued, and what is remembered is what is
set (`Settled`); TSpider sends only what differs from what it remembers, so this is
what makes the next user's settings right. In a session's hand it may be in the middle
of a failure; otherwise it has joined the transaction and a statement on it would be
part of it (`Begun`), or it could not be connected to and everything is still queued
(`Waiting`), or it has not joined and no transaction is open (`HeldInv`). Where a loop
stands is in `SessionInv`; that nobody else has the transaction or a second connection
to the same backend is `OneEach`. `WrittenInv` is the heart of `Durable`: for every
statement that was executed for a transaction, it is committed, or the client will be
told of an error, or there is a connection on which `spider_commit` will send COMMIT
and will notice if that fails (`WillCommit`). `UncommittedInv` is its counterpart for a
rollback: before the loop of COMMIT nothing of a transaction is committed.

The proof goes through the remote calls first, as relations between links: every stage
of the string of settings (`Stages`), a statement, START TRANSACTION, COMMIT and ROLLBACK, each
with every way it can fail; then through the actions. `PlainInv` was checked with TLC
on the instance of the run `plain` (1,320,962 states).

### JoinTree

`JoinTreeProofs`, for every finite set of connections, all priorities, any number of
transactions and with `spider_tree_delete` called for any connection or only as
`spider_free_prepared_trx` calls it: `JoinInvariance` (`JoinInv` is inductive), and from
it `WalkIsComplete`, `DeciderIsLast` and `NoDanglingPointer`. There is no hypothesis but
the assumptions on the constants; `ConnAssumption` (a session has finitely many
connections) is what makes the loops end.

The argument. The properties say what loops find; the invariant says it without loops.
`TreeInv`: there are functions pos, lo and hi such that a connection is at the position
pos in `joined`, and what is below it, itself included, is at the positions lo to hi
(`SpanInv`). The small child has the part of this interval before pos, the big child
the part behind it, and without a child that part is empty (`SmallInv`, `BigInv`); the
parents' pointers are the inverse of the children's, and a connection without parents
spans everything (`ParentInv`). `RoomInv` is the strengthening that an insertion needs:
of two neighbours in the order either the smaller one has no big child or the bigger
one no small child, and never both, so that there is exactly one free place between
them; it is this place that the loop of `spider_tree_insert` finds. `TopInv` says that
the tree hangs on `join_trx_top`, except during `spider_free_prepared_trx`, where top may
point to freed memory and what holds is that the loop stands at the first connection
of the order. Nothing is said of connections outside of the tree: their pointers are
whatever an earlier transaction left.

The loops. The library's induction takes an operator as a parameter, so the module
derives what it needs from the least element of a set of numbers: induction over a
set (`Induct`), the turns of a loop (`StepsAre`), and that a loop ends where its step
stands still if something gets smaller with every turn (`LoopEnds`). From the intervals
follows what each loop finds: the first and the last connection of a subtree
(`FirstIs`, `LastIs`), the one behind it (`AscendIs`, `NextIs`), the whole walk (`WalkIs`),
the decider (`LastIsDecider`), and the place of a new connection (`ParentIs`). A
deletion is a relation between the pointers of c's neighbours (`Around`, `Unlinked`), the
same for the three branches of the code; `DeleteShape` then has new intervals for it,
in which the last connection below the small child inherits the big child's.
`JoinInv` was checked with TLC on the instance of the run `tree`, with the functions
computed from `joined` and the pointers (679,343 states).

### Only model-checked

* Liveness (`PreparedIsSettled`, `CommitIsCompleted`, `EveryCommitIsAnswered`,
  `RequestsAnswered`, `IdleIsSettled`, `WaitsEnd`): a proof under fairness is out of the
  prover's reach.
* What the runs outside of `SafeConfig` show (`keep_going`), and the runs that find a
  disagreement.

## 5. What is not modelled

* Of the auto-increment: an UPDATE of the column inside a longer transaction (`Update`
  is one of its own), a maximum read in an old snapshot of the reading transaction, FLUSH
  TABLES WITH NO BLOCK (`sql_base.cc:365`), SET INSERT_ID, the lock kept over a statement for a
  statement-based binary log, REPLACE and ON DUPLICATE KEY UPDATE, a column that is not
  the first of its key.
* Of the background threads: the jobs of `spider_direct_sql` (`bg_direct_sql`, the job
  stack), `bg_exec_sql` and `bg_simple_action`; locking reads over several links,
  which take `bg_conn_chain_mutex` in a chain; results left on the wire
  (`quick_target`), which is where quick modes 1 and 2 differ from 0; a thread that fails to start, whose signal may come before its
  creator waits (`spd_conn.cc:2063`); spurious wakeups of the condition variables.
* Of the transactions without XA: atomicity over several backends, which nobody
  promises (a statement over several shards may also fail half-way in autocommit mode);
  consistent snapshots, LOCK TABLES, `spider_semi_trx_isolation` (never queued),
  `sql_log_off` (handled as the time zone is), the caches of character set and default
  database, the ping at the start of a transaction (`spider_db_ping` does nothing).
* External XA and the log tables `mysql.spider_xa*`: switched off in TenDB Cluster
  (`spider_ignore_xa_log`).
* Of the pool: `spider_conn_recycle_mode` 0 and 2, the change of a key's version
  when a server is altered, the table of connections in information_schema, and
  memory corruption by the unlocked walk over the hash (`spd_conn.cc:310`), which
  has no next state.
* Statistics, monitoring, SQL generation, shares, parameters, UDFs: no promise to
  the client depends on their interleavings, or they are data conversion.
* Savepoints and read-only optimisations of the server: inputs of the models are
  the calls that arrive at the storage engine.

## 6. Plan

In this order; what is done is marked.

1. `XaTrx`, `AtomicCommit`: the transaction, its refinement, its liveness. *Done.*
2. `XaTrxProofs`, `XaTrxRefinement`: type correctness, the invariant, atomicity,
   answers, write-ahead, the refinement. *Done.* Next: `SuccessMeansCommitted` under
   `spider_force_commit = 0` without `SafeConfig`.
3. `JoinTree`, `JoinTreeProofs`: *done*, all properties proved. Next: compose it with
   `XaTrx`, whose order of connections it justifies.
4. `ConnPool`, `ConnPoolProofs`: *done*, all safety properties proved.
5. `BgSearch`, `BgSearchProofs`: *done*, all safety properties that hold proved.
6. `AutoInc`, `UniqueIds`, `AutoIncProofs`, `AutoIncRefinement`: *done*, all safety
   properties proved.
7. `PlainTrx`, `PlainTrxProofs`: the queue of settings and transactions without XA. *Done*,
   all properties proved. Next: consistent snapshots as further actions.
