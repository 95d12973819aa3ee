------------------------------ MODULE BgSearch ------------------------------
(***************************************************************************)
(* Parallel execution (spider_bgs_mode, spider_bgs_dml): a connection has  *)
(* a background thread, spider_bg_conn_action, that executes the           *)
(* statements a session hands over with spider_bg_conn_search, while the   *)
(* session goes on with other partitions, reads the rows it already has,   *)
(* or ends its statement (storage/spider/spd_conn.cc).                     *)
(*                                                                         *)
(* One connection, its thread, and the sessions that own it one after      *)
(* another.  Parallel statements run with autocommit (check_pre_call), so  *)
(* a session gives its connection back when a statement commits and resets *)
(* its handlers only after that: the next owner may find a search of its   *)
(* predecessor still running.  spider_mta_conn_mutex_lock locks nothing    *)
(* (spd_include.h:262), so the handshake below is all that keeps the two   *)
(* threads apart.                                                          *)
(*                                                                         *)
(* The thread holds bg_conn_mutex whenever it is not waiting on            *)
(* bg_conn_cond.  What a caller does with this mutex held is one step, its *)
(* signal and the begin of its own wait included: the thread cannot see    *)
(* anything of it before the mutex is free, and cannot answer before the   *)
(* caller waits, because the caller holds bg_conn_sync_mutex by then.      *)
(***************************************************************************)
EXTENDS Integers

CONSTANTS
  Session,     \* threads that serve clients
  Handler,     \* ha_spider objects that use the connection
  SessionOf,   \* the session a handler belongs to
  Sorted,      \* handlers whose scans may run in quick mode 3
  Recycler,    \* the thread that closes idle connections
  FreeEarly,   \* may a connection be freed before its last owner's reset()?
  MaxJob       \* bound: statements handed over

ASSUME SessionOfAssumption == SessionOf \in [Handler -> Session]
ASSUME SortedAssumption    == Sorted \subseteq Handler
ASSUME RecyclerAssumption  == Recycler \notin Session
ASSUME MaxJobAssumption    == MaxJob \in Nat
ASSUME FreeEarlyAssumption == FreeEarly \in BOOLEAN

Thread == Session \cup {Recycler}
Job    == 1..MaxJob
Pool      == "pool"
NoHandler == "no handler"
Garbage   == 0

ASSUME PoolAssumption == Pool \notin Thread

VARIABLES
  owner,     \* the thread that has the connection, or Pool
  conn,      \* the bg_ fields of the SPIDER_CONN
  bg,        \* where the background thread is
  exec_sql,  \* the statement it executes: exec_sql, exec_insert_sql
  pc,        \* where each thread is
  cur,       \* the handler it works for
  call,      \* what it hands over
  is_error,  \* the session's statement has failed
  hd,        \* result_list and statement of each handler
  jobs,      \* number of statements handed over
  executed,  \* the last statement executed
  failed     \* statements that failed, of those of the handler's write

vars == <<owner, conn, bg, exec_sql, pc, cur, call, is_error, hd, jobs,
          executed, failed>>

PC == {"run", "create", "starting", "post", "sleep", "woken", "sync",
       "await", "advance", "break_query", "query", "break_collect", "collect",
       "ending", "freeing", "reset", "break_reset", "free"}

Call == {"none", "read", "pre_next", "next", "insert", "update", "kill"}

ConnRecord ==
  [bg_init : BOOLEAN, bg_search : BOOLEAN, bg_caller_wait : BOOLEAN,
   bg_caller_sync_wait : BOOLEAN, bg_kill : BOOLEAN, bg_conn_working : BOOLEAN,
   bg_conn_finish_exec : BOOLEAN, bg_target : Handler \cup {NoHandler}]

\* unread: rows of the result being read are left; ahead: number of results
\* after it.  quick3: quick_mode is 3, select_column_mode is set.
HandlerRecord ==
  [sql_type : {"none", "select", "insert", "update"}, bgs_phase : 0..3,
   quick3 : BOOLEAN,
   use_pre_call : BOOLEAN, bgs_working : BOOLEAN,
   bgs_error : {"none", "eof", "error"}, finish_flg : BOOLEAN,
   ahead : 0..1, unread : BOOLEAN, ended : BOOLEAN, sql : {Garbage} \cup Job]

TypeOK ==
  /\ owner \in Thread \cup {Pool}
  /\ conn \in ConnRecord
  /\ bg \in {"none", "starting", "idle", "signalled", "woken", "dispatch",
             "exec", "executed", "done", "finished", "parking"}
  /\ exec_sql \in {Garbage} \cup Job
  /\ pc \in [Thread -> PC]
  /\ cur \in [Thread -> Handler \cup {NoHandler}]
  /\ call \in [Thread -> Call]
  /\ is_error \in [Session -> BOOLEAN]
  /\ hd \in [Handler -> HandlerRecord]
  /\ jobs \in 0..MaxJob
  /\ executed \in {Garbage} \cup Job
  /\ failed \in [Handler -> SUBSET Job]

\* spider_create_conn: a new connection has no thread.
NewConn ==
  [bg_init |-> FALSE, bg_search |-> FALSE, bg_caller_wait |-> FALSE,
   bg_caller_sync_wait |-> FALSE, bg_kill |-> FALSE, bg_conn_working |-> FALSE,
   bg_conn_finish_exec |-> FALSE, bg_target |-> NoHandler]

\* ha_spider::ha_spider, and the handler after reset() with error e.
ResetHandler(e) ==
  [sql_type |-> "none", bgs_phase |-> 0, quick3 |-> FALSE, use_pre_call |-> FALSE,
   bgs_working |-> FALSE, bgs_error |-> e, finish_flg |-> FALSE,
   ahead |-> 0, unread |-> FALSE, ended |-> FALSE, sql |-> Garbage]

Init ==
  /\ owner = Pool
  /\ conn = NewConn
  /\ bg = "none"
  /\ exec_sql = Garbage
  /\ pc = [t \in Thread |-> "run"]
  /\ cur = [t \in Thread |-> NoHandler]
  /\ call = [t \in Thread |-> "none"]
  /\ is_error = [s \in Session |-> FALSE]
  /\ hd = [h \in Handler |-> ResetHandler("none")]
  /\ jobs = 0
  /\ executed = 0
  /\ failed = [h \in Handler |-> {}]

-----------------------------------------------------------------------------
Goto(t, p) == pc' = [pc EXCEPT ![t] = p]

\* bg_conn_mutex can be taken: the thread is in its wait, or has just been
\* signalled and has not taken the mutex again.
MutexFree == bg \in {"idle", "signalled"}

Target == conn.bg_target

\* A thread asleep on bg_conn_sync_cond is woken up, if there is one.
SignalCaller ==
  pc' = [t \in Thread |-> IF pc[t] = "sleep" THEN "woken" ELSE pc[t]]

Idle(s) == pc[s] = "run" /\ owner = s /\ ~is_error[s]

Writing(h) == hd[h].sql_type \in {"insert", "update"}

Own(s) == {h \in Handler : SessionOf[h] = s}

\* The operation of a session ends, with an error or without.
Return(s, error) ==
  /\ Goto(s, "run")
  /\ is_error' = [is_error EXCEPT ![s] = @ \/ error]

-----------------------------------------------------------------------------
(***************************************************************************)
(* Handing a statement over: spider_bg_conn_search.                        *)
(***************************************************************************)

\* spider_set_conn_bg_param(_for_dml): phase 1, and a thread for the connection.
Begin(s, h, what) ==
  /\ cur' = [cur EXCEPT ![s] = h]
  /\ call' = [call EXCEPT ![s] = what]
  /\ Goto(s, IF conn.bg_init THEN "post" ELSE "create")

\* spider_set_result_list_param: quick_mode is 3 if the statement sorts
\* (spider_adaptive_quick_mode) or if spider_quick_mode says so.
QuickMode3(h) == {q \in BOOLEAN : q => h \in Sorted}

\* pre_index_read_map, pre_rnd_next, ...: the first search of a scan.
StartRead(s, h) ==
  /\ Idle(s) /\ h \in Own(s) /\ jobs < MaxJob
  /\ hd[h].sql_type = "none"
  /\ \A g \in Own(s) : ~Writing(g)
  /\ \E quick3 \in QuickMode3(h) :
       hd' = [hd EXCEPT ![h].sql_type = "select", ![h].bgs_phase = 1,
                        ![h].use_pre_call = TRUE, ![h].quick3 = quick3]
  /\ Begin(s, h, "read")
  /\ UNCHANGED <<owner, conn, bg, exec_sql, is_error, jobs, executed, failed>>

\* A batch of an INSERT is full (spider_db_bulk_insert), or an UPDATE or
\* DELETE is sent.  The buffer of the statement is written anew.
StartWrite(s, h, type) ==
  /\ Idle(s) /\ h \in Own(s) /\ jobs < MaxJob
  /\ \/ hd[h].sql_type = "none"
     \/ hd[h].sql_type = "insert" /\ type = "insert"
  /\ \A g \in Own(s) \ {h} : hd[g].sql_type = "none"
  /\ hd' = [hd EXCEPT ![h].sql_type = type, ![h].bgs_phase = 1,
                      ![h].sql = Garbage]
  /\ Begin(s, h, type)
  /\ UNCHANGED <<owner, conn, bg, exec_sql, is_error, jobs, executed, failed>>

\* spider_create_conn_thread.
CreateThread(s) ==
  /\ pc[s] = "create"
  /\ bg' = "starting"
  /\ Goto(s, "starting")
  /\ UNCHANGED <<owner, conn, exec_sql, cur, call, is_error, hd, jobs, executed,
                 failed>>

HandOver(s) ==
  LET h == cur[s] IN
  /\ jobs' = jobs + 1
  /\ hd' = [hd EXCEPT ![h].bgs_working = TRUE,
                      ![h].sql = jobs + 1,
                      ![h].bgs_phase = CASE call[s] = "pre_next" -> 2
                                         [] call[s] = "next" -> 3
                                         [] OTHER -> @]
  /\ conn' = [conn EXCEPT
       !.bg_search = TRUE,
       !.bg_target = h,
       !.bg_caller_sync_wait = TRUE,
       !.bg_caller_wait = @ \/ call[s] \in {"insert", "update"},
       !.bg_conn_finish_exec = @ /\ call[s] \notin {"read", "pre_next"}]
  /\ bg' = "signalled"
  /\ Goto(s, "sleep")
  /\ UNCHANGED is_error

\* With bg_conn_mutex: a scan that is complete, or has failed, is not
\* continued; everything else is handed over.
Post(s) ==
  /\ pc[s] = "post" /\ MutexFree
  /\ LET h == cur[s] IN
     \/ /\ call[s] = "pre_next"
        /\ hd[h].finish_flg \/ hd[h].bgs_error # "none"
        /\ hd' = [hd EXCEPT ![h].use_pre_call = @ /\ hd[h].bgs_error = "error"]
        /\ Return(s, hd[h].bgs_error = "error")
        /\ UNCHANGED <<conn, bg, jobs>>
     \/ /\ call[s] = "pre_next" => ~hd[h].finish_flg /\ hd[h].bgs_error = "none"
        /\ HandOver(s)
  /\ UNCHANGED <<owner, exec_sql, cur, call, executed, failed>>

\* The caller goes on when the thread has answered.
Resume(s) ==
  /\ pc[s] = "woken" /\ call[s] # "kill"
  /\ conn' = [conn EXCEPT
       !.bg_caller_sync_wait = FALSE,
       !.bg_caller_wait = @ /\ call[s] \notin {"insert", "update"}]
  /\ hd' = [hd EXCEPT ![cur[s]].use_pre_call = @ /\ call[s] # "pre_next"]
  /\ \/ Return(s, call[s] \in {"insert", "update"}
                    /\ hd[cur[s]].bgs_error = "error")
     \/ call[s] = "read" /\ Goto(s, "sync") /\ UNCHANGED is_error
  /\ UNCHANGED <<owner, bg, exec_sql, cur, call, jobs, executed, failed>>

\* ha_spider::pre_sync_parallel, left out when use_parallel is not set.
SyncParallel(s) ==
  /\ pc[s] = "sync" /\ conn.bg_conn_finish_exec
  /\ Return(s, FALSE)
  /\ UNCHANGED <<owner, conn, bg, exec_sql, cur, call, hd, jobs, executed, failed>>

-----------------------------------------------------------------------------
(***************************************************************************)
(* Reading the results.                                                    *)
(***************************************************************************)

\* Bound: a scan goes on while another statement may be handed over, or if it
\* needs none.
WithinBound(h) ==
  \/ jobs < MaxJob
  \/ ~hd[h].bgs_working /\ (hd[h].finish_flg \/ hd[h].bgs_error # "none")

\* spider_bg_all_conn_pre_next, in index_read_map, rnd_next, ...: before the
\* first row is read, the second search is handed over.
PreNext(s, h) ==
  /\ Idle(s) /\ h \in Own(s) /\ WithinBound(h)
  /\ hd[h].use_pre_call
  /\ \/ /\ hd[h].bgs_working \/ ~hd[h].finish_flg \/ conn.bg_conn_working
        /\ Begin(s, h, "pre_next")
        /\ UNCHANGED <<hd, is_error>>
     \/ /\ ~hd[h].bgs_working /\ hd[h].finish_flg /\ ~conn.bg_conn_working
        /\ hd' = [hd EXCEPT ![h].use_pre_call = @ /\ hd[h].bgs_error = "error"]
        /\ Return(s, hd[h].bgs_error = "error")
        /\ UNCHANGED <<cur, call>>
  /\ UNCHANGED <<owner, conn, bg, exec_sql, jobs, executed, failed>>

Scanning(s, h) ==
  /\ Idle(s) /\ h \in Own(s)
  /\ hd[h].sql_type = "select" /\ ~hd[h].use_pre_call /\ ~hd[h].ended

\* Mutant: the test of quick_mode is left out.
Fetch_AnyMode(s, h) ==
  /\ Scanning(s, h) /\ hd[h].unread
  /\ IF hd[h].bgs_error # "none"
     THEN /\ hd' = [hd EXCEPT ![h].ended = hd[h].bgs_error = "eof"]
          /\ Return(s, hd[h].bgs_error = "error")
     ELSE /\ hd' = [hd EXCEPT ![h].unread = FALSE]
          /\ UNCHANGED <<pc, is_error>>
  /\ UNCHANGED <<owner, conn, bg, exec_sql, cur, call, jobs, executed, failed>>

\* spider_db_fetch_minimum_columns, in quick mode 3: what the thread has found
\* out meanwhile about the next search, the end of file too, is returned
\* before the rows that are left.
EndsEarly(h) == hd[h].quick3 /\ hd[h].bgs_error # "none"

\* spider_db_fetch: the rows of the current result.
Fetch(s, h) ==
  /\ Scanning(s, h) /\ hd[h].unread
  /\ IF EndsEarly(h)
     THEN /\ hd' = [hd EXCEPT ![h].ended = hd[h].bgs_error = "eof"]
          /\ Return(s, hd[h].bgs_error = "error")
     ELSE /\ hd' = [hd EXCEPT ![h].unread = FALSE]
          /\ UNCHANGED <<pc, is_error>>
  /\ UNCHANGED <<owner, conn, bg, exec_sql, cur, call, jobs, executed, failed>>

\* Mutant: a search that is still running is not waited for.
SeekNext_NoWait(s, h) ==
  /\ Scanning(s, h) /\ ~hd[h].unread /\ WithinBound(h)
  /\ IF hd[h].finish_flg /\ hd[h].ahead = 0
     THEN /\ hd' = [hd EXCEPT ![h].ended = TRUE]
          /\ UNCHANGED <<pc, cur, call>>
     ELSE /\ cur' = [cur EXCEPT ![s] = h]
          /\ call' = [call EXCEPT ![s] = "next"]
          /\ Goto(s, "advance")
          /\ UNCHANGED hd
  /\ UNCHANGED <<owner, conn, bg, exec_sql, is_error, jobs, executed, failed>>

\* The rows of the current result are used up: spider_db_seek_next.
SeekNext(s, h) ==
  /\ Scanning(s, h) /\ ~hd[h].unread /\ WithinBound(h)
  /\ IF hd[h].finish_flg /\ hd[h].ahead = 0
     THEN /\ hd' = [hd EXCEPT ![h].ended = TRUE]
          /\ UNCHANGED <<pc, cur, call>>
     ELSE /\ cur' = [cur EXCEPT ![s] = h]
          /\ call' = [call EXCEPT ![s] = "next"]
          /\ Goto(s, IF hd[h].bgs_working THEN "await" ELSE "advance")
          /\ UNCHANGED hd
  /\ UNCHANGED <<owner, conn, bg, exec_sql, is_error, jobs, executed, failed>>

\* bg_conn_mutex is locked and unlocked: the search is over.
Await(s) ==
  /\ pc[s] = "await" /\ MutexFree
  /\ Goto(s, "advance")
  /\ UNCHANGED <<owner, conn, bg, exec_sql, cur, call, is_error, hd, jobs,
                 executed, failed>>

\* The current result becomes the next one, and the one after it is ordered.
Advance(s) ==
  /\ pc[s] = "advance"
  /\ LET h == cur[s] IN
     \/ /\ hd[h].bgs_error = "error"
        /\ Return(s, TRUE)
        /\ UNCHANGED hd
     \/ /\ hd[h].bgs_error = "eof"
        /\ hd' = [hd EXCEPT ![h].ahead = 0, ![h].ended = TRUE]
        /\ Return(s, FALSE)
     \/ /\ hd[h].bgs_error = "none"
        /\ hd' = [hd EXCEPT ![h].ahead = 0, ![h].unread = TRUE]
        /\ Goto(s, IF hd[h].finish_flg THEN "run" ELSE "post")
        /\ UNCHANGED is_error
  /\ UNCHANGED <<owner, conn, bg, exec_sql, cur, call, jobs, executed, failed>>

-----------------------------------------------------------------------------
(***************************************************************************)
(* Waiting for the thread: spider_bg_conn_break locks and unlocks          *)
(* bg_conn_mutex.  The thread itself, which also runs                      *)
(* spider_db_before_query, never waits for itself (bg_thd != current_thd). *)
(***************************************************************************)
Busy(h) == conn.bg_init /\ hd[h].bgs_working /\ Target = h

AfterBreak == [break_query |-> "query", break_collect |-> "collect",
               break_reset |-> "free"]

Break(s) ==
  /\ pc[s] \in DOMAIN AfterBreak /\ MutexFree
  /\ Goto(s, AfterBreak[pc[s]])
  /\ UNCHANGED <<owner, conn, bg, exec_sql, cur, call, is_error, hd, jobs,
                 executed, failed>>

\* Mutant: the statement is sent whatever the thread does.
BeforeQuery_NoBreak(s) ==
  /\ Idle(s)
  /\ Goto(s, "query")
  /\ UNCHANGED <<owner, conn, bg, exec_sql, cur, call, is_error, hd, jobs,
                 executed, failed>>

\* spider_db_before_query: the session itself uses the connection.
BeforeQuery(s) ==
  /\ Idle(s)
  /\ Goto(s, IF conn.bg_search /\ conn.bg_init THEN "break_query" ELSE "query")
  /\ UNCHANGED <<owner, conn, bg, exec_sql, cur, call, is_error, hd, jobs,
                 executed, failed>>

AfterQuery(s) ==
  /\ pc[s] = "query"
  /\ Goto(s, "run")
  /\ UNCHANGED <<owner, conn, bg, exec_sql, cur, call, is_error, hd, jobs,
                 executed, failed>>

\* Mutant: the answer is read while the statement is executed.
GetBgResult_NoBreak(s, h) ==
  /\ Idle(s) /\ h \in Own(s)
  /\ Writing(h)
  /\ cur' = [cur EXCEPT ![s] = h]
  /\ Goto(s, "collect")
  /\ UNCHANGED <<owner, conn, bg, exec_sql, call, is_error, hd, jobs, executed,
                 failed>>

\* ha_spider::get_bg_result, at the end of an INSERT, UPDATE or DELETE.
GetBgResult(s, h) ==
  /\ Idle(s) /\ h \in Own(s)
  /\ Writing(h)
  /\ cur' = [cur EXCEPT ![s] = h]
  /\ Goto(s, IF conn.bg_conn_working /\ Busy(h) THEN "break_collect"
                                                ELSE "collect")
  /\ UNCHANGED <<owner, conn, bg, exec_sql, call, is_error, hd, jobs, executed,
                 failed>>

\* An UPDATE or DELETE also clears its buffer (reset_sql_sql).
Collect(s) ==
  /\ pc[s] = "collect"
  /\ LET h == cur[s] IN
     /\ is_error' = [is_error EXCEPT ![s] = @ \/ hd[h].bgs_error = "error"]
     /\ hd' = [hd EXCEPT ![h].bgs_error = IF @ = "eof" THEN "none" ELSE @,
                         ![h].sql = IF hd[h].sql_type = "update" THEN Garbage
                                                                 ELSE @]
  /\ Goto(s, "ending")
  /\ UNCHANGED <<owner, conn, bg, exec_sql, cur, call, jobs, executed, failed>>

-----------------------------------------------------------------------------
(***************************************************************************)
(* Statements end and connections change hands.                            *)
(***************************************************************************)

\* spider_get_conn takes the connection from the pool, or creates it.
Acquire(s) ==
  /\ pc[s] = "run" /\ owner = Pool
  /\ owner' = s
  /\ UNCHANGED <<conn, bg, exec_sql, pc, cur, call, is_error, hd, jobs, executed,
                 failed>>

\* A scan may end before all rows are read; a write is collected, unless the
\* statement has failed before.
EndStatement(s) ==
  /\ pc[s] = "run" /\ owner = s
  /\ is_error[s] \/ \A h \in Own(s) : ~Writing(h)
  /\ Goto(s, "ending")
  /\ UNCHANGED <<owner, conn, bg, exec_sql, cur, call, is_error, hd, jobs,
                 executed, failed>>

\* spider_free_conn_from_trx at the commit: into the pool, or freed after an
\* error.  Nobody waits for the thread.
Release(s) ==
  /\ pc[s] = "ending"
  /\ owner' = IF is_error[s] THEN owner ELSE Pool
  /\ Goto(s, IF is_error[s] THEN "freeing" ELSE "reset")
  /\ UNCHANGED <<conn, bg, exec_sql, cur, call, is_error, hd, jobs, executed,
                 failed>>

\* spider_conn_recycle_action: a round frees the connection if it is idle.
Recycle ==
  /\ pc[Recycler] = "run"
  /\ \/ owner = Pool /\ owner' = Recycler /\ Goto(Recycler, "freeing")
     \/ owner # Pool /\ UNCHANGED <<owner, pc>>
  /\ UNCHANGED <<conn, bg, exec_sql, cur, call, is_error, hd, jobs, executed,
                 failed>>

\* A new connection takes the place of the freed one.
Freed(t) ==
  /\ conn' = NewConn
  /\ owner' = Pool
  /\ Goto(t, IF t = Recycler THEN "run" ELSE "reset")

\* spider_free_conn and spider_free_conn_thread.
FreeConn(t) ==
  /\ pc[t] = "freeing"
  /\ FreeEarly \/ \A s \in Session \ {t} :
                     pc[s] \notin {"reset", "break_reset", "free"}
  /\ \/ /\ ~conn.bg_init
        /\ Freed(t)
        /\ UNCHANGED <<bg, call>>
     \/ /\ conn.bg_init /\ MutexFree
        /\ conn' = [conn EXCEPT !.bg_kill = TRUE, !.bg_conn_working = FALSE]
        /\ call' = [call EXCEPT ![t] = "kill"]
        /\ bg' = "signalled"
        /\ Goto(t, "sleep")
        /\ UNCHANGED owner
  /\ UNCHANGED <<exec_sql, cur, is_error, hd, jobs, executed, failed>>

\* The thread is gone: pthread_join.
Joined(t) ==
  /\ pc[t] = "woken" /\ call[t] = "kill" /\ bg = "none"
  /\ Freed(t)
  /\ UNCHANGED <<bg, exec_sql, cur, call, is_error, hd, jobs, executed, failed>>

\* Mutant: the results are freed under the thread.
Reset_NoBreak(s, h) ==
  /\ pc[s] = "reset" /\ h \in Own(s) /\ hd[h].sql_type # "none"
  /\ cur' = [cur EXCEPT ![s] = h]
  /\ hd' = [hd EXCEPT ![h].bgs_error = "none"]
  /\ Goto(s, "free")
  /\ UNCHANGED <<owner, conn, bg, exec_sql, call, is_error, jobs, executed, failed>>

\* ha_spider::reset: bgs_error is cleared before the thread is waited for.
Reset(s, h) ==
  /\ pc[s] = "reset" /\ h \in Own(s) /\ hd[h].sql_type # "none"
  /\ cur' = [cur EXCEPT ![s] = h]
  /\ hd' = [hd EXCEPT ![h].bgs_error = "none"]
  /\ Goto(s, IF Busy(h) THEN "break_reset" ELSE "free")
  /\ UNCHANGED <<owner, conn, bg, exec_sql, call, is_error, jobs, executed, failed>>

\* spider_db_free_result.
FreeResult(s) ==
  /\ pc[s] = "free"
  /\ hd' = [hd EXCEPT ![cur[s]] = ResetHandler(@.bgs_error)]
  /\ failed' = [failed EXCEPT ![cur[s]] = {}]
  /\ Goto(s, "reset")
  /\ UNCHANGED <<owner, conn, bg, exec_sql, cur, call, is_error, jobs, executed>>

EndReset(s) ==
  /\ pc[s] = "reset"
  /\ \A h \in Own(s) : hd[h].sql_type = "none"
  /\ Goto(s, "run")
  /\ cur' = [cur EXCEPT ![s] = NoHandler]
  /\ call' = [call EXCEPT ![s] = "none"]
  /\ is_error' = [is_error EXCEPT ![s] = FALSE]
  /\ UNCHANGED <<owner, conn, bg, exec_sql, hd, jobs, executed, failed>>

-----------------------------------------------------------------------------
(***************************************************************************)
(* The background thread: spider_bg_conn_action.                           *)
(***************************************************************************)
BgStart ==
  /\ bg = "starting"
  /\ conn' = [conn EXCEPT !.bg_init = TRUE]
  /\ pc' = [t \in Thread |-> IF pc[t] = "starting" THEN "post" ELSE pc[t]]
  /\ bg' = "idle"
  /\ UNCHANGED <<owner, exec_sql, cur, call, is_error, hd, jobs, executed, failed>>

\* pthread_cond_wait on bg_conn_cond returns, with bg_conn_mutex.
BgWake ==
  /\ bg = "signalled"
  /\ conn' = [conn EXCEPT !.bg_conn_working = TRUE]
  /\ bg' = "woken"
  /\ UNCHANGED <<owner, exec_sql, pc, cur, call, is_error, hd, jobs, executed,
                 failed>>

\* An INSERT is copied before the caller is answered, because the caller goes
\* on to fill the buffer with the next batch.
BgRespond ==
  /\ bg = "woken"
  /\ bg' = "dispatch"
  /\ \/ /\ conn.bg_caller_sync_wait
        /\ IF hd[Target].sql_type = "insert"
           THEN /\ hd' = [hd EXCEPT ![Target].bgs_error = "none"]
                /\ exec_sql' = hd[Target].sql
           ELSE UNCHANGED <<hd, exec_sql>>
        /\ SignalCaller
     \/ /\ ~conn.bg_caller_sync_wait
        /\ UNCHANGED <<hd, exec_sql, pc>>
  /\ UNCHANGED <<owner, conn, cur, call, is_error, jobs, executed, failed>>

BgKill ==
  /\ bg = "dispatch" /\ conn.bg_kill
  /\ SignalCaller
  /\ bg' = "none"
  /\ UNCHANGED <<owner, conn, exec_sql, cur, call, is_error, hd, jobs, executed,
                 failed>>

\* Mutant: the buffer of an INSERT is read when it is executed.
BgBegin_NotCopied ==
  /\ bg = "dispatch" /\ ~conn.bg_kill /\ conn.bg_search
  /\ hd' = [hd EXCEPT ![Target].bgs_error = "none"]
  /\ exec_sql' = hd[Target].sql
  /\ bg' = "exec"
  /\ UNCHANGED <<owner, conn, pc, cur, call, is_error, jobs, executed, failed>>

BgBegin ==
  /\ bg = "dispatch" /\ ~conn.bg_kill /\ conn.bg_search
  /\ hd' = [hd EXCEPT ![Target].bgs_error = "none"]
  /\ exec_sql' = IF hd[Target].sql_type = "insert" THEN exec_sql
                                                   ELSE hd[Target].sql
  /\ bg' = "exec"
  /\ UNCHANGED <<owner, conn, pc, cur, call, is_error, jobs, executed, failed>>

\* Mutant: the first result is appended and does not become the current one.
Store_Appends(r, outcome) ==
  [r EXCEPT
     !.bgs_error = IF outcome = "eof" THEN "eof" ELSE "none",
     !.finish_flg = @ \/ outcome # "more",
     !.ahead = @ + 1]

\* spider_db_store_result: another result, the last one, or none any more.
\* The first result of a scan becomes the current one.  A write has no result.
Store(r, outcome) ==
  LET first == r.bgs_phase = 1 IN
  [r EXCEPT
     !.bgs_error = IF outcome = "eof" THEN "eof" ELSE "none",
     !.finish_flg = @ \/ outcome # "more",
     !.ahead = IF first THEN @ ELSE 1,
     !.unread = @ \/ (first /\ outcome # "eof")]

\* The connection is used.
BgExec ==
  /\ bg = "exec"
  /\ \/ /\ hd' = [hd EXCEPT ![Target].bgs_error = "error"]
        /\ failed' = IF Writing(Target)
                     THEN [failed EXCEPT ![Target] = @ \cup ({exec_sql} \ {Garbage})]
                     ELSE failed
     \/ \E outcome \in {"more", "last", "eof"} :
          /\ Writing(Target) => outcome = "eof"
          /\ hd' = [hd EXCEPT ![Target] = Store(@, outcome)]
          /\ UNCHANGED failed
  /\ executed' = exec_sql
  /\ bg' = "executed"
  /\ UNCHANGED <<owner, conn, exec_sql, pc, cur, call, is_error, jobs>>

\* bg_search and bgs_working are cleared one after the other.
BgSearchOver ==
  /\ bg = "executed"
  /\ conn' = [conn EXCEPT !.bg_search = FALSE]
  /\ bg' = "done"
  /\ UNCHANGED <<owner, exec_sql, pc, cur, call, is_error, hd, jobs, executed,
                 failed>>

BgWorkOver ==
  /\ bg = "done"
  /\ hd' = [hd EXCEPT ![Target].bgs_working = FALSE]
  /\ bg' = "finished"
  /\ UNCHANGED <<owner, conn, exec_sql, pc, cur, call, is_error, jobs, executed,
                 failed>>

\* Mutant: bg_conn_finish_exec is not set.
BgFinish_Silent ==
  /\ bg = "finished"
  /\ bg' = "parking"
  /\ UNCHANGED <<owner, conn, exec_sql, pc, cur, call, is_error, hd, jobs,
                 executed, failed>>

\* bg_caller_wait: a caller still asleep would be woken up.  Then
\* bg_conn_finish_exec is announced.
BgFinish ==
  /\ bg = "finished"
  /\ IF conn.bg_caller_wait THEN SignalCaller ELSE UNCHANGED pc
  /\ conn' = [conn EXCEPT !.bg_conn_finish_exec = TRUE]
  /\ bg' = "parking"
  /\ UNCHANGED <<owner, exec_sql, cur, call, is_error, hd, jobs, executed, failed>>

BgPark ==
  /\ bg = "parking"
  /\ conn' = [conn EXCEPT !.bg_conn_working = FALSE]
  /\ bg' = "idle"
  /\ UNCHANGED <<owner, exec_sql, pc, cur, call, is_error, hd, jobs, executed,
                 failed>>

-----------------------------------------------------------------------------
\* What a session does at its own pace, or because its client asks for it.
Client(s) ==
  \/ Acquire(s) \/ EndStatement(s) \/ BeforeQuery(s)
  \/ \E h \in Handler :
       \/ StartRead(s, h) \/ PreNext(s, h) \/ Fetch(s, h) \/ SeekNext(s, h)
       \/ \E type \in {"insert", "update"} : StartWrite(s, h, type)
       \/ GetBgResult(s, h)

\* How it goes on with what it has begun.
Proceed(s) ==
  \/ CreateThread(s) \/ Post(s) \/ Resume(s) \/ SyncParallel(s)
  \/ Await(s) \/ Advance(s) \/ Break(s) \/ AfterQuery(s) \/ Collect(s)
  \/ Release(s) \/ FreeConn(s) \/ Joined(s) \/ FreeResult(s) \/ EndReset(s)
  \/ \E h \in Handler : Reset(s, h)

Background ==
  \/ BgStart \/ BgWake \/ BgRespond \/ BgKill \/ BgBegin \/ BgExec
  \/ BgSearchOver \/ BgWorkOver \/ BgFinish \/ BgPark

RecyclerFrees == FreeConn(Recycler) \/ Joined(Recycler)

Next ==
  \/ \E s \in Session : Client(s) \/ Proceed(s)
  \/ Recycle \/ RecyclerFrees
  \/ Background

Spec == Init /\ [][Next]_vars

FairSpec ==
  /\ Spec
  /\ \A s \in Session : WF_vars(Proceed(s))
  /\ WF_vars(RecyclerFrees)
  /\ WF_vars(Background)

-----------------------------------------------------------------------------
\* The connection is used by one thread at a time: while the background thread
\* executes a statement, or fetches its result, no session sends one itself,
\* not even the next owner of a connection that came back with a search running.
OneUser == bg = "exec" => \A s \in Session : pc[s] # "query"

\* The thread writes to results that exist: a handler whose statement the
\* thread has taken, and has not finished, is not reset (ha_spider::reset).
TargetAlive ==
  bg \in {"woken", "dispatch", "exec", "executed", "done"} /\ conn.bg_search
    => hd[Target].sql_type # "none"

\* Every statement is executed as it was handed over, once, and in order,
\* though the caller fills the same buffer with its next one.
ExecutedInOrder == [][executed' # executed => executed' = executed + 1]_vars

\* When the rows of a result are used up the next one is there, unless the
\* thread has reported an error: current->next is never NULL.
NextResultThere ==
  \A s \in Session :
    pc[s] = "advance" /\ hd[cur[s]].bgs_error = "none" => hd[cur[s]].ahead = 1

\* A scan ends with HA_ERR_END_OF_FILE only after all rows that were stored
\* have been read, though the thread finds the end before the session has got
\* there; not so in quick mode 3, see EndsEarly.
RowsDelivered ==
  \A h \in Handler :
    hd[h].ended /\ ~hd[h].quick3 => ~hd[h].unread /\ hd[h].ahead = 0

\* A write whose last statement failed is not answered with success.
LastErrorReported ==
  \A h \in Handler :
    LET s == SessionOf[h] IN
    Writing(h) /\ pc[s] = "ending" /\ ~is_error[s] => jobs \notin failed[h]

\* No statement of a write that is answered with success has failed.
EveryErrorReported ==
  \A h \in Handler :
    LET s == SessionOf[h] IN
    Writing(h) /\ pc[s] = "ending" /\ ~is_error[s] => failed[h] = {}

\* Whatever a session, or the recycler, waits for comes: an answer of the
\* thread, bg_conn_mutex, bg_conn_finish_exec, the end of the thread.
WaitsEnd == \A t \in Thread : []<>(pc[t] = "run")
=============================================================================
