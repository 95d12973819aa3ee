------------------------------ MODULE ConnPool ------------------------------
(***************************************************************************)
(* The pool of connections to the backends (storage/spider/spd_conn.cc)    *)
(* and its limit, spider_max_connections per backend, shared by all the    *)
(* sessions of a TSpider node:                                             *)
(*   spider_get_conn, spider_get_conn_from_idle_connection and             *)
(*   spider_create_conn    take a connection from the pool, wait for one,  *)
(*                         or create one;                                  *)
(*   spider_free_conn_from_trx   gives it back and wakes up a waiter;      *)
(*   spider_conn_recycle_action  the thread that closes idle connections.  *)
(*                                                                         *)
(* A step of the model is what a thread does between two points at which   *)
(* another thread can see a difference: one lock of SPIDER_IP_PORT_CONN,   *)
(* spider_ipport_conn_rwlock or a pool queue, or one unlocked read.        *)
(* put_conn also creates the queue of a key that has none yet; a key       *)
(* without a queue and a key with an empty one behave the same.            *)
(***************************************************************************)
EXTENDS Integers, Sequences, FiniteSets

CONSTANTS
  Session,         \* threads that serve clients
  NKey,            \* number of backends, each with a conn_key of its own
  NConn,           \* bound: SPIDER_CONN objects that can exist at a time
  NRecord,         \* bound: SPIDER_IP_PORT_CONN objects, never freed
  MaxConnections,  \* spider_max_connections; 0: no limit
  Faults           \* what may go wrong

AllFaults == {"error", "lost", "flush", "idle",
              "oom_record", "oom_meta", "oom_put", "oom_trx"}

Key    == 1..NKey
Conn   == 1..NConn
Record == 1..NRecord
NoKey    == 0
NoConn   == 0
NoRecord == 0

ASSUME BoundAssumption  == NKey \in Nat /\ NConn \in Nat /\ NRecord \in Nat
ASSUME LimitAssumption  == MaxConnections \in Nat
ASSUME FaultAssumption  == Faults \subseteq AllFaults
ASSUME SessionAssumption == IsFiniteSet(Session)

VARIABLES
  pool,        \* spd_connect_pools: a stack of connections for each key
  key_of,      \* key of an existing connection, NoKey if it does not exist
  rec_of,      \* SPIDER_CONN.ip_port_conn
  idle,        \* connections whose last_visited is an interval ago
  hash,        \* spider_ipport_conns: key of each inserted record, or NoKey
  count,       \* SPIDER_IP_PORT_CONN.ip_port_count
  waiting,     \* SPIDER_IP_PORT_CONN.waiting_count
  pc,          \* where each session's thread is
  want,        \* the key it asks a connection for
  rec,         \* its local ip_port_conn
  mine,        \* the connection it has in its hands
  held,        \* SPIDER_TRX.trx_conn_hash
  is_error,    \* thd->is_error()
  scanned,     \* has the recycler scanned the pool in this round?
  victims,     \* how many connections of each key it still has to close
  popped       \* the connection the recycler is closing

connVars     == <<pool, key_of, rec_of, idle>>
recordVars   == <<hash, count, waiting>>
sessionVars  == <<pc, want, rec, mine, held, is_error>>
recyclerVars == <<scanned, victims, popped>>
vars == <<connVars, recordVars, sessionVars, recyclerVars>>

PC == {"run", "lookup", "create", "insert", "towait", "waiting", "signalled",
       "retry", "join", "release", "check", "signal"}

TypeOK ==
  /\ pool \in [Key -> Seq(Conn)]
  /\ key_of \in [Conn -> Key \cup {NoKey}]
  /\ rec_of \in [Conn -> Record \cup {NoRecord}]
  /\ idle \subseteq Conn
  /\ hash \in [Record -> Key \cup {NoKey}]
  /\ count \in [Record -> Nat]
  /\ waiting \in [Record -> Nat]
  /\ pc \in [Session -> PC]
  /\ want \in [Session -> Key \cup {NoKey}]
  /\ rec \in [Session -> Record \cup {NoRecord}]
  /\ mine \in [Session -> Conn \cup {NoConn}]
  /\ held \in [Session -> SUBSET Conn]
  /\ is_error \in [Session -> BOOLEAN]
  /\ scanned \in BOOLEAN
  /\ victims \in [Key -> Nat]
  /\ popped \in Conn \cup {NoConn}

Init ==
  /\ pool = [k \in Key |-> <<>>]
  /\ key_of = [c \in Conn |-> NoKey]
  /\ rec_of = [c \in Conn |-> NoRecord]
  /\ idle = {}
  /\ hash = [r \in Record |-> NoKey]
  /\ count = [r \in Record |-> 0]
  /\ waiting = [r \in Record |-> 0]
  /\ pc = [s \in Session |-> "run"]
  /\ want = [s \in Session |-> NoKey]
  /\ rec = [s \in Session |-> NoRecord]
  /\ mine = [s \in Session |-> NoConn]
  /\ held = [s \in Session |-> {}]
  /\ is_error = [s \in Session |-> FALSE]
  /\ scanned = FALSE
  /\ victims = [k \in Key |-> 0]
  /\ popped = NoConn

-----------------------------------------------------------------------------
Goto(s, p) == pc' = [pc EXCEPT ![s] = p]

May(fault) == fault \in Faults

Top(k) == pool[k][Len(pool[k])]

\* SPIDER_CONN_POOL::get_conn: the connection that was put last.
Pop(k) == pool' = [pool EXCEPT ![k] = SubSeq(@, 1, Len(@) - 1)]

\* my_hash_search in spider_ipport_conns, whose keys are not unique.
Found(r, k) == hash[r] = k

Full(r) == MaxConnections > 0 /\ count[r] >= MaxConnections

\* Mutant: a freed connection still counts.
FreeConn_StillCounted(c) ==
  /\ key_of' = [key_of EXCEPT ![c] = NoKey]
  /\ rec_of' = [rec_of EXCEPT ![c] = NoRecord]
  /\ idle' = idle \ {c}
  /\ UNCHANGED count

\* spider_free_conn: ip_port_count goes down, nobody is woken up.
FreeConn(c) ==
  /\ key_of' = [key_of EXCEPT ![c] = NoKey]
  /\ rec_of' = [rec_of EXCEPT ![c] = NoRecord]
  /\ idle' = idle \ {c}
  /\ count' = IF rec_of[c] # NoRecord /\ count[rec_of[c]] > 0
              THEN [count EXCEPT ![rec_of[c]] = @ - 1] ELSE count

\* ER_SPIDER_CON_COUNT_ERROR, or out of memory: the statement fails.
Fail(s) ==
  /\ Goto(s, "run")
  /\ is_error' = [is_error EXCEPT ![s] = TRUE]
  /\ want' = [want EXCEPT ![s] = NoKey]
  /\ rec' = [rec EXCEPT ![s] = NoRecord]
  /\ mine' = [mine EXCEPT ![s] = NoConn]
  /\ UNCHANGED held

-----------------------------------------------------------------------------
(***************************************************************************)
(* A statement needs a connection: spider_get_conn.                        *)
(***************************************************************************)
Take(s, k, otherwise) ==
  \/ /\ pool[k] # <<>>
     /\ mine' = [mine EXCEPT ![s] = Top(k)]
     /\ Pop(k)
     /\ Goto(s, "join")
  \/ /\ pool[k] = <<>>
     /\ Goto(s, otherwise)
     /\ UNCHANGED <<pool, mine>>

FreeRecord == {r \in Record : /\ hash[r] = NoKey
                              /\ count[r] = 0
                              /\ \A t \in Session : rec[t] # r}

\* Bound: a backend is asked for only if it has a record, may get the one that
\* another session makes, or one is left for it.
Room(k) ==
  \/ \E r \in Record : Found(r, k)
  \/ \E t \in Session : want[t] = k
  \/ Cardinality({want[t] : t \in {u \in Session : pc[u] \in {"lookup", "create"}}})
       < Cardinality(FreeRecord)

\* The connection is not in trx_conn_hash: look in the pool first.
GetConn(s, k) ==
  /\ pc[s] = "run"
  /\ \A c \in held[s] : key_of[c] # k
  /\ Room(k)
  /\ want' = [want EXCEPT ![s] = k]
  /\ is_error' = [is_error EXCEPT ![s] = FALSE]
  /\ Take(s, k, IF MaxConnections > 0 THEN "lookup" ELSE "create")
  /\ UNCHANGED <<key_of, rec_of, idle, recordVars, rec, held, recyclerVars>>

\* spider_get_conn_from_idle_connection up to the test of ip_port_count.
Lookup(s) ==
  /\ pc[s] = "lookup"
  /\ \/ /\ \A r \in Record : ~Found(r, want[s])
        /\ Goto(s, "create")
        /\ UNCHANGED rec
     \/ \E r \in Record :
          /\ Found(r, want[s])
          /\ rec' = [rec EXCEPT ![s] = r]
          /\ Goto(s, IF Full(r) THEN "towait" ELSE "create")
  /\ UNCHANGED <<connVars, recordVars, want, mine, held, is_error, recyclerVars>>

\* ++waiting_count and pthread_cond_timedwait, which releases the mutex.
BeginWait(s) ==
  /\ pc[s] = "towait"
  /\ waiting' = [waiting EXCEPT ![rec[s]] = @ + 1]
  /\ Goto(s, "waiting")
  /\ UNCHANGED <<connVars, hash, count, want, rec, mine, held, is_error,
                 recyclerVars>>

\* Mutant: pthread_cond_wait instead of pthread_cond_timedwait.
WaitTimeout_NotAsleep(s) ==
  /\ pc[s] = "towait"
  /\ Fail(s)
  /\ UNCHANGED <<connVars, recordVars, recyclerVars>>

\* Mutant: a thread that gives up still counts as waiting.
WaitTimeout_StillCounted(s) ==
  /\ pc[s] \in {"towait", "waiting"}
  /\ Fail(s)
  /\ UNCHANGED <<connVars, recordVars, recyclerVars>>

\* Mutant: waiting_count goes down before it went up.
WaitTimeout_NotYetCounted(s) ==
  /\ pc[s] \in {"towait", "waiting"}
  /\ waiting' = [waiting EXCEPT ![rec[s]] = @ - 1]
  /\ Fail(s)
  /\ UNCHANGED <<connVars, hash, count, recyclerVars>>

\* spider_conn_wait_timeout has passed, before or while waiting.
WaitTimeout(s) ==
  /\ \/ /\ pc[s] = "towait"
        /\ UNCHANGED waiting
     \/ /\ pc[s] = "waiting"
        /\ waiting' = [waiting EXCEPT ![rec[s]] = @ - 1]
  /\ Fail(s)
  /\ UNCHANGED <<connVars, hash, count, recyclerVars>>

\* Signalled, or a spurious wakeup: --waiting_count and the mutex is released.
WakeUp(s) ==
  /\ pc[s] \in {"waiting", "signalled"}
  /\ waiting' = [waiting EXCEPT ![rec[s]] = @ - 1]
  /\ Goto(s, "retry")
  /\ UNCHANGED <<connVars, hash, count, want, rec, mine, held, is_error,
                 recyclerVars>>

\* After the wait only the pool is tried, never spider_create_conn.
Retry(s) ==
  /\ pc[s] = "retry"
  /\ Take(s, want[s], "towait")
  /\ UNCHANGED <<key_of, rec_of, idle, recordVars, want, rec, held, is_error,
                 recyclerVars>>

\* Objects are interchangeable: a new one gets the lowest free number.
FreshConn(c) == /\ key_of[c] = NoKey
                /\ \A d \in Conn : key_of[d] = NoKey => c <= d

FreshRecord(r) == r \in FreeRecord /\ \A q \in FreeRecord : r <= q

\* last_visited is set once the record is known: without one it stays 0.
NewConn(s, c, r) ==
  /\ FreshConn(c)
  /\ key_of' = [key_of EXCEPT ![c] = want[s]]
  /\ rec_of' = [rec_of EXCEPT ![c] = r]
  /\ idle' = IF r = NoRecord THEN idle \cup {c} ELSE idle

\* The end of spider_create_conn: without its meta record the connection is
\* not returned, and not freed either.
Created(s, c) ==
  \/ /\ mine' = [mine EXCEPT ![s] = c]
     /\ Goto(s, "join")
     /\ UNCHANGED <<want, rec, held, is_error>>
  \/ /\ May("oom_meta")
     /\ Fail(s)

\* Mutant: the limit is not tested again.
CreateCounted_Unchecked(s, c, r) ==
  /\ Found(r, want[s])
  /\ count' = [count EXCEPT ![r] = @ + 1]
  /\ NewConn(s, c, r)
  /\ Created(s, c)
  /\ UNCHANGED hash

\* The record exists: the limit is tested again, under the record's mutex.
CreateCounted(s, c, r) ==
  /\ Found(r, want[s])
  /\ ~Full(r)
  /\ count' = [count EXCEPT ![r] = @ + 1]
  /\ NewConn(s, c, r)
  /\ Created(s, c)
  /\ UNCHANGED hash

CreateTooMany(s, r) ==
  /\ Found(r, want[s])
  /\ Full(r)
  /\ Fail(s)
  /\ UNCHANGED <<count, hash, key_of, rec_of, idle>>

\* No record for this key: make one that counts 1, or go without.
CreateFirst(s, c) ==
  /\ \A r \in Record : ~Found(r, want[s])
  /\ \/ \E r \in Record :
          /\ FreshRecord(r)
          /\ count' = [count EXCEPT ![r] = 1]
          /\ NewConn(s, c, NoRecord)
          /\ rec' = [rec EXCEPT ![s] = r]
          /\ mine' = [mine EXCEPT ![s] = c]
          /\ Goto(s, "insert")
          /\ UNCHANGED <<hash, want, held, is_error>>
     \/ /\ May("oom_record")
        /\ NewConn(s, c, NoRecord)
        /\ mine' = [mine EXCEPT ![s] = c]
        /\ Goto(s, "join")
        /\ UNCHANGED <<hash, count, want, rec, held, is_error>>

\* spider_create_conn.
Create(s) ==
  /\ pc[s] = "create"
  /\ \/ \E c \in Conn, r \in Record : CreateCounted(s, c, r)
     \/ \E r \in Record : CreateTooMany(s, r)
     \/ \E c \in Conn : CreateFirst(s, c)
  /\ UNCHANGED <<pool, waiting, recyclerVars>>

\* The new record goes into the hash under the write lock, without a second
\* look for one that another thread has put there in the meantime.
InsertRecord(s) ==
  /\ pc[s] = "insert"
  /\ \/ /\ hash' = [hash EXCEPT ![rec[s]] = want[s]]
        /\ rec_of' = [rec_of EXCEPT ![mine[s]] = rec[s]]
        /\ idle' = idle \ {mine[s]}
        /\ Created(s, mine[s])
     \/ /\ May("oom_record")
        /\ Goto(s, "join")
        /\ UNCHANGED <<hash, rec_of, idle, mine, want, rec, held, is_error>>
  /\ UNCHANGED <<pool, key_of, count, waiting, recyclerVars>>

\* The connection enters trx_conn_hash.
Join(s) ==
  /\ pc[s] = "join"
  /\ \/ /\ held' = [held EXCEPT ![s] = @ \cup {mine[s]}]
        /\ Goto(s, "run")
        /\ mine' = [mine EXCEPT ![s] = NoConn]
        /\ want' = [want EXCEPT ![s] = NoKey]
        /\ rec' = [rec EXCEPT ![s] = NoRecord]
        /\ UNCHANGED <<key_of, rec_of, idle, count, is_error>>
     \/ /\ May("oom_trx")
        /\ FreeConn(mine[s])
        /\ Fail(s)
  /\ UNCHANGED <<pool, hash, waiting, recyclerVars>>

\* A statement is sent on a held connection: last_visited is now.
Query(s, c) ==
  /\ pc[s] = "run"
  /\ c \in held[s]
  /\ idle' = idle \ {c}
  /\ is_error' = [is_error EXCEPT ![s] = FALSE]
  /\ UNCHANGED <<pool, key_of, rec_of, recordVars, pc, want, rec, mine, held,
                 recyclerVars>>

\* A statement fails for a reason of its own.
StatementFails(s) ==
  /\ May("error")
  /\ pc[s] = "run"
  /\ held[s] # {}
  /\ ~is_error[s]
  /\ is_error' = [is_error EXCEPT ![s] = TRUE]
  /\ UNCHANGED <<connVars, recordVars, pc, want, rec, mine, held, recyclerVars>>

-----------------------------------------------------------------------------
(***************************************************************************)
(* The transaction ends: spider_free_trx_conn gives every connection back. *)
(* It ends with the statement, whose error is still set, or with a COMMIT  *)
(* or ROLLBACK, a new statement.                                           *)
(***************************************************************************)
EndTrx(s) ==
  /\ pc[s] = "run"
  /\ held[s] # {}
  /\ Goto(s, "release")
  /\ is_error' \in {is_error, [is_error EXCEPT ![s] = FALSE]}
  /\ UNCHANGED <<connVars, recordVars, want, rec, mine, held, recyclerVars>>

Released(s, c) ==
  /\ held' = [held EXCEPT ![s] = @ \ {c}]
  /\ UNCHANGED <<want, mine, is_error, hash, waiting, recyclerVars>>

\* Mutant: the connection also stays in the transaction's hash.
PutConn_StaysHeld(s, c) ==
  /\ pc[s] = "release"
  /\ c \in held[s]
  /\ ~is_error[s]
  /\ pool' = [pool EXCEPT ![key_of[c]] = Append(@, c)]
  /\ rec' = [rec EXCEPT ![s] = rec_of[c]]
  /\ Goto(s, IF rec_of[c] = NoRecord THEN "release" ELSE "check")
  /\ UNCHANGED <<key_of, rec_of, idle, count, held, want, mine, is_error,
                 hash, waiting, recyclerVars>>

\* spider_free_conn_from_trx with conn_recycle_mode = 1 and no error.
PutConn(s, c) ==
  /\ pc[s] = "release"
  /\ c \in held[s]
  /\ ~is_error[s]
  /\ pool' = [pool EXCEPT ![key_of[c]] = Append(@, c)]
  /\ rec' = [rec EXCEPT ![s] = rec_of[c]]
  /\ Goto(s, IF rec_of[c] = NoRecord THEN "release" ELSE "check")
  /\ Released(s, c)
  /\ UNCHANGED <<key_of, rec_of, idle, count>>

\* server_lost, thd->is_error(), the session ends, or put_conn fails.
DropConn(s, c) ==
  /\ pc[s] = "release"
  /\ c \in held[s]
  /\ is_error[s] \/ May("lost") \/ May("oom_put")
  /\ FreeConn(c)
  /\ Released(s, c)
  /\ UNCHANGED <<pool, pc, rec>>

\* waiting_count is read without the mutex.
CheckWaiters(s) ==
  /\ pc[s] = "check"
  /\ IF waiting[rec[s]] > 0
     THEN Goto(s, "signal") /\ UNCHANGED rec
     ELSE Goto(s, "release") /\ rec' = [rec EXCEPT ![s] = NoRecord]
  /\ UNCHANGED <<connVars, recordVars, want, mine, held, is_error, recyclerVars>>

Sleeping(r) == {s \in Session : pc[s] = "waiting" /\ rec[s] = r}

\* pthread_cond_signal wakes one thread that waits on this record, if any.
Signal(s) ==
  /\ pc[s] = "signal"
  /\ \/ /\ Sleeping(rec[s]) = {}
        /\ Goto(s, "release")
     \/ \E t \in Sleeping(rec[s]) :
          pc' = [pc EXCEPT ![s] = "release", ![t] = "signalled"]
  /\ rec' = [rec EXCEPT ![s] = NoRecord]
  /\ UNCHANGED <<connVars, recordVars, want, mine, held, is_error, recyclerVars>>

EndRelease(s) ==
  /\ pc[s] = "release"
  /\ held[s] = {}
  /\ Goto(s, "run")
  /\ UNCHANGED <<connVars, recordVars, want, rec, mine, held, is_error,
                 recyclerVars>>

-----------------------------------------------------------------------------
(***************************************************************************)
(* spider_conn_recycle_action: a round first lists the keys of the idle    *)
(* connections it sees in each queue, then pops and frees one connection   *)
(* for each entry of the list.                                             *)
(***************************************************************************)
Age(c) ==
  /\ May("idle")
  /\ key_of[c] # NoKey
  /\ c \notin idle
  /\ idle' = idle \cup {c}
  /\ UNCHANGED <<pool, key_of, rec_of, recordVars, sessionVars, recyclerVars>>

Pooled(k) == {pool[k][i] : i \in DOMAIN pool[k]}

\* Mutant: the scan of a queue stops one element early.
Scan_MissesOne ==
  /\ ~scanned
  /\ scanned' = TRUE
  /\ victims' = [k \in Key |-> IF Pooled(k) \cap idle = {} THEN 0
                               ELSE Cardinality(Pooled(k) \cap idle) - 1]
  /\ UNCHANGED <<connVars, recordVars, sessionVars, popped>>

Scan ==
  /\ ~scanned
  /\ scanned' = TRUE
  /\ victims' = [k \in Key |-> Cardinality(Pooled(k) \cap idle)]
  /\ UNCHANGED <<connVars, recordVars, sessionVars, popped>>

\* Mutant: the queue is read at its end, but nothing is taken from it.
PopVictim_Peeks(k) ==
  /\ popped = NoConn
  /\ victims[k] > 0
  /\ victims' = [victims EXCEPT ![k] = @ - 1]
  /\ popped' = IF pool[k] = <<>> THEN NoConn ELSE Top(k)
  /\ UNCHANGED <<connVars, recordVars, sessionVars, scanned>>

PopVictim(k) ==
  /\ popped = NoConn
  /\ victims[k] > 0
  /\ victims' = [victims EXCEPT ![k] = @ - 1]
  /\ \/ /\ pool[k] # <<>>
        /\ popped' = Top(k)
        /\ Pop(k)
     \/ /\ pool[k] = <<>>
        /\ UNCHANGED <<pool, popped>>
  /\ UNCHANGED <<key_of, rec_of, idle, recordVars, sessionVars, scanned>>

FreeVictim ==
  /\ popped # NoConn
  /\ FreeConn(popped)
  /\ popped' = NoConn
  /\ UNCHANGED <<pool, hash, waiting, sessionVars, scanned, victims>>

NextRound ==
  /\ scanned
  /\ popped = NoConn
  /\ \A k \in Key : victims[k] = 0
  /\ scanned' = FALSE
  /\ UNCHANGED <<connVars, recordVars, sessionVars, victims, popped>>

\* spider_free_conn_by_servername: one turn of its loop.
FlushOne(k) ==
  /\ May("flush")
  /\ pool[k] # <<>>
  /\ Pop(k)
  /\ FreeConn(Top(k))
  /\ UNCHANGED <<hash, waiting, sessionVars, recyclerVars>>

-----------------------------------------------------------------------------
\* What the thread of s does on its own once it is asked for a connection.
Getting(s) == Lookup(s) \/ BeginWait(s) \/ Retry(s) \/ Create(s)
              \/ InsertRecord(s) \/ Join(s)

\* ... and once the transaction has ended.
Giving(s) == \/ CheckWaiters(s) \/ Signal(s) \/ EndRelease(s)
             \/ \E c \in Conn : PutConn(s, c) \/ DropConn(s, c)

\* The steps a thread that is not blocked takes without the client.
Running(s) == Getting(s) \/ Giving(s) \/ (pc[s] = "signalled" /\ WakeUp(s))

Statement(s) == \/ EndTrx(s) \/ StatementFails(s)
                \/ \E k \in Key : GetConn(s, k)
                \/ \E c \in Conn : Query(s, c)

Recycler == Scan \/ FreeVictim \/ NextRound \/ \E k \in Key : PopVictim(k)

Next == \/ \E s \in Session : \/ Statement(s) \/ Getting(s) \/ Giving(s)
                              \/ WaitTimeout(s) \/ WakeUp(s)
        \/ Recycler
        \/ \E c \in Conn : Age(c)
        \/ \E k \in Key : FlushOne(k)

Spec == Init /\ [][Next]_vars

(***************************************************************************)
(* Threads run, a signalled thread wakes up, and the deadline of a wait,   *)
(* computed once from its start, is reached however often the thread is    *)
(* woken up in vain.                                                       *)
(***************************************************************************)
Fairness ==
  /\ \A s \in Session : WF_vars(Running(s)) /\ SF_vars(WaitTimeout(s))
  /\ WF_vars(Recycler)

FairSpec == Spec /\ Fairness
-----------------------------------------------------------------------------
(***************************************************************************)
(* Properties.                                                             *)
(***************************************************************************)

\* A connection is in one place at a time: in the hash or the hands of one
\* session, once in the pool, or in the recycler's hands.  Two sessions that
\* use one MYSQL handle, or a connection freed while it is used, would break
\* the protocol to the backend.
NoSharing ==
  /\ \A s, t \in Session : /\ s # t => held[s] \cap held[t] = {}
                           /\ s # t /\ mine[s] # NoConn => mine[s] # mine[t]
                           /\ mine[s] \notin held[t] \cup {popped} \/ mine[s] = NoConn
                           /\ popped \notin held[s]
  /\ \A k \in Key : /\ Cardinality(Pooled(k)) = Len(pool[k])
                    /\ \A s \in Session : Pooled(k) \cap (held[s] \cup {mine[s]}) = {}
                    /\ popped \notin Pooled(k)
                    /\ \A c \in Pooled(k) : key_of[c] = k

\* ip_port_count is the number of connections that carry the record, whatever
\* order creations, failures, the recycler and a flush happen in: closing a
\* connection always makes room for another, and none is left uncounted.
CountIsExact ==
  \A r \in Record : hash[r] # NoKey =>
    count[r] = Cardinality({c \in Conn : rec_of[c] = r})

\* A record never counts more connections than spider_max_connections, though
\* the test that decides to create one is made before, without the mutex.
RecordLimit ==
  \A r \in Record : MaxConnections > 0 => count[r] <= MaxConnections

\* waiting_count is the number of threads inside pthread_cond_timedwait: the
\* thread that gives a connection back skips the signal when it reads zero.
WaitersCounted ==
  \A r \in Record :
    waiting[r] = Cardinality({s \in Session : pc[s] \in {"waiting", "signalled"}
                                              /\ rec[s] = r})

\* A statement that asks for a connection gets one or an error, when sessions
\* that hold connections wait for each other's, and when one is closed and not
\* given back: no request stays for ever.
RequestsAnswered == \A s \in Session : []<>(want[s] = NoKey)

\* A connection that has been idle for an interval does not stay in the pool:
\* sooner or later a session uses it or the recycler closes it, though the
\* recycler pops from the other end of the queue.
IdleIsSettled ==
  \A c \in Conn : []<>~(c \in idle /\ \E k \in Key : c \in Pooled(k))
=============================================================================
