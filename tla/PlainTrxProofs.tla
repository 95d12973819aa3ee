--------------------------- MODULE PlainTrxProofs ---------------------------
(***************************************************************************)
(* Theorems about PlainTrx, for every number of sessions, backends,        *)
(* connections and transactions, and every fault; only a session that      *)
(* keeps its transaction after a failed statement may not have a setting   *)
(* refused (RefusedIsRolledBack).                                          *)
(***************************************************************************)
EXTENDS PlainTrx, TLAPS

Loop == {"commit", "rollback"}

\* A setting is refused only where the transaction is then rolled back.
RefusedIsRolledBack == \A s \in Session : May(s, "set_err") => s \in TransRollback
-----------------------------------------------------------------------------
(***************************************************************************)
(* The invariant.                                                          *)
(***************************************************************************)

\* A connection r and its backend's session v, whoever has it: what was written
\* belongs to an open transaction; a connection that is not open stands for a
\* session that does not exist yet; where something is queued that would commit,
\* no transaction is open.
LinkInv(r, v) ==
  /\ v.level = None => v.work = {}
  /\ r.queued_connect \/ r.server_lost => v = NewServer
  /\ r.queued.autocommit # None \/ r.queued_trx_start => v.level = None

\* Nothing is queued, and what is set is known.
Settled(r, v) ==
  /\ r.queued = NoSettings
  /\ ~r.queued_trx_start /\ ~r.queued_connect /\ ~r.server_lost
  /\ r.known.trx_isolation = v.trx_isolation
  /\ r.known.autocommit = v.autocommit
  /\ r.known.time_zone = v.time_zone

\* The connection has joined the transaction of s, and a statement would be
\* part of it.
Begun(s, r, v) ==
  /\ v.trx_isolation = thd[s].trx_isolation
  /\ InTrx(s) => /\ v.level \in {None, thd[s].trx_isolation}
                 /\ IF r.trx_start THEN v.level # None ELSE ~v.autocommit
  /\ ~InTrx(s) => v.level = None /\ v.autocommit

\* It has joined, but could not be connected to: all is still queued.
Waiting(s, r) ==
  /\ InTrx(s)
  /\ r.queued.autocommit # None /\ r.queued.time_zone # None
  /\ IF r.trx_start THEN r.queued_trx_start ELSE r.queued.autocommit = FALSE

\* A connection of session s, which is in transaction t.
HeldInv(s, r, v, joined, t, error) ==
  /\ r.join_trx = joined
  /\ r.queued_connect => r.server_lost
  /\ v.work \subseteq {t}
  /\ v.work # {} => InTrx(s)
  /\ ~error /\ ~r.server_lost =>
       /\ Settled(r, v)
       /\ joined => Begun(s, r, v)
       /\ ~joined => v.level = None /\ ~r.trx_start
  /\ ~error /\ r.queued_connect /\ joined => Waiting(s, r)

Joins(s, c) == pc[s] \notin Loop \/ c \in todo[s]

ConnInv(c) ==
  /\ LinkInv(conn[c], srv[c])
  /\ conn[c].place = "none" => conn[c] = NewConn /\ srv[c] = NewServer
  /\ conn[c].place = "pool" =>
       /\ Settled(conn[c], srv[c])
       /\ srv[c].level = None /\ ~conn[c].trx_start /\ ~conn[c].join_trx
  /\ \A s \in Session : conn[c].place = s =>
       /\ cur[s] # 0
       /\ HeldInv(s, conn[c], srv[c], Joins(s, c), cur[s], is_error[s])

\* A session is in a transaction exactly if its client is, or in a statement
\* outside of one, or at the end of one.
SessionInv(s) ==
  /\ pc[s] \notin Loop => todo[s] = {} /\ ~is_error[s]
  /\ pc[s] = "stmt" => cur[s] # 0 /\ ~InTrx(s)
  /\ pc[s] = "idle" /\ cur[s] # 0 => InTrx(s)
  /\ pc[s] \in Loop => cur[s] # 0
  /\ pc[s] = "rollback" /\ ~InTrx(s) => is_error[s]
  /\ cur[s] <= ntrx
  /\ cur[s] # 0 => reply[cur[s]] = "none"

\* A session has at most one connection to a backend, and its transaction to
\* itself.
OneEach ==
  /\ \A c, d \in Conn : conn[c].place \in Session /\ conn[c].place = conn[d].place
                          /\ Target[c] = Target[d] => c = d
  /\ \A s, t \in Session : cur[s] = cur[t] /\ cur[s] # 0 => s = t

\* What is known of transactions that have not begun.
FutureInv ==
  /\ \A t \in Trx : t > ntrx => reply[t] = "none"
  /\ \A w \in committed \cup written : w[1] <= ntrx

\* COMMIT will be sent on r, and the work of transaction t is there unless the
\* connection is lost.
WillCommit(r, v, t) ==
  /\ r.join_trx /\ ToEnd(r) /\ ~NotStarted(r)
  /\ r.server_lost \/ t \in v.work

\* What a session has written, it holds a connection for; it is committed, or
\* will be if the transaction is, or the client will be told.
WrittenInv ==
  \A s \in Session, b \in Backend : <<cur[s], b>> \in written =>
    \E c \in Conn :
      /\ conn[c].place = s /\ Target[c] = b
      /\ \/ <<cur[s], b>> \in committed
         \/ is_error[s] \/ pc[s] = "rollback"
         \/ InTrx(s) /\ WillCommit(conn[c], srv[c], cur[s])

\* Nothing of a transaction is committed before its client says so.
UncommittedInv ==
  \A s \in Session : cur[s] # 0 /\ InTrx(s) /\ pc[s] # "commit" =>
    \A b \in Backend : <<cur[s], b>> \notin committed

PlainInv ==
  /\ TypeOK
  /\ \A c \in Conn : ConnInv(c)
  /\ \A s \in Session : SessionInv(s)
  /\ OneEach
  /\ FutureInv
  /\ WrittenInv
  /\ UncommittedInv
  /\ Durable
  /\ StaysRolledBack
-----------------------------------------------------------------------------
(***************************************************************************)
(* The operators on links.                                                 *)
(***************************************************************************)

LinkType == [conn : ConnType, srv : ServerType, done : SUBSET Trx, error : BOOLEAN]

LEMMA NewType == NewConn \in ConnType /\ NewServer \in ServerType /\ NoSettings \in Settings
BY DefaultAssumption DEF NewConn, NewServer, NoSettings, ConnType, ServerType, Settings

LEMMA NewFields ==
  /\ NoSettings.trx_isolation = None /\ NoSettings.autocommit = None
  /\ NoSettings.time_zone = None
  /\ NewServer.level = None /\ NewServer.work = {}
BY DEF NoSettings, NewServer

LEMMA NewConnFields ==
  /\ NewConn.place = "none" /\ NewConn.queued_connect /\ ~NewConn.server_lost
  /\ ~NewConn.join_trx /\ ~NewConn.trx_start /\ ~NewConn.queued_trx_start
  /\ NewConn.queued = NoSettings /\ NewConn.known = NoSettings
BY DEF NewConn

LEMMA ItemNames == DOMAIN NoSettings = {"trx_isolation", "autocommit", "time_zone"}
BY DEF NoSettings

LEMMA LinkFields ==
  ASSUME NEW x \in LinkType
  PROVE  /\ x.conn \in ConnType /\ x.srv \in ServerType
         /\ x.done \in SUBSET Trx /\ x.error \in BOOLEAN
BY DEF LinkType

LEMMA ConnFields ==
  ASSUME NEW r \in ConnType
  PROVE  /\ r.place \in {"none", "pool"} \cup Session
         /\ r.queued_connect \in BOOLEAN /\ r.server_lost \in BOOLEAN
         /\ r.join_trx \in BOOLEAN /\ r.trx_start \in BOOLEAN
         /\ r.queued_trx_start \in BOOLEAN
         /\ r.queued \in Settings /\ r.known \in Settings
BY DEF ConnType

LEMMA SettingsFields ==
  ASSUME NEW q \in Settings
  PROVE  /\ q.trx_isolation \in Level \cup {None}
         /\ q.autocommit \in BOOLEAN \cup {None}
         /\ q.time_zone \in Zone \cup {None}
BY DEF Settings

LEMMA ServerFields ==
  ASSUME NEW v \in ServerType
  PROVE  /\ v.trx_isolation \in Level /\ v.autocommit \in BOOLEAN /\ v.time_zone \in Zone
         /\ v.level \in Level \cup {None} /\ v.work \in SUBSET Trx
BY DEF ServerType

\* Two links that differ at most in what a backend executes.
SameConn(y, x) == y \in LinkType /\ y.conn = x.conn /\ y.error = x.error

LEMMA CommitAtFields ==
  ASSUME NEW x \in LinkType
  PROVE  LET y == CommitAt(x)
         IN /\ SameConn(y, x)
            /\ y.done = x.done \cup x.srv.work
            /\ y.srv.work = {} /\ y.srv.level = None
            /\ y.srv.trx_isolation = x.srv.trx_isolation
            /\ y.srv.autocommit = x.srv.autocommit
            /\ y.srv.time_zone = x.srv.time_zone
BY DEF CommitAt, SameConn, LinkType, ServerType

LEMMA ExecStart ==
  ASSUME NEW x \in LinkType
  PROVE  LET y == Exec(x, "trx_start")
         IN /\ SameConn(y, x)
            /\ y.done = x.done \cup x.srv.work
            /\ y.srv.work = {} /\ y.srv.level = x.srv.trx_isolation
            /\ y.srv.trx_isolation = x.srv.trx_isolation
            /\ y.srv.autocommit = x.srv.autocommit
            /\ y.srv.time_zone = x.srv.time_zone
BY CommitAtFields DEF Exec, SameConn, LinkType, ServerType

LEMMA ExecIsolation ==
  ASSUME NEW x \in LinkType, x.conn.queued.trx_isolation # None
  PROVE  LET y == Exec(x, "trx_isolation")
         IN /\ SameConn(y, x)
            /\ y.done = x.done
            /\ y.srv.work = x.srv.work /\ y.srv.level = x.srv.level
            /\ y.srv.trx_isolation = x.conn.queued.trx_isolation
            /\ y.srv.autocommit = x.srv.autocommit
            /\ y.srv.time_zone = x.srv.time_zone
BY DEF Exec, SameConn, LinkType, ServerType, ConnType, Settings

LEMMA ExecZone ==
  ASSUME NEW x \in LinkType, x.conn.queued.time_zone # None
  PROVE  LET y == Exec(x, "time_zone")
         IN /\ SameConn(y, x)
            /\ y.done = x.done
            /\ y.srv.work = x.srv.work /\ y.srv.level = x.srv.level
            /\ y.srv.trx_isolation = x.srv.trx_isolation
            /\ y.srv.autocommit = x.srv.autocommit
            /\ y.srv.time_zone = x.conn.queued.time_zone
BY DEF Exec, SameConn, LinkType, ServerType, ConnType, Settings

\* SET autocommit = 1 commits.
LEMMA ExecAutocommit ==
  ASSUME NEW x \in LinkType, x.conn.queued.autocommit # None,
         x.srv.level = None, x.srv.work = {}
  PROVE  LET y == Exec(x, "autocommit")
         IN /\ SameConn(y, x)
            /\ y.done = x.done
            /\ y.srv.work = {} /\ y.srv.level = None
            /\ y.srv.trx_isolation = x.srv.trx_isolation
            /\ y.srv.autocommit = x.conn.queued.autocommit
            /\ y.srv.time_zone = x.srv.time_zone
<1>1. CASE x.conn.queued.autocommit = TRUE
  <2>1. Exec(x, "autocommit") = [CommitAt(x) EXCEPT !.srv.autocommit = TRUE]
    BY <1>1 DEF Exec
  <2>2. x.done \cup x.srv.work = x.done
    OBVIOUS
  <2>3. /\ SameConn(CommitAt(x), x)
        /\ CommitAt(x).done = x.done
        /\ CommitAt(x).srv.work = {} /\ CommitAt(x).srv.level = None
        /\ CommitAt(x).srv.trx_isolation = x.srv.trx_isolation
        /\ CommitAt(x).srv.time_zone = x.srv.time_zone
    BY <2>2, CommitAtFields
  <2> QED BY <1>1, <2>1, <2>3 DEF SameConn, LinkType, ServerType
<1>2. CASE x.conn.queued.autocommit = FALSE
  BY <1>2 DEF Exec, SameConn, LinkType, ServerType
<1> QED BY <1>1, <1>2, LinkFields, ConnFields, SettingsFields

\* Which statements are sent.
LEMMA BulkItems ==
  ASSUME NEW s \in Session, NEW r \in ConnType
  PROVE  /\ "trx_isolation" \in Bulk(s, r) <=>
              r.queued.trx_isolation \notin {None, r.known.trx_isolation}
         /\ "autocommit" \in Bulk(s, r) <=>
              r.queued.autocommit \notin {None, r.known.autocommit}
         /\ "time_zone" \in Bulk(s, r) <=>
              r.queued.time_zone \notin {None, r.known.time_zone}
         /\ "trx_start" \in Bulk(s, r) <=> r.queued_trx_start /\ InTrx(s)
BY DEF Bulk, Range, BulkOrder

Next1(x, bulk, item) == IF item \in bulk THEN Exec(x, item) ELSE x

LEMMA StageSteps ==
  ASSUME NEW x, NEW bulk
  PROVE  LET st == Stages(x, bulk)
         IN /\ st[1] = x
            /\ st[2] = Next1(x, bulk, "trx_isolation")
            /\ st[3] = Next1(st[2], bulk, "autocommit")
            /\ st[4] = Next1(st[3], bulk, "time_zone")
            /\ st[5] = Next1(st[4], bulk, "trx_start")
BY DEF Stages, Next1, BulkOrder

\* The statements commit nothing, and only the last one begins a transaction.
LEMMA StageFields ==
  ASSUME NEW s \in Session, NEW x \in LinkType, LinkInv(x.conn, x.srv)
  PROVE  LET st == Stages(x, Bulk(s, x.conn))
             q == x.conn.queued
             k == x.conn.known
         IN /\ \A i \in 1..5 : /\ st[i] \in LinkType
                               /\ st[i].conn = x.conn
                               /\ st[i].error = x.error
                               /\ st[i].done = x.done
                               /\ st[i].srv.work = x.srv.work
            /\ \A i \in 1..4 : st[i].srv.level = x.srv.level
            /\ st[5].srv.trx_isolation = IF q.trx_isolation \in {None, k.trx_isolation}
                                         THEN x.srv.trx_isolation ELSE q.trx_isolation
            /\ st[5].srv.autocommit = IF q.autocommit \in {None, k.autocommit}
                                      THEN x.srv.autocommit ELSE q.autocommit
            /\ st[5].srv.time_zone = IF q.time_zone \in {None, k.time_zone}
                                     THEN x.srv.time_zone ELSE q.time_zone
            /\ st[5].srv.level = IF x.conn.queued_trx_start /\ InTrx(s)
                                 THEN st[5].srv.trx_isolation ELSE x.srv.level
<1> DEFINE bulk == Bulk(s, x.conn)
           st == Stages(x, bulk)
           q == x.conn.queued
           k == x.conn.known
           Same(y) == /\ y \in LinkType /\ y.conn = x.conn /\ y.error = x.error
                      /\ y.done = x.done /\ y.srv.work = x.srv.work
<1> HIDE DEF bulk, st
<1>0. /\ st[1] = x
      /\ st[2] = Next1(x, bulk, "trx_isolation")
      /\ st[3] = Next1(st[2], bulk, "autocommit")
      /\ st[4] = Next1(st[3], bulk, "time_zone")
      /\ st[5] = Next1(st[4], bulk, "trx_start")
  BY StageSteps DEF st
<1>i. /\ "trx_isolation" \in bulk <=> q.trx_isolation \notin {None, k.trx_isolation}
      /\ "autocommit" \in bulk <=> q.autocommit \notin {None, k.autocommit}
      /\ "time_zone" \in bulk <=> q.time_zone \notin {None, k.time_zone}
      /\ "trx_start" \in bulk <=> x.conn.queued_trx_start /\ InTrx(s)
  BY BulkItems, LinkFields DEF bulk
<1>2. /\ Same(st[2])
      /\ st[2].srv.level = x.srv.level
      /\ st[2].srv.trx_isolation = IF q.trx_isolation \in {None, k.trx_isolation}
                                   THEN x.srv.trx_isolation ELSE q.trx_isolation
      /\ st[2].srv.autocommit = x.srv.autocommit
      /\ st[2].srv.time_zone = x.srv.time_zone
  <2>1. CASE "trx_isolation" \in bulk
    BY <1>0, <1>i, <2>1, ExecIsolation DEF Next1, SameConn
  <2>2. CASE "trx_isolation" \notin bulk
    BY <1>0, <1>i, <2>2 DEF Next1
  <2> QED BY <2>1, <2>2
<1>3. /\ Same(st[3])
      /\ st[3].srv.level = x.srv.level
      /\ st[3].srv.trx_isolation = st[2].srv.trx_isolation
      /\ st[3].srv.autocommit = IF q.autocommit \in {None, k.autocommit}
                                THEN x.srv.autocommit ELSE q.autocommit
      /\ st[3].srv.time_zone = x.srv.time_zone
  <2>1. CASE "autocommit" \in bulk
    <3>1. x.srv.level = None /\ x.srv.work = {} /\ q.autocommit # None
      BY <1>i, <2>1 DEF LinkInv
    <3>s. st[3] = Exec(st[2], "autocommit")
      BY <1>0, <2>1 DEF Next1
    <3> QED BY <1>i, <1>2, <2>1, <3>1, <3>s, ExecAutocommit DEF SameConn
  <2>2. CASE "autocommit" \notin bulk
    BY <1>0, <1>i, <1>2, <2>2 DEF Next1
  <2> QED BY <2>1, <2>2
<1>4. /\ Same(st[4])
      /\ st[4].srv.level = x.srv.level
      /\ st[4].srv.trx_isolation = st[2].srv.trx_isolation
      /\ st[4].srv.autocommit = st[3].srv.autocommit
      /\ st[4].srv.time_zone = IF q.time_zone \in {None, k.time_zone}
                               THEN x.srv.time_zone ELSE q.time_zone
  <2>1. CASE "time_zone" \in bulk
    BY <1>0, <1>i, <1>3, <2>1, ExecZone DEF Next1, SameConn
  <2>2. CASE "time_zone" \notin bulk
    BY <1>0, <1>i, <1>3, <2>2 DEF Next1
  <2> QED BY <2>1, <2>2
<1>5. /\ Same(st[5])
      /\ st[5].srv.level = IF x.conn.queued_trx_start /\ InTrx(s)
                           THEN st[4].srv.trx_isolation ELSE x.srv.level
      /\ st[5].srv.trx_isolation = st[2].srv.trx_isolation
      /\ st[5].srv.autocommit = st[3].srv.autocommit
      /\ st[5].srv.time_zone = st[4].srv.time_zone
  <2>1. CASE "trx_start" \in bulk
    <3>1. x.srv.level = None /\ x.srv.work = {}
      BY <1>i, <2>1 DEF LinkInv
    <3>s. st[5] = Exec(st[4], "trx_start")
      BY <1>0, <2>1 DEF Next1
    <3>d. st[4].done \cup st[4].srv.work = x.done
      BY <1>4, <3>1
    <3>4. /\ SameConn(st[5], st[4])
          /\ st[5].done = st[4].done \cup st[4].srv.work
          /\ st[5].srv.work = {} /\ st[5].srv.level = st[4].srv.trx_isolation
          /\ st[5].srv.trx_isolation = st[4].srv.trx_isolation
          /\ st[5].srv.autocommit = st[4].srv.autocommit
          /\ st[5].srv.time_zone = st[4].srv.time_zone
      BY <1>4, <3>s, ExecStart
    <3> QED BY <1>i, <1>4, <2>1, <3>1, <3>4, <3>d DEF SameConn
  <2>2. CASE "trx_start" \notin bulk
    BY <1>0, <1>i, <1>4, <2>2 DEF Next1
  <2> QED BY <2>1, <2>2
<1>6. \A i \in 1..5 : Same(st[i])
  <2>1. \A i \in 1..5 : i = 1 \/ i = 2 \/ i = 3 \/ i = 4 \/ i = 5
    OBVIOUS
  <2> QED BY <1>0, <1>2, <1>3, <1>4, <1>5, <2>1
<1>7. \A i \in 1..4 : st[i].srv.level = x.srv.level
  <2>1. \A i \in 1..4 : i = 1 \/ i = 2 \/ i = 3 \/ i = 4
    OBVIOUS
  <2> QED BY <1>0, <1>2, <1>3, <1>4, <2>1
<1> QED BY <1>2, <1>3, <1>4, <1>5, <1>6, <1>7, Zenon DEF st, bulk

LEMMA FailedFields ==
  ASSUME NEW x \in LinkType
  PROVE  /\ Failed(x) \in LinkType
         /\ Failed(x).conn = x.conn /\ Failed(x).srv = x.srv
         /\ Failed(x).done = x.done /\ Failed(x).error = TRUE
BY DEF Failed, LinkType

LEMMA LostFields ==
  ASSUME NEW x \in LinkType
  PROVE  LET y == Lost(x)
         IN /\ y \in LinkType
            /\ y.conn.place = x.conn.place
            /\ y.conn.queued_connect = x.conn.queued_connect
            /\ y.conn.server_lost = TRUE
            /\ y.conn.join_trx = x.conn.join_trx
            /\ y.conn.trx_start = x.conn.trx_start
            /\ y.conn.queued_trx_start = x.conn.queued_trx_start
            /\ y.conn.queued = x.conn.queued
            /\ y.conn.known = x.conn.known
            /\ y.srv = NewServer /\ y.done = x.done /\ y.error = TRUE
BY NewType DEF Lost, LinkType, ConnType

LEMMA SentFields ==
  ASSUME NEW x \in LinkType
  PROVE  LET y == Sent(x)
             q == x.conn.queued
             k == x.conn.known
         IN /\ y \in LinkType
            /\ y.conn.place = x.conn.place
            /\ y.conn.queued_connect = x.conn.queued_connect
            /\ y.conn.server_lost = x.conn.server_lost
            /\ y.conn.join_trx = x.conn.join_trx
            /\ y.conn.trx_start = x.conn.trx_start
            /\ y.conn.queued_trx_start = FALSE
            /\ y.conn.queued = NoSettings
            /\ y.conn.known.trx_isolation =
                 IF q.trx_isolation = None THEN k.trx_isolation ELSE q.trx_isolation
            /\ y.conn.known.autocommit =
                 IF q.autocommit = None THEN k.autocommit ELSE q.autocommit
            /\ y.conn.known.time_zone =
                 IF q.time_zone = None THEN k.time_zone ELSE q.time_zone
            /\ y.srv = x.srv /\ y.done = x.done /\ y.error = x.error
<1> DEFINE q == x.conn.queued
           k == x.conn.known
           known == [i \in DOMAIN NoSettings |-> IF q[i] = None THEN k[i] ELSE q[i]]
<1>1. /\ known \in Settings
      /\ known.trx_isolation =
           IF q.trx_isolation = None THEN k.trx_isolation ELSE q.trx_isolation
      /\ known.autocommit = IF q.autocommit = None THEN k.autocommit ELSE q.autocommit
      /\ known.time_zone = IF q.time_zone = None THEN k.time_zone ELSE q.time_zone
  BY ItemNames, LinkFields, ConnFields DEF Settings
<1> DEFINE r == ClearQueue([x.conn EXCEPT !.known = known])
<1>2. Sent(x) = [x EXCEPT !.conn = r]
  BY DEF Sent, LinkType
<1> HIDE DEF known
<1>3. /\ r \in ConnType
      /\ r.place = x.conn.place
      /\ r.queued_connect = x.conn.queued_connect
      /\ r.server_lost = x.conn.server_lost
      /\ r.join_trx = x.conn.join_trx
      /\ r.trx_start = x.conn.trx_start
      /\ r.queued_trx_start = FALSE
      /\ r.queued = NoSettings
      /\ r.known = known
  BY <1>1, NewType, LinkFields DEF ClearQueue, ConnType
<1> HIDE DEF r
<1> QED BY <1>1, <1>2, <1>3 DEF LinkType

\* The outcomes of spider_db_conn_queue_action.
LEMMA QueueCases ==
  ASSUME NEW s \in Session, NEW x, NEW y \in QueueAction(s, x)
  PROVE  \E y0 \in Connect(s, x) :
           LET st == Stages(y0, Bulk(s, y0.conn))
           IN \/ y0.conn.server_lost /\ y = Failed(y0)
              \/ ~y0.conn.server_lost /\ y = Sent(st[5])
              \/ ~y0.conn.server_lost /\ May(s, "set_err") /\ \E i \in 1..4 : y = Failed(st[i])
              \/ ~y0.conn.server_lost /\ \E i \in 1..4 : y = Lost(st[i])
BY DEF QueueAction

LEMMA ConnectFields ==
  ASSUME NEW s \in Session, NEW x \in LinkType, LinkInv(x.conn, x.srv),
         NEW y \in Connect(s, x)
  PROVE  /\ y \in LinkType
         /\ y.srv = x.srv /\ y.done = x.done /\ y.error = x.error
         /\ y.conn.place = x.conn.place
         /\ y.conn.join_trx = x.conn.join_trx
         /\ y.conn.trx_start = x.conn.trx_start
         /\ y.conn.queued_trx_start = x.conn.queued_trx_start
         /\ y.conn.queued = x.conn.queued
         /\ y.conn.known = IF x.conn.queued_connect THEN NoSettings ELSE x.conn.known
         /\ y.conn.queued_connect => x.conn.queued_connect /\ y.conn.server_lost
         /\ ~x.conn.queued_connect => y.conn.server_lost = x.conn.server_lost
<1>1. CASE ~x.conn.queued_connect
  BY <1>1 DEF Connect
<1>2. CASE x.conn.queued_connect
  <2>1. x.srv = NewServer
    BY <1>2 DEF LinkInv
  <2> DEFINE z == [x EXCEPT !.conn.known = NoSettings]
  <2>2. \/ y = [z EXCEPT !.conn.queued_connect = FALSE, !.conn.server_lost = FALSE,
                         !.srv = NewServer]
        \/ y = [z EXCEPT !.conn.server_lost = TRUE]
    BY <1>2 DEF Connect
  <2>3. CASE y = [z EXCEPT !.conn.queued_connect = FALSE, !.conn.server_lost = FALSE,
                           !.srv = NewServer]
    BY <1>2, <2>1, <2>3, NewType DEF LinkType, ConnType
  <2>4. CASE y = [z EXCEPT !.conn.server_lost = TRUE]
    BY <1>2, <2>1, <2>4, NewType DEF LinkType, ConnType
  <2> QED BY <2>2, <2>3, <2>4
<1> QED BY <1>1, <1>2

\* What no remote call changes, or only for the worse.
Kept(y, x) ==
  /\ y \in LinkType /\ LinkInv(y.conn, y.srv)
  /\ y.conn.place = x.conn.place
  /\ y.conn.join_trx = x.conn.join_trx
  /\ y.conn.queued_connect => x.conn.queued_connect /\ y.conn.server_lost

LEMMA NewServerInv ==
  ASSUME NEW r \in ConnType PROVE LinkInv(r, NewServer)
BY DEF LinkInv, NewServer

\* The stages of an open connection.
LEMMA StageKept ==
  ASSUME NEW s \in Session, NEW x \in LinkType, LinkInv(x.conn, x.srv),
         NEW y \in Connect(s, x), ~y.conn.server_lost
  PROVE  LET st == Stages(y, Bulk(s, y.conn))
         IN /\ \A i \in 1..4 : Kept(Failed(st[i]), x) /\ Kept(Lost(st[i]), x)
            /\ Kept(Sent(st[5]), x)
<1> DEFINE st == Stages(y, Bulk(s, y.conn))
<1>1. /\ y \in LinkType /\ LinkInv(y.conn, y.srv)
      /\ ~y.conn.queued_connect
      /\ y.conn.place = x.conn.place
      /\ y.conn.join_trx = x.conn.join_trx
  BY ConnectFields DEF LinkInv
<1>2. /\ \A i \in 1..5 : /\ st[i] \in LinkType
                         /\ st[i].conn = y.conn
                         /\ st[i].error = y.error
                         /\ st[i].done = y.done
                         /\ st[i].srv.work = y.srv.work
      /\ \A i \in 1..4 : st[i].srv.level = y.srv.level
      /\ st[5].srv.level = IF y.conn.queued_trx_start /\ InTrx(s)
                           THEN st[5].srv.trx_isolation ELSE y.srv.level
  BY <1>1, StageFields
<1> HIDE DEF st
<1>3. ASSUME NEW i \in 1..4 PROVE Kept(Failed(st[i]), x)
  <2>1. PICK z \in LinkType : /\ z = st[i] /\ z.conn = y.conn
                             /\ z.srv.work = y.srv.work /\ z.srv.level = y.srv.level
    BY <1>2
  <2>2. LinkInv(z.conn, z.srv)
    BY <1>1, <2>1 DEF LinkInv
  <2>3. Failed(z) \in LinkType /\ Failed(z).conn = z.conn /\ Failed(z).srv = z.srv
    BY FailedFields
  <2> QED BY <1>1, <2>1, <2>2, <2>3 DEF Kept
<1>4. ASSUME NEW i \in 1..4 PROVE Kept(Lost(st[i]), x)
  <2>1. st[i] \in LinkType
    BY <1>2
  <2>2. /\ Lost(st[i]) \in LinkType /\ Lost(st[i]).srv = NewServer
        /\ Lost(st[i]).conn.place = st[i].conn.place
        /\ Lost(st[i]).conn.join_trx = st[i].conn.join_trx
        /\ Lost(st[i]).conn.queued_connect = st[i].conn.queued_connect
    BY <2>1, LostFields
  <2> QED BY <1>1, <1>2, <2>2, NewServerInv, LinkFields DEF Kept
<1>5. Kept(Sent(st[5]), x)
  <2>1. PICK z \in LinkType : /\ z = st[5] /\ z.conn = y.conn
                             /\ z.srv.work = y.srv.work
                             /\ z.srv.level = IF y.conn.queued_trx_start /\ InTrx(s)
                                              THEN z.srv.trx_isolation ELSE y.srv.level
    BY <1>2
  <2>2. z.srv.trx_isolation # None
    BY LinkFields, ServerFields, NoneAssumption
  <2>3. /\ Sent(z) \in LinkType
        /\ Sent(z).conn.place = z.conn.place
        /\ Sent(z).conn.queued_connect = z.conn.queued_connect
        /\ Sent(z).conn.server_lost = z.conn.server_lost
        /\ Sent(z).conn.join_trx = z.conn.join_trx
        /\ Sent(z).conn.queued_trx_start = FALSE
        /\ Sent(z).conn.queued.autocommit = None
        /\ Sent(z).srv = z.srv
    BY SentFields, NewFields
  <2>4. LinkInv(Sent(z).conn, Sent(z).srv)
    BY <1>1, <2>1, <2>2, <2>3 DEF LinkInv
  <2> QED BY <1>1, <2>1, <2>3, <2>4 DEF Kept
<1> QED BY <1>3, <1>4, <1>5 DEF st

\* spider_db_conn_queue_action commits nothing.
LEMMA QueueKept ==
  ASSUME NEW s \in Session, NEW x \in LinkType, LinkInv(x.conn, x.srv),
         NEW y \in QueueAction(s, x)
  PROVE  /\ Kept(y, x)
         /\ y.done = x.done
         /\ y.conn.trx_start = x.conn.trx_start
         /\ y.srv.work = x.srv.work \/ y.srv.work = {}
<1>1. PICK y0 \in Connect(s, x) :
           LET st == Stages(y0, Bulk(s, y0.conn))
           IN \/ y0.conn.server_lost /\ y = Failed(y0)
              \/ ~y0.conn.server_lost /\ y = Sent(st[5])
              \/ ~y0.conn.server_lost /\ May(s, "set_err") /\ \E i \in 1..4 : y = Failed(st[i])
              \/ ~y0.conn.server_lost /\ \E i \in 1..4 : y = Lost(st[i])
  BY QueueCases
<1> DEFINE st == Stages(y0, Bulk(s, y0.conn))
<1>2. /\ y0 \in LinkType /\ LinkInv(y0.conn, y0.srv)
      /\ y0.srv = x.srv /\ y0.done = x.done
      /\ y0.conn.place = x.conn.place
      /\ y0.conn.join_trx = x.conn.join_trx
      /\ y0.conn.trx_start = x.conn.trx_start
      /\ y0.conn.queued_connect => x.conn.queued_connect /\ y0.conn.server_lost
  BY ConnectFields DEF LinkInv
<1>3. \A i \in 1..5 : /\ st[i] \in LinkType
                      /\ st[i].conn = y0.conn
                      /\ st[i].done = y0.done
                      /\ st[i].srv.work = y0.srv.work
  BY <1>2, StageFields
<1>4. ~y0.conn.server_lost => /\ \A i \in 1..4 : Kept(Failed(st[i]), x) /\ Kept(Lost(st[i]), x)
                              /\ Kept(Sent(st[5]), x)
  BY StageKept
<1> HIDE DEF st
<1>5. CASE y0.conn.server_lost /\ y = Failed(y0)
  BY <1>2, <1>5, FailedFields DEF Kept
<1>6. CASE ~y0.conn.server_lost /\ y = Sent(st[5])
  <2>1. PICK z \in LinkType : /\ z = st[5] /\ z.conn = y0.conn
                             /\ z.done = y0.done /\ z.srv.work = y0.srv.work
    BY <1>3
  <2>2. /\ Sent(z).done = z.done /\ Sent(z).srv = z.srv
        /\ Sent(z).conn.trx_start = z.conn.trx_start
    BY SentFields
  <2> QED BY <1>2, <1>4, <1>6, <2>1, <2>2
<1>7. CASE ~y0.conn.server_lost /\ \E i \in 1..4 : y = Failed(st[i])
  <2>1. PICK i \in 1..4 : y = Failed(st[i])
    BY <1>7
  <2>2. PICK z \in LinkType : /\ z = st[i] /\ z.conn = y0.conn
                             /\ z.done = y0.done /\ z.srv.work = y0.srv.work
    BY <1>3
  <2>3. Failed(z).done = z.done /\ Failed(z).srv = z.srv /\ Failed(z).conn = z.conn
    BY FailedFields
  <2> QED BY <1>2, <1>4, <1>7, <2>1, <2>2, <2>3
<1>8. CASE ~y0.conn.server_lost /\ \E i \in 1..4 : y = Lost(st[i])
  <2>1. PICK i \in 1..4 : y = Lost(st[i])
    BY <1>8
  <2>2. PICK z \in LinkType : z = st[i] /\ z.conn = y0.conn /\ z.done = y0.done
    BY <1>3
  <2>3. /\ Lost(z).done = z.done /\ Lost(z).srv.work = {}
        /\ Lost(z).conn.trx_start = z.conn.trx_start
    BY LostFields, NewFields
  <2> QED BY <1>2, <1>4, <1>8, <2>1, <2>2, <2>3
<1> QED BY <1>1, <1>5, <1>6, <1>7, <1>8 DEF st

\* What is queued has been made, and is known.
LEMMA QueueOk ==
  ASSUME NEW s \in Session, NEW x \in LinkType, LinkInv(x.conn, x.srv),
         NEW y \in QueueAction(s, x), ~y.error
  PROVE  LET q == x.conn.queued
             k == IF x.conn.queued_connect THEN NoSettings ELSE x.conn.known
         IN /\ x.conn.server_lost => x.conn.queued_connect
            /\ y.conn.queued = NoSettings
            /\ ~y.conn.queued_trx_start /\ ~y.conn.queued_connect /\ ~y.conn.server_lost
            /\ y.conn.known.trx_isolation =
                 IF q.trx_isolation = None THEN k.trx_isolation ELSE q.trx_isolation
            /\ y.conn.known.autocommit =
                 IF q.autocommit = None THEN k.autocommit ELSE q.autocommit
            /\ y.conn.known.time_zone =
                 IF q.time_zone = None THEN k.time_zone ELSE q.time_zone
            /\ y.srv.trx_isolation = IF q.trx_isolation \in {None, k.trx_isolation}
                                     THEN x.srv.trx_isolation ELSE q.trx_isolation
            /\ y.srv.autocommit = IF q.autocommit \in {None, k.autocommit}
                                  THEN x.srv.autocommit ELSE q.autocommit
            /\ y.srv.time_zone = IF q.time_zone \in {None, k.time_zone}
                                 THEN x.srv.time_zone ELSE q.time_zone
            /\ y.srv.level = IF x.conn.queued_trx_start /\ InTrx(s)
                             THEN y.srv.trx_isolation ELSE x.srv.level
            /\ y.srv.work = x.srv.work
<1>1. PICK y0 \in Connect(s, x) :
           LET st == Stages(y0, Bulk(s, y0.conn))
           IN \/ y0.conn.server_lost /\ y = Failed(y0)
              \/ ~y0.conn.server_lost /\ y = Sent(st[5])
              \/ ~y0.conn.server_lost /\ May(s, "set_err") /\ \E i \in 1..4 : y = Failed(st[i])
              \/ ~y0.conn.server_lost /\ \E i \in 1..4 : y = Lost(st[i])
  BY QueueCases
<1> DEFINE st == Stages(y0, Bulk(s, y0.conn))
           q == x.conn.queued
           k == IF x.conn.queued_connect THEN NoSettings ELSE x.conn.known
<1>2. /\ y0 \in LinkType /\ LinkInv(y0.conn, y0.srv)
      /\ y0.srv = x.srv
      /\ y0.conn.queued_connect => y0.conn.server_lost
      /\ ~x.conn.queued_connect => y0.conn.server_lost = x.conn.server_lost
      /\ y0.conn.queued = q
      /\ y0.conn.known = k
      /\ y0.conn.queued_trx_start = x.conn.queued_trx_start
  BY ConnectFields DEF LinkInv
<1>3. \A i \in 1..5 : st[i] \in LinkType
  BY <1>2, StageFields
<1>4. ~y0.conn.server_lost /\ y = Sent(st[5])
  <2>1. \A z \in LinkType : Failed(z).error = TRUE /\ Lost(z).error = TRUE
    BY FailedFields, LostFields
  <2> HIDE DEF st
  <2> QED BY <1>1, <1>2, <1>3, <2>1 DEF st
<1>5. PICK z \in LinkType :
        /\ z = st[5] /\ z.conn = y0.conn
        /\ z.srv.work = x.srv.work
        /\ z.srv.trx_isolation = IF q.trx_isolation \in {None, k.trx_isolation}
                                 THEN x.srv.trx_isolation ELSE q.trx_isolation
        /\ z.srv.autocommit = IF q.autocommit \in {None, k.autocommit}
                              THEN x.srv.autocommit ELSE q.autocommit
        /\ z.srv.time_zone = IF q.time_zone \in {None, k.time_zone}
                             THEN x.srv.time_zone ELSE q.time_zone
        /\ z.srv.level = IF x.conn.queued_trx_start /\ InTrx(s)
                         THEN z.srv.trx_isolation ELSE x.srv.level
  <2> DEFINE p == y0.conn.queued
             j == y0.conn.known
  <2>1. /\ st[5] \in LinkType
        /\ st[5].conn = y0.conn
        /\ st[5].srv.work = y0.srv.work
        /\ st[5].srv.trx_isolation = IF p.trx_isolation \in {None, j.trx_isolation}
                                     THEN y0.srv.trx_isolation ELSE p.trx_isolation
        /\ st[5].srv.autocommit = IF p.autocommit \in {None, j.autocommit}
                                  THEN y0.srv.autocommit ELSE p.autocommit
        /\ st[5].srv.time_zone = IF p.time_zone \in {None, j.time_zone}
                                 THEN y0.srv.time_zone ELSE p.time_zone
        /\ st[5].srv.level = IF y0.conn.queued_trx_start /\ InTrx(s)
                             THEN st[5].srv.trx_isolation ELSE y0.srv.level
    BY <1>2, StageFields
  <2> HIDE DEF st, k
  <2> QED BY <1>2, <2>1
<1> HIDE DEF st, k
<1>6. /\ Sent(z).conn.queued_connect = z.conn.queued_connect
      /\ Sent(z).conn.server_lost = z.conn.server_lost
      /\ Sent(z).conn.queued_trx_start = FALSE
      /\ Sent(z).conn.queued = NoSettings
      /\ Sent(z).conn.known.trx_isolation =
           IF q.trx_isolation = None THEN k.trx_isolation ELSE q.trx_isolation
      /\ Sent(z).conn.known.autocommit =
           IF q.autocommit = None THEN k.autocommit ELSE q.autocommit
      /\ Sent(z).conn.known.time_zone =
           IF q.time_zone = None THEN k.time_zone ELSE q.time_zone
      /\ Sent(z).srv = z.srv
  <2> DEFINE p == z.conn.queued
             j == z.conn.known
  <2>1. /\ Sent(z).conn.queued_connect = z.conn.queued_connect
        /\ Sent(z).conn.server_lost = z.conn.server_lost
        /\ Sent(z).conn.queued_trx_start = FALSE
        /\ Sent(z).conn.queued = NoSettings
        /\ Sent(z).conn.known.trx_isolation =
             IF p.trx_isolation = None THEN j.trx_isolation ELSE p.trx_isolation
        /\ Sent(z).conn.known.autocommit =
             IF p.autocommit = None THEN j.autocommit ELSE p.autocommit
        /\ Sent(z).conn.known.time_zone =
             IF p.time_zone = None THEN j.time_zone ELSE p.time_zone
        /\ Sent(z).srv = z.srv
    BY SentFields
  <2>2. p = q /\ j = k
    BY <1>2, <1>5
  <2> QED BY <2>1, <2>2
<1> QED BY <1>2, <1>4, <1>5, <1>6 DEF k

\* It fails because the connection is lost, or because a setting is refused.
LEMMA QueueErr ==
  ASSUME NEW s \in Session, NEW x \in LinkType, LinkInv(x.conn, x.srv), ~x.error,
         NEW y \in QueueAction(s, x), y.error
  PROVE  /\ y.conn.server_lost \/ May(s, "set_err")
         /\ y.conn.queued = x.conn.queued
         /\ y.conn.queued_trx_start = x.conn.queued_trx_start
         /\ ~x.conn.queued_connect => y.conn.known = x.conn.known
<1>1. PICK y0 \in Connect(s, x) :
           LET st == Stages(y0, Bulk(s, y0.conn))
           IN \/ y0.conn.server_lost /\ y = Failed(y0)
              \/ ~y0.conn.server_lost /\ y = Sent(st[5])
              \/ ~y0.conn.server_lost /\ May(s, "set_err") /\ \E i \in 1..4 : y = Failed(st[i])
              \/ ~y0.conn.server_lost /\ \E i \in 1..4 : y = Lost(st[i])
  BY QueueCases
<1> DEFINE st == Stages(y0, Bulk(s, y0.conn))
<1>2. /\ y0 \in LinkType /\ LinkInv(y0.conn, y0.srv)
      /\ y0.error = x.error
      /\ y0.conn.queued = x.conn.queued
      /\ ~x.conn.queued_connect => y0.conn.known = x.conn.known
      /\ y0.conn.queued_trx_start = x.conn.queued_trx_start
  BY ConnectFields DEF LinkInv
<1>3. \A i \in 1..5 : st[i] \in LinkType /\ st[i].conn = y0.conn /\ st[i].error = y0.error
  BY <1>2, StageFields
<1> HIDE DEF st
<1>4. CASE y0.conn.server_lost /\ y = Failed(y0)
  BY <1>2, <1>4, FailedFields
<1>5. CASE y = Sent(st[5])
  <2>1. PICK z \in LinkType : z = st[5] /\ z.error = y0.error
    BY <1>3
  <2> QED BY <1>2, <1>5, <2>1, SentFields
<1>6. CASE May(s, "set_err") /\ \E i \in 1..4 : y = Failed(st[i])
  <2>1. PICK i \in 1..4 : y = Failed(st[i])
    BY <1>6
  <2>2. PICK z \in LinkType : z = st[i] /\ z.conn = y0.conn
    BY <1>3
  <2> QED BY <1>2, <1>6, <2>1, <2>2, FailedFields
<1>7. CASE \E i \in 1..4 : y = Lost(st[i])
  <2>1. PICK i \in 1..4 : y = Lost(st[i])
    BY <1>7
  <2>2. PICK z \in LinkType : z = st[i] /\ z.conn = y0.conn
    BY <1>3
  <2>3. /\ Lost(z).conn.server_lost = TRUE
        /\ Lost(z).conn.queued_trx_start = z.conn.queued_trx_start
        /\ Lost(z).conn.queued = z.conn.queued
        /\ Lost(z).conn.known = z.conn.known
    BY LostFields
  <2> QED BY <1>2, <2>1, <2>2, <2>3
<1> QED BY <1>1, <1>4, <1>5, <1>6, <1>7 DEF st
-----------------------------------------------------------------------------
(***************************************************************************)
(* A statement.                                                            *)
(***************************************************************************)

LEMMA JoinedRecord ==
  ASSUME NEW s \in Session, NEW r \in ConnType, TypeOK
  PROVE  LET j == Joined(s, r)
             start == ~r.join_trx /\ (thd[s].begin \/ thd[s].autocommit)
         IN /\ j \in ConnType
            /\ j.place = s
            /\ j.queued_connect = r.queued_connect
            /\ j.server_lost = r.server_lost
            /\ j.join_trx = TRUE
            /\ j.trx_start = (r.trx_start \/ start)
            /\ j.queued_trx_start = (r.queued_trx_start \/ start)
            /\ j.queued.trx_isolation = thd[s].trx_isolation
            /\ j.queued.autocommit = IF r.join_trx THEN r.queued.autocommit ELSE thd[s].autocommit
            /\ j.queued.time_zone = IF r.join_trx THEN r.queued.time_zone ELSE thd[s].time_zone
            /\ j.known = r.known
<1>1. /\ thd[s].begin \in BOOLEAN /\ thd[s].autocommit \in BOOLEAN
      /\ thd[s].trx_isolation \in Level /\ thd[s].time_zone \in Zone
  BY DEF TypeOK
<1> DEFINE start == ~r.join_trx /\ (thd[s].begin \/ thd[s].autocommit)
           iso == thd[s].trx_isolation
           ac == IF r.join_trx THEN r.queued.autocommit ELSE thd[s].autocommit
           tz == IF r.join_trx THEN r.queued.time_zone ELSE thd[s].time_zone
           q == [r.queued EXCEPT !.trx_isolation = iso, !.autocommit = ac, !.time_zone = tz]
<1>2. start \in BOOLEAN /\ ac \in BOOLEAN \cup {None} /\ tz \in Zone \cup {None}
  BY <1>1, ConnFields, SettingsFields
<1>3. Joined(s, r) = [r EXCEPT !.place = s, !.join_trx = TRUE,
                               !.trx_start = @ \/ start, !.queued_trx_start = @ \/ start,
                               !.queued = q]
  BY DEF Joined, ConnType, Settings
<1> HIDE DEF start, ac, tz
<1>4. /\ q \in Settings
      /\ q.trx_isolation = iso /\ q.autocommit = ac /\ q.time_zone = tz
  BY <1>1, <1>2 DEF ConnType, Settings
<1> HIDE DEF q
<1> QED BY <1>1, <1>2, <1>3, <1>4 DEF ConnType, start, ac, tz

LEMMA JoinedType ==
  ASSUME NEW s \in Session, NEW r \in ConnType, TypeOK
  PROVE  Joined(s, r) \in ConnType
BY JoinedRecord

LEMMA JoinedFields ==
  ASSUME NEW s \in Session, NEW c \in Conn, TypeOK
  PROVE  LET r == conn[c]
             j == Joined(s, r)
             start == ~r.join_trx /\ (thd[s].begin \/ thd[s].autocommit)
         IN /\ j.place = s
            /\ j.queued_connect = r.queued_connect
            /\ j.server_lost = r.server_lost
            /\ j.join_trx
            /\ j.trx_start <=> r.trx_start \/ start
            /\ j.queued_trx_start <=> r.queued_trx_start \/ start
            /\ j.queued.trx_isolation = thd[s].trx_isolation
            /\ j.queued.autocommit = IF r.join_trx THEN r.queued.autocommit ELSE thd[s].autocommit
            /\ j.queued.time_zone = IF r.join_trx THEN r.queued.time_zone ELSE thd[s].time_zone
            /\ j.known = r.known
<1>1. PICK r \in ConnType : r = conn[c]
  BY DEF TypeOK
<1> DEFINE j == Joined(s, r)
           start == ~r.join_trx /\ (thd[s].begin \/ thd[s].autocommit)
<1>2. /\ j \in ConnType
      /\ j.place = s
      /\ j.queued_connect = r.queued_connect
      /\ j.server_lost = r.server_lost
      /\ j.join_trx = TRUE
      /\ j.trx_start = (r.trx_start \/ start)
      /\ j.queued_trx_start = (r.queued_trx_start \/ start)
      /\ j.queued.trx_isolation = thd[s].trx_isolation
      /\ j.queued.autocommit = IF r.join_trx THEN r.queued.autocommit ELSE thd[s].autocommit
      /\ j.queued.time_zone = IF r.join_trx THEN r.queued.time_zone ELSE thd[s].time_zone
      /\ j.known = r.known
  BY JoinedRecord, Zenon
<1> QED BY <1>1, <1>2

LEMMA WriteFields ==
  ASSUME NEW x \in LinkType, NEW t \in Trx
  PROVE  LET y == Write(x, t)
             alone == x.srv.level = None /\ x.srv.autocommit
         IN /\ y \in LinkType
            /\ y.conn = x.conn /\ y.error = x.error
            /\ y.done = IF alone THEN x.done \cup {t} ELSE x.done
            /\ y.srv.work = IF alone THEN x.srv.work ELSE x.srv.work \cup {t}
            /\ y.srv.level = IF alone \/ x.srv.level # None THEN x.srv.level
                             ELSE x.srv.trx_isolation
            /\ y.srv.trx_isolation = x.srv.trx_isolation
            /\ y.srv.autocommit = x.srv.autocommit
            /\ y.srv.time_zone = x.srv.time_zone
<1>1. CASE x.srv.level = None /\ x.srv.autocommit
  BY <1>1 DEF Write, LinkType, ServerType
<1>2. CASE ~(x.srv.level = None /\ x.srv.autocommit)
  BY <1>2 DEF Write, LinkType, ServerType
<1> QED BY <1>1, <1>2

LEMMA StatementCases ==
  ASSUME NEW s \in Session, NEW x, NEW t, NEW y \in RunStatement(s, x, t)
  PROVE  \E z \in QueueAction(s, x) :
           \/ z.error /\ y = z
           \/ ~z.error /\ (y = Write(z, t) \/ y = Failed(z) \/ y = Lost(z) \/ y = Lost(Write(z, t)))
BY DEF RunStatement

\* The link of a connection that s is about to use.
LEMMA LinkOf ==
  ASSUME NEW r \in ConnType, NEW c \in Conn, TypeOK
  PROVE  /\ Link(r, c) \in LinkType
         /\ Link(r, c).conn = r /\ Link(r, c).srv = srv[c]
         /\ Link(r, c).done = {} /\ Link(r, c).error = FALSE
BY DEF Link, LinkType, TypeOK

\* Session s may take connection c for a statement.
Usable(s, c) ==
  /\ TypeOK /\ ConnInv(c) /\ SessionInv(s)
  /\ pc[s] \notin Loop
  /\ conn[c].place \in {"none", "pool", s}

LEMMA UsableFields ==
  ASSUME NEW s \in Session, NEW c \in Conn, Usable(s, c)
  PROVE  /\ conn[c] \in ConnType /\ srv[c] \in ServerType
         /\ thd[s].begin \in BOOLEAN /\ thd[s].autocommit \in BOOLEAN
         /\ thd[s].trx_isolation \in Level /\ thd[s].time_zone \in Zone
BY DEF Usable, TypeOK

\* It has not joined, or it is one of the connections of s.
LEMMA UsableCases ==
  ASSUME NEW s \in Session, NEW c \in Conn, Usable(s, c)
  PROVE  \/ /\ ~conn[c].join_trx
            /\ srv[c].level = None
            /\ ~conn[c].trx_start /\ ~conn[c].queued_trx_start
            /\ srv[c].work = {}
            /\ \/ conn[c] = NewConn /\ srv[c] = NewServer
               \/ Settled(conn[c], srv[c])
         \/ /\ conn[c].place = s /\ cur[s] # 0
            /\ HeldInv(s, conn[c], srv[c], TRUE, cur[s], FALSE)
<1>1. conn[c].place = "none" \/ conn[c].place = "pool" \/ conn[c].place = s
  BY DEF Usable
<1>2. CASE conn[c].place = "none"
  BY <1>2, NewFields, NewConnFields DEF Usable, ConnInv
<1>3. CASE conn[c].place = "pool"
  BY <1>3 DEF Usable, ConnInv, Settled, LinkInv
<1>4. CASE conn[c].place = s
  <2>1. Joins(s, c) = TRUE /\ is_error[s] = FALSE
    BY DEF Usable, SessionInv, Joins, TypeOK
  <2> QED BY <1>4, <2>1 DEF Usable, ConnInv
<1> QED BY <1>1, <1>2, <1>3, <1>4

LEMMA JoinedInv ==
  ASSUME NEW s \in Session, NEW c \in Conn, Usable(s, c)
  PROVE  LinkInv(Joined(s, conn[c]), srv[c])
<1> DEFINE r == conn[c]
           v == srv[c]
           j == Joined(s, r)
<1>0. LinkInv(r, v) /\ r \in ConnType
  BY UsableFields DEF Usable, ConnInv
<1>1. /\ j.queued_connect = r.queued_connect
      /\ j.server_lost = r.server_lost
      /\ r.join_trx => /\ j.queued_trx_start <=> r.queued_trx_start
                       /\ j.queued.autocommit = r.queued.autocommit
  BY JoinedFields DEF Usable
<1> HIDE DEF j
<1>2. CASE ~r.join_trx
  <2>1. v.level = None
    BY <1>2, UsableCases DEF HeldInv
  <2> QED BY <1>0, <1>1, <2>1 DEF LinkInv, j
<1>3. CASE r.join_trx
  BY <1>0, <1>1, <1>3 DEF LinkInv, j
<1> QED BY <1>2, <1>3

\* When the settings have been made, a statement is part of the transaction of s,
\* at its isolation level, or it is on its own if s is in none.
LEMMA QueryOk ==
  ASSUME NEW s \in Session, NEW c \in Conn, Usable(s, c),
         NEW z \in QueueAction(s, Link(Joined(s, conn[c]), c)), ~z.error
  PROVE  /\ Settled(z.conn, z.srv) /\ Begun(s, z.conn, z.srv)
         /\ ~conn[c].join_trx => z.srv.time_zone = thd[s].time_zone
<1> DEFINE r == conn[c]
           v == srv[c]
           j == Joined(s, r)
           q == j.queued
           k == IF j.queued_connect THEN NoSettings ELSE j.known
           start == ~r.join_trx /\ (thd[s].begin \/ thd[s].autocommit)
<1>t. TypeOK /\ r \in ConnType /\ v \in ServerType
  BY UsableFields DEF Usable
<1>1. /\ j.server_lost => j.queued_connect
      /\ z.conn.queued = NoSettings
      /\ ~z.conn.queued_trx_start /\ ~z.conn.queued_connect /\ ~z.conn.server_lost
      /\ z.conn.known.trx_isolation =
           IF q.trx_isolation = None THEN k.trx_isolation ELSE q.trx_isolation
      /\ z.conn.known.autocommit =
           IF q.autocommit = None THEN k.autocommit ELSE q.autocommit
      /\ z.conn.known.time_zone =
           IF q.time_zone = None THEN k.time_zone ELSE q.time_zone
      /\ z.srv.trx_isolation = IF q.trx_isolation \in {None, k.trx_isolation}
                               THEN v.trx_isolation ELSE q.trx_isolation
      /\ z.srv.autocommit = IF q.autocommit \in {None, k.autocommit}
                            THEN v.autocommit ELSE q.autocommit
      /\ z.srv.time_zone = IF q.time_zone \in {None, k.time_zone}
                           THEN v.time_zone ELSE q.time_zone
      /\ z.srv.level = IF j.queued_trx_start /\ InTrx(s)
                       THEN z.srv.trx_isolation ELSE v.level
      /\ z.conn.trx_start = j.trx_start
  <2>1. j \in ConnType
    BY <1>t, JoinedType
  <2>a. LinkInv(j, v)
    BY JoinedInv
  <2> HIDE DEF j
  <2>t. TypeOK
    BY <1>t
  <2>b. Link(j, c) \in LinkType
    BY <2>t, <2>1, LinkOf
  <2>2. /\ Link(j, c) \in LinkType
        /\ Link(j, c).conn = j /\ Link(j, c).srv = v
    BY <2>b DEF Link
  <2>3. LinkInv(Link(j, c).conn, Link(j, c).srv)
    BY <2>2, <2>a
  <2>4. z \in QueueAction(s, Link(j, c))
    BY DEF j
  <2> QED BY <2>2, <2>3, <2>4, QueueOk, QueueKept
<1>2. /\ j.queued_connect = r.queued_connect
      /\ j.server_lost = r.server_lost
      /\ j.trx_start <=> r.trx_start \/ start
      /\ j.queued_trx_start <=> r.queued_trx_start \/ start
      /\ q.trx_isolation = thd[s].trx_isolation
      /\ q.autocommit = IF r.join_trx THEN r.queued.autocommit ELSE thd[s].autocommit
      /\ q.time_zone = IF r.join_trx THEN r.queued.time_zone ELSE thd[s].time_zone
      /\ j.known = r.known
  BY <1>t, JoinedFields
<1>3. /\ thd[s].trx_isolation # None /\ thd[s].autocommit # None /\ thd[s].time_zone # None
      /\ v.trx_isolation # None /\ v.autocommit # None /\ v.time_zone # None
  BY <1>t, UsableFields, ServerFields, NoneAssumption
<1> HIDE DEF j
<1>4. CASE ~r.join_trx
  <2>1. /\ v.level = None
        /\ ~r.trx_start /\ ~r.queued_trx_start
        /\ k = NoSettings \/ /\ k.trx_isolation = v.trx_isolation
                             /\ k.autocommit = v.autocommit
                             /\ k.time_zone = v.time_zone
    BY <1>2, <1>4, UsableCases, NewConnFields DEF HeldInv, Settled
  <2>2. /\ z.srv.trx_isolation = thd[s].trx_isolation
        /\ z.srv.autocommit = thd[s].autocommit
        /\ z.srv.time_zone = thd[s].time_zone
    BY <1>1, <1>2, <1>3, <1>4, <2>1, NewFields
  <2>3. Settled(z.conn, z.srv)
    BY <1>1, <1>2, <1>3, <1>4, <2>2 DEF Settled
  <2>4. Begun(s, z.conn, z.srv)
    <3>1. start = (thd[s].begin \/ thd[s].autocommit)
      BY <1>4
    <3> HIDE DEF start
    <3>2. (z.conn.trx_start <=> start) /\ (j.queued_trx_start <=> start)
      BY <1>1, <1>2, <2>1, <3>1, UsableFields
    <3> QED BY <1>1, <1>3, <2>1, <2>2, <3>1, <3>2, UsableFields DEF Begun, InTrx
  <2> QED BY <2>2, <2>3, <2>4
<1>5. CASE r.join_trx
  <2>1. HeldInv(s, r, v, TRUE, cur[s], FALSE)
    BY <1>5, UsableCases
  <2>2. CASE ~r.server_lost
    <3>1. Settled(r, v) /\ Begun(s, r, v)
      BY <2>1, <2>2 DEF HeldInv
    <3>2. /\ k = r.known
          /\ q.autocommit = None /\ q.time_zone = None
          /\ r.known.trx_isolation = v.trx_isolation
          /\ r.known.autocommit = v.autocommit
          /\ r.known.time_zone = v.time_zone
          /\ v.trx_isolation = thd[s].trx_isolation
          /\ ~j.queued_trx_start
      BY <1>2, <1>5, <3>1, NewFields DEF Settled, Begun
    <3>3. /\ z.srv.trx_isolation = v.trx_isolation
          /\ z.srv.autocommit = v.autocommit
          /\ z.srv.time_zone = v.time_zone
          /\ z.srv.level = v.level
          /\ z.conn.known.trx_isolation = v.trx_isolation
          /\ z.conn.known.autocommit = v.autocommit
          /\ z.conn.known.time_zone = v.time_zone
      BY <1>1, <1>2, <1>3, <3>2
    <3>4. z.conn.trx_start <=> r.trx_start
      BY <1>1, <1>2, <1>5
    <3> QED BY <1>1, <1>5, <3>1, <3>3, <3>4 DEF Settled, Begun
  <2>3. CASE r.server_lost
    <3>1. r.queued_connect
      BY <1>1, <1>2, <2>3
    <3>2. Waiting(s, r) /\ v = NewServer /\ k = NoSettings
      BY <1>2, <1>5, <2>1, <3>1 DEF HeldInv, Usable, ConnInv, LinkInv
    <3>3. /\ z.srv.trx_isolation = thd[s].trx_isolation
          /\ z.srv.autocommit = r.queued.autocommit
          /\ z.srv.time_zone = r.queued.time_zone
          /\ z.conn.known.trx_isolation = z.srv.trx_isolation
          /\ z.conn.known.autocommit = z.srv.autocommit
          /\ z.conn.known.time_zone = z.srv.time_zone
      BY <1>1, <1>2, <1>3, <1>5, <3>2, NewFields DEF Waiting
    <3>4. Settled(z.conn, z.srv)
      BY <1>1, <3>3 DEF Settled
    <3>5. (z.conn.trx_start <=> r.trx_start) /\ (j.queued_trx_start <=> r.queued_trx_start)
      BY <1>1, <1>2, <1>5
    <3> QED BY <1>1, <1>3, <1>5, <3>2, <3>3, <3>4, <3>5, NewFields DEF Begun, Waiting
  <2> QED BY <2>2, <2>3
<1> QED BY <1>4, <1>5

\* The transaction of s goes on after a statement that has failed.
GoesOn(s) == InTrx(s) /\ s \notin TransRollback

LEMMA QueryKept ==
  ASSUME NEW s \in Session, NEW c \in Conn, Usable(s, c),
         NEW z \in QueueAction(s, Link(Joined(s, conn[c]), c))
  PROVE  /\ z \in LinkType /\ LinkInv(z.conn, z.srv)
         /\ z.conn.place = s /\ z.conn.join_trx
         /\ z.done = {}
         /\ z.conn.queued_connect => conn[c].queued_connect /\ z.conn.server_lost
         /\ z.conn.trx_start = Joined(s, conn[c]).trx_start
         /\ z.srv.work = srv[c].work \/ z.srv.work = {}
         /\ ~z.error => z.srv.work = srv[c].work
         /\ z.error =>
              /\ z.conn.server_lost \/ May(s, "set_err")
              /\ z.conn.queued = Joined(s, conn[c]).queued
              /\ z.conn.queued_trx_start = Joined(s, conn[c]).queued_trx_start
              /\ ~conn[c].queued_connect => z.conn.known = conn[c].known
<1> DEFINE j == Joined(s, conn[c])
           x == Link(j, c)
<1>t. TypeOK /\ conn[c] \in ConnType
  BY UsableFields DEF Usable
<1>1. j \in ConnType
  BY <1>t, JoinedType
<1>2. LinkInv(j, srv[c])
  BY JoinedInv
<1>3. j.place = s /\ j.join_trx /\ j.queued_connect = conn[c].queued_connect /\ j.known = conn[c].known
  BY <1>t, JoinedFields
<1> HIDE DEF j
<1>4. x \in LinkType
  BY <1>t, <1>1, LinkOf
<1>5. x.conn = j /\ x.srv = srv[c] /\ x.done = {} /\ ~x.error
  BY DEF Link
<1>6. z \in QueueAction(s, x)
  BY DEF j
<1> HIDE DEF x
<1>7. /\ Kept(z, x)
      /\ z.done = x.done
      /\ z.conn.trx_start = x.conn.trx_start
      /\ z.srv.work = x.srv.work \/ z.srv.work = {}
  BY <1>2, <1>4, <1>5, <1>6, QueueKept
<1>8. ~z.error => z.srv.work = x.srv.work
  BY <1>2, <1>4, <1>5, <1>6, QueueOk
<1>9. z.error => /\ z.conn.server_lost \/ May(s, "set_err")
                 /\ z.conn.queued = x.conn.queued
                 /\ z.conn.queued_trx_start = x.conn.queued_trx_start
                 /\ ~x.conn.queued_connect => z.conn.known = x.conn.known
  BY <1>2, <1>4, <1>5, <1>6, QueueErr
<1> QED BY <1>3, <1>5, <1>7, <1>8, <1>9 DEF Kept, j

\* What could not be sent is still queued.
LEMMA QueryWaiting ==
  ASSUME NEW s \in Session, NEW c \in Conn, Usable(s, c),
         NEW z \in QueueAction(s, Link(Joined(s, conn[c]), c)), z.error,
         InTrx(s), z.conn.queued_connect
  PROVE  Waiting(s, z.conn)
<1> DEFINE r == conn[c]
           j == Joined(s, r)
           start == ~r.join_trx /\ (thd[s].begin \/ thd[s].autocommit)
<1>1. /\ z.conn.queued = j.queued
      /\ z.conn.queued_trx_start = j.queued_trx_start
      /\ z.conn.trx_start = j.trx_start
      /\ r.queued_connect
  BY QueryKept
<1>2. /\ j.trx_start <=> r.trx_start \/ start
      /\ j.queued_trx_start <=> r.queued_trx_start \/ start
      /\ j.queued.autocommit = IF r.join_trx THEN r.queued.autocommit ELSE thd[s].autocommit
      /\ j.queued.time_zone = IF r.join_trx THEN r.queued.time_zone ELSE thd[s].time_zone
  BY JoinedFields DEF Usable
<1>3. thd[s].autocommit # None /\ thd[s].time_zone # None
  BY UsableFields, NoneAssumption
<1>4. /\ j.queued.autocommit # None /\ j.queued.time_zone # None
      /\ IF j.trx_start THEN j.queued_trx_start ELSE j.queued.autocommit = FALSE
  <2>1. CASE ~r.join_trx
    <3>1. ~r.trx_start /\ ~r.queued_trx_start
      BY <2>1, UsableCases DEF HeldInv
    <3> QED BY <1>2, <1>3, <2>1, <3>1, UsableFields
  <2>2. CASE r.join_trx
    <3>1. Waiting(s, r)
      BY <1>1, <2>2, UsableCases DEF HeldInv
    <3> QED BY <1>2, <2>2, <3>1 DEF Waiting
  <2> QED BY <2>1, <2>2
<1> QED BY <1>1, <1>4 DEF Waiting

\* A connection on which a statement of transaction t can be executed.
Ready(s, z, t) ==
  /\ z \in LinkType /\ LinkInv(z.conn, z.srv)
  /\ z.conn.place = s /\ z.conn.join_trx
  /\ Settled(z.conn, z.srv) /\ Begun(s, z.conn, z.srv)
  /\ z.done = {}
  /\ z.srv.work \subseteq {t}
  /\ z.srv.work # {} => InTrx(s)

LEMMA ReadyHeld ==
  ASSUME NEW s \in Session, NEW t \in Trx, NEW z, Ready(s, z, t), NEW e \in BOOLEAN
  PROVE  HeldInv(s, z.conn, z.srv, TRUE, t, e)
<1>1. z.conn.join_trx = TRUE
  BY LinkFields, ConnFields DEF Ready
<1>2. ~z.conn.queued_connect
  BY DEF Ready, Settled
<1> QED BY <1>1, <1>2 DEF Ready, HeldInv

\* A statement is part of the transaction, or is committed at once.
LEMMA WriteReady ==
  ASSUME NEW s \in Session, NEW t \in Trx, NEW z, Ready(s, z, t), TypeOK
  PROVE  LET y == Write(z, t)
         IN /\ y \in LinkType /\ LinkInv(y.conn, y.srv)
            /\ y.conn = z.conn /\ y.error = z.error
            /\ Settled(y.conn, y.srv) /\ Begun(s, y.conn, y.srv)
            /\ y.srv.trx_isolation = thd[s].trx_isolation
            /\ y.srv.time_zone = z.srv.time_zone
            /\ InTrx(s) => /\ y.done = {} /\ y.srv.work = {t}
                           /\ y.srv.level = thd[s].trx_isolation
            /\ ~InTrx(s) => y.done = {t} /\ y.srv.work = {} /\ y.srv.level = None
<1> DEFINE y == Write(z, t)
           alone == z.srv.level = None /\ z.srv.autocommit
<1>1. alone <=> ~InTrx(s)
  BY DEF Ready, Begun
<1>2. /\ y \in LinkType
      /\ y.conn = z.conn /\ y.error = z.error
      /\ y.done = IF alone THEN z.done \cup {t} ELSE z.done
      /\ y.srv.work = IF alone THEN z.srv.work ELSE z.srv.work \cup {t}
      /\ y.srv.level = IF alone \/ z.srv.level # None THEN z.srv.level
                       ELSE z.srv.trx_isolation
      /\ y.srv.trx_isolation = z.srv.trx_isolation
      /\ y.srv.autocommit = z.srv.autocommit
      /\ y.srv.time_zone = z.srv.time_zone
  BY WriteFields, Zenon DEF Ready
<1> HIDE DEF y
<1>3. /\ z.done = {} /\ z.srv.work \subseteq {t}
      /\ z.srv.trx_isolation = thd[s].trx_isolation
      /\ thd[s].trx_isolation # None
      /\ InTrx(s) => z.srv.level \in {None, thd[s].trx_isolation}
      /\ ~InTrx(s) => z.srv.work = {} /\ z.srv.level = None
  BY NoneAssumption DEF Ready, Begun, TypeOK
<1>4. InTrx(s) => y.done = {} /\ y.srv.work = {t} /\ y.srv.level = thd[s].trx_isolation
  BY <1>1, <1>2, <1>3
<1>5. ~InTrx(s) => y.done = {t} /\ y.srv.work = {} /\ y.srv.level = None
  BY <1>1, <1>2, <1>3
<1>6. Settled(y.conn, y.srv)
  BY <1>2 DEF Ready, Settled
<1>7. Begun(s, y.conn, y.srv)
  BY <1>2, <1>3, <1>4, <1>5 DEF Ready, Begun
<1>8. LinkInv(y.conn, y.srv)
  <2>1. /\ y.conn.queued.autocommit = None /\ ~y.conn.queued_trx_start
        /\ ~y.conn.queued_connect /\ ~y.conn.server_lost
    BY <1>6, NewFields DEF Settled
  <2> QED BY <1>3, <1>4, <1>5, <2>1 DEF LinkInv
<1> QED BY <1>2, <1>3, <1>4, <1>5, <1>6, <1>7, <1>8 DEF y

\* A lost connection, with nothing on the other side.
LEMMA LostHeld ==
  ASSUME NEW s \in Session, NEW t \in Trx, NEW z \in LinkType,
         ~z.conn.queued_connect, NEW e \in BOOLEAN
  PROVE  LET y == Lost(z)
         IN /\ y \in LinkType /\ LinkInv(y.conn, y.srv)
            /\ HeldInv(s, y.conn, y.srv, z.conn.join_trx, t, e)
<1>1. /\ Lost(z) \in LinkType
      /\ Lost(z).conn.queued_connect = z.conn.queued_connect
      /\ Lost(z).conn.server_lost = TRUE
      /\ Lost(z).conn.join_trx = z.conn.join_trx
      /\ Lost(z).srv = NewServer
  BY LostFields
<1>2. LinkInv(Lost(z).conn, Lost(z).srv)
  BY <1>1, NewServerInv, LinkFields
<1> QED BY <1>1, <1>2, NewFields DEF HeldInv

\* COMMIT would be sent.
LEMMA BegunEnds ==
  ASSUME NEW s \in Session, InTrx(s), NEW r \in ConnType, NEW v \in ServerType,
         Settled(r, v), Begun(s, r, v)
  PROVE  ToEnd(r) /\ ~NotStarted(r)
BY ServerFields, ConnFields DEF Settled, Begun, ToEnd, NotStarted

\* What a statement of transaction t leaves behind, link y, on connection c.
AfterStatement(s, c, y, t) ==
  /\ y \in LinkType /\ LinkInv(y.conn, y.srv) /\ y.conn.place = s
  /\ HeldInv(s, y.conn, y.srv, TRUE, t, y.error /\ ~GoesOn(s))
  /\ y.done \subseteq {t}
  /\ InTrx(s) => y.done = {}
  /\ ~y.error => t \in y.done \/ (InTrx(s) /\ WillCommit(y.conn, y.srv, t))
  /\ conn[c].place = s /\ InTrx(s) /\ WillCommit(conn[c], srv[c], t) =>
       (y.error /\ ~GoesOn(s)) \/ WillCommit(y.conn, y.srv, t)
  /\ ~y.error => /\ y.srv.trx_isolation = thd[s].trx_isolation
                 /\ y.srv.level = IF InTrx(s) THEN thd[s].trx_isolation ELSE None
                 /\ ~conn[c].join_trx => y.srv.time_zone = thd[s].time_zone

\* The settings were made.
LEMMA SettledStatement ==
  ASSUME NEW s \in Session, NEW c \in Conn, Usable(s, c), NEW t \in Trx, cur[s] # 0 => t = cur[s],
         NEW z \in QueueAction(s, Link(Joined(s, conn[c]), c)), ~z.error
  PROVE  /\ Ready(s, z, t)
         /\ InTrx(s) => ToEnd(z.conn) /\ ~NotStarted(z.conn)
         /\ conn[c].place = s /\ WillCommit(conn[c], srv[c], t) => t \in z.srv.work
         /\ ~conn[c].join_trx => z.srv.time_zone = thd[s].time_zone
<1>1. /\ Settled(z.conn, z.srv) /\ Begun(s, z.conn, z.srv)
      /\ ~conn[c].join_trx => z.srv.time_zone = thd[s].time_zone
  BY QueryOk
<1>2. /\ z \in LinkType /\ LinkInv(z.conn, z.srv)
      /\ z.conn.place = s /\ z.conn.join_trx
      /\ z.done = {}
      /\ z.srv.work = srv[c].work
  BY QueryKept
<1>3. /\ srv[c].work \subseteq {t}
      /\ srv[c].work # {} => InTrx(s)
  BY UsableCases DEF HeldInv
<1>4. InTrx(s) => ToEnd(z.conn) /\ ~NotStarted(z.conn)
  BY <1>1, <1>2, LinkFields, BegunEnds
<1>5. conn[c].server_lost => conn[c].queued_connect
  <2> DEFINE j == Joined(s, conn[c])
  <2>1. j \in ConnType /\ TypeOK
    BY UsableFields, JoinedType DEF Usable
  <2>2. j.queued_connect = conn[c].queued_connect /\ j.server_lost = conn[c].server_lost
    BY <2>1, JoinedFields
  <2>3. LinkInv(j, srv[c])
    BY JoinedInv
  <2> HIDE DEF j
  <2>4. Link(j, c) \in LinkType
    BY <2>1, LinkOf
  <2>5. Link(j, c).conn = j /\ Link(j, c).srv = srv[c]
    BY DEF Link
  <2>6. z \in QueueAction(s, Link(j, c))
    BY DEF j
  <2> DEFINE x == Link(j, c)
  <2> HIDE DEF x
  <2>7. x.conn.server_lost => x.conn.queued_connect
    <3>1. x \in LinkType /\ LinkInv(x.conn, x.srv) /\ z \in QueueAction(s, x)
      BY <2>3, <2>4, <2>5, <2>6 DEF x
    <3> QED BY <3>1, QueueOk
  <2> QED BY <2>2, <2>5, <2>7 DEF x
<1> QED BY <1>1, <1>2, <1>3, <1>4, <1>5 DEF Ready, WillCommit, NotStarted

\* They could not be made.
LEMMA UnsettledStatement ==
  ASSUME RefusedIsRolledBack,
         NEW s \in Session, NEW c \in Conn, Usable(s, c), NEW t \in Trx, cur[s] # 0 => t = cur[s],
         NEW z \in QueueAction(s, Link(Joined(s, conn[c]), c)), z.error
  PROVE  AfterStatement(s, c, z, t)
<1>1. /\ z \in LinkType /\ LinkInv(z.conn, z.srv)
      /\ z.conn.place = s /\ z.conn.join_trx
      /\ z.done = {}
      /\ z.conn.queued_connect => conn[c].queued_connect /\ z.conn.server_lost
      /\ z.conn.trx_start = Joined(s, conn[c]).trx_start
      /\ z.srv.work = srv[c].work \/ z.srv.work = {}
      /\ z.conn.server_lost \/ May(s, "set_err")
      /\ z.conn.queued_trx_start = Joined(s, conn[c]).queued_trx_start
      /\ ~conn[c].queued_connect => z.conn.known = conn[c].known
  BY QueryKept
<1>2. /\ srv[c].work \subseteq {t}
      /\ srv[c].work # {} => InTrx(s)
  BY UsableCases DEF HeldInv
<1>3. GoesOn(s) => z.conn.server_lost
  BY <1>1 DEF RefusedIsRolledBack, GoesOn
<1>4. InTrx(s) /\ z.conn.queued_connect => Waiting(s, z.conn)
  BY QueryWaiting
<1>5. HeldInv(s, z.conn, z.srv, TRUE, t, z.error /\ ~GoesOn(s))
  <2>1. z.conn.join_trx = TRUE
    BY <1>1, LinkFields, ConnFields
  <2>2. z.srv.work \subseteq {t} /\ (z.srv.work # {} => InTrx(s))
    BY <1>1, <1>2
  <2>3. ~(z.error /\ ~GoesOn(s)) => z.conn.server_lost /\ InTrx(s)
    BY <1>3 DEF GoesOn
  <2> QED BY <1>1, <1>4, <2>1, <2>2, <2>3 DEF HeldInv
<1>6. WillCommit(conn[c], srv[c], t) /\ GoesOn(s) => WillCommit(z.conn, z.srv, t)
  <2>1. conn[c].join_trx =>
          /\ Joined(s, conn[c]).trx_start <=> conn[c].trx_start
          /\ Joined(s, conn[c]).queued_trx_start <=> conn[c].queued_trx_start
    BY JoinedFields DEF Usable
  <2> QED BY <1>1, <1>3, <2>1 DEF WillCommit, ToEnd, NotStarted
<1> QED BY <1>1, <1>5, <1>6 DEF AfterStatement

\* A statement leaves the invariant of its connection.
LEMMA StatementInv ==
  ASSUME RefusedIsRolledBack,
         NEW s \in Session, NEW c \in Conn, Usable(s, c), NEW t \in Trx, cur[s] # 0 => t = cur[s],
         NEW y \in RunStatement(s, Link(Joined(s, conn[c]), c), t)
  PROVE  AfterStatement(s, c, y, t)
<1>1. PICK z \in QueueAction(s, Link(Joined(s, conn[c]), c)) :
        \/ z.error /\ y = z
        \/ ~z.error /\ (y = Write(z, t) \/ y = Failed(z) \/ y = Lost(z) \/ y = Lost(Write(z, t)))
  BY StatementCases
<1>2. CASE z.error
  BY <1>1, <1>2, UnsettledStatement
<1>3. CASE ~z.error
  <2>1. /\ Ready(s, z, t)
        /\ InTrx(s) => ToEnd(z.conn) /\ ~NotStarted(z.conn)
        /\ conn[c].place = s /\ WillCommit(conn[c], srv[c], t) => t \in z.srv.work
        /\ ~conn[c].join_trx => z.srv.time_zone = thd[s].time_zone
    BY <1>3, SettledStatement
  <2> DEFINE w == Write(z, t)
  <2>2. /\ w \in LinkType /\ LinkInv(w.conn, w.srv)
        /\ w.conn = z.conn /\ w.error = z.error
        /\ Settled(w.conn, w.srv) /\ Begun(s, w.conn, w.srv)
        /\ w.srv.trx_isolation = thd[s].trx_isolation
        /\ w.srv.time_zone = z.srv.time_zone
        /\ InTrx(s) => /\ w.done = {} /\ w.srv.work = {t}
                       /\ w.srv.level = thd[s].trx_isolation
        /\ ~InTrx(s) => w.done = {t} /\ w.srv.work = {} /\ w.srv.level = None
    BY <2>1, WriteReady DEF Usable
  <2> HIDE DEF w
  <2>r. /\ z \in LinkType /\ LinkInv(z.conn, z.srv)
        /\ z.conn.place = s /\ z.conn.join_trx /\ z.conn.join_trx = TRUE
        /\ z.done = {} /\ ~z.conn.queued_connect /\ ~z.conn.server_lost
    BY <2>1, LinkFields, ConnFields DEF Ready, Settled
  <2>3. CASE y = w
    <3>1. HeldInv(s, w.conn, w.srv, TRUE, t, w.error /\ ~GoesOn(s))
      <4>1. w.srv.work \subseteq {t} /\ (w.srv.work # {} => InTrx(s))
        BY <2>2
      <4> QED BY <2>2, <2>r, <4>1 DEF HeldInv
    <3>2. w.done \subseteq {t}
      BY <2>2
    <3>3. InTrx(s) => WillCommit(w.conn, w.srv, t)
      BY <2>1, <2>2, <2>r DEF WillCommit
    <3>4. ~InTrx(s) => t \in w.done
      BY <2>2
    <3>5. w.srv.level = IF InTrx(s) THEN thd[s].trx_isolation ELSE None
      BY <2>2
    <3>6. w.conn.place = s
      BY <2>2, <2>r
    <3>7. ~conn[c].join_trx => w.srv.time_zone = thd[s].time_zone
      BY <2>1, <2>2
    <3>8. w \in LinkType /\ LinkInv(w.conn, w.srv) /\ (InTrx(s) => w.done = {})
          /\ w.srv.trx_isolation = thd[s].trx_isolation
      BY <2>2
    <3>9. t \in w.done \/ (InTrx(s) /\ WillCommit(w.conn, w.srv, t))
      BY <3>3, <3>4
    <3>a. /\ ~w.error => t \in w.done \/ (InTrx(s) /\ WillCommit(w.conn, w.srv, t))
          /\ conn[c].place = s /\ InTrx(s) /\ WillCommit(conn[c], srv[c], t) =>
               (w.error /\ ~GoesOn(s)) \/ WillCommit(w.conn, w.srv, t)
          /\ ~w.error => /\ w.srv.trx_isolation = thd[s].trx_isolation
                         /\ w.srv.level = IF InTrx(s) THEN thd[s].trx_isolation ELSE None
                         /\ ~conn[c].join_trx => w.srv.time_zone = thd[s].time_zone
      BY <3>3, <3>5, <3>7, <3>8, <3>9
    <3>b. AfterStatement(s, c, w, t)
      BY <3>1, <3>2, <3>6, <3>8, <3>a DEF AfterStatement
    <3> QED BY <2>3, <3>b
  <2>4. CASE y = Failed(z)
    <3>1. /\ y \in LinkType /\ y.conn = z.conn /\ y.srv = z.srv
          /\ y.done = z.done /\ y.error = TRUE
      BY <2>4, <2>r, FailedFields
    <3>2. HeldInv(s, z.conn, z.srv, TRUE, t, y.error /\ ~GoesOn(s))
      BY <2>1, <3>1, ReadyHeld
    <3> QED BY <2>1, <2>r, <3>1, <3>2 DEF AfterStatement, WillCommit
  <2>5. ASSUME NEW u \in {z, w}, y = Lost(u)
        PROVE  AfterStatement(s, c, y, t)
    <3>1. u \in LinkType /\ u.conn = z.conn /\ u.done \subseteq {t} /\ (InTrx(s) => u.done = {})
      BY <2>2, <2>r
    <3>2. /\ y.conn.place = u.conn.place
          /\ y.conn.queued_connect = u.conn.queued_connect
          /\ y.conn.server_lost = TRUE
          /\ y.conn.join_trx = u.conn.join_trx
          /\ y.conn.trx_start = u.conn.trx_start
          /\ y.conn.queued_trx_start = u.conn.queued_trx_start
          /\ y.conn.known = u.conn.known
          /\ y.done = u.done /\ y.error = TRUE
      BY <2>5, <3>1, LostFields
    <3>3. /\ y \in LinkType /\ LinkInv(y.conn, y.srv)
          /\ HeldInv(s, y.conn, y.srv, TRUE, t, y.error /\ ~GoesOn(s))
      BY <2>5, <2>r, <3>1, LostHeld
    <3>4. InTrx(s) => WillCommit(y.conn, y.srv, t)
      BY <2>1, <2>r, <3>1, <3>2 DEF WillCommit, ToEnd, NotStarted
    <3> QED BY <2>r, <3>1, <3>2, <3>3, <3>4 DEF AfterStatement
  <2> QED BY <1>1, <1>3, <2>3, <2>4, <2>5 DEF w
<1> QED BY <1>2, <1>3
-----------------------------------------------------------------------------
(***************************************************************************)
(* The end of a transaction on one connection.                             *)
(***************************************************************************)

\* The loop of s is about to visit c.
Ending(s, c) ==
  /\ TypeOK /\ ConnInv(c)
  /\ pc[s] \in Loop /\ c \in todo[s]

LEMMA EndingFields ==
  ASSUME NEW s \in Session, NEW c \in Conn, Ending(s, c)
  PROVE  /\ conn[c] \in ConnType /\ srv[c] \in ServerType
         /\ conn[c].place = s
         /\ cur[s] \in Trx
         /\ LinkInv(conn[c], srv[c])
         /\ HeldInv(s, conn[c], srv[c], TRUE, cur[s], is_error[s])
<1>1. conn[c].place = s
  BY DEF Ending, TypeOK, Held
<1>2. Joins(s, c) = TRUE
  BY DEF Ending, Joins
<1>3. conn[c] \in ConnType /\ srv[c] \in ServerType /\ cur[s] \in 0..MaxTrx
  BY DEF Ending, TypeOK
<1>4. cur[s] # 0
  BY <1>1 DEF Ending, ConnInv
<1>5. cur[s] \in Trx
  BY <1>3, <1>4, BoundAssumption DEF Trx
<1>6. /\ LinkInv(conn[c], srv[c])
      /\ HeldInv(s, conn[c], srv[c], Joins(s, c), cur[s], is_error[s])
  BY <1>1 DEF Ending, ConnInv
<1> QED BY <1>1, <1>2, <1>3, <1>5, <1>6

\* What it leaves behind, link y, if e says whether there was an error.
AfterEnd(s, y, e) ==
  /\ y \in LinkType /\ LinkInv(y.conn, y.srv) /\ y.conn.place = s
  /\ y.conn.queued_connect => y.conn.server_lost
  /\ y.srv.work \subseteq {cur[s]}
  /\ y.srv.work # {} => InTrx(s)
  /\ y.done \subseteq {cur[s]}
  /\ ~e /\ ~y.conn.server_lost =>
       Settled(y.conn, y.srv) /\ y.srv.level = None /\ ~y.conn.trx_start

LEMMA LeaveHeld ==
  ASSUME NEW s \in Session, NEW y, NEW e, AfterEnd(s, y, e)
  PROVE  LET w == [y EXCEPT !.conn.join_trx = FALSE]
         IN /\ w \in LinkType /\ LinkInv(w.conn, w.srv) /\ w.conn.place = s
            /\ w.srv = y.srv /\ w.done = y.done
            /\ HeldInv(s, w.conn, w.srv, FALSE, cur[s], e)
<1> DEFINE w == [y EXCEPT !.conn.join_trx = FALSE]
<1>1. /\ w \in LinkType
      /\ w.srv = y.srv /\ w.done = y.done
      /\ w.conn.place = y.conn.place
      /\ w.conn.queued_connect = y.conn.queued_connect
      /\ w.conn.server_lost = y.conn.server_lost
      /\ w.conn.join_trx = FALSE
      /\ w.conn.trx_start = y.conn.trx_start
      /\ w.conn.queued_trx_start = y.conn.queued_trx_start
      /\ w.conn.queued = y.conn.queued
      /\ w.conn.known = y.conn.known
  BY DEF AfterEnd, LinkType, ConnType
<1> HIDE DEF w
<1>2. LinkInv(w.conn, w.srv)
  BY <1>1 DEF AfterEnd, LinkInv
<1>3. HeldInv(s, w.conn, w.srv, FALSE, cur[s], e)
  BY <1>1 DEF AfterEnd, HeldInv, Settled
<1> QED BY <1>1, <1>2, <1>3 DEF AfterEnd, w

LEMMA RollbackAtFields ==
  ASSUME NEW x \in LinkType
  PROVE  LET y == RollbackAt(x)
         IN /\ SameConn(y, x)
            /\ y.done = x.done
            /\ y.srv.work = {} /\ y.srv.level = None
            /\ y.srv.trx_isolation = x.srv.trx_isolation
            /\ y.srv.autocommit = x.srv.autocommit
            /\ y.srv.time_zone = x.srv.time_zone
BY DEF RollbackAt, SameConn, LinkType, ServerType

LEMMA NoTrxFields ==
  ASSUME NEW x \in LinkType
  PROVE  LET y == NoTrx(x)
         IN /\ y \in LinkType
            /\ y.srv = x.srv /\ y.done = x.done /\ y.error = x.error
            /\ y.conn.place = x.conn.place
            /\ y.conn.queued_connect = x.conn.queued_connect
            /\ y.conn.server_lost = x.conn.server_lost
            /\ y.conn.trx_start = FALSE
            /\ y.conn.queued_trx_start = x.conn.queued_trx_start
            /\ y.conn.queued = x.conn.queued
            /\ y.conn.known = x.conn.known
BY DEF NoTrx, LinkType, ConnType

LEMMA NoTrxEnd ==
  ASSUME NEW s \in Session, NEW y, NEW e, NEW d, AfterEnd(s, y, d),
         ~e /\ ~y.conn.server_lost => Settled(y.conn, y.srv) /\ y.srv.level = None
  PROVE  /\ AfterEnd(s, NoTrx(y), e)
         /\ NoTrx(y).done = y.done /\ NoTrx(y).error = y.error
<1> DEFINE w == NoTrx(y)
<1>1. /\ w \in LinkType
      /\ w.srv = y.srv /\ w.done = y.done /\ w.error = y.error
      /\ w.conn.place = y.conn.place
      /\ w.conn.queued_connect = y.conn.queued_connect
      /\ w.conn.server_lost = y.conn.server_lost
      /\ w.conn.trx_start = FALSE
      /\ w.conn.queued_trx_start = y.conn.queued_trx_start
      /\ w.conn.queued = y.conn.queued
      /\ w.conn.known = y.conn.known
  BY NoTrxFields DEF AfterEnd
<1> HIDE DEF w
<1>2. LinkInv(w.conn, w.srv)
  BY <1>1 DEF AfterEnd, LinkInv
<1>3. AfterEnd(s, w, e)
  BY <1>1, <1>2 DEF AfterEnd, Settled
<1> QED BY <1>1, <1>3 DEF w

LEMMA SendEndCases ==
  ASSUME NEW s \in Session, NEW x, NEW how, NEW y \in SendEnd(s, x, how)
  PROVE  \E z \in QueueAction(s, x) :
           LET ended == IF how = "commit" THEN CommitAt(z) ELSE RollbackAt(z)
           IN \/ z.error /\ y = z
              \/ ~z.error /\ (y = ended \/ y = Failed(z) \/ y = Lost(z) \/ y = Lost(ended))
BY DEF SendEnd

\* Nothing is queued on a connection whose transaction is to be ended.
LEMMA EndingLink ==
  ASSUME NEW s \in Session, NEW c \in Conn, Ending(s, c),
         NEW z \in QueueAction(s, Link(conn[c], c))
  PROVE  /\ AfterEnd(s, z, TRUE) /\ z.done = {}
         /\ ~z.error /\ ~NotStarted(conn[c]) =>
              /\ ~conn[c].server_lost /\ ~z.conn.server_lost
              /\ z.srv.work = srv[c].work
         /\ ~z.error /\ ~NotStarted(conn[c]) /\ ~is_error[s] => Settled(z.conn, z.srv)
<1> DEFINE r == conn[c]
           v == srv[c]
           x == Link(r, c)
<1>1. /\ r \in ConnType /\ v \in ServerType
      /\ r.place = s /\ cur[s] \in Trx
      /\ LinkInv(r, v)
      /\ HeldInv(s, r, v, TRUE, cur[s], is_error[s])
  BY EndingFields
<1>2. /\ x \in LinkType /\ x.conn = r /\ x.srv = v
      /\ x.done = {} /\ ~x.error
  <2>1. TypeOK /\ r \in ConnType
    BY <1>1 DEF Ending
  <2>2. x \in LinkType
    BY <2>1, LinkOf, Zenon
  <2> QED BY <2>2 DEF Link
<1> HIDE DEF x
<1>3. z \in QueueAction(s, x)
  BY DEF x
<1>4. /\ Kept(z, x)
      /\ z.done = x.done
      /\ z.srv.work = x.srv.work \/ z.srv.work = {}
  BY <1>1, <1>2, <1>3, QueueKept
<1>5. AfterEnd(s, z, TRUE) /\ z.done = {}
  <2>1. z.srv.work \subseteq {cur[s]} /\ (z.srv.work # {} => InTrx(s))
    BY <1>1, <1>2, <1>4 DEF HeldInv
  <2> QED BY <1>1, <1>2, <1>4, <2>1 DEF AfterEnd, Kept
<1>6. ASSUME ~z.error, ~NotStarted(r)
      PROVE  /\ ~r.server_lost /\ ~z.conn.server_lost
             /\ z.srv.work = v.work
             /\ ~is_error[s] => Settled(z.conn, z.srv)
  <2> DEFINE q == x.conn.queued
             k == IF x.conn.queued_connect THEN NoSettings ELSE x.conn.known
  <2>1. /\ x.conn.server_lost => x.conn.queued_connect
        /\ z.conn.queued = NoSettings
        /\ ~z.conn.queued_trx_start /\ ~z.conn.queued_connect /\ ~z.conn.server_lost
        /\ z.conn.known.trx_isolation =
             IF q.trx_isolation = None THEN k.trx_isolation ELSE q.trx_isolation
        /\ z.conn.known.autocommit =
             IF q.autocommit = None THEN k.autocommit ELSE q.autocommit
        /\ z.conn.known.time_zone =
             IF q.time_zone = None THEN k.time_zone ELSE q.time_zone
        /\ z.srv.trx_isolation = IF q.trx_isolation \in {None, k.trx_isolation}
                                 THEN x.srv.trx_isolation ELSE q.trx_isolation
        /\ z.srv.autocommit = IF q.autocommit \in {None, k.autocommit}
                              THEN x.srv.autocommit ELSE q.autocommit
        /\ z.srv.time_zone = IF q.time_zone \in {None, k.time_zone}
                             THEN x.srv.time_zone ELSE q.time_zone
        /\ z.srv.work = x.srv.work
    BY <1>1, <1>2, <1>3, <1>6, QueueOk
  <2>2. ~r.queued_connect /\ ~r.server_lost
    BY <1>2, <1>6, <2>1 DEF NotStarted
  <2>3. ASSUME ~is_error[s] PROVE Settled(z.conn, z.srv)
    <3>1. Settled(r, v)
      BY <1>1, <2>2, <2>3 DEF HeldInv
    <3>2. /\ q = NoSettings /\ k = r.known
          /\ r.known.trx_isolation = v.trx_isolation
          /\ r.known.autocommit = v.autocommit
          /\ r.known.time_zone = v.time_zone
      BY <1>2, <2>2, <3>1 DEF Settled
    <3>3. /\ z.srv.trx_isolation = v.trx_isolation
          /\ z.srv.autocommit = v.autocommit
          /\ z.srv.time_zone = v.time_zone
          /\ z.conn.known.trx_isolation = v.trx_isolation
          /\ z.conn.known.autocommit = v.autocommit
          /\ z.conn.known.time_zone = v.time_zone
      BY <1>2, <2>1, <3>2, NewFields
    <3> QED BY <2>1, <3>3 DEF Settled
  <2> QED BY <1>2, <2>1, <2>2, <2>3
<1> QED BY <1>5, <1>6

\* COMMIT or ROLLBACK was sent.
LEMMA SendEndInv ==
  ASSUME NEW s \in Session, NEW c \in Conn, Ending(s, c), ~NotStarted(conn[c]),
         NEW how \in Loop, NEW y \in SendEnd(s, Link(conn[c], c), how)
  PROVE  /\ AfterEnd(s, y, TRUE)
         /\ how = "rollback" => y.done = {}
         /\ ~y.error => y.srv.level = None
         /\ ~y.error /\ ~is_error[s] => Settled(y.conn, y.srv)
         /\ ~y.error /\ how = "commit" =>
              ~conn[c].server_lost /\ (cur[s] \in srv[c].work => cur[s] \in y.done)
<1>1. PICK z \in QueueAction(s, Link(conn[c], c)) :
           LET ended == IF how = "commit" THEN CommitAt(z) ELSE RollbackAt(z)
           IN \/ z.error /\ y = z
              \/ ~z.error /\ (y = ended \/ y = Failed(z) \/ y = Lost(z) \/ y = Lost(ended))
  BY SendEndCases
<1> DEFINE ended == IF how = "commit" THEN CommitAt(z) ELSE RollbackAt(z)
<1>2. /\ AfterEnd(s, z, TRUE) /\ z.done = {}
      /\ ~z.error => ~conn[c].server_lost /\ ~z.conn.server_lost /\ z.srv.work = srv[c].work
      /\ ~z.error /\ ~is_error[s] => Settled(z.conn, z.srv)
  BY EndingLink
<1>t. z \in LinkType
  BY <1>2 DEF AfterEnd
<1>3. /\ SameConn(ended, z)
      /\ ended.done = IF how = "commit" THEN z.done \cup z.srv.work ELSE z.done
      /\ ended.srv.work = {} /\ ended.srv.level = None
      /\ ended.srv.trx_isolation = z.srv.trx_isolation
      /\ ended.srv.autocommit = z.srv.autocommit
      /\ ended.srv.time_zone = z.srv.time_zone
  <2>1. CASE how = "commit"
    BY <1>t, <2>1, CommitAtFields
  <2>2. CASE how # "commit"
    BY <1>t, <2>2, RollbackAtFields
  <2> QED BY <2>1, <2>2
<1> HIDE DEF ended
<1>4. /\ ended \in LinkType /\ ended.conn = z.conn /\ ended.error = z.error
      /\ ended.done \subseteq {cur[s]}
      /\ how = "rollback" => ended.done = {}
      /\ how = "commit" /\ cur[s] \in z.srv.work => cur[s] \in ended.done
  BY <1>2, <1>3 DEF SameConn, AfterEnd
<1>5. CASE z.error /\ y = z
  BY <1>2, <1>5
<1>6. CASE ~z.error /\ y = ended
  <2>1. LinkInv(ended.conn, ended.srv)
    BY <1>2, <1>3, <1>4, <1>6 DEF AfterEnd, LinkInv
  <2>2. AfterEnd(s, ended, TRUE)
    BY <1>2, <1>3, <1>4, <2>1 DEF AfterEnd
  <2>3. ~is_error[s] => Settled(ended.conn, ended.srv)
    BY <1>2, <1>3, <1>4, <1>6 DEF Settled
  <2> QED BY <1>2, <1>3, <1>4, <1>6, <2>2, <2>3
<1>7. CASE y = Failed(z)
  <2>1. /\ y \in LinkType /\ y.conn = z.conn /\ y.srv = z.srv
        /\ y.done = z.done /\ y.error = TRUE
    BY <1>7, <1>t, FailedFields
  <2> QED BY <1>2, <2>1 DEF AfterEnd
<1>8. ASSUME NEW u \in {z, ended}, ~z.error, y = Lost(u)
      PROVE  AfterEnd(s, y, TRUE) /\ y.error = TRUE /\ (how = "rollback" => y.done = {})
  <2>1. /\ u \in LinkType /\ u.conn = z.conn /\ u.done \subseteq {cur[s]}
        /\ how = "rollback" => u.done = {}
    BY <1>2, <1>4, <1>t
  <2>2. /\ y \in LinkType
        /\ y.conn.place = u.conn.place
        /\ y.conn.server_lost = TRUE
        /\ y.srv = NewServer /\ y.done = u.done /\ y.error = TRUE
    BY <1>8, <2>1, LostFields
  <2>3. LinkInv(y.conn, y.srv)
    BY <2>2, NewServerInv, LinkFields
  <2> QED BY <1>2, <2>1, <2>2, <2>3, NewFields DEF AfterEnd
<1> QED BY <1>1, <1>5, <1>6, <1>7, <1>8 DEF ended

\* The link before the end.
LEMMA EndingAfter ==
  ASSUME NEW s \in Session, NEW c \in Conn, Ending(s, c)
  PROVE  LET x == Link(conn[c], c)
         IN /\ AfterEnd(s, x, TRUE)
            /\ x.conn = conn[c] /\ x.srv = srv[c] /\ x.done = {} /\ x.error = FALSE
            /\ ~is_error[s] /\ ~conn[c].server_lost =>
                 /\ Settled(conn[c], srv[c]) /\ ~NotStarted(conn[c])
                 /\ ~ToEnd(conn[c]) \/ ~InTrx(s) => srv[c].level = None
<1> DEFINE r == conn[c]
           v == srv[c]
           x == Link(r, c)
<1>1. /\ r \in ConnType /\ v \in ServerType
      /\ r.place = s /\ cur[s] \in Trx
      /\ LinkInv(r, v)
      /\ HeldInv(s, r, v, TRUE, cur[s], is_error[s])
  BY EndingFields
<1>2. /\ x \in LinkType /\ x.conn = r /\ x.srv = v
      /\ x.done = {} /\ x.error = FALSE
  <2>1. TypeOK /\ r \in ConnType
    BY <1>1 DEF Ending
  <2>2. x \in LinkType
    BY <2>1, LinkOf, Zenon
  <2> QED BY <2>2 DEF Link
<1>3. ASSUME ~is_error[s], ~r.server_lost
      PROVE  /\ Settled(r, v) /\ ~NotStarted(r)
             /\ ~ToEnd(r) \/ ~InTrx(s) => v.level = None
  <2>1. Settled(r, v) /\ Begun(s, r, v)
    BY <1>1, <1>3 DEF HeldInv
  <2>2. ~NotStarted(r)
    BY <2>1 DEF Settled, NotStarted
  <2>3. InTrx(s) => ToEnd(r)
    BY <1>1, <2>1, BegunEnds
  <2> QED BY <2>1, <2>2, <2>3 DEF Begun
<1> HIDE DEF x
<1>4. AfterEnd(s, x, TRUE)
  BY <1>1, <1>2 DEF AfterEnd, HeldInv
<1> QED BY <1>2, <1>3, <1>4 DEF x

\* spider_db_commit
LEMMA CommitInv ==
  ASSUME NEW s \in Session, NEW c \in Conn, Ending(s, c),
         NEW y \in DbCommit(s, Link(conn[c], c))
  PROVE  /\ AfterEnd(s, y, is_error[s] \/ y.error)
         /\ ~y.error /\ InTrx(s) /\ WillCommit(conn[c], srv[c], cur[s]) => cur[s] \in y.done
<1> DEFINE r == conn[c]
           v == srv[c]
           x == Link(r, c)
<1>1. /\ AfterEnd(s, x, TRUE)
      /\ x.conn = r /\ x.srv = v /\ x.done = {} /\ x.error = FALSE
      /\ ~is_error[s] /\ ~r.server_lost =>
           /\ Settled(r, v) /\ ~NotStarted(r)
           /\ ~ToEnd(r) \/ ~InTrx(s) => v.level = None
  BY EndingAfter
<1>2. y \in DbCommit(s, x)
  OBVIOUS
<1> HIDE DEF x
<1>3. CASE ~ToEnd(r)
  <2>1. y = x
    BY <1>1, <1>2, <1>3 DEF DbCommit
  <2>2. ~r.trx_start
    BY <1>3 DEF ToEnd
  <2> QED BY <1>1, <1>3, <2>1, <2>2 DEF AfterEnd, WillCommit
<1>4. CASE ToEnd(r) /\ (NotStarted(r) \/ ~InTrx(s))
  <2>1. y = NoTrx(x)
    BY <1>1, <1>2, <1>4 DEF DbCommit
  <2>2. ~(is_error[s] \/ y.error) /\ ~x.conn.server_lost =>
          Settled(x.conn, x.srv) /\ x.srv.level = None
    BY <1>1, <1>4
  <2>3. AfterEnd(s, NoTrx(x), is_error[s] \/ y.error)
    BY <1>1, <2>2, NoTrxEnd
  <2> QED BY <1>4, <2>1, <2>3 DEF WillCommit
<1>5. CASE ToEnd(r) /\ ~NotStarted(r) /\ InTrx(s)
  <2>1. PICK z \in SendEnd(s, x, "commit") : y = IF z.error THEN z ELSE NoTrx(z)
    BY <1>1, <1>2, <1>5 DEF DbCommit
  <2>2. /\ AfterEnd(s, z, TRUE)
        /\ ~z.error => z.srv.level = None
        /\ ~z.error /\ ~is_error[s] => Settled(z.conn, z.srv)
        /\ ~z.error => ~r.server_lost /\ (cur[s] \in v.work => cur[s] \in z.done)
    BY <1>5, <2>1, SendEndInv DEF Loop, x
  <2>3. CASE z.error
    BY <2>1, <2>2, <2>3 DEF AfterEnd
  <2>4. CASE ~z.error
    <3>1. y = NoTrx(z)
      BY <2>1, <2>4
    <3>2. /\ AfterEnd(s, NoTrx(z), is_error[s])
          /\ NoTrx(z).done = z.done /\ NoTrx(z).error = z.error
      BY <2>2, <2>4, NoTrxEnd
    <3> QED BY <2>2, <2>4, <3>1, <3>2 DEF AfterEnd, WillCommit
  <2> QED BY <2>3, <2>4
<1> QED BY <1>3, <1>4, <1>5

\* spider_db_rollback
LEMMA RollbackInv ==
  ASSUME NEW s \in Session, NEW c \in Conn, Ending(s, c),
         NEW y \in DbRollback(s, Link(conn[c], c))
  PROVE  AfterEnd(s, y, is_error[s] \/ y.error) /\ y.done = {}
<1> DEFINE r == conn[c]
           v == srv[c]
           x == Link(r, c)
<1>1. /\ AfterEnd(s, x, TRUE)
      /\ x.conn = r /\ x.srv = v /\ x.done = {} /\ x.error = FALSE
      /\ ~is_error[s] /\ ~r.server_lost =>
           /\ Settled(r, v) /\ ~NotStarted(r)
           /\ ~ToEnd(r) \/ ~InTrx(s) => v.level = None
  BY EndingAfter
<1>2. y \in DbRollback(s, x)
  OBVIOUS
<1> HIDE DEF x
<1>3. CASE r.server_lost \/ ~ToEnd(r)
  <2>1. y = x
    BY <1>1, <1>2, <1>3 DEF DbRollback
  <2>2. ~r.server_lost => ~r.trx_start
    BY <1>3 DEF ToEnd
  <2> QED BY <1>1, <1>3, <2>1, <2>2 DEF AfterEnd
<1>4. CASE ~r.server_lost /\ ToEnd(r) /\ NotStarted(r)
  <2>1. y = NoTrx(x)
    BY <1>1, <1>2, <1>4 DEF DbRollback
  <2>2. AfterEnd(s, NoTrx(x), is_error[s] \/ y.error) /\ NoTrx(x).done = x.done
    BY <1>1, <1>4, NoTrxEnd
  <2> QED BY <1>1, <2>1, <2>2
<1>5. CASE ~r.server_lost /\ ToEnd(r) /\ ~NotStarted(r)
  <2>1. PICK z \in SendEnd(s, x, "rollback") :
          y = IF z.error /\ (is_error[s] \/ ~z.conn.server_lost) THEN z
              ELSE [NoTrx(z) EXCEPT !.error = FALSE]
    BY <1>1, <1>2, <1>5 DEF DbRollback
  <2>2. /\ AfterEnd(s, z, TRUE) /\ z.done = {}
        /\ ~z.error => z.srv.level = None
        /\ ~z.error /\ ~is_error[s] => Settled(z.conn, z.srv)
    BY <1>5, <2>1, SendEndInv DEF Loop, x
  <2>3. CASE z.error /\ (is_error[s] \/ ~z.conn.server_lost)
    BY <2>1, <2>2, <2>3 DEF AfterEnd
  <2>4. CASE ~(z.error /\ (is_error[s] \/ ~z.conn.server_lost))
    <3>1. AfterEnd(s, NoTrx(z), is_error[s]) /\ NoTrx(z).done = z.done
      BY <2>2, <2>4, NoTrxEnd
    <3> DEFINE w == NoTrx(z)
    <3>2. y = [w EXCEPT !.error = FALSE]
      BY <2>1, <2>4
    <3> HIDE DEF w
    <3>3. w \in LinkType
      BY <3>1 DEF AfterEnd, w
    <3>4. /\ y \in LinkType /\ y.conn = w.conn /\ y.srv = w.srv
          /\ y.done = w.done /\ y.error = FALSE
      BY <3>2, <3>3 DEF LinkType
    <3> QED BY <2>2, <3>1, <3>4 DEF AfterEnd, w
  <2> QED BY <2>3, <2>4
<1> QED BY <1>3, <1>4, <1>5
-----------------------------------------------------------------------------
(***************************************************************************)
(* Types, whatever is refused.                                             *)
(***************************************************************************)

\* A remote call leaves a link, and the connection where it is.
Typed(y, x) == y \in LinkType /\ y.conn.place = x.conn.place

LEMMA AutocommitType ==
  ASSUME NEW x \in LinkType, x.conn.queued.autocommit # None
  PROVE  SameConn(Exec(x, "autocommit"), x)
<1>1. CASE x.conn.queued.autocommit = TRUE
  <2>1. Exec(x, "autocommit") = [CommitAt(x) EXCEPT !.srv.autocommit = TRUE]
    BY <1>1 DEF Exec
  <2>2. SameConn(CommitAt(x), x)
    BY CommitAtFields
  <2> QED BY <2>1, <2>2 DEF SameConn, LinkType, ServerType
<1>2. CASE x.conn.queued.autocommit = FALSE
  BY <1>2 DEF Exec, SameConn, LinkType, ServerType
<1> QED BY <1>1, <1>2, LinkFields, ConnFields, SettingsFields

LEMMA StageType ==
  ASSUME NEW s \in Session, NEW x \in LinkType, NEW i \in 1..5
  PROVE  SameConn(Stages(x, Bulk(s, x.conn))[i], x)
<1> DEFINE bulk == Bulk(s, x.conn)
           st == Stages(x, bulk)
           q == x.conn.queued
<1> HIDE DEF bulk, st
<1>0. /\ st[1] = x
      /\ st[2] = Next1(x, bulk, "trx_isolation")
      /\ st[3] = Next1(st[2], bulk, "autocommit")
      /\ st[4] = Next1(st[3], bulk, "time_zone")
      /\ st[5] = Next1(st[4], bulk, "trx_start")
  BY StageSteps DEF st
<1>i. /\ "trx_isolation" \in bulk => q.trx_isolation # None
      /\ "autocommit" \in bulk => q.autocommit # None
      /\ "time_zone" \in bulk => q.time_zone # None
  BY BulkItems, LinkFields DEF bulk
<1>1. SameConn(st[1], x)
  BY <1>0 DEF SameConn
<1>2. SameConn(st[2], x)
  BY <1>0, <1>i, ExecIsolation DEF Next1, SameConn
<1>3. SameConn(st[3], x)
  <2>1. PICK z \in LinkType : z = st[2] /\ z.conn = x.conn /\ z.error = x.error
    BY <1>2 DEF SameConn
  <2>2. CASE "autocommit" \in bulk
    <3>1. SameConn(Exec(z, "autocommit"), z)
      BY <1>i, <2>1, <2>2, AutocommitType
    <3> QED BY <1>0, <2>1, <2>2, <3>1 DEF Next1, SameConn
  <2>3. CASE "autocommit" \notin bulk
    BY <1>0, <2>1, <2>3 DEF Next1, SameConn
  <2> QED BY <2>2, <2>3
<1>4. SameConn(st[4], x)
  <2>1. PICK z \in LinkType : z = st[3] /\ z.conn = x.conn /\ z.error = x.error
    BY <1>3 DEF SameConn
  <2>2. CASE "time_zone" \in bulk
    <3>1. SameConn(Exec(z, "time_zone"), z)
      BY <1>i, <2>1, <2>2, ExecZone
    <3> QED BY <1>0, <2>1, <2>2, <3>1 DEF Next1, SameConn
  <2>3. CASE "time_zone" \notin bulk
    BY <1>0, <2>1, <2>3 DEF Next1, SameConn
  <2> QED BY <2>2, <2>3
<1>5. SameConn(st[5], x)
  <2>1. PICK z \in LinkType : z = st[4] /\ z.conn = x.conn /\ z.error = x.error
    BY <1>4 DEF SameConn
  <2>2. CASE "trx_start" \in bulk
    <3>1. SameConn(Exec(z, "trx_start"), z)
      BY <2>1, ExecStart
    <3> QED BY <1>0, <2>1, <2>2, <3>1 DEF Next1, SameConn
  <2>3. CASE "trx_start" \notin bulk
    BY <1>0, <2>1, <2>3 DEF Next1, SameConn
  <2> QED BY <2>2, <2>3
<1>6. i = 1 \/ i = 2 \/ i = 3 \/ i = 4 \/ i = 5
  OBVIOUS
<1> QED BY <1>1, <1>2, <1>3, <1>4, <1>5, <1>6 DEF st, bulk

LEMMA FailedTyped ==
  ASSUME NEW x, NEW y, Typed(y, x) PROVE Typed(Failed(y), x) /\ Typed(Lost(y), x)
<1>1. Failed(y) \in LinkType /\ Failed(y).conn = y.conn
  BY FailedFields DEF Typed
<1>2. Lost(y) \in LinkType /\ Lost(y).conn.place = y.conn.place
  BY LostFields DEF Typed
<1> QED BY <1>1, <1>2 DEF Typed

LEMMA ConnectType ==
  ASSUME NEW s \in Session, NEW x \in LinkType, NEW y \in Connect(s, x)
  PROVE  Typed(y, x)
<1> DEFINE z == [x EXCEPT !.conn.known = NoSettings]
<1>1. \/ y = x
      \/ y = [z EXCEPT !.conn.queued_connect = FALSE, !.conn.server_lost = FALSE,
                       !.srv = NewServer]
      \/ y = [z EXCEPT !.conn.server_lost = TRUE]
  BY DEF Connect
<1>2. Typed(z, x)
  BY NewType DEF Typed, LinkType, ConnType
<1> HIDE DEF z
<1>3. CASE y = [z EXCEPT !.conn.queued_connect = FALSE, !.conn.server_lost = FALSE,
                         !.srv = NewServer]
  BY <1>2, <1>3, NewType DEF Typed, LinkType, ConnType
<1>4. CASE y = [z EXCEPT !.conn.server_lost = TRUE]
  BY <1>2, <1>4 DEF Typed, LinkType, ConnType
<1> QED BY <1>1, <1>3, <1>4 DEF Typed

LEMMA QueueType ==
  ASSUME NEW s \in Session, NEW x \in LinkType, NEW y \in QueueAction(s, x)
  PROVE  Typed(y, x)
<1>1. PICK y0 \in Connect(s, x) :
           LET st == Stages(y0, Bulk(s, y0.conn))
           IN \/ y0.conn.server_lost /\ y = Failed(y0)
              \/ ~y0.conn.server_lost /\ y = Sent(st[5])
              \/ ~y0.conn.server_lost /\ May(s, "set_err") /\ \E i \in 1..4 : y = Failed(st[i])
              \/ ~y0.conn.server_lost /\ \E i \in 1..4 : y = Lost(st[i])
  BY QueueCases
<1> DEFINE st == Stages(y0, Bulk(s, y0.conn))
<1>2. Typed(y0, x)
  BY ConnectType
<1>3. \A i \in 1..5 : Typed(st[i], x)
  BY <1>2, StageType DEF Typed, SameConn
<1> HIDE DEF st
<1>4. Typed(Sent(st[5]), x)
  <2>1. PICK z \in LinkType : z = st[5] /\ z.conn.place = x.conn.place
    BY <1>3 DEF Typed
  <2>2. Sent(z) \in LinkType /\ Sent(z).conn.place = z.conn.place
    BY SentFields
  <2> QED BY <2>1, <2>2 DEF Typed
<1>5. Typed(Failed(y0), x)
  BY <1>2, FailedTyped
<1>6. \A i \in 1..4 : Typed(Failed(st[i]), x) /\ Typed(Lost(st[i]), x)
  BY <1>3, FailedTyped
<1> QED BY <1>1, <1>4, <1>5, <1>6 DEF st

LEMMA StatementType ==
  ASSUME NEW s \in Session, NEW x \in LinkType, NEW t \in Trx, NEW y \in RunStatement(s, x, t)
  PROVE  Typed(y, x)
<1>1. PICK z \in QueueAction(s, x) :
        \/ z.error /\ y = z
        \/ ~z.error /\ (y = Write(z, t) \/ y = Failed(z) \/ y = Lost(z) \/ y = Lost(Write(z, t)))
  BY StatementCases
<1>2. Typed(z, x)
  BY QueueType
<1>3. Typed(Write(z, t), x)
  <2>1. Write(z, t) \in LinkType /\ Write(z, t).conn = z.conn
    BY <1>2, WriteFields DEF Typed
  <2> QED BY <1>2, <2>1 DEF Typed
<1> QED BY <1>1, <1>2, <1>3, FailedTyped

LEMMA NoTrxType ==
  ASSUME NEW x, NEW y, Typed(y, x) PROVE Typed(NoTrx(y), x) /\ Typed([NoTrx(y) EXCEPT !.error = FALSE], x)
<1>1. NoTrx(y) \in LinkType /\ NoTrx(y).conn.place = y.conn.place
  BY NoTrxFields DEF Typed
<1> DEFINE w == NoTrx(y)
<1> HIDE DEF w
<1>2. w \in LinkType /\ w.conn.place = y.conn.place
  BY <1>1 DEF w
<1>3. [w EXCEPT !.error = FALSE] \in LinkType /\ [w EXCEPT !.error = FALSE].conn = w.conn
  BY <1>2 DEF LinkType
<1> QED BY <1>2, <1>3 DEF Typed, w

LEMMA EndType ==
  ASSUME NEW s \in Session, NEW x \in LinkType, NEW y \in DbCommit(s, x) \cup DbRollback(s, x)
  PROVE  Typed(y, x)
<1>1. ASSUME NEW how, NEW z \in SendEnd(s, x, how) PROVE Typed(z, x)
  <2>1. PICK u \in QueueAction(s, x) :
           LET ended == IF how = "commit" THEN CommitAt(u) ELSE RollbackAt(u)
           IN \/ u.error /\ z = u
              \/ ~u.error /\ (z = ended \/ z = Failed(u) \/ z = Lost(u) \/ z = Lost(ended))
    BY <1>1, SendEndCases
  <2> DEFINE ended == IF how = "commit" THEN CommitAt(u) ELSE RollbackAt(u)
  <2>2. Typed(u, x)
    BY QueueType
  <2>3. Typed(ended, x)
    BY <2>2, CommitAtFields, RollbackAtFields DEF Typed, SameConn
  <2> HIDE DEF ended
  <2> QED BY <2>1, <2>2, <2>3, FailedTyped DEF ended
<1>2. Typed(x, x)
  BY DEF Typed
<1>3. \/ y = x \/ y = NoTrx(x)
      \/ \E how \in Loop : \E z \in SendEnd(s, x, how) :
           y = z \/ y = NoTrx(z) \/ y = [NoTrx(z) EXCEPT !.error = FALSE]
  BY DEF DbCommit, DbRollback, Loop
<1> QED BY <1>1, <1>2, <1>3, NoTrxType

LEMMA ClearedFields ==
  ASSUME NEW r \in ConnType
  PROVE  LET w == Cleared(r)
         IN /\ w \in ConnType
            /\ w.place = "pool"
            /\ w.queued_connect = r.queued_connect
            /\ w.server_lost = r.server_lost
            /\ w.join_trx = r.join_trx
            /\ w.trx_start => r.trx_start
            /\ w.queued_trx_start = FALSE
            /\ w.queued = NoSettings
            /\ w.known = r.known
BY NewType DEF Cleared, ClearQueue, ConnType

\* A step that sets the link of c.
LEMMA SetLinkType ==
  ASSUME TypeOK, NEW c \in Conn, NEW y \in LinkType, SetLink(c, y)
  PROVE  /\ conn' \in [Conn -> ConnType] /\ srv' \in [Conn -> ServerType]
         /\ committed' \subseteq Work
         /\ conn'[c] = y.conn
         /\ \A d \in Conn : d # c => conn'[d] = conn[d]
<1>1. /\ y.conn \in ConnType /\ y.srv \in ServerType /\ y.done \in SUBSET Trx
  BY LinkFields
<1>2. \A t \in y.done : <<t, Target[c]>> \in Work
  BY <1>1, TargetAssumption DEF Work
<1> QED BY <1>1, <1>2 DEF SetLink, TypeOK

LEMMA TypeQuery ==
  ASSUME TypeOK, NEW s \in Session, NEW b \in Backend, Query(s, b) PROVE TypeOK'
<1> DEFINE t == cur'[s]
<1>1. PICK c \in Candidates(s, b) :
        \E y \in RunStatement(s, Link(Joined(s, conn[c]), c), t) :
          /\ SetLink(c, y)
          /\ written' = IF y.error THEN written ELSE written \cup {<<t, b>>}
          /\ AfterQuery(s, c, y.error)
  BY DEF Query
<1>2. PICK y \in RunStatement(s, Link(Joined(s, conn[c]), c), t) :
          /\ SetLink(c, y)
          /\ written' = IF y.error THEN written ELSE written \cup {<<t, b>>}
          /\ AfterQuery(s, c, y.error)
  BY <1>1
<1>3. c \in Conn /\ conn[c].place \in {"none", "pool", s}
  BY <1>1 DEF Candidates
<1>4. cur \in [Session -> 0..MaxTrx] /\ ntrx \in 0..MaxTrx
  BY DEF TypeOK
<1>5. /\ t = IF cur[s] = 0 THEN ntrx' ELSE cur[s]
      /\ ntrx' = IF cur[s] = 0 THEN ntrx + 1 ELSE ntrx
      /\ cur' = [cur EXCEPT ![s] = t]
      /\ cur[s] = 0 => ntrx < MaxTrx
  BY <1>4 DEF Query
<1>6. t \in Trx /\ ntrx' \in 0..MaxTrx /\ cur' \in [Session -> 0..MaxTrx]
  BY <1>4, <1>5, BoundAssumption DEF Trx
<1> HIDE DEF t
<1>7. Typed(y, Link(Joined(s, conn[c]), c)) /\ Link(Joined(s, conn[c]), c).conn.place = s
  <2>1. conn[c] \in ConnType
    BY <1>3 DEF TypeOK
  <2> DEFINE j == Joined(s, conn[c])
  <2>2. j \in ConnType /\ j.place = s
    BY <1>3, <2>1, JoinedType, JoinedFields
  <2> HIDE DEF j
  <2>3. Link(j, c) \in LinkType
    BY <1>3, <2>2, LinkOf
  <2>4. y \in RunStatement(s, Link(j, c), t)
    BY <1>2 DEF j
  <2>5. Typed(y, Link(j, c))
    BY <1>6, <2>3, <2>4, StatementType
  <2> QED BY <2>2, <2>5 DEF Link, j
<1>8. y \in LinkType /\ y.conn.place = s
  BY <1>7 DEF Typed
<1>9. /\ conn' \in [Conn -> ConnType] /\ srv' \in [Conn -> ServerType]
      /\ committed' \subseteq Work
      /\ conn'[c] = y.conn
      /\ \A d \in Conn : d # c => conn'[d] = conn[d]
  BY <1>2, <1>3, <1>8, SetLinkType
<1>10. written' \subseteq Work
  BY <1>2, <1>6 DEF TypeOK, Work
<1>11. Held(s) \cup {c} \in SUBSET Conn
  BY <1>3 DEF Held
<1>12. /\ pc \in [Session -> {"idle", "stmt", "commit", "rollback"}]
       /\ is_error \in [Session -> BOOLEAN]
       /\ todo \in [Session -> SUBSET Conn]
  BY DEF TypeOK
<1>13. \/ UNCHANGED <<todo, is_error>>
       \/ /\ todo' = [todo EXCEPT ![s] = Held(s) \cup {c}]
          /\ is_error' = [is_error EXCEPT ![s] = TRUE]
  BY <1>2 DEF AfterQuery, EnterLoop
<1>14. todo' \in [Session -> SUBSET Conn] /\ is_error' \in [Session -> BOOLEAN]
  BY <1>11, <1>12, <1>13
<1>15. pc' \in [Session -> {"idle", "stmt", "commit", "rollback"}]
  <2>1. \E v \in {"idle", "stmt", "rollback"} : pc' = [pc EXCEPT ![s] = v]
    BY <1>2 DEF AfterQuery, EnterLoop
  <2> QED BY <1>12, <2>1
<1>16. ASSUME NEW p \in Session, NEW d \in todo'[p] PROVE d \in Held(p)'
  <2>1. d \in Held(p) \/ (p = s /\ d \in Held(s) \cup {c})
    BY <1>12, <1>13, <1>16 DEF TypeOK
  <2>2. d = c => p = s
    BY <1>3, <2>1, PlaceAssumption DEF Held
  <2>3. d # c => d \in Held(p)
    BY <2>1
  <2> QED BY <1>3, <1>8, <1>9, <2>2, <2>3 DEF Held
<1>17. thd' = thd /\ nset' = nset /\ reply' = reply
  BY DEF Query
<1> QED BY <1>6, <1>9, <1>10, <1>14, <1>15, <1>16, <1>17 DEF TypeOK

LEMMA TypeEnter ==
  ASSUME TypeOK, NEW s \in Session, EndStmt(s) \/ Commit(s) \/ Rollback(s) PROVE TypeOK'
<1>1. /\ UNCHANGED <<thd, is_error, cur, conn, srv, committed, nset, ntrx, written, reply>>
      /\ todo' = [todo EXCEPT ![s] = Held(s)]
      /\ \E v \in Loop : pc' = [pc EXCEPT ![s] = v]
  BY DEF EndStmt, Commit, Rollback, EnterLoop, Loop
<1>2. Held(s) \in SUBSET Conn
  BY DEF Held
<1> QED BY <1>1, <1>2 DEF TypeOK, Held, Loop

LEMMA TypeEndConn ==
  ASSUME TypeOK, NEW s \in Session, CommitConn(s) \/ RollbackConn(s) PROVE TypeOK'
<1>1. PICK c \in todo[s] : /\ UNCHANGED <<thd, pc, cur, nset, ntrx, written, reply>>
                           /\ todo' = [todo EXCEPT ![s] = @ \ {c}]
                           /\ \E y \in DbCommit(s, Link(conn[c], c)) \cup DbRollback(s, Link(conn[c], c)) :
                                /\ SetLink(c, [y EXCEPT !.conn.join_trx = FALSE])
                                /\ is_error' = [is_error EXCEPT ![s] = @ \/ y.error]
  BY DEF CommitConn, RollbackConn, EndConn
<1>2. PICK y \in DbCommit(s, Link(conn[c], c)) \cup DbRollback(s, Link(conn[c], c)) :
        /\ SetLink(c, [y EXCEPT !.conn.join_trx = FALSE])
        /\ is_error' = [is_error EXCEPT ![s] = @ \/ y.error]
  BY <1>1
<1>3. c \in Conn /\ conn[c] \in ConnType /\ conn[c].place = s
  BY <1>1 DEF TypeOK, Held
<1>4. Typed(y, Link(conn[c], c))
  <2>1. Link(conn[c], c) \in LinkType
    BY <1>3, LinkOf
  <2> QED BY <2>1, EndType
<1> DEFINE w == [y EXCEPT !.conn.join_trx = FALSE]
<1>5. w \in LinkType /\ w.conn.place = s /\ y.error \in BOOLEAN
  <2>1. y \in LinkType /\ y.conn.place = s
    BY <1>3, <1>4 DEF Typed, Link
  <2> QED BY <2>1 DEF LinkType, ConnType
<1> HIDE DEF w
<1>6. /\ conn' \in [Conn -> ConnType] /\ srv' \in [Conn -> ServerType]
      /\ committed' \subseteq Work
      /\ conn'[c] = w.conn
      /\ \A d \in Conn : d # c => conn'[d] = conn[d]
  BY <1>2, <1>3, <1>5, SetLinkType DEF w
<1>7. \A p \in Session : Held(p)' = Held(p)
  BY <1>3, <1>5, <1>6 DEF Held
<1>8. /\ todo' \in [Session -> SUBSET Conn] /\ is_error' \in [Session -> BOOLEAN]
      /\ \A p \in Session : todo'[p] \subseteq todo[p]
  BY <1>1, <1>2, <1>5 DEF TypeOK
<1> QED BY <1>1, <1>6, <1>7, <1>8 DEF TypeOK

LEMMA TypeTrxEnd ==
  ASSUME TypeOK, NEW s \in Session, LoopEnd(s) \/ Kill(s) PROVE TypeOK'
<1>1. \E keep, how, begin : /\ how \in {"success", "fail", "rolledback"} /\ begin \in BOOLEAN
                            /\ FreeTrxConn(s, keep) /\ EndTrx(s, how, begin)
  <2>1. CASE LoopEnd(s)
    <3> DEFINE keep == {c \in Held(s) : Pooled(s, conn[c])}
               how == IF pc[s] = "rollback" /\ InTrx(s) THEN "rolledback"
                      ELSE IF is_error[s] THEN "fail" ELSE "success"
               begin == thd[s].begin /\ pc[s] = "rollback" /\ is_error[s]
    <3>1. FreeTrxConn(s, keep) /\ EndTrx(s, how, begin)
      BY <2>1 DEF LoopEnd
    <3>2. how \in {"success", "fail", "rolledback"} /\ begin \in BOOLEAN
      OBVIOUS
    <3> HIDE DEF keep, how, begin
    <3> QED BY <3>1, <3>2
  <2>2. CASE Kill(s)
    <3>1. FreeTrxConn(s, {}) /\ EndTrx(s, IF InTrx(s) THEN "rolledback" ELSE "fail", FALSE)
      BY <2>2 DEF Kill
    <3>2. (IF InTrx(s) THEN "rolledback" ELSE "fail") \in {"success", "fail", "rolledback"}
      OBVIOUS
    <3> QED BY <3>1, <3>2
  <2> QED BY <2>1, <2>2
<1>2. PICK keep, how, begin : /\ how \in {"success", "fail", "rolledback"} /\ begin \in BOOLEAN
                              /\ FreeTrxConn(s, keep) /\ EndTrx(s, how, begin)
  BY <1>1
<1>3. ASSUME NEW c \in Conn
      PROVE  /\ conn'[c] \in ConnType /\ srv'[c] \in ServerType
             /\ conn[c].place # s => conn'[c] = conn[c]
  <2>1. /\ conn'[c] = IF c \notin Held(s) THEN conn[c]
                      ELSE IF c \in keep THEN Cleared(conn[c]) ELSE NewConn
        /\ srv'[c] = IF c \in Held(s) \ keep THEN NewServer ELSE srv[c]
    BY <1>2 DEF FreeTrxConn
  <2>2. PICK r \in ConnType : r = conn[c] /\ srv[c] \in ServerType
    BY DEF TypeOK
  <2>3. Cleared(r) \in ConnType
    BY ClearedFields
  <2> QED BY <2>1, <2>2, <2>3, NewType DEF Held
<1>4. conn' \in [Conn -> ConnType] /\ srv' \in [Conn -> ServerType]
  <2>1. conn' = [c \in Conn |-> conn'[c]] /\ srv' = [c \in Conn |-> srv'[c]]
    BY <1>2 DEF FreeTrxConn
  <2> QED BY <1>3, <2>1
<1>5. thd' \in [Session -> [autocommit : BOOLEAN, begin : BOOLEAN,
                            trx_isolation : Level, time_zone : Zone]]
  BY <1>2 DEF EndTrx, TypeOK
<1>6. /\ pc' \in [Session -> {"idle", "stmt", "commit", "rollback"}]
      /\ todo' \in [Session -> SUBSET Conn]
      /\ is_error' \in [Session -> BOOLEAN]
      /\ cur' \in [Session -> 0..MaxTrx]
  BY <1>2, BoundAssumption DEF EndTrx, TypeOK
<1>7. reply' \in [Trx -> {"none", "success", "fail", "rolledback"}]
  BY <1>2 DEF EndTrx, TypeOK
<1>8. ASSUME NEW p \in Session, NEW c \in todo'[p] PROVE c \in Held(p)'
  <2>1. p # s /\ c \in todo[p]
    BY <1>2, <1>8 DEF EndTrx, TypeOK
  <2>2. c \in Conn /\ conn[c].place = p
    BY <2>1 DEF TypeOK, Held
  <2> QED BY <1>3, <2>1, <2>2 DEF Held
<1>9. committed' = committed /\ nset' = nset /\ ntrx' = ntrx /\ written' = written
  BY <1>2 DEF EndTrx
<1> QED BY <1>4, <1>5, <1>6, <1>7, <1>8, <1>9 DEF TypeOK

LEMMA TypeSet ==
  ASSUME TypeOK, NEW s \in Session,
         \/ Begin(s)
         \/ \E v \in BOOLEAN : SetAutocommit(s, v)
         \/ \E v \in Level : SetTrxIsolation(s, v)
         \/ \E v \in Zone : SetTimeZone(s, v)
  PROVE  TypeOK'
<1> DEFINE Client == [autocommit : BOOLEAN, begin : BOOLEAN, trx_isolation : Level, time_zone : Zone]
<1>1. \E new \in Client : Set(s, new)
  <2>0. thd[s] \in Client
    BY DEF TypeOK
  <2>1. CASE Begin(s)
    BY <2>0, <2>1 DEF Begin
  <2>2. CASE \E v \in BOOLEAN : SetAutocommit(s, v)
    BY <2>0, <2>2 DEF SetAutocommit
  <2>3. CASE \E v \in Level : SetTrxIsolation(s, v)
    BY <2>0, <2>3 DEF SetTrxIsolation
  <2>4. CASE \E v \in Zone : SetTimeZone(s, v)
    BY <2>0, <2>4 DEF SetTimeZone
  <2> QED BY <2>1, <2>2, <2>3, <2>4
<1>2. nset' \in 0..MaxSet
  <2>1. nset' = nset \/ (nset < MaxSet /\ nset' = nset + 1)
    BY DEF Begin, SetAutocommit, SetTrxIsolation, SetTimeZone, CountSet
  <2> QED BY <2>1, BoundAssumption DEF TypeOK
<1>3. thd' \in [Session -> Client]
  BY <1>1 DEF Set, TypeOK
<1>4. UNCHANGED <<pc, todo, is_error, cur, conn, srv, committed, ntrx, written, reply>>
  BY <1>1 DEF Set
<1> QED BY <1>2, <1>3, <1>4 DEF TypeOK, Held
-----------------------------------------------------------------------------
(***************************************************************************)
(* Steps.                                                                  *)
(***************************************************************************)

\* A step of s changes nothing of the other sessions.
OnlyOf(s) ==
  \A p \in Session \ {s} :
    /\ thd'[p] = thd[p] /\ pc'[p] = pc[p] /\ todo'[p] = todo[p]
    /\ is_error'[p] = is_error[p] /\ cur'[p] = cur[p]

\* A connection is used for a transaction, then as now.
LEMMA HeldStep ==
  ASSUME NEW s \in Session, NEW c \in Conn,
         NEW joined, NEW t, NEW e,
         HeldInv(s, conn'[c], srv'[c], joined, t, e),
         InTrx(s)' <=> InTrx(s), thd'[s].trx_isolation = thd[s].trx_isolation,
         Joins(s, c)' = joined, cur'[s] = t, e => is_error'[s]
  PROVE  HeldInv(s, conn[c], srv[c], Joins(s, c), cur[s], is_error[s])'
BY DEF HeldInv, Begun, Waiting

LEMMA ConnStep ==
  ASSUME NEW c \in Conn,
         LinkInv(conn'[c], srv'[c]),
         conn'[c].place = "none" => conn'[c] = NewConn /\ srv'[c] = NewServer,
         conn'[c].place = "pool" =>
           /\ Settled(conn'[c], srv'[c])
           /\ srv'[c].level = None /\ ~conn'[c].trx_start /\ ~conn'[c].join_trx,
         \A s \in Session : conn'[c].place = s =>
           /\ cur'[s] # 0
           /\ HeldInv(s, conn[c], srv[c], Joins(s, c), cur[s], is_error[s])'
  PROVE  ConnInv(c)'
BY DEF ConnInv

\* A connection that a step of s leaves alone.
LEMMA Untouched ==
  ASSUME NEW s \in Session, NEW c \in Conn, ConnInv(c), OnlyOf(s),
         conn'[c] = conn[c], srv'[c] = srv[c],
         conn[c].place = s =>
           /\ InTrx(s)' <=> InTrx(s)
           /\ thd'[s].trx_isolation = thd[s].trx_isolation
           /\ Joins(s, c)' = Joins(s, c)
           /\ cur'[s] = cur[s]
           /\ is_error[s] => is_error'[s]
  PROVE  ConnInv(c)'
<1>1. ASSUME NEW p \in Session, conn'[c].place = p
      PROVE  /\ cur'[p] # 0
             /\ HeldInv(p, conn[c], srv[c], Joins(p, c), cur[p], is_error[p])'
  <2>1. /\ cur[p] # 0
        /\ HeldInv(p, conn[c], srv[c], Joins(p, c), cur[p], is_error[p])
    BY <1>1 DEF ConnInv
  <2>2. /\ InTrx(p)' <=> InTrx(p)
        /\ thd'[p].trx_isolation = thd[p].trx_isolation
        /\ Joins(p, c)' = Joins(p, c)
        /\ cur'[p] = cur[p]
        /\ is_error[p] => is_error'[p]
    <3>1. CASE p = s
      BY <1>1, <3>1
    <3>2. CASE p # s
      BY <3>2 DEF OnlyOf, InTrx, Joins
    <3> QED BY <3>1, <3>2
  <2>3. HeldInv(p, conn'[c], srv'[c], Joins(p, c), cur[p], is_error[p])
    BY <2>1
  <2> QED BY <2>1, <2>2, <2>3, HeldStep
<1>2. /\ LinkInv(conn'[c], srv'[c])
      /\ conn'[c].place = "none" => conn'[c] = NewConn /\ srv'[c] = NewServer
      /\ conn'[c].place = "pool" =>
           /\ Settled(conn'[c], srv'[c])
           /\ srv'[c].level = None /\ ~conn'[c].trx_start /\ ~conn'[c].join_trx
  BY DEF ConnInv
<1> QED BY <1>1, <1>2, ConnStep

\* A statement of transaction t on connection c to backend b has ended with y.
QueryAt(s, b, c, y, t) ==
  /\ PlainInv
  /\ pc[s] \notin Loop
  /\ t \in Trx
  /\ IF cur[s] = 0 THEN t = ntrx + 1 /\ ntrx' = ntrx + 1 ELSE t = cur[s] /\ ntrx' = ntrx
  /\ cur' = [cur EXCEPT ![s] = t]
  /\ Target[c] = b /\ conn[c].place \in {"none", "pool", s}
  /\ conn[c].place # s => \A d \in Conn : Target[d] = b => conn[d].place # s
  /\ AfterStatement(s, c, y, t)
  /\ SetLink(c, y)
  /\ written' = IF y.error THEN written ELSE written \cup {<<t, b>>}
  /\ AfterQuery(s, c, y.error)
  /\ UNCHANGED <<thd, nset, reply>>

LEMMA QueryCases ==
  ASSUME RefusedIsRolledBack, PlainInv, NEW s \in Session, NEW b \in Backend, Query(s, b)
  PROVE  \E c \in Conn : \E y, t : QueryAt(s, b, c, y, t)
<1> DEFINE t == cur'[s]
<1>1. PICK c \in Candidates(s, b) :
        \E y \in RunStatement(s, Link(Joined(s, conn[c]), c), t) :
          /\ SetLink(c, y)
          /\ written' = IF y.error THEN written ELSE written \cup {<<t, b>>}
          /\ AfterQuery(s, c, y.error)
  BY DEF Query
<1>2. PICK y \in RunStatement(s, Link(Joined(s, conn[c]), c), t) :
          /\ SetLink(c, y)
          /\ written' = IF y.error THEN written ELSE written \cup {<<t, b>>}
          /\ AfterQuery(s, c, y.error)
  BY <1>1
<1>3. /\ c \in Conn /\ Target[c] = b /\ conn[c].place \in {"none", "pool", s}
      /\ conn[c].place # s => \A d \in Conn : Target[d] = b => conn[d].place # s
  BY <1>1 DEF Candidates
<1>4. TypeOK /\ cur \in [Session -> 0..MaxTrx] /\ ntrx \in 0..MaxTrx
  BY DEF PlainInv, TypeOK
<1>5. /\ IF cur[s] = 0 THEN t = ntrx + 1 /\ ntrx' = ntrx + 1 ELSE t = cur[s] /\ ntrx' = ntrx
      /\ cur' = [cur EXCEPT ![s] = t]
  BY <1>4 DEF Query
<1>6. t \in Trx
  <2>1. cur[s] = 0 => ntrx < MaxTrx
    BY DEF Query
  <2>2. cur[s] \in 0..MaxTrx
    BY <1>4
  <2> QED BY <1>4, <1>5, <2>1, <2>2, BoundAssumption DEF Trx
<1>7. Usable(s, c) /\ pc[s] \notin Loop
  <2>1. pc[s] \notin Loop
    BY DEF Query, Loop
  <2> QED BY <1>3, <2>1 DEF PlainInv, Usable
<1>8. AfterStatement(s, c, y, t)
  <2>1. cur[s] # 0 => t = cur[s]
    BY <1>5
  <2>2. y \in RunStatement(s, Link(Joined(s, conn[c]), c), t)
    BY <1>2
  <2> HIDE DEF t
  <2> QED BY <1>3, <1>6, <1>7, <2>1, <2>2, StatementInv
<1>9. UNCHANGED <<thd, nset, reply>>
  BY DEF Query
<1>10. QueryAt(s, b, c, y, t)
  BY <1>2, <1>3, <1>5, <1>6, <1>7, <1>8, <1>9 DEF QueryAt
<1> QED BY <1>3, <1>10

\* What it changes.
QueryDone(s, b, c, y, t) ==
  /\ TypeOK /\ OnlyOf(s) /\ thd' = thd
  /\ cur'[s] = t
  /\ conn'[c] = y.conn /\ srv'[c] = y.srv
  /\ \A d \in Conn : d # c => conn'[d] = conn[d] /\ srv'[d] = srv[d]
  /\ is_error[s] = FALSE /\ todo[s] = {}
  /\ is_error'[s] <=> (y.error /\ ~GoesOn(s))
  /\ pc'[s] = IF y.error /\ ~GoesOn(s) THEN "rollback"
              ELSE IF InTrx(s) THEN "idle" ELSE "stmt"
  /\ todo'[s] = IF y.error /\ ~GoesOn(s) THEN Held(s) \cup {c} ELSE {}

LEMMA QueryFields ==
  ASSUME NEW s \in Session, NEW b \in Backend, NEW c \in Conn, NEW y, NEW t,
         QueryAt(s, b, c, y, t)
  PROVE  QueryDone(s, b, c, y, t)
<1>1. TypeOK /\ SessionInv(s) /\ pc[s] \notin Loop
  BY DEF QueryAt, PlainInv
<1>2. is_error[s] = FALSE /\ todo[s] = {}
  BY <1>1 DEF SessionInv, TypeOK
<1>3. /\ pc'[s] = IF y.error /\ ~GoesOn(s) THEN "rollback"
                  ELSE IF InTrx(s) THEN "idle" ELSE "stmt"
      /\ is_error'[s] <=> (y.error /\ ~GoesOn(s))
      /\ todo'[s] = IF y.error /\ ~GoesOn(s) THEN Held(s) \cup {c} ELSE {}
  <2>1. AfterQuery(s, c, y.error) /\ pc \in [Session -> {"idle", "stmt", "commit", "rollback"}]
        /\ todo \in [Session -> SUBSET Conn] /\ is_error \in [Session -> BOOLEAN]
    BY <1>1 DEF QueryAt, TypeOK
  <2>2. CASE ~y.error
    BY <1>2, <2>1, <2>2 DEF AfterQuery
  <2>3. CASE y.error /\ GoesOn(s)
    BY <1>2, <2>1, <2>3 DEF AfterQuery, GoesOn
  <2>4. CASE y.error /\ ~GoesOn(s)
    BY <1>2, <2>1, <2>4 DEF AfterQuery, GoesOn, EnterLoop
  <2> QED BY <2>2, <2>3, <2>4
<1>4. OnlyOf(s)
  BY <1>1 DEF OnlyOf, QueryAt, AfterQuery, EnterLoop, TypeOK
<1>5. /\ cur'[s] = t
      /\ thd' = thd
      /\ conn'[c] = y.conn /\ srv'[c] = y.srv
      /\ \A d \in Conn : d # c => conn'[d] = conn[d] /\ srv'[d] = srv[d]
  BY <1>1, BoundAssumption DEF QueryAt, SetLink, TypeOK, Trx
<1> QED BY <1>1, <1>2, <1>3, <1>4, <1>5 DEF QueryDone

LEMMA QueryConn ==
  ASSUME NEW s \in Session, NEW b \in Backend, NEW c \in Conn, NEW y, NEW t,
         QueryAt(s, b, c, y, t), NEW d \in Conn
  PROVE  ConnInv(d)'
<1> DEFINE e == y.error /\ ~GoesOn(s)
<1>0. QueryDone(s, b, c, y, t)
  BY QueryFields, Zenon
<1>1. /\ TypeOK /\ OnlyOf(s) /\ thd' = thd
      /\ cur'[s] = t
      /\ conn'[c] = y.conn /\ srv'[c] = y.srv
      /\ \A q \in Conn : q # c => conn'[q] = conn[q] /\ srv'[q] = srv[q]
      /\ is_error[s] = FALSE
      /\ is_error'[s] <=> e
      /\ pc'[s] = IF e THEN "rollback" ELSE IF InTrx(s) THEN "idle" ELSE "stmt"
      /\ todo'[s] = IF e THEN Held(s) \cup {c} ELSE {}
  BY <1>0 DEF QueryDone
<1>2. InTrx(s)' <=> InTrx(s)
  BY <1>1 DEF InTrx
<1>3. CASE d # c
  <2>1. ASSUME conn[d].place = s
        PROVE  /\ Joins(s, d)' = Joins(s, d)
               /\ cur'[s] = cur[s]
    <3>1. Joins(s, d) = TRUE
      BY DEF Joins, QueryAt
    <3>2. Joins(s, d)' = TRUE
      BY <1>1, <2>1 DEF Joins, Held, Loop
    <3>3. cur[s] # 0
      BY <2>1 DEF QueryAt, PlainInv, ConnInv
    <3> QED BY <1>1, <3>1, <3>2, <3>3 DEF QueryAt
  <2>2. ConnInv(d)
    BY DEF QueryAt, PlainInv
  <2> QED BY <1>1, <1>2, <1>3, <2>1, <2>2, Untouched
<1>4. CASE d = c
  <2>1. /\ LinkInv(y.conn, y.srv) /\ y.conn.place = s
        /\ HeldInv(s, y.conn, y.srv, TRUE, t, e)
    BY DEF QueryAt, AfterStatement
  <2>2. Joins(s, c)' = TRUE
    BY <1>1 DEF Joins, Loop
  <2>3. HeldInv(s, conn'[c], srv'[c], TRUE, t, e) /\ (e => is_error'[s])
    BY <1>1, <2>1
  <2> HIDE DEF e
  <2>j. PICK j, f : HeldInv(s, conn'[c], srv'[c], j, t, f) /\ Joins(s, c)' = j /\ (f => is_error'[s])
    BY <2>2, <2>3
  <2>4. HeldInv(s, conn[c], srv[c], Joins(s, c), cur[s], is_error[s])'
    BY <1>1, <1>2, <2>j, HeldStep
  <2>5. s # "none" /\ s # "pool" /\ t # 0
    BY PlaceAssumption, BoundAssumption DEF QueryAt, Trx
  <2> QED BY <1>1, <1>4, <2>1, <2>4, <2>5, ConnStep
<1> QED BY <1>3, <1>4

\* What is committed or written in a statement belongs to its transaction.
LEMMA QueryWork ==
  ASSUME NEW s \in Session, NEW b \in Backend, NEW c \in Conn, NEW y, NEW t,
         QueryAt(s, b, c, y, t)
  PROVE  /\ t \in Trx /\ t <= ntrx' /\ ntrx <= ntrx' /\ ntrx \in Nat /\ ntrx' \in 0..MaxTrx
         /\ cur[s] = 0 => t > ntrx
         /\ reply[t] = "none"
         /\ \A w \in committed' : w \in committed \/ (w = <<t, b>> /\ ~InTrx(s))
         /\ committed \subseteq committed'
         /\ t \in y.done => <<t, b>> \in committed'
         /\ \A w \in written' : w \in written \/ (w = <<t, b>> /\ ~y.error)
<1>0. TypeOK /\ SessionInv(s) /\ FutureInv /\ AfterStatement(s, c, y, t)
  BY DEF QueryAt, PlainInv
<1>1. t \in Trx /\ ntrx \in 0..MaxTrx /\ cur[s] \in 0..MaxTrx /\ reply \in [Trx -> {"none", "success", "fail", "rolledback"}]
  BY <1>0 DEF QueryAt, TypeOK
<1>2. IF cur[s] = 0 THEN t = ntrx + 1 /\ ntrx' = ntrx + 1 ELSE t = cur[s] /\ ntrx' = ntrx
  BY DEF QueryAt
<1>3. /\ t <= ntrx' /\ ntrx <= ntrx' /\ ntrx \in Nat /\ ntrx' \in 0..MaxTrx
      /\ cur[s] = 0 => t > ntrx
  BY <1>0, <1>1, <1>2, BoundAssumption DEF Trx, SessionInv
<1>4. reply[t] = "none"
  BY <1>0, <1>1, <1>2, <1>3 DEF FutureInv, SessionInv
<1>5. committed' = committed \cup {<<u, b>> : u \in y.done}
  BY DEF QueryAt, SetLink
<1>6. y.done \subseteq {t} /\ (InTrx(s) => y.done = {})
  BY <1>0 DEF AfterStatement
<1>7. /\ \A w \in committed' : w \in committed \/ (w = <<t, b>> /\ ~InTrx(s))
      /\ committed \subseteq committed'
      /\ t \in y.done => <<t, b>> \in committed'
  BY <1>5, <1>6
<1>8. \A w \in written' : w \in written \/ (w = <<t, b>> /\ ~y.error)
  BY DEF QueryAt
<1> QED BY <1>1, <1>3, <1>4, <1>7, <1>8

LEMMA QuerySession ==
  ASSUME NEW s \in Session, NEW b \in Backend, NEW c \in Conn, NEW y, NEW t,
         QueryAt(s, b, c, y, t), NEW p \in Session
  PROVE  SessionInv(p)'
<1>0. QueryDone(s, b, c, y, t)
  BY QueryFields, Zenon
<1>1. /\ t \in Trx /\ t <= ntrx' /\ ntrx <= ntrx' /\ ntrx \in Nat /\ ntrx' \in 0..MaxTrx
      /\ reply[t] = "none"
  BY QueryWork
<1>2. SessionInv(p) /\ reply' = reply /\ cur[p] \in 0..MaxTrx
  BY DEF QueryAt, PlainInv, TypeOK
<1>3. CASE p = s
  <2>1. /\ thd' = thd /\ cur'[s] = t
        /\ is_error'[s] <=> (y.error /\ ~GoesOn(s))
        /\ pc'[s] = IF y.error /\ ~GoesOn(s) THEN "rollback"
                    ELSE IF InTrx(s) THEN "idle" ELSE "stmt"
        /\ todo'[s] = IF y.error /\ ~GoesOn(s) THEN Held(s) \cup {c} ELSE {}
    BY <1>0 DEF QueryDone
  <2>2. (InTrx(s)' <=> InTrx(s)) /\ t # 0
    BY <1>1, <2>1, BoundAssumption DEF InTrx, Trx
  <2> QED BY <1>1, <1>2, <1>3, <2>1, <2>2 DEF SessionInv, Loop
<1>4. CASE p # s
  <2>1. /\ thd'[p] = thd[p] /\ pc'[p] = pc[p] /\ todo'[p] = todo[p]
        /\ is_error'[p] = is_error[p] /\ cur'[p] = cur[p]
    BY <1>0, <1>4 DEF QueryDone, OnlyOf
  <2>2. cur[p] <= ntrx'
    BY <1>1, <1>2, BoundAssumption DEF SessionInv
  <2> QED BY <1>2, <2>1, <2>2 DEF SessionInv, InTrx
<1> QED BY <1>3, <1>4

LEMMA QueryOneEach ==
  ASSUME NEW s \in Session, NEW b \in Backend, NEW c \in Conn, NEW y, NEW t,
         QueryAt(s, b, c, y, t)
  PROVE  OneEach' /\ \A p \in Session : p # s => cur'[p] = cur[p] /\ cur[p] # t
<1>0. QueryDone(s, b, c, y, t)
  BY QueryFields, Zenon
<1>1. OneEach /\ TypeOK /\ AfterStatement(s, c, y, t)
  BY DEF QueryAt, PlainInv
<1>2. /\ conn'[c].place = s
      /\ \A d \in Conn : d # c => conn'[d] = conn[d]
      /\ conn[c].place # s => \A d \in Conn : Target[d] = b => conn[d].place # s
      /\ Target[c] = b
  BY <1>0, <1>1 DEF QueryDone, QueryAt, AfterStatement
<1>3. ASSUME NEW d \in Conn, NEW e \in Conn, conn'[d].place \in Session,
             conn'[d].place = conn'[e].place, Target[d] = Target[e]
      PROVE  d = e
  BY <1>1, <1>2, <1>3 DEF OneEach
<1>4. ASSUME NEW p \in Session, p # s PROVE cur'[p] = cur[p] /\ cur[p] # t
  <2>1. cur'[p] = cur[p]
    BY <1>0, <1>4 DEF QueryDone, OnlyOf
  <2>2. CASE cur[s] = 0
    <3>1. t > ntrx /\ ntrx \in Nat /\ t \in Trx
      BY <2>2, QueryWork
    <3>2. cur[p] <= ntrx /\ cur[p] \in 0..MaxTrx
      BY DEF QueryAt, PlainInv, SessionInv, TypeOK
    <3> QED BY <2>1, <3>1, <3>2, BoundAssumption DEF Trx
  <2>3. CASE cur[s] # 0
    BY <1>1, <1>4, <2>1, <2>3 DEF QueryAt, OneEach
  <2> QED BY <2>2, <2>3
<1>5. \A p, q \in Session : cur'[p] = cur'[q] /\ cur'[p] # 0 => p = q
  BY <1>0, <1>1, <1>4 DEF QueryDone, OneEach
<1> QED BY <1>3, <1>4, <1>5 DEF OneEach

LEMMA QueryFuture ==
  ASSUME NEW s \in Session, NEW b \in Backend, NEW c \in Conn, NEW y, NEW t,
         QueryAt(s, b, c, y, t)
  PROVE  FutureInv' /\ Durable' /\ StaysRolledBack'
<1>1. /\ t \in Trx /\ t <= ntrx' /\ ntrx <= ntrx' /\ ntrx \in Nat /\ ntrx' \in 0..MaxTrx
      /\ reply[t] = "none"
      /\ \A w \in committed' : w \in committed \/ (w = <<t, b>> /\ ~InTrx(s))
      /\ committed \subseteq committed'
      /\ \A w \in written' : w \in written \/ (w = <<t, b>> /\ ~y.error)
  BY QueryWork
<1>2. /\ FutureInv /\ Durable /\ StaysRolledBack /\ reply' = reply
      /\ committed \subseteq Work /\ written \subseteq Work
  BY DEF QueryAt, PlainInv, TypeOK
<1>3. \A u \in Trx : u > ntrx' => reply'[u] = "none"
  BY <1>1, <1>2, BoundAssumption DEF FutureInv, Trx
<1>4. ASSUME NEW w \in committed' \cup written' PROVE w[1] <= ntrx'
  <2>1. CASE w = <<t, b>>
    BY <1>1, <2>1
  <2>2. CASE w \in committed \cup written
    <3>1. w[1] <= ntrx /\ w[1] \in Trx
      BY <1>2, <2>2 DEF FutureInv, Work
    <3> QED BY <1>1, <3>1, BoundAssumption DEF Trx
  <2> QED BY <1>1, <2>1, <2>2
<1>5. Durable'
  BY <1>1, <1>2 DEF Durable
<1>6. StaysRolledBack'
  BY <1>1, <1>2 DEF StaysRolledBack
<1> QED BY <1>3, <1>4, <1>5, <1>6 DEF FutureInv

LEMMA QueryUncommitted ==
  ASSUME NEW s \in Session, NEW b \in Backend, NEW c \in Conn, NEW y, NEW t,
         QueryAt(s, b, c, y, t)
  PROVE  UncommittedInv'
<1>0. QueryDone(s, b, c, y, t)
  BY QueryFields, Zenon
<1>1. /\ t \in Trx /\ ntrx \in Nat
      /\ cur[s] = 0 => t > ntrx
      /\ \A w \in committed' : w \in committed \/ (w = <<t, b>> /\ ~InTrx(s))
  BY QueryWork
<1>2. UncommittedInv /\ FutureInv /\ thd' = thd
  BY DEF QueryAt, PlainInv
<1>3. ASSUME NEW p \in Session, cur'[p] # 0, InTrx(p)', pc'[p] # "commit",
             NEW a \in Backend, <<cur'[p], a>> \in committed'
      PROVE  FALSE
  <2>1. InTrx(p)
    BY <1>2, <1>3 DEF InTrx
  <2>2. CASE p = s
    <3>1. <<t, a>> \in committed /\ cur'[s] = t
      BY <1>0, <1>1, <1>3, <2>1, <2>2 DEF QueryDone
    <3>2. CASE cur[s] = 0
      <4>1. <<t, a>>[1] <= ntrx
        BY <1>2, <3>1 DEF FutureInv
      <4> QED BY <1>1, <3>2, <4>1, BoundAssumption DEF Trx
    <3>3. CASE cur[s] # 0
      <4>1. t = cur[s] /\ pc[s] # "commit"
        BY <3>3 DEF QueryAt, Loop
      <4> QED BY <1>2, <2>1, <2>2, <3>1, <3>3, <4>1 DEF UncommittedInv
    <3> QED BY <3>2, <3>3
  <2>3. CASE p # s
    <3>1. cur'[p] = cur[p] /\ cur[p] # t
      BY <2>3, QueryOneEach
    <3>2. pc'[p] = pc[p]
      BY <1>0, <2>3 DEF QueryDone, OnlyOf
    <3>3. <<cur[p], a>> \in committed
      BY <1>1, <1>3, <3>1
    <3> QED BY <1>2, <1>3, <2>1, <3>1, <3>2, <3>3 DEF UncommittedInv
  <2> QED BY <2>2, <2>3
<1> QED BY <1>3 DEF UncommittedInv

\* What makes up for a statement that was written, now and after a step.
WrittenAt(s, c, b) ==
  /\ conn[c].place = s /\ Target[c] = b
  /\ \/ <<cur[s], b>> \in committed
     \/ is_error[s] \/ pc[s] = "rollback"
     \/ InTrx(s) /\ WillCommit(conn[c], srv[c], cur[s])

LEMMA WrittenEquiv ==
  WrittenInv <=> \A s \in Session, b \in Backend : <<cur[s], b>> \in written =>
                   \E c \in Conn : WrittenAt(s, c, b)
BY DEF WrittenInv, WrittenAt

\* A connection that a step of another session leaves alone.
LEMMA WrittenOther ==
  ASSUME NEW s \in Session, NEW p \in Session, p # s, OnlyOf(s),
         NEW c \in Conn, NEW b \in Backend, WrittenAt(p, c, b),
         conn'[c] = conn[c], srv'[c] = srv[c], committed \subseteq committed'
  PROVE  WrittenAt(p, c, b)'
BY DEF OnlyOf, WrittenAt, InTrx, WillCommit, ToEnd, NotStarted

LEMMA QueryWritten ==
  ASSUME NEW s \in Session, NEW b \in Backend, NEW c \in Conn, NEW y, NEW t,
         QueryAt(s, b, c, y, t)
  PROVE  WrittenInv'
<1>0. QueryDone(s, b, c, y, t)
  BY QueryFields, Zenon
<1>1. /\ t \in Trx /\ ntrx \in Nat
      /\ cur[s] = 0 => t > ntrx
      /\ committed \subseteq committed'
      /\ t \in y.done => <<t, b>> \in committed'
      /\ \A w \in written' : w \in written \/ (w = <<t, b>> /\ ~y.error)
  BY QueryWork
<1>2. /\ WrittenInv /\ FutureInv /\ AfterStatement(s, c, y, t)
      /\ thd' = thd /\ Target[c] = b /\ conn[c].place \in {"none", "pool", s}
      /\ pc[s] \notin Loop /\ (cur[s] # 0 => t = cur[s])
  BY DEF QueryAt, PlainInv
<1>3. /\ OnlyOf(s) /\ cur'[s] = t
      /\ conn'[c] = y.conn /\ srv'[c] = y.srv
      /\ \A d \in Conn : d # c => conn'[d] = conn[d] /\ srv'[d] = srv[d]
      /\ is_error[s] = FALSE
      /\ is_error'[s] <=> (y.error /\ ~GoesOn(s))
  BY <1>0 DEF QueryDone
<1>4. ASSUME NEW p \in Session, NEW a \in Backend, <<cur'[p], a>> \in written'
      PROVE  \E d \in Conn : WrittenAt(p, d, a)'
  <2>1. CASE p # s
    <3>1. cur'[p] = cur[p] /\ cur[p] # t
      BY <2>1, QueryOneEach
    <3>2. <<cur[p], a>> \in written
      BY <1>1, <1>4, <3>1
    <3>3. PICK d \in Conn : WrittenAt(p, d, a)
      BY <1>2, <3>2, WrittenEquiv
    <3>4. d # c
      BY <1>2, <2>1, <3>3, PlaceAssumption DEF WrittenAt
    <3> QED BY <1>1, <1>3, <2>1, <3>3, <3>4, WrittenOther
  <2>2. CASE p = s /\ <<t, a>> \in written
    <3>1. cur[s] # 0 /\ t = cur[s]
      <4>1. <<t, a>>[1] <= ntrx
        BY <1>2, <2>2 DEF FutureInv
      <4> QED BY <1>1, <1>2, <4>1, BoundAssumption DEF Trx
    <3>2. PICK d \in Conn : WrittenAt(s, d, a)
      BY <1>2, <2>2, <3>1, WrittenEquiv
    <3>3. /\ conn[d].place = s /\ Target[d] = a
          /\ <<t, a>> \in committed \/ (InTrx(s) /\ WillCommit(conn[d], srv[d], t))
      BY <1>2, <1>3, <3>1, <3>2 DEF WrittenAt, Loop
    <3>4. InTrx(s)' <=> InTrx(s)
      BY <1>2 DEF InTrx
    <3>5. conn'[d].place = s
      BY <1>2, <1>3, <3>3 DEF AfterStatement
    <3>6. \/ <<t, a>> \in committed' \/ is_error'[s]
          \/ InTrx(s) /\ WillCommit(conn'[d], srv'[d], t)
      <4>1. CASE d = c
        BY <1>1, <1>2, <1>3, <3>3, <4>1 DEF AfterStatement
      <4>2. CASE d # c
        BY <1>1, <1>3, <3>3, <4>2
      <4> QED BY <4>1, <4>2
    <3>7. WrittenAt(s, d, a)'
      BY <1>3, <3>3, <3>4, <3>5, <3>6 DEF WrittenAt, WillCommit, ToEnd, NotStarted
    <3> QED BY <2>2, <3>7
  <2>3. CASE p = s /\ a = b /\ ~y.error
    <3>1. InTrx(s)' <=> InTrx(s)
      BY <1>2 DEF InTrx
    <3>2. /\ y.conn.place = s
          /\ t \in y.done \/ (InTrx(s) /\ WillCommit(y.conn, y.srv, t))
      BY <1>2, <2>3 DEF AfterStatement
    <3>3. WrittenAt(s, c, b)'
      BY <1>1, <1>2, <1>3, <3>1, <3>2 DEF WrittenAt, WillCommit, ToEnd, NotStarted
    <3> QED BY <2>3, <3>3
  <2>4. p = s => <<t, a>> \in written \/ (a = b /\ ~y.error)
    BY <1>1, <1>3, <1>4
  <2> QED BY <2>1, <2>2, <2>3, <2>4
<1> QED BY <1>4 DEF WrittenInv, WrittenAt

LEMMA QueryStep ==
  ASSUME RefusedIsRolledBack, PlainInv, NEW s \in Session, NEW b \in Backend, Query(s, b)
  PROVE  PlainInv'
<1>1. PICK c \in Conn : \E y, t : QueryAt(s, b, c, y, t)
  BY QueryCases
<1>2. PICK y, t : QueryAt(s, b, c, y, t)
  BY <1>1
<1>3. TypeOK'
  BY TypeQuery DEF PlainInv
<1>4. \A d \in Conn : ConnInv(d)'
  BY <1>2, QueryConn, Zenon
<1>5. \A p \in Session : SessionInv(p)'
  BY <1>2, QuerySession, Zenon
<1>6. OneEach'
  BY <1>2, QueryOneEach, Zenon
<1>7. FutureInv' /\ Durable' /\ StaysRolledBack'
  BY <1>2, QueryFuture, Zenon
<1>8. UncommittedInv' /\ WrittenInv'
  BY <1>2, QueryUncommitted, QueryWritten, Zenon
<1> QED BY <1>3, <1>4, <1>5, <1>6, <1>7, <1>8 DEF PlainInv

\* A loop over the connections of s begins.
LoopBegins(s, loop) ==
  /\ PlainInv
  /\ pc[s] \notin Loop /\ loop \in Loop
  /\ cur[s] # 0
  /\ loop = "rollback" => InTrx(s)
  /\ EnterLoop(s, loop, Held(s))
  /\ UNCHANGED <<thd, is_error, cur, conn, srv, committed, nset, ntrx, written, reply>>

LEMMA LoopBeginsStep ==
  ASSUME NEW s \in Session, NEW loop, LoopBegins(s, loop)
  PROVE  PlainInv'
<1>0. /\ thd' = thd /\ is_error' = is_error /\ cur' = cur /\ conn' = conn /\ srv' = srv
      /\ committed' = committed /\ nset' = nset /\ ntrx' = ntrx
      /\ written' = written /\ reply' = reply
  BY DEF LoopBegins
<1>1. /\ TypeOK /\ SessionInv(s) /\ WrittenInv /\ UncommittedInv
      /\ pc[s] \notin Loop /\ loop \in Loop /\ cur[s] # 0
      /\ loop = "rollback" => InTrx(s)
  BY DEF LoopBegins, PlainInv
<1>2. /\ pc'[s] = loop /\ todo'[s] = Held(s)
      /\ \A p \in Session : p # s => pc'[p] = pc[p] /\ todo'[p] = todo[p]
      /\ pc' \in [Session -> {"idle", "stmt", "commit", "rollback"}]
      /\ todo' \in [Session -> SUBSET Conn]
  BY <1>1 DEF LoopBegins, EnterLoop, TypeOK, Loop, Held
<1>3. OnlyOf(s)
  BY <1>0, <1>2 DEF OnlyOf
<1>i. \A p \in Session : InTrx(p)' <=> InTrx(p)
  BY <1>0 DEF InTrx
<1>4. TypeOK'
  BY <1>0, <1>1, <1>2 DEF TypeOK, Held
<1>5. ASSUME NEW c \in Conn PROVE ConnInv(c)'
  <2>1. conn[c].place = s => Joins(s, c)' = Joins(s, c)
    <3>1. Joins(s, c) = TRUE
      BY <1>1 DEF Joins
    <3>2. conn[c].place = s => Joins(s, c)' = TRUE
      BY <1>2 DEF Joins, Held
    <3> QED BY <3>1, <3>2
  <2>2. ConnInv(c)
    BY DEF LoopBegins, PlainInv
  <2>3. conn'[c] = conn[c] /\ srv'[c] = srv[c] /\ cur'[s] = cur[s] /\ is_error'[s] = is_error[s]
        /\ thd'[s].trx_isolation = thd[s].trx_isolation
    BY <1>0
  <2> QED BY <1>3, <1>i, <2>1, <2>2, <2>3, Untouched
<1>6. ASSUME NEW p \in Session PROVE SessionInv(p)'
  <2>1. SessionInv(p)
    BY DEF LoopBegins, PlainInv
  <2>2. CASE p = s
    BY <1>0, <1>1, <1>2, <1>i, <2>1, <2>2 DEF SessionInv, Loop
  <2>3. CASE p # s
    BY <1>0, <1>2, <1>i, <2>1, <2>3 DEF SessionInv
  <2> QED BY <2>2, <2>3
<1>7. OneEach' /\ FutureInv' /\ Durable' /\ StaysRolledBack'
  BY <1>0 DEF LoopBegins, PlainInv, OneEach, FutureInv, Durable, StaysRolledBack
<1>8. ASSUME NEW p \in Session, NEW b \in Backend, <<cur'[p], b>> \in written'
      PROVE  \E c \in Conn : WrittenAt(p, c, b)'
  <2>1. PICK c \in Conn : WrittenAt(p, c, b)
    BY <1>0, <1>1, <1>8, WrittenEquiv
  <2>2. CASE p = s
    <3>1. \/ <<cur[s], b>> \in committed \/ is_error[s]
          \/ InTrx(s) /\ WillCommit(conn[c], srv[c], cur[s])
      BY <1>1, <2>1, <2>2 DEF WrittenAt, Loop
    <3> QED BY <1>0, <1>i, <2>1, <2>2, <3>1 DEF WrittenAt, WillCommit, ToEnd, NotStarted
  <2>3. CASE p # s
    <3>1. conn'[c] = conn[c] /\ srv'[c] = srv[c] /\ committed \subseteq committed'
      BY <1>0
    <3> QED BY <1>3, <2>1, <2>3, <3>1, WrittenOther
  <2> QED BY <2>2, <2>3
<1>9. WrittenInv'
  BY <1>8 DEF WrittenInv, WrittenAt
<1>10. UncommittedInv'
  <2>1. \A p \in Session : pc'[p] # "commit" => pc[p] # "commit"
    BY <1>1, <1>2 DEF Loop
  <2> QED BY <1>0, <1>1, <1>i, <2>1 DEF UncommittedInv
<1> QED BY <1>4, <1>5, <1>6, <1>7, <1>9, <1>10 DEF PlainInv

LEMMA EndStmtStep ==
  ASSUME PlainInv, NEW s \in Session, EndStmt(s) PROVE PlainInv'
<1>1. LoopBegins(s, "commit")
  BY DEF EndStmt, LoopBegins, PlainInv, SessionInv, Loop
<1> QED BY <1>1, LoopBeginsStep

LEMMA CommitStep ==
  ASSUME PlainInv, NEW s \in Session, Commit(s) PROVE PlainInv'
<1>1. LoopBegins(s, "commit")
  BY DEF Commit, LoopBegins, Loop
<1> QED BY <1>1, LoopBeginsStep

LEMMA RollbackStep ==
  ASSUME PlainInv, NEW s \in Session, Rollback(s) PROVE PlainInv'
<1>1. LoopBegins(s, "rollback")
  BY DEF Rollback, LoopBegins, PlainInv, SessionInv, Loop
<1> QED BY <1>1, LoopBeginsStep

\* The loop of s has visited c, with y.
EndAt(s, c, y) ==
  /\ PlainInv
  /\ pc[s] \in Loop /\ c \in todo[s]
  /\ AfterEnd(s, y, is_error[s] \/ y.error)
  /\ pc[s] = "rollback" => y.done = {}
  /\ pc[s] = "commit" /\ ~y.error /\ InTrx(s) /\ WillCommit(conn[c], srv[c], cur[s]) =>
       cur[s] \in y.done
  /\ todo' = [todo EXCEPT ![s] = @ \ {c}]
  /\ SetLink(c, [y EXCEPT !.conn.join_trx = FALSE])
  /\ is_error' = [is_error EXCEPT ![s] = @ \/ y.error]
  /\ UNCHANGED <<thd, pc, cur, nset, ntrx, written, reply>>

\* What it changes; w is the link then.
EndDone(s, c, w, failed) ==
  /\ OnlyOf(s)
  /\ w \in LinkType /\ LinkInv(w.conn, w.srv) /\ w.conn.place = s
  /\ HeldInv(s, w.conn, w.srv, FALSE, cur[s], is_error[s] \/ failed)
  /\ conn' = [conn EXCEPT ![c] = w.conn] /\ srv' = [srv EXCEPT ![c] = w.srv]
  /\ conn'[c] = w.conn /\ srv'[c] = w.srv
  /\ \A d \in Conn : d # c => conn'[d] = conn[d] /\ srv'[d] = srv[d]
  /\ \A v \in committed' : v \in committed \/ (v = <<cur[s], Target[c]>> /\ pc[s] = "commit")
  /\ committed \subseteq committed'
  /\ pc[s] = "commit" /\ ~failed /\ InTrx(s) /\ WillCommit(conn[c], srv[c], cur[s]) =>
       <<cur[s], Target[c]>> \in committed'
  /\ is_error'[s] <=> (is_error[s] \/ failed)
  /\ todo'[s] = todo[s] \ {c}

LEMMA EndFields ==
  ASSUME NEW s \in Session, NEW c \in Conn, NEW y, EndAt(s, c, y)
  PROVE  EndDone(s, c, [y EXCEPT !.conn.join_trx = FALSE], y.error)
<1> DEFINE w == [y EXCEPT !.conn.join_trx = FALSE]
<1>1. TypeOK /\ AfterEnd(s, y, is_error[s] \/ y.error)
  BY DEF EndAt, PlainInv
<1>2. /\ w \in LinkType /\ LinkInv(w.conn, w.srv) /\ w.conn.place = s
      /\ w.done = y.done
      /\ HeldInv(s, w.conn, w.srv, FALSE, cur[s], is_error[s] \/ y.error)
  BY <1>1, LeaveHeld
<1>3. /\ conn' = [conn EXCEPT ![c] = w.conn] /\ srv' = [srv EXCEPT ![c] = w.srv]
      /\ committed' = committed \cup {<<u, Target[c]>> : u \in w.done}
  BY DEF EndAt, SetLink
<1> HIDE DEF w
<1>4. /\ conn'[c] = w.conn /\ srv'[c] = w.srv
      /\ \A d \in Conn : d # c => conn'[d] = conn[d] /\ srv'[d] = srv[d]
  BY <1>1, <1>3 DEF TypeOK
<1>5. w.done \subseteq {cur[s]}
  BY <1>1, <1>2 DEF AfterEnd
<1>6. pc[s] = "rollback" => w.done = {}
  BY <1>2 DEF EndAt
<1>7. pc[s] = "commit" \/ pc[s] = "rollback"
  BY DEF EndAt, Loop
<1>8. /\ \A v \in committed' : v \in committed \/ (v = <<cur[s], Target[c]>> /\ pc[s] = "commit")
      /\ committed \subseteq committed'
  BY <1>3, <1>5, <1>6, <1>7
<1>9. pc[s] = "commit" /\ ~y.error /\ InTrx(s) /\ WillCommit(conn[c], srv[c], cur[s]) =>
        <<cur[s], Target[c]>> \in committed'
  <2>1. pc[s] = "commit" /\ ~y.error /\ InTrx(s) /\ WillCommit(conn[c], srv[c], cur[s]) =>
          cur[s] \in w.done
    BY <1>2 DEF EndAt
  <2> QED BY <1>3, <2>1
<1>10. (is_error'[s] <=> (is_error[s] \/ y.error)) /\ todo'[s] = todo[s] \ {c}
  BY <1>1 DEF EndAt, TypeOK
<1>11. OnlyOf(s)
  BY <1>1 DEF EndAt, OnlyOf, TypeOK
<1> QED BY <1>2, <1>3, <1>4, <1>8, <1>9, <1>10, <1>11 DEF EndDone, w

LEMMA EndConnStep ==
  ASSUME NEW s \in Session, NEW c \in Conn, NEW y, EndAt(s, c, y)
  PROVE  PlainInv'
<1> DEFINE w == [y EXCEPT !.conn.join_trx = FALSE]
           failed == y.error
<1>0. EndDone(s, c, w, failed)
  BY EndFields, Zenon
<1> HIDE DEF w, failed
<1>1. /\ TypeOK /\ SessionInv(s) /\ OneEach /\ FutureInv /\ WrittenInv /\ UncommittedInv
      /\ Durable /\ StaysRolledBack
      /\ pc[s] \in Loop /\ c \in todo[s]
      /\ thd' = thd /\ pc' = pc /\ cur' = cur /\ nset' = nset /\ ntrx' = ntrx
      /\ written' = written /\ reply' = reply
  BY DEF EndAt, PlainInv
<1>2. conn[c].place = s
  BY <1>1 DEF TypeOK, Held
<1>i. \A p \in Session : InTrx(p)' <=> InTrx(p)
  BY <1>1 DEF InTrx
<1>t. cur[s] # 0 /\ cur[s] \in Trx /\ reply[cur[s]] = "none" /\ cur[s] <= ntrx
  BY <1>1, BoundAssumption DEF SessionInv, TypeOK, Trx
<1>3. TypeOK'
  <2>1. w.conn \in ConnType /\ w.srv \in ServerType
    BY <1>0, LinkFields DEF EndDone
  <2>2. conn' \in [Conn -> ConnType] /\ srv' \in [Conn -> ServerType]
    BY <1>0, <1>1, <2>1 DEF EndDone, TypeOK
  <2>3. /\ todo' \in [Session -> SUBSET Conn] /\ is_error' \in [Session -> BOOLEAN]
        /\ \A p \in Session : todo'[p] \subseteq todo[p]
    <3>1. failed \in BOOLEAN
      BY LinkFields DEF EndAt, AfterEnd, failed
    <3>2. todo' = [todo EXCEPT ![s] = @ \ {c}] /\ is_error' = [is_error EXCEPT ![s] = @ \/ failed]
      BY DEF EndAt, failed
    <3> QED BY <1>1, <3>1, <3>2 DEF TypeOK
  <2>4. \A p \in Session : Held(p)' = Held(p)
    BY <1>0, <1>2 DEF EndDone, Held
  <2>5. committed' \subseteq Work
    <3>1. <<cur[s], Target[c]>> \in Work
      BY <1>t, TargetAssumption DEF Work
    <3> QED BY <1>0, <1>1, <3>1 DEF EndDone, TypeOK
  <2> QED BY <1>1, <2>2, <2>3, <2>4, <2>5 DEF TypeOK
<1>4. ASSUME NEW d \in Conn PROVE ConnInv(d)'
  <2>0. ConnInv(d) /\ OnlyOf(s) /\ thd'[s].trx_isolation = thd[s].trx_isolation
    BY <1>0, <1>1 DEF EndAt, PlainInv, EndDone
  <2>1. CASE d # c
    <3>1. Joins(s, d)' = Joins(s, d)
      BY <1>0, <1>1, <2>1 DEF EndDone, Joins
    <3>2. /\ conn'[d] = conn[d] /\ srv'[d] = srv[d] /\ cur'[s] = cur[s]
          /\ is_error[s] => is_error'[s]
      BY <1>0, <1>1, <2>1 DEF EndDone
    <3> QED BY <1>i, <2>0, <3>1, <3>2, Untouched
  <2>2. CASE d = c
    <3>1. Joins(s, c)' = FALSE
      BY <1>0, <1>1 DEF EndDone, Joins
    <3>2. /\ HeldInv(s, conn'[c], srv'[c], FALSE, cur[s], is_error[s] \/ failed)
          /\ is_error[s] \/ failed => is_error'[s]
          /\ LinkInv(conn'[c], srv'[c]) /\ conn'[c].place = s
          /\ cur'[s] = cur[s]
      BY <1>0, <1>1 DEF EndDone
    <3>3. PICK j, f : /\ HeldInv(s, conn'[c], srv'[c], j, cur[s], f)
                      /\ Joins(s, c)' = j /\ (f => is_error'[s])
      BY <3>1, <3>2
    <3>4. HeldInv(s, conn[c], srv[c], Joins(s, c), cur[s], is_error[s])'
      BY <1>i, <2>0, <3>2, <3>3, HeldStep
    <3>5. s # "none" /\ s # "pool"
      BY PlaceAssumption
    <3> QED BY <1>t, <2>2, <3>2, <3>4, <3>5, ConnStep
  <2> QED BY <2>1, <2>2
<1>5. ASSUME NEW p \in Session PROVE SessionInv(p)'
  <2>1. SessionInv(p)
    BY DEF EndAt, PlainInv
  <2>2. CASE p = s
    BY <1>0, <1>1, <1>i, <2>1, <2>2 DEF SessionInv, EndDone
  <2>3. CASE p # s
    BY <1>0, <1>1, <1>i, <2>1, <2>3 DEF SessionInv, EndDone, OnlyOf
  <2> QED BY <2>2, <2>3
<1>6. OneEach'
  <2>1. \A d \in Conn : conn'[d].place = conn[d].place
    BY <1>0, <1>2 DEF EndDone
  <2> QED BY <1>1, <2>1 DEF OneEach
<1>7. FutureInv' /\ Durable' /\ StaysRolledBack'
  <2>1. /\ \A v \in committed' : v \in committed \/ v = <<cur[s], Target[c]>>
        /\ committed \subseteq committed'
    BY <1>0 DEF EndDone
  <2>2. FutureInv'
    BY <1>1, <1>t, <2>1 DEF FutureInv
  <2>3. Durable'
    BY <1>1, <2>1 DEF Durable
  <2>4. StaysRolledBack'
    BY <1>1, <1>t, <2>1 DEF StaysRolledBack
  <2> QED BY <2>2, <2>3, <2>4
<1>8. ASSUME NEW p \in Session, NEW b \in Backend, <<cur'[p], b>> \in written'
      PROVE  \E d \in Conn : WrittenAt(p, d, b)'
  <2>1. PICK d \in Conn : WrittenAt(p, d, b)
    BY <1>1, <1>8, WrittenEquiv
  <2>2. CASE p = s
    <3>1. conn[d].place = s /\ Target[d] = b /\ conn'[d].place = s
      BY <1>0, <1>2, <2>1, <2>2 DEF WrittenAt, EndDone
    <3>2. \/ <<cur[s], b>> \in committed' \/ is_error'[s] \/ pc[s] = "rollback"
          \/ InTrx(s) /\ WillCommit(conn'[d], srv'[d], cur[s])
      <4>1. \/ <<cur[s], b>> \in committed \/ is_error[s] \/ pc[s] = "rollback"
            \/ InTrx(s) /\ WillCommit(conn[d], srv[d], cur[s])
        BY <2>1, <2>2 DEF WrittenAt
      <4>2. CASE d # c
        BY <1>0, <4>1, <4>2 DEF EndDone
      <4>3. CASE d = c
        <5>1. pc[s] = "commit" \/ pc[s] = "rollback"
          BY <1>1 DEF Loop
        <5> QED BY <1>0, <3>1, <4>1, <4>3, <5>1 DEF EndDone
      <4> QED BY <4>2, <4>3
    <3> QED BY <1>1, <1>i, <2>2, <3>1, <3>2 DEF WrittenAt, WillCommit, ToEnd, NotStarted
  <2>3. CASE p # s
    <3>1. d # c
      BY <1>2, <2>1, <2>3 DEF WrittenAt
    <3>2. OnlyOf(s) /\ conn'[d] = conn[d] /\ srv'[d] = srv[d] /\ committed \subseteq committed'
      BY <1>0, <3>1 DEF EndDone
    <3> QED BY <2>1, <2>3, <3>2, WrittenOther
  <2> QED BY <2>2, <2>3
<1>9. WrittenInv'
  BY <1>8 DEF WrittenInv, WrittenAt
<1>10. UncommittedInv'
  <2>1. ASSUME NEW p \in Session, cur[p] # 0, InTrx(p), pc[p] # "commit",
               NEW b \in Backend, <<cur[p], b>> \in committed'
        PROVE  FALSE
    <3>1. <<cur[p], b>> \in committed
      BY <1>0, <1>1, <2>1 DEF EndDone, OneEach
    <3> QED BY <1>1, <2>1, <3>1 DEF UncommittedInv
  <2> QED BY <1>1, <1>i, <2>1 DEF UncommittedInv
<1> QED BY <1>3, <1>4, <1>5, <1>6, <1>7, <1>9, <1>10 DEF PlainInv

LEMMA CommitConnStep ==
  ASSUME PlainInv, NEW s \in Session, CommitConn(s) PROVE PlainInv'
<1>1. pc[s] = "commit" /\ TypeOK /\ \A c \in Conn : ConnInv(c)
  BY DEF CommitConn, PlainInv
<1>2. PICK c \in todo[s] : EndConn(s, c, DbCommit(s, Link(conn[c], c)))
  BY DEF CommitConn
<1>3. PICK y \in DbCommit(s, Link(conn[c], c)) :
        /\ SetLink(c, [y EXCEPT !.conn.join_trx = FALSE])
        /\ is_error' = [is_error EXCEPT ![s] = @ \/ y.error]
  BY <1>2 DEF EndConn
<1>4. c \in Conn
  BY <1>1 DEF TypeOK
<1>5. Ending(s, c)
  BY <1>1, <1>4 DEF Ending, Loop
<1>6. /\ AfterEnd(s, y, is_error[s] \/ y.error)
      /\ ~y.error /\ InTrx(s) /\ WillCommit(conn[c], srv[c], cur[s]) => cur[s] \in y.done
  BY <1>4, <1>5, CommitInv
<1>7. EndAt(s, c, y)
  BY <1>1, <1>2, <1>3, <1>6 DEF EndAt, EndConn, Loop
<1> QED BY <1>4, <1>7, EndConnStep, Zenon

LEMMA RollbackConnStep ==
  ASSUME PlainInv, NEW s \in Session, RollbackConn(s) PROVE PlainInv'
<1>1. pc[s] = "rollback" /\ TypeOK /\ \A c \in Conn : ConnInv(c)
  BY DEF RollbackConn, PlainInv
<1>2. PICK c \in todo[s] : EndConn(s, c, DbRollback(s, Link(conn[c], c)))
  BY DEF RollbackConn
<1>3. PICK y \in DbRollback(s, Link(conn[c], c)) :
        /\ SetLink(c, [y EXCEPT !.conn.join_trx = FALSE])
        /\ is_error' = [is_error EXCEPT ![s] = @ \/ y.error]
  BY <1>2 DEF EndConn
<1>4. c \in Conn
  BY <1>1 DEF TypeOK
<1>5. Ending(s, c)
  BY <1>1, <1>4 DEF Ending, Loop
<1>6. AfterEnd(s, y, is_error[s] \/ y.error) /\ y.done = {}
  BY <1>4, <1>5, RollbackInv
<1>7. EndAt(s, c, y)
  BY <1>1, <1>2, <1>3, <1>6 DEF EndAt, EndConn, Loop
<1> QED BY <1>4, <1>7, EndConnStep, Zenon

\* The transaction of s ends, and the connections in keep are pooled.
TrxEnds(s, keep, how, begin) ==
  /\ PlainInv
  /\ cur[s] # 0
  /\ \A c \in keep : /\ c \in Conn /\ conn[c].place = s
                     /\ Settled(conn[c], srv[c])
                     /\ srv[c].level = None /\ ~conn[c].trx_start /\ ~conn[c].join_trx
  /\ how \in {"success", "fail", "rolledback"} /\ begin \in BOOLEAN
  /\ how = "success" =>
       \A b \in Backend : <<cur[s], b>> \in written => <<cur[s], b>> \in committed
  /\ how = "rolledback" => \A b \in Backend : <<cur[s], b>> \notin committed
  /\ FreeTrxConn(s, keep)
  /\ EndTrx(s, how, begin)

LEMMA TrxEndsStep ==
  ASSUME NEW s \in Session, NEW keep, NEW how, NEW begin, TrxEnds(s, keep, how, begin)
  PROVE  PlainInv'
<1>1. /\ TypeOK /\ SessionInv(s) /\ OneEach /\ FutureInv /\ WrittenInv /\ UncommittedInv
      /\ Durable /\ StaysRolledBack
      /\ cur[s] # 0 /\ how \in {"success", "fail", "rolledback"} /\ begin \in BOOLEAN
      /\ committed' = committed /\ nset' = nset /\ ntrx' = ntrx /\ written' = written
      /\ reply' = [reply EXCEPT ![cur[s]] = how]
  BY DEF TrxEnds, PlainInv, EndTrx
<1>2. /\ pc'[s] = "idle" /\ todo'[s] = {} /\ cur'[s] = 0 /\ is_error'[s] = FALSE
      /\ \A p \in Session : p # s =>
           /\ thd'[p] = thd[p] /\ pc'[p] = pc[p] /\ todo'[p] = todo[p]
           /\ is_error'[p] = is_error[p] /\ cur'[p] = cur[p]
  BY <1>1 DEF TrxEnds, EndTrx, TypeOK
<1>3. OnlyOf(s)
  BY <1>2 DEF OnlyOf
<1>4. ASSUME NEW c \in Conn
      PROVE  /\ conn[c].place # s => conn'[c] = conn[c] /\ srv'[c] = srv[c]
             /\ conn[c].place = s /\ c \in keep =>
                  conn'[c] = Cleared(conn[c]) /\ srv'[c] = srv[c]
             /\ conn[c].place = s /\ c \notin keep =>
                  conn'[c] = NewConn /\ srv'[c] = NewServer
  <2>1. /\ conn'[c] = IF c \notin Held(s) THEN conn[c]
                      ELSE IF c \in keep THEN Cleared(conn[c]) ELSE NewConn
        /\ srv'[c] = IF c \in Held(s) \ keep THEN NewServer ELSE srv[c]
    BY DEF TrxEnds, FreeTrxConn
  <2>2. c \in Held(s) <=> conn[c].place = s
    BY DEF Held
  <2> QED BY <2>1, <2>2
<1>5. ASSUME NEW c \in Conn, conn[c].place = s, c \in keep
      PROVE  /\ conn'[c] \in ConnType /\ srv'[c] \in ServerType
             /\ conn'[c].place = "pool" /\ LinkInv(conn'[c], srv'[c])
             /\ Settled(conn'[c], srv'[c])
             /\ srv'[c].level = None /\ ~conn'[c].trx_start /\ ~conn'[c].join_trx
  <2>1. PICK r \in ConnType : r = conn[c]
    BY <1>1 DEF TypeOK
  <2>2. srv[c] \in ServerType /\ LinkInv(r, srv[c])
    BY <1>1, <2>1 DEF TypeOK, TrxEnds, PlainInv, ConnInv
  <2>3. Settled(r, srv[c]) /\ srv[c].level = None /\ ~r.trx_start /\ ~r.join_trx
    BY <1>5, <2>1 DEF TrxEnds
  <2>4. conn'[c] = Cleared(r) /\ srv'[c] = srv[c]
    BY <1>4, <1>5, <2>1
  <2> DEFINE w == Cleared(r)
  <2>5. /\ w \in ConnType
        /\ w.place = "pool"
        /\ w.queued_connect = r.queued_connect
        /\ w.server_lost = r.server_lost
        /\ w.join_trx = r.join_trx
        /\ w.trx_start => r.trx_start
        /\ w.queued_trx_start = FALSE
        /\ w.queued = NoSettings
        /\ w.known = r.known
    BY ClearedFields
  <2> HIDE DEF w
  <2>6. Settled(w, srv[c])
    BY <2>3, <2>5 DEF Settled
  <2>7. LinkInv(w, srv[c])
    BY <2>2, <2>3, <2>5, NewFields DEF LinkInv, Settled
  <2> QED BY <2>2, <2>3, <2>4, <2>5, <2>6, <2>7 DEF w
<1>6. ASSUME NEW c \in Conn PROVE conn'[c] \in ConnType /\ srv'[c] \in ServerType
  <2>1. conn[c] \in ConnType /\ srv[c] \in ServerType
    BY <1>1 DEF TypeOK
  <2> QED BY <1>4, <1>5, <2>1, NewType
<1>7. ASSUME NEW c \in Conn, NEW p \in Session, conn'[c].place = p
      PROVE  p # s /\ conn[c].place = p /\ conn'[c] = conn[c] /\ srv'[c] = srv[c]
  <2>1. p # "none" /\ p # "pool"
    BY PlaceAssumption
  <2>2. conn[c].place # s
    BY <1>4, <1>5, <1>7, <2>1, NewConnFields
  <2> QED BY <1>4, <1>7, <2>2
<1>8. TypeOK'
  <2>1. thd' \in [Session -> [autocommit : BOOLEAN, begin : BOOLEAN,
                              trx_isolation : Level, time_zone : Zone]]
    BY <1>1 DEF TrxEnds, EndTrx, TypeOK
  <2>2. /\ pc' \in [Session -> {"idle", "stmt", "commit", "rollback"}]
        /\ todo' \in [Session -> SUBSET Conn]
        /\ is_error' \in [Session -> BOOLEAN]
        /\ cur' \in [Session -> 0..MaxTrx]
    BY <1>1, BoundAssumption DEF TrxEnds, EndTrx, TypeOK
  <2>3. reply' \in [Trx -> {"none", "success", "fail", "rolledback"}]
    BY <1>1 DEF TypeOK
  <2>4. conn' \in [Conn -> ConnType] /\ srv' \in [Conn -> ServerType]
    <3>1. DOMAIN conn' = Conn /\ DOMAIN srv' = Conn /\ conn' = [c \in Conn |-> conn'[c]]
          /\ srv' = [c \in Conn |-> srv'[c]]
      BY DEF TrxEnds, FreeTrxConn
    <3> QED BY <1>6, <3>1
  <2>5. ASSUME NEW p \in Session, NEW c \in todo'[p] PROVE c \in Held(p)'
    <3>1. p # s /\ c \in todo[p]
      BY <1>2, <2>5
    <3>2. c \in Conn /\ conn[c].place = p
      BY <1>1, <3>1 DEF TypeOK, Held
    <3> QED BY <1>4, <3>1, <3>2 DEF Held
  <2> QED BY <1>1, <2>1, <2>2, <2>3, <2>4, <2>5 DEF TypeOK
<1>9. ASSUME NEW c \in Conn PROVE ConnInv(c)'
  <2>1. CASE conn[c].place # s
    <3>1. ConnInv(c)
      BY DEF TrxEnds, PlainInv
    <3> QED BY <1>3, <1>4, <2>1, <3>1, Untouched
  <2>2. CASE conn[c].place = s /\ c \in keep
    <3>1. "pool" \notin Session
      BY PlaceAssumption
    <3> QED BY <1>5, <2>2, <3>1, ConnStep
  <2>3. CASE conn[c].place = s /\ c \notin keep
    <3>1. conn'[c] = NewConn /\ srv'[c] = NewServer
      BY <1>4, <2>3
    <3>2. "none" \notin Session
      BY PlaceAssumption
    <3>3. LinkInv(NewConn, NewServer)
      BY NewType, NewServerInv
    <3> QED BY <3>1, <3>2, <3>3, NewConnFields, ConnStep
  <2> QED BY <2>1, <2>2, <2>3
<1>10. ASSUME NEW p \in Session PROVE SessionInv(p)'
  <2>1. CASE p = s
    BY <1>1, <1>2, <2>1, BoundAssumption DEF SessionInv, Loop, TypeOK
  <2>2. CASE p # s
    <3>1. SessionInv(p)
      BY DEF TrxEnds, PlainInv
    <3>2. cur[p] # 0 => cur[p] # cur[s] /\ cur[p] \in Trx
      BY <1>1, <2>2, BoundAssumption DEF OneEach, TypeOK, Trx
    <3>3. cur[p] # 0 => reply'[cur[p]] = reply[cur[p]]
      BY <1>1, <3>2 DEF TypeOK
    <3> QED BY <1>1, <1>2, <2>2, <3>1, <3>3 DEF SessionInv, InTrx
  <2> QED BY <2>1, <2>2
<1>11. OneEach'
  <2>1. \A p \in Session : cur'[p] # 0 => p # s /\ cur'[p] = cur[p]
    BY <1>2
  <2>2. \A p, q \in Session : cur'[p] = cur'[q] /\ cur'[p] # 0 => p = q
    BY <1>1, <2>1 DEF OneEach
  <2>3. ASSUME NEW c \in Conn, NEW d \in Conn, conn'[c].place \in Session,
               conn'[c].place = conn'[d].place, Target[c] = Target[d]
        PROVE  c = d
    <3>1. conn'[c].place = conn[c].place /\ conn'[d].place = conn[d].place
      BY <1>7, <2>3
    <3> QED BY <1>1, <2>3, <3>1 DEF OneEach
  <2> QED BY <2>2, <2>3 DEF OneEach
<1>t. cur[s] \in Trx /\ cur[s] <= ntrx /\ ntrx \in 0..MaxTrx
  BY <1>1, BoundAssumption DEF SessionInv, TypeOK, Trx
<1>r. \A t \in Trx : reply'[t] = IF t = cur[s] THEN how ELSE reply[t]
  BY <1>1, <1>t DEF TypeOK
<1>12. FutureInv'
  <2>1. \A t \in Trx : t > ntrx => t # cur[s]
    BY <1>t, BoundAssumption DEF Trx
  <2> QED BY <1>1, <1>r, <2>1 DEF FutureInv
<1>13. Durable'
  <2>1. ASSUME NEW w \in written', reply'[w[1]] = "success" PROVE w \in committed'
    <3>1. w \in written /\ w[1] \in Trx /\ w[2] \in Backend /\ w = <<w[1], w[2]>>
      BY <1>1, <2>1 DEF TypeOK, Work
    <3>2. CASE w[1] = cur[s]
      BY <1>1, <1>r, <2>1, <3>1, <3>2 DEF TrxEnds
    <3>3. CASE w[1] # cur[s]
      BY <1>1, <1>r, <2>1, <3>1, <3>3 DEF Durable
    <3> QED BY <3>2, <3>3
  <2> QED BY <2>1 DEF Durable
<1>14. StaysRolledBack'
  <2>1. ASSUME NEW w \in Work, reply'[w[1]] = "rolledback" PROVE w \notin committed'
    <3>1. w[1] \in Trx /\ w[2] \in Backend /\ w = <<w[1], w[2]>>
      BY DEF Work
    <3>2. CASE w[1] = cur[s]
      BY <1>1, <1>r, <2>1, <3>1, <3>2 DEF TrxEnds
    <3>3. CASE w[1] # cur[s]
      BY <1>1, <1>r, <2>1, <3>1, <3>3 DEF StaysRolledBack
    <3> QED BY <3>2, <3>3
  <2> QED BY <2>1 DEF StaysRolledBack
<1>15. ASSUME NEW p \in Session, NEW b \in Backend, <<cur'[p], b>> \in written'
       PROVE  \E c \in Conn : WrittenAt(p, c, b)'
  <2>1. cur'[p] \in Trx
    BY <1>1, <1>15 DEF TypeOK, Work
  <2>2. p # s /\ cur'[p] = cur[p]
    BY <1>2, <2>1, BoundAssumption DEF Trx
  <2>3. PICK c \in Conn : WrittenAt(p, c, b)
    BY <1>1, <1>15, <2>2, WrittenEquiv
  <2>4. conn'[c] = conn[c] /\ srv'[c] = srv[c]
    BY <1>4, <2>2, <2>3 DEF WrittenAt
  <2>5. committed \subseteq committed'
    BY <1>1
  <2> QED BY <1>3, <2>2, <2>3, <2>4, <2>5, WrittenOther
<1>16. WrittenInv'
  BY <1>15 DEF WrittenInv, WrittenAt
<1>17. UncommittedInv'
  BY <1>1, <1>2 DEF UncommittedInv, InTrx
<1> QED BY <1>8, <1>9, <1>10, <1>11, <1>12, <1>13, <1>14, <1>16, <1>17 DEF PlainInv

LEMMA LoopEndStep ==
  ASSUME PlainInv, NEW s \in Session, LoopEnd(s) PROVE PlainInv'
<1> DEFINE keep == {c \in Held(s) : Pooled(s, conn[c])}
           how == IF pc[s] = "rollback" /\ InTrx(s) THEN "rolledback"
                  ELSE IF is_error[s] THEN "fail" ELSE "success"
           begin == thd[s].begin /\ pc[s] = "rollback" /\ is_error[s]
<1>1. /\ TypeOK /\ SessionInv(s) /\ WrittenInv /\ UncommittedInv
      /\ \A c \in Conn : ConnInv(c)
      /\ pc[s] \in Loop /\ todo[s] = {}
      /\ FreeTrxConn(s, keep) /\ EndTrx(s, how, begin)
  BY DEF PlainInv, LoopEnd, Loop
<1>2. cur[s] # 0
  BY <1>1 DEF SessionInv
<1>3. ASSUME NEW c \in Conn, conn[c].place = s
      PROVE  /\ ~conn[c].join_trx
             /\ ~is_error[s] /\ ~conn[c].server_lost =>
                  Settled(conn[c], srv[c]) /\ srv[c].level = None /\ ~conn[c].trx_start
  <2>1. Joins(s, c) = FALSE
    BY <1>1 DEF Joins
  <2>2. HeldInv(s, conn[c], srv[c], FALSE, cur[s], is_error[s])
    BY <1>1, <1>3, <2>1 DEF ConnInv
  <2> QED BY <2>2 DEF HeldInv
<1>4. \A c \in keep : /\ c \in Conn /\ conn[c].place = s
                      /\ Settled(conn[c], srv[c])
                      /\ srv[c].level = None /\ ~conn[c].trx_start /\ ~conn[c].join_trx
  BY <1>3 DEF Held, Pooled
<1>5. how \in {"success", "fail", "rolledback"} /\ begin \in BOOLEAN
  OBVIOUS
<1>6. ASSUME how = "success", NEW b \in Backend, <<cur[s], b>> \in written
      PROVE  <<cur[s], b>> \in committed
  <2>1. ~is_error[s] /\ pc[s] # "rollback"
    BY <1>1, <1>6 DEF SessionInv
  <2>2. PICK c \in Conn : WrittenAt(s, c, b)
    BY <1>1, <1>6, WrittenEquiv
  <2>3. ~WillCommit(conn[c], srv[c], cur[s])
    BY <1>3, <2>2 DEF WillCommit, WrittenAt
  <2> QED BY <2>1, <2>2, <2>3 DEF WrittenAt
<1>7. how = "rolledback" => \A b \in Backend : <<cur[s], b>> \notin committed
  BY <1>1, <1>2 DEF UncommittedInv
<1> HIDE DEF keep, how, begin
<1>8. TrxEnds(s, keep, how, begin)
  BY <1>1, <1>2, <1>4, <1>5, <1>6, <1>7 DEF TrxEnds
<1> QED BY <1>8, TrxEndsStep, Zenon

LEMMA KillStep ==
  ASSUME PlainInv, NEW s \in Session, Kill(s) PROVE PlainInv'
<1> DEFINE how == IF InTrx(s) THEN "rolledback" ELSE "fail"
<1>1. /\ UncommittedInv /\ cur[s] # 0 /\ pc[s] # "commit"
      /\ FreeTrxConn(s, {}) /\ EndTrx(s, how, FALSE)
  BY DEF PlainInv, Kill
<1>2. /\ how \in {"success", "fail", "rolledback"} /\ how # "success"
      /\ how = "rolledback" => \A b \in Backend : <<cur[s], b>> \notin committed
  BY <1>1 DEF UncommittedInv
<1> HIDE DEF how
<1>3. TrxEnds(s, {}, how, FALSE)
  BY <1>1, <1>2 DEF TrxEnds
<1> QED BY <1>3, TrxEndsStep, Zenon

\* A client's settings change; in a transaction it stays in it, with its
\* isolation level.
SetStep(s) ==
  /\ PlainInv /\ pc[s] = "idle"
  /\ thd' \in [Session -> [autocommit : BOOLEAN, begin : BOOLEAN,
                           trx_isolation : Level, time_zone : Zone]]
  /\ \A p \in Session : p # s => thd'[p] = thd[p]
  /\ nset' \in 0..MaxSet
  /\ cur[s] # 0 => InTrx(s)' /\ thd'[s].trx_isolation = thd[s].trx_isolation
  /\ UNCHANGED <<pc, todo, is_error, cur, conn, srv, committed, ntrx, written, reply>>

LEMMA SetInv ==
  ASSUME NEW s \in Session, SetStep(s) PROVE PlainInv'
<1>0. /\ pc' = pc /\ todo' = todo /\ is_error' = is_error /\ cur' = cur /\ conn' = conn
      /\ srv' = srv /\ committed' = committed /\ ntrx' = ntrx
      /\ written' = written /\ reply' = reply
      /\ \A p \in Session : p # s => thd'[p] = thd[p]
      /\ cur[s] # 0 => InTrx(s)' /\ thd'[s].trx_isolation = thd[s].trx_isolation
      /\ pc[s] = "idle"
  BY DEF SetStep
<1>1. /\ TypeOK /\ SessionInv(s) /\ WrittenInv /\ UncommittedInv
  BY DEF SetStep, PlainInv
<1>2. OnlyOf(s)
  BY <1>0 DEF OnlyOf
<1>3. \A p \in Session : cur[p] # 0 => (InTrx(p)' <=> InTrx(p))
  <2>1. cur[s] # 0 => InTrx(s)
    BY <1>0, <1>1 DEF SessionInv
  <2>2. \A p \in Session : p # s => (InTrx(p)' <=> InTrx(p))
    BY <1>0 DEF InTrx
  <2> QED BY <1>0, <2>1, <2>2
<1>4. TypeOK'
  BY <1>0, <1>1 DEF SetStep, TypeOK, Held
<1>5. ASSUME NEW c \in Conn PROVE ConnInv(c)'
  <2>1. ConnInv(c)
    BY DEF SetStep, PlainInv
  <2>2. conn[c].place = s => cur[s] # 0
    BY <2>1 DEF ConnInv
  <2>3. Joins(s, c)' = Joins(s, c)
    BY <1>0 DEF Joins
  <2>4. conn'[c] = conn[c] /\ srv'[c] = srv[c] /\ cur'[s] = cur[s] /\ is_error'[s] = is_error[s]
    BY <1>0
  <2> QED BY <1>0, <1>2, <1>3, <2>1, <2>2, <2>3, <2>4, Untouched
<1>6. ASSUME NEW p \in Session PROVE SessionInv(p)'
  <2>1. SessionInv(p)
    BY DEF SetStep, PlainInv
  <2> QED BY <1>0, <1>3, <2>1 DEF SessionInv, Loop
<1>7. OneEach' /\ FutureInv' /\ Durable' /\ StaysRolledBack'
  BY <1>0 DEF SetStep, PlainInv, OneEach, FutureInv, Durable, StaysRolledBack
<1>8. ASSUME NEW p \in Session, NEW b \in Backend, <<cur'[p], b>> \in written'
      PROVE  \E c \in Conn : WrittenAt(p, c, b)'
  <2>1. PICK c \in Conn : WrittenAt(p, c, b)
    BY <1>0, <1>1, <1>8, WrittenEquiv
  <2>2. cur[p] # 0
    BY <2>1 DEF SetStep, PlainInv, ConnInv, WrittenAt
  <2> QED BY <1>0, <1>3, <2>1, <2>2 DEF WrittenAt, WillCommit, ToEnd, NotStarted
<1>9. WrittenInv'
  BY <1>8 DEF WrittenInv, WrittenAt
<1>10. UncommittedInv'
  BY <1>0, <1>1, <1>3 DEF UncommittedInv
<1> QED BY <1>4, <1>5, <1>6, <1>7, <1>9, <1>10 DEF PlainInv

LEMMA SetFields ==
  ASSUME TypeOK, NEW s \in Session, NEW new, thd' = [thd EXCEPT ![s] = new],
         new \in [autocommit : BOOLEAN, begin : BOOLEAN, trx_isolation : Level, time_zone : Zone]
  PROVE  /\ thd'[s] = new
         /\ \A p \in Session : p # s => thd'[p] = thd[p]
         /\ thd' \in [Session -> [autocommit : BOOLEAN, begin : BOOLEAN,
                                  trx_isolation : Level, time_zone : Zone]]
BY DEF TypeOK

LEMMA BeginStep ==
  ASSUME PlainInv, NEW s \in Session, Begin(s) PROVE PlainInv'
<1> DEFINE new == [thd[s] EXCEPT !.begin = TRUE]
<1>1. TypeOK /\ cur[s] = 0 /\ Set(s, new) /\ nset' = nset
  BY DEF PlainInv, Begin
<1>2. new \in [autocommit : BOOLEAN, begin : BOOLEAN, trx_isolation : Level, time_zone : Zone]
  BY <1>1 DEF TypeOK
<1> HIDE DEF new
<1>3. thd' = [thd EXCEPT ![s] = new]
  BY <1>1 DEF Set
<1>4. SetStep(s)
  BY <1>1, <1>2, <1>3, SetFields DEF SetStep, Set, TypeOK
<1> QED BY <1>4, SetInv

LEMMA SetAutocommitStep ==
  ASSUME PlainInv, NEW s \in Session, NEW v \in BOOLEAN, SetAutocommit(s, v) PROVE PlainInv'
<1> DEFINE new == [thd[s] EXCEPT !.autocommit = v, !.begin = @ /\ ~v]
<1>1. TypeOK /\ (v => cur[s] = 0) /\ Set(s, new) /\ CountSet
  BY DEF PlainInv, SetAutocommit
<1>2. /\ new \in [autocommit : BOOLEAN, begin : BOOLEAN, trx_isolation : Level, time_zone : Zone]
      /\ new.autocommit = v /\ new.trx_isolation = thd[s].trx_isolation
  BY <1>1 DEF TypeOK
<1> HIDE DEF new
<1>3. thd' = [thd EXCEPT ![s] = new]
  BY <1>1 DEF Set
<1>4. /\ thd'[s] = new
      /\ \A p \in Session : p # s => thd'[p] = thd[p]
      /\ thd' \in [Session -> [autocommit : BOOLEAN, begin : BOOLEAN,
                               trx_isolation : Level, time_zone : Zone]]
  BY <1>1, <1>2, <1>3, SetFields
<1>5. nset' \in 0..MaxSet
  BY <1>1, BoundAssumption DEF CountSet, TypeOK
<1>6. cur[s] # 0 => InTrx(s)' /\ thd'[s].trx_isolation = thd[s].trx_isolation
  BY <1>1, <1>2, <1>4 DEF InTrx
<1>7. SetStep(s)
  BY <1>1, <1>4, <1>5, <1>6 DEF SetStep, Set
<1> QED BY <1>7, SetInv

LEMMA SetTrxIsolationStep ==
  ASSUME PlainInv, NEW s \in Session, NEW v \in Level, SetTrxIsolation(s, v) PROVE PlainInv'
<1> DEFINE new == [thd[s] EXCEPT !.trx_isolation = v]
<1>1. TypeOK /\ cur[s] = 0 /\ Set(s, new) /\ CountSet
  BY DEF PlainInv, SetTrxIsolation
<1>2. new \in [autocommit : BOOLEAN, begin : BOOLEAN, trx_isolation : Level, time_zone : Zone]
  BY <1>1 DEF TypeOK
<1> HIDE DEF new
<1>3. thd' = [thd EXCEPT ![s] = new]
  BY <1>1 DEF Set
<1>4. nset' \in 0..MaxSet
  BY <1>1, BoundAssumption DEF CountSet, TypeOK
<1>5. SetStep(s)
  BY <1>1, <1>2, <1>3, <1>4, SetFields DEF SetStep, Set
<1> QED BY <1>5, SetInv

LEMMA SetTimeZoneStep ==
  ASSUME PlainInv, NEW s \in Session, NEW v \in Zone, SetTimeZone(s, v) PROVE PlainInv'
<1> DEFINE new == [thd[s] EXCEPT !.time_zone = v]
<1>1. TypeOK /\ SessionInv(s) /\ Set(s, new) /\ CountSet
  BY DEF PlainInv, SetTimeZone
<1>2. /\ new \in [autocommit : BOOLEAN, begin : BOOLEAN, trx_isolation : Level, time_zone : Zone]
      /\ new.autocommit = thd[s].autocommit /\ new.begin = thd[s].begin
      /\ new.trx_isolation = thd[s].trx_isolation
  BY <1>1 DEF TypeOK
<1> HIDE DEF new
<1>3. thd' = [thd EXCEPT ![s] = new] /\ pc[s] = "idle"
  BY <1>1 DEF Set
<1>4. /\ thd'[s] = new
      /\ \A p \in Session : p # s => thd'[p] = thd[p]
      /\ thd' \in [Session -> [autocommit : BOOLEAN, begin : BOOLEAN,
                               trx_isolation : Level, time_zone : Zone]]
  BY <1>1, <1>2, <1>3, SetFields
<1>5. nset' \in 0..MaxSet
  BY <1>1, BoundAssumption DEF CountSet, TypeOK
<1>6. cur[s] # 0 => InTrx(s)' /\ thd'[s].trx_isolation = thd[s].trx_isolation
  BY <1>1, <1>2, <1>3, <1>4 DEF SessionInv, InTrx
<1>7. SetStep(s)
  BY <1>1, <1>4, <1>5, <1>6 DEF SetStep, Set
<1> QED BY <1>7, SetInv
-----------------------------------------------------------------------------
(***************************************************************************)
(* Theorems.                                                               *)
(***************************************************************************)

LEMMA PlainInit == Init => PlainInv
<1> SUFFICES ASSUME Init PROVE PlainInv
  OBVIOUS
<1>1. NewClient \in [autocommit : BOOLEAN, begin : BOOLEAN, trx_isolation : Level, time_zone : Zone]
  BY DefaultAssumption DEF NewClient
<1>2. TypeOK
  BY <1>1, NewType, BoundAssumption DEF Init, TypeOK, Held
<1>3. ASSUME NEW c \in Conn PROVE ConnInv(c)
  <2>1. conn[c] = NewConn /\ srv[c] = NewServer
    BY DEF Init
  <2>2. "none" \notin Session
    BY PlaceAssumption
  <2>3. LinkInv(NewConn, NewServer)
    BY NewType, NewServerInv
  <2> QED BY <2>1, <2>2, <2>3, NewConnFields DEF ConnInv
<1>4. ASSUME NEW s \in Session PROVE SessionInv(s)
  BY DEF Init, SessionInv, Loop
<1>5. OneEach
  <2>1. \A c \in Conn : conn[c].place \notin Session
    BY PlaceAssumption, NewConnFields DEF Init
  <2> QED BY <2>1 DEF Init, OneEach
<1>6. FutureInv /\ WrittenInv /\ UncommittedInv /\ Durable /\ StaysRolledBack
  BY DEF Init, FutureInv, WrittenInv, UncommittedInv, Durable, StaysRolledBack, Work
<1> QED BY <1>2, <1>3, <1>4, <1>5, <1>6 DEF PlainInv

LEMMA PlainStutter ==
  ASSUME PlainInv, UNCHANGED vars PROVE PlainInv'
<1>1. /\ thd' = thd /\ pc' = pc /\ todo' = todo /\ is_error' = is_error /\ cur' = cur
      /\ conn' = conn /\ srv' = srv /\ committed' = committed /\ nset' = nset
      /\ ntrx' = ntrx /\ written' = written /\ reply' = reply
  BY DEF vars, client
<1>2. TypeOK' /\ OneEach' /\ FutureInv' /\ Durable' /\ StaysRolledBack'
  BY <1>1 DEF PlainInv, TypeOK, Held, OneEach, FutureInv, Durable, StaysRolledBack
<1>3. WrittenInv' /\ UncommittedInv'
  <2>1. \A s \in Session : InTrx(s)' <=> InTrx(s)
    BY <1>1 DEF InTrx
  <2>2. UncommittedInv'
    BY <1>1, <2>1 DEF PlainInv, UncommittedInv
  <2>3. ASSUME NEW s \in Session, NEW b \in Backend, <<cur'[s], b>> \in written'
        PROVE  \E c \in Conn : WrittenAt(s, c, b)'
    <3>1. PICK c \in Conn : WrittenAt(s, c, b)
      BY <1>1, <2>3, WrittenEquiv DEF PlainInv
    <3> QED BY <1>1, <2>1, <3>1 DEF WrittenAt, WillCommit, ToEnd, NotStarted
  <2>4. WrittenInv'
    BY <2>3 DEF WrittenInv, WrittenAt
  <2> QED BY <2>2, <2>4
<1>4. ASSUME NEW c \in Conn PROVE ConnInv(c)'
  BY <1>1 DEF PlainInv, ConnInv, LinkInv, Settled, HeldInv, Begun, Waiting, InTrx, Joins
<1>5. ASSUME NEW s \in Session PROVE SessionInv(s)'
  BY <1>1 DEF PlainInv, SessionInv, InTrx
<1> QED BY <1>2, <1>3, <1>4, <1>5 DEF PlainInv

\* PlainInv is inductive, if a setting is refused only to sessions that then
\* roll back: every operation of spd_trx.cc and spd_db_conn.cc that PlainTrx
\* models keeps it, whatever fails.
THEOREM PlainInvariance == RefusedIsRolledBack => (Spec => []PlainInv)
<1> SUFFICES ASSUME RefusedIsRolledBack PROVE Spec => []PlainInv
  OBVIOUS
<1>1. Init => PlainInv
  BY PlainInit
<1>2. PlainInv /\ [Next]_vars => PlainInv'
  <2> SUFFICES ASSUME PlainInv, [Next]_vars PROVE PlainInv'
    OBVIOUS
  <2>1. CASE UNCHANGED vars
    BY <2>1, PlainStutter
  <2>2. ASSUME NEW s \in Session, NEW b \in Backend, Query(s, b) PROVE PlainInv'
    BY <2>2, QueryStep
  <2>3. ASSUME NEW s \in Session, EndStmt(s) \/ Commit(s) \/ Rollback(s) PROVE PlainInv'
    BY <2>3, EndStmtStep, CommitStep, RollbackStep
  <2>4. ASSUME NEW s \in Session, CommitConn(s) \/ RollbackConn(s) PROVE PlainInv'
    BY <2>4, CommitConnStep, RollbackConnStep
  <2>5. ASSUME NEW s \in Session, LoopEnd(s) \/ Kill(s) PROVE PlainInv'
    BY <2>5, LoopEndStep, KillStep
  <2>6. ASSUME NEW s \in Session, Begin(s) PROVE PlainInv'
    BY <2>6, BeginStep
  <2>7. ASSUME NEW s \in Session, NEW v \in BOOLEAN, SetAutocommit(s, v) PROVE PlainInv'
    BY <2>7, SetAutocommitStep
  <2>8. ASSUME NEW s \in Session, NEW v \in Level, SetTrxIsolation(s, v) PROVE PlainInv'
    BY <2>8, SetTrxIsolationStep
  <2>9. ASSUME NEW s \in Session, NEW v \in Zone, SetTimeZone(s, v) PROVE PlainInv'
    BY <2>9, SetTimeZoneStep
  <2> QED BY <2>1, <2>2, <2>3, <2>4, <2>5, <2>6, <2>7, <2>8, <2>9 DEF Next
<1> QED BY <1>1, <1>2, PTL DEF Spec

\* The variables keep their types, and a loop visits only connections of its
\* session's trx_conn_hash, whatever fails or is refused.
THEOREM PlainTypeCorrect == Spec => []TypeOK
<1>1. Init => TypeOK
  BY PlainInit DEF PlainInv
<1>2. TypeOK /\ [Next]_vars => TypeOK'
  <2> SUFFICES ASSUME TypeOK, [Next]_vars PROVE TypeOK'
    OBVIOUS
  <2>1. CASE UNCHANGED vars
    BY <2>1 DEF vars, client, TypeOK, Held
  <2>2. ASSUME NEW s \in Session, NEW b \in Backend, Query(s, b) PROVE TypeOK'
    BY <2>2, TypeQuery
  <2>3. ASSUME NEW s \in Session, EndStmt(s) \/ Commit(s) \/ Rollback(s) PROVE TypeOK'
    BY <2>3, TypeEnter
  <2>4. ASSUME NEW s \in Session, CommitConn(s) \/ RollbackConn(s) PROVE TypeOK'
    BY <2>4, TypeEndConn
  <2>5. ASSUME NEW s \in Session, LoopEnd(s) \/ Kill(s) PROVE TypeOK'
    BY <2>5, TypeTrxEnd
  <2>6. ASSUME NEW s \in Session,
               \/ Begin(s)
               \/ \E v \in BOOLEAN : SetAutocommit(s, v)
               \/ \E v \in Level : SetTrxIsolation(s, v)
               \/ \E v \in Zone : SetTimeZone(s, v)
        PROVE  TypeOK'
    BY <2>6, TypeSet
  <2> QED BY <2>1, <2>2, <2>3, <2>4, <2>5, <2>6 DEF Next
<1> QED BY <1>1, <1>2, PTL DEF Spec

\* A transaction answered with success is committed wherever a statement of it
\* was executed: spider_commit leaves out a connection, or answers a COMMIT by
\* itself, only where there is nothing to commit.
THEOREM PlainDurable == RefusedIsRolledBack => (Spec => []Durable)
<1>1. PlainInv => Durable
  BY DEF PlainInv
<1> QED BY <1>1, PlainInvariance, PTL

\* What was rolled back is never committed, by none of the later users of the
\* connections either.
THEOREM PlainStaysRolledBack == RefusedIsRolledBack => (Spec => []StaysRolledBack)
<1>1. PlainInv => StaysRolledBack
  BY DEF PlainInv
<1> QED BY <1>1, PlainInvariance, PTL

\* A connection in the pool has no open transaction and nothing queued, and what
\* TSpider remembers to have set on it is set.
THEOREM PlainCleanPool == RefusedIsRolledBack => (Spec => []CleanPool)
<1>1. PlainInv => CleanPool
  <2> SUFFICES ASSUME PlainInv, NEW c \in Conn, conn[c].place = "pool"
               PROVE  /\ srv[c].level = None /\ ~conn[c].trx_start /\ ~conn[c].join_trx
                      /\ conn[c].queued = NoSettings /\ ~conn[c].queued_trx_start
                      /\ \A i \in DOMAIN NoSettings : conn[c].known[i] \in {None, srv[c][i]}
    BY DEF CleanPool
  <2>1. /\ Settled(conn[c], srv[c])
        /\ srv[c].level = None /\ ~conn[c].trx_start /\ ~conn[c].join_trx
    BY DEF PlainInv, ConnInv
  <2>2. \A i \in DOMAIN NoSettings : conn[c].known[i] = srv[c][i]
    BY <2>1, ItemNames DEF Settled
  <2> QED BY <2>1, <2>2 DEF Settled
<1> QED BY <1>1, PlainInvariance, PTL

\* A statement is executed at its client's isolation level, inside a transaction
\* exactly if the client is in one, and in the client's time zone if the
\* connection has just joined: spider_db_conn_queue_action sends what it must,
\* whoever has used the connection before.
THEOREM PlainRunsAsAsked == RefusedIsRolledBack => (Spec => RunsAsAsked)
<1> SUFFICES ASSUME RefusedIsRolledBack PROVE Spec => RunsAsAsked
  OBVIOUS
<1> DEFINE AsAsked ==
      \A s \in Session, c \in Conn :
        conn'[c].place = s /\ <<cur'[s], Target[c]>> \in written' \ written =>
          /\ srv'[c].trx_isolation = thd[s].trx_isolation
          /\ srv'[c].level = IF InTrx(s) THEN thd[s].trx_isolation ELSE None
          /\ ~conn[c].join_trx => srv'[c].time_zone = thd[s].time_zone
<1>1. ASSUME PlainInv, PlainInv', Next PROVE AsAsked
  <2>1. CASE written' = written
    BY <2>1
  <2>2. ASSUME NEW p \in Session, NEW b \in Backend, Query(p, b),
               NEW s \in Session, NEW c \in Conn, conn'[c].place = s,
               <<cur'[s], Target[c]>> \in written' \ written
        PROVE  /\ srv'[c].trx_isolation = thd[s].trx_isolation
               /\ srv'[c].level = IF InTrx(s) THEN thd[s].trx_isolation ELSE None
               /\ ~conn[c].join_trx => srv'[c].time_zone = thd[s].time_zone
    <3>1. PICK d \in Conn : \E y, t : QueryAt(p, b, d, y, t)
      BY <1>1, <2>2, QueryCases
    <3>2. PICK y, t : QueryAt(p, b, d, y, t)
      BY <3>1
    <3>3. QueryDone(p, b, d, y, t)
      BY <2>2, <3>2, QueryFields, Zenon
    <3>4. AfterStatement(p, d, y, t) /\ Target[d] = b /\ t \in Trx
      BY <3>2 DEF QueryAt
    <3>5. \A w \in written' : w \in written \/ (w = <<t, b>> /\ ~y.error)
      BY <3>2 DEF QueryAt
    <3>6. cur'[s] = t /\ Target[c] = b /\ ~y.error
      BY <2>2, <3>5
    <3>7. OneEach'
      BY <1>1 DEF PlainInv
    <3>8. s = p
      <4>1. cur'[p] = t /\ t # 0
        BY <3>3, <3>4, BoundAssumption DEF QueryDone, Trx
      <4> QED BY <3>6, <3>7, <4>1 DEF OneEach
    <3>9. c = d
      <4>1. conn'[d].place = s
        BY <3>3, <3>4, <3>8 DEF QueryDone, AfterStatement
      <4> QED BY <2>2, <3>4, <3>6, <3>7, <4>1 DEF OneEach
    <3> QED BY <3>3, <3>4, <3>6, <3>8, <3>9 DEF QueryDone, AfterStatement
  <2>3. CASE \E s \in Session : \E b \in Backend : Query(s, b)
    BY <2>2, <2>3
  <2>4. ASSUME NEW s \in Session,
               \/ EndStmt(s) \/ Commit(s) \/ Rollback(s)
               \/ CommitConn(s) \/ RollbackConn(s) \/ LoopEnd(s)
               \/ Kill(s) \/ Begin(s)
               \/ \E v \in BOOLEAN : SetAutocommit(s, v)
               \/ \E v \in Level : SetTrxIsolation(s, v)
               \/ \E v \in Zone : SetTimeZone(s, v)
        PROVE  written' = written
    <3>1. CASE EndStmt(s) \/ Commit(s) \/ Rollback(s)
      BY <3>1 DEF EndStmt, Commit, Rollback
    <3>2. CASE CommitConn(s) \/ RollbackConn(s)
      BY <3>2 DEF CommitConn, RollbackConn, EndConn
    <3>3. CASE LoopEnd(s) \/ Kill(s)
      BY <3>3 DEF LoopEnd, Kill, EndTrx
    <3>4. CASE \/ Begin(s) \/ \E v \in BOOLEAN : SetAutocommit(s, v)
               \/ \E v \in Level : SetTrxIsolation(s, v)
               \/ \E v \in Zone : SetTimeZone(s, v)
      BY <3>4 DEF Begin, SetAutocommit, SetTrxIsolation, SetTimeZone, Set
    <3> QED BY <2>4, <3>1, <3>2, <3>3, <3>4
  <2> QED BY <1>1, <2>1, <2>3, <2>4 DEF Next
<1>2. PlainInv /\ PlainInv' /\ [Next]_vars => [AsAsked]_vars
  BY <1>1
<1>3. Spec => []PlainInv
  BY PlainInvariance
<1>4. RunsAsAsked <=> [][AsAsked]_vars
  BY DEF RunsAsAsked
<1> HIDE DEF AsAsked
<1> QED BY <1>2, <1>3, <1>4, PTL DEF Spec
=============================================================================
