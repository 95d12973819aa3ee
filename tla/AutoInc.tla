------------------------------- MODULE AutoInc -------------------------------
(***************************************************************************)
(* The auto-increment column of a table of TenDB Cluster with              *)
(* spider_auto_increment_mode_switch on (sql/ha_partition.cc,              *)
(* sql/handler.cc, storage/spider/ha_spider.cc).  Every TSpider node       *)
(* counts for itself, in the values that are its mode value modulo the     *)
(* common step; the counter is in memory only, shared by the sessions of   *)
(* the node under a mutex, and is read from the backends when it is not    *)
(* initialised: after a restart, and after every failed insert.            *)
(*                                                                         *)
(* A statement reserves an interval of values and takes them one by one,   *)
(* without the mutex; what it has not used of the interval it gives back   *)
(* if nobody has reserved after it.  Its rows are stored when its          *)
(* transaction commits, which may be statements later, and are left        *)
(* prepared if the commit breaks off.  Each region under the mutex is one  *)
(* action.                                                                 *)
(*                                                                         *)
(* Not here: forced values (SET INSERT_ID), the lock kept over a statement *)
(* for a statement-based binary log, the column in second place of a key.  *)
(***************************************************************************)
EXTENDS Integers, FiniteSetsExt

CONSTANTS
  Node,      \* TSpider nodes
  Session,   \* client sessions
  NodeOf,    \* the node a session is connected to
  LongTrx,   \* sessions whose transactions outlive their statements (BEGIN)
  Part,      \* partitions of the table, each on a backend of its own
  Step,      \* spider_auto_increment_step
  Mode,      \* spider_auto_increment_mode_value of each node
  Width,     \* 2^64: ulonglong arithmetic is modulo Width
  ColMax,    \* the largest value the column can hold
  Explicit,  \* values clients give themselves
  Estimates, \* numbers of rows of INSERTs, 0: not known (INSERT SELECT)
  Faults,    \* what may go wrong: see Fault
  MaxRows,   \* bound: rows of a statement
  UnknownRows, \* bound: rows of a statement whose number is not known
  MaxStmt,   \* bound: statements of all sessions
  MaxNext    \* bound: no reservation starts beyond it

\* A row is refused by its backend; the rows sent at the end of the statement
\* are; a partition does not answer when its maximum is read; INSERT IGNORE
\* goes on after a refused row; a node loses its counter, by FLUSH TABLES or a
\* crash, while rows of its transactions are not committed and stay.
Fault == {"row", "bulk", "read", "ignore", "drop"}

ASSUME NodeOfAssumption == NodeOf \in [Session -> Node]
ASSUME LongAssumption   == LongTrx \subseteq Session
ASSUME StepAssumption   == Step \in Nat \ {0}
ASSUME ModeAssumption   == Mode \in [Node -> 0..(Step - 1)]
ASSUME ModesDiffer      == \A m, n \in Node : m # n => Mode[m] # Mode[n]
ASSUME ColMaxAssumption == ColMax \in Nat /\ Explicit \subseteq 1..ColMax
ASSUME FaultAssumption  == Faults \subseteq Fault
ASSUME BoundAssumption  == MaxRows \in Nat /\ MaxStmt \in Nat /\ MaxNext \in Nat
                           /\ Estimates \subseteq 0..MaxRows /\ UnknownRows \in 0..MaxRows
ASSUME WidthAssumption  ==
  /\ Width \in Nat
  /\ MaxNext + Step * (2 + 2^MaxRows) < Width
  /\ ColMax + 2 * Step < Width

\* Powers grow, which the provers do not know.
ASSUME PowerAssumption ==
  /\ 2^MaxRows \in Nat /\ MaxRows <= 2^MaxRows
  /\ \A i \in 0..MaxRows : 2^i \in 1..(2^MaxRows)

VARIABLES
  initialized,  \* part_share->auto_inc_initialized
  failed,       \* part_share->last_insert_failed
  next,         \* part_share->next_auto_inc_val
  share_value,  \* auto_increment_value of the SPIDER_SHAREs
  stmts,        \* number of statements begun
  pc,
  est,          \* rows the statement is known to have, 0: unknown
  left,         \* rows it may still write
  val,          \* the value of the row, 0: to be generated
  prev,         \* prev_insert_id of write_record
  nid,          \* next_insert_id
  imin, imax,   \* auto_inc_interval_for_cur_row
  cnt,          \* auto_inc_intervals_count
  cur,          \* insert_id_for_cur_row
  info_called,  \* info_auto_called of the handlers
  is_error,     \* the statement has failed
  batch,        \* rows written by the statement
  open,         \* rows of the earlier statements of its transaction
  rows          \* rows of the table

counter == <<initialized, failed, next, share_value>>
cursor  == <<nid, imin, imax, cnt, cur>>
row     == <<val, prev>>
stmt    == <<stmts, est>>
vars    == <<counter, cursor, row, stmt, pc, left, info_called, is_error, batch, open,
             rows>>

PC == {"idle", "row", "update", "write", "finish", "release",
       "bulk", "commit", "raise", "prepared"}

Row == [part : Part, val : 1..ColMax, gen : BOOLEAN]

TypeOK ==
  /\ initialized \in [Node -> BOOLEAN]
  /\ failed \in [Node -> BOOLEAN]
  /\ next \in [Node -> 0..(Width - 1)]
  /\ share_value \in [Node -> 0..(ColMax + 1)]
  /\ pc \in [Session -> PC]
  /\ stmts \in 0..MaxStmt
  /\ est \in [Session -> 0..MaxRows]
  /\ left \in [Session -> 0..MaxRows]
  /\ val \in [Session -> 0..(Width - 1)]
  /\ \A f \in {prev, nid, imin, imax, cur} : f \in [Session -> 0..(Width - 1)]
  /\ cnt \in [Session -> 0..MaxRows]
  /\ info_called \in [Session -> BOOLEAN]
  /\ is_error \in [Session -> BOOLEAN]
  /\ batch \in [Session -> SUBSET Row]
  /\ open \in [Session -> SUBSET Row]
  /\ rows \subseteq Row

Init ==
  /\ initialized = [n \in Node |-> FALSE]
  /\ failed = [n \in Node |-> FALSE]
  /\ next = [n \in Node |-> 0]
  /\ share_value = [n \in Node |-> 0]
  /\ pc = [s \in Session |-> "idle"]
  /\ stmts = 0 /\ est = [s \in Session |-> 0]
  /\ left = [s \in Session |-> 0] /\ val = [s \in Session |-> 0]
  /\ prev = [s \in Session |-> 0] /\ nid = [s \in Session |-> 0]
  /\ imin = [s \in Session |-> 0] /\ imax = [s \in Session |-> 0]
  /\ cnt = [s \in Session |-> 0] /\ cur = [s \in Session |-> 0]
  /\ info_called = [s \in Session |-> FALSE]
  /\ is_error = [s \in Session |-> FALSE]
  /\ batch = [s \in Session |-> {}]
  /\ open = [s \in Session |-> {}]
  /\ rows = {}
-----------------------------------------------------------------------------
(***************************************************************************)
(* Arithmetic of a node's residue class.                                   *)
(***************************************************************************)
U(x) == x % Width

\* Mutant: the counter is handed out as it is.
RoundUp_Missing(n, x) == x

\* get_auto_increment: the first value of the class that is not below x.
RoundUp(n, x) == U((U(x + Step - Mode[n] - 1) \div Step) * Step + Mode[n])

\* set_auto_increment_if_higher: the first value of the class above x.
Above(n, x) == U((U(x + Step - Mode[n]) \div Step) * Step + Mode[n])

\* The same, with ULONGLONG_MAX for an overflow.
compute_next_insert_id(n, x) ==
  IF Above(n, x) <= x THEN Width - 1 ELSE Above(n, x)

Max2(x, y) == IF x < y THEN y ELSE x
Min2(x, y) == IF x < y THEN x ELSE y

AUTO_INC_DEFAULT_NB_MAX == 65535

\* How many values update_auto_increment asks for.
NbDesired(s) == IF cnt[s] = 0 /\ est[s] > 0 THEN est[s]
                ELSE Min2(2^cnt[s], AUTO_INC_DEFAULT_NB_MAX)
-----------------------------------------------------------------------------
(***************************************************************************)
(* The counter of a node.                                                  *)
(***************************************************************************)

\* The partitions whose maximum is read without an error.
Answering == IF "read" \in Faults THEN SUBSET Part ELSE {Part}

\* Mutant: the last value, not the one after it.
ReadMax_Last(s, q) ==
  Max({1} \cup {r.val : r \in {x \in rows \cup open[s] : x.part \in q}})

\* ha_spider::get_auto_increment over the partitions, without a lock: rows that
\* others have not committed do not count, and an error is an empty partition.
ReadMax(s, q) ==
  Max({1} \cup {r.val + 1 : r \in {x \in rows \cup open[s] : x.part \in q}})

\* ha_partition::update_next_auto_inc_val and info(HA_STATUS_AUTO), with the
\* mutex from the test to the end; share is share_value as the statement has
\* left it.  Nothing happens if the counter is initialised, or was when the
\* mutex had been taken.  Nothing is read from the backends for a row with a
\* value of its own, and the counter then counts as not initialised.
InfoAuto(s, generated, insert, share) ==
  LET n    == NodeOf[s]
      read == next[n] = 0 \/ failed[n] \/ ~initialized[n]
  IN \/ /\ initialized[n]
        /\ share_value' = share
        /\ UNCHANGED <<initialized, failed, next, info_called>>
     \/ /\ ~(initialized[n] /\ info_called[s])
        /\ \E q \in Answering :
             LET m == IF ~read THEN next[n]
                      ELSE IF generated THEN ReadMax(s, q) ELSE share[n]
             IN /\ next' = [next EXCEPT ![n] = Max2(@, m)]
                /\ share_value' = [share EXCEPT ![n] = IF read /\ generated THEN m ELSE @]
                /\ initialized' = [initialized EXCEPT ![n] = generated]
                /\ failed' = [failed EXCEPT ![n] = @ /\ ~insert]
                /\ info_called' = [info_called EXCEPT ![s] = @ \/ read]

\* set_auto_increment_if_higher
SetIfHigher(n, v, error) ==
  /\ next' = [next EXCEPT ![n] = IF v >= @ THEN Above(n, v) ELSE @]
  /\ initialized' = [initialized EXCEPT ![n] = @ /\ ~error]
  /\ failed' = [failed EXCEPT ![n] = @ \/ error]
  /\ UNCHANGED share_value

\* A new Partition_share, and new SPIDER_SHAREs.
Fresh(n) ==
  /\ initialized' = [initialized EXCEPT ![n] = FALSE]
  /\ failed' = [failed EXCEPT ![n] = FALSE]
  /\ next' = [next EXCEPT ![n] = 0]
-----------------------------------------------------------------------------
(***************************************************************************)
(* INSERT.                                                                 *)
(***************************************************************************)

\* mysql_insert begins; e is the number of rows if it is known.
Begin(s, e) ==
  /\ pc[s] = "idle" /\ stmts < MaxStmt
  /\ pc' = [pc EXCEPT ![s] = "row"]
  /\ stmts' = stmts + 1
  /\ est' = [est EXCEPT ![s] = e]
  /\ left' = [left EXCEPT ![s] = IF e = 0 THEN UnknownRows ELSE e]
  /\ UNCHANGED <<counter, cursor, row, info_called, is_error, batch, open, rows>>

\* write_record and ha_partition::write_row begin with a row of value v.
StartRow(s, v) ==
  /\ pc[s] = "row" /\ left[s] > 0
  /\ pc' = [pc EXCEPT ![s] = "update"]
  /\ left' = [left EXCEPT ![s] = @ - 1]
  /\ val' = [val EXCEPT ![s] = v]
  /\ prev' = [prev EXCEPT ![s] = nid[s]]
  /\ InfoAuto(s, v = 0, TRUE, share_value)
  /\ UNCHANGED <<cursor, stmt, is_error, batch, open, rows>>

\* The row is over: its value and prev_insert_id are dead.
RowEnds(s) ==
  /\ val' = [val EXCEPT ![s] = 0]
  /\ prev' = [prev EXCEPT ![s] = 0]
  /\ cur' = [cur EXCEPT ![s] = 0]

\* What follows a refused row: the end of the statement or, with IGNORE, the
\* next row.
Refused(s) ==
  \E ignore \in IF "ignore" \in Faults THEN BOOLEAN ELSE {FALSE} :
    /\ pc' = [pc EXCEPT ![s] = IF ignore THEN "row" ELSE "finish"]
    /\ is_error' = [is_error EXCEPT ![s] = ~ignore]

\* Mutant: the value of a refused first row is forgotten.
Restored_First(s, id) == prev[s]

\* restore_auto_increment
Restored(s, id) == IF prev[s] > 0 THEN prev[s] ELSE id

\* update_auto_increment for a row that has a value.
UseExplicit(s) ==
  /\ pc[s] = "update" /\ val[s] # 0
  /\ pc' = [pc EXCEPT ![s] = "write"]
  /\ nid' = [nid EXCEPT ![s] = IF @ > 0 /\ val[s] >= @
                               THEN compute_next_insert_id(NodeOf[s], val[s])
                               ELSE @]
  /\ cur' = [cur EXCEPT ![s] = 0]
  /\ UNCHANGED <<counter, imin, imax, cnt, row, stmt, left, info_called, is_error,
                 batch, open, rows>>

\* Mutant: the result of storing the value in the column is ignored.
Generated_NoRange(s, nr) ==
  /\ val' = [val EXCEPT ![s] = nr]
  /\ cur' = [cur EXCEPT ![s] = nr]
  /\ nid' = [nid EXCEPT ![s] = compute_next_insert_id(NodeOf[s], nr)]
  /\ pc' = [pc EXCEPT ![s] = "write"]
  /\ UNCHANGED <<is_error, prev>>

\* The row gets the value nr, unless the column cannot hold it.
Generated(s, nr) ==
  IF nr <= ColMax
     THEN /\ val' = [val EXCEPT ![s] = nr]
          /\ cur' = [cur EXCEPT ![s] = nr]
          /\ nid' = [nid EXCEPT ![s] = compute_next_insert_id(NodeOf[s], nr)]
          /\ pc' = [pc EXCEPT ![s] = "write"]
          /\ UNCHANGED <<is_error, prev>>
     ELSE /\ nid' = [nid EXCEPT ![s] = Restored(s, nr)]
          /\ Refused(s)
          /\ RowEnds(s)

\* update_auto_increment takes the next value of the statement's interval.
UseReserved(s) ==
  /\ pc[s] = "update" /\ val[s] = 0
  /\ nid[s] < imax[s]
  /\ Generated(s, nid[s])
  /\ UNCHANGED <<counter, imin, imax, cnt, stmt, left, info_called, batch, open, rows>>

\* update_auto_increment with get_auto_increment, which has the mutex: the
\* statement reserves an interval.
Reserve(s) ==
  LET n     == NodeOf[s]
      first == RoundUp(n, next[n])
      end   == U(first + NbDesired(s) * Step)
  IN /\ pc[s] = "update" /\ val[s] = 0
     /\ nid[s] >= imax[s]
     /\ next[n] <= MaxNext
     /\ next' = [next EXCEPT ![n] = end]
     /\ imin' = [imin EXCEPT ![s] = first]
     /\ imax' = [imax EXCEPT ![s] = end]
     /\ cnt' = [cnt EXCEPT ![s] = @ + 1]
     /\ Generated(s, first)
     /\ UNCHANGED <<initialized, failed, share_value, stmt, left, info_called, batch,
                    open, rows>>

Taken(p, v, table) == \E r \in table : r.part = p /\ r.val = v

\* The rows of the partitions, those of open transactions, which are locked,
\* included.
Present == rows \cup UNION {open[s] : s \in Session}

\* The partition's ha_write_row, which sends the row or puts it into a batch,
\* and the rest of ha_partition::write_row and write_record.
WriteRow(s, p, error) ==
  /\ pc[s] = "write"
  /\ \/ ~error /\ ~Taken(p, val[s], Present \cup batch[s])
     \/ error /\ ("row" \in Faults \/ Taken(p, val[s], Present \cup batch[s]))
  /\ SetIfHigher(NodeOf[s], val[s], error)
  /\ IF error
     THEN /\ nid' = [nid EXCEPT ![s] = Restored(s, cur[s])]
          /\ Refused(s)
          /\ UNCHANGED batch
     ELSE /\ batch' = [batch EXCEPT ![s] =
                         @ \cup {[part |-> p, val |-> val[s], gen |-> cur[s] # 0]}]
          /\ pc' = [pc EXCEPT ![s] = "row"]
          /\ UNCHANGED <<nid, is_error>>
  /\ RowEnds(s)
  /\ UNCHANGED <<imin, imax, cnt, stmt, left, info_called, open, rows>>

\* All rows are written, or the statement has failed.
Finished(s) == \/ pc[s] = "finish"
               \/ pc[s] = "row" /\ IF est[s] > 0 THEN left[s] = 0 ELSE left[s] < UnknownRows

\* Mutant: the counter is lowered whoever has reserved last.
Lowered_Always(s, n) == IF nid[s] # 0 /\ nid[s] < next[n] THEN nid[s] ELSE next[n]

\* The counter goes back to the first value the statement has not used, if it
\* was the last to reserve.
Lowered(s, n) ==
  IF nid[s] # 0 /\ nid[s] < next[n] /\ imax[s] >= next[n] THEN nid[s] ELSE next[n]

\* ha_release_auto_increment and ha_partition::release_auto_increment, called
\* before end_bulk_insert by mysql_insert, and after it by INSERT SELECT.
Release(s) ==
  LET n == NodeOf[s]
  IN /\ IF est[s] > 0 THEN Finished(s) ELSE pc[s] = "release"
     /\ pc' = [pc EXCEPT ![s] = IF est[s] > 0 THEN "bulk" ELSE "commit"]
     /\ next' = [next EXCEPT ![n] = Lowered(s, n)]
     /\ nid' = [nid EXCEPT ![s] = 0]
     /\ imin' = [imin EXCEPT ![s] = 0]
     /\ imax' = [imax EXCEPT ![s] = 0]
     /\ cnt' = [cnt EXCEPT ![s] = 0]
     /\ UNCHANGED <<initialized, failed, share_value, cur, row, stmt, left, info_called,
                    is_error, batch, open, rows>>

\* ha_partition::end_bulk_insert sends what is left, and takes the mutex only
\* after an error.
EndBulk(s, error) ==
  LET n        == NodeOf[s]
      conflict == \E r \in batch[s] : Taken(r.part, r.val, Present)
  IN /\ IF est[s] > 0 THEN pc[s] = "bulk" ELSE Finished(s)
     /\ pc' = [pc EXCEPT ![s] = IF est[s] > 0 THEN "commit" ELSE "release"]
     /\ \/ ~error /\ ~conflict
        \/ error /\ ("bulk" \in Faults \/ conflict)
     /\ initialized' = [initialized EXCEPT ![n] = @ /\ ~error]
     /\ failed' = [failed EXCEPT ![n] = @ \/ error]
     /\ is_error' = [is_error EXCEPT ![s] = @ \/ error]
     /\ UNCHANGED <<next, share_value, cursor, row, stmt, left, info_called, batch, open,
                    rows>>

\* The transaction commits the rows R.  It may break off after the backends have
\* prepared; without XA a backend may fail for itself.
CommitTrx(s, R) ==
  \/ /\ \E q \in SUBSET Part : rows' = rows \cup {r \in R : r.part \in q}
     /\ open' = [open EXCEPT ![s] = {}]
     /\ pc' = [pc EXCEPT ![s] = "idle"]
  \/ /\ R # {}
     /\ open' = [open EXCEPT ![s] = R]
     /\ pc' = [pc EXCEPT ![s] = "prepared"]
     /\ UNCHANGED rows

\* The rows a transaction has after a statement: after a failed one what was
\* sent, in any part, or nothing at all (spider_trans_rollback).
Continued(s) ==
  IF is_error[s] THEN {{}} \cup {open[s] \cup sent : sent \in SUBSET batch[s]}
                 ELSE {open[s] \cup batch[s]}

\* The statement ends, and its handlers are reset.  In autocommit mode its
\* transaction does too; if it has failed, the backends keep what was sent.
EndStmt(s) ==
  /\ pc[s] = "commit"
  /\ \/ /\ s \in LongTrx
        /\ \E R \in Continued(s) : open' = [open EXCEPT ![s] = R]
        /\ pc' = [pc EXCEPT ![s] = "idle"]
        /\ UNCHANGED rows
     \/ s \notin LongTrx /\ ~is_error[s] /\ CommitTrx(s, batch[s])
     \/ /\ s \notin LongTrx /\ is_error[s]
        /\ \E sent \in SUBSET batch[s] : rows' = rows \cup sent
        /\ open' = [open EXCEPT ![s] = {}]
        /\ pc' = [pc EXCEPT ![s] = "idle"]
  /\ batch' = [batch EXCEPT ![s] = {}]
  /\ is_error' = [is_error EXCEPT ![s] = FALSE]
  /\ info_called' = [info_called EXCEPT ![s] = FALSE]
  /\ est' = [est EXCEPT ![s] = 0]
  /\ left' = [left EXCEPT ![s] = 0]
  /\ UNCHANGED <<counter, cursor, row, stmts>>

\* The end of a transaction of several statements.
Commit(s) ==
  /\ pc[s] = "idle" /\ open[s] # {}
  /\ CommitTrx(s, open[s])
  /\ UNCHANGED <<counter, cursor, row, stmt, left, info_called, is_error, batch>>

Rollback(s) ==
  /\ pc[s] = "idle" /\ open[s] # {}
  /\ open' = [open EXCEPT ![s] = {}]
  /\ UNCHANGED <<counter, cursor, row, stmt, pc, left, info_called, is_error, batch, rows>>

\* Tdbctl's daemon settles the branches of a commit that broke off (XaTrx).
Settle(s) ==
  /\ pc[s] = "prepared"
  /\ rows' \in {rows, rows \cup open[s]}
  /\ open' = [open EXCEPT ![s] = {}]
  /\ pc' = [pc EXCEPT ![s] = "idle"]
  /\ UNCHANGED <<counter, cursor, row, stmt, left, info_called, is_error, batch>>
-----------------------------------------------------------------------------
(***************************************************************************)
(* Other statements, and the end of a node.                                *)
(***************************************************************************)

\* ha_partition::update_row has given a row's column the value v, and with it
\* the SPIDER_SHARE of the partition if its own count is not higher.  The
\* statement is a transaction of its own.
Update(s, v, error) ==
  /\ pc[s] = "idle" /\ open[s] = {} /\ stmts < MaxStmt
  /\ rows # {}
  /\ error => "row" \in Faults \/ \E r \in rows : Taken(r.part, v, Present)
  /\ stmts' = stmts + 1
  /\ val' = [val EXCEPT ![s] = v]
  /\ is_error' = [is_error EXCEPT ![s] = error]
  /\ pc' = [pc EXCEPT ![s] = "raise"]
  /\ \E x \in {share_value[NodeOf[s]]} \cup (IF error THEN {} ELSE {v + 1}) :
       InfoAuto(s, FALSE, FALSE, [share_value EXCEPT ![NodeOf[s]] = x])
  /\ UNCHANGED <<cursor, prev, est, left, batch, open, rows>>

\* It ends with set_auto_increment_if_higher, and its statement with it.
Raise(s) ==
  /\ pc[s] = "raise"
  /\ SetIfHigher(NodeOf[s], val[s], is_error[s])
  /\ \/ /\ ~is_error[s]
        /\ \E r \in rows : /\ ~Taken(r.part, val[s], Present)
                           /\ rows' = (rows \ {r}) \cup
                                        {[part |-> r.part, val |-> val[s], gen |-> FALSE]}
     \/ /\ is_error[s] \/ \A r \in rows : Taken(r.part, val[s], Present)
        /\ UNCHANGED rows
  /\ pc' = [pc EXCEPT ![s] = "idle"]
  /\ val' = [val EXCEPT ![s] = 0]
  /\ is_error' = [is_error EXCEPT ![s] = FALSE]
  /\ info_called' = [info_called EXCEPT ![s] = FALSE]
  /\ UNCHANGED <<cursor, prev, stmt, left, batch, open>>

Here(n) == {s \in Session : NodeOf[s] = n}

\* ha_partition::truncate: no transaction of this node uses the table.
Truncate(n) ==
  /\ \A s \in Here(n) : pc[s] = "idle" /\ open[s] = {}
  /\ rows # {}
  /\ rows' = {}
  /\ Fresh(n)
  /\ share_value' = [share_value EXCEPT ![n] = 1]
  /\ UNCHANGED <<cursor, row, stmt, pc, left, info_called, is_error, batch, open>>

\* FLUSH TABLES waits for the statements that use the table and closes it; it
\* does not wait for transactions.
Flush(n) ==
  /\ \A s \in Here(n) : /\ pc[s] \in {"idle", "prepared"}
                        /\ "drop" \in Faults \/ open[s] = {}
  /\ Fresh(n)
  /\ share_value' = [share_value EXCEPT ![n] = 0]
  /\ UNCHANGED <<cursor, row, stmt, pc, left, info_called, is_error, batch, open, rows>>

\* The node crashes.  The backends keep what was sent in autocommit mode and what
\* is prepared, and roll the rest back.
Crash(n) ==
  LET lost == {s \in Here(n) : pc[s] # "prepared"}
      reset(f, x) == [s \in Session |-> IF s \in lost THEN x ELSE f[s]]
  IN /\ "drop" \in Faults \/ lost = Here(n)
     /\ \E sent \in SUBSET UNION {batch[s] : s \in lost \ LongTrx} : rows' = rows \cup sent
     /\ open' = reset(open, {}) /\ pc' = reset(pc, "idle")
     /\ Fresh(n)
     /\ share_value' = [share_value EXCEPT ![n] = 0]
     /\ nid' = reset(nid, 0) /\ imin' = reset(imin, 0) /\ imax' = reset(imax, 0)
     /\ cnt' = reset(cnt, 0) /\ cur' = reset(cur, 0)
     /\ val' = reset(val, 0) /\ prev' = reset(prev, 0)
     /\ est' = reset(est, 0) /\ left' = reset(left, 0)
     /\ info_called' = reset(info_called, FALSE)
     /\ is_error' = reset(is_error, FALSE)
     /\ batch' = reset(batch, {})
     /\ UNCHANGED stmts
-----------------------------------------------------------------------------
Insert(s) ==
  \/ \E e \in Estimates : Begin(s, e)
  \/ \E v \in {0} \cup Explicit : StartRow(s, v)
  \/ UseExplicit(s) \/ UseReserved(s) \/ Reserve(s)
  \/ \E p \in Part, error \in BOOLEAN : WriteRow(s, p, error)
  \/ Release(s)
  \/ \E error \in BOOLEAN : EndBulk(s, error)
  \/ EndStmt(s)

Next ==
  \/ \E s \in Session : \/ Insert(s)
                        \/ Commit(s) \/ Rollback(s) \/ Settle(s)
                        \/ \E v \in Explicit, error \in BOOLEAN : Update(s, v, error)
                        \/ Raise(s)
  \/ \E n \in Node : Truncate(n) \/ Flush(n) \/ Crash(n)

Spec == Init /\ [][Next]_vars
-----------------------------------------------------------------------------
(***************************************************************************)
(* Properties.                                                             *)
(***************************************************************************)

\* The values a session has generated for rows that are not committed yet.
InHand(s) ==
  {r.val : r \in {x \in batch[s] \cup open[s] : x.gen}}
    \cup (IF pc[s] = "write" /\ cur[s] # 0 THEN {cur[s]} ELSE {})

StoredIds == {r.val : r \in {x \in rows : x.gen}}

\* The values that sessions of all nodes generate are unique: no session takes a
\* value another one has in hand, for a row that is being written, left open by
\* its transaction or prepared, or that a row of the table already got; whatever
\* fails and whoever restarts, as long as no node loses its counter beside rows
\* that are not committed and stay (the fault drop).
Ids == INSTANCE UniqueIds WITH held   <- [s \in Session |-> InHand(s)],
                               stored <- StoredIds
ImplementsUniqueIds == Ids!USpec

\* The same as an invariant: no value is in two hands, or in hand and in a row.
Unique == \A s, t \in Session : /\ InHand(s) \cap StoredIds = {}
                                /\ s # t => InHand(s) \cap InHand(t) = {}

\* A node keeps to its residue class, also after the counter was raised by
\* other values, read back from the backends, or lowered by a release.
OwnClass == \A s \in Session : \A v \in InHand(s) : v % Step = Mode[NodeOf[s]]

\* What a statement has reserved and not yet used.
Reserved(s) == {v \in nid[s]..(imax[s] - 1) : v % Step = Mode[NodeOf[s]]}

\* What a statement has reserved stays its own until it gives it back: a
\* counter that is lowered by one statement's release stays above everything
\* the others have reserved or taken, so that nobody reserves it again.
Exclusive ==
  \A s \in Session :
    /\ \A v \in Reserved(s) \cup InHand(s) : v < next[NodeOf[s]]
    /\ \A t \in Session : Reserved(s) \cap InHand(t) = {}
    /\ \A t \in Session \ {s} : NodeOf[t] = NodeOf[s] => Reserved(s) \cap Reserved(t) = {}

\* handler.cc: next_insert_id "may go greater than the interval, but not
\* smaller", so that the next row takes a value the statement has reserved,
\* and a release lowers the counter to one.
CursorNotBelow == \A s \in Session : nid[s] >= imin[s]
=============================================================================
