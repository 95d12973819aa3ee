--------------------------- MODULE ConnPoolProofs ---------------------------
(***************************************************************************)
(* Proofs about ConnPool, for any number of sessions, backends and         *)
(* connections, any spider_max_connections and any set of faults.          *)
(***************************************************************************)
EXTENDS ConnPool, FiniteSetTheorems, SequenceTheorems, TLAPS

(***************************************************************************)
(* The inductive invariant.                                                *)
(***************************************************************************)
\* The session asks for a connection of want[s].
Asking == {"lookup", "create", "insert", "towait", "waiting", "signalled",
           "retry", "join"}

\* What each session's thread has in its hands at each point of its way.
LocalInv ==
  \A s \in Session :
    /\ pc[s] \in Asking => want[s] # NoKey
    /\ mine[s] # NoConn <=> pc[s] \in {"insert", "join"}
    /\ pc[s] \in {"towait", "waiting", "signalled", "retry", "insert", "check",
                  "signal"} => rec[s] # NoRecord

Has(s, c) == c \in held[s] \/ c = mine[s]

OneEach(k) == \A i, j \in DOMAIN pool[k] : pool[k][i] = pool[k][j] => i = j

\* Every connection that can be reached exists, and is in one place.
PlaceInv ==
  /\ \A s, t \in Session, c \in Conn : Has(s, c) /\ Has(t, c) => s = t
  /\ \A s \in Session : mine[s] \notin held[s]
  /\ \A s \in Session, c \in Conn :
       Has(s, c) => /\ key_of[c] # NoKey
                    /\ c # popped
                    /\ \A k \in Key : c \notin Pooled(k)
  /\ \A k \in Key : /\ OneEach(k)
                    /\ \A c \in Pooled(k) : key_of[c] = k /\ c # popped
  /\ popped # NoConn => key_of[popped] # NoKey

\* A connection carries a record only once the record is in the hash, and the
\* record a session is about to insert is known to nobody else.
RecordInv ==
  /\ \A c \in Conn : rec_of[c] # NoRecord =>
       key_of[c] # NoKey /\ hash[rec_of[c]] # NoKey
  /\ \A r \in Record : hash[r] = NoKey => count[r] <= 1
  /\ \A s \in Session : pc[s] = "insert" =>
       /\ hash[rec[s]] = NoKey
       /\ count[rec[s]] = 1
       /\ rec_of[mine[s]] = NoRecord
       /\ \A t \in Session : t # s => rec[t] # rec[s]

\* What holds in every state: the properties, and why they do.
PoolInv == /\ TypeOK
           /\ LocalInv
           /\ PlaceInv
           /\ RecordInv
           /\ CountIsExact
           /\ RecordLimit
           /\ WaitersCounted
-----------------------------------------------------------------------------
(***************************************************************************)
(* The constants, and the two ways a queue of the pool changes.            *)
(***************************************************************************)
LEMMA NoIsNone == NoKey \notin Key /\ NoConn \notin Conn /\ NoRecord \notin Record
BY BoundAssumption DEF NoKey, NoConn, NoRecord, Key, Conn, Record

LEMMA FiniteConn == ASSUME NEW S \in SUBSET Conn PROVE IsFiniteSet(S)
<1>1. IsFiniteSet(1..NConn)
  BY BoundAssumption, FS_Interval
<1> QED
  BY <1>1, FS_Subset DEF Conn

\* SPIDER_CONN_POOL::get_conn takes the last connection, and only that one.
LEMMA PopFacts ==
  ASSUME pool \in [Key -> Seq(Conn)], NEW k \in Key, pool[k] # <<>>, Pop(k), OneEach(k)
  PROVE  /\ pool' \in [Key -> Seq(Conn)]
         /\ Top(k) \in Conn /\ Top(k) \in Pooled(k)
         /\ Pooled(k)' = Pooled(k) \ {Top(k)}
         /\ OneEach(k)'
         /\ \A j \in Key : j # k => pool'[j] = pool[j]
<1> DEFINE p == pool[k]
           n == Len(pool[k])
           q == SubSeq(p, 1, n - 1)
<1>1. /\ n \in Nat \ {0} /\ DOMAIN p = 1..n /\ \A i \in 1..n : p[i] \in Conn
  BY EmptySeq, LenProperties
<1>2. /\ q \in Seq(Conn)
      /\ Len(q) = n - 1
      /\ \A i \in 1..(n - 1) : q[i] = p[i]
  <2>1. \A i \in 1..(n - 1) : p[i] \in Conn
    BY <1>1
  <2>2. /\ q \in Seq(Conn)
        /\ Len(q) = IF 1 <= n - 1 THEN (n - 1) - 1 + 1 ELSE 0
        /\ \A i \in 1..((n - 1) - 1 + 1) : q[i] = p[1 + i - 1]
    BY <1>1, <2>1, SubSeqProperties
  <2> HIDE DEF q, n, p
  <2> QED
    BY <1>1, <2>2
<1>3. pool' = [pool EXCEPT ![k] = q]
  BY DEF Pop
<1>4. DOMAIN q = 1..(n - 1)
  BY <1>2, LenProperties
<1>5. pool' \in [Key -> Seq(Conn)] /\ pool'[k] = q /\ \A j \in Key : j # k => pool'[j] = pool[j]
  BY <1>2, <1>3
<1>6. OneEach(k)'
  <2> HIDE DEF q, n, p
  <2>1. \A i, j \in 1..n : p[i] = p[j] => i = j
    BY <1>1 DEF OneEach, p
  <2> QED
    BY <1>1, <1>2, <1>4, <1>5, <2>1 DEF OneEach
<1>7. Top(k) = p[n] /\ Pooled(k) = {p[i] : i \in 1..n} /\ Pooled(k)' = {q[i] : i \in 1..(n-1)}
  BY <1>1, <1>4, <1>5 DEF Top, Pooled
<1>8. Pooled(k)' = Pooled(k) \ {Top(k)}
  <2>1. \A i, j \in 1..n : p[i] = p[j] => i = j
    BY <1>1 DEF OneEach
  <2> HIDE DEF q, n, p
  <2>2. \A i \in 1..n : i = n \/ i \in 1..(n-1)
    BY <1>1
  <2>3. \A i \in 1..(n-1) : i \in 1..n /\ i # n /\ n \in 1..n
    BY <1>1
  <2>4. \A c \in Pooled(k)' : c \in Pooled(k) \ {Top(k)}
    BY <1>2, <1>7, <2>1, <2>3
  <2>5. \A c \in Pooled(k) \ {Top(k)} : c \in Pooled(k)'
    BY <1>2, <1>7, <2>2
  <2> QED
    BY <2>4, <2>5
<1> HIDE DEF q, n, p
<1>9. Top(k) \in Conn /\ Top(k) \in Pooled(k)
  BY <1>1, <1>7
<1> QED
  BY <1>5, <1>6, <1>8, <1>9

\* SPIDER_CONN_POOL::put_conn.
LEMMA PushFacts ==
  ASSUME pool \in [Key -> Seq(Conn)], NEW k \in Key, NEW c \in Conn,
         pool' = [pool EXCEPT ![k] = Append(@, c)], OneEach(k), c \notin Pooled(k)
  PROVE  /\ pool' \in [Key -> Seq(Conn)]
         /\ Pooled(k)' = Pooled(k) \cup {c}
         /\ OneEach(k)'
         /\ \A j \in Key : j # k => pool'[j] = pool[j]
<1> DEFINE p == pool[k]
           n == Len(pool[k])
           q == Append(p, c)
<1>1. n \in Nat /\ DOMAIN p = 1..n
  BY LenProperties
<1>2. /\ q \in Seq(Conn)
      /\ Len(q) = n + 1
      /\ \A i \in 1..n : q[i] = p[i]
      /\ q[n + 1] = c
  BY AppendProperties
<1>3. DOMAIN q = 1..(n + 1)
  BY <1>2, LenProperties
<1>4. pool' \in [Key -> Seq(Conn)] /\ pool'[k] = q /\ \A j \in Key : j # k => pool'[j] = pool[j]
  BY <1>2
<1>5. Pooled(k) = {p[i] : i \in 1..n} /\ Pooled(k)' = {q[i] : i \in 1..(n + 1)}
  BY <1>1, <1>3, <1>4 DEF Pooled
<1>6. \A i, j \in 1..n : p[i] = p[j] => i = j
  BY <1>1 DEF OneEach
<1> HIDE DEF q, n, p
<1>7. /\ \A i \in 1..(n + 1) : i = n + 1 \/ i \in 1..n
      /\ \A i \in 1..n : i \in 1..(n + 1)
      /\ n + 1 \in 1..(n + 1)
  BY <1>1
<1>8. Pooled(k)' = Pooled(k) \cup {c}
  BY <1>2, <1>5, <1>7
<1>9. OneEach(k)'
  BY <1>2, <1>3, <1>4, <1>5, <1>6, <1>7 DEF OneEach
<1> QED
  BY <1>4, <1>8, <1>9

\* A queue without repetitions has as many connections as it is long.
LEMMA OneEachCounts ==
  ASSUME pool \in [Key -> Seq(Conn)], NEW k \in Key, OneEach(k)
  PROVE  Cardinality(Pooled(k)) = Len(pool[k])
<1>1. Len(pool[k]) \in Nat /\ DOMAIN pool[k] = 1..Len(pool[k])
      /\ pool[k] \in [1..Len(pool[k]) -> Conn]
  BY LenProperties
<1>2. pool[k] \in Bijection(1..Len(pool[k]), Pooled(k))
  <2>1. pool[k] \in [1..Len(pool[k]) -> Pooled(k)]
    BY <1>1 DEF Pooled
  <2>2. \A y \in Pooled(k) : \E i \in 1..Len(pool[k]) : pool[k][i] = y
    BY <1>1 DEF Pooled
  <2>3. \A i, j \in 1..Len(pool[k]) : pool[k][i] = pool[k][j] => i = j
    BY <1>1 DEF OneEach
  <2> QED
    BY <2>1, <2>2, <2>3 DEF Bijection, Injection, Surjection, IsInjective
<1> QED
  BY <1>1, <1>2, FS_CountingElements DEF ExistsBijection

(***************************************************************************)
(* What a step preserves when it leaves the part alone, or moves a session *)
(* in a way the part does not see.                                         *)
(***************************************************************************)
LEMMA InvFacts ==
  ASSUME PoolInv
  PROVE  /\ TypeOK /\ LocalInv /\ PlaceInv /\ RecordInv
         /\ CountIsExact /\ RecordLimit /\ WaitersCounted
BY DEF PoolInv

\* Only the session s moves.
Others(s) == \A t \in Session : t # s =>
  /\ pc'[t] = pc[t] /\ want'[t] = want[t] /\ rec'[t] = rec[t]
  /\ mine'[t] = mine[t] /\ held'[t] = held[t]

LEMMA LocalStep ==
  ASSUME LocalInv, NEW s \in Session, Others(s),
         /\ pc'[s] \in Asking => want'[s] # NoKey
         /\ mine'[s] # NoConn <=> pc'[s] \in {"insert", "join"}
         /\ pc'[s] \in {"towait", "waiting", "signalled", "retry", "insert",
                        "check", "signal"} => rec'[s] # NoRecord
  PROVE  LocalInv'
BY DEF LocalInv, Others

LEMMA PlaceSame ==
  ASSUME PlaceInv, UNCHANGED <<pool, key_of, mine, held, popped>>
  PROVE  PlaceInv'
BY DEF PlaceInv, Has, OneEach, Pooled

\* The session s has no more than it had.
LEMMA PlaceLess ==
  ASSUME PlaceInv, NEW s \in Session, Others(s),
         \A c \in Conn : Has(s, c)' => Has(s, c),
         mine'[s] \notin held'[s],
         UNCHANGED <<pool, key_of, popped>>
  PROVE  PlaceInv'
<1>1. \A t \in Session, c \in Conn : Has(t, c)' => Has(t, c)
  BY DEF Others, Has
<1>2. \A k \in Key : (OneEach(k)' <=> OneEach(k)) /\ Pooled(k)' = Pooled(k)
  BY DEF OneEach, Pooled
<1>3. \A t \in Session : mine'[t] \notin held'[t]
  BY DEF PlaceInv, Others
<1> QED
  BY <1>1, <1>2, <1>3 DEF PlaceInv

LEMMA RecordStep ==
  ASSUME RecordInv,
         \A s \in Session :
           /\ pc'[s] = "insert" => /\ pc[s] = "insert"
                                /\ rec'[s] = rec[s] /\ mine'[s] = mine[s]
           /\ \/ rec'[s] = rec[s]
              \/ rec'[s] = NoRecord
              \/ rec'[s] \in Record /\ hash[rec'[s]] # NoKey,
         TypeOK, LocalInv,
         UNCHANGED <<key_of, rec_of, hash, count>>
  PROVE  RecordInv'
<1>1. \A s \in Session : pc[s] = "insert" => rec[s] # NoRecord /\ hash[rec[s]] = NoKey
  BY DEF LocalInv, RecordInv
<1> QED
  BY <1>1 DEF RecordInv

LEMMA CountsSame ==
  ASSUME CountIsExact, RecordLimit, UNCHANGED <<hash, count, rec_of>>
  PROVE  CountIsExact' /\ RecordLimit'
BY DEF CountIsExact, RecordLimit

InWait(r) == {s \in Session : pc[s] \in {"waiting", "signalled"} /\ rec[s] = r}

LEMMA FiniteInWait == \A r : IsFiniteSet(InWait(r)) /\ Cardinality(InWait(r)) \in Nat
<1> SUFFICES ASSUME NEW r PROVE IsFiniteSet(InWait(r)) /\ Cardinality(InWait(r)) \in Nat
  OBVIOUS
<1>1. InWait(r) \in SUBSET Session
  BY DEF InWait
<1>2. IsFiniteSet(InWait(r))
  BY <1>1, SessionAssumption, FS_Subset
<1> QED
  BY <1>2, FS_CardinalityType

LEMMA WaitersSame ==
  ASSUME WaitersCounted, UNCHANGED waiting,
         \A s \in Session :
           /\ pc'[s] \in {"waiting", "signalled"} <=> pc[s] \in {"waiting", "signalled"}
           /\ pc'[s] \in {"waiting", "signalled"} => rec'[s] = rec[s]
  PROVE  WaitersCounted'
<1>1. \A r : InWait(r)' = InWait(r)
  BY DEF InWait
<1>2. \A r \in Record : waiting[r] = Cardinality(InWait(r))
  BY DEF WaitersCounted, InWait
<1> QED
  BY <1>1, <1>2 DEF WaitersCounted, InWait

-----------------------------------------------------------------------------
(***************************************************************************)
(* The steps that only move a session.                                     *)
(***************************************************************************)
LEMMA MoveInv ==
  ASSUME PoolInv, NEW s \in Session,
         UNCHANGED <<pool, key_of, rec_of, hash, count, waiting>>,
         UNCHANGED <<mine, held, scanned, victims, popped>>,
         idle' \subseteq Conn, is_error' \in [Session -> BOOLEAN],
         pc' \in [Session -> PC],
         want' \in [Session -> Key \cup {NoKey}],
         rec' \in [Session -> Record \cup {NoRecord}],
         Others(s),
         pc[s] \notin {"insert", "join", "waiting", "signalled"},
         pc'[s] \notin {"insert", "join", "waiting", "signalled"},
         pc'[s] \in Asking => want'[s] # NoKey,
         pc'[s] \in {"towait", "retry", "check", "signal"} => rec'[s] # NoRecord,
         \/ rec'[s] \in {rec[s], NoRecord}
         \/ rec'[s] \in Record /\ hash[rec'[s]] # NoKey
  PROVE  PoolInv'
<1>t. /\ TypeOK /\ LocalInv /\ PlaceInv /\ RecordInv
      /\ CountIsExact /\ RecordLimit /\ WaitersCounted
  BY InvFacts
<1>1. TypeOK'
  BY <1>t DEF TypeOK
<1>2. LocalInv'
  <2>1. mine'[s] = NoConn
    BY <1>t DEF LocalInv
  <2> QED
    BY <1>t, <2>1, LocalStep
<1>3. RecordInv'
  BY <1>t, RecordStep DEF Others
<1>4. WaitersCounted'
  BY <1>t, WaitersSame DEF Others
<1> QED
  BY <1>t, <1>1, <1>2, <1>3, <1>4, PlaceSame, CountsSame DEF PoolInv

\* spider_get_conn_from_idle_connection finds the record, or does not.
LEMMA LookupInv == ASSUME PoolInv, NEW s \in Session, Lookup(s) PROVE PoolInv'
<1>t. TypeOK /\ LocalInv
  BY InvFacts
<1>q. /\ pc[s] = "lookup" /\ want[s] # NoKey
      /\ \/ pc' = [pc EXCEPT ![s] = "create"] /\ rec' = rec
         \/ \E r \in Record : /\ hash[r] = want[s]
                              /\ rec' = [rec EXCEPT ![s] = r]
                              /\ \/ pc' = [pc EXCEPT ![s] = "towait"]
                                 \/ pc' = [pc EXCEPT ![s] = "create"]
      /\ UNCHANGED <<connVars, recordVars, want, mine, held, is_error, recyclerVars>>
  BY <1>t DEF Lookup, Found, Goto, LocalInv, Asking
<1>u. /\ UNCHANGED <<pool, key_of, rec_of, idle, hash, count, waiting>>
      /\ UNCHANGED <<want, mine, held, is_error, scanned, victims, popped>>
  BY <1>q DEF connVars, recordVars, recyclerVars
<1>1. pc' \in [Session -> PC] /\ rec' \in [Session -> Record \cup {NoRecord}]
  BY <1>q, <1>t DEF TypeOK, PC
<1>2. /\ Others(s) /\ pc'[s] \in {"create", "towait"}
      /\ pc'[s] = "towait" => rec'[s] \in Record
      /\ rec'[s] = rec[s] \/ (rec'[s] \in Record /\ hash[rec'[s]] # NoKey)
  BY <1>q, <1>u, <1>t DEF Others, TypeOK
<1>3. idle' \subseteq Conn /\ is_error' \in [Session -> BOOLEAN]
      /\ want' \in [Session -> Key \cup {NoKey}]
  BY <1>u, <1>t DEF TypeOK
<1> QED
  BY <1>q, <1>u, <1>1, <1>2, <1>3, MoveInv, NoIsNone

\* The statement fails while the session has no connection in its hands and
\* is not counted as waiting.
LEMMA FailInv ==
  ASSUME PoolInv, NEW s \in Session, Fail(s),
         pc[s] \notin {"insert", "join", "waiting", "signalled"},
         UNCHANGED <<pool, key_of, rec_of, idle, hash, count, waiting>>,
         UNCHANGED <<scanned, victims, popped>>
  PROVE  PoolInv'
<1>t. TypeOK /\ LocalInv
  BY InvFacts
<1>1. mine[s] = NoConn
  BY <1>t DEF LocalInv
<1>2. mine' = mine /\ held' = held
  BY <1>1, <1>t DEF Fail, TypeOK
<1>3. pc' \in [Session -> PC] /\ pc'[s] = "run"
  BY <1>t DEF Fail, Goto, TypeOK, PC
<1>4. is_error' \in [Session -> BOOLEAN]
  BY <1>t DEF Fail, TypeOK
<1>5. /\ rec' \in [Session -> Record \cup {NoRecord}] /\ rec'[s] = NoRecord
      /\ want' \in [Session -> Key \cup {NoKey}]
  BY <1>t DEF Fail, TypeOK
<1>6. Others(s)
  BY <1>2, <1>t DEF Fail, Goto, Others, TypeOK
<1> QED
  BY <1>t, <1>2, <1>3, <1>4, <1>5, <1>6, MoveInv DEF Asking, TypeOK

\* Statements on connections the session has, and the end of the transaction.
LEMMA StatementInv ==
  ASSUME PoolInv, NEW s \in Session,
         EndTrx(s) \/ StatementFails(s) \/ \E c \in Conn : Query(s, c)
  PROVE  PoolInv'
<1>t. TypeOK /\ LocalInv
  BY InvFacts
<1>q. /\ pc[s] = "run"
      /\ \/ pc' = pc
         \/ pc' = [pc EXCEPT ![s] = "release"]
      /\ \/ is_error' = is_error
         \/ is_error' = [is_error EXCEPT ![s] = TRUE]
         \/ is_error' = [is_error EXCEPT ![s] = FALSE]
      /\ idle' \subseteq idle
      /\ UNCHANGED <<pool, key_of, rec_of, recordVars, want, rec, mine, held, recyclerVars>>
  BY DEF EndTrx, StatementFails, Query, Goto, connVars
<1>u. /\ UNCHANGED <<pool, key_of, rec_of, hash, count, waiting>>
      /\ UNCHANGED <<want, rec, mine, held, scanned, victims, popped>>
  BY <1>q DEF recordVars, recyclerVars
<1>1. pc' \in [Session -> PC] /\ pc'[s] \in {"run", "release"} /\ Others(s)
  BY <1>q, <1>u, <1>t DEF TypeOK, PC, Others
<1>2. is_error' \in [Session -> BOOLEAN]
  BY <1>q, <1>t DEF TypeOK
<1>3. /\ want' \in [Session -> Key \cup {NoKey}]
      /\ rec' \in [Session -> Record \cup {NoRecord}]
      /\ idle' \subseteq Conn
  BY <1>q, <1>u, <1>t DEF TypeOK
<1> QED
  BY <1>q, <1>u, <1>1, <1>2, <1>3, MoveInv DEF Asking

\* The thread that gave a connection back looks for waiters, and goes on.
LEMMA CheckInv ==
  ASSUME PoolInv, NEW s \in Session, CheckWaiters(s) \/ EndRelease(s)
  PROVE  PoolInv'
<1>t. TypeOK /\ LocalInv
  BY InvFacts
<1>q. /\ \/ /\ pc[s] = "check" /\ rec[s] # NoRecord
            /\ \/ pc' = [pc EXCEPT ![s] = "signal"] /\ rec' = rec
               \/ pc' = [pc EXCEPT ![s] = "release"] /\ rec' = [rec EXCEPT ![s] = NoRecord]
         \/ /\ pc[s] = "release" /\ rec' = rec
            /\ pc' = [pc EXCEPT ![s] = "run"]
      /\ UNCHANGED <<connVars, recordVars, want, mine, held, is_error, recyclerVars>>
  BY <1>t DEF CheckWaiters, EndRelease, Goto, LocalInv
<1>u. /\ UNCHANGED <<pool, key_of, rec_of, idle, hash, count, waiting>>
      /\ UNCHANGED <<want, mine, held, is_error, scanned, victims, popped>>
  BY <1>q DEF connVars, recordVars, recyclerVars
<1>1. /\ pc' \in [Session -> PC] /\ rec' \in [Session -> Record \cup {NoRecord}]
      /\ pc'[s] \in {"signal", "release", "run"}
      /\ pc'[s] = "signal" => rec'[s] # NoRecord
      /\ rec'[s] \in {rec[s], NoRecord}
  BY <1>q, <1>t DEF TypeOK, PC
<1>2. Others(s)
  BY <1>q, <1>u, <1>t DEF Others, TypeOK
<1>3. idle' \subseteq Conn /\ is_error' \in [Session -> BOOLEAN]
      /\ want' \in [Session -> Key \cup {NoKey}]
  BY <1>u, <1>t DEF TypeOK
<1> QED
  BY <1>q, <1>u, <1>1, <1>2, <1>3, MoveInv DEF Asking

-----------------------------------------------------------------------------
(***************************************************************************)
(* Waiting and waking up.                                                  *)
(***************************************************************************)
LEMMA WaitersMore ==
  ASSUME TypeOK, WaitersCounted, NEW s \in Session, Others(s),
         rec[s] \in Record, rec'[s] = rec[s],
         pc[s] \notin {"waiting", "signalled"}, pc'[s] \in {"waiting", "signalled"},
         waiting' = [waiting EXCEPT ![rec[s]] = @ + 1]
  PROVE  WaitersCounted' /\ waiting' \in [Record -> Nat]
<1>1. \A r \in Record : waiting[r] = Cardinality(InWait(r)) /\ waiting[r] \in Nat
  BY DEF WaitersCounted, InWait, TypeOK
<1>2. \A r \in Record : r # rec[s] => InWait(r)' = InWait(r) /\ waiting'[r] = waiting[r]
  BY DEF InWait, Others, TypeOK
<1>3. InWait(rec[s])' = InWait(rec[s]) \cup {s} /\ s \notin InWait(rec[s])
  BY DEF InWait, Others
<1>4. Cardinality(InWait(rec[s])') = Cardinality(InWait(rec[s])) + 1
  BY <1>3, FiniteInWait, FS_AddElement
<1>5. \A r \in Record : waiting'[r] = Cardinality(InWait(r)') /\ waiting'[r] \in Nat
  BY <1>1, <1>2, <1>4 DEF TypeOK
<1> QED
  BY <1>1, <1>5 DEF WaitersCounted, InWait, TypeOK

LEMMA WaitersLess ==
  ASSUME TypeOK, WaitersCounted, NEW s \in Session, Others(s),
         rec[s] \in Record,
         pc[s] \in {"waiting", "signalled"}, pc'[s] \notin {"waiting", "signalled"},
         waiting' = [waiting EXCEPT ![rec[s]] = @ - 1]
  PROVE  WaitersCounted' /\ waiting' \in [Record -> Nat]
<1>1. \A r \in Record : waiting[r] = Cardinality(InWait(r)) /\ waiting[r] \in Nat
  BY DEF WaitersCounted, InWait, TypeOK
<1>2. PICK q \in Record : q = rec[s]
  OBVIOUS
<1>3. \A r \in Record : r # q => InWait(r)' = InWait(r) /\ waiting'[r] = waiting[r]
  BY <1>2 DEF InWait, Others, TypeOK
<1>4. InWait(q)' = InWait(q) \ {s} /\ s \in InWait(q)
  BY <1>2 DEF InWait, Others
<1>5. Cardinality(InWait(q)') = Cardinality(InWait(q)) - 1 /\ IsFiniteSet(InWait(q)')
  BY <1>4, FiniteInWait, FS_RemoveElement
<1>6. Cardinality(InWait(q)') \in Nat
  BY <1>5, FS_CardinalityType
<1>7. \A r \in Record : waiting'[r] = Cardinality(InWait(r)') /\ waiting'[r] \in Nat
  BY <1>1, <1>2, <1>3, <1>5, <1>6 DEF TypeOK
<1> QED
  BY <1>1, <1>7 DEF WaitersCounted, InWait, TypeOK

LEMMA BeginWaitInv == ASSUME PoolInv, NEW s \in Session, BeginWait(s) PROVE PoolInv'
<1>t. /\ TypeOK /\ LocalInv /\ PlaceInv /\ RecordInv
      /\ CountIsExact /\ RecordLimit /\ WaitersCounted
  BY InvFacts
<1>q. /\ pc[s] = "towait" /\ rec[s] \in Record /\ want[s] # NoKey /\ mine[s] = NoConn
      /\ waiting' = [waiting EXCEPT ![rec[s]] = @ + 1]
      /\ pc' = [pc EXCEPT ![s] = "waiting"]
  BY <1>t DEF BeginWait, Goto, LocalInv, TypeOK, Asking
<1>u. /\ UNCHANGED <<pool, key_of, rec_of, idle, hash, count>>
      /\ UNCHANGED <<want, rec, mine, held, is_error, scanned, victims, popped>>
  BY DEF BeginWait, connVars, recyclerVars
<1>1. pc' \in [Session -> PC] /\ pc'[s] = "waiting" /\ Others(s)
  BY <1>q, <1>u, <1>t DEF TypeOK, PC, Others
<1>2. WaitersCounted' /\ waiting' \in [Record -> Nat]
  BY <1>q, <1>u, <1>1, <1>t, WaitersMore
<1>3. TypeOK'
  BY <1>t, <1>u, <1>1, <1>2 DEF TypeOK
<1>4. LocalInv'
  BY <1>q, <1>u, <1>1, <1>t, LocalStep, NoIsNone
<1>5. RecordInv'
  BY <1>u, <1>1, <1>t, RecordStep DEF Others
<1> QED
  BY <1>t, <1>u, <1>2, <1>3, <1>4, <1>5, PlaceSame, CountsSame DEF PoolInv

LEMMA WakeUpInv ==
  ASSUME PoolInv, NEW s \in Session, WakeUp(s) \/ (pc[s] = "waiting" /\ WaitTimeout(s))
  PROVE  PoolInv'
<1>t. /\ TypeOK /\ LocalInv /\ PlaceInv /\ RecordInv
      /\ CountIsExact /\ RecordLimit /\ WaitersCounted
  BY InvFacts
<1>q. /\ pc[s] \in {"waiting", "signalled"} /\ mine[s] = NoConn
      /\ rec[s] \in Record /\ want[s] # NoKey
      /\ waiting' = [waiting EXCEPT ![rec[s]] = @ - 1]
      /\ UNCHANGED <<connVars, hash, count, held, recyclerVars>>
      /\ \/ /\ pc' = [pc EXCEPT ![s] = "retry"]
            /\ UNCHANGED <<want, rec, mine, is_error>>
         \/ Fail(s)
  BY <1>t DEF WakeUp, WaitTimeout, Fail, Goto, LocalInv, TypeOK, Asking
<1>u. UNCHANGED <<pool, key_of, rec_of, idle, hash, count, held, scanned, victims, popped>>
  BY <1>q DEF connVars, recyclerVars
<1>m. mine' = mine
  BY <1>q, <1>t DEF Fail, TypeOK
<1>1. /\ pc' \in [Session -> PC] /\ pc'[s] \in {"retry", "run"}
      /\ want' \in [Session -> Key \cup {NoKey}]
      /\ rec' \in [Session -> Record \cup {NoRecord}]
      /\ pc'[s] = "retry" => want'[s] = want[s] /\ rec'[s] = rec[s]
      /\ rec'[s] \in {rec[s], NoRecord}
  BY <1>q, <1>t DEF Fail, Goto, TypeOK, PC
<1>2. is_error' \in [Session -> BOOLEAN]
  BY <1>q, <1>t DEF Fail, TypeOK
<1>3. Others(s)
  BY <1>q, <1>u, <1>m, <1>t DEF Fail, Goto, Others, TypeOK
<1>4. WaitersCounted' /\ waiting' \in [Record -> Nat]
  BY <1>q, <1>1, <1>3, <1>t, WaitersLess
<1>5. TypeOK'
  BY <1>t, <1>u, <1>m, <1>1, <1>2, <1>4 DEF TypeOK
<1>6. LocalInv'
  BY <1>q, <1>m, <1>1, <1>3, <1>t, LocalStep, NoIsNone DEF Asking
<1>7. RecordInv'
  BY <1>u, <1>1, <1>3, <1>t, RecordStep DEF Others
<1> QED
  BY <1>t, <1>u, <1>m, <1>4, <1>5, <1>6, <1>7, PlaceSame, CountsSame DEF PoolInv

\* pthread_cond_signal moves one waiter, which is still counted.
LEMMA SignalInv == ASSUME PoolInv, NEW s \in Session, Signal(s) PROVE PoolInv'
<1>t. /\ TypeOK /\ LocalInv /\ PlaceInv /\ RecordInv
      /\ CountIsExact /\ RecordLimit /\ WaitersCounted
  BY InvFacts
<1>q. /\ pc[s] = "signal"
      /\ \/ pc' = [pc EXCEPT ![s] = "release"]
         \/ \E t \in Session : /\ pc[t] = "waiting"
                               /\ pc' = [pc EXCEPT ![s] = "release", ![t] = "signalled"]
      /\ rec' = [rec EXCEPT ![s] = NoRecord]
      /\ UNCHANGED <<connVars, recordVars, want, mine, held, is_error, recyclerVars>>
  BY DEF Signal, Goto, Sleeping
<1>u. /\ UNCHANGED <<pool, key_of, rec_of, idle, hash, count, waiting>>
      /\ UNCHANGED <<want, mine, held, is_error, scanned, victims, popped>>
  BY <1>q DEF connVars, recordVars, recyclerVars
<1>1. pc' \in [Session -> PC] /\ rec' \in [Session -> Record \cup {NoRecord}]
  BY <1>q, <1>t DEF TypeOK, PC
<1>2. /\ pc'[s] = "release" /\ rec'[s] = NoRecord
      /\ \A t \in Session : t # s =>
           /\ rec'[t] = rec[t]
           /\ pc'[t] = pc[t] \/ (pc[t] = "waiting" /\ pc'[t] = "signalled")
  BY <1>q, <1>t DEF TypeOK
<1>3. TypeOK'
  BY <1>t, <1>u, <1>1 DEF TypeOK
<1>4. LocalInv'
  BY <1>t, <1>q, <1>u, <1>2 DEF LocalInv, Asking
<1>5. RecordInv'
  BY <1>t, <1>u, <1>2, RecordStep
<1>6. WaitersCounted'
  <2>1. \A t \in Session :
          /\ pc'[t] \in {"waiting", "signalled"} <=> pc[t] \in {"waiting", "signalled"}
          /\ pc'[t] \in {"waiting", "signalled"} => rec'[t] = rec[t]
    BY <1>q, <1>2
  <2> QED
    BY <1>t, <1>u, <2>1, WaitersSame
<1> QED
  BY <1>t, <1>u, <1>3, <1>4, <1>5, <1>6, PlaceSame, CountsSame DEF PoolInv

-----------------------------------------------------------------------------
(***************************************************************************)
(* A connection changes its place.                                         *)
(***************************************************************************)
\* Nothing is anywhere it was not before, and what is freed is nowhere.
LEMMA PlaceDrop ==
  ASSUME TypeOK, PlaceInv,
         \A s \in Session : mine'[s] \notin held'[s],
         \A s \in Session, d \in Conn : Has(s, d)' => Has(s, d),
         \A k \in Key : OneEach(k)' /\ Pooled(k)' \subseteq Pooled(k),
         popped' \in {popped, NoConn},
         \A d \in Conn : \/ key_of'[d] = key_of[d]
                         \/ /\ \A s \in Session : ~Has(s, d)'
                            /\ \A k \in Key : d \notin Pooled(k)'
                            /\ d # popped'
  PROVE  PlaceInv'
<1>1. \A k \in Key : Pooled(k) \subseteq Conn
  BY LenProperties DEF Pooled, TypeOK
<1>2. \A s, t \in Session, c \in Conn : Has(s, c)' /\ Has(t, c)' => s = t
  BY DEF PlaceInv
<1>3. \A s \in Session, c \in Conn :
        Has(s, c)' => key_of'[c] # NoKey /\ c # popped' /\ \A k \in Key : c \notin Pooled(k)'
  BY NoIsNone DEF PlaceInv
<1>4. \A k \in Key : \A c \in Pooled(k)' : key_of'[c] = k /\ c # popped'
  BY <1>1, NoIsNone DEF PlaceInv
<1>5. popped' # NoConn => key_of'[popped'] # NoKey
  BY DEF PlaceInv, TypeOK
<1> QED
  BY <1>2, <1>3, <1>4, <1>5 DEF PlaceInv

\* A session takes the last connection of a queue.
LEMMA PlaceTake ==
  ASSUME TypeOK, PlaceInv, NEW s \in Session, NEW k \in Key,
         mine[s] = NoConn, pool[k] # <<>>, Pop(k),
         mine' = [mine EXCEPT ![s] = Top(k)],
         UNCHANGED <<held, key_of, popped>>
  PROVE  /\ PlaceInv' /\ pool' \in [Key -> Seq(Conn)]
         /\ mine' \in [Session -> Conn \cup {NoConn}] /\ mine'[s] \in Conn
<1>p. /\ pool' \in [Key -> Seq(Conn)]
      /\ Top(k) \in Conn /\ Top(k) \in Pooled(k)
      /\ Pooled(k)' = Pooled(k) \ {Top(k)}
      /\ OneEach(k)'
      /\ \A j \in Key : j # k => pool'[j] = pool[j]
  BY PopFacts DEF TypeOK, PlaceInv
<1>x. PICK x \in Conn : x = Top(k)
  BY <1>p
<1>m. mine'[s] = x /\ \A t \in Session : t # s => mine'[t] = mine[t]
  BY <1>x DEF TypeOK
<1>1. /\ x \in Pooled(k) /\ key_of[x] = k /\ x # popped
      /\ \A t \in Session : ~Has(t, x)
  BY <1>p, <1>x DEF PlaceInv
<1>2. \A j \in Key : j # k => Pooled(j)' = Pooled(j) /\ OneEach(j)' /\ x \notin Pooled(j)
  BY <1>p, <1>1 DEF PlaceInv, Pooled, OneEach
<1>3. \A t \in Session, c \in Conn : Has(t, c)' => Has(t, c) \/ (t = s /\ c = x)
  BY <1>m DEF Has
<1>4. \A t \in Session : mine'[t] \notin held'[t]
  BY <1>m, <1>1 DEF PlaceInv, Has
<1>5. \A t, u \in Session, c \in Conn : Has(t, c)' /\ Has(u, c)' => t = u
  BY <1>1, <1>3 DEF PlaceInv
<1>6. \A t \in Session, c \in Conn :
        Has(t, c)' => key_of[c] # NoKey /\ c # popped /\ \A j \in Key : c \notin Pooled(j)'
  BY <1>p, <1>x, <1>1, <1>2, <1>3, NoIsNone DEF PlaceInv
<1>7. \A j \in Key : OneEach(j)' /\ \A c \in Pooled(j)' : key_of[c] = j /\ c # popped
  BY <1>p, <1>2 DEF PlaceInv
<1>8. mine' \in [Session -> Conn \cup {NoConn}]
  BY <1>p DEF TypeOK
<1> QED
  BY <1>p, <1>m, <1>4, <1>5, <1>6, <1>7, <1>8 DEF PlaceInv

\* The recycler takes it.
LEMMA PlacePop ==
  ASSUME TypeOK, PlaceInv, NEW k \in Key, pool[k] # <<>>, Pop(k),
         popped' = Top(k),
         UNCHANGED <<held, mine, key_of>>
  PROVE  PlaceInv' /\ pool' \in [Key -> Seq(Conn)] /\ popped' \in Conn
<1>p. /\ pool' \in [Key -> Seq(Conn)]
      /\ Top(k) \in Conn /\ Top(k) \in Pooled(k)
      /\ Pooled(k)' = Pooled(k) \ {Top(k)}
      /\ OneEach(k)'
      /\ \A j \in Key : j # k => pool'[j] = pool[j]
  BY PopFacts DEF TypeOK, PlaceInv
<1>x. PICK x \in Conn : x = Top(k)
  BY <1>p
<1>1. x \in Pooled(k) /\ key_of[x] = k /\ \A t \in Session : ~Has(t, x)
  BY <1>p, <1>x DEF PlaceInv
<1>2. \A j \in Key : j # k => Pooled(j)' = Pooled(j) /\ OneEach(j)' /\ x \notin Pooled(j)
  BY <1>p, <1>1 DEF PlaceInv, Pooled, OneEach
<1>3. \A t \in Session, c \in Conn : Has(t, c)' <=> Has(t, c)
  BY DEF Has
<1>4. \A t \in Session, c \in Conn :
        Has(t, c)' => key_of[c] # NoKey /\ c # x /\ \A j \in Key : c \notin Pooled(j)'
  BY <1>p, <1>1, <1>2, <1>3 DEF PlaceInv
<1>5. \A j \in Key : OneEach(j)' /\ \A c \in Pooled(j)' : key_of[c] = j /\ c # x
  BY <1>p, <1>x, <1>2 DEF PlaceInv
<1>6. key_of[x] # NoKey
  BY <1>1, NoIsNone
<1> QED
  BY <1>p, <1>x, <1>3, <1>4, <1>5, <1>6 DEF PlaceInv

\* A new connection is in the hands of the session that made it, or in none.
LEMMA PlaceFresh ==
  ASSUME TypeOK, PlaceInv, NEW s \in Session, NEW c \in Conn, NEW k \in Key,
         key_of[c] = NoKey, key_of' = [key_of EXCEPT ![c] = k],
         mine[s] = NoConn,
         mine' = [mine EXCEPT ![s] = c] \/ mine' = mine,
         UNCHANGED <<pool, held, popped>>
  PROVE  PlaceInv'
<1>1. /\ key_of'[c] = k /\ k # NoKey
      /\ \A d \in Conn : d # c => key_of'[d] = key_of[d]
  BY NoIsNone DEF TypeOK
<1>2. \A j \in Key : Pooled(j)' = Pooled(j) /\ (OneEach(j)' <=> OneEach(j))
  BY DEF Pooled, OneEach
<1>3. \A j \in Key : c \notin Pooled(j)
  BY NoIsNone DEF PlaceInv
<1>4. c # popped /\ \A t \in Session : ~Has(t, c)
  BY NoIsNone DEF PlaceInv
<1>5. \A t \in Session, d \in Conn : Has(t, d)' => Has(t, d) \/ (t = s /\ d = c)
  BY DEF Has, TypeOK
<1>6. \A t \in Session : mine'[t] \notin held'[t]
  <2>1. \A t \in Session : mine'[t] = mine[t] \/ (t = s /\ mine'[t] = c)
    BY DEF TypeOK
  <2>2. c \notin held[s] /\ \A t \in Session : mine[t] \notin held[t]
    BY <1>4 DEF Has, PlaceInv
  <2> QED
    BY <2>1, <2>2
<1>7. \A j \in Key : Pooled(j) \subseteq Conn
  BY LenProperties DEF Pooled, TypeOK
<1>8. \A t, u \in Session, d \in Conn : Has(t, d)' /\ Has(u, d)' => t = u
  BY <1>4, <1>5 DEF PlaceInv
<1>9. \A t \in Session, d \in Conn :
        Has(t, d)' => key_of'[d] # NoKey /\ d # popped /\ \A j \in Key : d \notin Pooled(j)
  BY <1>1, <1>3, <1>4, <1>5 DEF PlaceInv
<1>10. \A j \in Key : \A d \in Pooled(j) : key_of'[d] = j /\ d # popped
  BY <1>1, <1>3, <1>7 DEF PlaceInv
<1>11. popped # NoConn => key_of'[popped] # NoKey
  BY <1>1 DEF PlaceInv, TypeOK
<1>12. \A j \in Key : OneEach(j)'
  BY <1>2 DEF PlaceInv
<1> QED
  BY <1>2, <1>6, <1>8, <1>9, <1>10, <1>11, <1>12 DEF PlaceInv

\* A session puts one of its connections into the pool.
LEMMA PlacePut ==
  ASSUME TypeOK, PlaceInv, NEW s \in Session, NEW c \in Conn, c \in held[s],
         pool' = [pool EXCEPT ![key_of[c]] = Append(@, c)],
         held' = [held EXCEPT ![s] = @ \ {c}],
         UNCHANGED <<mine, key_of, popped>>
  PROVE  PlaceInv' /\ pool' \in [Key -> Seq(Conn)]
<1>k. PICK k \in Key : k = key_of[c]
  BY DEF PlaceInv, Has, TypeOK
<1>1. Has(s, c) /\ c # popped /\ \A j \in Key : c \notin Pooled(j)
  BY DEF PlaceInv, Has
<1>p. /\ pool' \in [Key -> Seq(Conn)]
      /\ Pooled(k)' = Pooled(k) \cup {c}
      /\ OneEach(k)'
      /\ \A j \in Key : j # k => pool'[j] = pool[j]
  BY <1>k, <1>1, PushFacts DEF TypeOK, PlaceInv
<1>2. \A j \in Key : j # k => Pooled(j)' = Pooled(j) /\ OneEach(j)'
  BY <1>p DEF PlaceInv, Pooled, OneEach
<1>3. \A t \in Session, d \in Conn : Has(t, d)' => Has(t, d) /\ d # c
  <2>1. held'[s] = held[s] \ {c} /\ mine[s] # c
    BY DEF TypeOK, PlaceInv
  <2>2. \A t \in Session : t # s => held'[t] = held[t] /\ ~Has(t, c)
    BY <1>1 DEF TypeOK, PlaceInv
  <2> QED
    BY <2>1, <2>2 DEF Has
<1>4. \A t \in Session : mine'[t] \notin held'[t]
  BY DEF TypeOK, PlaceInv
<1>5. \A t \in Session, d \in Conn :
        Has(t, d)' => key_of[d] # NoKey /\ d # popped /\ \A j \in Key : d \notin Pooled(j)'
  BY <1>p, <1>2, <1>3 DEF PlaceInv
<1>6. \A j \in Key : OneEach(j)' /\ \A d \in Pooled(j)' : key_of[d] = j /\ d # popped
  BY <1>p, <1>k, <1>1, <1>2 DEF PlaceInv
<1>7. \A t, u \in Session, d \in Conn : Has(t, d)' /\ Has(u, d)' => t = u
  BY <1>3 DEF PlaceInv
<1>8. popped' # NoConn => key_of'[popped'] # NoKey
  BY DEF PlaceInv
<1> QED
  BY <1>p, <1>4, <1>5, <1>6, <1>7, <1>8 DEF PlaceInv

-----------------------------------------------------------------------------
(***************************************************************************)
(* Taking a connection from the pool.                                      *)
(***************************************************************************)
LEMMA TakeInv ==
  ASSUME PoolInv, NEW s \in Session, NEW k \in Key,
         pc[s] \in {"run", "retry"},
         NEW p \in {"lookup", "create", "towait"},
         p = "towait" => pc[s] = "retry",
         Take(s, k, p),
         want' = [want EXCEPT ![s] = k] \/ (want[s] # NoKey /\ want' = want),
         is_error' \in [Session -> BOOLEAN],
         UNCHANGED <<key_of, rec_of, idle, hash, count, waiting>>,
         UNCHANGED <<rec, held, scanned, victims, popped>>
  PROVE  PoolInv'
<1>t. /\ TypeOK /\ LocalInv /\ PlaceInv /\ RecordInv
      /\ CountIsExact /\ RecordLimit /\ WaitersCounted
  BY InvFacts
<1>m. mine[s] = NoConn
  BY <1>t DEF LocalInv
<1>w. /\ want' \in [Session -> Key \cup {NoKey}] /\ want'[s] # NoKey
      /\ \A t \in Session : t # s => want'[t] = want[t]
  BY <1>t, NoIsNone DEF TypeOK
<1>1. CASE pool[k] = <<>>
  <2>1. pc' = [pc EXCEPT ![s] = p] /\ UNCHANGED <<pool, mine>>
    BY <1>1 DEF Take, Goto
  <2>2. pc' \in [Session -> PC] /\ pc'[s] = p /\ Others(s)
    BY <2>1, <1>t, <1>w DEF TypeOK, PC, Others
  <2>3. p = "towait" => rec[s] # NoRecord
    BY <1>t DEF LocalInv
  <2> QED
    BY <2>1, <2>2, <2>3, <1>t, <1>w, MoveInv DEF TypeOK
<1>2. CASE pool[k] # <<>>
  <2>1. pc' = [pc EXCEPT ![s] = "join"] /\ Pop(k) /\ mine' = [mine EXCEPT ![s] = Top(k)]
    BY <1>2 DEF Take, Goto
  <2>2. /\ PlaceInv' /\ pool' \in [Key -> Seq(Conn)]
        /\ mine' \in [Session -> Conn \cup {NoConn}] /\ mine'[s] \in Conn
    BY <2>1, <1>2, <1>t, <1>m, PlaceTake
  <2>3. pc' \in [Session -> PC] /\ pc'[s] = "join" /\ Others(s)
    BY <2>1, <1>t, <1>w DEF TypeOK, PC, Others
  <2>4. TypeOK'
    BY <2>2, <2>3, <1>t, <1>w DEF TypeOK
  <2>5. LocalInv'
    BY <2>2, <2>3, <1>t, <1>w, LocalStep, NoIsNone
  <2>6. RecordInv'
    BY <2>3, <1>t, RecordStep DEF Others
  <2>7. WaitersCounted'
    BY <2>3, <1>t, WaitersSame DEF Others
  <2> QED
    BY <1>t, <2>2, <2>4, <2>5, <2>6, <2>7, CountsSame DEF PoolInv
<1> QED
  BY <1>1, <1>2

LEMMA GetConnInv == ASSUME PoolInv, NEW s \in Session, NEW k \in Key, GetConn(s, k)
                    PROVE  PoolInv'
<1>1. is_error' \in [Session -> BOOLEAN]
  BY InvFacts DEF GetConn, TypeOK
<1>2. /\ UNCHANGED <<key_of, rec_of, idle, hash, count, waiting>>
      /\ UNCHANGED <<rec, held, scanned, victims, popped>>
  BY DEF GetConn, recordVars, recyclerVars
<1>3. Take(s, k, "lookup") \/ Take(s, k, "create")
  BY DEF GetConn
<1> QED
  BY <1>1, <1>2, <1>3, TakeInv DEF GetConn

LEMMA RetryInv == ASSUME PoolInv, NEW s \in Session, Retry(s) PROVE PoolInv'
<1>1. pc[s] = "retry" /\ want[s] # NoKey /\ want[s] \in Key
  BY InvFacts DEF Retry, LocalInv, Asking, TypeOK
<1>2. /\ UNCHANGED <<key_of, rec_of, idle, hash, count, waiting>>
      /\ UNCHANGED <<rec, held, scanned, victims, popped>>
  BY DEF Retry, recordVars, recyclerVars
<1>3. is_error' \in [Session -> BOOLEAN]
  BY InvFacts DEF Retry, TypeOK
<1> QED
  BY <1>1, <1>2, <1>3, TakeInv DEF Retry

-----------------------------------------------------------------------------
(***************************************************************************)
(* Freeing a connection.                                                   *)
(***************************************************************************)
Carry(r) == {c \in Conn : rec_of[c] = r}

LEMMA FiniteCarry == \A r : IsFiniteSet(Carry(r)) /\ Cardinality(Carry(r)) \in Nat
<1> SUFFICES ASSUME NEW r PROVE IsFiniteSet(Carry(r)) /\ Cardinality(Carry(r)) \in Nat
  OBVIOUS
<1>1. Carry(r) \in SUBSET Conn
  BY DEF Carry
<1>2. IsFiniteSet(Carry(r))
  BY <1>1, FiniteConn
<1> QED
  BY <1>2, FS_CardinalityType

\* spider_free_conn keeps ip_port_count exact: the count of the record the
\* connection carries goes down by one, and is never zero before.
LEMMA FreeConnFacts ==
  ASSUME TypeOK, RecordInv, CountIsExact, RecordLimit,
         NEW c \in Conn, FreeConn(c), UNCHANGED hash
  PROVE  /\ key_of' \in [Conn -> Key \cup {NoKey}]
         /\ rec_of' \in [Conn -> Record \cup {NoRecord}]
         /\ idle' \subseteq Conn
         /\ count' \in [Record -> Nat]
         /\ \A d \in Conn : d # c => key_of'[d] = key_of[d] /\ rec_of'[d] = rec_of[d]
         /\ rec_of'[c] = NoRecord
         /\ \A r \in Record : hash[r] = NoKey => count'[r] = count[r]
         /\ CountIsExact' /\ RecordLimit'
<1>1. /\ key_of' \in [Conn -> Key \cup {NoKey}]
      /\ rec_of' \in [Conn -> Record \cup {NoRecord}]
      /\ idle' \subseteq Conn
      /\ \A d \in Conn : d # c => key_of'[d] = key_of[d] /\ rec_of'[d] = rec_of[d]
      /\ rec_of'[c] = NoRecord
  BY DEF FreeConn, TypeOK
<1>2. \A r \in Record : hash[r] # NoKey => count[r] = Cardinality(Carry(r))
  BY DEF CountIsExact, Carry
<1>3. \A r \in Record : r # rec_of[c] => Carry(r)' = Carry(r)
  BY <1>1, NoIsNone DEF Carry
<1>4. CASE rec_of[c] = NoRecord
  <2>1. count' = count
    BY <1>4 DEF FreeConn
  <2>2. \A r \in Record : Carry(r)' = Carry(r)
    BY <1>3, <1>4, NoIsNone
  <2>3. CountIsExact'
    BY <1>2, <2>1, <2>2 DEF CountIsExact, Carry
  <2>4. RecordLimit' /\ count' \in [Record -> Nat]
    BY <2>1 DEF RecordLimit, TypeOK
  <2> QED
    BY <1>1, <2>1, <2>3, <2>4
<1>5. CASE rec_of[c] # NoRecord
  <2>1. PICK q \in Record : q = rec_of[c]
    BY <1>5 DEF TypeOK
  <2>2. hash[q] # NoKey /\ count[q] = Cardinality(Carry(q)) /\ count[q] \in Nat
    BY <1>2, <1>5, <2>1 DEF RecordInv, TypeOK
  <2>3. Carry(q)' = Carry(q) \ {c} /\ c \in Carry(q)
    BY <1>1, <2>1, NoIsNone DEF Carry
  <2>4. Cardinality(Carry(q)') = Cardinality(Carry(q)) - 1 /\ IsFiniteSet(Carry(q)')
    BY <2>3, FiniteCarry, FS_RemoveElement
  <2>5. Cardinality(Carry(q)') \in Nat
    BY <2>4, FS_CardinalityType
  <2>6. count[q] > 0
    BY <2>2, <2>4, <2>5
  <2>7. count' = [count EXCEPT ![q] = @ - 1]
    BY <1>5, <2>1, <2>6 DEF FreeConn
  <2>8. /\ count' \in [Record -> Nat] /\ count'[q] = count[q] - 1
        /\ \A r \in Record : r # q => count'[r] = count[r]
    BY <2>2, <2>6, <2>7 DEF TypeOK
  <2>9. \A r \in Record : hash[r] # NoKey => count'[r] = Cardinality(Carry(r)')
    BY <1>2, <1>3, <2>1, <2>2, <2>4, <2>8
  <2>10. CountIsExact'
    BY <2>9 DEF CountIsExact, Carry
  <2>11. RecordLimit'
    <3>1. \A r \in Record : count[r] \in Nat /\ count'[r] \in Nat
      BY <2>8 DEF TypeOK
    <3>2. \A r \in Record : count'[r] <= count[r]
      BY <2>8, <3>1
    <3> QED
      BY <3>1, <3>2, LimitAssumption DEF RecordLimit
  <2> QED
    BY <1>1, <2>2, <2>8, <2>10, <2>11
<1> QED
  BY <1>4, <1>5

\* ... and the record that is about to be inserted is not touched.
LEMMA FreeRecordInv ==
  ASSUME TypeOK, LocalInv, RecordInv, CountIsExact, RecordLimit,
         NEW c \in Conn, FreeConn(c), UNCHANGED hash,
         \A s \in Session :
           /\ pc'[s] = "insert" => /\ pc[s] = "insert"
                                /\ rec'[s] = rec[s] /\ mine'[s] = mine[s]
           /\ rec'[s] = rec[s] \/ rec'[s] = NoRecord
  PROVE  RecordInv'
<1>1. /\ \A d \in Conn : d # c => key_of'[d] = key_of[d] /\ rec_of'[d] = rec_of[d]
      /\ rec_of'[c] = NoRecord
      /\ \A r \in Record : hash[r] = NoKey => count'[r] = count[r]
  BY FreeConnFacts
<1>2. \A s \in Session : pc[s] = "insert" => rec[s] \in Record
  BY DEF LocalInv, TypeOK
<1>3. \A s \in Session : pc[s] = "insert" => rec[s] # NoRecord /\ mine[s] \in Conn
  BY DEF LocalInv, TypeOK
<1> QED
  BY <1>1, <1>2, <1>3 DEF RecordInv

\* The connection enters the transaction, or is freed for want of memory.
LEMMA JoinInv == ASSUME PoolInv, NEW s \in Session, Join(s) PROVE PoolInv'
<1>t. /\ TypeOK /\ LocalInv /\ PlaceInv /\ RecordInv
      /\ CountIsExact /\ RecordLimit /\ WaitersCounted
  BY InvFacts
<1>c. PICK c \in Conn : c = mine[s]
  BY <1>t DEF Join, LocalInv, TypeOK
<1>q. /\ pc[s] = "join"
      /\ pc' = [pc EXCEPT ![s] = "run"]
      /\ mine' = [mine EXCEPT ![s] = NoConn]
      /\ want' = [want EXCEPT ![s] = NoKey]
      /\ rec' = [rec EXCEPT ![s] = NoRecord]
      /\ UNCHANGED <<pool, hash, waiting, scanned, victims, popped>>
      /\ \/ /\ held' = [held EXCEPT ![s] = @ \cup {c}]
            /\ UNCHANGED <<key_of, rec_of, idle, count, is_error>>
         \/ /\ held' = held
            /\ FreeConn(c)
            /\ is_error' = [is_error EXCEPT ![s] = TRUE]
  BY <1>c DEF Join, Fail, Goto, recyclerVars
<1>1. /\ pc' \in [Session -> PC] /\ pc'[s] = "run"
      /\ mine' \in [Session -> Conn \cup {NoConn}] /\ mine'[s] = NoConn
      /\ want' \in [Session -> Key \cup {NoKey}]
      /\ rec' \in [Session -> Record \cup {NoRecord}] /\ rec'[s] = NoRecord
      /\ held' \in [Session -> SUBSET Conn]
      /\ held'[s] \in {held[s], held[s] \cup {c}}
  BY <1>q, <1>t DEF TypeOK, PC
<1>2. Others(s)
  BY <1>q, <1>t DEF TypeOK, Others
<1>3. is_error' \in [Session -> BOOLEAN]
  BY <1>q, <1>t DEF TypeOK
<1>4. LocalInv'
  BY <1>1, <1>2, <1>t, LocalStep DEF Asking
<1>5. WaitersCounted'
  BY <1>q, <1>1, <1>2, <1>t, WaitersSame DEF Others
<1>6. \A t \in Session : mine'[t] \notin held'[t]
  BY <1>1, <1>2, <1>t, NoIsNone DEF Others, PlaceInv, TypeOK
<1>7. CASE /\ held' = [held EXCEPT ![s] = @ \cup {c}]
           /\ UNCHANGED <<key_of, rec_of, idle, count, is_error>>
  <2>1. \A d \in Conn : Has(s, d)' => Has(s, d)
    BY <1>1, <1>c, NoIsNone DEF Has
  <2>2. PlaceInv'
    BY <1>7, <1>q, <1>2, <1>6, <1>t, <2>1, PlaceLess
  <2>3. TypeOK'
    BY <1>7, <1>q, <1>1, <1>t DEF TypeOK
  <2>4. RecordInv'
    BY <1>7, <1>q, <1>1, <1>2, <1>t, RecordStep DEF Others
  <2> QED
    BY <1>7, <1>q, <1>t, <1>4, <1>5, <2>2, <2>3, <2>4, CountsSame DEF PoolInv
<1>8. CASE held' = held /\ FreeConn(c)
  <2>1. \A t \in Session, d \in Conn : Has(t, d)' => Has(t, d) /\ d # c
    <3>1. \A t \in Session, d \in Conn : Has(t, d)' => Has(t, d)
      BY <1>8, <1>1, <1>2, NoIsNone DEF Has, Others
    <3>2. ~Has(s, c)'
      BY <1>8, <1>1, <1>c, <1>t, NoIsNone DEF Has, PlaceInv
    <3>3. Has(s, c)
      BY <1>c DEF Has
    <3> QED
      BY <3>1, <3>2, <3>3, <1>t DEF PlaceInv
  <2>2. c # popped /\ \A k \in Key : c \notin Pooled(k)
    BY <1>c, <1>t DEF PlaceInv, Has
  <2>3. \A k \in Key : Pooled(k)' = Pooled(k) /\ (OneEach(k)' <=> OneEach(k))
    BY <1>q DEF Pooled, OneEach
  <2>4. /\ key_of' \in [Conn -> Key \cup {NoKey}]
        /\ rec_of' \in [Conn -> Record \cup {NoRecord}]
        /\ idle' \subseteq Conn
        /\ count' \in [Record -> Nat]
        /\ \A d \in Conn : d # c => key_of'[d] = key_of[d]
        /\ CountIsExact' /\ RecordLimit'
    BY <1>8, <1>q, <1>t, FreeConnFacts
  <2>5. PlaceInv'
    <3>1. \A k \in Key : OneEach(k)' /\ Pooled(k)' \subseteq Pooled(k)
      BY <2>3, <1>t DEF PlaceInv
    <3>2. \A d \in Conn : \/ key_of'[d] = key_of[d]
                          \/ /\ \A t \in Session : ~Has(t, d)'
                             /\ \A k \in Key : d \notin Pooled(k)'
                             /\ d # popped'
      BY <2>1, <2>2, <2>3, <2>4, <1>q
    <3> QED
      BY <1>q, <1>6, <1>t, <2>1, <3>1, <3>2, PlaceDrop
  <2>6. RecordInv'
    BY <1>8, <1>q, <1>1, <1>2, <1>t, FreeRecordInv DEF Others
  <2>7. TypeOK'
    BY <1>q, <1>1, <1>3, <1>t, <2>4 DEF TypeOK
  <2> QED
    BY <1>4, <1>5, <2>4, <2>5, <2>6, <2>7 DEF PoolInv
<1> QED
  BY <1>q, <1>7, <1>8

\* Back to the pool: the record the connection carries is in the hash.
LEMMA PutConnInv ==
  ASSUME PoolInv, NEW s \in Session, NEW c \in Conn, PutConn(s, c)
  PROVE  PoolInv'
<1>t. /\ TypeOK /\ LocalInv /\ PlaceInv /\ RecordInv
      /\ CountIsExact /\ RecordLimit /\ WaitersCounted
  BY InvFacts
<1>q. /\ pc[s] = "release" /\ c \in held[s] /\ mine[s] = NoConn
      /\ pool' = [pool EXCEPT ![key_of[c]] = Append(@, c)]
      /\ rec' = [rec EXCEPT ![s] = rec_of[c]]
      /\ held' = [held EXCEPT ![s] = @ \ {c}]
      /\ \/ rec_of[c] = NoRecord /\ pc' = [pc EXCEPT ![s] = "release"]
         \/ rec_of[c] # NoRecord /\ pc' = [pc EXCEPT ![s] = "check"]
      /\ UNCHANGED <<key_of, rec_of, idle, count, want, mine, is_error, hash, waiting>>
      /\ UNCHANGED <<scanned, victims, popped>>
  BY <1>t DEF PutConn, Released, Goto, LocalInv, recyclerVars
<1>1. PlaceInv' /\ pool' \in [Key -> Seq(Conn)]
  BY <1>q, <1>t, PlacePut
<1>2. /\ pc' \in [Session -> PC] /\ pc'[s] \in {"release", "check"}
      /\ rec' \in [Session -> Record \cup {NoRecord}] /\ rec'[s] = rec_of[c]
      /\ held' \in [Session -> SUBSET Conn]
      /\ pc'[s] = "check" => rec'[s] # NoRecord
  BY <1>q, <1>t DEF TypeOK, PC
<1>3. Others(s)
  BY <1>q, <1>t DEF TypeOK, Others
<1>4. TypeOK'
  BY <1>q, <1>1, <1>2, <1>t DEF TypeOK
<1>5. LocalInv'
  BY <1>q, <1>2, <1>3, <1>t, LocalStep DEF Asking
<1>6. rec'[s] = NoRecord \/ (rec'[s] \in Record /\ hash[rec'[s]] # NoKey)
  BY <1>2, <1>t DEF RecordInv, TypeOK
<1>7. RecordInv'
  BY <1>q, <1>2, <1>3, <1>6, <1>t, RecordStep DEF Others
<1>8. WaitersCounted'
  BY <1>q, <1>2, <1>3, <1>t, WaitersSame DEF Others
<1> QED
  BY <1>q, <1>t, <1>1, <1>4, <1>5, <1>7, <1>8, CountsSame DEF PoolInv

LEMMA DropConnInv ==
  ASSUME PoolInv, NEW s \in Session, NEW c \in Conn, DropConn(s, c)
  PROVE  PoolInv'
<1>t. /\ TypeOK /\ LocalInv /\ PlaceInv /\ RecordInv
      /\ CountIsExact /\ RecordLimit /\ WaitersCounted
  BY InvFacts
<1>q. /\ c \in held[s] /\ FreeConn(c)
      /\ held' = [held EXCEPT ![s] = @ \ {c}]
      /\ UNCHANGED <<pool, pc, rec, want, mine, is_error, hash, waiting>>
      /\ UNCHANGED <<scanned, victims, popped>>
  BY DEF DropConn, Released, recyclerVars
<1>1. /\ held' \in [Session -> SUBSET Conn] /\ held'[s] = held[s] \ {c}
      /\ \A t \in Session : t # s => held'[t] = held[t]
  BY <1>q, <1>t DEF TypeOK
<1>2. /\ key_of' \in [Conn -> Key \cup {NoKey}]
      /\ rec_of' \in [Conn -> Record \cup {NoRecord}]
      /\ idle' \subseteq Conn
      /\ count' \in [Record -> Nat]
      /\ \A d \in Conn : d # c => key_of'[d] = key_of[d]
      /\ CountIsExact' /\ RecordLimit'
  BY <1>q, <1>t, FreeConnFacts
<1>3. TypeOK'
  BY <1>q, <1>1, <1>2, <1>t DEF TypeOK
<1>4. LocalInv'
  BY <1>q, <1>t DEF LocalInv
<1>5. PlaceInv'
  <2>1. c # mine[s] /\ c # popped /\ \A k \in Key : c \notin Pooled(k)
    BY <1>q, <1>t DEF PlaceInv, Has
  <2>2. \A t \in Session, d \in Conn : Has(t, d)' => Has(t, d) /\ d # c
    <3>1. \A t \in Session : t # s => ~Has(t, c)
      BY <1>q, <1>t DEF PlaceInv, Has
    <3> QED
      BY <1>q, <1>1, <2>1, <3>1 DEF Has
  <2>3. \A k \in Key : OneEach(k)' /\ Pooled(k)' = Pooled(k)
    BY <1>q, <1>t DEF Pooled, OneEach, PlaceInv
  <2>4. \A t \in Session : mine'[t] \notin held'[t]
    BY <1>q, <1>1, <1>t DEF PlaceInv
  <2> QED
    BY <1>q, <1>2, <1>t, <2>1, <2>2, <2>3, <2>4, PlaceDrop
<1>6. RecordInv'
  BY <1>q, <1>t, FreeRecordInv
<1>7. WaitersCounted'
  BY <1>q, <1>t, WaitersSame
<1> QED
  BY <1>2, <1>3, <1>4, <1>5, <1>6, <1>7 DEF PoolInv

-----------------------------------------------------------------------------
(***************************************************************************)
(* The recycler, FLUSH, and the passing of time.                           *)
(***************************************************************************)
LEMMA RecyclerInv ==
  ASSUME PoolInv, Scan \/ NextRound \/ \E c \in Conn : Age(c)
  PROVE  PoolInv'
<1>t. /\ TypeOK /\ LocalInv /\ PlaceInv /\ RecordInv
      /\ CountIsExact /\ RecordLimit /\ WaitersCounted
  BY InvFacts
<1>u. /\ UNCHANGED <<pool, key_of, rec_of, hash, count, waiting>>
      /\ UNCHANGED <<pc, want, rec, mine, held, is_error, popped>>
      /\ idle' \subseteq Conn
  BY <1>t DEF Scan, NextRound, Age, connVars, recordVars, sessionVars, recyclerVars, TypeOK
<1>1. scanned' \in BOOLEAN
  BY <1>t DEF Scan, NextRound, Age, recyclerVars, TypeOK
<1>2. victims' \in [Key -> Nat]
  <2>1. \A k \in Key : Cardinality(Pooled(k) \cap idle) \in Nat
    <3> SUFFICES ASSUME NEW k \in Key PROVE Cardinality(Pooled(k) \cap idle) \in Nat
      OBVIOUS
    <3>1. Pooled(k) \cap idle \in SUBSET Conn
      BY <1>t DEF TypeOK
    <3> QED
      BY <3>1, FiniteConn, FS_CardinalityType
  <2> QED
    BY <2>1, <1>t DEF Scan, NextRound, Age, recyclerVars, TypeOK
<1>3. TypeOK'
  BY <1>t, <1>u, <1>1, <1>2 DEF TypeOK
<1>4. LocalInv'
  BY <1>t, <1>u DEF LocalInv
<1>5. RecordInv'
  BY <1>t, <1>u, RecordStep
<1>6. WaitersCounted'
  BY <1>t, <1>u, WaitersSame
<1> QED
  BY <1>t, <1>u, <1>3, <1>4, <1>5, <1>6, PlaceSame, CountsSame DEF PoolInv

LEMMA PopVictimInv == ASSUME PoolInv, NEW k \in Key, PopVictim(k) PROVE PoolInv'
<1>t. /\ TypeOK /\ LocalInv /\ PlaceInv /\ RecordInv
      /\ CountIsExact /\ RecordLimit /\ WaitersCounted
  BY InvFacts
<1>u. /\ UNCHANGED <<key_of, rec_of, idle, hash, count, waiting, scanned>>
      /\ UNCHANGED <<pc, want, rec, mine, held, is_error>>
  BY DEF PopVictim, recordVars, sessionVars
<1>1. victims' \in [Key -> Nat]
  BY <1>t DEF PopVictim, TypeOK
<1>2. PlaceInv' /\ pool' \in [Key -> Seq(Conn)] /\ popped' \in Conn \cup {NoConn}
  <2>1. CASE pool[k] # <<>>
    BY <2>1, <1>t, <1>u, PlacePop DEF PopVictim
  <2>2. CASE pool[k] = <<>>
    BY <2>2, <1>t, <1>u, PlaceSame DEF PopVictim, TypeOK
  <2> QED
    BY <2>1, <2>2
<1>3. TypeOK'
  BY <1>t, <1>u, <1>1, <1>2 DEF TypeOK
<1>4. LocalInv'
  BY <1>t, <1>u DEF LocalInv
<1>5. RecordInv'
  BY <1>t, <1>u, RecordStep
<1>6. WaitersCounted'
  BY <1>t, <1>u, WaitersSame
<1> QED
  BY <1>t, <1>u, <1>2, <1>3, <1>4, <1>5, <1>6, CountsSame DEF PoolInv

\* The recycler frees what it popped, FLUSH the last one of a queue.
LEMMA FreeIdleInv ==
  ASSUME PoolInv, FreeVictim \/ \E k \in Key : FlushOne(k)
  PROVE  PoolInv'
<1>t. /\ TypeOK /\ LocalInv /\ PlaceInv /\ RecordInv
      /\ CountIsExact /\ RecordLimit /\ WaitersCounted
  BY InvFacts
<1>u. UNCHANGED <<hash, waiting, pc, want, rec, mine, held, is_error, scanned, victims>>
  BY DEF FreeVictim, FlushOne, sessionVars, recyclerVars
<1>c. \E c \in Conn :
        /\ FreeConn(c)
        /\ pool' \in [Key -> Seq(Conn)]
        /\ popped' \in {popped, NoConn} /\ c # popped'
        /\ \A s \in Session : ~Has(s, c)
        /\ \A k \in Key : OneEach(k)' /\ Pooled(k)' \subseteq Pooled(k) /\ c \notin Pooled(k)'
  <2>1. CASE FreeVictim
    <3>1. PICK c \in Conn : c = popped
      BY <2>1, <1>t DEF FreeVictim, TypeOK
    <3>2. FreeConn(c) /\ UNCHANGED pool /\ popped' = NoConn
      BY <2>1, <3>1 DEF FreeVictim
    <3>3. /\ \A s \in Session : ~Has(s, c)
          /\ \A k \in Key : OneEach(k) /\ c \notin Pooled(k)
      BY <3>1, <1>t DEF PlaceInv
    <3>4. \A k \in Key : OneEach(k)' /\ Pooled(k)' = Pooled(k)
      BY <3>2, <3>3 DEF OneEach, Pooled
    <3>5. pool' \in [Key -> Seq(Conn)] /\ c # popped'
      BY <3>2, <1>t, NoIsNone DEF TypeOK
    <3> QED
      BY <3>2, <3>3, <3>4, <3>5
  <2>2. ASSUME NEW k \in Key, FlushOne(k)
        PROVE  \E c \in Conn :
                 /\ FreeConn(c)
                 /\ pool' \in [Key -> Seq(Conn)]
                 /\ popped' \in {popped, NoConn} /\ c # popped'
                 /\ \A s \in Session : ~Has(s, c)
                 /\ \A j \in Key : OneEach(j)' /\ Pooled(j)' \subseteq Pooled(j) /\ c \notin Pooled(j)'
    <3>1. pool[k] # <<>> /\ Pop(k) /\ FreeConn(Top(k)) /\ popped' = popped
      BY <2>2 DEF FlushOne, recyclerVars
    <3>2. /\ pool' \in [Key -> Seq(Conn)]
          /\ Top(k) \in Conn /\ Top(k) \in Pooled(k)
          /\ Pooled(k)' = Pooled(k) \ {Top(k)}
          /\ OneEach(k)'
          /\ \A j \in Key : j # k => pool'[j] = pool[j]
      BY <3>1, <1>t, PopFacts DEF TypeOK, PlaceInv
    <3>3. PICK c \in Conn : c = Top(k)
      BY <3>2
    <3>4. c # popped /\ key_of[c] = k /\ \A s \in Session : ~Has(s, c)
      BY <3>2, <3>3, <1>t DEF PlaceInv
    <3>5. \A j \in Key : OneEach(j)' /\ Pooled(j)' \subseteq Pooled(j) /\ c \notin Pooled(j)'
      <4>1. \A j \in Key : j # k => OneEach(j)' /\ Pooled(j)' = Pooled(j) /\ c \notin Pooled(j)
        BY <3>2, <3>4, <1>t DEF OneEach, Pooled, PlaceInv
      <4> QED
        BY <3>2, <3>3, <4>1
    <3> QED
      BY <3>1, <3>2, <3>3, <3>4, <3>5
  <2> QED
    BY <2>1, <2>2
<1>1. PICK c \in Conn :
        /\ FreeConn(c)
        /\ pool' \in [Key -> Seq(Conn)]
        /\ popped' \in {popped, NoConn} /\ c # popped'
        /\ \A s \in Session : ~Has(s, c)
        /\ \A k \in Key : OneEach(k)' /\ Pooled(k)' \subseteq Pooled(k) /\ c \notin Pooled(k)'
  BY <1>c
<1>2. /\ key_of' \in [Conn -> Key \cup {NoKey}]
      /\ rec_of' \in [Conn -> Record \cup {NoRecord}]
      /\ idle' \subseteq Conn
      /\ count' \in [Record -> Nat]
      /\ \A d \in Conn : d # c => key_of'[d] = key_of[d]
      /\ CountIsExact' /\ RecordLimit'
  BY <1>1, <1>u, <1>t, FreeConnFacts
<1>3. TypeOK'
  BY <1>1, <1>2, <1>u, <1>t DEF TypeOK
<1>4. LocalInv'
  BY <1>t, <1>u DEF LocalInv
<1>5. PlaceInv'
  <2>1. \A s \in Session, d \in Conn : Has(s, d)' <=> Has(s, d)
    BY <1>u DEF Has
  <2>2. \A s \in Session : mine'[s] \notin held'[s]
    BY <1>u, <1>t DEF PlaceInv
  <2> QED
    BY <1>1, <1>2, <1>t, <2>1, <2>2, PlaceDrop
<1>6. RecordInv'
  BY <1>1, <1>u, <1>t, FreeRecordInv
<1>7. WaitersCounted'
  BY <1>u, <1>t, WaitersSame
<1> QED
  BY <1>2, <1>3, <1>4, <1>5, <1>6, <1>7 DEF PoolInv

-----------------------------------------------------------------------------
(***************************************************************************)
(* spider_create_conn.                                                     *)
(***************************************************************************)
\* Where the thread is after Created, with and without the meta record.
LEMMA CreatedFacts ==
  ASSUME TypeOK, LocalInv, NEW s \in Session, NEW c \in Conn, Created(s, c),
         pc[s] \in {"create", "insert"}
  PROVE  /\ pc' \in [Session -> PC]
         /\ want' \in [Session -> Key \cup {NoKey}]
         /\ rec' \in [Session -> Record \cup {NoRecord}]
         /\ mine' \in [Session -> Conn \cup {NoConn}]
         /\ is_error' \in [Session -> BOOLEAN]
         /\ held' = held
         /\ Others(s)
         /\ rec'[s] \in {rec[s], NoRecord}
         /\ \/ pc'[s] = "join" /\ want'[s] # NoKey /\ mine' = [mine EXCEPT ![s] = c]
            \/ pc'[s] = "run" /\ mine' = [mine EXCEPT ![s] = NoConn]
<1>1. /\ pc' \in [Session -> PC]
      /\ want' \in [Session -> Key \cup {NoKey}]
      /\ rec' \in [Session -> Record \cup {NoRecord}]
      /\ mine' \in [Session -> Conn \cup {NoConn}]
  BY DEF Created, Fail, Goto, TypeOK, PC
<1>2. is_error' \in [Session -> BOOLEAN]
  BY DEF Created, Fail, TypeOK
<1>3. held' = held
  BY DEF Created, Fail
<1>4. Others(s)
  BY <1>3 DEF Created, Fail, Goto, Others, TypeOK
<1>5. want[s] # NoKey
  BY DEF LocalInv, Asking
<1>6. /\ rec'[s] \in {rec[s], NoRecord}
      /\ \/ pc'[s] = "join" /\ want'[s] # NoKey /\ mine' = [mine EXCEPT ![s] = c]
         \/ pc'[s] = "run" /\ mine' = [mine EXCEPT ![s] = NoConn]
  BY <1>5 DEF Created, Fail, Goto, TypeOK
<1> QED
  BY <1>1, <1>2, <1>3, <1>4, <1>6

\* A new object is known to nobody.
LEMMA FreshFacts ==
  ASSUME TypeOK, LocalInv, PlaceInv, RecordInv, NEW s \in Session, pc[s] = "create",
         NEW c \in Conn, NEW r \in Record \cup {NoRecord}, NewConn(s, c, r)
  PROVE  /\ want[s] \in Key /\ want[s] # NoKey
         /\ key_of[c] = NoKey /\ rec_of[c] = NoRecord
         /\ key_of' = [key_of EXCEPT ![c] = want[s]]
         /\ key_of' \in [Conn -> Key \cup {NoKey}]
         /\ rec_of' \in [Conn -> Record \cup {NoRecord}]
         /\ idle' \subseteq Conn
         /\ key_of'[c] = want[s] /\ rec_of'[c] = r
         /\ \A d \in Conn : d # c => key_of'[d] = key_of[d] /\ rec_of'[d] = rec_of[d]
         /\ mine[s] = NoConn
         /\ \A t \in Session : mine[t] # c
<1>1. want[s] \in Key /\ want[s] # NoKey /\ mine[s] = NoConn
  BY DEF LocalInv, TypeOK, Asking
<1>2. key_of[c] = NoKey /\ rec_of[c] = NoRecord
  BY DEF NewConn, FreshConn, RecordInv
<1>3. \A t \in Session : mine[t] # c
  BY <1>2 DEF PlaceInv, Has
<1>4. /\ key_of' = [key_of EXCEPT ![c] = want[s]]
      /\ key_of' \in [Conn -> Key \cup {NoKey}]
      /\ rec_of' \in [Conn -> Record \cup {NoRecord}]
      /\ idle' \subseteq Conn
      /\ key_of'[c] = want[s] /\ rec_of'[c] = r
      /\ \A d \in Conn : d # c => key_of'[d] = key_of[d] /\ rec_of'[d] = rec_of[d]
  BY <1>1 DEF NewConn, TypeOK
<1> QED
  BY <1>1, <1>2, <1>3, <1>4

\* The record exists and is not full: one more connection, and it counts.
LEMMA CreateCountedInv ==
  ASSUME PoolInv, NEW s \in Session, pc[s] = "create", NEW c \in Conn, NEW q \in Record,
         CreateCounted(s, c, q),
         UNCHANGED <<pool, waiting, scanned, victims, popped>>
  PROVE  PoolInv'
<1>t. /\ TypeOK /\ LocalInv /\ PlaceInv /\ RecordInv
      /\ CountIsExact /\ RecordLimit /\ WaitersCounted
  BY InvFacts
<1>q. /\ hash[q] = want[s] /\ ~Full(q)
      /\ count' = [count EXCEPT ![q] = @ + 1]
      /\ NewConn(s, c, q) /\ Created(s, c)
      /\ UNCHANGED hash
  BY DEF CreateCounted, Found
<1>f. /\ want[s] \in Key /\ want[s] # NoKey
      /\ key_of[c] = NoKey /\ rec_of[c] = NoRecord
      /\ key_of' = [key_of EXCEPT ![c] = want[s]]
      /\ key_of' \in [Conn -> Key \cup {NoKey}]
      /\ rec_of' \in [Conn -> Record \cup {NoRecord}]
      /\ idle' \subseteq Conn
      /\ key_of'[c] = want[s] /\ rec_of'[c] = q
      /\ \A d \in Conn : d # c => key_of'[d] = key_of[d] /\ rec_of'[d] = rec_of[d]
      /\ mine[s] = NoConn
      /\ \A t \in Session : mine[t] # c
  BY <1>q, <1>t, FreshFacts
<1>c. /\ pc' \in [Session -> PC]
      /\ want' \in [Session -> Key \cup {NoKey}]
      /\ rec' \in [Session -> Record \cup {NoRecord}]
      /\ mine' \in [Session -> Conn \cup {NoConn}]
      /\ is_error' \in [Session -> BOOLEAN]
      /\ held' = held
      /\ Others(s)
      /\ rec'[s] \in {rec[s], NoRecord}
      /\ \/ pc'[s] = "join" /\ want'[s] # NoKey /\ mine' = [mine EXCEPT ![s] = c]
         \/ pc'[s] = "run" /\ mine' = [mine EXCEPT ![s] = NoConn]
  BY <1>q, <1>t, CreatedFacts
<1>n. /\ count' \in [Record -> Nat] /\ count'[q] = count[q] + 1 /\ count[q] \in Nat
      /\ \A r \in Record : r # q => count'[r] = count[r]
  BY <1>q, <1>t DEF TypeOK
<1>m. /\ mine' = [mine EXCEPT ![s] = c] \/ mine' = mine
      /\ mine'[s] # NoConn <=> pc'[s] = "join"
  BY <1>c, <1>f, <1>t, NoIsNone DEF TypeOK
<1>1. TypeOK'
  BY <1>q, <1>f, <1>c, <1>n, <1>t DEF TypeOK
<1>2. LocalInv'
  BY <1>c, <1>m, <1>t, LocalStep DEF Asking
<1>3. PlaceInv'
  BY <1>f, <1>c, <1>m, <1>t, PlaceFresh
<1>4. RecordInv'
  <2>1. \A t \in Session : pc'[t] = "insert" =>
          /\ t # s /\ pc[t] = "insert"
          /\ rec'[t] = rec[t] /\ mine'[t] = mine[t]
    BY <1>c DEF Others
  <2>2. \A t \in Session : pc[t] = "insert" =>
          /\ rec[t] # q /\ rec[t] \in Record /\ rec[t] # NoRecord
          /\ mine[t] \in Conn /\ mine[t] # c
    BY <1>q, <1>f, <1>t DEF RecordInv, LocalInv, TypeOK
  <2>3. \A t \in Session : rec'[t] \in {rec[t], NoRecord}
    BY <1>c DEF Others
  <2>4. \A d \in Conn : rec_of'[d] # NoRecord => key_of'[d] # NoKey /\ hash[rec_of'[d]] # NoKey
    BY <1>q, <1>f, <1>t DEF RecordInv
  <2>5. \A r \in Record : hash[r] = NoKey => count'[r] <= 1
    BY <1>q, <1>f, <1>n, <1>t DEF RecordInv
  <2> QED
    BY <1>q, <1>f, <1>n, <1>t, <2>1, <2>2, <2>3, <2>4, <2>5 DEF RecordInv
<1>5. CountIsExact'
  <2>1. \A r \in Record : hash[r] # NoKey => count[r] = Cardinality(Carry(r))
    BY <1>t DEF CountIsExact, Carry
  <2>2. \A r \in Record : r # q => Carry(r)' = Carry(r)
    BY <1>f, NoIsNone DEF Carry
  <2>3. Carry(q)' = Carry(q) \cup {c} /\ c \notin Carry(q)
    BY <1>f, NoIsNone DEF Carry
  <2>4. Cardinality(Carry(q)') = Cardinality(Carry(q)) + 1
    BY <2>3, FiniteCarry, FS_AddElement
  <2>5. \A r \in Record : hash[r] # NoKey => count'[r] = Cardinality(Carry(r)')
    BY <1>n, <2>1, <2>2, <2>4
  <2> QED
    BY <1>q, <2>5 DEF CountIsExact, Carry
<1>6. RecordLimit'
  <2>1. MaxConnections > 0 => count'[q] <= MaxConnections
    BY <1>q, <1>n, LimitAssumption DEF Full
  <2> QED
    BY <1>n, <1>t, <2>1 DEF RecordLimit
<1>7. WaitersCounted'
  BY <1>c, <1>t, WaitersSame DEF Others
<1> QED
  BY <1>1, <1>2, <1>3, <1>4, <1>5, <1>6, <1>7 DEF PoolInv

\* No record yet: a new one that counts one connection, or none at all.
LEMMA CreateFirstInv ==
  ASSUME PoolInv, NEW s \in Session, pc[s] = "create", NEW c \in Conn,
         CreateFirst(s, c),
         UNCHANGED <<pool, waiting, scanned, victims, popped>>
  PROVE  PoolInv'
<1>t. /\ TypeOK /\ LocalInv /\ PlaceInv /\ RecordInv
      /\ CountIsExact /\ RecordLimit /\ WaitersCounted
  BY InvFacts
<1>q. /\ NewConn(s, c, NoRecord)
      /\ mine' = [mine EXCEPT ![s] = c]
      /\ UNCHANGED <<hash, want, held, is_error>>
      /\ \/ pc' = [pc EXCEPT ![s] = "join"] /\ UNCHANGED <<count, rec>>
         \/ \E q \in Record :
              /\ FreshRecord(q)
              /\ count' = [count EXCEPT ![q] = 1]
              /\ rec' = [rec EXCEPT ![s] = q]
              /\ pc' = [pc EXCEPT ![s] = "insert"]
  BY DEF CreateFirst, Goto
<1>f. /\ want[s] \in Key /\ want[s] # NoKey
      /\ key_of[c] = NoKey /\ rec_of[c] = NoRecord
      /\ key_of' = [key_of EXCEPT ![c] = want[s]]
      /\ key_of' \in [Conn -> Key \cup {NoKey}]
      /\ rec_of' \in [Conn -> Record \cup {NoRecord}]
      /\ idle' \subseteq Conn
      /\ key_of'[c] = want[s] /\ rec_of'[c] = NoRecord
      /\ \A d \in Conn : d # c => key_of'[d] = key_of[d] /\ rec_of'[d] = rec_of[d]
      /\ mine[s] = NoConn
      /\ \A t \in Session : mine[t] # c
  BY <1>q, <1>t, FreshFacts
<1>m. /\ mine' \in [Session -> Conn \cup {NoConn}] /\ mine'[s] = c /\ c # NoConn
      /\ \A t \in Session : t # s => mine'[t] = mine[t]
  BY <1>q, <1>t, NoIsNone DEF TypeOK
<1>r. \A d \in Conn : rec_of'[d] = rec_of[d]
  BY <1>f
<1>1. PlaceInv'
  BY <1>q, <1>f, <1>t, PlaceFresh
<1>2. CASE pc' = [pc EXCEPT ![s] = "join"] /\ UNCHANGED <<count, rec>>
  <2>1. pc' \in [Session -> PC] /\ pc'[s] = "join" /\ Others(s)
    BY <1>2, <1>q, <1>m, <1>t DEF TypeOK, PC, Others
  <2>2. TypeOK'
    BY <1>2, <1>q, <1>f, <1>m, <1>t, <2>1 DEF TypeOK
  <2>3. LocalInv'
    BY <1>q, <1>f, <1>m, <1>t, <2>1, LocalStep
  <2>4. RecordInv'
    <3>1. \A t \in Session : pc'[t] = "insert" =>
            pc[t] = "insert" /\ rec'[t] = rec[t] /\ mine'[t] = mine[t] /\ mine[t] \in Conn
      BY <1>2, <1>m, <1>t, <2>1 DEF Others, LocalInv, TypeOK
    <3>2. \A d \in Conn : key_of[d] # NoKey => key_of'[d] # NoKey
      BY <1>f
    <3> QED
      BY <1>2, <1>q, <1>f, <1>r, <1>t, <3>1, <3>2 DEF RecordInv
  <2>5. CountIsExact' /\ RecordLimit'
    BY <1>2, <1>q, <1>r, <1>t DEF CountIsExact, RecordLimit
  <2>6. WaitersCounted'
    BY <1>2, <1>t, <2>1, WaitersSame DEF Others
  <2> QED
    BY <1>1, <2>2, <2>3, <2>4, <2>5, <2>6 DEF PoolInv
<1>3. ASSUME NEW q \in Record, FreshRecord(q),
             count' = [count EXCEPT ![q] = 1],
             rec' = [rec EXCEPT ![s] = q],
             pc' = [pc EXCEPT ![s] = "insert"]
      PROVE  PoolInv'
  <2>0. hash[q] = NoKey /\ count[q] = 0 /\ \A t \in Session : rec[t] # q
    BY <1>3 DEF FreshRecord, FreeRecord
  <2>1. /\ pc' \in [Session -> PC] /\ pc'[s] = "insert"
        /\ rec' \in [Session -> Record \cup {NoRecord}] /\ rec'[s] = q
        /\ count' \in [Record -> Nat] /\ count'[q] = 1
        /\ \A r \in Record : r # q => count'[r] = count[r]
    BY <1>3, <1>t DEF TypeOK, PC
  <2>2. Others(s)
    BY <1>3, <1>q, <1>m, <1>t DEF TypeOK, Others
  <2>3. TypeOK'
    BY <1>q, <1>f, <1>m, <1>t, <2>1 DEF TypeOK
  <2>4. LocalInv'
    BY <1>q, <1>f, <1>m, <1>t, <2>1, <2>2, LocalStep, NoIsNone
  <2>5. RecordInv'
    <3>1. \A t \in Session : t # s => rec'[t] = rec[t] /\ mine'[t] = mine[t] /\ pc'[t] = pc[t]
      BY <2>2 DEF Others
    <3>2. \A t \in Session : pc[t] = "insert" => rec[t] \in Record /\ mine[t] \in Conn
      BY <1>t DEF LocalInv, TypeOK
    <3>3. \A d \in Conn : rec_of'[d] # NoRecord => key_of'[d] # NoKey /\ hash'[rec_of'[d]] # NoKey
      BY <1>q, <1>f, <1>r, <1>t DEF RecordInv
    <3>4. \A r \in Record : hash'[r] = NoKey => count'[r] <= 1
      BY <1>q, <1>t, <2>1 DEF RecordInv
    <3>5. ASSUME NEW t \in Session, pc'[t] = "insert"
          PROVE  /\ hash'[rec'[t]] = NoKey /\ count'[rec'[t]] = 1
                 /\ rec_of'[mine'[t]] = NoRecord
                 /\ \A u \in Session : u # t => rec'[u] # rec'[t]
      <4>1. CASE t = s
        BY <4>1, <1>q, <1>f, <1>m, <2>0, <2>1, <3>1
      <4>2. CASE t # s
        BY <4>2, <3>5, <1>q, <1>r, <1>t, <2>0, <2>1, <3>1, <3>2 DEF RecordInv
      <4> QED
        BY <4>1, <4>2
    <3> QED
      BY <3>3, <3>4, <3>5 DEF RecordInv
  <2>6. CountIsExact'
    <3>1. \A r \in Record : hash[r] # NoKey => count'[r] = count[r]
      BY <2>0, <2>1
    <3> QED
      BY <1>q, <1>r, <1>t, <3>1 DEF CountIsExact
  <2>7. RecordLimit'
    <3>1. MaxConnections > 0 => count'[q] <= MaxConnections
      BY <2>1, LimitAssumption
    <3> QED
      BY <1>t, <2>1, <3>1 DEF RecordLimit
  <2>8. WaitersCounted'
    BY <1>t, <2>1, <2>2, WaitersSame DEF Others
  <2> QED
    BY <1>1, <2>3, <2>4, <2>5, <2>6, <2>7, <2>8 DEF PoolInv
<1> QED
  BY <1>q, <1>2, <1>3

LEMMA CreateInv == ASSUME PoolInv, NEW s \in Session, Create(s) PROVE PoolInv'
<1>u. pc[s] = "create" /\ UNCHANGED <<pool, waiting, scanned, victims, popped>>
  BY DEF Create, recyclerVars
<1>1. ASSUME NEW r \in Record, CreateTooMany(s, r) PROVE PoolInv'
  BY <1>1, <1>u, FailInv DEF CreateTooMany
<1> QED
  BY <1>u, <1>1, CreateCountedInv, CreateFirstInv DEF Create

\* The record enters the hash with the one connection it counts.
LEMMA InsertRecordInv == ASSUME PoolInv, NEW s \in Session, InsertRecord(s) PROVE PoolInv'
<1>t. /\ TypeOK /\ LocalInv /\ PlaceInv /\ RecordInv
      /\ CountIsExact /\ RecordLimit /\ WaitersCounted
  BY InvFacts
<1>u. pc[s] = "insert" /\ UNCHANGED <<pool, key_of, count, waiting, scanned, victims, popped>>
  BY DEF InsertRecord, recyclerVars
<1>0. /\ mine[s] \in Conn /\ rec[s] \in Record /\ want[s] \in Key /\ want[s] # NoKey
      /\ Has(s, mine[s])
  BY <1>u, <1>t DEF LocalInv, TypeOK, Asking, Has
<1>q. PICK q \in Record : q = rec[s]
  BY <1>0
<1>c. PICK c \in Conn : c = mine[s]
  BY <1>0
<1>i. /\ hash[q] = NoKey /\ count[q] = 1 /\ rec_of[c] = NoRecord
      /\ \A t \in Session : t # s => rec[t] # q
      /\ key_of[c] # NoKey
      /\ \A t \in Session : t # s => mine[t] # c
  BY <1>u, <1>q, <1>c, <1>0, <1>t DEF RecordInv, PlaceInv, Has
<1>1. CASE /\ hash' = [hash EXCEPT ![q] = want[s]]
           /\ rec_of' = [rec_of EXCEPT ![c] = q]
           /\ idle' = idle \ {c}
           /\ Created(s, c)
  <2>c. /\ pc' \in [Session -> PC]
        /\ want' \in [Session -> Key \cup {NoKey}]
        /\ rec' \in [Session -> Record \cup {NoRecord}]
        /\ mine' \in [Session -> Conn \cup {NoConn}]
        /\ is_error' \in [Session -> BOOLEAN]
        /\ held' = held
        /\ Others(s)
        /\ rec'[s] \in {rec[s], NoRecord}
        /\ \/ pc'[s] = "join" /\ want'[s] # NoKey /\ mine' = [mine EXCEPT ![s] = c]
           \/ pc'[s] = "run" /\ mine' = [mine EXCEPT ![s] = NoConn]
    BY <1>1, <1>u, <1>t, CreatedFacts
  <2>h. /\ hash' \in [Record -> Key \cup {NoKey}] /\ hash'[q] # NoKey
        /\ \A r \in Record : r # q => hash'[r] = hash[r]
        /\ rec_of' \in [Conn -> Record \cup {NoRecord}] /\ rec_of'[c] = q
        /\ \A d \in Conn : d # c => rec_of'[d] = rec_of[d]
        /\ idle' \subseteq Conn
    BY <1>1, <1>0, <1>t DEF TypeOK
  <2>m. mine'[s] \in {c, NoConn} /\ (mine'[s] # NoConn <=> pc'[s] = "join")
    BY <2>c, <1>t, NoIsNone DEF TypeOK
  <2>1. TypeOK'
    BY <1>u, <1>t, <2>c, <2>h DEF TypeOK
  <2>2. LocalInv'
    BY <1>t, <2>c, <2>m, LocalStep DEF Asking
  <2>3. PlaceInv'
    <3>1. \A d \in Conn : Has(s, d)' => Has(s, d)
      BY <1>c, <2>c, <2>m, NoIsNone DEF Has
    <3>2. mine'[s] \notin held'[s]
      BY <1>c, <1>t, <2>c, <2>m, NoIsNone DEF PlaceInv, TypeOK
    <3> QED
      BY <1>u, <1>t, <2>c, <3>1, <3>2, PlaceLess
  <2>4. RecordInv'
    <3>1. \A d \in Conn : rec_of'[d] # NoRecord => key_of'[d] # NoKey /\ hash'[rec_of'[d]] # NoKey
      <4>1. \A d \in Conn : rec_of[d] # NoRecord => rec_of[d] \in Record
        BY <1>t DEF TypeOK
      <4> QED
        BY <1>u, <1>i, <1>t, <2>h, <4>1 DEF RecordInv
    <3>2. \A r \in Record : hash'[r] = NoKey => count'[r] <= 1
      BY <1>u, <1>t, <2>h DEF RecordInv
    <3>3. ASSUME NEW t \in Session, pc'[t] = "insert"
          PROVE  /\ hash'[rec'[t]] = NoKey /\ count'[rec'[t]] = 1
                 /\ rec_of'[mine'[t]] = NoRecord
                 /\ \A v \in Session : v # t => rec'[v] # rec'[t]
      <4>1. t # s /\ pc[t] = "insert" /\ rec'[t] = rec[t] /\ mine'[t] = mine[t]
        BY <3>3, <2>c DEF Others
      <4>2. /\ rec[t] \in Record /\ rec[t] # NoRecord /\ mine[t] \in Conn
            /\ rec[t] # q /\ mine[t] # c
        BY <4>1, <1>i, <1>t DEF LocalInv, TypeOK
      <4>3. \A v \in Session : rec'[v] \in {rec[v], NoRecord}
        BY <2>c DEF Others
      <4> QED
        BY <4>1, <4>2, <4>3, <1>u, <1>t, <2>h DEF RecordInv
    <3> QED
      BY <3>1, <3>2, <3>3 DEF RecordInv
  <2>5. CountIsExact'
    <3>1. \A r \in Record : hash[r] # NoKey => count[r] = Cardinality(Carry(r))
      BY <1>t DEF CountIsExact, Carry
    <3>2. \A r \in Record : r # q => Carry(r)' = Carry(r)
      BY <1>i, <2>h, NoIsNone DEF Carry
    <3>3. Carry(q)' = {c}
      BY <1>i, <1>t, <2>h, NoIsNone DEF Carry, RecordInv
    <3>4. Cardinality(Carry(q)') = 1
      BY <3>3, FS_Singleton
    <3>5. \A r \in Record : hash'[r] # NoKey => count'[r] = Cardinality(Carry(r)')
      BY <1>u, <1>i, <2>h, <3>1, <3>2, <3>4
    <3> QED
      BY <3>5 DEF CountIsExact, Carry
  <2>6. RecordLimit'
    BY <1>u, <1>t DEF RecordLimit
  <2>7. WaitersCounted'
    BY <1>u, <1>t, <2>c, WaitersSame DEF Others
  <2> QED
    BY <2>1, <2>2, <2>3, <2>4, <2>5, <2>6, <2>7 DEF PoolInv
<1>2. CASE /\ pc' = [pc EXCEPT ![s] = "join"]
           /\ UNCHANGED <<hash, rec_of, idle, mine, want, rec, held, is_error>>
  <2>1. pc' \in [Session -> PC] /\ pc'[s] = "join" /\ Others(s)
    BY <1>2, <1>t DEF TypeOK, PC, Others
  <2>2. TypeOK'
    BY <1>2, <1>u, <1>t, <2>1 DEF TypeOK
  <2>3. LocalInv'
    BY <1>2, <1>0, <1>t, <2>1, LocalStep, NoIsNone
  <2>4. RecordInv'
    BY <1>2, <1>u, <1>t, <2>1, RecordStep DEF Others
  <2>5. WaitersCounted'
    BY <1>2, <1>u, <1>t, <2>1, WaitersSame DEF Others
  <2> QED
    BY <1>2, <1>u, <1>t, <2>2, <2>3, <2>4, <2>5, PlaceSame, CountsSame DEF PoolInv
<1> QED
  BY <1>1, <1>2, <1>q, <1>c DEF InsertRecord, Goto

-----------------------------------------------------------------------------
LEMMA PoolInit == Init => PoolInv
<1> SUFFICES ASSUME Init PROVE PoolInv
  OBVIOUS
<1>1. TypeOK
  <2>1. pool \in [Key -> Seq(Conn)]
    BY EmptySeq DEF Init
  <2>2. is_error \in [Session -> BOOLEAN] /\ scanned \in BOOLEAN
    BY DEF Init
  <2> QED
    BY <2>1, <2>2 DEF Init, TypeOK, PC
<1>2. LocalInv
  BY DEF Init, LocalInv, Asking
<1>3. PlaceInv
  <2>1. \A k \in Key : pool[k] = <<>> /\ DOMAIN pool[k] = {}
    BY DEF Init
  <2>2. \A k \in Key : Pooled(k) = {} /\ OneEach(k)
    BY <2>1 DEF Pooled, OneEach
  <2>3. \A s \in Session, c \in Conn : ~Has(s, c)
    BY NoIsNone DEF Init, Has
  <2> QED
    BY <2>2, <2>3 DEF Init, PlaceInv
<1>4. RecordInv /\ CountIsExact
  BY DEF Init, RecordInv, CountIsExact
<1>5. RecordLimit
  BY LimitAssumption DEF Init, RecordLimit
<1>6. WaitersCounted
  <2>1. \A r \in Record : InWait(r) = {} /\ waiting[r] = 0
    BY DEF Init, InWait
  <2> QED
    BY <2>1, FS_EmptySet DEF WaitersCounted, InWait
<1> QED
  BY <1>1, <1>2, <1>3, <1>4, <1>5, <1>6 DEF PoolInv

LEMMA StutterInv == ASSUME PoolInv, UNCHANGED vars PROVE PoolInv'
<1>t. /\ TypeOK /\ LocalInv /\ PlaceInv /\ RecordInv
      /\ CountIsExact /\ RecordLimit /\ WaitersCounted
  BY InvFacts
<1>u. /\ UNCHANGED <<pool, key_of, rec_of, idle, hash, count, waiting>>
      /\ UNCHANGED <<pc, want, rec, mine, held, is_error, scanned, victims, popped>>
  BY DEF vars, connVars, recordVars, sessionVars, recyclerVars
<1>1. TypeOK'
  BY <1>t, <1>u DEF TypeOK
<1>2. LocalInv'
  BY <1>t, <1>u DEF LocalInv
<1>3. RecordInv'
  BY <1>t, <1>u, RecordStep
<1>4. WaitersCounted'
  BY <1>t, <1>u, WaitersSame
<1> QED
  BY <1>t, <1>u, <1>1, <1>2, <1>3, <1>4, PlaceSame, CountsSame DEF PoolInv

LEMMA PoolStep == PoolInv /\ [Next]_vars => PoolInv'
<1> SUFFICES ASSUME PoolInv, [Next]_vars PROVE PoolInv'
  OBVIOUS
<1>1. ASSUME NEW s \in Session, Statement(s) PROVE PoolInv'
  BY <1>1, StatementInv, GetConnInv DEF Statement
<1>2. ASSUME NEW s \in Session, Getting(s) PROVE PoolInv'
  BY <1>2, LookupInv, BeginWaitInv, RetryInv, CreateInv, InsertRecordInv, JoinInv
  DEF Getting
<1>3. ASSUME NEW s \in Session, Giving(s) PROVE PoolInv'
  BY <1>3, CheckInv, SignalInv, PutConnInv, DropConnInv DEF Giving
<1>4. ASSUME NEW s \in Session, WaitTimeout(s) PROVE PoolInv'
  <2>1. CASE pc[s] = "towait"
    BY <1>4, <2>1, FailInv DEF WaitTimeout, connVars, recyclerVars
  <2>2. CASE pc[s] = "waiting"
    BY <1>4, <2>2, WakeUpInv
  <2> QED
    BY <1>4, <2>1, <2>2 DEF WaitTimeout
<1>5. ASSUME NEW s \in Session, WakeUp(s) PROVE PoolInv'
  BY <1>5, WakeUpInv
<1>6. CASE Recycler
  BY <1>6, RecyclerInv, PopVictimInv, FreeIdleInv DEF Recycler
<1>7. CASE (\E c \in Conn : Age(c)) \/ \E k \in Key : FlushOne(k)
  BY <1>7, RecyclerInv, FreeIdleInv
<1>8. CASE UNCHANGED vars
  BY <1>8, StutterInv
<1> QED
  BY <1>1, <1>2, <1>3, <1>4, <1>5, <1>6, <1>7, <1>8 DEF Next

-----------------------------------------------------------------------------
(***************************************************************************)
(* The theorems.                                                           *)
(***************************************************************************)

\* The inductive invariant of the pool, for any interleaving of the sessions,
\* the recycler and FLUSH, with any of the faults.
THEOREM PoolInvariance == Spec => []PoolInv
<1>1. Init => PoolInv
  BY PoolInit
<1>2. PoolInv /\ [Next]_vars => PoolInv'
  BY PoolStep
<1> QED
  BY <1>1, <1>2, PTL DEF Spec

\* Every state is well typed: waiting_count and ip_port_count, which threads
\* raise and lower on their own, never fall below zero.
THEOREM TypeCorrect == Spec => []TypeOK
<1>1. PoolInv => TypeOK
  BY DEF PoolInv
<1> QED
  BY <1>1, PoolInvariance, PTL

\* spider_get_conn, put_conn, the recycler and FLUSH never leave a connection
\* in two places: no two sessions use one connection, and none that is used is
\* freed.
THEOREM Exclusion == Spec => []NoSharing
<1>1. PoolInv => NoSharing
  <2> SUFFICES ASSUME PoolInv PROVE NoSharing
    OBVIOUS
  <2>t. TypeOK /\ PlaceInv
    BY InvFacts
  <2>1. \A s \in Session : held[s] \subseteq Conn /\ mine[s] \in Conn \cup {NoConn}
    BY <2>t DEF TypeOK
  <2>2. \A s, t \in Session : /\ s # t => held[s] \cap held[t] = {}
                              /\ s # t /\ mine[s] # NoConn => mine[s] # mine[t]
                              /\ mine[s] \notin held[t] \cup {popped} \/ mine[s] = NoConn
                              /\ popped \notin held[s]
    BY <2>t, <2>1 DEF PlaceInv, Has
  <2>3. ASSUME NEW k \in Key
        PROVE  /\ Cardinality(Pooled(k)) = Len(pool[k])
               /\ \A s \in Session : Pooled(k) \cap (held[s] \cup {mine[s]}) = {}
               /\ popped \notin Pooled(k)
               /\ \A c \in Pooled(k) : key_of[c] = k
    <3>1. Cardinality(Pooled(k)) = Len(pool[k])
      BY <2>t, OneEachCounts DEF TypeOK, PlaceInv
    <3>2. Pooled(k) \subseteq Conn
      BY <2>t DEF TypeOK, Pooled
    <3> QED
      BY <2>t, <2>1, <3>1, <3>2, NoIsNone DEF PlaceInv, Has
  <2> QED
    BY <2>2, <2>3 DEF NoSharing
<1> QED
  BY <1>1, PoolInvariance, PTL

\* ip_port_count of a record in spider_ipport_conns is the number of the
\* connections that carry it: spider_create_conn and spider_free_conn always
\* find the count they left.
THEOREM ExactCount == Spec => []CountIsExact
<1>1. PoolInv => CountIsExact
  BY DEF PoolInv
<1> QED
  BY <1>1, PoolInvariance, PTL

\* No record ever counts more than spider_max_connections, for any number of
\* sessions that passed the unlocked test before.
THEOREM Limit == Spec => []RecordLimit
<1>1. PoolInv => RecordLimit
  BY DEF PoolInv
<1> QED
  BY <1>1, PoolInvariance, PTL

\* waiting_count is the number of threads inside pthread_cond_timedwait, so a
\* thread that reads zero has nobody to wake up.
THEOREM ExactWaiters == Spec => []WaitersCounted
<1>1. PoolInv => WaitersCounted
  BY DEF PoolInv
<1> QED
  BY <1>1, PoolInvariance, PTL
=============================================================================
