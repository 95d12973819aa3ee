--------------------------- MODULE BgSearchProofs ---------------------------
(***************************************************************************)
(* Proofs about BgSearch, for any number of sessions, handlers and         *)
(* statements, and whether or not a connection may be freed before the     *)
(* reset() of its last owner.                                              *)
(***************************************************************************)
EXTENDS BgSearch, TLAPS

(***************************************************************************)
(* The inductive invariant.                                                *)
(***************************************************************************)
\* A statement was handed over and is not executed; it is, and bgs_working is
\* still set.
Asked    == {"signalled", "woken", "dispatch", "exec"}
Answered == {"executed", "done"}

Searching == bg \in Asked \cup Answered /\ ~conn.bg_kill

\* Only the thread that has the connection is in one of these states.
Holding == PC \ {"run", "reset", "break_reset", "free"}

OwnerInv ==
  /\ \A t \in Thread : pc[t] \in Holding => owner = t
  /\ pc[Recycler] \in {"run", "freeing", "sleep", "woken"}
  /\ pc[Recycler] \in {"sleep", "woken"} => call[Recycler] = "kill"

\* The flags of the connection and the place of its thread say the same.
ConnInv ==
  /\ conn.bg_init <=> (bg \notin {"none", "starting"} \/ conn.bg_kill)
  /\ conn.bg_search <=> (bg \in Asked \cup {"executed"} /\ ~conn.bg_kill)
  /\ bg \in {"woken", "dispatch", "exec", "executed", "done", "finished", "parking"}
       => conn.bg_conn_working
  /\ conn.bg_kill => bg \in {"signalled", "woken", "dispatch", "none"}

\* What the background thread relies on: the owner of the connection waits.
OwnerWaits ==
  /\ bg = "starting" => owner \in Thread /\ pc[owner] = "starting"
  /\ bg \in {"signalled", "woken"} => owner \in Thread /\ pc[owner] = "sleep"
  /\ conn.bg_kill => /\ owner \in Thread /\ call[owner] = "kill"
                     /\ pc[owner] \in {"sleep", "woken"}
  /\ conn.bg_caller_sync_wait => /\ owner \in Thread /\ call[owner] # "kill"
                                 /\ pc[owner] \in {"sleep", "woken"}

\* What a thread that waits relies on: the background thread will answer.
WaitOk(t) ==
  /\ pc[t] = "create" => bg = "none" /\ ~conn.bg_kill
  /\ pc[t] = "starting" => bg = "starting"
  /\ pc[t] = "sleep" /\ call[t] = "kill" => conn.bg_kill /\ bg # "none"
  /\ pc[t] = "sleep" /\ call[t] # "kill" =>
       bg \in {"signalled", "woken"} /\ ~conn.bg_kill /\ conn.bg_caller_sync_wait
  /\ pc[t] = "woken" /\ call[t] = "kill" => conn.bg_kill /\ bg = "none"
  /\ pc[t] = "query" => ~conn.bg_search

HandshakeInv == ConnInv /\ OwnerWaits /\ \A t \in Thread : WaitOk(t)

\* bgs_working is set for the handler whose statement is on its way, and that
\* handler is not reset.
WorkInv ==
  /\ \A h \in Handler : hd[h].bgs_working <=> (Searching /\ Target = h)
  /\ Searching => Target \in Handler /\ hd[Target].sql_type # "none"

\* The session may hand a statement of cur[s] over.
Preparing(s, h) ==
  /\ ~hd[h].ended
  /\ \/ /\ call[s] = "read" /\ jobs < MaxJob
        /\ hd[h].sql_type = "select" /\ hd[h].bgs_phase = 1 /\ hd[h].use_pre_call
        /\ ~hd[h].finish_flg /\ ~hd[h].bgs_working
     \/ call[s] \in {"insert", "update"} /\ jobs < MaxJob /\ Writing(h)
     \/ /\ call[s] = "pre_next" /\ WithinBound(h)
        /\ hd[h].sql_type = "select" /\ hd[h].use_pre_call
     \/ /\ call[s] = "next" /\ jobs < MaxJob /\ pc[s] = "post"
        /\ hd[h].sql_type = "select" /\ ~hd[h].use_pre_call
        /\ ~hd[h].finish_flg /\ ~hd[h].bgs_working

\* The session has read its current result and wants the next one.
Seeking(s, h) ==
  /\ call[s] = "next" /\ WithinBound(h)
  /\ hd[h].sql_type = "select" /\ ~hd[h].use_pre_call
  /\ ~hd[h].ended /\ ~hd[h].unread
  /\ ~hd[h].bgs_working /\ hd[h].bgs_error = "none" => hd[h].ahead = 1
  /\ pc[s] = "advance" => ~hd[h].bgs_working

\* What a session knows of the handler it works for.
PlaceOk(s) ==
  /\ pc[s] \in {"create", "starting", "post"} => cur[s] \in Own(s) /\ Preparing(s, cur[s])
  /\ pc[s] \in {"sleep", "woken"} /\ call[s] # "kill" =>
       /\ cur[s] \in Own(s)
       /\ pc[s] = "sleep" => Target = cur[s]
       /\ call[s] = "pre_next" => hd[cur[s]].sql_type = "select" /\ hd[cur[s]].bgs_phase = 2
  /\ pc[s] \in {"await", "advance"} => cur[s] \in Own(s) /\ Seeking(s, cur[s])
  /\ pc[s] \in {"break_collect", "collect"} => cur[s] \in Own(s) /\ Writing(cur[s])
  /\ pc[s] \in {"break_reset", "free"} => cur[s] \in Own(s)
  /\ pc[s] \in {"collect", "free"} => ~hd[cur[s]].bgs_working

PlaceInv == \A s \in Session : PlaceOk(s)

\* Where the last statement handed over is, until it is executed.
OrderInv ==
  /\ executed = IF bg \in Asked /\ ~conn.bg_kill THEN jobs - 1 ELSE jobs
  /\ bg \in {"signalled", "woken"} /\ ~conn.bg_kill => hd[Target].sql = jobs
  /\ bg = "dispatch" /\ ~conn.bg_kill =>
       IF hd[Target].sql_type = "insert" THEN exec_sql = jobs ELSE hd[Target].sql = jobs
  /\ bg = "exec" => exec_sql = jobs

Resetting(s) == pc[s] \in {"reset", "break_reset", "free"}

\* The statement of h has not been handed over since its handler was reset, or
\* the result after the current one has just been taken.
AboutTo(h, what) ==
  LET s == SessionOf[h] IN
  pc[s] \in {"create", "starting", "post"} /\ cur[s] = h /\ call[s] = what

\* The answer to the last statement of the handler is there.
HasAnswer(h) == hd[h].bgs_working => bg \in Answered

SelectOk(h) ==
  LET r == hd[h] IN
  /\ r.bgs_phase >= 1
  /\ r.bgs_phase = 1 /\ r.bgs_working => r.use_pre_call
  /\ r.bgs_phase = 1 /\ ~r.use_pre_call => r.finish_flg
  /\ r.ended => ~r.use_pre_call
  /\ r.ended /\ ~r.quick3 => ~r.unread /\ r.ahead = 0 /\ ~r.bgs_working
  /\ r.bgs_working /\ bg \in Asked => ~r.finish_flg
  /\ r.bgs_working /\ bg \in Answered /\ ~Resetting(SessionOf[h]) =>
       IF r.bgs_error = "error" THEN ~r.finish_flg ELSE r.bgs_phase = 1 \/ r.ahead = 1
  /\ r.bgs_error = "eof" /\ HasAnswer(h) /\ ~AboutTo(h, "read") => r.finish_flg
  /\ /\ r.bgs_phase >= 2 /\ ~r.finish_flg /\ r.bgs_error = "none" /\ HasAnswer(h)
     /\ ~Resetting(SessionOf[h]) /\ ~AboutTo(h, "next")
     => r.ahead = 1

\* The results of a handler.
ResultOk(h) ==
  /\ hd[h].sql_type = "none" => hd[h] = ResetHandler(hd[h].bgs_error)
  /\ Writing(h) => /\ hd[h].bgs_phase = 1 /\ ~hd[h].use_pre_call
                   /\ ~hd[h].ended /\ ~hd[h].unread /\ hd[h].ahead = 0
  /\ hd[h].sql_type = "select" => SelectOk(h)

ResultInv == \A h \in Handler : ResultOk(h)

\* A failure of the last statement is still to be seen in bgs_error.
FailOk(h) ==
  /\ failed[h] \subseteq 1..executed
  /\ hd[h].sql_type = "none" => failed[h] = {}
  /\ Writing(h) /\ jobs \in failed[h] /\ ~Resetting(SessionOf[h])
       => hd[h].bgs_error = "error"
  /\ Writing(h) /\ pc[SessionOf[h]] = "ending" /\ ~is_error[SessionOf[h]]
       => ~hd[h].bgs_working /\ jobs \notin failed[h]

OneWriter ==
  \A g, h \in Handler :
    SessionOf[g] = SessionOf[h] /\ g # h /\ Writing(h) => hd[g].sql_type = "none"

FailInv == OneWriter /\ \A h \in Handler : FailOk(h)

\* What holds in every state: the properties, and why they do.
BgInv == /\ TypeOK
         /\ OwnerInv
         /\ HandshakeInv
         /\ WorkInv
         /\ PlaceInv
         /\ OrderInv
         /\ ResultInv
         /\ FailInv
-----------------------------------------------------------------------------
(***************************************************************************)
(* What a step preserves when it leaves a part alone.                      *)
(***************************************************************************)
LEMMA InvFacts ==
  ASSUME BgInv
  PROVE  /\ TypeOK /\ OwnerInv /\ HandshakeInv /\ WorkInv
         /\ PlaceInv /\ OrderInv /\ ResultInv /\ FailInv
BY DEF BgInv

LEMMA Threads == ASSUME NEW s \in Session
                 PROVE s \in Thread /\ s # Recycler /\ s # Pool /\ Recycler \in Thread
BY RecyclerAssumption, PoolAssumption DEF Thread

\* Only the session s moves, and only its own handlers change.
Others(s) ==
  /\ \A t \in Thread : t # s => pc'[t] = pc[t] /\ cur'[t] = cur[t] /\ call'[t] = call[t]
  /\ \A t \in Session : t # s => is_error'[t] = is_error[t]

OwnOnly(s) ==
  \A g \in Handler : SessionOf[g] # s => hd'[g] = hd[g] /\ failed'[g] = failed[g]

LEMMA OwnerStep ==
  ASSUME OwnerInv, NEW s \in Session, Others(s),
         owner' = owner \/ owner \in {s, Pool},
         pc'[s] \in Holding => owner' = s
  PROVE  OwnerInv'
BY Threads, PoolAssumption DEF OwnerInv, Others

\* The session neither waits for the thread nor begins to.
LEMMA HandshakeMove ==
  ASSUME OwnerInv, HandshakeInv, NEW s \in Session, Others(s), UNCHANGED <<conn, bg>>,
         owner' = owner \/ owner \in {s, Pool},
         pc[s] \notin {"starting", "sleep", "woken"},
         pc'[s] \notin {"starting", "sleep", "woken"},
         pc'[s] = "create" => bg = "none" /\ ~conn.bg_kill,
         pc'[s] = "query" => ~conn.bg_search
  PROVE  HandshakeInv'
<1>1. ConnInv'
  BY DEF HandshakeInv, ConnInv
<1>2. OwnerWaits'
  BY Threads, PoolAssumption DEF HandshakeInv, OwnerWaits, Others
<1>3. ASSUME NEW t \in Thread PROVE WaitOk(t)'
  <2>1. CASE t = s
    BY <2>1 DEF WaitOk
  <2>2. CASE t # s
    BY <2>2 DEF HandshakeInv, WaitOk, Others
  <2> QED
    BY <2>1, <2>2
<1> QED
  BY <1>1, <1>2, <1>3 DEF HandshakeInv

LEMMA WorkSame ==
  ASSUME WorkInv, UNCHANGED <<conn, bg>>,
         \A h \in Handler :
           /\ hd'[h].bgs_working = hd[h].bgs_working
           /\ hd[h].bgs_working /\ hd[h].sql_type # "none" => hd'[h].sql_type # "none"
  PROVE  WorkInv'
<1>1. Searching' = Searching /\ Target' = Target
  BY DEF Searching, Target
<1> QED
  BY <1>1 DEF WorkInv

LEMMA OrderSame ==
  ASSUME WorkInv, OrderInv, UNCHANGED <<conn, bg, exec_sql, jobs, executed>>,
         \A h \in Handler : hd[h].bgs_working =>
           /\ hd'[h].sql_type = hd[h].sql_type
           /\ \/ hd'[h].sql = hd[h].sql
              \/ hd[h].sql_type = "insert" /\ bg \notin {"signalled", "woken"}
  PROVE  OrderInv'
<1>1. Searching => Target \in Handler /\ hd[Target].bgs_working
  BY DEF WorkInv
<1>2. Target' = Target
  BY DEF Target
<1>3. bg \in {"signalled", "woken", "dispatch"} /\ ~conn.bg_kill => Searching
  BY DEF Searching, Asked
<1> QED
  BY <1>1, <1>2, <1>3 DEF OrderInv, Asked

\* The other sessions know of their handlers what they knew: they do not have
\* the connection, or the statements handed over and the target are the same.
LEMMA PlaceStep ==
  ASSUME OwnerInv, PlaceInv, NEW s \in Session, Others(s), OwnOnly(s),
         UNCHANGED <<jobs, conn>> \/ owner = s,
         PlaceOk(s)'
  PROVE  PlaceInv'
<1> SUFFICES ASSUME NEW t \in Session, t # s PROVE PlaceOk(t)'
  BY DEF PlaceInv
<1>1. pc'[t] = pc[t] /\ cur'[t] = cur[t] /\ call'[t] = call[t] /\ PlaceOk(t)
  BY Threads DEF Others, PlaceInv
<1>2. pc[t] \in Holding => UNCHANGED <<jobs, conn>>
  BY Threads DEF OwnerInv
<1>3. cur[t] \in Own(t) => hd'[cur[t]] = hd[cur[t]]
  BY DEF OwnOnly, Own
<1>4. pc[t] \in {"create", "starting", "post", "sleep", "woken", "await", "advance",
                 "break_collect", "collect"} => pc[t] \in Holding
  BY DEF Holding, PC
<1>5. pc[t] \in {"create", "starting", "post"} => Preparing(t, cur[t])'
  BY <1>1, <1>2, <1>3, <1>4 DEF PlaceOk, Preparing, Writing, WithinBound
<1>6. pc[t] \in {"await", "advance"} => Seeking(t, cur[t])'
  BY <1>1, <1>2, <1>3, <1>4 DEF PlaceOk, Seeking, WithinBound
<1> QED
  BY <1>1, <1>2, <1>3, <1>4, <1>5, <1>6 DEF PlaceOk, Target, Writing, Own

LEMMA ResultStep ==
  ASSUME ResultInv, NEW s \in Session, Others(s), OwnOnly(s), UNCHANGED bg,
         \A h \in Own(s) : ResultOk(h)'
  PROVE  ResultInv'
<1> SUFFICES ASSUME NEW h \in Handler, SessionOf[h] # s PROVE ResultOk(h)'
  BY DEF ResultInv, Own
<1>1. SessionOf[h] \in Session
  BY SessionOfAssumption
<1>2. hd'[h] = hd[h] /\ ResultOk(h)
  BY DEF OwnOnly, ResultInv
<1>3. /\ Resetting(SessionOf[h])' = Resetting(SessionOf[h])
      /\ \A w : AboutTo(h, w)' = AboutTo(h, w)
      /\ HasAnswer(h)' = HasAnswer(h)
  BY <1>1, <1>2, Threads DEF Others, Resetting, AboutTo, HasAnswer
<1> QED
  BY <1>2, <1>3 DEF ResultOk, SelectOk, Writing, ResetHandler

\* The results are the same, and the session is not about to hand over what it
\* was, nor out of its reset().
LEMMA ResultMove ==
  ASSUME NEW h \in Handler, ResultOk(h), UNCHANGED <<hd, bg>>,
         Resetting(SessionOf[h]) => Resetting(SessionOf[h])',
         AboutTo(h, "read") => AboutTo(h, "read")',
         AboutTo(h, "next") => AboutTo(h, "next")'
  PROVE  ResultOk(h)'
<1>1. HasAnswer(h)' = HasAnswer(h)
  BY DEF HasAnswer
<1> QED
  BY <1>1 DEF ResultOk, SelectOk, Writing, ResetHandler

LEMMA FailStep ==
  ASSUME FailInv, NEW s \in Session, Others(s), OwnOnly(s), UNCHANGED <<jobs, executed>>,
         \A h \in Own(s) : FailOk(h)',
         \A g, h \in Own(s) : g # h /\ Writing(h)' => hd'[g].sql_type = "none"
  PROVE  FailInv'
<1>1. ASSUME NEW h \in Handler, SessionOf[h] # s PROVE FailOk(h)'
  <2>1. SessionOf[h] \in Session
    BY SessionOfAssumption
  <2> QED
    BY <1>1, <2>1, Threads DEF FailInv, FailOk, Others, OwnOnly, Writing, Resetting
<1>2. OneWriter'
  BY DEF FailInv, OneWriter, OwnOnly, Writing, Own
<1> QED
  BY <1>1, <1>2 DEF FailInv, Own
-----------------------------------------------------------------------------
(***************************************************************************)
(* The steps of a session that leave the connection, the thread and the    *)
(* results alone.                                                          *)
(***************************************************************************)
LEMMA MoveInv ==
  ASSUME BgInv, NEW s \in Session, Others(s),
         UNCHANGED <<conn, bg, exec_sql, hd, jobs, executed, failed>>,
         /\ owner' \in Thread \cup {Pool} /\ pc' \in [Thread -> PC]
         /\ cur' \in [Thread -> Handler \cup {NoHandler}]
         /\ call' \in [Thread -> Call] /\ is_error' \in [Session -> BOOLEAN],
         owner' = owner \/ owner \in {s, Pool},
         pc'[s] \in Holding => owner' = s,
         pc[s] \notin {"create", "starting", "post", "sleep", "woken"},
         pc'[s] \notin {"starting", "sleep", "woken"},
         pc'[s] = "create" => bg = "none" /\ ~conn.bg_kill,
         pc'[s] = "query" => ~conn.bg_search,
         PlaceOk(s)',
         Resetting(s) /\ ~Resetting(s)' => \A h \in Own(s) : hd[h].sql_type = "none",
         pc'[s] = "ending" /\ ~is_error'[s] => \A h \in Own(s) : ~Writing(h)
  PROVE  BgInv'
<1>t. /\ TypeOK /\ OwnerInv /\ HandshakeInv /\ WorkInv
      /\ PlaceInv /\ OrderInv /\ ResultInv /\ FailInv
  BY InvFacts
<1>o. OwnOnly(s)
  BY DEF OwnOnly
<1>1. TypeOK'
  BY <1>t DEF TypeOK
<1>2. OwnerInv'
  BY <1>t, OwnerStep
<1>3. HandshakeInv'
  BY <1>t, HandshakeMove
<1>4. WorkInv' /\ OrderInv'
  BY <1>t, WorkSame, OrderSame
<1>5. PlaceInv'
  BY <1>t, <1>o, PlaceStep
<1>6. ResultInv'
  <2> SUFFICES ASSUME NEW h \in Own(s) PROVE ResultOk(h)'
    BY <1>t, <1>o, ResultStep
  <2>1. h \in Handler /\ SessionOf[h] = s /\ ResultOk(h)
    BY <1>t DEF Own, ResultInv
  <2>2. ~AboutTo(h, "read") /\ ~AboutTo(h, "next")
    BY <2>1 DEF AboutTo
  <2>3. CASE Resetting(s) /\ ~Resetting(s)'
    BY <2>1, <2>3 DEF ResultOk, Writing, ResetHandler
  <2>4. CASE Resetting(s) => Resetting(s)'
    BY <2>1, <2>2, <2>4, ResultMove
  <2> QED
    BY <2>3, <2>4
<1>7. FailInv'
  <2>1. ASSUME NEW h \in Own(s) PROVE FailOk(h)'
    <3>1. h \in Handler /\ SessionOf[h] = s /\ FailOk(h)
      BY <1>t DEF Own, FailInv
    <3>2. Writing(h)' = Writing(h)
      BY DEF Writing
    <3>3. Writing(h) /\ ~Resetting(s)' => ~Resetting(s)
      BY DEF Writing
    <3> QED
      BY <3>1, <3>2, <3>3 DEF FailOk
  <2>2. \A g, h \in Own(s) : g # h /\ Writing(h)' => hd'[g].sql_type = "none"
    BY <1>t DEF FailInv, OneWriter, Writing, Own
  <2> QED
    BY <1>t, <1>o, <2>1, <2>2, FailStep
<1> QED
  BY <1>1, <1>2, <1>3, <1>4, <1>5, <1>6, <1>7 DEF BgInv

\* What the owner of the connection may take for granted outside of its waits.
LEMMA OwnerFacts ==
  ASSUME BgInv, NEW s \in Session, owner = s
  PROVE  /\ pc[s] \notin {"starting", "sleep", "woken"} =>
              /\ bg \notin {"starting", "signalled", "woken"}
              /\ ~conn.bg_kill /\ ~conn.bg_caller_sync_wait
              /\ conn.bg_init <=> bg # "none"
         /\ \A t \in Thread : t # s => pc[t] \notin Holding
         /\ \A h \in Handler : hd[h].bgs_working =>
              /\ Target = h /\ conn.bg_init /\ bg \in Asked \cup Answered
              /\ bg # "signalled" => conn.bg_conn_working
<1>t. OwnerInv /\ HandshakeInv /\ WorkInv /\ TypeOK
  BY InvFacts
<1>1. conn.bg_init \in BOOLEAN
  BY <1>t DEF TypeOK, ConnRecord
<1>2. pc[s] \notin {"starting", "sleep", "woken"} =>
              /\ bg \notin {"starting", "signalled", "woken"}
              /\ ~conn.bg_kill /\ ~conn.bg_caller_sync_wait
              /\ conn.bg_init <=> bg # "none"
  BY <1>t DEF HandshakeInv, ConnInv, OwnerWaits
<1>3. \A t \in Thread : t # s => pc[t] \notin Holding
  BY <1>t DEF OwnerInv
<1>4. \A h \in Handler : hd[h].bgs_working =>
              /\ Target = h /\ conn.bg_init /\ bg \in Asked \cup Answered
              /\ bg # "signalled" => conn.bg_conn_working
  BY <1>t DEF HandshakeInv, ConnInv, WorkInv, Searching, Asked, Answered
<1> QED
  BY <1>2, <1>3, <1>4

\* The steps of a session that has nothing to do with its handlers.
LEMMA PlainMoveInv ==
  ASSUME BgInv, NEW s \in Session,
         \/ Acquire(s) \/ EndStatement(s) \/ BeforeQuery(s) \/ AfterQuery(s)
         \/ SyncParallel(s) \/ Release(s)
  PROVE  BgInv'
<1>t. /\ TypeOK /\ OwnerInv /\ HandshakeInv
  BY InvFacts
<1>s. s \in Thread /\ s # Pool
  BY Threads
<1>q. /\ UNCHANGED <<conn, bg, exec_sql, hd, jobs, executed, failed, cur, call>>
      /\ \/ /\ pc[s] = "run" /\ owner = Pool /\ owner' = s /\ UNCHANGED <<pc, is_error>>
         \/ /\ pc[s] = "run" /\ owner = s /\ owner' = owner /\ UNCHANGED is_error
            /\ is_error[s] \/ \A h \in Own(s) : ~Writing(h)
            /\ pc' = [pc EXCEPT ![s] = "ending"]
         \/ /\ pc[s] = "run" /\ owner = s /\ owner' = owner /\ UNCHANGED is_error
            /\ pc' = [pc EXCEPT ![s] = "break_query"]
         \/ /\ pc[s] = "run" /\ owner = s /\ owner' = owner /\ UNCHANGED is_error
            /\ ~(conn.bg_search /\ conn.bg_init)
            /\ pc' = [pc EXCEPT ![s] = "query"]
         \/ /\ pc[s] \in {"query", "sync"} /\ owner' = owner
            /\ pc' = [pc EXCEPT ![s] = "run"]
            /\ is_error' = [is_error EXCEPT ![s] = is_error'[s]] /\ is_error'[s] \in BOOLEAN
         \/ /\ pc[s] = "ending" /\ owner' = owner /\ UNCHANGED is_error
            /\ pc' = [pc EXCEPT ![s] = "freeing"]
         \/ /\ pc[s] = "ending" /\ owner' = Pool /\ UNCHANGED is_error
            /\ pc' = [pc EXCEPT ![s] = "reset"]
  BY <1>t DEF Acquire, EndStatement, BeforeQuery, AfterQuery, SyncParallel, Release,
       Idle, Goto, Return, TypeOK
<1>1. /\ Others(s) /\ pc' \in [Thread -> PC] /\ is_error' \in [Session -> BOOLEAN]
      /\ owner' \in Thread \cup {Pool}
      /\ cur' \in [Thread -> Handler \cup {NoHandler}] /\ call' \in [Thread -> Call]
  BY <1>q, <1>t, <1>s DEF Others, TypeOK, PC
<1>2. /\ pc[s] \in {"run", "query", "sync", "ending"}
      /\ pc'[s] \in {"run", "ending", "break_query", "query", "freeing", "reset"}
  BY <1>q, <1>t, <1>s DEF TypeOK
<1>3. /\ owner' = owner \/ owner \in {s, Pool}
      /\ pc'[s] \in Holding => owner' = s
  BY <1>q, <1>t, <1>s DEF TypeOK, OwnerInv, Holding, PC
<1>4. conn.bg_search => conn.bg_init
  BY <1>t DEF HandshakeInv, ConnInv, Asked
<1>5. pc'[s] = "query" => ~conn.bg_search
  BY <1>q, <1>t, <1>s, <1>4 DEF TypeOK
<1>6. PlaceOk(s)'
  BY <1>2 DEF PlaceOk
<1>7. ~Resetting(s)
  BY <1>2 DEF Resetting
<1>8. pc'[s] = "ending" /\ ~is_error'[s] => \A h \in Own(s) : ~Writing(h)
  BY <1>q, <1>t, <1>s DEF TypeOK
<1> QED
  BY <1>q, <1>1, <1>2, <1>3, <1>5, <1>6, <1>7, <1>8, MoveInv

\* bg_conn_mutex could be locked: the search of the handler the session waits
\* for is over.  In a reset() another session may have the connection, and may
\* just have handed over a statement of its own.
LEMMA NotWorking ==
  ASSUME BgInv, NEW s \in Session, NEW h \in Own(s), MutexFree,
         pc[s] \notin {"starting", "sleep", "woken"}
  PROVE  ~hd[h].bgs_working
<1>t. OwnerInv /\ HandshakeInv /\ WorkInv /\ PlaceInv /\ TypeOK
  BY InvFacts
<1> SUFFICES ASSUME hd[h].bgs_working PROVE FALSE
  OBVIOUS
<1>1. h \in Handler /\ SessionOf[h] = s
  BY DEF Own
<1>2. Searching /\ Target = h
  BY <1>t, <1>1 DEF WorkInv
<1>3. bg = "signalled" /\ ~conn.bg_kill
  BY <1>2 DEF MutexFree, Searching, Asked, Answered
<1>4. owner \in Thread /\ pc[owner] = "sleep"
  BY <1>t, <1>3 DEF HandshakeInv, OwnerWaits
<1>5. call[owner] # "kill"
  BY <1>t, <1>3, <1>4 DEF HandshakeInv, WaitOk
<1>6. owner \in Session
  BY <1>t, <1>4, <1>5 DEF OwnerInv, Thread
<1>7. cur[owner] = h /\ h \in Own(owner)
  BY <1>t, <1>2, <1>4, <1>5, <1>6 DEF PlaceInv, PlaceOk
<1> QED
  BY <1>1, <1>4, <1>7 DEF Own

LEMMA BreakInv == ASSUME BgInv, NEW s \in Session, Break(s) \/ Await(s) PROVE BgInv'
<1>t. TypeOK /\ OwnerInv /\ HandshakeInv /\ PlaceInv
  BY InvFacts
<1>s. s \in Thread /\ s # Pool
  BY Threads
<1>q. /\ UNCHANGED <<owner, conn, bg, exec_sql, hd, jobs, executed, failed>>
      /\ UNCHANGED <<cur, call, is_error>> /\ MutexFree
      /\ \/ pc[s] = "break_query" /\ pc' = [pc EXCEPT ![s] = "query"]
         \/ pc[s] = "break_collect" /\ pc' = [pc EXCEPT ![s] = "collect"]
         \/ pc[s] = "break_reset" /\ pc' = [pc EXCEPT ![s] = "free"]
         \/ pc[s] = "await" /\ pc' = [pc EXCEPT ![s] = "advance"]
  BY DEF Break, Await, AfterBreak, Goto
<1>1. /\ Others(s) /\ pc' \in [Thread -> PC] /\ is_error' \in [Session -> BOOLEAN]
      /\ owner' \in Thread \cup {Pool}
      /\ cur' \in [Thread -> Handler \cup {NoHandler}] /\ call' \in [Thread -> Call]
  BY <1>q, <1>t, <1>s DEF Others, TypeOK, PC
<1>2. /\ pc[s] \in {"break_query", "break_collect", "break_reset", "await"}
      /\ pc'[s] \in {"query", "collect", "free", "advance"}
      /\ pc'[s] = "query" => pc[s] = "break_query"
      /\ pc'[s] = "collect" => pc[s] = "break_collect"
      /\ pc'[s] = "free" => pc[s] = "break_reset"
      /\ pc'[s] = "advance" => pc[s] = "await"
  BY <1>q, <1>t, <1>s DEF TypeOK
<1>3. pc'[s] \in Holding => owner' = s
  BY <1>q, <1>2, <1>t, <1>s DEF OwnerInv, Holding, PC
<1>4. pc'[s] = "query" => ~conn.bg_search
  <2>1. pc[s] = "break_query" => owner = s
    BY <1>t, <1>s DEF OwnerInv, Holding, PC
  <2>2. pc[s] = "break_query" => bg = "idle"
    BY <2>1, <1>q, OwnerFacts DEF MutexFree
  <2> QED
    BY <1>2, <1>t, <2>2 DEF HandshakeInv, ConnInv, Asked
<1>5. PlaceOk(s)'
  <2>1. PlaceOk(s)
    BY <1>t DEF PlaceInv
  <2>2. cur[s] \in Own(s) => ~hd[cur[s]].bgs_working
    BY <1>2, <1>q, NotWorking
  <2>3. pc[s] = "await" => cur[s] \in Own(s) /\ Seeking(s, cur[s])'
    BY <1>q, <1>2, <2>1, <2>2 DEF PlaceOk, Seeking, WithinBound
  <2> QED
    BY <1>q, <1>2, <2>1, <2>2, <2>3 DEF PlaceOk, Writing, Own
<1>6. Resetting(s) => Resetting(s)'
  BY <1>2, <1>q, <1>t, <1>s DEF Resetting, TypeOK
<1> QED
  BY <1>q, <1>1, <1>2, <1>3, <1>4, <1>5, <1>6, MoveInv

LEMMA GetBgResultInv ==
  ASSUME BgInv, NEW s \in Session, NEW h \in Handler, GetBgResult(s, h) PROVE BgInv'
<1>t. TypeOK
  BY InvFacts
<1>s. s \in Thread
  BY Threads
<1>q. /\ UNCHANGED <<owner, conn, bg, exec_sql, hd, jobs, executed, failed>>
      /\ UNCHANGED <<call, is_error>>
      /\ pc[s] = "run" /\ owner = s /\ h \in Own(s) /\ Writing(h)
      /\ cur' = [cur EXCEPT ![s] = h]
      /\ \/ pc' = [pc EXCEPT ![s] = "break_collect"]
         \/ pc' = [pc EXCEPT ![s] = "collect"] /\ ~(conn.bg_conn_working /\ Busy(h))
  BY DEF GetBgResult, Idle, Goto
<1>1. /\ Others(s) /\ pc' \in [Thread -> PC] /\ is_error' \in [Session -> BOOLEAN]
      /\ owner' \in Thread \cup {Pool}
      /\ cur' \in [Thread -> Handler \cup {NoHandler}] /\ call' \in [Thread -> Call]
  BY <1>q, <1>t, <1>s DEF Others, TypeOK, PC
<1>2. /\ pc'[s] \in {"break_collect", "collect"} /\ cur'[s] = h
      /\ pc'[s] = "collect" => ~(conn.bg_conn_working /\ Busy(h))
  BY <1>q, <1>t, <1>s DEF TypeOK
<1>3. pc'[s] = "collect" => ~hd[h].bgs_working
  BY <1>q, <1>2, OwnerFacts DEF Busy
<1>4. PlaceOk(s)'
  BY <1>q, <1>2, <1>3 DEF PlaceOk, Writing, Own
<1> QED
  BY <1>q, <1>1, <1>2, <1>4, MoveInv DEF Resetting

LEMMA EndResetInv == ASSUME BgInv, NEW s \in Session, EndReset(s) PROVE BgInv'
<1>t. TypeOK
  BY InvFacts
<1>s. s \in Thread
  BY Threads
<1>1. /\ Others(s) /\ pc' \in [Thread -> PC] /\ is_error' \in [Session -> BOOLEAN]
      /\ owner' \in Thread \cup {Pool}
      /\ cur' \in [Thread -> Handler \cup {NoHandler}] /\ call' \in [Thread -> Call]
  BY <1>t, <1>s DEF EndReset, Goto, Others, TypeOK, PC, Call
<1>2. pc[s] = "reset" /\ pc'[s] = "run"
  BY <1>t, <1>s DEF EndReset, Goto, TypeOK
<1>3. PlaceOk(s)'
  BY <1>2 DEF PlaceOk
<1> QED
  BY <1>1, <1>2, <1>3, MoveInv DEF EndReset, Holding
-----------------------------------------------------------------------------
(***************************************************************************)
(* The steps of a session that change one of its handlers and leave the    *)
(* connection and the thread alone.                                        *)
(***************************************************************************)
\* Of all handlers only h changes.
OnlyHandler(h) ==
  \A g \in Handler : g # h => hd'[g] = hd[g] /\ failed'[g] = failed[g]

LEMMA NewRecord ==
  ASSUME hd \in [Handler -> HandlerRecord], NEW h \in Handler, NEW r \in HandlerRecord,
         hd' = [hd EXCEPT ![h] = r]
  PROVE  /\ hd' \in [Handler -> HandlerRecord] /\ hd'[h] = r
         /\ \A g \in Handler : g # h => hd'[g] = hd[g]
OBVIOUS

LEMMA HandlerInv ==
  ASSUME BgInv, NEW s \in Session, NEW h \in Own(s), Others(s), OnlyHandler(h),
         UNCHANGED <<owner, conn, bg, exec_sql, jobs, executed>>,
         /\ pc' \in [Thread -> PC] /\ cur' \in [Thread -> Handler \cup {NoHandler}]
         /\ call' \in [Thread -> Call] /\ is_error' \in [Session -> BOOLEAN]
         /\ hd' \in [Handler -> HandlerRecord] /\ failed' \in [Handler -> SUBSET Job],
         pc'[s] \in Holding => owner = s,
         pc[s] \notin {"starting", "sleep", "woken"},
         pc[s] \in {"create", "post"} => cur[s] = h,
         pc'[s] \notin {"starting", "sleep", "woken"},
         pc'[s] = "create" => bg = "none" /\ ~conn.bg_kill,
         pc'[s] # "query",
         hd'[h].bgs_working = hd[h].bgs_working,
         hd[h].bgs_working =>
           /\ hd'[h].sql_type = hd[h].sql_type
           /\ \/ hd'[h].sql = hd[h].sql
              \/ hd[h].sql_type = "insert" /\ bg \notin {"signalled", "woken"},
         Resetting(s) => Resetting(s)',
         PlaceOk(s)', ResultOk(h)', FailOk(h)',
         \A g \in Own(s) : g # h =>
           /\ Writing(h)' => hd[g].sql_type = "none"
           /\ hd'[h].sql_type # "none" => ~Writing(g)
           /\ pc'[s] = "ending" /\ ~is_error'[s] => ~Writing(g)
  PROVE  BgInv'
<1>t. /\ TypeOK /\ OwnerInv /\ HandshakeInv /\ WorkInv
      /\ PlaceInv /\ OrderInv /\ ResultInv /\ FailInv
  BY InvFacts
<1>h. h \in Handler /\ SessionOf[h] = s
  BY DEF Own
<1>o. OwnOnly(s)
  BY <1>h DEF OwnOnly, OnlyHandler
<1>1. TypeOK'
  BY <1>t DEF TypeOK
<1>2. OwnerInv' /\ HandshakeInv'
  BY <1>t, OwnerStep, HandshakeMove
<1>3. WorkInv'
  BY <1>t, <1>h, WorkSame DEF OnlyHandler
<1>4. OrderInv'
  BY <1>t, <1>h, OrderSame DEF OnlyHandler
<1>5. PlaceInv'
  BY <1>t, <1>o, PlaceStep
<1>6. ResultInv'
  <2> SUFFICES ASSUME NEW g \in Own(s), g # h PROVE ResultOk(g)'
    BY <1>t, <1>o, ResultStep
  <2>1. g \in Handler /\ SessionOf[g] = s /\ ResultOk(g) /\ hd'[g] = hd[g]
    BY <1>t DEF Own, ResultInv, OnlyHandler
  <2>2. ~AboutTo(g, "read") /\ ~AboutTo(g, "next")
    BY <2>1 DEF AboutTo
  <2>3. HasAnswer(g)' = HasAnswer(g)
    BY <2>1 DEF HasAnswer
  <2>4. hd[g].sql_type = "select" => SelectOk(g)'
    BY <2>1, <2>2, <2>3 DEF ResultOk, SelectOk
  <2> QED
    BY <2>1, <2>4 DEF ResultOk, Writing, ResetHandler
<1>7. FailInv'
  <2>1. ASSUME NEW g \in Own(s), g # h PROVE FailOk(g)'
    <3>1. g \in Handler /\ SessionOf[g] = s /\ FailOk(g) /\ hd'[g] = hd[g]
          /\ failed'[g] = failed[g]
      BY <1>t, <2>1 DEF Own, FailInv, OnlyHandler
    <3>2. Writing(g)' = Writing(g)
      BY <3>1 DEF Writing
    <3>3. ~Resetting(s)' => ~Resetting(s)
      OBVIOUS
    <3> QED
      BY <2>1, <3>1, <3>2, <3>3 DEF FailOk
  <2>2. \A f, g \in Own(s) : f # g /\ Writing(g)' => hd'[f].sql_type = "none"
    BY <1>t, <1>h DEF FailInv, OneWriter, Writing, Own, OnlyHandler
  <2> QED
    BY <1>t, <1>o, <2>1, <2>2, FailStep
<1> QED
  BY <1>1, <1>2, <1>3, <1>4, <1>5, <1>6, <1>7 DEF BgInv

\* pre_index_read_map, pre_rnd_next, ...
LEMMA StartReadInv ==
  ASSUME BgInv, NEW s \in Session, NEW h \in Handler, StartRead(s, h) PROVE BgInv'
<1>t. TypeOK /\ ResultInv /\ FailInv
  BY InvFacts
<1>s. s \in Thread
  BY Threads
<1>q0. PICK quick3 \in BOOLEAN :
        hd' = [hd EXCEPT ![h].sql_type = "select", ![h].bgs_phase = 1,
                         ![h].use_pre_call = TRUE, ![h].quick3 = quick3]
  BY DEF StartRead, QuickMode3
<1>q. /\ UNCHANGED <<owner, conn, bg, exec_sql, jobs, executed, failed, is_error>>
      /\ pc[s] = "run" /\ owner = s /\ h \in Own(s) /\ jobs < MaxJob
      /\ hd[h].sql_type = "none" /\ SessionOf[h] = s
      /\ \A g \in Own(s) : ~Writing(g)
      /\ hd' = [hd EXCEPT ![h].sql_type = "select", ![h].bgs_phase = 1,
                          ![h].use_pre_call = TRUE, ![h].quick3 = quick3]
      /\ cur' = [cur EXCEPT ![s] = h] /\ call' = [call EXCEPT ![s] = "read"]
      /\ pc' = [pc EXCEPT ![s] = IF conn.bg_init THEN "post" ELSE "create"]
  BY <1>q0 DEF StartRead, Idle, Goto, Begin, Own
<1>f. hd[h] = ResetHandler(hd[h].bgs_error)
  BY <1>q, <1>t DEF ResultInv, ResultOk
<1>g. /\ hd'[h].sql_type = "select" /\ hd'[h].bgs_phase = 1 /\ hd'[h].use_pre_call
      /\ ~hd'[h].bgs_working /\ ~hd[h].bgs_working /\ ~hd'[h].finish_flg /\ ~hd'[h].ended
  BY <1>q, <1>f, <1>t DEF TypeOK, ResetHandler, HandlerRecord
<1>1. /\ Others(s) /\ OnlyHandler(h) /\ pc' \in [Thread -> PC]
      /\ cur' \in [Thread -> Handler \cup {NoHandler}] /\ call' \in [Thread -> Call]
      /\ is_error' \in [Session -> BOOLEAN] /\ failed' \in [Handler -> SUBSET Job]
  BY <1>q, <1>t, <1>s DEF Others, OnlyHandler, TypeOK, PC, Call
<1>2. hd' \in [Handler -> HandlerRecord]
  <2> DEFINE r1 == [hd[h] EXCEPT !.sql_type = "select"]
             r2 == [r1 EXCEPT !.bgs_phase = 1]
             r3 == [r2 EXCEPT !.use_pre_call = TRUE]
             r  == [r3 EXCEPT !.quick3 = quick3]
  <2>1. r1 \in HandlerRecord
    BY <1>t DEF TypeOK, HandlerRecord
  <2>2. r \in HandlerRecord
    <3> HIDE DEF r1
    <3>1. r2 \in HandlerRecord
      BY <2>1 DEF HandlerRecord
    <3> HIDE DEF r2
    <3>2. r3 \in HandlerRecord
      BY <3>1 DEF HandlerRecord
    <3> HIDE DEF r3
    <3> QED
      BY <3>2 DEF HandlerRecord
  <2>3. hd' = [hd EXCEPT ![h] = r]
    BY <1>q, <1>t DEF TypeOK
  <2> HIDE DEF r, r1, r2, r3
  <2> QED
    BY <2>2, <2>3, <1>t DEF TypeOK
<1>3. /\ pc'[s] \in {"post", "create"} /\ cur'[s] = h /\ call'[s] = "read"
      /\ pc'[s] = "create" => ~conn.bg_init
  BY <1>q, <1>t, <1>s DEF TypeOK
<1>4. pc'[s] = "create" => bg = "none" /\ ~conn.bg_kill
  BY <1>q, <1>3, OwnerFacts
<1>5. PlaceOk(s)'
  BY <1>q, <1>g, <1>3 DEF PlaceOk, Preparing, Own
<1>6. ResultOk(h)'
  <2>1. AboutTo(h, "read")'
    BY <1>q, <1>3 DEF AboutTo
  <2> QED
    BY <1>g, <2>1 DEF ResultOk, SelectOk, Writing
<1>7. FailOk(h)'
  BY <1>q, <1>g, <1>t DEF FailInv, FailOk, Writing
<1>8. \A g \in Own(s) : ~Writing(h)' /\ ~Writing(g)
  BY <1>q, <1>g DEF Writing
<1> QED
  BY <1>q, <1>g, <1>1, <1>2, <1>3, <1>4, <1>5, <1>6, <1>7, <1>8, HandlerInv DEF Resetting

\* spider_db_bulk_insert, and the parallel UPDATE and DELETE.
LEMMA StartWriteInv ==
  ASSUME BgInv, NEW s \in Session, NEW h \in Handler, NEW type \in {"insert", "update"},
         StartWrite(s, h, type)
  PROVE  BgInv'
<1>t. TypeOK /\ ResultInv /\ FailInv
  BY InvFacts
<1>s. s \in Thread
  BY Threads
<1>q. /\ UNCHANGED <<owner, conn, bg, exec_sql, jobs, executed, failed, is_error>>
      /\ pc[s] = "run" /\ owner = s /\ h \in Own(s) /\ jobs < MaxJob /\ SessionOf[h] = s
      /\ hd[h].sql_type = "none" \/ (hd[h].sql_type = "insert" /\ type = "insert")
      /\ \A g \in Own(s) \ {h} : hd[g].sql_type = "none"
      /\ hd' = [hd EXCEPT ![h].sql_type = type, ![h].bgs_phase = 1, ![h].sql = Garbage]
      /\ cur' = [cur EXCEPT ![s] = h] /\ call' = [call EXCEPT ![s] = type]
      /\ pc' = [pc EXCEPT ![s] = IF conn.bg_init THEN "post" ELSE "create"]
  BY DEF StartWrite, Idle, Goto, Begin, Own
<1>f. /\ hd[h].sql_type = "none" => hd[h] = ResetHandler(hd[h].bgs_error)
      /\ ~hd[h].use_pre_call /\ ~hd[h].ended /\ ~hd[h].unread /\ hd[h].ahead = 0
      /\ hd[h].sql_type = "none" => ~hd[h].bgs_working
  BY <1>q, <1>t DEF ResultInv, ResultOk, ResetHandler, Writing
<1>g. /\ hd'[h].sql_type = type /\ hd'[h].bgs_phase = 1 /\ ~hd'[h].use_pre_call
      /\ hd'[h].bgs_working = hd[h].bgs_working /\ ~hd'[h].ended /\ ~hd'[h].unread
      /\ hd'[h].ahead = 0 /\ hd'[h].bgs_error = hd[h].bgs_error
  BY <1>q, <1>f, <1>t DEF TypeOK, HandlerRecord
<1>1. /\ Others(s) /\ OnlyHandler(h) /\ pc' \in [Thread -> PC]
      /\ cur' \in [Thread -> Handler \cup {NoHandler}] /\ call' \in [Thread -> Call]
      /\ is_error' \in [Session -> BOOLEAN] /\ failed' \in [Handler -> SUBSET Job]
  BY <1>q, <1>t, <1>s DEF Others, OnlyHandler, TypeOK, PC, Call
<1>2. hd' \in [Handler -> HandlerRecord]
  <2> DEFINE r1 == [hd[h] EXCEPT !.sql_type = type]
             r2 == [r1 EXCEPT !.bgs_phase = 1]
             r  == [r2 EXCEPT !.sql = Garbage]
  <2>1. r1 \in HandlerRecord
    BY <1>t DEF TypeOK, HandlerRecord
  <2>2. r \in HandlerRecord
    <3> HIDE DEF r1
    <3>1. r2 \in HandlerRecord
      BY <2>1 DEF HandlerRecord
    <3> HIDE DEF r2
    <3> QED
      BY <3>1 DEF HandlerRecord, Garbage
  <2>3. hd' = [hd EXCEPT ![h] = r]
    BY <1>q, <1>t DEF TypeOK
  <2> HIDE DEF r, r1, r2
  <2> QED
    BY <2>2, <2>3, <1>t DEF TypeOK
<1>3. /\ pc'[s] \in {"post", "create"} /\ cur'[s] = h /\ call'[s] = type
      /\ pc'[s] = "create" => ~conn.bg_init
  BY <1>q, <1>t, <1>s DEF TypeOK
<1>4. /\ pc'[s] = "create" => bg = "none" /\ ~conn.bg_kill
      /\ bg \notin {"signalled", "woken"}
  BY <1>q, <1>3, OwnerFacts
<1>5. PlaceOk(s)'
  BY <1>q, <1>g, <1>3 DEF PlaceOk, Preparing, Own, Writing
<1>6. ResultOk(h)'
  BY <1>g DEF ResultOk, Writing
<1>7. FailOk(h)'
  <2>1. FailOk(h)
    BY <1>t DEF FailInv
  <2>2. jobs \in failed[h] => hd[h].sql_type = "insert"
    BY <1>q, <2>1 DEF FailOk
  <2> QED
    BY <1>q, <1>g, <1>3, <2>1, <2>2 DEF FailOk, Writing, Resetting
<1>8. \A g \in Own(s) : g # h => hd[g].sql_type = "none" /\ ~Writing(g)
  BY <1>q DEF Writing
<1> QED
  BY <1>q, <1>f, <1>g, <1>1, <1>2, <1>3, <1>4, <1>5, <1>6, <1>7, <1>8, HandlerInv
  DEF Resetting

\* The search is over, or its first result is there: the scan goes on without
\* another one.  In Post and in PreNext this clears use_pre_call.
PreCallOver(s, h) ==
  /\ hd' = [hd EXCEPT ![h].use_pre_call = @ /\ hd[h].bgs_error = "error"]
  /\ pc' = [pc EXCEPT ![s] = "run"]
  /\ is_error' = [is_error EXCEPT ![s] = @ \/ hd[h].bgs_error = "error"]

\* What PreCallOver leaves of the results.
LEMMA PreCallOverOk ==
  ASSUME BgInv, NEW s \in Session, NEW h \in Own(s), PreCallOver(s, h),
         UNCHANGED <<owner, conn, bg, exec_sql, jobs, executed, failed>>,
         hd[h].sql_type = "select", ~hd[h].bgs_working, hd[h].use_pre_call,
         hd[h].finish_flg \/ hd[h].bgs_error # "none",
         ~AboutTo(h, "read"), ~AboutTo(h, "next")
  PROVE  /\ hd' \in [Handler -> HandlerRecord] /\ OnlyHandler(h)
         /\ hd'[h].bgs_working = hd[h].bgs_working
         /\ hd'[h].sql_type = hd[h].sql_type /\ hd'[h].sql = hd[h].sql
         /\ pc'[s] = "run" /\ PlaceOk(s)' /\ ResultOk(h)' /\ FailOk(h)'
<1>t. TypeOK /\ ResultInv /\ FailInv
  BY InvFacts
<1>s. s \in Thread /\ h \in Handler /\ SessionOf[h] = s
  BY Threads DEF Own
<1>1. pc'[s] = "run"
  BY <1>s, <1>t DEF PreCallOver, TypeOK
<1>2. hd' \in [Handler -> HandlerRecord] /\ OnlyHandler(h)
  <2> DEFINE r == [hd[h] EXCEPT !.use_pre_call = @ /\ hd[h].bgs_error = "error"]
  <2>0. r \in HandlerRecord
    BY <1>s, <1>t DEF TypeOK, HandlerRecord
  <2>1. hd' \in [Handler -> HandlerRecord]
    BY <1>s, <1>t, <2>0, NewRecord DEF PreCallOver, TypeOK
  <2> QED
    BY <2>1, <1>t DEF PreCallOver, OnlyHandler, TypeOK
<1>g. /\ hd'[h].sql_type = "select" /\ hd'[h].bgs_phase = hd[h].bgs_phase
      /\ hd'[h].use_pre_call = (hd[h].bgs_error = "error")
      /\ hd'[h].bgs_working = hd[h].bgs_working /\ hd'[h].bgs_error = hd[h].bgs_error
      /\ hd'[h].finish_flg = hd[h].finish_flg /\ hd'[h].ahead = hd[h].ahead
      /\ hd'[h].unread = hd[h].unread /\ hd'[h].ended = hd[h].ended
      /\ hd'[h].quick3 = hd[h].quick3
      /\ hd'[h].sql = hd[h].sql
  BY <1>s, <1>t DEF PreCallOver, TypeOK, HandlerRecord
<1>3. PlaceOk(s)'
  BY <1>1 DEF PlaceOk
<1>4. ResultOk(h)'
  <2>1. SelectOk(h)
    BY <1>s, <1>t DEF ResultInv, ResultOk
  <2>2. HasAnswer(h) /\ HasAnswer(h)'
    BY <1>g DEF HasAnswer
  <2>3. /\ hd[h].bgs_error = "eof" => hd[h].finish_flg
        /\ hd[h].bgs_error \in {"none", "eof", "error"}
    BY <1>s, <1>t, <2>1, <2>2 DEF SelectOk, TypeOK, HandlerRecord
  <2>4. ~hd[h].ended
    BY <2>1 DEF SelectOk
  <2>5. SelectOk(h)'
    BY <1>g, <2>1, <2>2, <2>3, <2>4 DEF SelectOk
  <2> QED
    BY <1>g, <2>5 DEF ResultOk, Writing
<1>5. FailOk(h)'
  BY <1>s, <1>t, <1>g DEF FailInv, FailOk, Writing
<1> QED
  BY <1>1, <1>2, <1>g, <1>3, <1>4, <1>5

\* spider_bg_all_conn_pre_next.
LEMMA PreNextInv ==
  ASSUME BgInv, NEW s \in Session, NEW h \in Handler, PreNext(s, h) PROVE BgInv'
<1>t. TypeOK /\ ResultInv /\ FailInv
  BY InvFacts
<1>s. s \in Thread
  BY Threads
<1>q. /\ UNCHANGED <<owner, conn, bg, exec_sql, jobs, executed, failed>>
      /\ pc[s] = "run" /\ owner = s /\ h \in Own(s) /\ WithinBound(h) /\ SessionOf[h] = s
      /\ hd[h].use_pre_call
  BY DEF PreNext, Idle, Own
<1>f. hd[h].sql_type = "select" /\ ~hd[h].ended
  BY <1>q, <1>t DEF ResultInv, ResultOk, SelectOk, Writing, ResetHandler, TypeOK, HandlerRecord
<1>w. \A g \in Own(s) : ~Writing(g)
  BY <1>q, <1>f, <1>t DEF FailInv, OneWriter, Own, Writing
<1>1. CASE Begin(s, h, "pre_next") /\ UNCHANGED <<hd, is_error>>
  <2>q. /\ cur' = [cur EXCEPT ![s] = h] /\ call' = [call EXCEPT ![s] = "pre_next"]
        /\ pc' = [pc EXCEPT ![s] = IF conn.bg_init THEN "post" ELSE "create"]
    BY <1>1 DEF Begin, Goto
  <2>1. /\ Others(s) /\ pc' \in [Thread -> PC] /\ is_error' \in [Session -> BOOLEAN]
        /\ owner' \in Thread \cup {Pool}
        /\ cur' \in [Thread -> Handler \cup {NoHandler}] /\ call' \in [Thread -> Call]
    BY <1>1, <1>q, <2>q, <1>t, <1>s DEF Others, TypeOK, PC, Call
  <2>2. /\ pc'[s] \in {"post", "create"} /\ cur'[s] = h /\ call'[s] = "pre_next"
        /\ pc'[s] = "create" => ~conn.bg_init
    BY <2>q, <1>t, <1>s DEF TypeOK
  <2>3. pc'[s] = "create" => bg = "none" /\ ~conn.bg_kill
    BY <1>q, <2>2, OwnerFacts
  <2>4. PlaceOk(s)'
    BY <1>1, <1>q, <1>f, <2>2 DEF PlaceOk, Preparing, Own, WithinBound
  <2> QED
    BY <1>1, <1>q, <2>1, <2>2, <2>3, <2>4, MoveInv DEF Resetting
<1>2. CASE ~Begin(s, h, "pre_next") \/ ~UNCHANGED <<hd, is_error>>
  <2>q. /\ ~hd[h].bgs_working /\ hd[h].finish_flg /\ PreCallOver(s, h)
        /\ UNCHANGED <<cur, call>>
    BY <1>2 DEF PreNext, PreCallOver, Return, Goto
  <2>1. ~AboutTo(h, "read") /\ ~AboutTo(h, "next")
    BY <1>q DEF AboutTo
  <2>2. /\ Others(s) /\ pc' \in [Thread -> PC] /\ is_error' \in [Session -> BOOLEAN]
        /\ cur' \in [Thread -> Handler \cup {NoHandler}] /\ call' \in [Thread -> Call]
        /\ failed' \in [Handler -> SUBSET Job]
    BY <1>q, <2>q, <1>t, <1>s DEF PreCallOver, Others, TypeOK, PC
  <2>3. /\ hd' \in [Handler -> HandlerRecord] /\ OnlyHandler(h)
        /\ hd'[h].bgs_working = hd[h].bgs_working
        /\ hd'[h].sql_type = hd[h].sql_type /\ hd'[h].sql = hd[h].sql
        /\ pc'[s] = "run" /\ PlaceOk(s)' /\ ResultOk(h)' /\ FailOk(h)'
    BY <1>q, <1>f, <2>q, <2>1, PreCallOverOk
  <2>4. ~Writing(h)'
    BY <1>f, <2>3 DEF Writing
  <2> QED
    BY <1>q, <1>w, <2>q, <2>2, <2>3, <2>4, HandlerInv DEF Resetting, Holding
<1> QED
  BY <1>1, <1>2

\* spider_db_fetch.
LEMMA FetchInv ==
  ASSUME BgInv, NEW s \in Session, NEW h \in Handler, Fetch(s, h) PROVE BgInv'
<1>t. TypeOK /\ ResultInv /\ FailInv /\ OwnerInv
  BY InvFacts
<1>s. s \in Thread
  BY Threads
<1> DEFINE early == hd[h].quick3 /\ hd[h].bgs_error # "none"
           rows  == [hd[h] EXCEPT !.unread = FALSE]
           end   == [hd[h] EXCEPT !.ended = hd[h].bgs_error = "eof"]
<1>q. /\ UNCHANGED <<owner, conn, bg, exec_sql, cur, call>>
      /\ UNCHANGED <<jobs, executed, failed>>
      /\ pc[s] = "run" /\ owner = s /\ h \in Own(s) /\ SessionOf[h] = s
      /\ hd[h].sql_type = "select" /\ ~hd[h].use_pre_call /\ ~hd[h].ended
  BY DEF Fetch, Scanning, Idle, Own
<1>c. \/ /\ early /\ hd' = [hd EXCEPT ![h] = end] /\ pc' = [pc EXCEPT ![s] = "run"]
         /\ is_error' = [is_error EXCEPT ![s] = @ \/ hd[h].bgs_error = "error"]
      \/ ~early /\ hd' = [hd EXCEPT ![h] = rows] /\ UNCHANGED <<pc, is_error>>
  BY <1>t DEF Fetch, EndsEarly, Return, Goto, TypeOK
<1>r. end \in HandlerRecord /\ rows \in HandlerRecord
  <2>1. hd[h] \in HandlerRecord /\ (hd[h].bgs_error = "eof") \in BOOLEAN
    BY <1>t DEF TypeOK
  <2> QED
    BY <2>1 DEF HandlerRecord
<1>p. pc'[s] = "run" /\ pc' \in [Thread -> PC] /\ is_error' \in [Session -> BOOLEAN]
  BY <1>c, <1>q, <1>t, <1>s DEF TypeOK, PC
<1>g. /\ hd'[h].sql_type = "select" /\ hd'[h].bgs_phase = hd[h].bgs_phase
      /\ hd'[h].use_pre_call = hd[h].use_pre_call
      /\ hd'[h].bgs_working = hd[h].bgs_working /\ hd'[h].bgs_error = hd[h].bgs_error
      /\ hd'[h].finish_flg = hd[h].finish_flg /\ hd'[h].ahead = hd[h].ahead
      /\ hd'[h].ended => hd'[h].quick3
      /\ hd'[h].sql = hd[h].sql
  BY <1>q, <1>c, <1>t DEF TypeOK, HandlerRecord
<1>o. \A g \in Handler \ {h} : hd'[g] = hd[g]
  BY <1>c, <1>t DEF TypeOK
<1> HIDE DEF early, rows, end
<1>1. hd' \in [Handler -> HandlerRecord] /\ OnlyHandler(h) /\ Others(s)
  <2>1. hd' \in [Handler -> HandlerRecord]
    BY <1>c, <1>t, <1>r, NewRecord DEF TypeOK
  <2>2. Others(s)
    BY <1>q, <1>c, <1>t DEF Others, TypeOK
  <2> QED
    BY <2>1, <2>2, <1>o, <1>q DEF OnlyHandler
<1>2. PlaceOk(s)'
  BY <1>p DEF PlaceOk
<1>3. ResultOk(h)'
  <2>1. SelectOk(h)
    BY <1>q, <1>t DEF ResultInv, ResultOk
  <2>2. HasAnswer(h)' = HasAnswer(h) /\ Resetting(s)' = Resetting(s)
        /\ \A w : AboutTo(h, w)' = AboutTo(h, w)
    BY <1>q, <1>p, <1>g DEF HasAnswer, Resetting, AboutTo
  <2>3. SelectOk(h)'
    BY <1>q, <1>g, <2>1, <2>2 DEF SelectOk
  <2> QED
    BY <1>g, <2>3 DEF ResultOk, Writing
<1>4. FailOk(h)'
  BY <1>q, <1>p, <1>t, <1>g DEF FailInv, FailOk, Writing
<1>5. ~Writing(h)' /\ \A g \in Own(s) : ~Writing(g)
  BY <1>q, <1>g, <1>t DEF FailInv, OneWriter, Own, Writing
<1>6. cur' \in [Thread -> Handler \cup {NoHandler}] /\ call' \in [Thread -> Call]
      /\ failed' \in [Handler -> SUBSET Job]
  BY <1>q, <1>t DEF TypeOK
<1> QED
  BY <1>q, <1>p, <1>g, <1>1, <1>2, <1>3, <1>4, <1>5, <1>6, HandlerInv DEF Resetting, Holding

\* spider_db_seek_next.
LEMMA SeekNextInv ==
  ASSUME BgInv, NEW s \in Session, NEW h \in Handler, SeekNext(s, h) PROVE BgInv'
<1>t. TypeOK /\ ResultInv /\ FailInv /\ OwnerInv
  BY InvFacts
<1>s. s \in Thread
  BY Threads
<1>q. /\ UNCHANGED <<owner, conn, bg, exec_sql, is_error, jobs, executed, failed>>
      /\ pc[s] = "run" /\ owner = s /\ h \in Own(s) /\ SessionOf[h] = s /\ WithinBound(h)
      /\ hd[h].sql_type = "select" /\ ~hd[h].use_pre_call /\ ~hd[h].ended /\ ~hd[h].unread
  BY DEF SeekNext, Scanning, Idle, Own
<1>f. SelectOk(h) /\ ~Resetting(s) /\ ~AboutTo(h, "read") /\ ~AboutTo(h, "next")
  BY <1>q, <1>t DEF ResultInv, ResultOk, Resetting, AboutTo
<1>b. hd[h].bgs_working => bg \in Asked \cup Answered
  BY <1>q, OwnerFacts
<1>v. hd[h].ahead \in 0..1 /\ hd[h].bgs_phase \in 0..3 /\ hd[h].bgs_working \in BOOLEAN
  BY <1>t DEF TypeOK, HandlerRecord
<1>1. CASE hd[h].finish_flg /\ hd[h].ahead = 0
  <2>q. UNCHANGED <<pc, cur, call>> /\ hd' = [hd EXCEPT ![h].ended = TRUE]
    BY <1>1 DEF SeekNext
  <2> DEFINE r == [hd[h] EXCEPT !.ended = TRUE]
  <2>0. r \in HandlerRecord
    BY <1>t DEF TypeOK, HandlerRecord
  <2>1. hd' \in [Handler -> HandlerRecord] /\ OnlyHandler(h) /\ Others(s)
    BY <1>q, <2>q, <1>t, <2>0, NewRecord DEF TypeOK, OnlyHandler, Others
  <2>g. /\ hd'[h].sql_type = "select" /\ hd'[h].bgs_phase = hd[h].bgs_phase
        /\ hd'[h].use_pre_call = hd[h].use_pre_call
        /\ hd'[h].bgs_working = hd[h].bgs_working /\ hd'[h].bgs_error = hd[h].bgs_error
        /\ hd'[h].finish_flg = hd[h].finish_flg /\ hd'[h].ahead = hd[h].ahead
        /\ hd'[h].unread = hd[h].unread /\ hd'[h].ended /\ hd'[h].quick3 = hd[h].quick3
        /\ hd'[h].sql = hd[h].sql
    BY <1>q, <2>q, <1>t DEF TypeOK, HandlerRecord
  <2>2. ~hd[h].bgs_working
    BY <1>1, <1>q, <1>f, <1>b DEF SelectOk
  <2>3. ResultOk(h)'
    <3>1. HasAnswer(h)' = HasAnswer(h) /\ Resetting(s)' = Resetting(s)
          /\ \A w : AboutTo(h, w)' = AboutTo(h, w)
      BY <1>q, <2>q, <2>g DEF HasAnswer, Resetting, AboutTo
    <3>2. SelectOk(h)'
      BY <1>1, <1>q, <1>f, <2>g, <2>2, <3>1 DEF SelectOk
    <3> QED
      BY <2>g, <3>2 DEF ResultOk, Writing
  <2>4. PlaceOk(s)'
    BY <1>q, <2>q DEF PlaceOk
  <2>5. FailOk(h)'
    BY <1>q, <2>q, <1>t, <2>g DEF FailInv, FailOk, Writing
  <2>6. ~Writing(h)' /\ \A g \in Own(s) : ~Writing(g)
    BY <1>q, <2>g, <1>t DEF FailInv, OneWriter, Own, Writing
  <2>7. pc' \in [Thread -> PC] /\ cur' \in [Thread -> Handler \cup {NoHandler}]
        /\ call' \in [Thread -> Call] /\ is_error' \in [Session -> BOOLEAN]
        /\ failed' \in [Handler -> SUBSET Job]
    BY <1>q, <2>q, <1>t DEF TypeOK
  <2> QED
    BY <1>q, <2>q, <2>g, <2>1, <2>3, <2>4, <2>5, <2>6, <2>7, HandlerInv
    DEF Resetting, Holding
<1>2. CASE ~(hd[h].finish_flg /\ hd[h].ahead = 0)
  <2>q. /\ cur' = [cur EXCEPT ![s] = h] /\ call' = [call EXCEPT ![s] = "next"]
        /\ pc' = [pc EXCEPT ![s] = IF hd[h].bgs_working THEN "await" ELSE "advance"]
        /\ UNCHANGED hd
    BY <1>2 DEF SeekNext, Goto
  <2>1. /\ Others(s) /\ pc' \in [Thread -> PC] /\ is_error' \in [Session -> BOOLEAN]
        /\ owner' \in Thread \cup {Pool}
        /\ cur' \in [Thread -> Handler \cup {NoHandler}] /\ call' \in [Thread -> Call]
    BY <1>q, <2>q, <1>t, <1>s DEF Others, TypeOK, PC, Call
  <2>2. /\ pc'[s] \in {"await", "advance"} /\ cur'[s] = h /\ call'[s] = "next"
        /\ pc'[s] = "advance" => ~hd[h].bgs_working
    BY <2>q, <1>t, <1>s DEF TypeOK
  <2>3. ~hd[h].bgs_working /\ hd[h].bgs_error = "none" => hd[h].ahead = 1
    BY <1>2, <1>q, <1>f, <1>v DEF SelectOk, HasAnswer
  <2>4. PlaceOk(s)'
    BY <1>q, <2>q, <2>2, <2>3 DEF PlaceOk, Seeking, Own, WithinBound
  <2> QED
    BY <1>q, <2>q, <2>1, <2>2, <2>4, MoveInv DEF Resetting
<1> QED
  BY <1>1, <1>2

\* The current result becomes the next one.
LEMMA AdvanceInv == ASSUME BgInv, NEW s \in Session, Advance(s) PROVE BgInv'
<1>t. TypeOK /\ ResultInv /\ FailInv /\ OwnerInv /\ PlaceInv
  BY InvFacts
<1>s. s \in Thread
  BY Threads
<1>p. PICK h : h = cur[s]
  OBVIOUS
<1>q. /\ UNCHANGED <<owner, conn, bg, exec_sql, cur, call, jobs, executed, failed>>
      /\ pc[s] = "advance"
  BY DEF Advance
<1>f. /\ h \in Own(s) /\ h \in Handler /\ SessionOf[h] = s /\ owner = s
      /\ call[s] = "next" /\ hd[h].sql_type = "select" /\ ~hd[h].use_pre_call
      /\ ~hd[h].unread /\ ~hd[h].bgs_working /\ WithinBound(h) /\ ~hd[h].ended
      /\ SelectOk(h) /\ ~Resetting(s) /\ ~AboutTo(h, "read") /\ ~AboutTo(h, "next")
  BY <1>p, <1>q, <1>s, <1>t DEF PlaceInv, PlaceOk, Seeking, Own, OwnerInv, Holding, PC, ResultInv,
       ResultOk, Resetting, AboutTo
<1>w. \A g \in Own(s) : ~Writing(g)
  BY <1>f, <1>t DEF FailInv, OneWriter, Own, Writing
<1>1. CASE hd[h].bgs_error = "error"
  <2>q. /\ pc' = [pc EXCEPT ![s] = "run"] /\ UNCHANGED hd
        /\ is_error' = [is_error EXCEPT ![s] = @ \/ TRUE]
    BY <1>p, <1>1 DEF Advance, Return, Goto
  <2>1. /\ Others(s) /\ pc' \in [Thread -> PC] /\ is_error' \in [Session -> BOOLEAN]
        /\ owner' \in Thread \cup {Pool} /\ pc'[s] = "run"
        /\ cur' \in [Thread -> Handler \cup {NoHandler}] /\ call' \in [Thread -> Call]
    BY <1>q, <2>q, <1>t, <1>s DEF Others, TypeOK, PC
  <2>2. PlaceOk(s)'
    BY <2>1 DEF PlaceOk
  <2> QED
    BY <1>q, <1>f, <2>q, <2>1, <2>2, MoveInv DEF Holding
<1>2. CASE hd[h].bgs_error # "error"
  <2>q. \/ /\ hd[h].bgs_error = "eof"
           /\ hd' = [hd EXCEPT ![h].ahead = 0, ![h].ended = TRUE]
           /\ pc' = [pc EXCEPT ![s] = "run"]
           /\ is_error' = [is_error EXCEPT ![s] = @ \/ FALSE]
        \/ /\ hd[h].bgs_error = "none"
           /\ hd' = [hd EXCEPT ![h].ahead = 0, ![h].unread = TRUE]
           /\ pc' = [pc EXCEPT ![s] = IF hd[h].finish_flg THEN "run" ELSE "post"]
           /\ UNCHANGED is_error
    BY <1>p, <1>2 DEF Advance, Return, Goto
  <2>1. /\ pc' \in [Thread -> PC] /\ is_error' \in [Session -> BOOLEAN]
        /\ cur' \in [Thread -> Handler \cup {NoHandler}] /\ call' \in [Thread -> Call]
        /\ failed' \in [Handler -> SUBSET Job] /\ pc'[s] \in {"run", "post"} /\ Others(s)
        /\ pc'[s] = "post" => ~hd[h].finish_flg /\ hd[h].bgs_error = "none"
        /\ pc'[s] = "run" => hd[h].finish_flg \/ hd[h].bgs_error = "eof"
    BY <1>q, <2>q, <1>t, <1>s DEF Others, TypeOK, PC
  <2>2. hd' \in [Handler -> HandlerRecord] /\ OnlyHandler(h)
    <3> DEFINE e == [hd[h] EXCEPT !.ahead = 0]
               a == [e EXCEPT !.ended = TRUE]
               n == [e EXCEPT !.unread = TRUE]
    <3>1. e \in HandlerRecord
      BY <1>f, <1>t DEF TypeOK, HandlerRecord
    <3>2. a \in HandlerRecord /\ n \in HandlerRecord
      <4> HIDE DEF e
      <4> QED
        BY <3>1 DEF HandlerRecord
    <3>3. hd' = [hd EXCEPT ![h] = a] \/ hd' = [hd EXCEPT ![h] = n]
      BY <2>q, <1>f, <1>t DEF TypeOK
    <3> HIDE DEF a, n
    <3> QED
      BY <1>f, <1>q, <1>t, <3>2, <3>3, NewRecord DEF OnlyHandler, TypeOK
  <2>g. /\ hd'[h].sql_type = "select" /\ hd'[h].bgs_phase = hd[h].bgs_phase
        /\ hd'[h].use_pre_call = hd[h].use_pre_call
        /\ hd'[h].bgs_working = hd[h].bgs_working /\ hd'[h].bgs_error = hd[h].bgs_error
        /\ hd'[h].finish_flg = hd[h].finish_flg /\ hd'[h].ahead = 0
        /\ hd[h].bgs_error = "none" => hd'[h].ended = hd[h].ended
        /\ hd'[h].quick3 = hd[h].quick3
        /\ hd[h].bgs_error = "eof" => hd'[h].unread = hd[h].unread
        /\ hd'[h].sql = hd[h].sql /\ hd[h].bgs_error \in {"none", "eof", "error"}
    BY <2>q, <1>f, <1>t DEF TypeOK, HandlerRecord
  <2>c. cur'[s] = h /\ call'[s] = "next"
    BY <1>p, <1>q, <1>f
  <2>3. PlaceOk(s)'
    BY <1>2, <1>q, <1>f, <2>1, <2>g, <2>c DEF PlaceOk, Preparing, Own, WithinBound
  <2>4. ResultOk(h)'
    <3>1. AboutTo(h, "next")' <=> pc'[s] = "post"
      BY <1>f, <2>1, <2>c DEF AboutTo
    <3>2. HasAnswer(h) /\ HasAnswer(h)'
      BY <1>f, <2>g DEF HasAnswer
    <3>3. hd[h].bgs_error = "eof" => hd[h].finish_flg
      BY <1>f, <3>2 DEF SelectOk
    <3>4. SelectOk(h)'
      BY <1>2, <1>f, <2>1, <2>g, <3>1, <3>2, <3>3 DEF SelectOk
    <3> QED
      BY <2>g, <3>4 DEF ResultOk, Writing
  <2>5. FailOk(h)'
    BY <1>q, <1>f, <1>t, <2>g DEF FailInv, FailOk, Writing
  <2>6. ~Writing(h)'
    BY <2>g DEF Writing
  <2> QED
    BY <1>q, <1>f, <1>w, <2>1, <2>2, <2>3, <2>4, <2>5, <2>6, <2>g, HandlerInv
    DEF Resetting, Holding
<1> QED
  BY <1>1, <1>2

\* get_bg_result: the answer of the last statement.
LEMMA CollectInv == ASSUME BgInv, NEW s \in Session, Collect(s) PROVE BgInv'
<1>t. TypeOK /\ ResultInv /\ FailInv /\ OwnerInv /\ PlaceInv
  BY InvFacts
<1>s. s \in Thread
  BY Threads
<1>p. PICK h : h = cur[s]
  OBVIOUS
<1>q. /\ UNCHANGED <<owner, conn, bg, exec_sql, cur, call, jobs, executed, failed>>
      /\ pc[s] = "collect" /\ pc' = [pc EXCEPT ![s] = "ending"]
      /\ is_error' = [is_error EXCEPT ![s] = @ \/ hd[h].bgs_error = "error"]
      /\ hd' = [hd EXCEPT ![h].bgs_error = IF @ = "eof" THEN "none" ELSE @,
                          ![h].sql = IF hd[h].sql_type = "update" THEN Garbage ELSE @]
  BY <1>p DEF Collect, Goto
<1>f. /\ h \in Own(s) /\ h \in Handler /\ SessionOf[h] = s /\ owner = s
      /\ Writing(h) /\ ~hd[h].bgs_working /\ ~Resetting(s) /\ ResultOk(h) /\ FailOk(h)
  BY <1>p, <1>q, <1>s, <1>t DEF PlaceInv, PlaceOk, Own, OwnerInv, Holding, PC, ResultInv,
       FailInv, Resetting
<1>1. /\ pc' \in [Thread -> PC] /\ is_error' \in [Session -> BOOLEAN]
      /\ cur' \in [Thread -> Handler \cup {NoHandler}] /\ call' \in [Thread -> Call]
      /\ failed' \in [Handler -> SUBSET Job] /\ pc'[s] = "ending" /\ Others(s)
      /\ is_error'[s] = (is_error[s] \/ hd[h].bgs_error = "error")
  BY <1>q, <1>t, <1>s DEF Others, TypeOK, PC
<1>2. hd' \in [Handler -> HandlerRecord] /\ OnlyHandler(h)
  <2> DEFINE e == [hd[h] EXCEPT !.bgs_error = IF @ = "eof" THEN "none" ELSE @]
             r == [e EXCEPT !.sql = IF hd[h].sql_type = "update" THEN Garbage ELSE @]
  <2>1. e \in HandlerRecord
    BY <1>f, <1>t DEF TypeOK, HandlerRecord
  <2>2. r \in HandlerRecord
    <3> HIDE DEF e
    <3> QED
      BY <2>1 DEF HandlerRecord
  <2>3. hd' = [hd EXCEPT ![h] = r]
    BY <1>q, <1>f, <1>t DEF TypeOK
  <2> HIDE DEF r
  <2> QED
    BY <1>f, <1>q, <1>t, <2>2, <2>3, NewRecord DEF OnlyHandler, TypeOK
<1>g. /\ hd'[h].sql_type = hd[h].sql_type /\ hd'[h].bgs_phase = hd[h].bgs_phase
      /\ hd'[h].use_pre_call = hd[h].use_pre_call
      /\ hd'[h].bgs_working = hd[h].bgs_working
      /\ hd[h].bgs_error = "error" => hd'[h].bgs_error = "error"
      /\ hd'[h].ahead = hd[h].ahead /\ hd'[h].unread = hd[h].unread
      /\ hd'[h].ended = hd[h].ended
      /\ hd'[h].quick3 = hd[h].quick3
  BY <1>q, <1>f, <1>t DEF TypeOK, HandlerRecord
<1>3. PlaceOk(s)'
  BY <1>1 DEF PlaceOk
<1>4. ResultOk(h)'
  BY <1>f, <1>g DEF ResultOk, Writing
<1>5. FailOk(h)'
  BY <1>q, <1>f, <1>g, <1>1 DEF FailOk, Writing, Resetting
<1>6. \A g \in Own(s) : g # h => hd[g].sql_type = "none" /\ ~Writing(g)
  BY <1>f, <1>t DEF FailInv, OneWriter, Own, Writing
<1> QED
  BY <1>q, <1>f, <1>g, <1>1, <1>2, <1>3, <1>4, <1>5, <1>6, HandlerInv

\* ha_spider::reset begins.
LEMMA ResetInv ==
  ASSUME BgInv, NEW s \in Session, NEW h \in Handler, Reset(s, h) PROVE BgInv'
<1>t. TypeOK /\ ResultInv /\ FailInv /\ OwnerInv /\ HandshakeInv /\ WorkInv
  BY InvFacts
<1>s. s \in Thread
  BY Threads
<1>q. /\ UNCHANGED <<owner, conn, bg, exec_sql, call, is_error, jobs, executed, failed>>
      /\ pc[s] = "reset" /\ h \in Own(s) /\ SessionOf[h] = s /\ hd[h].sql_type # "none"
      /\ cur' = [cur EXCEPT ![s] = h]
      /\ hd' = [hd EXCEPT ![h].bgs_error = "none"]
      /\ pc' = [pc EXCEPT ![s] = IF Busy(h) THEN "break_reset" ELSE "free"]
  BY DEF Reset, Goto, Own
<1>1. /\ pc' \in [Thread -> PC] /\ is_error' \in [Session -> BOOLEAN]
      /\ cur' \in [Thread -> Handler \cup {NoHandler}] /\ call' \in [Thread -> Call]
      /\ failed' \in [Handler -> SUBSET Job] /\ pc'[s] \in {"break_reset", "free"}
      /\ pc'[s] = "free" => ~Busy(h)
      /\ Others(s) /\ cur'[s] = h
  BY <1>q, <1>t, <1>s DEF Others, TypeOK, PC
<1>2. hd' \in [Handler -> HandlerRecord] /\ OnlyHandler(h)
  <2> DEFINE r == [hd[h] EXCEPT !.bgs_error = "none"]
  <2>1. r \in HandlerRecord
    BY <1>t DEF TypeOK, HandlerRecord
  <2> QED
    BY <1>q, <1>t, <2>1, NewRecord DEF OnlyHandler, TypeOK
<1>g. /\ hd'[h].sql_type = hd[h].sql_type /\ hd'[h].bgs_phase = hd[h].bgs_phase
      /\ hd'[h].use_pre_call = hd[h].use_pre_call
      /\ hd'[h].bgs_working = hd[h].bgs_working /\ hd'[h].bgs_error = "none"
      /\ hd'[h].finish_flg = hd[h].finish_flg /\ hd'[h].ahead = hd[h].ahead
      /\ hd'[h].unread = hd[h].unread /\ hd'[h].ended = hd[h].ended
      /\ hd'[h].quick3 = hd[h].quick3
      /\ hd'[h].sql = hd[h].sql
  BY <1>q, <1>t DEF TypeOK, HandlerRecord
<1>3. hd[h].bgs_working => Busy(h)
  BY <1>t DEF WorkInv, Searching, HandshakeInv, ConnInv, Busy, Asked, Answered
<1>4. PlaceOk(s)'
  BY <1>q, <1>g, <1>1, <1>3 DEF PlaceOk, Own
<1>5. ResultOk(h)'
  <2>1. ResultOk(h) /\ Resetting(s)'
    BY <1>t, <1>1 DEF ResultInv, Resetting
  <2> QED
    BY <1>q, <1>g, <2>1 DEF ResultOk, SelectOk, Writing
<1>6. FailOk(h)'
  <2>1. FailOk(h) /\ Resetting(s)'
    BY <1>t, <1>1 DEF FailInv, Resetting
  <2> QED
    BY <1>q, <1>g, <1>1, <2>1 DEF FailOk
<1>7. \A g \in Own(s) : g # h => /\ Writing(h)' => hd[g].sql_type = "none"
                                 /\ ~Writing(g)
  BY <1>q, <1>g, <1>t DEF FailInv, OneWriter, Own, Writing
<1> QED
  BY <1>q, <1>g, <1>1, <1>2, <1>4, <1>5, <1>6, <1>7, HandlerInv DEF Resetting, Holding

\* spider_db_free_result.
LEMMA FreeResultInv == ASSUME BgInv, NEW s \in Session, FreeResult(s) PROVE BgInv'
<1>t. TypeOK /\ ResultInv /\ FailInv /\ OwnerInv /\ PlaceInv
  BY InvFacts
<1>s. s \in Thread
  BY Threads
<1>p. PICK h : h = cur[s]
  OBVIOUS
<1>q. /\ UNCHANGED <<owner, conn, bg, exec_sql, cur, call, is_error, jobs, executed>>
      /\ pc[s] = "free" /\ pc' = [pc EXCEPT ![s] = "reset"]
      /\ hd' = [hd EXCEPT ![h] = ResetHandler(@.bgs_error)]
      /\ failed' = [failed EXCEPT ![h] = {}]
  BY <1>p DEF FreeResult, Goto
<1>f. h \in Own(s) /\ h \in Handler /\ SessionOf[h] = s /\ ~hd[h].bgs_working
  BY <1>p, <1>q, <1>t DEF PlaceInv, PlaceOk, Own
<1>1. /\ pc' \in [Thread -> PC] /\ is_error' \in [Session -> BOOLEAN]
      /\ cur' \in [Thread -> Handler \cup {NoHandler}] /\ call' \in [Thread -> Call]
      /\ failed' \in [Handler -> SUBSET Job] /\ pc'[s] = "reset" /\ Others(s)
  BY <1>q, <1>t, <1>s DEF Others, TypeOK, PC
<1>2. /\ hd' \in [Handler -> HandlerRecord] /\ OnlyHandler(h) /\ failed'[h] = {}
      /\ hd'[h] = ResetHandler(hd[h].bgs_error)
  <2>1. hd[h].bgs_error \in {"none", "eof", "error"}
    BY <1>f, <1>t DEF TypeOK, HandlerRecord
  <2>2. ResetHandler(hd[h].bgs_error) \in HandlerRecord
    BY <2>1 DEF ResetHandler, HandlerRecord, Garbage
  <2> QED
    BY <1>f, <1>q, <1>t, <2>2, NewRecord DEF OnlyHandler, TypeOK
<1>g. /\ hd'[h].sql_type = "none" /\ hd'[h].bgs_working = FALSE
      /\ hd'[h].bgs_error = hd[h].bgs_error
  BY <1>2 DEF ResetHandler
<1>h. hd[h].bgs_working \in BOOLEAN
  BY <1>f, <1>t DEF TypeOK, HandlerRecord
<1>3. PlaceOk(s)'
  BY <1>1 DEF PlaceOk
<1>4. ResultOk(h)'
  BY <1>2, <1>g DEF ResultOk, Writing, ResetHandler
<1>5. FailOk(h)'
  BY <1>2, <1>g DEF FailOk, Writing
<1> QED
  BY <1>q, <1>f, <1>g, <1>h, <1>1, <1>2, <1>3, <1>4, <1>5, HandlerInv
  DEF Resetting, Holding, Writing
-----------------------------------------------------------------------------
(***************************************************************************)
(* The steps of the owner that change the connection.                      *)
(***************************************************************************)
\* Nothing a session knows of the handler it works for has changed.
LEMMA PlaceSame ==
  ASSUME NEW t \in Session, PlaceOk(t), UNCHANGED <<jobs, Target>>,
         pc'[t] = pc[t] /\ cur'[t] = cur[t] /\ call'[t] = call[t],
         cur[t] \in Own(t) => hd'[cur[t]] = hd[cur[t]]
  PROVE  PlaceOk(t)'
<1>1. pc[t] \in {"create", "starting", "post"} => Preparing(t, cur[t])'
  BY DEF PlaceOk, Preparing, Writing, WithinBound
<1>2. pc[t] \in {"await", "advance"} => Seeking(t, cur[t])'
  BY DEF PlaceOk, Seeking, WithinBound
<1> QED
  BY <1>1, <1>2 DEF PlaceOk, Writing, Own

\* The results of a handler, when neither they nor the place of its session
\* change, and the thread does not work for it.
LEMMA ResultSame ==
  ASSUME NEW h \in Handler, ResultOk(h), hd'[h] = hd[h],
         hd[h].bgs_working => (bg' \in Asked <=> bg \in Asked)
                              /\ (bg' \in Answered <=> bg \in Answered),
         Resetting(SessionOf[h]) => Resetting(SessionOf[h])',
         AboutTo(h, "read") => AboutTo(h, "read")',
         AboutTo(h, "next") => AboutTo(h, "next")'
  PROVE  ResultOk(h)'
<1>1. HasAnswer(h)' <=> HasAnswer(h)
  BY DEF HasAnswer
<1>2. hd[h].sql_type = "select" => SelectOk(h)'
  BY <1>1 DEF ResultOk, SelectOk
<1> QED
  BY <1>2 DEF ResultOk, Writing, ResetHandler

LEMMA FailSame ==
  ASSUME FailInv, UNCHANGED <<hd, failed, jobs, executed>>,
         \A s \in Session :
           /\ Resetting(s) => Resetting(s)'
           /\ pc'[s] = "ending" => pc[s] = "ending" /\ is_error'[s] = is_error[s]
  PROVE  FailInv'
<1>1. OneWriter'
  BY DEF FailInv, OneWriter, Writing
<1>2. ASSUME NEW h \in Handler PROVE FailOk(h)'
  <2>1. SessionOf[h] \in Session /\ FailOk(h)
    BY SessionOfAssumption DEF FailInv
  <2> QED
    BY <2>1 DEF FailOk, Writing
<1> QED
  BY <1>1, <1>2 DEF FailInv

\* spider_create_conn_thread.
LEMMA CreateThreadInv == ASSUME BgInv, NEW s \in Session, CreateThread(s) PROVE BgInv'
<1>t. /\ TypeOK /\ OwnerInv /\ HandshakeInv /\ WorkInv
      /\ PlaceInv /\ OrderInv /\ ResultInv /\ FailInv
  BY InvFacts
<1>s. s \in Thread
  BY Threads
<1>q. /\ UNCHANGED <<owner, conn, exec_sql, cur, call, is_error, hd, jobs, executed, failed>>
      /\ pc[s] = "create" /\ pc' = [pc EXCEPT ![s] = "starting"] /\ bg' = "starting"
  BY DEF CreateThread, Goto
<1>f. owner = s /\ bg = "none" /\ ~conn.bg_kill
  BY <1>q, <1>s, <1>t DEF OwnerInv, Holding, PC, HandshakeInv, WaitOk
<1>1. TypeOK' /\ Others(s) /\ OwnOnly(s) /\ pc'[s] = "starting"
  BY <1>q, <1>s, <1>t DEF TypeOK, Others, OwnOnly, PC
<1>2. OwnerInv'
  BY <1>t, <1>q, <1>f, <1>1, OwnerStep
<1>3. HandshakeInv'
  <2>1. ConnInv'
    BY <1>q, <1>f, <1>t DEF HandshakeInv, ConnInv, Asked
  <2>2. OwnerWaits'
    BY <1>q, <1>f, <1>s, <1>1, <1>t DEF HandshakeInv, OwnerWaits
  <2>3. ASSUME NEW t \in Thread PROVE WaitOk(t)'
    <3>1. CASE t = s
      BY <3>1, <1>1, <1>q DEF WaitOk
    <3>2. CASE t # s
      <4>1. pc'[t] = pc[t] /\ pc[t] \notin Holding
        BY <3>2, <1>1, <1>t, <1>f DEF Others, OwnerInv
      <4> QED
        BY <4>1 DEF WaitOk, Holding, PC
    <3> QED
      BY <3>1, <3>2
  <2> QED
    BY <2>1, <2>2, <2>3 DEF HandshakeInv
<1>4. ~Searching /\ ~Searching' /\ \A h \in Handler : ~hd[h].bgs_working
  BY <1>q, <1>f, <1>t DEF Searching, WorkInv, Asked, Answered
<1>5. WorkInv' /\ OrderInv'
  BY <1>q, <1>f, <1>t, <1>4 DEF WorkInv, OrderInv, Asked
<1>6. PlaceInv'
  <2>1. PlaceOk(s)
    BY <1>t DEF PlaceInv
  <2>2. cur[s] \in Own(s) /\ Preparing(s, cur[s])'
    BY <1>q, <1>1, <2>1 DEF PlaceOk, Preparing, Writing, WithinBound
  <2>3. PlaceOk(s)'
    BY <1>q, <1>1, <2>2 DEF PlaceOk, Own
  <2> QED
    BY <1>t, <1>1, <1>f, <2>3, PlaceStep
<1>7. ResultInv'
  <2> SUFFICES ASSUME NEW h \in Handler PROVE ResultOk(h)'
    BY DEF ResultInv
  <2>1. SessionOf[h] \in Thread /\ SessionOf[h] \in Session
    BY SessionOfAssumption, Threads
  <2>2. /\ Resetting(SessionOf[h]) => Resetting(SessionOf[h])'
        /\ \A w : AboutTo(h, w) => AboutTo(h, w)'
    BY <1>q, <1>t, <2>1 DEF Resetting, AboutTo, TypeOK
  <2> QED
    BY <1>q, <1>t, <1>4, <2>2, ResultSame DEF ResultInv
<1>8. FailInv'
  <2>1. \A t \in Session : /\ Resetting(t) => Resetting(t)'
                           /\ pc'[t] = "ending" => pc[t] = "ending" /\ is_error'[t] = is_error[t]
    BY <1>q, <1>t, Threads DEF Resetting, TypeOK
  <2> QED
    BY <1>q, <1>t, <2>1, FailSame
<1> QED
  BY <1>1, <1>2, <1>3, <1>5, <1>6, <1>7, <1>8 DEF BgInv

\* spider_bg_conn_search gives up: the scan is complete, or has failed.
LEMMA PostNothingInv ==
  ASSUME BgInv, NEW s \in Session, NEW h \in Own(s), pc[s] = "post", MutexFree,
         cur[s] = h, call[s] = "pre_next",
         hd[h].finish_flg \/ hd[h].bgs_error # "none", PreCallOver(s, h),
         UNCHANGED <<owner, conn, bg, exec_sql, cur, call, jobs, executed, failed>>
  PROVE  BgInv'
<1>t. TypeOK /\ ResultInv /\ FailInv /\ PlaceInv /\ OwnerInv
  BY InvFacts
<1>s. s \in Thread /\ h \in Handler /\ SessionOf[h] = s
  BY Threads DEF Own
<1>f. hd[h].sql_type = "select" /\ hd[h].use_pre_call /\ ~hd[h].ended
  BY <1>t DEF PlaceInv, PlaceOk, Preparing
<1>w. \A g \in Own(s) : ~Writing(g)
  BY <1>s, <1>f, <1>t DEF FailInv, OneWriter, Own, Writing
<1>1. ~hd[h].bgs_working
  BY NotWorking
<1>2. ~AboutTo(h, "read") /\ ~AboutTo(h, "next")
  BY <1>s DEF AboutTo
<1>3. /\ Others(s) /\ pc' \in [Thread -> PC] /\ is_error' \in [Session -> BOOLEAN]
      /\ cur' \in [Thread -> Handler \cup {NoHandler}] /\ call' \in [Thread -> Call]
      /\ failed' \in [Handler -> SUBSET Job]
  BY <1>t, <1>s DEF PreCallOver, Others, TypeOK, PC
<1>4. /\ hd' \in [Handler -> HandlerRecord] /\ OnlyHandler(h)
      /\ hd'[h].bgs_working = hd[h].bgs_working
      /\ hd'[h].sql_type = hd[h].sql_type /\ hd'[h].sql = hd[h].sql
      /\ pc'[s] = "run" /\ PlaceOk(s)' /\ ResultOk(h)' /\ FailOk(h)'
  BY <1>f, <1>1, <1>2, PreCallOverOk
<1>5. ~Writing(h)'
  BY <1>f, <1>4 DEF Writing
<1> QED
  BY <1>w, <1>3, <1>4, <1>5, HandlerInv DEF Resetting, Holding

\* spider_bg_conn_search hands the statement over.
LEMMA HandOverInv ==
  ASSUME BgInv, NEW s \in Session, pc[s] = "post", MutexFree, HandOver(s),
         call[s] = "pre_next" => ~hd[cur[s]].finish_flg /\ hd[cur[s]].bgs_error = "none",
         UNCHANGED <<owner, exec_sql, cur, call, executed, failed>>
  PROVE  BgInv'
<1>t. /\ TypeOK /\ OwnerInv /\ HandshakeInv /\ WorkInv
      /\ PlaceInv /\ OrderInv /\ ResultInv /\ FailInv
  BY InvFacts
<1>s. s \in Thread
  BY Threads
<1>p. PICK h : h = cur[s]
  OBVIOUS
<1>m. PICK phase : phase = (CASE call[s] = "pre_next" -> 2
                              [] call[s] = "next" -> 3
                              [] OTHER -> hd[h].bgs_phase)
  OBVIOUS
<1>f. /\ h \in Own(s) /\ h \in Handler /\ SessionOf[h] = s /\ owner = s
      /\ Preparing(s, h) /\ ResultOk(h) /\ FailOk(h)
      /\ call[s] \in {"read", "insert", "update", "pre_next", "next"}
  BY <1>p, <1>s, <1>t DEF PlaceInv, PlaceOk, Own, OwnerInv, Holding, PC, ResultInv, FailInv,
       Preparing
<1>b. bg = "idle" /\ ~conn.bg_kill /\ \A g \in Handler : ~hd[g].bgs_working
  <2>1. bg = "idle" /\ ~conn.bg_kill
    BY <1>f, OwnerFacts DEF MutexFree
  <2> QED
    BY <2>1, <1>t DEF WorkInv, Searching, Asked, Answered
<1>j. jobs < MaxJob /\ jobs \in Nat /\ executed = jobs
  <2>1. jobs < MaxJob
    BY <1>p, <1>f, <1>b DEF Preparing, WithinBound
  <2> QED
    BY <2>1, <1>b, <1>t, MaxJobAssumption DEF TypeOK, OrderInv, Asked
<1>r. /\ phase \in 1..3 /\ hd[h].bgs_phase \in 0..3
      /\ call[s] = "pre_next" => phase = 2
      /\ call[s] \in {"insert", "update", "read"} => phase = hd[h].bgs_phase /\ phase = 1
      /\ call[s] = "next" => phase = 3
  <2>1. hd[h].bgs_phase \in 0..3
    BY <1>f, <1>t DEF TypeOK, HandlerRecord
  <2>2. call[s] \in {"insert", "update", "read"} => hd[h].bgs_phase = 1
    BY <1>f DEF Preparing, ResultOk
  <2> QED
    BY <1>m, <1>f, <2>1, <2>2
<1>q. /\ jobs' = jobs + 1 /\ bg' = "signalled" /\ UNCHANGED is_error
      /\ pc' = [pc EXCEPT ![s] = "sleep"]
      /\ hd' = [hd EXCEPT ![h].bgs_working = TRUE, ![h].sql = jobs + 1, ![h].bgs_phase = phase]
  BY <1>p, <1>m, <1>f, <1>t DEF HandOver, Goto, TypeOK, HandlerRecord
<1>c. /\ conn' \in ConnRecord
      /\ conn'.bg_search /\ conn'.bg_target = h /\ conn'.bg_caller_sync_wait
      /\ conn'.bg_kill = conn.bg_kill /\ conn'.bg_init = conn.bg_init
  <2> DEFINE a == [conn EXCEPT !.bg_search = TRUE]
             b == [a EXCEPT !.bg_target = h]
             c == [b EXCEPT !.bg_caller_sync_wait = TRUE]
             d == [c EXCEPT !.bg_caller_wait = @ \/ call[s] \in {"insert", "update"}]
             e == [d EXCEPT !.bg_conn_finish_exec = @ /\ call[s] \notin {"read", "pre_next"}]
  <2>1. conn' = e
    BY <1>p DEF HandOver
  <2>2. a \in ConnRecord /\ a.bg_search /\ a.bg_kill = conn.bg_kill /\ a.bg_init = conn.bg_init
    BY <1>t DEF TypeOK, ConnRecord
  <2> HIDE DEF a
  <2>3. /\ b \in ConnRecord /\ b.bg_search /\ b.bg_target = h
        /\ b.bg_kill = conn.bg_kill /\ b.bg_init = conn.bg_init
    BY <1>f, <2>2 DEF ConnRecord
  <2> HIDE DEF b
  <2>4. /\ c \in ConnRecord /\ c.bg_search /\ c.bg_target = h /\ c.bg_caller_sync_wait
        /\ c.bg_kill = conn.bg_kill /\ c.bg_init = conn.bg_init
    BY <2>3 DEF ConnRecord
  <2> HIDE DEF c
  <2>5. /\ d \in ConnRecord /\ d.bg_search /\ d.bg_target = h /\ d.bg_caller_sync_wait
        /\ d.bg_kill = conn.bg_kill /\ d.bg_init = conn.bg_init
    BY <2>4 DEF ConnRecord
  <2> HIDE DEF d
  <2>6. /\ e \in ConnRecord /\ e.bg_search /\ e.bg_target = h /\ e.bg_caller_sync_wait
        /\ e.bg_kill = conn.bg_kill /\ e.bg_init = conn.bg_init
    BY <2>5 DEF ConnRecord
  <2> QED
    BY <2>1, <2>6
<1>h. /\ hd' \in [Handler -> HandlerRecord] /\ OnlyHandler(h)
      /\ hd'[h].bgs_working /\ hd'[h].sql = jobs' /\ hd'[h].bgs_phase = phase
      /\ hd'[h].sql_type = hd[h].sql_type /\ hd'[h].use_pre_call = hd[h].use_pre_call
      /\ hd'[h].bgs_error = hd[h].bgs_error /\ hd'[h].finish_flg = hd[h].finish_flg
      /\ hd'[h].ahead = hd[h].ahead /\ hd'[h].unread = hd[h].unread
      /\ hd'[h].ended = hd[h].ended
      /\ hd'[h].quick3 = hd[h].quick3
  <2> DEFINE a == [hd[h] EXCEPT !.bgs_working = TRUE]
             b == [a EXCEPT !.sql = jobs + 1]
             c == [b EXCEPT !.bgs_phase = phase]
  <2>1. hd' = [hd EXCEPT ![h] = c]
    BY <1>q, <1>f, <1>t DEF TypeOK
  <2>0. hd[h] \in HandlerRecord
    BY <1>f, <1>t DEF TypeOK
  <2>2. a \in HandlerRecord
    BY <2>0 DEF HandlerRecord
  <2>3. b \in HandlerRecord
    <3> HIDE DEF a
    <3> QED
      BY <1>j, <2>2, MaxJobAssumption DEF HandlerRecord, Job
  <2>4. c \in HandlerRecord
    <3> HIDE DEF b
    <3> QED
      BY <1>r, <2>3 DEF HandlerRecord
  <2>5. hd' \in [Handler -> HandlerRecord] /\ OnlyHandler(h) /\ hd'[h] = c
    <3> HIDE DEF c
    <3> QED
      BY <1>f, <1>t, <2>1, <2>4, NewRecord DEF OnlyHandler, TypeOK
  <2> QED
    BY <2>5, <2>0, <1>q DEF HandlerRecord
<1>1. TypeOK'
  <2>1. jobs' \in 0..MaxJob
    BY <1>q, <1>j, MaxJobAssumption
  <2>2. pc' \in [Thread -> PC]
    BY <1>q, <1>t DEF TypeOK, PC
  <2> QED
    BY <1>c, <1>h, <1>q, <2>1, <2>2, <1>t DEF TypeOK
<1>o. Others(s) /\ OwnOnly(s) /\ pc'[s] = "sleep"
  BY <1>q, <1>h, <1>f, <1>s, <1>t DEF Others, OwnOnly, OnlyHandler, TypeOK
<1>2. OwnerInv'
  BY <1>t, <1>f, <1>o, OwnerStep
<1>3. HandshakeInv'
  <2>0. call[s] # "kill"
    BY <1>f
  <2>1. ConnInv'
    BY <1>q, <1>b, <1>c, <1>t DEF HandshakeInv, ConnInv, Asked
  <2>2. OwnerWaits'
    BY <1>q, <1>b, <1>c, <1>f, <1>s, <1>o, <2>0 DEF OwnerWaits
  <2>3. ASSUME NEW t \in Thread PROVE WaitOk(t)'
    <3>1. CASE t = s
      BY <3>1, <1>o, <1>q, <1>b, <1>c, <2>0 DEF WaitOk
    <3>2. CASE t # s
      <4>1. pc'[t] = pc[t] /\ pc[t] \notin Holding
        BY <3>2, <1>o, <1>t, <1>f DEF Others, OwnerInv
      <4> QED
        BY <4>1 DEF WaitOk, Holding, PC
    <3> QED
      BY <3>1, <3>2
  <2> QED
    BY <2>1, <2>2, <2>3 DEF HandshakeInv
<1>4. Searching' /\ Target' = h
  BY <1>q, <1>b, <1>c DEF Searching, Asked, Target
<1>5. WorkInv'
  <2>1. hd[h].sql_type # "none"
    BY <1>f DEF Preparing, Writing
  <2>2. \A g \in Handler : g # h => ~hd'[g].bgs_working
    BY <1>h, <1>b DEF OnlyHandler
  <2> QED
    BY <1>4, <1>f, <1>h, <2>1, <2>2 DEF WorkInv
<1>6. OrderInv'
  <2>1. conn'.bg_kill = FALSE
    BY <1>b, <1>c, <1>t DEF TypeOK, ConnRecord
  <2> QED
    BY <1>q, <1>j, <1>h, <1>4, <2>1 DEF OrderInv, Asked
<1>7. PlaceInv'
  <2>1. PlaceOk(s)'
    BY <1>p, <1>f, <1>o, <1>r, <1>h, <1>4 DEF PlaceOk, Own, Preparing
  <2> QED
    BY <1>t, <1>f, <1>o, <2>1, PlaceStep
<1>8. ResultInv'
  <2>1. ASSUME NEW g \in Handler, g # h PROVE ResultOk(g)'
    <3>1. SessionOf[g] \in Session /\ SessionOf[g] \in Thread
      BY SessionOfAssumption, Threads
    <3>2. /\ Resetting(SessionOf[g]) => Resetting(SessionOf[g])'
          /\ \A w : AboutTo(g, w) => AboutTo(g, w)'
      BY <1>p, <1>q, <1>t, <2>1, <3>1 DEF Resetting, AboutTo, TypeOK
    <3> QED
      BY <1>b, <1>h, <1>t, <2>1, <3>2, ResultSame DEF ResultInv, OnlyHandler
  <2>2. ResultOk(h)'
    <3>1. hd[h].sql_type = "select" => /\ ~hd[h].finish_flg
                                       /\ ~hd[h].ended
                                       /\ phase = 1 => hd[h].use_pre_call
      BY <1>p, <1>f, <1>r DEF Preparing, Writing
    <3>2. ~HasAnswer(h)'
      BY <1>q, <1>h DEF HasAnswer, Answered
    <3>3. hd[h].sql_type = "select" => SelectOk(h)'
      BY <1>q, <1>r, <1>h, <3>1, <3>2 DEF SelectOk, Answered
    <3>4. Writing(h) => phase = 1
      BY <1>f, <1>r DEF Preparing, Writing, ResultOk
    <3>5. hd[h].sql_type # "none"
      BY <1>f DEF Preparing, Writing
    <3> QED
      BY <1>f, <1>h, <3>3, <3>4, <3>5 DEF ResultOk, Writing
  <2> QED
    BY <2>1, <2>2 DEF ResultInv
<1>9. FailInv'
  <2>1. ASSUME NEW g \in Handler PROVE FailOk(g)'
    <3>1. FailOk(g) /\ hd'[g].sql_type = hd[g].sql_type /\ failed'[g] = failed[g]
      BY <1>h, <1>t DEF FailInv, OnlyHandler
    <3>2. jobs' \notin failed[g]
      BY <3>1, <1>j, <1>q DEF FailOk
    <3>3. pc'[SessionOf[g]] = "ending" => hd'[g] = hd[g] /\ SessionOf[g] # s
      BY <1>f, <1>o, <1>h DEF OnlyHandler
    <3>4. pc'[SessionOf[g]] # "ending"
      <4>1. SessionOf[g] \in Session /\ SessionOf[g] \in Thread
        BY SessionOfAssumption, Threads
      <4>2. SessionOf[g] # s => pc[SessionOf[g]] \notin Holding
        BY <4>1, <1>f, <1>t DEF OwnerInv
      <4> QED
        BY <3>3, <4>1, <4>2, <1>o DEF Others, Holding, PC
    <3> QED
      BY <3>1, <3>2, <3>4 DEF FailOk, Writing
  <2>2. \A g \in Handler : hd'[g].sql_type = hd[g].sql_type
    BY <1>h DEF OnlyHandler
  <2>3. OneWriter'
    BY <1>t, <2>2 DEF FailInv, OneWriter, Writing
  <2> QED
    BY <2>1, <2>3 DEF FailInv
<1> QED
  BY <1>1, <1>2, <1>3, <1>5, <1>6, <1>7, <1>8, <1>9 DEF BgInv

LEMMA PostInv == ASSUME BgInv, NEW s \in Session, Post(s) PROVE BgInv'
<1>t. PlaceInv
  BY InvFacts
<1>q. pc[s] = "post" /\ MutexFree
      /\ UNCHANGED <<owner, exec_sql, cur, call, executed, failed>>
  BY DEF Post
<1>f. cur[s] \in Own(s)
  BY <1>q, <1>t DEF PlaceInv, PlaceOk
<1>1. CASE /\ call[s] = "pre_next"
           /\ hd[cur[s]].finish_flg \/ hd[cur[s]].bgs_error # "none"
  <2>p. PICK h \in Own(s) : h = cur[s]
    BY <1>f
  <2>1. PreCallOver(s, h) /\ UNCHANGED <<conn, bg, jobs>>
    BY <1>1, <2>p DEF Post, PreCallOver, Return, Goto
  <2> QED
    BY <1>1, <1>q, <2>p, <2>1, PostNothingInv
<1>2. CASE ~(/\ call[s] = "pre_next"
             /\ hd[cur[s]].finish_flg \/ hd[cur[s]].bgs_error # "none")
  BY <1>2, <1>q, HandOverInv DEF Post
<1> QED
  BY <1>1, <1>2

\* The caller goes on.
LEMMA ResumeInv == ASSUME BgInv, NEW s \in Session, Resume(s) PROVE BgInv'
<1>t. /\ TypeOK /\ OwnerInv /\ HandshakeInv /\ WorkInv
      /\ PlaceInv /\ OrderInv /\ ResultInv /\ FailInv
  BY InvFacts
<1>s. s \in Thread
  BY Threads
<1>p. PICK h : h = cur[s]
  OBVIOUS
<1>q. /\ UNCHANGED <<owner, bg, exec_sql, cur, call, jobs, executed, failed>>
      /\ pc[s] = "woken" /\ call[s] # "kill"
      /\ conn' = [conn EXCEPT
                    !.bg_caller_sync_wait = FALSE,
                    !.bg_caller_wait = @ /\ call[s] \notin {"insert", "update"}]
      /\ hd' = [hd EXCEPT ![h].use_pre_call = @ /\ call[s] # "pre_next"]
      /\ \/ /\ pc' = [pc EXCEPT ![s] = "run"]
            /\ \E e \in BOOLEAN : is_error' = [is_error EXCEPT ![s] = @ \/ e]
         \/ /\ pc' = [pc EXCEPT ![s] = "sync"]
            /\ UNCHANGED is_error
  BY <1>p DEF Resume, Return, Goto
<1>f. /\ h \in Own(s) /\ h \in Handler /\ SessionOf[h] = s /\ owner = s /\ ResultOk(h)
      /\ call[s] = "pre_next" => hd[h].sql_type = "select" /\ hd[h].bgs_phase = 2
      /\ bg \notin {"signalled", "woken", "starting"} /\ ~conn.bg_kill
  BY <1>p, <1>q, <1>s, <1>t DEF PlaceInv, PlaceOk, Own, OwnerInv, Holding, PC, ResultInv,
       HandshakeInv, OwnerWaits
<1>c. /\ conn' \in ConnRecord /\ ~conn'.bg_caller_sync_wait
      /\ conn'.bg_kill = conn.bg_kill /\ conn'.bg_init = conn.bg_init
      /\ conn'.bg_search = conn.bg_search /\ conn'.bg_target = conn.bg_target
      /\ conn'.bg_conn_working = conn.bg_conn_working
  BY <1>q, <1>t DEF TypeOK, ConnRecord
<1>h. /\ hd' \in [Handler -> HandlerRecord] /\ OnlyHandler(h)
      /\ hd'[h].bgs_working = hd[h].bgs_working /\ hd'[h].sql = hd[h].sql
      /\ hd'[h].bgs_phase = hd[h].bgs_phase /\ hd'[h].sql_type = hd[h].sql_type
      /\ hd'[h].use_pre_call = (hd[h].use_pre_call /\ call[s] # "pre_next")
      /\ hd'[h].bgs_error = hd[h].bgs_error /\ hd'[h].finish_flg = hd[h].finish_flg
      /\ hd'[h].ahead = hd[h].ahead /\ hd'[h].unread = hd[h].unread
      /\ hd'[h].ended = hd[h].ended
      /\ hd'[h].quick3 = hd[h].quick3
  <2> DEFINE r == [hd[h] EXCEPT !.use_pre_call = @ /\ call[s] # "pre_next"]
  <2>0. hd[h] \in HandlerRecord
    BY <1>f, <1>t DEF TypeOK
  <2>1. r \in HandlerRecord
    BY <2>0 DEF HandlerRecord
  <2>2. hd' \in [Handler -> HandlerRecord] /\ OnlyHandler(h) /\ hd'[h] = r
    <3>1. hd' = [hd EXCEPT ![h] = r]
      BY <1>q
    <3> HIDE DEF r
    <3> QED
      BY <1>f, <1>q, <1>t, <2>1, <3>1, NewRecord DEF OnlyHandler, TypeOK
  <2> QED
    BY <2>0, <2>2 DEF HandlerRecord
<1>o. Others(s) /\ OwnOnly(s) /\ pc'[s] \in {"run", "sync"}
  BY <1>q, <1>h, <1>f, <1>s, <1>t DEF Others, OwnOnly, OnlyHandler, TypeOK
<1>1. TypeOK'
  <2>1. pc' \in [Thread -> PC] /\ is_error' \in [Session -> BOOLEAN]
    BY <1>q, <1>t DEF TypeOK, PC
  <2> QED
    BY <1>c, <1>h, <1>q, <2>1, <1>t DEF TypeOK
<1>2. OwnerInv'
  BY <1>t, <1>q, <1>f, <1>o, OwnerStep
<1>3. HandshakeInv'
  <2>1. ConnInv'
    BY <1>q, <1>c, <1>t DEF HandshakeInv, ConnInv
  <2>2. OwnerWaits'
    BY <1>q, <1>c, <1>f DEF OwnerWaits
  <2>3. ASSUME NEW t \in Thread PROVE WaitOk(t)'
    <3>1. CASE t = s
      BY <3>1, <1>o DEF WaitOk
    <3>2. CASE t # s
      <4>1. pc'[t] = pc[t] /\ pc[t] \notin Holding
        BY <3>2, <1>o, <1>t, <1>f DEF Others, OwnerInv
      <4> QED
        BY <4>1 DEF WaitOk, Holding, PC
    <3> QED
      BY <3>1, <3>2
  <2> QED
    BY <2>1, <2>2, <2>3 DEF HandshakeInv
<1>4. Searching' = Searching /\ Target' = Target
  BY <1>q, <1>c DEF Searching, Target
<1>5. WorkInv' /\ OrderInv'
  <2>1. \A g \in Handler : /\ hd'[g].bgs_working = hd[g].bgs_working
                           /\ hd'[g].sql_type = hd[g].sql_type /\ hd'[g].sql = hd[g].sql
    BY <1>h DEF OnlyHandler
  <2>2. WorkInv'
    BY <1>t, <1>4, <2>1 DEF WorkInv
  <2>3. bg = "dispatch" /\ ~conn.bg_kill => Target \in Handler
    BY <1>t DEF WorkInv, Searching, Asked
  <2>4. OrderInv'
    BY <1>t, <1>q, <1>c, <1>f, <1>4, <2>1, <2>3 DEF OrderInv
  <2> QED
    BY <2>2, <2>4
<1>6. PlaceInv'
  <2>1. PlaceOk(s)'
    BY <1>o DEF PlaceOk
  <2> QED
    BY <1>t, <1>f, <1>o, <2>1, PlaceStep
<1>7. ResultInv'
  <2>1. ASSUME NEW g \in Own(s) PROVE ResultOk(g)'
    <3>1. g \in Handler /\ SessionOf[g] = s /\ ResultOk(g)
      BY <1>t DEF Own, ResultInv
    <3>2. \A w : ~AboutTo(g, w)
      BY <1>q, <3>1 DEF AboutTo
    <3>3. ~Resetting(s)
      BY <1>q DEF Resetting
    <3>4. CASE g # h
      BY <1>q, <1>h, <3>1, <3>2, <3>3, <3>4, ResultSame DEF OnlyHandler
    <3>5. CASE g = h
      <4>1. HasAnswer(g)' = HasAnswer(g)
        BY <1>q, <1>h, <3>5 DEF HasAnswer
      <4>2. hd[h].sql_type = "select" => SelectOk(g)'
        <5>1. /\ call[s] # "pre_next" => hd'[h].use_pre_call = hd[h].use_pre_call
              /\ call[s] = "pre_next" => ~hd'[h].use_pre_call /\ hd[h].bgs_phase = 2
              /\ hd[h].use_pre_call \in BOOLEAN
          BY <1>h, <1>f, <1>t DEF TypeOK, HandlerRecord
        <5> QED
          BY <1>q, <1>h, <1>f, <3>1, <3>2, <3>3, <3>5, <4>1, <5>1 DEF ResultOk, SelectOk
      <4>3. hd[h].sql_type = "none" => hd'[h] = hd[h]
        <5>1. hd[h].sql_type = "none" => call[s] # "pre_next"
          BY <1>f
        <5>2. call[s] # "pre_next" => hd'[h] = hd[h]
          BY <1>q, <1>f, <1>t DEF TypeOK, HandlerRecord
        <5> QED
          BY <5>1, <5>2
      <4> QED
        BY <1>h, <1>f, <3>1, <3>5, <4>2, <4>3 DEF ResultOk, Writing, ResetHandler
    <3> QED
      BY <3>4, <3>5
  <2> QED
    BY <1>t, <1>q, <1>o, <2>1, ResultStep
<1>8. FailInv'
  <2>1. \A g \in Handler : /\ hd'[g].sql_type = hd[g].sql_type
                           /\ hd'[g].bgs_error = hd[g].bgs_error
                           /\ failed'[g] = failed[g]
    BY <1>q, <1>h DEF OnlyHandler
  <2>2. ASSUME NEW g \in Own(s) PROVE FailOk(g)'
    <3>1. g \in Handler /\ SessionOf[g] = s /\ FailOk(g)
      BY <1>t DEF Own, FailInv
    <3> QED
      BY <1>q, <1>o, <2>1, <3>1 DEF FailOk, Writing, Resetting
  <2>3. \A f, g \in Own(s) : f # g /\ Writing(g)' => hd'[f].sql_type = "none"
    BY <1>t, <2>1 DEF FailInv, OneWriter, Writing, Own
  <2> QED
    BY <1>t, <1>q, <1>o, <2>2, <2>3, FailStep
<1> QED
  BY <1>1, <1>2, <1>3, <1>5, <1>6, <1>7, <1>8 DEF BgInv

\* A session without the connection does not see what its owner does.
LEMMA PlaceIdle ==
  ASSUME NEW u \in Session, PlaceOk(u), pc[u] \notin Holding, UNCHANGED hd,
         pc'[u] = pc[u] /\ cur'[u] = cur[u] /\ call'[u] = call[u]
  PROVE  PlaceOk(u)'
<1>1. pc[u] \notin {"create", "starting", "post", "sleep", "woken", "await", "advance",
                    "break_collect", "collect"}
  BY DEF Holding, PC
<1> QED
  BY <1>1 DEF PlaceOk, Own

\* What is left of the invariant when a thread takes the connection away, or
\* begins to free it, and no search is on its way.
LEMMA NoSearch ==
  ASSUME BgInv, NEW t \in Thread, ~Searching, ~Searching',
         UNCHANGED <<exec_sql, cur, hd, is_error, jobs, executed, failed>>,
         bg # "exec", bg' # "exec", TypeOK',
         \A u \in Thread : u # t => pc'[u] = pc[u] /\ call'[u] = call[u] /\ pc[u] \notin Holding,
         pc[t] \in {"run", "freeing", "woken"}, pc'[t] \in {"run", "freeing", "sleep", "reset"},
         t \in Session => PlaceOk(t)',
         OwnerInv', HandshakeInv'
  PROVE  BgInv'
<1>t. /\ TypeOK /\ OwnerInv /\ HandshakeInv /\ WorkInv
      /\ PlaceInv /\ OrderInv /\ ResultInv /\ FailInv
  BY InvFacts
<1>1. \A h \in Handler : ~hd[h].bgs_working
  BY <1>t DEF WorkInv
<1>2. WorkInv'
  <2>1. \A h \in Handler : hd[h].bgs_working \in BOOLEAN
    BY <1>t DEF TypeOK, HandlerRecord
  <2> QED
    BY <1>1, <2>1 DEF WorkInv
<1>3. OrderInv'
  BY <1>t DEF OrderInv, Searching, Asked
<1>4. PlaceInv'
  <2> SUFFICES ASSUME NEW u \in Session, u # t PROVE PlaceOk(u)'
    BY DEF PlaceInv
  <2> QED
    BY <1>t, Threads, PlaceIdle DEF PlaceInv
<1>5. \A s \in Session : Resetting(s) => Resetting(s)'
  BY Threads DEF Resetting
<1>6. ResultInv'
  <2> SUFFICES ASSUME NEW h \in Handler PROVE ResultOk(h)'
    BY DEF ResultInv
  <2>1. SessionOf[h] \in Session /\ SessionOf[h] \in Thread
    BY SessionOfAssumption, Threads
  <2>2. \A w : ~AboutTo(h, w)
    BY <2>1 DEF AboutTo, Holding, PC
  <2> QED
    BY <1>t, <1>1, <1>5, <2>1, <2>2, ResultSame DEF ResultInv
<1>7. FailInv'
  <2>1. \A s \in Session : pc'[s] = "ending" => pc[s] = "ending" /\ is_error'[s] = is_error[s]
    BY Threads
  <2> QED
    BY <1>t, <1>5, <2>1, FailSame
<1> QED
  BY <1>2, <1>3, <1>4, <1>6, <1>7 DEF BgInv

\* spider_conn_recycle_action takes an idle connection.
LEMMA RecycleInv == ASSUME BgInv, Recycle PROVE BgInv'
<1>t. /\ TypeOK /\ OwnerInv /\ HandshakeInv /\ WorkInv
      /\ PlaceInv /\ OrderInv /\ ResultInv /\ FailInv
  BY InvFacts
<1>q. /\ UNCHANGED <<conn, bg, exec_sql, cur, call, is_error, hd, jobs, executed, failed>>
      /\ pc[Recycler] = "run"
      /\ \/ owner = Pool /\ owner' = Recycler /\ pc' = [pc EXCEPT ![Recycler] = "freeing"]
         \/ UNCHANGED <<owner, pc>>
  BY DEF Recycle, Goto
<1>r. Recycler \in Thread /\ Pool \notin Thread
  BY PoolAssumption DEF Thread
<1>1. CASE UNCHANGED <<owner, pc>>
  <2>1. TypeOK' /\ OwnerInv' /\ HandshakeInv' /\ WorkInv' /\ OrderInv'
    BY <1>1, <1>q, <1>t DEF TypeOK, OwnerInv, HandshakeInv, ConnInv, OwnerWaits, WaitOk, WorkInv,
         Searching, Target, OrderInv
  <2>2. PlaceInv'
    BY <1>1, <1>q, <1>t DEF PlaceInv, PlaceOk, Preparing, Seeking, WithinBound, Writing, Own, Target
  <2>3. ResultInv'
    <3> SUFFICES ASSUME NEW h \in Handler PROVE ResultOk(h)'
      BY DEF ResultInv
    <3>1. /\ Resetting(SessionOf[h]) => Resetting(SessionOf[h])'
          /\ \A w : AboutTo(h, w) => AboutTo(h, w)'
      BY <1>1, <1>q DEF Resetting, AboutTo
    <3> QED
      BY <1>q, <1>t, <3>1, ResultSame DEF ResultInv
  <2>4. FailInv'
    BY <1>1, <1>q, <1>t, FailSame DEF Resetting
  <2> QED
    BY <2>1, <2>2, <2>3, <2>4 DEF BgInv
<1>2. CASE owner = Pool /\ owner' = Recycler /\ pc' = [pc EXCEPT ![Recycler] = "freeing"]
  <2>1. \A u \in Thread : u # Recycler => pc'[u] = pc[u]
    BY <1>2, <1>t DEF TypeOK
  <2>2. \A u \in Thread : pc[u] \notin Holding
    BY <1>2, <1>r, <1>t DEF OwnerInv
  <2>3. pc'[Recycler] = "freeing" /\ TypeOK'
    BY <1>2, <1>q, <1>r, <1>t DEF TypeOK, PC
  <2>4. OwnerInv'
    BY <1>2, <2>1, <2>2, <2>3, <1>r DEF OwnerInv
  <2>5. /\ bg \notin {"starting", "signalled", "woken"}
        /\ ~conn.bg_kill /\ ~conn.bg_caller_sync_wait
    BY <1>2, <1>r, <1>t DEF HandshakeInv, OwnerWaits
  <2>6. HandshakeInv'
    <3>1. ConnInv' /\ OwnerWaits'
      BY <1>q, <1>t, <2>5 DEF HandshakeInv, ConnInv, OwnerWaits
    <3>2. ASSUME NEW u \in Thread PROVE WaitOk(u)'
      BY <1>q, <1>t, <2>1, <2>3, <2>2 DEF HandshakeInv, WaitOk, Holding, PC
    <3> QED
      BY <3>1, <3>2 DEF HandshakeInv
  <2>7. WorkInv' /\ OrderInv'
    BY <1>q, <1>t, WorkSame, OrderSame
  <2>8. PlaceInv'
    <3> SUFFICES ASSUME NEW u \in Session PROVE PlaceOk(u)'
      BY DEF PlaceInv
    <3> QED
      BY <1>q, <1>t, <2>1, <2>2, Threads, PlaceIdle DEF PlaceInv
  <2>9. ResultInv'
    <3> SUFFICES ASSUME NEW h \in Handler PROVE ResultOk(h)'
      BY DEF ResultInv
    <3>1. SessionOf[h] \in Session /\ SessionOf[h] \in Thread /\ SessionOf[h] # Recycler
      BY SessionOfAssumption, Threads
    <3>2. /\ Resetting(SessionOf[h]) => Resetting(SessionOf[h])'
          /\ \A w : AboutTo(h, w) => AboutTo(h, w)'
      BY <1>q, <2>1, <3>1 DEF Resetting, AboutTo
    <3> QED
      BY <1>q, <1>t, <3>2, ResultSame DEF ResultInv
  <2>10. FailInv'
    BY <1>q, <2>1, <1>t, Threads, FailSame DEF Resetting
  <2> QED
    BY <2>3, <2>4, <2>6, <2>7, <2>8, <2>9, <2>10 DEF BgInv
<1> QED
  BY <1>q, <1>1, <1>2

\* The connection is gone, and a new one is in the pool.
LEMMA FreedInv ==
  ASSUME BgInv, NEW t \in Thread, owner = t, bg = "none",
         pc[t] \in {"freeing", "woken"}, Freed(t),
         UNCHANGED <<bg, exec_sql, cur, call, is_error, hd, jobs, executed, failed>>
  PROVE  BgInv'
<1>t. TypeOK /\ OwnerInv /\ HandshakeInv
  BY InvFacts
<1>r. Recycler \in Thread /\ Pool \notin Thread
  BY PoolAssumption DEF Thread
<1>q. /\ conn' = NewConn /\ owner' = Pool
      /\ pc' = [pc EXCEPT ![t] = IF t = Recycler THEN "run" ELSE "reset"]
  BY DEF Freed, Goto
<1>1. /\ pc'[t] = IF t = Recycler THEN "run" ELSE "reset"
      /\ \A u \in Thread : u # t => pc'[u] = pc[u] /\ call'[u] = call[u] /\ pc[u] \notin Holding
  BY <1>q, <1>t DEF TypeOK, OwnerInv
<1>2. /\ conn' \in ConnRecord /\ ~conn'.bg_init /\ ~conn'.bg_search /\ ~conn'.bg_kill
      /\ ~conn'.bg_caller_sync_wait
  BY <1>q DEF NewConn, ConnRecord
<1>3. TypeOK'
  BY <1>q, <1>2, <1>t DEF TypeOK, PC
<1>4. OwnerInv'
  <2>1. \A u \in Thread : pc'[u] \notin Holding
    BY <1>1 DEF Holding
  <2>2. pc'[Recycler] = "run" \/ (pc'[Recycler] = pc[Recycler] /\ UNCHANGED call)
    BY <1>1, <1>r
  <2> QED
    BY <2>1, <2>2, <1>t DEF OwnerInv
<1>5. HandshakeInv'
  <2>1. ConnInv' /\ OwnerWaits'
    BY <1>2 DEF ConnInv, OwnerWaits, Asked
  <2>2. ASSUME NEW u \in Thread PROVE WaitOk(u)'
    BY <1>1 DEF WaitOk, Holding, PC
  <2> QED
    BY <2>1, <2>2 DEF HandshakeInv
<1>6. ~Searching /\ ~Searching'
  BY DEF Searching, Asked, Answered
<1>7. PlaceOk(t)' \/ t \notin Session
  <2>1. t \in Session => pc'[t] = "reset"
    BY <1>1, Threads
  <2> QED
    BY <2>1 DEF PlaceOk
<1> QED
  BY <1>1, <1>3, <1>4, <1>5, <1>6, <1>7, NoSearch

\* spider_free_conn, spider_free_conn_thread.
LEMMA FreeConnInv == ASSUME BgInv, NEW t \in Thread, FreeConn(t) PROVE BgInv'
<1>t. TypeOK /\ OwnerInv /\ HandshakeInv
  BY InvFacts
<1>q. /\ pc[t] = "freeing"
      /\ UNCHANGED <<exec_sql, cur, is_error, hd, jobs, executed, failed>>
      /\ \/ ~conn.bg_init /\ Freed(t) /\ UNCHANGED <<bg, call>>
         \/ /\ MutexFree /\ bg' = "signalled" /\ UNCHANGED owner
            /\ conn' = [conn EXCEPT !.bg_kill = TRUE, !.bg_conn_working = FALSE]
            /\ call' = [call EXCEPT ![t] = "kill"]
            /\ pc' = [pc EXCEPT ![t] = "sleep"]
  BY DEF FreeConn, Goto
<1>f. /\ owner = t /\ bg \notin {"starting", "signalled", "woken"}
      /\ ~conn.bg_kill /\ ~conn.bg_caller_sync_wait
  BY <1>q, <1>t DEF OwnerInv, Holding, PC, HandshakeInv, OwnerWaits
<1>1. CASE ~conn.bg_init /\ Freed(t) /\ UNCHANGED <<bg, call>>
  <2>1. bg = "none"
    BY <1>1, <1>f, <1>t DEF HandshakeInv, ConnInv
  <2> QED
    BY <1>1, <1>q, <1>f, <2>1, FreedInv
<1>2. CASE /\ MutexFree /\ bg' = "signalled" /\ UNCHANGED owner
           /\ conn' = [conn EXCEPT !.bg_kill = TRUE, !.bg_conn_working = FALSE]
           /\ call' = [call EXCEPT ![t] = "kill"]
           /\ pc' = [pc EXCEPT ![t] = "sleep"]
  <2>1. bg = "idle"
    BY <1>2, <1>f DEF MutexFree
  <2>2. conn.bg_init /\ ~conn.bg_search
    BY <2>1, <1>t DEF HandshakeInv, ConnInv, Asked
  <2>3. /\ conn' \in ConnRecord /\ conn'.bg_kill /\ conn'.bg_init = conn.bg_init
        /\ conn'.bg_search = conn.bg_search
        /\ conn'.bg_caller_sync_wait = conn.bg_caller_sync_wait
    BY <1>2, <1>t DEF TypeOK, ConnRecord
  <2>4. /\ pc'[t] = "sleep" /\ call'[t] = "kill"
        /\ \A u \in Thread : u # t => pc'[u] = pc[u] /\ call'[u] = call[u] /\ pc[u] \notin Holding
    BY <1>2, <1>f, <1>t DEF TypeOK, OwnerInv
  <2>5. TypeOK'
    BY <1>2, <1>q, <2>3, <1>t DEF TypeOK, PC, Call
  <2>6. OwnerInv'
    <3>1. \A u \in Thread : pc'[u] \in Holding => owner' = u
      BY <1>2, <1>f, <2>4
    <3>2. \/ pc'[Recycler] = "sleep" /\ call'[Recycler] = "kill"
          \/ pc'[Recycler] = pc[Recycler] /\ call'[Recycler] = call[Recycler]
      BY <2>4, PoolAssumption DEF Thread
    <3> QED
      BY <3>1, <3>2, <1>t DEF OwnerInv
  <2>7. HandshakeInv'
    <3>1. ConnInv'
      BY <1>2, <2>2, <2>3 DEF ConnInv
    <3>2. OwnerWaits'
      BY <1>2, <1>f, <2>3, <2>4 DEF OwnerWaits
    <3>3. ASSUME NEW u \in Thread PROVE WaitOk(u)'
      BY <1>2, <2>3, <2>4 DEF WaitOk, Holding, PC
    <3> QED
      BY <3>1, <3>2, <3>3 DEF HandshakeInv
  <2>8. ~Searching /\ ~Searching'
    BY <1>2, <2>1, <2>3 DEF Searching, Asked, Answered
  <2>9. PlaceOk(t)'
    BY <2>4 DEF PlaceOk
  <2> QED
    BY <1>2, <1>q, <2>1, <2>4, <2>5, <2>6, <2>7, <2>8, <2>9, NoSearch
<1> QED
  BY <1>q, <1>1, <1>2

LEMMA JoinedInv == ASSUME BgInv, NEW t \in Thread, Joined(t) PROVE BgInv'
<1>1. owner = t
  BY InvFacts DEF Joined, OwnerInv, Holding, PC
<1> QED
  BY <1>1, FreedInv DEF Joined
-----------------------------------------------------------------------------
(***************************************************************************)
(* The steps of the background thread.                                     *)
(***************************************************************************)
\* A thread stays where it is, or its wait ends.
Woken(t) ==
  \/ pc'[t] = pc[t]
  \/ pc[t] = "starting" /\ pc'[t] = "post"
  \/ pc[t] = "sleep" /\ pc'[t] = "woken"

\* What a session knows of its handler, while the thread works for it.
LEMMA PlaceWoken ==
  ASSUME NEW t \in Session, PlaceOk(t), UNCHANGED <<jobs, Target, cur, call>>, Woken(t),
         cur[t] \in Own(t) =>
           \/ hd'[cur[t]] = hd[cur[t]]
           \/ /\ hd[cur[t]].bgs_working /\ hd'[cur[t]].bgs_working
              /\ hd'[cur[t]].sql_type = hd[cur[t]].sql_type
              /\ hd'[cur[t]].bgs_phase = hd[cur[t]].bgs_phase
              /\ hd'[cur[t]].use_pre_call = hd[cur[t]].use_pre_call
              /\ hd'[cur[t]].ended = hd[cur[t]].ended
              /\ hd[cur[t]].use_pre_call \/ hd'[cur[t]].unread = hd[cur[t]].unread
  PROVE  PlaceOk(t)'
<1>1. pc'[t] \in {"create", "starting", "post"} => Preparing(t, cur[t])'
  BY DEF PlaceOk, Preparing, Writing, WithinBound, Woken
<1>2. pc'[t] \in {"await", "advance"} => Seeking(t, cur[t])'
  BY DEF PlaceOk, Seeking, WithinBound, Woken
<1> QED
  BY <1>1, <1>2 DEF PlaceOk, Writing, Own, Woken

\* Only what the thread works for can be disturbed.
LEMMA BgFrame ==
  ASSUME BgInv, UNCHANGED <<owner, cur, call, is_error, jobs, Target>>,
         TypeOK', HandshakeInv', WorkInv', OrderInv', executed' >= executed,
         \A t \in Thread : Woken(t),
         \A g \in Handler : g # Target => hd'[g] = hd[g] /\ failed'[g] = failed[g],
         Target \in Handler =>
           /\ ResultOk(Target)' /\ FailOk(Target)'
           /\ hd'[Target].sql_type = hd[Target].sql_type
           /\ \A s \in Session : cur[s] = Target /\ Target \in Own(s) => PlaceOk(s)'
  PROVE  BgInv'
<1>t. /\ TypeOK /\ OwnerInv /\ HandshakeInv /\ WorkInv
      /\ PlaceInv /\ OrderInv /\ ResultInv /\ FailInv
  BY InvFacts
<1>1. OwnerInv'
  <2>1. Recycler \in Thread
    BY DEF Thread
  <2> QED
    BY <1>t, <2>1 DEF OwnerInv, Woken, Holding, PC
<1>2. PlaceInv'
  <2> SUFFICES ASSUME NEW s \in Session PROVE PlaceOk(s)'
    BY DEF PlaceInv
  <2>1. PlaceOk(s) /\ Woken(s)
    BY <1>t, Threads DEF PlaceInv
  <2>2. CASE cur[s] = Target /\ Target \in Own(s)
    BY <2>2 DEF Own
  <2>3. CASE ~(cur[s] = Target /\ Target \in Own(s))
    <3>1. cur[s] \in Own(s) => hd'[cur[s]] = hd[cur[s]]
      BY <2>3 DEF Own
    <3> QED
      BY <2>1, <3>1, PlaceWoken
  <2> QED
    BY <2>2, <2>3
<1>3. ASSUME NEW g \in Handler, g # Target PROVE ResultOk(g)' /\ FailOk(g)'
  <2>1. /\ ResultOk(g) /\ FailOk(g) /\ ~hd[g].bgs_working /\ Woken(SessionOf[g])
        /\ SessionOf[g] \in Session /\ hd'[g] = hd[g] /\ failed'[g] = failed[g]
    BY <1>3, <1>t, SessionOfAssumption, Threads DEF ResultInv, FailInv, WorkInv
  <2>2. /\ Resetting(SessionOf[g]) => Resetting(SessionOf[g])'
        /\ \A w : AboutTo(g, w) => AboutTo(g, w)'
    BY <2>1 DEF Resetting, AboutTo, Woken
  <2>3. ResultOk(g)'
    BY <2>1, <2>2, ResultSame
  <2>4. executed \in Int /\ executed' \in Int
    BY <1>t, MaxJobAssumption DEF TypeOK, Garbage, Job
  <2>5. pc'[SessionOf[g]] = "ending" => pc[SessionOf[g]] = "ending"
    BY <2>1 DEF Woken
  <2> QED
    BY <2>1, <2>2, <2>3, <2>4, <2>5 DEF FailOk, Writing
<1>4. ResultInv'
  BY <1>3 DEF ResultInv
<1>5. FailInv'
  <2>1. \A g \in Handler : hd'[g].sql_type = hd[g].sql_type
    OBVIOUS
  <2>2. OneWriter'
    BY <1>t, <2>1 DEF FailInv, OneWriter, Writing
  <2> QED
    BY <1>3, <2>2 DEF FailInv
<1> QED
  BY <1>1, <1>2, <1>4, <1>5 DEF BgInv

\* The thread changes nothing of the handlers.
LEMMA BgCalm ==
  ASSUME BgInv, UNCHANGED <<owner, cur, call, is_error, jobs, executed, hd, failed, Target>>,
         TypeOK', HandshakeInv', WorkInv', OrderInv',
         \A t \in Thread : Woken(t),
         Searching => (bg' \in Asked <=> bg \in Asked) /\ (bg' \in Answered <=> bg \in Answered)
  PROVE  BgInv'
<1>t. TypeOK /\ WorkInv /\ PlaceInv /\ ResultInv /\ FailInv
  BY InvFacts
<1>1. executed' >= executed
  BY <1>t, MaxJobAssumption DEF TypeOK, Garbage, Job
<1>2. ASSUME NEW s \in Session PROVE PlaceOk(s)'
  BY <1>t, Threads, PlaceWoken DEF PlaceInv
<1>3. ASSUME NEW g \in Handler PROVE ResultOk(g)' /\ FailOk(g)'
  <2>1. /\ ResultOk(g) /\ FailOk(g) /\ Woken(SessionOf[g]) /\ SessionOf[g] \in Session
        /\ hd[g].bgs_working => Searching
    BY <1>t, SessionOfAssumption, Threads DEF ResultInv, FailInv, WorkInv
  <2>2. /\ Resetting(SessionOf[g]) => Resetting(SessionOf[g])'
        /\ \A w : AboutTo(g, w) => AboutTo(g, w)'
    BY <2>1 DEF Resetting, AboutTo, Woken
  <2>3. ResultOk(g)'
    BY <2>1, <2>2, ResultSame
  <2>4. pc'[SessionOf[g]] = "ending" => pc[SessionOf[g]] = "ending"
    BY <2>1 DEF Woken
  <2> QED
    BY <2>1, <2>2, <2>3, <2>4 DEF FailOk, Writing
<1> QED
  BY <1>1, <1>2, <1>3, BgFrame

\* The threads that do not have the connection wait for nothing.
LEMMA OnlyOwnerWaits ==
  ASSUME BgInv, NEW t \in Thread, owner # t
  PROVE  pc[t] \notin {"create", "starting", "sleep", "woken", "query"}
BY InvFacts DEF OwnerInv, Holding, PC

LEMMA BgStartInv == ASSUME BgInv, BgStart PROVE BgInv'
<1>t. TypeOK /\ OwnerInv /\ HandshakeInv /\ WorkInv /\ OrderInv
  BY InvFacts
<1>q. /\ bg = "starting" /\ bg' = "idle" /\ conn' = [conn EXCEPT !.bg_init = TRUE]
      /\ pc' = [t \in Thread |-> IF pc[t] = "starting" THEN "post" ELSE pc[t]]
      /\ UNCHANGED <<owner, exec_sql, cur, call, is_error, hd, jobs, executed, failed>>
  BY DEF BgStart
<1>c. /\ conn' \in ConnRecord /\ conn'.bg_init /\ conn'.bg_search = conn.bg_search
      /\ conn'.bg_kill = conn.bg_kill /\ conn'.bg_target = conn.bg_target
      /\ conn'.bg_caller_sync_wait = conn.bg_caller_sync_wait
  BY <1>q, <1>t DEF TypeOK, ConnRecord
<1>f. /\ owner \in Thread /\ pc[owner] = "starting" /\ ~conn.bg_kill
      /\ ~conn.bg_caller_sync_wait /\ ~conn.bg_search
  BY <1>q, <1>t DEF HandshakeInv, OwnerWaits, ConnInv, Asked
<1>w. \A t \in Thread : /\ pc'[t] = IF pc[t] = "starting" THEN "post" ELSE pc[t]
                        /\ Woken(t)
  BY <1>q DEF Woken
<1>1. TypeOK'
  <2>1. pc' \in [Thread -> PC]
    BY <1>q, <1>t DEF TypeOK, PC
  <2> QED
    BY <1>q, <1>c, <2>1, <1>t DEF TypeOK
<1>2. HandshakeInv'
  <2>1. ConnInv' /\ OwnerWaits'
    BY <1>q, <1>c, <1>f DEF ConnInv, OwnerWaits, Asked
  <2>2. ASSUME NEW t \in Thread PROVE WaitOk(t)'
    <3>1. pc'[t] \notin {"create", "starting", "sleep", "woken", "query"}
      BY <1>w, <1>f, OnlyOwnerWaits
    <3> QED
      BY <3>1 DEF WaitOk
  <2> QED
    BY <2>1, <2>2 DEF HandshakeInv
<1>3. ~Searching /\ ~Searching' /\ Target' = Target
  BY <1>q, <1>c DEF Searching, Target, Asked, Answered
<1>4. WorkInv'
  <2>1. \A h \in Handler : hd[h].bgs_working \in BOOLEAN
    BY <1>t DEF TypeOK, HandlerRecord
  <2> QED
    BY <1>q, <1>t, <1>3, <2>1 DEF WorkInv
<1>5. OrderInv'
  BY <1>q, <1>c, <1>t DEF OrderInv, Asked
<1> QED
  BY <1>q, <1>w, <1>1, <1>2, <1>3, <1>4, <1>5, BgCalm

\* Steps of the thread with its mutex that nobody waits for.
LEMMA BgWakeInv == ASSUME BgInv, BgWake PROVE BgInv'
<1>t. TypeOK /\ OwnerInv /\ HandshakeInv /\ WorkInv /\ OrderInv
  BY InvFacts
<1>q. /\ bg = "signalled" /\ bg' = "woken" /\ conn' = [conn EXCEPT !.bg_conn_working = TRUE]
      /\ UNCHANGED <<owner, exec_sql, pc, cur, call, is_error, hd, jobs, executed, failed>>
  BY DEF BgWake
<1>c. /\ conn' \in ConnRecord /\ conn'.bg_init = conn.bg_init /\ conn'.bg_search = conn.bg_search
      /\ conn'.bg_kill = conn.bg_kill /\ conn'.bg_target = conn.bg_target
      /\ conn'.bg_caller_sync_wait = conn.bg_caller_sync_wait /\ conn'.bg_conn_working
  BY <1>q, <1>t DEF TypeOK, ConnRecord
<1>f. owner \in Thread /\ pc[owner] = "sleep"
  BY <1>q, <1>t DEF HandshakeInv, OwnerWaits
<1>1. TypeOK'
  BY <1>q, <1>c, <1>t DEF TypeOK
<1>2. HandshakeInv'
  <2>1. ConnInv'
    BY <1>q, <1>c, <1>t DEF HandshakeInv, ConnInv, Asked
  <2>2. OwnerWaits'
    BY <1>q, <1>c, <1>t DEF HandshakeInv, OwnerWaits
  <2>3. ASSUME NEW t \in Thread PROVE WaitOk(t)'
    <3>1. WaitOk(t) /\ (t = owner \/ pc[t] \notin {"create", "starting", "sleep", "woken", "query"})
      BY <1>t, OnlyOwnerWaits DEF HandshakeInv
    <3> QED
      BY <1>q, <1>c, <1>f, <3>1 DEF WaitOk
  <2> QED
    BY <2>1, <2>2, <2>3 DEF HandshakeInv
<1>3. (Searching' <=> Searching) /\ Target' = Target
  BY <1>q, <1>c DEF Searching, Target, Asked
<1>4. WorkInv'
  BY <1>q, <1>t, <1>3 DEF WorkInv
<1>5. OrderInv'
  BY <1>q, <1>c, <1>3, <1>t DEF OrderInv, Asked
<1>w. \A t \in Thread : Woken(t)
  BY <1>q DEF Woken
<1> QED
  BY <1>q, <1>w, <1>1, <1>2, <1>3, <1>4, <1>5, BgCalm DEF Asked, Answered

LEMMA BgKillInv == ASSUME BgInv, BgKill PROVE BgInv'
<1>t. TypeOK /\ OwnerInv /\ HandshakeInv /\ WorkInv /\ OrderInv
  BY InvFacts
<1>q. /\ bg = "dispatch" /\ conn.bg_kill /\ bg' = "none"
      /\ pc' = [t \in Thread |-> IF pc[t] = "sleep" THEN "woken" ELSE pc[t]]
      /\ UNCHANGED <<owner, conn, exec_sql, cur, call, is_error, hd, jobs, executed, failed>>
  BY DEF BgKill, SignalCaller
<1>f. /\ owner \in Thread /\ call[owner] = "kill" /\ pc[owner] = "sleep"
      /\ ~conn.bg_caller_sync_wait /\ ~conn.bg_search /\ conn.bg_init
  <2>1. owner \in Thread /\ call[owner] = "kill" /\ pc[owner] \in {"sleep", "woken"}
    BY <1>q, <1>t DEF HandshakeInv, OwnerWaits
  <2>2. pc[owner] # "woken"
    BY <1>q, <1>t, <2>1 DEF HandshakeInv, WaitOk
  <2> QED
    BY <1>q, <1>t, <2>1, <2>2 DEF HandshakeInv, OwnerWaits, ConnInv
<1>w. \A t \in Thread : /\ pc'[t] = IF pc[t] = "sleep" THEN "woken" ELSE pc[t]
                        /\ Woken(t)
  BY <1>q DEF Woken
<1>1. TypeOK'
  <2>1. pc' \in [Thread -> PC]
    BY <1>q, <1>t DEF TypeOK, PC
  <2> QED
    BY <1>q, <2>1, <1>t DEF TypeOK
<1>2. HandshakeInv'
  <2>1. ConnInv' /\ OwnerWaits'
    BY <1>q, <1>f, <1>w DEF ConnInv, OwnerWaits, Asked
  <2>2. ASSUME NEW t \in Thread PROVE WaitOk(t)'
    <3>1. t = owner \/ pc'[t] \notin {"create", "starting", "sleep", "woken", "query"}
      BY <1>w, OnlyOwnerWaits
    <3> QED
      BY <1>q, <1>f, <1>w, <3>1 DEF WaitOk
  <2> QED
    BY <2>1, <2>2 DEF HandshakeInv
<1>3. ~Searching /\ ~Searching' /\ Target' = Target
  BY <1>q DEF Searching, Target
<1>4. WorkInv'
  <2>1. \A h \in Handler : hd[h].bgs_working \in BOOLEAN
    BY <1>t DEF TypeOK, HandlerRecord
  <2> QED
    BY <1>q, <1>t, <1>3, <2>1 DEF WorkInv
<1>5. OrderInv'
  BY <1>q, <1>t DEF OrderInv, Asked
<1> QED
  BY <1>q, <1>w, <1>1, <1>2, <1>3, <1>4, <1>5, BgCalm

\* From the dispatch of a search to the next wait nobody sleeps: the caller has
\* its answer, and nobody frees the connection.
Executing == {"dispatch", "exec", "executed", "done", "finished", "parking"}

LEMMA NobodySleeps ==
  ASSUME BgInv, bg \in Executing, ~conn.bg_kill
  PROVE  /\ \A t \in Thread : /\ pc[t] \notin {"create", "starting", "sleep"}
                              /\ pc[t] = "woken" => call[t] # "kill"
         /\ conn.bg_init /\ conn.bg_conn_working
BY InvFacts DEF HandshakeInv, WaitOk, ConnInv, Executing

LEMMA HandshakeBusy ==
  ASSUME BgInv, bg \in Executing, ~conn.bg_kill, UNCHANGED <<owner, pc, call>>,
         bg' \in (Executing \ {"dispatch"}) \cup {"idle"},
         conn'.bg_init = conn.bg_init, ~conn'.bg_kill,
         conn'.bg_caller_sync_wait = conn.bg_caller_sync_wait,
         bg' # "idle" => conn'.bg_conn_working = conn.bg_conn_working,
         conn'.bg_search <=> bg' \in {"exec", "executed"},
         conn'.bg_search => conn.bg_search
  PROVE  HandshakeInv'
<1>t. HandshakeInv
  BY InvFacts
<1>1. ConnInv'
  BY NobodySleeps DEF ConnInv, Asked, Executing
<1>2. OwnerWaits'
  BY <1>t DEF HandshakeInv, OwnerWaits, Executing
<1>3. ASSUME NEW t \in Thread PROVE WaitOk(t)'
  BY <1>t, NobodySleeps DEF HandshakeInv, WaitOk
<1> QED
  BY <1>1, <1>2, <1>3 DEF HandshakeInv

\* The steps after the statement that leave the handlers alone.
LEMMA BgAfterInv == ASSUME BgInv, BgSearchOver \/ BgFinish \/ BgPark PROVE BgInv'
<1>t. TypeOK /\ OwnerInv /\ HandshakeInv /\ WorkInv /\ OrderInv
  BY InvFacts
<1>f. bg \in {"executed", "finished", "parking"} /\ bg \in Executing /\ ~conn.bg_kill
  BY <1>t DEF HandshakeInv, ConnInv, BgSearchOver, BgFinish, BgPark, Executing
<1>p. SignalCaller => UNCHANGED pc
  BY <1>t, <1>f, NobodySleeps DEF SignalCaller, TypeOK
<1>q. /\ UNCHANGED <<owner, exec_sql, pc, cur, call, is_error, hd, jobs, executed, failed>>
      /\ \/ bg = "executed" /\ bg' = "done" /\ conn' = [conn EXCEPT !.bg_search = FALSE]
         \/ bg = "finished" /\ bg' = "parking" /\ conn' = [conn EXCEPT !.bg_conn_finish_exec = TRUE]
         \/ bg = "parking" /\ bg' = "idle" /\ conn' = [conn EXCEPT !.bg_conn_working = FALSE]
  BY <1>p DEF BgSearchOver, BgFinish, BgPark
<1>c. /\ conn' \in ConnRecord /\ conn'.bg_init = conn.bg_init
      /\ conn'.bg_kill = conn.bg_kill /\ conn'.bg_target = conn.bg_target
      /\ conn'.bg_caller_sync_wait = conn.bg_caller_sync_wait
      /\ bg' # "idle" => conn'.bg_conn_working = conn.bg_conn_working
      /\ bg' = "done" => ~conn'.bg_search
      /\ bg' # "done" => conn'.bg_search = conn.bg_search
  BY <1>q, <1>t DEF TypeOK, ConnRecord
<1>1. TypeOK'
  BY <1>q, <1>c, <1>t DEF TypeOK
<1>2. HandshakeInv'
  <2>1. bg \in {"finished", "parking"} => ~conn.bg_search
    BY <1>t DEF HandshakeInv, ConnInv, Asked
  <2> QED
    BY <1>q, <1>c, <1>f, <2>1, HandshakeBusy DEF Executing
<1>3. (Searching' <=> Searching) /\ Target' = Target
  BY <1>q, <1>c DEF Searching, Target, Asked, Answered
<1>4. WorkInv'
  BY <1>q, <1>t, <1>3 DEF WorkInv
<1>5. OrderInv'
  BY <1>q, <1>c, <1>t DEF OrderInv, Asked
<1>w. \A t \in Thread : Woken(t)
  BY <1>q DEF Woken
<1>6. Searching => (bg' \in Asked <=> bg \in Asked) /\ (bg' \in Answered <=> bg \in Answered)
  BY <1>q DEF Searching, Asked, Answered
<1> QED
  BY <1>q, <1>w, <1>1, <1>2, <1>3, <1>4, <1>5, <1>6, BgCalm

\* The statement that is on its way.
LEMMA TargetFacts ==
  ASSUME BgInv, Searching
  PROVE  /\ Target \in Handler /\ hd[Target].bgs_working /\ hd[Target].sql_type # "none"
         /\ hd[Target] \in HandlerRecord /\ SessionOf[Target] \in Session
         /\ ResultOk(Target) /\ FailOk(Target)
         /\ \A g \in Handler : g # Target => ~hd[g].bgs_working
BY InvFacts, SessionOfAssumption DEF WorkInv, TypeOK, ResultInv, FailInv

\* The thread forgets the error of the statement before.
LEMMA ErrorCleared ==
  ASSUME BgInv, Searching, Searching', bg \in Asked, bg' \in Asked, NEW h, h = Target,
         hd' = [hd EXCEPT ![h].bgs_error = "none"],
         UNCHANGED <<cur, call, is_error, jobs, executed, failed, Target>>,
         \A t \in Thread : Woken(t)
  PROVE  /\ hd' \in [Handler -> HandlerRecord] /\ WorkInv'
         /\ hd'[h].sql_type = hd[h].sql_type /\ hd'[h].sql = hd[h].sql
         /\ ResultOk(h)' /\ FailOk(h)'
         /\ \A g \in Handler : g # h => hd'[g] = hd[g]
         /\ \A s \in Session : cur[s] = h /\ h \in Own(s) => PlaceOk(s)'
<1>t. TypeOK /\ WorkInv /\ PlaceInv /\ OrderInv /\ ResultInv /\ FailInv
  BY InvFacts
<1>f. /\ h \in Handler /\ hd[h].bgs_working /\ hd[h].sql_type # "none"
      /\ hd[h] \in HandlerRecord /\ SessionOf[h] \in Session /\ ResultOk(h) /\ FailOk(h)
  BY TargetFacts
<1>h. /\ hd' \in [Handler -> HandlerRecord]
      /\ \A g \in Handler : g # h => hd'[g] = hd[g]
      /\ hd'[h].bgs_error = "none" /\ hd'[h].bgs_working = hd[h].bgs_working
      /\ hd'[h].sql = hd[h].sql /\ hd'[h].sql_type = hd[h].sql_type
      /\ hd'[h].bgs_phase = hd[h].bgs_phase /\ hd'[h].use_pre_call = hd[h].use_pre_call
      /\ hd'[h].finish_flg = hd[h].finish_flg /\ hd'[h].ended = hd[h].ended
      /\ hd'[h].quick3 = hd[h].quick3
      /\ hd'[h].ahead = hd[h].ahead /\ hd'[h].unread = hd[h].unread
  <2> DEFINE r == [hd[h] EXCEPT !.bgs_error = "none"]
  <2>1. r \in HandlerRecord
    BY <1>f DEF HandlerRecord
  <2>2. hd' = [hd EXCEPT ![h] = r]
    OBVIOUS
  <2>3. /\ hd' \in [Handler -> HandlerRecord] /\ hd'[h] = r
        /\ \A g \in Handler : g # h => hd'[g] = hd[g]
    <3> HIDE DEF r
    <3> QED
      BY <1>f, <1>t, <2>1, <2>2, NewRecord DEF TypeOK
  <2> QED
    BY <1>f, <2>3 DEF HandlerRecord
<1>1. WorkInv'
  <2>1. \A g \in Handler : hd'[g].bgs_working = hd[g].bgs_working
    BY <1>h
  <2> QED
    BY <1>f, <1>h, <1>t, <2>1 DEF WorkInv
<1>w. Woken(SessionOf[h])
  BY <1>f, Threads
<1>2. ResultOk(h)'
  <2>1. ~HasAnswer(h) /\ ~HasAnswer(h)' /\ bg \notin Answered /\ bg' \notin Answered
    BY <1>f, <1>h DEF HasAnswer, Asked, Answered
  <2>2. hd[h].sql_type = "select" => SelectOk(h)'
    BY <1>f, <1>h, <2>1 DEF ResultOk, SelectOk
  <2> QED
    BY <1>f, <1>h, <2>2 DEF ResultOk, Writing
<1>3. FailOk(h)'
  <2>1. jobs \notin failed[h]
    <3>1. executed = jobs - 1
      BY <1>t DEF OrderInv, Searching
    <3> QED
      BY <1>f, <1>t, <3>1, MaxJobAssumption DEF FailOk, TypeOK
  <2>2. pc'[SessionOf[h]] = "ending" => pc[SessionOf[h]] = "ending"
    BY <1>w DEF Woken
  <2> QED
    BY <1>f, <1>h, <2>1, <2>2 DEF FailOk, Writing
<1>4. ASSUME NEW s \in Session, cur[s] = h, h \in Own(s) PROVE PlaceOk(s)'
  <2>1. PlaceOk(s) /\ Woken(s)
    BY <1>t, Threads DEF PlaceInv
  <2> QED
    BY <1>f, <1>h, <1>4, <2>1, PlaceWoken
<1> QED
  BY <1>h, <1>1, <1>2, <1>3, <1>4

LEMMA BgBeginInv == ASSUME BgInv, BgBegin PROVE BgInv'
<1>t. TypeOK /\ OwnerInv /\ HandshakeInv /\ WorkInv /\ OrderInv
  BY InvFacts
<1>p. PICK h : h = Target
  OBVIOUS
<1>q. /\ bg = "dispatch" /\ ~conn.bg_kill /\ conn.bg_search /\ bg' = "exec"
      /\ hd' = [hd EXCEPT ![h].bgs_error = "none"]
      /\ exec_sql' = IF hd[h].sql_type = "insert" THEN exec_sql ELSE hd[h].sql
      /\ UNCHANGED <<owner, conn, pc, cur, call, is_error, jobs, executed, failed>>
  BY <1>p DEF BgBegin
<1>1. /\ Searching /\ Searching' /\ bg \in Asked /\ bg' \in Asked /\ Target' = Target
      /\ \A t \in Thread : Woken(t)
  BY <1>q DEF Searching, Asked, Target, Woken
<1>h. /\ hd' \in [Handler -> HandlerRecord] /\ WorkInv'
      /\ hd'[h].sql_type = hd[h].sql_type /\ hd'[h].sql = hd[h].sql
      /\ ResultOk(h)' /\ FailOk(h)'
      /\ \A g \in Handler : g # h => hd'[g] = hd[g]
      /\ \A s \in Session : cur[s] = h /\ h \in Own(s) => PlaceOk(s)'
  BY <1>p, <1>q, <1>1, ErrorCleared
<1>2. exec_sql' = jobs
  BY <1>p, <1>q, <1>t DEF OrderInv
<1>3. TypeOK'
  <2>1. exec_sql' \in {Garbage} \cup Job
    BY <1>2, <1>t, MaxJobAssumption DEF TypeOK, Garbage, Job
  <2> QED
    BY <1>q, <1>h, <2>1, <1>t DEF TypeOK
<1>4. HandshakeInv'
  BY <1>q, HandshakeBusy DEF Executing
<1>5. OrderInv'
  BY <1>q, <1>2, <1>t DEF OrderInv, Asked
<1>6. executed' >= executed
  BY <1>q, <1>t, MaxJobAssumption DEF TypeOK, Garbage, Job
<1> QED
  BY <1>p, <1>q, <1>1, <1>h, <1>3, <1>4, <1>5, <1>6, BgFrame

\* The caller is answered.
LEMMA BgRespondInv == ASSUME BgInv, BgRespond PROVE BgInv'
<1>t. TypeOK /\ OwnerInv /\ HandshakeInv /\ WorkInv /\ OrderInv
  BY InvFacts
<1>p. PICK h : h = Target
  OBVIOUS
<1>q. /\ bg = "woken" /\ bg' = "dispatch"
      /\ UNCHANGED <<owner, conn, cur, call, is_error, jobs, executed, failed>>
      /\ \/ /\ conn.bg_caller_sync_wait
            /\ \/ /\ hd[h].sql_type = "insert"
                  /\ hd' = [hd EXCEPT ![h].bgs_error = "none"] /\ exec_sql' = hd[h].sql
               \/ hd[h].sql_type # "insert" /\ UNCHANGED <<hd, exec_sql>>
            /\ pc' = [t \in Thread |-> IF pc[t] = "sleep" THEN "woken" ELSE pc[t]]
         \/ ~conn.bg_caller_sync_wait /\ UNCHANGED <<hd, exec_sql, pc>>
  BY <1>p DEF BgRespond, SignalCaller
<1>f. /\ owner \in Thread /\ pc[owner] = "sleep"
      /\ conn.bg_caller_sync_wait <=> ~conn.bg_kill
      /\ conn.bg_kill <=> call[owner] = "kill"
  <2>1. owner \in Thread /\ pc[owner] = "sleep"
    BY <1>q, <1>t DEF HandshakeInv, OwnerWaits
  <2>2. WaitOk(owner)
    BY <1>t, <2>1 DEF HandshakeInv
  <2>3. conn.bg_kill \in BOOLEAN /\ conn.bg_caller_sync_wait \in BOOLEAN
    BY <1>t DEF TypeOK, ConnRecord
  <2>4. call[owner] = "kill" => conn.bg_kill /\ ~conn.bg_caller_sync_wait
    BY <1>t, <2>1, <2>2 DEF HandshakeInv, OwnerWaits, WaitOk
  <2>5. call[owner] # "kill" => ~conn.bg_kill /\ conn.bg_caller_sync_wait
    BY <2>1, <2>2 DEF WaitOk
  <2> QED
    BY <2>1, <2>3, <2>4, <2>5
<1>1. (Searching <=> ~conn.bg_kill) /\ (Searching' <=> Searching) /\ Target' = Target
  BY <1>q DEF Searching, Asked, Target
<1>2. ConnInv'
  BY <1>q, <1>t DEF HandshakeInv, ConnInv, Asked
<1>3. Searching => (bg' \in Asked <=> bg \in Asked) /\ (bg' \in Answered <=> bg \in Answered)
  BY <1>q DEF Asked, Answered
<1>4. CASE ~conn.bg_caller_sync_wait /\ UNCHANGED <<hd, exec_sql, pc>>
  <2>1. TypeOK'
    BY <1>4, <1>q, <1>t DEF TypeOK
  <2>2. OwnerWaits'
    BY <1>4, <1>q, <1>t DEF HandshakeInv, OwnerWaits
  <2>3. ASSUME NEW t \in Thread PROVE WaitOk(t)'
    <3>1. WaitOk(t) /\ (t = owner \/ pc[t] \notin {"create", "starting", "sleep", "woken", "query"})
      BY <1>t, OnlyOwnerWaits DEF HandshakeInv
    <3> QED
      BY <1>4, <1>q, <1>f, <3>1 DEF WaitOk
  <2>4. HandshakeInv'
    BY <1>2, <2>2, <2>3 DEF HandshakeInv
  <2>5. WorkInv' /\ OrderInv'
    <3>1. WorkInv'
      BY <1>4, <1>q, <1>t, <1>1 DEF WorkInv
    <3>2. OrderInv'
      BY <1>4, <1>q, <1>f, <1>t DEF OrderInv, Asked
    <3> QED
      BY <3>1, <3>2
  <2>6. \A t \in Thread : Woken(t)
    BY <1>4 DEF Woken
  <2> QED
    BY <1>4, <1>q, <1>1, <1>3, <2>1, <2>4, <2>5, <2>6, BgCalm
<1>5. CASE /\ conn.bg_caller_sync_wait
           /\ pc' = [t \in Thread |-> IF pc[t] = "sleep" THEN "woken" ELSE pc[t]]
           /\ \/ /\ hd[h].sql_type = "insert"
                 /\ hd' = [hd EXCEPT ![h].bgs_error = "none"] /\ exec_sql' = hd[h].sql
              \/ hd[h].sql_type # "insert" /\ UNCHANGED <<hd, exec_sql>>
  <2>s. Searching /\ ~conn.bg_kill /\ call[owner] # "kill"
    BY <1>5, <1>f, <1>1
  <2>w. \A t \in Thread : /\ pc'[t] = IF pc[t] = "sleep" THEN "woken" ELSE pc[t]
                          /\ Woken(t)
    BY <1>5 DEF Woken
  <2>1. pc' \in [Thread -> PC]
    BY <1>5, <1>t DEF TypeOK, PC
  <2>2. HandshakeInv'
    <3>1. OwnerWaits'
      BY <1>q, <1>f, <2>s, <2>w DEF OwnerWaits
    <3>2. ASSUME NEW t \in Thread PROVE WaitOk(t)'
      <4>1. t = owner \/ pc'[t] \notin {"create", "starting", "sleep", "woken", "query"}
        BY <2>w, OnlyOwnerWaits
      <4> QED
        BY <1>q, <1>f, <2>s, <2>w, <4>1 DEF WaitOk
    <3> QED
      BY <1>2, <3>1, <3>2 DEF HandshakeInv
  <2>3. hd[h].sql = jobs
    BY <1>p, <1>q, <2>s, <1>t DEF OrderInv
  <2>4. CASE hd[h].sql_type # "insert" /\ UNCHANGED <<hd, exec_sql>>
    <3>1. TypeOK'
      BY <2>4, <2>1, <1>q, <1>t DEF TypeOK
    <3>2. WorkInv'
      BY <2>4, <1>q, <1>t, <1>1 DEF WorkInv
    <3>3. OrderInv'
      BY <2>4, <2>3, <1>p, <1>q, <1>1, <1>t DEF OrderInv, Asked
    <3> QED
      BY <2>4, <2>2, <2>w, <1>q, <1>1, <1>3, <3>1, <3>2, <3>3, BgCalm
  <2>5. CASE /\ hd[h].sql_type = "insert"
             /\ hd' = [hd EXCEPT ![h].bgs_error = "none"] /\ exec_sql' = hd[h].sql
    <3>1. bg \in Asked /\ bg' \in Asked
      BY <1>q DEF Asked
    <3>h. /\ hd' \in [Handler -> HandlerRecord] /\ WorkInv'
          /\ hd'[h].sql_type = hd[h].sql_type /\ hd'[h].sql = hd[h].sql
          /\ ResultOk(h)' /\ FailOk(h)'
          /\ \A g \in Handler : g # h => hd'[g] = hd[g]
          /\ \A s \in Session : cur[s] = h /\ h \in Own(s) => PlaceOk(s)'
      BY <1>p, <1>q, <1>1, <2>s, <2>w, <2>5, <3>1, ErrorCleared
    <3>2. TypeOK'
      <4>1. exec_sql' \in {Garbage} \cup Job
        BY <2>3, <2>5, <1>t, MaxJobAssumption DEF TypeOK, Garbage, Job
      <4> QED
        BY <1>q, <2>1, <3>h, <4>1, <1>t DEF TypeOK
    <3>3. OrderInv'
      BY <2>3, <2>5, <3>h, <1>p, <1>q, <1>1, <1>t DEF OrderInv, Asked
    <3>4. executed' >= executed
      BY <1>q, <1>t, MaxJobAssumption DEF TypeOK, Garbage, Job
    <3> QED
      BY <1>p, <1>q, <1>1, <2>2, <2>w, <3>h, <3>2, <3>3, <3>4, BgFrame
  <2> QED
    BY <1>5, <2>4, <2>5
<1> QED
  BY <1>q, <1>4, <1>5

\* bgs_working is cleared: the session may use the result.
LEMMA BgWorkOverInv == ASSUME BgInv, BgWorkOver PROVE BgInv'
<1>t. TypeOK /\ OwnerInv /\ HandshakeInv /\ WorkInv /\ PlaceInv /\ OrderInv
  BY InvFacts
<1>p. PICK h : h = Target
  OBVIOUS
<1>q. /\ bg = "done" /\ bg' = "finished"
      /\ hd' = [hd EXCEPT ![h].bgs_working = FALSE]
      /\ UNCHANGED <<owner, conn, exec_sql, pc, cur, call, is_error, jobs, executed, failed>>
  BY <1>p DEF BgWorkOver
<1>k. ~conn.bg_kill /\ ~conn.bg_search
  BY <1>q, <1>t DEF HandshakeInv, ConnInv, Asked
<1>1. /\ Searching /\ ~Searching' /\ Target' = Target /\ bg \in Answered /\ bg \notin Asked
      /\ \A t \in Thread : Woken(t)
  BY <1>q, <1>k DEF Searching, Asked, Answered, Target, Woken
<1>f. /\ h \in Handler /\ hd[h].bgs_working /\ hd[h].sql_type # "none"
      /\ hd[h] \in HandlerRecord /\ SessionOf[h] \in Session /\ ResultOk(h) /\ FailOk(h)
      /\ \A g \in Handler : g # h => ~hd[g].bgs_working
  BY <1>p, <1>1, TargetFacts
<1>h. /\ hd' \in [Handler -> HandlerRecord]
      /\ \A g \in Handler : g # h => hd'[g] = hd[g]
      /\ ~hd'[h].bgs_working /\ hd'[h].bgs_error = hd[h].bgs_error
      /\ hd'[h].sql = hd[h].sql /\ hd'[h].sql_type = hd[h].sql_type
      /\ hd'[h].bgs_phase = hd[h].bgs_phase /\ hd'[h].use_pre_call = hd[h].use_pre_call
      /\ hd'[h].finish_flg = hd[h].finish_flg /\ hd'[h].ended = hd[h].ended
      /\ hd'[h].quick3 = hd[h].quick3
      /\ hd'[h].ahead = hd[h].ahead /\ hd'[h].unread = hd[h].unread
  <2> DEFINE r == [hd[h] EXCEPT !.bgs_working = FALSE]
  <2>1. r \in HandlerRecord
    BY <1>f DEF HandlerRecord
  <2>2. hd' = [hd EXCEPT ![h] = r]
    BY <1>q
  <2>3. /\ hd' \in [Handler -> HandlerRecord] /\ hd'[h] = r
        /\ \A g \in Handler : g # h => hd'[g] = hd[g]
    <3> HIDE DEF r
    <3> QED
      BY <1>f, <1>t, <2>1, <2>2, NewRecord DEF TypeOK
  <2> QED
    BY <1>f, <2>3 DEF HandlerRecord
<1>2. TypeOK'
  BY <1>q, <1>h, <1>t DEF TypeOK
<1>3. HandshakeInv'
  BY <1>q, <1>k, HandshakeBusy DEF Executing
<1>4. WorkInv'
  <2>1. \A g \in Handler : ~hd'[g].bgs_working /\ hd'[g].bgs_working \in BOOLEAN
    BY <1>f, <1>h DEF HandlerRecord
  <2> QED
    BY <1>1, <2>1 DEF WorkInv
<1>5. OrderInv'
  BY <1>q, <1>t DEF OrderInv, Asked
<1>6. ResultOk(h)'
  <2>1. HasAnswer(h) /\ HasAnswer(h)'
    BY <1>1, <1>h DEF HasAnswer
  <2>2. \A w : AboutTo(h, w)' = AboutTo(h, w)
    BY <1>q DEF AboutTo
  <2>3. Resetting(SessionOf[h])' = Resetting(SessionOf[h])
    BY <1>q DEF Resetting
  <2>4. hd[h].sql_type = "select" => SelectOk(h)'
    BY <1>f, <1>h, <2>1, <2>2, <2>3 DEF ResultOk, SelectOk
  <2> QED
    BY <1>f, <1>h, <2>4 DEF ResultOk, Writing
<1>7. FailOk(h)'
  BY <1>q, <1>f, <1>h DEF FailOk, Writing, Resetting
<1>8. ASSUME NEW s \in Session, cur[s] = h, h \in Own(s) PROVE PlaceOk(s)'
  <2>1. PlaceOk(s) /\ SessionOf[h] = s
    BY <1>t, <1>8 DEF PlaceInv, Own
  <2>2. pc[s] \in {"create", "starting", "post"} => Preparing(s, cur[s])'
    BY <1>q, <1>f, <1>h, <1>8, <2>1 DEF PlaceOk, Preparing, Writing, WithinBound
  <2>3. ASSUME pc[s] \in {"await", "advance"} PROVE Seeking(s, cur[s])'
    <3>1. Seeking(s, h) /\ ~Resetting(s)
      BY <1>8, <2>1, <2>3 DEF PlaceOk, Resetting
    <3>2. hd[h].bgs_error = "none" => hd[h].ahead = 1
      BY <1>f, <1>1, <2>1, <3>1 DEF ResultOk, SelectOk, Seeking
    <3> QED
      BY <1>q, <1>f, <1>h, <1>8, <3>1, <3>2 DEF Seeking, WithinBound
  <2> QED
    BY <1>q, <1>h, <1>1, <1>8, <2>1, <2>2, <2>3 DEF PlaceOk, Writing, Own
<1>9. executed' >= executed
  BY <1>q, <1>t, MaxJobAssumption DEF TypeOK, Garbage, Job
<1> QED
  BY <1>p, <1>q, <1>1, <1>h, <1>2, <1>3, <1>4, <1>5, <1>6, <1>7, <1>8, <1>9, BgFrame

\* What the execution of a statement may make of the handler's record r.
LEMMA StoreOk ==
  ASSUME NEW r \in HandlerRecord, NEW o \in {"more", "last", "eof"}
  PROVE  /\ Store(r, o) \in HandlerRecord
         /\ Store(r, o).bgs_working = r.bgs_working /\ Store(r, o).sql = r.sql
         /\ Store(r, o).sql_type = r.sql_type /\ Store(r, o).bgs_phase = r.bgs_phase
         /\ Store(r, o).use_pre_call = r.use_pre_call /\ Store(r, o).ended = r.ended
         /\ Store(r, o).quick3 = r.quick3
         /\ Store(r, o).bgs_error = (IF o = "eof" THEN "eof" ELSE "none")
         /\ Store(r, o).finish_flg = (r.finish_flg \/ o # "more")
         /\ Store(r, o).ahead = (IF r.bgs_phase = 1 THEN r.ahead ELSE 1)
         /\ Store(r, o).unread = (r.unread \/ (r.bgs_phase = 1 /\ o # "eof"))
<1>1. /\ r.bgs_error \in {"none", "eof", "error"} /\ r.finish_flg \in BOOLEAN
      /\ r.ahead \in 0..1 /\ r.unread \in BOOLEAN
  BY DEF HandlerRecord
<1> DEFINE a == [r EXCEPT !.bgs_error = IF o = "eof" THEN "eof" ELSE "none"]
           b == [a EXCEPT !.finish_flg = r.finish_flg \/ o # "more"]
           c == [b EXCEPT !.ahead = IF r.bgs_phase = 1 THEN r.ahead ELSE 1]
           d == [c EXCEPT !.unread = r.unread \/ (r.bgs_phase = 1 /\ o # "eof")]
<1>2. a \in HandlerRecord
  BY DEF HandlerRecord
<1>3. b \in HandlerRecord
  <2> HIDE DEF a
  <2>1. (r.finish_flg \/ o # "more") \in BOOLEAN
    OBVIOUS
  <2> QED
    BY <1>2, <2>1 DEF HandlerRecord
<1>4. c \in HandlerRecord
  <2> HIDE DEF b
  <2> QED
    BY <1>1, <1>3 DEF HandlerRecord
<1>5. d \in HandlerRecord
  <2> HIDE DEF c
  <2>1. (r.unread \/ (r.bgs_phase = 1 /\ o # "eof")) \in BOOLEAN
    OBVIOUS
  <2> QED
    BY <1>4, <2>1 DEF HandlerRecord
<1>6. Store(r, o) = d
  BY DEF Store, HandlerRecord
<1> QED
  BY <1>5, <1>6 DEF HandlerRecord

\* The statement is executed.
LEMMA BgExecInv == ASSUME BgInv, BgExec PROVE BgInv'
<1>t. TypeOK /\ OwnerInv /\ HandshakeInv /\ WorkInv /\ PlaceInv /\ OrderInv
  BY InvFacts
<1>p. PICK h : h = Target
  OBVIOUS
<1>q. /\ bg = "exec" /\ bg' = "executed" /\ executed' = exec_sql
      /\ UNCHANGED <<owner, conn, exec_sql, pc, cur, call, is_error, jobs>>
      /\ \/ /\ hd' = [hd EXCEPT ![h].bgs_error = "error"]
            /\ failed' = IF Writing(h)
                         THEN [failed EXCEPT ![h] = @ \cup ({exec_sql} \ {Garbage})]
                         ELSE failed
         \/ \E o \in {"more", "last", "eof"} :
              /\ Writing(h) => o = "eof"
              /\ hd' = [hd EXCEPT ![h] = Store(hd[h], o)]
              /\ UNCHANGED failed
  BY <1>p DEF BgExec
<1>k. ~conn.bg_kill /\ conn.bg_search
  BY <1>q, <1>t DEF HandshakeInv, ConnInv, Asked
<1>1. /\ Searching /\ Searching' /\ Target' = Target /\ bg \in Asked
      /\ bg' \in Answered /\ bg' \notin Asked /\ \A t \in Thread : Woken(t)
  BY <1>q, <1>k DEF Searching, Asked, Answered, Target, Woken
<1>f. /\ h \in Handler /\ hd[h].bgs_working /\ hd[h].sql_type # "none"
      /\ hd[h] \in HandlerRecord /\ SessionOf[h] \in Session /\ ResultOk(h) /\ FailOk(h)
      /\ \A g \in Handler : g # h => ~hd[g].bgs_working
  BY <1>p, <1>1, TargetFacts
<1>j. /\ exec_sql = jobs /\ executed = jobs - 1 /\ executed' = jobs
      /\ jobs \in Job /\ jobs # Garbage
  BY <1>q, <1>k, <1>t, MaxJobAssumption DEF OrderInv, Asked, TypeOK, Garbage, Job
<1>e. PICK r \in HandlerRecord :
        /\ hd' = [hd EXCEPT ![h] = r]
        /\ r.bgs_working = hd[h].bgs_working /\ r.sql = hd[h].sql
        /\ r.sql_type = hd[h].sql_type /\ r.bgs_phase = hd[h].bgs_phase
        /\ r.use_pre_call = hd[h].use_pre_call /\ r.ended = hd[h].ended
        /\ r.quick3 = hd[h].quick3
        /\ \/ /\ r.bgs_error = "error" /\ r.finish_flg = hd[h].finish_flg
              /\ r.ahead = hd[h].ahead /\ r.unread = hd[h].unread
              /\ failed' = IF Writing(h) THEN [failed EXCEPT ![h] = @ \cup {jobs}] ELSE failed
           \/ \E o \in {"more", "last", "eof"} :
              /\ Writing(h) => o = "eof"
              /\ r.bgs_error = (IF o = "eof" THEN "eof" ELSE "none")
              /\ r.finish_flg = (hd[h].finish_flg \/ o # "more")
              /\ r.ahead = (IF hd[h].bgs_phase = 1 THEN hd[h].ahead ELSE 1)
              /\ r.unread = (hd[h].unread \/ (hd[h].bgs_phase = 1 /\ o # "eof"))
              /\ UNCHANGED failed
  <2>1. CASE /\ hd' = [hd EXCEPT ![h].bgs_error = "error"]
             /\ failed' = IF Writing(h)
                         THEN [failed EXCEPT ![h] = @ \cup ({exec_sql} \ {Garbage})]
                         ELSE failed
    <3> DEFINE r == [hd[h] EXCEPT !.bgs_error = "error"]
    <3>1. r \in HandlerRecord
      BY <1>f DEF HandlerRecord
    <3>2. hd' = [hd EXCEPT ![h] = r]
      BY <2>1
    <3>3. {exec_sql} \ {Garbage} = {jobs}
      BY <1>j
    <3>4. failed' = IF Writing(h) THEN [failed EXCEPT ![h] = @ \cup {jobs}] ELSE failed
      BY <2>1, <3>3
    <3> WITNESS r \in HandlerRecord
    <3> QED
      BY <1>f, <3>2, <3>4 DEF HandlerRecord
  <2>2. CASE \E o \in {"more", "last", "eof"} :
              /\ Writing(h) => o = "eof"
              /\ hd' = [hd EXCEPT ![h] = Store(hd[h], o)]
              /\ UNCHANGED failed
    <3>1. PICK o \in {"more", "last", "eof"} :
              /\ Writing(h) => o = "eof"
              /\ hd' = [hd EXCEPT ![h] = Store(hd[h], o)]
              /\ UNCHANGED failed
      BY <2>2
    <3>2. PICK r : r = Store(hd[h], o)
      OBVIOUS
    <3>3. /\ r \in HandlerRecord
          /\ r.bgs_working = hd[h].bgs_working /\ r.sql = hd[h].sql
          /\ r.sql_type = hd[h].sql_type /\ r.bgs_phase = hd[h].bgs_phase
          /\ r.use_pre_call = hd[h].use_pre_call /\ r.ended = hd[h].ended
          /\ r.quick3 = hd[h].quick3
          /\ r.bgs_error = (IF o = "eof" THEN "eof" ELSE "none")
          /\ r.finish_flg = (hd[h].finish_flg \/ o # "more")
          /\ r.ahead = (IF hd[h].bgs_phase = 1 THEN hd[h].ahead ELSE 1)
          /\ r.unread = (hd[h].unread \/ (hd[h].bgs_phase = 1 /\ o # "eof"))
      <4>1. PICK x \in HandlerRecord : x = hd[h]
        BY <1>f
      <4>2. r = Store(x, o)
        BY <3>2, <4>1
      <4> QED
        BY <4>1, <4>2, StoreOk
    <3> QED
      BY <3>1, <3>2, <3>3
  <2> QED
    BY <1>q, <2>1, <2>2
<1>h. /\ hd' \in [Handler -> HandlerRecord] /\ hd'[h] = r
      /\ \A g \in Handler : g # h => hd'[g] = hd[g]
  BY <1>e, <1>f, <1>t, NewRecord DEF TypeOK
<1>d. /\ failed' \in [Handler -> SUBSET Job]
      /\ \A g \in Handler : g # h => failed'[g] = failed[g]
      /\ \/ failed'[h] = failed[h]
         \/ failed'[h] = failed[h] \cup {jobs} /\ r.bgs_error = "error"
  <2>1. failed \in [Handler -> SUBSET Job]
    BY <1>t DEF TypeOK
  <2>2. CASE failed' = failed
    BY <2>1, <2>2
  <2>3. CASE failed' = [failed EXCEPT ![h] = @ \cup {jobs}] /\ r.bgs_error = "error"
    <3>1. failed[h] \cup {jobs} \in SUBSET Job
      BY <1>f, <1>j, <2>1
    <3> QED
      BY <1>f, <2>1, <2>3, <3>1
  <2> QED
    BY <1>e, <2>2, <2>3
<1>2. TypeOK'
  <2>1. executed' \in {Garbage} \cup Job
    BY <1>j
  <2> QED
    BY <1>q, <1>h, <1>d, <2>1, <1>t DEF TypeOK
<1>3. HandshakeInv'
  BY <1>q, <1>k, HandshakeBusy DEF Executing
<1>4. WorkInv'
  <2>1. \A g \in Handler : hd'[g].bgs_working = hd[g].bgs_working
    BY <1>e, <1>h
  <2> QED
    BY <1>f, <1>h, <1>e, <1>p, <1>1, <1>t, <2>1 DEF WorkInv
<1>5. OrderInv'
  BY <1>q, <1>j DEF OrderInv, Asked
<1>6. ResultOk(h)'
  <2>2. \A w : AboutTo(h, w)' = AboutTo(h, w)
    BY <1>q DEF AboutTo
  <2>3. Resetting(SessionOf[h])' = Resetting(SessionOf[h])
    BY <1>q DEF Resetting
  <2>4. hd[h].sql_type = "select" => SelectOk(h)'
    <3>1. hd[h].sql_type = "select" =>
            /\ ~hd[h].finish_flg /\ hd[h].bgs_phase >= 1
            /\ hd[h].ended => hd[h].quick3 /\ ~hd[h].use_pre_call
            /\ hd[h].bgs_phase = 1 => hd[h].use_pre_call
      BY <1>f, <1>1 DEF ResultOk, SelectOk
    <3>2. hd[h].bgs_phase \in 0..3
      BY <1>f DEF HandlerRecord
    <3>3. hd[h].sql_type = "select" =>
            /\ r.bgs_error = "error" => ~r.finish_flg
            /\ r.bgs_error # "error" => r.bgs_phase = 1 \/ r.ahead = 1
            /\ r.bgs_error = "eof" => r.finish_flg
      BY <1>e, <3>1
    <3> QED
      BY <1>1, <1>h, <1>e, <1>f, <3>1, <3>2, <3>3 DEF SelectOk
  <2>5. Writing(h) => /\ hd'[h].bgs_phase = 1 /\ ~hd'[h].use_pre_call /\ ~hd'[h].ended
                      /\ ~hd'[h].unread /\ hd'[h].ahead = 0
    BY <1>h, <1>e, <1>f DEF ResultOk
  <2>6. hd'[h].sql_type = hd[h].sql_type
    BY <1>h, <1>e
  <2> QED
    BY <1>f, <2>4, <2>5, <2>6 DEF ResultOk, Writing
<1>7. FailOk(h)'
  <2>1. failed[h] \subseteq 1..(jobs - 1) /\ jobs \notin failed[h]
    BY <1>f, <1>j, MaxJobAssumption DEF FailOk, Job
  <2>2. failed'[h] \subseteq 1..executed'
    BY <1>d, <1>j, <2>1, MaxJobAssumption DEF Job
  <2>3. jobs \in failed'[h] => hd'[h].bgs_error = "error"
    BY <1>d, <1>h, <2>1
  <2>4. hd'[h].sql_type = hd[h].sql_type
    BY <1>h, <1>e
  <2>5. Writing(h)' = Writing(h)
    BY <2>4 DEF Writing
  <2>6. ~(Writing(h) /\ pc[SessionOf[h]] = "ending" /\ ~is_error[SessionOf[h]])
    BY <1>f DEF FailOk
  <2> QED
    BY <1>q, <1>f, <2>2, <2>3, <2>4, <2>5, <2>6 DEF FailOk
<1>8. ASSUME NEW s \in Session, cur[s] = h, h \in Own(s) PROVE PlaceOk(s)'
  <2>1. PlaceOk(s) /\ Woken(s)
    BY <1>t, <1>1, Threads DEF PlaceInv
  <2>2. hd[h].use_pre_call \/ hd'[h].unread = hd[h].unread
    <3>1. hd[h].sql_type = "select" /\ hd[h].bgs_phase = 1 => hd[h].use_pre_call
      BY <1>f DEF ResultOk, SelectOk
    <3>2. hd[h].sql_type \in {"select", "insert", "update"} /\ hd[h].unread \in BOOLEAN
      BY <1>f DEF HandlerRecord
    <3> QED
      BY <1>h, <1>e, <3>1, <3>2 DEF Writing
  <2> QED
    BY <1>q, <1>f, <1>h, <1>e, <1>1, <1>8, <2>1, <2>2, PlaceWoken
<1>9. executed' >= executed
  BY <1>j, MaxJobAssumption DEF Job
<1>10. hd'[h].sql_type = hd[h].sql_type
  BY <1>h, <1>e
<1> QED
  BY <1>p, <1>q, <1>1, <1>h, <1>d, <1>2, <1>3, <1>4, <1>5, <1>6, <1>7, <1>8, <1>9, <1>10, BgFrame
-----------------------------------------------------------------------------
(***************************************************************************)
(* The theorems.                                                           *)
(***************************************************************************)
LEMMA InitInv == Init => BgInv
<1> SUFFICES ASSUME Init PROVE BgInv
  OBVIOUS
<1>q. /\ owner = Pool /\ conn = NewConn /\ bg = "none" /\ exec_sql = Garbage
      /\ pc = [t \in Thread |-> "run"] /\ cur = [t \in Thread |-> NoHandler]
      /\ call = [t \in Thread |-> "none"] /\ is_error = [s \in Session |-> FALSE]
      /\ hd = [h \in Handler |-> ResetHandler("none")]
      /\ jobs = 0 /\ executed = 0 /\ failed = [h \in Handler |-> {}]
  BY DEF Init
<1>c. /\ conn \in ConnRecord /\ ~conn.bg_init /\ ~conn.bg_search /\ ~conn.bg_kill
      /\ ~conn.bg_caller_sync_wait
  BY <1>q DEF NewConn, ConnRecord
<1>r. Recycler \in Thread
  BY DEF Thread
<1>h. /\ ResetHandler("none") \in HandlerRecord /\ ~ResetHandler("none").bgs_working
      /\ ResetHandler("none").sql_type = "none" /\ ResetHandler("none").bgs_error = "none"
  BY DEF ResetHandler, HandlerRecord
<1>d. \A h \in Handler : hd[h] = ResetHandler("none") /\ failed[h] = {}
  BY <1>q
<1>1. TypeOK
  <2>1. hd \in [Handler -> HandlerRecord]
    BY <1>q, <1>h
  <2>2. jobs \in 0..MaxJob /\ executed \in {Garbage} \cup Job
    BY <1>q, MaxJobAssumption DEF Garbage
  <2> QED
    BY <1>q, <1>c, <2>1, <2>2 DEF TypeOK, PC, Call
<1>2. OwnerInv
  BY <1>q, <1>r DEF OwnerInv, Holding
<1>3. HandshakeInv
  BY <1>q, <1>c DEF HandshakeInv, ConnInv, OwnerWaits, WaitOk, Asked
<1>4. ~Searching
  BY <1>q DEF Searching, Asked, Answered
<1>5. WorkInv
  BY <1>4, <1>d, <1>h DEF WorkInv
<1>6. PlaceInv
  <2> SUFFICES ASSUME NEW s \in Session PROVE PlaceOk(s)
    BY DEF PlaceInv
  <2>1. pc[s] = "run"
    BY <1>q, Threads
  <2> QED
    BY <2>1 DEF PlaceOk
<1>7. OrderInv
  BY <1>q DEF OrderInv, Asked
<1>8. ResultInv
  BY <1>d, <1>h DEF ResultInv, ResultOk, Writing
<1>9. FailInv
  BY <1>d, <1>h DEF FailInv, OneWriter, FailOk, Writing
<1> QED
  BY <1>1, <1>2, <1>3, <1>5, <1>6, <1>7, <1>8, <1>9 DEF BgInv

LEMMA StutterInv == ASSUME BgInv, UNCHANGED vars PROVE BgInv'
<1>t. /\ TypeOK /\ OwnerInv /\ HandshakeInv /\ WorkInv
      /\ PlaceInv /\ OrderInv /\ ResultInv /\ FailInv
  BY InvFacts
<1>q. UNCHANGED <<owner, conn, bg, exec_sql, pc, cur, call, is_error, hd, jobs, executed, failed>>
  BY DEF vars
<1>1. TypeOK' /\ HandshakeInv' /\ WorkInv' /\ OrderInv' /\ Target' = Target
  BY <1>q, <1>t DEF TypeOK, HandshakeInv, ConnInv, OwnerWaits, WaitOk, WorkInv,
       Searching, Target, OrderInv
<1>2. \A t \in Thread : Woken(t)
  BY <1>q DEF Woken
<1> QED
  BY <1>q, <1>1, <1>2, BgCalm

LEMMA NextInv == BgInv /\ [Next]_vars => BgInv'
<1> SUFFICES ASSUME BgInv, [Next]_vars PROVE BgInv'
  OBVIOUS
<1>1. ASSUME NEW s \in Session, Client(s) PROVE BgInv'
  <2>1. CASE Acquire(s) \/ EndStatement(s) \/ BeforeQuery(s)
    BY <2>1, PlainMoveInv
  <2>2. ASSUME NEW h \in Handler,
               \/ StartRead(s, h) \/ PreNext(s, h) \/ Fetch(s, h) \/ SeekNext(s, h)
               \/ \E type \in {"insert", "update"} : StartWrite(s, h, type)
               \/ GetBgResult(s, h)
        PROVE  BgInv'
    <3>1. CASE \E type \in {"insert", "update"} : StartWrite(s, h, type)
      BY <3>1, StartWriteInv
    <3> QED
      BY <2>2, <3>1, StartReadInv, PreNextInv, FetchInv, SeekNextInv, GetBgResultInv
  <2> QED
    BY <1>1, <2>1, <2>2 DEF Client
<1>2. ASSUME NEW s \in Session, Proceed(s) PROVE BgInv'
  <2>1. CASE SyncParallel(s) \/ AfterQuery(s) \/ Release(s)
    BY <2>1, PlainMoveInv
  <2>2. CASE Await(s) \/ Break(s)
    BY <2>2, BreakInv
  <2>3. CASE FreeConn(s) \/ Joined(s)
    BY <2>3, Threads, FreeConnInv, JoinedInv
  <2>4. CASE \E h \in Handler : Reset(s, h)
    BY <2>4, ResetInv
  <2>5. CASE \/ CreateThread(s) \/ Post(s) \/ Resume(s) \/ Advance(s)
             \/ Collect(s) \/ FreeResult(s) \/ EndReset(s)
    BY <2>5, CreateThreadInv, PostInv, ResumeInv, AdvanceInv, CollectInv, FreeResultInv,
       EndResetInv
  <2> QED
    BY <1>2, <2>1, <2>2, <2>3, <2>4, <2>5 DEF Proceed
<1>3. CASE RecyclerFrees
  <2>1. Recycler \in Thread
    BY DEF Thread
  <2> QED
    BY <1>3, <2>1, FreeConnInv, JoinedInv DEF RecyclerFrees
<1>4. CASE Background
  BY <1>4, BgStartInv, BgWakeInv, BgRespondInv, BgKillInv, BgBeginInv, BgExecInv,
     BgAfterInv, BgWorkOverInv DEF Background
<1> QED
  BY <1>1, <1>2, <1>3, <1>4, RecycleInv, StutterInv DEF Next

\* The inductive invariant holds in every reachable state, for every number of
\* sessions, handlers and statements, whether or not a connection may be freed
\* before the reset() of its last owner.
THEOREM BgInvariance == Spec => []BgInv
BY InitInv, NextInv, PTL DEF Spec

\* Every variable keeps its type: the flags of the connection, the place of each
\* thread, the results and phases of the handlers.
THEOREM TypeCorrect == Spec => []TypeOK
<1>1. BgInv => TypeOK
  BY DEF BgInv
<1> QED
  BY <1>1, BgInvariance, PTL

\* spider_db_before_query waits long enough: while the background thread
\* executes a statement no session sends one on the same connection, though
\* spider_mta_conn_mutex_lock locks nothing.
THEOREM ConnectionExclusion == Spec => []OneUser
<1>1. BgInv => OneUser
  <2> SUFFICES ASSUME BgInv, bg = "exec", NEW s \in Session, pc[s] = "query" PROVE FALSE
    BY DEF OneUser
  <2>1. WaitOk(s) /\ ConnInv
    BY InvFacts, Threads DEF HandshakeInv
  <2> QED
    BY <2>1 DEF WaitOk, ConnInv, Asked
<1> QED
  BY <1>1, BgInvariance, PTL

\* ha_spider::reset waits long enough: the handler whose statement the thread
\* has taken is not reset before the thread has finished with it.
THEOREM NoDanglingTarget == Spec => []TargetAlive
<1>1. BgInv => TargetAlive
  <2> SUFFICES ASSUME BgInv, bg \in {"woken", "dispatch", "exec", "executed", "done"},
                      conn.bg_search
               PROVE  hd[Target].sql_type # "none"
    BY DEF TargetAlive
  <2>1. Searching
    BY InvFacts DEF HandshakeInv, ConnInv, Searching, Asked, Answered
  <2> QED
    BY <2>1, TargetFacts
<1> QED
  BY <1>1, BgInvariance, PTL

\* current->next of spider_db_seek_next is there when it is dereferenced.
THEOREM NextResult == Spec => []NextResultThere
<1>1. BgInv => NextResultThere
  BY InvFacts DEF PlaceInv, PlaceOk, Seeking, NextResultThere
<1> QED
  BY <1>1, BgInvariance, PTL

\* No scan ends with HA_ERR_END_OF_FILE before the rows that were stored are
\* read, whatever the thread finds out ahead of the session, unless the scan
\* runs in quick mode 3, where spider_db_fetch_minimum_columns does end it.
THEOREM NoRowLost == Spec => []RowsDelivered
<1>1. BgInv => RowsDelivered
  <2> SUFFICES ASSUME BgInv, NEW h \in Handler, hd[h].ended, ~hd[h].quick3
               PROVE  ~hd[h].unread /\ hd[h].ahead = 0
    BY DEF RowsDelivered
  <2>1. ResultOk(h) /\ hd[h] \in HandlerRecord
    BY InvFacts DEF ResultInv, TypeOK
  <2>2. hd[h].sql_type \in {"none", "select", "insert", "update"}
    BY <2>1 DEF HandlerRecord
  <2>3. hd[h].sql_type # "none"
    BY <2>1 DEF ResultOk, ResetHandler
  <2> QED
    BY <2>1, <2>2, <2>3 DEF ResultOk, SelectOk, Writing
<1> QED
  BY <1>1, BgInvariance, PTL

\* ha_spider::get_bg_result sees the failure of the last statement of a write:
\* bgs_error is not cleared between the failure and the answer.
THEOREM NoLastErrorLost == Spec => []LastErrorReported
<1>1. BgInv => LastErrorReported
  BY InvFacts DEF FailInv, FailOk, LastErrorReported
<1> QED
  BY <1>1, BgInvariance, PTL

\* Every statement is executed once, as it was handed over, and in that order,
\* though an INSERT is copied and its buffer filled again before it is executed.
THEOREM ExecutionOrder == Spec => ExecutedInOrder
<1>1. BgInv /\ [Next]_vars => [executed' # executed => executed' = executed + 1]_vars
  <2> SUFFICES ASSUME BgInv, Next, executed' # executed PROVE executed' = executed + 1
    BY DEF vars
  <2>1. BgExec
    <3>1. ASSUME NEW s \in Session PROVE ~Client(s)
      BY DEF Client, Acquire, EndStatement, BeforeQuery, StartRead, PreNext, Fetch, SeekNext,
           StartWrite, GetBgResult
    <3>2. ASSUME NEW t PROVE ~FreeConn(t) /\ ~Joined(t)
      BY DEF FreeConn, Joined
    <3>3. ASSUME NEW s \in Session PROVE ~Proceed(s)
      <4>1. ~CreateThread(s) /\ ~Post(s) /\ ~Resume(s) /\ ~SyncParallel(s) /\ ~Await(s)
        BY DEF CreateThread, Post, Resume, SyncParallel, Await
      <4>2. ~Advance(s) /\ ~Break(s) /\ ~AfterQuery(s) /\ ~Collect(s) /\ ~Release(s)
        BY DEF Advance, Break, AfterQuery, Collect, Release
      <4>3. ~FreeResult(s) /\ ~EndReset(s) /\ \A h \in Handler : ~Reset(s, h)
        BY DEF FreeResult, EndReset, Reset
      <4> QED
        BY <3>2, <4>1, <4>2, <4>3 DEF Proceed
    <3>4. ~Recycle /\ ~RecyclerFrees
      BY <3>2 DEF Recycle, RecyclerFrees
    <3>5. Background => BgExec
      BY DEF Background, BgStart, BgWake, BgRespond, BgKill, BgBegin, BgSearchOver, BgWorkOver,
           BgFinish, BgPark
    <3> QED
      BY <3>1, <3>3, <3>4, <3>5 DEF Next
  <2>2. bg = "exec" /\ ~conn.bg_kill /\ executed' = exec_sql
    BY <2>1, InvFacts DEF BgExec, HandshakeInv, ConnInv
  <2>3. exec_sql = jobs /\ executed = jobs - 1 /\ jobs \in 0..MaxJob
    BY <2>2, InvFacts DEF OrderInv, Asked, TypeOK
  <2> QED
    BY <2>2, <2>3, MaxJobAssumption
<1> QED
  BY <1>1, BgInvariance, PTL DEF Spec, ExecutedInOrder
=============================================================================
