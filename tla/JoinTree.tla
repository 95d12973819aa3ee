------------------------------ MODULE JoinTree ------------------------------
(***************************************************************************)
(* The connections of a transaction, SPIDER_TRX.join_trx_top               *)
(* (storage/spider/spd_conn.cc, spider_tree_...): a binary tree without a  *)
(* sentinel or a header, threaded through four pointers of SPIDER_CONN.    *)
(*   c_small, c_big   the children, with a smaller priority and with a     *)
(*                    priority that is not smaller;                        *)
(*   p_big            the parent of a c_small child;                       *)
(*   p_small          the parent of a c_big child.                         *)
(* Two-phase commit walks this tree: the connection it meets last decides. *)
(*                                                                         *)
(* The loops of the code follow pointers; each is a function of the number *)
(* of turns, which is at most the number of connections (Steps).           *)
(***************************************************************************)
EXTENDS Naturals, FiniteSets, SequencesExt

CONSTANTS
  Conn,        \* the SPIDER_CONN objects of a session
  Null,
  Priority,    \* SPIDER_SHARE.priority, a set of numbers
  MaxTrx,      \* bound: number of transactions
  DeleteAny    \* spider_tree_delete on any connection, or as it is called

ASSUME ConnAssumption     == IsFiniteSet(Conn)
ASSUME NullAssumption     == Null \notin Conn
ASSUME PriorityAssumption == Priority \subseteq Nat
ASSUME BoundAssumption    == MaxTrx \in Nat
ASSUME DeleteAssumption   == DeleteAny \in BOOLEAN

VARIABLES
  p_small, p_big, c_small, c_big, priority,  \* of SPIDER_CONN
  top,       \* SPIDER_TRX.join_trx_top
  cur,       \* conn in spider_free_prepared_trx, Null outside of it
  freed,     \* connections that have been freed
  joined,    \* the connections that joined, in the order of a walk
  trxs       \* number of transactions that have ended

pointers == <<p_small, p_big, c_small, c_big>>
vars == <<pointers, priority, top, cur, freed, joined, trxs>>

Init ==
  /\ p_small = [c \in Conn |-> Null]
  /\ p_big = [c \in Conn |-> Null]
  /\ c_small = [c \in Conn |-> Null]
  /\ c_big = [c \in Conn |-> Null]
  /\ priority = [c \in Conn |-> 0]
  /\ top = Null
  /\ cur = Null
  /\ freed = {}
  /\ joined = <<>>
  /\ trxs = 0

Turns == Cardinality(Conn)

-----------------------------------------------------------------------------
\* The turns of a loop: the connection it has reached after each.
Steps(step, from) ==
  LET at[n \in 0..Turns] == IF n = 0 THEN from ELSE step[at[n - 1]]
  IN  at

\* Where it ends, if step stands still there.
Loop(step, from) == Steps(step, from)[Turns]

\* Where a loop `while (child[current]) current = child[current]' stops.
Descend(child, from) ==
  Loop([c \in Conn |-> IF child[c] = Null THEN c ELSE child[c]], from)

tree_first(from) == IF from = Null THEN Null ELSE Descend(c_small, from)

tree_last(from) == Descend(c_big, from)

\* Up through the parents that are smaller to the first that is bigger.
Ascend(from) ==
  p_big[Loop([c \in Conn |-> IF p_big[c] # Null \/ p_small[c] = Null
                             THEN c ELSE p_small[c]], from)]

tree_next(c) == IF c_big[c] # Null THEN tree_first(c_big[c]) ELSE Ascend(c)

\* A turn of a loop over all connections.
NextOrNull == [c \in Conn \cup {Null} |-> IF c = Null THEN Null ELSE tree_next(c)]

\* Every connection that a walk by spider_tree_next from here on visits; a
\* walk that does not end shows as one that is too long.
Walk(from) ==
  LET at == Steps(NextOrNull, from)
  IN  [n \in 1..Cardinality({i \in 0..Turns : at[i] # Null}) |-> at[n - 1]]

tree_num == Len(Walk(tree_first(top)))

\* Mutant: the loop's second test is missing, so that it stops at the end.
Decider_PastTheEnd(from) == Loop(NextOrNull, from)

\* The loop of spider_internal_xa_prepare, a `do ... while ((conn = next(conn))
\* && next(conn))': the connection on which it ends has not been prepared.
Decider(from) ==
  Loop([c \in Conn \cup {Null} |->
          IF NextOrNull[c] = Null THEN c ELSE NextOrNull[c]], tree_next(from))

-----------------------------------------------------------------------------
\* spider_tree_insert: down to the connection that has room on this side.
Parent(pr) ==
  LET Side(d) == IF pr < priority[d] THEN c_small[d] ELSE c_big[d]
  IN  Loop([d \in Conn |-> IF Side(d) = Null THEN d ELSE Side(d)], top)

\* Mutant: the children from an earlier transaction are kept.
Insert_KeepsChildren(c, pr) ==
  LET d == Parent(pr)
      small == pr < priority[d]
  IN  /\ p_small' = [p_small EXCEPT ![c] = IF small THEN Null ELSE d]
      /\ p_big' = [p_big EXCEPT ![c] = IF small THEN d ELSE Null]
      /\ c_small' = [c_small EXCEPT ![d] = IF small THEN c ELSE @]
      /\ c_big' = [c_big EXCEPT ![d] = IF small THEN @ ELSE c]

Insert(c, pr) ==
  LET d == Parent(pr)
      small == pr < priority[d]
  IN  /\ p_small' = [p_small EXCEPT ![c] = IF small THEN Null ELSE d]
      /\ p_big' = [p_big EXCEPT ![c] = IF small THEN d ELSE Null]
      /\ c_small' = [c_small EXCEPT ![c] = Null,
                                    ![d] = IF small THEN c ELSE @]
      /\ c_big' = [c_big EXCEPT ![c] = Null,
                                ![d] = IF small THEN @ ELSE c]

\* The first connection of a transaction is the tree.
MakeTop(c) ==
  /\ p_small' = [p_small EXCEPT ![c] = Null]
  /\ p_big' = [p_big EXCEPT ![c] = Null]
  /\ c_small' = [c_small EXCEPT ![c] = Null]
  /\ c_big' = [c_big EXCEPT ![c] = Null]
  /\ top' = c

\* joined is what a walk should visit: smaller priorities first, and equal
\* ones in the order in which they joined.
Place(pr) == CHOOSE k \in 1..Len(joined) + 1 :
  \A i \in DOMAIN joined : priority[joined[i]] <= pr <=> i < k

Ordered(c, pr) == InsertAt(joined, Place(pr), c)

\* The end of spider_internal_start_trx.  The connection comes from the pool
\* with the pointers it had in an earlier transaction.
Join(c, pr) ==
  /\ cur = Null
  /\ trxs < MaxTrx
  /\ c \notin Range(joined) \cup freed
  /\ priority' = [priority EXCEPT ![c] = pr]
  /\ IF top = Null THEN MakeTop(c) ELSE Insert(c, pr) /\ UNCHANGED top
  /\ joined' = Ordered(c, pr)
  /\ UNCHANGED <<cur, freed, trxs>>

\* Every way a transaction ends: the tree is forgotten, its pointers stay.
EndTrx ==
  /\ cur = Null
  /\ top # Null
  /\ top' = Null
  /\ joined' = <<>>
  /\ trxs' = trxs + 1
  /\ UNCHANGED <<pointers, priority, cur, freed>>

-----------------------------------------------------------------------------
\* spider_tree_delete: the small child takes the place of c, and the big one
\* goes under the last connection below the small one.
HangBig(c) ==
  IF c_small[c] = Null \/ c_big[c] = Null THEN {}
  ELSE {<<tree_last(c_small[c]), c_big[c]>>}

Heir(c) == IF c_small[c] # Null THEN c_small[c] ELSE c_big[c]

\* Assignments p->f = x, given as pairs <<p, x>>.
Assign(f, pairs) ==
  [c \in Conn |-> IF \E q \in pairs : q[1] = c
                  THEN (CHOOSE q \in pairs : q[1] = c)[2] ELSE f[c]]

ToHeir(c, x) == IF Heir(c) = Null THEN {} ELSE {<<Heir(c), x>>}

\* The big child's p_small when it goes under the small one's last.
BigUnder(c) == {<<q[2], q[1]>> : q \in HangBig(c)}

DeleteBelowSmall(c) ==
  /\ p_small[c] # Null
  /\ p_small' = Assign(p_small, ToHeir(c, p_small[c]) \cup BigUnder(c))
  /\ p_big' = Assign(p_big, IF c_small[c] = Null THEN {} ELSE {<<c_small[c], Null>>})
  /\ c_big' = Assign(c_big, {<<p_small[c], Heir(c)>>} \cup HangBig(c))
  /\ UNCHANGED c_small

DeleteBelowBig(c) ==
  /\ p_small[c] = Null
  /\ p_big[c] # Null
  /\ p_small' = Assign(p_small, BigUnder(c) \cup
                  (IF c_small[c] = Null THEN ToHeir(c, Null) ELSE {}))
  /\ p_big' = Assign(p_big, ToHeir(c, p_big[c]))
  /\ c_small' = Assign(c_small, {<<p_big[c], Heir(c)>>})
  /\ c_big' = Assign(c_big, HangBig(c))

\* Mutant: the new top keeps its pointer to the old one.
DeleteTop_KeepsParent(c) ==
  /\ p_small[c] = Null
  /\ p_big[c] = Null
  /\ p_small' = Assign(p_small, BigUnder(c))
  /\ p_big' = Assign(p_big, IF c_small[c] = Null THEN {} ELSE {<<c_small[c], Null>>})
  /\ c_big' = Assign(c_big, HangBig(c))
  /\ UNCHANGED c_small

DeleteTop(c) ==
  /\ p_small[c] = Null
  /\ p_big[c] = Null
  /\ p_small' = Assign(p_small, ToHeir(c, Null) \cup BigUnder(c))
  /\ p_big' = Assign(p_big, IF c_small[c] = Null THEN {} ELSE {<<c_small[c], Null>>})
  /\ c_big' = Assign(c_big, HangBig(c))
  /\ UNCHANGED c_small

tree_delete(c) == DeleteBelowSmall(c) \/ DeleteBelowBig(c) \/ DeleteTop(c)

\* What spider_tree_delete returns.
NewTop(c) == IF p_small[c] = Null /\ p_big[c] = Null THEN Heir(c) ELSE top

\* What the function offers: any connection, and the caller takes the new top.
Delete(c) ==
  /\ DeleteAny
  /\ cur = Null
  /\ c \in Range(joined)
  /\ tree_delete(c)
  /\ top' = NewTop(c)
  /\ freed' = freed \cup {c}
  /\ joined' = RemoveFirst(joined, c)
  /\ UNCHANGED <<priority, cur, trxs>>

\* spider_free_prepared_trx: its loop, one turn at a time.
BeginFree ==
  /\ cur = Null
  /\ top # Null
  /\ cur' = tree_first(top)
  /\ UNCHANGED <<pointers, priority, top, freed, joined, trxs>>

\* The next connection is read before this one is taken out and freed; the
\* top that spider_tree_delete returns is not looked at.
FreeOne ==
  /\ cur # Null
  /\ cur' = tree_next(cur)
  /\ tree_delete(cur)
  /\ freed' = freed \cup {cur}
  /\ joined' = RemoveFirst(joined, cur)
  /\ IF cur' = Null THEN top' = Null /\ trxs' = trxs + 1 ELSE UNCHANGED <<top, trxs>>
  /\ UNCHANGED priority

Next == \/ \E c \in Conn, pr \in Priority : Join(c, pr)
        \/ EndTrx \/ BeginFree \/ FreeOne
        \/ \E c \in Conn : Delete(c)

Spec == Init /\ [][Next]_vars
-----------------------------------------------------------------------------
(***************************************************************************)
(* Properties.                                                             *)
(***************************************************************************)

\* A walk by spider_tree_first and spider_tree_next visits every connection
\* that joined the transaction, once, in the order of their priorities and for
\* equal priorities in the order in which they joined, whatever pointers the
\* connections brought along from earlier transactions and however many the
\* walk itself has already taken out: no branch is left out of a commit or a
\* rollback, and none gets two.
WalkVisitsAll ==
  Walk(IF cur = Null THEN tree_first(top) ELSE cur) = joined

\* The prepare loop ends on the connection that the walk would visit last, and
\* on no other: that one decides by a one-phase commit, so exactly the others
\* must have been prepared.
LastDecides ==
  cur = Null /\ tree_num > 1 => Decider(tree_first(top)) = Last(joined)

\* No connection of the tree points to one that has been freed: the next turn
\* of the loop in spider_free_prepared_trx would read it.
NoDangling ==
  \A c \in Range(joined) :
    {p_small[c], p_big[c], c_small[c], c_big[c]} \cap freed = {}
=============================================================================
