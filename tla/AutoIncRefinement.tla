-------------------------- MODULE AutoIncRefinement --------------------------
(***************************************************************************)
(* AutoInc implements UniqueIds, where every statement reserves at most    *)
(* once, no counter is lost beside rows that are not committed and stay,   *)
(* and the partitions answer when their maximum is read: the third layer   *)
(* of AutoIncProofs, about the rows of the table, and the simulation.      *)
(***************************************************************************)
EXTENDS AutoIncProofs

\* Where the values are unique: see the run reopened for statements that reserve
\* twice; a counter that is read anew does not see the rows of transactions that
\* are open or prepared; a partition that does not answer counts as empty.
SafeConfig == OneReservation /\ CounterKept /\ "read" \notin Faults

(***************************************************************************)
(* The invariant.                                                          *)
(***************************************************************************)
\* The counter was read from the backends since the node started.  A failed
\* insert, or a row with a value of its own, makes it count as not initialised,
\* but the statements that have begun to use it go on.
Loaded(n) ==
  \/ initialized[n]
  \/ \E s \in Session : NodeOf[s] = n /\ (imax[s] > 0 \/ (pc[s] = "update" /\ val[s] = 0))

\* The counter is above the generated values of the table.
StoredBelow ==
  \A n \in Node : Loaded(n) => \A v \in StoredIds : InClass(n, v) => v < next[n]

\* They are in nobody's hand and in nobody's interval.
StoredApart ==
  \A s \in Session : \A v \in StoredIds : InClass(NodeOf[s], v) =>
    /\ v \notin InHand(s)
    /\ imax[s] > 0 => v < imin[s] \/ imax[s] <= v

StoredInv == StoredBelow /\ StoredApart
-----------------------------------------------------------------------------
(***************************************************************************)
(* The rows of the table.                                                  *)
(***************************************************************************)
LEMMA StoredNumbers == ASSUME TypeInv, NEW v \in StoredIds
                       PROVE  v \in Nat /\ \E r \in rows : r.val = v /\ r.part \in Part
BY Numbers DEF StoredIds, TypeInv, Row

\* A step that takes nothing, reserves nothing and adds no row.
LEMMA ApartKept ==
  ASSUME StoredApart, NEW s \in Session, Keeps(s), StoredIds' \subseteq StoredIds
  PROVE  StoredApart'
<1>1. ASSUME NEW t \in Session
      PROVE  /\ InHand(t)' \subseteq InHand(t)
             /\ imax'[t] > 0 => imin'[t] = imin[t] /\ imax'[t] = imax[t]
  BY UntouchedHand DEF Keeps, Untouched
<1> SUFFICES ASSUME NEW t \in Session, NEW v \in StoredIds', InClass(NodeOf[t], v)
             PROVE  /\ v \notin InHand(t)'
                    /\ imax'[t] > 0 => v < imin'[t] \/ imax'[t] <= v
  BY DEF StoredApart, InClass
<1> QED
  BY <1>1 DEF StoredApart

\* The same, if the counter is raised or stays.
LEMMA StoredKept ==
  ASSUME IdInv, StoredInv, NEW s \in Session, Keeps(s), StoredIds' \subseteq StoredIds,
         \A n \in Node : next'[n] \in Nat /\ next'[n] >= next[n],
         \A n \in Node : Loaded(n)' => Loaded(n)
  PROVE  StoredInv'
<1>1. StoredApart'
  BY ApartKept DEF StoredInv
<1>2. StoredBelow'
  <2> SUFFICES ASSUME NEW n \in Node, Loaded(n)', NEW v \in StoredIds', InClass(n, v)
               PROVE  v < next'[n]
    BY DEF StoredBelow, InClass
  <2>1. v < next[n] /\ v \in Nat /\ next[n] \in Nat
    BY StoredNumbers, Numbers DEF StoredInv, StoredBelow, IdInv, TypeInv
  <2> QED BY <2>1
<1> QED
  BY <1>1, <1>2 DEF StoredInv

\* A node is not loaded by a step that initialises nothing, begins no interval
\* and no row that needs a value.
LEMMA NotLoaded ==
  ASSUME NEW s \in Session, Keeps(s),
         \A n \in Node : initialized'[n] => initialized[n],
         ~(pc'[s] = "update" /\ val'[s] = 0)
  PROVE  \A n \in Node : Loaded(n)' => Loaded(n)
<1> SUFFICES ASSUME NEW n \in Node, Loaded(n)' PROVE Loaded(n)
  OBVIOUS
<1>1. CASE initialized'[n]
  BY <1>1 DEF Loaded
<1>2. CASE \E t \in Session : NodeOf[t] = n /\ (imax'[t] > 0 \/ (pc'[t] = "update" /\ val'[t] = 0))
  <2>1. PICK t \in Session : NodeOf[t] = n /\ (imax'[t] > 0 \/ (pc'[t] = "update" /\ val'[t] = 0))
    BY <1>2
  <2>2. imax'[t] > 0 => imax[t] > 0
    BY DEF Keeps, Untouched
  <2>3. pc'[t] = "update" /\ val'[t] = 0 => pc[t] = "update" /\ val[t] = 0
    BY DEF Keeps, Untouched
  <2> QED BY <2>1, <2>2, <2>3 DEF Loaded
<1> QED
  BY <1>1, <1>2 DEF Loaded

LEMMA NextNumbers == ASSUME next' \in [Node -> 0..(Width - 1)]
                     PROVE  \A n \in Node : next'[n] \in Nat
BY Numbers

LEMMA SameIds == ASSUME rows' = rows PROVE StoredIds' = StoredIds
BY DEF StoredIds

LEMMA StoredBegin ==
  ASSUME ReserveInv, StoredInv, NEW s \in Session, NEW e \in Estimates, Begin(s, e)
  PROVE  StoredInv'
<1> USE DEF ReserveInv
<1>1. Keeps(s)
  BY HandBegin
<1>2. UNCHANGED <<next, initialized, rows>> /\ pc'[s] = "row"
  BY DEF Begin, counter, IdInv, TypeInv
<1>3. \A n \in Node : next'[n] \in Nat /\ next'[n] >= next[n]
  BY <1>2, Numbers DEF IdInv, TypeInv
<1> QED
  BY <1>1, <1>2, <1>3, NotLoaded, SameIds, StoredKept

\* A row that needs a value finds the counter above the table: it was loaded,
\* or is read from all partitions now.
LEMMA InfoAutoLoads ==
  ASSUME SafeConfig, IdInv, StoredBelow, NEW s \in Session, NEW generated \in BOOLEAN,
         NEW insert \in BOOLEAN, NEW share \in [Node -> 0..(ColMax + 1)],
         InfoAuto(s, generated, insert, share)
  PROVE  /\ \A m \in Node : initialized'[m] =>
              initialized[m] \/ (generated /\ m = NodeOf[s])
         /\ generated => \A v \in StoredIds : InClass(NodeOf[s], v) => v < next'[NodeOf[s]]
<1> DEFINE n == NodeOf[s]
<1>0. n \in Node /\ TypeInv /\ CounterInv
  BY NodeOfAssumption DEF IdInv
<1>1. CASE initialized[n] /\ UNCHANGED <<initialized, next>>
  BY <1>0, <1>1 DEF StoredBelow, Loaded
<1>2. CASE ~(initialized[n] /\ UNCHANGED <<initialized, next>>)
  <2> DEFINE read == next[n] = 0 \/ failed[n] \/ ~initialized[n]
  <2>1. PICK q, m :
          /\ q \in Answering
          /\ m = IF ~read THEN next[n] ELSE IF generated THEN ReadMax(s, q) ELSE share[n]
          /\ next' = [next EXCEPT ![n] = Max2(@, m)]
          /\ initialized' = [initialized EXCEPT ![n] = generated]
    BY <1>2 DEF InfoAuto
  <2>2. \A k \in Node : initialized'[k] => initialized[k] \/ (generated /\ k = n)
    BY <1>0, <2>1 DEF TypeInv
  <2>3. q = Part
    BY <2>1 DEF Answering, SafeConfig
  <2>4. ASSUME generated, NEW v \in StoredIds, InClass(n, v) PROVE v < next'[n]
    <3>1. v \in Nat /\ next[n] \in Nat /\ ReadMax(s, q) \in Nat
      <4>1. ReadMax(s, q) \in 1..(ColMax + 1)
        BY <1>0, ReadMaxIs
      <4> QED BY <1>0, <4>1, StoredNumbers, Numbers DEF TypeInv
    <3>2. next'[n] = Max2(next[n], m)
      BY <1>0, <2>1 DEF TypeInv
    <3>3. CASE read
      <4>1. PICK r \in rows : r.val = v /\ r.part \in Part
        BY <1>0, StoredNumbers
      <4>2. v < ReadMax(s, q)
        BY <1>0, <2>3, <4>1, ReadMaxIs
      <4> QED BY <2>1, <2>4, <3>1, <3>2, <3>3, <4>2 DEF Max2
    <3>4. CASE ~read
      <4>1. initialized[n] /\ m = next[n]
        BY <1>0, <2>1, <3>4 DEF TypeInv
      <4>2. v < next[n]
        BY <1>0, <2>4, <4>1 DEF StoredBelow, Loaded
      <4> QED BY <3>1, <3>2, <4>1, <4>2 DEF Max2
    <3> QED BY <3>3, <3>4
  <2> QED BY <2>2, <2>4
<1> QED
  BY <1>1, <1>2

LEMMA StoredStartRow ==
  ASSUME SafeConfig, ReserveInv, StoredInv, NEW s \in Session, NEW x \in {0} \cup Explicit,
         StartRow(s, x)
  PROVE  StoredInv'
<1> USE DEF ReserveInv
<1>1. Keeps(s)
  BY HandStartRow
<1>2. /\ InfoAuto(s, x = 0, TRUE, share_value) /\ (x = 0) \in BOOLEAN
      /\ rows' = rows /\ val'[s] = x /\ share_value \in [Node -> 0..(ColMax + 1)]
  BY DEF StartRow, IdInv, TypeInv
<1>3. /\ next' \in [Node -> 0..(Width - 1)] /\ \A m \in Node : next'[m] >= next[m]
  BY <1>2, InfoAutoIs DEF IdInv
<1>4. \A n \in Node : next'[n] \in Nat /\ next'[n] >= next[n]
  BY <1>3, NextNumbers
<1>5. CASE x # 0
  <2>1. \A n \in Node : initialized'[n] => initialized[n]
    BY <1>2, <1>5, InfoAutoLoads DEF StoredInv
  <2> QED BY <1>1, <1>2, <1>4, <1>5, <2>1, NotLoaded, SameIds, StoredKept
<1>6. CASE x = 0
  <2>1. \A m \in Node : initialized'[m] => initialized[m] \/ m = NodeOf[s]
    BY <1>2, InfoAutoLoads DEF StoredInv
  <2>2. \A v \in StoredIds : InClass(NodeOf[s], v) => v < next'[NodeOf[s]]
    BY <1>2, <1>6, InfoAutoLoads DEF StoredInv
  <2>3. ASSUME NEW n \in Node, n # NodeOf[s], Loaded(n)' PROVE Loaded(n)
    <3>1. CASE initialized'[n]
      BY <2>1, <2>3, <3>1 DEF Loaded
    <3>2. CASE \E t \in Session : /\ NodeOf[t] = n
                                  /\ imax'[t] > 0 \/ (pc'[t] = "update" /\ val'[t] = 0)
      <4>1. PICK t \in Session : /\ NodeOf[t] = n
                                 /\ imax'[t] > 0 \/ (pc'[t] = "update" /\ val'[t] = 0)
        BY <3>2
      <4>2. Untouched(t)
        BY <1>1, <2>3, <4>1 DEF Keeps
      <4> QED BY <4>1, <4>2 DEF Loaded, Untouched
    <3> QED BY <2>3, <3>1, <3>2 DEF Loaded
  <2>4. StoredBelow'
    <3> SUFFICES ASSUME NEW n \in Node, Loaded(n)', NEW v \in StoredIds, InClass(n, v)
                 PROVE  v < next'[n]
      BY <1>2, SameIds DEF StoredBelow, InClass
    <3>1. CASE n = NodeOf[s]
      BY <2>2, <3>1
    <3>2. CASE n # NodeOf[s]
      <4>1. v < next[n] /\ v \in Nat /\ next[n] \in Nat
        BY <2>3, <3>2, StoredNumbers, Numbers DEF StoredInv, StoredBelow, IdInv, TypeInv
      <4> QED BY <1>4, <4>1
    <3> QED BY <3>1, <3>2
  <2>5. StoredApart'
    BY <1>1, <1>2, SameIds, ApartKept DEF StoredInv
  <2> QED BY <2>4, <2>5 DEF StoredInv
<1> QED
  BY <1>5, <1>6

LEMMA StoredUseExplicit ==
  ASSUME SafeConfig, ReserveInv, StoredInv, NEW s \in Session, UseExplicit(s)
  PROVE  StoredInv'
<1> USE DEF ReserveInv
<1>1. Keeps(s)
  BY HandUseExplicit DEF SafeConfig
<1>2. UNCHANGED <<next, initialized, rows>> /\ pc'[s] = "write"
  BY DEF UseExplicit, counter, IdInv, TypeInv
<1>3. \A n \in Node : next'[n] \in Nat /\ next'[n] >= next[n]
  BY <1>2, Numbers DEF IdInv, TypeInv
<1> QED
  BY <1>1, <1>2, <1>3, NotLoaded, SameIds, StoredKept

\* s takes nr out of an interval, old or new, that no row of the table is in.
LEMMA StoredTaken ==
  ASSUME IdInv, IdInv', StoredInv, NEW s \in Session, NEW nr \in Nat,
         \A t \in Session \ {s} : Untouched(t), UNCHANGED <<rows, initialized>>,
         InHand(s)' \subseteq InHand(s) \cup {nr}, Loaded(NodeOf[s]),
         \A n \in Node : next'[n] >= next[n],
         \A v \in StoredIds : InClass(NodeOf[s], v) =>
           v # nr /\ (v < imin'[s] \/ imax'[s] <= v)
  PROVE  StoredInv'
<1>1. StoredIds' = StoredIds
  BY SameIds
<1>2. ASSUME NEW n \in Node, Loaded(n)' PROVE Loaded(n)
  <2>1. CASE initialized[n] \/ n = NodeOf[s]
    BY <2>1 DEF Loaded
  <2>2. CASE ~initialized[n] /\ n # NodeOf[s]
    <3>1. PICK t \in Session : /\ NodeOf[t] = n
                               /\ imax'[t] > 0 \/ (pc'[t] = "update" /\ val'[t] = 0)
      BY <1>2, <2>2 DEF Loaded
    <3>2. Untouched(t)
      BY <2>2, <3>1
    <3> QED BY <3>1, <3>2 DEF Loaded, Untouched
  <2> QED BY <2>1, <2>2
<1>3. StoredBelow'
  <2> SUFFICES ASSUME NEW n \in Node, Loaded(n)', NEW v \in StoredIds, InClass(n, v)
               PROVE  v < next'[n]
    BY <1>1 DEF StoredBelow, InClass
  <2>1. v < next[n] /\ v \in Nat /\ next[n] \in Nat /\ next'[n] \in Nat
    BY <1>2, StoredNumbers, Numbers DEF StoredInv, StoredBelow, IdInv, TypeInv
  <2> QED BY <2>1
<1>4. StoredApart'
  <2> SUFFICES ASSUME NEW t \in Session, NEW v \in StoredIds, InClass(NodeOf[t], v)
               PROVE  /\ v \notin InHand(t)'
                      /\ imax'[t] > 0 => v < imin'[t] \/ imax'[t] <= v
    BY <1>1 DEF StoredApart, InClass
  <2>1. v \notin InHand(t) /\ (imax[t] > 0 => v < imin[t] \/ imax[t] <= v)
    BY DEF StoredInv, StoredApart
  <2>2. CASE t = s
    BY <2>1, <2>2
  <2>3. CASE t # s
    <3>1. Untouched(t) /\ InHand(t)' = InHand(t)
      BY <2>3, UntouchedHand
    <3> QED BY <2>1, <3>1 DEF Untouched
  <2> QED BY <2>2, <2>3
<1> QED
  BY <1>3, <1>4 DEF StoredInv

\* The value a statement takes from its interval is in no row of the table and
\* in no other hand.
LEMMA TakeReserved ==
  ASSUME ReserveInv, StoredInv, NEW s \in Session, UseReserved(s)
  PROVE  /\ nid[s] \in 1..(Width - 1) /\ nid[s] \in Nat /\ InClass(NodeOf[s], nid[s])
         /\ imin[s] <= nid[s] /\ nid[s] < imax[s] /\ imax[s] > 0
         /\ nid[s] \notin StoredIds
         /\ \A t \in Session : nid[s] \notin InHand(t)
         /\ \A t \in Session \ {s} : Untouched(t)
<1> USE DEF ReserveInv
<1>1. /\ pc[s] = "update" /\ nid[s] < imax[s] /\ Generated(s, nid[s]) /\ TypeInv
      /\ UNCHANGED <<imin, imax, cnt, left, batch, open>>
  BY DEF UseReserved, counter, IdInv
<1>2. /\ nid[s] \in 1..(Width - 1) /\ nid[s] \in Nat /\ InClass(NodeOf[s], nid[s]) /\ imax[s] > 0
      /\ imin[s] \in Nat /\ imax[s] \in Nat /\ NodeOf[s] \in Node
  BY <1>1, Numbers, NodeOfAssumption DEF IdInv, TypeInv, RowInv, ClassInv
<1>3. /\ imin[s] <= nid[s] /\ (\A v \in Gen(s) : v < nid[s])
      /\ (\A v \in Kept(s) : v < imin[s])
  BY <1>2 DEF CursorInv, CursorOk
<1>4. nid[s] \notin StoredIds
  <2> SUFFICES ASSUME nid[s] \in StoredIds PROVE FALSE
    OBVIOUS
  <2>1. nid[s] < imin[s] \/ imax[s] <= nid[s]
    BY <1>2 DEF StoredInv, StoredApart
  <2> QED BY <1>1, <1>2, <1>3, <2>1
<1>5. ASSUME NEW t \in Session, nid[s] \in InHand(t) PROVE FALSE
  <2>1. CASE t = s
    <3>1. nid[s] \in Gen(s) \cup Kept(s)
      BY <1>1, <1>5, <2>1, HandParts
    <3> QED BY <1>2, <1>3, <3>1
  <2>2. CASE t # s /\ NodeOf[t] = NodeOf[s]
    <3>1. Disjoint(t, s)
      BY <2>2 DEF HandInv
    <3>2. nid[s] < imin[s] \/ imax[s] <= nid[s]
      BY <1>2, <1>5, <3>1 DEF Disjoint
    <3> QED BY <1>1, <1>2, <1>3, <3>2
  <2>3. CASE NodeOf[t] # NodeOf[s]
    <3>1. NodeOf[t] \in Node /\ InClass(NodeOf[t], nid[s])
      BY <1>5, HandNumbers, NodeOfAssumption
    <3> QED BY <1>2, <2>3, <3>1, OtherNode
  <2> QED BY <2>1, <2>2, <2>3
<1>6. \A t \in Session \ {s} : Untouched(t)
  BY <1>1, <1>2, GeneratedOthers
<1> QED
  BY <1>1, <1>2, <1>3, <1>4, <1>5, <1>6

LEMMA StoredUseReserved ==
  ASSUME ReserveInv, StoredInv, NEW s \in Session, UseReserved(s)
  PROVE  StoredInv'
<1> USE DEF ReserveInv
<1>1. /\ UNCHANGED <<next, rows, initialized, imin, imax, batch, open, left>>
      /\ pc[s] = "update" /\ Generated(s, nid[s])
  BY DEF UseReserved, counter
<1>2. InHand(s)' \subseteq InHand(s) \cup {nid[s]}
  BY <1>1, TakeReserved, TakenIs
<1>3. Loaded(NodeOf[s])
  BY TakeReserved DEF Loaded
<1>4. \A n \in Node : next'[n] >= next[n]
  BY <1>1, Numbers DEF IdInv, TypeInv
<1>5. \A v \in StoredIds : InClass(NodeOf[s], v) => v # nid[s] /\ (v < imin'[s] \/ imax'[s] <= v)
  BY <1>1, TakeReserved DEF StoredInv, StoredApart
<1> QED
  BY <1>1, <1>2, <1>3, <1>4, <1>5, TakeReserved, IdUseReserved, StoredTaken

\* The first value of a new interval is in no row of the table and in no hand.
LEMMA TakeFirst ==
  ASSUME SafeConfig, ReserveInv, StoredInv, NEW s \in Session, Reserve(s)
  PROVE  \E first :
           /\ first \in 1..(Width - 1) /\ first \in Nat /\ InClass(NodeOf[s], first)
           /\ Generated(s, first) /\ first \notin StoredIds
           /\ \A t \in Session : first \notin InHand(t)
           /\ \A t \in Session \ {s} : Untouched(t)
           /\ \A v \in StoredIds : InClass(NodeOf[s], v) => v # first /\ v < imin'[s]
           /\ \A n \in Node : next'[n] >= next[n]
<1> USE DEF ReserveInv
<1> DEFINE n == NodeOf[s]
<1>1. PICK first, end :
        /\ first \in 1..(Width - 1) /\ InClass(n, first) /\ first >= next[n]
        /\ end \in 1..(Width - 1) /\ first + Step <= end
        /\ next' = [next EXCEPT ![n] = end]
        /\ imin' = [imin EXCEPT ![s] = first] /\ imax' = [imax EXCEPT ![s] = end]
        /\ Generated(s, first)
  BY ReserveIs
<1>2. /\ TypeInv /\ n \in Node /\ next[n] \in Nat /\ first \in Nat /\ end \in Nat
      /\ Step \in Nat \ {0}
  <2>1. TypeInv /\ n \in Node
    BY NodeOfAssumption DEF IdInv
  <2> QED BY <1>1, <2>1, Numbers, StepAssumption DEF TypeInv
<1>3. /\ pc[s] = "update" /\ val[s] = 0 /\ UNCHANGED <<left, batch, open>>
      /\ cnt' = [cnt EXCEPT ![s] = @ + 1]
  BY DEF Reserve
<1>4. \A t \in Session \ {s} : Untouched(t)
  <2>1. \A t \in Session \ {s} : imin'[t] = imin[t] /\ imax'[t] = imax[t] /\ cnt'[t] = cnt[t]
    BY <1>1, <1>2, <1>3 DEF TypeInv
  <2> QED BY <1>1, <1>2, <1>3, <2>1, GeneratedOthers
<1>5. ASSUME NEW v \in StoredIds, InClass(n, v) PROVE v # first /\ v < imin'[s]
  <2>1. v < next[n] /\ v \in Nat
    BY <1>2, <1>3, <1>5, StoredNumbers DEF StoredInv, StoredBelow, Loaded
  <2>2. imin'[s] = first
    BY <1>1, <1>2 DEF TypeInv
  <2> QED BY <1>1, <1>2, <2>1, <2>2
<1>6. ASSUME NEW t \in Session, first \in InHand(t) PROVE FALSE
  <2>1. CASE NodeOf[t] = n
    <3>1. first < next[n]
      BY <1>6, <2>1 DEF HandInv
    <3> QED BY <1>1, <1>2, <3>1
  <2>2. CASE NodeOf[t] # n
    <3>1. NodeOf[t] \in Node /\ InClass(NodeOf[t], first)
      BY <1>6, HandNumbers, NodeOfAssumption
    <3> QED BY <1>1, <1>2, <2>2, <3>1, OtherNode
  <2> QED BY <2>1, <2>2
<1>7. \A m \in Node : next'[m] >= next[m]
  BY <1>1, <1>2, Numbers DEF TypeInv
<1>8. first \notin StoredIds
  BY <1>1, <1>5
<1> QED
  BY <1>1, <1>2, <1>4, <1>5, <1>6, <1>7, <1>8

LEMMA StoredReserve ==
  ASSUME SafeConfig, ReserveInv, StoredInv, NEW s \in Session, Reserve(s)
  PROVE  StoredInv'
<1> USE DEF ReserveInv
<1>1. PICK first :
        /\ first \in 1..(Width - 1) /\ first \in Nat /\ InClass(NodeOf[s], first)
        /\ Generated(s, first)
        /\ \A t \in Session \ {s} : Untouched(t)
        /\ \A v \in StoredIds : InClass(NodeOf[s], v) => v # first /\ v < imin'[s]
        /\ \A n \in Node : next'[n] >= next[n]
  BY TakeFirst
<1>2. /\ UNCHANGED <<rows, initialized, batch, open, left>> /\ pc[s] = "update" /\ val[s] = 0
  BY DEF Reserve
<1>3. InHand(s)' \subseteq InHand(s) \cup {first}
  BY <1>1, <1>2, TakenIs
<1>4. Loaded(NodeOf[s])
  BY <1>2 DEF Loaded
<1> QED
  BY <1>1, <1>2, <1>3, <1>4, IdReserve, StoredTaken

LEMMA StoredWriteRow ==
  ASSUME ReserveInv, StoredInv, NEW s \in Session, NEW p \in Part, NEW error \in BOOLEAN,
         WriteRow(s, p, error)
  PROVE  StoredInv'
<1> USE DEF ReserveInv
<1>1. Keeps(s) /\ rows' = rows
  BY HandWriteRow DEF WriteRow
<1>2. /\ next' \in [Node -> 0..(Width - 1)]
      /\ \A m \in Node : next'[m] >= next[m] /\ (initialized'[m] => initialized[m])
  <2>1. NodeOf[s] \in Node /\ val[s] \in 1..ColMax
    BY NodeOfAssumption DEF WriteRow, IdInv, RowInv
  <2> QED BY <2>1, SetIfHigherIs DEF WriteRow, IdInv
<1>3. pc'[s] \in {"row", "finish"}
  <2>1. pc' = [pc EXCEPT ![s] = "row"] \/ pc' = [pc EXCEPT ![s] = "finish"]
    BY DEF WriteRow, Refused
  <2> QED BY <2>1 DEF IdInv, TypeInv
<1> QED
  BY <1>1, <1>2, <1>3, NextNumbers, NotLoaded, SameIds, StoredKept

\* A release lowers the counter to a value above the rows of the table.
LEMMA StoredRelease ==
  ASSUME ReserveInv, StoredInv, NEW s \in Session, Release(s)
  PROVE  StoredInv'
<1> USE DEF ReserveInv
<1> DEFINE k == NodeOf[s]
<1>1. Keeps(s) /\ rows' = rows /\ initialized' = initialized
  BY HandRelease DEF Release
<1>2. pc'[s] \in {"bulk", "commit"} /\ k \in Node
  BY NodeOfAssumption DEF Release, IdInv, TypeInv
<1>3. \A n \in Node : Loaded(n)' => Loaded(n)
  BY <1>1, <1>2, NotLoaded
<1>4. StoredApart'
  BY <1>1, SameIds, ApartKept DEF StoredInv
<1>5. StoredBelow'
  <2> SUFFICES ASSUME NEW n \in Node, Loaded(n)', NEW v \in StoredIds, InClass(n, v)
               PROVE  v < next'[n]
    BY <1>1, SameIds DEF StoredBelow, InClass
  <2>1. v < next[n] /\ v \in Nat /\ next[n] \in Nat
    BY <1>3, StoredNumbers, Numbers DEF StoredInv, StoredBelow, IdInv, TypeInv
  <2>2. CASE n # k \/ next'[k] = next[k]
    BY <2>1, <2>2, ReleaseIs
  <2>3. CASE /\ n = k /\ next'[k] = nid[s] /\ imax[s] = next[k]
             /\ 0 < imin[s] /\ imin[s] <= nid[s] /\ nid[s] < imax[s]
    <3>1. imin[s] \in Nat /\ imax[s] \in Nat /\ nid[s] \in Nat
      BY Numbers DEF IdInv, TypeInv
    <3>2. v < imin[s] \/ imax[s] <= v
      BY <2>3, <3>1 DEF StoredInv, StoredApart
    <3> QED BY <2>1, <2>3, <3>1, <3>2
  <2> QED BY <2>2, <2>3, ReleaseIs
<1> QED
  BY <1>4, <1>5 DEF StoredInv

LEMMA StoredEndBulk ==
  ASSUME ReserveInv, StoredInv, NEW s \in Session, NEW error \in BOOLEAN, EndBulk(s, error)
  PROVE  StoredInv'
<1> USE DEF ReserveInv
<1>1. Keeps(s) /\ rows' = rows /\ next' = next
  BY HandEndBulk DEF EndBulk
<1>2. \A n \in Node : initialized'[n] => initialized[n]
  BY NodeOfAssumption DEF EndBulk, IdInv, TypeInv
<1>3. pc'[s] \in {"commit", "release"}
  BY DEF EndBulk, IdInv, TypeInv
<1>4. \A n \in Node : next'[n] \in Nat /\ next'[n] >= next[n]
  BY <1>1, Numbers DEF IdInv, TypeInv
<1> QED
  BY <1>1, <1>2, <1>3, <1>4, NotLoaded, SameIds, StoredKept

\* Rows of transactions that end move into the table, and their values out of
\* the hands.
Moves ==
  /\ StoredIds \subseteq StoredIds'
  /\ \A v \in StoredIds' :
       v \in StoredIds \/ \E s \in Session : v \in InHand(s) /\ InHand(s)' = {} /\ imax'[s] = 0
  /\ \A t \in Session : /\ InHand(t)' \subseteq InHand(t)
                        /\ imax'[t] > 0 => imin'[t] = imin[t] /\ imax'[t] = imax[t]
  /\ \A n \in Node : Loaded(n)' => Loaded(n) /\ next'[n] = next[n]

LEMMA StoredMoves == ASSUME ReserveInv, StoredInv, Moves PROVE StoredInv'
<1> USE DEF ReserveInv
<1>1. ASSUME NEW n \in Node, Loaded(n)', NEW v \in StoredIds', InClass(n, v)
      PROVE  v < next'[n]
  <2>1. Loaded(n) /\ next'[n] = next[n]
    BY <1>1 DEF Moves
  <2>2. CASE v \in StoredIds
    BY <1>1, <2>1, <2>2 DEF StoredInv, StoredBelow
  <2>3. CASE \E s \in Session : v \in InHand(s)
    <3>1. PICK s \in Session : v \in InHand(s)
      BY <2>3
    <3>2. InClass(NodeOf[s], v) /\ NodeOf[s] \in Node
      BY <3>1, HandNumbers, NodeOfAssumption
    <3>3. n = NodeOf[s]
      BY <1>1, <3>2, OtherNode
    <3> QED BY <2>1, <3>1, <3>3 DEF HandInv
  <2> QED BY <2>2, <2>3 DEF Moves
<1>2. ASSUME NEW t \in Session, NEW v \in StoredIds', InClass(NodeOf[t], v)
      PROVE  /\ v \notin InHand(t)'
             /\ imax'[t] > 0 => v < imin'[t] \/ imax'[t] <= v
  <2>1. /\ InHand(t)' \subseteq InHand(t)
        /\ imax'[t] > 0 => imin'[t] = imin[t] /\ imax'[t] = imax[t]
    BY DEF Moves
  <2>2. CASE v \in StoredIds
    BY <1>2, <2>1, <2>2 DEF StoredInv, StoredApart
  <2>3. CASE \E s \in Session : v \in InHand(s) /\ InHand(s)' = {} /\ imax'[s] = 0
    <3>1. PICK s \in Session : v \in InHand(s) /\ InHand(s)' = {} /\ imax'[s] = 0
      BY <2>3
    <3>2. CASE t = s
      BY <3>1, <3>2
    <3>3. CASE t # s
      <4>1. InClass(NodeOf[s], v) /\ NodeOf[s] \in Node /\ NodeOf[t] \in Node
        BY <3>1, HandNumbers, NodeOfAssumption
      <4>2. NodeOf[t] = NodeOf[s]
        BY <1>2, <4>1, OtherNode
      <4>3. Disjoint(s, t)
        BY <3>3, <4>2 DEF HandInv
      <4> QED BY <2>1, <3>1, <4>3 DEF Disjoint
    <3> QED BY <3>2, <3>3
  <2> QED BY <2>2, <2>3 DEF Moves
<1> QED
  BY <1>1, <1>2 DEF StoredInv, StoredBelow, StoredApart, InClass

LEMMA EndsMoves ==
  ASSUME IdInv, NEW s \in Session, Ends(s), Keeps(s), pc[s] \in {"idle", "commit", "prepared"},
         UNCHANGED <<counter, cursor>>
  PROVE  Moves
<1>1. UNCHANGED <<next, initialized, imin, imax>> /\ imax[s] = 0 /\ pc'[s] \in {"idle", "prepared"}
  BY DEF Ends, counter, cursor, IdInv, CountInv, Outside
<1>2. \A n \in Node : Loaded(n)' => Loaded(n)
  BY <1>1, NotLoaded
<1>3. \A t \in Session : InHand(t)' \subseteq InHand(t)
  BY UntouchedHand DEF Keeps
<1>4. StoredIds \subseteq StoredIds'
  BY DEF Ends, StoredIds
<1>5. ASSUME NEW v \in StoredIds', v \notin StoredIds PROVE v \in InHand(s) /\ InHand(s)' = {}
  <2>1. PICK r \in rows' : r.gen /\ r.val = v
    BY DEF StoredIds
  <2>2. r \notin rows
    BY <1>5, <2>1 DEF StoredIds
  <2>3. r \in batch[s] \cup open[s] /\ open'[s] = {} /\ batch'[s] = {}
    BY <2>2 DEF Ends, IdInv, TypeInv
  <2>4. v \in InHand(s)
    BY <2>1, <2>3 DEF InHand
  <2>5. InHand(s)' = {}
    BY <1>1, <2>3 DEF InHand
  <2> QED BY <2>4, <2>5
<1> QED
  BY <1>1, <1>2, <1>3, <1>4, <1>5 DEF Moves

LEMMA EndStmtMoves == ASSUME ReserveInv, NEW s \in Session, EndStmt(s) PROVE Moves
<1> USE DEF ReserveInv
<1>1. Ends(s) /\ Keeps(s)
  BY EndStmtIs, HandEndStmt DEF IdInv
<1>2. pc[s] = "commit" /\ UNCHANGED <<counter, cursor>>
  BY DEF EndStmt
<1> QED
  BY <1>1, <1>2, EndsMoves

LEMMA CommitMoves ==
  ASSUME ReserveInv, NEW s \in Session, Commit(s) \/ Rollback(s) \/ Settle(s)
  PROVE  Moves
<1> USE DEF ReserveInv
<1>1. Ends(s) /\ Keeps(s)
  BY CommitIs, RollbackIs, SettleIs, HandCommit
<1>2. pc[s] \in {"idle", "prepared"} /\ UNCHANGED <<counter, cursor>>
  BY DEF Commit, Rollback, Settle
<1> QED
  BY <1>1, <1>2, EndsMoves

\* A node that starts again has nothing loaded, and the others keep what they
\* have.
LEMMA FreshLoaded ==
  ASSUME IdInv, IdInv', NEW n \in Node, Fresh(n),
         \A t \in Session : NodeOf[t] = n => pc'[t] \in {"idle", "prepared"},
         \A t \in Session : NodeOf[t] # n => Untouched(t)
  PROVE  \A m \in Node : Loaded(m)' => Loaded(m) /\ next'[m] = next[m]
<1> SUFFICES ASSUME NEW m \in Node, Loaded(m)' PROVE Loaded(m) /\ next'[m] = next[m]
  OBVIOUS
<1>1. /\ next' = [next EXCEPT ![n] = 0] /\ initialized' = [initialized EXCEPT ![n] = FALSE]
      /\ TypeInv
  BY DEF Fresh, IdInv
<1>2. CASE initialized'[m]
  BY <1>1, <1>2 DEF Loaded, TypeInv
<1>3. CASE \E t \in Session : /\ NodeOf[t] = m
                              /\ imax'[t] > 0 \/ (pc'[t] = "update" /\ val'[t] = 0)
  <2>1. PICK t \in Session : /\ NodeOf[t] = m
                             /\ imax'[t] > 0 \/ (pc'[t] = "update" /\ val'[t] = 0)
    BY <1>3
  <2>2. pc'[t] \in {"idle", "prepared"} => imax'[t] = 0
    BY DEF IdInv, CountInv, Outside
  <2>3. NodeOf[t] # n /\ Untouched(t)
    BY <2>1, <2>2
  <2> QED BY <1>1, <2>1, <2>3 DEF Loaded, Untouched, TypeInv
<1> QED
  BY <1>2, <1>3 DEF Loaded

LEMMA FlushMoves == ASSUME ReserveInv, NEW n \in Node, Flush(n) PROVE Moves
<1> USE DEF ReserveInv
<1>1. /\ Fresh(n) /\ UNCHANGED <<rows, imin, imax>>
      /\ \A t \in Session : NodeOf[t] = n => pc'[t] \in {"idle", "prepared"}
      /\ \A t \in Session : Untouched(t)
  BY DEF Flush, Here, Untouched, cursor, row
<1>2. \A m \in Node : Loaded(m)' => Loaded(m) /\ next'[m] = next[m]
  BY <1>1, IdFlush, FreshLoaded
<1>3. \A t \in Session : InHand(t)' = InHand(t)
  BY <1>1, UntouchedHand
<1> QED
  BY <1>1, <1>2, <1>3, SameIds DEF Moves

LEMMA CrashMoves ==
  ASSUME CounterKept, ReserveInv, NEW n \in Node, Crash(n)
  PROVE  Moves
<1> USE DEF ReserveInv
<1>1. PICK lost :
        /\ lost = Here(n) /\ Fresh(n)
        /\ rows \subseteq rows' /\ rows' \subseteq rows \cup UNION {batch[s] : s \in lost}
        /\ nid' = [s \in Session |-> IF s \in lost THEN 0 ELSE nid[s]]
        /\ imin' = [s \in Session |-> IF s \in lost THEN 0 ELSE imin[s]]
        /\ imax' = [s \in Session |-> IF s \in lost THEN 0 ELSE imax[s]]
        /\ cnt' = [s \in Session |-> IF s \in lost THEN 0 ELSE cnt[s]]
        /\ cur' = [s \in Session |-> IF s \in lost THEN 0 ELSE cur[s]]
        /\ val' = [s \in Session |-> IF s \in lost THEN 0 ELSE val[s]]
        /\ prev' = [s \in Session |-> IF s \in lost THEN 0 ELSE prev[s]]
        /\ left' = [s \in Session |-> IF s \in lost THEN 0 ELSE left[s]]
        /\ pc' = [s \in Session |-> IF s \in lost THEN "idle" ELSE pc[s]]
        /\ batch' = [s \in Session |-> IF s \in lost THEN {} ELSE batch[s]]
        /\ open' = [s \in Session |-> IF s \in lost THEN {} ELSE open[s]]
  BY CrashIs DEF IdInv
<1>2. \A t \in Session : t \in lost <=> NodeOf[t] = n
  BY <1>1 DEF Here
<1>3. \A t \in Session : NodeOf[t] # n => Untouched(t)
  BY <1>1, <1>2 DEF Untouched
<1>4. ASSUME NEW t \in Session, NodeOf[t] = n
      PROVE  InHand(t)' = {} /\ imax'[t] = 0 /\ pc'[t] = "idle"
  <2>1. imax'[t] = 0 /\ pc'[t] = "idle" /\ batch'[t] = {} /\ open'[t] = {}
    BY <1>1, <1>2, <1>4
  <2> QED BY <2>1 DEF InHand
<1>5. \A m \in Node : Loaded(m)' => Loaded(m) /\ next'[m] = next[m]
  BY <1>1, <1>3, <1>4, IdCrash, FreshLoaded
<1>6. \A t \in Session : /\ InHand(t)' \subseteq InHand(t)
                         /\ imax'[t] > 0 => imin'[t] = imin[t] /\ imax'[t] = imax[t]
  BY <1>3, <1>4, UntouchedHand DEF Untouched
<1>7. StoredIds \subseteq StoredIds'
  BY <1>1 DEF StoredIds
<1>8. ASSUME NEW v \in StoredIds', v \notin StoredIds
      PROVE  \E s \in Session : v \in InHand(s) /\ InHand(s)' = {} /\ imax'[s] = 0
  <2>1. PICK r \in rows' : r.gen /\ r.val = v
    BY DEF StoredIds
  <2>2. r \notin rows
    BY <1>8, <2>1 DEF StoredIds
  <2>3. PICK s \in lost : r \in batch[s]
    BY <1>1, <2>2
  <2>4. s \in Session /\ NodeOf[s] = n
    BY <1>1 DEF Here
  <2>5. v \in InHand(s)
    BY <2>1, <2>3, <2>4 DEF InHand
  <2> QED BY <1>4, <2>4, <2>5
<1> QED
  BY <1>5, <1>6, <1>7, <1>8 DEF Moves

LEMMA StoredUpdate ==
  ASSUME SafeConfig, ReserveInv, StoredInv, NEW s \in Session, NEW v \in Explicit,
         NEW error \in BOOLEAN, Update(s, v, error)
  PROVE  StoredInv'
<1> USE DEF ReserveInv
<1>0. PICK share \in [Node -> 0..(ColMax + 1)] : InfoAuto(s, FALSE, FALSE, share)
  BY UpdateShare DEF IdInv
<1>1. Keeps(s) /\ rows' = rows
  BY HandUpdate DEF Update
<1>2. pc'[s] = "raise"
  BY DEF Update, IdInv, TypeInv
<1>3. /\ next' \in [Node -> 0..(Width - 1)] /\ \A m \in Node : next'[m] >= next[m]
  BY <1>0, InfoAutoIs DEF IdInv
<1>4. \A n \in Node : initialized'[n] => initialized[n]
  BY <1>0, InfoAutoLoads DEF StoredInv
<1> QED
  BY <1>1, <1>2, <1>3, <1>4, NextNumbers, NotLoaded, SameIds, StoredKept

\* A row that is given another value no longer has a generated one.
LEMMA RaiseIds ==
  ASSUME TypeInv, NEW s \in Session, Raise(s)
  PROVE  StoredIds' \subseteq StoredIds
<1>1. CASE UNCHANGED rows
  BY <1>1, SameIds
<1>2. CASE \E r \in rows : rows' = (rows \ {r}) \cup
                             {[part |-> r.part, val |-> val[s], gen |-> FALSE]}
  BY <1>2 DEF StoredIds
<1> QED
  BY <1>1, <1>2 DEF Raise

LEMMA StoredRaise ==
  ASSUME ReserveInv, StoredInv, NEW s \in Session, Raise(s)
  PROVE  StoredInv'
<1> USE DEF ReserveInv
<1>1. Keeps(s) /\ StoredIds' \subseteq StoredIds
  BY HandRaise, RaiseIds DEF IdInv
<1>2. pc'[s] = "idle"
  BY DEF Raise, IdInv, TypeInv
<1>3. /\ next' \in [Node -> 0..(Width - 1)]
      /\ \A m \in Node : next'[m] >= next[m] /\ (initialized'[m] => initialized[m])
  <2>1. NodeOf[s] \in Node /\ val[s] \in 1..ColMax /\ is_error[s] \in BOOLEAN
    BY NodeOfAssumption, Numbers DEF Raise, IdInv, TypeInv, RowInv
  <2>2. SetIfHigher(NodeOf[s], val[s], is_error[s])
    BY DEF Raise
  <2> QED BY <2>1, <2>2, SetIfHigherIs DEF IdInv
<1> QED
  BY <1>1, <1>2, <1>3, NextNumbers, NotLoaded, StoredKept

\* The three layers together.
AllocInv == ReserveInv /\ StoredInv

LEMMA AllocStep ==
  ASSUME SafeConfig, AllocInv, [Next]_vars
  PROVE  AllocInv'
<1> USE DEF AllocInv
<1>1. ReserveInv'
  BY HandStep DEF SafeConfig
<1>2. ASSUME NEW s \in Session, Insert(s) PROVE StoredInv'
  BY <1>2, StoredBegin, StoredStartRow, StoredUseExplicit, StoredUseReserved, StoredReserve,
     StoredWriteRow, StoredRelease, StoredEndBulk, EndStmtMoves, StoredMoves DEF Insert
<1>3. ASSUME NEW s \in Session, NEW v \in Explicit, NEW error \in BOOLEAN, Update(s, v, error)
      PROVE  StoredInv'
  BY <1>3, StoredUpdate
<1>4. ASSUME NEW s \in Session, Commit(s) \/ Rollback(s) \/ Settle(s) \/ Raise(s)
      PROVE  StoredInv'
  BY <1>4, CommitMoves, StoredMoves, StoredRaise
<1>5. ASSUME NEW n \in Node, Truncate(n) PROVE StoredInv'
  BY <1>5 DEF Truncate, StoredInv, StoredBelow, StoredApart, StoredIds
<1>6. ASSUME NEW n \in Node, Flush(n) \/ Crash(n) PROVE StoredInv'
  BY <1>6, FlushMoves, CrashMoves, StoredMoves DEF SafeConfig
<1>7. CASE UNCHANGED vars
  <2>1. /\ StoredIds' = StoredIds /\ \A t \in Session : InHand(t)' = InHand(t)
        /\ \A n \in Node : Loaded(n)' = Loaded(n)
        /\ UNCHANGED <<next, imin, imax>>
    BY <1>7 DEF vars, counter, cursor, row, StoredIds, InHand, Loaded
  <2>2. StoredInv'
    BY <2>1 DEF StoredInv, StoredBelow, StoredApart, InClass
  <2> QED BY <1>1, <2>2
<1> QED
  BY <1>1, <1>2, <1>3, <1>4, <1>5, <1>6, <1>7 DEF Next

-----------------------------------------------------------------------------
(***************************************************************************)
(* The simulation.                                                         *)
(***************************************************************************)
LEMMA TakeSim ==
  ASSUME NEW s \in Session, NEW nr, nr \notin StoredIds, \A t \in Session : nr \notin InHand(t),
         \A t \in Session \ {s} : Untouched(t), InHand(s)' = InHand(s) \cup {nr},
         StoredIds' = StoredIds
  PROVE  Ids!UNext
<1>1. \A t \in Session \ {s} : InHand(t)' = InHand(t)
  BY UntouchedHand
<1>2. nr \notin Ids!InUse
  BY DEF Ids!InUse
<1>3. [t \in Session |-> InHand(t)]' = [[t \in Session |-> InHand(t)] EXCEPT ![s] = @ \cup {nr}]
  BY <1>1
<1>4. Ids!Take(s, nr)
  BY <1>2, <1>3 DEF Ids!Take
<1>5. nr \in [t \in Session |-> InHand(t)]'[s]
  OBVIOUS
<1> QED
  BY <1>4, <1>5 DEF Ids!UNext

LEMMA MovesSim == ASSUME Moves PROVE Ids!UNext
<1>1. ASSUME NEW v \in StoredIds', v \notin StoredIds
      PROVE  v \in UNION {[t \in Session |-> InHand(t)][s] \ [t \in Session |-> InHand(t)]'[s] : s \in Session}
  <2>1. PICK s \in Session : v \in InHand(s) /\ InHand(s)' = {}
    BY <1>1 DEF Moves
  <2>2. v \in [t \in Session |-> InHand(t)][s] \ [t \in Session |-> InHand(t)]'[s]
    BY <2>1
  <2> QED BY <2>2
<1>2. \A s \in Session : [t \in Session |-> InHand(t)]'[s] \subseteq [t \in Session |-> InHand(t)][s]
  BY DEF Moves
<1>3. StoredIds \subseteq StoredIds'
  BY DEF Moves
<1>4. Ids!Settle
  BY <1>1, <1>2, <1>3 DEF Ids!Settle
<1> QED
  BY <1>4 DEF Ids!UNext

LEMMA GiveBackSim ==
  ASSUME \A t \in Session : InHand(t)' \subseteq InHand(t), StoredIds' = StoredIds
  PROVE  Ids!UNext
BY DEF Ids!UNext, Ids!Settle

LEMMA KeepsSim == ASSUME NEW s \in Session, Keeps(s), rows' = rows PROVE Ids!UNext
<1>1. \A t \in Session : InHand(t)' \subseteq InHand(t)
  BY UntouchedHand DEF Keeps
<1> QED
  BY <1>1, SameIds, GiveBackSim

LEMMA RemoveSim ==
  ASSUME \A t \in Session : InHand(t)' = InHand(t), StoredIds' \subseteq StoredIds
  PROVE  Ids!UNext
<1>1. [t \in Session |-> InHand(t)]' = [t \in Session |-> InHand(t)]
  OBVIOUS
<1> QED
  BY <1>1 DEF Ids!UNext, Ids!Remove

\* A value is taken if the column can hold it, and nothing happens if not.
LEMMA GeneratedSim ==
  ASSUME IdInv, NEW s \in Session, pc[s] = "update", NEW nr \in 1..(Width - 1),
         InClass(NodeOf[s], nr), Generated(s, nr), batch' = batch, open' = open,
         left' = left, rows' = rows,
         nr \notin StoredIds, \A t \in Session : nr \notin InHand(t),
         \A t \in Session \ {s} : Untouched(t)
  PROVE  Ids!UNext
<1>1. CASE InHand(s)' = InHand(s) \cup {nr}
  BY <1>1, SameIds, TakeSim
<1>2. CASE InHand(s)' = InHand(s)
  <2>1. \A t \in Session : InHand(t)' \subseteq InHand(t)
    BY <1>2, UntouchedHand
  <2> QED BY <2>1, SameIds, GiveBackSim
<1> QED
  BY <1>1, <1>2, TakenIs

LEMMA StepSim ==
  ASSUME SafeConfig, AllocInv, [Next]_vars
  PROVE  Ids!UNext
<1> USE DEF AllocInv, ReserveInv
<1>1. ASSUME NEW s \in Session, NEW e \in Estimates, Begin(s, e) PROVE Ids!UNext
  BY <1>1, HandBegin, KeepsSim DEF Begin
<1>2. ASSUME NEW s \in Session, NEW v \in {0} \cup Explicit, StartRow(s, v) PROVE Ids!UNext
  BY <1>2, HandStartRow, KeepsSim DEF StartRow
<1>3. ASSUME NEW s \in Session, UseExplicit(s) PROVE Ids!UNext
  BY <1>3, HandUseExplicit, KeepsSim DEF UseExplicit, SafeConfig
<1>4. ASSUME NEW s \in Session, UseReserved(s) PROVE Ids!UNext
  <2>1. pc[s] = "update" /\ Generated(s, nid[s]) /\ UNCHANGED <<batch, open, left, rows>>
    BY <1>4 DEF UseReserved
  <2> QED BY <1>4, <2>1, TakeReserved, GeneratedSim
<1>5. ASSUME NEW s \in Session, Reserve(s) PROVE Ids!UNext
  <2>1. pc[s] = "update" /\ UNCHANGED <<batch, open, left, rows>>
    BY <1>5 DEF Reserve
  <2> QED BY <1>5, <2>1, TakeFirst, GeneratedSim
<1>6. ASSUME NEW s \in Session, NEW p \in Part, NEW error \in BOOLEAN, WriteRow(s, p, error)
      PROVE  Ids!UNext
  BY <1>6, HandWriteRow, KeepsSim DEF WriteRow
<1>7. ASSUME NEW s \in Session, Release(s) PROVE Ids!UNext
  BY <1>7, HandRelease, KeepsSim DEF Release
<1>8. ASSUME NEW s \in Session, NEW error \in BOOLEAN, EndBulk(s, error) PROVE Ids!UNext
  BY <1>8, HandEndBulk, KeepsSim DEF EndBulk
<1>9. ASSUME NEW s \in Session, EndStmt(s) PROVE Ids!UNext
  BY <1>9, EndStmtMoves, MovesSim
<1>10. ASSUME NEW s \in Session, NEW v \in Explicit, NEW error \in BOOLEAN, Update(s, v, error)
       PROVE  Ids!UNext
  BY <1>10, HandUpdate, KeepsSim DEF Update
<1>11. ASSUME NEW s \in Session, Raise(s) PROVE Ids!UNext
  <2>1. \A t \in Session \ {s} : InHand(t)' = InHand(t)
    BY <1>11, HandRaise, UntouchedHand DEF Keeps
  <2>2. InHand(s)' = InHand(s)
    BY <1>11 DEF Raise, InHand, IdInv, TypeInv
  <2>3. StoredIds' \subseteq StoredIds
    BY <1>11, RaiseIds DEF IdInv
  <2> QED BY <2>1, <2>2, <2>3, RemoveSim
<1>12. ASSUME NEW n \in Node, Truncate(n) PROVE Ids!UNext
  <2>1. \A t \in Session : InHand(t)' = InHand(t)
    BY <1>12 DEF Truncate, cursor, InHand
  <2>2. StoredIds' = {}
    BY <1>12 DEF Truncate, StoredIds
  <2> QED BY <2>1, <2>2, RemoveSim
<1>13. ASSUME NEW n \in Node, Flush(n) \/ Crash(n) PROVE Ids!UNext
  BY <1>13, FlushMoves, CrashMoves, MovesSim DEF SafeConfig
<1>15. ASSUME NEW s \in Session, Commit(s) \/ Rollback(s) \/ Settle(s) PROVE Ids!UNext
  BY <1>15, CommitMoves, MovesSim
<1>14. CASE UNCHANGED vars
  <2>1. rows' = rows /\ \A t \in Session : InHand(t)' = InHand(t)
    BY <1>14 DEF vars, cursor, InHand
  <2> QED BY <2>1, SameIds, GiveBackSim
<1> QED
  BY <1>1, <1>2, <1>3, <1>4, <1>5, <1>6, <1>7, <1>8, <1>9, <1>10, <1>11, <1>12, <1>13, <1>14,
     <1>15 DEF Next, Insert

\* The invariant of the third layer.
THEOREM AllocInvariance == SafeConfig => (Spec => []AllocInv)
<1> SUFFICES ASSUME SafeConfig PROVE Spec => []AllocInv
  OBVIOUS
<1>1. Init => AllocInv
  BY InitId, InitHand DEF AllocInv, ReserveInv, Init, StoredInv, StoredBelow, StoredApart,
                          StoredIds
<1>2. AllocInv /\ [Next]_vars => AllocInv'
  BY AllocStep
<1> QED
  BY <1>1, <1>2, PTL DEF Spec

\* No generated value is in two hands, or in hand and in a row of the table; a
\* row of a transaction that is open or prepared counts as in hand.
THEOREM NoValueTwice == SafeConfig => (Spec => []Unique)
<1> SUFFICES ASSUME SafeConfig PROVE Spec => []Unique
  OBVIOUS
<1>1. ASSUME AllocInv PROVE Unique
  <2> USE <1>1 DEF AllocInv, ReserveInv
  <2>1. ASSUME NEW s \in Session, NEW v \in InHand(s) PROVE v \notin StoredIds
    BY HandNumbers DEF StoredInv, StoredApart
  <2>2. ASSUME NEW s \in Session, NEW t \in Session, s # t PROVE InHand(s) \cap InHand(t) = {}
    <3>1. CASE NodeOf[s] = NodeOf[t]
      BY <2>2, <3>1 DEF HandInv, Disjoint
    <3>2. CASE NodeOf[s] # NodeOf[t]
      BY <3>2, HandNumbers, OtherNode, NodeOfAssumption
    <3> QED BY <3>1, <3>2
  <2> QED BY <2>1, <2>2 DEF Unique
<1> QED
  BY <1>1, AllocInvariance, PTL

\* The counters of the nodes implement UniqueIds: the value a session takes for
\* a row is one that no row has and no session of any node has in hand, in open
\* and prepared transactions too, and values only become rows, or are given
\* back, whatever row, batch or commit fails, and whenever a node crashes or
\* flushes its tables with none of its transactions open or prepared.
THEOREM Refinement == SafeConfig => (Spec => ImplementsUniqueIds)
<1> SUFFICES ASSUME SafeConfig PROVE Spec => ImplementsUniqueIds
  OBVIOUS
<1>1. Init => Ids!UInit
  BY DEF Init, Ids!UInit, InHand, StoredIds
<1>2. AllocInv /\ [Next]_vars => [Ids!UNext]_(Ids!ids)
  BY StepSim
<1> QED
  BY <1>1, <1>2, AllocInvariance, PTL DEF Spec, ImplementsUniqueIds, Ids!USpec
=============================================================================
