--------------------------- MODULE AutoIncProofs ---------------------------
(***************************************************************************)
(* Proofs about AutoInc, for any number of nodes, sessions and partitions, *)
(* any step and mode values.                                               *)
(*                                                                         *)
(* They have three layers.  Types and residue classes hold in every        *)
(* configuration.  That intervals do not overlap needs OneReservation:     *)
(* beyond it a refused row may set the cursor below a second interval,     *)
(* and the release then lowers the counter over the values of others (the  *)
(* run reopened); and it needs CounterKept: a counter lost while rows of   *)
(* the node's transactions are open starts again below them.  That the     *)
(* rows of the table are apart from both, in AutoIncRefinement, needs      *)
(* partitions that answer as well.                                         *)
(***************************************************************************)
EXTENDS AutoInc, WellFoundedInduction, TLAPS

(***************************************************************************)
(* The invariants.                                                         *)
(***************************************************************************)
InClass(n, v) == v % Step = Mode[n]

\* A row has begun, and update_auto_increment is still to come.
Pending(s) == IF pc[s] = "update" THEN 1 ELSE 0

\* The statement has not begun, or has given back what it had reserved.
Outside == {"idle", "bulk", "commit", "raise", "prepared"}

\* TypeOK, a conjunct for each variable.
TypeInv ==
  /\ initialized \in [Node -> BOOLEAN] /\ failed \in [Node -> BOOLEAN]
  /\ next \in [Node -> 0..(Width - 1)] /\ share_value \in [Node -> 0..(ColMax + 1)]
  /\ pc \in [Session -> PC] /\ stmts \in 0..MaxStmt
  /\ est \in [Session -> 0..MaxRows] /\ left \in [Session -> 0..MaxRows]
  /\ cnt \in [Session -> 0..MaxRows]
  /\ val \in [Session -> 0..(Width - 1)] /\ prev \in [Session -> 0..(Width - 1)]
  /\ nid \in [Session -> 0..(Width - 1)] /\ cur \in [Session -> 0..(Width - 1)]
  /\ imin \in [Session -> 0..(Width - 1)] /\ imax \in [Session -> 0..(Width - 1)]
  /\ info_called \in [Session -> BOOLEAN] /\ is_error \in [Session -> BOOLEAN]
  /\ batch \in [Session -> SUBSET Row] /\ open \in [Session -> SUBSET Row]
  /\ rows \subseteq Row

\* A statement reserves at most once for each of its rows, and has given back
\* everything when it ends.
CountInv ==
  \A s \in Session :
    /\ cnt[s] + left[s] + Pending(s) <= IF est[s] > 0 THEN est[s] ELSE UnknownRows
    /\ pc[s] \in Outside => cnt[s] = 0 /\ nid[s] = 0 /\ imin[s] = 0 /\ imax[s] = 0
    /\ pc[s] \in {"idle", "raise", "prepared"} => batch[s] = {} /\ est[s] = 0 /\ left[s] = 0
    /\ est[s] \in Estimates \cup {0}

\* The row a session works on.
RowInv ==
  \A s \in Session :
    /\ pc[s] = "update" => /\ val[s] \in {0} \cup Explicit /\ prev[s] = nid[s]
                           /\ val[s] = 0 => next[NodeOf[s]] >= 1
    /\ pc[s] = "write" => val[s] \in 1..ColMax /\ cur[s] \in {0, val[s]}
    /\ pc[s] = "raise" => val[s] \in Explicit
    /\ imax[s] > 0 => /\ nid[s] > 0
                      /\ pc[s] = "write" => prev[s] > 0 \/ cur[s] > 0

\* The cursor, and every value generated from it, is of the node's class.
ClassInv ==
  \A s \in Session :
    /\ nid[s] = 0 \/ InClass(NodeOf[s], nid[s])
    /\ prev[s] = 0 \/ InClass(NodeOf[s], prev[s])
    /\ cur[s] = 0 \/ InClass(NodeOf[s], cur[s])
    /\ \A r \in batch[s] \cup open[s] : r.gen => InClass(NodeOf[s], r.val)

\* A counter that was read is not zero, so that no row gets the value 0.
CounterInv == \A n \in Node : initialized[n] => next[n] >= 1

IdInv == TypeInv /\ CountInv /\ RowInv /\ ClassInv /\ CounterInv

\* Every statement reserves at most once: INSERT SELECTs of one row, and
\* explicit values only where no row follows that could need a second interval.
OneReservation == UnknownRows <= 1 /\ (Explicit = {} \/ Estimates \subseteq 0..2)

\* No counter is lost beside rows that are not committed and stay.
CounterKept == "drop" \notin Faults

\* The values generated for rows of the batch, and for those of the earlier
\* statements of the transaction.
Gen(s)  == {r.val : r \in {x \in batch[s] : x.gen}}
Kept(s) == {r.val : r \in {x \in open[s] : x.gen}}

\* The rows the statement may still need a value for.
Ahead(s) == left[s] + Pending(s)

\* The interval of a statement lies below the counter and is long enough for
\* the rows to come; its cursor has passed the values it has given to rows, and
\* a refused row takes it back to a value that no row has.
CursorOk(s) ==
  /\ imax[s] = 0 => /\ nid[s] = 0 /\ imin[s] = 0 /\ cnt[s] = 0
                    /\ pc[s] = "write" => cur[s] = 0 /\ prev[s] = 0
                    /\ pc[s] \notin Outside => Gen(s) = {}
  /\ imax[s] > 0 =>
       /\ imin[s] < imax[s] /\ imin[s] <= nid[s] /\ imax[s] <= next[NodeOf[s]]
       /\ 0 < imin[s] /\ cnt[s] >= 1
       /\ Ahead(s) > 0 => nid[s] + Ahead(s) * Step <= imax[s]
       /\ (\A v \in Gen(s) : v < nid[s]) /\ (\A v \in Kept(s) : v < imin[s])
       /\ pc[s] = "write" =>
            /\ prev[s] <= nid[s]
            /\ cur[s] # 0 => cur[s] < nid[s] /\ imin[s] <= cur[s] /\ cur[s] < imax[s]
            /\ prev[s] > 0 => imin[s] <= prev[s] /\ \A v \in Gen(s) : v < prev[s]
            /\ prev[s] = 0 => cur[s] # 0 /\ Gen(s) = {}

CursorInv == \A s \in Session : CursorOk(s)

\* What two sessions of a node have, reserved or in hand, does not overlap.
Disjoint(s, t) ==
  /\ imax[s] > 0 /\ imax[t] > 0 => imax[s] <= imin[t] \/ imax[t] <= imin[s]
  /\ imax[t] > 0 => \A v \in InHand(s) : v < imin[t] \/ imax[t] <= v
  /\ InHand(s) \cap InHand(t) = {}

HandInv ==
  \A s \in Session :
    /\ \A v \in InHand(s) : v < next[NodeOf[s]]
    /\ \A t \in Session : t # s /\ NodeOf[t] = NodeOf[s] => Disjoint(s, t)

-----------------------------------------------------------------------------
(***************************************************************************)
(* Arithmetic.                                                             *)
(***************************************************************************)
\* Division, as the provers can use it.
LEMMA DivMod == ASSUME NEW y \in Nat, NEW k \in Nat \ {0}
                PROVE  \E q \in Nat : \E m \in 0..(k - 1) :
                         y = q * k + m /\ q = y \div k /\ m = y % k
<1>1. PICK q \in Nat : q = y \div k
  OBVIOUS
<1>2. q * k <= y /\ y < q * k + k
  BY <1>1
<1>3. PICK p \in Nat : p = q * k
  OBVIOUS
<1>4. PICK m : m = y - p
  OBVIOUS
<1>5. m \in 0..(k - 1) /\ y = q * k + m
  BY <1>2, <1>3, <1>4
<1>6. y % k = m
  BY <1>5
<1> QED
  BY <1>1, <1>5, <1>6

\* A multiple of the step does not change the class.
LEMMA SameClass == ASSUME NEW a \in Nat, NEW k \in Nat \ {0}, NEW j \in Nat
                   PROVE  (a + j * k) % k = a % k
<1>1. PICK q \in Nat, m \in 0..(k - 1) : a = q * k + m /\ m = a % k
  BY DivMod
<1>2. a + j * k = (q + j) * k + m
  BY <1>1
<1>3. ((q + j) * k + m) % k = m
  OBVIOUS
<1> QED
  BY <1>1, <1>2, <1>3

\* Two values of a class are a step apart.
LEMMA Apart == ASSUME NEW a \in Nat, NEW b \in Nat, NEW k \in Nat \ {0},
                      a % k = b % k, a < b
               PROVE  a + k <= b
<1>1. PICK q \in Nat, m \in 0..(k - 1) : a = q * k + m /\ m = a % k
  BY DivMod
<1>2. PICK p \in Nat, l \in 0..(k - 1) : b = p * k + l /\ l = b % k
  BY DivMod
<1>3. p > q
  <2> SUFFICES ASSUME p <= q PROVE FALSE
    BY <1>1
  <2>1. p * k <= q * k
    OBVIOUS
  <2> QED BY <2>1, <1>1, <1>2
<1>4. p * k >= (q + 1) * k
  BY <1>3
<1> QED
  BY <1>1, <1>2, <1>4

\* A nonempty set of numbers has a least one, and a bounded one a greatest.
LEMMA Least == ASSUME NEW T \in SUBSET Nat, T # {}
               PROVE  \E m \in T : \A k \in T : m <= k
<1> DEFINE R == OpToRel(<, Nat)
<1>1. IsWellFoundedOn(R, Nat)
  BY NatLessThanWellFounded
<1>2. \A x, y \in Nat : x < y => <<x, y>> \in R
  BY DEF OpToRel
<1> HIDE DEF R
<1>3. PICK m \in T : \A y \in T : ~ (<<y, m>> \in R)
  BY <1>1, WFMin
<1>4. \A y \in T : ~(y < m)
  BY <1>2, <1>3
<1> QED
  BY <1>4

LEMMA Greatest == ASSUME NEW k \in Nat, NEW S \in SUBSET (0..k), S # {}
                  PROVE  Max(S) \in S /\ \A y \in S : y <= Max(S)
<1>1. PICK n \in S : TRUE
  OBVIOUS
<1> DEFINE T == {k - x : x \in S}
<1>2. T \in SUBSET Nat /\ k - n \in T
  OBVIOUS
<1>3. PICK m \in T : \A y \in T : m <= y
  BY <1>2, Least
<1>4. PICK x \in S : m = k - x
  OBVIOUS
<1>5. \A y \in S : x >= y
  <2> TAKE y \in S
  <2>1. k - y \in T
    OBVIOUS
  <2> QED BY <1>3, <1>4, <2>1
<1> QED
  BY <1>5 DEF Max

\* The first value of the class above x, and the first that is not below it.
LEMMA AboveIs ==
  ASSUME NEW n \in Node, NEW x \in 0..ColMax
  PROVE  /\ Above(n, x) \in (x + 1)..(x + Step)
         /\ Above(n, x) \in 1..(Width - 1)
         /\ InClass(n, Above(n, x))
         /\ compute_next_insert_id(n, x) = Above(n, x)
<1>1. PICK k, m, y, w : k = Step /\ m = Mode[n] /\ y = x + k - m /\ w = Width
  OBVIOUS
<1>2. /\ k \in Nat \ {0} /\ m \in 0..(k - 1) /\ x \in Nat /\ y \in Nat /\ w \in Nat
      /\ x + k < w
  BY <1>1, StepAssumption, ModeAssumption, ColMaxAssumption, WidthAssumption
<1>3. PICK q \in Nat, z \in 0..(k - 1) : y = q * k + z /\ q = y \div k
  BY <1>2, DivMod
<1>4. PICK p \in Nat : p = q * k
  BY <1>2
<1>5. (p + m) % k = m
  BY <1>2, <1>4
<1>6. y % w = y /\ p + m \in 0..(w - 1) /\ (p + m) % w = p + m
  BY <1>1, <1>2, <1>3, <1>4
<1>7. Above(n, x) = p + m
  BY <1>1, <1>3, <1>4, <1>6 DEF Above, U
<1> QED
  BY <1>1, <1>2, <1>3, <1>4, <1>5, <1>6, <1>7 DEF InClass, compute_next_insert_id

LEMMA RoundUpIs ==
  ASSUME NEW n \in Node, NEW x \in 0..MaxNext
  PROVE  /\ RoundUp(n, x) \in x..(x + Step - 1)
         /\ InClass(n, RoundUp(n, x))
<1>1. PICK k, m, y, w : k = Step /\ m = Mode[n] /\ y = x + k - m - 1 /\ w = Width
  OBVIOUS
<1>2. PICK h \in Nat : h = 2^MaxRows
  BY PowerAssumption
<1>3. /\ k \in Nat \ {0} /\ m \in 0..(k - 1) /\ x \in Nat /\ y \in Nat /\ w \in Nat
      /\ MaxNext + k * (2 + h) < w
  BY <1>1, <1>2, StepAssumption, ModeAssumption, BoundAssumption, WidthAssumption
<1>4. k * (2 + h) >= k /\ MaxNext \in Nat
  BY <1>2, <1>3, BoundAssumption
<1>5. x + k < w
  BY <1>3, <1>4
<1>6. PICK q \in Nat, z \in 0..(k - 1) : y = q * k + z /\ q = y \div k
  BY <1>3, DivMod
<1>7. PICK p \in Nat : p = q * k
  BY <1>3
<1>8. (p + m) % k = m
  BY <1>3, <1>7
<1>9. y % w = y /\ (p + m) % w = p + m
  <2>1. y < w /\ p + m < w
    BY <1>1, <1>3, <1>5, <1>6, <1>7
  <2>2. y \in Nat /\ p + m \in Nat /\ w \in Nat
    BY <1>3
  <2> QED BY <2>1, <2>2
<1>10. RoundUp(n, x) = p + m
  BY <1>1, <1>6, <1>7, <1>9 DEF RoundUp, U
<1> QED
  BY <1>1, <1>3, <1>6, <1>7, <1>8, <1>10 DEF InClass

\* The end of an interval of j values that begins with f.
LEMMA EndIs ==
  ASSUME NEW n \in Node, NEW x \in 0..MaxNext, NEW j \in 1..(2^MaxRows),
         NEW f, f = RoundUp(n, x)
  PROVE  /\ U(f + j * Step) = f + j * Step
         /\ f + j * Step \in (f + Step)..(Width - 1)
         /\ InClass(n, f + j * Step)
<1>1. PICK k, w : k = Step /\ w = Width
  OBVIOUS
<1>2. PICK h \in Nat : h = 2^MaxRows
  BY PowerAssumption
<1>3. /\ k \in Nat \ {0} /\ w \in Nat /\ MaxNext \in Nat
      /\ MaxNext + k * (2 + h) < w
  BY <1>1, <1>2, StepAssumption, BoundAssumption, WidthAssumption
<1>4. f \in x..(x + k - 1) /\ f % k = Mode[n] /\ f \in Nat
  BY <1>1, <1>3, RoundUpIs DEF InClass
<1>5. j \in 1..h /\ j \in Nat
  BY <1>2
<1>6. PICK p, r : p = j * k /\ r = h * k
  OBVIOUS
<1>12. p \in Nat /\ r \in Nat
  BY <1>2, <1>3, <1>5, <1>6
<1>7. p >= k /\ p <= r
  BY <1>2, <1>3, <1>5, <1>6, <1>12
<1>8. k * (2 + h) = 2 * k + r
  BY <1>2, <1>3, <1>6
<1>9. f + p \in (f + k)..(w - 1)
  BY <1>3, <1>4, <1>7, <1>8, <1>12
<1>10. (f + p) % w = f + p
  BY <1>3, <1>4, <1>9, <1>12
<1>11. (f + p) % k = Mode[n]
  BY <1>3, <1>4, <1>5, <1>6, SameClass
<1> QED
  BY <1>1, <1>6, <1>9, <1>10, <1>11 DEF U, InClass

-----------------------------------------------------------------------------
(***************************************************************************)
(* The first layer: types and residue classes, in every configuration.     *)
(***************************************************************************)
LEMMA TypeInvType == TypeInv <=> TypeOK
BY DEF TypeInv, TypeOK

\* The bounds as numbers.
LEMMA Numbers ==
  /\ ColMax \in Nat /\ Width \in Nat /\ ColMax + 1 <= Width - 1 /\ Explicit \subseteq 1..ColMax
  /\ MaxRows \in Nat /\ MaxStmt \in Nat /\ MaxNext \in Nat /\ UnknownRows \in 0..MaxRows
  /\ Estimates \subseteq 0..MaxRows /\ 1 <= Width - 1
BY ColMaxAssumption, BoundAssumption, WidthAssumption, StepAssumption

LEMMA InitId == Init => IdInv
<1> SUFFICES ASSUME Init PROVE IdInv
  OBVIOUS
<1>1. TypeInv
  BY Numbers DEF Init, TypeInv, PC
<1>2. CountInv
  BY Numbers DEF Init, CountInv, Pending, Outside
<1>3. RowInv /\ ClassInv /\ CounterInv
  BY DEF Init, RowInv, ClassInv, CounterInv
<1> QED
  BY <1>1, <1>2, <1>3 DEF IdInv

LEMMA IdBegin == ASSUME IdInv, NEW s \in Session, NEW e \in Estimates, Begin(s, e)
                 PROVE  IdInv'
<1> USE DEF IdInv
<1>1. TypeInv'
  BY Numbers DEF Begin, TypeInv, PC, counter, cursor, row
<1>2. CountInv'
  BY Numbers DEF Begin, TypeInv, CountInv, Pending, Outside, counter, cursor, row
<1>3. RowInv' /\ ClassInv' /\ CounterInv'
  BY DEF Begin, TypeInv, CountInv, Outside, RowInv, ClassInv, CounterInv, InClass, counter, cursor, row
<1> QED
  BY <1>1, <1>2, <1>3

\* What is read from the partitions is above the rows of those that answer.
LEMMA ReadMaxIs == ASSUME TypeInv, NEW s \in Session, NEW q
                   PROVE  /\ ReadMax(s, q) \in 1..(ColMax + 1)
                          /\ \A r \in rows : r.part \in q => r.val < ReadMax(s, q)
<1>0. rows \cup open[s] \subseteq Row
  BY DEF TypeInv
<1> DEFINE S == {1} \cup {r.val + 1 : r \in {x \in rows \cup open[s] : x.part \in q}}
<1>1. S \in SUBSET (1..(ColMax + 1)) /\ S # {}
  BY <1>0, Numbers DEF Row
<1>2. S \in SUBSET (0..(ColMax + 1)) /\ ColMax + 1 \in Nat
  BY <1>1, Numbers
<1>3. Max(S) \in S /\ \A y \in S : y <= Max(S)
  BY <1>1, <1>2, Greatest
<1>4. \A r \in rows : r.part \in q => r.val + 1 \in S
  OBVIOUS
<1>5. ReadMax(s, q) = Max(S)
  BY DEF ReadMax
<1> HIDE DEF S
<1>6. \A r \in rows : r.val \in Nat
  BY <1>0, Numbers DEF Row
<1>7. Max(S) \in 1..(ColMax + 1)
  BY <1>1, <1>3
<1> QED
  BY <1>3, <1>4, <1>5, <1>6, <1>7, Numbers

\* InfoAuto raises the counter, and a row that needs a value finds one.
LEMMA InfoAutoIs ==
  ASSUME TypeInv, CounterInv, NEW s \in Session, NEW generated \in BOOLEAN,
         NEW insert \in BOOLEAN, NEW share \in [Node -> 0..(ColMax + 1)],
         InfoAuto(s, generated, insert, share)
  PROVE  /\ initialized' \in [Node -> BOOLEAN] /\ failed' \in [Node -> BOOLEAN]
         /\ next' \in [Node -> 0..(Width - 1)] /\ share_value' \in [Node -> 0..(ColMax + 1)]
         /\ info_called' \in [Session -> BOOLEAN]
         /\ \A m \in Node : next'[m] >= next[m]
         /\ CounterInv'
         /\ generated => initialized'[NodeOf[s]] /\ next'[NodeOf[s]] >= 1
<1> DEFINE n == NodeOf[s]
<1>0. n \in Node
  BY NodeOfAssumption
<1>1. CASE /\ initialized[n] /\ share_value' = share
           /\ UNCHANGED <<initialized, failed, next, info_called>>
  BY <1>0, <1>1, Numbers DEF TypeInv, CounterInv
<1>2. CASE ~(initialized[n] /\ share_value' = share
             /\ UNCHANGED <<initialized, failed, next, info_called>>)
  <2> DEFINE read == next[n] = 0 \/ failed[n] \/ ~initialized[n]
  <2>1. PICK q, m :
          /\ q \in Answering
          /\ m = IF ~read THEN next[n] ELSE IF generated THEN ReadMax(s, q) ELSE share[n]
          /\ next' = [next EXCEPT ![n] = Max2(@, m)]
          /\ share_value' = [share EXCEPT ![n] = IF read /\ generated THEN m ELSE @]
          /\ initialized' = [initialized EXCEPT ![n] = generated]
          /\ failed' = [failed EXCEPT ![n] = @ /\ ~insert]
          /\ info_called' = [info_called EXCEPT ![s] = @ \/ read]
    BY <1>2 DEF InfoAuto
  <2>2. ReadMax(s, q) \in 1..(ColMax + 1)
    BY ReadMaxIs
  <2>3. m \in 0..(Width - 1) /\ (generated => m >= 1)
    BY <1>0, <2>1, <2>2, Numbers DEF TypeInv
  <2>4. (read /\ generated => m \in 0..(ColMax + 1)) /\ read \in BOOLEAN
    BY <1>0, <2>1, <2>2, Numbers DEF TypeInv
  <2> HIDE DEF read, n
  <2>5. Max2(next[n], m) \in 0..(Width - 1) /\ Max2(next[n], m) >= next[n]
        /\ Max2(next[n], m) >= m
    BY <1>0, <2>3, Numbers DEF Max2, TypeInv
  <2>6. next' \in [Node -> 0..(Width - 1)] /\ share_value' \in [Node -> 0..(ColMax + 1)]
        /\ \A k \in Node : next'[k] >= next[k]
    BY <1>0, <2>1, <2>4, <2>5, Numbers DEF TypeInv
  <2>7. initialized' \in [Node -> BOOLEAN] /\ failed' \in [Node -> BOOLEAN]
    BY <1>0, <2>1 DEF TypeInv
  <2>8. info_called' \in [Session -> BOOLEAN]
    BY <2>1, <2>4 DEF TypeInv
  <2>9. generated => initialized'[n] /\ next'[n] >= 1
    BY <1>0, <2>1, <2>3, <2>5, Numbers DEF TypeInv
  <2>10. CounterInv'
    BY <1>0, <2>1, <2>6, <2>9, Numbers DEF TypeInv, CounterInv
  <2> QED BY <2>6, <2>7, <2>8, <2>9, <2>10 DEF n
<1> QED
  BY <1>1, <1>2

LEMMA IdStartRow ==
  ASSUME IdInv, NEW s \in Session, NEW v \in {0} \cup Explicit, StartRow(s, v)
  PROVE  IdInv'
<1> USE DEF IdInv
<1>1. /\ initialized' \in [Node -> BOOLEAN] /\ failed' \in [Node -> BOOLEAN]
      /\ next' \in [Node -> 0..(Width - 1)] /\ share_value' \in [Node -> 0..(ColMax + 1)]
      /\ info_called' \in [Session -> BOOLEAN]
      /\ \A m \in Node : next'[m] >= next[m]
      /\ CounterInv'
      /\ v = 0 => next'[NodeOf[s]] >= 1
  <2>1. InfoAuto(s, v = 0, TRUE, share_value) /\ (v = 0) \in BOOLEAN
    BY DEF StartRow
  <2>2. share_value \in [Node -> 0..(ColMax + 1)]
    BY DEF TypeInv
  <2> QED BY <2>1, <2>2, InfoAutoIs
<1>2. TypeInv'
  <2>1. v \in 0..(Width - 1)
    BY Numbers
  <2>2. left[s] - 1 \in 0..MaxRows
    BY Numbers DEF StartRow, TypeInv
  <2> QED BY <1>1, <2>1, <2>2 DEF StartRow, TypeInv, PC, cursor, stmt
<1>3. CountInv'
  BY Numbers DEF StartRow, TypeInv, CountInv, Pending, Outside, cursor, stmt
<1>4. RowInv'
  <2>1. \A t \in Session : NodeOf[t] \in Node
    BY NodeOfAssumption
  <2>2. \A m \in Node : next[m] >= 1 => next'[m] >= 1
    BY <1>1, Numbers DEF TypeInv
  <2> QED BY <1>1, <2>1, <2>2 DEF StartRow, TypeInv, RowInv, cursor, stmt
<1>5. ClassInv'
  BY DEF StartRow, TypeInv, ClassInv, InClass, cursor, stmt
<1> QED
  BY <1>1, <1>2, <1>3, <1>4, <1>5

LEMMA IdUseExplicit == ASSUME IdInv, NEW s \in Session, UseExplicit(s) PROVE IdInv'
<1> USE DEF IdInv
<1> DEFINE n == NodeOf[s]
<1>1. n \in Node /\ val[s] \in 1..ColMax
  BY NodeOfAssumption, Numbers DEF UseExplicit, RowInv
<1>2. /\ compute_next_insert_id(n, val[s]) \in 1..(Width - 1)
      /\ InClass(n, compute_next_insert_id(n, val[s]))
  BY <1>1, AboveIs, Numbers
<1>3. nid'[s] = nid[s] \/ (nid[s] > 0 /\ nid'[s] \in 1..(Width - 1) /\ InClass(n, nid'[s]))
  BY <1>2 DEF UseExplicit, TypeInv
<1>4. TypeInv'
  <2>1. nid' \in [Session -> 0..(Width - 1)]
    BY <1>3, Numbers DEF UseExplicit, TypeInv
  <2> QED BY <2>1, Numbers DEF UseExplicit, TypeInv, PC, counter, row, stmt
<1>5. CountInv'
  BY Numbers DEF UseExplicit, TypeInv, CountInv, Pending, Outside, counter, row, stmt
<1>6. RowInv'
  BY <1>1, <1>3, Numbers DEF UseExplicit, TypeInv, RowInv, counter, row, stmt
<1>7. ClassInv'
  BY <1>3, Numbers DEF UseExplicit, TypeInv, ClassInv, InClass, counter, row, stmt
<1>8. CounterInv'
  BY DEF UseExplicit, CounterInv, counter
<1> QED
  BY <1>4, <1>5, <1>6, <1>7, <1>8

\* The two outcomes of taking the value nr.
LEMMA GeneratedIs ==
  ASSUME TypeInv, NEW s \in Session, NEW nr \in 1..(Width - 1), Generated(s, nr)
  PROVE  \/ /\ nr <= ColMax
            /\ val' = [val EXCEPT ![s] = nr] /\ cur' = [cur EXCEPT ![s] = nr]
            /\ nid' = [nid EXCEPT ![s] = Above(NodeOf[s], nr)]
            /\ pc' = [pc EXCEPT ![s] = "write"]
            /\ is_error' = is_error /\ prev' = prev
         \/ /\ nr > ColMax
            /\ nid' = [nid EXCEPT ![s] = IF prev[s] > 0 THEN prev[s] ELSE nr]
            /\ \/ pc' = [pc EXCEPT ![s] = "row"]
               \/ pc' = [pc EXCEPT ![s] = "finish"]
            /\ is_error' \in [Session -> BOOLEAN]
            /\ val' = [val EXCEPT ![s] = 0] /\ prev' = [prev EXCEPT ![s] = 0]
            /\ cur' = [cur EXCEPT ![s] = 0]
<1>1. CASE nr <= ColMax
  <2>1. compute_next_insert_id(NodeOf[s], nr) = Above(NodeOf[s], nr)
    BY <1>1, AboveIs, Numbers, NodeOfAssumption
  <2> QED BY <1>1, <2>1 DEF Generated
<1>2. CASE nr > ColMax
  <2>1. ~(nr <= ColMax)
    BY <1>2, Numbers
  <2>2. Refused(s) /\ RowEnds(s) /\ nid' = [nid EXCEPT ![s] = Restored(s, nr)]
    BY <2>1 DEF Generated
  <2>3. is_error' \in [Session -> BOOLEAN]
    BY <2>2 DEF Refused, TypeInv
  <2>4. \/ pc' = [pc EXCEPT ![s] = "row"]
        \/ pc' = [pc EXCEPT ![s] = "finish"]
    BY <2>2 DEF Refused
  <2> QED BY <1>2, <2>2, <2>3, <2>4 DEF RowEnds, Restored
<1> QED
  BY <1>1, <1>2, Numbers

\* Taking a value keeps the invariant, from an old interval or a new one.
LEMMA IdGenerated ==
  ASSUME IdInv, NEW s \in Session, NEW nr \in 1..(Width - 1), Generated(s, nr),
         InClass(NodeOf[s], nr), pc[s] = "update", val[s] = 0,
         next' \in [Node -> 0..(Width - 1)], \A m \in Node : next[m] >= 1 => next'[m] >= 1,
         imin' \in [Session -> 0..(Width - 1)], imax' \in [Session -> 0..(Width - 1)],
         cnt' \in [Session -> Nat], cnt'[s] <= cnt[s] + 1,
         \A t \in Session \ {s} : imin'[t] = imin[t] /\ imax'[t] = imax[t] /\ cnt'[t] = cnt[t],
         UNCHANGED <<initialized, failed, share_value, stmt, left, info_called, batch, open, rows>>
  PROVE  IdInv'
<1> USE DEF IdInv
<1>1. NodeOf[s] \in Node /\ prev[s] = nid[s] /\ \A t \in Session : NodeOf[t] \in Node
  BY NodeOfAssumption DEF RowInv
<1>2. nr <= ColMax => /\ Above(NodeOf[s], nr) \in 1..(Width - 1)
                      /\ InClass(NodeOf[s], Above(NodeOf[s], nr))
  BY <1>1, AboveIs, Numbers
<1>3. /\ nid'[s] \in 1..(Width - 1) /\ InClass(NodeOf[s], nid'[s])
      /\ \A t \in Session \ {s} : nid'[t] = nid[t]
      /\ nid' \in [Session -> 0..(Width - 1)]
  <2>1. prev[s] > 0 => prev[s] \in 1..(Width - 1) /\ InClass(NodeOf[s], prev[s])
    BY Numbers DEF TypeInv, ClassInv
  <2> QED BY <1>2, <2>1, GeneratedIs, Numbers DEF TypeInv
<1>4. /\ pc' \in [Session -> PC] /\ pc'[s] \in {"write", "row", "finish"}
      /\ \A t \in Session \ {s} : pc'[t] = pc[t]
      /\ is_error' \in [Session -> BOOLEAN]
  <2>1. \/ pc' = [pc EXCEPT ![s] = "write"]
        \/ pc' = [pc EXCEPT ![s] = "row"]
        \/ pc' = [pc EXCEPT ![s] = "finish"]
    BY GeneratedIs
  <2>2. is_error' \in [Session -> BOOLEAN]
    BY GeneratedIs DEF TypeInv
  <2> QED BY <2>1, <2>2 DEF TypeInv, PC
<1>5. /\ val' \in [Session -> 0..(Width - 1)] /\ prev' \in [Session -> 0..(Width - 1)]
      /\ cur' \in [Session -> 0..(Width - 1)]
      /\ \A t \in Session \ {s} : val'[t] = val[t] /\ prev'[t] = prev[t] /\ cur'[t] = cur[t]
      /\ pc'[s] = "write" => val'[s] = nr /\ cur'[s] = nr /\ nr \in 1..ColMax
      /\ prev'[s] \in {0, prev[s]} /\ cur'[s] \in {0, nr}
  <2>1. CASE /\ nr <= ColMax
             /\ val' = [val EXCEPT ![s] = nr] /\ cur' = [cur EXCEPT ![s] = nr]
             /\ prev' = prev
    BY <2>1, Numbers DEF TypeInv
  <2>2. CASE /\ pc' = [pc EXCEPT ![s] = "row"] \/ pc' = [pc EXCEPT ![s] = "finish"]
             /\ val' = [val EXCEPT ![s] = 0] /\ prev' = [prev EXCEPT ![s] = 0]
             /\ cur' = [cur EXCEPT ![s] = 0]
    <3>1. pc'[s] # "write"
      BY <2>2 DEF TypeInv
    <3> QED BY <2>2, <3>1, Numbers DEF TypeInv
  <2> QED BY <2>1, <2>2, GeneratedIs
<1>6. CountInv'
  <2>1. CountInv!(s)'
    BY <1>4, Numbers DEF CountInv, TypeInv, Pending, Outside, stmt
  <2>2. ASSUME NEW t \in Session \ {s} PROVE CountInv!(t)'
    BY <1>3, <1>4, Numbers DEF CountInv, TypeInv, Pending, Outside, stmt
  <2> QED BY <2>1, <2>2 DEF CountInv
<1>7. cnt' \in [Session -> 0..MaxRows]
  <2>1. ASSUME NEW t \in Session PROVE cnt'[t] <= MaxRows
    <3>1. est'[t] \in 0..MaxRows /\ left'[t] \in 0..MaxRows /\ cnt'[t] \in Nat
      BY DEF TypeInv, stmt
    <3>2. Pending(t)' \in 0..1
      BY DEF Pending
    <3>3. cnt'[t] + left'[t] + Pending(t)' <= IF est'[t] > 0 THEN est'[t] ELSE UnknownRows
      BY <1>6 DEF CountInv
    <3> QED BY <3>1, <3>2, <3>3, Numbers
  <2> QED BY <2>1, Numbers
<1>8. TypeInv'
  BY <1>3, <1>4, <1>5, <1>7 DEF TypeInv, stmt
<1>9. RowInv'
  BY <1>1, <1>3, <1>4, <1>5, Numbers DEF TypeInv, RowInv, stmt
<1>10. ClassInv'
  BY <1>3, <1>5, Numbers DEF TypeInv, ClassInv
<1>11. CounterInv'
  BY DEF CounterInv
<1> QED
  BY <1>6, <1>8, <1>9, <1>10, <1>11

LEMMA IdUseReserved == ASSUME IdInv, NEW s \in Session, UseReserved(s) PROVE IdInv'
<1>1. TypeInv /\ ClassInv /\ RowInv
  BY DEF IdInv
<1>2. nid[s] \in 1..(Width - 1) /\ InClass(NodeOf[s], nid[s])
  BY <1>1, Numbers DEF TypeInv, ClassInv, RowInv, UseReserved
<1>3. UNCHANGED <<next, imin, imax, cnt>>
  BY DEF UseReserved, counter
<1>4. cnt' \in [Session -> Nat] /\ cnt'[s] <= cnt[s] + 1
  BY <1>1, <1>3, Numbers DEF TypeInv
<1> QED
  BY <1>1, <1>2, <1>3, <1>4, IdGenerated DEF TypeInv, UseReserved, counter, stmt

\* An interval begins with the first value of the class that is not below the
\* counter, and ends after the values asked for, without an overflow.
LEMMA ReserveIs ==
  ASSUME IdInv, NEW s \in Session, Reserve(s)
  PROVE  \E first, end, nb :
           /\ nb = NbDesired(s) /\ nb \in Nat \ {0}
           /\ first \in 1..(Width - 1) /\ InClass(NodeOf[s], first) /\ first >= next[NodeOf[s]]
           /\ end = first + nb * Step /\ end \in 1..(Width - 1) /\ first + Step <= end
           /\ InClass(NodeOf[s], end)
           /\ next' = [next EXCEPT ![NodeOf[s]] = end]
           /\ imin' = [imin EXCEPT ![s] = first] /\ imax' = [imax EXCEPT ![s] = end]
           /\ Generated(s, first)
<1> DEFINE n     == NodeOf[s]
           first == RoundUp(n, next[n])
           nb    == NbDesired(s)
           end   == U(first + nb * Step)
<1>1. n \in Node /\ TypeInv /\ next[n] \in 0..MaxNext /\ next[n] >= 1
  <2>1. n \in Node /\ TypeInv /\ RowInv
    BY NodeOfAssumption DEF IdInv
  <2>2. pc[s] = "update" /\ val[s] = 0 /\ next[n] <= MaxNext
    BY DEF Reserve
  <2>3. next[n] >= 1
    BY <2>1, <2>2 DEF RowInv
  <2> QED BY <2>1, <2>2, <2>3, Numbers DEF TypeInv
<1>2. cnt[s] \in 0..MaxRows /\ est[s] \in 0..MaxRows
  BY <1>1 DEF TypeInv
<1>3. nb \in 1..(2^MaxRows)
  <2>1. PICK h \in Nat : h = 2^MaxRows
    BY PowerAssumption
  <2>2. 2^cnt[s] \in 1..h /\ MaxRows <= h
    BY <1>2, <2>1, PowerAssumption
  <2>3. Min2(2^cnt[s], AUTO_INC_DEFAULT_NB_MAX) \in 1..h
    BY <2>1, <2>2 DEF Min2, AUTO_INC_DEFAULT_NB_MAX
  <2> QED BY <1>2, <2>1, <2>2, <2>3, Numbers DEF NbDesired
<1>4. first \in next[n]..(next[n] + Step - 1) /\ InClass(n, first)
  BY <1>1, RoundUpIs
<1>5. /\ end = first + nb * Step /\ end \in (first + Step)..(Width - 1)
      /\ InClass(n, end)
  <2> HIDE DEF nb, first, n
  <2> QED BY <1>1, <1>3, EndIs DEF first
<1>6. /\ next' = [next EXCEPT ![n] = end]
      /\ imin' = [imin EXCEPT ![s] = first] /\ imax' = [imax EXCEPT ![s] = end]
      /\ Generated(s, first)
  BY DEF Reserve
<1>7. nb \in Nat \ {0}
  <2>1. 2^MaxRows \in Nat
    BY PowerAssumption
  <2> QED BY <1>3, <2>1
<1>8. first \in Nat /\ end \in Nat /\ Step \in Nat \ {0} /\ first >= next[n] /\ first + Step <= end
      /\ end <= Width - 1
  <2> HIDE DEF nb, first, end
  <2> QED BY <1>1, <1>4, <1>5, Numbers, StepAssumption
<1> HIDE DEF nb, first, end
<1>9. first \in 1..(Width - 1) /\ end \in 1..(Width - 1)
  BY <1>1, <1>8, Numbers
<1> QED
  BY <1>4, <1>5, <1>6, <1>7, <1>8, <1>9 DEF nb

LEMMA IdReserve == ASSUME IdInv, NEW s \in Session, Reserve(s) PROVE IdInv'
<1>1. PICK first, end :
        /\ first \in 1..(Width - 1) /\ end \in 1..(Width - 1) /\ InClass(NodeOf[s], first)
        /\ next' = [next EXCEPT ![NodeOf[s]] = end]
        /\ imin' = [imin EXCEPT ![s] = first] /\ imax' = [imax EXCEPT ![s] = end]
        /\ Generated(s, first)
  BY ReserveIs
<1>2. TypeInv /\ NodeOf[s] \in Node
  BY NodeOfAssumption DEF IdInv
<1>3. /\ next' \in [Node -> 0..(Width - 1)] /\ \A m \in Node : next[m] >= 1 => next'[m] >= 1
      /\ imin' \in [Session -> 0..(Width - 1)] /\ imax' \in [Session -> 0..(Width - 1)]
      /\ \A t \in Session \ {s} : imin'[t] = imin[t] /\ imax'[t] = imax[t]
  BY <1>1, <1>2, Numbers DEF TypeInv
<1>4. /\ cnt' \in [Session -> Nat] /\ cnt'[s] <= cnt[s] + 1
      /\ \A t \in Session \ {s} : cnt'[t] = cnt[t]
  BY <1>2, Numbers DEF TypeInv, Reserve
<1>5. UNCHANGED <<initialized, failed, share_value, stmt, left, info_called, batch, open, rows>>
      /\ pc[s] = "update" /\ val[s] = 0
  BY DEF Reserve
<1> QED
  BY <1>1, <1>3, <1>4, <1>5, IdGenerated

\* The counter is only raised.
LEMMA SetIfHigherIs ==
  ASSUME TypeInv, CounterInv, NEW n \in Node, NEW v \in 1..ColMax, NEW error \in BOOLEAN,
         SetIfHigher(n, v, error)
  PROVE  /\ initialized' \in [Node -> BOOLEAN] /\ failed' \in [Node -> BOOLEAN]
         /\ next' \in [Node -> 0..(Width - 1)] /\ share_value' = share_value
         /\ next'[n] > v
         /\ \A m \in Node : next'[m] >= next[m] /\ (initialized'[m] => initialized[m])
         /\ CounterInv'
<1>1. Above(n, v) \in (v + 1)..(Width - 1)
  BY AboveIs, Numbers
<1>2. /\ next' \in [Node -> 0..(Width - 1)] /\ next'[n] > v
      /\ \A m \in Node : next'[m] >= next[m]
  BY <1>1, Numbers DEF TypeInv, SetIfHigher
<1>3. /\ initialized' \in [Node -> BOOLEAN] /\ failed' \in [Node -> BOOLEAN]
      /\ \A m \in Node : initialized'[m] => initialized[m]
  BY DEF TypeInv, SetIfHigher
<1>4. CounterInv'
  BY <1>2, <1>3, Numbers DEF TypeInv, CounterInv
<1> QED
  BY <1>2, <1>3, <1>4 DEF SetIfHigher

LEMMA IdWriteRow ==
  ASSUME IdInv, NEW s \in Session, NEW p \in Part, NEW error \in BOOLEAN, WriteRow(s, p, error)
  PROVE  IdInv'
<1> USE DEF IdInv
<1>1. /\ NodeOf[s] \in Node /\ val[s] \in 1..ColMax /\ cur[s] \in {0, val[s]} /\ pc[s] = "write"
      /\ \A t \in Session : NodeOf[t] \in Node
  BY NodeOfAssumption DEF WriteRow, RowInv
<1>2. /\ initialized' \in [Node -> BOOLEAN] /\ failed' \in [Node -> BOOLEAN]
      /\ next' \in [Node -> 0..(Width - 1)] /\ share_value' = share_value
      /\ \A m \in Node : next'[m] >= next[m]
      /\ CounterInv'
  BY <1>1, SetIfHigherIs DEF WriteRow
<1>3. /\ nid' \in [Session -> 0..(Width - 1)]
      /\ \A t \in Session \ {s} : nid'[t] = nid[t]
      /\ nid'[s] \in {nid[s], prev[s], cur[s]} /\ (imax[s] > 0 => nid'[s] > 0)
  <2>1. nid' = nid \/ nid' = [nid EXCEPT ![s] = Restored(s, cur[s])]
    BY DEF WriteRow
  <2>2. /\ Restored(s, cur[s]) \in {prev[s], cur[s]}
        /\ imax[s] > 0 => Restored(s, cur[s]) > 0
    BY <1>1, Numbers DEF Restored, TypeInv, RowInv
  <2> QED BY <2>1, <2>2, Numbers DEF TypeInv, RowInv
<1>4. /\ pc' \in [Session -> PC] /\ pc'[s] \in {"row", "finish"}
      /\ \A t \in Session \ {s} : pc'[t] = pc[t]
  <2>1. pc' = [pc EXCEPT ![s] = "row"] \/ pc' = [pc EXCEPT ![s] = "finish"]
    BY DEF WriteRow, Refused
  <2> QED BY <2>1 DEF TypeInv, PC
<1>5. is_error' \in [Session -> BOOLEAN]
  BY DEF WriteRow, Refused, TypeInv
<1>6. /\ val' = [val EXCEPT ![s] = 0] /\ prev' = [prev EXCEPT ![s] = 0]
      /\ cur' = [cur EXCEPT ![s] = 0]
      /\ UNCHANGED <<imin, imax, cnt, stmts, est, left, info_called, open, rows>>
  BY DEF WriteRow, RowEnds, stmt
<1>7. /\ batch' \in [Session -> SUBSET Row]
      /\ \A t \in Session \ {s} : batch'[t] = batch[t]
      /\ \A r \in batch'[s] : \/ r \in batch[s]
                              \/ r = [part |-> p, val |-> val[s], gen |-> cur[s] # 0]
  <2>1. [part |-> p, val |-> val[s], gen |-> cur[s] # 0] \in Row
    BY <1>1 DEF Row
  <2>2. \/ batch' = batch
        \/ batch' = [batch EXCEPT ![s] =
                       @ \cup {[part |-> p, val |-> val[s], gen |-> cur[s] # 0]}]
    BY DEF WriteRow
  <2> HIDE DEF Row
  <2> QED BY <2>1, <2>2 DEF TypeInv
<1>8. TypeInv'
  <2>1. /\ val' \in [Session -> 0..(Width - 1)] /\ prev' \in [Session -> 0..(Width - 1)]
        /\ cur' \in [Session -> 0..(Width - 1)]
    BY <1>6, Numbers DEF TypeInv
  <2> QED BY <1>2, <1>3, <1>4, <1>5, <1>6, <1>7, <2>1 DEF TypeInv
<1>9. CountInv'
  <2>1. CountInv!(s)'
    BY <1>1, <1>4, <1>6, Numbers DEF CountInv, TypeInv, Pending, Outside
  <2>2. ASSUME NEW t \in Session \ {s} PROVE CountInv!(t)'
    BY <1>3, <1>4, <1>6, <1>7, Numbers DEF CountInv, TypeInv, Pending, Outside
  <2> QED BY <2>1, <2>2 DEF CountInv
<1>10. RowInv'
  <2>1. \A m \in Node : next[m] >= 1 => next'[m] >= 1
    BY <1>2, Numbers DEF TypeInv
  <2>2. RowInv!(s)'
    BY <1>3, <1>4, <1>6 DEF RowInv, TypeInv
  <2>3. ASSUME NEW t \in Session \ {s} PROVE RowInv!(t)'
    BY <1>1, <1>3, <1>4, <1>6, <2>1 DEF RowInv, TypeInv
  <2> QED BY <2>2, <2>3 DEF RowInv
<1>11. ClassInv'
  <2>1. ASSUME NEW r \in batch'[s] \cup open'[s], r.gen PROVE InClass(NodeOf[s], r.val)
    <3>1. CASE r \in batch[s] \cup open[s]
      BY <2>1, <3>1 DEF ClassInv
    <3>2. CASE r = [part |-> p, val |-> val[s], gen |-> cur[s] # 0]
      <4>1. cur[s] # 0 /\ r.val = val[s]
        BY <2>1, <3>2
      <4> QED BY <1>1, <4>1 DEF ClassInv
    <3> QED BY <1>6, <1>7, <2>1, <3>1, <3>2
  <2>2. ClassInv!(s)'
    BY <1>3, <1>6, <2>1 DEF ClassInv, TypeInv, InClass
  <2>3. ASSUME NEW t \in Session \ {s} PROVE ClassInv!(t)'
    BY <1>3, <1>6, <1>7 DEF ClassInv, TypeInv, InClass
  <2> QED BY <2>2, <2>3 DEF ClassInv
<1> QED
  BY <1>2, <1>8, <1>9, <1>10, <1>11

LEMMA IdRelease == ASSUME IdInv, NEW s \in Session, Release(s) PROVE IdInv'
<1> USE DEF IdInv
<1>1. NodeOf[s] \in Node /\ \A t \in Session : NodeOf[t] \in Node
  BY NodeOfAssumption
<1>2. Lowered(s, NodeOf[s]) \in {next[NodeOf[s]], nid[s]} /\ Lowered(s, NodeOf[s]) \in 0..(Width - 1)
      /\ (next[NodeOf[s]] >= 1 => Lowered(s, NodeOf[s]) >= 1)
  BY <1>1, Numbers DEF Lowered, TypeInv
<1>3. next' \in [Node -> 0..(Width - 1)] /\ \A m \in Node : next[m] >= 1 => next'[m] >= 1
  BY <1>1, <1>2, Numbers DEF Release, TypeInv
<1>4. /\ pc' \in [Session -> PC] /\ pc'[s] \in {"bulk", "commit"}
      /\ \A t \in Session \ {s} : pc'[t] = pc[t]
  BY DEF Release, TypeInv, PC
<1>5. /\ nid' = [nid EXCEPT ![s] = 0] /\ imin' = [imin EXCEPT ![s] = 0]
      /\ imax' = [imax EXCEPT ![s] = 0] /\ cnt' = [cnt EXCEPT ![s] = 0]
      /\ UNCHANGED <<initialized, failed, share_value, cur, val, prev, stmts, est, left,
                     info_called, is_error, batch, open, rows>>
  BY DEF Release, row, stmt
<1>6. TypeInv'
  BY <1>3, <1>4, <1>5, Numbers DEF TypeInv
<1>7. CountInv'
  BY <1>4, <1>5, Numbers DEF CountInv, TypeInv, Pending, Outside
<1>8. RowInv'
  BY <1>1, <1>3, <1>4, <1>5 DEF RowInv, TypeInv
<1>9. ClassInv' /\ CounterInv'
  BY <1>3, <1>5 DEF ClassInv, CounterInv, TypeInv, InClass
<1> QED
  BY <1>6, <1>7, <1>8, <1>9

LEMMA IdEndBulk ==
  ASSUME IdInv, NEW s \in Session, NEW error \in BOOLEAN, EndBulk(s, error)
  PROVE  IdInv'
<1> USE DEF IdInv
<1>1. NodeOf[s] \in Node
  BY NodeOfAssumption
<1>2. /\ pc' \in [Session -> PC] /\ \A t \in Session \ {s} : pc'[t] = pc[t]
      /\ \/ pc'[s] = "release" /\ pc[s] \in {"finish", "row"}
         \/ pc'[s] = "commit" /\ pc[s] = "bulk"
  BY DEF EndBulk, Finished, TypeInv, PC
<1>3. /\ initialized' \in [Node -> BOOLEAN] /\ failed' \in [Node -> BOOLEAN]
      /\ \A m \in Node : initialized'[m] => initialized[m]
  BY <1>1 DEF EndBulk, TypeInv
<1>4. is_error' \in [Session -> BOOLEAN]
  BY DEF EndBulk, TypeInv
<1>5. UNCHANGED <<next, share_value, nid, imin, imax, cnt, cur, val, prev, stmts, est, left,
                  info_called, batch, open, rows>>
  BY DEF EndBulk, cursor, row, stmt
<1>6. TypeInv'
  BY <1>2, <1>3, <1>4, <1>5 DEF TypeInv
<1>7. CountInv'
  BY <1>2, <1>5, Numbers DEF CountInv, TypeInv, Pending, Outside
<1>8. RowInv'
  BY <1>2, <1>5 DEF RowInv, TypeInv
<1>9. ClassInv' /\ CounterInv'
  BY <1>3, <1>5 DEF ClassInv, CounterInv, TypeInv, InClass
<1> QED
  BY <1>6, <1>7, <1>8, <1>9

\* The transaction of s ends in part or not at all, and s with its statement.
Ends(s) ==
  /\ pc' \in [Session -> PC] /\ pc'[s] \in {"idle", "prepared"}
  /\ open' \in [Session -> SUBSET Row] /\ open'[s] \subseteq batch[s] \cup open[s]
  /\ batch' = [batch EXCEPT ![s] = {}]
  /\ \A t \in Session \ {s} : pc'[t] = pc[t] /\ open'[t] = open[t]
  /\ rows \subseteq rows' /\ rows' \subseteq rows \cup batch[s] \cup open[s]
  /\ rows' = rows \/ open'[s] = {}

LEMMA CommitTrxIs ==
  ASSUME TypeInv, NEW s \in Session, NEW R \in SUBSET (batch[s] \cup open[s]), CommitTrx(s, R),
         batch' = [batch EXCEPT ![s] = {}]
  PROVE  Ends(s)
<1>1. R \in SUBSET Row
  BY DEF TypeInv
<1>2. CASE /\ \E q \in SUBSET Part : rows' = rows \cup {r \in R : r.part \in q}
           /\ open' = [open EXCEPT ![s] = {}] /\ pc' = [pc EXCEPT ![s] = "idle"]
  BY <1>2 DEF Ends, TypeInv, PC
<1>3. CASE /\ open' = [open EXCEPT ![s] = R] /\ pc' = [pc EXCEPT ![s] = "prepared"]
           /\ rows' = rows
  BY <1>1, <1>3 DEF Ends, TypeInv, PC
<1> QED
  BY <1>2, <1>3 DEF CommitTrx

LEMMA EndStmtIs == ASSUME TypeInv, NEW s \in Session, EndStmt(s) PROVE Ends(s)
<1>1. batch' = [batch EXCEPT ![s] = {}]
  BY DEF EndStmt
<1>2. CASE /\ \E R \in Continued(s) : open' = [open EXCEPT ![s] = R]
           /\ pc' = [pc EXCEPT ![s] = "idle"] /\ rows' = rows
  <2>1. PICK R \in Continued(s) : open' = [open EXCEPT ![s] = R]
    BY <1>2
  <2>2. R \in SUBSET (batch[s] \cup open[s]) /\ R \in SUBSET Row
    BY DEF Continued, TypeInv
  <2> QED BY <1>1, <1>2, <2>1, <2>2 DEF Ends, TypeInv, PC
<1>3. CASE CommitTrx(s, batch[s])
  BY <1>1, <1>3, CommitTrxIs
<1>4. CASE /\ \E sent \in SUBSET batch[s] : rows' = rows \cup sent
           /\ open' = [open EXCEPT ![s] = {}] /\ pc' = [pc EXCEPT ![s] = "idle"]
  BY <1>1, <1>4 DEF Ends, TypeInv, PC
<1> QED
  BY <1>2, <1>3, <1>4 DEF EndStmt

\* Between statements nothing is in the batch.
LEMMA NoBatch ==
  ASSUME IdInv, NEW s \in Session, pc[s] \in {"idle", "prepared"}, batch' = batch
  PROVE  batch' = [batch EXCEPT ![s] = {}] /\ est[s] = 0 /\ left[s] = 0
BY DEF IdInv, CountInv, TypeInv

LEMMA CommitIs == ASSUME IdInv, NEW s \in Session, Commit(s) PROVE Ends(s)
<1>1. batch' = [batch EXCEPT ![s] = {}]
  BY NoBatch DEF Commit
<1> QED
  BY <1>1, CommitTrxIs DEF Commit, IdInv

LEMMA RollbackIs == ASSUME IdInv, NEW s \in Session, Rollback(s) PROVE Ends(s)
<1>1. batch' = [batch EXCEPT ![s] = {}]
  BY NoBatch DEF Rollback
<1> QED
  BY <1>1 DEF Rollback, Ends, IdInv, TypeInv, PC

LEMMA SettleIs == ASSUME IdInv, NEW s \in Session, Settle(s) PROVE Ends(s)
<1>1. batch' = [batch EXCEPT ![s] = {}]
  BY NoBatch DEF Settle
<1> QED
  BY <1>1 DEF Settle, Ends, IdInv, TypeInv, PC

LEMMA IdEnds ==
  ASSUME IdInv, NEW s \in Session, Ends(s), pc[s] \in {"idle", "commit", "prepared"},
         UNCHANGED <<counter, cursor, row, stmts>>,
         est' = [est EXCEPT ![s] = 0], left' = [left EXCEPT ![s] = 0],
         info_called' \in [Session -> BOOLEAN], is_error' \in [Session -> BOOLEAN]
  PROVE  IdInv'
<1> USE DEF IdInv
<1>1. UNCHANGED <<initialized, failed, next, share_value, nid, imin, imax, cnt, cur, val, prev,
                  stmts>>
  BY DEF counter, cursor, row
<1>2. /\ rows' \subseteq Row /\ batch' \in [Session -> SUBSET Row]
      /\ open' \in [Session -> SUBSET Row] /\ pc' \in [Session -> PC]
  <2>1. batch[s] \in SUBSET Row /\ open[s] \in SUBSET Row /\ rows \in SUBSET Row
    BY DEF TypeInv
  <2> QED BY <2>1 DEF Ends, TypeInv
<1>3. TypeInv'
  <2>1. est' \in [Session -> 0..MaxRows] /\ left' \in [Session -> 0..MaxRows]
    BY Numbers DEF TypeInv
  <2> QED BY <1>1, <1>2, <2>1 DEF TypeInv
<1>4. CountInv'
  <2>1. CountInv!(s)'
    BY <1>1, Numbers DEF Ends, CountInv, TypeInv, Pending, Outside
  <2>2. ASSUME NEW t \in Session \ {s} PROVE CountInv!(t)'
    BY <1>1, Numbers DEF Ends, CountInv, TypeInv, Pending, Outside
  <2> QED BY <2>1, <2>2 DEF CountInv
<1>5. RowInv'
  BY <1>1 DEF Ends, RowInv, TypeInv
<1>6. ClassInv'
  <2>1. ASSUME NEW t \in Session PROVE batch'[t] \cup open'[t] \subseteq batch[t] \cup open[t]
    BY DEF Ends, TypeInv
  <2> QED BY <1>1, <2>1 DEF ClassInv, InClass
<1>7. CounterInv'
  BY <1>1 DEF CounterInv
<1> QED
  BY <1>3, <1>4, <1>5, <1>6, <1>7

LEMMA IdEndStmt == ASSUME IdInv, NEW s \in Session, EndStmt(s) PROVE IdInv'
<1>1. Ends(s)
  BY EndStmtIs DEF IdInv
<1>2. /\ pc[s] = "commit" /\ UNCHANGED <<counter, cursor, row, stmts>>
      /\ est' = [est EXCEPT ![s] = 0] /\ left' = [left EXCEPT ![s] = 0]
  BY DEF EndStmt
<1>3. info_called' \in [Session -> BOOLEAN] /\ is_error' \in [Session -> BOOLEAN]
  BY DEF EndStmt, IdInv, TypeInv
<1> QED
  BY <1>1, <1>2, <1>3, IdEnds

LEMMA IdCommit ==
  ASSUME IdInv, NEW s \in Session, Commit(s) \/ Rollback(s) \/ Settle(s)
  PROVE  IdInv'
<1>1. Ends(s)
  BY CommitIs, RollbackIs, SettleIs
<1>2. /\ pc[s] \in {"idle", "prepared"} /\ batch' = batch /\ UNCHANGED <<counter, cursor, row, stmts>>
      /\ UNCHANGED <<est, left, info_called, is_error>>
  BY DEF Commit, Rollback, Settle, stmt
<1>3. est[s] = 0 /\ left[s] = 0
  BY <1>2, NoBatch
<1>4. /\ est' = [est EXCEPT ![s] = 0] /\ left' = [left EXCEPT ![s] = 0]
      /\ info_called' \in [Session -> BOOLEAN] /\ is_error' \in [Session -> BOOLEAN]
  BY <1>2, <1>3 DEF IdInv, TypeInv
<1> QED
  BY <1>1, <1>2, <1>4, IdEnds

LEMMA UpdateShare ==
  ASSUME TypeInv, NEW s \in Session, NEW v \in Explicit, NEW error \in BOOLEAN, Update(s, v, error)
  PROVE  \E share \in [Node -> 0..(ColMax + 1)] : InfoAuto(s, FALSE, FALSE, share)
<1>1. PICK x \in {share_value[NodeOf[s]]} \cup (IF error THEN {} ELSE {v + 1}) :
        InfoAuto(s, FALSE, FALSE, [share_value EXCEPT ![NodeOf[s]] = x])
  BY DEF Update
<1>2. x \in 0..(ColMax + 1)
  BY NodeOfAssumption, Numbers DEF TypeInv
<1>3. [share_value EXCEPT ![NodeOf[s]] = x] \in [Node -> 0..(ColMax + 1)]
  BY <1>2 DEF TypeInv
<1> QED
  BY <1>1, <1>3

LEMMA IdUpdate ==
  ASSUME IdInv, NEW s \in Session, NEW v \in Explicit, NEW error \in BOOLEAN, Update(s, v, error)
  PROVE  IdInv'
<1> USE DEF IdInv
<1>1. /\ initialized' \in [Node -> BOOLEAN] /\ failed' \in [Node -> BOOLEAN]
      /\ next' \in [Node -> 0..(Width - 1)] /\ share_value' \in [Node -> 0..(ColMax + 1)]
      /\ info_called' \in [Session -> BOOLEAN]
      /\ \A m \in Node : next'[m] >= next[m]
      /\ CounterInv'
  BY UpdateShare, InfoAutoIs
<1>2. /\ pc[s] = "idle" /\ pc' = [pc EXCEPT ![s] = "raise"] /\ val' = [val EXCEPT ![s] = v]
      /\ stmts' = stmts + 1 /\ stmts < MaxStmt /\ is_error' = [is_error EXCEPT ![s] = error]
      /\ UNCHANGED <<nid, imin, imax, cnt, cur, prev, est, left, batch, open, rows>>
  BY DEF Update, cursor
<1>3. TypeInv'
  <2>1. v \in 0..(Width - 1) /\ stmts + 1 \in 0..MaxStmt
    BY <1>2, Numbers DEF TypeInv
  <2>2. is_error' \in [Session -> BOOLEAN]
    BY <1>2 DEF TypeInv
  <2> QED BY <1>1, <1>2, <2>1, <2>2 DEF TypeInv, PC
<1>4. CountInv'
  BY <1>2, Numbers DEF CountInv, TypeInv, Pending, Outside
<1>5. RowInv'
  <2>1. \A t \in Session : NodeOf[t] \in Node
    BY NodeOfAssumption
  <2>2. \A m \in Node : next[m] >= 1 => next'[m] >= 1
    BY <1>1, Numbers DEF TypeInv
  <2> QED BY <1>2, <2>1, <2>2 DEF TypeInv, RowInv
<1>6. ClassInv'
  BY <1>2 DEF TypeInv, ClassInv, InClass
<1> QED
  BY <1>1, <1>3, <1>4, <1>5, <1>6

LEMMA IdRaise == ASSUME IdInv, NEW s \in Session, Raise(s) PROVE IdInv'
<1> USE DEF IdInv
<1>1. /\ NodeOf[s] \in Node /\ val[s] \in 1..ColMax /\ is_error[s] \in BOOLEAN
      /\ \A t \in Session : NodeOf[t] \in Node
  BY NodeOfAssumption, Numbers DEF Raise, RowInv, TypeInv
<1>2. /\ initialized' \in [Node -> BOOLEAN] /\ failed' \in [Node -> BOOLEAN]
      /\ next' \in [Node -> 0..(Width - 1)] /\ share_value' = share_value
      /\ \A m \in Node : next'[m] >= next[m]
      /\ CounterInv'
  <2>1. SetIfHigher(NodeOf[s], val[s], is_error[s])
    BY DEF Raise
  <2> QED BY <1>1, <2>1, SetIfHigherIs
<1>3. rows' \subseteq Row
  <2>1. CASE UNCHANGED rows
    BY <2>1 DEF TypeInv
  <2>2. CASE \E r \in rows : rows' = (rows \ {r}) \cup
                               {[part |-> r.part, val |-> val[s], gen |-> FALSE]}
    <3>1. \A r \in rows : [part |-> r.part, val |-> val[s], gen |-> FALSE] \in Row
      BY <1>1 DEF TypeInv, Row
    <3> QED BY <2>2, <3>1 DEF TypeInv
  <2> QED BY <2>1, <2>2 DEF Raise
<1>4. /\ pc[s] = "raise" /\ pc' = [pc EXCEPT ![s] = "idle"] /\ val' = [val EXCEPT ![s] = 0]
      /\ info_called' = [info_called EXCEPT ![s] = FALSE]
      /\ is_error' = [is_error EXCEPT ![s] = FALSE]
      /\ UNCHANGED <<nid, imin, imax, cnt, cur, prev, stmts, est, left, batch, open>>
  BY DEF Raise, cursor, stmt
<1>5. TypeInv'
  <2>1. info_called' \in [Session -> BOOLEAN] /\ is_error' \in [Session -> BOOLEAN]
    BY <1>4 DEF TypeInv
  <2> QED BY <1>2, <1>3, <1>4, <2>1, Numbers DEF TypeInv, PC
<1>6. CountInv'
  BY <1>4, Numbers DEF CountInv, TypeInv, Pending, Outside
<1>7. RowInv'
  <2>1. \A m \in Node : next[m] >= 1 => next'[m] >= 1
    BY <1>2, Numbers DEF TypeInv
  <2> QED BY <1>1, <1>4, <2>1 DEF RowInv, TypeInv
<1>8. ClassInv'
  BY <1>4 DEF ClassInv, TypeInv, InClass
<1> QED
  BY <1>2, <1>5, <1>6, <1>7, <1>8

\* TRUNCATE and FLUSH TABLES come when no statement of the node runs.
LEMMA IdFresh ==
  ASSUME IdInv, NEW n \in Node, Fresh(n), \A s \in Here(n) : pc[s] \in {"idle", "prepared"},
         NEW x \in 0..1, share_value' = [share_value EXCEPT ![n] = x], rows' \subseteq rows,
         UNCHANGED <<cursor, row, stmt, pc, left, info_called, is_error, batch, open>>
  PROVE  IdInv'
<1> USE DEF IdInv
<1>1. /\ \A s \in Session : NodeOf[s] = n => pc[s] \in {"idle", "prepared"}
      /\ initialized' = [initialized EXCEPT ![n] = FALSE]
      /\ failed' = [failed EXCEPT ![n] = FALSE] /\ next' = [next EXCEPT ![n] = 0]
      /\ UNCHANGED <<nid, imin, imax, cnt, cur, val, prev, stmts, est, pc, left, info_called,
                     is_error, batch, open>>
  BY DEF Here, Fresh, cursor, row, stmt
<1>2. TypeInv'
  BY <1>1, Numbers DEF TypeInv
<1>3. CountInv' /\ ClassInv' /\ CounterInv'
  BY <1>1 DEF CountInv, ClassInv, CounterInv, TypeInv, Pending, InClass
<1>4. RowInv'
  BY <1>1, NodeOfAssumption DEF RowInv, TypeInv
<1> QED
  BY <1>2, <1>3, <1>4

LEMMA IdTruncate == ASSUME IdInv, NEW n \in Node, Truncate(n) PROVE IdInv'
<1>1. /\ Fresh(n) /\ share_value' = [share_value EXCEPT ![n] = 1] /\ rows' \subseteq rows
      /\ \A s \in Here(n) : pc[s] \in {"idle", "prepared"}
      /\ UNCHANGED <<cursor, row, stmt, pc, left, info_called, is_error, batch, open>>
  BY DEF Truncate
<1>2. 1 \in 0..1
  OBVIOUS
<1> QED
  BY <1>1, <1>2, IdFresh

LEMMA IdFlush == ASSUME IdInv, NEW n \in Node, Flush(n) PROVE IdInv'
<1>1. /\ Fresh(n) /\ share_value' = [share_value EXCEPT ![n] = 0] /\ rows' \subseteq rows
      /\ \A s \in Here(n) : pc[s] \in {"idle", "prepared"}
      /\ UNCHANGED <<cursor, row, stmt, pc, left, info_called, is_error, batch, open>>
  BY DEF Flush
<1>2. 0 \in 0..1
  OBVIOUS
<1> QED
  BY <1>1, <1>2, IdFresh

\* A crash: the sessions of lost have nothing left.
LEMMA CrashIs ==
  ASSUME TypeInv, NEW n \in Node, Crash(n)
  PROVE  \E lost \in SUBSET Here(n) :
           /\ lost = {s \in Here(n) : pc[s] # "prepared"} /\ (CounterKept => lost = Here(n))
           /\ Fresh(n) /\ share_value' = [share_value EXCEPT ![n] = 0] /\ stmts' = stmts
           /\ rows \subseteq rows' /\ rows' \subseteq rows \cup UNION {batch[s] : s \in lost}
           /\ nid' = [s \in Session |-> IF s \in lost THEN 0 ELSE nid[s]]
           /\ imin' = [s \in Session |-> IF s \in lost THEN 0 ELSE imin[s]]
           /\ imax' = [s \in Session |-> IF s \in lost THEN 0 ELSE imax[s]]
           /\ cnt' = [s \in Session |-> IF s \in lost THEN 0 ELSE cnt[s]]
           /\ cur' = [s \in Session |-> IF s \in lost THEN 0 ELSE cur[s]]
           /\ val' = [s \in Session |-> IF s \in lost THEN 0 ELSE val[s]]
           /\ prev' = [s \in Session |-> IF s \in lost THEN 0 ELSE prev[s]]
           /\ est' = [s \in Session |-> IF s \in lost THEN 0 ELSE est[s]]
           /\ left' = [s \in Session |-> IF s \in lost THEN 0 ELSE left[s]]
           /\ pc' = [s \in Session |-> IF s \in lost THEN "idle" ELSE pc[s]]
           /\ batch' = [s \in Session |-> IF s \in lost THEN {} ELSE batch[s]]
           /\ open' = [s \in Session |-> IF s \in lost THEN {} ELSE open[s]]
           /\ info_called' = [s \in Session |-> IF s \in lost THEN FALSE ELSE info_called[s]]
           /\ is_error' = [s \in Session |-> IF s \in lost THEN FALSE ELSE is_error[s]]
<1> DEFINE lost == {s \in Here(n) : pc[s] # "prepared"}
<1>1. lost \in SUBSET Here(n)
  OBVIOUS
<1>2. CounterKept => lost = Here(n)
  BY DEF Crash, CounterKept
<1>3. rows \subseteq rows' /\ rows' \subseteq rows \cup UNION {batch[s] : s \in lost}
  <2>1. PICK sent \in SUBSET UNION {batch[s] : s \in lost \ LongTrx} : rows' = rows \cup sent
    BY DEF Crash
  <2>2. UNION {batch[s] : s \in lost \ LongTrx} \subseteq UNION {batch[s] : s \in lost}
    OBVIOUS
  <2> HIDE DEF lost
  <2> QED BY <2>1, <2>2
<1> WITNESS lost \in SUBSET Here(n)
<1> QED
  BY <1>2, <1>3 DEF Crash

LEMMA IdCrash == ASSUME IdInv, NEW n \in Node, Crash(n) PROVE IdInv'
<1> USE DEF IdInv
<1>0. PICK lost \in SUBSET Here(n) :
        /\ lost = {s \in Here(n) : pc[s] # "prepared"}
        /\ Fresh(n) /\ share_value' = [share_value EXCEPT ![n] = 0] /\ stmts' = stmts
        /\ rows' \subseteq rows \cup UNION {batch[s] : s \in lost}
        /\ nid' = [s \in Session |-> IF s \in lost THEN 0 ELSE nid[s]]
        /\ imin' = [s \in Session |-> IF s \in lost THEN 0 ELSE imin[s]]
        /\ imax' = [s \in Session |-> IF s \in lost THEN 0 ELSE imax[s]]
        /\ cnt' = [s \in Session |-> IF s \in lost THEN 0 ELSE cnt[s]]
        /\ cur' = [s \in Session |-> IF s \in lost THEN 0 ELSE cur[s]]
        /\ val' = [s \in Session |-> IF s \in lost THEN 0 ELSE val[s]]
        /\ prev' = [s \in Session |-> IF s \in lost THEN 0 ELSE prev[s]]
        /\ est' = [s \in Session |-> IF s \in lost THEN 0 ELSE est[s]]
        /\ left' = [s \in Session |-> IF s \in lost THEN 0 ELSE left[s]]
        /\ pc' = [s \in Session |-> IF s \in lost THEN "idle" ELSE pc[s]]
        /\ batch' = [s \in Session |-> IF s \in lost THEN {} ELSE batch[s]]
        /\ open' = [s \in Session |-> IF s \in lost THEN {} ELSE open[s]]
        /\ info_called' = [s \in Session |-> IF s \in lost THEN FALSE ELSE info_called[s]]
        /\ is_error' = [s \in Session |-> IF s \in lost THEN FALSE ELSE is_error[s]]
  BY CrashIs
<1>1. /\ initialized' = [initialized EXCEPT ![n] = FALSE]
      /\ failed' = [failed EXCEPT ![n] = FALSE] /\ next' = [next EXCEPT ![n] = 0]
  BY <1>0 DEF Fresh
<1>2. \A s \in Session : s \in lost \/ NodeOf[s] # n \/ pc[s] = "prepared"
  BY <1>0 DEF Here
<1>4. TypeInv'
  <2>1. info_called' \in [Session -> BOOLEAN] /\ is_error' \in [Session -> BOOLEAN]
    BY <1>0 DEF TypeInv
  <2>2. /\ pc' \in [Session -> PC] /\ batch' \in [Session -> SUBSET Row]
        /\ open' \in [Session -> SUBSET Row]
    BY <1>0 DEF TypeInv, PC
  <2>3. /\ initialized' \in [Node -> BOOLEAN] /\ failed' \in [Node -> BOOLEAN]
        /\ next' \in [Node -> 0..(Width - 1)] /\ share_value' \in [Node -> 0..(ColMax + 1)]
        /\ stmts' \in 0..MaxStmt
    BY <1>0, <1>1, Numbers DEF TypeInv
  <2>4. /\ est' \in [Session -> 0..MaxRows] /\ left' \in [Session -> 0..MaxRows]
        /\ cnt' \in [Session -> 0..MaxRows]
        /\ val' \in [Session -> 0..(Width - 1)] /\ prev' \in [Session -> 0..(Width - 1)]
        /\ nid' \in [Session -> 0..(Width - 1)] /\ cur' \in [Session -> 0..(Width - 1)]
        /\ imin' \in [Session -> 0..(Width - 1)] /\ imax' \in [Session -> 0..(Width - 1)]
    BY <1>0, Numbers DEF TypeInv
  <2>5. rows' \subseteq Row
    <3>1. \A s \in Session : batch[s] \subseteq Row
      BY DEF TypeInv
    <3>2. lost \subseteq Session /\ rows \subseteq Row
      BY DEF Here, TypeInv
    <3> QED BY <1>0, <3>1, <3>2
  <2> QED BY <2>1, <2>2, <2>3, <2>4, <2>5 DEF TypeInv
<1>5. CountInv'
  <2> SUFFICES ASSUME NEW s \in Session PROVE CountInv!(s)'
    BY DEF CountInv
  <2>1. CASE s \in lost
    BY <1>0, <2>1, Numbers DEF CountInv, TypeInv, Pending, Outside
  <2>2. CASE s \notin lost
    BY <1>0, <2>2, Numbers DEF CountInv, TypeInv, Pending, Outside
  <2> QED BY <2>1, <2>2
<1>6. RowInv'
  <2> SUFFICES ASSUME NEW s \in Session PROVE RowInv!(s)'
    BY DEF RowInv
  <2>1. CASE s \in lost
    BY <1>0, <2>1, Numbers DEF RowInv, TypeInv
  <2>2. CASE s \notin lost
    <3>1. pc'[s] = pc[s] /\ (pc[s] = "prepared" \/ next'[NodeOf[s]] = next[NodeOf[s]])
      BY <1>0, <1>1, <1>2, <2>2, NodeOfAssumption DEF TypeInv
    <3> QED BY <1>0, <2>2, <3>1 DEF RowInv, TypeInv
  <2> QED BY <2>1, <2>2
<1>7. ClassInv' /\ CounterInv'
  BY <1>0, <1>1 DEF ClassInv, CounterInv, TypeInv, InClass
<1> QED
  BY <1>4, <1>5, <1>6, <1>7

LEMMA IdStep == ASSUME IdInv, [Next]_vars PROVE IdInv'
<1>1. ASSUME NEW s \in Session, Insert(s) PROVE IdInv'
  BY <1>1, IdBegin, IdStartRow, IdUseExplicit, IdUseReserved, IdReserve, IdWriteRow, IdRelease,
     IdEndBulk, IdEndStmt DEF Insert
<1>2. ASSUME NEW s \in Session, Commit(s) \/ Rollback(s) \/ Settle(s) PROVE IdInv'
  BY <1>2, IdCommit
<1>3. ASSUME NEW s \in Session, NEW v \in Explicit, NEW error \in BOOLEAN, Update(s, v, error)
      PROVE  IdInv'
  BY <1>3, IdUpdate
<1>4. ASSUME NEW s \in Session, Raise(s) PROVE IdInv'
  BY <1>4, IdRaise
<1>5. ASSUME NEW n \in Node, Truncate(n) \/ Flush(n) \/ Crash(n) PROVE IdInv'
  BY <1>5, IdTruncate, IdFlush, IdCrash
<1>6. CASE UNCHANGED vars
  BY <1>6 DEF IdInv, TypeInv, CountInv, RowInv, ClassInv, CounterInv, InClass, Pending,
              vars, counter, cursor, row, stmt
<1> QED
  BY <1>1, <1>2, <1>3, <1>4, <1>5, <1>6 DEF Next

\* The invariant of the first layer.
THEOREM ClassInvariance == Spec => []IdInv
<1> QED
  BY InitId, IdStep, PTL DEF Spec

\* Every variable keeps its type; in particular the arithmetic modulo 2^64
\* never wraps around below the bound on reservations.
THEOREM TypeCorrect == Spec => []TypeOK
<1>1. IdInv => TypeOK
  BY TypeInvType DEF IdInv
<1> QED
  BY <1>1, ClassInvariance, PTL

\* A node generates values of its residue class only, whatever raised, lowered
\* or re-read its counter, however often a statement reserves, and whichever
\* partitions do not answer.
THEOREM OwnResidueClass == Spec => []OwnClass
<1>1. IdInv => OwnClass
  BY DEF IdInv, ClassInv, OwnClass, InHand, InClass
<1> QED
  BY <1>1, ClassInvariance, PTL

-----------------------------------------------------------------------------
(***************************************************************************)
(* The second layer: what a statement has reserved stays its own.          *)
(***************************************************************************)
\* A step leaves the statement of t alone.
Untouched(t) ==
  /\ pc'[t] = pc[t] /\ left'[t] = left[t] /\ val'[t] = val[t] /\ prev'[t] = prev[t]
  /\ nid'[t] = nid[t]
  /\ imin'[t] = imin[t] /\ imax'[t] = imax[t] /\ cnt'[t] = cnt[t] /\ cur'[t] = cur[t]
  /\ batch'[t] = batch[t] /\ open'[t] = open[t]

\* A step of s takes nothing and reserves nothing.
Keeps(s) ==
  /\ \A t \in Session \ {s} : Untouched(t)
  /\ InHand(s)' \subseteq InHand(s)
  /\ (imin'[s] = imin[s] /\ imax'[s] = imax[s]) \/ imax'[s] = 0

LEMMA UntouchedHand == ASSUME NEW t \in Session, Untouched(t)
                       PROVE  /\ InHand(t)' = InHand(t) /\ Gen(t)' = Gen(t)
                              /\ Kept(t)' = Kept(t)
BY DEF Untouched, InHand, Gen, Kept

\* What a session has in hand: the rows of the statement, those of the earlier
\* ones, and the row that is being written.
LEMMA HandParts == ASSUME NEW s \in Session
                   PROVE  InHand(s) = Gen(s) \cup Kept(s) \cup
                            (IF pc[s] = "write" /\ cur[s] # 0 THEN {cur[s]} ELSE {})
BY DEF InHand, Gen, Kept

LEMMA UntouchedCursor ==
  ASSUME NEW t \in Session, Untouched(t), CursorOk(t),
         imax[t] > 0 => imax[t] <= next'[NodeOf[t]]
  PROVE  CursorOk(t)'
BY UntouchedHand DEF Untouched, CursorOk, Ahead, Pending

\* The values in hand are values of the column, of the node's class.
LEMMA HandNumbers ==
  ASSUME IdInv, NEW s \in Session
  PROVE  /\ Gen(s) \subseteq InHand(s) /\ Kept(s) \subseteq InHand(s)
         /\ \A v \in InHand(s) : v \in 1..ColMax /\ v \in Nat /\ InClass(NodeOf[s], v)
<1>1. \A r \in batch[s] \cup open[s] : r.val \in 1..ColMax
  BY DEF IdInv, TypeInv, Row
<1>2. pc[s] = "write" /\ cur[s] # 0 => cur[s] \in 1..ColMax
  BY DEF IdInv, RowInv
<1> QED
  BY <1>1, <1>2, Numbers DEF Gen, Kept, InHand, IdInv, ClassInv

\* The other sessions keep their cursors if the counter is not lowered.
LEMMA OtherCursors ==
  ASSUME IdInv, CursorInv, NEW s \in Session, \A t \in Session \ {s} : Untouched(t),
         next' \in [Node -> 0..(Width - 1)], \A m \in Node : next'[m] >= next[m]
  PROVE  \A t \in Session \ {s} : CursorOk(t)'
<1> SUFFICES ASSUME NEW t \in Session \ {s} PROVE CursorOk(t)'
  OBVIOUS
<1>1. imax[t] > 0 => imax[t] <= next[NodeOf[t]]
  BY DEF CursorInv, CursorOk
<1>2. NodeOf[t] \in Node /\ imax[t] \in 0..(Width - 1) /\ next[NodeOf[t]] \in 0..(Width - 1)
  BY NodeOfAssumption DEF IdInv, TypeInv
<1>3. imax[t] > 0 => imax[t] <= next'[NodeOf[t]]
  BY <1>1, <1>2, Numbers
<1> QED
  BY <1>3, UntouchedCursor DEF CursorInv

\* Nothing overlaps after a step that reserves nothing and takes nothing.
LEMMA HandKept ==
  ASSUME IdInv, HandInv, NEW s \in Session, Keeps(s),
         next' \in [Node -> 0..(Width - 1)], \A m \in Node : next'[m] >= next[m]
  PROVE  HandInv'
<1>1. ASSUME NEW t \in Session
      PROVE  /\ InHand(t)' \subseteq InHand(t)
             /\ imax'[t] > 0 => imin'[t] = imin[t] /\ imax'[t] = imax[t]
  BY UntouchedHand DEF Keeps, Untouched
<1>2. ASSUME NEW t \in Session, NEW v \in InHand(t)' PROVE v < next'[NodeOf[t]]
  <2>1. v < next[NodeOf[t]] /\ NodeOf[t] \in Node
    BY <1>1, NodeOfAssumption DEF HandInv
  <2>2. v \in Int
    BY <1>1, HandNumbers
  <2> QED BY <2>1, <2>2, Numbers DEF IdInv, TypeInv
<1>3. ASSUME NEW t \in Session, NEW u \in Session, t # u, NodeOf[t] = NodeOf[u]
      PROVE  Disjoint(t, u)'
  <2>1. Disjoint(t, u)
    BY <1>3 DEF HandInv
  <2> QED BY <1>1, <2>1 DEF Disjoint
<1> QED
  BY <1>2, <1>3 DEF HandInv

LEMMA InitHand == Init => CursorInv /\ HandInv
BY DEF Init, CursorInv, CursorOk, Gen, Kept, Outside, HandInv, InHand, Disjoint

LEMMA HandBegin ==
  ASSUME IdInv, CursorInv, HandInv, NEW s \in Session, NEW e \in Estimates, Begin(s, e)
  PROVE  CursorInv' /\ HandInv' /\ Keeps(s)
<1>1. \A t \in Session \ {s} : Untouched(t)
  BY DEF Untouched, Begin, IdInv, TypeInv, cursor, row
<1>2. /\ next' = next /\ imin' = imin /\ imax' = imax /\ imax[s] = 0 /\ batch[s] = {}
      /\ batch' = batch /\ open' = open
  BY DEF Begin, IdInv, CountInv, Outside, counter, cursor
<1>3. InHand(s)' \subseteq InHand(s) /\ Gen(s)' = {}
  BY <1>2 DEF Begin, InHand, Gen, IdInv, TypeInv
<1>4. next' \in [Node -> 0..(Width - 1)] /\ \A m \in Node : next'[m] >= next[m]
  BY <1>2, Numbers DEF IdInv, TypeInv
<1>5. CursorOk(s)'
  BY <1>2, <1>3 DEF CursorOk, CursorInv, Begin, IdInv, TypeInv, cursor
<1>6. CursorInv'
  BY <1>1, <1>4, <1>5, OtherCursors DEF CursorInv
<1>7. Keeps(s)
  BY <1>1, <1>2, <1>3, <1>4 DEF Keeps
<1>8. HandInv'
  BY <1>1, <1>2, <1>3, <1>4, <1>7, HandKept
<1> QED
  BY <1>6, <1>7, <1>8

LEMMA HandStartRow ==
  ASSUME IdInv, CursorInv, HandInv, NEW s \in Session, NEW v \in {0} \cup Explicit,
         StartRow(s, v)
  PROVE  CursorInv' /\ HandInv' /\ Keeps(s)
<1>1. \A t \in Session \ {s} : Untouched(t)
  BY DEF Untouched, StartRow, IdInv, TypeInv, cursor
<1>2. next' \in [Node -> 0..(Width - 1)] /\ \A m \in Node : next'[m] >= next[m]
  <2>1. InfoAuto(s, v = 0, TRUE, share_value) /\ (v = 0) \in BOOLEAN
    BY DEF StartRow
  <2>2. share_value \in [Node -> 0..(ColMax + 1)]
    BY DEF IdInv, TypeInv
  <2> QED BY <2>1, <2>2, InfoAutoIs DEF IdInv
<1>3. /\ pc[s] = "row" /\ pc'[s] = "update" /\ Ahead(s)' = Ahead(s)
      /\ UNCHANGED <<nid, imin, imax, cnt, cur, batch, open>>
  BY DEF StartRow, IdInv, TypeInv, Ahead, Pending, cursor
<1>4. InHand(s)' \subseteq InHand(s) /\ Gen(s)' = Gen(s) /\ Kept(s)' = Kept(s)
  BY <1>3 DEF InHand, Gen, Kept
<1>5. CursorOk(s)'
  <2>1. imax[s] > 0 => imax[s] <= next'[NodeOf[s]]
    BY <1>2, NodeOfAssumption, Numbers DEF CursorInv, CursorOk, IdInv, TypeInv
  <2> QED BY <1>3, <1>4, <2>1 DEF CursorOk, CursorInv, Outside
<1>6. CursorInv'
  BY <1>1, <1>2, <1>5, OtherCursors DEF CursorInv
<1>7. Keeps(s)
  BY <1>1, <1>2, <1>3, <1>4 DEF Keeps
<1>8. HandInv'
  BY <1>1, <1>2, <1>3, <1>4, <1>7, HandKept
<1> QED
  BY <1>6, <1>7, <1>8

\* A value given by the client may carry the cursor beyond the interval, but
\* only for the last row of a statement.
LEMMA HandUseExplicit ==
  ASSUME OneReservation, IdInv, CursorInv, HandInv, NEW s \in Session, UseExplicit(s)
  PROVE  CursorInv' /\ HandInv' /\ Keeps(s)
<1> DEFINE n == NodeOf[s]
<1>1. \A t \in Session \ {s} : Untouched(t)
  BY DEF Untouched, UseExplicit, IdInv, TypeInv, row
<1>2. /\ pc[s] = "update" /\ pc'[s] = "write" /\ cur'[s] = 0 /\ prev'[s] = nid[s]
      /\ val[s] \in Explicit /\ n \in Node
      /\ UNCHANGED <<next, imin, imax, cnt, left, est, batch, open>>
  BY NodeOfAssumption DEF UseExplicit, IdInv, RowInv, TypeInv, counter, row, stmt
<1>3. next' \in [Node -> 0..(Width - 1)] /\ \A m \in Node : next'[m] >= next[m]
  BY <1>2, Numbers DEF IdInv, TypeInv
<1>4. InHand(s)' \subseteq InHand(s) /\ Gen(s)' = Gen(s) /\ Kept(s)' = Kept(s)
  BY <1>2 DEF InHand, Gen, Kept
<1>5. /\ nid[s] \in Nat /\ nid'[s] \in Nat /\ nid'[s] >= nid[s] /\ (nid[s] = 0 => nid'[s] = 0)
  <2>1. val[s] \in 1..ColMax
    BY <1>2, Numbers
  <2>2. compute_next_insert_id(n, val[s]) \in (val[s] + 1)..(val[s] + Step)
    BY <1>2, <2>1, AboveIs, Numbers
  <2>3. nid'[s] = IF nid[s] > 0 /\ val[s] >= nid[s] THEN compute_next_insert_id(n, val[s]) ELSE nid[s]
    BY DEF UseExplicit, IdInv, TypeInv
  <2>4. nid[s] \in Nat
    BY Numbers DEF IdInv, TypeInv
  <2> QED BY <2>1, <2>2, <2>3, <2>4, Numbers, StepAssumption
<1>6. imax[s] > 0 => Ahead(s)' = 0
  <2> SUFFICES ASSUME imax[s] > 0 PROVE left[s] = 0
    BY <1>2 DEF Ahead, Pending
  <2>1. cnt[s] >= 1 /\ cnt[s] + left[s] + 1 <= IF est[s] > 0 THEN est[s] ELSE UnknownRows
    BY <1>2 DEF CursorInv, CursorOk, IdInv, CountInv, Pending
  <2>2. est[s] \in Estimates \cup {0} /\ Estimates \subseteq 0..2 /\ UnknownRows <= 1
    BY <1>2 DEF OneReservation, IdInv, CountInv
  <2>3. cnt[s] \in Nat /\ left[s] \in Nat /\ est[s] \in 0..2 /\ UnknownRows \in Nat
    BY <2>2, Numbers DEF IdInv, TypeInv
  <2> QED BY <2>1, <2>2, <2>3
<1>7. CursorOk(s)'
  <2>1. /\ imin[s] \in Nat /\ imax[s] \in Nat /\ \A v \in Gen(s) : v \in Nat
        /\ imax[s] > 0 => nid[s] > 0
    BY HandNumbers, Numbers DEF IdInv, TypeInv, RowInv
  <2>2. CASE imax[s] = 0
    BY <1>2, <1>4, <1>5, <2>2 DEF CursorOk, CursorInv, Outside
  <2>3. CASE imax[s] > 0
    BY <1>2, <1>4, <1>5, <1>6, <2>1, <2>3 DEF CursorOk, CursorInv
  <2> QED BY <2>1, <2>2, <2>3
<1>8. CursorInv'
  BY <1>1, <1>3, <1>7, OtherCursors DEF CursorInv
<1>9. Keeps(s)
  BY <1>1, <1>2, <1>3, <1>4 DEF Keeps
<1>10. HandInv'
  BY <1>1, <1>2, <1>3, <1>4, <1>9, HandKept
<1> QED
  BY <1>8, <1>9, <1>10

\* After the value nr of the class of the node the cursor is a step further.
LEMMA NextOfClass ==
  ASSUME NEW n \in Node, NEW nr \in 1..ColMax, InClass(n, nr)
  PROVE  Above(n, nr) = nr + Step
<1>1. PICK k, a : k = Step /\ a = Above(n, nr)
  OBVIOUS
<1>2. /\ k \in Nat \ {0} /\ nr \in Nat /\ a \in (nr + 1)..(nr + k) /\ a \in Nat /\ nr % k = a % k
  BY <1>1, AboveIs, StepAssumption, Numbers DEF InClass
<1>3. nr < a
  BY <1>2
<1>4. nr + k <= a
  BY <1>2, <1>3, Apart
<1> QED
  BY <1>1, <1>2, <1>4

\* A value of the interval is taken, or the column cannot hold it.
LEMMA TakenIs ==
  ASSUME IdInv, NEW s \in Session, pc[s] = "update", NEW nr \in 1..(Width - 1),
         InClass(NodeOf[s], nr), Generated(s, nr), batch' = batch, open' = open, left' = left
  PROVE  /\ Ahead(s)' = left[s] /\ Ahead(s) = left[s] + 1 /\ Gen(s)' = Gen(s)
         /\ Kept(s)' = Kept(s)
         /\ \/ /\ pc'[s] = "write" /\ cur'[s] = nr /\ prev'[s] = nid[s] /\ nid'[s] = nr + Step
               /\ InHand(s)' = InHand(s) \cup {nr}
            \/ /\ pc'[s] \in {"row", "finish"} /\ nid'[s] = IF nid[s] > 0 THEN nid[s] ELSE nr
               /\ InHand(s)' = InHand(s)
<1>1. NodeOf[s] \in Node /\ prev[s] = nid[s] /\ TypeInv
  BY NodeOfAssumption DEF IdInv, RowInv
<1>2. Gen(s)' = Gen(s) /\ Kept(s)' = Kept(s) /\ Ahead(s) = left[s] + 1
  BY DEF Gen, Kept, Ahead, Pending
<1>3. CASE /\ nr <= ColMax /\ cur' = [cur EXCEPT ![s] = nr]
           /\ nid' = [nid EXCEPT ![s] = Above(NodeOf[s], nr)]
           /\ pc' = [pc EXCEPT ![s] = "write"] /\ prev' = prev
  <2>1. nid'[s] = nr + Step
    BY <1>1, <1>3, NextOfClass, Numbers DEF TypeInv
  <2>2. pc'[s] = "write" /\ cur'[s] = nr /\ prev'[s] = nid[s] /\ nr # 0
    BY <1>1, <1>3 DEF TypeInv
  <2>3. InHand(s)' = InHand(s) \cup {nr} /\ Ahead(s)' = left[s]
    BY <1>1, <1>2, <2>2, Numbers DEF InHand, Gen, Ahead, Pending, TypeInv
  <2> QED BY <1>2, <2>1, <2>2, <2>3
<1>4. CASE /\ nid' = [nid EXCEPT ![s] = IF prev[s] > 0 THEN prev[s] ELSE nr]
           /\ pc' = [pc EXCEPT ![s] = "row"] \/ pc' = [pc EXCEPT ![s] = "finish"]
  <2>1. pc'[s] \in {"row", "finish"} /\ nid'[s] = IF nid[s] > 0 THEN nid[s] ELSE nr
    BY <1>1, <1>4 DEF TypeInv
  <2>2. InHand(s)' = InHand(s) /\ Ahead(s)' = left[s]
    BY <1>1, <1>2, <2>1, Numbers DEF InHand, Gen, Ahead, Pending, TypeInv
  <2> QED BY <1>2, <2>1, <2>2
<1> QED
  BY <1>1, <1>3, <1>4, GeneratedIs

LEMMA GeneratedOthers ==
  ASSUME TypeInv, NEW s \in Session, NEW nr \in 1..(Width - 1), Generated(s, nr),
         batch' = batch, open' = open, left' = left,
         \A t \in Session \ {s} : imin'[t] = imin[t] /\ imax'[t] = imax[t] /\ cnt'[t] = cnt[t]
  PROVE  \A t \in Session \ {s} : Untouched(t)
<1>1. \A t \in Session \ {s} : pc'[t] = pc[t] /\ nid'[t] = nid[t] /\ val'[t] = val[t]
  <2>1. \E x, y, z : /\ pc' = [pc EXCEPT ![s] = x] /\ nid' = [nid EXCEPT ![s] = y]
                     /\ val' = [val EXCEPT ![s] = z]
    BY GeneratedIs
  <2> QED BY <2>1 DEF TypeInv
<1>2. \A t \in Session \ {s} : prev'[t] = prev[t] /\ cur'[t] = cur[t]
  <2>1. \E x : cur' = [cur EXCEPT ![s] = x]
    BY GeneratedIs
  <2>2. prev' = prev \/ prev' = [prev EXCEPT ![s] = 0]
    BY GeneratedIs
  <2> QED BY <2>1, <2>2 DEF TypeInv
<1> QED
  BY <1>1, <1>2 DEF Untouched

\* Nothing overlaps after s has taken nr, which nobody else has.
LEMMA HandTaken ==
  ASSUME IdInv, HandInv, NEW s \in Session, \A t \in Session \ {s} : Untouched(t),
         NEW nr \in Nat, InHand(s)' \subseteq InHand(s) \cup {nr}, nr < next'[NodeOf[s]],
         next' \in [Node -> 0..(Width - 1)], \A m \in Node : next'[m] >= next[m],
         \A t \in Session \ {s} : NodeOf[t] = NodeOf[s] =>
           /\ imax'[s] > 0 /\ imax[t] > 0 => imax'[s] <= imin[t] \/ imax[t] <= imin'[s]
           /\ imax[t] > 0 => nr < imin[t] \/ imax[t] <= nr
           /\ \A v \in InHand(t) : v # nr /\ (imax'[s] > 0 => v < imin'[s] \/ imax'[s] <= v)
  PROVE  HandInv'
<1>1. \A t \in Session \ {s} : InHand(t)' = InHand(t) /\ imin'[t] = imin[t] /\ imax'[t] = imax[t]
  BY UntouchedHand DEF Untouched
<1>2. ASSUME NEW t \in Session, NEW v \in InHand(t)' PROVE v < next'[NodeOf[t]]
  <2>1. CASE t = s /\ v = nr
    BY <2>1
  <2>2. CASE v \in InHand(t)
    <3>1. v < next[NodeOf[t]] /\ NodeOf[t] \in Node /\ v \in Int
      BY <2>2, HandNumbers, NodeOfAssumption DEF HandInv
    <3> QED BY <3>1, Numbers DEF IdInv, TypeInv
  <2> QED BY <1>1, <1>2, <2>1, <2>2
<1>3. ASSUME NEW t \in Session \ {s}, NodeOf[t] = NodeOf[s]
      PROVE  Disjoint(s, t)' /\ Disjoint(t, s)'
  <2>1. Disjoint(s, t) /\ InHand(t)' = InHand(t) /\ imin'[t] = imin[t] /\ imax'[t] = imax[t]
    BY <1>1, <1>3 DEF HandInv
  <2> QED BY <1>3, <2>1 DEF Disjoint
<1>4. ASSUME NEW t \in Session \ {s}, NEW u \in Session \ {s}, t # u, NodeOf[t] = NodeOf[u]
      PROVE  Disjoint(t, u)'
  <2>1. Disjoint(t, u)
    BY <1>4 DEF HandInv
  <2> QED BY <1>1, <2>1 DEF Disjoint
<1>5. ASSUME NEW t \in Session, NEW u \in Session, t # u, NodeOf[t] = NodeOf[u]
      PROVE  Disjoint(t, u)'
  BY <1>3, <1>4, <1>5
<1> QED
  BY <1>2, <1>5 DEF HandInv

LEMMA HandUseReserved ==
  ASSUME IdInv, CursorInv, HandInv, NEW s \in Session, UseReserved(s)
  PROVE  CursorInv' /\ HandInv'
<1> DEFINE nr == nid[s]
<1>1. /\ pc[s] = "update" /\ nr < imax[s] /\ Generated(s, nr) /\ TypeInv
      /\ UNCHANGED <<next, imin, imax, cnt, left, batch, open>>
  BY DEF UseReserved, counter, IdInv
<1>2. /\ nr \in 1..(Width - 1) /\ nr \in Nat /\ InClass(NodeOf[s], nr) /\ imax[s] > 0
      /\ imin[s] \in Nat /\ imax[s] \in Nat /\ left[s] \in Nat
      /\ NodeOf[s] \in Node /\ next[NodeOf[s]] \in Nat
  BY <1>1, Numbers, NodeOfAssumption DEF IdInv, TypeInv, RowInv, ClassInv
<1>3. \A t \in Session \ {s} : Untouched(t)
  BY <1>1, <1>2, GeneratedOthers
<1>4. /\ Ahead(s)' = left[s] /\ Ahead(s) = left[s] + 1 /\ Gen(s)' = Gen(s)
      /\ Kept(s)' = Kept(s)
      /\ \/ /\ pc'[s] = "write" /\ cur'[s] = nr /\ prev'[s] = nr /\ nid'[s] = nr + Step
            /\ InHand(s)' = InHand(s) \cup {nr}
         \/ /\ pc'[s] \in {"row", "finish"} /\ nid'[s] = nr /\ InHand(s)' = InHand(s)
  <2>1. nr > 0
    BY <1>2
  <2> QED BY <1>1, <1>2, <2>1, TakenIs
<1>5. next' \in [Node -> 0..(Width - 1)] /\ \A m \in Node : next'[m] >= next[m]
  BY <1>1, Numbers DEF TypeInv
<1>6. /\ imin[s] < imax[s] /\ imin[s] <= nr /\ imax[s] <= next[NodeOf[s]] /\ 0 < imin[s]
      /\ cnt[s] >= 1 /\ nr + Ahead(s) * Step <= imax[s]
      /\ (\A v \in Gen(s) : v < nr) /\ (\A v \in Kept(s) : v < imin[s])
  BY <1>2, <1>4 DEF CursorInv, CursorOk
<1>7. /\ nr + left[s] * Step + Step <= imax[s] /\ left[s] * Step \in Nat /\ Step \in Nat \ {0}
      /\ Ahead(s)' * Step = left[s] * Step
  BY <1>2, <1>4, <1>6, StepAssumption
<1>8. CursorOk(s)'
  <2> HIDE DEF nr
  <2>1. \A v \in Gen(s) : v \in Nat
    BY HandNumbers
  <2>2. PICK x : x = left[s] * Step
    OBVIOUS
  <2>3. CASE pc'[s] = "write" /\ cur'[s] = nr /\ prev'[s] = nr /\ nid'[s] = nr + Step
    BY <1>1, <1>2, <1>4, <1>6, <1>7, <2>1, <2>2, <2>3 DEF CursorOk
  <2>4. CASE pc'[s] \in {"row", "finish"} /\ nid'[s] = nr
    BY <1>1, <1>2, <1>4, <1>6, <1>7, <2>1, <2>2, <2>4 DEF CursorOk
  <2> QED BY <1>4, <2>3, <2>4
<1>9. CursorInv'
  BY <1>3, <1>5, <1>8, OtherCursors DEF CursorInv
<1>10. ASSUME NEW t \in Session \ {s}, NodeOf[t] = NodeOf[s]
       PROVE  /\ imax'[s] > 0 /\ imax[t] > 0 => imax'[s] <= imin[t] \/ imax[t] <= imin'[s]
              /\ imax[t] > 0 => nr < imin[t] \/ imax[t] <= nr
              /\ \A v \in InHand(t) : v # nr /\ (imax'[s] > 0 => v < imin'[s] \/ imax'[s] <= v)
  <2>1. Disjoint(s, t) /\ Disjoint(t, s)
    BY <1>10 DEF HandInv
  <2>2. imin[t] \in Nat /\ imax[t] \in Nat /\ \A v \in InHand(t) : v \in Nat
    BY HandNumbers, Numbers DEF IdInv, TypeInv
  <2> QED BY <1>1, <1>2, <1>6, <2>1, <2>2 DEF Disjoint
<1>11. HandInv'
  <2>1. nr < next'[NodeOf[s]]
    BY <1>1, <1>2, <1>6
  <2>2. InHand(s)' \subseteq InHand(s) \cup {nr}
    BY <1>4
  <2> HIDE DEF nr
  <2> QED BY <1>2, <1>3, <1>5, <1>10, <2>1, <2>2, HandTaken
<1> QED
  BY <1>9, <1>11

\* A statement that reserves has nothing reserved before, and gets enough for
\* all of its rows.
LEMMA FirstReserve ==
  ASSUME OneReservation, IdInv, CursorInv, NEW s \in Session, Reserve(s)
  PROVE  /\ imax[s] = 0 /\ nid[s] = 0 /\ Gen(s) = {} /\ cnt[s] = 0
         /\ left[s] + 1 <= NbDesired(s)
<1>1. pc[s] = "update" /\ nid[s] >= imax[s] /\ Ahead(s) = left[s] + 1
  BY DEF Reserve, Ahead, Pending
<1>2. /\ nid[s] \in Nat /\ imax[s] \in Nat /\ left[s] \in Nat /\ cnt[s] \in Nat /\ est[s] \in Nat
      /\ cnt[s] + left[s] + 1 <= IF est[s] > 0 THEN est[s] ELSE UnknownRows
      /\ UnknownRows <= 1 /\ UnknownRows \in Nat
  BY <1>1, Numbers DEF IdInv, TypeInv, CountInv, Pending, OneReservation
<1>3. imax[s] = 0
  <2> SUFFICES ASSUME imax[s] > 0 PROVE FALSE
    BY <1>2
  <2>1. nid[s] + (left[s] + 1) * Step <= imax[s]
    BY <1>1, <1>2 DEF CursorInv, CursorOk
  <2>2. (left[s] + 1) * Step >= 1 /\ (left[s] + 1) * Step \in Nat
    <3>1. PICK a, k : a = left[s] + 1 /\ k = Step
      OBVIOUS
    <3>2. a \in Nat \ {0} /\ k \in Nat \ {0}
      BY <1>2, <3>1, StepAssumption
    <3>3. a * k \in Nat /\ a * k >= k
      BY <3>2
    <3> QED BY <3>1, <3>2, <3>3
  <2> QED BY <1>1, <1>2, <2>1, <2>2
<1>4. nid[s] = 0 /\ Gen(s) = {} /\ cnt[s] = 0
  BY <1>1, <1>3 DEF CursorInv, CursorOk, Outside
<1>5. left[s] + 1 <= NbDesired(s)
  <2>1. CASE est[s] > 0
    BY <1>2, <1>4, <2>1 DEF NbDesired
  <2>2. CASE est[s] = 0
    <3>1. NbDesired(s) \in Nat \ {0}
      BY ReserveIs
    <3> QED BY <1>2, <1>4, <2>2, <3>1
  <2> QED BY <1>2, <2>1, <2>2
<1> QED
  BY <1>3, <1>4, <1>5

LEMMA HandReserve ==
  ASSUME OneReservation, IdInv, CursorInv, HandInv, NEW s \in Session, Reserve(s)
  PROVE  CursorInv' /\ HandInv'
<1> DEFINE n == NodeOf[s]
<1>1. PICK first, end, nb :
        /\ nb = NbDesired(s) /\ nb \in Nat \ {0}
        /\ first \in 1..(Width - 1) /\ InClass(n, first) /\ first >= next[n]
        /\ end = first + nb * Step /\ end \in 1..(Width - 1) /\ first + Step <= end
        /\ InClass(n, end)
        /\ next' = [next EXCEPT ![n] = end]
        /\ imin' = [imin EXCEPT ![s] = first] /\ imax' = [imax EXCEPT ![s] = end]
        /\ Generated(s, first)
  BY ReserveIs
<1>2. imax[s] = 0 /\ nid[s] = 0 /\ Gen(s) = {} /\ cnt[s] = 0 /\ left[s] + 1 <= nb
  BY <1>1, FirstReserve
<1>3. /\ pc[s] = "update" /\ TypeInv /\ UNCHANGED <<left, batch, open>>
      /\ cnt' = [cnt EXCEPT ![s] = @ + 1] /\ n \in Node
      /\ first \in Nat /\ end \in Nat /\ left[s] \in Nat /\ next[n] \in Nat
      /\ Step \in Nat \ {0}
  <2>1. TypeInv /\ n \in Node
    BY NodeOfAssumption DEF IdInv
  <2>2. left[s] \in Nat /\ next[n] \in Nat
    BY <2>1, Numbers DEF TypeInv
  <2> QED BY <1>1, <2>1, <2>2, StepAssumption, Numbers DEF Reserve
<1>4. /\ imin'[s] = first /\ imax'[s] = end /\ cnt'[s] = 1
      /\ \A t \in Session \ {s} : imin'[t] = imin[t] /\ imax'[t] = imax[t] /\ cnt'[t] = cnt[t]
      /\ next'[n] = end
  BY <1>1, <1>2, <1>3 DEF TypeInv
<1>5. \A t \in Session \ {s} : Untouched(t)
  BY <1>1, <1>3, <1>4, GeneratedOthers
<1>6. /\ Ahead(s)' = left[s] /\ Gen(s)' = {} /\ Kept(s)' = Kept(s)
      /\ \/ /\ pc'[s] = "write" /\ cur'[s] = first /\ prev'[s] = 0 /\ nid'[s] = first + Step
            /\ InHand(s)' = InHand(s) \cup {first}
         \/ /\ pc'[s] \in {"row", "finish"} /\ nid'[s] = first /\ InHand(s)' = InHand(s)
  BY <1>1, <1>2, <1>3, TakenIs
<1>13. \A v \in Kept(s)' : v < first
  <2>1. \A v \in Kept(s) : v < next[n] /\ v \in Nat
    BY HandNumbers DEF HandInv
  <2> QED BY <1>1, <1>3, <1>6, <2>1
<1>7. next' \in [Node -> 0..(Width - 1)] /\ \A m \in Node : next'[m] >= next[m]
  <2>1. end >= next[n] /\ end \in 0..(Width - 1)
    BY <1>1, <1>3, Numbers
  <2> QED BY <1>1, <1>3, <2>1, Numbers DEF TypeInv
<1>8. first + Step + left[s] * Step <= end
  <2>1. PICK k : k = Step
    OBVIOUS
  <2>2. PICK a : a = left[s]
    OBVIOUS
  <2>3. a \in Nat /\ k \in Nat /\ nb \in Nat /\ a + 1 <= nb
    BY <1>1, <1>2, <1>3, <2>1, <2>2
  <2>4. (a + 1) * k <= nb * k
    BY <2>3
  <2>5. (a + 1) * k = k + a * k
    BY <2>3
  <2> QED BY <1>1, <1>3, <2>1, <2>2, <2>3, <2>4, <2>5
<1>9. CursorOk(s)'
  <2>1. PICK x : x = left[s] * Step /\ x \in Nat
    BY <1>3
  <2>2. Ahead(s)' * Step = x
    BY <1>6, <2>1
  <2>3. CASE pc'[s] = "write" /\ cur'[s] = first /\ prev'[s] = 0 /\ nid'[s] = first + Step
    BY <1>1, <1>3, <1>4, <1>6, <1>8, <1>13, <2>1, <2>2, <2>3 DEF CursorOk
  <2>4. CASE pc'[s] \in {"row", "finish"} /\ nid'[s] = first
    BY <1>1, <1>3, <1>4, <1>6, <1>8, <1>13, <2>1, <2>2, <2>4 DEF CursorOk
  <2> QED BY <1>6, <2>3, <2>4
<1>10. CursorInv'
  BY <1>5, <1>7, <1>9, OtherCursors DEF CursorInv
<1>11. ASSUME NEW t \in Session \ {s}, NodeOf[t] = n
       PROVE  /\ imax'[s] > 0 /\ imax[t] > 0 => imax'[s] <= imin[t] \/ imax[t] <= imin'[s]
              /\ imax[t] > 0 => first < imin[t] \/ imax[t] <= first
              /\ \A v \in InHand(t) : v # first /\ (imax'[s] > 0 => v < imin'[s] \/ imax'[s] <= v)
  <2>1. imax[t] > 0 => imax[t] <= next[n]
    BY <1>11 DEF CursorInv, CursorOk
  <2>2. \A v \in InHand(t) : v < next[n] /\ v \in Nat
    BY <1>11, HandNumbers DEF HandInv
  <2>3. imax[t] \in Nat
    BY Numbers DEF IdInv, TypeInv
  <2> QED BY <1>1, <1>3, <1>4, <2>1, <2>2, <2>3
<1>12. HandInv'
  <2>1. first < next'[n]
    BY <1>1, <1>3, <1>4
  <2>2. InHand(s)' \subseteq InHand(s) \cup {first}
    BY <1>6
  <2> QED BY <1>3, <1>5, <1>7, <1>11, <2>1, <2>2, HandTaken
<1> QED
  BY <1>10, <1>12

\* What a row leaves in hand: the value of a row that is written moves from the
\* cursor to the batch, and a refused one is given back.
LEMMA WrittenHand ==
  ASSUME IdInv, NEW s \in Session, NEW p \in Part, NEW error \in BOOLEAN, WriteRow(s, p, error)
  PROVE  /\ error => Gen(s)' = Gen(s)
         /\ ~error => InHand(s)' = InHand(s)
         /\ cur[s] = 0 => Gen(s)' = Gen(s)
         /\ InHand(s)' = Gen(s)' \cup Kept(s) /\ Gen(s)' \subseteq InHand(s)
         /\ Kept(s)' = Kept(s) /\ InHand(s)' \subseteq InHand(s)
<1> DEFINE rec == [part |-> p, val |-> val[s], gen |-> cur[s] # 0]
<1>1. pc[s] = "write" /\ cur[s] \in {0, val[s]} /\ TypeInv
  BY DEF WriteRow, IdInv, RowInv
<1>2. pc'[s] \in {"row", "finish"}
  <2>1. pc' = [pc EXCEPT ![s] = "row"] \/ pc' = [pc EXCEPT ![s] = "finish"]
    BY DEF WriteRow, Refused
  <2> QED BY <1>1, <2>1 DEF TypeInv
<1>3. InHand(s)' = Gen(s)' \cup Kept(s) /\ Kept(s)' = Kept(s)
  <2>1. Kept(s)' = Kept(s)
    BY DEF WriteRow, Kept
  <2> QED BY <1>2, <2>1 DEF InHand, Gen, Kept
<1>4. CASE error
  <2>1. batch' = batch
    BY <1>4 DEF WriteRow
  <2>2. Gen(s)' = Gen(s)
    BY <2>1 DEF Gen
  <2> QED BY <1>3, <1>4, <2>2, HandParts
<1>5. CASE ~error
  <2>1. batch'[s] = batch[s] \cup {rec}
    BY <1>1, <1>5 DEF WriteRow, TypeInv
  <2>2. rec.gen = (cur[s] # 0) /\ rec.val = val[s]
    OBVIOUS
  <2> HIDE DEF rec
  <2>3. Gen(s)' = Gen(s) \cup (IF cur[s] # 0 THEN {cur[s]} ELSE {})
    <3>1. CASE cur[s] # 0
      BY <1>1, <2>1, <2>2, <3>1 DEF Gen
    <3>2. CASE cur[s] = 0
      BY <2>1, <2>2, <3>2 DEF Gen
    <3> QED BY <3>1, <3>2
  <2>4. InHand(s) = Gen(s) \cup Kept(s) \cup (IF cur[s] # 0 THEN {cur[s]} ELSE {})
    BY <1>1, HandParts
  <2> QED BY <1>3, <1>5, <2>3, <2>4
<1> QED
  BY <1>4, <1>5

LEMMA HandWriteRow ==
  ASSUME IdInv, CursorInv, HandInv, NEW s \in Session, NEW p \in Part, NEW error \in BOOLEAN,
         WriteRow(s, p, error)
  PROVE  CursorInv' /\ HandInv' /\ Keeps(s)
<1>1. /\ NodeOf[s] \in Node /\ val[s] \in 1..ColMax /\ pc[s] = "write" /\ TypeInv /\ CounterInv
  BY NodeOfAssumption DEF WriteRow, IdInv, RowInv
<1>2. next' \in [Node -> 0..(Width - 1)] /\ \A m \in Node : next'[m] >= next[m]
  BY <1>1, SetIfHigherIs DEF WriteRow
<1>3. /\ pc'[s] \in {"row", "finish"} /\ \A t \in Session \ {s} : pc'[t] = pc[t]
  <2>1. pc' = [pc EXCEPT ![s] = "row"] \/ pc' = [pc EXCEPT ![s] = "finish"]
    BY DEF WriteRow, Refused
  <2> QED BY <1>1, <2>1 DEF TypeInv
<1>4. /\ val' = [val EXCEPT ![s] = 0] /\ prev' = [prev EXCEPT ![s] = 0]
      /\ cur' = [cur EXCEPT ![s] = 0] /\ UNCHANGED <<imin, imax, cnt, left>>
  BY DEF WriteRow, RowEnds
<1>5. \A t \in Session \ {s} : nid'[t] = nid[t] /\ batch'[t] = batch[t] /\ open'[t] = open[t]
  BY <1>1 DEF WriteRow, TypeInv
<1>6. \A t \in Session \ {s} : Untouched(t)
  BY <1>1, <1>3, <1>4, <1>5 DEF Untouched, TypeInv
<1>7. nid'[s] = IF error THEN IF prev[s] > 0 THEN prev[s] ELSE cur[s] ELSE nid[s]
  BY <1>1 DEF WriteRow, Restored, TypeInv
<1>8. /\ error => Gen(s)' = Gen(s)
      /\ cur[s] = 0 => Gen(s)' = Gen(s)
      /\ InHand(s)' \subseteq InHand(s) /\ Gen(s)' \subseteq InHand(s) /\ Kept(s)' = Kept(s)
      /\ InHand(s) = Gen(s) \cup Kept(s) \cup (IF cur[s] # 0 THEN {cur[s]} ELSE {})
  <2>1. InHand(s) = Gen(s) \cup Kept(s) \cup (IF cur[s] # 0 THEN {cur[s]} ELSE {})
    BY <1>1, HandParts
  <2> QED BY <2>1, WrittenHand
<1>9. /\ nid[s] \in Nat /\ imin[s] \in Nat /\ imax[s] \in Nat /\ prev[s] \in Nat /\ cur[s] \in Nat
      /\ left[s] \in Nat /\ \A v \in InHand(s) : v \in Nat
  BY <1>1, HandNumbers, Numbers DEF TypeInv
<1>10. /\ Ahead(s)' = left[s] /\ Ahead(s) = left[s]
  BY <1>1, <1>3, <1>4, <1>9 DEF Ahead, Pending
<1>11. CursorOk(s)'
  <2>1. CASE imax[s] = 0
    <3>1. nid[s] = 0 /\ imin[s] = 0 /\ cnt[s] = 0 /\ cur[s] = 0 /\ prev[s] = 0 /\ Gen(s) = {}
      BY <1>1, <2>1 DEF CursorInv, CursorOk, Outside
    <3> QED BY <1>3, <1>4, <1>7, <1>8, <2>1, <3>1 DEF CursorOk
  <2>2. CASE imax[s] > 0
    <3>1. /\ imin[s] < imax[s] /\ imin[s] <= nid[s] /\ imax[s] <= next[NodeOf[s]]
          /\ 0 < imin[s] /\ cnt[s] >= 1
          /\ Ahead(s) > 0 => nid[s] + Ahead(s) * Step <= imax[s]
          /\ (\A v \in Gen(s) : v < nid[s]) /\ (\A v \in Kept(s) : v < imin[s])
          /\ prev[s] <= nid[s]
          /\ cur[s] # 0 => cur[s] < nid[s] /\ imin[s] <= cur[s] /\ cur[s] < imax[s]
          /\ prev[s] > 0 => imin[s] <= prev[s] /\ \A v \in Gen(s) : v < prev[s]
          /\ prev[s] = 0 => cur[s] # 0 /\ Gen(s) = {}
      BY <1>1, <2>2 DEF CursorInv, CursorOk
    <3>2. imax'[s] <= next'[NodeOf[s]]
      BY <1>1, <1>2, <1>4, <1>9, <3>1, Numbers DEF TypeInv
    <3>3. nid'[s] \in Nat /\ imin[s] <= nid'[s] /\ nid'[s] <= nid[s]
      BY <1>7, <1>9, <3>1
    <3>4. \A v \in Gen(s)' : v < nid'[s]
      <4>1. CASE error
        BY <1>7, <1>8, <1>9, <3>1, <4>1
      <4>2. CASE ~error
        BY <1>7, <1>8, <1>9, <3>1, <4>2
      <4> QED BY <4>1, <4>2
    <3>5. Ahead(s)' > 0 => nid'[s] + Ahead(s)' * Step <= imax'[s]
      <4>1. PICK x : x = Ahead(s) * Step /\ x \in Nat
        BY <1>9, <1>10, StepAssumption
      <4> QED BY <1>4, <1>9, <1>10, <3>1, <3>3, <4>1
    <3> QED BY <1>3, <1>4, <1>8, <1>9, <2>2, <3>1, <3>2, <3>3, <3>4, <3>5 DEF CursorOk
  <2> QED BY <1>9, <2>1, <2>2
<1>12. CursorInv'
  BY <1>2, <1>6, <1>11, OtherCursors DEF CursorInv
<1>13. Keeps(s)
  BY <1>2, <1>4, <1>6, <1>8 DEF Keeps
<1>14. HandInv'
  BY <1>2, <1>4, <1>6, <1>8, <1>13, HandKept
<1> QED
  BY <1>12, <1>13, <1>14

\* A release lowers the counter only from the end of the statement's own
\* interval, to a value in it.
LEMMA ReleaseIs ==
  ASSUME IdInv, CursorInv, NEW s \in Session, Release(s)
  PROVE  /\ next' \in [Node -> 0..(Width - 1)]
         /\ \A m \in Node \ {NodeOf[s]} : next'[m] = next[m]
         /\ \/ next'[NodeOf[s]] = next[NodeOf[s]]
            \/ /\ next'[NodeOf[s]] = nid[s] /\ imax[s] = next[NodeOf[s]]
               /\ 0 < imin[s] /\ imin[s] <= nid[s] /\ nid[s] < imax[s]
<1> DEFINE n == NodeOf[s]
<1>1. n \in Node /\ TypeInv
  BY NodeOfAssumption DEF IdInv
<1>2. nid[s] \in 0..(Width - 1) /\ imax[s] \in 0..(Width - 1) /\ next[n] \in 0..(Width - 1)
  BY <1>1 DEF TypeInv
<1>3. next' = [next EXCEPT ![n] = Lowered(s, n)]
  BY DEF Release
<1>4. \/ Lowered(s, n) = next[n]
      \/ /\ Lowered(s, n) = nid[s] /\ nid[s] # 0 /\ nid[s] < next[n] /\ imax[s] >= next[n]
  BY DEF Lowered
<1>5. imax[s] = 0 => nid[s] = 0
  BY DEF CursorInv, CursorOk
<1>6. imax[s] > 0 => imin[s] <= nid[s] /\ imax[s] <= next[n] /\ 0 < imin[s]
  BY DEF CursorInv, CursorOk
<1>7. \/ Lowered(s, n) = next[n]
      \/ /\ Lowered(s, n) = nid[s] /\ imax[s] = next[n]
         /\ 0 < imin[s] /\ imin[s] <= nid[s] /\ nid[s] < imax[s]
  BY <1>2, <1>4, <1>5, <1>6, Numbers
<1> QED
  BY <1>1, <1>2, <1>3, <1>7 DEF TypeInv

LEMMA HandRelease ==
  ASSUME IdInv, CursorInv, HandInv, NEW s \in Session, Release(s)
  PROVE  CursorInv' /\ HandInv' /\ Keeps(s)
<1> DEFINE n == NodeOf[s]
<1>1. n \in Node /\ TypeInv /\ \A t \in Session : NodeOf[t] \in Node
  BY NodeOfAssumption DEF IdInv
<1>2. /\ pc[s] \in {"row", "finish", "release"} /\ pc'[s] \in {"bulk", "commit"}
      /\ \A t \in Session \ {s} : pc'[t] = pc[t]
  BY <1>1 DEF Release, Finished, TypeInv
<1>3. /\ nid' = [nid EXCEPT ![s] = 0] /\ imin' = [imin EXCEPT ![s] = 0]
      /\ imax' = [imax EXCEPT ![s] = 0] /\ cnt' = [cnt EXCEPT ![s] = 0]
      /\ UNCHANGED <<cur, val, prev, left, batch, open>>
  BY DEF Release, row
<1>4. \A t \in Session \ {s} : Untouched(t)
  BY <1>1, <1>2, <1>3 DEF Untouched, TypeInv
<1>5. InHand(s)' = InHand(s) /\ InHand(s) = Gen(s) \cup Kept(s)
  BY <1>2, <1>3 DEF InHand, Gen, Kept
<1>6. /\ imax[s] \in Nat /\ imin[s] \in Nat /\ nid[s] \in Nat /\ next[n] \in Nat
      /\ \A t \in Session : imax[t] \in Nat /\ imin[t] \in Nat /\ \A v \in InHand(t) : v \in Nat
  BY <1>1, HandNumbers, Numbers DEF TypeInv
<1>7. ASSUME NEW t \in Session, imax'[t] > 0 PROVE imax[t] <= next'[NodeOf[t]] /\ t # s
  <2>1. t # s /\ imax[t] > 0 /\ imax[t] <= next[NodeOf[t]] /\ imin[t] < imax[t]
    BY <1>1, <1>3, <1>7 DEF TypeInv, CursorInv, CursorOk
  <2>2. CASE NodeOf[t] # n
    BY <1>1, <2>1, <2>2, ReleaseIs
  <2>3. CASE NodeOf[t] = n /\ next'[n] = next[n]
    BY <2>1, <2>3
  <2>4. CASE /\ NodeOf[t] = n /\ next'[n] = nid[s] /\ imax[s] = next[n]
             /\ 0 < imin[s] /\ imin[s] <= nid[s] /\ nid[s] < imax[s]
    <3>1. Disjoint(s, t)
      BY <2>1, <2>4 DEF HandInv
    <3>2. imax[s] <= imin[t] \/ imax[t] <= imin[s]
      BY <1>6, <2>1, <2>4, <3>1 DEF Disjoint
    <3> QED BY <1>6, <2>1, <2>4, <3>2
  <2> QED BY <2>2, <2>3, <2>4, ReleaseIs
<1>8. ASSUME NEW t \in Session, NEW v \in InHand(t) PROVE v < next'[NodeOf[t]]
  <2>1. v < next[NodeOf[t]]
    BY DEF HandInv
  <2>2. CASE NodeOf[t] # n
    BY <1>1, <2>1, <2>2, ReleaseIs
  <2>3. CASE NodeOf[t] = n /\ next'[n] = next[n]
    BY <2>1, <2>3
  <2>4. CASE /\ NodeOf[t] = n /\ next'[n] = nid[s] /\ imax[s] = next[n]
             /\ 0 < imin[s] /\ imin[s] <= nid[s] /\ nid[s] < imax[s]
    <3>1. CASE t = s
      BY <1>5, <1>6, <2>4, <3>1 DEF CursorInv, CursorOk
    <3>2. CASE t # s
      <4>1. Disjoint(t, s)
        BY <2>4, <3>2 DEF HandInv
      <4>2. v < imin[s] \/ imax[s] <= v
        BY <1>6, <2>4, <4>1 DEF Disjoint
      <4> QED BY <1>6, <2>1, <2>4, <4>2
    <3> QED BY <3>1, <3>2
  <2> QED BY <2>2, <2>3, <2>4, ReleaseIs
<1>9. CursorOk(s)'
  BY <1>1, <1>2, <1>3 DEF CursorOk, TypeInv, Outside
<1>10. ASSUME NEW t \in Session \ {s} PROVE CursorOk(t)'
  <2>1. imax[t] > 0 => imax[t] <= next'[NodeOf[t]]
    BY <1>4, <1>7 DEF Untouched
  <2> QED BY <1>4, <2>1, UntouchedCursor DEF CursorInv
<1>11. \A t \in Session : InHand(t)' = InHand(t)
  BY <1>4, <1>5, UntouchedHand
<1>12. ASSUME NEW t \in Session, NEW u \in Session, t # u, NodeOf[u] = NodeOf[t]
       PROVE  Disjoint(t, u)'
  <2>1. Disjoint(t, u)
    BY <1>12 DEF HandInv
  <2>2. \A w \in Session : imax'[w] > 0 => imax'[w] = imax[w] /\ imin'[w] = imin[w]
    BY <1>4, <1>7 DEF Untouched
  <2> QED BY <1>11, <2>1, <2>2 DEF Disjoint
<1>13. HandInv'
  BY <1>8, <1>11, <1>12 DEF HandInv
<1>14. Keeps(s)
  BY <1>1, <1>3, <1>4, <1>5 DEF Keeps, TypeInv
<1> QED
  BY <1>9, <1>10, <1>13, <1>14 DEF CursorInv

\* The steps that take nothing, reserve nothing and do not lower the counter.
LEMMA HandEndBulk ==
  ASSUME IdInv, CursorInv, HandInv, NEW s \in Session, NEW error \in BOOLEAN, EndBulk(s, error)
  PROVE  CursorInv' /\ HandInv' /\ Keeps(s)
<1>1. /\ UNCHANGED <<next, nid, imin, imax, cnt, cur, val, prev, left, batch, open>>
      /\ \A t \in Session \ {s} : pc'[t] = pc[t]
      /\ \/ pc'[s] = "release" /\ pc[s] \in {"finish", "row"}
         \/ pc'[s] = "commit" /\ pc[s] = "bulk"
  BY DEF EndBulk, Finished, IdInv, TypeInv, cursor, row
<1>2. \A t \in Session \ {s} : Untouched(t)
  BY <1>1 DEF Untouched
<1>3. InHand(s)' = InHand(s) /\ Gen(s)' = Gen(s) /\ Kept(s)' = Kept(s) /\ Ahead(s)' = Ahead(s)
  BY <1>1 DEF InHand, Gen, Kept, Ahead, Pending
<1>4. next' \in [Node -> 0..(Width - 1)] /\ \A m \in Node : next'[m] >= next[m]
  BY <1>1, Numbers DEF IdInv, TypeInv
<1>5. CursorOk(s)'
  BY <1>1, <1>3 DEF CursorOk, CursorInv, Outside
<1>6. CursorInv'
  BY <1>2, <1>4, <1>5, OtherCursors DEF CursorInv
<1>7. Keeps(s)
  BY <1>1, <1>2, <1>3, <1>4 DEF Keeps
<1>8. HandInv'
  BY <1>1, <1>2, <1>3, <1>4, <1>7, HandKept
<1> QED
  BY <1>6, <1>7, <1>8

LEMMA HandEnds ==
  ASSUME IdInv, CursorInv, HandInv, NEW s \in Session, Ends(s),
         pc[s] \in {"idle", "commit", "prepared"}, UNCHANGED <<counter, cursor, row>>,
         \A t \in Session \ {s} : left'[t] = left[t]
  PROVE  CursorInv' /\ HandInv' /\ Keeps(s)
<1>1. /\ UNCHANGED <<next, nid, imin, imax, cnt, cur, val, prev>> /\ imax[s] = 0
      /\ pc'[s] \in {"idle", "prepared"} /\ batch'[s] = {}
      /\ open'[s] \subseteq batch[s] \cup open[s]
      /\ \A t \in Session \ {s} : /\ pc'[t] = pc[t] /\ left'[t] = left[t]
                                 /\ batch'[t] = batch[t] /\ open'[t] = open[t]
  BY DEF Ends, IdInv, TypeInv, CountInv, Outside, counter, cursor, row
<1>2. \A t \in Session \ {s} : Untouched(t)
  BY <1>1 DEF Untouched
<1>3. InHand(s)' \subseteq InHand(s) /\ Gen(s)' = {}
  BY <1>1 DEF InHand, Gen
<1>4. next' \in [Node -> 0..(Width - 1)] /\ \A m \in Node : next'[m] >= next[m]
  BY <1>1, Numbers DEF IdInv, TypeInv
<1>5. CursorOk(s)'
  BY <1>1, <1>3 DEF CursorOk, CursorInv
<1>6. CursorInv'
  BY <1>2, <1>4, <1>5, OtherCursors DEF CursorInv
<1>7. Keeps(s)
  BY <1>1, <1>2, <1>3, <1>4 DEF Keeps
<1>8. HandInv'
  BY <1>1, <1>2, <1>3, <1>4, <1>7, HandKept
<1> QED
  BY <1>6, <1>7, <1>8

LEMMA HandEndStmt ==
  ASSUME IdInv, CursorInv, HandInv, NEW s \in Session, EndStmt(s)
  PROVE  CursorInv' /\ HandInv' /\ Keeps(s)
<1>1. Ends(s)
  BY EndStmtIs DEF IdInv
<1>2. /\ pc[s] = "commit" /\ UNCHANGED <<counter, cursor, row>>
      /\ \A t \in Session \ {s} : left'[t] = left[t]
  BY DEF EndStmt, IdInv, TypeInv
<1> QED
  BY <1>1, <1>2, HandEnds

LEMMA HandCommit ==
  ASSUME IdInv, CursorInv, HandInv, NEW s \in Session, Commit(s) \/ Rollback(s) \/ Settle(s)
  PROVE  CursorInv' /\ HandInv' /\ Keeps(s)
<1>1. Ends(s)
  BY CommitIs, RollbackIs, SettleIs
<1>2. /\ pc[s] \in {"idle", "prepared"} /\ UNCHANGED <<counter, cursor, row>> /\ left' = left
  BY DEF Commit, Rollback, Settle
<1> QED
  BY <1>1, <1>2, HandEnds

LEMMA HandUpdate ==
  ASSUME IdInv, CursorInv, HandInv, NEW s \in Session, NEW v \in Explicit, NEW error \in BOOLEAN,
         Update(s, v, error)
  PROVE  CursorInv' /\ HandInv' /\ Keeps(s)
<1>1. /\ UNCHANGED <<nid, imin, imax, cnt, cur, prev, left, batch, open>> /\ imax[s] = 0
      /\ pc[s] = "idle" /\ pc'[s] = "raise"
      /\ \A t \in Session \ {s} : pc'[t] = pc[t] /\ val'[t] = val[t]
  BY DEF Update, IdInv, TypeInv, CountInv, Outside, cursor
<1>2. \A t \in Session \ {s} : Untouched(t)
  BY <1>1 DEF Untouched
<1>3. InHand(s)' = InHand(s) /\ Gen(s)' = Gen(s) /\ Kept(s)' = Kept(s)
  BY <1>1 DEF InHand, Gen, Kept
<1>4. next' \in [Node -> 0..(Width - 1)] /\ \A m \in Node : next'[m] >= next[m]
  BY UpdateShare, InfoAutoIs DEF IdInv
<1>5. CursorOk(s)'
  BY <1>1, <1>3 DEF CursorOk, CursorInv, Outside
<1>6. CursorInv'
  BY <1>2, <1>4, <1>5, OtherCursors DEF CursorInv
<1>7. Keeps(s)
  BY <1>1, <1>2, <1>3, <1>4 DEF Keeps
<1>8. HandInv'
  BY <1>1, <1>2, <1>3, <1>4, <1>7, HandKept
<1> QED
  BY <1>6, <1>7, <1>8

LEMMA HandRaise ==
  ASSUME IdInv, CursorInv, HandInv, NEW s \in Session, Raise(s)
  PROVE  CursorInv' /\ HandInv' /\ Keeps(s)
<1>1. /\ UNCHANGED <<nid, imin, imax, cnt, cur, prev, left, batch, open>> /\ imax[s] = 0
      /\ pc[s] = "raise" /\ pc'[s] = "idle"
      /\ \A t \in Session \ {s} : pc'[t] = pc[t] /\ val'[t] = val[t]
  BY DEF Raise, IdInv, TypeInv, CountInv, Outside, cursor
<1>2. \A t \in Session \ {s} : Untouched(t)
  BY <1>1 DEF Untouched
<1>3. InHand(s)' = InHand(s) /\ Gen(s)' = Gen(s) /\ Kept(s)' = Kept(s)
  BY <1>1 DEF InHand, Gen, Kept
<1>4. next' \in [Node -> 0..(Width - 1)] /\ \A m \in Node : next'[m] >= next[m]
  <2>1. NodeOf[s] \in Node /\ val[s] \in 1..ColMax /\ is_error[s] \in BOOLEAN
    BY NodeOfAssumption, Numbers DEF Raise, IdInv, TypeInv, RowInv
  <2>2. SetIfHigher(NodeOf[s], val[s], is_error[s])
    BY DEF Raise
  <2> QED BY <2>1, <2>2, SetIfHigherIs DEF IdInv
<1>5. CursorOk(s)'
  BY <1>1, <1>3 DEF CursorOk, CursorInv, Outside
<1>6. CursorInv'
  BY <1>2, <1>4, <1>5, OtherCursors DEF CursorInv
<1>7. Keeps(s)
  BY <1>1, <1>2, <1>3, <1>4 DEF Keeps
<1>8. HandInv'
  BY <1>1, <1>2, <1>3, <1>4, <1>7, HandKept
<1> QED
  BY <1>6, <1>7, <1>8

\* A session without a statement and without an open transaction has nothing.
LEMMA IdleHand ==
  ASSUME IdInv, NEW t \in Session, pc[t] \in {"idle", "prepared"}, open[t] = {}
  PROVE  InHand(t) = {} /\ Gen(t) = {} /\ imax[t] = 0
BY DEF IdInv, CountInv, Outside, InHand, Gen

\* The counter of a node starts again when none of its sessions has anything,
\* and those of the other nodes stay.
LEMMA HandFresh ==
  ASSUME IdInv, IdInv', CursorInv, HandInv, NEW n \in Node, next' = [next EXCEPT ![n] = 0],
         \A t \in Here(n) : pc'[t] \in {"idle", "prepared"} /\ open'[t] = {},
         \A t \in Session : NodeOf[t] # n => Untouched(t)
  PROVE  CursorInv' /\ HandInv'
<1>1. ASSUME NEW t \in Session, NodeOf[t] = n
      PROVE  InHand(t)' = {} /\ imax'[t] = 0 /\ CursorOk(t)'
  <2>1. pc'[t] \in {"idle", "prepared"} /\ open'[t] = {}
    BY <1>1 DEF Here
  <2> QED BY <2>1 DEF IdInv, CountInv, Outside, InHand, Gen, CursorOk
<1>2. ASSUME NEW t \in Session, NodeOf[t] # n
      PROVE  next'[NodeOf[t]] = next[NodeOf[t]] /\ InHand(t)' = InHand(t) /\ CursorOk(t)'
             /\ imin'[t] = imin[t] /\ imax'[t] = imax[t]
  <2>1. next'[NodeOf[t]] = next[NodeOf[t]]
    BY <1>2, NodeOfAssumption DEF IdInv, TypeInv
  <2>2. CursorOk(t)'
    BY <1>2, <2>1, UntouchedCursor DEF CursorInv, CursorOk
  <2> QED BY <1>2, <2>1, <2>2, UntouchedHand DEF Untouched
<1>3. CursorInv'
  BY <1>1, <1>2 DEF CursorInv
<1>4. ASSUME NEW t \in Session, NEW v \in InHand(t)' PROVE v < next'[NodeOf[t]]
  BY <1>1, <1>2, <1>4 DEF HandInv
<1>5. ASSUME NEW t \in Session, NEW u \in Session, u # t, NodeOf[u] = NodeOf[t]
      PROVE  Disjoint(t, u)'
  <2>1. CASE NodeOf[t] = n
    BY <1>1, <1>5, <2>1 DEF Disjoint
  <2>2. CASE NodeOf[t] # n
    BY <1>2, <1>5, <2>2 DEF Disjoint, HandInv
  <2> QED BY <2>1, <2>2
<1> QED
  BY <1>3, <1>4, <1>5 DEF HandInv

LEMMA HandTruncate ==
  ASSUME IdInv, CursorInv, HandInv, NEW n \in Node, Truncate(n)
  PROVE  CursorInv' /\ HandInv'
<1>1. /\ next' = [next EXCEPT ![n] = 0]
      /\ \A t \in Here(n) : pc'[t] = "idle" /\ open'[t] = {}
      /\ \A t \in Session : NodeOf[t] # n => Untouched(t)
  BY DEF Truncate, Fresh, Untouched, cursor, row
<1> QED
  BY <1>1, IdTruncate, HandFresh

LEMMA HandFlush ==
  ASSUME CounterKept, IdInv, CursorInv, HandInv, NEW n \in Node, Flush(n)
  PROVE  CursorInv' /\ HandInv'
<1>1. /\ next' = [next EXCEPT ![n] = 0]
      /\ \A t \in Here(n) : pc'[t] \in {"idle", "prepared"} /\ open'[t] = {}
      /\ \A t \in Session : NodeOf[t] # n => Untouched(t)
  BY DEF CounterKept, Flush, Fresh, Untouched, cursor, row
<1> QED
  BY <1>1, IdFlush, HandFresh

LEMMA HandCrash ==
  ASSUME CounterKept, IdInv, CursorInv, HandInv, NEW n \in Node, Crash(n)
  PROVE  CursorInv' /\ HandInv'
<1>1. PICK lost :
        /\ lost = Here(n) /\ Fresh(n)
        /\ nid' = [s \in Session |-> IF s \in lost THEN 0 ELSE nid[s]]
        /\ imin' = [s \in Session |-> IF s \in lost THEN 0 ELSE imin[s]]
        /\ imax' = [s \in Session |-> IF s \in lost THEN 0 ELSE imax[s]]
        /\ cnt' = [s \in Session |-> IF s \in lost THEN 0 ELSE cnt[s]]
        /\ cur' = [s \in Session |-> IF s \in lost THEN 0 ELSE cur[s]]
        /\ val' = [s \in Session |-> IF s \in lost THEN 0 ELSE val[s]]
        /\ prev' = [s \in Session |-> IF s \in lost THEN 0 ELSE prev[s]]
        /\ left' = [s \in Session |-> IF s \in lost THEN 0 ELSE left[s]]
        /\ pc' = [s \in Session |-> IF s \in lost THEN "idle" ELSE pc[s]]
        /\ batch' = [s \in Session |-> IF s \in lost THEN {} ELSE batch[s]]
        /\ open' = [s \in Session |-> IF s \in lost THEN {} ELSE open[s]]
  BY CrashIs DEF IdInv
<1>2. \A t \in Session : t \in lost <=> NodeOf[t] = n
  BY <1>1 DEF Here
<1>3. \A t \in Here(n) : pc'[t] = "idle" /\ open'[t] = {}
  BY <1>1 DEF Here
<1>4. \A t \in Session : NodeOf[t] # n => Untouched(t)
  BY <1>1, <1>2 DEF Untouched
<1>5. next' = [next EXCEPT ![n] = 0]
  BY <1>1 DEF Fresh
<1> QED
  BY <1>3, <1>4, <1>5, IdCrash, HandFresh

\* The invariant of the second layer.
ReserveInv == IdInv /\ CursorInv /\ HandInv

LEMMA HandStep ==
  ASSUME OneReservation, CounterKept, ReserveInv, [Next]_vars
  PROVE  ReserveInv'
<1> USE DEF ReserveInv
<1>1. IdInv'
  BY IdStep
<1>2. ASSUME NEW s \in Session, Insert(s) PROVE CursorInv' /\ HandInv'
  BY <1>2, HandBegin, HandStartRow, HandUseExplicit, HandUseReserved, HandReserve, HandWriteRow,
     HandRelease, HandEndBulk, HandEndStmt DEF Insert
<1>3. ASSUME NEW s \in Session, NEW v \in Explicit, NEW error \in BOOLEAN, Update(s, v, error)
      PROVE  CursorInv' /\ HandInv'
  BY <1>3, HandUpdate
<1>4. ASSUME NEW s \in Session, Commit(s) \/ Rollback(s) \/ Settle(s) \/ Raise(s)
      PROVE  CursorInv' /\ HandInv'
  BY <1>4, HandCommit, HandRaise
<1>5. ASSUME NEW n \in Node, Truncate(n) \/ Flush(n) \/ Crash(n) PROVE CursorInv' /\ HandInv'
  BY <1>5, HandTruncate, HandFlush, HandCrash
<1>6. CASE UNCHANGED vars
  <2>1. next' = next /\ \A t \in Session : Untouched(t)
    BY <1>6 DEF Untouched, vars, counter, cursor, row
  <2>2. CursorInv'
    BY <2>1, UntouchedCursor DEF CursorInv, CursorOk
  <2>3. \A t \in Session : InHand(t)' = InHand(t) /\ imin'[t] = imin[t] /\ imax'[t] = imax[t]
    BY <2>1, UntouchedHand DEF Untouched
  <2>4. HandInv'
    BY <2>1, <2>3 DEF HandInv, Disjoint
  <2> QED BY <1>1, <2>2, <2>4
<1> QED
  BY <1>1, <1>2, <1>3, <1>4, <1>5, <1>6 DEF Next

\* The invariant of the second layer, in the configurations in which every
\* statement reserves at most once and no node loses its counter beside rows of
\* its sessions that are not committed and stay.
THEOREM ReserveInvariance == OneReservation /\ CounterKept => (Spec => []ReserveInv)
<1> SUFFICES ASSUME OneReservation, CounterKept PROVE Spec => []ReserveInv
  OBVIOUS
<1>1. Init => ReserveInv
  BY InitId, InitHand DEF ReserveInv
<1>2. ReserveInv /\ [Next]_vars => ReserveInv'
  BY HandStep
<1> QED
  BY <1>1, <1>2, PTL DEF Spec

\* next_insert_id never falls behind the statement's interval: the next row
\* takes a value the statement has reserved, whatever row was refused.
THEOREM CursorInInterval == OneReservation /\ CounterKept => (Spec => []CursorNotBelow)
<1> SUFFICES ASSUME OneReservation, CounterKept PROVE Spec => []CursorNotBelow
  OBVIOUS
<1>1. ASSUME ReserveInv PROVE CursorNotBelow
  <2> SUFFICES ASSUME NEW s \in Session PROVE nid[s] >= imin[s]
    BY DEF CursorNotBelow
  <2>1. nid[s] \in Nat /\ imin[s] \in Nat /\ imax[s] \in Nat
    BY <1>1, Numbers DEF ReserveInv, IdInv, TypeInv
  <2> QED BY <1>1, <2>1 DEF ReserveInv, CursorInv, CursorOk
<1> QED
  BY <1>1, ReserveInvariance, PTL

\* Values of different nodes differ.
LEMMA OtherNode ==
  ASSUME NEW m \in Node, NEW n \in Node, m # n, NEW v, InClass(m, v)
  PROVE  ~InClass(n, v)
BY ModesDiffer DEF InClass

\* What a statement has reserved stays its own until it gives it back, although
\* another statement's release lowers the counter they share, and what the rows
\* of open and prepared transactions have stays below the counter.
THEOREM ReservedIsOwn == OneReservation /\ CounterKept => (Spec => []Exclusive)
<1> SUFFICES ASSUME OneReservation, CounterKept PROVE Spec => []Exclusive
  OBVIOUS
<1>1. ASSUME ReserveInv PROVE Exclusive
  <2> USE <1>1 DEF ReserveInv
  <2> SUFFICES ASSUME NEW s \in Session
               PROVE  /\ \A v \in Reserved(s) \cup InHand(s) : v < next[NodeOf[s]]
                      /\ \A t \in Session : Reserved(s) \cap InHand(t) = {}
                      /\ \A t \in Session \ {s} :
                           NodeOf[t] = NodeOf[s] => Reserved(s) \cap Reserved(t) = {}
    BY DEF Exclusive
  <2>1. ASSUME NEW t \in Session
        PROVE  /\ NodeOf[t] \in Node /\ next[NodeOf[t]] \in Nat
               /\ nid[t] \in Nat /\ imin[t] \in Nat /\ imax[t] \in Nat
               /\ \A v \in InHand(t) : v \in Nat /\ InClass(NodeOf[t], v)
    <3>1. NodeOf[t] \in Node
      BY NodeOfAssumption
    <3> QED BY <3>1, HandNumbers, Numbers DEF IdInv, TypeInv
  <2>2. ASSUME NEW t \in Session, NEW v \in Reserved(t)
        PROVE  /\ v \in Nat /\ InClass(NodeOf[t], v) /\ imax[t] > 0
               /\ nid[t] <= v /\ imin[t] <= v /\ v < imax[t] /\ v < next[NodeOf[t]]
    <3>1. v \in Nat /\ InClass(NodeOf[t], v) /\ nid[t] <= v /\ v < imax[t] /\ imax[t] > 0
      BY <2>1 DEF Reserved, InClass
    <3> QED BY <2>1, <3>1 DEF CursorInv, CursorOk
  <2>3. \A v \in Reserved(s) \cup InHand(s) : v < next[NodeOf[s]]
    BY <2>2 DEF HandInv
  <2>4. ASSUME NEW t \in Session, NEW v \in Reserved(s) PROVE v \notin InHand(t)
    <3>1. CASE t = s
      <4>1. ASSUME NEW w \in InHand(s) PROVE w < nid[s]
        BY <2>1, <2>2, HandParts DEF CursorInv, CursorOk
      <4> QED BY <2>1, <2>2, <3>1, <4>1
    <3>2. CASE t # s /\ NodeOf[t] = NodeOf[s]
      BY <2>1, <2>2, <3>2 DEF HandInv, Disjoint
    <3>3. CASE NodeOf[t] # NodeOf[s]
      BY <2>1, <2>2, <3>3, OtherNode
    <3> QED BY <3>1, <3>2, <3>3
  <2>5. ASSUME NEW t \in Session \ {s}, NodeOf[t] = NodeOf[s], NEW v \in Reserved(s)
        PROVE  v \notin Reserved(t)
    BY <2>1, <2>2, <2>5 DEF HandInv, Disjoint
  <2> QED BY <2>3, <2>4, <2>5
<1> QED
  BY <1>1, ReserveInvariance, PTL

=============================================================================
