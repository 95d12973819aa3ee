--------------------------- MODULE JoinTreeProofs ---------------------------
(***************************************************************************)
(* Theorems about JoinTree, for every number of connections, every set of  *)
(* priorities and every number of transactions.                            *)
(***************************************************************************)
EXTENDS JoinTree, Integers, FiniteSetTheorems, WellFoundedInduction, TLAPS

Member == Range(joined)

-----------------------------------------------------------------------------
(***************************************************************************)
(* The invariant.                                                          *)
(***************************************************************************)

TypeOK ==
  /\ p_small \in [Conn -> Conn \cup {Null}]
  /\ p_big \in [Conn -> Conn \cup {Null}]
  /\ c_small \in [Conn -> Conn \cup {Null}]
  /\ c_big \in [Conn -> Conn \cup {Null}]
  /\ priority \in [Conn -> Nat]
  /\ top \in Conn \cup {Null}
  /\ cur \in Conn \cup {Null}
  /\ freed \in SUBSET Conn
  /\ joined \in Seq(Conn)
  /\ trxs \in Nat

\* joined has every connection once, in the order of the priorities, and none
\* that has been freed.
JoinedInv ==
  /\ \A i, j \in DOMAIN joined : joined[i] = joined[j] => i = j
  /\ \A i, j \in DOMAIN joined : i <= j => priority[joined[i]] <= priority[joined[j]]
  /\ \A i \in DOMAIN joined : joined[i] \notin freed

\* Outside of spider_free_prepared_trx the tree hangs on its top; inside, the
\* loop is at the connection that a walk visits first, and nothing hangs on top.
TopInv ==
  /\ cur = Null /\ top = Null => joined = <<>>
  /\ cur = Null /\ top # Null => /\ top \in Member
                                 /\ p_small[top] = Null /\ p_big[top] = Null
  /\ cur # Null => joined # <<>> /\ cur = joined[1]

(***************************************************************************)
(* The shape of the tree.  A connection is at the position pos in joined,  *)
(* and what is below it, itself included, at the positions lo to hi.       *)
(***************************************************************************)
SpanInv(pos, lo, hi) ==
  /\ \A i \in DOMAIN joined : pos[joined[i]] = i
  /\ \A d \in Member : /\ 1 <= lo[d] /\ lo[d] <= pos[d]
                       /\ pos[d] <= hi[d] /\ hi[d] <= Len(joined)

SmallInv(pos, lo, hi) ==
  \A d \in Member :
    IF c_small[d] = Null THEN lo[d] = pos[d]
    ELSE /\ c_small[d] \in Member
         /\ p_big[c_small[d]] = d
         /\ lo[c_small[d]] = lo[d]
         /\ hi[c_small[d]] = pos[d] - 1

BigInv(pos, lo, hi) ==
  \A d \in Member :
    IF c_big[d] = Null THEN hi[d] = pos[d]
    ELSE /\ c_big[d] \in Member
         /\ p_small[c_big[d]] = d
         /\ lo[c_big[d]] = pos[d] + 1
         /\ hi[c_big[d]] = hi[d]

ParentInv(lo, hi) ==
  \A d \in Member :
    /\ p_big[d] # Null =>
         p_big[d] \in Member /\ c_small[p_big[d]] = d /\ p_small[d] = Null
    /\ p_small[d] # Null => p_small[d] \in Member /\ c_big[p_small[d]] = d
    /\ p_small[d] = Null /\ p_big[d] = Null => lo[d] = 1 /\ hi[d] = Len(joined)

\* Between two neighbours there is room for one connection: below the smaller
\* or below the bigger one.
RoomInv(pos) ==
  \A d, e \in Member : pos[e] = pos[d] + 1 => (c_big[d] = Null <=> c_small[e] # Null)

Shape(pos, lo, hi) ==
  /\ SpanInv(pos, lo, hi)
  /\ SmallInv(pos, lo, hi)
  /\ BigInv(pos, lo, hi)
  /\ ParentInv(lo, hi)
  /\ RoomInv(pos)

TreeInv == \E pos, lo, hi \in [Conn -> Int] : Shape(pos, lo, hi)

JoinInv == TypeOK /\ JoinedInv /\ TopInv /\ TreeInv
-----------------------------------------------------------------------------
(***************************************************************************)
(* Induction and loops.  The provers do not instantiate operators, so the  *)
(* principles are stated with sets and functions.                          *)
(***************************************************************************)

Less == {ss \in Nat \X Nat : ss[1] < ss[2]}

\* A set of numbers that is not empty has a least one.
LEMMA Least ==
  ASSUME NEW S \in SUBSET Nat, S # {}
  PROVE  \E n \in S : \A m \in S : n <= m
<1>1. IsWellFoundedOn(Less, Nat)
  BY NatLessThanWellFounded DEF OpToRel, Less
<1>2. PICK n \in S : \A m \in S : <<m, n>> \notin Less
  BY <1>1, WFMin
<1>3. ASSUME NEW m \in S PROVE n <= m
  <2>1. <<m, n>> \notin Less
    BY <1>2
  <2>2. <<m, n>> \in Nat \X Nat
    OBVIOUS
  <2> QED BY <2>1, <2>2 DEF Less
<1> QED BY <1>3

\* Induction up to N: S is the set of numbers for which a claim holds.
LEMMA Induct ==
  ASSUME NEW N \in Nat, NEW S, 0 \in S,
         \A n \in 0..N : n < N /\ n \in S => n + 1 \in S
  PROVE  \A n \in 0..N : n \in S
<1> SUFFICES ASSUME NEW x \in 0..N, x \notin S PROVE FALSE
  OBVIOUS
<1> DEFINE Bad == {n \in 0..N : n \notin S}
<1>1. PICK n \in Bad : \A m \in Bad : n <= m
  <2>1. Bad \in SUBSET Nat /\ x \in Bad
    OBVIOUS
  <2> QED BY <2>1, Least
<1>2. n # 0
  BY <1>1
<1>3. n - 1 \in 0..N /\ n - 1 < N /\ n - 1 + 1 = n
  BY <1>1, <1>2
<1>4. n - 1 \in S
  BY <1>1, <1>3
<1> QED BY <1>1, <1>3, <1>4

AreSteps(at, D, step, from, N) ==
  /\ at \in [0..N -> D]
  /\ at[0] = from
  /\ \A n \in 0..N : n # 0 => at[n] = step[at[n - 1]]

\* The turns of a loop exist, for every number of them.
LEMMA StepsExist ==
  ASSUME NEW D, NEW step \in [D -> D], NEW from \in D, NEW N \in Nat
  PROVE  \E at : AreSteps(at, D, step, from, N)
<1> USE DEF AreSteps
<1> DEFINE Is(at, m) == AreSteps(at, D, step, from, m)
           S == {m \in 0..N : \E at : Is(at, m)}
<1>1. 0 \in S
  <2> DEFINE at == [n \in 0..0 |-> from]
  <2>1. at \in [0..0 -> D]
    OBVIOUS
  <2>2. at[0] = from
    OBVIOUS
  <2>3. \A n \in 0..0 : n = 0
    OBVIOUS
  <2> HIDE DEF at
  <2>4. Is(at, 0)
    BY <2>1, <2>2, <2>3
  <2> QED BY <2>4
<1>2. ASSUME NEW m \in 0..N, m < N, m \in S
      PROVE  m + 1 \in S
  <2>1. PICK at : Is(at, m)
    BY <1>2
  <2> DEFINE more == [n \in 0..(m + 1) |-> IF n = m + 1 THEN step[at[m]] ELSE at[n]]
  <2>2. more \in [0..(m + 1) -> D]
    <3>1. ASSUME NEW n \in 0..(m + 1) PROVE (IF n = m + 1 THEN step[at[m]] ELSE at[n]) \in D
      BY <2>1
    <3> QED BY <3>1
  <2>3. more[0] = from
    BY <2>1
  <2>4. ASSUME NEW n \in 0..(m + 1), n # 0 PROVE more[n] = step[more[n - 1]]
    <3>1. CASE n = m + 1
      BY <3>1, <2>1
    <3>2. CASE n # m + 1
      <4>1. n \in 0..m /\ n - 1 \in 0..m /\ n - 1 # m + 1
        BY <3>2, <2>4
      <4>2. more[n] = at[n] /\ more[n - 1] = at[n - 1]
        BY <4>1, <3>2
      <4> QED BY <4>1, <4>2, <2>1, <2>4
    <3> QED BY <3>1, <3>2
  <2>5. Is(more, m + 1)
    BY <2>2, <2>3, <2>4
  <2>6. m + 1 \in 0..N
    BY <1>2
  <2> HIDE DEF AreSteps, more
  <2> QED BY <2>5, <2>6
<1>3. N \in S
  <2>1. \A m \in 0..N : m < N /\ m \in S => m + 1 \in S
    BY <1>2
  <2> HIDE DEF S
  <2> QED BY <1>1, <2>1, Induct
<1>4. PICK at : Is(at, N)
  BY <1>3
<1> QED BY <1>4

LEMMA TurnsType == Turns \in Nat
BY ConnAssumption, FS_CardinalityType DEF Turns

LEMMA StepsAre ==
  ASSUME NEW D, NEW step \in [D -> D], NEW from \in D
  PROVE  AreSteps(Steps(step, from), D, step, from, Turns)
<1> DEFINE Is(at) == at = [n \in 0..Turns |-> IF n = 0 THEN from ELSE step[at[n - 1]]]
<1>1. PICK f \in [0..Turns -> D] : Is(f)
  <2>1. PICK f : AreSteps(f, D, step, from, Turns)
    BY TurnsType, StepsExist
  <2> USE DEF AreSteps
  <2>2. \A n \in 0..Turns : f[n] = IF n = 0 THEN from ELSE step[f[n - 1]]
    BY <2>1
  <2>3. f = [n \in 0..Turns |-> IF n = 0 THEN from ELSE step[f[n - 1]]]
    BY <2>1, <2>2
  <2> QED BY <2>1, <2>3
<1>2. Steps(step, from) = CHOOSE at : Is(at)
  BY DEF Steps
<1>3. Is(Steps(step, from))
  <2> HIDE DEF Is
  <2> QED BY <1>1, <1>2
<1> DEFINE g == Steps(step, from)
<1>4. g = [n \in 0..Turns |-> IF n = 0 THEN from ELSE step[g[n - 1]]]
  BY <1>3
<1>5. \A n \in 0..Turns : g[n] = IF n = 0 THEN from ELSE step[g[n - 1]]
  <2> HIDE DEF g
  <2> QED BY <1>4
<1>6. g[0] = from
  BY <1>5, TurnsType
<1>7. \A n \in 0..Turns : n # 0 => g[n] = step[g[n - 1]]
  BY <1>5
<1>8. \A n \in 0..Turns : g[n] \in D
  <2> DEFINE S == {n \in 0..Turns : g[n] \in D}
  <2> HIDE DEF g
  <2>1. 0 \in S
    BY <1>6, TurnsType
  <2>2. ASSUME NEW n \in 0..Turns, n < Turns, n \in S PROVE n + 1 \in S
    <3>1. n + 1 \in 0..Turns /\ n + 1 # 0 /\ (n + 1) - 1 = n
      BY <2>2, TurnsType
    <3> QED BY <3>1, <2>2, <1>7
  <2>3. \A n \in 0..Turns : n < Turns /\ n \in S => n + 1 \in S
    BY <2>2
  <2> HIDE DEF S
  <2>4. \A n \in 0..Turns : n \in S
    BY <2>1, <2>3, TurnsType, Induct
  <2> QED BY <2>4 DEF S
<1>9. g \in [0..Turns -> D]
  <2> HIDE DEF g
  <2> QED BY <1>4, <1>8
<1> QED BY <1>6, <1>7, <1>9 DEF AreSteps

\* Something gets smaller with every turn; G is what is known of the connections
\* to which the loop comes.
Shrinks(D, step, G, m) ==
  /\ step \in [D -> D] /\ G \in SUBSET D /\ m \in [D -> Int]
  /\ \A x \in G : step[x] \in G
  /\ \A x \in G : 0 <= m[x]
  /\ \A x \in G : step[x] # x => m[step[x]] < m[x]

\* Such a loop ends where step stands still.
LEMMA LoopEnds ==
  ASSUME NEW D, NEW step, NEW G, NEW m, Shrinks(D, step, G, m),
         NEW from \in G, m[from] <= Turns
  PROVE  /\ Loop(step, from) \in G
         /\ step[Loop(step, from)] = Loop(step, from)
<1> DEFINE at == Steps(step, from)
           S == {n \in 0..Turns : at[n] \in G /\ (step[at[n]] = at[n] \/ m[at[n]] <= Turns - n)}
<1> USE DEF Shrinks
<1>1. AreSteps(at, D, step, from, Turns)
  BY StepsAre
<1> HIDE DEF at
<1>2. 0 \in S
  BY <1>1, TurnsType DEF AreSteps
<1>3. ASSUME NEW n \in 0..Turns, n < Turns, n \in S PROVE n + 1 \in S
  <2>1. n + 1 \in 0..Turns /\ n + 1 # 0 /\ (n + 1) - 1 = n
    BY <1>3, TurnsType
  <2>2. at[n + 1] = step[at[n]]
    BY <1>1, <2>1 DEF AreSteps
  <2>3. at[n] \in G /\ at[n + 1] \in G
    BY <1>3, <2>2
  <2>4. CASE step[at[n]] = at[n]
    BY <2>1, <2>2, <2>3, <2>4
  <2>5. CASE step[at[n]] # at[n]
    <3>1. m[at[n]] <= Turns - n
      BY <1>3, <2>5
    <3>2. m[at[n + 1]] < m[at[n]]
      BY <2>2, <2>3, <2>5
    <3>3. m[at[n]] \in Int /\ m[at[n + 1]] \in Int
      BY <2>3
    <3>4. m[at[n + 1]] <= Turns - (n + 1)
      BY <3>1, <3>2, <3>3, TurnsType
    <3> QED BY <2>1, <2>3, <3>4
  <2> QED BY <2>4, <2>5
<1>4. Turns \in S
  <2>1. \A n \in 0..Turns : n < Turns /\ n \in S => n + 1 \in S
    BY <1>3
  <2> HIDE DEF S
  <2>2. \A n \in 0..Turns : n \in S
    BY <1>2, <2>1, TurnsType, Induct
  <2> QED BY <2>2, TurnsType
<1>5. step[at[Turns]] = at[Turns]
  <2> SUFFICES ASSUME step[at[Turns]] # at[Turns] PROVE FALSE
    OBVIOUS
  <2>1. at[Turns] \in G /\ m[at[Turns]] <= 0 /\ step[at[Turns]] \in G
    BY <1>4, TurnsType
  <2>2. 0 <= m[step[at[Turns]]] /\ m[step[at[Turns]]] < m[at[Turns]]
    BY <2>1
  <2>3. m[at[Turns]] \in Int /\ m[step[at[Turns]]] \in Int
    BY <2>1
  <2> QED BY <2>1, <2>2, <2>3
<1> QED BY <1>4, <1>5 DEF Loop, at
-----------------------------------------------------------------------------
(***************************************************************************)
(* What the loops of the code find in a tree of this shape.                *)
(***************************************************************************)

LEMMA JoinedBound ==
  ASSUME TypeOK, JoinedInv
  PROVE  /\ Len(joined) \in Nat /\ Len(joined) <= Turns
         /\ DOMAIN joined = 1..Len(joined)
         /\ Member \subseteq Conn
<1>1. Len(joined) \in Nat /\ DOMAIN joined = 1..Len(joined) /\ joined \in [1..Len(joined) -> Conn]
  BY DEF TypeOK
<1>2. Member \subseteq Conn
  BY <1>1 DEF Member, Range
<1>3. joined \in Injection(1..Len(joined), Conn)
  BY <1>1 DEF JoinedInv, Injection, IsInjective
<1>4. Cardinality(1..Len(joined)) <= Turns
  BY <1>3, ConnAssumption, FS_Injection DEF Turns
<1>5. Cardinality(1..Len(joined)) = Len(joined)
  BY <1>1, FS_Interval
<1> QED BY <1>1, <1>2, <1>4, <1>5

LEMMA Positions ==
  ASSUME TypeOK, JoinedInv, NEW pos, NEW lo, NEW hi, SpanInv(pos, lo, hi)
  PROVE  /\ \A d \in Member : pos[d] \in 1..Len(joined) /\ joined[pos[d]] = d
         /\ \A i \in 1..Len(joined) : joined[i] \in Member /\ pos[joined[i]] = i
BY JoinedBound DEF SpanInv, Member, Range

\* Down the small side there is the first connection of the subtree.
LEMMA FirstIs ==
  ASSUME TypeOK, JoinedInv, NEW pos \in [Conn -> Int], NEW lo \in [Conn -> Int],
         NEW hi \in [Conn -> Int], Shape(pos, lo, hi), NEW x \in Member
  PROVE  /\ Descend(c_small, x) \in Member
         /\ pos[Descend(c_small, x)] = lo[x]
<1> DEFINE step == [c \in Conn |-> IF c_small[c] = Null THEN c ELSE c_small[c]]
           G == {y \in Member : lo[y] = lo[x]}
<1>1. step \in [Conn -> Conn]
  BY DEF TypeOK
<1>2. G \in SUBSET Conn /\ x \in G
  BY JoinedBound
<1>3. pos[x] <= Turns
  BY JoinedBound, Positions, TurnsType DEF Shape
<1>4. \A y \in G : step[y] \in G
  BY <1>2 DEF Shape, SmallInv
<1>5. \A y \in G : 0 <= pos[y]
  BY Positions, JoinedBound DEF Shape
<1>6. ASSUME NEW y \in G, step[y] # y PROVE pos[step[y]] < pos[y]
  <2>1. step[y] = c_small[y] /\ c_small[y] # Null /\ y \in Conn
    BY <1>2, <1>6
  <2>2. c_small[y] \in Member /\ hi[c_small[y]] = pos[y] - 1
    BY <2>1 DEF Shape, SmallInv
  <2>3. pos[c_small[y]] <= hi[c_small[y]]
    BY <2>2 DEF Shape, SpanInv
  <2>4. pos[c_small[y]] \in Int /\ pos[y] \in Int
    BY <2>1, <2>2, JoinedBound
  <2> QED BY <2>1, <2>2, <2>3, <2>4
<1> DEFINE r == Loop(step, x)
<1>7. r \in G /\ step[r] = r
  <2> HIDE DEF step, G
  <2>1. Shrinks(Conn, step, G, pos)
    BY <1>1, <1>2, <1>4, <1>5, <1>6 DEF Shrinks
  <2> QED BY <1>2, <1>3, <2>1, LoopEnds
<1>8. r = Descend(c_small, x)
  BY DEF Descend
<1> HIDE DEF r
<1>9. c_small[r] = Null
  <2>1. r \in Member /\ r \in Conn
    BY <1>2, <1>7
  <2>2. ASSUME c_small[r] # Null PROVE FALSE
    <3>1. c_small[r] = r
      BY <1>7, <2>1, <2>2
    <3>2. hi[r] = pos[r] - 1 /\ pos[r] <= hi[r]
      BY <2>1, <2>2, <3>1 DEF Shape, SmallInv, SpanInv
    <3>3. pos[r] \in Int
      BY <2>1
    <3> QED BY <3>2, <3>3
  <2> QED BY <2>2
<1> QED BY <1>7, <1>8, <1>9 DEF Shape, SmallInv

\* Down the big side there is its last connection.
LEMMA LastIs ==
  ASSUME TypeOK, JoinedInv, NEW pos \in [Conn -> Int], NEW lo \in [Conn -> Int],
         NEW hi \in [Conn -> Int], Shape(pos, lo, hi), NEW x \in Member
  PROVE  /\ Descend(c_big, x) \in Member
         /\ pos[Descend(c_big, x)] = hi[x]
         /\ c_big[Descend(c_big, x)] = Null
         /\ hi[Descend(c_big, x)] = hi[x]
<1> DEFINE step == [c \in Conn |-> IF c_big[c] = Null THEN c ELSE c_big[c]]
           G == {y \in Member : hi[y] = hi[x]}
<1>1. step \in [Conn -> Conn]
  BY DEF TypeOK
<1>2. G \in SUBSET Conn /\ x \in G
  BY JoinedBound
<1>m. PICK m \in [Conn -> Int] : \A c \in Conn : m[c] = Len(joined) - pos[c]
  <2>1. [c \in Conn |-> Len(joined) - pos[c]] \in [Conn -> Int]
    BY JoinedBound
  <2> QED BY <2>1
<1>3. m[x] <= Turns
  BY <1>m, <1>2, JoinedBound, Positions, TurnsType DEF Shape
<1>4. \A y \in G : step[y] \in G
  BY <1>2 DEF Shape, BigInv
<1>5. \A y \in G : 0 <= m[y]
  BY <1>m, <1>2, Positions, JoinedBound DEF Shape
<1>6. ASSUME NEW y \in G, step[y] # y PROVE m[step[y]] < m[y]
  <2>1. step[y] = c_big[y] /\ c_big[y] # Null /\ y \in Conn
    BY <1>2, <1>6
  <2>2. c_big[y] \in Member /\ lo[c_big[y]] = pos[y] + 1
    BY <2>1 DEF Shape, BigInv
  <2>3. lo[c_big[y]] <= pos[c_big[y]] /\ c_big[y] \in Conn
    BY <2>2, JoinedBound DEF Shape, SpanInv
  <2>4. pos[c_big[y]] \in Int /\ pos[y] \in Int /\ Len(joined) \in Nat
    BY <2>1, <2>3, JoinedBound
  <2> QED BY <1>m, <2>1, <2>2, <2>3, <2>4
<1> DEFINE r == Loop(step, x)
<1>7. r \in G /\ step[r] = r
  <2> HIDE DEF step, G
  <2>1. Shrinks(Conn, step, G, m)
    BY <1>1, <1>2, <1>4, <1>5, <1>6 DEF Shrinks
  <2> QED BY <1>2, <1>3, <2>1, LoopEnds
<1>8. r = Descend(c_big, x)
  BY DEF Descend
<1> HIDE DEF r
<1>9. c_big[r] = Null
  <2>1. r \in Member /\ r \in Conn
    BY <1>2, <1>7
  <2>2. ASSUME c_big[r] # Null PROVE FALSE
    <3>1. c_big[r] = r
      BY <1>7, <2>1, <2>2
    <3>2. lo[r] = pos[r] + 1 /\ lo[r] <= pos[r]
      BY <2>1, <2>2, <3>1 DEF Shape, BigInv, SpanInv
    <3>3. pos[r] \in Int
      BY <2>1
    <3> QED BY <3>2, <3>3
  <2> QED BY <2>2
<1> QED BY <1>7, <1>8, <1>9 DEF Shape, BigInv

\* Up the small parents and to the big one: the one behind the subtree.
LEMMA AscendIs ==
  ASSUME TypeOK, JoinedInv, NEW pos \in [Conn -> Int], NEW lo \in [Conn -> Int],
         NEW hi \in [Conn -> Int], Shape(pos, lo, hi), NEW x \in Member
  PROVE  IF hi[x] = Len(joined) THEN Ascend(x) = Null
         ELSE Ascend(x) \in Member /\ pos[Ascend(x)] = hi[x] + 1
<1> DEFINE step == [c \in Conn |-> IF p_big[c] # Null \/ p_small[c] = Null
                                   THEN c ELSE p_small[c]]
           G == {y \in Member : hi[y] = hi[x]}
<1>1. step \in [Conn -> Conn]
  BY DEF TypeOK
<1>2. G \in SUBSET Conn /\ x \in G
  BY JoinedBound
<1>3. pos[x] <= Turns
  BY JoinedBound, Positions, TurnsType DEF Shape
<1>4. ASSUME NEW y \in G, step[y] # y
      PROVE  step[y] \in Member /\ c_big[step[y]] = y /\ y # Null /\ hi[step[y]] = hi[y]
             /\ lo[y] = pos[step[y]] + 1
  <2>1. step[y] = p_small[y] /\ p_small[y] # Null /\ y \in Conn /\ y # Null
    BY <1>2, <1>4, NullAssumption
  <2>2. p_small[y] \in Member /\ c_big[p_small[y]] = y
    BY <2>1 DEF Shape, ParentInv
  <2>3. hi[c_big[p_small[y]]] = hi[p_small[y]] /\ lo[c_big[p_small[y]]] = pos[p_small[y]] + 1
    BY <2>1, <2>2 DEF Shape, BigInv
  <2> QED BY <2>1, <2>2, <2>3
<1>5. \A y \in G : step[y] \in G
  BY <1>4
<1>6. \A y \in G : 0 <= pos[y]
  BY Positions, JoinedBound DEF Shape
<1>7. ASSUME NEW y \in G, step[y] # y PROVE pos[step[y]] < pos[y]
  <2>1. lo[y] = pos[step[y]] + 1 /\ lo[y] <= pos[y] /\ step[y] \in Conn /\ y \in Conn
    BY <1>2, <1>4, <1>5, <1>7 DEF Shape, SpanInv
  <2>2. pos[step[y]] \in Int /\ pos[y] \in Int
    BY <2>1
  <2> QED BY <2>1, <2>2
<1> DEFINE r == Loop(step, x)
<1>8. r \in G /\ step[r] = r
  <2> HIDE DEF step, G
  <2>1. Shrinks(Conn, step, G, pos)
    BY <1>1, <1>2, <1>5, <1>6, <1>7 DEF Shrinks
  <2> QED BY <1>2, <1>3, <2>1, LoopEnds
<1>9. Ascend(x) = p_big[r]
  BY DEF Ascend
<1> HIDE DEF r
<1>10. r \in Member /\ r \in Conn /\ hi[r] = hi[x]
  BY <1>2, <1>8
<1>11. CASE p_big[r] # Null
  <2>1. p_big[r] \in Member /\ c_small[p_big[r]] = r /\ r # Null
    BY <1>10, <1>11, NullAssumption DEF Shape, ParentInv
  <2>2. hi[r] = pos[p_big[r]] - 1
    BY <2>1 DEF Shape, SmallInv
  <2>3. pos[p_big[r]] \in 1..Len(joined)
    BY <2>1, Positions DEF Shape
  <2> QED BY <2>1, <2>2, <2>3, <1>9, <1>10, JoinedBound
<1>12. CASE p_big[r] = Null
  <2>1. p_small[r] = Null
    <3> SUFFICES ASSUME p_small[r] # Null PROVE FALSE
      OBVIOUS
    <3>1. p_small[r] = r
      BY <1>8, <1>10, <1>12
    <3>2. c_big[r] = r
      BY <1>10, <3>1 DEF Shape, ParentInv
    <3>3. lo[r] = pos[r] + 1 /\ lo[r] <= pos[r] /\ pos[r] \in Int
      BY <1>10, <3>2, NullAssumption DEF Shape, BigInv, SpanInv
    <3> QED BY <3>3
  <2>2. hi[r] = Len(joined)
    BY <1>10, <1>12, <2>1 DEF Shape, ParentInv
  <2> QED BY <1>9, <1>10, <1>12, <2>2
<1> QED BY <1>11, <1>12

\* spider_tree_next gives the next connection of joined.
LEMMA NextIs ==
  ASSUME TypeOK, JoinedInv, NEW pos \in [Conn -> Int], NEW lo \in [Conn -> Int],
         NEW hi \in [Conn -> Int], Shape(pos, lo, hi), NEW x \in Member
  PROVE  IF pos[x] = Len(joined) THEN tree_next(x) = Null
         ELSE tree_next(x) \in Member /\ pos[tree_next(x)] = pos[x] + 1
<1>0. x \in Conn /\ x # Null
  BY JoinedBound, NullAssumption
<1>1. CASE c_big[x] # Null
  <2>1. c_big[x] \in Member /\ lo[c_big[x]] = pos[x] + 1 /\ hi[c_big[x]] = hi[x]
    BY <1>1 DEF Shape, BigInv
  <2>2. tree_next(x) = Descend(c_small, c_big[x])
    BY <1>1 DEF tree_next, tree_first
  <2>3. tree_next(x) \in Member /\ pos[tree_next(x)] = pos[x] + 1
    BY <2>1, <2>2, FirstIs
  <2>4. pos[x] # Len(joined)
    <3>1. pos[tree_next(x)] \in 1..Len(joined)
      BY <2>3, Positions DEF Shape
    <3> QED BY <1>0, <2>3, <3>1, JoinedBound
  <2> QED BY <2>3, <2>4
<1>2. CASE c_big[x] = Null
  <2>1. hi[x] = pos[x]
    BY <1>2 DEF Shape, BigInv
  <2>2. tree_next(x) = Ascend(x)
    BY <1>2 DEF tree_next
  <2>3. IF hi[x] = Len(joined) THEN Ascend(x) = Null
        ELSE Ascend(x) \in Member /\ pos[Ascend(x)] = hi[x] + 1
    BY AscendIs
  <2> QED BY <2>1, <2>2, <2>3
<1> QED BY <1>1, <1>2

LEMMA LoopType ==
  ASSUME NEW step \in [Conn -> Conn], NEW from \in Conn
  PROVE  Loop(step, from) \in Conn
<1>1. AreSteps(Steps(step, from), Conn, step, from, Turns)
  BY StepsAre
<1> QED BY <1>1, TurnsType DEF AreSteps, Loop

\* The walks have a value for connections outside of the tree, too.
LEMMA NextType ==
  ASSUME TypeOK, NEW c \in Conn
  PROVE  tree_next(c) \in Conn \cup {Null}
<1>1. CASE c_big[c] # Null
  <2>1. c_big[c] \in Conn
    BY <1>1 DEF TypeOK
  <2> DEFINE step == [d \in Conn |-> IF c_small[d] = Null THEN d ELSE c_small[d]]
  <2>2. step \in [Conn -> Conn]
    BY DEF TypeOK
  <2>3. Loop(step, c_big[c]) \in Conn
    <3> HIDE DEF step
    <3> QED BY <2>1, <2>2, LoopType
  <2>4. tree_next(c) = Loop(step, c_big[c])
    BY <1>1 DEF tree_next, tree_first, Descend
  <2> QED BY <2>3, <2>4
<1>2. CASE c_big[c] = Null
  <2> DEFINE step == [d \in Conn |-> IF p_big[d] # Null \/ p_small[d] = Null
                                     THEN d ELSE p_small[d]]
  <2>1. step \in [Conn -> Conn]
    BY DEF TypeOK
  <2>2. Loop(step, c) \in Conn
    <3> HIDE DEF step
    <3> QED BY <2>1, LoopType
  <2>3. tree_next(c) = p_big[Loop(step, c)]
    BY <1>2 DEF tree_next, Ascend
  <2> HIDE DEF step
  <2> QED BY <2>2, <2>3 DEF TypeOK
<1> QED BY <1>1, <1>2

LEMMA NextOrNullIs ==
  ASSUME TypeOK, JoinedInv, NEW pos \in [Conn -> Int], NEW lo \in [Conn -> Int],
         NEW hi \in [Conn -> Int], Shape(pos, lo, hi)
  PROVE  /\ NextOrNull \in [Conn \cup {Null} -> Conn \cup {Null}]
         /\ NextOrNull[Null] = Null
         /\ \A i \in 1..Len(joined) :
              NextOrNull[joined[i]] = IF i = Len(joined) THEN Null ELSE joined[i + 1]
<1>1. \A c \in Conn \cup {Null} : (IF c = Null THEN Null ELSE tree_next(c)) \in Conn \cup {Null}
  BY NextType
<1>2. NextOrNull \in [Conn \cup {Null} -> Conn \cup {Null}]
  BY <1>1 DEF NextOrNull
<1>3. NextOrNull[Null] = Null
  BY DEF NextOrNull
<1>4. ASSUME NEW i \in 1..Len(joined)
      PROVE  NextOrNull[joined[i]] = IF i = Len(joined) THEN Null ELSE joined[i + 1]
  <2>1. joined[i] \in Member /\ pos[joined[i]] = i /\ joined[i] \in Conn /\ joined[i] # Null
    BY Positions, JoinedBound, NullAssumption DEF Shape
  <2>2. NextOrNull[joined[i]] = tree_next(joined[i])
    BY <2>1 DEF NextOrNull
  <2> DEFINE e == tree_next(joined[i])
  <2>3. IF i = Len(joined) THEN e = Null ELSE e \in Member /\ pos[e] = i + 1
    BY <2>1, NextIs
  <2> HIDE DEF e
  <2>4. CASE i # Len(joined)
    <3>1. joined[pos[e]] = e
      BY <2>3, <2>4, Positions DEF Shape
    <3> QED BY <2>2, <2>3, <2>4, <3>1 DEF e
  <2> QED BY <2>2, <2>3, <2>4 DEF e
<1> QED BY <1>2, <1>3, <1>4

\* A walk from the first connection is joined.
LEMMA WalkIs ==
  ASSUME TypeOK, JoinedInv, TreeInv, NEW from \in Conn \cup {Null},
         IF joined = <<>> THEN from = Null ELSE from = joined[1]
  PROVE  Walk(from) = joined
<1>1. PICK pos \in [Conn -> Int], lo \in [Conn -> Int], hi \in [Conn -> Int] : Shape(pos, lo, hi)
  BY DEF TreeInv
<1>2. Len(joined) \in Nat /\ Len(joined) <= Turns /\ Turns \in Nat
  BY JoinedBound, TurnsType
<1>3. \A i \in 1..Len(joined) : joined[i] \in Conn /\ joined[i] # Null
  BY <1>1, Positions, JoinedBound, NullAssumption DEF Shape
<1> DEFINE at == Steps(NextOrNull, from)
           S == {n \in 0..Turns : at[n] = IF n < Len(joined) THEN joined[n + 1] ELSE Null}
<1>4. AreSteps(at, Conn \cup {Null}, NextOrNull, from, Turns)
  BY <1>1, NextOrNullIs, StepsAre
<1>5. at[0] = from /\ \A n \in 0..Turns : n # 0 => at[n] = NextOrNull[at[n - 1]]
  BY <1>4 DEF AreSteps
<1>6. Walk(from) = [n \in 1..Cardinality({i \in 0..Turns : at[i] # Null}) |-> at[n - 1]]
  BY DEF Walk
<1> HIDE DEF at
<1>7. 0 \in S
  <2>1. CASE joined = <<>>
    BY <1>2, <1>5, <2>1
  <2>2. CASE joined # <<>>
    <3>1. 0 < Len(joined)
      BY <1>2, <2>2 DEF TypeOK
    <3> QED BY <1>2, <1>5, <2>2, <3>1
  <2> QED BY <2>1, <2>2
<1>8. ASSUME NEW n \in 0..Turns, n < Turns, n \in S PROVE n + 1 \in S
  <2>1. n + 1 \in 0..Turns /\ n + 1 # 0 /\ (n + 1) - 1 = n
    BY <1>8, <1>2
  <2>2. at[n + 1] = NextOrNull[at[n]]
    BY <2>1, <1>5
  <2>3. CASE n < Len(joined)
    <3>1. at[n] = joined[n + 1] /\ n + 1 \in 1..Len(joined)
      BY <1>2, <1>8, <2>3
    <3>2. at[n + 1] = IF n + 1 = Len(joined) THEN Null ELSE joined[(n + 1) + 1]
      BY <1>1, <2>2, <3>1, NextOrNullIs
    <3> QED BY <1>2, <2>1, <3>1, <3>2
  <2>4. CASE ~(n < Len(joined))
    <3>1. at[n + 1] = Null
      BY <1>1, <1>8, <2>2, <2>4, NextOrNullIs
    <3> QED BY <1>2, <2>1, <2>4, <3>1
  <2> QED BY <2>3, <2>4
<1>9. \A n \in 0..Turns : at[n] = IF n < Len(joined) THEN joined[n + 1] ELSE Null
  <2>1. \A n \in 0..Turns : n < Turns /\ n \in S => n + 1 \in S
    BY <1>8
  <2>2. \A n \in 0..Turns : n \in S
    <3> HIDE DEF S
    <3> QED BY <1>2, <1>7, <2>1, Induct
  <2> QED BY <2>2
<1>10. {i \in 0..Turns : at[i] # Null} = 0..(Len(joined) - 1)
  <2>1. ASSUME NEW i \in 0..Turns PROVE at[i] # Null <=> i < Len(joined)
    BY <1>2, <1>3, <1>9
  <2> QED BY <1>2, <2>1
<1>11. Cardinality(0..(Len(joined) - 1)) = Len(joined)
  <2>1. Len(joined) - 1 \in Int /\ 0 \in Int
    BY <1>2
  <2> DEFINE b == Len(joined) - 1
  <2>2. Cardinality(0..b) = IF 0 > b THEN 0 ELSE b - 0 + 1
    <3> HIDE DEF b
    <3>1. b \in Int
      BY <2>1 DEF b
    <3> QED BY <3>1, FS_Interval
  <2> QED BY <1>2, <2>2
<1>12. Walk(from) = [n \in 1..Len(joined) |-> at[n - 1]]
  BY <1>6, <1>10, <1>11
<1>13. \A n \in 1..Len(joined) : at[n - 1] = joined[n]
  BY <1>2, <1>9
<1>14. joined = [n \in 1..Len(joined) |-> joined[n]]
  BY <1>2 DEF TypeOK
<1> QED BY <1>12, <1>13, <1>14

\* spider_tree_first of the top is the first connection of joined.
LEMMA FirstOfTop ==
  ASSUME TypeOK, JoinedInv, TopInv, TreeInv, cur = Null
  PROVE  /\ tree_first(top) \in Conn \cup {Null}
         /\ IF joined = <<>> THEN tree_first(top) = Null ELSE tree_first(top) = joined[1]
<1>1. PICK pos \in [Conn -> Int], lo \in [Conn -> Int], hi \in [Conn -> Int] : Shape(pos, lo, hi)
  BY DEF TreeInv
<1>2. CASE top = Null
  BY <1>2 DEF tree_first, TopInv
<1>3. CASE top # Null
  <2>1. top \in Member /\ lo[top] = 1
    BY <1>1, <1>3 DEF TopInv, Shape, ParentInv
  <2>2. tree_first(top) = Descend(c_small, top)
    BY <1>3 DEF tree_first
  <2>3. tree_first(top) \in Member /\ pos[tree_first(top)] = 1
    BY <1>1, <2>1, <2>2, FirstIs
  <2>4. tree_first(top) = joined[1] /\ 1 \in 1..Len(joined)
    BY <1>1, <2>3, Positions DEF Shape
  <2>5. joined # <<>>
    BY <2>4
  <2> QED BY <2>3, <2>4, <2>5, JoinedBound
<1> QED BY <1>2, <1>3

LEMMA WalkComplete ==
  ASSUME JoinInv
  PROVE  WalkVisitsAll
<1> DEFINE from == IF cur = Null THEN tree_first(top) ELSE cur
<1>1. from \in Conn \cup {Null} /\ IF joined = <<>> THEN from = Null ELSE from = joined[1]
  BY FirstOfTop DEF JoinInv, TopInv, TypeOK
<1>2. Walk(from) = joined
  <2> HIDE DEF from
  <2> QED BY <1>1, WalkIs DEF JoinInv
<1> QED BY <1>2 DEF WalkVisitsAll

LEMMA LastIsDecider ==
  ASSUME JoinInv
  PROVE  LastDecides
<1> SUFFICES ASSUME cur = Null, tree_num > 1
             PROVE  Decider(tree_first(top)) = Last(joined)
  BY DEF LastDecides
<1>0. TypeOK /\ JoinedInv /\ TopInv /\ TreeInv
  BY DEF JoinInv
<1>1. PICK pos \in [Conn -> Int], lo \in [Conn -> Int], hi \in [Conn -> Int] : Shape(pos, lo, hi)
  BY <1>0 DEF TreeInv
<1>2. tree_first(top) \in Conn \cup {Null}
      /\ IF joined = <<>> THEN tree_first(top) = Null ELSE tree_first(top) = joined[1]
  BY <1>0, FirstOfTop
<1>3. Len(joined) > 1 /\ Len(joined) \in Nat /\ Len(joined) <= Turns /\ Turns \in Nat
  BY <1>0, <1>2, WalkIs, JoinedBound, TurnsType DEF tree_num
<1>4. /\ tree_first(top) = joined[1] /\ tree_first(top) # Null
      /\ 1 \in 1..Len(joined) /\ 2 \in 1..Len(joined)
  <2>1. joined # <<>> /\ 1 \in 1..Len(joined) /\ 2 \in 1..Len(joined)
    BY <1>3
  <2>2. joined[1] \in Conn
    BY <1>0, <2>1 DEF TypeOK
  <2> QED BY <1>2, <2>1, <2>2, NullAssumption
<1> DEFINE D == Conn \cup {Null}
           step == [c \in D |-> IF NextOrNull[c] = Null THEN c ELSE NextOrNull[c]]
<1>5. NextOrNull \in [D -> D]
  BY <1>0, <1>1, NextOrNullIs
<1>6. \A i \in 1..Len(joined) :
        NextOrNull[joined[i]] = IF i = Len(joined) THEN Null ELSE joined[i + 1]
  BY <1>0, <1>1, NextOrNullIs
<1>7. \A i \in 1..Len(joined) : joined[i] \in Conn /\ joined[i] # Null
  <2>1. joined \in Seq(Conn)
    BY <1>0 DEF TypeOK
  <2>2. \A i \in 1..Len(joined) : joined[i] \in Conn
    BY <2>1
  <2> QED BY <2>2, NullAssumption
<1>8. \A i \in 1..Len(joined) :
        step[joined[i]] = IF i = Len(joined) THEN joined[i] ELSE joined[i + 1]
  <2> TAKE i \in 1..Len(joined)
  <2>1. CASE i = Len(joined)
    BY <1>6, <1>7, <2>1
  <2>2. CASE i # Len(joined)
    <3>1. i + 1 \in 1..Len(joined)
      BY <1>3, <2>2
    <3>2. NextOrNull[joined[i]] = joined[i + 1] /\ joined[i + 1] # Null
      BY <1>6, <1>7, <2>2, <3>1
    <3> QED BY <1>7, <2>2, <3>2
  <2> QED BY <2>1, <2>2
<1>9. step \in [D -> D]
  BY <1>5
<1>10. Member \in SUBSET D /\ joined[2] \in Member
  BY <1>0, <1>1, <1>4, JoinedBound, Positions DEF Shape
<1>11. \A y \in Member : pos[y] \in 1..Len(joined) /\ joined[pos[y]] = y
  BY <1>0, <1>1, Positions DEF Shape
<1>12. PICK m \in [D -> Int] : \A c \in Conn : m[c] = Len(joined) - pos[c]
  <2> DEFINE f == [c \in D |-> IF c = Null THEN 0 ELSE Len(joined) - pos[c]]
  <2>1. f \in [D -> Int]
    BY <1>3
  <2>2. \A c \in Conn : f[c] = Len(joined) - pos[c]
    BY NullAssumption
  <2> QED BY <2>1, <2>2
<1>13. \A y \in Member : m[y] = Len(joined) - pos[y]
  BY <1>0, <1>12, JoinedBound
<1>14. \A y \in Member : 0 <= m[y] /\ m[y] <= Turns
  BY <1>3, <1>11, <1>13
<1>15. ASSUME NEW y \in Member
       PROVE  step[y] \in Member /\ (step[y] # y => m[step[y]] < m[y])
  <2> DEFINE i == pos[y]
  <2>1. i \in 1..Len(joined) /\ joined[i] = y
    BY <1>11
  <2> HIDE DEF i
  <2>2. CASE i = Len(joined)
    BY <1>8, <2>1, <2>2
  <2>3. CASE i # Len(joined)
    <3> HIDE DEF step
    <3>1. i + 1 \in 1..Len(joined) /\ step[y] = joined[i + 1]
      BY <1>3, <1>8, <2>1, <2>3
    <3>2. joined[i + 1] \in Member /\ pos[joined[i + 1]] = i + 1
      BY <1>0, <1>1, <3>1, Positions DEF Shape
    <3>3. m[step[y]] = Len(joined) - (i + 1) /\ m[y] = Len(joined) - i
      BY <1>13, <3>1, <3>2 DEF i
    <3>4. m[step[y]] < m[y]
      BY <1>3, <2>1, <3>3
    <3> QED BY <3>1, <3>2, <3>4
  <2> QED BY <2>2, <2>3
<1> DEFINE r == Loop(step, joined[2])
<1>16. r \in Member /\ step[r] = r
  <2> HIDE DEF step, D
  <2>1. Shrinks(D, step, Member, m)
    BY <1>9, <1>10, <1>14, <1>15 DEF Shrinks
  <2> QED BY <1>10, <1>14, <2>1, LoopEnds
<1>17. Decider(tree_first(top)) = r
  <2>1. tree_next(tree_first(top)) = NextOrNull[joined[1]]
    BY <1>2, <1>4 DEF NextOrNull
  <2>2. tree_next(tree_first(top)) = joined[2]
    BY <1>3, <1>4, <1>6, <2>1
  <2> QED BY <2>2 DEF Decider
<1> HIDE DEF r, step
<1>18. pos[r] = Len(joined)
  <2> DEFINE i == pos[r]
  <2>1. i \in 1..Len(joined) /\ joined[i] = r
    BY <1>11, <1>16
  <2> HIDE DEF i
  <2> SUFFICES ASSUME i # Len(joined) PROVE FALSE
    BY DEF i
  <2>2. i + 1 \in 1..Len(joined) /\ joined[i + 1] = joined[i]
    BY <1>3, <1>8, <1>16, <2>1
  <2> QED BY <1>0, <2>1, <2>2, JoinedBound DEF JoinedInv
<1> QED BY <1>11, <1>16, <1>17, <1>18 DEF Last
-----------------------------------------------------------------------------
(***************************************************************************)
(* A connection joins.                                                     *)
(***************************************************************************)

LEMMA PlaceIs ==
  ASSUME TypeOK, JoinedInv, NEW pr \in Nat
  PROVE  /\ Place(pr) \in 1..Len(joined) + 1
         /\ \A i \in 1..Len(joined) : priority[joined[i]] <= pr <=> i < Place(pr)
<1> DEFINE n == Len(joined)
           Fits(k) == \A i \in DOMAIN joined : priority[joined[i]] <= pr <=> i < k
           S == {k \in 1..n + 1 : k = n + 1 \/ ~(priority[joined[k]] <= pr)}
<1>1. n \in Nat /\ DOMAIN joined = 1..n
  BY JoinedBound
<1>2. \A i \in 1..n : joined[i] \in Conn /\ priority[joined[i]] \in Nat
  BY <1>1 DEF TypeOK
<1> HIDE DEF n
<1>3. PICK k \in S : \A j \in S : k <= j
  <2>1. S \in SUBSET Nat /\ n + 1 \in S
    BY <1>1
  <2> HIDE DEF S
  <2> QED BY <2>1, Least
<1>4. ASSUME NEW i \in 1..n PROVE priority[joined[i]] <= pr <=> i < k
  <2>1. CASE i < k
    <3>1. i \notin S /\ i \in 1..n + 1 /\ i # n + 1
      BY <1>1, <1>3, <2>1
    <3> QED BY <2>1, <3>1
  <2>2. CASE ~(i < k)
    <3>1. k \in 1..n /\ k <= i /\ ~(priority[joined[k]] <= pr)
      BY <1>1, <1>3, <2>2
    <3>2. priority[joined[k]] <= priority[joined[i]]
      BY <1>1, <3>1 DEF JoinedInv
    <3>3. priority[joined[k]] \in Nat /\ priority[joined[i]] \in Nat
      BY <1>2, <3>1
    <3> QED BY <2>2, <3>1, <3>2, <3>3
  <2> QED BY <2>1, <2>2
<1>5. k \in 1..n + 1 /\ Fits(k)
  BY <1>1, <1>3, <1>4
<1>6. Place(pr) = CHOOSE j \in 1..n + 1 : Fits(j)
  BY DEF Place, n
<1>7. Place(pr) \in 1..n + 1 /\ Fits(Place(pr))
  <2> HIDE DEF Fits
  <2> QED BY <1>5, <1>6
<1> QED BY <1>1, <1>7 DEF n

\* spider_tree_insert goes down to the connection that has room at this place.
LEMMA ParentIs ==
  ASSUME TypeOK, JoinedInv, NEW pos \in [Conn -> Int], NEW lo \in [Conn -> Int],
         NEW hi \in [Conn -> Int], Shape(pos, lo, hi), NEW pr \in Nat,
         top \in Member, p_small[top] = Null, p_big[top] = Null
  PROVE  /\ Parent(pr) \in Member
         /\ IF pr < priority[Parent(pr)]
            THEN c_small[Parent(pr)] = Null /\ pos[Parent(pr)] = Place(pr)
            ELSE c_big[Parent(pr)] = Null /\ pos[Parent(pr)] = Place(pr) - 1
<1> DEFINE Side(d) == IF pr < priority[d] THEN c_small[d] ELSE c_big[d]
           step == [d \in Conn |-> IF Side(d) = Null THEN d ELSE Side(d)]
           k == Place(pr)
           G == {y \in Member : lo[y] <= k /\ k <= hi[y] + 1}
<1>0. Parent(pr) = Loop(step, top)
  BY DEF Parent
<1>1. k \in 1..Len(joined) + 1 /\ \A i \in 1..Len(joined) : priority[joined[i]] <= pr <=> i < k
  BY PlaceIs
<1>2. Len(joined) \in Nat /\ Len(joined) <= Turns /\ Turns \in Nat /\ Member \subseteq Conn
  BY JoinedBound, TurnsType
<1> HIDE DEF k
<1>3. ASSUME NEW y \in Member
      PROVE  /\ y \in Conn /\ y # Null /\ pos[y] \in Int /\ lo[y] \in Int /\ hi[y] \in Int
             /\ priority[y] \in Nat
             /\ pr < priority[y] <=> k <= pos[y]
             /\ 1 <= lo[y] /\ lo[y] <= pos[y] /\ pos[y] <= hi[y] /\ hi[y] <= Len(joined)
  <2>1. y \in Conn /\ y # Null
    BY <1>2, NullAssumption
  <2>2. pos[y] \in 1..Len(joined) /\ joined[pos[y]] = y
    BY Positions DEF Shape
  <2>3. priority[y] <= pr <=> pos[y] < k
    BY <1>1, <2>2
  <2>4. priority[y] \in Nat
    BY <2>1 DEF TypeOK
  <2>5. pr < priority[y] <=> k <= pos[y]
    BY <1>1, <2>2, <2>3, <2>4
  <2> QED BY <2>1, <2>4, <2>5 DEF Shape, SpanInv
<1>4. step \in [Conn -> Conn]
  BY DEF TypeOK
<1>5. G \in SUBSET Conn /\ top \in G
  <2>1. lo[top] = 1 /\ hi[top] = Len(joined)
    BY DEF Shape, ParentInv
  <2> QED BY <1>1, <1>2, <2>1
<1>6. ASSUME NEW y \in G, step[y] # y
      PROVE  step[y] \in G /\ hi[step[y]] - lo[step[y]] < hi[y] - lo[y]
  <2>1. y \in Member /\ step[y] = Side(y) /\ Side(y) # Null
    BY <1>3, <1>6
  <2>2. CASE pr < priority[y]
    <3>1. step[y] = c_small[y] /\ c_small[y] # Null
      BY <2>1, <2>2
    <3>2. c_small[y] \in Member /\ lo[c_small[y]] = lo[y] /\ hi[c_small[y]] = pos[y] - 1
      BY <2>1, <3>1 DEF Shape, SmallInv
    <3>3. k <= pos[y]
      BY <1>3, <2>1, <2>2
    <3> HIDE DEF step
    <3> QED BY <1>1, <1>3, <2>1, <3>1, <3>2, <3>3
  <2>3. CASE ~(pr < priority[y])
    <3>1. step[y] = c_big[y] /\ c_big[y] # Null
      BY <2>1, <2>3
    <3>2. c_big[y] \in Member /\ lo[c_big[y]] = pos[y] + 1 /\ hi[c_big[y]] = hi[y]
      BY <2>1, <3>1 DEF Shape, BigInv
    <3>3. ~(k <= pos[y])
      BY <1>3, <2>1, <2>3
    <3> HIDE DEF step
    <3> QED BY <1>1, <1>3, <2>1, <3>1, <3>2, <3>3
  <2> QED BY <2>2, <2>3
<1>7. PICK m \in [Conn -> Int] : \A c \in Conn : m[c] = hi[c] - lo[c]
  <2>1. [c \in Conn |-> hi[c] - lo[c]] \in [Conn -> Int]
    OBVIOUS
  <2> QED BY <2>1
<1>8. \A y \in G : 0 <= m[y] /\ m[y] <= Turns
  BY <1>2, <1>3, <1>7
<1>9. \A y \in G : step[y] \in G
  BY <1>6
<1>10. ASSUME NEW y \in G, step[y] # y PROVE m[step[y]] < m[y]
  <2>1. step[y] \in Conn /\ y \in Conn
    BY <1>5, <1>9
  <2> QED BY <1>6, <1>7, <1>10, <2>1
<1> DEFINE r == Loop(step, top)
<1>11. r \in G /\ step[r] = r
  <2> HIDE DEF step, G
  <2>1. Shrinks(Conn, step, G, m)
    BY <1>4, <1>5, <1>8, <1>9, <1>10 DEF Shrinks
  <2> QED BY <1>5, <1>8, <2>1, LoopEnds
<1> HIDE DEF r
<1>12. r \in Member /\ r \in Conn
  BY <1>3, <1>11
<1>13. Side(r) = Null
  <2> SUFFICES ASSUME Side(r) # Null PROVE FALSE
    OBVIOUS
  <2>1. Side(r) = r
    BY <1>11, <1>12
  <2>2. CASE pr < priority[r]
    <3>1. c_small[r] = r /\ r # Null
      BY <1>3, <1>12, <2>1, <2>2
    <3>2. hi[r] = pos[r] - 1
      BY <1>12, <3>1 DEF Shape, SmallInv
    <3> QED BY <1>3, <1>12, <3>2
  <2>3. CASE ~(pr < priority[r])
    <3>1. c_big[r] = r /\ r # Null
      BY <1>3, <1>12, <2>1, <2>3
    <3>2. lo[r] = pos[r] + 1
      BY <1>12, <3>1 DEF Shape, BigInv
    <3> QED BY <1>3, <1>12, <3>2
  <2> QED BY <2>2, <2>3
<1>14. lo[r] <= k /\ k <= hi[r] + 1
  BY <1>11
<1>15. CASE pr < priority[r]
  <2>1. c_small[r] = Null /\ lo[r] = pos[r]
    BY <1>12, <1>13, <1>15 DEF Shape, SmallInv
  <2>2. pos[r] = k
    BY <1>1, <1>3, <1>12, <1>14, <1>15, <2>1
  <2> QED BY <1>0, <1>12, <1>15, <2>1, <2>2 DEF r, k
<1>16. CASE ~(pr < priority[r])
  <2>1. c_big[r] = Null /\ hi[r] = pos[r]
    BY <1>12, <1>13, <1>16 DEF Shape, BigInv
  <2>2. pos[r] = k - 1
    BY <1>1, <1>3, <1>12, <1>14, <1>16, <2>1
  <2> QED BY <1>0, <1>12, <1>16, <2>1, <2>2 DEF r, k
<1> QED BY <1>15, <1>16

\* What InsertAt and RemoveAt do with a sequence.
IsInserted(t, s, k, c) ==
  /\ t \in Seq(Conn) /\ Len(t) = Len(s) + 1
  /\ \A i \in 1..Len(s) + 1 :
       t[i] = IF i < k THEN s[i] ELSE IF i = k THEN c ELSE s[i - 1]

LEMMA Inserted ==
  ASSUME NEW s \in Seq(Conn), NEW c \in Conn, NEW k \in 1..Len(s) + 1
  PROVE  IsInserted(InsertAt(s, k, c), s, k, c)
<1> DEFINE a == SubSeq(s, 1, k - 1)
           b == SubSeq(s, k, Len(s))
<1>1. a \in Seq(Conn) /\ Len(a) = k - 1 /\ \A i \in 1..k - 1 : a[i] = s[i]
  OBVIOUS
<1>2. b \in Seq(Conn) /\ Len(b) = Len(s) - k + 1 /\ \A i \in 1..Len(s) - k + 1 : b[i] = s[k + i - 1]
  OBVIOUS
<1> DEFINE ac == a \o <<c>>
<1>3. InsertAt(s, k, c) = ac \o b
  BY DEF InsertAt
<1> HIDE DEF a, b
<1>4. ac \in Seq(Conn) /\ Len(ac) = k /\ \A i \in 1..k : ac[i] = IF i < k THEN s[i] ELSE c
  BY <1>1
<1> HIDE DEF ac
<1>5. ac \o b \in Seq(Conn) /\ Len(ac \o b) = Len(s) + 1
  <2>0. ac \in Seq(Conn) /\ b \in Seq(Conn)
    BY <1>2, <1>4
  <2>1. ac \o b \in Seq(Conn) /\ Len(ac \o b) = Len(ac) + Len(b)
    BY <2>0
  <2>2. Len(ac) + Len(b) = Len(s) + 1
    BY <1>2, <1>4
  <2> QED BY <2>1, <2>2
<1>6. ASSUME NEW i \in 1..Len(s) + 1
      PROVE  (ac \o b)[i] = IF i < k THEN s[i] ELSE IF i = k THEN c ELSE s[i - 1]
  <2>1. CASE i <= k
    BY <1>2, <1>4, <2>1
  <2>2. CASE i > k
    <3>1. i - k \in 1..Len(s) - k + 1 /\ k + (i - k) - 1 = i - 1
      BY <2>2
    <3>2. (ac \o b)[i] = b[i - k]
      BY <1>2, <1>4, <2>2
    <3>3. b[i - k] = s[i - 1]
      BY <1>2, <3>1
    <3>4. ~(i < k) /\ i # k
      BY <2>2
    <3> QED BY <3>2, <3>3, <3>4
  <2>3. i <= k \/ i > k
    OBVIOUS
  <2> QED BY <2>1, <2>2, <2>3, Zenon
<1> QED BY <1>3, <1>5, <1>6 DEF IsInserted

\* The connection c is put into joined, at the position k.
PutIn(c, k) ==
  /\ k \in 1..Len(joined) + 1
  /\ joined' \in Seq(Conn) /\ Len(joined') = Len(joined) + 1
  /\ \A i \in 1..Len(joined) + 1 :
       joined'[i] = IF i < k THEN joined[i] ELSE IF i = k THEN c ELSE joined[i - 1]
  /\ Member' = Member \cup {c}

\* The pointers when c is put on the small or on the big side of d.
LinkedSmall(c, d) ==
  /\ p_small'[c] = Null /\ p_big'[c] = d /\ c_small'[c] = Null /\ c_big'[c] = Null
  /\ c_small'[d] = c /\ c_big'[d] = c_big[d]
  /\ \A x \in Member : p_small'[x] = p_small[x] /\ p_big'[x] = p_big[x]
  /\ \A x \in Member : x # d => c_small'[x] = c_small[x] /\ c_big'[x] = c_big[x]

LinkedBig(c, d) ==
  /\ p_small'[c] = d /\ p_big'[c] = Null /\ c_small'[c] = Null /\ c_big'[c] = Null
  /\ c_small'[d] = c_small[d] /\ c_big'[d] = c
  /\ \A x \in Member : p_small'[x] = p_small[x] /\ p_big'[x] = p_big[x]
  /\ \A x \in Member : x # d => c_small'[x] = c_small[x] /\ c_big'[x] = c_big[x]

\* joined after a connection has joined.
LEMMA JoinedAfter ==
  ASSUME TypeOK, JoinedInv, NEW c \in Conn, NEW pr \in Nat, c \notin Member \cup freed,
         joined' = Ordered(c, pr), priority' = [priority EXCEPT ![c] = pr], freed' = freed
  PROVE  PutIn(c, Place(pr)) /\ JoinedInv'
<1> DEFINE k == Place(pr)
           n == Len(joined)
<1>1. k \in 1..n + 1 /\ \A i \in 1..n : priority[joined[i]] <= pr <=> i < k
  BY PlaceIs
<1>2. n \in Nat /\ DOMAIN joined = 1..n /\ Member \subseteq Conn /\ joined \in Seq(Conn)
  BY JoinedBound DEF TypeOK
<1>3. /\ joined' \in Seq(Conn) /\ Len(joined') = n + 1
      /\ \A i \in 1..n + 1 :
           joined'[i] = IF i < k THEN joined[i] ELSE IF i = k THEN c ELSE joined[i - 1]
  <2>1. joined' = InsertAt(joined, k, c)
    BY DEF Ordered
  <2> HIDE DEF k
  <2>2. k \in 1..Len(joined) + 1
    BY <1>1
  <2>3. IsInserted(joined', joined, k, c)
    BY <1>2, <2>1, <2>2, Inserted
  <2> QED BY <2>3 DEF IsInserted
<1> HIDE DEF k, n
<1>4. DOMAIN joined' = 1..n + 1
  BY <1>3, <1>2
<1>5. \A i \in 1..n : /\ joined[i] \in Member /\ joined[i] \in Conn
                      /\ joined[i] # c /\ joined[i] \notin freed
  BY <1>2 DEF Member, Range, JoinedInv
<1>6. Member' = Member \cup {c}
  <2>1. ASSUME NEW i \in 1..n + 1 PROVE joined'[i] \in Member \cup {c}
    BY <1>1, <1>2, <1>3, <1>5
  <2>2. ASSUME NEW x \in Member PROVE \E i \in 1..n + 1 : joined'[i] = x
    <3>1. PICK j \in 1..n : joined[j] = x
      BY <1>2 DEF Member, Range
    <3>2. CASE j < k
      BY <1>1, <1>2, <1>3, <3>1, <3>2
    <3>3. CASE ~(j < k)
      <4>1. j + 1 \in 1..n + 1 /\ ~(j + 1 < k) /\ j + 1 # k /\ (j + 1) - 1 = j
        BY <1>1, <1>2, <3>1, <3>3
      <4>2. joined'[j + 1] = joined[j]
        BY <1>3, <4>1
      <4> QED BY <3>1, <4>1, <4>2
    <3> QED BY <3>2, <3>3
  <2>3. k \in 1..n + 1 /\ joined'[k] = c
    BY <1>1, <1>2, <1>3
  <2>4. Member' = {joined'[i] : i \in 1..n + 1}
    BY <1>4 DEF Member, Range
  <2> QED BY <2>1, <2>2, <2>3, <2>4
<1>7. \A i, j \in 1..n : joined[i] = joined[j] => i = j
  BY <1>2 DEF JoinedInv
<1>8. \A i, j \in 1..n : i <= j => priority[joined[i]] <= priority[joined[j]]
  BY <1>2 DEF JoinedInv
<1>9. ASSUME NEW i \in 1..n + 1
      PROVE  \/ i < k /\ i \in 1..n /\ joined'[i] = joined[i]
             \/ i = k /\ joined'[i] = c
             \/ i > k /\ i - 1 \in 1..n /\ joined'[i] = joined[i - 1]
  BY <1>1, <1>2, <1>3
<1>10. ASSUME NEW i \in 1..n + 1, NEW j \in 1..n + 1, joined'[i] = joined'[j] PROVE i = j
  BY <1>1, <1>2, <1>5, <1>7, <1>9, <1>10
<1>11. /\ \A i \in 1..n : priority'[joined[i]] = priority[joined[i]] /\ priority[joined[i]] \in Nat
       /\ priority'[c] = pr
  BY <1>5 DEF TypeOK
<1>12. ASSUME NEW i \in 1..n + 1, NEW j \in 1..n + 1, i <= j
       PROVE  priority'[joined'[i]] <= priority'[joined'[j]]
  <2>1. CASE joined'[i] = c /\ joined'[j] = c
    BY <1>11, <2>1
  <2>2. CASE i = k /\ j > k
    <3>1. j - 1 \in 1..n /\ joined'[j] = joined[j - 1] /\ joined'[i] = c /\ ~(j - 1 < k)
      BY <1>1, <1>9, <2>2
    <3> QED BY <1>1, <1>11, <3>1
  <2>3. CASE i < k /\ j = k
    <3>1. i \in 1..n /\ joined'[i] = joined[i] /\ joined'[j] = c
      BY <1>1, <1>9, <2>3
    <3> QED BY <1>1, <1>11, <2>3, <3>1
  <2>4. CASE i < k /\ j < k
    BY <1>8, <1>9, <1>11, <1>12, <2>4
  <2>5. CASE i < k /\ j > k
    <3>1. i \in 1..n /\ joined'[i] = joined[i] /\ j - 1 \in 1..n /\ joined'[j] = joined[j - 1]
          /\ i <= j - 1
      BY <1>1, <1>9, <2>5
    <3> QED BY <1>8, <1>11, <3>1
  <2>6. CASE i > k /\ j > k
    <3>1. /\ i - 1 \in 1..n /\ joined'[i] = joined[i - 1]
          /\ j - 1 \in 1..n /\ joined'[j] = joined[j - 1]
          /\ i - 1 <= j - 1
      BY <1>1, <1>9, <1>12, <2>6
    <3> QED BY <1>8, <1>11, <3>1
  <2> QED BY <1>1, <1>9, <1>12, <2>1, <2>2, <2>3, <2>4, <2>5, <2>6
<1>13. \A i \in 1..n + 1 : joined'[i] \notin freed'
  BY <1>5, <1>9
<1>14. JoinedInv'
  BY <1>4, <1>10, <1>12, <1>13 DEF JoinedInv
<1> QED BY <1>1, <1>3, <1>6, <1>14 DEF PutIn, k, n

\* The tree when the new connection is put on the small side of d.
LEMMA InsertSmallShape ==
  ASSUME TypeOK, JoinedInv, TreeInv, NEW c \in Conn, c \notin Member, NEW d \in Member,
         NEW k \in Int,
         PutIn(c, k),
         NEW pos \in [Conn -> Int], NEW lo \in [Conn -> Int], NEW hi \in [Conn -> Int],
         Shape(pos, lo, hi),
         c_small[d] = Null, pos[d] = k,
         LinkedSmall(c, d)
  PROVE  TreeInv'
<1> DEFINE n == Len(joined)
<1>0. DOMAIN joined = 1..n /\ DOMAIN joined' = 1..n + 1 /\ Member \subseteq Conn
  BY JoinedBound DEF PutIn
<1>1. n \in Nat /\ 1 <= k /\ k <= n + 1
  BY JoinedBound DEF PutIn
<1>2. c # Null
  BY NullAssumption
<1>3. PICK np \in [Conn -> Int] : \A x \in Conn :
        np[x] = IF x = c THEN k ELSE IF pos[x] >= k THEN pos[x] + 1 ELSE pos[x]
  <2>1. [x \in Conn |-> IF x = c THEN k ELSE IF pos[x] >= k THEN pos[x] + 1 ELSE pos[x]]
          \in [Conn -> Int]
    BY <1>1
  <2> QED BY <2>1
<1>4. PICK nl \in [Conn -> Int] : \A x \in Conn :
        nl[x] = IF x = c THEN k ELSE IF lo[x] > k THEN lo[x] + 1 ELSE lo[x]
  <2>1. [x \in Conn |-> IF x = c THEN k ELSE IF lo[x] > k THEN lo[x] + 1 ELSE lo[x]]
          \in [Conn -> Int]
    BY <1>1
  <2> QED BY <2>1
<1>5. PICK nh \in [Conn -> Int] : \A x \in Conn :
        nh[x] = IF x = c THEN k ELSE IF hi[x] >= k - 1 THEN hi[x] + 1 ELSE hi[x]
  <2>1. [x \in Conn |-> IF x = c THEN k ELSE IF hi[x] >= k - 1 THEN hi[x] + 1 ELSE hi[x]]
          \in [Conn -> Int]
    BY <1>1
  <2> QED BY <2>1
<1>6. ASSUME NEW x \in Member
      PROVE  /\ x \in Conn /\ x # c /\ x # Null
             /\ pos[x] \in Int /\ lo[x] \in Int /\ hi[x] \in Int
             /\ 1 <= lo[x] /\ lo[x] <= pos[x] /\ pos[x] <= hi[x] /\ hi[x] <= n
             /\ np[x] = IF pos[x] >= k THEN pos[x] + 1 ELSE pos[x]
             /\ nl[x] = IF lo[x] > k THEN lo[x] + 1 ELSE lo[x]
             /\ nh[x] = IF hi[x] >= k - 1 THEN hi[x] + 1 ELSE hi[x]
  <2>1. x \in Conn /\ x # c /\ x # Null
    BY <1>0, NullAssumption
  <2>3. 1 <= lo[x] /\ lo[x] <= pos[x] /\ pos[x] <= hi[x] /\ hi[x] <= n
    BY DEF Shape, SpanInv
  <2> QED BY <1>3, <1>4, <1>5, <2>1, <2>3
<1>7. np[c] = k /\ nl[c] = k /\ nh[c] = k
  BY <1>3, <1>4, <1>5
<1>8. \A x, y \in Member : pos[x] = pos[y] => x = y
  <2>1. \A x \in Member : joined[pos[x]] = x
    BY Positions DEF Shape
  <2> QED BY <2>1
<1> HIDE DEF n
<1>9. SpanInv(np, nl, nh)'
  <2>1. ASSUME NEW i \in 1..n + 1 PROVE np[joined'[i]] = i
    <3>1. CASE i < k
      <4>1. i \in 1..n /\ joined'[i] = joined[i]
        BY <1>1, <3>1 DEF PutIn, n
      <4>2. joined[i] \in Member /\ pos[joined[i]] = i
        BY <4>1, Positions DEF Shape, n
      <4> QED BY <1>1, <1>6, <3>1, <4>1, <4>2
    <3>2. CASE i = k
      BY <1>1, <1>7, <3>2 DEF PutIn, n
    <3>3. CASE i > k
      <4>1. i - 1 \in 1..n /\ joined'[i] = joined[i - 1]
        BY <1>1, <3>3 DEF PutIn, n
      <4>2. joined[i - 1] \in Member /\ pos[joined[i - 1]] = i - 1
        BY <4>1, Positions DEF Shape, n
      <4> QED BY <1>1, <1>6, <3>3, <4>1, <4>2
    <3> QED BY <1>1, <3>1, <3>2, <3>3
  <2>2. ASSUME NEW x \in Member
        PROVE  1 <= nl[x] /\ nl[x] <= np[x] /\ np[x] <= nh[x] /\ nh[x] <= n + 1
    BY <1>1, <1>6
  <2>3. 1 <= nl[c] /\ nl[c] <= np[c] /\ np[c] <= nh[c] /\ nh[c] <= n + 1
    BY <1>1, <1>7 DEF n
  <2>4. Len(joined') = n + 1 /\ Member' = Member \cup {c}
    BY DEF PutIn, n
  <2> QED BY <1>0, <2>1, <2>2, <2>3, <2>4 DEF SpanInv
<1>10. SmallInv(np, nl, nh)'
  <2> SUFFICES ASSUME NEW x \in Member \cup {c}
               PROVE  IF c_small'[x] = Null THEN nl[x] = np[x]
                      ELSE /\ c_small'[x] \in Member \cup {c}
                           /\ p_big'[c_small'[x]] = x
                           /\ nl[c_small'[x]] = nl[x]
                           /\ nh[c_small'[x]] = np[x] - 1
    BY DEF PutIn, SmallInv
  <2>1. CASE x = c
    BY <1>7, <2>1 DEF LinkedSmall
  <2>2. CASE x \in Member /\ c_small[x] # Null /\ x # d
    <3>1. c_small'[x] = c_small[x]
      BY <2>2 DEF LinkedSmall
    <3>2. /\ c_small[x] \in Member /\ p_big[c_small[x]] = x
          /\ lo[c_small[x]] = lo[x] /\ hi[c_small[x]] = pos[x] - 1
      BY <2>2 DEF Shape, SmallInv
    <3>3. nl[c_small[x]] = nl[x] /\ nh[c_small[x]] = np[x] - 1
      BY <1>1, <1>6, <2>2, <3>2
    <3> QED BY <2>2, <3>1, <3>2, <3>3 DEF LinkedSmall
  <2>3. CASE x \in Member /\ c_small[x] = Null /\ x # d
    <3>1. lo[x] = pos[x]
      BY <2>3 DEF Shape, SmallInv
    <3>2. pos[x] # k
      BY <1>8, <2>3
    <3> QED BY <1>1, <1>6, <2>3, <3>1, <3>2 DEF LinkedSmall
  <2>4. CASE x = d
    <3>1. lo[d] = k
      BY DEF Shape, SmallInv
    <3> QED BY <1>1, <1>2, <1>6, <1>7, <2>4, <3>1 DEF LinkedSmall
  <2> QED BY <2>1, <2>2, <2>3, <2>4
<1>11. BigInv(np, nl, nh)'
  <2> SUFFICES ASSUME NEW x \in Member \cup {c}
               PROVE  IF c_big'[x] = Null THEN nh[x] = np[x]
                      ELSE /\ c_big'[x] \in Member \cup {c}
                           /\ p_small'[c_big'[x]] = x
                           /\ nl[c_big'[x]] = np[x] + 1
                           /\ nh[c_big'[x]] = nh[x]
    BY DEF PutIn, BigInv
  <2>1. CASE x = c
    BY <1>7, <2>1 DEF LinkedSmall
  <2>2. CASE x \in Member /\ c_big[x] # Null
    <3>1. c_big'[x] = c_big[x]
      BY <2>2 DEF LinkedSmall
    <3>2. /\ c_big[x] \in Member /\ p_small[c_big[x]] = x
          /\ lo[c_big[x]] = pos[x] + 1 /\ hi[c_big[x]] = hi[x]
      BY <2>2 DEF Shape, BigInv
    <3>3. nl[c_big[x]] = np[x] + 1 /\ nh[c_big[x]] = nh[x]
      BY <1>1, <1>6, <2>2, <3>2
    <3> QED BY <2>2, <3>1, <3>2, <3>3 DEF LinkedSmall
  <2>3. CASE x \in Member /\ c_big[x] = Null
    <3>1. hi[x] = pos[x]
      BY <2>3 DEF Shape, BigInv
    <3>2. pos[x] # k - 1
      <4> SUFFICES ASSUME pos[x] = k - 1 PROVE FALSE
        OBVIOUS
      <4>1. pos[d] = pos[x] + 1
        BY <1>1
      <4> QED BY <2>3, <4>1 DEF Shape, RoomInv
    <3> QED BY <1>1, <1>6, <2>3, <3>1, <3>2 DEF LinkedSmall
  <2> QED BY <2>1, <2>2, <2>3
<1>12. ParentInv(nl, nh)'
  <2> SUFFICES ASSUME NEW x \in Member \cup {c}
               PROVE  /\ p_big'[x] # Null =>
                           /\ p_big'[x] \in Member \cup {c}
                           /\ c_small'[p_big'[x]] = x /\ p_small'[x] = Null
                      /\ p_small'[x] # Null =>
                           p_small'[x] \in Member \cup {c} /\ c_big'[p_small'[x]] = x
                      /\ p_small'[x] = Null /\ p_big'[x] = Null => nl[x] = 1 /\ nh[x] = n + 1
    BY DEF PutIn, ParentInv, n
  <2>1. CASE x = c
    BY <1>2, <1>6, <2>1 DEF LinkedSmall
  <2>2. CASE x \in Member
    <3>1. p_big[x] # Null => p_big[x] \in Member /\ c_small[p_big[x]] = x /\ p_small[x] = Null
      BY <2>2 DEF Shape, ParentInv
    <3>2. p_small[x] # Null => p_small[x] \in Member /\ c_big[p_small[x]] = x
      BY <2>2 DEF Shape, ParentInv
    <3>3. p_small[x] = Null /\ p_big[x] = Null => lo[x] = 1 /\ hi[x] = n
      BY <2>2 DEF Shape, ParentInv, n
    <3>4. p_big[x] # d
      BY <1>6, <2>2, <3>1, <3>2
    <3>5. p_small[x] = Null /\ p_big[x] = Null => nl[x] = 1 /\ nh[x] = n + 1
      BY <1>1, <1>6, <2>2, <3>3
    <3> QED BY <2>2, <3>1, <3>2, <3>4, <3>5 DEF LinkedSmall
  <2> QED BY <2>1, <2>2
<1>13. RoomInv(np)'
  <2> SUFFICES ASSUME NEW x \in Member \cup {c}, NEW y \in Member \cup {c}, np[y] = np[x] + 1
               PROVE  c_big'[x] = Null <=> c_small'[y] # Null
    BY DEF PutIn, RoomInv
  <2>1. CASE x = c
    <3>1. y \in Member /\ np[y] = k + 1
      BY <1>1, <1>7, <2>1
    <3>2. pos[y] = k
      BY <1>1, <1>6, <3>1
    <3> QED BY <1>2, <1>6, <1>8, <2>1, <3>1, <3>2 DEF LinkedSmall
  <2>2. CASE y = c /\ x \in Member
    <3>1. pos[x] = k - 1
      BY <1>1, <1>6, <1>7, <2>2
    <3>2. c_big[x] # Null
      <4>1. pos[d] = pos[x] + 1
        BY <1>1, <3>1
      <4> QED BY <2>2, <4>1 DEF Shape, RoomInv
    <3>3. c_big'[x] = c_big[x]
      BY <2>2 DEF LinkedSmall
    <3> QED BY <2>2, <3>2, <3>3 DEF LinkedSmall
  <2>3. CASE x \in Member /\ y \in Member
    <3>1. pos[y] = pos[x] + 1
      BY <1>1, <1>6, <2>3
    <3>2. c_big[x] = Null <=> c_small[y] # Null
      BY <2>3, <3>1 DEF Shape, RoomInv
    <3>3. y # d
      BY <1>1, <1>6, <2>3, <3>1
    <3> QED BY <2>3, <3>2, <3>3 DEF LinkedSmall
  <2> QED BY <2>1, <2>2, <2>3
<1> QED BY <1>9, <1>10, <1>11, <1>12, <1>13 DEF TreeInv, Shape

\* The tree when the new connection is put on the big side of d.
LEMMA InsertBigShape ==
  ASSUME TypeOK, JoinedInv, TreeInv, NEW c \in Conn, c \notin Member, NEW d \in Member,
         NEW k \in Int,
         PutIn(c, k),
         NEW pos \in [Conn -> Int], NEW lo \in [Conn -> Int], NEW hi \in [Conn -> Int],
         Shape(pos, lo, hi),
         c_big[d] = Null, pos[d] = k - 1,
         LinkedBig(c, d)
  PROVE  TreeInv'
<1> DEFINE n == Len(joined)
<1>0. DOMAIN joined = 1..n /\ DOMAIN joined' = 1..n + 1 /\ Member \subseteq Conn
  BY JoinedBound DEF PutIn
<1>1. n \in Nat /\ 1 <= k /\ k <= n + 1
  BY JoinedBound DEF PutIn
<1>2. c # Null
  BY NullAssumption
<1>3. PICK np \in [Conn -> Int] : \A x \in Conn :
        np[x] = IF x = c THEN k ELSE IF pos[x] >= k THEN pos[x] + 1 ELSE pos[x]
  <2>1. [x \in Conn |-> IF x = c THEN k ELSE IF pos[x] >= k THEN pos[x] + 1 ELSE pos[x]]
          \in [Conn -> Int]
    BY <1>1
  <2> QED BY <2>1
<1>4. PICK nl \in [Conn -> Int] : \A x \in Conn :
        nl[x] = IF x = c THEN k ELSE IF lo[x] > k THEN lo[x] + 1 ELSE lo[x]
  <2>1. [x \in Conn |-> IF x = c THEN k ELSE IF lo[x] > k THEN lo[x] + 1 ELSE lo[x]]
          \in [Conn -> Int]
    BY <1>1
  <2> QED BY <2>1
<1>5. PICK nh \in [Conn -> Int] : \A x \in Conn :
        nh[x] = IF x = c THEN k ELSE IF hi[x] >= k - 1 THEN hi[x] + 1 ELSE hi[x]
  <2>1. [x \in Conn |-> IF x = c THEN k ELSE IF hi[x] >= k - 1 THEN hi[x] + 1 ELSE hi[x]]
          \in [Conn -> Int]
    BY <1>1
  <2> QED BY <2>1
<1>6. ASSUME NEW x \in Member
      PROVE  /\ x \in Conn /\ x # c /\ x # Null
             /\ pos[x] \in Int /\ lo[x] \in Int /\ hi[x] \in Int
             /\ 1 <= lo[x] /\ lo[x] <= pos[x] /\ pos[x] <= hi[x] /\ hi[x] <= n
             /\ np[x] = IF pos[x] >= k THEN pos[x] + 1 ELSE pos[x]
             /\ nl[x] = IF lo[x] > k THEN lo[x] + 1 ELSE lo[x]
             /\ nh[x] = IF hi[x] >= k - 1 THEN hi[x] + 1 ELSE hi[x]
  <2>1. x \in Conn /\ x # c /\ x # Null
    BY <1>0, NullAssumption
  <2>3. 1 <= lo[x] /\ lo[x] <= pos[x] /\ pos[x] <= hi[x] /\ hi[x] <= n
    BY DEF Shape, SpanInv
  <2> QED BY <1>3, <1>4, <1>5, <2>1, <2>3
<1>7. np[c] = k /\ nl[c] = k /\ nh[c] = k
  BY <1>3, <1>4, <1>5
<1>8. \A x, y \in Member : pos[x] = pos[y] => x = y
  <2>1. \A x \in Member : joined[pos[x]] = x
    BY Positions DEF Shape
  <2> QED BY <2>1
<1> HIDE DEF n
<1>9. SpanInv(np, nl, nh)'
  <2>1. ASSUME NEW i \in 1..n + 1 PROVE np[joined'[i]] = i
    <3>1. CASE i < k
      <4>1. i \in 1..n /\ joined'[i] = joined[i]
        BY <1>1, <3>1 DEF PutIn, n
      <4>2. joined[i] \in Member /\ pos[joined[i]] = i
        BY <4>1, Positions DEF Shape, n
      <4> QED BY <1>1, <1>6, <3>1, <4>1, <4>2
    <3>2. CASE i = k
      BY <1>1, <1>7, <3>2 DEF PutIn, n
    <3>3. CASE i > k
      <4>1. i - 1 \in 1..n /\ joined'[i] = joined[i - 1]
        BY <1>1, <3>3 DEF PutIn, n
      <4>2. joined[i - 1] \in Member /\ pos[joined[i - 1]] = i - 1
        BY <4>1, Positions DEF Shape, n
      <4> QED BY <1>1, <1>6, <3>3, <4>1, <4>2
    <3> QED BY <1>1, <3>1, <3>2, <3>3
  <2>2. ASSUME NEW x \in Member
        PROVE  1 <= nl[x] /\ nl[x] <= np[x] /\ np[x] <= nh[x] /\ nh[x] <= n + 1
    BY <1>1, <1>6
  <2>3. 1 <= nl[c] /\ nl[c] <= np[c] /\ np[c] <= nh[c] /\ nh[c] <= n + 1
    BY <1>1, <1>7 DEF n
  <2>4. Len(joined') = n + 1 /\ Member' = Member \cup {c}
    BY DEF PutIn, n
  <2> QED BY <1>0, <2>1, <2>2, <2>3, <2>4 DEF SpanInv
<1>10. SmallInv(np, nl, nh)'
  <2> SUFFICES ASSUME NEW x \in Member \cup {c}
               PROVE  IF c_small'[x] = Null THEN nl[x] = np[x]
                      ELSE /\ c_small'[x] \in Member \cup {c}
                           /\ p_big'[c_small'[x]] = x
                           /\ nl[c_small'[x]] = nl[x]
                           /\ nh[c_small'[x]] = np[x] - 1
    BY DEF PutIn, SmallInv
  <2>1. CASE x = c
    BY <1>7, <2>1 DEF LinkedBig
  <2>2. CASE x \in Member /\ c_small[x] # Null
    <3>1. c_small'[x] = c_small[x]
      BY <2>2 DEF LinkedBig
    <3>2. /\ c_small[x] \in Member /\ p_big[c_small[x]] = x
          /\ lo[c_small[x]] = lo[x] /\ hi[c_small[x]] = pos[x] - 1
      BY <2>2 DEF Shape, SmallInv
    <3>3. nl[c_small[x]] = nl[x] /\ nh[c_small[x]] = np[x] - 1
      BY <1>1, <1>6, <2>2, <3>2
    <3> QED BY <2>2, <3>1, <3>2, <3>3 DEF LinkedBig
  <2>3. CASE x \in Member /\ c_small[x] = Null
    <3>1. lo[x] = pos[x]
      BY <2>3 DEF Shape, SmallInv
    <3>2. pos[x] # k
      <4> SUFFICES ASSUME pos[x] = k PROVE FALSE
        OBVIOUS
      <4>1. pos[x] = pos[d] + 1
        BY <1>1
      <4> QED BY <2>3, <4>1 DEF Shape, RoomInv
    <3> QED BY <1>1, <1>6, <2>3, <3>1, <3>2 DEF LinkedBig
  <2> QED BY <2>1, <2>2, <2>3
<1>11. BigInv(np, nl, nh)'
  <2> SUFFICES ASSUME NEW x \in Member \cup {c}
               PROVE  IF c_big'[x] = Null THEN nh[x] = np[x]
                      ELSE /\ c_big'[x] \in Member \cup {c}
                           /\ p_small'[c_big'[x]] = x
                           /\ nl[c_big'[x]] = np[x] + 1
                           /\ nh[c_big'[x]] = nh[x]
    BY DEF PutIn, BigInv
  <2>1. CASE x = c
    BY <1>7, <2>1 DEF LinkedBig
  <2>2. CASE x \in Member /\ c_big[x] # Null /\ x # d
    <3>1. c_big'[x] = c_big[x]
      BY <2>2 DEF LinkedBig
    <3>2. /\ c_big[x] \in Member /\ p_small[c_big[x]] = x
          /\ lo[c_big[x]] = pos[x] + 1 /\ hi[c_big[x]] = hi[x]
      BY <2>2 DEF Shape, BigInv
    <3>3. nl[c_big[x]] = np[x] + 1 /\ nh[c_big[x]] = nh[x]
      BY <1>1, <1>6, <2>2, <3>2
    <3> QED BY <2>2, <3>1, <3>2, <3>3 DEF LinkedBig
  <2>3. CASE x \in Member /\ c_big[x] = Null /\ x # d
    <3>1. hi[x] = pos[x]
      BY <2>3 DEF Shape, BigInv
    <3>2. pos[x] # k - 1
      BY <1>8, <2>3
    <3> QED BY <1>1, <1>6, <2>3, <3>1, <3>2 DEF LinkedBig
  <2>4. CASE x = d
    <3>1. hi[d] = k - 1
      BY DEF Shape, BigInv
    <3> QED BY <1>1, <1>2, <1>6, <1>7, <2>4, <3>1 DEF LinkedBig
  <2> QED BY <2>1, <2>2, <2>3, <2>4
<1>12. ParentInv(nl, nh)'
  <2> SUFFICES ASSUME NEW x \in Member \cup {c}
               PROVE  /\ p_big'[x] # Null =>
                           /\ p_big'[x] \in Member \cup {c}
                           /\ c_small'[p_big'[x]] = x /\ p_small'[x] = Null
                      /\ p_small'[x] # Null =>
                           p_small'[x] \in Member \cup {c} /\ c_big'[p_small'[x]] = x
                      /\ p_small'[x] = Null /\ p_big'[x] = Null => nl[x] = 1 /\ nh[x] = n + 1
    BY DEF PutIn, ParentInv, n
  <2>1. CASE x = c
    BY <1>2, <1>6, <2>1 DEF LinkedBig
  <2>2. CASE x \in Member
    <3>1. p_big[x] # Null => p_big[x] \in Member /\ c_small[p_big[x]] = x /\ p_small[x] = Null
      BY <2>2 DEF Shape, ParentInv
    <3>2. p_small[x] # Null => p_small[x] \in Member /\ c_big[p_small[x]] = x
      BY <2>2 DEF Shape, ParentInv
    <3>3. p_small[x] = Null /\ p_big[x] = Null => lo[x] = 1 /\ hi[x] = n
      BY <2>2 DEF Shape, ParentInv, n
    <3>4. p_small[x] # d
      BY <1>6, <2>2, <3>1, <3>2
    <3>5. p_small[x] = Null /\ p_big[x] = Null => nl[x] = 1 /\ nh[x] = n + 1
      BY <1>1, <1>6, <2>2, <3>3
    <3> QED BY <2>2, <3>1, <3>2, <3>4, <3>5 DEF LinkedBig
  <2> QED BY <2>1, <2>2
<1>13. RoomInv(np)'
  <2> SUFFICES ASSUME NEW x \in Member \cup {c}, NEW y \in Member \cup {c}, np[y] = np[x] + 1
               PROVE  c_big'[x] = Null <=> c_small'[y] # Null
    BY DEF PutIn, RoomInv
  <2>1. CASE x = c
    <3>1. y \in Member /\ np[y] = k + 1
      BY <1>1, <1>7, <2>1
    <3>2. pos[y] = k
      BY <1>1, <1>6, <3>1
    <3>3. c_small[y] # Null
      <4>1. pos[y] = pos[d] + 1
        BY <1>1, <3>2
      <4> QED BY <3>1, <4>1 DEF Shape, RoomInv
    <3>4. c_small'[y] = c_small[y]
      BY <3>1 DEF LinkedBig
    <3> QED BY <2>1, <3>3, <3>4 DEF LinkedBig
  <2>2. CASE y = c /\ x \in Member
    <3>1. pos[x] = k - 1
      BY <1>1, <1>6, <1>7, <2>2
    <3> QED BY <1>2, <1>6, <1>8, <2>2, <3>1 DEF LinkedBig
  <2>3. CASE x \in Member /\ y \in Member
    <3>1. pos[y] = pos[x] + 1
      BY <1>1, <1>6, <2>3
    <3>2. c_big[x] = Null <=> c_small[y] # Null
      BY <2>3, <3>1 DEF Shape, RoomInv
    <3>3. x # d
      BY <1>1, <1>6, <2>3, <3>1
    <3> QED BY <2>3, <3>2, <3>3 DEF LinkedBig
  <2> QED BY <2>1, <2>2, <2>3
<1> QED BY <1>9, <1>10, <1>11, <1>12, <1>13 DEF TreeInv, Shape

\* A connection joins: it is the top, or spider_tree_insert puts it in.
LEMMA JoinKeeps ==
  ASSUME JoinInv, NEW c \in Conn, NEW pr \in Priority, Join(c, pr)
  PROVE  JoinInv'
<1>1. TypeOK /\ JoinedInv /\ TopInv /\ TreeInv /\ pr \in Nat
  BY PriorityAssumption DEF JoinInv
<1>2. /\ cur = Null /\ c \notin Member \cup freed /\ joined' = Ordered(c, pr)
      /\ priority' = [priority EXCEPT ![c] = pr]
      /\ cur' = cur /\ freed' = freed /\ trxs' = trxs
  BY DEF Join, Member
<1>3. PutIn(c, Place(pr)) /\ JoinedInv'
  BY <1>1, <1>2, JoinedAfter
<1>4. Member' = Member \cup {c} /\ joined' \in Seq(Conn) /\ Member \subseteq Conn
  BY <1>1, <1>3, JoinedBound DEF PutIn
<1>5. /\ priority' \in [Conn -> Nat] /\ cur' \in Conn \cup {Null}
      /\ freed' \in SUBSET Conn /\ trxs' \in Nat
  BY <1>1, <1>2 DEF TypeOK
<1>6. CASE top = Null
  <2>1. MakeTop(c)
    BY <1>6 DEF Join
  <2>2. TypeOK'
    BY <1>1, <1>4, <1>5, <2>1 DEF TypeOK, MakeTop
  <2>3. joined = <<>> /\ Member = {}
    BY <1>1, <1>2, <1>6 DEF TopInv, Member, Range
  <2>4. Len(joined') = 1 /\ joined'[1] = c /\ DOMAIN joined' = 1..1 /\ Member' = {c}
    <3>1. Len(joined) = 0
      BY <2>3
    <3>2. Place(pr) = 1 /\ Len(joined') = 1
      BY <1>3, <3>1 DEF PutIn
    <3>3. joined'[1] = c
      BY <1>3, <3>1, <3>2 DEF PutIn
    <3> QED BY <1>4, <2>3, <3>2, <3>3
  <2>5. TopInv'
    BY <1>2, <2>1, <2>4, NullAssumption, <1>1 DEF TopInv, MakeTop, TypeOK
  <2>6. TreeInv'
    <3>1. PICK one \in [Conn -> Int] : one[c] = 1
      <4>1. [x \in Conn |-> 1] \in [Conn -> Int] /\ [x \in Conn |-> 1][c] = 1
        OBVIOUS
      <4> QED BY <4>1
    <3>2. p_small'[c] = Null /\ p_big'[c] = Null /\ c_small'[c] = Null /\ c_big'[c] = Null
      BY <1>1, <2>1 DEF MakeTop, TypeOK
    <3>3. SpanInv(one, one, one)'
      BY <2>4, <3>1 DEF SpanInv
    <3>4. SmallInv(one, one, one)' /\ BigInv(one, one, one)'
      BY <2>4, <3>1, <3>2 DEF SmallInv, BigInv
    <3>5. ParentInv(one, one)'
      BY <2>4, <3>1, <3>2 DEF ParentInv
    <3>6. RoomInv(one)'
      BY <2>4, <3>1 DEF RoomInv
    <3> QED BY <3>3, <3>4, <3>5, <3>6 DEF TreeInv, Shape
  <2> QED BY <1>3, <2>2, <2>5, <2>6 DEF JoinInv
<1>7. CASE top # Null
  <2> DEFINE d == Parent(pr)
  <2>1. Insert(c, pr) /\ top' = top
    BY <1>7 DEF Join
  <2>2. top \in Member /\ p_small[top] = Null /\ p_big[top] = Null
    BY <1>1, <1>2, <1>7 DEF TopInv
  <2>3. PICK pos \in [Conn -> Int], lo \in [Conn -> Int], hi \in [Conn -> Int] : Shape(pos, lo, hi)
    BY <1>1 DEF TreeInv
  <2>4. /\ d \in Member
        /\ IF pr < priority[d] THEN c_small[d] = Null /\ pos[d] = Place(pr)
           ELSE c_big[d] = Null /\ pos[d] = Place(pr) - 1
    BY <1>1, <2>2, <2>3, ParentIs
  <2>5. Place(pr) \in Int
    BY <1>3, <1>1, JoinedBound DEF PutIn
  <2>6. /\ p_small' = [p_small EXCEPT ![c] = IF pr < priority[d] THEN Null ELSE d]
        /\ p_big' = [p_big EXCEPT ![c] = IF pr < priority[d] THEN d ELSE Null]
        /\ c_small' = [c_small EXCEPT ![c] = Null, ![d] = IF pr < priority[d] THEN c ELSE @]
        /\ c_big' = [c_big EXCEPT ![c] = Null, ![d] = IF pr < priority[d] THEN @ ELSE c]
    BY <2>1 DEF Insert
  <2> HIDE DEF d
  <2>7. d \in Conn /\ d # c /\ \A x \in Member : x \in Conn /\ x # c
    BY <1>2, <1>4, <2>4
  <2>8. TypeOK'
    BY <1>1, <1>4, <1>5, <2>1, <2>6, <2>7 DEF TypeOK
  <2>9. ASSUME pr < priority[d] PROVE TreeInv'
    <3>1. LinkedSmall(c, d)
      BY <1>1, <2>4, <2>6, <2>7, <2>9 DEF LinkedSmall, TypeOK
    <3>2. c_small[d] = Null /\ pos[d] = Place(pr)
      BY <2>4, <2>9
    <3> QED BY <1>1, <1>2, <1>3, <2>3, <2>4, <2>5, <3>1, <3>2, InsertSmallShape
  <2>10. ASSUME ~(pr < priority[d]) PROVE TreeInv'
    <3>1. LinkedBig(c, d)
      BY <1>1, <2>4, <2>6, <2>7, <2>10 DEF LinkedBig, TypeOK
    <3>2. c_big[d] = Null /\ pos[d] = Place(pr) - 1
      BY <2>4, <2>10
    <3> QED BY <1>1, <1>2, <1>3, <2>3, <2>4, <2>5, <3>1, <3>2, InsertBigShape
  <2>11. TreeInv'
    BY <2>9, <2>10
  <2>12. p_small'[top] = Null /\ p_big'[top] = Null
    BY <1>1, <2>2, <2>6, <2>7 DEF TypeOK
  <2>13. TopInv'
    BY <1>2, <1>4, <1>7, <2>1, <2>2, <2>12 DEF TopInv
  <2> QED BY <1>3, <2>8, <2>11, <2>13 DEF JoinInv
<1> QED BY <1>6, <1>7
-----------------------------------------------------------------------------
(***************************************************************************)
(* A connection is taken out.                                              *)
(***************************************************************************)

LEMMA Removed ==
  ASSUME NEW s \in Seq(Conn), NEW k \in 1..Len(s)
  PROVE  /\ RemoveAt(s, k) \in Seq(Conn)
         /\ Len(RemoveAt(s, k)) = Len(s) - 1
         /\ \A i \in 1..Len(s) - 1 : RemoveAt(s, k)[i] = IF i < k THEN s[i] ELSE s[i + 1]
<1> DEFINE a == SubSeq(s, 1, k - 1)
           b == SubSeq(s, k + 1, Len(s))
<1>1. a \in Seq(Conn) /\ Len(a) = k - 1 /\ \A i \in 1..k - 1 : a[i] = s[i]
  OBVIOUS
<1>2. b \in Seq(Conn) /\ Len(b) = Len(s) - k /\ \A i \in 1..Len(s) - k : b[i] = s[k + i]
  OBVIOUS
<1>3. RemoveAt(s, k) = a \o b
  BY DEF RemoveAt
<1> HIDE DEF a, b
<1>4. a \o b \in Seq(Conn) /\ Len(a \o b) = Len(s) - 1
  <2>1. a \in Seq(Conn) /\ b \in Seq(Conn)
    BY <1>1, <1>2
  <2>2. a \o b \in Seq(Conn) /\ Len(a \o b) = Len(a) + Len(b)
    BY <2>1
  <2>3. Len(a) + Len(b) = Len(s) - 1
    BY <1>1, <1>2
  <2> QED BY <2>2, <2>3
<1>5. ASSUME NEW i \in 1..Len(s) - 1
      PROVE  (a \o b)[i] = IF i < k THEN s[i] ELSE s[i + 1]
  <2>1. CASE i < k
    BY <1>1, <1>2, <2>1
  <2>2. CASE ~(i < k)
    <3>1. i - (k - 1) \in 1..Len(s) - k /\ k + (i - (k - 1)) = i + 1
      BY <2>2
    <3>2. (a \o b)[i] = b[i - (k - 1)]
      BY <1>1, <1>2, <2>2
    <3>3. b[i - (k - 1)] = s[i + 1]
      BY <1>2, <3>1
    <3> QED BY <2>2, <3>2, <3>3
  <2> QED BY <2>1, <2>2, Zenon
<1> QED BY <1>3, <1>4, <1>5

\* The connection c is taken out of joined, where it is at the position k.
TakenOut(c, k) ==
  /\ k \in 1..Len(joined) /\ joined[k] = c
  /\ joined' \in Seq(Conn) /\ Len(joined') = Len(joined) - 1
  /\ \A i \in 1..Len(joined) - 1 : joined'[i] = IF i < k THEN joined[i] ELSE joined[i + 1]
  /\ Member' = Member \ {c}

LEMMA JoinedWithout ==
  ASSUME TypeOK, JoinedInv, NEW c \in Member,
         joined' = RemoveFirst(joined, c), priority' = priority, freed' = freed \cup {c}
  PROVE  JoinedInv' /\ \E k \in 1..Len(joined) : TakenOut(c, k)
<1> DEFINE n == Len(joined)
<1>1. n \in Nat /\ DOMAIN joined = 1..n /\ joined \in Seq(Conn)
  BY JoinedBound DEF TypeOK
<1>2. PICK k \in 1..n : joined[k] = c
  BY <1>1 DEF Member, Range
<1>3. \A i, j \in 1..n : joined[i] = joined[j] => i = j
  BY <1>1 DEF JoinedInv
<1>4. joined' = RemoveAt(joined, k)
  <2> DEFINE I == {i \in 1..n : joined[i] = c}
  <2>1. I = {k}
    BY <1>2, <1>3
  <2>2. Min(I) = k
    <3>1. Min(I) = CHOOSE x \in I : \A y \in I : x <= y
      BY DEF Min
    <3> QED BY <1>1, <1>2, <2>1, <3>1
  <2>3. SelectInSeq(joined, LAMBDA v : v = c) = IF I # {} THEN Min(I) ELSE 0
    BY DEF SelectInSeq
  <2>4. SelectInSeq(joined, LAMBDA v : v = c) = k
    BY <2>1, <2>2, <2>3
  <2> QED BY <1>2, <2>4 DEF RemoveFirst
<1>5. /\ joined' \in Seq(Conn) /\ Len(joined') = n - 1
      /\ \A i \in 1..n - 1 : joined'[i] = IF i < k THEN joined[i] ELSE joined[i + 1]
  BY <1>1, <1>2, <1>4, Removed
<1> HIDE DEF n
<1>6. DOMAIN joined' = 1..n - 1
  BY <1>1, <1>5
<1>7. ASSUME NEW i \in 1..n - 1
      PROVE  \/ i < k /\ i \in 1..n /\ joined'[i] = joined[i]
             \/ ~(i < k) /\ i + 1 \in 1..n /\ joined'[i] = joined[i + 1]
  BY <1>1, <1>2, <1>5
<1>8. Member' = Member \ {c}
  <2>1. ASSUME NEW i \in 1..n - 1 PROVE joined'[i] \in Member /\ joined'[i] # c
    <3>1. CASE i < k
      <4>1. i \in 1..n /\ joined'[i] = joined[i] /\ i # k
        BY <1>2, <1>7, <3>1
      <4> QED BY <1>1, <1>2, <1>3, <4>1 DEF Member, Range
    <3>2. CASE ~(i < k)
      <4>1. i + 1 \in 1..n /\ joined'[i] = joined[i + 1] /\ i + 1 # k
        BY <1>2, <1>7, <3>2
      <4> QED BY <1>1, <1>2, <1>3, <4>1 DEF Member, Range
    <3> QED BY <3>1, <3>2
  <2>2. ASSUME NEW x \in Member, x # c PROVE \E i \in 1..n - 1 : joined'[i] = x
    <3>1. PICK j \in 1..n : joined[j] = x /\ j # k
      BY <1>1, <1>2, <2>2 DEF Member, Range
    <3>2. CASE j < k
      <4>1. j \in 1..n - 1
        BY <1>1, <1>2, <3>1, <3>2
      <4> QED BY <1>5, <3>1, <3>2, <4>1
    <3>3. CASE ~(j < k)
      <4>1. j - 1 \in 1..n - 1 /\ ~(j - 1 < k) /\ (j - 1) + 1 = j
        BY <1>1, <1>2, <3>1, <3>3
      <4>2. joined'[j - 1] = joined[j]
        BY <1>5, <4>1
      <4> QED BY <3>1, <4>1, <4>2
    <3> QED BY <3>2, <3>3
  <2>3. Member' = {joined'[i] : i \in 1..n - 1}
    BY <1>6 DEF Member, Range
  <2> QED BY <2>1, <2>2, <2>3
<1>9. ASSUME NEW i \in 1..n - 1, NEW j \in 1..n - 1, joined'[i] = joined'[j] PROVE i = j
  BY <1>1, <1>2, <1>3, <1>7, <1>9
<1>10. \A i, j \in 1..n : i <= j => priority[joined[i]] <= priority[joined[j]]
  BY <1>1 DEF JoinedInv
<1>11. ASSUME NEW i \in 1..n - 1, NEW j \in 1..n - 1, i <= j
       PROVE  priority'[joined'[i]] <= priority'[joined'[j]]
  <2>1. PICK p \in 1..n, q \in 1..n : p <= q /\ joined'[i] = joined[p] /\ joined'[j] = joined[q]
    <3>1. CASE i < k /\ j < k
      BY <1>7, <1>11, <3>1
    <3>2. CASE i < k /\ ~(j < k)
      <4>1. i \in 1..n /\ joined'[i] = joined[i] /\ j + 1 \in 1..n /\ joined'[j] = joined[j + 1]
            /\ i <= j + 1
        BY <1>1, <1>7, <1>11, <3>2
      <4> QED BY <4>1
    <3>3. CASE ~(i < k)
      <4>1. /\ i + 1 \in 1..n /\ joined'[i] = joined[i + 1]
            /\ j + 1 \in 1..n /\ joined'[j] = joined[j + 1]
            /\ i + 1 <= j + 1
        BY <1>1, <1>2, <1>7, <1>11, <3>3
      <4> QED BY <4>1
    <3> QED BY <3>1, <3>2, <3>3
  <2> QED BY <1>10, <2>1
<1>12. \A i \in 1..n - 1 : joined'[i] \notin freed'
  <2>1. \A x \in Member : x \notin freed
    BY DEF JoinedInv, Member, Range
  <2>2. \A i \in 1..n - 1 : joined'[i] \in Member /\ joined'[i] # c
    BY <1>6, <1>8 DEF Member, Range
  <2> QED BY <2>1, <2>2
<1>13. JoinedInv'
  BY <1>6, <1>9, <1>11, <1>12 DEF JoinedInv
<1>14. TakenOut(c, k)
  BY <1>1, <1>2, <1>5, <1>8 DEF TakenOut, n
<1> QED BY <1>2, <1>13, <1>14 DEF n

(***************************************************************************)
(* The neighbours of c in the tree: its children s and b, the last         *)
(* connection l below s, and its parents ps and pb.                        *)
(***************************************************************************)
SmallChild(c, s, pos, lo, hi) ==
  IF s = Null THEN lo[c] = pos[c]
  ELSE /\ s \in Member /\ s # c /\ p_big[s] = c /\ p_small[s] = Null
       /\ lo[s] = lo[c] /\ hi[s] = pos[c] - 1

BigChild(c, b, pos, lo, hi) ==
  IF b = Null THEN hi[c] = pos[c]
  ELSE /\ b \in Member /\ b # c /\ p_small[b] = c /\ p_big[b] = Null
       /\ lo[b] = pos[c] + 1 /\ hi[b] = hi[c]

LastBelow(c, s, l, ps, pos, hi) ==
  s # Null => /\ l \in Member /\ l # c /\ c_big[l] = Null /\ l # ps
              /\ pos[l] = pos[c] - 1 /\ hi[l] = pos[c] - 1

Parents(c, ps, pb, pos, lo, hi) ==
  /\ ps # Null => /\ ps \in Member /\ ps # c /\ c_big[ps] = c /\ pb = Null
                  /\ pos[ps] = lo[c] - 1 /\ hi[ps] = hi[c]
  /\ pb # Null => /\ pb \in Member /\ pb # c /\ c_small[pb] = c /\ ps = Null
                  /\ pos[pb] = hi[c] + 1 /\ lo[pb] = lo[c]
  /\ ps = Null /\ pb = Null => lo[c] = 1 /\ hi[c] = Len(joined)

Around(c, s, b, l, ps, pb, pos, lo, hi) ==
  /\ c_small[c] = s /\ c_big[c] = b /\ p_small[c] = ps /\ p_big[c] = pb
  /\ SmallChild(c, s, pos, lo, hi)
  /\ BigChild(c, b, pos, lo, hi)
  /\ s # Null /\ b # Null => s # b
  /\ LastBelow(c, s, l, ps, pos, hi)
  /\ Parents(c, ps, pb, pos, lo, hi)

LEMMA AroundIs ==
  ASSUME TypeOK, JoinedInv, NEW pos \in [Conn -> Int], NEW lo \in [Conn -> Int],
         NEW hi \in [Conn -> Int], Shape(pos, lo, hi), NEW c \in Member
  PROVE  Around(c, c_small[c], c_big[c], Descend(c_big, c_small[c]), p_small[c], p_big[c],
                pos, lo, hi)
<1> DEFINE s == c_small[c]
           b == c_big[c]
           l == Descend(c_big, s)
           ps == p_small[c]
           pb == p_big[c]
<1>1. \A x \in Member : /\ x \in Conn /\ x # Null
                        /\ pos[x] \in Int /\ lo[x] \in Int /\ hi[x] \in Int
                        /\ lo[x] <= pos[x] /\ pos[x] <= hi[x]
  BY JoinedBound, NullAssumption DEF Shape, SpanInv
<1>2. \A x \in Member : /\ p_big[x] # Null =>
                             p_big[x] \in Member /\ c_small[p_big[x]] = x /\ p_small[x] = Null
                        /\ p_small[x] # Null => p_small[x] \in Member /\ c_big[p_small[x]] = x
  BY DEF Shape, ParentInv
<1>3. SmallChild(c, s, pos, lo, hi)
  <2>1. CASE s = Null
    BY <2>1 DEF Shape, SmallInv, SmallChild
  <2>2. CASE s # Null
    <3>1. s \in Member /\ p_big[s] = c /\ lo[s] = lo[c] /\ hi[s] = pos[c] - 1
      BY <2>2 DEF Shape, SmallInv
    <3>2. s # c
      BY <1>1, <3>1
    <3>3. p_small[s] = Null
      BY <1>1, <1>2, <3>1
    <3> QED BY <2>2, <3>1, <3>2, <3>3 DEF SmallChild
  <2> QED BY <2>1, <2>2
<1>4. BigChild(c, b, pos, lo, hi)
  <2>1. CASE b = Null
    BY <2>1 DEF Shape, BigInv, BigChild
  <2>2. CASE b # Null
    <3>1. b \in Member /\ p_small[b] = c /\ lo[b] = pos[c] + 1 /\ hi[b] = hi[c]
      BY <2>2 DEF Shape, BigInv
    <3>2. b # c
      BY <1>1, <3>1
    <3>3. p_big[b] = Null
      BY <1>1, <1>2, <3>1
    <3> QED BY <2>2, <3>1, <3>2, <3>3 DEF BigChild
  <2> QED BY <2>1, <2>2
<1>5. s # Null /\ b # Null => s # b
  BY <1>1, <1>3, <1>4 DEF SmallChild, BigChild
<1>6. Parents(c, ps, pb, pos, lo, hi)
  <2>1. ASSUME ps # Null
        PROVE  /\ ps \in Member /\ ps # c /\ c_big[ps] = c /\ pb = Null
               /\ pos[ps] = lo[c] - 1 /\ hi[ps] = hi[c]
    <3>1. ps \in Member /\ c_big[ps] = c /\ pb = Null
      BY <1>2, <2>1
    <3>2. lo[c] = pos[ps] + 1 /\ hi[c] = hi[ps]
      BY <1>1, <3>1 DEF Shape, BigInv
    <3>3. ps # c /\ pos[ps] = lo[c] - 1
      BY <1>1, <3>1, <3>2
    <3> QED BY <3>1, <3>2, <3>3
  <2>2. ASSUME pb # Null
        PROVE  /\ pb \in Member /\ pb # c /\ c_small[pb] = c /\ ps = Null
               /\ pos[pb] = hi[c] + 1 /\ lo[pb] = lo[c]
    <3>1. pb \in Member /\ c_small[pb] = c /\ ps = Null
      BY <1>2, <2>2
    <3>2. lo[c] = lo[pb] /\ hi[c] = pos[pb] - 1
      BY <1>1, <3>1 DEF Shape, SmallInv
    <3>3. pb # c /\ pos[pb] = hi[c] + 1
      BY <1>1, <3>1, <3>2
    <3> QED BY <3>1, <3>2, <3>3
  <2>3. ps = Null /\ pb = Null => lo[c] = 1 /\ hi[c] = Len(joined)
    BY DEF Shape, ParentInv
  <2> QED BY <2>1, <2>2, <2>3 DEF Parents
<1>7. LastBelow(c, s, l, ps, pos, hi)
  <2> SUFFICES ASSUME s # Null
               PROVE  /\ l \in Member /\ l # c /\ c_big[l] = Null /\ l # ps
                      /\ pos[l] = pos[c] - 1 /\ hi[l] = pos[c] - 1
    BY DEF LastBelow
  <2>1. s \in Member /\ hi[s] = pos[c] - 1 /\ lo[s] = lo[c]
    BY <1>3 DEF SmallChild
  <2>2. l \in Member /\ pos[l] = hi[s] /\ c_big[l] = Null /\ hi[l] = hi[s]
    BY <2>1, LastIs
  <2> HIDE DEF s, l, ps
  <2>3. l # c
    BY <1>1, <2>1, <2>2
  <2>4. l # ps
    BY <1>1, <1>6, <2>1, <2>2 DEF Parents
  <2> QED BY <2>1, <2>2, <2>3, <2>4
<1> QED BY <1>3, <1>4, <1>5, <1>6, <1>7 DEF Around

\* The pointers after spider_tree_delete.
Unlinked(c, s, b, l, ps, pb) ==
  LET h == IF s # Null THEN s ELSE b
  IN  \A x \in Member : x # c =>
        /\ c_small'[x] = IF x = pb THEN h ELSE c_small[x]
        /\ c_big'[x] = IF x = ps THEN h
                       ELSE IF s # Null /\ b # Null /\ x = l THEN b ELSE c_big[x]
        /\ p_big'[x] = IF x = h THEN pb ELSE p_big[x]
        /\ p_small'[x] = IF x = h THEN ps ELSE IF x = b THEN l ELSE p_small[x]

LEMMA AssignIs ==
  ASSUME NEW f, NEW pairs, NEW x \in Conn, NEW v, <<x, v>> \in pairs,
         \A q \in pairs : q[1] = x => q[2] = v
  PROVE  Assign(f, pairs)[x] = v
<1>1. \E q \in pairs : q[1] = x
  BY <<x, v>>[1] = x
<1> DEFINE q == CHOOSE q \in pairs : q[1] = x
<1>2. q \in pairs /\ q[1] = x
  BY <1>1
<1>3. q[2] = v
  BY <1>2
<1>4. Assign(f, pairs)[x] = q[2]
  BY <1>1 DEF Assign
<1> QED BY <1>3, <1>4

LEMMA AssignNot ==
  ASSUME NEW f, NEW pairs, NEW x \in Conn, \A q \in pairs : q[1] # x
  PROVE  Assign(f, pairs)[x] = f[x]
BY DEF Assign

LEMMA AssignType ==
  ASSUME NEW f \in [Conn -> Conn \cup {Null}],
         NEW pairs \in SUBSET ((Conn \cup {Null}) \X (Conn \cup {Null}))
  PROVE  Assign(f, pairs) \in [Conn -> Conn \cup {Null}]
<1>1. ASSUME NEW x \in Conn
      PROVE  (IF \E q \in pairs : q[1] = x
              THEN (CHOOSE q \in pairs : q[1] = x)[2] ELSE f[x]) \in Conn \cup {Null}
  <2>1. CASE \E q \in pairs : q[1] = x
    <3> DEFINE q == CHOOSE q \in pairs : q[1] = x
    <3>1. q \in pairs
      BY <2>1
    <3>2. q[2] \in Conn \cup {Null}
      BY <3>1
    <3> QED BY <2>1, <3>2
  <2>2. CASE ~ \E q \in pairs : q[1] = x
    BY <2>2
  <2> QED BY <2>1, <2>2
<1> QED BY <1>1 DEF Assign

\* One assignment, and two.
One(p, x) == {<<p, x>>}
Two(p, x, q, y) == {<<p, x>>, <<q, y>>}

LEMMA AssignNone ==
  ASSUME NEW f, NEW x \in Conn
  PROVE  Assign(f, {})[x] = f[x]
BY AssignNot

LEMMA AssignOne ==
  ASSUME NEW f, NEW a, NEW v, NEW x \in Conn
  PROVE  Assign(f, One(a, v))[x] = IF x = a THEN v ELSE f[x]
<1> DEFINE P == One(a, v)
<1>1. CASE x = a
  <2>1. <<x, v>> \in P /\ \A q \in P : q[1] = x => q[2] = v
    BY <1>1 DEF One
  <2> HIDE DEF P
  <2>2. Assign(f, P)[x] = v
    BY <2>1, AssignIs
  <2> QED BY <1>1, <2>2 DEF P
<1>2. CASE x # a
  <2>1. \A q \in One(a, v) : q[1] # x
    BY <1>2 DEF One
  <2> QED BY <1>2, <2>1, AssignNot
<1> QED BY <1>1, <1>2

LEMMA AssignTwo ==
  ASSUME NEW f, NEW a, NEW v, NEW b, NEW w, a # b, NEW x \in Conn
  PROVE  Assign(f, Two(a, v, b, w))[x] = IF x = a THEN v ELSE IF x = b THEN w ELSE f[x]
<1> DEFINE P == Two(a, v, b, w)
<1>1. CASE x = a
  <2>1. <<x, v>> \in P /\ \A q \in P : q[1] = x => q[2] = v
    BY <1>1 DEF Two
  <2> HIDE DEF P
  <2>2. Assign(f, P)[x] = v
    BY <2>1, AssignIs
  <2> QED BY <1>1, <2>2 DEF P
<1>2. CASE x # a /\ x = b
  <2>1. <<x, w>> \in P /\ \A q \in P : q[1] = x => q[2] = w
    BY <1>2 DEF Two
  <2> HIDE DEF P
  <2>2. Assign(f, P)[x] = w
    BY <2>1, AssignIs
  <2> QED BY <1>2, <2>2 DEF P
<1>3. CASE x # a /\ x # b
  <2>1. \A q \in P : q[1] # x
    BY <1>3 DEF Two
  <2> HIDE DEF P
  <2>2. Assign(f, P)[x] = f[x]
    BY <2>1, AssignNot
  <2> QED BY <1>3, <2>2 DEF P
<1> QED BY <1>1, <1>2, <1>3

\* What the assignments of spider_tree_delete are, for the neighbours of c.
LEMMA AssignmentsAre ==
  ASSUME NEW c, NEW s, NEW b, NEW l, c_small[c] = s, c_big[c] = b, l = Descend(c_big, s)
  PROVE  /\ Heir(c) = IF s # Null THEN s ELSE b
         /\ HangBig(c) = IF s # Null /\ b # Null THEN {<<l, b>>} ELSE {}
         /\ BigUnder(c) = IF s # Null /\ b # Null THEN {<<b, l>>} ELSE {}
<1>1. Heir(c) = IF s # Null THEN s ELSE b
  BY DEF Heir
<1>2. HangBig(c) = IF s # Null /\ b # Null THEN {<<l, b>>} ELSE {}
  BY DEF HangBig, tree_last
<1>3. CASE s # Null /\ b # Null
  <2>1. HangBig(c) = {<<l, b>>}
    BY <1>2, <1>3
  <2>2. BigUnder(c) = {<<<<l, b>>[2], <<l, b>>[1]>>}
    BY <2>1 DEF BigUnder
  <2>3. <<l, b>>[2] = b /\ <<l, b>>[1] = l
    OBVIOUS
  <2> QED BY <1>1, <1>2, <1>3, <2>2, <2>3
<1>4. CASE ~(s # Null /\ b # Null)
  <2>1. HangBig(c) = {}
    BY <1>2, <1>4
  <2>2. BigUnder(c) = {}
    BY <2>1 DEF BigUnder
  <2> QED BY <1>1, <1>2, <1>4, <2>2
<1> QED BY <1>3, <1>4

\* What the assignments give, for p->x = v and x->f.
AssignsTo(c, s, b, l, f, v, p, x) ==
  LET h == IF s # Null THEN s ELSE b
      both == s # Null /\ b # Null
  IN  /\ Assign(f, ToHeir(c, v))[x] = IF x = h THEN v ELSE f[x]
      /\ Assign(f, HangBig(c))[x] = IF both /\ x = l THEN b ELSE f[x]
      /\ Assign(f, One(p, v) \cup HangBig(c))[x] =
           IF x = p THEN v ELSE IF both /\ x = l THEN b ELSE f[x]
      /\ Assign(f, ToHeir(c, v) \cup BigUnder(c))[x] =
           IF x = h THEN v ELSE IF both /\ x = b THEN l ELSE f[x]
      /\ Assign(f, BigUnder(c) \cup (IF s = Null THEN ToHeir(c, v) ELSE {}))[x] =
           IF both /\ x = b THEN l ELSE IF s = Null /\ x = b THEN v ELSE f[x]
      /\ Assign(f, IF s = Null THEN {} ELSE One(s, v))[x] = IF x = s THEN v ELSE f[x]

LEMMA Assigned ==
  ASSUME NEW c, NEW s, NEW b, NEW l, c_small[c] = s, c_big[c] = b, l = Descend(c_big, s),
         s # Null /\ b # Null => s # b, NEW f, NEW v, NEW p, s # Null /\ b # Null => p # l,
         NEW x \in Conn, x # Null
  PROVE  AssignsTo(c, s, b, l, f, v, p, x)
<1>1. /\ Heir(c) = IF s # Null THEN s ELSE b
      /\ HangBig(c) = IF s # Null /\ b # Null THEN {<<l, b>>} ELSE {}
      /\ BigUnder(c) = IF s # Null /\ b # Null THEN {<<b, l>>} ELSE {}
  BY AssignmentsAre
<1>2. CASE s # Null /\ b # Null
  <2>1. /\ ToHeir(c, v) = One(s, v) /\ HangBig(c) = One(l, b)
        /\ One(p, v) \cup HangBig(c) = Two(p, v, l, b)
        /\ ToHeir(c, v) \cup BigUnder(c) = Two(s, v, b, l)
        /\ BigUnder(c) \cup {} = One(b, l)
    BY <1>1, <1>2 DEF ToHeir, One, Two
  <2>2. /\ Assign(f, One(s, v))[x] = IF x = s THEN v ELSE f[x]
        /\ Assign(f, One(l, b))[x] = IF x = l THEN b ELSE f[x]
        /\ Assign(f, One(b, l))[x] = IF x = b THEN l ELSE f[x]
        /\ Assign(f, Two(p, v, l, b))[x] = IF x = p THEN v ELSE IF x = l THEN b ELSE f[x]
        /\ Assign(f, Two(s, v, b, l))[x] = IF x = s THEN v ELSE IF x = b THEN l ELSE f[x]
    BY <1>2, AssignOne, AssignTwo
  <2> QED BY <1>2, <2>1, <2>2, Zenon DEF AssignsTo
<1>3. CASE s # Null /\ b = Null
  <2>1. /\ ToHeir(c, v) = One(s, v) /\ HangBig(c) = {}
        /\ One(p, v) \cup HangBig(c) = One(p, v)
        /\ ToHeir(c, v) \cup BigUnder(c) = One(s, v)
        /\ BigUnder(c) \cup {} = {}
    BY <1>1, <1>3 DEF ToHeir, One, Two
  <2>2. /\ Assign(f, One(s, v))[x] = IF x = s THEN v ELSE f[x]
        /\ Assign(f, One(p, v))[x] = IF x = p THEN v ELSE f[x]
        /\ Assign(f, {})[x] = f[x]
    BY AssignOne, AssignNone
  <2> QED BY <1>3, <2>1, <2>2, Zenon DEF AssignsTo
<1>4. CASE s = Null /\ b # Null
  <2>1. /\ ToHeir(c, v) = One(b, v) /\ HangBig(c) = {}
        /\ One(p, v) \cup HangBig(c) = One(p, v)
        /\ ToHeir(c, v) \cup BigUnder(c) = One(b, v)
        /\ BigUnder(c) \cup ToHeir(c, v) = One(b, v)
    BY <1>1, <1>4 DEF ToHeir, One, Two
  <2>2. /\ Assign(f, One(b, v))[x] = IF x = b THEN v ELSE f[x]
        /\ Assign(f, One(p, v))[x] = IF x = p THEN v ELSE f[x]
        /\ Assign(f, {})[x] = f[x]
    BY AssignOne, AssignNone
  <2> QED BY <1>4, <2>1, <2>2, Zenon DEF AssignsTo
<1>5. CASE s = Null /\ b = Null
  <2>1. /\ ToHeir(c, v) = {} /\ HangBig(c) = {}
        /\ One(p, v) \cup HangBig(c) = One(p, v)
        /\ ToHeir(c, v) \cup BigUnder(c) = {}
        /\ BigUnder(c) \cup ToHeir(c, v) = {}
    BY <1>1, <1>5 DEF ToHeir, One, Two
  <2>2. /\ Assign(f, One(p, v))[x] = IF x = p THEN v ELSE f[x]
        /\ Assign(f, {})[x] = f[x]
    BY AssignOne, AssignNone
  <2> QED BY <1>5, <2>1, <2>2, Zenon DEF AssignsTo
<1> QED BY <1>2, <1>3, <1>4, <1>5

PointersOK ==
  /\ p_small \in [Conn -> Conn \cup {Null}]
  /\ p_big \in [Conn -> Conn \cup {Null}]
  /\ c_small \in [Conn -> Conn \cup {Null}]
  /\ c_big \in [Conn -> Conn \cup {Null}]

\* spider_tree_delete changes the pointers of the neighbours and no others.
LEMMA Unlinks ==
  ASSUME TypeOK, JoinedInv, NEW c \in Member, NEW s, NEW b, NEW l, NEW ps, NEW pb,
         NEW pos, NEW lo, NEW hi,
         Around(c, s, b, l, ps, pb, pos, lo, hi), l = Descend(c_big, s), tree_delete(c)
  PROVE  Unlinked(c, s, b, l, ps, pb)
<1> DEFINE h == IF s # Null THEN s ELSE b
           both == s # Null /\ b # Null
<1>1. \A x \in Member : x \in Conn /\ x # Null
  BY JoinedBound, NullAssumption
<1>2. c_small[c] = s /\ c_big[c] = b /\ p_small[c] = ps /\ p_big[c] = pb
  BY DEF Around
<1>3. /\ both => s # b /\ ps # l
      /\ s # Null => p_small[s] = Null /\ p_big[s] = c
      /\ b # Null => p_big[b] = Null /\ p_small[b] = c
      /\ ps # Null => pb = Null
  BY DEF Around, SmallChild, BigChild, LastBelow, Parents
<1> SUFFICES ASSUME NEW x \in Member, x # c
             PROVE  /\ c_small'[x] = IF x = pb THEN h ELSE c_small[x]
                    /\ c_big'[x] = IF x = ps THEN h ELSE IF both /\ x = l THEN b ELSE c_big[x]
                    /\ p_big'[x] = IF x = h THEN pb ELSE p_big[x]
                    /\ p_small'[x] = IF x = h THEN ps ELSE IF x = b THEN l ELSE p_small[x]
  BY DEF Unlinked
<1>4. x \in Conn /\ x # Null
  BY <1>1
<1>5. Heir(c) = h
  BY <1>2 DEF Heir
<1>6. ASSUME NEW f, NEW v
      PROVE  /\ Assign(f, ToHeir(c, v))[x] = IF x = h THEN v ELSE f[x]
             /\ Assign(f, HangBig(c))[x] = IF both /\ x = l THEN b ELSE f[x]
             /\ Assign(f, One(ps, v) \cup HangBig(c))[x] =
                  IF x = ps THEN v ELSE IF both /\ x = l THEN b ELSE f[x]
             /\ Assign(f, ToHeir(c, v) \cup BigUnder(c))[x] =
                  IF x = h THEN v ELSE IF both /\ x = b THEN l ELSE f[x]
             /\ Assign(f, BigUnder(c) \cup (IF s = Null THEN ToHeir(c, v) ELSE {}))[x] =
                  IF both /\ x = b THEN l ELSE IF s = Null /\ x = b THEN v ELSE f[x]
             /\ Assign(f, IF s = Null THEN {} ELSE One(s, v))[x] = IF x = s THEN v ELSE f[x]
  <2>1. AssignsTo(c, s, b, l, f, v, ps, x)
    BY <1>2, <1>3, <1>4, Assigned
  <2> QED BY <2>1 DEF AssignsTo
<1>7. CASE DeleteBelowSmall(c)
  <2>1. /\ p_small' = Assign(p_small, ToHeir(c, ps) \cup BigUnder(c))
        /\ p_big' = Assign(p_big, IF s = Null THEN {} ELSE One(s, Null))
        /\ c_big' = Assign(c_big, One(ps, h) \cup HangBig(c))
        /\ c_small' = c_small /\ ps # Null
    BY <1>2, <1>5, <1>7 DEF DeleteBelowSmall, One
  <2> HIDE DEF h
  <2>2. /\ p_small'[x] = IF x = h THEN ps ELSE IF both /\ x = b THEN l ELSE p_small[x]
        /\ p_big'[x] = IF x = s THEN Null ELSE p_big[x]
        /\ c_big'[x] = IF x = ps THEN h ELSE IF both /\ x = l THEN b ELSE c_big[x]
    BY <1>6, <2>1
  <2>3. c_small'[x] = IF x = pb THEN h ELSE c_small[x]
    BY <1>3, <1>4, <2>1
  <2>4. p_big'[x] = IF x = h THEN pb ELSE p_big[x]
    BY <1>3, <1>4, <2>1, <2>2 DEF h
  <2>5. p_small'[x] = IF x = h THEN ps ELSE IF x = b THEN l ELSE p_small[x]
    BY <1>4, <2>2 DEF h
  <2> QED BY <2>2, <2>3, <2>4, <2>5
<1>8. CASE DeleteBelowBig(c)
  <2>1. /\ p_small' = Assign(p_small, BigUnder(c) \cup (IF s = Null THEN ToHeir(c, Null) ELSE {}))
        /\ p_big' = Assign(p_big, ToHeir(c, pb))
        /\ c_small' = Assign(c_small, One(pb, h))
        /\ c_big' = Assign(c_big, HangBig(c)) /\ ps = Null /\ pb # Null
    BY <1>2, <1>5, <1>8 DEF DeleteBelowBig, One
  <2> HIDE DEF h
  <2>2. /\ p_small'[x] = IF both /\ x = b THEN l ELSE IF s = Null /\ x = b THEN Null ELSE p_small[x]
        /\ p_big'[x] = IF x = h THEN pb ELSE p_big[x]
        /\ c_big'[x] = IF both /\ x = l THEN b ELSE c_big[x]
    BY <1>6, <2>1
  <2>3. c_small'[x] = IF x = pb THEN h ELSE c_small[x]
    BY <1>4, <2>1, AssignOne
  <2>4. c_big'[x] = IF x = ps THEN h ELSE IF both /\ x = l THEN b ELSE c_big[x]
    BY <1>4, <2>1, <2>2
  <2>5. p_small'[x] = IF x = h THEN ps ELSE IF x = b THEN l ELSE p_small[x]
    BY <1>3, <1>4, <2>1, <2>2 DEF h
  <2> QED BY <2>2, <2>3, <2>4, <2>5
<1>9. CASE DeleteTop(c)
  <2>1. /\ p_small' = Assign(p_small, ToHeir(c, Null) \cup BigUnder(c))
        /\ p_big' = Assign(p_big, IF s = Null THEN {} ELSE One(s, Null))
        /\ c_big' = Assign(c_big, HangBig(c))
        /\ c_small' = c_small /\ ps = Null /\ pb = Null
    BY <1>2, <1>5, <1>9 DEF DeleteTop, One
  <2> HIDE DEF h
  <2>2. /\ p_small'[x] = IF x = h THEN Null ELSE IF both /\ x = b THEN l ELSE p_small[x]
        /\ p_big'[x] = IF x = s THEN Null ELSE p_big[x]
        /\ c_big'[x] = IF both /\ x = l THEN b ELSE c_big[x]
    BY <1>6, <2>1
  <2>3. c_small'[x] = IF x = pb THEN h ELSE c_small[x]
    BY <1>4, <2>1
  <2>4. c_big'[x] = IF x = ps THEN h ELSE IF both /\ x = l THEN b ELSE c_big[x]
    BY <1>4, <2>1, <2>2
  <2>5. p_big'[x] = IF x = h THEN pb ELSE p_big[x]
    BY <1>3, <1>4, <2>1, <2>2 DEF h
  <2>6. p_small'[x] = IF x = h THEN ps ELSE IF x = b THEN l ELSE p_small[x]
    BY <1>4, <2>1, <2>2 DEF h
  <2> QED BY <2>3, <2>4, <2>5, <2>6
<1> QED BY <1>7, <1>8, <1>9 DEF tree_delete

LEMMA UnlinkedType ==
  ASSUME TypeOK, JoinedInv, NEW c \in Member, NEW s, NEW b, NEW l, NEW ps, NEW pb,
         NEW pos, NEW lo, NEW hi,
         Around(c, s, b, l, ps, pb, pos, lo, hi), l = Descend(c_big, s), tree_delete(c)
  PROVE  PointersOK'
<1> DEFINE CN == Conn \cup {Null}
           P == SUBSET (CN \X CN)
<1>1. c \in Conn /\ Member \subseteq Conn
  BY JoinedBound
<1>2. c_small[c] = s /\ c_big[c] = b /\ p_small[c] = ps /\ p_big[c] = pb
  BY DEF Around
<1>3. s \in CN /\ b \in CN /\ ps \in CN /\ pb \in CN /\ Null \in CN
  BY <1>1, <1>2 DEF TypeOK
<1>4. s # Null => l \in CN
  BY <1>1 DEF Around, LastBelow
<1>5. Heir(c) = IF s # Null THEN s ELSE b
  BY <1>2 DEF Heir
<1>6. Heir(c) \in CN
  BY <1>3, <1>5
<1>7. HangBig(c) \in P /\ BigUnder(c) \in P
  BY <1>2, <1>3, <1>4, AssignmentsAre
<1>8. ASSUME NEW x \in CN PROVE ToHeir(c, x) \in P
  BY <1>6 DEF ToHeir
<1>9. /\ {<<ps, Heir(c)>>} \in P /\ {<<pb, Heir(c)>>} \in P
      /\ (IF s = Null THEN {} ELSE {<<s, Null>>}) \in P
  BY <1>3, <1>6
<1>10. PointersOK
  BY DEF TypeOK, PointersOK
<1>11. ASSUME NEW f \in [Conn -> CN], NEW p \in P PROVE Assign(f, p) \in [Conn -> CN]
  BY AssignType
<1>12. ASSUME NEW p \in P, NEW q \in P PROVE p \cup q \in P
  OBVIOUS
<1>13. ToHeir(c, ps) \in P /\ ToHeir(c, pb) \in P /\ ToHeir(c, Null) \in P
       /\ (IF s = Null THEN ToHeir(c, Null) ELSE {}) \in P
  BY <1>3, <1>8
<1> HIDE DEF P, CN
<1>14. CASE DeleteBelowSmall(c)
  <2>1. ToHeir(c, ps) \cup BigUnder(c) \in P /\ {<<ps, Heir(c)>>} \cup HangBig(c) \in P
    BY <1>7, <1>9, <1>12, <1>13
  <2> QED BY <1>2, <1>9, <1>10, <1>11, <1>14, <2>1 DEF DeleteBelowSmall, PointersOK, CN
<1>15. CASE DeleteBelowBig(c)
  <2>1. BigUnder(c) \cup (IF s = Null THEN ToHeir(c, Null) ELSE {}) \in P
    BY <1>7, <1>12, <1>13
  <2> QED BY <1>2, <1>7, <1>9, <1>10, <1>11, <1>13, <1>15, <2>1 DEF DeleteBelowBig, PointersOK, CN
<1>16. CASE DeleteTop(c)
  <2>1. ToHeir(c, Null) \cup BigUnder(c) \in P
    BY <1>7, <1>12, <1>13
  <2> QED BY <1>2, <1>7, <1>9, <1>10, <1>11, <1>16, <2>1 DEF DeleteTop, PointersOK, CN
<1> QED BY <1>14, <1>15, <1>16 DEF tree_delete

\* The tree without c.
LEMMA DeleteShape ==
  ASSUME TypeOK, JoinedInv, NEW c \in Member, NEW k \in Int, TakenOut(c, k),
         NEW pos \in [Conn -> Int], NEW lo \in [Conn -> Int], NEW hi \in [Conn -> Int],
         Shape(pos, lo, hi),
         NEW s, NEW b, NEW l, NEW ps, NEW pb,
         Around(c, s, b, l, ps, pb, pos, lo, hi),
         Unlinked(c, s, b, l, ps, pb)
  PROVE  TreeInv'
<1> DEFINE n == Len(joined)
           h == IF s # Null THEN s ELSE b
           both == s # Null /\ b # Null
<1>0. DOMAIN joined = 1..n /\ Member \subseteq Conn
  BY JoinedBound
<1>1. n \in Nat /\ 1 <= k /\ k <= n
  BY JoinedBound DEF TakenOut
<1>2. pos[c] = k /\ c \in Conn /\ c # Null
  BY <1>0, NullAssumption DEF Shape, SpanInv, TakenOut
<1>3. PICK np \in [Conn -> Int] : \A x \in Conn :
        np[x] = IF pos[x] > k THEN pos[x] - 1 ELSE pos[x]
  <2>1. [x \in Conn |-> IF pos[x] > k THEN pos[x] - 1 ELSE pos[x]] \in [Conn -> Int]
    BY <1>1
  <2> QED BY <2>1
<1>4. PICK nl \in [Conn -> Int] : \A x \in Conn :
        nl[x] = IF lo[x] > k THEN lo[x] - 1 ELSE lo[x]
  <2>1. [x \in Conn |-> IF lo[x] > k THEN lo[x] - 1 ELSE lo[x]] \in [Conn -> Int]
    BY <1>1
  <2> QED BY <2>1
<1>5. PICK nh \in [Conn -> Int] : \A x \in Conn :
        nh[x] = IF hi[x] = k - 1 /\ s # Null THEN hi[c] - 1
                ELSE IF hi[x] >= k THEN hi[x] - 1 ELSE hi[x]
  <2>0. hi[c] \in Int
    BY <1>2
  <2>1. [x \in Conn |-> IF hi[x] = k - 1 /\ s # Null THEN hi[c] - 1
                        ELSE IF hi[x] >= k THEN hi[x] - 1 ELSE hi[x]] \in [Conn -> Int]
    BY <1>1, <2>0
  <2> QED BY <2>1
<1>6. ASSUME NEW x \in Member
      PROVE  /\ x \in Conn /\ x # Null
             /\ pos[x] \in Int /\ lo[x] \in Int /\ hi[x] \in Int
             /\ 1 <= lo[x] /\ lo[x] <= pos[x] /\ pos[x] <= hi[x] /\ hi[x] <= n
             /\ np[x] = IF pos[x] > k THEN pos[x] - 1 ELSE pos[x]
             /\ nl[x] = IF lo[x] > k THEN lo[x] - 1 ELSE lo[x]
             /\ nh[x] = IF hi[x] = k - 1 /\ s # Null THEN hi[c] - 1
                        ELSE IF hi[x] >= k THEN hi[x] - 1 ELSE hi[x]
  <2>1. x \in Conn /\ x # Null
    BY <1>0, NullAssumption
  <2>3. 1 <= lo[x] /\ lo[x] <= pos[x] /\ pos[x] <= hi[x] /\ hi[x] <= n
    BY DEF Shape, SpanInv
  <2> QED BY <1>3, <1>4, <1>5, <2>1, <2>3
<1>7. /\ lo[c] \in Int /\ hi[c] \in Int /\ 1 <= lo[c] /\ lo[c] <= k /\ k <= hi[c] /\ hi[c] <= n
  BY <1>2, <1>6
<1>8. \A x, y \in Member : pos[x] = pos[y] => x = y
  <2>1. \A x \in Member : joined[pos[x]] = x
    BY Positions DEF Shape
  <2> QED BY <2>1
<1>9. \A x \in Member : x # c => pos[x] # k
  BY <1>2, <1>8
<1>10. s = Null => lo[c] = k
  BY <1>2 DEF Around, SmallChild
<1>11. s # Null => /\ s \in Member /\ s # c /\ p_big[s] = c /\ p_small[s] = Null
                   /\ lo[s] = lo[c] /\ hi[s] = k - 1
  BY <1>2 DEF Around, SmallChild
<1>12. b = Null => hi[c] = k
  BY <1>2 DEF Around, BigChild
<1>13. b # Null => /\ b \in Member /\ b # c /\ p_small[b] = c /\ p_big[b] = Null
                   /\ lo[b] = k + 1 /\ hi[b] = hi[c]
  BY <1>2 DEF Around, BigChild
<1>14. both => s # b
  BY DEF Around
<1>15. s # Null => /\ l \in Member /\ l # c /\ c_big[l] = Null /\ l # ps
                   /\ pos[l] = k - 1 /\ hi[l] = k - 1
  BY <1>2 DEF Around, LastBelow
<1>16. ps # Null => /\ ps \in Member /\ ps # c /\ c_big[ps] = c /\ pb = Null
                    /\ pos[ps] = lo[c] - 1 /\ hi[ps] = hi[c]
  BY DEF Around, Parents
<1>17. pb # Null => /\ pb \in Member /\ pb # c /\ c_small[pb] = c /\ ps = Null
                    /\ pos[pb] = hi[c] + 1 /\ lo[pb] = lo[c]
  BY DEF Around, Parents
<1>18. ps = Null /\ pb = Null => lo[c] = 1 /\ hi[c] = n
  BY DEF Around, Parents
<1>19. c_small[c] = s /\ c_big[c] = b /\ p_small[c] = ps /\ p_big[c] = pb
  BY DEF Around
<1>20. ASSUME NEW x \in Member, x # c
       PROVE  /\ c_small'[x] = IF x = pb THEN h ELSE c_small[x]
              /\ c_big'[x] = IF x = ps THEN h ELSE IF both /\ x = l THEN b ELSE c_big[x]
              /\ p_big'[x] = IF x = h THEN pb ELSE p_big[x]
              /\ p_small'[x] = IF x = h THEN ps ELSE IF x = b THEN l ELSE p_small[x]
  BY <1>20 DEF Unlinked
<1>21. Member' = Member \ {c} /\ Len(joined') = n - 1 /\ DOMAIN joined' = 1..n - 1
  <2>1. joined' \in Seq(Conn) /\ Len(joined') = n - 1 /\ Member' = Member \ {c}
    BY DEF TakenOut
  <2> QED BY <2>1
\* The span of the heir.
<1>22. h # Null => /\ h \in Member /\ h # c
                   /\ nl[h] = lo[c] /\ nh[h] = hi[c] - 1
  <2>1. CASE s # Null
    BY <1>1, <1>6, <1>7, <1>11, <2>1
  <2>2. CASE s = Null /\ b # Null
    BY <1>1, <1>6, <1>7, <1>10, <1>13, <2>2
  <2> QED BY <2>1, <2>2
<1>23. h = Null => lo[c] = k /\ hi[c] = k
  BY <1>10, <1>12
<1>24. h = Null => s = Null /\ b = Null
  OBVIOUS
<1> HIDE DEF n
<1>25. SpanInv(np, nl, nh)'
  <2>1. ASSUME NEW i \in 1..n - 1 PROVE np[joined'[i]] = i
    <3>1. CASE i < k
      <4>1. i \in 1..n /\ joined'[i] = joined[i]
        BY <1>1, <3>1 DEF TakenOut, n
      <4>2. joined[i] \in Member /\ pos[joined[i]] = i
        BY <4>1, Positions DEF Shape, n
      <4> QED BY <1>1, <1>6, <3>1, <4>1, <4>2
    <3>2. CASE i >= k
      <4>1. i + 1 \in 1..n /\ joined'[i] = joined[i + 1]
        BY <1>1, <3>2 DEF TakenOut, n
      <4>2. joined[i + 1] \in Member /\ pos[joined[i + 1]] = i + 1
        BY <4>1, Positions DEF Shape, n
      <4> QED BY <1>1, <1>6, <3>2, <4>1, <4>2
    <3> QED BY <1>1, <3>1, <3>2
  <2>2. ASSUME NEW x \in Member, x # c
        PROVE  1 <= nl[x] /\ nl[x] <= np[x] /\ np[x] <= nh[x] /\ nh[x] <= n - 1
    <3>1. pos[x] # k
      BY <1>9, <2>2
    <3> QED BY <1>1, <1>6, <1>7, <3>1
  <2> QED BY <1>21, <2>1, <2>2 DEF SpanInv
<1> HIDE DEF h
<1>26. SmallInv(np, nl, nh)'
  <2> SUFFICES ASSUME NEW x \in Member, x # c
               PROVE  IF c_small'[x] = Null THEN nl[x] = np[x]
                      ELSE /\ c_small'[x] \in Member /\ c_small'[x] # c
                           /\ p_big'[c_small'[x]] = x
                           /\ nl[c_small'[x]] = nl[x]
                           /\ nh[c_small'[x]] = np[x] - 1
    BY <1>21 DEF SmallInv
  <2>0. pos[x] # k
    BY <1>9
  <2>1. CASE x = pb
    <3>1. c_small'[x] = h /\ pos[x] = hi[c] + 1 /\ lo[x] = lo[c]
      BY <1>6, <1>17, <1>20, <2>1
    <3>2. np[x] = hi[c] /\ nl[x] = lo[c]
      BY <1>1, <1>6, <1>7, <3>1
    <3>3. CASE h = Null
      BY <1>23, <3>1, <3>2, <3>3
    <3>4. CASE h # Null
      <4>1. p_big'[h] = x
        BY <1>20, <1>22, <2>1, <3>4
      <4> QED BY <1>22, <3>1, <3>2, <3>4, <4>1
    <3> QED BY <3>3, <3>4
  <2>2. CASE x # pb /\ c_small[x] # Null
    <3> DEFINE y == c_small[x]
    <3>1. c_small'[x] = y
      BY <1>20, <2>2
    <3>2. y \in Member /\ p_big[y] = x /\ lo[y] = lo[x] /\ hi[y] = pos[x] - 1
      BY <2>2 DEF Shape, SmallInv
    <3> HIDE DEF y
    <3>3. y # c /\ y # h
      BY <1>6, <1>11, <1>13, <1>19, <2>2, <3>2 DEF h
    <3>4. p_big'[y] = x
      BY <1>20, <3>2, <3>3
    <3>5. nl[y] = nl[x] /\ nh[y] = np[x] - 1
      BY <1>1, <1>6, <2>0, <3>2
    <3>6. y # Null
      BY <1>6, <3>2
    <3> QED BY <3>1, <3>2, <3>3, <3>4, <3>5, <3>6
  <2>3. CASE x # pb /\ c_small[x] = Null
    <3>1. c_small'[x] = Null
      BY <1>20, <2>3
    <3>2. lo[x] = pos[x]
      BY <2>3 DEF Shape, SmallInv
    <3> QED BY <1>1, <1>6, <2>0, <3>1, <3>2
  <2> QED BY <2>1, <2>2, <2>3
<1>27. BigInv(np, nl, nh)'
  <2> SUFFICES ASSUME NEW x \in Member, x # c
               PROVE  IF c_big'[x] = Null THEN nh[x] = np[x]
                      ELSE /\ c_big'[x] \in Member /\ c_big'[x] # c
                           /\ p_small'[c_big'[x]] = x
                           /\ nl[c_big'[x]] = np[x] + 1
                           /\ nh[c_big'[x]] = nh[x]
    BY <1>21 DEF BigInv
  <2>0. pos[x] # k
    BY <1>9
  <2>1. CASE x = ps
    <3>1. c_big'[x] = h /\ pos[x] = lo[c] - 1 /\ hi[x] = hi[c]
      BY <1>6, <1>16, <1>20, <2>1
    <3>2. np[x] = lo[c] - 1 /\ nh[x] = hi[c] - 1
      BY <1>1, <1>6, <1>7, <3>1
    <3>3. CASE h = Null
      BY <1>23, <3>1, <3>2, <3>3
    <3>4. CASE h # Null
      <4>1. p_small'[h] = x
        BY <1>20, <1>22, <2>1, <3>4
      <4>2. nl[h] = np[x] + 1 /\ nh[h] = nh[x]
        BY <1>7, <1>22, <3>2, <3>4
      <4> QED BY <1>22, <3>1, <3>4, <4>1, <4>2
    <3> QED BY <3>3, <3>4
  <2>2. CASE x # ps /\ both /\ x = l
    <3>1. c_big'[x] = b /\ b # h
      BY <1>14, <1>20, <2>2 DEF h
    <3>2. b \in Member /\ b # c /\ lo[b] = k + 1 /\ hi[b] = hi[c]
      BY <1>13, <2>2
    <3>3. p_small'[b] = x
      BY <1>20, <2>2, <3>1, <3>2
    <3>4. pos[x] = k - 1 /\ hi[x] = k - 1
      BY <1>15, <2>2
    <3>5. nl[b] = np[x] + 1
      BY <1>1, <1>6, <3>2, <3>4
    <3>6. k + 1 <= hi[c]
      BY <1>6, <1>7, <3>2
    <3>7. nh[b] = hi[c] - 1
      BY <1>1, <1>6, <1>7, <3>2, <3>6
    <3>8. nh[x] = hi[c] - 1
      BY <1>6, <2>2, <3>4
    <3>9. b # Null
      BY <2>2
    <3> QED BY <3>1, <3>2, <3>3, <3>5, <3>7, <3>8, <3>9
  <2>3. CASE x # ps /\ ~(both /\ x = l) /\ c_big[x] # Null
    <3> DEFINE y == c_big[x]
    <3>1. c_big'[x] = y
      BY <1>20, <2>3
    <3>2. y \in Member /\ p_small[y] = x /\ lo[y] = pos[x] + 1 /\ hi[y] = hi[x]
      BY <2>3 DEF Shape, BigInv
    <3> HIDE DEF y
    <3>3. y # c /\ y # h /\ y # b
      BY <1>6, <1>11, <1>13, <1>19, <2>3, <3>2 DEF h
    <3>4. p_small'[y] = x
      BY <1>20, <3>2, <3>3
    <3>5. nl[y] = np[x] + 1 /\ nh[y] = nh[x]
      BY <1>1, <1>6, <2>0, <3>2
    <3>6. y # Null
      BY <1>6, <3>2
    <3> QED BY <3>1, <3>2, <3>3, <3>4, <3>5, <3>6
  <2>4. CASE x # ps /\ ~(both /\ x = l) /\ c_big[x] = Null
    <3>1. c_big'[x] = Null
      BY <1>20, <2>4
    <3>2. hi[x] = pos[x]
      BY <2>4 DEF Shape, BigInv
    <3>3. CASE hi[x] = k - 1 /\ s # Null
      <4>1. x = l
        BY <1>8, <1>15, <3>2, <3>3
      <4>2. hi[c] = k
        BY <1>12, <2>4, <3>3, <4>1
      <4>3. nh[x] = hi[c] - 1
        BY <1>6, <3>3
      <4>4. pos[x] = k - 1 /\ ~(pos[x] > k)
        BY <1>1, <3>2, <3>3
      <4>5. np[x] = k - 1
        BY <1>6, <4>4
      <4> QED BY <1>1, <3>1, <4>2, <4>3, <4>5
    <3>4. CASE ~(hi[x] = k - 1 /\ s # Null)
      <4>1. nh[x] = IF hi[x] >= k THEN hi[x] - 1 ELSE hi[x]
        BY <1>6, <3>4
      <4> QED BY <1>1, <1>6, <2>0, <3>1, <3>2, <4>1
    <3> QED BY <3>3, <3>4
  <2> QED BY <2>1, <2>2, <2>3, <2>4
<1>28. ParentInv(nl, nh)'
  <2> SUFFICES ASSUME NEW x \in Member, x # c
               PROVE  /\ p_big'[x] # Null =>
                           /\ p_big'[x] \in Member /\ p_big'[x] # c
                           /\ c_small'[p_big'[x]] = x /\ p_small'[x] = Null
                      /\ p_small'[x] # Null =>
                           /\ p_small'[x] \in Member /\ p_small'[x] # c
                           /\ c_big'[p_small'[x]] = x
                      /\ p_small'[x] = Null /\ p_big'[x] = Null => nl[x] = 1 /\ nh[x] = n - 1
    BY <1>21 DEF ParentInv
  <2>0. x # Null
    BY <1>6
  <2>1. CASE x = h
    <3>1. p_big'[x] = pb /\ p_small'[x] = ps
      BY <1>20, <2>1
    <3>2. pb # Null => c_small'[pb] = x
      BY <1>17, <1>20, <2>1
    <3>3. ps # Null => c_big'[ps] = x
      BY <1>16, <1>20, <2>1
    <3>4. pb = Null /\ ps = Null => nl[x] = 1 /\ nh[x] = n - 1
      BY <1>18, <1>22, <2>0, <2>1
    <3> QED BY <1>16, <1>17, <3>1, <3>2, <3>3, <3>4
  <2>2. CASE x # h /\ x = b
    <3>1. both
      BY <2>0, <2>2 DEF h
    <3>2. p_big'[x] = Null /\ p_small'[x] = l
      BY <1>13, <1>20, <2>0, <2>2
    <3>3. l \in Member /\ l # c /\ l # ps /\ l # Null
      BY <1>6, <1>15, <3>1
    <3>4. c_big'[l] = x
      BY <1>20, <2>2, <3>1, <3>3
    <3> QED BY <3>2, <3>3, <3>4
  <2>3. CASE x # h /\ x # b
    <3>1. p_big'[x] = p_big[x] /\ p_small'[x] = p_small[x]
      BY <1>20, <2>3
    <3>2. x # s
      BY <2>0, <2>3 DEF h
    <3>3. p_big[x] # Null => p_big[x] \in Member /\ c_small[p_big[x]] = x /\ p_small[x] = Null
      BY DEF Shape, ParentInv
    <3>4. p_small[x] # Null => p_small[x] \in Member /\ c_big[p_small[x]] = x
      BY DEF Shape, ParentInv
    <3>5. ASSUME p_big[x] # Null PROVE p_big[x] # c /\ c_small'[p_big[x]] = x
      <4>1. p_big[x] # c
        BY <1>19, <3>2, <3>3, <3>5
      <4>2. p_big[x] # pb
        BY <1>17, <3>3, <3>5
      <4> QED BY <1>20, <3>3, <3>5, <4>1, <4>2
    <3>6. ASSUME p_small[x] # Null PROVE p_small[x] # c /\ c_big'[p_small[x]] = x
      <4>1. p_small[x] # c
        BY <1>19, <2>3, <3>4, <3>6
      <4>2. p_small[x] # ps
        BY <1>16, <3>4, <3>6
      <4>3. ~(both /\ p_small[x] = l)
        BY <1>15, <2>0, <3>4, <3>6
      <4> QED BY <1>20, <3>4, <3>6, <4>1, <4>2, <4>3
    <3>7. p_small[x] = Null /\ p_big[x] = Null => lo[x] = 1 /\ hi[x] = n
      BY DEF Shape, ParentInv, n
    <3>8. p_small[x] = Null /\ p_big[x] = Null => nl[x] = 1 /\ nh[x] = n - 1
      BY <1>1, <1>6, <3>7
    <3> QED BY <3>1, <3>3, <3>4, <3>5, <3>6, <3>8
  <2> QED BY <2>1, <2>2, <2>3
<1>29. RoomInv(np)'
  <2> SUFFICES ASSUME NEW x \in Member, x # c, NEW y \in Member, y # c, np[y] = np[x] + 1
               PROVE  c_big'[x] = Null <=> c_small'[y] # Null
    BY <1>21 DEF RoomInv
  <2>0. pos[x] # k /\ pos[y] # k /\ x # Null /\ y # Null
    BY <1>6, <1>9
  <2>1. pos[y] = pos[x] + 1 \/ (pos[x] = k - 1 /\ pos[y] = k + 1)
    BY <1>1, <1>6, <2>0
  <2>2. /\ c_big'[x] = IF x = ps THEN h ELSE IF both /\ x = l THEN b ELSE c_big[x]
        /\ c_small'[y] = IF y = pb THEN h ELSE c_small[y]
    BY <1>20
  <2>3. CASE pos[y] = pos[x] + 1
    <3>1. c_big[x] = Null <=> c_small[y] # Null
      BY <2>3 DEF Shape, RoomInv
    <3>2. x = ps => h # Null /\ c_big[x] # Null
      <4>1. x = ps => c_big[x] # Null /\ pos[x] = lo[c] - 1
        BY <1>2, <1>16, <2>0
      <4>2. x = ps /\ h = Null => pos[y] = k
        BY <1>1, <1>23, <2>3, <4>1
      <4> QED BY <2>0, <4>1, <4>2
    <3>3. ~(both /\ x = l)
      <4>1. both /\ x = l => pos[y] = k
        BY <1>1, <1>15, <2>3
      <4> QED BY <2>0, <4>1
    <3>4. y = pb => h # Null /\ c_small[y] # Null
      <4>1. y = pb => c_small[y] # Null /\ pos[y] = hi[c] + 1
        BY <1>2, <1>17, <2>0
      <4>2. y = pb /\ h = Null => pos[y] = k + 1
        BY <1>23, <4>1
      <4>3. pos[y] = k + 1 => pos[x] = k
        BY <1>1, <1>6, <2>3
      <4> QED BY <2>0, <4>1, <4>2, <4>3
    <3> QED BY <2>2, <3>1, <3>2, <3>3, <3>4
  <2>4. CASE pos[x] = k - 1 /\ pos[y] = k + 1
    <3>1. c_big[x] = Null <=> s # Null
      <4>1. pos[c] = pos[x] + 1
        BY <1>1, <1>2, <2>4
      <4> QED BY <1>19, <4>1 DEF Shape, RoomInv
    <3>2. b = Null <=> c_small[y] # Null
      <4>1. pos[y] = pos[c] + 1
        BY <1>2, <2>4
      <4> QED BY <1>19, <4>1 DEF Shape, RoomInv
    <3>3. s # Null => x = l /\ x # ps
      BY <1>8, <1>15, <2>4
    <3>4. y = pb => c_small[y] # Null
      BY <1>2, <1>17, <2>0
    <3>5. CASE s # Null
      BY <2>2, <3>1, <3>2, <3>3, <3>4, <3>5 DEF h
    <3>6. CASE s = Null /\ b # Null
      BY <2>2, <3>1, <3>2, <3>4, <3>6 DEF h
    <3>7. CASE s = Null /\ b = Null
      <4>1. h = Null /\ lo[c] = k /\ hi[c] = k
        BY <1>10, <1>12, <3>7 DEF h
      <4>2. CASE ps # Null
        <5>1. x = ps /\ pb = Null
          BY <1>8, <1>16, <2>4, <4>1, <4>2
        <5> QED BY <2>0, <2>2, <3>2, <3>7, <4>1, <5>1
      <4>3. CASE pb # Null
        <5>1. y = pb /\ ps = Null
          BY <1>8, <1>17, <2>4, <4>1, <4>3
        <5> QED BY <2>0, <2>2, <3>1, <3>7, <4>1, <5>1
      <4>4. CASE ps = Null /\ pb = Null
        <5>1. pos[x] = 0
          BY <1>18, <2>4, <4>1, <4>4
        <5> QED BY <1>6, <5>1
      <4> QED BY <4>2, <4>3, <4>4
    <3> QED BY <3>5, <3>6, <3>7
  <2> QED BY <2>1, <2>3, <2>4
<1> QED BY <1>25, <1>26, <1>27, <1>28, <1>29 DEF TreeInv, Shape

\* Nothing but the heir of the top takes its place.
LEMMA DeleteTree ==
  ASSUME TypeOK, JoinedInv, TreeInv, NEW c \in Member,
         joined' = RemoveFirst(joined, c), priority' = priority, freed' = freed \cup {c},
         tree_delete(c)
  PROVE  /\ PointersOK' /\ JoinedInv' /\ TreeInv'
         /\ joined' \in Seq(Conn) /\ Member' = Member \ {c} /\ Len(joined') = Len(joined) - 1
         /\ \E k \in 1..Len(joined) : TakenOut(c, k)
         /\ \A x \in Member : /\ x # c /\ p_small[x] = Null /\ p_big[x] = Null =>
                                   p_small'[x] = Null /\ p_big'[x] = Null
         /\ p_small[c] = Null /\ p_big[c] = Null =>
              IF Heir(c) = Null THEN Len(joined) = 1
              ELSE Heir(c) \in Member' /\ p_small'[Heir(c)] = Null /\ p_big'[Heir(c)] = Null
<1>1. PICK pos \in [Conn -> Int], lo \in [Conn -> Int], hi \in [Conn -> Int] : Shape(pos, lo, hi)
  BY DEF TreeInv
<1>2. PICK s, b, l, ps, pb : /\ s = c_small[c] /\ b = c_big[c] /\ l = Descend(c_big, s)
                             /\ ps = p_small[c] /\ pb = p_big[c]
  OBVIOUS
<1>3. Around(c, s, b, l, ps, pb, pos, lo, hi)
  BY <1>1, <1>2, AroundIs
<1>4. Unlinked(c, s, b, l, ps, pb)
  BY <1>2, <1>3, Unlinks
<1>5. PointersOK'
  BY <1>2, <1>3, UnlinkedType
<1>6. JoinedInv' /\ \E k \in 1..Len(joined) : TakenOut(c, k)
  BY JoinedWithout
<1>7. PICK k \in 1..Len(joined) : TakenOut(c, k)
  BY <1>6
<1>8. k \in Int
  BY JoinedBound
<1>9. TreeInv'
  BY <1>1, <1>3, <1>4, <1>7, <1>8, DeleteShape
<1>10. joined' \in Seq(Conn) /\ Member' = Member \ {c} /\ Len(joined') = Len(joined) - 1
  BY <1>7 DEF TakenOut
<1>11. \A x \in Member : x \in Conn /\ x # Null
  BY JoinedBound, NullAssumption
<1>12. /\ s # Null => s \in Member /\ s # c /\ p_big[s] = c
       /\ b # Null => b \in Member /\ b # c /\ p_small[b] = c
  BY <1>3 DEF Around, SmallChild, BigChild
<1>13. ASSUME NEW x \in Member, x # c, p_small[x] = Null, p_big[x] = Null
       PROVE  p_small'[x] = Null /\ p_big'[x] = Null
  <2>1. x # s /\ x # b
    BY <1>11, <1>12, <1>13
  <2> QED BY <1>4, <1>13, <2>1 DEF Unlinked
<1>14. ASSUME p_small[c] = Null, p_big[c] = Null
       PROVE  IF Heir(c) = Null THEN Len(joined) = 1
              ELSE Heir(c) \in Member' /\ p_small'[Heir(c)] = Null /\ p_big'[Heir(c)] = Null
  <2>1. Heir(c) = IF s # Null THEN s ELSE b
    BY <1>2 DEF Heir
  <2>2. ps = Null /\ pb = Null
    BY <1>2, <1>14
  <2>3. CASE Heir(c) = Null
    <3>1. s = Null /\ b = Null
      BY <2>1, <2>3
    <3>2. lo[c] = pos[c] /\ hi[c] = pos[c] /\ lo[c] = 1 /\ hi[c] = Len(joined)
      BY <1>3, <2>2, <3>1 DEF Around, SmallChild, BigChild, Parents
    <3> QED BY <2>3, <3>2
  <2>4. CASE Heir(c) # Null
    <3>1. Heir(c) \in Member /\ Heir(c) # c
      BY <1>12, <2>1, <2>4
    <3>2. p_small'[Heir(c)] = ps /\ p_big'[Heir(c)] = pb
      BY <1>4, <2>1, <3>1 DEF Unlinked
    <3> QED BY <1>10, <2>2, <2>4, <3>1, <3>2
  <2> QED BY <2>3, <2>4
<1> QED BY <1>5, <1>6, <1>9, <1>10, <1>13, <1>14

LEMMA DeleteKeeps ==
  ASSUME JoinInv, NEW c \in Conn, Delete(c)
  PROVE  JoinInv'
<1>1. TypeOK /\ JoinedInv /\ TopInv /\ TreeInv
  BY DEF JoinInv
<1>2. /\ cur = Null /\ c \in Member /\ tree_delete(c) /\ top' = NewTop(c)
      /\ freed' = freed \cup {c} /\ joined' = RemoveFirst(joined, c)
      /\ priority' = priority /\ cur' = cur /\ trxs' = trxs
  BY DEF Delete, Member
<1>3. /\ PointersOK' /\ JoinedInv' /\ TreeInv'
      /\ joined' \in Seq(Conn) /\ Member' = Member \ {c} /\ Len(joined') = Len(joined) - 1
      /\ \A x \in Member : x # c /\ p_small[x] = Null /\ p_big[x] = Null =>
                             p_small'[x] = Null /\ p_big'[x] = Null
      /\ p_small[c] = Null /\ p_big[c] = Null =>
           IF Heir(c) = Null THEN Len(joined) = 1
           ELSE Heir(c) \in Member' /\ p_small'[Heir(c)] = Null /\ p_big'[Heir(c)] = Null
  BY <1>1, <1>2, DeleteTree
<1>4. top # Null /\ top \in Member /\ p_small[top] = Null /\ p_big[top] = Null
  <2>1. joined # <<>>
    BY <1>2 DEF Member, Range
  <2> QED BY <1>1, <1>2, <2>1 DEF TopInv
<1>5. Member \subseteq Conn
  BY <1>1, JoinedBound
<1>6. ASSUME p_small[c] = Null /\ p_big[c] = Null PROVE TopInv'
  <2>1. top' = Heir(c)
    BY <1>2, <1>6 DEF NewTop
  <2>2. CASE Heir(c) = Null
    <3>1. Len(joined') = 0
      BY <1>3, <1>6, <2>2
    <3>2. joined' = <<>>
      BY <1>3, <3>1
    <3> QED BY <1>2, <2>1, <2>2, <3>2 DEF TopInv
  <2>3. CASE Heir(c) # Null
    BY <1>2, <1>3, <1>5, <1>6, <2>1, <2>3 DEF TopInv
  <2> QED BY <2>2, <2>3
<1>7. ASSUME ~(p_small[c] = Null /\ p_big[c] = Null) PROVE TopInv'
  <2>1. top' = top
    BY <1>2, <1>7 DEF NewTop
  <2>2. top # c
    BY <1>4, <1>7
  <2>3. top \in Member' /\ p_small'[top] = Null /\ p_big'[top] = Null
    BY <1>3, <1>4, <2>2
  <2> QED BY <1>2, <1>4, <2>1, <2>3 DEF TopInv
<1>8. top' \in Conn \cup {Null}
  <2>1. CASE p_small[c] = Null /\ p_big[c] = Null
    <3>1. top' = Heir(c) /\ (Heir(c) = Null \/ Heir(c) \in Member)
      BY <1>2, <1>3, <2>1 DEF NewTop
    <3> QED BY <1>5, <3>1
  <2>2. CASE ~(p_small[c] = Null /\ p_big[c] = Null)
    BY <1>2, <1>4, <1>5, <2>2 DEF NewTop
  <2> QED BY <2>1, <2>2
<1>9. TypeOK'
  BY <1>1, <1>2, <1>3, <1>8 DEF TypeOK, PointersOK
<1> QED BY <1>3, <1>6, <1>7, <1>9 DEF JoinInv

\* A tree without connections, and a tree that does not change.
LEMMA EmptyTree ==
  ASSUME joined' = <<>>
  PROVE  JoinedInv' /\ TreeInv'
<1>1. DOMAIN joined' = {} /\ Member' = {} /\ Len(joined') = 0
  BY DEF Member, Range
<1>2. JoinedInv'
  BY <1>1 DEF JoinedInv
<1>3. PICK any \in [Conn -> Int] : TRUE
  <2>1. [x \in Conn |-> 0] \in [Conn -> Int]
    OBVIOUS
  <2> QED BY <2>1
<1>4. Shape(any, any, any)'
  BY <1>1 DEF Shape, SpanInv, SmallInv, BigInv, ParentInv, RoomInv
<1> QED BY <1>2, <1>4 DEF TreeInv

LEMMA SameTree ==
  ASSUME TreeInv, UNCHANGED <<pointers, joined>>
  PROVE  TreeInv'
<1>1. PICK pos \in [Conn -> Int], lo \in [Conn -> Int], hi \in [Conn -> Int] : Shape(pos, lo, hi)
  BY DEF TreeInv
<1>2. Member' = Member
  BY DEF Member, Range
<1>3. Shape(pos, lo, hi)'
  BY <1>1, <1>2 DEF Shape, SpanInv, SmallInv, BigInv, ParentInv, RoomInv, pointers
<1> QED BY <1>3 DEF TreeInv

LEMMA EndTrxKeeps ==
  ASSUME JoinInv, EndTrx
  PROVE  JoinInv'
<1>1. TypeOK'
  BY DEF JoinInv, TypeOK, EndTrx, pointers
<1>2. TopInv'
  BY DEF TopInv, EndTrx
<1> QED BY <1>1, <1>2, EmptyTree DEF JoinInv, EndTrx

LEMMA BeginFreeKeeps ==
  ASSUME JoinInv, BeginFree
  PROVE  JoinInv'
<1>1. TypeOK /\ JoinedInv /\ TopInv /\ TreeInv /\ cur = Null
  BY DEF JoinInv, BeginFree
<1>2. joined # <<>>
  BY <1>1 DEF TopInv, BeginFree, Member, Range
<1>3. cur' = joined[1] /\ cur' \in Conn \cup {Null} /\ joined' = joined
  BY <1>1, <1>2, FirstOfTop DEF BeginFree
<1>4. cur' # Null
  <2>1. joined[1] \in Conn
    BY <1>1, <1>2 DEF TypeOK
  <2> QED BY <1>3, <2>1, NullAssumption
<1>5. TypeOK'
  BY <1>1, <1>3 DEF TypeOK, BeginFree, pointers
<1>6. TopInv'
  BY <1>2, <1>3, <1>4 DEF TopInv
<1>7. JoinedInv'
  BY <1>1 DEF JoinedInv, BeginFree
<1>8. TreeInv'
  BY <1>1, SameTree DEF BeginFree
<1> QED BY <1>5, <1>6, <1>7, <1>8 DEF JoinInv

LEMMA FreeOneKeeps ==
  ASSUME JoinInv, FreeOne
  PROVE  JoinInv'
<1>1. TypeOK /\ JoinedInv /\ TopInv /\ TreeInv /\ cur # Null
  BY DEF JoinInv, FreeOne
<1>2. /\ tree_delete(cur) /\ cur' = tree_next(cur) /\ priority' = priority
      /\ freed' = freed \cup {cur} /\ joined' = RemoveFirst(joined, cur)
  BY DEF FreeOne
<1>3. cur = joined[1] /\ joined # <<>> /\ 1 \in 1..Len(joined) /\ DOMAIN joined = 1..Len(joined)
      /\ Len(joined) \in Nat
  <2>1. cur = joined[1] /\ joined # <<>> /\ joined \in Seq(Conn)
    BY <1>1 DEF TopInv, TypeOK
  <2> QED BY <2>1
<1>4. cur \in Member /\ cur \in Conn
  BY <1>1, <1>3 DEF Member, Range, TypeOK
<1>5. /\ PointersOK' /\ JoinedInv' /\ TreeInv'
      /\ joined' \in Seq(Conn) /\ Len(joined') = Len(joined) - 1
      /\ \E k \in 1..Len(joined) : TakenOut(cur, k)
  BY <1>1, <1>2, <1>4, DeleteTree
<1>6. TakenOut(cur, 1)
  <2>1. PICK k \in 1..Len(joined) : TakenOut(cur, k)
    BY <1>5
  <2>2. joined[k] = joined[1]
    BY <1>3, <2>1 DEF TakenOut
  <2>3. k = 1
    BY <1>1, <1>3, <2>2 DEF JoinedInv
  <2> QED BY <2>1, <2>3
<1>7. IF Len(joined) = 1 THEN cur' = Null ELSE cur' \in Member /\ cur' = joined[2]
  <2>1. PICK pos \in [Conn -> Int], lo \in [Conn -> Int], hi \in [Conn -> Int] : Shape(pos, lo, hi)
    BY <1>1 DEF TreeInv
  <2>2. pos[cur] = 1
    BY <1>3, <2>1 DEF Shape, SpanInv
  <2>3. IF 1 = Len(joined) THEN tree_next(cur) = Null
        ELSE tree_next(cur) \in Member /\ pos[tree_next(cur)] = 1 + 1
    BY <1>1, <1>4, <2>1, <2>2, NextIs
  <2>4. \A d \in Member : joined[pos[d]] = d
    BY <1>1, <2>1, Positions DEF Shape
  <2> QED BY <1>2, <1>3, <2>3, <2>4
<1>8. Member \subseteq Conn /\ Null \notin Member
  BY <1>1, JoinedBound, NullAssumption
<1>9. cur' \in Conn \cup {Null}
  BY <1>7, <1>8
<1>10. TypeOK'
  <2>1. top' \in Conn \cup {Null} /\ trxs' \in Nat
    BY <1>1 DEF FreeOne, TypeOK
  <2> QED BY <1>1, <1>2, <1>4, <1>5, <1>9, <2>1 DEF TypeOK, PointersOK
<1>11. TopInv'
  <2>1. CASE Len(joined) = 1
    <3>1. cur' = Null /\ top' = Null
      BY <1>7, <2>1 DEF FreeOne
    <3>2. joined' = <<>>
      BY <1>5, <2>1
    <3> QED BY <3>1, <3>2 DEF TopInv
  <2>2. CASE Len(joined) # 1
    <3>1. cur' # Null /\ cur' = joined[2]
      BY <1>7, <1>8, <2>2
    <3>2. 1 \in 1..Len(joined) - 1
      BY <1>3, <2>2
    <3>3. joined'[1] = joined[2]
      BY <1>6, <3>2 DEF TakenOut
    <3>4. joined' # <<>>
      BY <1>5, <3>2
    <3> QED BY <3>1, <3>3, <3>4 DEF TopInv
  <2> QED BY <2>1, <2>2
<1> QED BY <1>5, <1>10, <1>11 DEF JoinInv

\* No connection of the tree points to one outside of it.
LEMMA PointsInside ==
  ASSUME JoinInv
  PROVE  NoDangling
<1>1. TypeOK /\ JoinedInv
  BY DEF JoinInv
<1>2. PICK pos \in [Conn -> Int], lo \in [Conn -> Int], hi \in [Conn -> Int] : Shape(pos, lo, hi)
  BY DEF JoinInv, TreeInv
<1>3. ASSUME NEW x \in Member \cup {Null} PROVE x \notin freed
  BY <1>1, NullAssumption DEF JoinedInv, TypeOK, Member, Range
<1>4. ASSUME NEW c \in Member
      PROVE  /\ p_small[c] \in Member \cup {Null} /\ p_big[c] \in Member \cup {Null}
             /\ c_small[c] \in Member \cup {Null} /\ c_big[c] \in Member \cup {Null}
  <2>1. c_small[c] \in Member \cup {Null}
    BY <1>2 DEF Shape, SmallInv
  <2>2. c_big[c] \in Member \cup {Null}
    BY <1>2 DEF Shape, BigInv
  <2>3. p_small[c] \in Member \cup {Null} /\ p_big[c] \in Member \cup {Null}
    BY <1>2 DEF Shape, ParentInv
  <2> QED BY <2>1, <2>2, <2>3
<1> QED BY <1>3, <1>4 DEF NoDangling, Member
-----------------------------------------------------------------------------
(***************************************************************************)
(* Theorems.                                                               *)
(***************************************************************************)

\* The tree keeps its shape through every join, every end of a transaction and
\* every spider_tree_delete, those of the loop in spider_free_prepared_trx
\* included, whatever pointers the connections brought along: what is below a
\* connection is an interval of the order in which a walk should visit them,
\* its children split that interval, and the parents' pointers fit.
THEOREM JoinInvariance == Spec => []JoinInv
<1>1. Init => JoinInv
  <2> SUFFICES ASSUME Init PROVE JoinInv
    OBVIOUS
  <2>1. TypeOK
    BY DEF Init, TypeOK
  <2>2. joined = <<>> /\ DOMAIN joined = {} /\ Member = {} /\ Len(joined) = 0
    BY DEF Init, Member, Range
  <2>3. JoinedInv /\ TopInv
    BY <2>2 DEF Init, JoinedInv, TopInv
  <2>4. PICK any \in [Conn -> Int] : TRUE
    <3>1. [x \in Conn |-> 0] \in [Conn -> Int]
      OBVIOUS
    <3> QED BY <3>1
  <2>5. Shape(any, any, any)
    BY <2>2 DEF Shape, SpanInv, SmallInv, BigInv, ParentInv, RoomInv
  <2> QED BY <2>1, <2>3, <2>5 DEF JoinInv, TreeInv
<1>2. JoinInv /\ [Next]_vars => JoinInv'
  <2> SUFFICES ASSUME JoinInv, [Next]_vars PROVE JoinInv'
    OBVIOUS
  <2>1. ASSUME NEW c \in Conn, NEW pr \in Priority, Join(c, pr) PROVE JoinInv'
    BY <2>1, JoinKeeps
  <2>2. CASE EndTrx
    BY <2>2, EndTrxKeeps
  <2>3. CASE BeginFree
    BY <2>3, BeginFreeKeeps
  <2>4. CASE FreeOne
    BY <2>4, FreeOneKeeps
  <2>5. ASSUME NEW c \in Conn, Delete(c) PROVE JoinInv'
    BY <2>5, DeleteKeeps
  <2>6. CASE UNCHANGED vars
    <3>1. TreeInv'
      BY <2>6, SameTree DEF JoinInv, vars
    <3>2. Member' = Member
      BY <2>6 DEF vars, Member, Range
    <3>3. TypeOK' /\ JoinedInv'
      BY <2>6 DEF JoinInv, vars, pointers, TypeOK, JoinedInv
    <3>4. TopInv'
      BY <2>6, <3>2 DEF JoinInv, vars, pointers, TopInv
    <3> QED BY <3>1, <3>3, <3>4 DEF JoinInv
  <2> QED BY <2>1, <2>2, <2>3, <2>4, <2>5, <2>6 DEF Next
<1> QED BY <1>1, <1>2, PTL DEF Spec

\* For any number of connections a walk by spider_tree_first and spider_tree_next
\* visits each connection that joined once, in the order of their priorities and
\* of their joining: no branch is left out of a commit or a rollback, none gets two.
THEOREM WalkIsComplete == Spec => []WalkVisitsAll
<1>1. JoinInv => WalkVisitsAll
  BY WalkComplete
<1> QED BY <1>1, JoinInvariance, PTL

\* The loop of spider_internal_xa_prepare ends on the connection that the walk
\* would visit last, and so prepares exactly the others.
THEOREM DeciderIsLast == Spec => []LastDecides
<1>1. JoinInv => LastDecides
  BY LastIsDecider
<1> QED BY <1>1, JoinInvariance, PTL

\* No connection of the tree points to one that spider_free_prepared_trx, or any
\* other caller of spider_tree_delete, has freed.
THEOREM NoDanglingPointer == Spec => []NoDangling
<1>1. JoinInv => NoDangling
  BY PointsInside
<1> QED BY <1>1, JoinInvariance, PTL
=============================================================================
