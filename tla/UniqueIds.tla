------------------------------ MODULE UniqueIds ------------------------------
(***************************************************************************)
(* What the auto-increment column of TenDB Cluster promises, without       *)
(* saying how: the value a session takes for a row is one that no row of   *)
(* the table has and that no other session of any node has in hand.        *)
(* Values need not be consecutive, and a value that no row got may be      *)
(* given again.  AutoInc is shown to implement it.                         *)
(***************************************************************************)
EXTENDS Naturals

CONSTANT Session

VARIABLES held,      \* the values each session has taken for rows not yet stored
          stored     \* the values of the rows of the table

ids == <<held, stored>>

InUse == stored \cup UNION {held[s] : s \in Session}

UInit == held = [s \in Session |-> {}] /\ stored = {}

Take(s, v) ==
  /\ v \notin InUse
  /\ held' = [held EXCEPT ![s] = @ \cup {v}]
  /\ UNCHANGED stored

\* Transactions end, in any part: a value a session no longer holds is the value
\* of a row from now on, or of none.
Settle ==
  /\ \A s \in Session : held'[s] \subseteq held[s]
  /\ stored \subseteq stored'
  /\ stored' \subseteq stored \cup UNION {held[s] \ held'[s] : s \in Session}

Remove ==
  /\ stored' \subseteq stored
  /\ UNCHANGED held

UNext ==
  \/ Settle
  \/ Remove
  \/ \E s \in Session : \E v \in held'[s] : Take(s, v)

USpec == UInit /\ [][UNext]_ids
=============================================================================
