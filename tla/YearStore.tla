------------------------------ MODULE YearStore ------------------------------
(***************************************************************************)
(* What the import of accidents promises (Import in                        *)
(* backend/internal/accidents/import.go): an edition of a year that has    *)
(* been published is counted as a whole or not at all, "rows already       *)
(* present are left untouched", and nothing else happens to the table.     *)
(***************************************************************************)
EXTENDS Integers

CONSTANTS
  Years,
  Contents   \* year -> sequence of what its editions hold: the set of a function
             \* from keys to accidents, or the empty set if it is unusable

VARIABLES
  public,    \* year -> how many editions have been published
  accidents  \* the table: key -> accident

vars == <<public, accidents>>

Init ==
  /\ public = [y \in Years |-> 0]
  /\ accidents = [k \in {} |-> {}]

Publish(y) ==
  /\ public[y] + 1 \in DOMAIN Contents[y]
  /\ public' = [public EXCEPT ![y] = @ + 1]
  /\ UNCHANGED accidents

\* INSERT ... ON CONFLICT DO NOTHING.
With(table, rows) ==
  [k \in DOMAIN table \cup DOMAIN rows |-> IF k \in DOMAIN table THEN table[k] ELSE rows[k]]

Count(y) ==
  /\ \E e \in 1..public[y] : \E rows \in Contents[y][e] : accidents' = With(accidents, rows)
  /\ UNCHANGED public

Next == \E y \in Years : Publish(y) \/ Count(y)

Spec == Init /\ [][Next]_vars
=============================================================================
