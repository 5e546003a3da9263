-------------------------------- MODULE Schema --------------------------------
(* What the nodes may rely on while they migrate the database: an abstract view
   of db/migration.go.

   The schema moves one migration at a time.  As long as only one version
   migrates at a time it consists of the first migrations of the list, without
   gaps: it grows by the next one and shrinks by the last one.  Once nodes of
   two versions have migrated at the same time any single migration may come
   or go, until the schema is without gaps again. *)
EXTENDS Naturals

CONSTANT Last  \* the number of migrations the newest version knows

VARIABLES
  applied,  \* the migrations in effect
  mixed     \* versions have overlapped, and the schema may have gaps

vars == <<applied, mixed>>

\* the first k migrations of the list
List(k) == {i \in 1 .. Last : i <= k}

Gapless(s) == \E k \in 0 .. Last : s = List(k)

Init == applied = {} /\ mixed = FALSE

Up ==
  \E k \in 1 .. Last :
    /\ applied = List(k - 1)
    /\ applied' = List(k)

Down ==
  \E k \in 1 .. Last :
    /\ applied = List(k)
    /\ applied' = List(k - 1)

Any ==
  /\ mixed
  /\ \E i \in 1 .. Last : applied' \in {applied \union {i}, applied \ {i}}

Overlap == mixed' = TRUE /\ UNCHANGED applied

Settle == Gapless(applied) /\ mixed' = FALSE /\ UNCHANGED applied

Move == (Up \/ Down \/ Any) /\ UNCHANGED mixed

Next == Move \/ Overlap \/ Settle

Spec == Init /\ [][Next]_vars
===============================================================================
