---------------------------- MODULE EntityStore ----------------------------
(***************************************************************************)
(* What TypeORM's repository.save(entity) does to a row that exists.  It    *)
(* selects the row, compares it with the entity column by column, and      *)
(* updates the columns that differ.  The entity holds every column as the  *)
(* handler read it, so a handler that is slow writes back what it read:    *)
(* whatever others changed before the comparison is undone.                *)
(***************************************************************************)

\* The columns to update, found when the row is selected.
Differing(row, entity) == {c \in DOMAIN row : row[c] # entity[c]}

\* The row after the update.  Columns that were equal at the comparison keep
\* what they hold by now.
Updated(row, entity, dirty) ==
    [c \in DOMAIN row |-> IF c \in dirty THEN entity[c] ELSE row[c]]
=============================================================================
