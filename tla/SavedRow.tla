------------------------------ MODULE SavedRow -------------------------------
(***************************************************************************)
(* repository.save(entity) of TypeORM for an entity that has an id, as the *)
(* services use it (external): it selects the row once more, then updates  *)
(* the columns in which the entity differs from what it has selected, or   *)
(* inserts the entity if it has selected no row.                           *)
(***************************************************************************)
EXTENDS Integers

CONSTANT NoRow

\* A slip: save() adds what the caller had read to what there is.
writtenOnTop(entity, selected, current) ==
    IF current = NoRow THEN entity
    ELSE [c \in DOMAIN entity |-> current[c] + entity[c]]

\* What it makes of the current row; an update of a row that is gone writes
\* nothing, and nobody is told.
written(entity, selected, current) ==
    IF selected = NoRow THEN entity
    ELSE IF current = NoRow THEN NoRow
    ELSE [c \in DOMAIN entity |->
            IF entity[c] # selected[c] THEN entity[c] ELSE current[c]]

\* The primary key refuses an insert when another save() has inserted the row.
Conflict(selected, current) == selected = NoRow /\ current # NoRow
=============================================================================
