---------------------------- MODULE LifecycleRow ----------------------------
(***************************************************************************)
(* What the documentation of guardedTransition promises of a row with a    *)
(* lifecycle: every change of its status is one atomic, legal transition   *)
(* of the row as it is at that moment, and every change is counted by its  *)
(* version.  Rows may also be deleted, and a deleted row never comes back  *)
(* (ids are generated).                                                    *)
(***************************************************************************)
EXTENDS Naturals

CONSTANTS Statuses,     \* the statuses of the lifecycle
          Legal(_, _),  \* Legal(from, to): the state machine allows the move
          Deleted,      \* the status of a deleted row, not one of Statuses
          Ids,          \* the row ids
          Initial       \* the status rows are created in

VARIABLE rows           \* rows[id]: the row's status and version

Init == rows = [id \in Ids |-> [status |-> Initial, version |-> 0]]

\* One successful transition of row id to status "to".
Transition(id, to) ==
  /\ rows[id].status # Deleted
  /\ Legal(rows[id].status, to)
  /\ rows' = [rows EXCEPT ![id] = [status  |-> to,
                                   version |-> rows[id].version + 1]]

Delete(id) ==
  /\ rows[id].status # Deleted
  /\ rows' = [rows EXCEPT ![id] = [status  |-> Deleted,
                                   version |-> rows[id].version]]

Next ==
  \E id \in Ids :
    \/ \E to \in Statuses : Transition(id, to)
    \/ Delete(id)

Spec == Init /\ [][Next]_rows
=============================================================================
