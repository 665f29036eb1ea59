-------------------------- MODULE GuardedTransition --------------------------
(***************************************************************************)
(* guardedTransition (src/lib/db/guardedTransition.ts) called by any       *)
(* number of concurrent workers and route handlers on shared rows.  A call *)
(* is two database round trips with an await between them: it reads the    *)
(* row and checks the move against the state machine, and later updates    *)
(* the row only if its version is still the one it read.                   *)
(***************************************************************************)
EXTENDS StateMachines, Integers

CONSTANTS Entity,      \* the state machine the rows follow
          Ids,         \* the row ids
          Initial,     \* the status rows are created in
          Callers,     \* the concurrent callers
          MaxVersion   \* bound: no call starts on a row with this version

ASSUME GuardedTransitionAssumption ==
  /\ Entity \in EntityName
  /\ Initial \in StatusesOf(Entity)
  /\ MaxVersion \in Nat

VARIABLES rows,        \* rows[id]: status and version, as in the database
          pc,          \* pc[c] = "checked": c has read a row and found its move legal
          call,        \* call[c]: the row id, the target, and the row as it was read
          result       \* result[c]: how the last call of c ended

vars == <<rows, pc, call, result>>

Deleted == "DELETED"
Statuses == StatusesOf(Entity)
Row == [status : Statuses \cup {Deleted}, version : Nat]
Call == [id : Ids, to : Statuses, seen : Row]
Result == {"none", "ok", "invalid", "stale", "not_found"}

TypeOK ==
  /\ rows \in [Ids -> Row]
  /\ pc \in [Callers -> {"idle", "checked"}]
  /\ call \in [Callers -> Call]
  /\ result \in [Callers -> Result]

NewRow == [status |-> Initial, version |-> 0]

Init ==
  /\ rows = [id \in Ids |-> NewRow]
  /\ pc = [c \in Callers |-> "idle"]
  /\ result = [c \in Callers |-> "none"]
  /\ \E id \in Ids :
       call = [c \in Callers |-> [id |-> id, to |-> Initial, seen |-> NewRow]]

-----------------------------------------------------------------------------
\* findUnique returned null: Error "<entity> <id> not found".
NotFound(c, id) ==
  /\ pc[c] = "idle"
  /\ rows[id].status = Deleted
  /\ result' = [result EXCEPT ![c] = "not_found"]
  /\ UNCHANGED <<rows, pc, call>>

\* assertTransition throws InvalidTransitionError.
Reject(c, id, to) ==
  /\ pc[c] = "idle"
  /\ rows[id].status # Deleted
  /\ ~ CanTransition(Entity, rows[id].status, to)
  /\ result' = [result EXCEPT ![c] = "invalid"]
  /\ UNCHANGED <<rows, pc, call>>

\* Mutant of Check: assertTransition is forgotten.
CheckUnvalidated(c, id, to) ==
  /\ pc[c] = "idle"
  /\ rows[id].status # Deleted
  /\ rows[id].version < MaxVersion
  /\ pc' = [pc EXCEPT ![c] = "checked"]
  /\ call' = [call EXCEPT ![c] = [id |-> id, to |-> to, seen |-> rows[id]]]
  /\ result' = [result EXCEPT ![c] = "none"]
  /\ UNCHANGED rows

\* The row is read and the move is legal: the call goes on to its update.
Check(c, id, to) ==
  /\ pc[c] = "idle"
  /\ rows[id].status # Deleted
  /\ rows[id].version < MaxVersion
  /\ CanTransition(Entity, rows[id].status, to)
  /\ pc' = [pc EXCEPT ![c] = "checked"]
  /\ call' = [call EXCEPT ![c] = [id |-> id, to |-> to, seen |-> rows[id]]]
  /\ result' = [result EXCEPT ![c] = "none"]
  /\ UNCHANGED rows

\* Mutants of VersionMatches: the where clause names the id only, or the version
\* the row is about to get.
IdMatches(c) == rows[call[c].id].status # Deleted

NextVersionMatches(c) ==
  /\ rows[call[c].id].status # Deleted
  /\ rows[call[c].id].version = call[c].seen.version + 1

\* updateMany matches the row: its version is still the one that was read.
VersionMatches(c) ==
  /\ rows[call[c].id].status # Deleted
  /\ rows[call[c].id].version = call[c].seen.version

\* Mutant of Commit: the version stays.
CommitUncounted(c) ==
  /\ pc[c] = "checked"
  /\ VersionMatches(c)
  /\ rows' = [rows EXCEPT ![call[c].id].status = call[c].to]
  /\ pc' = [pc EXCEPT ![c] = "idle"]
  /\ result' = [result EXCEPT ![c] = "ok"]
  /\ UNCHANGED call

Commit(c) ==
  /\ pc[c] = "checked"
  /\ VersionMatches(c)
  /\ rows' = [rows EXCEPT ![call[c].id] =
                [status |-> call[c].to, version |-> rows[call[c].id].version + 1]]
  /\ pc' = [pc EXCEPT ![c] = "idle"]
  /\ result' = [result EXCEPT ![c] = "ok"]
  /\ UNCHANGED call

\* updateMany affects no row: StaleWriteError.
Stale(c) ==
  /\ pc[c] = "checked"
  /\ ~ VersionMatches(c)
  /\ pc' = [pc EXCEPT ![c] = "idle"]
  /\ result' = [result EXCEPT ![c] = "stale"]
  /\ UNCHANGED <<rows, call>>

\* Rows can vanish under a call (re-clipping deletes un-rendered candidates).
Delete(id) ==
  /\ rows[id].status # Deleted
  /\ rows' = [rows EXCEPT ![id] = [status |-> Deleted, version |-> rows[id].version]]
  /\ UNCHANGED <<pc, call, result>>

Finish(c) == Commit(c) \/ Stale(c)

Next ==
  \/ \E c \in Callers, id \in Ids, to \in Statuses :
       NotFound(c, id) \/ Reject(c, id, to) \/ Check(c, id, to)
  \/ \E c \in Callers : Finish(c)
  \/ \E id \in Ids : Delete(id)

Spec == Init /\ [][Next]_vars
-----------------------------------------------------------------------------
\* Optimistic concurrency is invisible: every behaviour is one of atomic,
\* legal, counted transitions, although the check and the write of each call
\* are separate steps (guardedTransition.ts:40-51).
Legal(from, to) == CanTransition(Entity, from, to)
Lifecycle == INSTANCE LifecycleRow
ImplementsLifecycle == Lifecycle!Spec

\* "A stale worker can never overwrite newer state": the row a successful call
\* replaces is exactly the row whose status it validated.
NoStaleOverwrite ==
  [][\A c \in Callers :
       pc[c] = "checked" /\ result'[c] = "ok" => rows[call[c].id] = call[c].seen]_vars

\* A StaleWriteError is never spurious: it is thrown only after some other call
\* has moved the row on, or the row is gone.  Contention cannot make every
\* caller fail.
StaleHasWinner ==
  \A c \in Callers :
    result[c] = "stale" =>
      \/ rows[call[c].id].status = Deleted
      \/ rows[call[c].id].version > call[c].seen.version

\* Of the calls in flight on one version of a row at most one is accepted: as
\* it commits, the others are left holding an older version.  This is what
\* makes a transition out of a status happen once.
OneWinnerPerVersion ==
  [][\A c, d \in Callers :
       /\ c # d
       /\ pc[c] = "checked" /\ result'[c] = "ok"
       /\ pc[d] = "checked" /\ call[d].id = call[c].id
       => call[d].seen.version < rows'[call[d].id].version]_vars

-----------------------------------------------------------------------------
\* The inductive invariant behind the properties: a call in flight has read a
\* legal move, from a version that is not newer than the row's, and while the
\* version is the same so is the status, unless the row is gone.
CallInv(c) ==
  LET row  == rows[call[c].id]
      seen == call[c].seen
  IN  /\ seen.version <= row.version
      /\ pc[c] = "checked" =>
           /\ result[c] = "none"
           /\ seen.status # Deleted
           /\ CanTransition(Entity, seen.status, call[c].to)
           /\ seen.version = row.version => row.status \in {seen.status, Deleted}
      /\ result[c] = "stale" =>
           row.status = Deleted \/ row.version > seen.version

IInv == TypeOK /\ \A c \in Callers : CallInv(c)
=============================================================================
