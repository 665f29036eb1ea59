----------------------- MODULE GuardedTransition_proofs -----------------------
(***************************************************************************)
(* Proofs about guardedTransition, for every state machine of the          *)
(* application, any set of rows and any number of concurrent callers.      *)
(***************************************************************************)
EXTENDS GuardedTransition, TLAPS

\* Rows and callers keep their types.
LEMMA TypeCorrect == Spec => []TypeOK
<1> USE DEF TypeOK, Row, Call, Result
<1>1. Init => TypeOK
  BY GuardedTransitionAssumption DEF Init, NewRow, Statuses
<1>2. TypeOK /\ [Next]_vars => TypeOK'
  <2> SUFFICES ASSUME TypeOK, [Next]_vars
               PROVE  TypeOK'
    OBVIOUS
  <2>1. ASSUME NEW c \in Callers, NEW id \in Ids, NEW to \in Statuses,
               NotFound(c, id) \/ Reject(c, id, to)
        PROVE  TypeOK'
    BY <2>1 DEF NotFound, Reject
  <2>2. ASSUME NEW c \in Callers, NEW id \in Ids, NEW to \in Statuses, Check(c, id, to)
        PROVE  TypeOK'
    BY <2>2 DEF Check
  <2>3. ASSUME NEW c \in Callers, Commit(c)
        PROVE  TypeOK'
    BY <2>3 DEF Commit
  <2>4. ASSUME NEW c \in Callers, Stale(c)
        PROVE  TypeOK'
    BY <2>4 DEF Stale
  <2>5. ASSUME NEW id \in Ids, Delete(id)
        PROVE  TypeOK'
    BY <2>5 DEF Delete
  <2>6. CASE UNCHANGED vars
    BY <2>6 DEF vars
  <2> QED
    BY <2>1, <2>2, <2>3, <2>4, <2>5, <2>6 DEF Next, Finish
<1> QED
  BY <1>1, <1>2, PTL DEF Spec

\* What a call has read stays at or behind the row, and an unchanged version
\* means an unchanged status (or a deleted row).
LEMMA Invariance == Spec => []IInv
<1>1. Init => \A c \in Callers : CallInv(c)
  BY DEF Init, CallInv, NewRow
<1>2. TypeOK /\ TypeOK' /\ (\A c \in Callers : CallInv(c)) /\ [Next]_vars
        => (\A c \in Callers : CallInv(c))'
  <2> SUFFICES ASSUME TypeOK, TypeOK', \A e \in Callers : CallInv(e), [Next]_vars,
                      NEW d \in Callers
               PROVE  CallInv(d)'
    OBVIOUS
  <2> USE DEF TypeOK, Row, Call, CallInv
  <2>0. /\ CallInv(d)
        /\ call[d].id \in Ids /\ call[d].seen.version \in Nat
        /\ rows[call[d].id].version \in Nat
    OBVIOUS
  <2>1. ASSUME NEW c \in Callers, NEW id \in Ids, NEW to \in Statuses,
               NotFound(c, id) \/ Reject(c, id, to)
        PROVE  CallInv(d)'
    BY <2>0, <2>1 DEF NotFound, Reject
  <2>2. ASSUME NEW c \in Callers, NEW id \in Ids, NEW to \in Statuses, Check(c, id, to)
        PROVE  CallInv(d)'
    BY <2>0, <2>2 DEF Check
  <2>3. ASSUME NEW c \in Callers, Commit(c)
        PROVE  CallInv(d)'
    <3>1. CASE call[d].id # call[c].id
      BY <2>0, <2>3, <3>1 DEF Commit
    <3>2. CASE call[d].id = call[c].id
      <4>1. call[d].seen.version < rows'[call[d].id].version
        BY <2>0, <2>3, <3>2 DEF Commit
      <4> QED
        BY <2>0, <2>3, <3>2, <4>1 DEF Commit
    <3> QED
      BY <3>1, <3>2
  <2>4. ASSUME NEW c \in Callers, Stale(c)
        PROVE  CallInv(d)'
    <3>1. rows' = rows /\ call' = call
      BY <2>4 DEF Stale
    <3>2. CASE c = d
      <4>1. \/ rows[call[d].id].status = Deleted
            \/ rows[call[d].id].version > call[d].seen.version
        <5>1. \/ rows[call[d].id].status = Deleted
              \/ rows[call[d].id].version # call[d].seen.version
          BY <2>4, <3>2 DEF Stale, VersionMatches
        <5>2. call[d].seen.version <= rows[call[d].id].version
          BY <2>0
        <5>3. /\ call[d].seen.version \in Int
              /\ rows[call[d].id].version \in Int
          BY <2>0
        <5> HIDE DEF TypeOK, Row, Call, CallInv
        <5> QED
          BY <5>1, <5>2, <5>3
      <4>2. pc'[d] = "idle"
        BY <2>4, <3>2 DEF Stale
      <4> QED
        BY <2>0, <3>1, <4>1, <4>2
    <3>3. CASE c # d
      <4>1. pc'[d] = pc[d] /\ result'[d] = result[d]
        BY <2>4, <3>3 DEF Stale
      <4> QED
        BY <2>0, <3>1, <4>1
    <3> QED
      BY <3>2, <3>3
  <2>5. ASSUME NEW id \in Ids, Delete(id)
        PROVE  CallInv(d)'
    BY <2>0, <2>5 DEF Delete
  <2>6. CASE UNCHANGED vars
    BY <2>0, <2>6 DEF vars
  <2> QED
    BY <2>1, <2>2, <2>3, <2>4, <2>5, <2>6 DEF Next, Finish
<1> QED
  BY <1>1, <1>2, TypeCorrect, PTL DEF Spec, IInv

\* A StaleWriteError always has a cause: the row was moved on, or deleted.
THEOREM StaleCallsLostARace == Spec => []StaleHasWinner
<1>1. IInv => StaleHasWinner
  BY DEF IInv, CallInv, StaleHasWinner
<1> QED
  BY <1>1, Invariance, PTL

\* Only a commit turns a call in flight into a successful one.
LEMMA OnlyCommitsSucceed ==
  ASSUME IInv, Next, NEW c \in Callers, pc[c] = "checked", result'[c] = "ok"
  PROVE  Commit(c)
<1> USE DEF IInv, TypeOK, CallInv
<1>1. result[c] = "none"
  OBVIOUS
<1>2. ASSUME NEW d \in Callers, NEW id \in Ids, NEW to \in Statuses,
             NotFound(d, id) \/ Reject(d, id, to) \/ Check(d, id, to)
      PROVE  FALSE
  BY <1>1, <1>2 DEF NotFound, Reject, Check
<1>3. ASSUME NEW d \in Callers, Stale(d)
      PROVE  FALSE
  BY <1>1, <1>3 DEF Stale
<1>4. ASSUME NEW id \in Ids, Delete(id)
      PROVE  FALSE
  BY <1>1, <1>4 DEF Delete
<1>5. ASSUME NEW d \in Callers, Commit(d)
      PROVE  d = c
  BY <1>1, <1>5 DEF Commit
<1> QED
  BY <1>2, <1>3, <1>4, <1>5 DEF Next, Finish

\* The row a call in flight commits to is the row it read.
LEMMA CommitSeesItsRow ==
  ASSUME IInv, NEW c \in Callers, Commit(c)
  PROVE  rows[call[c].id] = call[c].seen
<1> USE DEF IInv, TypeOK, Call, Row
<1>1. /\ call[c].seen \in Row /\ call[c].id \in Ids /\ rows[call[c].id] \in Row
  OBVIOUS
<1>2. /\ rows[call[c].id].version = call[c].seen.version
      /\ rows[call[c].id].status = call[c].seen.status
  BY DEF Commit, VersionMatches, CallInv
<1> QED
  BY <1>1, <1>2

\* "A stale worker can never overwrite newer state": the update of a call
\* replaces the row it validated, never a newer one.
THEOREM NoOverwrite == Spec => NoStaleOverwrite
<1>1. IInv /\ [Next]_vars =>
        [\A c \in Callers : pc[c] = "checked" /\ result'[c] = "ok"
                              => rows[call[c].id] = call[c].seen]_vars
  BY OnlyCommitsSucceed, CommitSeesItsRow
<1> QED
  BY <1>1, Invariance, PTL DEF Spec, NoStaleOverwrite

\* Of the calls in flight on one version of a row at most one is accepted.
THEOREM OneWinner == Spec => OneWinnerPerVersion
<1>1. IInv /\ [Next]_vars =>
        [\A c, d \in Callers :
           /\ c # d
           /\ pc[c] = "checked" /\ result'[c] = "ok"
           /\ pc[d] = "checked" /\ call[d].id = call[c].id
           => call[d].seen.version < rows'[call[d].id].version]_vars
  <2> SUFFICES ASSUME IInv, Next, NEW c \in Callers, NEW d \in Callers,
                      pc[c] = "checked", result'[c] = "ok",
                      call[d].id = call[c].id
               PROVE  call[d].seen.version < rows'[call[d].id].version
    OBVIOUS
  <2>1. Commit(c)
    BY OnlyCommitsSucceed
  <2>2. /\ call[d].seen.version \in Nat /\ rows[call[c].id].version \in Nat
        /\ call[d].seen.version <= rows[call[c].id].version
    BY DEF IInv, TypeOK, Call, Row, CallInv
  <2>3. rows'[call[c].id].version = rows[call[c].id].version + 1
    BY <2>1 DEF Commit, IInv, TypeOK, Call
  <2> QED
    BY <2>2, <2>3
<1> QED
  BY <1>1, Invariance, PTL DEF Spec, OneWinnerPerVersion

\* guardedTransition implements atomic, legal, counted transitions: the two
\* round trips of a call cannot be told from one.
THEOREM Implementation == Spec => ImplementsLifecycle
<1>1. Init => Lifecycle!Init
  BY DEF Init, Lifecycle!Init, NewRow
<1>2. IInv /\ [Next]_vars => [Lifecycle!Next]_rows
  <2> SUFFICES ASSUME IInv, [Next]_vars
               PROVE  [Lifecycle!Next]_rows
    OBVIOUS
  <2>1. ASSUME NEW c \in Callers, Commit(c)
        PROVE  Lifecycle!Next
    <3> DEFINE i == call[c].id
    <3>1. /\ i \in Ids /\ call[c].to \in Statuses
      BY DEF IInv, TypeOK, Call
    <3>2. /\ rows[i].status # Deleted
          /\ CanTransition(Entity, rows[i].status, call[c].to)
      BY <2>1, CommitSeesItsRow DEF Commit, IInv, CallInv
    <3>3. Lifecycle!Transition(i, call[c].to)
      BY <2>1, <3>2 DEF Commit, Lifecycle!Transition, Legal
    <3> QED
      BY <3>1, <3>3 DEF Lifecycle!Next
  <2>2. ASSUME NEW id \in Ids, Delete(id)
        PROVE  Lifecycle!Next
    BY <2>2 DEF Delete, Lifecycle!Next, Lifecycle!Delete
  <2>3. CASE rows' = rows
    BY <2>3
  <2> QED
    BY <2>1, <2>2, <2>3 DEF Next, Finish, NotFound, Reject, Check, Stale, vars
<1> QED
  BY <1>1, <1>2, Invariance, PTL DEF Spec, ImplementsLifecycle, Lifecycle!Spec
=============================================================================
