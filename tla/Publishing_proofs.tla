-------------------------- MODULE Publishing_proofs --------------------------
(***************************************************************************)
(* Proofs about publishing, for every set of checks and modes, every setup *)
(* and any number of faults, requests, evaluations and attempts.           *)
(***************************************************************************)
EXTENDS Publishing, TLAPS

\* The statuses of a publication, read off its table.
LEMMA Statuses ==
  {"PENDING", "DRAFTED", "PUBLISHED", "FAILED", "SKIPPED"} \subseteq PublicationStatus
BY DEF PublicationStatus, StatusesOf, TABLES, PUBLICATION_TRANSITIONS

\* A PUBLISHED row is terminal: the catch block cannot mark it FAILED.
LEMMA PublishedCannotFail == ~ CanTransition("Publication", "PUBLISHED", "FAILED")
BY DEF CanTransition, Successors, TABLES, PUBLICATION_TRANSITIONS

LEMMA NoCallIsTyped == NoCall \in Call
<1>1. NoFindings \in Findings
  BY DEF Findings
<1> QED
  BY <1>1 DEF NoCall, Call, CallPc, PublicationMode

LEMMA CallIsReplaced ==
  ASSUME CallOK, NEW m \in Modes, NEW r \in Call, call' = [call EXCEPT ![m] = r]
  PROVE  CallOK'
BY DEF CallOK

LEMMA RowIsReplaced ==
  ASSUME RowsOK, NEW k \in Keys, NEW r \in PublicationRow, rows' = [rows EXCEPT ![k] = r]
  PROVE  RowsOK'
BY DEF RowsOK

LEMMA Bumped ==
  ASSUME NEW f \in [Keys -> Nat], NEW k \in Keys
  PROVE  Bump(f, k) \in [Keys -> Nat]
BY DEF Bump

\* Only an "other" check can be waived.
LEMMA OthersAreWaived ==
  ASSUME NEW f \in Findings
  PROVE  WaivableChecks(f) \subseteq OtherChecks
<1>1. DOMAIN f \subseteq Checks
  <2>1. CASE f = NoFindings
    BY <2>1 DEF NoFindings
  <2>2. CASE f \in [Checks -> {"PASS", "REVIEW", "FAIL"}]
    BY <2>2
  <2> QED
    BY <2>1, <2>2 DEF Findings
<1> QED
  BY <1>1 DEF WaivableChecks, Reviewed, Checks

\* The requested mode stays, or becomes DRAFT.
LEMMA EffectiveModes ==
  ASSUME NEW m \in Modes, NEW f
  PROVE  EffectiveMode(m, f) \in PublicationMode
BY PublishingAssumption DEF EffectiveMode, PublicationMode

\* Every variable keeps its type.
LEMMA TypeCorrect == Spec => []TypeOK
<1>1. Init => TypeOK
  <2> SUFFICES ASSUME Init
               PROVE  TypeOK
    OBVIOUS
  <2> USE PublishingAssumption DEF Init
  <2>1. WorldOK
    <3>1. setup \in Setups /\ findings \in Findings /\ failed \in BOOLEAN
      BY DEF Findings
    <3>2. evaluator = "idle" /\ approved = NoReview /\ acked = {}
      OBVIOUS
    <3>3. evaluations \in 0..MaxEvaluations
      OBVIOUS
    <3> QED
      BY <3>1, <3>2, <3>3 DEF WorldOK
  <2>2. RowsOK /\ JobOK /\ CountersOK /\ submitted \subseteq Keys
    <3>1. RowsOK
      BY DEF RowsOK, PublicationRow
    <3>2. JobOK
      BY DEF JobOK, Job
    <3>3. CountersOK
      BY DEF CountersOK
    <3> QED
      BY <3>1, <3>2, <3>3
  <2>3. CallOK
    BY NoCallIsTyped DEF CallOK
  <2> QED
    BY <2>1, <2>2, <2>3 DEF TypeOK
<1>2. TypeOK /\ [Next]_vars => TypeOK'
  <2> SUFFICES ASSUME TypeOK, [Next]_vars
               PROVE  TypeOK'
    OBVIOUS
  <2> USE PublishingAssumption
  <2>1. WorldOK'
    <3> USE DEF TypeOK, WorldOK, world
    <3>1. ASSUME NEW m \in Modes,
                 \/ Request(m) \/ Start(m) \/ Refuse(m) \/ Step(m)
                 \/ Crash(m) \/ DatabaseFailsEarly(m) \/ DatabaseFails(m) \/ AnswerLost(m)
          PROVE  WorldOK'
      <4>1. UNCHANGED world
        BY <3>1 DEF Request, Start, Refuse, Step, Crash, DatabaseFailsEarly, DatabaseFails,
             AnswerLost, FailGate, Decide, Existing, Create, CreateBlocked, Skip, Push,
             PushRefused, TransitionCheck, TransitionCommit, Announce, FailCheck, FailCommit,
             Finish
      <4> QED
        BY <4>1
    <3>2. ASSUME NEW m \in Modes, Approve(m)
          PROVE  WorldOK'
      BY <3>2, OthersAreWaived DEF Approve
    <3>3. CASE EvaluationDelete
      BY <3>3 DEF EvaluationDelete, Findings
    <3>4. CASE EvaluationCreate
      BY <3>4 DEF EvaluationCreate, Findings, Failing
    <3>5. CASE EvaluationLost
      BY <3>5 DEF EvaluationLost
    <3>6. CASE UNCHANGED vars
      BY <3>6 DEF vars
    <3> QED
      BY <3>1, <3>2, <3>3, <3>4, <3>5, <3>6 DEF Next
  <2>2. RowsOK'
    <3> USE DEF TypeOK
    <3>1. \A k \in Keys : rows[k] \in PublicationRow
      BY DEF RowsOK
    <3>2. ASSUME NEW m \in Modes, Create(m) \/ Skip(m)
          PROVE  RowsOK'
      <4>1. PICK k \in Keys, status \in PublicationStatus : Upsert(k, status)
        BY <3>2, Statuses DEF Create, Skip, CallOK, Call, Keys
      <4> DEFINE r == [rows[k] EXCEPT !.status = status]
      <4>2. r \in PublicationRow
        BY <3>1 DEF PublicationRow
      <4>3. rows' = [rows EXCEPT ![k] = r]
        BY <4>1 DEF Upsert
      <4> QED
        BY <4>2, <4>3, RowIsReplaced
    <3>3. ASSUME NEW m \in Modes, TransitionCommit(m) \/ FailCommit(m)
          PROVE  RowsOK'
      <4> DEFINE k == call[m].mode
      <4>1. k \in Keys /\ call[m].result \in PublicationStatus /\ rows[k].version + 1 \in Nat
        BY <3>1, Statuses DEF CallOK, Call, Keys, PublicationRow
      <4>2. \/ UNCHANGED rows
            \/ \E status \in PublicationStatus :
                 rows' = [rows EXCEPT ![k] = [status |-> status, version |-> rows[k].version + 1]]
        BY <3>3, <4>1, Statuses DEF TransitionCommit, FailCommit
      <4>3. \A status \in PublicationStatus :
              [status |-> status, version |-> rows[k].version + 1] \in PublicationRow
        BY <4>1 DEF PublicationRow
      <4>4. CASE UNCHANGED rows
        BY <4>4 DEF RowsOK
      <4> HIDE DEF k
      <4> QED
        BY <4>1, <4>2, <4>3, <4>4, RowIsReplaced
    <3>4. ASSUME UNCHANGED rows
          PROVE  RowsOK'
      BY <3>4 DEF RowsOK
    <3> QED
      BY <3>2, <3>3, <3>4 DEF Next, Step, Request, Start, Refuse, Crash, DatabaseFailsEarly,
        DatabaseFails, AnswerLost, FailGate, Decide, Existing, CreateBlocked, Push,
        PushRefused, TransitionCheck, Announce, FailCheck, Finish, Approve, EvaluationDelete,
        EvaluationCreate, EvaluationLost, vars
  <2>3. JobOK'
    <3> USE DEF TypeOK, JobOK, Job
    <3>1. ASSUME NEW m \in Modes, Request(m) \/ Approve(m)
          PROVE  JobOK'
      BY <3>1 DEF Request, Approve, Enqueue
    <3>2. ASSUME NEW m \in Modes, Start(m) \/ Finish(m) \/ Crash(m)
          PROVE  JobOK'
      BY <3>2 DEF Start, Finish, Crash
    <3>3. ASSUME NEW m \in Modes, FailCheck(m) \/ FailCommit(m) \/ DatabaseFailsEarly(m)
          PROVE  JobOK'
      <4>1. UNCHANGED job \/ Throw(m)
        BY <3>3 DEF FailCheck, FailCommit, DatabaseFailsEarly
      <4>2. CASE Throw(m) /\ job[m].left > 1
        <5>1. job[m].left - 1 \in 0..Attempts
          BY <4>2
        <5> QED
          BY <4>2, <5>1 DEF Throw
      <4>3. CASE Throw(m) /\ ~ (job[m].left > 1)
        BY <4>3 DEF Throw
      <4> QED
        BY <4>1, <4>2, <4>3
    <3>4. ASSUME UNCHANGED job
          PROVE  JobOK'
      BY <3>4
    <3> QED
      BY <3>1, <3>2, <3>3, <3>4 DEF Next, Step, Refuse, DatabaseFails, AnswerLost, FailGate,
        Decide, Existing, Create, CreateBlocked, Skip, Push, PushRefused, TransitionCheck,
        TransitionCommit, Announce, EvaluationDelete, EvaluationCreate, EvaluationLost, vars
  <2>4. CallOK'
    <3> USE DEF TypeOK
    <3>1. \A m \in Modes : call[m] \in Call
      BY DEF CallOK
    <3>2. NoFindings \in Findings /\ findings \in Findings
      BY DEF Findings, WorldOK
    <3>3. ASSUME NEW m \in Modes, NEW pc \in CallPc, Goto(m, pc) \/ Forget(m, pc)
          PROVE  CallOK'
      <4>1. /\ [call[m] EXCEPT !.pc = pc] \in Call
            /\ [call[m] EXCEPT !.pc = pc, !.seen = NoFindings] \in Call
        BY <3>1, <3>2 DEF Call
      <4>2. \/ call' = [call EXCEPT ![m] = [call[m] EXCEPT !.pc = pc]]
            \/ call' = [call EXCEPT ![m] = [call[m] EXCEPT !.pc = pc, !.seen = NoFindings]]
        BY <3>3 DEF Goto, Forget
      <4> QED
        BY <4>1, <4>2, CallIsReplaced
    <3>4. ASSUME NEW m \in Modes, call' = [call EXCEPT ![m] = NoCall]
          PROVE  CallOK'
      BY <3>4, NoCallIsTyped, CallIsReplaced
    <3>5. ASSUME NEW m \in Modes, Start(m)
          PROVE  CallOK'
      <4>1. [NoCall EXCEPT !.pc = "gate", !.seen = findings] \in Call
        BY <3>2, NoCallIsTyped DEF Call, CallPc
      <4> QED
        BY <3>5, <4>1, CallIsReplaced DEF Start
    <3>6. ASSUME NEW m \in Modes, Decide(m)
          PROVE  CallOK'
      <4>1. PICK token \in BOOLEAN :
              call' = [call EXCEPT ![m] =
                        [call[m] EXCEPT !.pc = "existing", !.token = token,
                                        !.mode = EffectiveMode(m, call[m].seen)]]
        BY <3>6 DEF Decide
      <4>2. [call[m] EXCEPT !.pc = "existing", !.token = token,
                            !.mode = EffectiveMode(m, call[m].seen)] \in Call
        BY <3>1, EffectiveModes DEF Call, CallPc
      <4> QED
        BY <4>1, <4>2, CallIsReplaced
    <3>7. ASSUME NEW m \in Modes, Push(m)
          PROVE  CallOK'
      <4>1. [call[m] EXCEPT !.pc = "check", !.result = ProviderResult(m)] \in Call
        BY <3>1 DEF Call, CallPc, ProviderResult
      <4> QED
        BY <3>7, <4>1, CallIsReplaced DEF Push
    <3>8. ASSUME NEW m \in Modes, NEW pc \in CallPc,
                 call' = [call EXCEPT ![m] =
                           [call[m] EXCEPT !.pc = pc, !.version = rows[call[m].mode].version]]
          PROVE  CallOK'
      <4>1. rows[call[m].mode].version \in Nat
        BY <3>1 DEF RowsOK, PublicationRow, Call, Keys
      <4>2. [call[m] EXCEPT !.pc = pc, !.version = rows[call[m].mode].version] \in Call
        BY <3>1, <4>1 DEF Call
      <4> QED
        BY <3>8, <4>2, CallIsReplaced
    <3>9. ASSUME NEW m \in Modes, TransitionCheck(m) \/ FailCheck(m)
          PROVE  CallOK'
      <4>1. {"commit", "failCommit", "failCheck"} \subseteq CallPc
        BY DEF CallPc
      <4>2. \/ \E pc \in CallPc : Goto(m, pc)
            \/ call' = [call EXCEPT ![m] = NoCall]
            \/ \E pc \in CallPc :
                 call' = [call EXCEPT ![m] =
                           [call[m] EXCEPT !.pc = pc, !.version = rows[call[m].mode].version]]
        BY <3>9, <4>1 DEF TransitionCheck, FailCheck, Throw
      <4> QED
        BY <3>3, <3>4, <3>8, <4>2
    <3>10. ASSUME NEW m \in Modes,
                 \/ Finish(m) \/ Crash(m) \/ FailCommit(m) \/ DatabaseFailsEarly(m)
          PROVE  CallOK'
      BY <3>4, <3>10 DEF Finish, Crash, FailCommit, DatabaseFailsEarly, Throw
    <3>11. ASSUME NEW m \in Modes,
                 \/ Refuse(m) \/ FailGate(m) \/ Existing(m) \/ Create(m) \/ CreateBlocked(m)
                 \/ Skip(m) \/ PushRefused(m) \/ TransitionCommit(m) \/ Announce(m)
                 \/ DatabaseFails(m) \/ AnswerLost(m)
          PROVE  CallOK'
      <4>1. \E pc \in CallPc : Goto(m, pc) \/ Forget(m, pc)
        BY <3>11 DEF Refuse, FailGate, Existing, Create, CreateBlocked, Skip, PushRefused,
          TransitionCommit, Announce, DatabaseFails, AnswerLost, CallPc
      <4> QED
        BY <3>3, <4>1
    <3>12. ASSUME UNCHANGED call
          PROVE  CallOK'
      BY <3>12 DEF CallOK
    <3> QED
      BY <3>5, <3>6, <3>7, <3>9, <3>10, <3>11, <3>12 DEF Next, Step, Request, Approve,
        EvaluationDelete, EvaluationCreate, EvaluationLost, vars
  <2>5. CountersOK'
    <3> USE DEF TypeOK, CountersOK, ghosts
    <3>1. \A m \in Modes : call[m].mode \in Keys
      BY DEF CallOK, Call, Keys
    <3>2. ASSUME NEW m \in Modes, Push(m)
          PROVE  CountersOK'
      BY <3>1, <3>2, Bumped DEF Push
    <3>3. ASSUME NEW m \in Modes, Create(m) \/ Skip(m)
          PROVE  CountersOK'
      BY <3>1, <3>3, Bumped, PublishingAssumption DEF Create, Skip, Keys
    <3>4. ASSUME NEW m \in Modes, TransitionCheck(m) \/ TransitionCommit(m)
          PROVE  CountersOK'
      BY <3>1, <3>4, Bumped DEF TransitionCheck, TransitionCommit
    <3>5. ASSUME NEW m \in Modes, Crash(m) \/ DatabaseFails(m) \/ AnswerLost(m)
          PROVE  CountersOK'
      <4>1. (faults \in 0..MaxFaults)'
        BY <3>5 DEF Crash, DatabaseFails, AnswerLost, Fault
      <4>2. (posts \in [Keys -> Nat] /\ lost \in [Keys -> Nat])'
        BY <3>1, <3>5, Bumped DEF Crash, DatabaseFails, AnswerLost, LoseOutcome
      <4>3. UNCHANGED <<erased, requests>>
        BY <3>5 DEF Crash, DatabaseFails, AnswerLost
      <4> QED
        BY <4>1, <4>2, <4>3
    <3>6. ASSUME NEW m \in Modes, DatabaseFailsEarly(m)
          PROVE  CountersOK'
      BY <3>6 DEF DatabaseFailsEarly, Fault
    <3>7. CASE EvaluationLost
      BY <3>7 DEF EvaluationLost, Fault
    <3>8. ASSUME NEW m \in Modes, Request(m) \/ Approve(m)
          PROVE  CountersOK'
      BY <3>8 DEF Request, Approve, Enqueue
    <3>9. ASSUME UNCHANGED <<ghosts, faults, requests>>
          PROVE  CountersOK'
      BY <3>9
    <3> QED
      BY <3>2, <3>3, <3>4, <3>5, <3>6, <3>7, <3>8, <3>9 DEF Next, Step, Start, Refuse,
        FailGate, Decide, Existing, CreateBlocked, PushRefused, Announce, FailCheck,
        FailCommit, Finish, EvaluationDelete, EvaluationCreate, vars
  <2>6. (submitted \subseteq Keys)'
    <3>1. ASSUME NEW m \in Modes, Announce(m)
          PROVE  (submitted \subseteq Keys)'
      BY <3>1 DEF Announce, TypeOK, CallOK, Call, Keys
    <3>2. ASSUME UNCHANGED submitted
          PROVE  (submitted \subseteq Keys)'
      BY <3>2 DEF TypeOK
    <3> QED
      BY <3>1, <3>2 DEF Next, Step, Request, Start, Refuse, Crash, DatabaseFailsEarly,
        DatabaseFails, AnswerLost, FailGate, Decide, Existing, Create, CreateBlocked, Skip,
        Push, PushRefused, TransitionCheck, TransitionCommit, FailCheck, FailCommit, Finish,
        Approve, EvaluationDelete, EvaluationCreate, EvaluationLost, vars
  <2> QED
    BY <2>1, <2>2, <2>3, <2>4, <2>5, <2>6 DEF TypeOK
<1> QED
  BY <1>1, <1>2, PTL DEF Spec

-----------------------------------------------------------------------------
(* The row of the key AUTO has one writer at a time, so a post is either on   *)
(* that row, or about to be, or was lost or erased.                           *)

\* Only the AUTO job ever works in effective mode AUTO, and only where the
\* capabilities and the findings allow it.
LEMMA AutoIsDecided ==
  ASSUME TypeOK, IInv, NEW m \in Modes, NEW f, EffectiveMode(m, f) = "AUTO", ~ Failing(f)
  PROVE  /\ m = "AUTO"
         /\ setup.envAllowsPublic /\ setup.connected /\ setup.audited /\ ~ setup.requiresInApp
         /\ BlockingChecks(f) = {}
         /\ WaivableChecks(f) \subseteq acked
<1>1. m = "AUTO" /\ MaxMode(IF Reviewed(f) # {} /\ ~ Covers(approved, f)
                           THEN "REVIEW" ELSE "PASS") = "AUTO"
  BY DEF EffectiveMode
<1>2. /\ setup.envAllowsPublic /\ setup.connected /\ setup.audited /\ ~ setup.requiresInApp
      /\ Reviewed(f) = {} \/ Covers(approved, f)
  BY <1>1 DEF MaxMode
<1>3. CASE Reviewed(f) = {}
  BY <1>1, <1>2, <1>3 DEF BlockingChecks, WaivableChecks
<1>4. CASE Covers(approved, f)
  BY <1>1, <1>2, <1>4 DEF Covers, IInv
<1> QED
  BY <1>2, <1>3, <1>4

\* A call runs only while its job is active.
LEMMA ActiveStep ==
  ASSUME TypeOK, IInv, [Next]_vars, NEW n \in Modes, call'[n].pc # "idle"
  PROVE  job'[n].state = "active"
<1>0. /\ call[n].pc # "idle" => job[n].state = "active"
      /\ call \in [Modes -> Call] /\ job \in [Modes -> Job]
  BY DEF IInv, TypeOK, CallOK, JobOK
<1>1. ASSUME NEW m \in Modes, Request(m) \/ Approve(m)
      PROVE  job'[n].state = "active"
  BY <1>0, <1>1 DEF Request, Approve, Enqueue
<1>2. ASSUME NEW m \in Modes, Start(m)
      PROVE  job'[n].state = "active"
  BY <1>0, <1>2 DEF Start, Job
<1>3. ASSUME NEW m \in Modes,
             call' = [call EXCEPT ![m] = NoCall],
             \A k \in Modes \ {m} : job'[k] = job[k]
      PROVE  job'[n].state = "active"
  <2>1. n # m
    BY <1>0, <1>3 DEF NoCall
  <2> QED
    BY <1>0, <1>3, <2>1
<1>4. ASSUME NEW m \in Modes,
             Finish(m) \/ Crash(m) \/ FailCommit(m) \/ DatabaseFailsEarly(m)
      PROVE  job'[n].state = "active"
  BY <1>0, <1>3, <1>4 DEF Finish, Crash, FailCommit, DatabaseFailsEarly, Throw
<1>5. ASSUME NEW m \in Modes, call[m].pc # "idle", UNCHANGED job,
             \A k \in Modes \ {m} : call'[k] = call[k]
      PROVE  job'[n].state = "active"
  BY <1>5 DEF IInv
<1>6. ASSUME NEW m \in Modes, FailCheck(m)
      PROVE  job'[n].state = "active"
  BY <1>0, <1>3, <1>5, <1>6 DEF FailCheck, Throw
<1>7. ASSUME NEW m \in Modes,
             \/ Refuse(m) \/ FailGate(m) \/ Existing(m) \/ Create(m) \/ CreateBlocked(m)
             \/ Skip(m) \/ PushRefused(m) \/ Announce(m) \/ DatabaseFails(m) \/ AnswerLost(m)
      PROVE  job'[n].state = "active"
  BY <1>0, <1>5, <1>7 DEF Refuse, FailGate, Existing, Create, CreateBlocked, Skip, PushRefused,
    Announce, DatabaseFails, AnswerLost, Goto, Forget
<1>8. ASSUME NEW m \in Modes,
             Decide(m) \/ Push(m) \/ TransitionCheck(m) \/ TransitionCommit(m)
      PROVE  job'[n].state = "active"
  BY <1>0, <1>5, <1>8 DEF Decide, Push, TransitionCheck, TransitionCommit, Goto
<1>9. ASSUME UNCHANGED <<call, job>>
      PROVE  job'[n].state = "active"
  BY <1>0, <1>9
<1> QED
  BY <1>1, <1>2, <1>4, <1>6, <1>7, <1>8, <1>9 DEF Next, Step, EvaluationDelete,
    EvaluationCreate, EvaluationLost, vars

\* A call's own part of the invariant survives every step.
LEMMA CallStep ==
  ASSUME TypeOK, TypeOK', IInv, [Next]_vars, NEW n \in Modes
  PROVE  CallInv(n)'
<1> USE DEF CallInv, Writes, Pushes, world, ghosts
<1>0. /\ CallInv(n)
      /\ \A m \in Modes : CallInv(m)
      /\ call \in [Modes -> Call] /\ rows \in [Keys -> PublicationRow]
      /\ posts \in [Keys -> Nat] /\ "AUTO" \in Keys
  BY DEF IInv, TypeOK, CallOK, RowsOK, CountersOK, Keys, PublicationMode
<1>1. ASSUME NEW m \in Modes, Request(m) \/ Finish(m) \/ Start(m)
      PROVE  CallInv(n)'
  <2>1. CASE Request(m)
    BY <1>0, <2>1 DEF Request
  <2>2. CASE Finish(m) \/ Start(m)
    <3>1. /\ \/ call' = [call EXCEPT ![m] = NoCall]
             \/ call' = [call EXCEPT ![m] = [NoCall EXCEPT !.pc = "gate", !.seen = findings]]
          /\ UNCHANGED <<setup, acked, rows, posts>>
      BY <2>2 DEF Finish, Start
    <3>2. call'[m].mode = "DRAFT" /\ call'[m].pc \in {"idle", "gate"}
      <4>1. call'[m] \in {NoCall, [NoCall EXCEPT !.pc = "gate", !.seen = findings]}
        BY <1>0, <3>1
      <4>2. NoCall.mode = "DRAFT" /\ NoCall.pc = "idle" /\ NoCall \in Call
        BY NoCallIsTyped DEF NoCall
      <4> QED
        BY <4>1, <4>2 DEF Call
    <3>3. n # m => call'[n] = call[n]
      BY <1>0, <3>1
    <3> QED
      BY <1>0, <3>1, <3>2, <3>3
  <2> QED
    BY <1>1, <2>1, <2>2
<1>2. ASSUME NEW m \in Modes, Refuse(m) \/ FailGate(m) \/ CreateBlocked(m) \/ PushRefused(m) \/ Announce(m)
      PROVE  CallInv(n)'
  <2>1. /\ \E pc \in {"skip", "failCheck", "returned"} : Goto(m, pc) \/ Forget(m, pc)
        /\ UNCHANGED <<setup, acked, rows, posts>>
    BY <1>2 DEF Refuse, FailGate, CreateBlocked, PushRefused, Announce
  <2>2. /\ call'[m].mode = call[m].mode
        /\ call'[m].pc \in {"skip", "failCheck", "returned"}
    <3>1. CASE \E pc \in {"skip", "failCheck", "returned"} : Goto(m, pc)
      BY <1>0, <3>1 DEF Goto, Call
    <3>2. CASE \E pc \in {"skip", "failCheck", "returned"} : Forget(m, pc)
      BY <1>0, <3>2 DEF Forget, Call
    <3> QED
      BY <2>1, <3>1, <3>2
  <2>3. n # m => call'[n] = call[n]
    BY <1>0, <2>1 DEF Goto, Forget
  <2> QED
    BY <1>0, <2>1, <2>2, <2>3
<1>3. ASSUME NEW m \in Modes, Decide(m)
      PROVE  CallInv(n)'
  BY <1>0, <1>3, AutoIsDecided DEF Decide, Call, PublicationRow
<1>4. ASSUME NEW m \in Modes, Existing(m)
      PROVE  CallInv(n)'
  BY <1>0, <1>4 DEF Existing, Goto, Call, PublicationRow
<1>5. ASSUME NEW m \in Modes, Create(m)
      PROVE  CallInv(n)'
  BY <1>0, <1>5 DEF Create, Upsert, Forget, Call, PublicationRow
<1>6. ASSUME NEW m \in Modes, Skip(m)
      PROVE  CallInv(n)'
  BY <1>0, <1>6 DEF Skip, Upsert, Bump, Goto, Call, PublicationRow
<1>7. ASSUME NEW m \in Modes, Push(m)
      PROVE  CallInv(n)'
  BY <1>0, <1>7 DEF Push, Bump, ProviderResult, Call, PublicationRow
<1>8. ASSUME NEW m \in Modes, TransitionCheck(m)
      PROVE  CallInv(n)'
  <2>1. UNCHANGED <<setup, acked, rows, posts>>
    BY <1>8 DEF TransitionCheck
  <2>2. /\ call[m].pc = "check" /\ call'[m].pc \in {"commit", "failCheck"}
        /\ call'[m].mode = call[m].mode /\ call'[m].token = call[m].token
        /\ call'[m].result = call[m].result
    <3> DEFINE checked == [call[m] EXCEPT !.pc = "commit", !.version = rows[call[m].mode].version]
               rejected == [call[m] EXCEPT !.pc = "failCheck"]
    <3>1. call'[m] \in {checked, rejected} /\ call[m].pc = "check"
      BY <1>0, <1>8 DEF TransitionCheck, Goto
    <3>2. call[m] \in Call
      BY <1>0
    <3> QED
      BY <3>1, <3>2 DEF Call
  <2>3. n # m => call'[n] = call[n]
    BY <1>0, <1>8 DEF TransitionCheck, Goto
  <2> QED
    BY <1>0, <2>1, <2>2, <2>3
<1>9. ASSUME NEW m \in Modes, TransitionCommit(m)
      PROVE  CallInv(n)'
  <2>1. UNCHANGED <<setup, acked, posts>> /\ call[m].pc = "commit"
    BY <1>9 DEF TransitionCommit
  <2>2. call'[m].mode = call[m].mode /\ call'[m].pc \in {"announce", "failCheck"}
    <3>1. call'[m] \in {[call[m] EXCEPT !.pc = "announce"], [call[m] EXCEPT !.pc = "failCheck"]}
      BY <1>0, <1>9 DEF TransitionCommit, Goto
    <3>2. call[m] \in Call
      BY <1>0
    <3> QED
      BY <3>1, <3>2 DEF Call
  <2>3. n # m => call'[n] = call[n]
    BY <1>0, <1>9 DEF TransitionCommit, Goto
  <2>4. call[m].mode # "AUTO" => rows'["AUTO"] = rows["AUTO"]
    BY <1>0, <1>9 DEF TransitionCommit
  <2>5. CASE n = m
    BY <1>0, <2>1, <2>2, <2>5
  <2>6. CASE n # m
    <3>1. call[n].mode = "AUTO" => rows'["AUTO"] = rows["AUTO"]
      BY <1>0, <2>4, <2>6
    <3> QED
      BY <1>0, <2>1, <2>3, <2>6, <3>1
  <2> QED
    BY <2>5, <2>6
<1>10. ASSUME NEW m \in Modes, FailCheck(m)
      PROVE  CallInv(n)'
  <2>1. UNCHANGED <<setup, acked, rows, posts>>
    BY <1>10 DEF FailCheck
  <2>2. \/ call'[m].mode = "DRAFT" /\ call'[m].pc = "idle"
        \/ /\ call'[m].mode = call[m].mode /\ call'[m].pc = "failCommit"
           /\ CanTransition("Publication", rows[call[m].mode].status, "FAILED")
    <3>1. CASE call' = [call EXCEPT ![m] = NoCall]
      BY <1>0, <3>1 DEF NoCall
    <3>2. CASE /\ CanTransition("Publication", rows[call[m].mode].status, "FAILED")
               /\ call' = [call EXCEPT ![m] = [call[m] EXCEPT
                             !.pc = "failCommit", !.version = rows[call[m].mode].version]]
      <4>1. call'[m] = [call[m] EXCEPT
                          !.pc = "failCommit", !.version = rows[call[m].mode].version]
        BY <1>0, <3>2
      <4>2. call[m] \in Call
        BY <1>0
      <4> QED
        BY <3>2, <4>1, <4>2 DEF Call
    <3> QED
      BY <1>10, <3>1, <3>2 DEF FailCheck, Throw
  <2>3. n # m => call'[n] = call[n]
    BY <1>0, <1>10 DEF FailCheck, Throw
  <2> QED
    BY <1>0, <2>1, <2>2, <2>3, PublishedCannotFail
<1>11. ASSUME NEW m \in Modes, FailCommit(m)
      PROVE  CallInv(n)'
  BY <1>0, <1>11 DEF FailCommit, Throw, NoCall, Call, PublicationRow
<1>12. ASSUME NEW m \in Modes, Crash(m)
      PROVE  CallInv(n)'
  BY <1>0, <1>12 DEF Crash, LoseOutcome, Bump, NoCall, Call, PublicationRow
<1>13. ASSUME NEW m \in Modes, DatabaseFailsEarly(m)
      PROVE  CallInv(n)'
  BY <1>0, <1>13 DEF DatabaseFailsEarly, Throw, NoCall, Call, PublicationRow
<1>14. ASSUME NEW m \in Modes, DatabaseFails(m)
      PROVE  CallInv(n)'
  BY <1>0, <1>14 DEF DatabaseFails, LoseOutcome, Bump, Goto, Call, PublicationRow
<1>15. ASSUME NEW m \in Modes, AnswerLost(m)
      PROVE  CallInv(n)'
  BY <1>0, <1>15 DEF AnswerLost, Bump, Goto, Call, PublicationRow
<1>16. ASSUME NEW m \in Modes, Approve(m)
      PROVE  CallInv(n)'
  BY <1>0, <1>16 DEF Approve, Call, PublicationRow
<1>17. CASE EvaluationDelete \/ EvaluationCreate \/ EvaluationLost
  BY <1>0, <1>17 DEF EvaluationDelete, EvaluationCreate, EvaluationLost
<1>18. CASE UNCHANGED vars
  BY <1>0, <1>18 DEF vars
<1> QED
  BY <1>1, <1>2, <1>3, <1>4, <1>5, <1>6, <1>7, <1>8, <1>9, <1>10, <1>11, <1>12, <1>13, <1>14, <1>15, <1>16, <1>17, <1>18 DEF Next, Step

\* Every post stays covered, or is counted as lost or erased.
LEMMA BalanceStep ==
  ASSUME TypeOK, TypeOK', IInv, [Next]_vars
  PROVE  Balance'
<1>0. /\ Balance
      /\ \A m \in Modes : CallInv(m)
      /\ call \in [Modes -> Call] /\ rows \in [Keys -> PublicationRow]
      /\ posts \in [Keys -> Nat] /\ lost \in [Keys -> Nat] /\ erased \in [Keys -> Nat]
      /\ "AUTO" \in Keys
  BY DEF IInv, TypeOK, CallOK, RowsOK, CountersOK, Keys, PublicationMode
<1>1. /\ posts["AUTO"] \in Nat /\ lost["AUTO"] \in Nat /\ erased["AUTO"] \in Nat
      /\ posts'["AUTO"] \in Nat /\ lost'["AUTO"] \in Nat /\ erased'["AUTO"] \in Nat
  BY <1>0 DEF TypeOK, CountersOK
\* The three ways a step can keep the balance.
<1>2. ASSUME Covered => Covered', UNCHANGED <<posts, lost, erased>>
      PROVE  Balance'
  BY <1>0, <1>1, <1>2 DEF Balance
<1>3. ASSUME UNCHANGED posts,
             lost'["AUTO"] + erased'["AUTO"] >= lost["AUTO"] + erased["AUTO"] + 1
      PROVE  Balance'
  BY <1>0, <1>1, <1>3 DEF Balance
<1>4. ASSUME Covered => Covered', posts'["AUTO"] = posts["AUTO"] + 1,
             lost'["AUTO"] = lost["AUTO"] + 1, UNCHANGED erased
      PROVE  Balance'
  BY <1>0, <1>1, <1>4 DEF Balance
<1>5. ASSUME ~ Covered, Covered', posts'["AUTO"] = posts["AUTO"] + 1, UNCHANGED <<lost, erased>>
      PROVE  Balance'
  BY <1>0, <1>1, <1>5 DEF Balance
\* A call that stays, or was not about to record a post, leaves the rest alone.
<1>6. ASSUME NEW m \in Modes, \A n \in Modes \ {m} : call'[n] = call[n],
             ~ Unrecorded(m) \/ Unrecorded(m)', UNCHANGED rows
      PROVE  Covered => Covered'
  BY <1>6 DEF Covered, Unrecorded, Pushes
<1>7. ASSUME NEW m \in Modes, call[m].pc \notin {"check", "commit"},
             UNCHANGED <<rows, posts, lost, erased>>,
             \A n \in Modes \ {m} : call'[n] = call[n]
      PROVE  Balance'
  BY <1>2, <1>6, <1>7 DEF Unrecorded
<1>8. ASSUME NEW m \in Modes,
             Start(m) \/ Finish(m) \/ Refuse(m) \/ FailGate(m) \/ Decide(m) \/ Existing(m)
               \/ CreateBlocked(m) \/ PushRefused(m) \/ Announce(m) \/ FailCheck(m)
               \/ DatabaseFailsEarly(m)
      PROVE  Balance'
  <2> USE DEF Start, Finish, Refuse, FailGate, Decide, Existing, CreateBlocked, PushRefused,
        Announce, FailCheck, DatabaseFailsEarly
  <2>1. UNCHANGED <<rows, posts, lost, erased>>
    BY <1>8 DEF ghosts
  <2>2. call[m].pc \notin {"check", "commit"}
    <3>1. CASE Start(m)
      BY <3>1 DEF IInv
    <3> QED
      BY <1>8, <3>1
  <2>3. \A n \in Modes \ {m} : call'[n] = call[n]
    BY <1>0, <1>8 DEF Throw, Goto, Forget
  <2> QED
    BY <1>7, <2>1, <2>2, <2>3
<1>9. ASSUME UNCHANGED <<rows, call, posts, lost, erased>>
      PROVE  Balance'
  BY <1>2, <1>9 DEF Covered, Unrecorded, Pushes
\* A call in AUTO mode found its row not PUBLISHED.
<1>10. ASSUME NEW m \in Modes, Create(m)
       PROVE  Balance'
  <2>1. /\ UNCHANGED <<posts, lost, erased>> /\ call[m].pc = "create"
        /\ \A n \in Modes \ {m} : call'[n] = call[n]
    BY <1>0, <1>10 DEF Create, Forget, ghosts
  <2>2. rows["AUTO"].status = "PUBLISHED" => rows'["AUTO"].status = "PUBLISHED"
    BY <1>0, <1>10 DEF Create, Upsert, CallInv, Writes
  <2>3. \A n \in Modes : Unrecorded(n) => Unrecorded(n)'
    BY <2>1 DEF Unrecorded, Pushes
  <2> QED
    BY <1>2, <2>1, <2>2, <2>3 DEF Covered
\* A skip that erases a PUBLISHED row is counted.
<1>18. ASSUME NEW m \in Modes, Skip(m)
       PROVE  Balance'
  <2>1. /\ UNCHANGED <<posts, lost>> /\ call[m].pc = "skip"
        /\ \A n \in Modes \ {m} : call'[n] = call[n]
    BY <1>0, <1>18 DEF Skip, Goto
  <2>2. CASE m = "AUTO" /\ rows["AUTO"].status = "PUBLISHED"
    <3>1. erased'["AUTO"] = erased["AUTO"] + 1
      BY <1>0, <1>18, <2>2 DEF Skip, Bump
    <3> QED
      BY <1>1, <1>3, <2>1, <3>1
  <2>3. CASE ~ (m = "AUTO" /\ rows["AUTO"].status = "PUBLISHED")
    <3>1. m \in Keys
      BY PublishingAssumption DEF Keys
    <3>2. erased'["AUTO"] = erased["AUTO"]
      BY <1>0, <1>18, <2>3, <3>1 DEF Skip, Bump
    <3>3. rows["AUTO"].status = "PUBLISHED" => rows'["AUTO"].status = "PUBLISHED"
      BY <1>0, <1>18, <2>3, <3>1 DEF Skip, Upsert
    <3>4. \A n \in Modes : Unrecorded(n) => Unrecorded(n)'
      BY <2>1 DEF Unrecorded, Pushes
    <3>5. Covered => Covered'
      BY <3>3, <3>4 DEF Covered
    <3> QED
      BY <1>0, <1>1, <2>1, <3>2, <3>5 DEF Balance
  <2> QED
    BY <2>2, <2>3
\* The catch block never rewrites a PUBLISHED row.
<1>11. ASSUME NEW m \in Modes, FailCommit(m)
       PROVE  Balance'
  <2>1. /\ UNCHANGED <<posts, lost, erased>> /\ call[m].pc = "failCommit"
        /\ \A n \in Modes \ {m} : call'[n] = call[n]
    BY <1>0, <1>11 DEF FailCommit, Throw, ghosts
  <2>2. rows["AUTO"].status = "PUBLISHED" => rows'["AUTO"].status = "PUBLISHED"
    BY <1>0, <1>11 DEF FailCommit, CallInv, Writes
  <2>3. \A n \in Modes : Unrecorded(n) => Unrecorded(n)'
    BY <2>1 DEF Unrecorded, Pushes
  <2> QED
    BY <1>2, <2>1, <2>2, <2>3 DEF Covered
\* Before a push in AUTO nothing covers: its row is not PUBLISHED, and the call
\* is the only one in AUTO mode.
<1>12. ASSUME NEW m \in Modes, Push(m)
       PROVE  Balance'
  <2>1. /\ call[m].pc = "push" /\ UNCHANGED <<rows, lost, erased>>
        /\ \A n \in Modes \ {m} : call'[n] = call[n]
    BY <1>0, <1>12 DEF Push
  <2>2. CASE Pushes(m) /\ call[m].mode = "AUTO"
    <3>1. ~ Covered
      BY <1>0, <2>1, <2>2 DEF Covered, Unrecorded, CallInv, Writes
    <3>2. call'[m] = [call[m] EXCEPT !.pc = "check", !.result = ProviderResult(m)]
      BY <1>0, <1>12 DEF Push
    <3>3. Unrecorded(m)'
      BY <1>0, <2>2, <3>2 DEF Unrecorded, Pushes, Call
    <3>4. posts'["AUTO"] = posts["AUTO"] + 1
      BY <1>0, <1>12, <2>2 DEF Push, Bump
    <3> QED
      BY <1>5, <2>1, <3>1, <3>3, <3>4 DEF Covered
  <2>3. CASE ~ (Pushes(m) /\ call[m].mode = "AUTO")
    <3>1. posts'["AUTO"] = posts["AUTO"]
      BY <1>0, <1>12, <2>3 DEF Push, Bump
    <3>2. Covered => Covered'
      BY <1>6, <2>1 DEF Unrecorded
    <3> QED
      BY <1>0, <1>1, <2>1, <3>1, <3>2 DEF Balance
  <2> QED
    BY <2>2, <2>3
<1>13. ASSUME NEW m \in Modes, AnswerLost(m)
       PROVE  Balance'
  <2>1. /\ call[m].pc = "push" /\ UNCHANGED <<rows, erased>>
        /\ \A n \in Modes \ {m} : call'[n] = call[n]
    BY <1>0, <1>13 DEF AnswerLost, Goto
  <2>2. Covered => Covered'
    BY <1>6, <2>1 DEF Unrecorded
  <2>3. CASE call[m].mode = "AUTO"
    <3>1. posts'["AUTO"] = posts["AUTO"] + 1 /\ lost'["AUTO"] = lost["AUTO"] + 1
      BY <1>0, <1>13, <2>3 DEF AnswerLost, Bump
    <3> QED
      BY <1>4, <2>1, <2>2, <3>1
  <2>4. CASE call[m].mode # "AUTO"
    <3>1. posts'["AUTO"] = posts["AUTO"] /\ lost'["AUTO"] = lost["AUTO"]
      BY <1>0, <1>13, <2>4 DEF AnswerLost, Bump
    <3> QED
      BY <1>0, <1>1, <2>1, <2>2, <3>1 DEF Balance
  <2> QED
    BY <2>3, <2>4
\* A push in AUTO whose call stops being about to record it is counted as lost.
<1>14. ASSUME NEW m \in Modes, UNCHANGED <<rows, posts, erased>>,
              \A n \in Modes \ {m} : call'[n] = call[n],
              \/ Unrecorded(m) => lost'["AUTO"] = lost["AUTO"] + 1
              \/ Unrecorded(m)',
              lost'["AUTO"] >= lost["AUTO"]
       PROVE  Balance'
  <2>1. CASE Unrecorded(m) /\ ~ Unrecorded(m)'
    BY <1>1, <1>3, <1>14, <2>1
  <2>2. CASE ~ Unrecorded(m) \/ Unrecorded(m)'
    <3>1. Covered => Covered'
      BY <1>6, <1>14, <2>2
    <3> QED
      BY <1>0, <1>1, <1>14, <3>1 DEF Balance
  <2> QED
    BY <2>1, <2>2
<1>15. ASSUME NEW m \in Modes, TransitionCheck(m)
       PROVE  Balance'
  <2>1. UNCHANGED <<rows, posts, erased>> /\ \A n \in Modes \ {m} : call'[n] = call[n]
    BY <1>0, <1>15 DEF TransitionCheck, Goto
  <2>2. CASE /\ call' = [call EXCEPT ![m] =
                          [call[m] EXCEPT !.pc = "commit", !.version = rows[call[m].mode].version]]
             /\ UNCHANGED lost
    <3>1. call'[m] = [call[m] EXCEPT !.pc = "commit", !.version = rows[call[m].mode].version]
      BY <1>0, <2>2
    <3>2. Unrecorded(m) => Unrecorded(m)'
      BY <1>0, <3>1 DEF Unrecorded, Pushes, Call
    <3>3. ~ Unrecorded(m) \/ Unrecorded(m)'
      BY <3>2
    <3>4. Covered => Covered'
      BY <1>6, <2>1, <3>3
    <3> QED
      BY <1>2, <2>1, <2>2, <3>4
  <2>3. CASE lost' = IF Pushes(m) THEN Bump(lost, call[m].mode) ELSE lost
    <3>1. Unrecorded(m) => lost'["AUTO"] = lost["AUTO"] + 1
      BY <1>0, <2>3 DEF Unrecorded, Bump
    <3>2. lost'["AUTO"] >= lost["AUTO"]
      BY <1>0, <1>1, <2>3 DEF Bump, Call, Keys
    <3> QED
      BY <1>14, <2>1, <3>1, <3>2
  <2> QED
    BY <1>15, <2>2, <2>3 DEF TransitionCheck
<1>16. ASSUME NEW m \in Modes, TransitionCommit(m)
       PROVE  Balance'
  <2>1. UNCHANGED <<posts, erased>> /\ \A n \in Modes \ {m} : call'[n] = call[n]
    BY <1>0, <1>16 DEF TransitionCommit, Goto
  <2>2. CASE /\ rows' = [rows EXCEPT ![call[m].mode] =
                          [status |-> call[m].result, version |-> @.version + 1]]
             /\ call[m].pc = "commit"
             /\ UNCHANGED lost
    <3>1. Unrecorded(m) => rows'["AUTO"].status = "PUBLISHED"
      BY <1>0, <2>2 DEF Unrecorded, CallInv
    <3>2. rows["AUTO"].status = "PUBLISHED" => rows'["AUTO"].status = "PUBLISHED"
      BY <1>0, <2>2 DEF CallInv, Writes
    <3>3. \A n \in Modes \ {m} : Unrecorded(n) => Unrecorded(n)'
      BY <2>1 DEF Unrecorded, Pushes
    <3>4. Covered => Covered'
      BY <3>1, <3>2, <3>3 DEF Covered
    <3> QED
      BY <1>2, <2>1, <2>2, <3>4
  <2>3. CASE UNCHANGED rows /\ lost' = IF Pushes(m) THEN Bump(lost, call[m].mode) ELSE lost
    <3>1. Unrecorded(m) => lost'["AUTO"] = lost["AUTO"] + 1
      BY <1>0, <2>3 DEF Unrecorded, Bump
    <3>2. lost'["AUTO"] >= lost["AUTO"]
      BY <1>0, <1>1, <2>3 DEF Bump, Call, Keys
    <3> QED
      BY <1>14, <2>1, <2>3, <3>1, <3>2
  <2> QED
    BY <1>16, <2>2, <2>3 DEF TransitionCommit
<1>17. ASSUME NEW m \in Modes, Crash(m) \/ DatabaseFails(m)
       PROVE  Balance'
  <2>1. /\ UNCHANGED <<rows, posts, erased>> /\ LoseOutcome(m)
        /\ \A n \in Modes \ {m} : call'[n] = call[n]
    BY <1>0, <1>17 DEF Crash, DatabaseFails, Goto
  <2>2. Unrecorded(m) => lost'["AUTO"] = lost["AUTO"] + 1
    BY <1>0, <2>1 DEF Unrecorded, LoseOutcome, Bump
  <2>3. lost'["AUTO"] >= lost["AUTO"]
    BY <1>0, <1>1, <2>1 DEF LoseOutcome, Bump, Call, Keys
  <2> QED
    BY <1>14, <2>1, <2>2, <2>3
<1> QED
  BY <1>8, <1>9, <1>10, <1>11, <1>12, <1>13, <1>15, <1>16, <1>17,
     <1>18
  DEF Next, Step, Request, Approve, EvaluationDelete, EvaluationCreate, EvaluationLost, vars,
      ghosts

\* Only a call whose push in AUTO succeeded marks a row PUBLISHED.
LEMMA NeverFakedStep ==
  ASSUME TypeOK, TypeOK', IInv, [Next]_vars, NEW k \in Keys, rows'[k].status = "PUBLISHED"
  PROVE  k = "AUTO" /\ posts'["AUTO"] > 0
<1>0. /\ rows[k].status = "PUBLISHED" => k = "AUTO" /\ posts["AUTO"] > 0
      /\ \A m \in Modes : CallInv(m)
      /\ call \in [Modes -> Call] /\ rows \in [Keys -> PublicationRow]
      /\ posts \in [Keys -> Nat] /\ "AUTO" \in Keys
  BY DEF IInv, NeverFaked, TypeOK, CallOK, RowsOK, CountersOK, Keys, PublicationMode
<1>1. posts'["AUTO"] >= posts["AUTO"]
  <2>1. ASSUME NEW m \in Modes, Push(m) \/ AnswerLost(m)
        PROVE  posts'["AUTO"] >= posts["AUTO"]
    BY <1>0, <2>1 DEF Push, AnswerLost, Bump, Call, Keys
  <2>2. ASSUME UNCHANGED posts
        PROVE  posts'["AUTO"] >= posts["AUTO"]
    BY <1>0, <2>2
  <2> QED
    BY <2>1, <2>2 DEF Next, Step, Request, Start, Refuse, Crash, DatabaseFailsEarly,
      DatabaseFails, FailGate, Decide, Existing, Create, CreateBlocked, Skip, PushRefused,
      TransitionCheck, TransitionCommit, Announce, FailCheck, FailCommit, Finish, Approve,
      EvaluationDelete, EvaluationCreate, EvaluationLost, vars, ghosts
<1>2. posts["AUTO"] > 0 => posts'["AUTO"] > 0
  <2>1. posts["AUTO"] \in Nat /\ posts'["AUTO"] \in Nat
    BY <1>0 DEF TypeOK, CountersOK
  <2> QED
    BY <1>1, <2>1
<1>3. CASE rows[k].status # "PUBLISHED"
  <2>1. ASSUME NEW m \in Modes, TransitionCommit(m)
        PROVE  k = "AUTO" /\ posts["AUTO"] > 0
    BY <1>0, <1>3, <2>1 DEF TransitionCommit, CallInv
  <2>2. ASSUME NEW m \in Modes, Create(m) \/ Skip(m)
        PROVE  FALSE
    BY <1>0, <1>3, <2>2 DEF Create, Skip, Upsert, PublicationRow
  <2>3. ASSUME NEW m \in Modes, FailCommit(m)
        PROVE  FALSE
    BY <1>0, <1>3, <2>3 DEF FailCommit
  <2>4. ~ UNCHANGED rows
    BY <1>3
  <2>5. k = "AUTO" /\ posts["AUTO"] > 0
    BY <2>1, <2>2, <2>3, <2>4 DEF Next, Step, Request, Start, Refuse, Crash,
      DatabaseFailsEarly, DatabaseFails, AnswerLost, FailGate, Decide, Existing, CreateBlocked,
      Push, PushRefused, TransitionCheck, Announce, FailCheck, Finish, Approve,
      EvaluationDelete, EvaluationCreate, EvaluationLost, vars
  <2> QED
    BY <1>2, <2>5
<1> QED
  BY <1>0, <1>2, <1>3

LEMMA Invariance == Spec => []IInv
<1>1. Init => IInv
  <2> SUFFICES ASSUME Init
               PROVE  IInv
    OBVIOUS
  <2> USE DEF Init
  <2>1. \A m \in Modes : CallInv(m) /\ call[m].pc = "idle"
    BY DEF NoCall, CallInv, Writes
  <2>2. "AUTO" \in Keys
    BY DEF Keys, PublicationMode
  <2>3. Balance /\ NeverFaked
    BY <2>2 DEF Balance, NeverFaked
  <2> QED
    BY <2>1, <2>3 DEF IInv
<1>2. TypeOK /\ TypeOK' /\ IInv /\ [Next]_vars => IInv'
  <2> SUFFICES ASSUME TypeOK, TypeOK', IInv, [Next]_vars
               PROVE  IInv'
    OBVIOUS
  <2>1. (\A m \in Modes : call[m].pc # "idle" => job[m].state = "active")'
    BY ActiveStep
  <2>2. (\A m \in Modes : CallInv(m))'
    BY CallStep
  <2>3. Balance'
    BY BalanceStep
  <2>4. NeverFaked'
    BY NeverFakedStep DEF NeverFaked, Keys
  <2>5. (approved # NoReview => approved \subseteq acked)'
    <3>1. ASSUME NEW m \in Modes, Approve(m)
          PROVE  approved' \subseteq acked'
      BY <3>1 DEF Approve
    <3>2. ASSUME UNCHANGED <<approved, acked>>
          PROVE  (approved # NoReview => approved \subseteq acked)'
      BY <3>2 DEF IInv
    <3> QED
      BY <3>1, <3>2 DEF Next, Step, Request, Start, Refuse, Crash, DatabaseFailsEarly,
        DatabaseFails, AnswerLost, FailGate, Decide, Existing, Create, CreateBlocked, Skip,
        Push, PushRefused, TransitionCheck, TransitionCommit, Announce, FailCheck, FailCommit,
        Finish, EvaluationDelete, EvaluationCreate, EvaluationLost, vars, world
  <2> QED
    BY <2>1, <2>2, <2>3, <2>4, <2>5 DEF IInv
<1> QED
  BY TypeCorrect, <1>1, <1>2, PTL DEF Spec

-----------------------------------------------------------------------------
\* A public post is repeated only if the outcome of one was lost, or the
\* PUBLISHED row of one was erased (publishService.ts:38-41, with its price).
THEOREM RepeatedPostsArePaidFor == Spec => []PublicPostsPaidFor
<1>1. TypeOK /\ IInv => PublicPostsPaidFor
  <2> SUFFICES ASSUME TypeOK, IInv
               PROVE  PublicPostsPaidFor
    OBVIOUS
  <2>1. posts["AUTO"] \in Nat /\ lost["AUTO"] \in Nat /\ erased["AUTO"] \in Nat
    BY DEF TypeOK, CountersOK, Keys, PublicationMode
  <2> QED
    BY <2>1 DEF IInv, Balance, PublicPostsPaidFor
<1> QED
  BY TypeCorrect, Invariance, <1>1, PTL

\* A PUBLISHED publication was really posted (publishService.ts:42-43).
THEOREM NoPostIsFaked == Spec => []NeverFaked
<1>1. IInv => NeverFaked
  BY DEF IInv
<1> QED
  BY Invariance, <1>1, PTL

\* A public post is only prepared where capabilities, findings and operator
\* reviews allow it (prePublicationService.ts:12-16, capabilityService.ts:5-8).
THEOREM EveryAutoIsAuthorized == Spec => []AutoIsAuthorized
<1>1. IInv => AutoIsAuthorized
  BY DEF IInv, CallInv, AutoIsAuthorized
<1> QED
  BY Invariance, <1>1, PTL
=============================================================================
