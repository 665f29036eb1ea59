------------------------- MODULE Submission_proofs -------------------------
(***************************************************************************)
(* Proofs about submissions, for every number of operators, sign-offs,     *)
(* attempts, resets and faults, and every deployment, post and adapter.    *)
(***************************************************************************)
EXTENDS Submission, TLAPS

\* The statuses of a submission, read off its table.
LEMMA Statuses ==
  {"PREPARED", "AWAITING_CONFIRMATION", "SUBMITTED", "APPROVED", "REJECTED", "FAILED"}
    \subseteq SubmissionStatus
BY DEF SubmissionStatus, StatusesOf, TABLES, SUBMISSION_TRANSITIONS

LEMMA InitialStatuses ==
  InitialStatus \in {"PREPARED", "AWAITING_CONFIRMATION", "SUBMITTED"}
BY DEF InitialStatus

LEMMA JobsAreRetried ==
  ASSUME NEW job \in Job
  PROVE  Retried(job) \in Job
BY SubmissionAssumption DEF Retried, Job

LEMMA RowMoves ==
  ASSUME row \in SubmissionRow, NEW s \in SubmissionStatus
  PROVE  Moved(s) \in SubmissionRow
<1>1. row.version + 1 \in Nat
  BY DEF SubmissionRow
<1>2. [row EXCEPT !.status = s] \in SubmissionRow
  BY DEF SubmissionRow
<1> QED
  BY <1>1, <1>2 DEF Moved, SubmissionRow

\* Every variable keeps its type.
LEMMA TypeStep ==
  ASSUME TypeOK, [Next]_vars
  PROVE  TypeOK'
<1> USE SubmissionAssumption DEF TypeOK, Goto, CallState
<1>1. CASE StartSubmit
  BY <1>1 DEF StartSubmit, Callers, CallPc, polling, ghosts, Job
<1>2. CASE Prepare
  BY <1>2, Statuses, InitialStatuses DEF Prepare, SubmissionRow, Callers, CallPc, polling, ghosts
<1>3. CASE Prepared
  BY <1>3 DEF Prepared, Callers, CallPc, polling, ghosts
<1>4. ASSUME NEW o \in Operators, Confirm(o)
      PROVE  TypeOK'
  BY <1>4 DEF Confirm, Callers, CallPc, polling, ghosts
<1>5. ASSUME NEW c \in Callers, Execute(c)
      PROVE  TypeOK'
  <2>1. CASE Read(c)
    BY <2>1 DEF Read, CallPc, polling, ghosts
  <2>2. CASE FillForm(c)
    BY <2>2 DEF FillForm, Receive, CallPc, polling, Approval, Decision
  <2>3. CASE FormMissing(c)
    BY <2>3 DEF FormMissing, CallPc, polling, ghosts
  <2>4. CASE FormFails(c)
    BY <2>4 DEF FormFails, CallPc, polling, ghosts
  <2>5. CASE Check(c)
    BY <2>5 DEF Check, SubmissionRow, CallPc, polling, ghosts
  <2>6. CASE Commit(c)
    <3>1. row' = row \/ row' = Moved("SUBMITTED")
      BY <2>6 DEF Commit
    <3>2. row' \in SubmissionRow
      BY <3>1, Statuses, RowMoves
    <3>3. recorded' \in BOOLEAN
      BY <2>6 DEF Commit
    <3>4. call' \in [Callers -> CallState]
      BY <2>6 DEF Commit, CallPc
    <3> QED
      BY <2>6, <3>2, <3>3, <3>4 DEF Commit, polling
  <2>7. CASE Announce(c)
    BY <2>7 DEF Announce, CallPc, Job, ghosts
  <2>8. CASE FailCheck(c)
    BY <2>8, JobsAreRetried DEF FailCheck, SubmissionRow, Throw, NoCall, CallPc, polling, ghosts
  <2>9. CASE FailCommit(c)
    <3>1. row' = row \/ row' = Moved("FAILED")
      BY <2>9 DEF FailCommit
    <3>2. row' \in SubmissionRow
      BY <3>1, Statuses, RowMoves
    <3> QED
      BY <2>9, <3>2, JobsAreRetried DEF FailCommit, Throw, NoCall, CallPc, polling, ghosts
  <2>10. CASE Finish(c)
    BY <2>10 DEF Finish, NoCall, CallPc, Job, polling, ghosts
  <2> QED
    BY <1>5, <2>1, <2>2, <2>3, <2>4, <2>5, <2>6, <2>7, <2>8, <2>9, <2>10 DEF Execute
<1>6. ASSUME NEW c \in Callers, Crash(c)
      PROVE  TypeOK'
  BY <1>6 DEF Crash, Fault, NoCall, CallPc, Job, polling, ghosts
<1>7. ASSUME NEW c \in Callers, DatabaseFails(c)
      PROVE  TypeOK'
  BY <1>7, JobsAreRetried DEF DatabaseFails, Fault, Throw, NoCall, CallPc, polling, ghosts
<1>8. ASSUME NEW c \in Callers, AnswerLost(c)
      PROVE  TypeOK'
  BY <1>8 DEF AnswerLost, Fault, Receive, CallPc, polling, Approval, Decision
<1>9. ASSUME NEW p \in Pollers, Poll(p)
      PROVE  TypeOK'
  <2>1. PICK answer \in {"none", portal} :
          poll' = [poll EXCEPT ![p].pc = "write", ![p].answer = answer]
    BY <1>9 DEF Poll
  <2>2. answer \in Approval
    BY <2>1 DEF Approval
  <2>3. poll' \in [Pollers -> PollState]
    BY <2>1, <2>2 DEF PollState
  <2> QED
    BY <1>9, <2>3 DEF Poll, ghosts
<1>10. CASE Tracking
  <2>1. CASE StartTrack
    BY <2>1 DEF StartTrack, PollState, SubmissionRow, StartPoll, NoPoll, NoRow, Snapshot, Approval, Decision, Pollers, Job, ghosts
  <2>2. CASE WriteTrack
    <3>1. Written("track") \in SubmissionRow
      BY Statuses DEF Written, Known, SubmissionRow, PollState, Snapshot, Decision, Approval, Pollers
    <3>2. [row EXCEPT !.status = poll["track"].seen.status] \in SubmissionRow
      BY DEF SubmissionRow, PollState, Snapshot, Pollers
    <3>3. row' \in SubmissionRow
      BY <2>2, <3>1, <3>2 DEF WriteTrack
    <3>4. poll' \in [Pollers -> PollState]
      BY <2>2 DEF WriteTrack, PollState, Announcing, NoPoll, NoRow, Snapshot, Approval, Pollers
    <3> QED
      BY <2>2, <3>3, <3>4 DEF WriteTrack, ghosts
  <2>3. CASE FinishTrack
    BY <2>3 DEF FinishTrack, PollState, EndPoll, NoPoll, NoRow, Snapshot, Approval, Job, Pollers, ghosts
  <2>4. CASE TrackFails
    <3>1. track' \in Job
      BY <2>4, JobsAreRetried DEF TrackFails, Job
    <3>2. poll' \in [Pollers -> PollState]
      BY <2>4 DEF TrackFails, EndPoll, PollState, NoPoll, NoRow, Snapshot, Approval, Pollers
    <3>3. metrics' \in Nat
      BY <2>4 DEF TrackFails
    <3> QED
      BY <2>4, <3>1, <3>2, <3>3 DEF TrackFails, Fault, ghosts
  <2> QED
    BY <1>10, <2>1, <2>2, <2>3, <2>4 DEF Tracking
<1>11. CASE Syncing
  <2>1. CASE SyncMetrics
    BY <2>1 DEF SyncMetrics, ghosts
  <2>2. ASSUME NEW s \in Syncers, StartEarnings(s)
        PROVE  TypeOK'
    <3>1. poll' \in [Pollers -> PollState]
      BY <2>2 DEF StartEarnings, StartPoll, PollState, SubmissionRow, NoPoll, Snapshot, Approval, Pollers
    <3>2. earnings' \in Nat
      BY <2>2 DEF StartEarnings
    <3> QED
      BY <2>2, <3>1, <3>2 DEF StartEarnings, ghosts
  <2>3. ASSUME NEW s \in Syncers, WriteEarnings(s)
        PROVE  TypeOK'
    BY <2>3, Statuses DEF WriteEarnings, Written, Known, SubmissionRow, PollState, Announcing, NoPoll, NoRow, Snapshot, Approval, Decision, Pollers, ghosts
  <2>4. ASSUME NEW s \in Syncers, FinishEarnings(s)
        PROVE  TypeOK'
    BY <2>4 DEF FinishEarnings, PollState, EndPoll, NoPoll, NoRow, Snapshot, Approval, Pollers
  <2>5. CASE MetricsFail
    BY <2>5 DEF MetricsFail, Fault, ghosts
  <2>6. ASSUME NEW s \in Syncers, EarningsFail(s)
        PROVE  TypeOK'
    BY <2>6 DEF EarningsFail, PollState, Fault, EndPoll, NoPoll, NoRow, Snapshot, Approval, Pollers, ghosts
  <2> QED
    BY <1>11, <2>1, <2>2, <2>3, <2>4, <2>5, <2>6 DEF Syncing, Earnings
<1>12. CASE Decide
  BY <1>12 DEF Decide, polling, Approval, Decision
<1>13. CASE Again
  BY <1>13 DEF Again, Reset, Job, ghosts
<1>14. CASE UNCHANGED vars
  BY <1>14 DEF vars, polling, ghosts
<1> QED
  BY <1>1, <1>2, <1>3, <1>4, <1>5, <1>6, <1>7, <1>8, <1>9, <1>10, <1>11, <1>12, <1>13, <1>14
  DEF Next

LEMMA TypeCorrect == Spec => []TypeOK
<1>1. ASSUME Init
      PROVE  TypeOK
  <2> USE <1>1 DEF Init
  <2>1. row \in SubmissionRow
    BY DEF SubmissionRow, Approval
  <2>2. submit \in Job /\ track \in Job
    BY SubmissionAssumption DEF Job
  <2>3. call \in [Callers -> CallState]
    BY DEF NoCall, CallPc, CallState
  <2>4. poll \in [Pollers -> PollState]
    BY DEF NoPoll, PollState, NoRow, Snapshot, Approval
  <2>5. /\ confirmed \in [Operators -> 0..MaxConfirms]
        /\ resets \in 0..MaxResets /\ faults \in 0..MaxFaults
    BY SubmissionAssumption
  <2>6. /\ metrics \in Nat /\ earnings \in Nat
        /\ filled \in [Callers -> Nat]
    OBVIOUS
  <2> QED
    BY <2>1, <2>2, <2>3, <2>4, <2>5, <2>6 DEF TypeOK, Approval
<1> QED
  BY <1>1, TypeStep, PTL DEF Spec

-----------------------------------------------------------------------------
(* The parts of the invariant.  Each proof goes      through the actions;   *)
(* those that leave a part's variables alone are taken together.            *)

\* The actions of pollers, of the portal and of resets.
Others == Tracking \/ Syncing \/ Decide \/ Again \/ \E p \in Pollers : Poll(p)

LEMMA OthersLeaveCalls ==
  ASSUME Others
  PROVE  UNCHANGED <<setup, call, filled, confirmed, recorded>>
BY DEF Others, Tracking, StartTrack, WriteTrack, FinishTrack, TrackFails, Syncing, SyncMetrics,
       MetricsFail, Earnings, StartEarnings, WriteEarnings, FinishEarnings, EarningsFail, Decide,
       Again, Poll, ghosts

\* A sign-off is held until its form is filled in.
LEMMA SignStep ==
  ASSUME TypeOK, SignInv, [Next]_vars
  PROVE  SignInv'
<1>1. setup' = setup
  BY OthersLeaveCalls DEF Next, Others, StartSubmit, Prepare, Prepared, Confirm, Execute, Read, FillForm,
     FormMissing, FormFails, Check, Commit, Announce, FailCheck, FailCommit, Finish, Crash,
     DatabaseFails, AnswerLost, vars
<1>2. SUFFICES ASSUME setup.confirm
               PROVE  /\ filled'[Submitter] = 0
                      /\ call'[Submitter].pc \in {"idle", "prepare", "prepared", "returned"}
                      /\ \A o \in Operators :
                           /\ filled'[o] <= confirmed'[o]
                           /\ call'[o].pc \in {"read", "form"} => filled'[o] < confirmed'[o]
  BY <1>1 DEF SignInv
<1> USE SubmissionAssumption, <1>2 DEF SignInv, TypeOK, CallState, Goto, Callers
<1>3. CASE StartSubmit
  BY <1>3 DEF StartSubmit, ghosts
<1>4. CASE Prepare
  BY <1>4 DEF Prepare, ghosts
<1>5. CASE Prepared
  BY <1>5 DEF Prepared, InitialStatus, ghosts
<1>6. ASSUME NEW o \in Operators, Confirm(o)
      PROVE  SignInv'
  BY <1>6 DEF Confirm, ghosts
<1>7. ASSUME NEW c \in Callers, Execute(c)
      PROVE  SignInv'
  <2>1. CASE Read(c)
    BY <2>1 DEF Read, ghosts
  <2>2. CASE FillForm(c)
    BY <2>2 DEF FillForm, Receive
  <2>3. CASE FormMissing(c) \/ FormFails(c)
    BY <2>3 DEF FormMissing, FormFails, ghosts
  <2>4. CASE Check(c)
    BY <2>4 DEF Check, ghosts
  <2>5. CASE Commit(c)
    BY <2>5 DEF Commit
  <2>6. CASE Announce(c)
    BY <2>6 DEF Announce, ghosts
  <2>7. CASE FailCheck(c)
    BY <2>7 DEF FailCheck, Throw, NoCall, ghosts
  <2>8. CASE FailCommit(c)
    BY <2>8 DEF FailCommit, Throw, NoCall, ghosts
  <2>9. CASE Finish(c)
    BY <2>9 DEF Finish, NoCall, ghosts
  <2> QED
    BY <1>7, <2>1, <2>2, <2>3, <2>4, <2>5, <2>6, <2>7, <2>8, <2>9 DEF Execute
<1>8. ASSUME NEW c \in Callers, Crash(c) \/ DatabaseFails(c)
      PROVE  SignInv'
  BY <1>8 DEF Crash, DatabaseFails, Throw, NoCall, ghosts
<1>9. ASSUME NEW c \in Callers, AnswerLost(c)
      PROVE  SignInv'
  BY <1>9 DEF AnswerLost, Receive
<1>10. CASE Others
  BY <1>10, OthersLeaveCalls
<1>11. CASE UNCHANGED vars
  BY <1>11 DEF vars, ghosts
<1> QED
  BY <1>1, <1>3, <1>4, <1>5, <1>6, <1>7, <1>8, <1>9, <1>10, <1>11 DEF Next, Others

\* What has been filled in stays filled in.
LEMMA FilledGrows ==
  ASSUME TypeOK, [Next]_vars, SomeoneFilled
  PROVE  SomeoneFilled'
<1>1. PICK c \in Callers : filled[c] > 0
  BY DEF SomeoneFilled
<1>2. filled' = filled \/ \E d \in Callers : filled' = [filled EXCEPT ![d] = @ + 1]
  BY OthersLeaveCalls
  DEF Next, Others, StartSubmit, Prepare, Prepared, Confirm, Execute, Read, FillForm, Receive,
      FormMissing, FormFails, Check, Commit, Announce, FailCheck, FailCommit, Finish, Crash,
      DatabaseFails, AnswerLost, vars, ghosts
<1>3. filled'[c] > 0
  BY <1>1, <1>2 DEF TypeOK
<1> QED
  BY <1>3 DEF SomeoneFilled

\* Until a form is filled in, nothing carries the status of a submission.
LEMMA FilledStep ==
  ASSUME TypeOK, FilledInv, [Next]_vars
  PROVE  FilledInv'
<1>1. CASE SomeoneFilled
  BY <1>1, FilledGrows DEF FilledInv
<1>2. ASSUME NEW c \in Callers, FillForm(c) \/ AnswerLost(c)
      PROVE  FilledInv'
  <2>1. filled'[c] > 0
    BY <1>2 DEF FillForm, AnswerLost, Receive, TypeOK
  <2> QED
    BY <2>1 DEF FilledInv, SomeoneFilled
<1> USE SubmissionAssumption
    DEF FilledInv, SomeoneFilled, TypeOK, CallState, SubmissionRow, Goto, Callers, Made
<1>3. CASE StartSubmit
  BY <1>3 DEF StartSubmit, polling, ghosts
<1>4. CASE Prepare
  BY <1>4, InitialStatuses DEF Prepare, InitialStatus, polling, ghosts
<1>5. CASE Prepared
  BY <1>5 DEF Prepared, polling, ghosts
<1>6. ASSUME NEW o \in Operators, Confirm(o)
      PROVE  FilledInv'
  BY <1>6 DEF Confirm, polling, ghosts
<1>7. ASSUME NEW c \in Callers, Execute(c), ~ FillForm(c)
      PROVE  FilledInv'
  <2>1. CASE Read(c) \/ FormMissing(c) \/ FormFails(c)
    BY <2>1 DEF Read, FormMissing, FormFails, polling, ghosts
  <2>2. CASE Check(c)
    BY <2>2 DEF Check, polling, ghosts
  <2>3. CASE Commit(c)
    BY <2>3 DEF Commit, polling
  <2>4. CASE Announce(c)
    BY <2>4 DEF Announce, ghosts
  <2>5. CASE FailCheck(c)
    BY <2>5 DEF FailCheck, Throw, NoCall, polling, ghosts
  <2>6. CASE FailCommit(c)
    BY <2>6, Statuses DEF FailCommit, Moved, Throw, NoCall, polling, ghosts
  <2>7. CASE Finish(c)
    BY <2>7 DEF Finish, NoCall, polling, ghosts
  <2> QED
    BY <1>7, <2>1, <2>2, <2>3, <2>4, <2>5, <2>6, <2>7 DEF Execute
<1>8. ASSUME NEW c \in Callers, Crash(c) \/ DatabaseFails(c)
      PROVE  FilledInv'
  BY <1>8 DEF Crash, DatabaseFails, Throw, NoCall, polling, ghosts
<1>9. ASSUME NEW p \in Pollers, Poll(p)
      PROVE  FilledInv'
  BY <1>9 DEF Poll, PollState, Snapshot, ghosts
<1>10. CASE Tracking
  <2>1. CASE StartTrack
    BY <2>1 DEF StartTrack, StartPoll, NoPoll, NoRow, PollState, Snapshot, Pollers, ghosts
  <2>2. CASE WriteTrack
    BY <2>2 DEF WriteTrack, Written, Known, Announcing, NoPoll, NoRow, PollState, Snapshot, Pollers, ghosts
  <2>3. CASE FinishTrack \/ TrackFails
    BY <2>3 DEF FinishTrack, TrackFails, EndPoll, NoPoll, NoRow, PollState, Snapshot, Pollers, ghosts
  <2> QED
    BY <1>10, <2>1, <2>2, <2>3 DEF Tracking
<1>11. CASE Syncing
  <2>1. CASE SyncMetrics
    BY <2>1 DEF SyncMetrics, ghosts
  <2>2. ASSUME NEW s \in Syncers, StartEarnings(s)
        PROVE  FilledInv'
    BY <2>2 DEF StartEarnings, StartPoll, NoPoll, NoRow, PollState, Snapshot, Pollers, ghosts
  <2>3. ASSUME NEW s \in Syncers, WriteEarnings(s)
        PROVE  FilledInv'
    BY <2>3 DEF WriteEarnings, Written, Known, Announcing, NoPoll, NoRow, PollState, Snapshot, Pollers, ghosts
  <2>4. ASSUME NEW s \in Syncers, FinishEarnings(s)
        PROVE  FilledInv'
    BY <2>4 DEF FinishEarnings, EndPoll, NoPoll, NoRow, PollState, Snapshot, Pollers
  <2>5. CASE MetricsFail
    BY <2>5 DEF MetricsFail, Fault, ghosts
  <2>6. ASSUME NEW s \in Syncers, EarningsFail(s)
        PROVE  FilledInv'
    BY <2>6 DEF EarningsFail, EndPoll, NoPoll, NoRow, PollState, Snapshot, Pollers, ghosts
  <2> QED
    BY <1>11, <2>1, <2>2, <2>3, <2>4, <2>5, <2>6 DEF Syncing, Earnings
<1>12. CASE Decide
  BY <1>12 DEF Decide, polling
<1>13. CASE Again
  BY <1>13 DEF Again, ghosts
<1>14. CASE UNCHANGED vars
  BY <1>14 DEF vars, polling, ghosts
<1> QED
  BY <1>1, <1>2, <1>3, <1>4, <1>5, <1>6, <1>7, <1>8, <1>9, <1>10, <1>11, <1>12, <1>13, <1>14
  DEF Next, Execute

\* Every copy of a decision, on the row and in the polls, was shown by the portal.
LEMMA SaidStep ==
  ASSUME TypeOK, SaidInv, [Next]_vars
  PROVE  SaidInv'
<1> USE SubmissionAssumption
    DEF SaidInv, NeverFabricated, TypeOK, CallState, SubmissionRow, Callers
<1>1. CASE StartSubmit
  BY <1>1 DEF StartSubmit, polling, ghosts
<1>2. CASE Prepare
  BY <1>2, InitialStatuses DEF Prepare, polling, ghosts
<1>3. CASE Prepared
  BY <1>3 DEF Prepared, polling, ghosts
<1>4. ASSUME NEW o \in Operators, Confirm(o)
      PROVE  SaidInv'
  BY <1>4 DEF Confirm, polling, ghosts
<1>5. ASSUME NEW c \in Callers, FillForm(c) \/ AnswerLost(c)
      PROVE  SaidInv'
  BY <1>5 DEF FillForm, AnswerLost, Receive, polling
<1>6. ASSUME NEW c \in Callers, Execute(c), ~ FillForm(c)
      PROVE  SaidInv'
  <2>1. CASE Read(c) \/ FormMissing(c) \/ FormFails(c) \/ Check(c)
    BY <2>1 DEF Read, FormMissing, FormFails, Check, polling, ghosts
  <2>2. CASE Commit(c)
    BY <2>2, Statuses DEF Commit, Moved, polling
  <2>3. CASE Announce(c)
    BY <2>3 DEF Announce, ghosts
  <2>4. CASE FailCheck(c)
    BY <2>4 DEF FailCheck, polling, ghosts
  <2>5. CASE FailCommit(c)
    BY <2>5, Statuses DEF FailCommit, Moved, polling, ghosts
  <2>6. CASE Finish(c)
    BY <2>6 DEF Finish, polling, ghosts
  <2> QED
    BY <1>6, <2>1, <2>2, <2>3, <2>4, <2>5, <2>6 DEF Execute
<1>7. ASSUME NEW c \in Callers, Crash(c) \/ DatabaseFails(c)
      PROVE  SaidInv'
  BY <1>7 DEF Crash, DatabaseFails, polling, ghosts
<1>8. ASSUME NEW p \in Pollers, Poll(p)
      PROVE  SaidInv'
  BY <1>8 DEF Poll, PollState, Snapshot, ghosts
<1>9. CASE Tracking
  <2>1. CASE StartTrack
    BY <2>1 DEF StartTrack, StartPoll, NoPoll, NoRow, PollState, Snapshot, Pollers, ghosts
  <2>2. CASE WriteTrack
    <3>1. \/ row' = Written("track") /\ poll["track"].answer # "none"
          \/ row' = row
          \/ row' = [row EXCEPT !.status = poll["track"].seen.status]
      BY <2>2 DEF WriteTrack
    <3>2. "track" \in Pollers /\ said' = said
      BY <2>2 DEF WriteTrack, Pollers, ghosts
    <3>3. ASSUME row' = Written("track") /\ poll["track"].answer # "none"
          PROVE  NeverFabricated'
      <4>1. /\ row'.approval = poll["track"].answer
            /\ row'.status \in {poll["track"].answer, poll["track"].seen.status}
        BY <3>3 DEF Written, Known
      <4> QED
        BY <3>2, <3>3, <4>1
    <3>4. ASSUME row' = row
          PROVE  NeverFabricated'
      BY <3>2, <3>4
    <3>5. ASSUME row' = [row EXCEPT !.status = poll["track"].seen.status]
          PROVE  NeverFabricated'
      <4>1. row'.approval = row.approval /\ row'.status = poll["track"].seen.status
        BY <3>5
      <4> QED
        BY <3>2, <4>1
    <3>6. NeverFabricated'
      BY <3>1, <3>3, <3>4, <3>5
    <3>7. /\ portal' = portal
          /\ \A p \in Pollers : poll'[p] = poll[p] \/ poll'[p] = [NoPoll EXCEPT !.pc = "announce"]
      BY <2>2 DEF WriteTrack, Announcing, Pollers, ghosts
    <3> QED
      BY <3>2, <3>6, <3>7 DEF NoPoll, NoRow
  <2>3. CASE FinishTrack \/ TrackFails
    BY <2>3 DEF FinishTrack, TrackFails, EndPoll, NoPoll, NoRow, PollState, Snapshot, Pollers, ghosts
  <2> QED
    BY <1>9, <2>1, <2>2, <2>3 DEF Tracking
<1>10. CASE Syncing
  <2>1. CASE SyncMetrics
    BY <2>1 DEF SyncMetrics, ghosts
  <2>2. ASSUME NEW s \in Syncers, StartEarnings(s)
        PROVE  SaidInv'
    BY <2>2 DEF StartEarnings, StartPoll, NoPoll, NoRow, PollState, Snapshot, Pollers, ghosts
  <2>3. ASSUME NEW s \in Syncers, WriteEarnings(s)
        PROVE  SaidInv'
    BY <2>3 DEF WriteEarnings, Written, Known, Announcing, NoPoll, NoRow, PollState, Snapshot, Pollers, ghosts
  <2>4. ASSUME NEW s \in Syncers, FinishEarnings(s)
        PROVE  SaidInv'
    BY <2>4 DEF FinishEarnings, EndPoll, NoPoll, NoRow, PollState, Snapshot, Pollers
  <2>5. CASE MetricsFail
    BY <2>5 DEF MetricsFail, Fault, ghosts
  <2>6. ASSUME NEW s \in Syncers, EarningsFail(s)
        PROVE  SaidInv'
    BY <2>6 DEF EarningsFail, EndPoll, NoPoll, NoRow, PollState, Snapshot, Pollers, ghosts
  <2> QED
    BY <1>10, <2>1, <2>2, <2>3, <2>4, <2>5, <2>6 DEF Syncing, Earnings
<1>11. CASE Decide
  BY <1>11 DEF Decide, polling
<1>12. CASE Again
  BY <1>12 DEF Again, ghosts
<1>13. CASE UNCHANGED vars
  BY <1>13 DEF vars, polling, ghosts
<1> QED
  BY <1>1, <1>2, <1>3, <1>4, <1>5, <1>6, <1>7, <1>8, <1>9, <1>10, <1>11, <1>12, <1>13
  DEF Next, Execute

\* A job is active exactly while its call runs.
LEMMA JobStep ==
  ASSUME TypeOK, JobInv, [Next]_vars
  PROVE  JobInv'
<1> USE SubmissionAssumption DEF JobInv, TypeOK, CallState, Callers, Goto, Job
<1>1. CASE StartSubmit
  BY <1>1 DEF StartSubmit, polling
<1>2. CASE Prepare \/ Prepared
  BY <1>2 DEF Prepare, Prepared, polling
<1>3. ASSUME NEW o \in Operators, Confirm(o)
      PROVE  JobInv'
  BY <1>3 DEF Confirm, polling
<1>4. ASSUME NEW c \in Callers, Execute(c)
      PROVE  JobInv'
  <2>1. CASE Read(c) \/ FillForm(c) \/ FormMissing(c) \/ FormFails(c) \/ Check(c) \/ Commit(c)
    BY <2>1 DEF Read, FillForm, FormMissing, FormFails, Check, Commit, polling
  <2>2. CASE Announce(c)
    BY <2>2 DEF Announce
  <2>3. CASE FailCheck(c) \/ FailCommit(c)
    BY <2>3 DEF FailCheck, FailCommit, Throw, Retried, NoCall, polling
  <2>4. CASE Finish(c)
    BY <2>4 DEF Finish, NoCall, polling
  <2> QED
    BY <1>4, <2>1, <2>2, <2>3, <2>4 DEF Execute
<1>5. ASSUME NEW c \in Callers, Crash(c) \/ DatabaseFails(c) \/ AnswerLost(c)
      PROVE  JobInv'
  BY <1>5 DEF Crash, DatabaseFails, AnswerLost, Throw, Retried, NoCall, polling
<1>6. ASSUME NEW p \in Pollers, Poll(p)
      PROVE  JobInv'
  BY <1>6 DEF Poll, PollState, Pollers
<1>7. CASE Tracking
  <2>1. CASE StartTrack
    BY <2>1 DEF StartTrack, StartPoll, NoPoll, Pollers
  <2>2. CASE WriteTrack
    BY <2>2 DEF WriteTrack, Announcing, NoPoll, Pollers
  <2>3. CASE FinishTrack
    BY <2>3 DEF FinishTrack, EndPoll, NoPoll, Pollers
  <2>4. CASE TrackFails
    BY <2>4 DEF TrackFails, EndPoll, Retried, NoPoll, Pollers
  <2> QED
    BY <1>7, <2>1, <2>2, <2>3, <2>4 DEF Tracking
<1>8. CASE Syncing
  <2>1. CASE SyncMetrics \/ MetricsFail
    BY <2>1 DEF SyncMetrics, MetricsFail
  <2>2. ASSUME NEW s \in Syncers, Earnings(s)
        PROVE  UNCHANGED <<submit, call, track>> /\ poll'["track"] = poll["track"]
    BY <2>2 DEF Earnings, StartEarnings, WriteEarnings, FinishEarnings, EarningsFail, StartPoll,
                Announcing, EndPoll, Pollers
  <2> QED
    BY <1>8, <2>1, <2>2 DEF Syncing
<1>9. CASE Decide
  BY <1>9 DEF Decide, polling
<1>10. CASE Again
  BY <1>10 DEF Again
<1>11. CASE UNCHANGED vars
  BY <1>11 DEF vars, polling
<1> QED
  BY <1>1, <1>2, <1>3, <1>4, <1>5, <1>6, <1>7, <1>8, <1>9, <1>10, <1>11 DEF Next

\* A submission waits to be submitted again only after a reset or a fault.
LEMMA CalmStep ==
  ASSUME TypeOK, JobInv, CalmInv, [Next]_vars
  PROVE  CalmInv'
<1> USE SubmissionAssumption
    DEF CalmInv, Calm, TypeOK, CallState, SubmissionRow, Callers, Goto, InitialStatus,
        PreparedOnce, OperatorsExecute, StaysMade, SeenMade, ToPrepare, Polled, Early
<1>1. ASSUME NEW c \in Callers, Crash(c) \/ DatabaseFails(c) \/ AnswerLost(c)
      PROVE  CalmInv'
  BY <1>1 DEF Crash, DatabaseFails, AnswerLost, Fault
<1>2. ASSUME TrackFails \/ MetricsFail \/ Again \/ \E s \in Syncers : EarningsFail(s)
      PROVE  CalmInv'
  BY <1>2 DEF TrackFails, MetricsFail, EarningsFail, Again, Fault, Reset
<1>3. CASE StartSubmit
  BY <1>3 DEF StartSubmit, Job, polling, ghosts
<1>4. CASE Prepare
  BY <1>4 DEF Prepare, JobInv, polling, ghosts
<1>5. CASE Prepared
  BY <1>5 DEF Prepared, polling, ghosts
<1>6. ASSUME NEW o \in Operators, Confirm(o)
      PROVE  CalmInv'
  BY <1>6 DEF Confirm, polling, ghosts
<1>7. ASSUME NEW c \in Callers, Execute(c)
      PROVE  CalmInv'
  <2>1. CASE Read(c)
    BY <2>1 DEF Read, polling, ghosts
  <2>2. CASE FillForm(c)
    BY <2>2 DEF FillForm, polling
  <2>3. CASE FormMissing(c) \/ FormFails(c)
    BY <2>3 DEF FormMissing, FormFails, polling, ghosts
  <2>4. CASE Check(c)
    BY <2>4 DEF Check, polling, ghosts
  <2>5. CASE Commit(c)
    <3>1. Calm => ~ ToPrepare \/ InitialStatus = "SUBMITTED"
      BY <2>5 DEF Commit
    <3>2. Calm => OperatorsExecute /\ OperatorsExecute'
      BY <2>5 DEF Commit
    <3>3. Calm => StaysMade'
      BY <2>5, Statuses DEF Commit, Moved
    <3>4. Calm => SeenMade'
      BY <2>5 DEF Commit, polling
    <3>5. Calm => (Polled => recorded)'
      BY <2>5 DEF Commit, polling
    <3>6. Calm => PreparedOnce'
      BY <2>5, <3>1 DEF Commit
    <3> QED
      BY <2>5, <3>2, <3>3, <3>4, <3>5, <3>6 DEF Commit
  <2>6. CASE Announce(c)
    BY <2>6 DEF Announce, ghosts
  <2>7. CASE FailCheck(c)
    BY <2>7 DEF FailCheck, Throw, Retried, NoCall, polling, ghosts
  <2>8. CASE FailCommit(c)
    BY <2>8, Statuses DEF FailCommit, Moved, Throw, Retried, NoCall, polling, ghosts
  <2>9. CASE Finish(c)
    BY <2>9 DEF Finish, NoCall, polling, ghosts
  <2> QED
    BY <1>7, <2>1, <2>2, <2>3, <2>4, <2>5, <2>6, <2>7, <2>8, <2>9 DEF Execute
<1>8. ASSUME NEW p \in Pollers, Poll(p)
      PROVE  CalmInv'
  BY <1>8 DEF Poll, PollState, Snapshot, ghosts
<1>9. CASE StartTrack
  BY <1>9 DEF StartTrack, StartPoll, NoPoll, NoRow, PollState, Snapshot, Pollers, Job, ghosts
<1>10. CASE WriteTrack
  BY <1>10 DEF WriteTrack, Written, Known, Announcing, NoPoll, NoRow, PollState, Snapshot, Pollers, ghosts
<1>11. CASE FinishTrack
  BY <1>11 DEF FinishTrack, EndPoll, NoPoll, NoRow, PollState, Snapshot, Pollers, ghosts
<1>12. CASE SyncMetrics
  BY <1>12 DEF SyncMetrics, ghosts
<1>13. ASSUME NEW s \in Syncers, StartEarnings(s)
      PROVE  CalmInv'
  BY <1>13 DEF StartEarnings, StartPoll, NoPoll, NoRow, PollState, Snapshot, Pollers, ghosts
<1>14. ASSUME NEW s \in Syncers, WriteEarnings(s)
      PROVE  CalmInv'
  BY <1>14 DEF WriteEarnings, Written, Known, Announcing, NoPoll, NoRow, PollState, Snapshot, Pollers, ghosts
<1>15. ASSUME NEW s \in Syncers, FinishEarnings(s)
      PROVE  CalmInv'
  BY <1>15 DEF FinishEarnings, EndPoll, NoPoll, NoRow, PollState, Snapshot, Pollers
<1>16. CASE Decide
  BY <1>16 DEF Decide, polling
<1>17. CASE UNCHANGED vars
  BY <1>17 DEF vars, polling, ghosts
<1> QED
  BY <1>1, <1>2, <1>3, <1>4, <1>5, <1>6, <1>7, <1>8, <1>9, <1>10, <1>11, <1>12, <1>13, <1>14,
     <1>15, <1>16, <1>17 DEF Next, Tracking, Syncing, Earnings

\* Between a recorded submission and its earnings sync, something is always under way.
LEMMA TrackStep ==
  ASSUME TypeOK, JobInv, TrackInv, [Next]_vars
  PROVE  TrackInv'
<1> USE SubmissionAssumption
    DEF TrackInv, TrackingNotLost, SyncUnderway, TypeOK, CallState, Callers, Goto, Job
<1>1. ASSUME NEW c \in Callers, Crash(c) \/ DatabaseFails(c) \/ AnswerLost(c)
      PROVE  TrackInv'
  <2>1. faults' # 0
    BY <1>1 DEF Crash, DatabaseFails, AnswerLost, Fault
  <2>2. UNCHANGED <<setup, recorded, track>>
    BY <1>1 DEF Crash, DatabaseFails, AnswerLost, polling, ghosts
  <2>3. \A d \in Callers : call'[d].pc \in {"form", "check", "commit", "announce"} =>
          call[d].pc \in {"form", "check", "commit", "announce"}
    BY <1>1 DEF Crash, DatabaseFails, AnswerLost, Throw, NoCall
  <2> QED
    BY <2>1, <2>2, <2>3
<1>2. CASE TrackFails
  <2>1. faults' # 0 /\ track.state = "active" /\ UNCHANGED <<setup, call, recorded>>
    BY <1>2 DEF TrackFails, Fault, JobInv, ghosts
  <2> QED
    BY <2>1
<1>3. ASSUME MetricsFail \/ \E s \in Syncers : EarningsFail(s)
      PROVE  TrackInv'
  BY <1>3 DEF MetricsFail, EarningsFail, Fault, ghosts
<1>4. CASE StartSubmit
  <2>1. UNCHANGED <<setup, recorded, synced, polling, faults>>
    BY <1>4 DEF StartSubmit, ghosts
  <2>2. call' = [call EXCEPT ![Submitter] = [pc |-> "prepare", version |-> 0]]
    BY <1>4 DEF StartSubmit
  <2>3. /\ call[Submitter].pc \notin {"form", "check", "commit", "announce"}
        /\ \A c \in Callers : call'[c].pc \in {"form", "check", "commit", "announce"}
                             => call'[c] = call[c]
        /\ \A c \in Callers : call[c].pc = "announce" => call'[c] = call[c]
    BY <1>4, <2>2 DEF JobInv, StartSubmit
  <2> QED
    BY <2>1, <2>3 DEF polling
<1>5. CASE Prepare
  BY <1>5 DEF Prepare, polling, ghosts
<1>6. CASE Prepared
  BY <1>6 DEF Prepared, polling, ghosts
<1>7. ASSUME NEW o \in Operators, Confirm(o)
      PROVE  TrackInv'
  BY <1>7 DEF Confirm, polling, ghosts
<1>8. ASSUME NEW c \in Callers, Execute(c)
      PROVE  TrackInv'
  <2>1. CASE Read(c)
    BY <2>1 DEF Read, polling, ghosts
  <2>2. CASE FillForm(c)
    BY <2>2 DEF FillForm, polling
  <2>3. CASE FormMissing(c) \/ FormFails(c)
    BY <2>3 DEF FormMissing, FormFails, polling, ghosts
  <2>4. CASE Check(c)
    BY <2>4 DEF Check, polling, ghosts
  <2>5. CASE Commit(c)
    BY <2>5 DEF Commit, polling
  <2>6. CASE Announce(c)
    BY <2>6 DEF Announce, ghosts
  <2>7. CASE FailCheck(c)
    BY <2>7 DEF FailCheck, Throw, NoCall, polling, ghosts
  <2>8. CASE FailCommit(c)
    BY <2>8 DEF FailCommit, Throw, NoCall, polling, ghosts
  <2>9. CASE Finish(c)
    BY <2>9 DEF Finish, NoCall, polling, ghosts
  <2> QED
    BY <1>8, <2>1, <2>2, <2>3, <2>4, <2>5, <2>6, <2>7, <2>8, <2>9 DEF Execute
<1>9. ASSUME NEW p \in Pollers, Poll(p)
      PROVE  TrackInv'
  BY <1>9 DEF Poll, PollState, Pollers, ghosts
<1>10. CASE StartTrack
  BY <1>10 DEF StartTrack, StartPoll, NoPoll, PollState, Pollers, ghosts
<1>11. CASE WriteTrack
  BY <1>11 DEF WriteTrack, Announcing, PollState, Pollers, ghosts
<1>12. CASE FinishTrack
  BY <1>12 DEF FinishTrack, JobInv, ghosts
<1>13. CASE SyncMetrics
  BY <1>13 DEF SyncMetrics, ghosts
<1>14. ASSUME NEW s \in Syncers, StartEarnings(s)
      PROVE  TrackInv'
  BY <1>14 DEF StartEarnings, StartPoll, NoPoll, PollState, Pollers, ghosts
<1>15. ASSUME NEW s \in Syncers, WriteEarnings(s)
      PROVE  TrackInv'
  BY <1>15 DEF WriteEarnings, Announcing, NoPoll, PollState, Pollers, ghosts
<1>16. ASSUME NEW s \in Syncers, FinishEarnings(s)
      PROVE  TrackInv'
  BY <1>16 DEF FinishEarnings
<1>17. CASE Decide
  BY <1>17 DEF Decide, polling
<1>18. CASE Again
  BY <1>18 DEF Again, Reset, ghosts
<1>19. CASE UNCHANGED vars
  BY <1>19 DEF vars, polling, ghosts
<1> QED
  BY <1>1, <1>2, <1>3, <1>4, <1>5, <1>6, <1>7, <1>8, <1>9, <1>10, <1>11, <1>12, <1>13, <1>14,
     <1>15, <1>16, <1>17, <1>18, <1>19 DEF Next, Tracking, Syncing, Earnings

-----------------------------------------------------------------------------
\* The invariant holds in every reachable state.
LEMMA Invariance == Spec => []IInv
<1>1. Init => IInv
  BY SubmissionAssumption
  DEF Init, IInv, SignInv, FilledInv, SaidInv, NeverFabricated, JobInv, CalmInv, PreparedOnce,
      OperatorsExecute, StaysMade, SeenMade, Polled, TrackInv, TrackingNotLost, NoCall, NoPoll,
      NoRow, Made, SomeoneFilled, Callers, Pollers
<1>2. TypeOK /\ IInv /\ [Next]_vars => IInv'
  BY SignStep, FilledStep, SaidStep, JobStep, CalmStep, TrackStep DEF IInv
<1> QED
  BY <1>1, <1>2, TypeCorrect, PTL DEF Spec

\* With confirmation required, every form an operator's request fills in has a
\* sign-off of its own, and the submit job fills in none (executeSubmission and the
\* confirm route).
THEOREM EverySubmissionIsSignedOff == Spec => []SignedOff
<1>1. IInv => SignedOff
  BY DEF IInv, SignInv, SignedOff
<1> QED
  BY <1>1, Invariance, PTL

\* With confirmation required, a row says SUBMITTED, APPROVED or REJECTED only when
\* a form was filled in: none of the stale writes of the pollers invents it.
THEOREM SubmittedWasFilled == Spec => []SubmittedMeansFilled
<1>1. IInv => SubmittedMeansFilled
  BY DEF IInv, FilledInv, SubmittedMeansFilled, SomeoneFilled, Made
<1> QED
  BY <1>1, Invariance, PTL

\* The row shows a decision only if the portal has shown it (trackSubmission and
\* syncEarnings).
THEOREM NothingIsFabricated == Spec => []NeverFabricated
<1>1. IInv => NeverFabricated
  BY DEF IInv, SaidInv
<1> QED
  BY <1>1, Invariance, PTL

\* While there is neither a reset nor a fault, a recorded submission never waits for
\* its sign-off again (prepareSubmission against the pollers' writes).
THEOREM NobodyIsAskedAgain == Spec => []NotAskedAgain
<1>1. TypeOK /\ IInv => NotAskedAgain
  BY SubmissionAssumption
  DEF TypeOK, IInv, CalmInv, Calm, StaysMade, Early, NotAskedAgain
<1> QED
  BY <1>1, TypeCorrect, Invariance, PTL

\* While there is no fault, a recorded submission is tracked through to an earnings
\* sync, whichever calls overlap (enqueueTracking, trackSubmission, syncMetrics).
THEOREM NoTrackingIsLost == Spec => []TrackingNotLost
<1>1. IInv => TrackingNotLost
  BY DEF IInv, TrackInv
<1> QED
  BY <1>1, Invariance, PTL
=============================================================================
