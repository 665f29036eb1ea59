----------------------------- MODULE Submission -----------------------------
(***************************************************************************)
(* Submitting one publication to its campaign's portal: the submit job     *)
(* that prepares the CampaignSubmission row, the operators' confirmations  *)
(* that fill in the portal's form, and the tracking, metrics and earnings  *)
(* jobs that poll the portal and write its answer on the same row.         *)
(*                                                                         *)
(* executeSubmission moves the row by guarded transitions; preparing,      *)
(* tracking and the earnings sync overwrite its status, and leave its      *)
(* version as it is.                                                       *)
(***************************************************************************)
EXTENDS StateMachines, Naturals

CONSTANTS Operators,     \* concurrent confirmation requests
          Submitter,     \* the submit job, which may execute too
  Syncers,       \* concurrent earnings syncs: the worker's concurrency
          Setups,        \* the deployments, posts and status adapters considered
          Attempts,      \* defaultJobOptions.attempts
          MaxConfirms,   \* bound: confirmations, per operator
          MaxResets,     \* bound: submit and track jobs put back by an operator
          MaxFaults      \* bound: crashes, failed calls, lost answers

\* confirm: SUBMISSION_REQUIRE_CONFIRMATION.  post: what the publication records,
\* the post's URL, its id alone, or neither.  polls: the status adapter reads the
\* portal; the one of the sandbox answers "unknown" to everything.
Setup == [confirm : BOOLEAN, post : {"none", "id", "url"}, polls : BOOLEAN]

ASSUME SubmissionAssumption ==
  /\ Submitter \notin Operators
  /\ "track" \notin Syncers
  /\ Setups \subseteq Setup
  /\ Attempts \in Nat \ {0}
  /\ MaxConfirms \in Nat /\ MaxResets \in Nat /\ MaxFaults \in Nat

VARIABLES
  setup,       \* fixed
  row,         \* the CampaignSubmission
  submit,      \* the submit job
  call,        \* call[c]: the executeSubmission of an operator, or of the submit job
  track,       \* the track job, deduplicated by its id
  metrics,     \* queued metrics-sync jobs
  earnings,    \* queued earnings-sync jobs
  poll,        \* poll[p]: the running tracking call and earnings syncs
  portal,      \* the portal's decision on the post
  confirmed,   \* confirmed[o]: the sign-offs of an operator
  filled,      \* ghost: filled[c] counts the forms c filled in
  said,        \* ghost: the decisions the portal has ever shown
  recorded,    \* ghost: a submission was recorded as SUBMITTED after its form
  synced,      \* ghost: an earnings sync has finished
  resets, faults   \* for the bounds

ghosts == <<filled, said, recorded, synced>>
polling == <<track, metrics, earnings, poll>>
vars == <<setup, row, submit, call, polling, portal, confirmed, ghosts, resets, faults>>

Callers == Operators \cup {Submitter}
Pollers == {"track"} \cup Syncers
Decision == {"PENDING", "APPROVED", "REJECTED"}
Approval == {"none"} \cup Decision
SubmissionStatus == StatusesOf("CampaignSubmission")

CallPc == {"idle", "prepare", "prepared", "read", "form", "check", "commit", "announce",
           "failCheck", "failCommit", "returned"}
Job == [state : {"absent", "queued", "active", "done"}, left : 0..Attempts]
Snapshot == [status : SubmissionStatus \cup {"NONE"}, approval : Approval]
SubmissionRow == [status : SubmissionStatus \cup {"NONE"}, version : Nat, approval : Approval]
CallState == [pc : CallPc, version : Nat]
PollState == [pc : {"idle", "poll", "write", "announce"}, seen : Snapshot, answer : Approval]

TypeOK ==
  /\ setup \in Setups
  /\ row \in SubmissionRow
  /\ submit \in Job /\ track \in Job
  /\ call \in [Callers -> CallState]
  /\ metrics \in Nat /\ earnings \in Nat
  /\ poll \in [Pollers -> PollState]
  /\ portal \in Approval
  /\ confirmed \in [Operators -> 0..MaxConfirms]
  /\ filled \in [Callers -> Nat]
  /\ said \subseteq Decision
  /\ recorded \in BOOLEAN /\ synced \in BOOLEAN
  /\ resets \in 0..MaxResets /\ faults \in 0..MaxFaults

NoCall == [pc |-> "idle", version |-> 0]
NoRow == [status |-> "NONE", approval |-> "none"]
NoPoll == [pc |-> "idle", seen |-> NoRow, answer |-> "none"]

\* Publishing has handed the publication over: enqueueSubmission.
Init ==
  /\ setup \in Setups
  /\ row = [status |-> "NONE", version |-> 0, approval |-> "none"]
  /\ submit = [state |-> "queued", left |-> Attempts]
  /\ call = [c \in Callers |-> NoCall]
  /\ track = [state |-> "absent", left |-> 0]
  /\ metrics = 0 /\ earnings = 0
  /\ poll = [p \in Pollers |-> NoPoll]
  /\ portal = "none"
  /\ confirmed = [o \in Operators |-> 0]
  /\ filled = [c \in Callers |-> 0]
  /\ said = {} /\ recorded = FALSE /\ synced = FALSE
  /\ resets = 0 /\ faults = 0

-----------------------------------------------------------------------------
(* Who runs executeSubmission.                                              *)

Goto(c, pc) == call' = [call EXCEPT ![c] = [pc |-> pc, version |-> 0]]
Fault == faults < MaxFaults /\ faults' = faults + 1
Reset == resets < MaxResets /\ resets' = resets + 1

\* A job whose attempt failed.
Retried(job) == IF job.left > 1 THEN [state |-> "queued", left |-> job.left - 1]
                                ELSE [state |-> "done", left |-> 0]

\* The call's exception reaches the queue, or the operator as a 502.
Throw(c) ==
  /\ call' = [call EXCEPT ![c] = NoCall]
  /\ submit' = IF c = Submitter THEN Retried(submit) ELSE submit

\* The call has returned, and its job is done.
Finish(c) ==
  /\ call[c].pc = "returned"
  /\ call' = [call EXCEPT ![c] = NoCall]
  /\ submit' = IF c = Submitter THEN [state |-> "done", left |-> 0] ELSE submit
  /\ UNCHANGED <<setup, row, polling, portal, confirmed, ghosts, resets, faults>>

StartSubmit ==
  /\ submit.state = "queued"
  /\ submit' = [submit EXCEPT !.state = "active"]
  /\ Goto(Submitter, "prepare")
  /\ UNCHANGED <<setup, row, polling, portal, confirmed, ghosts, resets, faults>>

\* The confirm route: the row exists, whatever its status, and the sign-off is
\* recorded by an audit event.
Confirm(o) ==
  /\ call[o].pc = "idle"
  /\ row.status # "NONE"
  /\ confirmed[o] < MaxConfirms
  /\ confirmed' = [confirmed EXCEPT ![o] = @ + 1]
  /\ Goto(o, "read")
  /\ UNCHANGED <<setup, row, submit, polling, portal, ghosts, resets, faults>>

InitialStatus ==
  IF setup.post = "none" THEN "PREPARED"
  ELSE IF setup.confirm THEN "AWAITING_CONFIRMATION" ELSE "SUBMITTED"

\* prepareSubmission upserts the initial status over whatever the row holds.
Prepare ==
  /\ call[Submitter].pc = "prepare"
  /\ row' = [row EXCEPT !.status = InitialStatus]
  /\ Goto(Submitter, "prepared")
  /\ UNCHANGED <<setup, submit, polling, portal, confirmed, ghosts, resets, faults>>

\* Mutant of Prepared: whatever has a post is executed.
PreparedExecutes ==
  /\ call[Submitter].pc = "prepared"
  /\ Goto(Submitter, IF setup.post = "none" THEN "returned" ELSE "read")
  /\ UNCHANGED <<setup, row, submit, polling, portal, confirmed, ghosts, resets, faults>>

\* The audit, and the execution when no confirmation is required.
Prepared ==
  /\ call[Submitter].pc = "prepared"
  /\ Goto(Submitter, IF InitialStatus = "SUBMITTED" THEN "read" ELSE "returned")
  /\ UNCHANGED <<setup, row, submit, polling, portal, confirmed, ghosts, resets, faults>>

-----------------------------------------------------------------------------
(* executeSubmission.                                                       *)

Read(c) ==
  /\ call[c].pc = "read"
  /\ Goto(c, IF row.status \in {"SUBMITTED", "APPROVED"} \/ setup.post # "url"
             THEN "returned" ELSE "form")
  /\ UNCHANGED <<setup, row, submit, polling, portal, confirmed, ghosts, resets, faults>>

\* The portal receives the post, for the first time or again after a rejection.
Receive(c) ==
  /\ filled' = [filled EXCEPT ![c] = @ + 1]
  /\ portal' = IF portal \in {"none", "REJECTED"} THEN "PENDING" ELSE portal
  /\ said' = said \cup {portal'}

\* Mutant of FillForm: tracking starts before the row is SUBMITTED.
FillFormTracks(c) ==
  /\ call[c].pc = "form"
  /\ Receive(c)
  /\ track' = IF track.state = "absent" THEN [state |-> "queued", left |-> Attempts] ELSE track
  /\ Goto(c, "check")
  /\ UNCHANGED <<setup, row, submit, metrics, earnings, poll, confirmed, recorded, synced,
                 resets, faults>>

FillForm(c) ==
  /\ call[c].pc = "form"
  /\ Receive(c)
  /\ Goto(c, "check")
  /\ UNCHANGED <<setup, row, submit, polling, confirmed, recorded, synced, resets, faults>>

\* Mutant of FormMissing: the outcome is not looked at.
FormMissingIgnored(c) ==
  /\ call[c].pc = "form"
  /\ Goto(c, "check")
  /\ UNCHANGED <<setup, row, submit, polling, portal, confirmed, ghosts, resets, faults>>

\* The page has no form: { submitted: false }, which changes nothing.
FormMissing(c) ==
  /\ call[c].pc = "form"
  /\ Goto(c, "returned")
  /\ UNCHANGED <<setup, row, submit, polling, portal, confirmed, ghosts, resets, faults>>

\* The browser fails before the click.
FormFails(c) ==
  /\ call[c].pc = "form"
  /\ Goto(c, "failCheck")
  /\ UNCHANGED <<setup, row, submit, polling, portal, confirmed, ghosts, resets, faults>>

\* transition.submission(SUBMITTED): read and check, then the versioned update.
Check(c) ==
  /\ call[c].pc = "check"
  /\ call' = [call EXCEPT ![c] = IF CanTransition("CampaignSubmission", row.status, "SUBMITTED")
                                 THEN [pc |-> "commit", version |-> row.version]
                                 ELSE [pc |-> "failCheck", version |-> 0]]
  /\ UNCHANGED <<setup, row, submit, polling, portal, confirmed, ghosts, resets, faults>>

Moved(status) == [row EXCEPT !.status = status, !.version = @ + 1]

Commit(c) ==
  /\ call[c].pc = "commit"
  /\ IF row.version = call[c].version
     THEN row' = Moved("SUBMITTED") /\ recorded' = TRUE /\ Goto(c, "announce")
     ELSE UNCHANGED <<row, recorded>> /\ Goto(c, "failCheck")
  /\ UNCHANGED <<setup, submit, polling, portal, confirmed, filled, said, synced,
                 resets, faults>>

\* Mutant of Announce: tracking is forgotten.
AnnounceUntracked(c) ==
  /\ call[c].pc = "announce"
  /\ Goto(c, "returned")
  /\ UNCHANGED <<setup, row, submit, polling, portal, confirmed, ghosts, resets, faults>>

\* The audit and enqueueTracking, ignored while a track job has the id.
Announce(c) ==
  /\ call[c].pc = "announce"
  /\ track' = IF track.state = "absent" THEN [state |-> "queued", left |-> Attempts] ELSE track
  /\ Goto(c, "returned")
  /\ UNCHANGED <<setup, row, submit, metrics, earnings, poll, portal, confirmed, ghosts,
                 resets, faults>>

\* The catch block: a transition to FAILED whose errors are swallowed, and the
\* error is thrown again.
FailCheck(c) ==
  /\ call[c].pc = "failCheck"
  /\ IF CanTransition("CampaignSubmission", row.status, "FAILED")
     THEN /\ call' = [call EXCEPT ![c] = [pc |-> "failCommit", version |-> row.version]]
          /\ UNCHANGED submit
     ELSE Throw(c)
  /\ UNCHANGED <<setup, row, polling, portal, confirmed, ghosts, resets, faults>>

FailCommit(c) ==
  /\ call[c].pc = "failCommit"
  /\ row' = IF row.version = call[c].version THEN Moved("FAILED") ELSE row
  /\ Throw(c)
  /\ UNCHANGED <<setup, polling, portal, confirmed, ghosts, resets, faults>>

-----------------------------------------------------------------------------
(* trackSubmission, syncMetrics, syncEarnings.                              *)

\* The row is read before the portal is asked.
StartPoll(p) ==
  poll' = [poll EXCEPT ![p] = [NoPoll EXCEPT !.pc = "poll",
                                !.seen = [status |-> row.status, approval |-> row.approval]]]
Announcing(p) == poll' = [poll EXCEPT ![p] = [NoPoll EXCEPT !.pc = "announce"]]
EndPoll(p) == poll' = [poll EXCEPT ![p] = NoPoll]

StartTrack ==
  /\ track.state = "queued"
  /\ track' = [track EXCEPT !.state = "active"]
  /\ StartPoll("track")
  /\ UNCHANGED <<setup, row, submit, call, metrics, earnings, portal, confirmed, ghosts,
                 resets, faults>>

StartEarnings(s) ==
  /\ earnings > 0 /\ poll[s].pc = "idle"
  /\ earnings' = earnings - 1
  /\ StartPoll(s)
  /\ UNCHANGED <<setup, row, submit, call, track, metrics, portal, confirmed, ghosts,
                 resets, faults>>

\* "none" is the adapter's null: nothing is known.
Poll(p) ==
  /\ poll[p].pc = "poll"
  /\ \E answer \in {"none", portal} :
       /\ ~ setup.polls => answer = "none"
       /\ poll' = [poll EXCEPT ![p].pc = "write", ![p].answer = answer]
  /\ UNCHANGED <<setup, row, submit, call, track, metrics, earnings, portal, confirmed,
                 ghosts, resets, faults>>

Known(answer, otherwise) == IF answer = "none" THEN otherwise ELSE answer

\* Mutant of Written: any answer is taken for an approval.
WrittenApproved(p) ==
  [row EXCEPT !.status = IF poll[p].answer = "none" THEN poll[p].seen.status ELSE "APPROVED",
              !.approval = Known(poll[p].answer, Known(poll[p].seen.approval, row.approval))]

\* The answer, or else what was read before the poll; the version is not touched, nor
\* the approval where none is known.
Written(p) ==
  [row EXCEPT !.status = IF poll[p].answer \in {"APPROVED", "REJECTED"}
                         THEN poll[p].answer ELSE poll[p].seen.status,
              !.approval = Known(poll[p].answer, Known(poll[p].seen.approval, row.approval))]

\* Tracking writes only when it was told something: a decision, or only a payout or
\* a reason.
WriteTrack ==
  /\ poll["track"].pc = "write"
  /\ \/ poll["track"].answer # "none" /\ row' = Written("track")
     \/ poll["track"].answer = "none" /\ UNCHANGED row
     \/ /\ poll["track"].answer = "none" /\ setup.polls
        /\ row' = [row EXCEPT !.status = poll["track"].seen.status]
  /\ Announcing("track")
  /\ UNCHANGED <<setup, submit, call, track, metrics, earnings, portal, confirmed, ghosts,
                 resets, faults>>

FinishTrack ==
  /\ poll["track"].pc = "announce"
  /\ metrics' = metrics + 1
  /\ EndPoll("track")
  /\ track' = [state |-> "done", left |-> 0]
  /\ UNCHANGED <<setup, row, submit, call, earnings, portal, confirmed, ghosts,
                 resets, faults>>

\* Without a post id there is nothing to measure.
SyncMetrics ==
  /\ metrics > 0
  /\ metrics' = metrics - 1
  /\ earnings' = IF setup.post = "none" THEN earnings ELSE earnings + 1
  /\ UNCHANGED <<setup, row, submit, call, track, poll, portal, confirmed, ghosts,
                 resets, faults>>

\* The earnings sync writes the status it has read even when nothing is known.
WriteEarnings(s) ==
  /\ poll[s].pc = "write"
  /\ row' = Written(s)
  /\ Announcing(s)
  /\ UNCHANGED <<setup, submit, call, track, metrics, earnings, portal, confirmed, ghosts,
                 resets, faults>>

FinishEarnings(s) ==
  /\ poll[s].pc = "announce"
  /\ EndPoll(s)
  /\ synced' = TRUE
  /\ UNCHANGED <<setup, row, submit, call, track, metrics, earnings, portal, confirmed,
                 filled, said, recorded, resets, faults>>

\* The portal's staff decide.
Decide ==
  /\ portal = "PENDING"
  /\ portal' \in {"APPROVED", "REJECTED"}
  /\ said' = said \cup {portal'}
  /\ UNCHANGED <<setup, row, submit, call, polling, confirmed, filled, recorded, synced,
                 resets, faults>>

-----------------------------------------------------------------------------
(* Operators' resets, and faults.                                           *)

\* A retry or replay of the finished submit or track job, once BullMQ has dropped it.
Again ==
  /\ Reset
  /\ \/ /\ submit.state = "done"
        /\ submit' = [state |-> "queued", left |-> Attempts]
        /\ UNCHANGED track
     \/ /\ track.state = "done"
        /\ track' = [state |-> "queued", left |-> Attempts]
        /\ UNCHANGED submit
  /\ UNCHANGED <<setup, row, call, metrics, earnings, poll, portal, confirmed, ghosts, faults>>

\* The process that runs the call dies: the submit job is handed out again, the
\* operator's request is gone.
Crash(c) ==
  /\ call[c].pc # "idle"
  /\ Fault
  /\ call' = [call EXCEPT ![c] = NoCall]
  /\ submit' = IF c = Submitter THEN [submit EXCEPT !.state = "queued"] ELSE submit
  /\ UNCHANGED <<setup, row, polling, portal, confirmed, ghosts, resets>>

\* A database or Redis call throws: outside the try block, or inside it.
DatabaseFails(c) ==
  /\ Fault
  /\ \/ call[c].pc \in {"prepare", "prepared", "read", "failCheck", "failCommit"} /\ Throw(c)
     \/ call[c].pc \in {"check", "commit", "announce"} /\ Goto(c, "failCheck") /\ UNCHANGED submit
  /\ UNCHANGED <<setup, row, polling, portal, confirmed, ghosts, resets>>

\* The browser fails after the click.
AnswerLost(c) ==
  /\ call[c].pc = "form"
  /\ Fault
  /\ Receive(c)
  /\ Goto(c, "failCheck")
  /\ UNCHANGED <<setup, row, submit, polling, confirmed, recorded, synced, resets>>

\* Tracking throws, also when its audit fails after the metrics job is queued, and
\* is retried while attempts are left; or it dies, and is handed out again.
TrackFails ==
  /\ poll["track"].pc # "idle"
  /\ Fault
  /\ \/ UNCHANGED metrics
     \/ poll["track"].pc = "announce" /\ metrics' = metrics + 1
  /\ EndPoll("track")
  /\ track' \in {Retried(track), [track EXCEPT !.state = "queued"]}
  /\ UNCHANGED <<setup, row, submit, call, earnings, portal, confirmed, ghosts, resets>>

\* A metrics sync fails, or dies with its earnings sync queued, and is run again or
\* given up; so is an earnings sync.
MetricsFail ==
  /\ metrics > 0
  /\ Fault
  /\ metrics' \in {metrics - 1, metrics}
  /\ \/ UNCHANGED earnings
     \/ setup.post # "none" /\ earnings' = earnings + 1
  /\ UNCHANGED <<setup, row, submit, call, track, poll, portal, confirmed, ghosts, resets>>

EarningsFail(s) ==
  /\ poll[s].pc # "idle"
  /\ Fault
  /\ EndPoll(s)
  /\ earnings' \in {earnings, earnings + 1}
  /\ UNCHANGED <<setup, row, submit, call, track, metrics, portal, confirmed, ghosts, resets>>

-----------------------------------------------------------------------------
Execute(c) ==
  Read(c) \/ FillForm(c) \/ FormMissing(c) \/ FormFails(c) \/ Check(c) \/ Commit(c)
    \/ Announce(c) \/ FailCheck(c) \/ FailCommit(c) \/ Finish(c)

Tracking == StartTrack \/ WriteTrack \/ FinishTrack \/ TrackFails
Earnings(s) == StartEarnings(s) \/ WriteEarnings(s) \/ FinishEarnings(s) \/ EarningsFail(s)
Syncing == SyncMetrics \/ MetricsFail \/ \E s \in Syncers : Earnings(s)

Next ==
  \/ StartSubmit \/ Prepare \/ Prepared
  \/ \E o \in Operators : Confirm(o)
  \/ \E c \in Callers : Execute(c) \/ Crash(c) \/ DatabaseFails(c) \/ AnswerLost(c)
  \/ \E p \in Pollers : Poll(p)
  \/ Tracking \/ Syncing \/ Decide \/ Again

Spec == Init /\ [][Next]_vars
-----------------------------------------------------------------------------
\* "During the MVP, require confirmation before the final submission click"
\* (REQUIREMENTS.md:652): every form an operator's request fills in is paid for by
\* a sign-off of its own, and the submit job fills in none, however often it is
\* redelivered, retried or put back.
SignedOff ==
  setup.confirm =>
    /\ filled[Submitter] = 0
    /\ \A o \in Operators : filled[o] <= confirmed[o]

\* With confirmation required, a submission counts as made or decided only if its
\* form was filled in: no overwritten or re-read status invents one.
SubmittedMeansFilled ==
  setup.confirm /\ row.status \in {"SUBMITTED", "APPROVED", "REJECTED"}
    => \E c \in Callers : filled[c] > 0

\* "Never fabricated" (trackingService.ts:9-12): the row shows a decision only if
\* the portal has shown it, also when a stale one is written back.
NeverFabricated ==
  /\ row.approval \in said \cup {"none"}
  /\ row.status \in {"APPROVED", "REJECTED"} => row.status \in said

\* A recorded submission is put back to wait for its sign-off by an operator's
\* reset or a fault only: polls that were started earlier never write such a
\* status over it.
NotAskedAgain ==
  recorded /\ row.status \in {"PREPARED", "AWAITING_CONFIRMATION"} => resets + faults > 0

\* A submission that an executeSubmission has recorded is tracked through to an
\* earnings sync, whatever calls overlap: while no fault interferes, some call or
\* job that will bring the sync about is always under way until it happens.
SyncUnderway ==
  synced \/ metrics > 0 \/ earnings > 0 \/ \E s \in Syncers : poll[s].pc # "idle"

TrackingNotLost ==
  recorded /\ faults = 0 =>
    SyncUnderway \/ track.state \in {"queued", "active"}
      \/ \E c \in Callers : call[c].pc = "announce"
-----------------------------------------------------------------------------
(* The inductive invariant behind the five.                                 *)

SomeoneFilled == \E c \in Callers : filled[c] > 0
Made == {"SUBMITTED", "APPROVED", "REJECTED"}
Early == {"NONE", "PREPARED", "AWAITING_CONFIRMATION"}
Calm == faults = 0 /\ resets = 0

\* A sign-off is spent by the form, which is why a request that has one under way
\* still has to hold it.
SignInv ==
  setup.confirm =>
    /\ filled[Submitter] = 0
    /\ call[Submitter].pc \in {"idle", "prepare", "prepared", "returned"}
    /\ \A o \in Operators :
         /\ filled[o] <= confirmed[o]
         /\ call[o].pc \in {"read", "form"} => filled[o] < confirmed[o]

\* Whatever carries a status of Made has it from a form.
FilledInv ==
  setup.confirm /\ ~ SomeoneFilled =>
    /\ row.status \notin Made
    /\ \A c \in Callers : call[c].pc \notin {"check", "commit", "announce"}
    /\ portal = "none"
    /\ \A p \in Pollers : poll[p].seen.status \notin Made /\ poll[p].answer = "none"

\* Every copy of a decision was shown by the portal.
SaidInv ==
  /\ portal \in said \cup {"none"}
  /\ NeverFabricated
  /\ \A p \in Pollers :
       /\ poll[p].answer \in said \cup {"none"}
       /\ poll[p].seen.approval \in said \cup {"none"}
       /\ poll[p].seen.status \in {"APPROVED", "REJECTED"} => poll[p].seen.status \in said

\* A job is active exactly while its call runs.
JobInv ==
  /\ submit.state = "active" <=> call[Submitter].pc # "idle"
  /\ track.state = "active" <=> poll["track"].pc # "idle"

\* Without resets and faults the row is prepared once, before anyone can confirm,
\* and polled only after a submission is recorded.
ToPrepare == submit.state = "queued" \/ call[Submitter].pc = "prepare"

Polled ==
  \/ track.state # "absent" \/ metrics > 0 \/ earnings > 0
  \/ \E c \in Callers : call[c].pc = "announce"
  \/ \E p \in Pollers : poll[p].pc # "idle"

PreparedOnce ==
  ToPrepare /\ InitialStatus # "SUBMITTED" =>
    /\ row.status = "NONE" /\ ~ recorded
    /\ \A o \in Operators : call[o].pc = "idle"

OperatorsExecute ==
  InitialStatus # "SUBMITTED" =>
    call[Submitter].pc \in {"idle", "prepare", "prepared", "returned"}

StaysMade == recorded => row.status \notin Early

SeenMade ==
  \A p \in Pollers : poll[p].pc \in {"poll", "write"} => poll[p].seen.status \notin Early

CalmInv ==
  Calm => /\ PreparedOnce /\ OperatorsExecute
          /\ Polled => recorded
          /\ StaysMade /\ SeenMade

\* A track job that is done has brought a sync under way, and only a post with a
\* URL gets that far.
TrackInv ==
  /\ track.state = "done" /\ faults = 0 => SyncUnderway
  /\ setup.post = "url" \/
       /\ ~ recorded /\ track.state = "absent"
       /\ \A c \in Callers : call[c].pc \notin {"form", "check", "commit", "announce"}
  /\ TrackingNotLost

IInv == SignInv /\ FilledInv /\ SaidInv /\ JobInv /\ CalmInv /\ TrackInv
=============================================================================
