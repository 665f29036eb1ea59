----------------------------- MODULE Publishing -----------------------------
(***************************************************************************)
(* Publishing one rendered clip on one platform: the calls of publishClip  *)
(* that the publish jobs of the three modes make, concurrently; the        *)
(* compliance evaluation that replaces the clip's findings under them; and *)
(* the operator's pre-publication reviews.                                 *)
(*                                                                         *)
(* There is one job per requested mode, and at most one call runs for it   *)
(* at a time (OneHolder of JobQueue).  Publications are keyed by the       *)
(* EFFECTIVE mode, which may be DRAFT where AUTO was requested, so two     *)
(* calls can work on one publication.                                      *)
(***************************************************************************)
EXTENDS StateMachines, Naturals, FiniteSets

CONSTANTS Modes,          \* the requested modes: a set of PublicationModes
          SafetyChecks,   \* NON_OVERRIDABLE_CHECKS
          OtherChecks,    \* the checks whose REVIEW an operator may waive
          Setups,         \* the deployments and accounts considered
          Attempts,       \* defaultJobOptions.attempts
          FaultKinds,     \* the kinds of fault that may happen
          MaxFaults,      \* bound: faults
          MaxRequests,    \* bound: publish requests, per mode
          MaxEvaluations  \* bound: compliance evaluations

PublicationMode == {"AUTO", "DRAFT", "MANUAL"}
Checks == SafetyChecks \cup OtherChecks
Setup == [envAllowsPublic : BOOLEAN, connected : BOOLEAN,
          requiresInApp : BOOLEAN, audited : BOOLEAN]

ASSUME PublishingAssumption ==
  /\ Modes \subseteq PublicationMode
  /\ SafetyChecks \cap OtherChecks = {}
  /\ Setups \subseteq Setup
  /\ Attempts \in Nat \ {0}
  /\ FaultKinds \subseteq {"crash", "database", "provider"}
  /\ MaxFaults \in Nat /\ MaxRequests \in Nat /\ MaxEvaluations \in Nat

VARIABLES
  setup,        \* what the platform, the account and the environment allow
  findings,     \* the complianceResult rows: a function from checks to outcomes
  evaluator,    \* "replacing" between deleteMany and createMany
  approved,     \* acknowledgedChecks of the latest APPROVED review, or NoReview
  rows,         \* rows[k]: the publication with idempotencyKey k
  job,          \* job[m]: the publish job of mode m, and its attempts left
  call,         \* call[m]: the call of publishClip that runs for it
  submitted,    \* the publications handed to the submission queue
  posts,        \* ghost: posts[k] counts pushes to the provider in effective mode k
  lost,         \* ghost: lost[k] counts those whose outcome never reached the row
  erased,       \* ghost: erased[k] counts PUBLISHED rows a skip overwrote
  failed,       \* ghost: the last complete evaluation had a FAIL
  acked,        \* ghost: every check an operator ever waived
  faults, requests, evaluations   \* for the bounds

world == <<setup, findings, evaluator, approved, failed, acked, evaluations>>
ghosts == <<posts, lost, erased>>
vars == <<world, rows, job, call, submitted, ghosts, faults, requests>>

Keys == PublicationMode
NoReview == {"no review"}
NoFindings == [c \in {} |-> "PASS"]
Findings == {NoFindings} \cup [Checks -> {"PASS", "REVIEW", "FAIL"}]
PublicationStatus == StatusesOf("Publication")

NoCall == [pc |-> "idle", mode |-> "DRAFT", seen |-> NoFindings, token |-> FALSE,
           result |-> "DRAFTED", version |-> 0]
CallPc == {"idle", "gate", "skip", "existing", "create", "push", "check", "commit",
           "announce", "failCheck", "failCommit", "returned"}

WorldOK ==
  /\ setup \in Setups
  /\ findings \in Findings /\ failed \in BOOLEAN
  /\ evaluator \in {"idle", "replacing"}
  /\ approved \in {NoReview} \cup SUBSET OtherChecks
  /\ acked \subseteq OtherChecks
  /\ evaluations \in 0..MaxEvaluations

PublicationRow == [status : PublicationStatus \cup {"NONE"}, version : Nat]
Job == [state : {"idle", "queued", "active"}, left : 0..Attempts]
Call == [pc : CallPc, mode : PublicationMode, seen : Findings, token : BOOLEAN,
         result : {"PUBLISHED", "DRAFTED"}, version : Nat]

RowsOK == rows \in [Keys -> PublicationRow]
JobOK == job \in [Modes -> Job]
CallOK == call \in [Modes -> Call]
CountersOK ==
  /\ posts \in [Keys -> Nat] /\ lost \in [Keys -> Nat] /\ erased \in [Keys -> Nat]
  /\ faults \in 0..MaxFaults
  /\ requests \in [Modes -> 0..MaxRequests]

TypeOK == WorldOK /\ RowsOK /\ JobOK /\ CallOK /\ CountersOK /\ submitted \subseteq Keys

Init ==
  /\ setup \in Setups
  /\ findings = NoFindings /\ failed = FALSE
  /\ evaluator = "idle"
  /\ approved = NoReview /\ acked = {}
  /\ rows = [k \in Keys |-> [status |-> "NONE", version |-> 0]]
  /\ job = [m \in Modes |-> [state |-> "idle", left |-> 0]]
  /\ call = [m \in Modes |-> NoCall]
  /\ submitted = {}
  /\ posts = [k \in Keys |-> 0]
  /\ lost = [k \in Keys |-> 0]
  /\ erased = [k \in Keys |-> 0]
  /\ faults = 0
  /\ requests = [m \in Modes |-> 0]
  /\ evaluations = 0

-----------------------------------------------------------------------------
(* Findings, reviews and capabilities: the decisions, as operators.         *)

Failing(f) == \E c \in DOMAIN f : f[c] = "FAIL"
Reviewed(f) == {c \in DOMAIN f : f[c] = "REVIEW"}
BlockingChecks(f) == Reviewed(f) \cap SafetyChecks
WaivableChecks(f) == Reviewed(f) \ SafetyChecks

\* reviewCoversCurrentFindings
Covers(review, f) ==
  /\ review # NoReview
  /\ ~ Failing(f) /\ BlockingChecks(f) = {}
  /\ WaivableChecks(f) \subseteq review

\* Mutant of MaxMode: the audit of the platform's app is not asked for.
MaxModeUnaudited(outcome) ==
  IF setup.envAllowsPublic /\ setup.connected /\ ~ setup.requiresInApp /\ outcome = "PASS"
  THEN "AUTO" ELSE "DRAFT"

\* computeCapabilities(...).maxMode, as publishClip calls it: the findings have
\* no FAIL, and no provider health is passed.
MaxMode(outcome) ==
  IF /\ setup.envAllowsPublic /\ setup.connected
     /\ ~ setup.requiresInApp /\ setup.audited
     /\ outcome = "PASS"
  THEN "AUTO" ELSE "DRAFT"

EffectiveMode(m, f) ==
  LET outcome == IF Reviewed(f) # {} /\ ~ Covers(approved, f) THEN "REVIEW" ELSE "PASS"
  IN  IF m = "AUTO" /\ MaxMode(outcome) # "AUTO" THEN "DRAFT" ELSE m

\* What a provider answers: a post for AUTO, a platform draft for DRAFT; without
\* a token a local draft (a clip has a URL always).  MANUAL never reaches the provider.
Pushes(m) == call[m].token /\ call[m].mode # "MANUAL"

\* Mutant of ProviderResult: a public result is reported without a token to post.
ProviderResultFaked(m) == IF call[m].mode = "AUTO" THEN "PUBLISHED" ELSE "DRAFTED"

ProviderResult(m) == IF Pushes(m) /\ call[m].mode = "AUTO" THEN "PUBLISHED" ELSE "DRAFTED"

-----------------------------------------------------------------------------
(* The jobs.  An add is ignored while a job with the id is retained, so a   *)
(* request need not start anything.                                         *)

Enqueue(m) ==
  /\ job[m].state = "idle"
  /\ requests[m] < MaxRequests
  /\ job' = [job EXCEPT ![m] = [state |-> "queued", left |-> Attempts]]
  /\ requests' = [requests EXCEPT ![m] = @ + 1]

\* The publish route, a replay or a retry.
Request(m) ==
  /\ Enqueue(m)
  /\ UNCHANGED <<world, rows, call, submitted, ghosts, faults>>

Goto(m, pc) == call' = [call EXCEPT ![m].pc = pc]
Forget(m, pc) == call' = [call EXCEPT ![m] = [@ EXCEPT !.pc = pc, !.seen = NoFindings]]

\* publishClip reads the clip with its findings.
Start(m) ==
  /\ job[m].state = "queued"
  /\ job' = [job EXCEPT ![m].state = "active"]
  /\ call' = [call EXCEPT ![m] = [NoCall EXCEPT !.pc = "gate", !.seen = findings]]
  /\ UNCHANGED <<world, rows, submitted, ghosts, faults, requests>>

\* publishClip returned and the JobRun is SUCCEEDED.
Finish(m) ==
  /\ call[m].pc = "returned"
  /\ job' = [job EXCEPT ![m] = [state |-> "idle", left |-> 0]]
  /\ call' = [call EXCEPT ![m] = NoCall]
  /\ UNCHANGED <<world, rows, submitted, ghosts, faults, requests>>

\* publishClip threw: the job is retried while attempts are left.
Throw(m) ==
  /\ call' = [call EXCEPT ![m] = NoCall]
  /\ job' = [job EXCEPT ![m] = IF @.left > 1 THEN [state |-> "queued", left |-> @.left - 1]
                                             ELSE [state |-> "idle", left |-> 0]]

-----------------------------------------------------------------------------
(* publishClip, one database or network round trip per action.              *)

\* Halted by the kill switch or over budget: another component's state.
Refuse(m) ==
  /\ call[m].pc = "gate"
  /\ Forget(m, "skip")
  /\ UNCHANGED <<world, rows, job, submitted, ghosts, faults, requests>>

FailGate(m) ==
  /\ call[m].pc = "gate"
  /\ Failing(call[m].seen)
  /\ Forget(m, "skip")
  /\ UNCHANGED <<world, rows, job, submitted, ghosts, faults, requests>>

\* The latest approved review is read, the effective mode decided and a token
\* asked for, which may be refused although the account is connected.
Decide(m) ==
  /\ call[m].pc = "gate"
  /\ ~ Failing(call[m].seen)
  /\ \E token \in BOOLEAN :
       /\ token => setup.connected
       /\ call' = [call EXCEPT ![m] =
                     [@ EXCEPT !.pc = "existing", !.token = token,
                               !.mode = EffectiveMode(m, call[m].seen)]]
  /\ UNCHANGED <<world, rows, job, submitted, ghosts, faults, requests>>

\* Mutant of Existing: only a draft is reused.
ExistingDraft(m) ==
  /\ call[m].pc = "existing"
  /\ Goto(m, IF rows[call[m].mode].status = "DRAFTED" THEN "returned" ELSE "create")
  /\ UNCHANGED <<world, rows, job, submitted, ghosts, faults, requests>>

\* "Idempotent reuse" of a publication that is PUBLISHED or DRAFTED.
Existing(m) ==
  /\ call[m].pc = "existing"
  /\ Goto(m, IF rows[call[m].mode].status \in {"PUBLISHED", "DRAFTED"}
             THEN "returned" ELSE "create")
  /\ UNCHANGED <<world, rows, job, submitted, ghosts, faults, requests>>

Bump(counter, k) == [counter EXCEPT ![k] = @ + 1]

\* An upsert of a status: it replaces whatever the row holds, without a check
\* and without a new version.
Upsert(k, status) == rows' = [rows EXCEPT ![k].status = status]

\* The transaction: no FAIL among the findings as they are now, and the upsert.
Create(m) ==
  /\ call[m].pc = "create"
  /\ ~ Failing(findings)
  /\ Upsert(call[m].mode, "PENDING")
  /\ Forget(m, "push")
  /\ UNCHANGED <<world, job, submitted, ghosts, faults, requests>>

CreateBlocked(m) ==
  /\ call[m].pc = "create"
  /\ Failing(findings)
  /\ Forget(m, "skip")
  /\ UNCHANGED <<world, rows, job, submitted, ghosts, faults, requests>>

\* skip(req): the publication of the REQUESTED mode becomes SKIPPED.
Skip(m) ==
  /\ call[m].pc = "skip"
  /\ Upsert(m, "SKIPPED")
  /\ erased' = IF rows[m].status = "PUBLISHED" THEN Bump(erased, m) ELSE erased
  /\ Goto(m, "returned")
  /\ UNCHANGED <<world, job, submitted, posts, lost, faults, requests>>

Push(m) ==
  /\ call[m].pc = "push"
  /\ posts' = IF Pushes(m) THEN Bump(posts, call[m].mode) ELSE posts
  /\ call' = [call EXCEPT ![m] = [@ EXCEPT !.pc = "check", !.result = ProviderResult(m)]]
  /\ UNCHANGED <<world, rows, job, submitted, lost, erased, faults, requests>>

\* The file is missing, or the provider refuses the start or the upload: nothing was
\* posted.
PushRefused(m) ==
  /\ call[m].pc = "push"
  /\ Goto(m, "failCheck")
  /\ UNCHANGED <<world, rows, job, submitted, ghosts, faults, requests>>

\* guardedTransition to the result: read and check, then the versioned update.
TransitionCheck(m) ==
  LET row == rows[call[m].mode]
  IN  /\ call[m].pc = "check"
      /\ \/ /\ CanTransition("Publication", row.status, call[m].result)
            /\ call' = [call EXCEPT ![m] = [@ EXCEPT !.pc = "commit", !.version = row.version]]
            /\ UNCHANGED lost
         \/ /\ ~ CanTransition("Publication", row.status, call[m].result)
            /\ Goto(m, "failCheck")
            /\ lost' = IF Pushes(m) THEN Bump(lost, call[m].mode) ELSE lost
      /\ UNCHANGED <<world, rows, job, submitted, posts, erased, faults, requests>>

TransitionCommit(m) ==
  LET k == call[m].mode
      current == rows[k].version = call[m].version
  IN  /\ call[m].pc = "commit"
      /\ \/ /\ current
            /\ rows' = [rows EXCEPT ![k] = [status |-> call[m].result, version |-> @.version + 1]]
            /\ Goto(m, "announce")
            /\ UNCHANGED lost
         \/ /\ ~ current
            /\ Goto(m, "failCheck")
            /\ lost' = IF Pushes(m) THEN Bump(lost, k) ELSE lost
            /\ UNCHANGED rows
      /\ UNCHANGED <<world, job, submitted, posts, erased, faults, requests>>

\* Mutant of Announce: only public posts are submitted.
AnnouncePublic(m) ==
  /\ call[m].pc = "announce"
  /\ submitted' = IF call[m].result = "PUBLISHED" THEN submitted \cup {call[m].mode}
                                                  ELSE submitted
  /\ Goto(m, "returned")
  /\ UNCHANGED <<world, rows, job, ghosts, faults, requests>>

\* audit and enqueueSubmission; what follows them cannot throw.
Announce(m) ==
  /\ call[m].pc = "announce"
  /\ submitted' = submitted \cup {call[m].mode}
  /\ Goto(m, "returned")
  /\ UNCHANGED <<world, rows, job, ghosts, faults, requests>>

\* Mutant of FailCheck: the error is thrown on without marking the row.
FailUnmarked(m) ==
  /\ call[m].pc = "failCheck"
  /\ Throw(m)
  /\ UNCHANGED <<world, rows, submitted, ghosts, faults, requests>>

\* The catch block: guardedTransition to FAILED, whose own errors are only
\* logged, and the error is thrown again.
FailCheck(m) ==
  LET row == rows[call[m].mode]
  IN  /\ call[m].pc = "failCheck"
      /\ \/ /\ CanTransition("Publication", row.status, "FAILED")
            /\ call' = [call EXCEPT ![m] = [@ EXCEPT !.pc = "failCommit", !.version = row.version]]
            /\ UNCHANGED job
         \/ /\ ~ CanTransition("Publication", row.status, "FAILED")
            /\ Throw(m)
      /\ UNCHANGED <<world, rows, submitted, ghosts, faults, requests>>

FailCommit(m) ==
  LET k == call[m].mode
  IN  /\ call[m].pc = "failCommit"
      /\ rows' = IF rows[k].version = call[m].version
                 THEN [rows EXCEPT ![k] = [status |-> "FAILED", version |-> @.version + 1]]
                 ELSE rows
      /\ Throw(m)
      /\ UNCHANGED <<world, submitted, ghosts, faults, requests>>

-----------------------------------------------------------------------------
(* Faults.                                                                  *)

Fault(kind) == kind \in FaultKinds /\ faults < MaxFaults /\ faults' = faults + 1

\* The outcome of a push is lost when the call ends before it is recorded.
LoseOutcome(m) ==
  lost' = IF call[m].pc \in {"check", "commit"} /\ Pushes(m)
          THEN Bump(lost, call[m].mode) ELSE lost

\* The worker's process dies; its job is handed out again.
Crash(m) ==
  /\ call[m].pc # "idle"
  /\ Fault("crash")
  /\ LoseOutcome(m)
  /\ call' = [call EXCEPT ![m] = NoCall]
  /\ job' = [job EXCEPT ![m].state = "queued"]
  /\ UNCHANGED <<world, rows, submitted, posts, erased, requests>>

\* A database or Redis call throws: around the try block and the recording of the
\* JobRun, or, below, inside the try block.
DatabaseFailsEarly(m) ==
  /\ call[m].pc \in {"gate", "existing", "create", "skip", "failCheck", "failCommit", "returned"}
  /\ Fault("database")
  /\ Throw(m)
  /\ UNCHANGED <<world, rows, submitted, ghosts, requests>>

DatabaseFails(m) ==
  /\ call[m].pc \in {"check", "commit", "announce"}
  /\ Fault("database")
  /\ LoseOutcome(m)
  /\ Goto(m, "failCheck")
  /\ UNCHANGED <<world, rows, job, submitted, posts, erased, requests>>

\* The provider made the post, and its answer (the last of an upload's) was lost.
AnswerLost(m) ==
  /\ call[m].pc = "push"
  /\ Pushes(m)
  /\ Fault("provider")
  /\ posts' = Bump(posts, call[m].mode)
  /\ lost' = Bump(lost, call[m].mode)
  /\ Goto(m, "failCheck")
  /\ UNCHANGED <<world, rows, job, submitted, erased, requests>>

-----------------------------------------------------------------------------
(* evaluateCompliance and submitPrePublicationReview.                       *)

EvaluationDelete ==
  /\ evaluator = "idle"
  /\ evaluations < MaxEvaluations
  /\ evaluations' = evaluations + 1
  /\ evaluator' = "replacing"
  /\ findings' = NoFindings
  /\ UNCHANGED <<setup, approved, failed, acked, rows, job, call, submitted, ghosts,
                 faults, requests>>

EvaluationCreate ==
  /\ evaluator = "replacing"
  /\ evaluator' = "idle"
  /\ findings' \in [Checks -> {"PASS", "REVIEW", "FAIL"}]
  /\ failed' = Failing(findings')
  /\ UNCHANGED <<setup, approved, acked, evaluations, rows, job, call, submitted, ghosts,
                 faults, requests>>

\* The worker dies, or createMany fails, between the two statements.
EvaluationLost ==
  /\ evaluator = "replacing"
  /\ Fault("crash")
  /\ evaluator' = "idle"
  /\ UNCHANGED <<setup, findings, approved, failed, acked, evaluations, rows, job, call,
                 submitted, ghosts, requests>>

\* An APPROVED review acknowledges every waivable REVIEW of the findings, and
\* puts the job of its mode back, if BullMQ takes it.  A REJECTED review is
\* recorded and changes nothing here: only APPROVED ones are ever read.
Approve(m) ==
  /\ ~ Failing(findings) /\ BlockingChecks(findings) = {}
  /\ approved' = WaivableChecks(findings)
  /\ acked' = acked \cup approved'
  /\ Enqueue(m) \/ UNCHANGED <<job, requests>>
  /\ UNCHANGED <<setup, findings, evaluator, failed, evaluations, rows, call, submitted,
                 ghosts, faults>>

-----------------------------------------------------------------------------
Step(m) ==
  \/ FailGate(m) \/ Decide(m) \/ Existing(m) \/ Create(m) \/ CreateBlocked(m) \/ Skip(m)
  \/ Push(m) \/ PushRefused(m) \/ TransitionCheck(m) \/ TransitionCommit(m) \/ Announce(m)
  \/ FailCheck(m) \/ FailCommit(m) \/ Finish(m)

Next ==
  \/ \E m \in Modes :
       \/ Request(m) \/ Start(m) \/ Refuse(m) \/ Step(m) \/ Approve(m)
       \/ Crash(m) \/ DatabaseFailsEarly(m) \/ DatabaseFails(m) \/ AnswerLost(m)
  \/ EvaluationDelete \/ EvaluationCreate \/ EvaluationLost

Spec == Init /\ [][Next]_vars

\* Workers take the jobs that are queued and their promises settle.
FairSpec == Spec /\ \A m \in Modes : WF_vars(Start(m)) /\ WF_vars(Step(m))
-----------------------------------------------------------------------------
\* Every public post beyond the first is paid for by a post whose outcome was
\* lost on the way to the row, or by a PUBLISHED row that a skip erased: no
\* interleaving of calls, evaluations, reviews and retries repeats it otherwise.
PublicPostsPaidFor == posts["AUTO"] <= 1 + lost["AUTO"] + erased["AUTO"]

\* "Never a faked post" (publishService.ts:42-43): a publication says PUBLISHED
\* only if its clip really was posted in AUTO mode, whatever was downgraded,
\* retried or left without a token.
NeverFaked ==
  \A k \in Keys : rows[k].status = "PUBLISHED" => k = "AUTO" /\ posts["AUTO"] > 0

\* A public post is only ever prepared where the deployment, the app's audit, the
\* account and the clip allow one, on findings without FAIL and without a
\* safety-critical REVIEW, every other REVIEW in them waived by an operator: no
\* sequence of evaluations, approvals and retries makes an override waive what it
\* may not (prePublicationService.ts:12-16, capabilityService.ts:5-8).
AutoIsAuthorized ==
  \A m \in Modes :
    call[m].pc = "create" /\ call[m].mode = "AUTO" =>
      /\ setup.envAllowsPublic /\ setup.connected /\ setup.audited /\ ~ setup.requiresInApp
      /\ ~ Failing(call[m].seen)
      /\ BlockingChecks(call[m].seen) = {}
      /\ WaivableChecks(call[m].seen) \subseteq acked

\* While no worker dies and the database answers, no publication stays PENDING:
\* whatever calls race on it, one of them records an outcome.
PendingResolves ==
  \A k \in Keys : rows[k].status = "PENDING" ~> rows[k].status # "PENDING"

\* Under the same conditions every publication that was made is handed to the
\* submission stage, also when a call reuses it.
SubmissionFollows ==
  \A k \in Keys : rows[k].status \in {"PUBLISHED", "DRAFTED"} ~> k \in submitted
-----------------------------------------------------------------------------
(* The inductive invariant behind the first three.  The row of the key AUTO  *)
(* has one writer at a time, the call of the AUTO job, because no other      *)
(* call ever works in effective mode AUTO.                                   *)

Writes(m) == call[m].pc \in {"create", "push", "check", "commit", "failCommit"}
Unrecorded(m) == call[m].pc \in {"check", "commit"} /\ Pushes(m) /\ call[m].mode = "AUTO"

CallInv(m) ==
  /\ call[m].mode = "AUTO" => m = "AUTO"
  /\ Writes(m) /\ call[m].mode = "AUTO" => rows["AUTO"].status # "PUBLISHED"
  /\ call[m].pc \in {"check", "commit"} =>
       /\ call[m].result = "PUBLISHED" <=> Pushes(m) /\ call[m].mode = "AUTO"
       /\ call[m].result = "PUBLISHED" => posts["AUTO"] > 0
  /\ call[m].pc \in {"existing", "create"} /\ call[m].mode = "AUTO" =>
       /\ setup.envAllowsPublic /\ setup.connected /\ setup.audited /\ ~ setup.requiresInApp
       /\ ~ Failing(call[m].seen)
       /\ BlockingChecks(call[m].seen) = {}
       /\ WaivableChecks(call[m].seen) \subseteq acked

\* One post is covered by the PUBLISHED row, or by the call about to write it.
Covered == rows["AUTO"].status = "PUBLISHED" \/ \E m \in Modes : Unrecorded(m)

Balance ==
  posts["AUTO"] <= lost["AUTO"] + erased["AUTO"] + (IF Covered THEN 1 ELSE 0)

IInv ==
  /\ \A m \in Modes : call[m].pc # "idle" => job[m].state = "active"
  /\ \A m \in Modes : CallInv(m)
  /\ Balance
  /\ NeverFaked
  /\ approved # NoReview => approved \subseteq acked
-----------------------------------------------------------------------------
(* A statement of the documentation that the code does not keep.            *)

\* "Any FAIL must block publication" (REQUIREMENTS.md:577): no push is prepared
\* while the last complete evaluation of the clip has a FAIL.
FailBlocks ==
  [][\A m \in Modes : call[m].pc = "create" /\ call'[m].pc = "push"
                        => ~ failed]_vars
=============================================================================
