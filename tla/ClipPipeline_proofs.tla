-------------------------- MODULE ClipPipeline_proofs --------------------------
(***************************************************************************)
(* Proofs about the way of a clip from its link to its evaluation, for any *)
(* number of attempts, rows, requests and faults (ClipPipeline), and about *)
(* what the rules of its campaign make of it, for any rules, hooks,        *)
(* durations and surroundings (ClipRules).                                 *)
(***************************************************************************)
EXTENDS ClipPipeline, ClipRules, FiniteSetTheorems, SequenceTheorems, NaturalsInduction,
        WellFoundedInduction, TLAPS

-----------------------------------------------------------------------------
(* Jobs and requests.                                                       *)

Callers == Jobs \cup Requests
Ids == 1..MaxIds

LEMMA Kinds ==
  /\ Ingest \in Jobs /\ Transcribe \in Jobs /\ Generate \in Jobs
  /\ Approve \in Requests /\ Reject \in Requests
  /\ \A p \in Requests : p = Approve \/ p = Reject
  /\ \A i \in Ids : Render(i) \in Jobs /\ Compliance(i) \in Jobs
  /\ \A j \in Jobs : \/ j \in {Ingest, Transcribe, Generate}
                     \/ \E i \in Ids : j = Render(i) \/ j = Compliance(i)
BY DEF Jobs, Requests, Ingest, Transcribe, Generate, Approve, Reject, Render, Compliance, Ids

LEMMA Distinct ==
  /\ Ingest # Transcribe /\ Ingest # Generate /\ Transcribe # Generate
  /\ Approve # Reject
  /\ \A i \in Ids : /\ Render(i) \notin {Ingest, Transcribe, Generate}
                    /\ Compliance(i) \notin {Ingest, Transcribe, Generate}
  /\ \A i, k \in Ids : /\ Render(i) # Compliance(k)
                       /\ Render(i) = Render(k) => i = k
                       /\ Compliance(i) = Compliance(k) => i = k
  /\ \A p \in Requests, j \in Jobs : p # j
BY DEF Jobs, Requests, Ingest, Transcribe, Generate, Approve, Reject, Render, Compliance, Ids

LEMMA KindOf ==
  /\ Ingest[1] = "ingest" /\ Transcribe[1] = "transcribe" /\ Generate[1] = "clip"
  /\ Approve[1] = "approve" /\ Reject[1] = "reject"
  /\ \A i \in Ids : Render(i)[1] = "render" /\ Compliance(i)[1] = "compliance"
BY DEF Ingest, Transcribe, Generate, Approve, Reject, Render, Compliance

LEMMA PcsOf ==
  /\ Pcs(Ingest[1]) = {"idle", "start", "download", "mark", "announce", "end"}
  /\ Pcs(Transcribe[1]) = {"idle", "start", "announce", "end"}
  /\ Pcs(Generate[1]) = {"idle", "start", "score", "end"}
  /\ Pcs(Approve[1]) = {"idle", "commit", "enqueue"} /\ Pcs(Reject[1]) = {"idle", "commit"}
  /\ \A i \in Ids :
       /\ Pcs(Render(i)[1]) = {"idle", "start", "check", "mark", "replace", "upsert", "finish",
                               "done", "announce", "end"}
       /\ Pcs(Compliance(i)[1]) = {"idle", "start", "write", "end"}
<1>1. /\ Pcs("ingest") = {"idle", "start", "download", "mark", "announce", "end"}
      /\ Pcs("transcribe") = {"idle", "start", "announce", "end"}
      /\ Pcs("clip") = {"idle", "start", "score", "end"}
      /\ Pcs("approve") = {"idle", "commit", "enqueue"} /\ Pcs("reject") = {"idle", "commit"}
  BY DEF Pcs
<1>2. /\ Pcs("render") = {"idle", "start", "check", "mark", "replace", "upsert", "finish",
                          "done", "announce", "end"}
      /\ Pcs("compliance") = {"idle", "start", "write", "end"}
  BY DEF Pcs
<1> QED
  BY <1>1, <1>2, KindOf

\* Every job starts, ends, and may be idle.
LEMMA ClipStatuses ==
  StatusesOf("ClipCandidate") =
    {"CANDIDATE", "APPROVED", "RENDERING", "RENDERED", "REJECTED", "FAILED"}
BY DEF StatusesOf, TABLES, CLIP_TRANSITIONS

LEMMA CommonPcs ==
  /\ \A j \in Jobs : {"idle", "start", "end"} \subseteq Pcs(j[1])
  /\ \A p \in Requests : {"idle", "commit"} \subseteq Pcs(p[1])
BY Kinds, PcsOf

-----------------------------------------------------------------------------
(* What becomes of calls.                                                   *)

CallsOK == call \in [Callers -> Call]
Others(p) == call' \in [Callers -> Call] /\ \A q \in Callers \ {p} : call'[q] = call[q]

CallMade(pc, id, version, content) ==
  [pc |-> pc, id |-> id, version |-> version, content |-> content]

LEMMA CallFields ==
  ASSUME CallsOK, NEW p \in Callers
  PROVE  /\ call[p].pc \in Steps /\ call[p].id \in 0..MaxIds /\ call[p].version \in Nat
         /\ call[p].content \in 0..MaxRenders
BY DEF CallsOK, Call

LEMMA IdleCall == Idle \in Call /\ Idle.pc = "idle" /\ Idle.id = 0
BY ClipAssumption DEF Idle, Call, Steps, MaxRenders

LEMMA CallMadeFields ==
  ASSUME NEW pc \in Steps, NEW id \in 0..MaxIds, NEW version \in Nat, NEW content \in 0..MaxRenders
  PROVE  /\ CallMade(pc, id, version, content) \in Call
         /\ CallMade(pc, id, version, content).pc = pc
         /\ CallMade(pc, id, version, content).id = id
         /\ CallMade(pc, id, version, content).version = version
         /\ CallMade(pc, id, version, content).content = content
BY DEF CallMade, Call

LEMMA Replaced ==
  ASSUME CallsOK, NEW p \in Callers, NEW c \in Call, call' = [call EXCEPT ![p] = c]
  PROVE  Others(p) /\ call'[p] = c
BY DEF CallsOK, Others

\* The caller goes on.
Goes(p, pc) ==
  /\ Others(p) /\ call'[p].pc = pc
  /\ call'[p].id = call[p].id /\ call'[p].version = call[p].version
  /\ call'[p].content = call[p].content

LEMMA Stepping ==
  ASSUME CallsOK, NEW p \in Callers, NEW pc \in Steps, Step(p, pc)
  PROVE  Goes(p, pc)
BY DEF CallsOK, Step, Goes, Others, Call

LEMMA Returning ==
  ASSUME CallsOK, NEW p \in Callers, Return(p)
  PROVE  Others(p) /\ call'[p] = Idle
BY IdleCall, Replaced DEF Return

LEMMA VersionRead ==
  ASSUME CallsOK, NEW p \in Callers, NEW pc \in Steps, NEW version \in Nat
  PROVE  call' = [call EXCEPT ![p].pc = pc, ![p].version = version] =>
           /\ Others(p) /\ call'[p].pc = pc /\ call'[p].version = version
           /\ call'[p].id = call[p].id /\ call'[p].content = call[p].content
<1>1. ASSUME call' = [call EXCEPT ![p].pc = pc, ![p].version = version]
      PROVE  call' = [call EXCEPT ![p] = CallMade(pc, call[p].id, version, call[p].content)]
  <2>1. call'[p] = CallMade(pc, call[p].id, version, call[p].content)
    BY <1>1, Zenon DEF CallsOK, CallMade, Call
  <2>2. call' = [call EXCEPT ![p] = call'[p]]
    BY <1>1
  <2> QED
    BY <2>1, <2>2
<1>2. ASSUME call' = [call EXCEPT ![p] = CallMade(pc, call[p].id, version, call[p].content)]
      PROVE  /\ Others(p) /\ call'[p].pc = pc /\ call'[p].version = version
             /\ call'[p].id = call[p].id /\ call'[p].content = call[p].content
  <2> DEFINE c == CallMade(pc, call[p].id, version, call[p].content)
  <2>1. /\ c \in Call /\ c.pc = pc /\ c.id = call[p].id /\ c.version = version
        /\ c.content = call[p].content
    <3>1. call[p].id \in 0..MaxIds /\ call[p].version \in Nat /\ call[p].content \in 0..MaxRenders
      BY CallFields
    <3> QED
      BY <3>1, CallMadeFields
  <2> HIDE DEF c
  <2>2. Others(p) /\ call'[p] = c
    BY <1>2, <2>1, Replaced DEF c
  <2> QED
    BY <2>1, <2>2
<1> QED
  BY <1>1, <1>2, Zenon

LEMMA IdRead ==
  ASSUME CallsOK, NEW p \in Callers, NEW pc \in Steps, NEW id \in 0..MaxIds
  PROVE  call' = [call EXCEPT ![p].pc = pc, ![p].id = id] =>
           /\ Others(p) /\ call'[p].pc = pc /\ call'[p].id = id
           /\ call'[p].version = call[p].version /\ call'[p].content = call[p].content
<1>1. ASSUME call' = [call EXCEPT ![p].pc = pc, ![p].id = id]
      PROVE  call' = [call EXCEPT ![p] = CallMade(pc, id, call[p].version, call[p].content)]
  <2>1. call'[p] = CallMade(pc, id, call[p].version, call[p].content)
    BY <1>1, Zenon DEF CallsOK, CallMade, Call
  <2>2. call' = [call EXCEPT ![p] = call'[p]]
    BY <1>1
  <2> QED
    BY <2>1, <2>2
<1>2. ASSUME call' = [call EXCEPT ![p] = CallMade(pc, id, call[p].version, call[p].content)]
      PROVE  /\ Others(p) /\ call'[p].pc = pc /\ call'[p].id = id
             /\ call'[p].version = call[p].version /\ call'[p].content = call[p].content
  <2> DEFINE c == CallMade(pc, id, call[p].version, call[p].content)
  <2>1. /\ c \in Call /\ c.pc = pc /\ c.id = id /\ c.version = call[p].version
        /\ c.content = call[p].content
    <3>1. call[p].id \in 0..MaxIds /\ call[p].version \in Nat /\ call[p].content \in 0..MaxRenders
      BY CallFields
    <3> QED
      BY <3>1, CallMadeFields
  <2> HIDE DEF c
  <2>2. Others(p) /\ call'[p] = c
    BY <1>2, <2>1, Replaced DEF c
  <2> QED
    BY <2>1, <2>2
<1> QED
  BY <1>1, <1>2, Zenon

LEMMA ContentRead ==
  ASSUME CallsOK, NEW p \in Callers, NEW pc \in Steps, NEW content \in 0..MaxRenders
  PROVE  call' = [call EXCEPT ![p].pc = pc, ![p].content = content] =>
           /\ Others(p) /\ call'[p].pc = pc /\ call'[p].content = content
           /\ call'[p].id = call[p].id /\ call'[p].version = call[p].version
<1>1. ASSUME call' = [call EXCEPT ![p].pc = pc, ![p].content = content]
      PROVE  call' = [call EXCEPT ![p] = CallMade(pc, call[p].id, call[p].version, content)]
  <2>1. call'[p] = CallMade(pc, call[p].id, call[p].version, content)
    BY <1>1, Zenon DEF CallsOK, CallMade, Call
  <2>2. call' = [call EXCEPT ![p] = call'[p]]
    BY <1>1
  <2> QED
    BY <2>1, <2>2
<1>2. ASSUME call' = [call EXCEPT ![p] = CallMade(pc, call[p].id, call[p].version, content)]
      PROVE  /\ Others(p) /\ call'[p].pc = pc /\ call'[p].content = content
             /\ call'[p].id = call[p].id /\ call'[p].version = call[p].version
  <2> DEFINE c == CallMade(pc, call[p].id, call[p].version, content)
  <2>1. /\ c \in Call /\ c.pc = pc /\ c.id = call[p].id /\ c.version = call[p].version
        /\ c.content = content
    <3>1. call[p].id \in 0..MaxIds /\ call[p].version \in Nat /\ call[p].content \in 0..MaxRenders
      BY CallFields
    <3> QED
      BY <3>1, CallMadeFields
  <2> HIDE DEF c
  <2>2. Others(p) /\ call'[p] = c
    BY <1>2, <2>1, Replaced DEF c
  <2> QED
    BY <2>1, <2>2
<1> QED
  BY <1>1, <1>2, Zenon

-----------------------------------------------------------------------------
(* What becomes of jobs.                                                    *)

JobsOK == job \in [Jobs -> Job]
OtherJobs(j) == job' \in [Jobs -> Job] /\ \A k \in Jobs \ {j} : job'[k] = job[k]

JobMade(state, n, stalled, run) ==
  [state |-> state, left |-> n, stalled |-> stalled, run |-> run]

LEMMA JobFields ==
  ASSUME JobsOK, NEW j \in Jobs
  PROVE  /\ job[j].state \in {"absent", "queued", "active", "kept"}
         /\ job[j].left \in 0..Attempts /\ job[j].run \in {"NONE", "OPEN", "SUCCEEDED"}
         /\ job[j].stalled \in BOOLEAN
BY DEF JobsOK, Job

\* Job j is now in this state, with n attempts and this run.
Stands(j, state, n, run) ==
  OtherJobs(j) /\ job'[j].state = state /\ job'[j].left = n /\ job'[j].run = run

LEMMA JobReplaced ==
  ASSUME JobsOK, NEW j \in Jobs, NEW state \in {"absent", "queued", "active", "kept"},
         NEW n \in 0..Attempts, NEW stalled \in BOOLEAN, NEW run \in {"NONE", "OPEN", "SUCCEEDED"},
         job' = [job EXCEPT ![j] = JobMade(state, n, stalled, run)]
  PROVE  Stands(j, state, n, run)
<1> DEFINE b == JobMade(state, n, stalled, run)
<1>1. b \in Job /\ b.state = state /\ b.left = n /\ b.run = run
  BY DEF JobMade, Job
<1>2. job' = [job EXCEPT ![j] = b]
  OBVIOUS
<1> HIDE DEF b
<1>3. OtherJobs(j) /\ job'[j] = b
  BY <1>1, <1>2 DEF JobsOK, OtherJobs
<1> QED
  BY <1>1, <1>3 DEF Stands

LEMMA JobUpdates ==
  ASSUME JobsOK, NEW j \in Jobs, NEW state \in {"absent", "queued", "active", "kept"},
         NEW n \in 0..Attempts, NEW run \in {"NONE", "OPEN", "SUCCEEDED"}
  PROVE  /\ job' = [job EXCEPT ![j].state = state, ![j].left = n] =>
              Stands(j, state, n, job[j].run)
         /\ job' = [job EXCEPT ![j].state = state, ![j].left = n, ![j].run = run] =>
              Stands(j, state, n, run)
         /\ job' = [job EXCEPT ![j].state = state, ![j].run = run] =>
              Stands(j, state, job[j].left, run)
         /\ job' = [job EXCEPT ![j].state = state, ![j].stalled = TRUE] =>
              Stands(j, state, job[j].left, job[j].run)
         /\ job' = [job EXCEPT ![j].run = run] => Stands(j, job[j].state, job[j].left, run)
<1>1. ASSUME NEW s \in {"absent", "queued", "active", "kept"}, NEW m \in 0..Attempts,
             NEW t \in BOOLEAN, NEW r \in {"NONE", "OPEN", "SUCCEEDED"},
             job'[j] = JobMade(s, m, t, r), job' = [job EXCEPT ![j] = job'[j]]
      PROVE  Stands(j, s, m, r)
  <2>1. job' = [job EXCEPT ![j] = JobMade(s, m, t, r)]
    BY <1>1
  <2> QED
    BY <2>1, JobReplaced
<1>2. ASSUME job' = [job EXCEPT ![j].state = state, ![j].left = n]
      PROVE  Stands(j, state, n, job[j].run)
  <2>1. job'[j] = JobMade(state, n, job[j].stalled, job[j].run)
    BY <1>2, Zenon DEF JobsOK, JobMade, Job
  <2>2. job' = [job EXCEPT ![j] = job'[j]]
    BY <1>2
  <2> QED
    BY <2>1, <2>2, <1>1, JobFields
<1>3. ASSUME job' = [job EXCEPT ![j].state = state, ![j].left = n, ![j].run = run]
      PROVE  Stands(j, state, n, run)
  <2>1. job'[j] = JobMade(state, n, job[j].stalled, run)
    BY <1>3, Zenon DEF JobsOK, JobMade, Job
  <2>2. job' = [job EXCEPT ![j] = job'[j]]
    BY <1>3
  <2> QED
    BY <2>1, <2>2, <1>1, JobFields
<1>4. ASSUME job' = [job EXCEPT ![j].state = state, ![j].run = run]
      PROVE  Stands(j, state, job[j].left, run)
  <2>1. job'[j] = JobMade(state, job[j].left, job[j].stalled, run)
    BY <1>4, Zenon DEF JobsOK, JobMade, Job
  <2>2. job' = [job EXCEPT ![j] = job'[j]]
    BY <1>4
  <2> QED
    BY <2>1, <2>2, <1>1, JobFields
<1>5. ASSUME job' = [job EXCEPT ![j].state = state, ![j].stalled = TRUE]
      PROVE  Stands(j, state, job[j].left, job[j].run)
  <2>1. job'[j] = JobMade(state, job[j].left, TRUE, job[j].run)
    BY <1>5, Zenon DEF JobsOK, JobMade, Job
  <2>2. job' = [job EXCEPT ![j] = job'[j]]
    BY <1>5
  <2> QED
    BY <2>1, <2>2, <1>1, JobFields
<1>6. job' = [job EXCEPT ![j].run = run] => Stands(j, job[j].state, job[j].left, run)
  BY DEF JobsOK, Stands, OtherJobs, Job
<1> QED
  BY <1>2, <1>3, <1>4, <1>5, <1>6

LEMMA AttemptBounds == Attempts \in 0..Attempts /\ 0 \in 0..Attempts /\ Attempts > 0
BY ClipAssumption

LEMMA Afresh ==
  ASSUME JobsOK, NEW j \in Jobs, NEW run \in {"NONE", "OPEN", "SUCCEEDED"},
         job' = [job EXCEPT ![j] = Fresh(run)]
  PROVE  Stands(j, "queued", Attempts, run)
<1>1. Fresh(run) = JobMade("queued", Attempts, FALSE, run)
  BY DEF Fresh, JobMade
<1> QED
  BY <1>1, JobReplaced, AttemptBounds

\* A job that BullMQ may still hold is enqueued, or the add is ignored.
Enqueued(j) ==
  \/ job' = job /\ job[j].state # "absent"
  \/ job[j].state \in {"absent", "kept"} /\ Stands(j, "queued", Attempts, job[j].run)

\* The same once its JobRun is deleted.
Reran(j) ==
  \/ job[j].state # "absent" /\ Stands(j, job[j].state, job[j].left, "NONE")
  \/ job[j].state \in {"absent", "kept"} /\ Stands(j, "queued", Attempts, "NONE")

\* The attempt failed, and another follows unless it was the last.
Thrown(j) ==
  /\ Others(j) /\ call'[j] = Idle
  /\ OtherJobs(j) /\ job'[j].run = job[j].run
  /\ \/ job'[j].state = "queued" /\ job'[j].left > 0
     \/ job'[j].state = "kept" /\ (job[j].left > 0 => lost')
  /\ lost => lost'

LEMMA Enqueuing ==
  ASSUME JobsOK, NEW j \in Jobs, Enqueue(j)
  PROVE  Enqueued(j)
<1>1. PICK retained \in Retained(j) :
        job' = IF retained THEN job ELSE [job EXCEPT ![j] = Fresh(job[j].run)]
  BY DEF Enqueue
<1>2. CASE retained /\ job[j].state # "absent"
  BY <1>1, <1>2 DEF Enqueued
<1>3. CASE ~ retained /\ job[j].state \in {"absent", "kept"}
  <2>1. job' = [job EXCEPT ![j] = Fresh(job[j].run)]
    BY <1>1, <1>3
  <2>2. Stands(j, "queued", Attempts, job[j].run)
    BY <2>1, Afresh, JobFields
  <2> QED
    BY <2>2, <1>3 DEF Enqueued
<1>4. \/ retained /\ job[j].state # "absent"
      \/ ~ retained /\ job[j].state \in {"absent", "kept"}
  BY <1>1, JobFields DEF Retained
<1> QED
  BY <1>2, <1>3, <1>4

LEMMA Rerunning ==
  ASSUME JobsOK, NEW j \in Jobs, Rerun(j)
  PROVE  Reran(j)
<1>1. PICK retained \in Retained(j) :
        job' = IF retained THEN [job EXCEPT ![j].run = "NONE"]
               ELSE [job EXCEPT ![j] = Fresh("NONE")]
  BY DEF Rerun
<1>2. CASE retained /\ job[j].state # "absent"
  <2>1. job' = [job EXCEPT ![j].run = "NONE"]
    BY <1>1, <1>2
  <2>2. Stands(j, job[j].state, job[j].left, "NONE")
    BY <2>1, JobUpdates, JobFields
  <2> QED
    BY <2>2, <1>2 DEF Reran
<1>3. CASE ~ retained /\ job[j].state \in {"absent", "kept"}
  <2>1. job' = [job EXCEPT ![j] = Fresh("NONE")]
    BY <1>1, <1>3
  <2>2. Stands(j, "queued", Attempts, "NONE")
    BY <2>1, Afresh
  <2> QED
    BY <2>2, <1>3 DEF Reran
<1>4. \/ retained /\ job[j].state # "absent"
      \/ ~ retained /\ job[j].state \in {"absent", "kept"}
  BY <1>1, JobFields DEF Retained
<1> QED
  BY <1>2, <1>3, <1>4

LEMMA Throwing ==
  ASSUME JobsOK, CallsOK, lost \in BOOLEAN, NEW j \in Jobs, Throw(j)
  PROVE  Thrown(j) /\ lost' \in BOOLEAN
<1>1. Others(j) /\ call'[j] = Idle
  BY Returning DEF Throw, Callers
<1>2. job[j].left \in 0..Attempts /\ job[j].left - 1 \in Int
  BY JobFields
<1>3. CASE job[j].left > 1
  <2>1. job' = [job EXCEPT ![j].state = "queued", ![j].left = job[j].left - 1]
    BY <1>3 DEF Throw, JobsOK
  <2>2. job[j].left - 1 \in 0..Attempts /\ job[j].left - 1 > 0
    BY <1>2, <1>3, ClipAssumption
  <2>3. Stands(j, "queued", job[j].left - 1, job[j].run)
    BY <2>1, <2>2, JobUpdates, JobFields
  <2> QED
    BY <1>1, <2>2, <2>3, <1>3 DEF Thrown, Stands, Throw
<1>4. CASE ~ job[j].left > 1
  <2>1. job' = [job EXCEPT ![j].state = "kept", ![j].left = 0]
    BY <1>4 DEF Throw
  <2>2. Stands(j, "kept", 0, job[j].run)
    BY <2>1, AttemptBounds, JobUpdates, JobFields
  <2>3. job[j].left > 0 => job[j].left = 1
    BY <1>2, <1>4
  <2>4. job[j].left > 0 => lost'
    BY <2>3 DEF Throw
  <2> QED
    BY <1>1, <2>2, <2>4 DEF Thrown, Stands, Throw
<1> QED
  BY <1>3, <1>4

\* Ending a job, or failing in its withJobRun.
Finished(j) ==
  \/ job[j].run = "NONE" /\ Thrown(j)
  \/ /\ job[j].run # "NONE" /\ Stands(j, "kept", 0, "SUCCEEDED")
     /\ Others(j) /\ call'[j] = Idle /\ lost' = lost

LEMMA Ending ==
  ASSUME JobsOK, CallsOK, lost \in BOOLEAN, NEW j \in Jobs, End(j)
  PROVE  Finished(j) /\ lost' \in BOOLEAN
<1>1. CASE job[j].run = "NONE"
  BY <1>1, Throwing DEF End, Finished
<1>2. CASE job[j].run # "NONE"
  <2>1. /\ job' = [job EXCEPT ![j].state = "kept", ![j].left = 0, ![j].run = "SUCCEEDED"]
        /\ Return(j) /\ UNCHANGED lost
    BY <1>2 DEF End
  <2>2. Stands(j, "kept", 0, "SUCCEEDED")
    BY <2>1, AttemptBounds, JobUpdates
  <2> QED
    BY <1>2, <2>1, <2>2, Returning DEF Finished, Callers
<1> QED
  BY <1>1, <1>2

Budgets == {"requests", "decisions", "faults"}

LEMMA Spending ==
  ASSUME CountTypes, NEW b \in Budgets, Spend(b)
  PROVE  /\ left' \in [requests : 0..MaxRequests, decisions : 0..MaxDecisions,
                      faults : 0..MaxFaults, events : 0..MaxEvents]
         /\ left'.faults = IF b = "faults" THEN left.faults - 1 ELSE left.faults
         /\ left'.decisions = IF b = "decisions" THEN left.decisions - 1 ELSE left.decisions
         /\ left'.requests = IF b = "requests" THEN left.requests - 1 ELSE left.requests
         /\ left[b] > 0
<1> DEFINE L(r, d, f, e) == [requests |-> r, decisions |-> d, faults |-> f, events |-> e]
           R == left.requests  D == left.decisions  F == left.faults  E == left.events
<1>1. /\ R \in 0..MaxRequests /\ D \in 0..MaxDecisions /\ F \in 0..MaxFaults /\ E \in 0..MaxEvents
      /\ left = L(R, D, F, E)
  BY DEF CountTypes
<1>2. E > 0 /\ left[b] > 0
  BY DEF Spend
<1>3. CASE b = "requests"
  <2>1. left' = L(R - 1, D, F, E - 1)
    BY <1>3, <1>1, Zenon DEF Spend, CountTypes
  <2> QED
    BY <2>1, <1>1, <1>2, <1>3, ClipAssumption
<1>4. CASE b = "decisions"
  <2>1. left' = L(R, D - 1, F, E - 1)
    BY <1>4, <1>1, Zenon DEF Spend, CountTypes
  <2> QED
    BY <2>1, <1>1, <1>2, <1>4, ClipAssumption
<1>5. CASE b = "faults"
  <2>1. left' = L(R, D, F - 1, E - 1)
    BY <1>5, <1>1, Zenon DEF Spend, CountTypes
  <2> QED
    BY <2>1, <1>1, <1>2, <1>5, ClipAssumption
<1> QED
  BY <1>3, <1>4, <1>5 DEF Budgets

-----------------------------------------------------------------------------
(* What a step of one caller and one job leaves alone.                      *)

LEMMA Parts ==
  ASSUME WorkTypes
  PROVE  JobsOK /\ CallsOK
BY DEF WorkTypes, JobsOK, CallsOK, Callers

LEMMA Untouched ==
  ASSUME WorkTypes
  PROVE  /\ call' = call => \A p \in Callers : Others(p)
         /\ job' = job => \A j \in Jobs : OtherJobs(j)
BY DEF WorkTypes, Others, OtherJobs, Callers

LEMMA WorkKept ==
  ASSUME WorkTypes, NEW p \in Callers, NEW k \in Jobs, Others(p), OtherJobs(k),
         call'[p].pc \in Pcs(p[1]),
         p \in Jobs => (call'[p].pc = "idle" <=> job'[p].state # "active"),
         k # p => (job'[k].state = "active" <=> job[k].state = "active")
  PROVE  WorkTypes'
<1>1. job' \in [Jobs -> Job] /\ call' \in [Jobs \cup Requests -> Call]
  BY DEF Others, OtherJobs, Callers
<1>2. ASSUME NEW q \in Jobs \cup Requests
      PROVE  call'[q].pc \in Pcs(q[1])
  BY <1>2 DEF WorkTypes, Others, Callers
<1>3. ASSUME NEW j \in Jobs
      PROVE  call'[j].pc = "idle" <=> job'[j].state # "active"
  <2>1. CASE j = p
    BY <2>1
  <2>2. CASE j # p
    <3>1. call'[j] = call[j]
      BY <2>2 DEF Others, Callers
    <3>2. job'[j].state = "active" <=> job[j].state = "active"
      BY <2>2 DEF OtherJobs
    <3> QED
      BY <3>1, <3>2 DEF WorkTypes
  <2> QED
    BY <2>1, <2>2
<1> QED
  BY <1>1, <1>2, <1>3 DEF WorkTypes

LEMMA JobKept ==
  ASSUME JobInv, NEW j \in Jobs, OtherJobs(j), lost => lost', Attended(j)'
  PROVE  JobInv'
<1>1. ASSUME NEW k \in Jobs \ {j}
      PROVE  Attended(k)'
  BY <1>1 DEF JobInv, Attended, OtherJobs
<1> QED
  BY <1>1 DEF JobInv

LEMMA JobEffects ==
  ASSUME WorkTypes, JobInv, NEW j \in Jobs, lost => lost'
  PROVE  /\ job' = job => JobInv'
         /\ Enqueued(j) => JobInv'
         /\ Reran(j) => JobInv'
         /\ Thrown(j) /\ job[j].state = "active" => JobInv'
         /\ Finished(j) /\ job[j].state = "active" => JobInv'
         /\ Stands(j, "active", job[j].left, "OPEN") /\ job[j].state = "queued" => JobInv'
         /\ Stands(j, "kept", 0, job[j].run) => JobInv'
         /\ Stands(j, "queued", job[j].left, job[j].run) /\ job[j].state = "active" => JobInv'
<1>1. job' = job => JobInv'
  BY DEF JobInv, Attended
<1>2. Attended(j) /\ Attempts > 0
  BY AttemptBounds DEF JobInv
<1>3. Enqueued(j) => JobInv'
  <2>1. Stands(j, "queued", Attempts, job[j].run) /\ job[j].state \in {"absent", "kept"} =>
          OtherJobs(j) /\ Attended(j)'
    BY <1>2 DEF Attended, Stands
  <2> QED
    BY <2>1, <1>1, JobKept DEF Enqueued
<1>4. Reran(j) => JobInv'
  <2>1. Reran(j) => OtherJobs(j) /\ Attended(j)'
    BY <1>2 DEF Attended, Stands, Reran
  <2> QED
    BY <2>1, JobKept
<1>5. Thrown(j) /\ job[j].state = "active" => JobInv'
  <2>1. Thrown(j) /\ job[j].state = "active" => OtherJobs(j) /\ Attended(j)'
    BY <1>2 DEF Attended, Thrown
  <2> QED
    BY <2>1, JobKept
<1>6. Finished(j) /\ job[j].state = "active" => JobInv'
  <2>1. Stands(j, "kept", 0, "SUCCEEDED") => OtherJobs(j) /\ Attended(j)'
    BY DEF Attended, Stands
  <2> QED
    BY <2>1, <1>5, JobKept DEF Finished
<1>7. Stands(j, "active", job[j].left, "OPEN") /\ job[j].state = "queued" => JobInv'
  <2>1. Stands(j, "active", job[j].left, "OPEN") /\ job[j].state = "queued" =>
          OtherJobs(j) /\ Attended(j)'
    BY <1>2 DEF Attended, Stands
  <2> QED
    BY <2>1, JobKept
<1>8. Stands(j, "kept", 0, job[j].run) => JobInv'
  <2>1. Stands(j, "kept", 0, job[j].run) => OtherJobs(j) /\ Attended(j)'
    BY <1>2 DEF Attended, Stands
  <2> QED
    BY <2>1, JobKept
<1>9. Stands(j, "queued", job[j].left, job[j].run) /\ job[j].state = "active" => JobInv'
  <2>1. Stands(j, "queued", job[j].left, job[j].run) /\ job[j].state = "active" =>
          OtherJobs(j) /\ Attended(j)'
    BY <1>2 DEF Attended, Stands
  <2> QED
    BY <2>1, JobKept
<1> QED
  BY <1>1, <1>3, <1>4, <1>5, <1>6, <1>7, <1>8, <1>9

-----------------------------------------------------------------------------
(* The renders owed.                                                        *)

LEMMA OwedIsFinite == IsFiniteSet(Owed) /\ Cardinality(Owed) \in Nat
<1>1. IsFiniteSet(0..MaxIds)
  BY FS_Interval, ClipAssumption
<1>2. IsFiniteSet({"first", "again", "approved"})
  <2>1. IsFiniteSet({"first"}) /\ IsFiniteSet({"again"}) /\ IsFiniteSet({"approved"})
    BY FS_Singleton
  <2>2. {"first", "again", "approved"} = ({"first"} \cup {"again"}) \cup {"approved"}
    OBVIOUS
  <2> QED
    BY <2>1, <2>2, FS_Union
<1>3. IsFiniteSet((0..MaxIds) \X {"first", "again", "approved"})
  BY <1>1, <1>2, FS_Product
<1>4. Owed \subseteq (0..MaxIds) \X {"first", "again", "approved"}
  BY ClipAssumption DEF Owed
<1> QED
  BY <1>3, <1>4, FS_Subset, FS_CardinalityType

LEMMA OwedStaysFinite == (IsFiniteSet(Owed) /\ Cardinality(Owed) \in Nat)'
BY OwedIsFinite, PTL

LEMMA Counting ==
  ASSUME NEW S, IsFiniteSet(S), NEW T, NEW x, NEW y
  PROVE  /\ T \subseteq S => Cardinality(T) <= Cardinality(S)
         /\ T \subseteq S \cup {x} => Cardinality(T) <= Cardinality(S) + 1
         /\ x \in S /\ T \subseteq S \ {x} => Cardinality(T) <= Cardinality(S) - 1
         /\ x \in S /\ T \subseteq (S \ {x}) \cup {y} => Cardinality(T) <= Cardinality(S)
<1>1. Cardinality(S) \in Nat
  BY FS_CardinalityType
<1>2. T \subseteq S => Cardinality(T) <= Cardinality(S)
  BY FS_Subset
<1>3. /\ IsFiniteSet(S \cup {x})
      /\ Cardinality(S \cup {x}) = IF x \in S THEN Cardinality(S) ELSE Cardinality(S) + 1
  BY FS_AddElement
<1>4. T \subseteq S \cup {x} => Cardinality(T) <= Cardinality(S) + 1
  <2>1. T \subseteq S \cup {x} => Cardinality(T) <= Cardinality(S \cup {x})
    BY <1>3, FS_Subset
  <2>2. Cardinality(S \cup {x}) <= Cardinality(S) + 1
    BY <1>1, <1>3
  <2>3. Cardinality(S \cup {x}) \in Nat
    BY <1>3, FS_CardinalityType
  <2>4. T \subseteq S \cup {x} => Cardinality(T) \in Nat
    BY <1>3, FS_Subset, FS_CardinalityType
  <2> QED
    BY <2>1, <2>2, <2>3, <2>4, <1>1
<1>5. /\ IsFiniteSet(S \ {x})
      /\ Cardinality(S \ {x}) = IF x \in S THEN Cardinality(S) - 1 ELSE Cardinality(S)
  BY FS_RemoveElement
<1>6. x \in S /\ T \subseteq S \ {x} => Cardinality(T) <= Cardinality(S) - 1
  <2>1. T \subseteq S \ {x} => Cardinality(T) <= Cardinality(S \ {x})
    BY <1>5, FS_Subset
  <2> QED
    BY <2>1, <1>5
<1>7. x \in S /\ T \subseteq (S \ {x}) \cup {y} => Cardinality(T) <= Cardinality(S)
  <2> SUFFICES ASSUME x \in S, T \subseteq (S \ {x}) \cup {y}
               PROVE  Cardinality(T) <= Cardinality(S)
    OBVIOUS
  <2>1. /\ IsFiniteSet((S \ {x}) \cup {y})
        /\ Cardinality((S \ {x}) \cup {y}) =
             IF y \in S \ {x} THEN Cardinality(S \ {x}) ELSE Cardinality(S \ {x}) + 1
    BY <1>5, FS_AddElement
  <2>2. Cardinality(T) <= Cardinality((S \ {x}) \cup {y})
    BY <2>1, FS_Subset
  <2>3. /\ Cardinality(S \ {x}) = Cardinality(S) - 1
        /\ Cardinality((S \ {x}) \cup {y}) \in Nat /\ Cardinality(T) \in Nat
    BY <1>5, <2>1, FS_Subset, FS_CardinalityType
  <2> QED
    BY <2>1, <2>2, <2>3, <1>1
<1> QED
  BY <1>2, <1>4, <1>6, <1>7

\* What may be owed afterwards: Y is no longer, X is new.
LEMMA OwedMoves ==
  ASSUME NEW X, NEW Y,
         \A i \in Ids : First(i)' => (First(i) /\ <<i, "first">> \notin Y) \/ <<i, "first">> \in X,
         \A i \in Ids : Again(i)' => (Again(i) /\ <<i, "again">> \notin Y) \/ <<i, "again">> \in X,
         At(Approve, "enqueue")' =>
           (At(Approve, "enqueue") /\ <<0, "approved">> \notin Y) \/ <<0, "approved">> \in X
  PROVE  Owed' \subseteq (Owed \ Y) \cup X
<1> SUFFICES ASSUME NEW o \in Owed'
             PROVE  o \in (Owed \ Y) \cup X
  OBVIOUS
<1>1. CASE \E i \in Ids : o = <<i, "first">> /\ First(i)'
  BY <1>1 DEF Owed, Ids
<1>2. CASE \E i \in Ids : o = <<i, "again">> /\ Again(i)'
  BY <1>2 DEF Owed, Ids
<1>3. CASE o = <<0, "approved">> /\ At(Approve, "enqueue")'
  BY <1>3 DEF Owed
<1> QED
  BY <1>1, <1>2, <1>3 DEF Owed, Ids

\* The four ways the account stays covered.
LEMMA Account ==
  ASSUME CountTypes, CountTypes', PaidInv, approvals' = approvals, retries' = retries,
         left'.faults <= left.faults, left'.decisions <= left.decisions,
         left'.requests <= left.requests,
         At(Approve, "commit")' =>
           At(Approve, "commit") \/ left'.decisions = left.decisions - 1
  PROVE  /\ Owed' \subseteq Owed /\ renders' = renders => PaidInv'
         /\ \A x : Owed' \subseteq Owed \cup {x} /\ renders' = renders
                     /\ left'.faults = left.faults - 1 => PaidInv'
         /\ \A x : x \in Owed /\ Owed' \subseteq Owed \ {x} /\ renders' = renders + 1 => PaidInv'
         /\ \A x, y : x \in Owed /\ Owed' \subseteq (Owed \ {x}) \cup {y} /\ renders' = renders =>
              PaidInv'
<1> DEFINE n == Cardinality(Owed)
           m == Cardinality(Owed')
<1>1. /\ left.faults \in 0..MaxFaults /\ left'.faults \in 0..MaxFaults
      /\ left.decisions \in Nat /\ left'.decisions \in Nat
      /\ left.requests \in Nat /\ left'.requests \in Nat
      /\ approvals \in Nat /\ retries \in Nat /\ renders \in Nat /\ renders' \in Nat
  BY ClipAssumption DEF CountTypes, MaxRenders
<1>2. n \in Nat /\ m \in Nat /\ IsFiniteSet(Owed)
  BY OwedIsFinite, OwedStaysFinite
<1>3. /\ renders + n <= approvals + retries + (MaxFaults - left.faults)
      /\ approvals + left.decisions <= MaxDecisions
      /\ retries + left.requests <= MaxRequests
      /\ At(Approve, "commit") => approvals + left.decisions < MaxDecisions
  BY DEF PaidInv
<1>4. /\ approvals' + left'.decisions <= MaxDecisions
      /\ retries' + left'.requests <= MaxRequests
      /\ At(Approve, "commit")' => approvals' + left'.decisions < MaxDecisions
  BY <1>1, <1>3, ClipAssumption
<1>5. renders' + m <= approvals + retries + (MaxFaults - left'.faults) => PaidInv'
  BY <1>4 DEF PaidInv
<1> HIDE DEF n, m
<1>6. Owed' \subseteq Owed /\ renders' = renders => PaidInv'
  <2>1. Owed' \subseteq Owed => m <= n
    BY <1>2, Counting DEF n, m
  <2> QED
    BY <2>1, <1>1, <1>2, <1>3, <1>5, ClipAssumption
<1>7. ASSUME NEW x, Owed' \subseteq Owed \cup {x}, renders' = renders,
             left'.faults = left.faults - 1
      PROVE  PaidInv'
  <2>1. m <= n + 1
    BY <1>7, <1>2, Counting DEF n, m
  <2> QED
    BY <2>1, <1>7, <1>1, <1>2, <1>3, <1>5, ClipAssumption
<1>8. ASSUME NEW x \in Owed, Owed' \subseteq Owed \ {x}, renders' = renders + 1
      PROVE  PaidInv'
  <2>1. m <= n - 1
    BY <1>8, <1>2, Counting DEF n, m
  <2> QED
    BY <2>1, <1>8, <1>1, <1>2, <1>3, <1>5, ClipAssumption
<1>9. ASSUME NEW x \in Owed, NEW y, Owed' \subseteq (Owed \ {x}) \cup {y}, renders' = renders
      PROVE  PaidInv'
  <2>1. m <= n
    BY <1>9, <1>2, Counting DEF n, m
  <2> QED
    BY <2>1, <1>9, <1>1, <1>2, <1>3, <1>5, ClipAssumption
<1> QED
  BY <1>6, <1>7, <1>8, <1>9

LEMMA OwedRest ==
  ASSUME NEW p \in Callers, NEW k \in Jobs, Others(p), OtherJobs(k), p # Approve,
         \A i \in Ids : Render(i) # p /\ Render(i) # k
  PROVE  Owed' \subseteq Owed
<1>1. ASSUME NEW i \in Ids
      PROVE  (First(i)' => First(i)) /\ (Again(i)' => Again(i))
  BY <1>1, Kinds DEF First, Again, Waiting, AtOne, Others, OtherJobs, Callers
<1>2. At(Approve, "enqueue")' => At(Approve, "enqueue")
  BY Kinds DEF At, Others, Callers
<1>3. Owed' \subseteq (Owed \ {}) \cup {}
  BY <1>1, <1>2, OwedMoves
<1> QED
  BY <1>3

LEMMA OwedByRender ==
  ASSUME NEW i \in Ids, Others(Render(i)), OtherJobs(Render(i)),
         NEW X, NEW Y \in SUBSET {<<i, "first">>, <<i, "again">>},
         First(i)' => (First(i) /\ <<i, "first">> \notin Y) \/ <<i, "first">> \in X,
         Again(i)' => (Again(i) /\ <<i, "again">> \notin Y) \/ <<i, "again">> \in X
  PROVE  Owed' \subseteq (Owed \ Y) \cup X
<1>1. ASSUME NEW k \in Ids \ {i}
      PROVE  /\ (First(k)' => First(k)) /\ (Again(k)' => Again(k))
             /\ <<k, "first">> \notin Y /\ <<k, "again">> \notin Y
  BY <1>1, Kinds, Distinct DEF First, Again, Waiting, AtOne, Others, OtherJobs, Callers
<1>2. At(Approve, "enqueue")' => At(Approve, "enqueue")
  BY Kinds, Distinct DEF At, Others, Callers
<1>3. <<0, "approved">> \notin Y
  OBVIOUS
<1> QED
  BY <1>1, <1>2, <1>3, OwedMoves

-----------------------------------------------------------------------------
(* What each part of the invariant needs of a step.                         *)

Early == {Ingest, Transcribe, Generate}

LEMMA EarlyIsEarly ==
  /\ Early \subseteq Jobs /\ Early \subseteq Callers /\ Jobs \subseteq Callers
  /\ \A p \in Early : /\ p # Approve
                      /\ \A i \in Ids : Render(i) # p /\ Compliance(i) # p
BY Kinds, Distinct DEF Early, Callers

LEMMA RefKept ==
  ASSUME RefInv, NEW p \in Callers, NEW k \in Jobs, Others(p), OtherJobs(k),
         clip'.of = clip.of, clip'.published = clip.published,
         made'.clips = made.clips, made.clips \in Nat,
         p = Approve => (At(Approve, "idle")' \/ call'[Approve].id # 0),
         \A i \in Ids : p = Render(i) => RenderInv(i)',
         \A c \in Ids : k = Compliance(c) =>
           c <= made.clips \/ job[k].state # "absent" \/ job'[k].state = "absent"
  PROVE  RefInv'
<1>1. (~ At(Approve, "idle") => call[Approve].id # 0)'
  BY Kinds DEF RefInv, At, Others, Callers
<1>2. ASSUME NEW i \in Ids
      PROVE  RenderInv(i)'
  <2>1. CASE p # Render(i)
    <3>1. call'[Render(i)] = call[Render(i)]
      BY <2>1, Kinds DEF Others, Callers
    <3> QED
      BY <3>1 DEF RefInv, RenderInv, AtOne, At, Ids
  <2> QED
    BY <2>1
<1>3. ASSUME NEW c \in Ids, c > made'.clips
      PROVE  job'[Compliance(c)].state = "absent"
  <2>1. job[Compliance(c)].state = "absent" /\ ~ c <= made.clips
    BY <1>3 DEF RefInv, Ids
  <2> QED
    BY <2>1, <1>3, Kinds DEF OtherJobs
<1> QED
  BY <1>1, <1>2, <1>3 DEF RefInv, Ids

LEMMA EvaluationKept ==
  ASSUME EvaluationInv, ClipInv, RowTypes, NEW p \in Callers, NEW k \in Jobs,
         Others(p), OtherJobs(k), clip' = clip, lost => lost',
         \A c \in Ids : c = clip.id /\ ~ clip.published /\ Found(c)
                          /\ (p = Compliance(c) \/ k = Compliance(c)) => Found(c)',
         \A c, i \in Ids : c = clip.id /\ i = clip.of /\ i = candidate.id /\ ~ clip.published
                             /\ Evaluated(c, i)
                             /\ (p = Render(i) \/ k \in {Render(i), Compliance(c)}) =>
           Evaluated(c, i)' \/ lost'
  PROVE  EvaluationInv'
<1> SUFFICES ASSUME clip.id # 0, ~ clip.published
             PROVE  Found(clip.id)' /\ (~ lost' => Evaluated(clip.id, clip.of)')
  BY DEF EvaluationInv
<1>1. clip.id \in Ids /\ clip.of \in Ids /\ clip.of = candidate.id
  BY ClipAssumption DEF ClipInv, RowTypes, Clip, Candidate, Ids
<1>2. Found(clip.id) /\ (~ lost => Evaluated(clip.id, clip.of))
  BY DEF EvaluationInv
<1>3. PICK c \in Ids, i \in Ids : c = clip.id /\ i = clip.of /\ i = candidate.id
  BY <1>1
<1>4. Found(c)'
  <2>1. CASE p # Compliance(c) /\ k # Compliance(c)
    <3>1. call'[Compliance(c)] = call[Compliance(c)] /\ job'[Compliance(c)] = job[Compliance(c)]
      BY <2>1, <1>3, Kinds DEF Others, OtherJobs, Callers
    <3> QED
      BY <3>1, <1>2, <1>3 DEF Found, At
  <2> QED
    BY <2>1, <1>2, <1>3
<1>5. Evaluated(c, i) => Evaluated(c, i)' \/ lost'
  <2>1. CASE p # Render(i) /\ k # Render(i) /\ k # Compliance(c)
    <3>1. /\ call'[Render(i)] = call[Render(i)] /\ job'[Render(i)] = job[Render(i)]
          /\ job'[Compliance(c)] = job[Compliance(c)]
      BY <2>1, <1>3, Kinds DEF Others, OtherJobs, Callers
    <3> QED
      BY <3>1 DEF Evaluated, AtOne, Waiting
  <2> QED
    BY <2>1, <1>3
<1>6. ~ lost' => Evaluated(c, i)'
  BY <1>2, <1>3, <1>5
<1>7. Found(clip.id)'
  BY <1>3, <1>4 DEF Found, At
<1>8. ~ lost' => Evaluated(clip.id, clip.of)'
  BY <1>3, <1>6 DEF Evaluated, AtOne, Waiting
<1> QED
  BY <1>7, <1>8

\* What a step leaves alone beside calls and jobs.
RowsKept ==
  /\ clip' = clip /\ made' = made /\ candidate'.id = candidate.id
  /\ asset' = asset /\ resource' = resource
CountsKept ==
  /\ approvals' = approvals /\ retries' = retries /\ renders' = renders /\ (lost => lost')
  /\ left'.faults <= left.faults /\ left'.decisions <= left.decisions
  /\ left'.requests <= left.requests

LEMMA EarlyStep ==
  ASSUME TypeOK, IInv, CountTypes', NEW p \in Early, NEW k \in Early, Others(p), OtherJobs(k),
         clip' = clip, made'.clips = made.clips, candidate'.id = candidate.id \/ clip.id = 0,
         CountsKept
  PROVE  ClipInv' /\ RefInv' /\ PaidInv' /\ EvaluationInv'
<1>1. ClipInv'
  BY DEF IInv, ClipInv, NoClip
<1>2. p \in Callers /\ k \in Jobs /\ p # Approve
  BY EarlyIsEarly
<1>3. \A i \in Ids : /\ p # Render(i) /\ p # Compliance(i)
                     /\ k # Render(i) /\ k # Compliance(i)
  BY EarlyIsEarly
<1>4. RefInv'
  <2>1. made.clips \in Nat
    BY ClipAssumption DEF TypeOK, RowTypes
  <2> QED
    BY <2>1, <1>2, <1>3, RefKept DEF IInv
<1>5. PaidInv'
  <2>1. Owed' \subseteq Owed
    BY <1>2, <1>3, OwedRest
  <2>2. At(Approve, "commit")' => At(Approve, "commit")
    BY <1>2, Kinds DEF At, Others, Callers
  <2> QED
    BY <2>1, <2>2, Account DEF IInv, TypeOK, CountsKept
<1>6. EvaluationInv'
  BY <1>2, <1>3, EvaluationKept DEF IInv, TypeOK, CountsKept
<1> QED
  BY <1>1, <1>4, <1>5, <1>6

LEMMA LateStep ==
  ASSUME CoverInv, NEW p \in Callers \ Early, NEW k \in Jobs \ Early, Others(p), OtherJobs(k),
         asset' = asset, resource' = resource, candidate'.id = candidate.id, lost => lost'
  PROVE  CoverInv'
<1>1. ASSUME NEW j \in Early
      PROVE  job'[j] = job[j] /\ call'[j] = call[j]
  BY <1>1, EarlyIsEarly DEF Others, OtherJobs
<1>2. Ingest \in Early /\ Transcribe \in Early /\ Generate \in Early
  BY DEF Early
<1> QED
  BY <1>1, <1>2 DEF CoverInv, LinkCovered, AssetCovered, TranscriptCovered, RangeCovered,
                    Waiting, AtOne, At

LEMMA RenderStep ==
  ASSUME TypeOK, IInv, CountTypes', RowsKept, CountsKept, NEW i \in Ids,
         Others(Render(i)), OtherJobs(Render(i)), RenderInv(i)',
         Again(i)' => Again(i),
         \/ First(i)' => First(i)
         \/ left'.faults = left.faults - 1
         \/ Again(i) /\ ~ Again(i)',
         \A c \in Ids : i = candidate.id /\ Evaluated(c, i) => Evaluated(c, i)' \/ lost'
  PROVE  ClipInv' /\ RefInv' /\ PaidInv' /\ CoverInv' /\ EvaluationInv'
<1>1. ClipInv'
  BY DEF IInv, ClipInv, NoClip, RowsKept
<1>2. /\ Render(i) \in Callers /\ Render(i) \in Jobs /\ Render(i) # Approve
      /\ Render(i) \notin Early
      /\ \A c \in Ids : Render(i) # Compliance(c) /\ (Render(c) = Render(i) => c = i)
  BY Kinds, Distinct DEF Early, Callers
<1>3. RefInv'
  <2>1. made.clips \in Nat
    BY ClipAssumption DEF TypeOK, RowTypes
  <2> QED
    BY <1>2, <2>1, RefKept DEF IInv, RowsKept
<1>4. PaidInv'
  <2>1. At(Approve, "commit")' => At(Approve, "commit")
    BY <1>2, Kinds DEF At, Others, Callers
  <2>2. CASE First(i)' => First(i)
    <3> DEFINE Y == {}
    <3>0. Y \in SUBSET {<<i, "first">>, <<i, "again">>} /\ \A o : o \notin Y
      OBVIOUS
    <3> HIDE DEF Y
    <3>1. Owed' \subseteq (Owed \ Y) \cup Y
      BY <2>2, <3>0, OwedByRender
    <3> QED
      BY <3>0, <3>1, <2>1, Account DEF IInv, TypeOK, CountsKept
  <2>3. CASE left'.faults = left.faults - 1
    <3>1. Owed' \subseteq (Owed \ {}) \cup {<<i, "first">>}
      BY OwedByRender
    <3>2. Owed' \subseteq Owed \cup {<<i, "first">>}
      BY <3>1
    <3> QED
      BY <3>2, <2>1, <2>3, Account DEF IInv, TypeOK, CountsKept
  <2>4. CASE Again(i) /\ ~ Again(i)'
    <3>1. Owed' \subseteq (Owed \ {<<i, "again">>}) \cup {<<i, "first">>}
      BY <2>4, OwedByRender
    <3>2. <<i, "again">> \in Owed
      BY <2>4 DEF Owed, Ids
    <3> QED
      BY <3>1, <3>2, <2>1, Account DEF IInv, TypeOK, CountsKept
  <2> QED
    BY <2>2, <2>3, <2>4
<1>5. CoverInv'
  BY <1>2, LateStep DEF IInv, RowsKept, CountsKept
<1>6. EvaluationInv'
  BY <1>2, EvaluationKept DEF IInv, TypeOK, RowsKept, CountsKept
<1> QED
  BY <1>1, <1>3, <1>4, <1>5, <1>6

LEMMA EvaluationStep ==
  ASSUME TypeOK, IInv, CountTypes', RowsKept, CountsKept, NEW c \in Ids,
         Others(Compliance(c)), OtherJobs(Compliance(c)),
         job[Compliance(c)].state # "absent" \/ c <= made.clips,
         job'[Compliance(c)].state # "absent",
         c = clip.id /\ ~ clip.published /\ Found(c) => Found(c)'
  PROVE  ClipInv' /\ RefInv' /\ PaidInv' /\ CoverInv' /\ EvaluationInv'
<1>1. ClipInv'
  BY DEF IInv, ClipInv, NoClip, RowsKept
<1>2. /\ Compliance(c) \in Callers /\ Compliance(c) \in Jobs /\ Compliance(c) # Approve
      /\ Compliance(c) \notin Early
      /\ \A i \in Ids : Compliance(c) # Render(i) /\ (Compliance(c) = Compliance(i) => c = i)
  BY Kinds, Distinct DEF Early, Callers
<1>3. RefInv'
  <2>1. made.clips \in Nat
    BY ClipAssumption DEF TypeOK, RowTypes
  <2> QED
    BY <1>2, <2>1, RefKept DEF IInv, RowsKept
<1>4. PaidInv'
  <2>1. At(Approve, "commit")' => At(Approve, "commit")
    BY <1>2, Kinds DEF At, Others, Callers
  <2>2. Owed' \subseteq Owed
    BY <1>2, OwedRest
  <2> QED
    BY <2>1, <2>2, Account DEF IInv, TypeOK, CountsKept
<1>5. CoverInv'
  BY <1>2, LateStep DEF IInv, RowsKept, CountsKept
<1>6. EvaluationInv'
  <2>1. \A d, i \in Ids : Compliance(c) \in {Render(i), Compliance(d)} => Evaluated(d, i)'
    BY <1>2 DEF Evaluated
  <2> QED
    BY <1>2, <2>1, EvaluationKept DEF IInv, TypeOK, RowsKept, CountsKept
<1> QED
  BY <1>1, <1>3, <1>4, <1>5, <1>6

\* A job is early, a render or an evaluation.
LEMMA JobCases ==
  \A j \in Jobs : j \in Early \/ \E i \in Ids : j = Render(i) \/ j = Compliance(i)
BY Kinds DEF Early

\* For a step of a job that leaves every row alone, what is left to show by its kind.
LEMMA JobStep ==
  ASSUME TypeOK, IInv, RowTypes', WorkTypes', CountTypes', JobInv', RowsKept, CountsKept,
         NEW j \in Jobs, Others(j), OtherJobs(j),
         job[j].state # "absent", job'[j].state # "absent",
         j \in Early => CoverInv',
         \A i \in Ids : j = Render(i) =>
           /\ RenderInv(i)' /\ (Again(i)' => Again(i))
           /\ \/ First(i)' => First(i)
              \/ left'.faults = left.faults - 1
              \/ Again(i) /\ ~ Again(i)'
           /\ \A c \in Ids : i = candidate.id /\ Evaluated(c, i) => Evaluated(c, i)' \/ lost',
         \A c \in Ids : j = Compliance(c) /\ Found(c) => Found(c)'
  PROVE  TypeOK' /\ IInv'
<1>1. CASE j \in Early
  <2>1. ClipInv' /\ RefInv' /\ PaidInv' /\ EvaluationInv'
    BY <1>1, EarlyStep DEF RowsKept, CountsKept
  <2> QED
    BY <1>1, <2>1 DEF TypeOK, IInv
<1>2. ASSUME NEW i \in Ids, j = Render(i)
      PROVE  TypeOK' /\ IInv'
  <2>1. ClipInv' /\ RefInv' /\ PaidInv' /\ CoverInv' /\ EvaluationInv'
    BY <1>2, RenderStep
  <2> QED
    BY <2>1 DEF TypeOK, IInv
<1>3. ASSUME NEW c \in Ids, j = Compliance(c)
      PROVE  TypeOK' /\ IInv'
  <2>1. ClipInv' /\ RefInv' /\ PaidInv' /\ CoverInv' /\ EvaluationInv'
    BY <1>3, EvaluationStep
  <2> QED
    BY <2>1 DEF TypeOK, IInv
<1> QED
  BY <1>1, <1>2, <1>3, JobCases

-----------------------------------------------------------------------------
(* Workers.                                                                 *)

\* A step that leaves the counters alone, but for what is lost.
LEMMA CountsSame ==
  ASSUME CountTypes, left' = left, approvals' = approvals, retries' = retries,
         renders' = renders,
         lost' \in BOOLEAN, lost => lost'
  PROVE  CountTypes' /\ CountsKept
<1>1. left.faults \in Int /\ left.decisions \in Int /\ left.requests \in Int
  BY ClipAssumption DEF CountTypes
<1> QED
  BY <1>1 DEF CountTypes, CountsKept

LEMMA FaultSpent ==
  ASSUME CountTypes, Spend("faults"), approvals' = approvals, retries' = retries,
         renders' = renders,
         lost' \in BOOLEAN, lost => lost'
  PROVE  CountTypes' /\ CountsKept /\ left'.faults = left.faults - 1
<1>1. left.faults \in Int /\ left.decisions \in Int /\ left.requests \in Int
  BY ClipAssumption DEF CountTypes
<1> QED
  BY <1>1, Spending DEF CountTypes, CountsKept, Budgets

LEMMA TakeStep ==
  ASSUME TypeOK, IInv, NEW j \in Jobs, Take(j)
  PROVE  TypeOK' /\ IInv'
<1>1. JobsOK /\ CallsOK /\ j \in Callers
  BY Parts DEF TypeOK, Callers
<1>2. /\ job[j].state = "queued" /\ job[j].run # "SUCCEEDED"
      /\ Stands(j, "active", job[j].left, "OPEN")
  BY <1>1, JobUpdates, JobFields DEF Take
<1>3. Goes(j, "start")
  BY <1>1, Stepping DEF Take, Steps
<1>4. RowTypes' /\ RowsKept
  BY DEF Take, rows, TypeOK, RowTypes, RowsKept
<1>5. CountTypes' /\ CountsKept
  BY CountsSame DEF Take, ghosts, TypeOK, CountTypes
<1>6. WorkTypes'
  BY <1>1, <1>2, <1>3, WorkKept, CommonPcs DEF TypeOK, Goes, Stands
<1>7. JobInv'
  BY <1>2, JobEffects DEF TypeOK, IInv, CountsKept, Take, ghosts
<1>8. j \in Early => CoverInv'
  BY <1>2, <1>3, <1>4, <1>5, Kinds, Distinct
     DEF IInv, CoverInv, LinkCovered, AssetCovered, TranscriptCovered, RangeCovered, Waiting,
         AtOne, At, Early, RowsKept, CountsKept, Goes, Stands, Others, OtherJobs, Callers
<1>9. ASSUME NEW i \in Ids, j = Render(i)
      PROVE  /\ RenderInv(i)' /\ (Again(i)' => Again(i)) /\ (First(i)' => First(i))
             /\ \A c \in Ids : Evaluated(c, i) => Evaluated(c, i)' \/ lost'
  <2>1. \A c \in Ids : job'[Compliance(c)] = job[Compliance(c)]
    BY <1>2, <1>9, Kinds, Distinct DEF Stands, OtherJobs
  <2>2. Waiting(Render(i)) /\ AtOne(Render(i), {"start"})'
    BY <1>2, <1>3, <1>9 DEF Waiting, AtOne, Goes
  <2>3. call'[Render(i)].pc = "start" /\ job'[Render(i)].run = "OPEN"
    BY <1>2, <1>3, <1>9 DEF Stands, Goes
  <2> QED
    BY <2>1, <2>2, <2>3 DEF RenderInv, AtOne, At, Again, First, Evaluated
<1>10. \A c \in Ids : j = Compliance(c) /\ Found(c) => Found(c)'
  BY <1>2, <1>3 DEF Found, At, Stands, Goes
<1>11. job'[j].state # "absent" /\ Others(j) /\ OtherJobs(j)
  BY <1>2, <1>3 DEF Stands, Goes
<1> QED
  BY <1>2, <1>4, <1>5, <1>6, <1>7, <1>8, <1>9, <1>10, <1>11, JobStep

LEMMA SkipStep ==
  ASSUME TypeOK, IInv, NEW j \in Jobs, Skip(j)
  PROVE  TypeOK' /\ IInv'
<1>1. JobsOK /\ CallsOK /\ j \in Callers
  BY Parts DEF TypeOK, Callers
<1>2. /\ job[j].state = "queued" /\ job[j].run = "SUCCEEDED"
      /\ Stands(j, "kept", 0, job[j].run)
  BY <1>1, AttemptBounds, JobUpdates, JobFields DEF Skip
<1>3. Others(j) /\ call' = call /\ call[j].pc = "idle"
  BY <1>1, <1>2, Untouched DEF Skip, TypeOK, WorkTypes
<1>4. RowTypes' /\ RowsKept
  BY DEF Skip, rows, TypeOK, RowTypes, RowsKept
<1>5. CountTypes' /\ CountsKept
  BY CountsSame DEF Skip, ghosts, TypeOK, CountTypes
<1>6. WorkTypes'
  BY <1>1, <1>2, <1>3, WorkKept, CommonPcs DEF TypeOK, Stands
<1>7. JobInv'
  BY <1>2, JobEffects DEF TypeOK, IInv, Skip, ghosts
<1>8. j \in Early => CoverInv'
  BY <1>2, <1>3, <1>4, <1>5, Kinds, Distinct
     DEF IInv, CoverInv, LinkCovered, AssetCovered, TranscriptCovered, RangeCovered, Waiting,
         AtOne, At, Early, RowsKept, CountsKept, Stands, OtherJobs
<1>9. ASSUME NEW i \in Ids, j = Render(i)
      PROVE  /\ RenderInv(i)' /\ (Again(i)' => Again(i)) /\ (First(i)' => First(i))
             /\ \A c \in Ids : Evaluated(c, i) => Evaluated(c, i)' \/ lost'
  <2>1. \A c \in Ids : job'[Compliance(c)] = job[Compliance(c)]
    BY <1>2, <1>9, Kinds, Distinct DEF Stands, OtherJobs
  <2>2. /\ call'[Render(i)].pc = "idle" /\ call[Render(i)].pc = "idle"
        /\ ~ Waiting(Render(i)) /\ job'[Render(i)].state = "kept"
    BY <1>2, <1>3, <1>9 DEF Waiting, Stands
  <2> QED
    BY <2>1, <2>2 DEF RenderInv, AtOne, At, Again, First, Evaluated, Waiting
<1>10. \A c \in Ids : j = Compliance(c) /\ Found(c) => Found(c)'
  BY <1>2, <1>3, <1>4, <1>5 DEF Found, At, Stands, RowsKept, CountsKept
<1>11. job'[j].state # "absent" /\ OtherJobs(j)
  BY <1>2 DEF Stands
<1> QED
  BY <1>2, <1>3, <1>4, <1>5, <1>6, <1>7, <1>8, <1>9, <1>10, <1>11, JobStep

\* An active job that throws, after a fault or where a render is owed anyway.
LEMMA ThrownStep ==
  ASSUME TypeOK, IInv, RowTypes', CountTypes', RowsKept, CountsKept,
         NEW j \in Jobs, job[j].state = "active", Thrown(j),
         \A i \in Ids : j = Render(i) =>
           First(i) \/ Again(i) \/ left'.faults = left.faults - 1
  PROVE  TypeOK' /\ IInv'
<1>1. /\ Others(j) /\ OtherJobs(j) /\ call'[j].pc = "idle" /\ j \in Callers
      /\ job'[j].run = job[j].run /\ job'[j].state \in {"queued", "kept"}
      /\ job'[j].state = "kept" => lost'
  <2>1. job[j].left > 0
    BY DEF IInv, JobInv, Attended
  <2> QED
    BY <2>1, IdleCall DEF Thrown, Callers
<1>2. job[j].run # "SUCCEEDED"
  BY DEF IInv, JobInv, Attended
<1>3. WorkTypes'
  BY <1>1, WorkKept, CommonPcs DEF TypeOK
<1>4. JobInv'
  BY JobEffects DEF TypeOK, IInv, CountsKept
<1>5. j \in Early => CoverInv'
  BY <1>1, <1>2, Kinds, Distinct
     DEF IInv, CoverInv, LinkCovered, AssetCovered, TranscriptCovered, RangeCovered, Waiting,
         AtOne, At, Early, RowsKept, CountsKept, Others, OtherJobs, Callers
<1>6. ASSUME NEW i \in Ids, j = Render(i)
      PROVE  /\ RenderInv(i)' /\ ~ Again(i)'
             /\ \A c \in Ids : Evaluated(c, i)' \/ lost'
  BY <1>1, <1>2, <1>6 DEF RenderInv, AtOne, At, Again, Evaluated, Waiting
<1>7. \A c \in Ids : j = Compliance(c) /\ Found(c) => Found(c)'
  BY <1>1, <1>2 DEF Found, At, RowsKept
<1> QED
  BY <1>1, <1>3, <1>4, <1>5, <1>6, <1>7, JobStep

\* A caller is idle exactly while its job is not active.
LEMMA ActiveJob ==
  ASSUME TypeOK, NEW j \in Jobs, ~ At(j, "idle")
  PROVE  job[j].state = "active"
BY DEF TypeOK, WorkTypes, At

LEMMA EndStep ==
  ASSUME TypeOK, IInv, NEW j \in Jobs, End(j)
  PROVE  TypeOK' /\ IInv'
<1>1. JobsOK /\ CallsOK /\ j \in Callers /\ lost \in BOOLEAN
  BY Parts DEF TypeOK, Callers, CountTypes
<1>2. At(j, "end") /\ job[j].state = "active"
  BY ActiveJob DEF End, At
<1>3. Finished(j) /\ lost' \in BOOLEAN
  BY <1>1, Ending
<1>4. RowTypes' /\ RowsKept
  BY DEF End, rows, TypeOK, RowTypes, RowsKept
<1>5. CountTypes' /\ CountsKept
  BY <1>3, CountsSame DEF End, TypeOK, Finished, Thrown
<1>6. CASE job[j].run = "NONE"
  <2>1. \A i \in Ids : j = Render(i) => Again(i)
    BY <1>2, <1>6 DEF Again
  <2> QED
    BY <2>1, <1>2, <1>3, <1>4, <1>5, <1>6, ThrownStep DEF Finished
<1>7. CASE job[j].run # "NONE"
  <2>1. /\ Others(j) /\ OtherJobs(j) /\ call'[j].pc = "idle" /\ lost' = lost
        /\ job'[j].run = "SUCCEEDED" /\ job'[j].state = "kept"
    BY <1>3, <1>7, IdleCall DEF Finished, Stands
  <2>2. call[j].pc = "end"
    BY <1>2 DEF At
  <2>3. WorkTypes'
    BY <1>1, <2>1, WorkKept, CommonPcs DEF TypeOK
  <2>4. JobInv'
    BY <1>2, <1>3, JobEffects DEF TypeOK, IInv, CountsKept, Finished, Thrown
  <2>5. j \in Early => CoverInv'
    BY <2>1, <2>2, <1>2, <1>4, <1>5, Kinds, Distinct
       DEF IInv, CoverInv, LinkCovered, AssetCovered, TranscriptCovered, RangeCovered, Waiting,
           AtOne, At, Early, RowsKept, CountsKept, Others, OtherJobs, Callers
  <2>6. ASSUME NEW i \in Ids, j = Render(i)
        PROVE  /\ RenderInv(i)' /\ ~ Again(i)' /\ (First(i)' => First(i))
               /\ \A c \in Ids : Evaluated(c, i) => Evaluated(c, i)'
    <3>1. \A c \in Ids : job'[Compliance(c)] = job[Compliance(c)]
      BY <2>1, <2>6, Kinds, Distinct DEF OtherJobs
    <3> QED
      BY <3>1, <1>2, <2>1, <2>2, <2>6 DEF RenderInv, AtOne, At, Again, First, Evaluated, Waiting
  <2>7. \A c \in Ids : j = Compliance(c) /\ Found(c) => Found(c)'
    BY <2>1, <2>2, <1>4 DEF Found, At, RowsKept
  <2> QED
    BY <1>2, <1>4, <1>5, <2>1, <2>3, <2>4, <2>5, <2>6, <2>7, JobStep
<1> QED
  BY <1>6, <1>7

LEMMA CrashStep ==
  ASSUME TypeOK, IInv, NEW j \in Jobs, Crash(j)
  PROVE  TypeOK' /\ IInv'
<1>1. JobsOK /\ CallsOK /\ j \in Callers /\ lost \in BOOLEAN
  BY Parts DEF TypeOK, Callers, CountTypes
<1>2. job[j].state = "active" /\ job[j].run # "SUCCEEDED"
  BY ActiveJob DEF Crash, IInv, JobInv, Attended
<1>3. Others(j) /\ call'[j].pc = "idle"
  BY <1>1, Returning, IdleCall DEF Crash
<1>4. \/ Stands(j, "queued", job[j].left, job[j].run)
      \/ Stands(j, "kept", 0, job[j].run) /\ lost'
  <2>1. CASE job[j].stalled
    BY <1>1, <2>1, AttemptBounds, JobUpdates, JobFields DEF Crash
  <2>2. CASE ~ job[j].stalled
    BY <1>1, <2>2, JobUpdates, JobFields DEF Crash
  <2> QED
    BY <2>1, <2>2
<1>5. /\ OtherJobs(j) /\ job'[j].state \in {"queued", "kept"} /\ job'[j].run = job[j].run
      /\ job'[j].state = "kept" => lost'
  BY <1>4 DEF Stands
<1>6. RowTypes' /\ RowsKept
  BY DEF Crash, rows, TypeOK, RowTypes, RowsKept
<1>7. CountTypes' /\ CountsKept /\ left'.faults = left.faults - 1
  <2>1. lost' \in BOOLEAN /\ (lost => lost')
    BY <1>1, JobFields DEF Crash
  <2> QED
    BY <2>1, FaultSpent DEF Crash, TypeOK
<1>8. WorkTypes'
  BY <1>1, <1>3, <1>5, WorkKept, CommonPcs DEF TypeOK
<1>9. JobInv'
  BY <1>2, <1>4, <1>7, JobEffects DEF TypeOK, IInv, CountsKept
<1>10. j \in Early => CoverInv'
  BY <1>2, <1>3, <1>5, <1>6, <1>7, Kinds, Distinct
     DEF IInv, CoverInv, LinkCovered, AssetCovered, TranscriptCovered, RangeCovered, Waiting,
         AtOne, At, Early, RowsKept, CountsKept, Others, OtherJobs, Callers
<1>11. ASSUME NEW i \in Ids, j = Render(i)
       PROVE  RenderInv(i)' /\ ~ Again(i)' /\ \A c \in Ids : Evaluated(c, i)' \/ lost'
  BY <1>2, <1>3, <1>5, <1>11 DEF RenderInv, AtOne, At, Again, Evaluated, Waiting
<1>12. \A c \in Ids : j = Compliance(c) /\ Found(c) => Found(c)'
  BY <1>2, <1>3, <1>5, <1>6 DEF Found, At, RowsKept
<1>13. job[j].state # "absent" /\ job'[j].state # "absent"
  BY <1>2, <1>5
<1> QED
  BY <1>3, <1>5, <1>6, <1>7, <1>8, <1>9, <1>10, <1>11, <1>12, <1>13, JobStep

LEMMA FailsStep ==
  ASSUME TypeOK, IInv, NEW j \in Jobs, Fails(j)
  PROVE  TypeOK' /\ IInv'
<1>1. JobsOK /\ CallsOK /\ j \in Callers /\ lost \in BOOLEAN
  BY Parts DEF TypeOK, Callers, CountTypes
<1>2. job[j].state = "active"
  BY ActiveJob DEF Fails
<1>3. CASE Throw(j) /\ UNCHANGED resource
  <2>1. Thrown(j) /\ lost' \in BOOLEAN
    BY <1>1, <1>3, Throwing
  <2>2. RowTypes' /\ RowsKept
    BY <1>3 DEF Fails, TypeOK, RowTypes, RowsKept
  <2>3. CountTypes' /\ CountsKept /\ left'.faults = left.faults - 1
    BY <2>1, FaultSpent DEF Fails, TypeOK, Thrown
  <2> QED
    BY <1>2, <2>1, <2>2, <2>3, ThrownStep
<1>4. CASE /\ j = Ingest /\ call[j].pc \in {"download", "mark", "announce"}
           /\ resource' = [resource EXCEPT !.status = "FAILED"]
           /\ Step(j, "end") /\ UNCHANGED <<job, lost>>
  <2>1. Goes(Ingest, "end") /\ OtherJobs(Ingest) /\ Ingest \in Early /\ call[Ingest].pc # "idle"
    BY <1>1, <1>4, Stepping, Untouched, Kinds DEF TypeOK, Steps, Early
  <2>2. RowTypes' /\ resource'.status = "FAILED"
    BY <1>4 DEF Fails, TypeOK, RowTypes, Resource
  <2>3. CountTypes' /\ CountsKept
    BY <1>4, FaultSpent DEF Fails, TypeOK, CountTypes
  <2>4. WorkTypes'
    BY <1>1, <1>2, <1>4, <2>1, WorkKept, CommonPcs DEF TypeOK, Goes
  <2>5. JobInv'
    BY <1>4, JobEffects DEF TypeOK, IInv
  <2>6. CoverInv'
    BY <2>1, <2>2, <1>4, Kinds, Distinct
       DEF Fails, IInv, CoverInv, LinkCovered, AssetCovered, TranscriptCovered, RangeCovered,
           Waiting, AtOne, At, Goes, Others, Callers
  <2>7. ClipInv' /\ RefInv' /\ PaidInv' /\ EvaluationInv'
    BY <2>1, <2>3, EarlyStep DEF Fails, CountsKept, Goes
  <2> QED
    BY <2>2, <2>3, <2>4, <2>5, <2>6, <2>7 DEF TypeOK, IInv
<1> QED
  BY <1>3, <1>4 DEF Fails

-----------------------------------------------------------------------------
(* ingestCampaignResources, transcribeAsset and generateClipCandidates.     *)

\* What an early job's step has to show, where it goes on at pc.
EarlyGoes(p, pc) ==
  /\ ~ At(p, "idle") /\ Step(p, pc) /\ clip' = clip /\ made'.clips = made.clips
  /\ candidate'.id = candidate.id \/ clip.id = 0
  /\ UNCHANGED <<left, ghosts>>

LEMMA EarlyMove ==
  ASSUME TypeOK, IInv, RowTypes', NEW p \in Early, NEW k \in Early, k # p,
         NEW pc \in Pcs(p[1]) \ {"idle"}, EarlyGoes(p, pc),
         \/ job' = job
         \/ Enqueued(k),
         Goes(p, pc) => CoverInv'
  PROVE  TypeOK' /\ IInv'
<1>1. JobsOK /\ CallsOK /\ p \in Callers /\ p \in Jobs /\ k \in Jobs
  BY Parts, EarlyIsEarly DEF TypeOK
<1>2. pc \in Steps /\ pc # "idle" /\ call[p].pc # "idle"
  BY PcsOf DEF Early, Steps, EarlyGoes, At
<1>3. Goes(p, pc) /\ Others(p)
  BY <1>1, <1>2, Stepping DEF EarlyGoes, Goes
<1>4. OtherJobs(k) /\ job'[p] = job[p] /\ (job'[k].state = "active" <=> job[k].state = "active")
  BY <1>1, Untouched DEF TypeOK, Enqueued, Stands, OtherJobs
<1>5. CountTypes' /\ CountsKept /\ lost' = lost
  BY CountsSame DEF EarlyGoes, ghosts, TypeOK, CountTypes
<1>6. WorkTypes'
  <2>1. call[p].pc = "idle" <=> job[p].state # "active"
    BY <1>1 DEF TypeOK, WorkTypes
  <2> QED
    BY <1>1, <1>2, <1>3, <1>4, <2>1, WorkKept DEF TypeOK, Goes
<1>7. JobInv'
  BY <1>1, <1>5, JobEffects DEF TypeOK, IInv
<1>8. ClipInv' /\ RefInv' /\ PaidInv' /\ EvaluationInv'
  BY <1>3, <1>4, <1>5, EarlyStep DEF EarlyGoes, CountsKept, ghosts
<1> QED
  BY <1>3, <1>5, <1>6, <1>7, <1>8 DEF TypeOK, IInv

\* The early jobs and what they are at.
LEMMA EarlyPcs ==
  /\ Ingest \in Early /\ Transcribe \in Early /\ Generate \in Early
  /\ Ingest # Transcribe /\ Ingest # Generate /\ Transcribe # Generate
  /\ {"download", "mark", "announce", "end"} \subseteq Pcs(Ingest[1]) \ {"idle"}
  /\ {"announce", "end"} \subseteq Pcs(Transcribe[1]) \ {"idle"}
  /\ {"score", "end"} \subseteq Pcs(Generate[1]) \ {"idle"}
  /\ Early \subseteq Callers
BY PcsOf, Distinct, EarlyIsEarly DEF Early

LEMMA IngestSteps ==
  ASSUME TypeOK, IInv, ReadResources \/ Download \/ MarkDownloaded \/ AnnounceAsset
  PROVE  TypeOK' /\ IInv'
<1>1. JobsOK /\ CallsOK /\ Ingest \in Callers /\ Transcribe \in Jobs
  BY Parts, Kinds DEF TypeOK, Callers
<1>2. CASE ReadResources
  <2> DEFINE pc == IF resource.permitted THEN "download" ELSE "end"
  <2>1. EarlyGoes(Ingest, pc) /\ RowTypes' /\ job' = job
    BY <1>2 DEF ReadResources, EarlyGoes, At, rows, TypeOK, RowTypes
  <2>2. Goes(Ingest, pc) => CoverInv'
    BY <1>1, <1>2, EarlyPcs
       DEF IInv, CoverInv, LinkCovered, AssetCovered, TranscriptCovered, RangeCovered, Waiting,
           AtOne, At, Goes, Others, ReadResources, rows, ghosts
  <2>3. pc \in Pcs(Ingest[1]) \ {"idle"}
    BY EarlyPcs
  <2> HIDE DEF pc
  <2> QED
    BY <2>1, <2>2, <2>3, EarlyMove, EarlyPcs
<1>3. CASE Download
  <2>1. EarlyGoes(Ingest, "mark") /\ RowTypes' /\ job' = job
    BY <1>3 DEF Download, EarlyGoes, At, TypeOK, RowTypes
  <2>2. Goes(Ingest, "mark") => CoverInv'
    BY <1>1, <1>3, EarlyPcs
       DEF IInv, CoverInv, LinkCovered, AssetCovered, TranscriptCovered, RangeCovered, Waiting,
           AtOne, At, Goes, Others, Download, ghosts
  <2> QED
    BY <2>1, <2>2, EarlyMove, EarlyPcs
<1>4. CASE MarkDownloaded
  <2>1. EarlyGoes(Ingest, "announce") /\ RowTypes' /\ job' = job
    BY <1>4 DEF MarkDownloaded, EarlyGoes, At, TypeOK, RowTypes, Resource
  <2>2. Goes(Ingest, "announce") => CoverInv'
    BY <1>1, <1>4, EarlyPcs
       DEF IInv, CoverInv, LinkCovered, AssetCovered, TranscriptCovered, RangeCovered, Waiting,
           AtOne, At, Goes, Others, MarkDownloaded, ghosts
  <2> QED
    BY <2>1, <2>2, EarlyMove, EarlyPcs
<1>5. CASE AnnounceAsset
  <2>1. EarlyGoes(Ingest, "end") /\ RowTypes'
    BY <1>5 DEF AnnounceAsset, EarlyGoes, At, rows, TypeOK, RowTypes
  <2>2. Enqueued(Transcribe)
    BY <1>1, <1>5, Enqueuing DEF AnnounceAsset
  <2>3. Goes(Ingest, "end") => CoverInv'
    <3> SUFFICES ASSUME Goes(Ingest, "end"), ~ lost
                 PROVE  LinkCovered' /\ AssetCovered' /\ TranscriptCovered' /\ RangeCovered'
      BY <1>5 DEF CoverInv, AnnounceAsset, ghosts
    <3>1. LinkCovered /\ AssetCovered /\ TranscriptCovered /\ RangeCovered /\ Attended(Transcribe)
      BY <1>1 DEF IInv, CoverInv, JobInv
    <3>2. /\ call'[Transcribe] = call[Transcribe] /\ call'[Generate] = call[Generate]
          /\ asset' = asset /\ resource' = resource /\ candidate' = candidate
      BY <1>5, EarlyPcs DEF Goes, Others, AnnounceAsset, rows
    <3>3. job'[Generate] = job[Generate] /\ job'[Transcribe].state # "absent"
      BY <2>2, Kinds, Distinct DEF Enqueued, Stands, OtherJobs
    <3>4. AssetCovered' /\ TranscriptCovered'
      BY <2>2, <3>1, <3>2, <3>3
         DEF AssetCovered, TranscriptCovered, Waiting, AtOne, At, Enqueued, Stands, Attended
    <3> QED
      BY <3>1, <3>2, <3>3, <3>4 DEF LinkCovered, RangeCovered, At
  <2> QED
    BY <2>1, <2>2, <2>3, EarlyMove, EarlyPcs
<1> QED
  BY <1>2, <1>3, <1>4, <1>5

LEMMA TranscribeSteps ==
  ASSUME TypeOK, IInv, WriteTranscript \/ AnnounceTranscript
  PROVE  TypeOK' /\ IInv'
<1>1. JobsOK /\ CallsOK /\ Transcribe \in Callers /\ Generate \in Jobs
  BY Parts, Kinds DEF TypeOK, Callers
<1>2. CASE WriteTranscript
  <2>1. EarlyGoes(Transcribe, "announce") /\ RowTypes' /\ job' = job
    BY <1>2 DEF WriteTranscript, EarlyGoes, At, TypeOK, RowTypes
  <2>2. job[Transcribe].state # "absent"
    BY <1>2, ActiveJob, Kinds DEF WriteTranscript, At
  <2>3. Goes(Transcribe, "announce") => CoverInv'
    BY <1>1, <1>2, <2>2, EarlyPcs
       DEF IInv, CoverInv, LinkCovered, AssetCovered, TranscriptCovered, RangeCovered, Waiting,
           AtOne, At, Goes, Others, WriteTranscript, ghosts
  <2> QED
    BY <2>1, <2>3, EarlyMove, EarlyPcs
<1>3. CASE AnnounceTranscript
  <2>1. EarlyGoes(Transcribe, "end") /\ RowTypes'
    BY <1>3 DEF AnnounceTranscript, EarlyGoes, At, rows, TypeOK, RowTypes
  <2>2. Enqueued(Generate)
    BY <1>1, <1>3, Enqueuing DEF AnnounceTranscript
  <2>3. Goes(Transcribe, "end") => CoverInv'
    <3> SUFFICES ASSUME Goes(Transcribe, "end"), ~ lost
                 PROVE  LinkCovered' /\ AssetCovered' /\ TranscriptCovered' /\ RangeCovered'
      BY <1>3 DEF CoverInv, AnnounceTranscript, ghosts
    <3>1. LinkCovered /\ AssetCovered /\ TranscriptCovered /\ RangeCovered /\ Attended(Generate)
      BY <1>1 DEF IInv, CoverInv, JobInv
    <3>2. /\ call'[Ingest] = call[Ingest] /\ call'[Generate] = call[Generate]
          /\ call[Transcribe].pc = "announce" /\ call'[Transcribe].pc = "end"
          /\ asset' = asset /\ resource' = resource /\ candidate' = candidate
      BY <1>3, EarlyPcs DEF Goes, Others, AnnounceTranscript, rows, At
    <3>3. /\ job'[Transcribe] = job[Transcribe] /\ job'[Ingest] = job[Ingest]
          /\ job'[Generate].state # "absent"
      BY <2>2, Kinds, Distinct DEF Enqueued, Stands, OtherJobs
    <3>4. RangeCovered'
      BY <2>2, <3>1, <3>2 DEF RangeCovered, At, Enqueued, Stands, Attended
    <3> QED
      BY <3>1, <3>2, <3>3, <3>4
         DEF LinkCovered, AssetCovered, TranscriptCovered, Waiting, AtOne, At
  <2> QED
    BY <2>1, <2>2, <2>3, EarlyMove, EarlyPcs
<1> QED
  BY <1>2, <1>3

LEMMA GenerateSteps ==
  ASSUME TypeOK, IInv, DropUnrendered \/ UpsertCandidate
  PROVE  TypeOK' /\ IInv'
<1>1. JobsOK /\ CallsOK /\ Generate \in Callers
  BY Parts, Kinds DEF TypeOK, Callers
<1>2. job[Generate].state = "active" /\ job[Generate].run # "SUCCEEDED"
  BY ActiveJob, Kinds DEF DropUnrendered, UpsertCandidate, At, IInv, JobInv, Attended
<1>3. CASE DropUnrendered
  <2>1. NoCandidate \in Candidate
    BY ClipAssumption, ClipStatuses DEF NoCandidate, Candidate
  <2>2. candidate'.id = candidate.id \/ clip.id = 0
    BY <1>3 DEF DropUnrendered, IInv, ClipInv, NoCandidate
  <2>3. EarlyGoes(Generate, "score") /\ RowTypes' /\ job' = job
    BY <1>3, <2>1, <2>2 DEF DropUnrendered, EarlyGoes, At, TypeOK, RowTypes
  <2>4. Goes(Generate, "score") => CoverInv'
    BY <1>1, <1>2, <1>3, EarlyPcs
       DEF IInv, CoverInv, LinkCovered, AssetCovered, TranscriptCovered, RangeCovered, Waiting,
           AtOne, At, Goes, Others, DropUnrendered, ghosts
  <2> QED
    BY <2>3, <2>4, EarlyMove, EarlyPcs
<1>4. CASE UpsertCandidate
  <2>1. candidate' \in Candidate /\ candidate'.id # 0
        /\ made' \in [candidates : 0..MaxIds, clips : 0..MaxIds] /\ made'.clips = made.clips
        /\ (candidate'.id = candidate.id \/ candidate.id = 0)
    <3>1. PICK status \in {"CANDIDATE", "REJECTED"} :
            \/ /\ candidate.id # 0
               /\ candidate' = [candidate EXCEPT !.status = status]
               /\ UNCHANGED made
            \/ /\ candidate.id = 0 /\ made.candidates < MaxIds
               /\ made' = [made EXCEPT !.candidates = @ + 1]
               /\ candidate' = [id |-> made.candidates + 1, status |-> status, version |-> 0]
      BY <1>4 DEF UpsertCandidate
    <3>2. status \in StatusesOf("ClipCandidate")
      BY ClipStatuses
    <3>3. made \in [candidates : 0..MaxIds, clips : 0..MaxIds] /\ candidate \in Candidate
      BY DEF TypeOK, RowTypes
    <3>4. CASE candidate.id # 0
      BY <3>1, <3>2, <3>3, <3>4 DEF Candidate
    <3>5. CASE candidate.id = 0
      <4>1. /\ made.candidates < MaxIds /\ made.candidates \in 0..MaxIds
            /\ made' = [made EXCEPT !.candidates = made.candidates + 1]
            /\ candidate' = [id |-> made.candidates + 1, status |-> status, version |-> 0]
        BY <3>1, <3>3, <3>5
      <4>2. made.candidates + 1 \in 0..MaxIds /\ made.candidates + 1 # 0
        BY <4>1, ClipAssumption
      <4> QED
        BY <4>1, <4>2, <3>2, <3>3, <3>5 DEF Candidate
    <3> QED
      BY <3>4, <3>5
  <2>2. candidate'.id = candidate.id \/ clip.id = 0
    BY <2>1 DEF IInv, ClipInv
  <2>3. EarlyGoes(Generate, "end") /\ RowTypes' /\ job' = job
    BY <1>4, <2>1, <2>2 DEF UpsertCandidate, EarlyGoes, At, TypeOK, RowTypes
  <2>4. Goes(Generate, "end") => CoverInv'
    BY <1>1, <1>2, <1>4, <2>1, EarlyPcs
       DEF IInv, CoverInv, LinkCovered, AssetCovered, TranscriptCovered, RangeCovered, Waiting,
           AtOne, At, Goes, Others, UpsertCandidate, ghosts
  <2> QED
    BY <2>3, <2>4, EarlyMove, EarlyPcs
<1> QED
  BY <1>3, <1>4

-----------------------------------------------------------------------------
(* renderCandidate and evaluateCompliance.                                  *)

\* A render goes on, and neither a job nor its clip is touched.
LEMMA RenderMove ==
  ASSUME TypeOK, IInv, RowTypes', CountTypes', RowsKept, CountsKept, job' = job,
         NEW i \in Ids, Others(Render(i)), call'[Render(i)].id = call[Render(i)].id,
         \/ /\ AtOne(Render(i), {"start", "check", "mark"})
            /\ call'[Render(i)].pc \in {"check", "mark", "replace"}
         \/ /\ AtOne(Render(i), {"finish", "done"})
            /\ call'[Render(i)].pc \in {"done", "announce"}
         \/ /\ At(Render(i), "start") /\ call'[Render(i)].pc = "end"
            /\ candidate.id # i \/ lost'
  PROVE  TypeOK' /\ IInv'
<1>1. /\ Render(i) \in Jobs /\ Render(i) \in Callers /\ Render(i) \notin Early
      /\ job[Render(i)].state = "active" /\ OtherJobs(Render(i))
  BY Kinds, Distinct, ActiveJob, Untouched DEF TypeOK, AtOne, At, Early, Callers
<1>2. WorkTypes'
  BY <1>1, WorkKept, PcsOf DEF TypeOK
<1>3. JobInv'
  BY <1>1, JobEffects DEF TypeOK, IInv, CountsKept
<1>4. RenderInv(i)
  BY DEF IInv, RefInv, Ids
<1>5. RenderInv(i)'
  BY <1>4 DEF RenderInv, AtOne, At, RowsKept
<1>6. /\ Again(i)' => Again(i)
      /\ First(i)' => First(i)
  BY <1>1 DEF Again, First, Waiting, AtOne, At
<1>7. \A c \in Ids : i = candidate.id /\ Evaluated(c, i) => Evaluated(c, i)' \/ lost'
  BY <1>1 DEF Evaluated, Waiting, AtOne, At
<1>8. ClipInv' /\ RefInv' /\ PaidInv' /\ CoverInv' /\ EvaluationInv'
  BY <1>1, <1>5, <1>6, <1>7, RenderStep
<1> QED
  BY <1>2, <1>3, <1>8 DEF TypeOK, IInv

LEMMA StartRenderSteps ==
  ASSUME TypeOK, IInv, NEW i \in Ids, StartRender(i) \/ RefuseRender(i)
  PROVE  TypeOK' /\ IInv'
<1>1. CallsOK /\ Render(i) \in Callers
  BY Parts, Kinds DEF TypeOK, Callers
<1>2. RowTypes' /\ RowsKept /\ job' = job
  BY DEF StartRender, RefuseRender, rows, TypeOK, RowTypes, RowsKept
<1>3. CASE StartRender(i)
  <2> DEFINE pc == IF candidate.id = i THEN "check" ELSE "end"
  <2>1. pc \in Steps
    BY DEF Steps
  <2>2. Goes(Render(i), pc)
    BY <1>1, <1>3, <2>1, Stepping DEF StartRender
  <2>3. CountTypes' /\ CountsKept
    BY <1>3, CountsSame DEF StartRender, ghosts, TypeOK, CountTypes
  <2> QED
    BY <1>2, <1>3, <2>2, <2>3, RenderMove DEF Goes, StartRender, AtOne, At
<1>4. CASE RefuseRender(i)
  <2>1. Goes(Render(i), "end")
    BY <1>1, <1>4, Stepping DEF RefuseRender, Steps
  <2>2. CountTypes' /\ CountsKept /\ lost'
    BY <1>4, FaultSpent DEF RefuseRender, TypeOK
  <2> QED
    BY <1>2, <1>4, <2>1, <2>2, RenderMove DEF Goes, RefuseRender
<1> QED
  BY <1>3, <1>4

LEMMA Checking ==
  ASSUME CallsOK, RowTypes, NEW i \in Ids, NEW at, NEW to, NEW commit \in Steps, NEW next \in Steps,
         CheckTransition(i, at, to, commit, next)
  PROVE  /\ Others(Render(i)) /\ call'[Render(i)].id = call[Render(i)].id
         /\ call[Render(i)].pc = at /\ call'[Render(i)].pc \in {commit, next}
<1>1. Render(i) \in Callers /\ candidate.version \in Nat
  BY Kinds DEF Callers, RowTypes, Candidate
<1>2. CASE Legal(i, to)
  <2>1. call' = [call EXCEPT ![Render(i)].pc = commit, ![Render(i)].version = candidate.version]
    BY <1>2 DEF CheckTransition
  <2>2. Others(Render(i)) /\ call'[Render(i)].pc = commit /\ call'[Render(i)].id = call[Render(i)].id
    BY <1>1, <2>1, VersionRead
  <2> QED
    BY <2>2 DEF CheckTransition, At
<1>3. CASE ~ Legal(i, to)
  <2>1. Step(Render(i), next)
    BY <1>3 DEF CheckTransition, Step
  <2> QED
    BY <1>1, <2>1, Stepping DEF CheckTransition, At, Goes
<1> QED
  BY <1>2, <1>3

LEMMA Moving ==
  ASSUME candidate \in Candidate, NEW to \in StatusesOf("ClipCandidate"), MoveTo(to)
  PROVE  candidate' \in Candidate /\ candidate'.id = candidate.id
<1> DEFINE c == [id |-> candidate.id, status |-> to, version |-> candidate.version + 1]
<1>1. candidate' = c
  BY Zenon DEF MoveTo, Candidate
<1> QED
  BY <1>1 DEF Candidate

LEMMA TransitionSteps ==
  ASSUME TypeOK, IInv, NEW i \in Ids,
         \/ CheckTransition(i, "check", "RENDERING", "mark", "replace")
         \/ CommitTransition(i, "mark", "RENDERING", "replace")
         \/ CheckTransition(i, "finish", "RENDERED", "done", "announce")
         \/ CommitTransition(i, "done", "RENDERED", "announce")
  PROVE  TypeOK' /\ IInv'
<1>1. CallsOK /\ RowTypes /\ Render(i) \in Callers
  BY Parts, Kinds DEF TypeOK, Callers
<1>2. job' = job /\ UNCHANGED <<resource, asset, clip, made, left, ghosts>>
  BY DEF CheckTransition, CommitTransition, rows
<1>3. candidate' \in Candidate /\ candidate'.id = candidate.id
  BY <1>1, Moving, ClipStatuses DEF CheckTransition, CommitTransition, rows, RowTypes
<1>4. RowTypes' /\ RowsKept
  BY <1>1, <1>2, <1>3 DEF RowTypes, RowsKept
<1>5. CountTypes' /\ CountsKept
  BY <1>2, CountsSame DEF ghosts, TypeOK, CountTypes
<1>6. /\ Others(Render(i)) /\ call'[Render(i)].id = call[Render(i)].id
      /\ \/ AtOne(Render(i), {"check", "mark"}) /\ call'[Render(i)].pc \in {"mark", "replace"}
         \/ AtOne(Render(i), {"finish", "done"}) /\ call'[Render(i)].pc \in {"done", "announce"}
  <2>1. {"mark", "replace", "done", "announce"} \subseteq Steps
    BY DEF Steps
  <2>2. CASE CheckTransition(i, "check", "RENDERING", "mark", "replace")
    BY <2>1, <2>2, <1>1, Checking DEF AtOne
  <2>3. CASE CommitTransition(i, "mark", "RENDERING", "replace")
    BY <2>1, <2>3, <1>1, Stepping DEF CommitTransition, Goes, AtOne, At
  <2>4. CASE CheckTransition(i, "finish", "RENDERED", "done", "announce")
    BY <2>1, <2>4, <1>1, Checking DEF AtOne
  <2>5. CASE CommitTransition(i, "done", "RENDERED", "announce")
    BY <2>1, <2>5, <1>1, Stepping DEF CommitTransition, Goes, AtOne, At
  <2> QED
    BY <2>2, <2>3, <2>4, <2>5
<1> QED
  BY <1>2, <1>4, <1>5, <1>6, RenderMove DEF AtOne

LEMMA ReplaceStep ==
  ASSUME TypeOK, IInv, NEW i \in Ids, ReplacePrior(i)
  PROVE  TypeOK' /\ IInv'
<1>1. CallsOK /\ Render(i) \in Callers /\ Render(i) \in Jobs /\ At(Render(i), "replace")
  BY Parts, Kinds DEF TypeOK, Callers, ReplacePrior
<1>2. Goes(Render(i), "upsert") /\ OtherJobs(Render(i))
  BY <1>1, Stepping, Untouched DEF ReplacePrior, Steps, TypeOK
<1>3. \/ clip' = NoClip
      \/ clip' = clip /\ (clip.of # i \/ clip.published)
  BY DEF ReplacePrior
<1>4. RowTypes'
  <2>1. NoClip \in Clip
    BY ClipAssumption DEF NoClip, Clip, MaxRenders
  <2> QED
    BY <1>3, <2>1 DEF ReplacePrior, TypeOK, RowTypes
<1>5. CountTypes' /\ CountsKept
  BY CountsSame DEF ReplacePrior, ghosts, TypeOK, CountTypes
<1>6. job[Render(i)].state = "active" /\ job' = job
  BY <1>1, ActiveJob DEF ReplacePrior, At
<1>7. WorkTypes'
  BY <1>1, <1>2, <1>6, WorkKept, PcsOf DEF TypeOK, Goes
<1>8. JobInv'
  BY <1>1, <1>6, JobEffects DEF TypeOK, IInv, CountsKept, ReplacePrior, ghosts
<1>9. ClipInv'
  <2>1. clip.id <= made.clips /\ 0 <= made.clips /\ made' = made /\ candidate' = candidate
    BY ClipAssumption DEF IInv, ClipInv, TypeOK, RowTypes, ReplacePrior
  <2> QED
    BY <1>3, <2>1 DEF IInv, ClipInv, NoClip
<1>10. RefInv'
  <2>1. ASSUME NEW k \in Ids
        PROVE  RenderInv(k)'
    <3>1. RenderInv(k) /\ made' = made
      BY DEF IInv, RefInv, Ids, ReplacePrior
    <3>2. CASE k # i
      <4>1. call'[Render(k)] = call[Render(k)] /\ (clip'.of = k => clip' = clip)
        BY <3>2, <1>2, <1>3, Kinds, Distinct DEF Goes, Others, Callers, NoClip, Ids
      <4> QED
        BY <3>1, <4>1 DEF RenderInv, AtOne, At
    <3>3. CASE k = i
      <4>1. call'[Render(k)].pc = "upsert" /\ (clip'.of = k => clip'.published)
        BY <3>3, <1>2, <1>3 DEF Goes, NoClip, Ids
      <4> QED
        BY <4>1 DEF RenderInv, AtOne, At
    <3> QED
      BY <3>2, <3>3
  <2>2. call'[Approve] = call[Approve] /\ job' = job /\ made' = made
    BY <1>2, Kinds, Distinct DEF Goes, Others, Callers, ReplacePrior
  <2> QED
    BY <2>1, <2>2 DEF IInv, RefInv, At, Ids
<1>11. PaidInv'
  <2>1. At(Approve, "commit")' => At(Approve, "commit")
    BY <1>2, Kinds, Distinct DEF At, Goes, Others, Callers
  <2> DEFINE Y == {}
  <2>2. Y \in SUBSET {<<i, "first">>, <<i, "again">>} /\ \A o : o \notin Y
    OBVIOUS
  <2>3. (First(i)' => First(i)) /\ (Again(i)' => Again(i))
    BY <1>1, <1>6 DEF First, Again, AtOne, At
  <2> HIDE DEF Y
  <2>4. Owed' \subseteq (Owed \ Y) \cup Y
    BY <1>2, <2>2, <2>3, OwedByRender DEF Goes
  <2>5. Owed' \subseteq Owed
    BY <2>2, <2>4
  <2> QED
    BY <2>1, <2>5, <1>5, Account DEF IInv, TypeOK, CountsKept
<1>12. CoverInv'
  <2>1. Render(i) \notin Early
    BY Distinct DEF Early
  <2> QED
    BY <1>1, <1>2, <2>1, LateStep DEF IInv, ReplacePrior, ghosts, Goes
<1>13. EvaluationInv'
  <2>1. CASE clip' = NoClip
    BY <2>1 DEF EvaluationInv, NoClip
  <2>2. CASE clip' = clip /\ (clip.of # i \/ clip.published)
    <3>1. \A c, k \in Ids : /\ Render(i) # Compliance(c) /\ (Render(k) = Render(i) => k = i)
      BY Distinct
    <3> QED
      BY <1>1, <1>2, <1>5, <2>2, <3>1, EvaluationKept DEF IInv, TypeOK, Goes, CountsKept
  <2> QED
    BY <1>3, <2>1, <2>2
<1> QED
  BY <1>4, <1>5, <1>7, <1>8, <1>9, <1>10, <1>11, <1>12, <1>13 DEF TypeOK, IInv

\* There is room for a render that is owed.
LEMMA OwedFits ==
  ASSUME TypeOK, PaidInv, NEW x \in Owed
  PROVE  renders + 1 \in 0..MaxRenders
<1> DEFINE n == Cardinality(Owed)
<1>1. n \in Nat /\ n # 0
  BY OwedIsFinite, FS_EmptySet
<1>2. /\ renders \in Nat /\ approvals \in 0..MaxDecisions /\ retries \in 0..MaxRequests
      /\ left.faults \in 0..MaxFaults
  BY ClipAssumption DEF TypeOK, CountTypes, MaxRenders
<1>3. renders + n <= approvals + retries + (MaxFaults - left.faults)
  BY DEF PaidInv
<1> HIDE DEF n
<1> QED
  BY <1>1, <1>2, <1>3, ClipAssumption DEF MaxRenders

\* The clip a render writes: the one there is, or a new one.
LEMMA ClipUpserted ==
  ASSUME TypeOK, IInv, NEW i \in Ids, UpsertClip(i), candidate.id = i,
         renders' \in 0..MaxRenders
  PROVE  /\ clip' \in Clip /\ made' \in [candidates : 0..MaxIds, clips : 0..MaxIds]
         /\ clip'.of = i /\ clip'.id \in 1..made'.clips /\ made.clips <= made'.clips
         /\ \/ clip'.published
            \/ /\ clip'.id = made.clips + 1 /\ clip'.id \in Ids
<1>1. /\ made \in [candidates : 0..MaxIds, clips : 0..MaxIds] /\ made.clips \in 0..MaxIds
      /\ clip \in Clip /\ At(Render(i), "upsert")
  BY DEF TypeOK, RowTypes, UpsertClip
<1>2. CASE clip.of = i /\ clip' = [clip EXCEPT !.content = renders'] /\ UNCHANGED made
  <2>1. clip.published
    BY <1>1, <1>2 DEF IInv, RefInv, RenderInv, Ids
  <2>2. clip.id # 0 /\ clip.id <= made.clips
    BY <1>2 DEF IInv, ClipInv, NoClip, Ids
  <2>3. /\ clip' \in Clip /\ clip'.of = clip.of /\ clip'.id = clip.id
        /\ clip'.published = clip.published
    BY <1>1, <1>2 DEF Clip
  <2>4. clip.id \in 0..MaxIds
    BY <1>1 DEF Clip
  <2> QED
    BY <1>1, <1>2, <2>1, <2>2, <2>3, <2>4, ClipAssumption
<1>3. CASE /\ clip.of # i /\ made.clips < MaxIds
           /\ made' = [made EXCEPT !.clips = @ + 1]
           /\ clip' = [NoClip EXCEPT !.id = made'.clips, !.of = i, !.content = renders']
  <2>1. made' = [made EXCEPT !.clips = made.clips + 1]
    BY <1>1, <1>3
  <2>2. made.clips + 1 \in 0..MaxIds /\ made.clips + 1 \in Ids
    BY <1>1, <1>3, ClipAssumption DEF Ids
  <2>3. made' \in [candidates : 0..MaxIds, clips : 0..MaxIds] /\ made'.clips = made.clips + 1
    BY <1>1, <2>1, <2>2
  <2>4. clip' = [id |-> made'.clips, of |-> i, content |-> renders', checked |-> 0,
                 published |-> FALSE]
    BY <1>3, Zenon DEF NoClip
  <2>5. clip' \in Clip /\ clip'.of = i /\ clip'.id = made.clips + 1
    BY <2>2, <2>3, <2>4, ClipAssumption DEF Clip, Ids, MaxRenders
  <2> QED
    BY <1>1, <2>2, <2>3, <2>5
<1> QED
  BY <1>2, <1>3 DEF UpsertClip

LEMMA UpsertStep ==
  ASSUME TypeOK, IInv, NEW i \in Ids, UpsertClip(i)
  PROVE  TypeOK' /\ IInv'
<1>1. /\ JobsOK /\ CallsOK /\ Render(i) \in Callers /\ Render(i) \in Jobs
      /\ At(Render(i), "upsert") /\ lost \in BOOLEAN
  BY Parts, Kinds DEF TypeOK, Callers, CountTypes, UpsertClip
<1>2. job[Render(i)].state = "active" /\ First(i) /\ <<i, "first">> \in Owed
  BY <1>1, ActiveJob DEF At, First, AtOne, Owed, Ids
<1>3. CASE candidate.id # i
  <2>1. Thrown(Render(i)) /\ lost' \in BOOLEAN
    BY <1>1, <1>3, Throwing DEF UpsertClip
  <2>2. RowTypes' /\ RowsKept
    BY <1>3 DEF UpsertClip, TypeOK, RowTypes, RowsKept
  <2>3. CountTypes' /\ CountsKept
    BY <1>3, <2>1, CountsSame DEF UpsertClip, TypeOK, Thrown
  <2>4. \A k \in Ids : Render(i) = Render(k) => First(k)
    BY <1>2, Distinct
  <2> QED
    BY <1>1, <1>2, <2>1, <2>2, <2>3, <2>4, ThrownStep
<1>4. CASE candidate.id = i
  <2>1. /\ renders' = renders + 1 /\ job' = job /\ lost' = lost
        /\ call' = [call EXCEPT ![Render(i)].pc = "finish", ![Render(i)].id = clip'.id]
        /\ UNCHANGED <<resource, asset, candidate, left, approvals, retries>>
    BY <1>4 DEF UpsertClip
  <2>2. renders' \in 0..MaxRenders
    BY <1>2, <2>1, OwedFits DEF IInv
  <2>3. /\ clip' \in Clip /\ made' \in [candidates : 0..MaxIds, clips : 0..MaxIds]
        /\ clip'.of = i /\ clip'.id \in 1..made'.clips /\ made.clips <= made'.clips
        /\ clip'.published \/ (clip'.id = made.clips + 1 /\ clip'.id \in Ids)
    BY <1>4, <2>2, ClipUpserted
  <2>4. Others(Render(i)) /\ call'[Render(i)].pc = "finish" /\ call'[Render(i)].id = clip'.id
    <3>1. clip'.id \in 0..MaxIds
      BY <2>3 DEF Clip
    <3>0. PICK pc \in Steps : pc = "finish"
      BY DEF Steps
    <3>2. PICK e \in 0..MaxIds : e = clip'.id
      BY <3>1
    <3>3. call' = [call EXCEPT ![Render(i)].pc = pc, ![Render(i)].id = e]
      BY <2>1, <3>0, <3>2
    <3>4. Others(Render(i)) /\ call'[Render(i)].pc = pc /\ call'[Render(i)].id = e
      BY <1>1, <3>3, IdRead
    <3> QED
      BY <3>0, <3>2, <3>4
  <2>5. RowTypes'
    BY <2>1, <2>3 DEF TypeOK, RowTypes
  <2>6. CountTypes'
    BY <2>1, <2>2 DEF TypeOK, CountTypes
  <2>7. OtherJobs(Render(i))
    BY <1>1, <2>1, Untouched DEF TypeOK
  <2>8. WorkTypes'
    BY <1>1, <1>2, <2>1, <2>4, <2>7, WorkKept, PcsOf DEF TypeOK
  <2>9. JobInv'
    BY <1>1, <2>1, JobEffects DEF TypeOK, IInv
  <2>10. made.clips \in Nat /\ made'.clips \in Nat
    BY <2>3, ClipAssumption DEF TypeOK, RowTypes
  <2>11. ClipInv'
    BY <1>4, <2>1, <2>3, <2>10 DEF ClipInv, Ids
  <2>12. RefInv'
    <3>1. ASSUME NEW k \in Ids
          PROVE  RenderInv(k)'
      <4>1. RenderInv(k)
        BY DEF IInv, RefInv, Ids
      <4>2. CASE k # i
        <5>1. call'[Render(k)] = call[Render(k)] /\ clip'.of # k
          BY <4>2, <2>3, <2>4, Kinds, Distinct DEF Others, Callers
        <5> QED
          BY <4>1, <5>1, <2>3, <2>10 DEF RenderInv, AtOne, At
      <4>3. CASE k = i
        BY <4>3, <2>3, <2>4 DEF RenderInv, AtOne, At
      <4> QED
        BY <4>2, <4>3
    <3>2. call'[Approve] = call[Approve]
      BY <2>4, Kinds, Distinct DEF Others, Callers
    <3>3. \A c \in Ids : c > made'.clips => c > made.clips
      BY <2>3, <2>10 DEF Ids
    <3> QED
      BY <3>1, <3>2, <3>3, <2>1 DEF IInv, RefInv, At, Ids
  <2>13. PaidInv'
    <3>1. At(Approve, "commit")' => At(Approve, "commit")
      BY <2>4, Kinds, Distinct DEF At, Others, Callers
    <3> DEFINE Y == {<<i, "first">>}
               X == {}
    <3>2. ~ First(i)' /\ (Again(i)' => Again(i))
      BY <1>2, <2>1, <2>4 DEF First, Again, AtOne, Waiting
    <3>3. /\ Y \in SUBSET {<<i, "first">>, <<i, "again">>} /\ \A o : o \notin X
          /\ <<i, "again">> \notin Y
      OBVIOUS
    <3> HIDE DEF X, Y
    <3>4. Owed' \subseteq (Owed \ Y) \cup X
      BY <2>4, <2>7, <3>2, <3>3, OwedByRender
    <3>5. Owed' \subseteq Owed \ {<<i, "first">>}
      BY <3>3, <3>4 DEF Y
    <3>6. /\ left'.faults <= left.faults /\ left'.decisions <= left.decisions
          /\ left'.requests <= left.requests
      BY <2>1, ClipAssumption DEF TypeOK, CountTypes
    <3> QED
      BY <1>2, <2>1, <2>6, <3>1, <3>5, <3>6, Account DEF IInv, TypeOK
  <2>14. CoverInv'
    <3>1. Render(i) \notin Early
      BY Distinct DEF Early
    <3> QED
      BY <1>1, <2>1, <2>4, <2>7, <3>1, LateStep DEF IInv
  <2>15. EvaluationInv'
    <3> SUFFICES ASSUME ~ clip'.published
                 PROVE  Found(clip.id)' /\ Evaluated(clip.id, clip.of)'
      BY DEF EvaluationInv
    <3>1. PICK c \in Ids : c = clip'.id /\ c = made.clips + 1
      BY <2>3
    <3>2. job[Compliance(c)].state = "absent"
      BY <3>1, <2>10 DEF IInv, RefInv, Ids
    <3>3. job[Compliance(c)].run = "NONE" /\ call[Compliance(c)].pc = "idle"
      BY <3>2, Kinds DEF IInv, JobInv, Attended, TypeOK, WorkTypes
    <3>4. call'[Compliance(c)] = call[Compliance(c)]
      BY <2>4, Kinds, Distinct DEF Others, Callers
    <3>5. Found(clip.id)'
      BY <3>1, <3>2, <3>3, <3>4, <2>1 DEF Found, At
    <3>6. Evaluated(clip.id, clip.of)'
      BY <2>3, <2>4 DEF Evaluated, AtOne
    <3> QED
      BY <3>5, <3>6
  <2> QED
    BY <2>5, <2>6, <2>8, <2>9, <2>11, <2>12, <2>13, <2>14, <2>15 DEF TypeOK, IInv
<1> QED
  BY <1>3, <1>4

LEMMA AnnounceRenderStep ==
  ASSUME TypeOK, IInv, NEW i \in Ids, AnnounceRender(i)
  PROVE  TypeOK' /\ IInv'
<1>1. /\ JobsOK /\ CallsOK /\ Render(i) \in Callers /\ Render(i) \in Jobs
      /\ call[Render(i)].pc = "announce"
  BY Parts, Kinds DEF TypeOK, Callers, AnnounceRender, At
<1>2. PICK d \in Ids : d = call[Render(i)].id /\ d <= made.clips
  <2>1. call[Render(i)].id \in 1..made.clips /\ made.clips \in 0..MaxIds
    BY <1>1 DEF IInv, RefInv, RenderInv, AtOne, Ids, TypeOK, RowTypes
  <2> QED
    BY <2>1, ClipAssumption DEF Ids
<1>3. Goes(Render(i), "end") /\ Others(Render(i))
  BY <1>1, Stepping DEF AnnounceRender, Steps, Goes
<1>4. /\ Compliance(d) \in Jobs /\ Compliance(d) # Render(i) /\ Compliance(d) \notin Early
      /\ Render(i) \notin Early /\ Render(i) # Approve
      /\ \A k \in Ids : /\ Compliance(d) # Render(k) /\ Compliance(k) # Render(i)
                        /\ Render(k) = Render(i) => k = i
                        /\ Compliance(k) = Compliance(d) => k = d
  BY Kinds, Distinct DEF Early
<1>5. Enqueued(Compliance(d))
  BY <1>1, <1>2, <1>4, Enqueuing DEF AnnounceRender, Compliance
<1>6. /\ OtherJobs(Compliance(d)) /\ job'[Render(i)] = job[Render(i)]
      /\ job'[Compliance(d)].state # "absent"
      /\ job'[Compliance(d)].run = job[Compliance(d)].run
      /\ job'[Compliance(d)].state = "kept" => job[Compliance(d)].state = "kept"
      /\ job'[Compliance(d)].state = "active" <=> job[Compliance(d)].state = "active"
  BY <1>1, <1>4, <1>5, Untouched DEF TypeOK, Enqueued, Stands, OtherJobs
<1>7. RowTypes' /\ RowsKept
  BY DEF AnnounceRender, rows, TypeOK, RowTypes, RowsKept
<1>8. CountTypes' /\ CountsKept
  BY CountsSame DEF AnnounceRender, ghosts, TypeOK, CountTypes
<1>9. job[Render(i)].state = "active"
  BY <1>1, ActiveJob DEF At
<1>10. WorkTypes'
  BY <1>1, <1>3, <1>4, <1>6, <1>9, WorkKept, CommonPcs DEF TypeOK, Goes
<1>11. JobInv'
  BY <1>4, <1>5, JobEffects DEF TypeOK, IInv, CountsKept, AnnounceRender, ghosts
<1>12. ClipInv'
  BY <1>7 DEF IInv, ClipInv, NoClip, RowsKept
<1>13. RefInv'
  <2>1. made.clips \in Nat
    BY ClipAssumption DEF TypeOK, RowTypes
  <2>2. RenderInv(i)'
    BY <1>3 DEF Goes, RenderInv, AtOne, At
  <2> QED
    BY <1>1, <1>2, <1>3, <1>4, <1>6, <1>7, <2>1, <2>2, RefKept DEF IInv, RowsKept
<1>14. PaidInv'
  <2>1. At(Approve, "commit")' => At(Approve, "commit")
    BY <1>3, Kinds, Distinct DEF At, Others, Callers
  <2>2. ASSUME NEW k \in Ids
        PROVE  (First(k)' => First(k)) /\ (Again(k)' => Again(k))
    <3>1. job'[Render(k)] = job[Render(k)]
      BY <1>4, <1>6, Kinds DEF OtherJobs
    <3>2. CASE k # i
      BY <3>1, <3>2, <1>3, <1>4, Kinds DEF First, Again, AtOne, Waiting, Others, Callers
    <3>3. CASE k = i
      BY <3>1, <3>3, <1>3 DEF First, Again, AtOne, Waiting, Goes
    <3> QED
      BY <3>2, <3>3
  <2>3. At(Approve, "enqueue")' => At(Approve, "enqueue")
    BY <1>3, Kinds, Distinct DEF At, Others, Callers
  <2>4. Owed' \subseteq (Owed \ {}) \cup {}
    BY <2>2, <2>3, OwedMoves
  <2>5. Owed' \subseteq Owed
    BY <2>4
  <2> QED
    BY <2>1, <2>5, <1>8, Account DEF IInv, TypeOK, CountsKept
<1>15. CoverInv'
  BY <1>1, <1>3, <1>4, <1>6, <1>7, <1>8, LateStep DEF IInv, RowsKept, CountsKept
<1>16. EvaluationInv'
  <2>1. ASSUME NEW c \in Ids, Found(c), Compliance(d) = Compliance(c)
        PROVE  Found(c)'
    <3>1. call'[Compliance(c)] = call[Compliance(c)]
      BY <1>3, <1>4, Kinds DEF Others, Callers
    <3> QED
      BY <2>1, <3>1, <1>6, <1>7, <1>8 DEF Found, At, RowsKept, CountsKept
  <2>2. ASSUME NEW c \in Ids, NEW k \in Ids, Evaluated(c, k), Compliance(d) = Compliance(c)
        PROVE  Evaluated(c, k)'
    BY <2>2, <1>6 DEF Evaluated
  <2>3. ASSUME NEW c \in Ids, Evaluated(c, i)
        PROVE  Evaluated(c, i)'
    <3>1. job[Compliance(c)].state # "absent" \/ c = d
      BY <2>3, <1>1, <1>2, <1>9 DEF Evaluated, AtOne, Waiting
    <3>2. job'[Compliance(c)].state # "absent"
      BY <3>1, <1>4, <1>6, Kinds DEF OtherJobs
    <3> QED
      BY <3>2 DEF Evaluated
  <2> QED
    BY <1>1, <1>3, <1>4, <1>6, <1>7, <1>8, <2>1, <2>2, <2>3, EvaluationKept
       DEF IInv, TypeOK, RowsKept, CountsKept
<1> QED
  BY <1>7, <1>8, <1>10, <1>11, <1>12, <1>13, <1>14, <1>15, <1>16 DEF TypeOK, IInv

LEMMA StartEvaluationStep ==
  ASSUME TypeOK, IInv, NEW c \in Ids, StartEvaluation(c)
  PROVE  TypeOK' /\ IInv'
<1>1. /\ CallsOK /\ Compliance(c) \in Callers /\ Compliance(c) \in Jobs
      /\ At(Compliance(c), "start") /\ job' = job
  BY Parts, Kinds DEF TypeOK, Callers, StartEvaluation
<1>2. PICK content \in 0..MaxRenders : content = clip.content
  BY DEF TypeOK, RowTypes, Clip
<1>3. /\ Others(Compliance(c))
      /\ \/ call'[Compliance(c)].pc = "write" /\ call'[Compliance(c)].content = clip.content
         \/ call'[Compliance(c)].pc = "end" /\ clip.id # c
  <2>1. CASE clip.id = c
    <3>1. PICK pc \in Steps : pc = "write"
      BY DEF Steps
    <3>2. call' = [call EXCEPT ![Compliance(c)].pc = pc, ![Compliance(c)].content = content]
      BY <2>1, <3>1, <1>2 DEF StartEvaluation
    <3>3. /\ Others(Compliance(c)) /\ call'[Compliance(c)].pc = pc
          /\ call'[Compliance(c)].content = content
      BY <1>1, <3>2, ContentRead
    <3> QED
      BY <3>1, <3>3, <1>2
  <2>2. CASE clip.id # c
    <3>1. Step(Compliance(c), "end")
      BY <2>2 DEF StartEvaluation, Step
    <3> QED
      BY <1>1, <2>2, <3>1, Stepping DEF Steps, Goes
  <2> QED
    BY <2>1, <2>2
<1>4. RowTypes' /\ RowsKept
  BY DEF StartEvaluation, rows, TypeOK, RowTypes, RowsKept
<1>5. CountTypes' /\ CountsKept
  BY CountsSame DEF StartEvaluation, ghosts, TypeOK, CountTypes
<1>6. job[Compliance(c)].state = "active" /\ job[Compliance(c)].run # "SUCCEEDED"
  BY <1>1, ActiveJob DEF At, IInv, JobInv, Attended
<1>7. OtherJobs(Compliance(c))
  BY <1>1, Untouched DEF TypeOK
<1>8. WorkTypes'
  BY <1>1, <1>3, <1>6, <1>7, WorkKept, PcsOf DEF TypeOK
<1>9. JobInv'
  BY <1>1, <1>5, JobEffects DEF TypeOK, IInv, CountsKept
<1>10. c = clip.id /\ ~ clip.published /\ Found(c) => Found(c)'
  BY <1>1, <1>3, <1>4, <1>6 DEF Found, At, RowsKept
<1>11. ClipInv' /\ RefInv' /\ PaidInv' /\ CoverInv' /\ EvaluationInv'
  BY <1>1, <1>3, <1>4, <1>5, <1>6, <1>7, <1>10, EvaluationStep
<1> QED
  BY <1>4, <1>5, <1>8, <1>9, <1>11 DEF TypeOK, IInv

LEMMA WriteFindingsStep ==
  ASSUME TypeOK, IInv, NEW c \in Ids, WriteFindings(c)
  PROVE  TypeOK' /\ IInv'
<1>1. /\ JobsOK /\ CallsOK /\ Compliance(c) \in Callers /\ Compliance(c) \in Jobs
      /\ At(Compliance(c), "write") /\ lost \in BOOLEAN
      /\ UNCHANGED <<resource, asset, candidate, made, left, approvals, retries, renders>>
  BY Parts, Kinds DEF TypeOK, Callers, CountTypes, WriteFindings
<1>2. job[Compliance(c)].state = "active" /\ job[Compliance(c)].run # "SUCCEEDED"
  BY <1>1, ActiveJob DEF At, IInv, JobInv, Attended
<1>3. CASE clip.id # c
  <2>1. Thrown(Compliance(c)) /\ lost' \in BOOLEAN /\ clip' = clip
    BY <1>1, <1>3, Throwing DEF WriteFindings
  <2>2. RowTypes' /\ RowsKept
    BY <1>1, <2>1 DEF TypeOK, RowTypes, RowsKept
  <2>3. CountTypes' /\ CountsKept
    BY <1>1, <2>1, CountsSame DEF TypeOK, Thrown
  <2>4. \A i \in Ids : Compliance(c) # Render(i)
    BY Distinct
  <2> QED
    BY <1>1, <1>2, <2>1, <2>2, <2>3, <2>4, ThrownStep
<1>4. CASE clip.id = c
  <2>1. /\ clip' = [clip EXCEPT !.checked = call[Compliance(c)].content]
        /\ Step(Compliance(c), "end") /\ job' = job /\ lost' = lost
    BY <1>4 DEF WriteFindings
  <2>2. /\ clip' \in Clip /\ clip'.checked = call[Compliance(c)].content
        /\ clip'.id = clip.id /\ clip'.of = clip.of /\ clip'.published = clip.published
        /\ clip'.content = clip.content
    BY <1>1, <2>1, CallFields DEF TypeOK, RowTypes, Clip
  <2>3. Goes(Compliance(c), "end") /\ Others(Compliance(c)) /\ OtherJobs(Compliance(c))
    BY <1>1, <2>1, Stepping, Untouched DEF Steps, TypeOK, Goes
  <2>4. RowTypes'
    BY <1>1, <2>2 DEF TypeOK, RowTypes
  <2>5. CountTypes' /\ CountsKept
    BY <1>1, <2>1, CountsSame DEF TypeOK
  <2>6. WorkTypes'
    BY <1>1, <1>2, <2>1, <2>3, WorkKept, CommonPcs DEF TypeOK, Goes
  <2>7. JobInv'
    BY <1>1, <2>1, JobEffects DEF TypeOK, IInv
  <2>8. ClipInv'
    BY <1>1, <1>4, <2>2 DEF IInv, ClipInv, Ids
  <2>9. /\ Compliance(c) # Approve /\ Compliance(c) \notin Early
        /\ \A i \in Ids : Compliance(c) # Render(i)
    BY Kinds, Distinct DEF Early
  <2>10. RefInv'
    <3>1. made.clips \in Nat
      BY ClipAssumption DEF TypeOK, RowTypes
    <3> QED
      BY <1>1, <1>2, <2>2, <2>3, <2>9, <3>1, RefKept DEF IInv
  <2>11. PaidInv'
    <3>1. At(Approve, "commit")' => At(Approve, "commit")
      BY <2>3, <2>9, Kinds DEF At, Others, Callers
    <3>2. Owed' \subseteq Owed
      BY <1>1, <2>3, <2>9, OwedRest
    <3> QED
      BY <2>5, <3>1, <3>2, Account DEF IInv, TypeOK, CountsKept
  <2>12. CoverInv'
    BY <1>1, <2>1, <2>3, <2>9, LateStep DEF IInv
  <2>13. EvaluationInv'
    <3> SUFFICES ASSUME ~ clip.published
                 PROVE  Found(clip.id)' /\ (~ lost => Evaluated(clip.id, clip.of)')
      BY <2>1, <2>2 DEF EvaluationInv
    <3>1. Found(c) /\ (~ lost => Evaluated(c, clip.of)) /\ clip.of \in Ids
      BY <1>4, ClipAssumption DEF IInv, EvaluationInv, ClipInv, Ids, TypeOK, RowTypes, Clip
    <3>2. PICK i \in Ids : i = clip.of
      BY <3>1
    <3>3. Found(clip.id)'
      BY <1>1, <1>4, <2>2, <2>3, <3>1 DEF Found, At, Goes
    <3>4. Evaluated(c, i) => Evaluated(c, i)'
      BY <2>1, <2>3, <2>9, Kinds DEF Evaluated, AtOne, Waiting, Others, Callers
    <3>5. Evaluated(c, i)' => Evaluated(clip.id, clip.of)'
      BY <1>4, <2>2, <3>2 DEF Evaluated, AtOne, Waiting
    <3> QED
      BY <3>1, <3>2, <3>3, <3>4, <3>5
  <2> QED
    BY <2>4, <2>5, <2>6, <2>7, <2>8, <2>10, <2>11, <2>12, <2>13 DEF TypeOK, IInv
<1> QED
  BY <1>3, <1>4

-----------------------------------------------------------------------------
(* The routes.                                                              *)

LEMMA WithdrawStep ==
  ASSUME TypeOK, IInv, Withdraw
  PROVE  TypeOK' /\ IInv'
<1>1. /\ UNCHANGED <<asset, candidate, clip, made, job, call, ghosts>> /\ Spend("requests")
      /\ resource' \in Resource /\ resource'.permitted = FALSE
  BY DEF Withdraw, TypeOK, RowTypes, Resource
<1>2. RowTypes'
  BY <1>1 DEF TypeOK, RowTypes
<1>3. CountTypes' /\ CountsKept
  <2>1. left.faults \in Int /\ left.decisions \in Int /\ left.requests \in Int
    BY ClipAssumption DEF TypeOK, CountTypes
  <2> QED
    BY <1>1, <2>1, Spending DEF TypeOK, CountTypes, CountsKept, Budgets, ghosts
<1>4. WorkTypes' /\ JobInv'
  BY <1>1 DEF TypeOK, WorkTypes, IInv, JobInv, Attended, ghosts
<1>5. Others(Ingest) /\ OtherJobs(Ingest) /\ Ingest \in Early
  BY <1>1, Untouched, Kinds, EarlyPcs DEF TypeOK, Callers
<1>6. ClipInv' /\ RefInv' /\ PaidInv' /\ EvaluationInv'
  BY <1>1, <1>3, <1>5, EarlyStep
<1>7. CoverInv'
  BY <1>1 DEF IInv, CoverInv, LinkCovered, AssetCovered, TranscriptCovered, RangeCovered,
              Waiting, AtOne, At, ghosts
<1> QED
  BY <1>2, <1>3, <1>4, <1>6, <1>7 DEF TypeOK, IInv

\* What a request leaves of its job: it makes one, lets it be, or deletes its JobRun.
Asked(j) ==
  /\ Others(j) /\ OtherJobs(j) /\ call' = call /\ lost' = lost
  /\ job'[j].state # "absent"
  /\ job'[j].state = "active" <=> job[j].state = "active"
  /\ job'[j].state = "kept" => job[j].state = "kept"
  /\ job[j].state = "queued" => job'[j].state = "queued"
  /\ job'[j].run \in {"NONE", job[j].run}

LEMMA EarlyRequest ==
  ASSUME TypeOK, IInv, NEW j \in Early, Asked(j), UNCHANGED rows
  PROVE  CoverInv'
<1> SUFFICES ASSUME ~ lost
             PROVE  LinkCovered' /\ AssetCovered' /\ TranscriptCovered' /\ RangeCovered'
  BY DEF CoverInv, Asked
<1>1. LinkCovered /\ AssetCovered /\ TranscriptCovered /\ RangeCovered
  BY DEF IInv, CoverInv
<1>2. asset' = asset /\ resource' = resource /\ candidate' = candidate /\ call' = call
  BY DEF rows, Asked
<1>3. \A k \in Early : Attended(k) /\ k \in Jobs
  BY EarlyIsEarly DEF IInv, JobInv
<1>4. \A k \in Early \ {j} : job'[k] = job[k]
  BY EarlyIsEarly DEF Asked, OtherJobs
<1>5. ASSUME NEW k \in Early
      PROVE  /\ job[k].state # "absent" => job'[k].state # "absent"
             /\ Waiting(k) => Waiting(k)'
             /\ job'[k].state = "kept" \/ job'[k].run = "SUCCEEDED" =>
                  job[k].state = "kept" \/ job[k].run = "SUCCEEDED"
             /\ job'[k].state # "absent" /\ job[k].state = "absent" => Waiting(k)'
  <2>1. CASE k # j
    BY <2>1, <1>4 DEF Waiting
  <2>2. CASE k = j
    <3>1. job'[k].state \in {"absent", "queued", "active", "kept"}
      BY <1>3 DEF Asked, OtherJobs, Job
    <3> QED
      BY <2>2, <1>3, <3>1 DEF Waiting, Asked, Attended
  <2> QED
    BY <2>1, <2>2
<1>6. Ingest \in Early /\ Transcribe \in Early /\ Generate \in Early
  BY EarlyPcs
<1>7. LinkCovered' /\ TranscriptCovered' /\ RangeCovered'
  BY <1>1, <1>2, <1>5, <1>6 DEF LinkCovered, TranscriptCovered, RangeCovered, AtOne, At
<1>8. AssetCovered'
  BY <1>1, <1>2, <1>5, <1>6 DEF AssetCovered, At
<1> QED
  BY <1>7, <1>8

\* jobs/retry of a render pays for the render it may lead to.
LEMMA RenderRequest ==
  ASSUME TypeOK, IInv, RowTypes', WorkTypes', CountTypes', JobInv', UNCHANGED rows,
         UNCHANGED <<approvals, renders>>, Spend("requests"), retries' = retries + 1,
         NEW i \in Ids, Asked(Render(i)), Again(i)' => job[Render(i)].state = "active"
  PROVE  TypeOK' /\ IInv'
<1>1. /\ Render(i) \in Jobs /\ Render(i) \in Callers /\ Render(i) # Approve
      /\ Render(i) \notin Early
      /\ \A k \in Ids : /\ Render(i) # Compliance(k) /\ (Render(i) = Render(k) => i = k)
  BY Kinds, Distinct DEF Early, Callers
<1>2. RowsKept /\ call' = call /\ lost' = lost
  BY DEF rows, RowsKept, Asked
<1>3. ClipInv'
  BY <1>2 DEF IInv, ClipInv, NoClip, RowsKept
<1>4. RefInv'
  <2>1. made.clips \in Nat
    BY ClipAssumption DEF TypeOK, RowTypes
  <2>2. RenderInv(i) /\ (RenderInv(i) => RenderInv(i)')
    BY <1>2 DEF IInv, RefInv, Ids, RenderInv, AtOne, At, RowsKept
  <2> QED
    BY <1>1, <1>2, <2>1, <2>2, RefKept DEF IInv, RowsKept, Asked
<1>5. PaidInv'
  <2> DEFINE y == IF job[Render(i)].state = "active" THEN <<i, "again">> ELSE <<i, "first">>
             X == {y}
             Y == {}
  <2>1. First(i)' => First(i) \/ y = <<i, "first">>
    <3>1. CASE job[Render(i)].state = "active"
      BY <3>1, <1>2 DEF First, Waiting, AtOne, Asked
    <3>2. CASE job[Render(i)].state # "active"
      BY <3>2
    <3> QED
      BY <3>1, <3>2
  <2>2. Again(i)' => y = <<i, "again">>
    OBVIOUS
  <2>3. Y \in SUBSET {<<i, "first">>, <<i, "again">>} /\ (\A o : o \notin Y) /\ y \in X
    OBVIOUS
  <2>4. Owed' \subseteq (Owed \ Y) \cup X
    <3> HIDE DEF X, Y, y
    <3> QED
      BY <2>1, <2>2, <2>3, OwedByRender DEF Asked
  <2>5. Owed' \subseteq Owed \cup {y}
    BY <2>4
  <2> HIDE DEF X, Y, y
  <2> DEFINE n == Cardinality(Owed)
             m == Cardinality(Owed')
  <2>6. n \in Nat /\ m \in Nat /\ m <= n + 1
    BY <2>5, OwedIsFinite, OwedStaysFinite, Counting
  <2>7. /\ renders + n <= approvals + retries + (MaxFaults - left.faults)
        /\ retries + left.requests <= MaxRequests
        /\ approvals + left.decisions <= MaxDecisions
        /\ At(Approve, "commit") => approvals + left.decisions < MaxDecisions
    BY DEF IInv, PaidInv
  <2> HIDE DEF n, m
  <2>8. /\ renders \in Nat /\ approvals \in Nat /\ retries \in Nat /\ left.faults \in 0..MaxFaults
        /\ left.requests \in Nat
    BY ClipAssumption DEF TypeOK, CountTypes, MaxRenders
  <2>9. /\ left'.faults = left.faults /\ left'.decisions = left.decisions
        /\ left'.requests = left.requests - 1
    BY Spending DEF TypeOK, Budgets
  <2>10. renders' + m <= approvals' + retries' + (MaxFaults - left'.faults)
    BY <2>6, <2>7, <2>8, <2>9, ClipAssumption
  <2>11. retries' + left'.requests <= MaxRequests
    BY <2>7, <2>8, <2>9, ClipAssumption
  <2>12. At(Approve, "commit")' => At(Approve, "commit")
    BY <1>2 DEF At
  <2> QED
    BY <2>7, <2>9, <2>10, <2>11, <2>12 DEF PaidInv, m
<1>6. CoverInv'
  BY <1>1, <1>2, LateStep DEF IInv, RowsKept, Asked
<1>7. EvaluationInv'
  <2>1. ASSUME NEW c \in Ids, Evaluated(c, i)
        PROVE  Evaluated(c, i)'
    <3>1. job'[Compliance(c)] = job[Compliance(c)]
      BY <1>1, Kinds, Distinct DEF Asked, OtherJobs
    <3>2. Waiting(Render(i)) => Waiting(Render(i))'
      BY DEF Waiting, Asked
    <3> QED
      BY <2>1, <1>2, <3>1, <3>2 DEF Evaluated, AtOne
  <2> QED
    BY <1>1, <1>2, <2>1, EvaluationKept DEF IInv, TypeOK, RowsKept, Asked
<1> QED
  BY <1>3, <1>4, <1>5, <1>6, <1>7 DEF TypeOK, IInv

LEMMA RequestSteps ==
  ASSUME TypeOK, IInv, NEW j \in Jobs, Request(j)
  PROVE  TypeOK' /\ IInv'
<1>1. /\ JobsOK /\ call' = call /\ UNCHANGED rows /\ UNCHANGED <<approvals, renders, lost>>
      /\ Spend("requests") /\ j \in Callers /\ (Reran(j) \/ Enqueued(j))
  BY Parts, Rerunning, Enqueuing DEF TypeOK, Request, Callers
<1>2. Asked(j)
  BY <1>1, Untouched DEF TypeOK, Asked, Reran, Enqueued, Stands
<1>3. JobInv'
  BY <1>1, JobEffects DEF TypeOK, IInv
<1>4. RowTypes' /\ RowsKept
  BY <1>1 DEF rows, TypeOK, RowTypes, RowsKept
<1>5. WorkTypes'
  BY <1>1, <1>2, WorkKept DEF Asked, TypeOK, WorkTypes, Callers
<1>6. retries' = IF j[1] = "render" THEN retries + 1 ELSE retries
  BY DEF Request
<1>7. CountTypes' /\ (j[1] # "render" => CountsKept)
  <2>1. /\ left.faults \in Int /\ left.decisions \in Int /\ left.requests \in Int
        /\ retries \in Nat /\ retries + left.requests <= MaxRequests
    BY ClipAssumption DEF TypeOK, CountTypes, IInv, PaidInv
  <2>2. /\ left'.faults = left.faults /\ left'.decisions = left.decisions
        /\ left'.requests = left.requests - 1 /\ left.requests > 0
        /\ left' \in [requests : 0..MaxRequests, decisions : 0..MaxDecisions,
                      faults : 0..MaxFaults, events : 0..MaxEvents]
    BY <1>1, Spending DEF TypeOK, Budgets
  <2>3. retries' \in 0..MaxRequests
    BY <1>6, <2>1, <2>2, ClipAssumption
  <2> QED
    BY <1>1, <1>6, <2>1, <2>2, <2>3 DEF TypeOK, CountTypes, CountsKept
<1>8. CASE j \in Early
  <2>1. j[1] # "render"
    BY <1>8, KindOf DEF Early
  <2>2. ClipInv' /\ RefInv' /\ PaidInv' /\ EvaluationInv'
    BY <1>2, <1>4, <1>7, <1>8, <2>1, EarlyStep DEF RowsKept, Asked
  <2>3. CoverInv'
    BY <1>1, <1>2, <1>8, EarlyRequest
  <2> QED
    BY <1>3, <1>4, <1>5, <1>7, <2>2, <2>3 DEF TypeOK, IInv
<1>9. ASSUME NEW i \in Ids, j = Render(i)
      PROVE  TypeOK' /\ IInv'
  <2>1. j[1] = "render" /\ (Again(i)' => job[Render(i)].state = "active")
    BY <1>2, <1>9, KindOf DEF Again, Asked
  <2> QED
    BY <1>1, <1>2, <1>3, <1>4, <1>5, <1>6, <1>7, <1>9, <2>1, RenderRequest
<1>10. ASSUME NEW c \in Ids, j = Compliance(c)
       PROVE  TypeOK' /\ IInv'
  <2>1. j[1] # "render"
    BY <1>10, KindOf
  <2>2. c <= made.clips
    <3>1. \A i \in 1..made.candidates : j # Render(i)
      BY <1>10, ClipAssumption, Distinct DEF TypeOK, RowTypes, Ids
    <3>2. j \notin {Ingest, Transcribe, Generate}
      BY <1>10, Distinct
    <3>3. PICK d \in 1..made.clips : j = Compliance(d)
      BY <3>1, <3>2, Zenon DEF Request, Requestable
    <3>4. d \in Ids /\ d <= made.clips
      BY ClipAssumption DEF TypeOK, RowTypes, Ids
    <3> QED
      BY <1>10, <3>3, <3>4, Distinct
  <2>3. Found(c) => Found(c)'
    BY <1>2, <1>4, <1>10 DEF Found, At, Asked, RowsKept
  <2>4. ClipInv' /\ RefInv' /\ PaidInv' /\ CoverInv' /\ EvaluationInv'
    BY <1>2, <1>4, <1>7, <1>10, <2>1, <2>2, <2>3, EvaluationStep DEF Asked
  <2> QED
    BY <1>3, <1>4, <1>5, <1>7, <2>4 DEF TypeOK, IInv
<1> QED
  BY <1>8, <1>9, <1>10, JobCases


\* A request's step that touches no job and no clip: what is left to show.
LEMMA RequestStep ==
  ASSUME TypeOK, IInv, RowTypes', CountTypes', RowsKept, job' = job, lost => lost',
         NEW p \in Requests, Others(p), call'[p].pc \in Pcs(p[1]), PaidInv',
         p = Approve => (At(Approve, "idle")' \/ call'[Approve].id # 0)
  PROVE  TypeOK' /\ IInv'
<1>1. /\ p \in Callers /\ p \notin Jobs /\ p \notin Early /\ Ingest \in Jobs /\ Ingest # p
      /\ \A j \in Jobs : p # j
      /\ \A i \in Ids : Render(i) \in Jobs /\ Compliance(i) \in Jobs
  BY Kinds, Distinct DEF Callers, Early
<1>2. \A j \in Jobs : OtherJobs(j)
  BY Untouched DEF TypeOK
<1>3. WorkTypes'
  BY <1>1, <1>2, WorkKept DEF TypeOK
<1>4. JobInv'
  BY <1>1, JobEffects DEF TypeOK, IInv
<1>5. ClipInv'
  BY DEF IInv, ClipInv, NoClip, RowsKept
<1>6. PICK k \in Jobs : k \notin Early
  BY <1>1, Distinct, ClipAssumption DEF Early, Ids
<1>7. RefInv'
  <2>1. made.clips \in Nat
    BY ClipAssumption DEF TypeOK, RowTypes
  <2> QED
    BY <1>1, <1>2, <2>1, RefKept DEF IInv, RowsKept
<1>8. CoverInv'
  BY <1>1, <1>2, <1>6, LateStep DEF IInv, RowsKept
<1>9. EvaluationInv'
  <2>1. \A i \in Ids : Ingest # Render(i) /\ Ingest # Compliance(i)
    BY Distinct
  <2> QED
    BY <1>1, <1>2, <2>1, EvaluationKept DEF IInv, TypeOK, RowsKept
<1> QED
  BY <1>3, <1>4, <1>5, <1>7, <1>8, <1>9 DEF TypeOK, IInv

\* No request but the approval itself owes a render.
LEMMA OwedByRequest ==
  ASSUME WorkTypes, NEW p \in Requests, Others(p), job' = job,
         ~ At(Approve, "enqueue")' \/ p # Approve
  PROVE  Owed' \subseteq Owed
<1>1. ASSUME NEW i \in Ids
      PROVE  (First(i)' => First(i)) /\ (Again(i)' => Again(i))
  <2>1. call'[Render(i)] = call[Render(i)]
    BY Kinds, Distinct DEF Others, Callers
  <2> QED
    BY <2>1 DEF First, Again, Waiting, AtOne
<1>2. At(Approve, "enqueue")' => At(Approve, "enqueue")
  BY Kinds DEF At, Others, Callers
<1>3. Owed' \subseteq (Owed \ {}) \cup {}
  BY <1>1, <1>2, OwedMoves
<1> QED
  BY <1>3

LEMMA DecideStep ==
  ASSUME TypeOK, IInv, NEW p \in Requests, Decide(p)
  PROVE  TypeOK' /\ IInv'
<1>1. CallsOK /\ p \in Callers /\ candidate.id \in 0..MaxIds /\ candidate.version \in Nat
  BY Parts DEF TypeOK, Callers, RowTypes, Candidate
<1>2. call' = [call EXCEPT ![p] = CallMade("commit", candidate.id, candidate.version, 0)]
  BY DEF Decide, CallMade
<1>3. Others(p) /\ call'[p].pc = "commit" /\ call'[p].id = candidate.id
  <2>1. 0 \in 0..MaxRenders /\ "commit" \in Steps
    BY ClipAssumption DEF MaxRenders, Steps
  <2> DEFINE c == CallMade("commit", candidate.id, candidate.version, 0)
  <2>2. c \in Call /\ c.pc = "commit" /\ c.id = candidate.id
    BY <1>1, <2>1, CallMadeFields
  <2>3. call' = [call EXCEPT ![p] = c]
    BY <1>2
  <2> HIDE DEF c
  <2>4. Others(p) /\ call'[p] = c
    BY <1>1, <2>2, <2>3, Replaced
  <2> QED
    BY <2>2, <2>4
<1>4. candidate.id # 0 /\ job' = job /\ UNCHANGED ghosts
  BY DEF Decide, Legal
<1>5. RowTypes' /\ RowsKept
  BY DEF Decide, rows, TypeOK, RowTypes, RowsKept
<1>6. /\ CountTypes' /\ left'.faults = left.faults /\ left'.decisions = left.decisions - 1
      /\ left'.faults <= left.faults /\ left'.decisions <= left.decisions
      /\ left'.requests <= left.requests
  <2>1. left.faults \in Int /\ left.decisions \in Int /\ left.requests \in Int
    BY ClipAssumption DEF TypeOK, CountTypes
  <2> QED
    BY <1>4, <2>1, Spending DEF Decide, TypeOK, CountTypes, Budgets, ghosts
<1>7. PaidInv'
  <2>1. Owed' \subseteq Owed
    BY <1>3, <1>4, OwedByRequest DEF TypeOK, At
  <2> QED
    BY <2>1, <1>4, <1>6, Account DEF IInv, TypeOK, ghosts
<1> QED
  BY <1>3, <1>4, <1>5, <1>6, <1>7, CommonPcs, RequestStep DEF ghosts

LEMMA CommitDecisionStep ==
  ASSUME TypeOK, IInv, NEW p \in Requests, CommitDecision(p)
  PROVE  TypeOK' /\ IInv'
<1>1. /\ CallsOK /\ p \in Callers /\ At(p, "commit") /\ job' = job /\ lost' = lost
      /\ UNCHANGED <<resource, asset, clip, made, left, retries, renders>>
  BY Parts DEF TypeOK, Callers, CommitDecision
<1>2. RowTypes' /\ RowsKept
  <2>1. Decision(p) \in StatusesOf("ClipCandidate")
    BY ClipStatuses DEF Decision
  <2>2. candidate \in Candidate
    BY DEF TypeOK, RowTypes
  <2>3. candidate' \in Candidate /\ candidate'.id = candidate.id
    BY <2>1, <2>2, Moving DEF CommitDecision
  <2> QED
    BY <1>1, <2>3 DEF TypeOK, RowTypes, RowsKept
<1>3. /\ left.faults \in 0..MaxFaults /\ left.decisions \in Nat /\ approvals \in Nat
      /\ left.requests \in Nat /\ retries \in Nat
      /\ renders \in Nat /\ Cardinality(Owed) \in Nat /\ IsFiniteSet(Owed)
      /\ Cardinality(Owed') \in Nat
  BY OwedIsFinite, OwedStaysFinite, ClipAssumption DEF TypeOK, CountTypes, MaxRenders
<1>4. CASE p = Approve /\ Matches(p, call[p].id)
  <2>1. Goes(Approve, "enqueue") /\ Others(Approve) /\ approvals' = approvals + 1
    BY <1>1, <1>4, Stepping DEF CommitDecision, Steps, Goes
  <2>2. approvals + left.decisions < MaxDecisions
    BY <1>1, <1>4 DEF IInv, PaidInv
  <2>3. CountTypes'
    BY <1>1, <1>3, <2>1, <2>2, ClipAssumption DEF TypeOK, CountTypes
  <2>4. Owed' \subseteq Owed \cup {<<0, "approved">>}
    <3>1. ASSUME NEW i \in Ids
          PROVE  (First(i)' => First(i)) /\ (Again(i)' => Again(i))
      <4>1. call'[Render(i)] = call[Render(i)]
        BY <2>1, Kinds, Distinct DEF Others, Callers
      <4> QED
        BY <4>1, <1>1 DEF First, Again, Waiting, AtOne
    <3> DEFINE Y == {}
               X == {<<0, "approved">>}
    <3>2. \A o : o \notin Y
      OBVIOUS
    <3>3. <<0, "approved">> \in X
      OBVIOUS
    <3> HIDE DEF X, Y
    <3>4. Owed' \subseteq (Owed \ Y) \cup X
      BY <3>1, <3>2, <3>3, OwedMoves
    <3> QED
      BY <3>2, <3>4 DEF X
  <2>5. Cardinality(Owed') <= Cardinality(Owed) + 1
    BY <1>3, <2>4, Counting
  <2>6. PaidInv'
    <3> DEFINE n == Cardinality(Owed)
               m == Cardinality(Owed')
    <3>1. /\ n \in Nat /\ m \in Nat /\ m <= n + 1
          /\ renders + n <= approvals + retries + (MaxFaults - left.faults)
          /\ retries + left.requests <= MaxRequests
      BY <1>3, <2>5 DEF IInv, PaidInv
    <3> HIDE DEF n, m
    <3>2. renders + m <= (approvals + 1) + retries + (MaxFaults - left.faults)
      BY <3>1, <1>3, ClipAssumption
    <3>3. renders' + m <= approvals' + retries' + (MaxFaults - left'.faults)
      BY <3>2, <2>1, <1>1
    <3>4. /\ approvals' + left'.decisions <= MaxDecisions
          /\ retries' + left'.requests <= MaxRequests
      BY <1>1, <1>3, <2>1, <2>2, <3>1, ClipAssumption
    <3>5. ~ At(Approve, "commit")'
      BY <2>1 DEF Goes, At
    <3> QED
      BY <3>3, <3>4, <3>5 DEF PaidInv, m
  <2>7. call'[Approve].id # 0 /\ call'[Approve].pc \in Pcs(Approve[1])
    BY <1>1, <1>4, <2>1, PcsOf DEF IInv, RefInv, At, Goes
  <2> QED
    BY <1>1, <1>2, <1>4, <2>1, <2>3, <2>6, <2>7, RequestStep
<1>5. CASE ~ (p = Approve /\ Matches(p, call[p].id))
  <2>1. Return(p) /\ approvals' = approvals
    BY <1>5 DEF CommitDecision
  <2>2. Others(p) /\ call'[p].pc = "idle"
    BY <1>1, <2>1, Returning, IdleCall
  <2>3. CountTypes'
    BY <1>1, <2>1 DEF TypeOK, CountTypes
  <2>4. PaidInv'
    <3>1. Owed' \subseteq Owed
      BY <1>1, <2>2, OwedByRequest DEF TypeOK, At
    <3>2. At(Approve, "commit")' => At(Approve, "commit")
      BY <2>2, Kinds DEF At, Others, Callers
    <3> QED
      BY <1>1, <1>3, <2>1, <2>3, <3>1, <3>2, Account DEF IInv, TypeOK
  <2> QED
    BY <1>1, <1>2, <2>2, <2>3, <2>4, CommonPcs, RequestStep DEF At
<1> QED
  BY <1>4, <1>5

LEMMA EnqueueRenderStep ==
  ASSUME TypeOK, IInv, EnqueueRender
  PROVE  TypeOK' /\ IInv'
<1>1. /\ JobsOK /\ CallsOK /\ Approve \in Callers /\ call[Approve].pc = "enqueue"
      /\ Return(Approve) /\ UNCHANGED <<rows, left, ghosts>>
  BY Parts, Kinds DEF TypeOK, Callers, EnqueueRender, At
<1>2. PICK i \in Ids : i = call[Approve].id
  BY <1>1, CallFields, ClipAssumption DEF IInv, RefInv, At, Ids
<1>3. Others(Approve) /\ call'[Approve].pc = "idle"
  BY <1>1, Returning, IdleCall
<1>4. /\ Render(i) \in Jobs /\ Render(i) # Approve /\ Render(i) \notin Early
      /\ Approve \notin Jobs /\ Approve \notin Early
      /\ Render(i) # Transcribe /\ Render(i)[1] = "render"
      /\ \A k \in Ids : /\ Render(i) # Compliance(k) /\ Approve # Compliance(k)
                        /\ Approve # Render(k) /\ (Render(i) = Render(k) => i = k)
  BY Kinds, Distinct, KindOf DEF Early
<1>5. Reran(Render(i))
  BY <1>1, <1>2, <1>4, Rerunning DEF EnqueueRender
<1>6. /\ OtherJobs(Render(i)) /\ (job'[Render(i)].state = "active" <=> job[Render(i)].state = "active")
      /\ job[Render(i)].state = "queued" => job'[Render(i)].state = "queued"
      /\ job'[Render(i)].run = "NONE"
  BY <1>5 DEF Reran, Stands
<1>7. RowTypes' /\ RowsKept
  BY <1>1 DEF rows, TypeOK, RowTypes, RowsKept
<1>8. CountTypes' /\ CountsKept
  BY <1>1, CountsSame DEF ghosts, TypeOK, CountTypes
<1>9. WorkTypes'
  BY <1>1, <1>3, <1>4, <1>6, WorkKept, CommonPcs, Kinds DEF TypeOK
<1>10. JobInv'
  BY <1>1, <1>4, <1>5, JobEffects DEF TypeOK, IInv, ghosts
<1>11. ClipInv'
  BY <1>7 DEF IInv, ClipInv, NoClip, RowsKept
<1>12. RefInv'
  <2>1. made.clips \in Nat
    BY ClipAssumption DEF TypeOK, RowTypes
  <2> QED
    BY <1>1, <1>3, <1>4, <1>6, <1>7, <2>1, RefKept DEF IInv, RowsKept, At
<1>13. PaidInv'
  <2>1. ~ At(Approve, "commit")' /\ ~ At(Approve, "enqueue")'
    BY <1>3 DEF At
  <2>2. <<0, "approved">> \in Owed
    BY <1>1 DEF Owed, At
  <2> DEFINE y == IF job[Render(i)].state = "active" THEN <<i, "again">> ELSE <<i, "first">>
             Y == {<<0, "approved">>}
             X == {y}
  <2>3. ASSUME NEW k \in Ids, k # i
        PROVE  (First(k)' => First(k)) /\ (Again(k)' => Again(k))
    <3>1. job'[Render(k)] = job[Render(k)] /\ call'[Render(k)] = call[Render(k)]
      BY <2>3, <1>3, <1>4, <1>6, Kinds, Distinct DEF Others, OtherJobs, Callers
    <3> QED
      BY <3>1 DEF First, Again, Waiting, AtOne
  <2>4. /\ First(i)' => First(i) \/ y = <<i, "first">>
        /\ Again(i)' => Again(i) \/ y = <<i, "again">>
    <3>1. call'[Render(i)] = call[Render(i)]
      BY <1>3, <1>4 DEF Others, Callers
    <3> QED
      BY <3>1, <1>6 DEF First, Again, Waiting, AtOne
  <2>5. \A k \in Ids : <<k, "first">> \notin Y /\ <<k, "again">> \notin Y
    OBVIOUS
  <2>6. Owed' \subseteq (Owed \ Y) \cup X
    <3>1. y \in X
      OBVIOUS
    <3> HIDE DEF X, Y, y
    <3>2. \A k \in Ids : First(k)' => (First(k) /\ <<k, "first">> \notin Y) \/ <<k, "first">> \in X
      BY <2>3, <2>4, <2>5, <3>1
    <3>3. \A k \in Ids : Again(k)' => (Again(k) /\ <<k, "again">> \notin Y) \/ <<k, "again">> \in X
      BY <2>3, <2>4, <2>5, <3>1
    <3> QED
      BY <2>1, <3>2, <3>3, OwedMoves
  <2>7. Owed' \subseteq (Owed \ {<<0, "approved">>}) \cup {y}
    BY <2>6
  <2> HIDE DEF y
  <2> QED
    BY <1>1, <1>8, <2>1, <2>2, <2>7, Account DEF IInv, TypeOK, CountsKept
<1>14. CoverInv'
  BY <1>1, <1>3, <1>4, <1>6, <1>7, <1>8, LateStep DEF IInv, RowsKept, CountsKept
<1>15. EvaluationInv'
  <2>1. ASSUME NEW c \in Ids, Evaluated(c, i)
        PROVE  Evaluated(c, i)'
    <3>1. call'[Render(i)] = call[Render(i)] /\ job'[Compliance(c)] = job[Compliance(c)]
      BY <1>3, <1>4, <1>6, Kinds, Distinct DEF Others, OtherJobs, Callers
    <3>2. Waiting(Render(i)) => Waiting(Render(i))'
      BY <1>6 DEF Waiting
    <3> QED
      BY <2>1, <3>1, <3>2 DEF Evaluated, AtOne
  <2> QED
    BY <1>1, <1>3, <1>4, <1>6, <1>7, <1>8, <2>1, EvaluationKept
       DEF IInv, TypeOK, RowsKept, CountsKept
<1> QED
  BY <1>7, <1>8, <1>9, <1>10, <1>11, <1>12, <1>13, <1>14, <1>15 DEF TypeOK, IInv

LEMMA EnqueueRenderFailsStep ==
  ASSUME TypeOK, IInv, EnqueueRenderFails
  PROVE  TypeOK' /\ IInv'
<1>1. /\ CallsOK /\ Approve \in Callers /\ Approve \in Requests /\ job' = job
      /\ Return(Approve) /\ lost'
  BY Parts, Kinds DEF TypeOK, Callers, EnqueueRenderFails
<1>2. Others(Approve) /\ call'[Approve].pc = "idle"
  BY <1>1, Returning, IdleCall
<1>3. RowTypes' /\ RowsKept
  BY DEF EnqueueRenderFails, rows, TypeOK, RowTypes, RowsKept
<1>4. CountTypes' /\ CountsKept
  BY <1>1, FaultSpent DEF EnqueueRenderFails, TypeOK
<1>5. PaidInv'
  <2>1. Owed' \subseteq Owed
    BY <1>1, <1>2, OwedByRequest DEF TypeOK, At
  <2>2. ~ At(Approve, "commit")'
    BY <1>2 DEF At
  <2> QED
    BY <1>4, <2>1, <2>2, Account DEF IInv, TypeOK, CountsKept
<1> QED
  BY <1>1, <1>2, <1>3, <1>4, <1>5, CommonPcs, RequestStep DEF At, CountsKept

LEMMA PublishStep ==
  ASSUME TypeOK, IInv, Publish
  PROVE  TypeOK' /\ IInv'
<1>1. /\ job' = job /\ call' = call /\ UNCHANGED ghosts
      /\ UNCHANGED <<resource, asset, candidate, made>>
  BY DEF Publish
<1>2. /\ clip' \in Clip /\ clip'.published /\ clip'.id = clip.id /\ clip'.of = clip.of
      /\ clip.id # 0
  BY DEF Publish, TypeOK, RowTypes, Clip
<1>3. RowTypes'
  BY <1>1, <1>2 DEF TypeOK, RowTypes
<1>4. /\ CountTypes' /\ left'.faults <= left.faults /\ left'.decisions <= left.decisions
      /\ left'.requests <= left.requests
  <2>1. left.faults \in Int /\ left.decisions \in Int /\ left.requests \in Int
    BY ClipAssumption DEF TypeOK, CountTypes
  <2> QED
    BY <1>1, <2>1, Spending DEF Publish, TypeOK, CountTypes, Budgets, ghosts
<1>5. WorkTypes' /\ JobInv'
  BY <1>1 DEF TypeOK, WorkTypes, IInv, JobInv, Attended, ghosts
<1>6. ClipInv' /\ RefInv' /\ EvaluationInv'
  BY <1>1, <1>2 DEF IInv, ClipInv, RefInv, RenderInv, AtOne, At, EvaluationInv
<1>7. PaidInv'
  <2>1. Owed' = Owed /\ (At(Approve, "commit")' => At(Approve, "commit"))
    BY <1>1 DEF Owed, First, Again, Waiting, AtOne, At
  <2> QED
    BY <1>1, <1>4, <2>1, Account DEF IInv, TypeOK, ghosts
<1>8. CoverInv'
  BY <1>1 DEF IInv, CoverInv, LinkCovered, AssetCovered, TranscriptCovered, RangeCovered, Waiting,
              AtOne, At, ghosts
<1> QED
  BY <1>3, <1>4, <1>5, <1>6, <1>7, <1>8 DEF TypeOK, IInv

LEMMA Stuttering == TypeOK /\ IInv /\ UNCHANGED vars => TypeOK' /\ IInv'
<1> SUFFICES ASSUME TypeOK, IInv, UNCHANGED vars
             PROVE  TypeOK' /\ IInv'
  OBVIOUS
<1>1. TypeOK'
  BY DEF vars, rows, ghosts, TypeOK, RowTypes, WorkTypes, CountTypes
<1>2. JobInv' /\ ClipInv' /\ RefInv'
  BY DEF vars, rows, ghosts, IInv, JobInv, Attended, ClipInv, RefInv, RenderInv, AtOne, At
<1>3. PaidInv'
  BY DEF vars, rows, ghosts, IInv, PaidInv, Owed, First, Again, Waiting, AtOne, At
<1>4. CoverInv' /\ EvaluationInv'
  BY DEF vars, rows, ghosts, IInv, CoverInv, LinkCovered, AssetCovered, TranscriptCovered,
         RangeCovered, EvaluationInv, Found, Evaluated, Waiting, AtOne, At
<1> QED
  BY <1>1, <1>2, <1>3, <1>4 DEF IInv

-----------------------------------------------------------------------------
(* The theorems.                                                            *)

LEMMA Initially == Init => TypeOK /\ IInv
<1> SUFFICES ASSUME Init
             PROVE  TypeOK /\ IInv
  OBVIOUS
<1>1. /\ Idle \in Call /\ Idle.pc = "idle"
      /\ \A p \in Callers : call[p] = Idle
      /\ call \in [Callers -> Call]
  BY IdleCall DEF Init, Callers
<1>2. /\ \A j \in Jobs : job[j].run = "NONE" /\ job[j].left \in 0..Attempts
                           /\ job[j].state = (IF j = Ingest THEN "queued" ELSE "absent")
      /\ job[Ingest].left = Attempts
      /\ job \in [Jobs -> Job]
  BY ClipAssumption, Kinds DEF Init, Job, Fresh, Absent
<1>3. RowTypes
  BY ClipAssumption, ClipStatuses
     DEF Init, RowTypes, Resource, Candidate, Clip, NoCandidate, NoClip, MaxRenders
<1>4. WorkTypes
  BY <1>1, <1>2, CommonPcs DEF WorkTypes, Callers
<1>5. CountTypes
  <2>1. /\ MaxRequests \in 0..MaxRequests /\ MaxDecisions \in 0..MaxDecisions
        /\ MaxFaults \in 0..MaxFaults /\ MaxEvents \in 0..MaxEvents
    BY ClipAssumption
  <2>2. 0 \in 0..MaxDecisions /\ 0 \in 0..MaxRenders
    BY ClipAssumption DEF MaxRenders
  <2>3. 0 \in 0..MaxRequests
    BY ClipAssumption
  <2> QED
    BY <2>1, <2>2, <2>3 DEF Init, CountTypes
<1>6. JobInv
  BY <1>2, Kinds, Distinct, KindOf, AttemptBounds DEF JobInv, Attended
<1>7. ClipInv
  BY ClipAssumption DEF Init, ClipInv, NoClip
<1>8. RefInv
  BY <1>1, <1>2, Kinds, Distinct DEF RefInv, RenderInv, AtOne, At, Ids, Callers
<1>9. PaidInv
  <2>1. \A i \in Ids : ~ First(i) /\ ~ Again(i)
    BY <1>1, <1>2, Kinds, Distinct DEF First, Again, Waiting, AtOne, Callers
  <2>2. ~ At(Approve, "enqueue") /\ ~ At(Approve, "commit")
    BY <1>1, Kinds DEF At, Callers
  <2>3. Owed = {}
    BY <2>1, <2>2 DEF Owed, Ids
  <2>4. Cardinality(Owed) = 0
    BY <2>3, FS_EmptySet
  <2> QED
    BY <2>2, <2>4, ClipAssumption DEF Init, PaidInv
<1>10. CoverInv
  BY <1>1, <1>2, Kinds, Distinct
     DEF Init, CoverInv, LinkCovered, AssetCovered, TranscriptCovered, RangeCovered, At, Callers
<1>11. EvaluationInv
  BY DEF Init, EvaluationInv, NoClip
<1> QED
  BY <1>3, <1>4, <1>5, <1>6, <1>7, <1>8, <1>9, <1>10, <1>11 DEF TypeOK, IInv

LEMMA InvariantStep == TypeOK /\ IInv /\ [Next]_vars => TypeOK' /\ IInv'
<1> SUFFICES ASSUME TypeOK, IInv, [Next]_vars
             PROVE  TypeOK' /\ IInv'
  OBVIOUS
<1>1. CASE \E j \in Jobs : Fails(j) \/ Crash(j)
  BY <1>1, FailsStep, CrashStep
<1>2. CASE \E j \in {Ingest, Transcribe, Generate} \cup {Compliance(c) : c \in 1..MaxIds} :
             Take(j) \/ Skip(j) \/ End(j)
  BY <1>2, Kinds, TakeStep, SkipStep, EndStep DEF Ids
<1>3. CASE ReadResources \/ Download \/ MarkDownloaded \/ AnnounceAsset
  BY <1>3, IngestSteps
<1>4. CASE WriteTranscript \/ AnnounceTranscript \/ DropUnrendered \/ UpsertCandidate
  BY <1>4, TranscribeSteps, GenerateSteps
<1>5. CASE Withdraw \/ \E j \in Jobs : Request(j)
  BY <1>5, WithdrawStep, RequestSteps
<1>6. CASE RenderJob
  <2>1. PICK i \in Ids :
          \/ Take(Render(i)) \/ Skip(Render(i)) \/ StartRender(i)
          \/ CheckTransition(i, "check", "RENDERING", "mark", "replace")
          \/ CommitTransition(i, "mark", "RENDERING", "replace")
          \/ ReplacePrior(i) \/ UpsertClip(i)
          \/ CheckTransition(i, "finish", "RENDERED", "done", "announce")
          \/ CommitTransition(i, "done", "RENDERED", "announce")
          \/ AnnounceRender(i) \/ End(Render(i))
    BY <1>6 DEF RenderJob, Ids
  <2>2. CASE Take(Render(i)) \/ Skip(Render(i)) \/ End(Render(i))
    BY <2>2, Kinds, TakeStep, SkipStep, EndStep
  <2>3. CASE StartRender(i) \/ ReplacePrior(i) \/ UpsertClip(i) \/ AnnounceRender(i)
    BY <2>3, StartRenderSteps, ReplaceStep, UpsertStep, AnnounceRenderStep
  <2>4. CASE \/ CheckTransition(i, "check", "RENDERING", "mark", "replace")
             \/ CommitTransition(i, "mark", "RENDERING", "replace")
             \/ CheckTransition(i, "finish", "RENDERED", "done", "announce")
             \/ CommitTransition(i, "done", "RENDERED", "announce")
    BY <2>4, TransitionSteps
  <2> QED
    BY <2>1, <2>2, <2>3, <2>4
<1>7. CASE \E i \in 1..MaxIds : RefuseRender(i)
  BY <1>7, StartRenderSteps DEF Ids
<1>8. CASE \E c \in 1..MaxIds : StartEvaluation(c) \/ WriteFindings(c)
  BY <1>8, StartEvaluationStep, WriteFindingsStep DEF Ids
<1>9. CASE \E p \in Requests : Decide(p) \/ CommitDecision(p)
  BY <1>9, DecideStep, CommitDecisionStep
<1>10. CASE EnqueueRender \/ EnqueueRenderFails \/ Publish
  BY <1>10, EnqueueRenderStep, EnqueueRenderFailsStep, PublishStep
<1>11. CASE UNCHANGED vars
  BY <1>11, Stuttering
<1> QED
  BY <1>1, <1>2, <1>3, <1>4, <1>5, <1>6, <1>7, <1>8, <1>9, <1>10, <1>11 DEF Next

\* Together the types and the invariant are inductive: each is needed for the other, as
\* the number of renders stays in its type only because every render is paid for.
THEOREM Invariance == Spec => [](TypeOK /\ IInv)
<1>1. Init => TypeOK /\ IInv
  BY Initially
<1>2. TypeOK /\ IInv /\ [Next]_vars => (TypeOK /\ IInv)'
  BY InvariantStep
<1> QED
  BY <1>1, <1>2, PTL DEF Spec

\* Every row, job and call keeps to its type; a job's worker is at a step of its stage
\* exactly while the job is active.
THEOREM TypeCorrect == Spec => []TypeOK
<1>1. TypeOK /\ IInv => TypeOK
  OBVIOUS
<1> QED
  BY <1>1, Invariance, PTL

\* However approvals, rejections, regenerations, retries, redeliveries and crashes
\* interleave, there are at most as many renders as approvals, retries of a render job and
\* faults: the approve route, jobs/retry with the replay of dead letters, and renderCandidate.
THEOREM RendersArePaidFor == Spec => []RendersPaidFor
<1>1. TypeOK /\ IInv => RendersPaidFor
  <2> SUFFICES ASSUME TypeOK, IInv
               PROVE  RendersPaidFor
    OBVIOUS
  <2> DEFINE n == Cardinality(Owed)
  <2>1. n \in Nat /\ renders + n <= approvals + retries + (MaxFaults - left.faults)
    BY OwedIsFinite DEF IInv, PaidInv
  <2>2. renders \in Nat /\ approvals \in Nat /\ retries \in Nat /\ left.faults \in 0..MaxFaults
    BY ClipAssumption DEF TypeOK, CountTypes, MaxRenders
  <2> HIDE DEF n
  <2> QED
    BY <2>1, <2>2, ClipAssumption DEF RendersPaidFor
<1> QED
  BY <1>1, Invariance, PTL

\* Once everything is quiet, a permitted and downloaded asset is transcribed and has its
\* candidate, unless a job was given up: ingestCampaignResources, transcribeAsset and
\* generateClipCandidates, whatever was retried.
THEOREM CandidatesAreMade == Spec => []AssetsBecomeCandidates
<1>1. TypeOK /\ IInv => AssetsBecomeCandidates
  <2> SUFFICES ASSUME TypeOK, IInv, Quiet, ~ lost, asset # "none", resource.permitted,
                      resource.status # "FAILED"
               PROVE  asset = "transcribed" /\ candidate.id # 0
    BY DEF AssetsBecomeCandidates
  <2>1. LinkCovered /\ AssetCovered /\ TranscriptCovered /\ RangeCovered
    BY DEF IInv, CoverInv
  <2>2. ASSUME NEW j \in Early
        PROVE  ~ Waiting(j) /\ call[j].pc = "idle" /\ job[j].state \in {"absent", "kept"}
    BY EarlyIsEarly, JobFields, Parts
       DEF Quiet, At, Waiting, TypeOK, WorkTypes, Callers
  <2> QED
    BY <2>1, <2>2, EarlyPcs
       DEF LinkCovered, AssetCovered, TranscriptCovered, RangeCovered, AtOne, At
<1> QED
  BY <1>1, Invariance, PTL

\* Once everything is quiet, the findings of an unpublished clip are about the clip as it
\* was rendered last, unless a job was given up or refused: renderCandidate deletes the
\* prior render so that its evaluation is not taken for done.
THEOREM EvaluationsFollow == Spec => []EvaluatedAsRendered
<1>1. TypeOK /\ IInv => EvaluatedAsRendered
  <2> SUFFICES ASSUME TypeOK, IInv, Quiet, ~ lost, clip.id # 0, ~ clip.published
               PROVE  clip.checked = clip.content
    BY DEF EvaluatedAsRendered
  <2>1. PICK c \in Ids, i \in Ids : c = clip.id /\ i = clip.of
    BY ClipAssumption DEF IInv, ClipInv, TypeOK, RowTypes, Clip, Ids
  <2>2. Found(c) /\ Evaluated(c, i)
    BY <2>1 DEF IInv, EvaluationInv
  <2>3. /\ Compliance(c) \in Jobs /\ Render(i) \in Jobs /\ Compliance(c)[1] = "compliance"
        /\ call[Render(i)].pc = "idle" /\ call[Compliance(c)].pc = "idle"
        /\ job[Render(i)].state # "queued" /\ job[Compliance(c)].state # "queued"
    BY Kinds, KindOf DEF Quiet, At
  <2>4. job[Compliance(c)].state \in {"absent", "kept"}
    BY <2>3, JobFields, Parts DEF TypeOK, WorkTypes
  <2>5. job[Compliance(c)].state = "kept"
    BY <2>2, <2>3, <2>4 DEF Evaluated, Waiting, AtOne
  <2> QED
    BY <2>1, <2>2, <2>5 DEF Found
<1> QED
  BY <1>1, Invariance, PTL

-----------------------------------------------------------------------------
(* Candidate ranges.                                                        *)

LEMMA LeastIs ==
  ASSUME NEW T \in SUBSET Nat, T # {}
  PROVE  Least(T) \in T /\ \A n \in T : Least(T) <= n
<1> DEFINE Below == {p \in Nat \X Nat : p[1] < p[2]}
<1>1. IsWellFoundedOn(Below, Nat)
  BY NatLessThanWellFounded DEF OpToRel
<1>2. PICK n \in T : \A m \in T : ~ (<<m, n>> \in Below)
  <2> HIDE DEF Below
  <2> QED
    BY <1>1, WFMin
<1>3. ASSUME NEW m \in T
      PROVE  n <= m
  <2>1. m \in Nat /\ n \in Nat
    OBVIOUS
  <2>2. ~ m < n
    BY <1>2, <2>1
  <2> QED
    BY <2>1, <2>2
<1> QED
  BY <1>3 DEF Least

\* The cut points that are far enough from the start of a range, and its end.
Far(cuts, lo, start) == {cut \in cuts : cut - start >= lo}
RangeEnd(cuts, lo, hi, start) ==
  IF Least(Far(cuts, lo, start)) - start <= hi THEN Least(Far(cuts, lo, start)) ELSE start + hi

\* The ranges from a start, where f has those from the starts after it.
RangesBy(f, cuts, lo, hi, start) ==
  IF Far(cuts, lo, start) = {} THEN <<>>
  ELSE <<<<start, RangeEnd(cuts, lo, hi, start)>>>> \o f[RangeEnd(cuts, lo, hi, start)]

LEMMA RangeEnds ==
  ASSUME NEW d \in Nat, NEW cuts \in SUBSET (1..d), NEW lo \in Nat \ {0}, NEW hi \in Nat, lo <= hi,
         NEW start \in 0..d, Far(cuts, lo, start) # {}
  PROVE  /\ RangeEnd(cuts, lo, hi, start) \in 0..d
         /\ RangeEnd(cuts, lo, hi, start) - start \in lo..hi
<1> DEFINE far == Far(cuts, lo, start)
           here == Least(far)
<1>1. far \in SUBSET Nat /\ far # {} /\ \A cut \in far : cut \in 1..d /\ cut - start >= lo
  <2>1. far \subseteq cuts /\ \A cut \in far : cut - start >= lo
    BY DEF Far
  <2> HIDE DEF far
  <2>2. \A cut \in cuts : cut \in 1..d
    OBVIOUS
  <2>3. \A cut \in 1..d : cut \in Nat
    OBVIOUS
  <2>4. far # {}
    BY DEF far
  <2> QED
    BY <2>1, <2>2, <2>3, <2>4
<1> HIDE DEF far
<1>2. here \in 1..d /\ here - start >= lo
  BY <1>1, LeastIs
<1> HIDE DEF here
<1>3. RangeEnd(cuts, lo, hi, start) = IF here - start <= hi THEN here ELSE start + hi
  BY DEF RangeEnd, far, here
<1> QED
  BY <1>2, <1>3

\* The ranges of the later starts decide those of a start.
LEMMA RangesExist ==
  ASSUME NEW d \in Nat, NEW cuts \in SUBSET (1..d), NEW lo \in Nat \ {0}, NEW hi \in Nat, lo <= hi
  PROVE  \E f : f = [s \in 0..d |-> RangesBy(f, cuts, lo, hi, s)]
<1> DEFINE Upto(f, k) == \A s \in 0..d : d - s < k => f[s] = RangesBy(f, cuts, lo, hi, s)
           Bad == {k \in Nat : ~ \E f : Upto(f, k)}
<1>1. Bad = {}
  <2> SUFFICES ASSUME Bad # {}
               PROVE  FALSE
    OBVIOUS
  <2>1. PICK n \in Bad : \A k \in Bad : n <= k
    <3>1. Bad \in SUBSET Nat
      OBVIOUS
    <3> HIDE DEF Bad
    <3> QED
      BY <3>1, LeastIs
  <2>2. n \in Nat /\ ~ \E f : Upto(f, n)
    OBVIOUS
  <2>3. n # 0
    <3>1. \A s \in 0..d : ~ d - s < 0
      OBVIOUS
    <3>2. Upto(<<>>, 0)
      BY <3>1
    <3> HIDE DEF Upto
    <3> QED
      BY <2>2, <3>2
  <2>4. n - 1 \in Nat /\ n - 1 \notin Bad
    <3> HIDE DEF Bad
    <3> QED
      BY <2>1, <2>2, <2>3
  <2>5. PICK f : Upto(f, n - 1)
    BY <2>4
  <2> DEFINE g == [s \in 0..d |-> RangesBy(f, cuts, lo, hi, s)]
  <2>6. ASSUME NEW s \in 0..d, d - s < n
        PROVE  g[s] = RangesBy(g, cuts, lo, hi, s)
    <3> DEFINE e == RangeEnd(cuts, lo, hi, s)
    <3>1. g[s] = RangesBy(f, cuts, lo, hi, s)
      OBVIOUS
    <3>2. CASE Far(cuts, lo, s) = {}
      <4> HIDE DEF g
      <4> QED
        BY <3>1, <3>2 DEF RangesBy
    <3>3. CASE Far(cuts, lo, s) # {}
      <4>1. e \in 0..d /\ e - s \in lo..hi
        BY <3>3, RangeEnds
      <4> HIDE DEF e
      <4>2. d - e < n - 1
        BY <2>2, <2>6, <4>1
      <4>3. f[e] = RangesBy(f, cuts, lo, hi, e) /\ g[e] = RangesBy(f, cuts, lo, hi, e)
        BY <2>5, <4>1, <4>2
      <4> HIDE DEF g, Upto
      <4> QED
        BY <3>1, <3>3, <4>3 DEF RangesBy, e
    <3> QED
      BY <3>2, <3>3
  <2> HIDE DEF g
  <2>7. Upto(g, n)
    BY <2>6
  <2> HIDE DEF Upto
  <2> QED
    BY <2>2, <2>7
<1>2. PICK f : Upto(f, d + 1)
  <2>1. d + 1 \in Nat
    OBVIOUS
  <2> HIDE DEF Upto
  <2> QED
    BY <1>1, <2>1
<1> DEFINE g == [s \in 0..d |-> RangesBy(f, cuts, lo, hi, s)]
<1>3. \A s \in 0..d : f[s] = RangesBy(f, cuts, lo, hi, s)
  BY <1>2
<1>4. ASSUME NEW s \in 0..d
      PROVE  RangesBy(f, cuts, lo, hi, s) = RangesBy(g, cuts, lo, hi, s)
  <2>1. CASE Far(cuts, lo, s) = {}
    <3> HIDE DEF g
    <3> QED
      BY <2>1 DEF RangesBy
  <2>2. CASE Far(cuts, lo, s) # {}
    <3> DEFINE e == RangeEnd(cuts, lo, hi, s)
    <3>1. e \in 0..d
      BY <2>2, RangeEnds
    <3> HIDE DEF e
    <3>2. g[e] = f[e]
      BY <1>3, <3>1
    <3> HIDE DEF g
    <3> QED
      BY <2>2, <3>2 DEF RangesBy, e
  <2> QED
    BY <2>1, <2>2
<1>5. g = [s \in 0..d |-> RangesBy(g, cuts, lo, hi, s)]
  <2>1. g = [s \in 0..d |-> RangesBy(f, cuts, lo, hi, s)]
    OBVIOUS
  <2> HIDE DEF g
  <2> QED
    BY <1>4, <2>1
<1> HIDE DEF g
<1> QED
  BY <1>5

\* What the recursion in Cut computes.
LEMMA CutIs ==
  ASSUME NEW d \in Nat, NEW cuts \in SUBSET (1..d), NEW target,
         NEW lo \in Nat \ {0}, NEW hi \in Nat, lo <= hi,
         lo = Larger(1, target.min), hi = Larger(lo, target.max)
  PROVE  \E f : f = [s \in 0..d |-> RangesBy(f, cuts, lo, hi, s)] /\ Cut(d, cuts, target) = f[0]
<1> DEFINE from == CHOOSE f : f = [s \in 0..d |-> RangesBy(f, cuts, lo, hi, s)]
<1>1. from = [s \in 0..d |-> RangesBy(from, cuts, lo, hi, s)]
  BY RangesExist
<1>2. Cut(d, cuts, target) = from[0]
  BY DEF Cut, RangesBy, RangeEnd, Far
<1> HIDE DEF from
<1> QED
  BY <1>1, <1>2

\* Where a range starts that follows the ones before it.
StartOf(ranges, s, i) == IF i = 1 THEN s ELSE ranges[i - 1][2]

\* Ranges that follow each other from s on, each as long as the target asks, and leave
\* less than the minimum of a duration d.
Tiles(ranges, s, d, lo, hi) ==
  /\ ranges \in Seq((0..d) \X (0..d))
  /\ \A i \in 1..Len(ranges) :
       /\ ranges[i][1] = StartOf(ranges, s, i)
       /\ ranges[i][2] - ranges[i][1] \in lo..hi
  /\ StartOf(ranges, s, Len(ranges) + 1) \in (d - lo + 1)..d

LEMMA TilesAfter ==
  ASSUME NEW d \in Nat, NEW lo \in Nat \ {0}, NEW hi \in Nat, NEW s \in 0..d, NEW e \in 0..d,
         e - s \in lo..hi, NEW rest, Tiles(rest, e, d, lo, hi)
  PROVE  Tiles(<<<<s, e>>>> \o rest, s, d, lo, hi)
<1> DEFINE P == (0..d) \X (0..d)
           first == <<<<s, e>>>>
           all == first \o rest
<1>1. first \in Seq(P) /\ Len(first) = 1 /\ first[1] = <<s, e>>
  OBVIOUS
<1>2. rest \in Seq(P) /\ Len(rest) \in Nat
  BY LenProperties DEF Tiles
<1> HIDE DEF P, first
<1>3. /\ all \in Seq(P) /\ Len(all) = Len(rest) + 1
      /\ all[1] = <<s, e>>
      /\ \A i \in 2..Len(all) : all[i] = rest[i - 1]
  <2>1. /\ all \in Seq(P) /\ Len(all) = Len(first) + Len(rest)
        /\ \A i \in 1..(Len(first) + Len(rest)) :
             all[i] = IF i <= Len(first) THEN first[i] ELSE rest[i - Len(first)]
    BY <1>1, <1>2, ConcatProperties
  <2> HIDE DEF all
  <2> QED
    BY <1>1, <1>2, <2>1
<1> HIDE DEF all
<1>4. \A i \in 2..(Len(all) + 1) : StartOf(all, s, i) = StartOf(rest, e, i - 1)
  <2> SUFFICES ASSUME NEW i \in 2..(Len(all) + 1)
               PROVE  StartOf(all, s, i) = StartOf(rest, e, i - 1)
    OBVIOUS
  <2>1. CASE i = 2
    BY <1>3, <2>1 DEF StartOf
  <2>2. CASE i # 2
    <3>1. i - 1 \in 2..Len(all) /\ i # 1 /\ i - 1 # 1
      BY <1>2, <1>3, <2>2
    <3>2. all[i - 1] = rest[(i - 1) - 1]
      BY <1>3, <3>1
    <3> QED
      BY <3>1, <3>2 DEF StartOf
  <2> QED
    BY <2>1, <2>2
<1>5. ASSUME NEW i \in 1..Len(all)
      PROVE  all[i][1] = StartOf(all, s, i) /\ all[i][2] - all[i][1] \in lo..hi
  <2>1. CASE i = 1
    BY <1>3, <2>1 DEF StartOf
  <2>2. CASE i # 1
    <3>1. i \in 2..Len(all) /\ i \in 2..(Len(all) + 1) /\ i - 1 \in 1..Len(rest)
      BY <1>2, <1>3, <2>2
    <3>2. /\ rest[i - 1][1] = StartOf(rest, e, i - 1)
          /\ rest[i - 1][2] - rest[i - 1][1] \in lo..hi
      BY <3>1 DEF Tiles
    <3> QED
      BY <1>3, <1>4, <3>1, <3>2
  <2> QED
    BY <2>1, <2>2
<1>6. StartOf(all, s, Len(all) + 1) \in (d - lo + 1)..d
  <2>1. Len(all) + 1 \in 2..(Len(all) + 1) /\ (Len(all) + 1) - 1 = Len(rest) + 1
    BY <1>2, <1>3
  <2>2. StartOf(rest, e, Len(rest) + 1) \in (d - lo + 1)..d
    BY DEF Tiles
  <2> QED
    BY <1>4, <2>1, <2>2
<1> QED
  BY <1>3, <1>5, <1>6 DEF Tiles, P, all, first

\* Cutting at scenes: what is left at the end is less than the minimum, as the end of the
\* asset is a cut point itself.
LEMMA CutTiles ==
  ASSUME NEW d \in Nat, NEW cuts \in SUBSET (1..d), d \in cuts, NEW target,
         NEW lo \in Nat \ {0}, NEW hi \in Nat, lo <= hi,
         lo = Larger(1, target.min), hi = Larger(lo, target.max)
  PROVE  Tiles(Cut(d, cuts, target), 0, d, lo, hi)
<1>1. PICK f : /\ f = [s \in 0..d |-> RangesBy(f, cuts, lo, hi, s)]
               /\ Cut(d, cuts, target) = f[0]
  BY CutIs
<1>2. \A s \in 0..d : f[s] = RangesBy(f, cuts, lo, hi, s)
  BY <1>1
<1> DEFINE Bad == {d - s : s \in {t \in 0..d : ~ Tiles(f[t], t, d, lo, hi)}}
<1>3. ASSUME NEW s \in 0..d, \A t \in 0..d : d - t < d - s => Tiles(f[t], t, d, lo, hi)
      PROVE  Tiles(f[s], s, d, lo, hi)
  <2>1. CASE Far(cuts, lo, s) = {}
    <3>1. f[s] = <<>>
      BY <1>2, <2>1 DEF RangesBy
    <3>2. d - s < lo
      BY <2>1 DEF Far
    <3>3. <<>> \in Seq((0..d) \X (0..d)) /\ Len(<<>>) = 0
      OBVIOUS
    <3>4. StartOf(<<>>, s, 0 + 1) \in (d - lo + 1)..d
      BY <3>2 DEF StartOf
    <3>5. Tiles(<<>>, s, d, lo, hi)
      BY <3>3, <3>4 DEF Tiles
    <3> QED
      BY <3>1, <3>5
  <2>2. CASE Far(cuts, lo, s) # {}
    <3> DEFINE e == RangeEnd(cuts, lo, hi, s)
    <3>1. e \in 0..d /\ e - s \in lo..hi
      BY <2>2, RangeEnds
    <3>2. f[s] = <<<<s, e>>>> \o f[e]
      BY <1>2, <2>2 DEF RangesBy
    <3> HIDE DEF e
    <3>3. Tiles(f[e], e, d, lo, hi)
      BY <1>3, <3>1
    <3> QED
      BY <3>1, <3>2, <3>3, TilesAfter
  <2> QED
    BY <2>1, <2>2
<1>4. Bad = {}
  <2> SUFFICES ASSUME Bad # {}
               PROVE  FALSE
    OBVIOUS
  <2>1. PICK n \in Bad : \A k \in Bad : n <= k
    <3>1. Bad \in SUBSET Nat
      OBVIOUS
    <3> HIDE DEF Bad
    <3> QED
      BY <3>1, LeastIs
  <2>2. PICK s \in 0..d : ~ Tiles(f[s], s, d, lo, hi) /\ n = d - s
    OBVIOUS
  <2>3. ASSUME NEW t \in 0..d, d - t < d - s
        PROVE  Tiles(f[t], t, d, lo, hi)
    <3> SUFFICES ASSUME ~ Tiles(f[t], t, d, lo, hi)
                 PROVE  FALSE
      OBVIOUS
    <3>1. d - t \in Bad
      OBVIOUS
    <3> HIDE DEF Bad
    <3> QED
      BY <2>1, <2>2, <2>3, <3>1
  <2> QED
    BY <1>3, <2>2, <2>3
<1>5. Tiles(f[0], 0, d, lo, hi)
  <2>1. 0 \in 0..d
    OBVIOUS
  <2> QED
    BY <1>4, <2>1
<1> QED
  BY <1>1, <1>5

\* Without scenes: every window but the last has the maximum's length, and the last is
\* left out where it is too short.
LEMMA SlideTiles ==
  ASSUME NEW d \in Nat, NEW target, NEW lo \in Nat \ {0}, NEW hi \in Nat, lo <= hi,
         lo = Larger(1, target.min), hi = Larger(lo, target.max)
  PROVE  Tiles(Slide(d, target), 0, d, lo, hi)
<1> DEFINE n == (d - lo + hi) \div hi
           end(k) == IF k * hi < d THEN k * hi ELSE d
           windows == [k \in 1..n |-> <<(k - 1) * hi, end(k)>>]
<1>1. Slide(d, target) = windows
  BY DEF Slide
<1>2. /\ n \in Nat /\ n * hi \in Nat
      /\ n * hi <= d - lo + hi /\ d - lo + hi < n * hi + hi
  <2>1. d - lo + hi \in Nat /\ hi \in Nat \ {0}
    OBVIOUS
  <2>2. ASSUME NEW m \in Nat
        PROVE  m \div hi \in Nat /\ (m \div hi) * hi <= m /\ m < (m \div hi) * hi + hi
    BY <2>1, SMTT(30)
  <2>3. n \in Nat /\ n * hi <= d - lo + hi /\ d - lo + hi < n * hi + hi
    BY <2>1, <2>2
  <2> HIDE DEF n
  <2> QED
    BY <2>3, SMTT(30)
<1> HIDE DEF n
<1>3. ASSUME NEW k \in 1..n
      PROVE  /\ (k - 1) * hi \in Nat /\ k * hi = (k - 1) * hi + hi
             /\ k * hi <= n * hi /\ (k # n => k * hi + hi <= n * hi)
  <2>1. (k - 1) * hi \in Nat /\ k * hi = (k - 1) * hi + hi
    BY <1>2, SMTT(30)
  <2>2. k * hi <= n * hi
    BY <1>2, SMTT(30)
  <2>3. ASSUME k # n
        PROVE  k * hi + hi <= n * hi
    <3>1. k + 1 <= n /\ (k + 1) * hi = k * hi + hi
      BY <1>2, <2>3, SMTT(30)
    <3>2. (k + 1) * hi <= n * hi
      BY <1>2, <3>1, SMTT(30)
    <3> QED
      BY <3>1, <3>2
  <2> QED
    BY <2>1, <2>2, <2>3
<1>4. ASSUME NEW k \in 1..n
      PROVE  /\ end(k) \in 0..d /\ (k - 1) * hi \in 0..d
             /\ end(k) - (k - 1) * hi \in lo..hi
             /\ k # n => end(k) = k * hi
  <2> DEFINE m == k * hi
             q == n * hi
             s == (k - 1) * hi
  <2>1. /\ s \in Nat /\ q \in Nat /\ m = s + hi /\ m <= q /\ (k # n => m + hi <= q)
        /\ q <= d - lo + hi
    BY <1>2, <1>3
  <2>2. end(k) = IF m < d THEN m ELSE d
    OBVIOUS
  <2> HIDE DEF m, q, s, end
  <2>3. s <= d - lo
    BY <2>1
  <2>4. k # n => m <= d - lo
    BY <2>1
  <2>5. CASE m < d
    <3>1. end(k) = m /\ m \in 0..d /\ s \in 0..d /\ m - s = hi
      BY <2>1, <2>2, <2>5
    <3>2. hi \in lo..hi
      OBVIOUS
    <3> QED
      BY <3>1, <3>2 DEF m, s
  <2>6. CASE ~ m < d
    <3>1. k = n
      BY <2>1, <2>4, <2>6
    <3>2. end(k) = d /\ d - s <= hi /\ d - s >= lo /\ s \in 0..d
      BY <2>1, <2>2, <2>3, <2>6
    <3>3. d - s \in lo..hi
      BY <2>1, <3>2
    <3> QED
      BY <3>1, <3>2, <3>3 DEF s
  <2> QED
    BY <2>5, <2>6
<1>5. windows \in Seq((0..d) \X (0..d)) /\ Len(windows) = n
  <2>1. windows \in [1..n -> (0..d) \X (0..d)]
    BY <1>4
  <2> HIDE DEF windows
  <2> QED
    BY <1>2, <2>1
<1>6. \A k \in 1..n : windows[k][1] = (k - 1) * hi /\ windows[k][2] = end(k)
  OBVIOUS
<1> HIDE DEF windows
<1>7. ASSUME NEW k \in 1..n
      PROVE  windows[k][1] = StartOf(windows, 0, k) /\ windows[k][2] - windows[k][1] \in lo..hi
  <2>1. CASE k = 1
    <3>1. (k - 1) * hi = 0
      BY <2>1, SMTT(30)
    <3> QED
      BY <1>4, <1>6, <2>1, <3>1 DEF StartOf
  <2>2. CASE k # 1
    <3>1. k - 1 \in 1..n /\ k - 1 # n
      BY <1>2, <2>2
    <3>2. windows[k - 1][2] = (k - 1) * hi
      BY <1>4, <1>6, <3>1
    <3> HIDE DEF end
    <3> QED
      BY <1>4, <1>6, <2>2, <3>2 DEF StartOf
  <2> QED
    BY <2>1, <2>2
<1>8. StartOf(windows, 0, n + 1) \in (d - lo + 1)..d
  <2>1. CASE n = 0
    <3>1. n * hi = 0
      BY <2>1, SMTT(30)
    <3> QED
      BY <1>2, <2>1, <3>1 DEF StartOf
  <2>2. CASE n # 0
    <3>1. n \in 1..n /\ n + 1 # 1 /\ (n + 1) - 1 = n
      BY <1>2, <2>2
    <3>2. StartOf(windows, 0, n + 1) = end(n)
      BY <1>6, <3>1 DEF StartOf
    <3>3. end(n) \in (d - lo + 1)..d
      BY <1>2
    <3> QED
      BY <3>2, <3>3
  <2> QED
    BY <2>1, <2>2
<1> HIDE DEF end
<1> QED
  BY <1>1, <1>5, <1>7, <1>8 DEF Tiles

LEMMA RangesOfTarget ==
  ASSUME NEW d \in Nat, NEW b \in SUBSET Nat, NEW target,
         target.min \in Nat \ {0}, target.max \in Nat, target.min <= target.max
  PROVE  Tiles(BuildCandidateRanges(d, b, target), 0, d, target.min, target.max)
<1> DEFINE lo == target.min
           hi == target.max
           within == {n \in b : 0 < n /\ n < d}
<1>1. lo = Larger(1, target.min) /\ hi = Larger(lo, target.max)
  BY DEF Larger
<1>2. CASE d = 0
  <2>1. BuildCandidateRanges(d, b, target) = <<>>
    BY <1>2 DEF BuildCandidateRanges
  <2>2. <<>> \in Seq((0..d) \X (0..d)) /\ Len(<<>>) = 0
    OBVIOUS
  <2>3. StartOf(<<>>, 0, 0 + 1) \in (d - lo + 1)..d
    BY <1>2 DEF StartOf
  <2> QED
    BY <2>1, <2>2, <2>3 DEF Tiles
<1>3. CASE d # 0 /\ within = {}
  <2>1. BuildCandidateRanges(d, b, target) = Slide(d, target)
    BY <1>3 DEF BuildCandidateRanges
  <2> HIDE DEF lo, hi
  <2>2. lo \in Nat \ {0} /\ hi \in Nat /\ lo <= hi
    BY DEF lo, hi
  <2>3. Tiles(Slide(d, target), 0, d, lo, hi)
    BY <1>1, <2>2, SlideTiles DEF lo, hi
  <2> QED
    BY <2>1, <2>3 DEF lo, hi
<1>4. CASE d # 0 /\ within # {}
  <2>1. BuildCandidateRanges(d, b, target) = Cut(d, within \cup {d}, target)
    BY <1>4 DEF BuildCandidateRanges
  <2>2. within \cup {d} \in SUBSET (1..d) /\ d \in within \cup {d}
    <3>1. d \in 1..d
      BY <1>4
    <3>2. \A n \in within : n \in Nat /\ 0 < n /\ n < d
      OBVIOUS
    <3>3. \A n \in within : n \in 1..d
      BY <3>2
    <3> HIDE DEF within
    <3> QED
      BY <3>1, <3>3
  <2> HIDE DEF within, lo, hi
  <2>3. lo \in Nat \ {0} /\ hi \in Nat /\ lo <= hi
    BY DEF lo, hi
  <2>4. Tiles(Cut(d, within \cup {d}, target), 0, d, lo, hi)
    BY <1>1, <2>2, <2>3, CutTiles DEF lo, hi
  <2> QED
    BY <2>1, <2>4 DEF lo, hi
<1> QED
  BY <1>2, <1>3, <1>4

\* The length that the ranges are cut to: at most where both ends are stated in order,
\* it is what the rules state.
LEMMA TargetOfRules ==
  ASSUME NEW r \in Rules
  PROVE  /\ DurationTarget(r).min \in Nat \ {0} /\ DurationTarget(r).max \in Nat
         /\ DurationTarget(r).min <= DurationTarget(r).max
         /\ r.min # Null => r.min <= DurationTarget(r).min
         /\ \/ r.max = Null \/ DurationTarget(r).max <= r.max
            \/ r.min \in {0, Null} /\ r.max < DefaultMin
            \/ r.min > r.max
<1> DEFINE min == OrElse(r.min, DefaultMin)
           max == OrElse(r.max, DefaultMax)
<1>1. r.min \in Nat \cup {-1} /\ r.max \in Nat \cup {-1}
  BY RulesAssumption DEF CampaignRules, Maybe, Null
<1>2. /\ DurationTarget(r).min = Larger(1, min)
      /\ DurationTarget(r).max = Larger(IF min = 0 THEN DefaultMin ELSE min, max)
  BY DEF DurationTarget
<1>3. DefaultMin \in Nat \ {0} /\ DefaultMax \in Nat
  BY RulesAssumption
<1> QED
  BY <1>1, <1>2, <1>3 DEF OrElse, Larger, Null

LEMMA RangesOfRules ==
  ASSUME NEW r \in Rules, NEW d \in 0..MaxDuration, NEW b \in SUBSET (1..(MaxDuration - 1))
  PROVE  LET target == DurationTarget(r)
         IN Tiles(BuildCandidateRanges(d, b, target), 0, d, target.min, target.max)
<1> DEFINE target == DurationTarget(r)
<1>1. target.min \in Nat \ {0} /\ target.max \in Nat /\ target.min <= target.max
  BY TargetOfRules
<1>2. MaxDuration \in Nat
  BY RulesAssumption
<1>3. d \in Nat /\ b \in SUBSET Nat
  <2>1. 1..(MaxDuration - 1) \subseteq Nat
    BY <1>2
  <2> QED
    BY <1>2, <2>1
<1> HIDE DEF target
<1>4. Tiles(BuildCandidateRanges(d, b, target), 0, d, target.min, target.max)
  BY <1>1, <1>3, RangesOfTarget
<1> QED
  BY <1>4 DEF target

\* The length of any candidate is between those of the target.
LEMMA LengthsOfRules ==
  ASSUME NEW r \in Rules, NEW length \in CandidateLengths(r)
  PROVE  length \in 0..MaxDuration /\ length \in DurationTarget(r).min..DurationTarget(r).max
<1> DEFINE target == DurationTarget(r)
<1>1. PICK d \in 0..MaxDuration, b \in SUBSET (1..(MaxDuration - 1)) :
        \E i \in DOMAIN BuildCandidateRanges(d, b, target) :
          length = BuildCandidateRanges(d, b, target)[i][2] - BuildCandidateRanges(d, b, target)[i][1]
  <2> DEFINE lengths(d, b) ==
               LET ranges == BuildCandidateRanges(d, b, target)
               IN {ranges[i][2] - ranges[i][1] : i \in DOMAIN ranges}
  <2>1. CandidateLengths(r) =
          UNION {lengths(d, b) : d \in 0..MaxDuration, b \in SUBSET (1..(MaxDuration - 1))}
    BY DEF CandidateLengths
  <2> HIDE DEF lengths
  <2>2. PICK d \in 0..MaxDuration, b \in SUBSET (1..(MaxDuration - 1)) : length \in lengths(d, b)
    BY <2>1
  <2> HIDE DEF target
  <2> QED
    BY <2>2 DEF lengths
<1> DEFINE ranges == BuildCandidateRanges(d, b, target)
<1>2. Tiles(ranges, 0, d, target.min, target.max)
  BY RangesOfRules
<1>3. PICK i \in DOMAIN ranges : length = ranges[i][2] - ranges[i][1]
  BY <1>1
<1>4. MaxDuration \in Nat
  BY RulesAssumption
<1> HIDE DEF ranges, target
<1>5. ranges \in Seq((0..d) \X (0..d)) /\ DOMAIN ranges = 1..Len(ranges)
  BY <1>2, LenProperties DEF Tiles
<1>6. ranges[i][2] - ranges[i][1] \in target.min..target.max
  BY <1>2, <1>3, <1>5 DEF Tiles
<1>7. ranges[i] \in (0..d) \X (0..d)
  BY <1>3, <1>5, ElementOfSeq
<1>8. target.min \in Nat /\ target.max \in Nat
  BY TargetOfRules DEF target
<1>9. length \in 0..MaxDuration
  <2> DEFINE x == ranges[i][1]
             y == ranges[i][2]
  <2>1. x \in 0..d /\ y \in 0..d
    BY <1>7
  <2>2. length = y - x
    BY <1>3
  <2>3. y - x \in target.min..target.max
    BY <1>6
  <2> HIDE DEF x, y
  <2> QED
    BY <1>4, <1>8, <2>1, <2>2, <2>3
<1> QED
  BY <1>3, <1>6, <1>9 DEF target

-----------------------------------------------------------------------------
(* The rules, the records and the clip.                                     *)

LEMMA FieldsOfRules ==
  ASSUME NEW r \in Rules
  PROVE  /\ r.min \in Nat \cup {Null} /\ r.max \in Nat \cup {Null}
         /\ r.deadline \in Nat \cup {Null} /\ r.maxSize \in Nat \cup {Null}
         /\ r.budgetRemaining \in Nat \cup {Null}
         /\ r.phrases \subseteq Element /\ r.mentions \subseteq Element
         /\ r.hashtags \subseteq Element /\ r.logos \subseteq Element
         /\ r.platforms \subseteq Platforms /\ r.accountRequired \in BOOLEAN
         /\ r.publicPost \in BOOLEAN
BY RulesAssumption DEF CampaignRules, Maybe

\* The length that the encoded file of a cut may be found to have.
LEMMA ProbedIs ==
  ASSUME NEW r \in Rules, NEW length \in CandidateLengths(r), NEW duration \in Probed(length)
  PROVE  /\ duration \in 0..(MaxDuration + Rounding)
         /\ length - Rounding <= duration /\ duration <= length + Rounding
<1>1. length \in 0..MaxDuration /\ MaxDuration \in Nat /\ Rounding \in Nat
  BY LengthsOfRules, RulesAssumption
<1>2. duration \in 0..(length + Rounding) /\ duration >= length - Rounding
  BY DEF Probed
<1> QED
  BY <1>1, <1>2

\* Every step keeps the types and what a clip is made of.
LEMMA InitKeeps == RulesInit => RulesInv
<1> SUFFICES ASSUME RulesInit
             PROVE  RulesInv
  OBVIOUS
<1>1. RulesTypeOK
  BY RulesAssumption DEF RulesInit, RulesTypeOK, NoRendering, Null
<1>2. ~ Rendered
  BY DEF RulesInit, Rendered, NoRendering
<1> QED
  BY <1>1, <1>2 DEF RulesInv, MadeInv

LEMMA DeriveKeeps == RulesInv /\ Derive => RulesInv'
<1> SUFFICES ASSUME RulesInv, Derive
             PROVE  RulesInv'
  OBVIOUS
<1> USE DEF RulesInv
<1> DEFINE new == [platforms |-> ToPlatforms(rules.platforms), transformations |-> Transformations,
                   until |-> rules.deadline, status |-> "PROVISIONAL"]
<1>1. new \in Permission
  <2>1. ToPlatforms(rules.platforms) \subseteq Publishable
    BY DEF ToPlatforms, Publishable
  <2>2. rules.deadline \in Maybe(Nat)
    BY FieldsOfRules DEF RulesTypeOK, Maybe
  <2> QED
    BY <2>1, <2>2 DEF Permission
<1> HIDE DEF new
<1>2. records' = Append(records, new) /\ Len(records) < MaxRecords
  BY DEF Derive, new
<1>3. records' \in Seq(Permission) /\ Len(records') <= MaxRecords
  <2>1. records \in Seq(Permission) /\ Len(records) \in Nat /\ MaxRecords \in Nat
    BY LenProperties, RulesAssumption DEF RulesTypeOK
  <2>2. records' \in Seq(Permission) /\ Len(records') = Len(records) + 1
    BY <1>1, <1>2, <2>1, AppendProperties
  <2> QED
    BY <1>2, <2>1, <2>2
<1>4. UNCHANGED <<rules, revisions, time, rendering>>
  BY DEF Derive
<1>5. RulesTypeOK'
  BY <1>3, <1>4 DEF RulesTypeOK
<1>6. MadeInv'
  BY <1>4 DEF MadeInv, Rendered
<1> QED
  BY <1>5, <1>6

LEMMA VerifyKeeps == ASSUME NEW i \in DOMAIN records PROVE RulesInv /\ Verify(i) => RulesInv'
<1> SUFFICES ASSUME RulesInv, Verify(i)
             PROVE  RulesInv'
  OBVIOUS
<1> USE DEF RulesInv
<1>1. /\ records' = [records EXCEPT ![i].status = "VERIFIED"]
      /\ UNCHANGED <<rules, revisions, time, rendering>>
  BY DEF Verify
<1>2. records \in Seq(Permission) /\ Len(records) <= MaxRecords /\ Len(records) \in Nat
      /\ i \in 1..Len(records)
  BY LenProperties DEF RulesTypeOK
<1>3. records[i] \in Permission
  BY <1>2, ElementOfSeq
<1>4. [records[i] EXCEPT !.status = "VERIFIED"] \in Permission
  BY <1>3 DEF Permission
<1>5. records' \in Seq(Permission) /\ Len(records') = Len(records)
  <2>1. records' = [records EXCEPT ![i] = [records[i] EXCEPT !.status = "VERIFIED"]]
    BY <1>1
  <2> QED
    BY <1>2, <1>4, <2>1, ExceptSeq
<1>6. RulesTypeOK'
  BY <1>1, <1>2, <1>5 DEF RulesTypeOK
<1>7. MadeInv'
  BY <1>1 DEF MadeInv, Rendered
<1> QED
  BY <1>6, <1>7

LEMMA RenderKeeps == RulesInv /\ RenderCandidate => RulesInv'
<1> SUFFICES ASSUME RulesInv, RenderCandidate
             PROVE  RulesInv'
  OBVIOUS
<1> USE DEF RulesInv
<1> DEFINE cutAs(duration, hook, bytes) ==
             [duration |-> duration, bytes |-> bytes, applied |-> Overlays(rules), under |-> rules,
              captions |-> [p \in CaptionPlatforms(rules) |-> Caption(p, rules, hook)]]
<1>0. PICK length \in CandidateLengths(rules), hook \in Hooks, bytes \in {Null, 1, 2} :
        \E duration \in Probed(length) : rendering' = cutAs(duration, hook, bytes)
  BY Zenon DEF RenderCandidate
<1>1. PICK duration \in Probed(length) : rendering' = cutAs(duration, hook, bytes)
  BY <1>0, Zenon
<1>2. UNCHANGED <<rules, revisions, records, time>>
  BY Zenon DEF RenderCandidate
<1>3. /\ rendering'.duration = duration /\ rendering'.bytes = bytes /\ rendering'.applied = Overlays(rules)
      /\ rendering'.under = rules
      /\ rendering'.captions = [p \in CaptionPlatforms(rules) |-> Caption(p, rules, hook)]
  BY <1>1, Zenon
<1>4. duration \in 0..(MaxDuration + Rounding)
  BY ProbedIs DEF RulesTypeOK
<1>5. RulesTypeOK'
  BY <1>2, <1>3, <1>4 DEF RulesTypeOK, Null
<1>6. MadeInv'
  BY <1>3, Zenon DEF MadeInv
<1> QED
  BY <1>5, <1>6

LEMMA ReviseKeeps == RulesInv /\ Revise => RulesInv'
<1> SUFFICES ASSUME RulesInv, Revise
             PROVE  RulesInv'
  OBVIOUS
<1> USE DEF RulesInv
<1>1. rules' \in Rules /\ revisions' \in 0..MaxRevisions /\ UNCHANGED <<records, time, rendering>>
  BY RulesAssumption DEF Revise, RulesTypeOK
<1>2. RulesTypeOK'
  BY <1>1 DEF RulesTypeOK
<1>3. MadeInv'
  BY <1>1 DEF MadeInv, Rendered
<1> QED
  BY <1>2, <1>3

LEMMA TickKeeps == RulesInv /\ Tick => RulesInv'
<1> SUFFICES ASSUME RulesInv, Tick
             PROVE  RulesInv'
  OBVIOUS
<1> USE DEF RulesInv
<1>1. time' \in 0..MaxTime /\ UNCHANGED <<rules, revisions, records, rendering>>
  BY RulesAssumption DEF Tick, RulesTypeOK
<1>2. RulesTypeOK'
  BY <1>1 DEF RulesTypeOK
<1>3. MadeInv'
  BY <1>1 DEF MadeInv, Rendered
<1> QED
  BY <1>2, <1>3

\* What is on a clip comes from the rules that it was rendered under, its length is within
\* Rounding of that of a candidate cut under them, and the rights recorded for its asset are well formed, whatever was
\* derived, verified, rendered or revised.
THEOREM RulesInvariance == RulesSpec => []RulesInv
<1>1. RulesInv /\ UNCHANGED rulesVars => RulesInv'
  BY DEF RulesInv, RulesTypeOK, MadeInv, Rendered, rulesVars
<1>2. RulesInv /\ [RulesNext]_rulesVars => RulesInv'
  <2>1. ASSUME RulesInv, RulesNext
        PROVE  RulesInv'
    <3>1. CASE Derive
      BY <2>1, <3>1, DeriveKeeps
    <3>2. CASE \E i \in DOMAIN records : Verify(i)
      BY <2>1, <3>2, VerifyKeeps
    <3>3. CASE RenderCandidate
      BY <2>1, <3>3, RenderKeeps
    <3>4. CASE Revise
      BY <2>1, <3>4, ReviseKeeps
    <3>5. CASE Tick
      BY <2>1, <3>5, TickKeeps
    <3> QED
      BY <2>1, <3>1, <3>2, <3>3, <3>4, <3>5 DEF RulesNext
  <2> QED
    BY <1>1, <2>1
<1> QED
  BY InitKeeps, <1>2, PTL DEF RulesSpec

\* The ranges of any asset follow each other from its beginning, each as long as the rules
\* in force ask, and leave less than a minimum uncut.  buildCandidateRanges.
THEOREM RangesOfAnyAsset == RulesSpec => []RangesTile
<1>1. RulesInv => RangesTile
  <2> SUFFICES ASSUME RulesInv
               PROVE  RangesTile
    OBVIOUS
  <2>1. rules \in Rules
    BY DEF RulesInv, RulesTypeOK
  <2>2. ASSUME NEW d \in 0..MaxDuration, NEW b \in SUBSET (1..(MaxDuration - 1))
        PROVE  LET target == DurationTarget(rules)
                   ranges == BuildCandidateRanges(d, b, target)
                   start(i) == IF i = 1 THEN 0 ELSE ranges[i - 1][2]
               IN /\ \A i \in DOMAIN ranges :
                       /\ ranges[i][1] = start(i)
                       /\ ranges[i][2] - ranges[i][1] \in target.min..target.max
                  /\ start(Len(ranges) + 1) \in (d - target.min + 1)..d
    <3> DEFINE target == DurationTarget(rules)
               ranges == BuildCandidateRanges(d, b, target)
               start(i) == IF i = 1 THEN 0 ELSE ranges[i - 1][2]
    <3>1. Tiles(ranges, 0, d, target.min, target.max)
      BY <2>1, RangesOfRules
    <3> HIDE DEF target, ranges
    <3>2. DOMAIN ranges = 1..Len(ranges)
      BY <3>1, LenProperties DEF Tiles
    <3>3. \A i : start(i) = StartOf(ranges, 0, i)
      BY DEF StartOf
    <3> HIDE DEF start
    <3>4. /\ \A i \in DOMAIN ranges :
               /\ ranges[i][1] = start(i)
               /\ ranges[i][2] - ranges[i][1] \in target.min..target.max
          /\ start(Len(ranges) + 1) \in (d - target.min + 1)..d
      BY <3>1, <3>2, <3>3, Zenon DEF Tiles
    <3> QED
      BY <3>4 DEF start, ranges, target
  <2> QED
    BY <2>2, Zenon DEF RangesTile
<1> QED
  BY <1>1, RulesInvariance, PTL

-----------------------------------------------------------------------------
(* Findings.                                                                *)

\* The captions of a rendered clip: one for each platform, on any platform what the rules
\* ask for, and nothing but elements.
LEMMA CaptionsOfClip ==
  ASSUME MadeInv, RulesTypeOK, Rendered
  PROVE  /\ DOMAIN rendering.captions = CaptionPlatforms(rendering.under) /\ DOMAIN rendering.captions # {}
         /\ rendering.applied = Overlays(rendering.under)
         /\ \A p \in DOMAIN rendering.captions :
              /\ rendering.under.phrases \cup Mark(rendering.under.mentions) \cup Mark(rendering.under.hashtags)
                   \subseteq rendering.captions[p]
              /\ rendering.captions[p] \subseteq Element \cup {Shorts}
<1>1. PICK hook \in Hooks :
        rendering.captions =
          [p \in CaptionPlatforms(rendering.under) |-> Caption(p, rendering.under, hook)]
  BY DEF MadeInv
<1>2. DOMAIN rendering.captions = CaptionPlatforms(rendering.under)
  BY <1>1
<1>3. CaptionPlatforms(rendering.under) # {}
  BY DEF CaptionPlatforms, Publishable
<1>4. rendering.applied = Overlays(rendering.under)
  BY DEF MadeInv
<1>5. ASSUME NEW p \in DOMAIN rendering.captions
      PROVE  /\ rendering.under.phrases \cup Mark(rendering.under.mentions) \cup Mark(rendering.under.hashtags)
                  \subseteq rendering.captions[p]
             /\ rendering.captions[p] \subseteq Element \cup {Shorts}
  <2>1. rendering.captions[p] = Caption(p, rendering.under, hook)
    BY <1>1, <1>2
  <2>2. hook \subseteq Element
    BY RulesAssumption
  <2>3. rendering.under \in Rules
    BY DEF RulesTypeOK
  <2>4. rendering.under.phrases \subseteq Element /\ rendering.under.mentions \subseteq Element
        /\ rendering.under.hashtags \subseteq Element
    BY <2>3, FieldsOfRules
  <2>5. ASSUME NEW S \in SUBSET Element
        PROVE  Mark(S) \subseteq Element
    <3>1. \A e \in Element : [e EXCEPT !.marked = TRUE] \in Element
      BY DEF Element
    <3>2. \A e \in S : e \in Element
      OBVIOUS
    <3> HIDE DEF Element
    <3> QED
      BY <3>1, <3>2 DEF Mark
  <2> HIDE DEF Element
  <2> QED
    BY <2>1, <2>2, <2>4, <2>5 DEF Caption
<1> QED
  BY <1>2, <1>3, <1>4, <1>5

LEMMA ContainsWhatIsThere ==
  ASSUME NEW text, NEW e, e \in text
  PROVE  Contains(text, e)
BY DEF Contains

\* What every caption has is found in every caption.
LEMMA FoundEverywhere ==
  ASSUME MadeInv, RulesTypeOK, Rendered, NEW e,
         \A p \in DOMAIN rendering.captions : e \in rendering.captions[p]
  PROVE  EveryCaptionContains(e)
BY CaptionsOfClip, ContainsWhatIsThere DEF EveryCaptionContains

\* A clip is made to the rules: evaluated under the rules it was rendered under, it fails
\* no check of what is mandatory in it, nor that of its length, but by as little as the
\* encoded file is off the cut, where those rules can be met.
\* generateClipCandidates and renderCandidate against the validators.
THEOREM MadeToRules == RulesSpec => []MadeToRule
<1>1. RulesInv => MadeToRule
  <2> SUFFICES ASSUME RulesInv, NEW s \in Surroundings, Rendered, rendering.under = rules
               PROVE  LET findings == RunDeterministicChecks(s)
                      IN /\ "FAIL" \notin {findings.mandatoryText, findings.mandatoryMentions,
                                           findings.mandatoryHashtags, findings.mandatoryOverlays,
                                           findings.platformEligibility}
                         /\ \/ findings.duration = "PASS"
                            \/ /\ rules.max # Null
                               /\ rendering.duration \in (rules.max + 1)..(rules.max + Rounding)
                            \/ /\ rules.min # Null
                               /\ rendering.duration \in (rules.min - Rounding)..(rules.min - 1)
                            \/ /\ rules.min \in {0, Null} /\ rules.max # Null
                               /\ rules.max < DefaultMin
                            \/ rules.max # Null /\ rules.min > rules.max
    BY Zenon DEF MadeToRule
  <2> USE DEF RulesInv
  <2>1. /\ DOMAIN rendering.captions = CaptionPlatforms(rules) /\ DOMAIN rendering.captions # {}
        /\ rendering.applied = Overlays(rules)
        /\ \A p \in DOMAIN rendering.captions :
             rules.phrases \cup Mark(rules.mentions) \cup Mark(rules.hashtags)
               \subseteq rendering.captions[p]
    BY CaptionsOfClip
  <2>2. \A e \in rules.phrases \cup Mark(rules.mentions) \cup Mark(rules.hashtags) :
          EveryCaptionContains(e)
    BY <2>1, FoundEverywhere
  <2>3. CheckMandatoryText # "FAIL"
    BY <2>2 DEF CheckMandatoryText, Known
  <2>4. CheckMandatoryMentions # "FAIL"
    BY <2>2 DEF CheckMandatoryMentions, Known
  <2>5. CheckMandatoryHashtags # "FAIL"
    BY <2>2 DEF CheckMandatoryHashtags, Known
  <2>6. CheckMandatoryOverlays # "FAIL"
    <3>1. \A e \in rules.logos : [kind |-> "LOGO", value |-> e] \in rendering.applied
      BY <2>1 DEF Overlays
    <3>2. \A e \in rules.logos : \E o \in rendering.applied : o.value = e
      BY <3>1
    <3> QED
      BY <3>2 DEF CheckMandatoryOverlays, Known
  <2>7. CheckPlatformEligibility # "FAIL"
    <3>1. CASE rules.platforms = {}
      BY <3>1 DEF CheckPlatformEligibility, Known
    <3>2. CASE rules.platforms # {}
      <4>1. TargetPlatforms = rules.platforms
        BY <2>1, <3>2 DEF TargetPlatforms, CaptionPlatforms, Rendered
      <4> QED
        BY <3>2, <4>1 DEF CheckPlatformEligibility, Known
    <3> QED
      BY <3>1, <3>2
  <2>8. \/ CheckDuration = "PASS"
        \/ rules.max # Null /\ rendering.duration \in (rules.max + 1)..(rules.max + Rounding)
        \/ rules.min # Null /\ rendering.duration \in (rules.min - Rounding)..(rules.min - 1)
        \/ rules.min \in {0, Null} /\ rules.max # Null /\ rules.max < DefaultMin
        \/ rules.max # Null /\ rules.min > rules.max
    <3>1. rules \in Rules /\ rendering.under = rules
      BY DEF RulesTypeOK
    <3>2. PICK length \in CandidateLengths(rules) : rendering.duration \in Probed(length)
      BY DEF MadeInv
    <3> DEFINE lo == DurationTarget(rules).min
               hi == DurationTarget(rules).max
               lasts == rendering.duration
    <3>3. length \in Int /\ lo <= length /\ length <= hi
      BY <3>1, LengthsOfRules, TargetOfRules
    <3>4. lasts \in Int /\ length - Rounding <= lasts /\ lasts <= length + Rounding
      BY <3>1, <3>2, ProbedIs
    <3>5. /\ lo \in Nat /\ hi \in Nat
          /\ rules.min # Null => rules.min <= lo
          /\ \/ rules.max = Null \/ hi <= rules.max
             \/ rules.min \in {0, Null} /\ rules.max < DefaultMin
             \/ rules.min > rules.max
      BY <3>1, TargetOfRules
    <3>6. rules.min \in Nat \cup {-1} /\ rules.max \in Nat \cup {-1} /\ Rounding \in Nat
      BY <3>1, FieldsOfRules, RulesAssumption DEF Null
    <3>7. \/ CheckDuration = "PASS"
          \/ rules.max # Null /\ lasts > rules.max
          \/ rules.min # Null /\ lasts < rules.min
      BY DEF CheckDuration, Known
    <3> HIDE DEF lo, hi, lasts
    <3>8. \/ CheckDuration = "PASS"
          \/ rules.max # Null /\ lasts \in (rules.max + 1)..(rules.max + Rounding)
          \/ rules.min # Null /\ lasts \in (rules.min - Rounding)..(rules.min - 1)
          \/ rules.min \in {0, Null} /\ rules.max # Null /\ rules.max < DefaultMin
          \/ rules.max # Null /\ rules.min > rules.max
      BY <3>3, <3>4, <3>5, <3>6, <3>7 DEF Null
    <3> QED
      BY <3>8 DEF lasts
  <2> DEFINE findings == RunDeterministicChecks(s)
  <2>9. /\ findings.mandatoryText = CheckMandatoryText
        /\ findings.mandatoryMentions = CheckMandatoryMentions
        /\ findings.mandatoryHashtags = CheckMandatoryHashtags
        /\ findings.mandatoryOverlays = CheckMandatoryOverlays
        /\ findings.platformEligibility = CheckPlatformEligibility
        /\ findings.duration = CheckDuration
    BY Zenon DEF RunDeterministicChecks
  <2> HIDE DEF findings
  <2>10. "FAIL" \notin {findings.mandatoryText, findings.mandatoryMentions,
                        findings.mandatoryHashtags, findings.mandatoryOverlays,
                        findings.platformEligibility}
    BY <2>3, <2>4, <2>5, <2>6, <2>7, <2>9
  <2> QED
    BY <2>8, <2>9, <2>10 DEF findings
<1> QED
  BY <1>1, RulesInvariance, PTL

LEMMA WorstPasses ==
  ASSUME NEW outcomes, Worst(outcomes) = "PASS"
  PROVE  "FAIL" \notin outcomes /\ "REVIEW" \notin outcomes
BY DEF Worst

LEMMA KnownPasses ==
  ASSUME NEW fails, NEW unknown, Known(fails, unknown) = "PASS"
  PROVE  ~ fails /\ ~ unknown
BY DEF Known

LEMMA KnownIs ==
  ASSUME NEW fails, NEW unknown
  PROVE  Known(fails, unknown) \in {"PASS", "REVIEW", "FAIL"}
BY DEF Known

\* Rights that pass are those of a record that holds, that a human verified and that covers
\* what is asked.
LEMMA PermissionPasses ==
  ASSUME RulesTypeOK, NEW transforms, NEW platforms, CheckPermission(transforms, platforms) = "PASS"
  PROVE  \E i \in DOMAIN records :
           /\ records[i].status = "VERIFIED" /\ platforms \subseteq records[i].platforms
           /\ records[i].until = Null \/ records[i].until >= time
<1> DEFINE covering == {i \in ActivePermissions : /\ transforms \subseteq records[i].transformations
                                                  /\ platforms \subseteq records[i].platforms}
           verified == \E i \in covering : records[i].status = "VERIFIED"
<1>1. ActivePermissions # {} /\ covering # {} /\ verified
  <2>1. CheckPermission(transforms, platforms) =
          CASE ActivePermissions = {} -> "REVIEW"
            [] ActivePermissions # {} /\ covering = {} -> "FAIL"
            [] covering # {} /\ verified -> "PASS"
            [] OTHER -> "REVIEW"
    BY DEF CheckPermission
  <2>2. ActivePermissions = {} => covering = {}
    OBVIOUS
  <2> HIDE DEF covering, verified
  <2> QED
    BY <2>1, <2>2
<1> QED
  BY <1>1 DEF ActivePermissions

LEMMA PermissionIs ==
  ASSUME NEW transforms, NEW platforms
  PROVE  CheckPermission(transforms, platforms) \in {"PASS", "REVIEW", "FAIL"}
<1> DEFINE covering == {i \in ActivePermissions : /\ transforms \subseteq records[i].transformations
                                                  /\ platforms \subseteq records[i].platforms}
           verified == \E i \in covering : records[i].status = "VERIFIED"
<1>1. CheckPermission(transforms, platforms) =
        CASE ActivePermissions = {} -> "REVIEW"
          [] ActivePermissions # {} /\ covering = {} -> "FAIL"
          [] covering # {} /\ verified -> "PASS"
          [] OTHER -> "REVIEW"
  BY DEF CheckPermission
<1>2. ActivePermissions = {} => covering = {}
  OBVIOUS
<1> HIDE DEF covering, verified
<1> QED
  BY <1>1, <1>2

\* What passes was granted, for each platform it can be published on, by a record that a
\* human verified and that still holds.
LEMMA RightsPass ==
  ASSUME RulesTypeOK, Rendered, WorstPermission = "PASS",
         NEW p \in DOMAIN rendering.captions \cap Publishable
  PROVE  \E i \in DOMAIN records :
           /\ records[i].status = "VERIFIED" /\ p \in records[i].platforms
           /\ records[i].until = Null \/ records[i].until >= time
<1> DEFINE targets == TargetPlatforms \cap Publishable
           outcomes == {CheckPermission(PermissionTransforms, {q}) : q \in targets}
<1>1. p \in targets
  BY DEF TargetPlatforms, Rendered
<1> HIDE DEF targets
<1>2. WorstPermission = IF targets = {} THEN CheckPermission(PermissionTransforms, {})
                        ELSE Worst(outcomes)
  BY DEF WorstPermission, targets
<1>3. CheckPermission(PermissionTransforms, {p}) \in outcomes
  BY <1>1
<1> HIDE DEF outcomes
<1>4. "FAIL" \notin outcomes /\ "REVIEW" \notin outcomes
  BY <1>1, <1>2, WorstPasses
<1>5. CheckPermission(PermissionTransforms, {p}) = "PASS"
  BY <1>3, <1>4, PermissionIs
<1>6. \E i \in DOMAIN records :
        /\ records[i].status = "VERIFIED" /\ {p} \subseteq records[i].platforms
        /\ records[i].until = Null \/ records[i].until >= time
  BY <1>5, PermissionPasses
<1> QED
  BY <1>6

\* Every finding of an evaluation that passes is PASS.
LEMMA FindingsPass ==
  ASSUME NEW s, OverallOutcome(s) = "PASS"
  PROVE  /\ WorstPermission = "PASS" /\ CheckMandatoryMentions = "PASS"
         /\ CheckMandatoryHashtags = "PASS" /\ CheckPlatformEligibility = "PASS"
         /\ CheckDeadline = "PASS" /\ CheckRemainingBudget = "PASS" /\ CheckFileSize = "PASS"
         /\ CheckProhibitedWords = "PASS" /\ CheckMinimumAccountRequirements = "PASS"
         /\ CheckPublicPostRequirement(s) = "PASS"
<1> DEFINE findings == RunDeterministicChecks(s)
           outcomes == {findings[check] : check \in DOMAIN findings} \cup {SemanticReview(s)}
<1>1. "FAIL" \notin outcomes /\ "REVIEW" \notin outcomes
  <2>1. Worst(outcomes) = "PASS"
    BY DEF OverallOutcome
  <2> HIDE DEF outcomes
  <2> QED
    BY <2>1, WorstPasses
<1>2. \A check \in DOMAIN findings : findings[check] \in outcomes
  OBVIOUS
<1> HIDE DEF outcomes
<1>3. /\ findings["sourcePermission"] = WorstPermission
      /\ findings["mandatoryMentions"] = CheckMandatoryMentions
      /\ findings["mandatoryHashtags"] = CheckMandatoryHashtags
      /\ findings["platformEligibility"] = CheckPlatformEligibility
      /\ findings["deadline"] = CheckDeadline
      /\ findings["remainingBudget"] = CheckRemainingBudget
      /\ findings["fileSize"] = CheckFileSize
      /\ findings["prohibitedWords"] = CheckProhibitedWords
      /\ findings["minimumAccountRequirements"] = CheckMinimumAccountRequirements
      /\ findings["publicPostRequirement"] = CheckPublicPostRequirement(s)
  BY DEF RunDeterministicChecks
<1>4. {"sourcePermission", "mandatoryMentions", "mandatoryHashtags", "platformEligibility",
       "deadline", "remainingBudget", "fileSize", "prohibitedWords",
       "minimumAccountRequirements", "publicPostRequirement"} \subseteq DOMAIN findings
  BY DEF RunDeterministicChecks
<1>5. WorstPermission \in {"PASS", "REVIEW", "FAIL"}
  BY PermissionIs DEF WorstPermission, Worst
<1>6. /\ CheckMandatoryMentions \in {"PASS", "REVIEW", "FAIL"}
      /\ CheckMandatoryHashtags \in {"PASS", "REVIEW", "FAIL"}
      /\ CheckPlatformEligibility \in {"PASS", "REVIEW", "FAIL"}
      /\ CheckDeadline \in {"PASS", "REVIEW", "FAIL"}
      /\ CheckRemainingBudget \in {"PASS", "REVIEW", "FAIL"}
      /\ CheckFileSize \in {"PASS", "REVIEW", "FAIL"}
      /\ CheckProhibitedWords \in {"PASS", "REVIEW", "FAIL"}
      /\ CheckMinimumAccountRequirements \in {"PASS", "REVIEW", "FAIL"}
      /\ CheckPublicPostRequirement(s) \in {"PASS", "REVIEW", "FAIL"}
  BY KnownIs, Zenon DEF CheckMandatoryMentions, CheckMandatoryHashtags, CheckPlatformEligibility,
                 CheckDeadline, CheckRemainingBudget, CheckFileSize, CheckProhibitedWords,
                 CheckMinimumAccountRequirements, CheckPublicPostRequirement
<1> HIDE DEF findings
<1>7. \A check \in DOMAIN findings : findings[check] # "FAIL" /\ findings[check] # "REVIEW"
  BY <1>1, <1>2
<1> QED
  BY <1>3, <1>4, <1>5, <1>6, <1>7

\* An element of a caption that matches a marked one is that one.
LEMMA MarkedIsFound ==
  ASSUME NEW text, text \subseteq Element \cup {Shorts}, NEW S \in SUBSET Element, NEW e \in Mark(S),
         Contains(text, e)
  PROVE  e \in text
<1>1. PICK t \in text : t.name = e.name /\ (e.marked => t.marked)
  BY DEF Contains
<1>2. PICK n \in Words : e = [name |-> n, marked |-> TRUE]
  <2>1. PICK o \in S : e = [o EXCEPT !.marked = TRUE]
    BY DEF Mark
  <2>2. o \in Element
    OBVIOUS
  <2>3. e \in Element /\ e.marked = TRUE
    BY <2>1, <2>2 DEF Element
  <2>4. PICK n \in Words, m \in BOOLEAN : e = [name |-> n, marked |-> m]
    BY <2>3 DEF Element
  <2> QED
    BY <2>3, <2>4
<1>3. t.name = n /\ t.marked
  BY <1>1, <1>2
<1>4. CASE t \in Element
  <2>1. PICK w \in Words, m \in BOOLEAN : t = [name |-> w, marked |-> m]
    BY <1>4 DEF Element
  <2>2. w = n /\ m = TRUE
    BY <1>3, <2>1
  <2> QED
    BY <1>2, <2>1, <2>2
<1>5. CASE t = Shorts
  <2>1. n = "shorts"
    BY <1>3, <1>5 DEF Shorts
  <2> QED
    BY <1>2, <1>5, <2>1 DEF Shorts
<1> QED
  BY <1>4, <1>5

\* What passes is established: granted by a verified record that still holds, wanted where
\* it goes, nothing that is asked left unknown, and the rules that were revised since it was
\* rendered are met as well, but for the prohibited words that the check cannot find.
\* evaluateCompliance.
THEOREM PassesAreEstablished == RulesSpec => []PassMeansEstablished
<1>1. RulesInv => PassMeansEstablished
  <2> SUFFICES ASSUME RulesInv, NEW s \in Surroundings, Rendered, OverallOutcome(s) = "PASS"
               PROVE  /\ \A p \in DOMAIN rendering.captions \cap Publishable :
                           \E i \in DOMAIN records :
                             /\ records[i].status = "VERIFIED" /\ p \in records[i].platforms
                             /\ records[i].until = Null \/ records[i].until >= time
                      /\ DOMAIN rendering.captions \subseteq rules.platforms
                      /\ rules.deadline = Null \/ time <= rules.deadline
                      /\ rules.budgetRemaining > 0 /\ ~ rules.accountRequired
                      /\ rules.maxSize # Null => rendering.bytes \in 0..rules.maxSize
                      /\ rules.publicPost => s.publicVerified = "yes"
                      /\ \A p \in DOMAIN rendering.captions :
                           /\ Mark(rules.mentions) \cup Mark(rules.hashtags) \subseteq rendering.captions[p]
                           /\ ~ \E word \in Sought : Contains(rendering.captions[p], word)
    BY Zenon DEF PassMeansEstablished
  <2> USE DEF RulesInv
  <2>1. rules \in Rules /\ time \in Nat /\ rendering.bytes \in -1..2
    BY RulesAssumption DEF RulesTypeOK
  <2>2. \A p \in DOMAIN rendering.captions \cap Publishable :
          \E i \in DOMAIN records :
            /\ records[i].status = "VERIFIED" /\ p \in records[i].platforms
            /\ records[i].until = Null \/ records[i].until >= time
    BY FindingsPass, RightsPass
  <2>3. DOMAIN rendering.captions \subseteq rules.platforms
    <3>1. CheckPlatformEligibility = "PASS"
      BY FindingsPass
    <3> QED
      BY <3>1, KnownPasses DEF CheckPlatformEligibility, TargetPlatforms, Rendered
  <2>4. rules.deadline = Null \/ time <= rules.deadline
    <3>1. ~ (rules.deadline # Null /\ rules.deadline < time)
      BY FindingsPass, KnownPasses DEF CheckDeadline
    <3>2. rules.deadline \in Nat \cup {Null}
      BY <2>1, FieldsOfRules
    <3> QED
      BY <2>1, <3>1, <3>2
  <2>5. rules.budgetRemaining > 0 /\ ~ rules.accountRequired
    <3>1. rules.budgetRemaining # 0 /\ rules.budgetRemaining # Null
      BY FindingsPass, KnownPasses DEF CheckRemainingBudget
    <3>2. rules.budgetRemaining \in Nat \cup {Null}
      BY <2>1, FieldsOfRules
    <3>3. ~ rules.accountRequired
      BY FindingsPass, KnownPasses DEF CheckMinimumAccountRequirements
    <3> QED
      BY <3>1, <3>2, <3>3
  <2>6. rules.maxSize # Null => rendering.bytes \in 0..rules.maxSize
    <3>1. /\ ~ (rules.maxSize # Null /\ rendering.bytes > rules.maxSize)
          /\ ~ (rules.maxSize # Null /\ rendering.bytes = Null)
      BY FindingsPass, KnownPasses DEF CheckFileSize
    <3>2. rules.maxSize \in Nat \cup {Null}
      BY <2>1, FieldsOfRules
    <3> QED
      BY <2>1, <3>1, <3>2 DEF Null
  <2>7. rules.publicPost => s.publicVerified = "yes"
    <3>1. /\ ~ (rules.publicPost /\ s.publicVerified = "no")
          /\ ~ (rules.publicPost /\ s.publicVerified = "unknown")
      BY FindingsPass, KnownPasses DEF CheckPublicPostRequirement
    <3>2. s.publicVerified \in {"yes", "no", "unknown"}
      BY RulesAssumption DEF Context
    <3> QED
      BY <3>1, <3>2
  <2>8. \A e \in Mark(rules.mentions) \cup Mark(rules.hashtags) : EveryCaptionContains(e)
    <3>1. ~ \E e \in Mark(rules.mentions) : ~ EveryCaptionContains(e)
      BY FindingsPass, KnownPasses DEF CheckMandatoryMentions
    <3>2. ~ \E e \in Mark(rules.hashtags) : ~ EveryCaptionContains(e)
      BY FindingsPass, KnownPasses DEF CheckMandatoryHashtags
    <3> QED
      BY <3>1, <3>2
  <2>9. ~ \E word \in Sought :
            \/ \E p \in DOMAIN rendering.captions : Contains(rendering.captions[p], word)
            \/ Contains({o.value : o \in rendering.applied}, word)
    BY FindingsPass, KnownPasses DEF CheckProhibitedWords
  <2>10. ASSUME NEW p \in DOMAIN rendering.captions
         PROVE  /\ Mark(rules.mentions) \cup Mark(rules.hashtags) \subseteq rendering.captions[p]
                /\ ~ \E word \in Sought : Contains(rendering.captions[p], word)
    <3>1. rendering.captions[p] \subseteq Element \cup {Shorts}
      BY CaptionsOfClip
    <3>2. rules.mentions \in SUBSET Element /\ rules.hashtags \in SUBSET Element
      BY <2>1, FieldsOfRules
    <3>3. \A e \in Mark(rules.mentions) \cup Mark(rules.hashtags) : Contains(rendering.captions[p], e)
      BY <2>8 DEF EveryCaptionContains
    <3>4. Mark(rules.mentions) \cup Mark(rules.hashtags) \subseteq rendering.captions[p]
      BY <3>1, <3>2, <3>3, MarkedIsFound
    <3> QED
      BY <2>9, <3>4
  <2> QED
    BY <2>2, <2>3, <2>4, <2>5, <2>6, <2>7, <2>10
<1> QED
  BY <1>1, RulesInvariance, PTL
=============================================================================
