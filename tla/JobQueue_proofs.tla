--------------------------- MODULE JobQueue_proofs ---------------------------
(***************************************************************************)
(* Proofs about the job machinery, for every number of keys, workers,      *)
(* operators, attempts, stalls, faults, resets and evictions.              *)
(***************************************************************************)
EXTENDS JobQueue, FiniteSetTheorems, TLAPS

JobRow == [state : JobState, made : 0..Attempts, stalls : 0..(MaxStalled + 1)]
RunRow == [status : RunStatus, gen : 0..MaxResets]
WorkerState == [pc : WorkerPc, key : Keys \cup {NoKey}, gen : 0..MaxResets]
OperatorState == [pc : OperatorPc, key : Keys \cup {NoKey}, gen : 0..MaxResets]

\* What the small updates leave: a counter, a run, a worker and a request of its type.
LEMMA Spent ==
  ASSUME TypeOK, NEW k \in Keys
  PROVE  /\ Fault(k) => faults' \in [Keys -> 0..MaxFaults]
         /\ Reset(k) => resets' \in [Keys -> 0..MaxResets]
<1>1. ASSUME Fault(k)
      PROVE  faults' \in [Keys -> 0..MaxFaults]
  BY <1>1, JobQueueAssumption DEF Fault, TypeOK
<1>2. ASSUME Reset(k)
      PROVE  resets' \in [Keys -> 0..MaxResets]
  BY <1>2, JobQueueAssumption DEF Reset, TypeOK
<1> QED
  BY <1>1, <1>2

LEMMA RunsSet ==
  ASSUME TypeOK, NEW k, NEW status \in RunStatus, SetRun(k, status)
  PROVE  run' \in [Keys -> RunRow]
BY DEF SetRun, TypeOK, RunRow

LEMMA WorkersMove ==
  ASSUME TypeOK, NEW w \in Workers, NEW pc \in WorkerPc,
         Goto(w, pc) \/ worker' = [worker EXCEPT ![w] = Idle]
  PROVE  worker' \in [Workers -> WorkerState]
<1>1. Idle \in WorkerState
  BY JobQueueAssumption DEF Idle, WorkerState, WorkerPc
<1>2. worker \in [Workers -> WorkerState]
  BY DEF TypeOK, WorkerState
<1>3. [worker[w] EXCEPT !.pc = pc] \in WorkerState
  BY <1>2 DEF WorkerState
<1> QED
  BY <1>1, <1>2, <1>3 DEF Goto

LEMMA OperatorsMove ==
  ASSUME TypeOK, NEW o \in Operators, NEW pc \in OperatorPc,
         \/ operator' = [operator EXCEPT ![o].pc = pc]
         \/ operator' = [operator EXCEPT ![o] = Idle]
  PROVE  operator' \in [Operators -> OperatorState]
<1>1. Idle \in OperatorState
  BY JobQueueAssumption DEF Idle, OperatorState, OperatorPc
<1>2. operator \in [Operators -> OperatorState]
  BY DEF TypeOK, OperatorState
<1>3. [operator[o] EXCEPT !.pc = pc] \in OperatorState
  BY <1>2 DEF OperatorState
<1> QED
  BY <1>1, <1>2, <1>3

\* A worker that gives its job back, or dies, is idle.
LEMMA Returns ==
  ASSUME TypeOK, NEW w \in Workers, Ack(w) \/ Nack(w) \/ Crash(w)
  PROVE  worker'[w].pc = "idle" /\ worker'[w].key = NoKey
<1>1. worker' = [worker EXCEPT ![w] = Idle]
  BY DEF Ack, Nack, Crash
<1> QED
  BY <1>1 DEF Idle, TypeOK

\* An add changes at most an absent job, to a waiting one.
LEMMA Adds ==
  ASSUME TypeOK, JobInv, NEW k, Add(k)
  PROVE  /\ job' \in [Keys -> JobRow]
         /\ \A j \in Keys :
              \/ job'[j] = job[j]
              \/ /\ job[j].state = "absent" /\ job'[j].state = "waiting"
                 /\ job'[j].made = job[j].made
BY DEF Add, TypeOK, JobRow, JobState

\* A failed attempt of an active job leaves it delayed with attempts left, or failed,
\* and other jobs alone.
LEMMA AttemptsFail ==
  ASSUME TypeOK, JobInv, NEW k \in Keys, job[k].state = "active",
         NEW r \in BOOLEAN, FailAttempt(k, r)
  PROVE  /\ job' \in [Keys -> JobRow]
         /\ parking' \in [Keys -> {"none", "update", "create"}]
         /\ \A j \in Keys \ {k} : job'[j] = job[j] /\ parking'[j] = parking[j]
         /\ \/ /\ job'[k].state = "delayed" /\ job'[k].made < Attempts
               /\ parking'[k] = parking[k]
            \/ job'[k].state = "failed"
<1> DEFINE made == job[k].made + 1
<1>1. job[k] \in JobRow /\ job[k].made < Attempts /\ made \in 0..Attempts
  BY JobQueueAssumption DEF TypeOK, JobInv, JobRow
<1>2. CASE r /\ made < Attempts
  BY <1>1, <1>2 DEF FailAttempt, TypeOK, JobRow, JobState
<1>3. CASE ~ (r /\ made < Attempts)
  BY <1>1, <1>3 DEF FailAttempt, TypeOK, JobRow, JobState
<1> QED
  BY <1>2, <1>3

\* A failed attempt keeps what is said of jobs.
LEMMA AttemptsKeepJobs ==
  ASSUME TypeOK, JobInv, NEW k \in Keys, job[k].state = "active",
         NEW r \in BOOLEAN, FailAttempt(k, r)
  PROVE  JobInv'
<1>1. \A j \in Keys \ {k} : job'[j] = job[j] /\ parking'[j] = parking[j]
  BY AttemptsFail
<1>2. parking[k] = "none"
  BY DEF JobInv
<1>3. \/ job'[k].state = "delayed" /\ job'[k].made < Attempts /\ parking'[k] = "none"
      \/ job'[k].state = "failed"
  BY <1>2, AttemptsFail
<1> QED
  BY <1>1, <1>3 DEF JobInv

\* Every variable keeps its type, and jobs keep their attempts.
LEMMA TypeStep ==
  ASSUME TypeOK, JobInv, HolderInv, [Next]_vars
  PROVE  TypeOK' /\ JobInv'
<1> USE JobQueueAssumption
<1> DEFINE OK == TypeOK' /\ JobInv'
<1>1. ASSUME NEW k \in Keys, Enqueue(k)
      PROVE  OK
  <2>1. TypeOK'
    BY <1>1, Adds DEF Enqueue, counters, TypeOK, JobRow
  <2>2. JobInv'
    BY <1>1, Adds DEF Enqueue, JobInv
  <2> QED
    BY <2>1, <2>2
<1>2. ASSUME NEW k \in Keys, Evict(k)
      PROVE  OK
  BY <1>2 DEF Evict, NewJob, TypeOK, JobInv, JobState
<1>3. ASSUME NEW k \in Keys, Promote(k)
      PROVE  OK
  BY <1>3 DEF Promote, counters, TypeOK, JobInv, JobState
<1>4. ASSUME NEW k \in Keys, Stalled(k)
      PROVE  OK
  <2>1. CASE job[k].stalls < MaxStalled
    BY <1>4, <2>1 DEF Stalled, counters, TypeOK, JobInv, JobState
  <2>2. CASE ~ (job[k].stalls < MaxStalled)
    <3>1. job[k].state = "active" /\ FailAttempt(k, FALSE)
      BY <1>4, <2>2 DEF Stalled
    <3>2. JobInv'
      BY <3>1, AttemptsKeepJobs
    <3>3. TypeOK'
      BY <1>4, <3>1, AttemptsFail DEF Stalled, counters, TypeOK, JobRow
    <3> QED
      BY <3>2, <3>3
  <2> QED
    BY <2>1, <2>2
<1>5. ASSUME NEW k \in Keys, Park(k) \/ ParkNew(k) \/ ParkLost(k)
      PROVE  OK
  <2>1. run' \in [Keys -> RunRow]
    <3>1. run' = run \/ SetRun(k, "DEAD_LETTER")
      BY <1>5 DEF Park, ParkNew, ParkLost
    <3> QED
      BY <3>1, RunsSet DEF RunStatus, TypeOK, RunRow
  <2>2. faults' \in [Keys -> 0..MaxFaults]
    BY <1>5, Spent DEF Park, ParkNew, ParkLost, counters, TypeOK
  <2> QED
    BY <1>5, <2>1, <2>2 DEF Park, ParkNew, ParkLost, counters, TypeOK, JobInv, RunRow
<1>6. ASSUME NEW w \in Workers, NEW k \in Keys, Fetch(w, k)
      PROVE  OK
  BY <1>6 DEF Fetch, counters, TypeOK, JobInv, JobState, WorkerPc
<1>7. ASSUME NEW w \in Workers, Step(w)
      PROVE  OK
  <2> DEFINE k == worker[w].key
  <2>1. CASE Guard(w) \/ WorkFails(w)
    BY <2>1, WorkersMove DEF Guard, WorkFails, counters, TypeOK, JobInv, WorkerPc, WorkerState
  <2>2. CASE Begin(w)
    <3>1. run' \in [Keys -> RunRow]
      BY <2>2, RunsSet DEF Begin, RunStatus
    <3>2. k \in Keys /\ run[k].gen \in 0..MaxResets
      BY <2>2 DEF Begin, HolderInv, TypeOK
    <3>3. worker' \in [Workers -> WorkerState]
      BY <2>2, <3>2 DEF Begin, TypeOK, WorkerState, WorkerPc
    <3> QED
      BY <2>2, <3>1, <3>3 DEF Begin, counters, TypeOK, JobInv, RunRow, WorkerState
  <2>3. CASE Work(w)
    <3>1. worker' \in [Workers -> WorkerState]
      BY <2>3, WorkersMove DEF Work, WorkerPc
    <3>2. completions' \in [Keys -> Nat]
      <4>1. k \in Keys
        BY <2>3 DEF Work, HolderInv
      <4> QED
        BY <2>3, <4>1 DEF Work, TypeOK
    <3> QED
      BY <2>3, <3>1, <3>2 DEF Work, TypeOK, JobInv, WorkerState
  <2>4. CASE Record(w) \/ RecordFailure(w)
    <3>1. run' \in [Keys -> RunRow]
      <4>1. run' = run \/ SetRun(k, "SUCCEEDED") \/ SetRun(k, "FAILED")
        BY <2>4 DEF Record, RecordFailure
      <4> QED
        BY <4>1, RunsSet DEF RunStatus, TypeOK, RunRow
    <3>2. worker' \in [Workers -> WorkerState]
      <4>1. Goto(w, "ack") \/ Goto(w, "recordFailure") \/ Goto(w, "nack")
        BY <2>4 DEF Record, RecordFailure
      <4> QED
        BY <4>1, WorkersMove DEF WorkerPc
    <3> QED
      BY <2>4, <3>1, <3>2 DEF Record, RecordFailure, counters, TypeOK, JobInv, RunRow, WorkerState
  <2>5. CASE Ack(w)
    <3>1. k \in Keys /\ job[k].state = "active"
      BY <2>5 DEF Ack, HolderInv
    <3>2. worker' \in [Workers -> WorkerState]
      BY <2>5, WorkersMove DEF Ack, WorkerPc
    <3>3. JobInv'
      BY <2>5, <3>1 DEF Ack, JobInv, TypeOK
    <3> QED
      BY <2>5, <3>2, <3>3 DEF Ack, counters, TypeOK, JobState, WorkerState
  <2>6. CASE Nack(w)
    <3>1. k \in Keys /\ job[k].state = "active" /\ FailAttempt(k, TRUE)
      BY <2>6 DEF Nack, HolderInv
    <3>2. worker' \in [Workers -> WorkerState]
      BY <2>6, WorkersMove DEF Nack, WorkerPc
    <3>3. JobInv'
      BY <3>1, AttemptsKeepJobs
    <3>4. TypeOK'
      BY <2>6, <3>1, <3>2, AttemptsFail DEF Nack, counters, TypeOK, JobRow, WorkerState
    <3> QED
      BY <3>3, <3>4
  <2> QED
    BY <1>7, <2>1, <2>2, <2>3, <2>4, <2>5, <2>6 DEF Step
<1>8. ASSUME NEW w \in Workers, DatabaseFails(w) \/ Crash(w)
      PROVE  OK
  <2>1. worker[w].pc # "idle" /\ Fault(worker[w].key)
    BY <1>8 DEF DatabaseFails, Crash
  <2>2. faults' \in [Keys -> 0..MaxFaults]
    BY <2>1, Spent DEF HolderInv
  <2>3. worker' \in [Workers -> WorkerState]
    <3>1. \/ Goto(w, "nack") \/ Goto(w, "recordFailure")
          \/ worker' = [worker EXCEPT ![w] = Idle]
      BY <1>8 DEF DatabaseFails, Crash
    <3> QED
      BY <3>1, WorkersMove DEF WorkerPc
  <2> QED
    BY <1>8, <2>2, <2>3 DEF DatabaseFails, Crash, TypeOK, JobInv, WorkerState
<1>9. ASSUME NEW o \in Operators, Request(o)
      PROVE  OK
  <2> DEFINE k == operator[o].key
  <2>1. ASSUME NEW j \in Keys, ReplayRead(o, j)
        PROVE  OK
    BY <2>1 DEF ReplayRead, counters, TypeOK, JobInv, OperatorPc
  <2>2. ASSUME NEW j \in Keys, RetryDelete(o, j)
        PROVE  OK
    <3>1. operator' \in [Operators -> OperatorState]
      BY <2>2 DEF RetryDelete, TypeOK, OperatorPc, OperatorState
    <3>2. /\ run' \in [Keys -> RunRow]
          /\ faults' \in [Keys -> 0..MaxFaults]
          /\ resets' \in [Keys -> 0..MaxResets]
      <4>1. CASE Fault(j) /\ UNCHANGED <<run, resets>>
        BY <4>1, Spent DEF TypeOK, RunRow
      <4>2. CASE /\ Reset(j) /\ UNCHANGED faults
                 /\ run' = [run EXCEPT ![j] = [status |-> "NONE", gen |-> resets'[j]]]
        <5>1. resets' \in [Keys -> 0..MaxResets]
          BY <4>2, Spent
        <5>2. [status |-> "NONE", gen |-> resets'[j]] \in RunRow
          BY <5>1 DEF RunRow, RunStatus
        <5> QED
          BY <4>2, <5>1, <5>2 DEF TypeOK, RunRow
      <4> QED
        BY <2>2, <4>1, <4>2 DEF RetryDelete
    <3> QED
      BY <2>2, <3>1, <3>2 DEF RetryDelete, TypeOK, JobInv, OperatorState, RunRow
  <2>3. CASE ReplayReset(o) \/ ReplayRestore(o) \/ RequestLost(o)
    <3>1. k \in Keys
      BY <2>3 DEF ReplayReset, ReplayRestore, RequestLost, HolderInv
    <3>2. run' \in [Keys -> RunRow]
      <4>1. run' = run \/ SetRun(k, "QUEUED") \/ SetRun(k, "DEAD_LETTER")
        BY <2>3 DEF ReplayReset, ReplayRestore, RequestLost
      <4> QED
        BY <4>1, RunsSet DEF RunStatus, TypeOK, RunRow
    <3>3. operator' \in [Operators -> OperatorState]
      <4>1. \/ operator' = [operator EXCEPT ![o].pc = "dispatch"]
            \/ operator' = [operator EXCEPT ![o] = Idle]
        BY <2>3 DEF ReplayReset, ReplayRestore, RequestLost
      <4> QED
        BY <4>1, OperatorsMove DEF OperatorPc
    <3>4. faults' \in [Keys -> 0..MaxFaults] /\ resets' \in [Keys -> 0..MaxResets]
      BY <2>3, <3>1, Spent DEF ReplayReset, ReplayRestore, RequestLost, counters, TypeOK
    <3> QED
      BY <2>3, <3>2, <3>3, <3>4
         DEF ReplayReset, ReplayRestore, RequestLost, counters, TypeOK, JobInv, RunRow, OperatorState
  <2>4. CASE ReplayDispatch(o) \/ RetryDispatch(o) \/ ReplayDispatchFails(o)
    <3>1. operator' \in [Operators -> OperatorState]
      <4>1. \/ operator' = [operator EXCEPT ![o].pc = "restore"]
            \/ operator' = [operator EXCEPT ![o] = Idle]
        BY <2>4 DEF ReplayDispatch, RetryDispatch, ReplayDispatchFails
      <4> QED
        BY <4>1, OperatorsMove DEF OperatorPc
    <3>2. faults' \in [Keys -> 0..MaxFaults]
      BY <2>4, Spent
         DEF ReplayDispatch, RetryDispatch, ReplayDispatchFails, HolderInv, counters, TypeOK
    <3>3. /\ job' \in [Keys -> JobRow]
          /\ JobInv'
      <4>1. parking' = parking
        BY <2>4 DEF ReplayDispatch, RetryDispatch, ReplayDispatchFails
      <4>2. CASE Add(k)
        BY <4>1, <4>2, Adds DEF JobInv
      <4>3. CASE job' = job
        BY <4>1, <4>3 DEF TypeOK, JobInv, JobRow
      <4> QED
        BY <2>4, <4>2, <4>3 DEF ReplayDispatch, RetryDispatch, ReplayDispatchFails
    <3> QED
      BY <2>4, <3>1, <3>2, <3>3
         DEF ReplayDispatch, RetryDispatch, ReplayDispatchFails, counters, TypeOK, JobRow, OperatorState
  <2> QED
    BY <1>9, <2>1, <2>2, <2>3, <2>4 DEF Request
<1>10. CASE UNCHANGED vars
  BY <1>10 DEF vars, TypeOK, JobInv
<1> QED
  BY <1>1, <1>2, <1>3, <1>4, <1>5, <1>6, <1>7, <1>8, <1>9, <1>10 DEF Next

\* What a step does to a job that a worker holds: nothing, unless the worker gives it
\* back, or, as every worker holds one at most, its own job to another.
LEMMA HeldJobsStay ==
  ASSUME TypeOK, JobInv, HolderInv, Next, NEW v \in Workers, worker[v].pc # "idle",
         worker'[v].pc # "idle"
  PROVE  worker'[v].key = worker[v].key /\ job'[worker[v].key].state = "active"
<1> DEFINE k == worker[v].key
<1>1. k \in Keys /\ job[k].state = "active"
  BY DEF HolderInv
<1>2. ASSUME NEW j \in Keys, Enqueue(j)
      PROVE  job'[k].state = "active" /\ worker' = worker
  BY <1>1, <1>2, Adds DEF Enqueue
<1>3. ASSUME NEW j \in Keys, Evict(j) \/ Promote(j) \/ Park(j) \/ ParkNew(j) \/ ParkLost(j)
      PROVE  job'[k].state = "active" /\ worker' = worker
  BY <1>1, <1>3 DEF Evict, Promote, Park, ParkNew, ParkLost, counters, TypeOK
<1>4. ASSUME NEW j \in Keys, Stalled(j)
      PROVE  job'[k].state = "active" /\ worker' = worker
  <2>1. j # k /\ worker' = worker
    BY <1>4 DEF Stalled
  <2>2. CASE FailAttempt(j, FALSE)
    BY <1>1, <1>4, <2>1, <2>2, AttemptsFail DEF Stalled
  <2>3. CASE job' = [job EXCEPT ![j].state = "waiting", ![j].stalls = @ + 1]
    BY <1>1, <2>1, <2>3 DEF TypeOK
  <2> QED
    BY <1>4, <2>1, <2>2, <2>3 DEF Stalled
<1>5. ASSUME NEW w \in Workers, NEW j \in Keys, Fetch(w, j)
      PROVE  job'[k].state = "active" /\ worker'[v] = worker[v]
  BY <1>1, <1>5 DEF Fetch, TypeOK
<1>6. ASSUME NEW w \in Workers, Step(w)
      PROVE  job'[k].state = "active" /\ worker'[v].key = k
  <2>1. CASE Guard(w) \/ Begin(w) \/ Work(w) \/ WorkFails(w) \/ Record(w) \/ RecordFailure(w)
    <3>1. job' = job
      BY <2>1 DEF Guard, Begin, Work, WorkFails, Record, RecordFailure
    <3>2. worker'[v].key = k
      <4>1. CASE Begin(w)
        BY <4>1 DEF Begin, TypeOK
      <4>2. CASE ~ Begin(w)
        <5>1. PICK pc : Goto(w, pc)
          BY <2>1, <4>2 DEF Guard, Work, WorkFails, Record, RecordFailure
        <5> QED
          BY <5>1 DEF Goto, TypeOK
      <4> QED
        BY <4>1, <4>2
    <3> QED
      BY <1>1, <3>1, <3>2
  <2>2. CASE Ack(w) \/ Nack(w)
    <3>1. worker' = [worker EXCEPT ![w] = Idle] /\ worker[w].pc # "idle"
      BY <2>2 DEF Ack, Nack
    <3>2. v # w
      BY <3>1 DEF Idle, TypeOK
    <3>3. worker[w].key # k /\ worker[w].key \in Keys /\ job[worker[w].key].state = "active"
      BY <3>1, <3>2 DEF HolderInv, OneHolder
    <3>4. job'[k] = job[k]
      <4>1. CASE Ack(w)
        BY <3>3, <4>1 DEF Ack, TypeOK
      <4>2. CASE Nack(w)
        BY <1>1, <3>3, <4>2, AttemptsFail DEF Nack
      <4> QED
        BY <2>2, <4>1, <4>2
    <3> QED
      BY <1>1, <3>1, <3>2, <3>4
  <2> QED
    BY <1>6, <2>1, <2>2 DEF Step
<1>7. ASSUME NEW w \in Workers, DatabaseFails(w) \/ Crash(w)
      PROVE  job'[k].state = "active" /\ worker'[v].key = k
  BY <1>1, <1>7 DEF DatabaseFails, Crash, Goto, Idle, TypeOK
<1>8. ASSUME NEW o \in Operators, Request(o)
      PROVE  job'[k].state = "active" /\ worker' = worker
  <2>1. job' = job \/ Add(operator[o].key)
    BY <1>8 DEF Request, ReplayRead, RetryDelete, ReplayReset, ReplayDispatch, ReplayDispatchFails,
                ReplayRestore, RetryDispatch, RequestLost
  <2>2. worker' = worker
    BY <1>8 DEF Request, ReplayRead, RetryDelete, ReplayReset, ReplayDispatch, ReplayDispatchFails,
                ReplayRestore, RetryDispatch, RequestLost, counters
  <2> QED
    BY <1>1, <2>1, <2>2, Adds
<1> QED
  BY <1>2, <1>3, <1>4, <1>5, <1>6, <1>7, <1>8 DEF Next

\* A worker that is busy after a step was so before, or has taken a job that was waiting;
\* one that is idle has put its key away.
LEMMA WorkersFetch ==
  ASSUME TypeOK, HolderInv, Next, NEW w \in Workers
  PROVE  /\ worker[w].pc = "idle" /\ worker'[w].pc # "idle" => \E k \in Keys : Fetch(w, k)
         /\ worker'[w].pc = "idle" => worker'[w].key = NoKey
<1> DEFINE OK == /\ worker[w].pc = "idle" => worker'[w] = worker[w]
                 /\ worker'[w].pc = "idle" => worker'[w].key = NoKey
<1>1. CASE worker' = worker
  BY <1>1 DEF HolderInv
<1>2. ASSUME NEW v \in Workers, NEW k \in Keys, Fetch(v, k)
      PROVE  /\ worker[w].pc = "idle" /\ worker'[w].pc # "idle" => Fetch(w, k)
             /\ worker'[w].pc = "idle" => worker'[w].key = NoKey
  BY <1>2 DEF Fetch, TypeOK, HolderInv
<1>3. ASSUME NEW v \in Workers, Step(v) \/ DatabaseFails(v) \/ Crash(v)
      PROVE  OK
  <2>1. worker[v].pc # "idle"
    BY <1>3 DEF Step, Guard, Begin, Work, WorkFails, Record, RecordFailure, Ack, Nack,
                DatabaseFails, Crash
  <2>2. \A u \in Workers \ {v} : worker'[u] = worker[u]
    BY <1>3 DEF Step, Guard, Begin, Work, WorkFails, Record, RecordFailure, Ack, Nack,
                DatabaseFails, Crash, Goto, TypeOK
  <2>3. CASE worker' = [worker EXCEPT ![v] = Idle]
    BY <2>1, <2>2, <2>3 DEF Idle, HolderInv, TypeOK
  <2>4. CASE worker'[v].pc # "idle"
    BY <2>1, <2>2, <2>4 DEF HolderInv
  <2>5. \/ worker' = [worker EXCEPT ![v] = Idle]
        \/ worker'[v].pc # "idle"
    <3>1. CASE Guard(v) \/ Work(v) \/ WorkFails(v) \/ Record(v) \/ RecordFailure(v)
      BY <3>1 DEF Guard, Work, WorkFails, Record, RecordFailure, Goto, TypeOK
    <3>2. CASE Begin(v)
      BY <3>2 DEF Begin, TypeOK
    <3>3. CASE DatabaseFails(v)
      BY <3>3 DEF DatabaseFails, Goto, TypeOK
    <3> QED
      BY <1>3, <3>1, <3>2, <3>3 DEF Step, Ack, Nack, Crash
  <2> QED
    BY <2>3, <2>4, <2>5
<1>4. ASSUME NEW o \in Operators, Request(o)
      PROVE  worker' = worker
  BY <1>4 DEF Request, ReplayRead, RetryDelete, ReplayReset, ReplayDispatch, ReplayDispatchFails,
              ReplayRestore, RetryDispatch, RequestLost
<1>5. ASSUME NEW k \in Keys, \/ Enqueue(k) \/ Evict(k) \/ Promote(k) \/ Stalled(k)
                             \/ Park(k) \/ ParkNew(k) \/ ParkLost(k)
      PROVE  worker' = worker
  BY <1>5 DEF Enqueue, Evict, Promote, Stalled, Park, ParkNew, ParkLost
<1> QED
  BY <1>1, <1>2, <1>3, <1>4, <1>5 DEF Next

\* A worker keeps the job it holds to itself.
LEMMA HolderStep ==
  ASSUME TypeOK, JobInv, HolderInv, [Next]_vars
  PROVE  HolderInv'
<1>1. CASE UNCHANGED vars
  BY <1>1 DEF vars, HolderInv, OneHolder
<1>2. CASE Next
  <2>1. ASSUME NEW v \in Workers, worker'[v].pc # "idle"
        PROVE  worker'[v].key \in Keys /\ job'[worker'[v].key].state = "active"
    <3>1. CASE worker[v].pc # "idle"
      BY <1>2, <2>1, <3>1, HeldJobsStay DEF HolderInv
    <3>2. ASSUME NEW k \in Keys, Fetch(v, k)
          PROVE  worker'[v].key = k /\ job'[k].state = "active"
      BY <3>2 DEF Fetch, TypeOK
    <3> QED
      BY <1>2, <2>1, <3>1, <3>2, WorkersFetch
  <2>2. ASSUME NEW v \in Workers, NEW w \in Workers, v # w,
               worker'[v].pc # "idle", worker'[w].pc # "idle"
        PROVE  worker'[v].key # worker'[w].key
    <3>1. ASSUME NEW x \in Workers, NEW y \in Workers, x # y, NEW k \in Keys, Fetch(x, k),
                 worker'[y].pc # "idle"
          PROVE  worker'[x].key # worker'[y].key
      <4>1. job[k].state = "waiting" /\ worker'[x].key = k /\ worker'[y] = worker[y]
        BY <3>1 DEF Fetch, TypeOK
      <4>2. job[worker[y].key].state = "active"
        BY <3>1, <4>1 DEF HolderInv
      <4> QED
        BY <4>1, <4>2
    <3>2. CASE worker[v].pc # "idle" /\ worker[w].pc # "idle"
      BY <1>2, <2>2, <3>2, HeldJobsStay DEF HolderInv, OneHolder
    <3> QED
      BY <1>2, <2>2, <3>1, <3>2, WorkersFetch
  <2>3. \A v \in Workers : worker'[v].pc = "idle" => worker'[v].key = NoKey
    BY <1>2, WorkersFetch
  <2>4. OneHolder'
    BY <2>1, <2>2, <2>3, JobQueueAssumption DEF OneHolder
  <2>5. ASSUME NEW o \in Operators, operator'[o].pc # "idle"
        PROVE  operator'[o].key \in Keys
    <3>1. CASE operator' = operator
      BY <2>5, <3>1 DEF HolderInv
    <3>2. ASSUME NEW p \in Operators, Request(p)
          PROVE  \/ operator'[p].pc = "idle"
                 \/ operator'[p].key \in Keys
      <4>1. ASSUME NEW k \in Keys, ReplayRead(p, k) \/ RetryDelete(p, k)
            PROVE  operator'[p].key = k
        BY <4>1 DEF ReplayRead, RetryDelete, TypeOK
      <4>2. CASE operator' = [operator EXCEPT ![p] = Idle]
        BY <4>2 DEF Idle, TypeOK
      <4>3. CASE ReplayReset(p) \/ ReplayDispatchFails(p)
        BY <4>2, <4>3 DEF ReplayReset, ReplayDispatchFails, HolderInv, TypeOK
      <4> QED
        BY <3>2, <4>1, <4>2, <4>3 DEF Request, ReplayDispatch, ReplayRestore, RetryDispatch,
                                      RequestLost
    <3>3. ASSUME NEW p \in Operators, Request(p), p # o
          PROVE  operator'[o] = operator[o]
      BY <3>3 DEF Request, ReplayRead, RetryDelete, ReplayReset, ReplayDispatch,
                  ReplayDispatchFails, ReplayRestore, RetryDispatch, RequestLost, TypeOK
    <3>4. CASE \E p \in Operators : Request(p)
      BY <2>5, <3>2, <3>3, <3>4 DEF HolderInv
    <3>5. ASSUME ~ \E p \in Operators : Request(p)
          PROVE  operator' = operator
      BY <1>2, <3>5 DEF Next, Enqueue, Evict, Promote, Stalled, Park, ParkNew, ParkLost, Fetch, Step,
                        Guard, Begin, Work, WorkFails, Record, RecordFailure, Ack, Nack,
                        DatabaseFails, Crash
    <3> QED
      BY <3>1, <3>4, <3>5
  <2> QED
    BY <2>1, <2>3, <2>4, <2>5 DEF HolderInv
<1> QED
  BY <1>1, <1>2

\* Every variable keeps its type, no job is worked on without attempts left, and none by
\* two workers.
LEMMA TypeInvariance == Spec => [](TypeOK /\ JobInv /\ HolderInv)
<1>1. Init => TypeOK /\ JobInv /\ HolderInv
  BY JobQueueAssumption
     DEF Init, NewJob, Idle, TypeOK, JobInv, HolderInv, OneHolder, JobState, RunStatus, WorkerPc,
         OperatorPc
<1>2. TypeOK /\ JobInv /\ HolderInv /\ [Next]_vars => (TypeOK /\ JobInv /\ HolderInv)'
  BY TypeStep, HolderStep
<1> QED
  BY <1>1, <1>2, PTL DEF Spec

\* The bounds of the types: no job has more attempts than it was given.
THEOREM TypeCorrect == Spec => []TypeOK
BY TypeInvariance, PTL

\* A key's job is held by one worker at a time, across redelivery, backoff and eviction.
THEOREM JobsHaveOneHolder == Spec => []OneHolder
<1>1. HolderInv => OneHolder
  BY DEF HolderInv
<1> QED
  BY <1>1, TypeInvariance, PTL

-----------------------------------------------------------------------------
\* Completions are never taken back.
LEMMA CompletionsGrow ==
  ASSUME TypeOK, HolderInv, [Next]_vars, NEW k \in Keys
  PROVE  completions'[k] \in Nat /\ completions[k] <= completions'[k]
<1>1. ASSUME NEW w \in Workers, Work(w)
      PROVE  completions'[k] \in Nat /\ completions[k] <= completions'[k]
  BY <1>1 DEF Work, TypeOK
<1>2. CASE \A w \in Workers : ~ Work(w)
  <2>1. completions' = completions
    BY <1>2 DEF Next, Enqueue, Evict, Promote, Stalled, Park, ParkNew, ParkLost, Fetch, Step,
                Guard, Begin, WorkFails, Record, RecordFailure, Ack, Nack, DatabaseFails, Crash,
                Request, ReplayRead, RetryDelete, ReplayReset, ReplayDispatch,
                ReplayDispatchFails, ReplayRestore, RetryDispatch, RequestLost, counters, vars
  <2> QED
    BY <2>1 DEF TypeOK
<1> QED
  BY <1>1, <1>2

\* Only an acknowledgement completes a job.
LEMMA AcksComplete ==
  ASSUME TypeOK, JobInv, HolderInv, [Next]_vars, NEW k \in Keys,
         job[k].state # "completed", job'[k].state = "completed"
  PROVE  \E w \in Workers : Ack(w) /\ worker[w].key = k
<1>1. ASSUME NEW w \in Workers, Ack(w)
      PROVE  worker[w].key = k
  BY <1>1 DEF Ack, TypeOK, HolderInv
<1>2. ASSUME NEW j, Add(j)
      PROVE  FALSE
  BY <1>2, Adds
<1>3. ASSUME NEW j \in Keys, job[j].state = "active", NEW r \in BOOLEAN, FailAttempt(j, r)
      PROVE  FALSE
  BY <1>3, AttemptsFail
<1>4. ASSUME NEW w \in Workers, Nack(w)
      PROVE  FALSE
  BY <1>3, <1>4 DEF Nack, HolderInv
<1>5. ASSUME NEW j \in Keys, Stalled(j)
      PROVE  FALSE
  <2>1. CASE job[j].stalls < MaxStalled
    BY <1>5, <2>1 DEF Stalled, TypeOK
  <2>2. CASE ~ (job[j].stalls < MaxStalled)
    BY <1>3, <1>5, <2>2 DEF Stalled
  <2> QED
    BY <2>1, <2>2
<1>6. ASSUME NEW j \in Keys, Evict(j) \/ Promote(j) \/ \E w \in Workers : Fetch(w, j)
      PROVE  FALSE
  <2>1. CASE Evict(j)
    BY <2>1 DEF Evict, NewJob, TypeOK
  <2>2. CASE Promote(j) \/ \E w \in Workers : Fetch(w, j)
    BY <2>2 DEF Promote, Fetch, TypeOK
  <2> QED
    BY <1>6, <2>1, <2>2
<1>7. job' # job
  OBVIOUS
<1> QED
  BY <1>1, <1>2, <1>4, <1>5, <1>6, <1>7
     DEF Next, Enqueue, Park, ParkNew, ParkLost, Step, Guard, Begin, Work, WorkFails, Record,
         RecordFailure, DatabaseFails, Crash, Request, ReplayRead, RetryDelete, ReplayReset,
         ReplayDispatch, ReplayDispatchFails, ReplayRestore, RetryDispatch, RequestLost, vars

\* Only a worker that takes a job makes it active.
LEMMA OnlyFetched ==
  ASSUME TypeOK, JobInv, HolderInv, Next, NEW k \in Keys,
         job[k].state # "active", job'[k].state = "active"
  PROVE  \E w \in Workers : Fetch(w, k)
<1>1. ASSUME NEW w \in Workers, NEW j \in Keys, Fetch(w, j)
      PROVE  j = k
  BY <1>1 DEF Fetch, TypeOK
<1>2. ASSUME NEW j, Add(j)
      PROVE  FALSE
  BY <1>2, Adds
<1>3. ASSUME NEW j \in Keys, job[j].state = "active", NEW r \in BOOLEAN, FailAttempt(j, r)
      PROVE  FALSE
  BY <1>3, AttemptsFail
<1>4. ASSUME NEW w \in Workers, Nack(w) \/ Ack(w)
      PROVE  FALSE
  <2>1. worker[w].key \in Keys /\ job[worker[w].key].state = "active"
    BY <1>4 DEF Nack, Ack, HolderInv
  <2>2. ~ Ack(w)
    BY <2>1 DEF Ack, TypeOK
  <2> QED
    BY <1>3, <1>4, <2>1, <2>2 DEF Nack
<1>5. ASSUME NEW j \in Keys, Stalled(j)
      PROVE  FALSE
  <2>1. CASE job[j].stalls < MaxStalled
    BY <1>5, <2>1 DEF Stalled, TypeOK
  <2>2. CASE ~ (job[j].stalls < MaxStalled)
    BY <1>3, <1>5, <2>2 DEF Stalled
  <2> QED
    BY <2>1, <2>2
<1>6. ASSUME NEW j \in Keys, Evict(j) \/ Promote(j)
      PROVE  FALSE
  <2>1. CASE Evict(j)
    BY <2>1 DEF Evict, NewJob, TypeOK
  <2>2. CASE Promote(j)
    BY <2>2 DEF Promote, TypeOK
  <2> QED
    BY <1>6, <2>1, <2>2
<1>7. job' # job
  OBVIOUS
<1> QED
  BY <1>1, <1>2, <1>4, <1>5, <1>6, <1>7
     DEF Next, Enqueue, Park, ParkNew, ParkLost, Step, Guard, Begin, Work, WorkFails, Record,
         RecordFailure, DatabaseFails, Crash, Request, ReplayRead, RetryDelete, ReplayReset,
         ReplayDispatch, ReplayDispatchFails, ReplayRestore, RetryDispatch, RequestLost

\* Only a worker that records its completion makes a run SUCCEEDED.
LEMMA RecordsSucceed ==
  ASSUME TypeOK, HolderInv, [Next]_vars, NEW k \in Keys,
         run[k].status # "SUCCEEDED", run'[k].status = "SUCCEEDED"
  PROVE  \E w \in Workers : Record(w) /\ worker[w].key = k /\ HasRow(k, worker[w].gen)
<1>1. ASSUME NEW w \in Workers, Record(w)
      PROVE  worker[w].key = k /\ HasRow(k, worker[w].gen)
  BY <1>1 DEF Record, SetRun, TypeOK, HolderInv
<1>2. ASSUME NEW j, NEW status, SetRun(j, status)
      PROVE  status = "SUCCEEDED"
  BY <1>2 DEF SetRun, TypeOK
<1>3. ASSUME NEW o \in Operators, NEW j \in Keys, RetryDelete(o, j)
      PROVE  FALSE
  BY <1>3 DEF RetryDelete, TypeOK
<1>4. run' # run
  OBVIOUS
<1> QED
  BY <1>1, <1>2, <1>3, <1>4
     DEF Next, Enqueue, Evict, Promote, Stalled, Park, ParkNew, ParkLost, Fetch, Step, Guard,
         Begin, Work, WorkFails, RecordFailure, Ack, Nack, DatabaseFails, Crash, Request,
         ReplayRead, ReplayReset, ReplayDispatch, ReplayDispatchFails, ReplayRestore,
         RetryDispatch, RequestLost, counters, vars

\* How the program counter of a worker moves.
LEMMA WorkersStep ==
  ASSUME TypeOK, HolderInv, Next, NEW w \in Workers, worker'[w] # worker[w]
  PROVE  \/ \E k \in Keys : Fetch(w, k)
         \/ Step(w) \/ DatabaseFails(w) \/ Crash(w)
<1>1. ASSUME NEW v \in Workers, v # w,
             (\E k \in Keys : Fetch(v, k)) \/ Step(v) \/ DatabaseFails(v) \/ Crash(v)
      PROVE  FALSE
  BY <1>1 DEF Fetch, Step, Guard, Begin, Work, WorkFails, Record, RecordFailure, Ack, Nack,
              DatabaseFails, Crash, Goto, TypeOK
<1>2. worker' # worker
  OBVIOUS
<1> QED
  BY <1>1, <1>2
     DEF Next, Enqueue, Evict, Promote, Stalled, Park, ParkNew, ParkLost, Request, ReplayRead,
         RetryDelete, ReplayReset, ReplayDispatch, ReplayDispatchFails, ReplayRestore,
         RetryDispatch, RequestLost, counters

\* A finished job, or a run marked SUCCEEDED, stands for work that returned, and so does
\* a worker that is about to say so.
LEMMA DoneStep ==
  ASSUME TypeOK, TypeOK', JobInv, HolderInv, DoneInv, [Next]_vars
  PROVE  DoneInv'
<1>1. ASSUME NEW k \in Keys, job'[k].state = "completed"
      PROVE  completions'[k] > 0
  <2>1. completions[k] > 0
    BY <1>1, AcksComplete DEF DoneInv, CompletedMeansDone, Ack
  <2> QED
    BY <2>1, CompletionsGrow DEF TypeOK
<1>2. ASSUME NEW k \in Keys, run'[k].status = "SUCCEEDED"
      PROVE  completions'[k] > 0
  <2>1. completions[k] > 0
    BY <1>2, RecordsSucceed DEF DoneInv, CompletedMeansDone, Record
  <2> QED
    BY <2>1, CompletionsGrow DEF TypeOK
<1>3. ASSUME NEW w \in Workers, worker'[w].pc \in {"record", "ack"}
      PROVE  completions'[worker'[w].key] > 0
  <2> DEFINE k == worker[w].key
  <2>1. CASE worker'[w] = worker[w]
    <3>1. k \in Keys /\ completions[k] > 0
      BY <1>3, <2>1 DEF HolderInv, DoneInv
    <3> QED
      BY <2>1, <3>1, CompletionsGrow DEF TypeOK
  <2>2. CASE worker'[w] # worker[w]
    <3>1. Guard(w) \/ Work(w) \/ Record(w)
      <4>1. ~ \E j \in Keys : Fetch(w, j)
        BY <1>3 DEF Fetch, TypeOK
      <4>2. ~ Begin(w) /\ ~ WorkFails(w) /\ ~ RecordFailure(w) /\ ~ Ack(w) /\ ~ Nack(w)
        <5>1. ~ Begin(w)
          BY <1>3 DEF Begin, TypeOK
        <5>2. ~ WorkFails(w) /\ ~ RecordFailure(w)
          BY <1>3 DEF WorkFails, RecordFailure, Goto, TypeOK
        <5>3. ~ Ack(w) /\ ~ Nack(w)
          BY <1>3, Returns
        <5> QED
          BY <5>1, <5>2, <5>3
      <4>3. ~ DatabaseFails(w) /\ ~ Crash(w)
        BY <1>3 DEF DatabaseFails, Crash, Goto, Idle, TypeOK
      <4> QED
        BY <2>2, <4>1, <4>2, <4>3, WorkersStep DEF Step, vars
    <3>2. k \in Keys /\ worker'[w].key = k
      BY <3>1 DEF Guard, Work, Record, Goto, TypeOK, HolderInv
    <3>3. CASE Guard(w)
      <4>1. run[k].status = "SUCCEEDED"
        BY <1>3, <3>3 DEF Guard, Goto, TypeOK
      <4> QED
        BY <3>2, <4>1, CompletionsGrow DEF DoneInv, CompletedMeansDone, TypeOK
    <3>4. CASE Work(w)
      BY <3>2, <3>4 DEF Work, TypeOK
    <3>5. CASE Record(w)
      BY <3>2, <3>5, CompletionsGrow DEF Record, DoneInv, TypeOK
    <3> QED
      BY <3>1, <3>3, <3>4, <3>5
  <2> QED
    BY <2>1, <2>2
<1> QED
  BY <1>1, <1>2, <1>3 DEF DoneInv, CompletedMeansDone

-----------------------------------------------------------------------------
\* Faults and resets are never forgotten.
LEMMA PaymentsGrow ==
  ASSUME TypeOK, TypeOK', [Next]_vars, NEW k \in Keys
  PROVE  /\ faults[k] <= faults'[k] /\ resets[k] <= resets'[k]
         /\ Paid(k) \in Nat /\ Paid(k)' \in Nat /\ Paid(k) <= Paid(k)'
<1>1. /\ faults[k] \in Nat /\ resets[k] \in Nat /\ faults'[k] \in Nat /\ resets'[k] \in Nat
  BY JobQueueAssumption DEF TypeOK
<1>2. faults[k] <= faults'[k]
  <2>1. ASSUME NEW j, Fault(j)
        PROVE  faults[k] <= faults'[k]
    BY <1>1, <2>1 DEF Fault, TypeOK
  <2>2. faults' = faults \/ \E j : Fault(j)
    BY DEF Next, Enqueue, Evict, Promote, Stalled, Park, ParkNew, ParkLost, Fetch, Step,
           Guard, Begin, Work, WorkFails, Record, RecordFailure, Ack, Nack, DatabaseFails, Crash,
           Request, ReplayRead, RetryDelete, ReplayReset, ReplayDispatch, ReplayDispatchFails,
           ReplayRestore, RetryDispatch, RequestLost, counters, vars
  <2> QED
    BY <1>1, <2>1, <2>2
<1>3. resets[k] <= resets'[k]
  <2>1. ASSUME NEW j, Reset(j)
        PROVE  resets[k] <= resets'[k]
    BY <1>1, <2>1 DEF Reset, TypeOK
  <2>2. resets' = resets \/ \E j : Reset(j)
    BY DEF Next, Enqueue, Evict, Promote, Stalled, Park, ParkNew, ParkLost, Fetch, Step,
           Guard, Begin, Work, WorkFails, Record, RecordFailure, Ack, Nack, DatabaseFails, Crash,
           Request, ReplayRead, RetryDelete, ReplayReset, ReplayDispatch, ReplayDispatchFails,
           ReplayRestore, RetryDispatch, RequestLost, counters, vars
  <2> QED
    BY <1>1, <2>1, <2>2
<1> QED
  BY <1>1, <1>2, <1>3 DEF Paid

\* A fault and a reset pay one.
LEMMA Pays ==
  ASSUME TypeOK, TypeOK', [Next]_vars, NEW k \in Keys, Fault(k) \/ Reset(k)
  PROVE  Paid(k) < Paid(k)'
<1>1. /\ faults[k] \in Nat /\ resets[k] \in Nat /\ faults'[k] \in Nat /\ resets'[k] \in Nat
  BY JobQueueAssumption DEF TypeOK
<1>2. faults[k] <= faults'[k] /\ resets[k] <= resets'[k]
  BY PaymentsGrow
<1>3. faults'[k] = faults[k] + 1 \/ resets'[k] = resets[k] + 1
  BY DEF Fault, Reset, TypeOK
<1> QED
  BY <1>1, <1>2, <1>3 DEF Paid

\* A step keeps the row of a key, or deletes it and pays.
LEMMA RowsStay ==
  ASSUME TypeOK, [Next]_vars, NEW k \in Keys
  PROVE  \/ /\ run'[k].gen = run[k].gen
            /\ run'[k].status = "NONE" => run[k].status = "NONE"
         \/ Reset(k) /\ run'[k].gen = resets'[k]
<1> DEFINE OK == \/ /\ run'[k].gen = run[k].gen
                    /\ run'[k].status = "NONE" => run[k].status = "NONE"
                 \/ Reset(k) /\ run'[k].gen = resets'[k]
<1>1. ASSUME NEW j, NEW status, SetRun(j, status), status # "NONE"
      PROVE  OK
  BY <1>1 DEF SetRun, TypeOK
<1>2. ASSUME NEW o \in Operators, NEW j \in Keys, RetryDelete(o, j)
      PROVE  OK
  <2>1. CASE run' = run
    BY <2>1
  <2>2. CASE Reset(j) /\ run' = [run EXCEPT ![j] = [status |-> "NONE", gen |-> resets'[j]]]
    BY <2>2 DEF TypeOK
  <2> QED
    BY <1>2, <2>1, <2>2 DEF RetryDelete
<1>3. \/ run' = run
      \/ \E j, status : SetRun(j, status) /\ status # "NONE"
      \/ \E o \in Operators, j \in Keys : RetryDelete(o, j)
  <2> DEFINE Set == \E j, status : SetRun(j, status) /\ status # "NONE"
  <2>1. ASSUME NEW j \in Keys, Park(j) \/ ParkNew(j)
        PROVE  run' = run \/ Set
    BY <2>1 DEF Park, ParkNew
  <2>2. ASSUME NEW w \in Workers, Begin(w) \/ Record(w) \/ RecordFailure(w)
        PROVE  run' = run \/ Set
    BY <2>2 DEF Begin, Record, RecordFailure
  <2>3. ASSUME NEW o \in Operators, ReplayReset(o) \/ ReplayRestore(o)
        PROVE  run' = run \/ Set
    BY <2>3 DEF ReplayReset, ReplayRestore
  <2> HIDE DEF Set
  <2>4. \/ run' = run \/ Set
        \/ \E o \in Operators, j \in Keys : RetryDelete(o, j)
    BY <2>1, <2>2, <2>3
       DEF Next, Enqueue, Evict, Promote, Stalled, ParkLost, Fetch, Step, Guard, Work, WorkFails,
           Ack, Nack, DatabaseFails, Crash, Request, ReplayRead, ReplayDispatch,
           ReplayDispatchFails, RetryDispatch, RequestLost, counters, vars
  <2> QED
    BY <2>4 DEF Set
<1> QED
  BY <1>1, <1>2, <1>3

\* Rows are numbered, and a run is not SUCCEEDED under the worker that works on it.
LEMMA RowStep ==
  ASSUME TypeOK, TypeOK', JobInv, HolderInv, HolderInv', RowInv, [Next]_vars
  PROVE  RowInv'
<1>1. \A k \in Keys : /\ run[k].gen \in Nat /\ run'[k].gen \in Nat
                      /\ resets[k] \in Nat /\ resets'[k] \in Nat
                      /\ resets[k] <= resets'[k] /\ run[k].gen <= resets[k]
                      /\ Reset(k) => resets'[k] = resets[k] + 1
  BY PaymentsGrow, JobQueueAssumption DEF TypeOK, RowInv, Reset
<1>2. ASSUME NEW k \in Keys
      PROVE  run'[k].gen <= resets'[k]
  BY <1>1, RowsStay
<1>3. ASSUME NEW w \in Workers, worker'[w].pc \in {"begin", "work", "record", "recordFailure"}
      PROVE  run'[worker'[w].key].status # "SUCCEEDED"
  <2> DEFINE k == worker'[w].key
  <2>1. k \in Keys
    BY <1>3 DEF HolderInv
  <2>2. CASE run[k].status = "SUCCEEDED"
    <3>1. worker'[w] # worker[w]
      BY <1>3, <2>2 DEF RowInv
    <3>2. Step(w) \/ DatabaseFails(w)
      <4>1. ~ (\E j \in Keys : Fetch(w, j)) /\ ~ Crash(w)
        BY <1>3, Returns DEF Fetch, TypeOK
      <4> QED
        BY <3>1, <4>1, WorkersStep DEF vars
    <3>3. worker[w].key = k /\ worker[w].pc \in {"guard", "begin", "work", "record", "recordFailure"}
      <4>1. ~ Ack(w) /\ ~ Nack(w)
        BY <1>3, Returns
      <4>2. CASE Begin(w)
        BY <4>2 DEF Begin, TypeOK
      <4>3. CASE \E pc : Goto(w, pc)
        <5>1. worker[w].key = k
          BY <4>3 DEF Goto, TypeOK
        <5> QED
          BY <3>2, <4>1, <5>1 DEF Step, Guard, Begin, Work, WorkFails, Record, RecordFailure,
                                  DatabaseFails
      <4> QED
        BY <3>2, <4>1, <4>2, <4>3 DEF Step, Guard, Work, WorkFails, Record, RecordFailure,
                                      DatabaseFails
    <3>4. worker[w].pc = "guard"
      BY <2>2, <3>3 DEF RowInv
    <3>5. Guard(w) \/ DatabaseFails(w)
      BY <3>2, <3>4 DEF Step, Begin, Work, WorkFails, Record, RecordFailure, Ack, Nack
    <3>6. CASE Guard(w)
      BY <1>3, <2>2, <3>3, <3>6 DEF Guard, Goto, TypeOK
    <3>7. CASE DatabaseFails(w)
      BY <1>3, <3>4, <3>7 DEF DatabaseFails, Goto, TypeOK
    <3> QED
      BY <3>5, <3>6, <3>7
  <2>3. CASE run[k].status # "SUCCEEDED" /\ run'[k].status = "SUCCEEDED"
    <3>1. PICK v \in Workers : Record(v) /\ worker[v].key = k /\ HasRow(k, worker[v].gen)
      BY <2>1, <2>3, RecordsSucceed
    <3>2. worker'[v].pc = "ack" /\ worker'[v].key = k
      BY <3>1 DEF Record, Goto, TypeOK
    <3>3. v = w
      BY <1>3, <3>2 DEF HolderInv, OneHolder
    <3> QED
      BY <1>3, <3>2, <3>3
  <2> QED
    BY <2>2, <2>3
<1>4. ASSUME NEW w \in Workers, worker'[w].pc \in {"work", "record", "recordFailure"}
      PROVE  LET k == worker'[w].key
             IN  /\ worker'[w].gen <= run'[k].gen
                 /\ run'[k].status = "NONE" => worker'[w].gen < run'[k].gen
  <2> DEFINE k == worker'[w].key
  <2>1. k \in Keys /\ worker'[w].gen \in Nat
    BY <1>4, JobQueueAssumption DEF HolderInv, TypeOK
  <2>2. CASE Begin(w)
    BY <2>1, <2>2, <1>1 DEF Begin, SetRun, TypeOK
  <2>3. CASE ~ Begin(w)
    <3>1. /\ worker[w].pc \in {"work", "record", "recordFailure"}
          /\ worker[w].key = k /\ worker[w].gen = worker'[w].gen
      <4>1. CASE worker'[w] = worker[w]
        BY <1>4, <4>1
      <4>2. CASE worker'[w] # worker[w]
        <5>1. ~ (\E j \in Keys : Fetch(w, j)) /\ ~ Crash(w)
          BY <1>4, Returns DEF Fetch, TypeOK
        <5>2. ~ Ack(w) /\ ~ Nack(w)
          BY <1>4, Returns
        <5>3. \/ Guard(w) \/ Work(w) \/ WorkFails(w) \/ Record(w) \/ RecordFailure(w)
              \/ DatabaseFails(w)
          BY <2>3, <4>2, <5>1, <5>2, WorkersStep DEF Step, vars
        <5>4. \E pc : Goto(w, pc)
          BY <5>3 DEF Guard, Work, WorkFails, Record, RecordFailure, DatabaseFails
        <5>5. worker[w].key = k /\ worker[w].gen = worker'[w].gen
          BY <5>4 DEF Goto, TypeOK
        <5>6. ~ Guard(w) /\ ~ (DatabaseFails(w) /\ worker[w].pc \in {"guard", "begin"})
          BY <1>4 DEF Guard, DatabaseFails, Goto, TypeOK
        <5>7. worker[w].pc \in {"work", "record", "recordFailure"}
          BY <5>3, <5>6 DEF Work, WorkFails, Record, RecordFailure, DatabaseFails
        <5> QED
          BY <5>5, <5>7
      <4> QED
        BY <4>1, <4>2
    <3>2. /\ worker[w].gen <= run[k].gen
          /\ run[k].status = "NONE" => worker[w].gen < run[k].gen
      BY <3>1 DEF RowInv
    <3> QED
      BY <1>1, <2>1, <3>1, <3>2, RowsStay
  <2> QED
    BY <2>2, <2>3
<1> QED
  BY <1>2, <1>3, <1>4 DEF RowInv

-----------------------------------------------------------------------------
\* The set of the replays that may restore a dead letter is finite, and changes by the
\* replays that fail to dispatch, restore, or die.
LEMMA Restorers ==
  ASSUME NEW k \in Keys, TypeOK
  PROVE  IsFiniteSet(Restoring(k)) /\ Cardinality(Restoring(k)) \in Nat
<1>1. Restoring(k) \in SUBSET Operators /\ IsFiniteSet(Operators)
  BY JobQueueAssumption DEF Restoring
<1>2. IsFiniteSet(Restoring(k))
  BY <1>1, FS_Subset
<1> QED
  BY <1>2, FS_CardinalityType

LEMMA RestorersStep ==
  ASSUME TypeOK, HolderInv, Next, NEW k \in Keys
  PROVE  \/ Restoring(k)' = Restoring(k)
         \/ \E o \in Operators :
              /\ ReplayDispatchFails(o) /\ operator[o].key = k
              /\ o \notin Restoring(k) /\ Restoring(k)' = Restoring(k) \cup {o}
         \/ \E o \in Operators :
              /\ ReplayRestore(o) \/ RequestLost(o)
              /\ operator[o].key = k
              /\ o \in Restoring(k) /\ Restoring(k)' = Restoring(k) \ {o}
<1>1. CASE operator' = operator
  BY <1>1 DEF Restoring
<1>2. ASSUME NEW o \in Operators, Request(o)
      PROVE  \/ Restoring(k)' = Restoring(k)
             \/ /\ ReplayDispatchFails(o) /\ operator[o].key = k
                /\ o \notin Restoring(k) /\ Restoring(k)' = Restoring(k) \cup {o}
             \/ /\ ReplayRestore(o) \/ RequestLost(o)
                /\ operator[o].key = k
                /\ o \in Restoring(k) /\ Restoring(k)' = Restoring(k) \ {o}
  <2>1. \A p \in Operators \ {o} : operator'[p] = operator[p]
    BY <1>2 DEF Request, ReplayRead, RetryDelete, ReplayReset, ReplayDispatch,
                ReplayDispatchFails, ReplayRestore, RetryDispatch, RequestLost, TypeOK
  <2>2. ASSUME operator[o].pc # "restore", operator'[o].pc # "restore"
        PROVE  Restoring(k)' = Restoring(k)
    BY <2>1, <2>2 DEF Restoring
  <2>3. CASE ReplayDispatchFails(o)
    <3>1. operator[o].pc # "restore" /\ operator'[o].pc = "restore"
            /\ operator'[o].key = operator[o].key
      BY <2>3 DEF ReplayDispatchFails, TypeOK
    <3> QED
      BY <2>1, <2>3, <3>1 DEF Restoring
  <2>4. CASE ReplayRestore(o) \/ RequestLost(o)
    <3>1. operator'[o].pc # "restore"
      BY <2>4 DEF ReplayRestore, RequestLost, Idle, TypeOK
    <3> QED
      BY <2>1, <2>4, <3>1 DEF Restoring
  <2>5. CASE ~ (ReplayDispatchFails(o) \/ ReplayRestore(o) \/ RequestLost(o))
    <3>1. operator[o].pc # "restore"
      BY <1>2, <2>5 DEF Request, ReplayRead, RetryDelete, ReplayReset, ReplayDispatch,
                        RetryDispatch
    <3>2. operator'[o].pc # "restore"
      BY <1>2, <2>5 DEF Request, ReplayRead, RetryDelete, ReplayReset, ReplayDispatch,
                        RetryDispatch, Idle, TypeOK
    <3> QED
      BY <2>2, <3>1, <3>2
  <2> QED
    BY <2>3, <2>4, <2>5
<1>3. ASSUME ~ \E o \in Operators : Request(o)
      PROVE  operator' = operator
  BY <1>3 DEF Next, Enqueue, Evict, Promote, Stalled, Park, ParkNew, ParkLost, Fetch, Step,
              Guard, Begin, Work, WorkFails, Record, RecordFailure, Ack, Nack, DatabaseFails, Crash
<1> QED
  BY <1>1, <1>2, <1>3

\* What is owed for a key grows with a completion, or with a payment; a replay that
\* restores its dead letter makes it less.
LEMMA OwedStep ==
  ASSUME TypeOK, TypeOK', HolderInv, Next, NEW k \in Keys
  PROVE  /\ Owed(k) \in Nat /\ Owed(k)' \in Nat
         /\ \/ Owed(k)' = Owed(k) + 1 /\ \E w \in Workers : Work(w) /\ worker[w].key = k
            \/ /\ Owed(k)' = Owed(k) + 1 /\ Paid(k) < Paid(k)'
               /\ \E o \in Operators : ReplayDispatchFails(o)
            \/ Owed(k)' < Owed(k)
            \/ Owed(k)' = Owed(k)
<1>1. /\ IsFiniteSet(Restoring(k)) /\ Cardinality(Restoring(k)) \in Nat
      /\ Cardinality(Restoring(k)') \in Nat
  <2>1. Restoring(k)' \in SUBSET Operators /\ IsFiniteSet(Operators)
    BY JobQueueAssumption DEF Restoring
  <2>2. IsFiniteSet(Restoring(k)')
    BY <2>1, FS_Subset
  <2> QED
    BY <2>2, Restorers, FS_CardinalityType
<1>2. completions[k] \in Nat /\ completions'[k] \in Nat
  BY DEF TypeOK
<1>3. Owed(k) \in Nat /\ Owed(k)' \in Nat
  BY <1>1, <1>2 DEF Owed
<1>4. CASE \E w \in Workers : Work(w)
  <2>1. PICK w \in Workers : Work(w)
    BY <1>4
  <2>2. Restoring(k)' = Restoring(k)
    BY <2>1 DEF Work, Restoring
  <2>3. completions'[k] = IF worker[w].key = k THEN completions[k] + 1 ELSE completions[k]
    BY <2>1 DEF Work, TypeOK
  <2> QED
    BY <1>1, <1>2, <1>3, <2>1, <2>2, <2>3 DEF Owed
<1>5. CASE ~ \E w \in Workers : Work(w)
  <2>1. completions' = completions
    BY <1>5 DEF Next, Enqueue, Evict, Promote, Stalled, Park, ParkNew, ParkLost, Fetch, Step,
                Guard, Begin, WorkFails, Record, RecordFailure, Ack, Nack, DatabaseFails, Crash,
                Request, ReplayRead, RetryDelete, ReplayReset, ReplayDispatch,
                ReplayDispatchFails, ReplayRestore, RetryDispatch, RequestLost, counters
  <2>2. CASE Restoring(k)' = Restoring(k)
    BY <1>3, <2>1, <2>2 DEF Owed
  <2>3. ASSUME NEW o \in Operators, ReplayDispatchFails(o), operator[o].key = k,
               o \notin Restoring(k), Restoring(k)' = Restoring(k) \cup {o}
        PROVE  Owed(k)' = Owed(k) + 1 /\ Paid(k) < Paid(k)'
    <3>1. Cardinality(Restoring(k)') = Cardinality(Restoring(k)) + 1
      BY <1>1, <2>3, FS_AddElement
    <3>2. Paid(k) < Paid(k)'
      BY <2>3, Pays DEF ReplayDispatchFails
    <3> QED
      BY <1>1, <1>2, <2>1, <3>1, <3>2 DEF Owed
  <2>4. ASSUME NEW o \in Operators, o \in Restoring(k), Restoring(k)' = Restoring(k) \ {o}
        PROVE  Owed(k)' < Owed(k)
    <3>1. Cardinality(Restoring(k)') = Cardinality(Restoring(k)) - 1
      BY <1>1, <2>4, FS_RemoveElement
    <3> QED
      BY <1>1, <1>2, <2>1, <3>1 DEF Owed
  <2> QED
    BY <1>3, <2>2, <2>3, <2>4, RestorersStep
<1> QED
  BY <1>4, <1>5

\* A replay that restores its dead letter pays with what it kept.
LEMMA RestoresPay ==
  ASSUME TypeOK, TypeOK', HolderInv, Next, NEW k \in Keys,
         NEW o \in Operators, operator[o].key = k, ReplayRestore(o)
  PROVE  Owed(k)' < Owed(k)
<1>1. o \in Restoring(k)
  BY DEF ReplayRestore, Restoring
<1>2. Restoring(k)' = Restoring(k) \ {o}
  <2>1. operator'[o].pc # "restore" /\ \A p \in Operators \ {o} : operator'[p] = operator[p]
    BY DEF ReplayRestore, Idle, TypeOK
  <2> QED
    BY <2>1 DEF Restoring
<1>3. completions'[k] = completions[k] /\ completions[k] \in Nat
  BY DEF ReplayRestore, counters, TypeOK
<1>4. IsFiniteSet(Restoring(k)) /\ Cardinality(Restoring(k)) \in Nat
  BY Restorers
<1>5. Cardinality(Restoring(k)') = Cardinality(Restoring(k)) - 1
  BY <1>1, <1>2, <1>4, FS_RemoveElement
<1> QED
  BY <1>3, <1>4, <1>5 DEF Owed

\* A step that neither pays for k nor takes from what it owes moves its row, its worker
\* and its handler as follows.
LEMMA UnpaidRun ==
  ASSUME TypeOK, TypeOK', JobInv, HolderInv, RowInv, Next, NEW k \in Keys,
         ~ (Paid(k) < Paid(k)'), ~ (Owed(k)' < Owed(k)),
         run[k].status = "SUCCEEDED", parking[k] = "none"
  PROVE  run'[k].status = "SUCCEEDED"
<1>1. ~ Fault(k) /\ ~ Reset(k)
  BY Pays
<1>2. ASSUME NEW w \in Workers, Begin(w) \/ Record(w) \/ RecordFailure(w)
      PROVE  run'[k] = run[k]
  <2>1. worker[w].key # k
    BY <1>2 DEF Begin, Record, RecordFailure, RowInv
  <2> QED
    BY <1>2, <2>1 DEF Begin, Record, RecordFailure, SetRun, TypeOK
<1>3. ASSUME NEW j \in Keys, Park(j) \/ ParkNew(j)
      PROVE  run'[k] = run[k]
  <2>1. j # k
    BY <1>3 DEF Park, ParkNew
  <2> QED
    BY <1>3, <2>1 DEF Park, ParkNew, SetRun, TypeOK
<1>4. ASSUME NEW o \in Operators, ReplayReset(o) \/ ReplayRestore(o)
      PROVE  run'[k] = run[k]
  <2>1. CASE operator[o].key # k
    BY <1>4, <2>1 DEF ReplayReset, ReplayRestore, SetRun, TypeOK
  <2>2. CASE operator[o].key = k
    <3>1. ~ ReplayRestore(o)
      BY <2>2, RestoresPay
    <3> QED
      BY <1>1, <1>4, <2>2, <3>1 DEF ReplayReset
  <2> QED
    BY <2>1, <2>2
<1>5. ASSUME NEW o \in Operators, NEW j \in Keys, RetryDelete(o, j)
      PROVE  run'[k] = run[k]
  BY <1>1, <1>5 DEF RetryDelete, TypeOK
<1>6. run'[k] = run[k]
  BY <1>2, <1>3, <1>4, <1>5
     DEF Next, Enqueue, Evict, Promote, Stalled, ParkLost, Fetch, Step, Guard, Work, WorkFails,
         Ack, Nack, DatabaseFails, Crash, Request, ReplayRead, ReplayDispatch,
         ReplayDispatchFails, RetryDispatch, RequestLost, counters
<1> QED
  BY <1>6

LEMMA UnpaidRow ==
  ASSUME TypeOK, TypeOK', RowInv, Next, NEW k \in Keys, ~ (Paid(k) < Paid(k)'),
         NEW gen, HasRow(k, gen)
  PROVE  HasRow(k, gen)'
<1>1. ~ Reset(k)
  BY Pays
<1> QED
  BY <1>1, RowsStay DEF HasRow

\* The worker that holds k goes on with it, or has acknowledged or failed it.
LEMMA UnpaidWorker ==
  ASSUME TypeOK, TypeOK', HolderInv, Next, NEW k \in Keys, ~ (Paid(k) < Paid(k)'),
         NEW w \in Workers, worker[w].key = k
  PROVE  \/ worker'[w] = worker[w]
         \/ Guard(w) \/ Begin(w) \/ Work(w) \/ WorkFails(w) \/ Record(w) \/ RecordFailure(w)
         \/ Ack(w) \/ Nack(w)
<1>1. ~ Fault(k)
  BY Pays
<1>2. ~ DatabaseFails(w) /\ ~ Crash(w)
  BY <1>1 DEF DatabaseFails, Crash
<1>3. ~ \E j \in Keys : Fetch(w, j)
  BY JobQueueAssumption DEF Fetch, HolderInv
<1> QED
  BY <1>2, <1>3, WorkersStep DEF Step

\* What is settled stays settled, unless somebody pays.
LEMMA SettledStays ==
  ASSUME TypeOK, TypeOK', JobInv, HolderInv, HolderInv', RowInv, Next, NEW k \in Keys,
         ~ (Paid(k) < Paid(k)'), ~ (Owed(k)' < Owed(k)), Settled(k)
  PROVE  Settled(k)'
<1>0. parking[k] = "none" /\ NoKey # k
  BY JobQueueAssumption DEF Settled
<1>1. run'[k].status = "SUCCEEDED" \/ \E w \in Workers : Recording(w, k)'
  <2>1. CASE run[k].status = "SUCCEEDED"
    BY <1>0, <2>1, UnpaidRun
  <2>2. ASSUME NEW w \in Workers, Recording(w, k)
        PROVE  run'[k].status = "SUCCEEDED" \/ Recording(w, k)'
    <3>1. worker[w].pc = "record" /\ worker[w].key = k /\ HasRow(k, worker[w].gen)
      BY <2>2 DEF Recording
    <3>2. CASE worker'[w] = worker[w]
      BY <3>1, <3>2, UnpaidRow DEF Recording, HasRow
    <3>3. CASE Record(w)
      BY <3>1, <3>3 DEF Record, SetRun, TypeOK
    <3> QED
      BY <3>1, <3>2, <3>3, UnpaidWorker DEF Guard, Begin, Work, WorkFails, RecordFailure, Ack, Nack
  <2> QED
    BY <2>1, <2>2 DEF Settled
<1>2. ASSUME NEW w \in Workers, worker'[w].key = k
      PROVE  worker'[w].pc # "nack"
  <2>1. CASE worker[w].key = k
    <3>1. worker[w].pc # "nack"
      BY <2>1 DEF Settled
    <3>2. ~ RecordFailure(w)
      <4>1. ASSUME RecordFailure(w)
            PROVE  FALSE
        <5>1. worker[w].pc = "recordFailure" /\ run[k].status # "SUCCEEDED"
          BY <2>1, <4>1 DEF RecordFailure, RowInv
        <5>2. PICK v \in Workers : Recording(v, k)
          BY <5>1 DEF Settled
        <5>3. v = w
          BY <2>1, <5>2, <5>1 DEF Recording, HolderInv, OneHolder
        <5> QED
          BY <5>1, <5>2, <5>3 DEF Recording
      <4> QED
        BY <4>1
    <3>3. CASE worker'[w] = worker[w]
      BY <3>1, <3>3
    <3>4. CASE Ack(w) \/ Nack(w)
      BY <1>0, <1>2, <3>4, Returns
    <3>5. CASE Guard(w) \/ Work(w) \/ WorkFails(w) \/ Record(w)
      BY <3>5 DEF Guard, Work, WorkFails, Record, Goto, TypeOK
    <3>6. CASE Begin(w)
      BY <3>6 DEF Begin, TypeOK
    <3> QED
      BY <2>1, <3>2, <3>3, <3>4, <3>5, <3>6, UnpaidWorker
  <2>2. CASE worker[w].key # k
    <3>1. worker[w].pc = "idle"
      BY <1>0, <1>2, <2>2, HeldJobsStay, WorkersFetch
    <3>2. PICK j \in Keys : Fetch(w, j)
      BY <1>0, <1>2, <3>1, WorkersFetch
    <3> QED
      BY <3>2 DEF Fetch, TypeOK
  <2> QED
    BY <2>1, <2>2
<1>3. ASSUME job'[k].state = "active"
      PROVE  \E w \in Workers : worker'[w].key = k
  <2>1. CASE \E w \in Workers : worker[w].key = k
    <3>1. PICK w \in Workers : worker[w].key = k
      BY <2>1
    <3>2. ~ Ack(w)
      BY <1>3, <3>1 DEF Ack, TypeOK
    <3>3. ~ Nack(w)
      BY <3>1 DEF Nack, Settled
    <3>4. worker'[w].key = k
      <4>1. CASE Begin(w)
        BY <3>1, <4>1 DEF Begin, TypeOK
      <4>2. CASE Guard(w) \/ Work(w) \/ WorkFails(w) \/ Record(w) \/ RecordFailure(w)
        <5>1. PICK pc : Goto(w, pc)
          BY <4>2 DEF Guard, Work, WorkFails, Record, RecordFailure
        <5> QED
          BY <3>1, <5>1 DEF Goto, TypeOK
      <4> QED
        BY <3>1, <3>2, <3>3, <4>1, <4>2, UnpaidWorker
    <3> QED
      BY <3>4
  <2>2. CASE ~ \E w \in Workers : worker[w].key = k
    <3>1. job[k].state # "active"
      BY <2>2 DEF Settled
    <3>2. PICK w \in Workers : Fetch(w, k)
      BY <1>3, <3>1, OnlyFetched
    <3> QED
      BY <3>2 DEF Fetch, TypeOK
  <2> QED
    BY <2>1, <2>2
<1>4. parking'[k] = "none"
  <2>1. ASSUME NEW j \in Keys, NEW r \in BOOLEAN, FailAttempt(j, r), job[j].state = "active", j # k
        PROVE  parking'[k] = parking[k]
    BY <2>1, AttemptsFail
  <2>2. ASSUME NEW w \in Workers, Nack(w)
        PROVE  parking'[k] = parking[k]
    <3>1. worker[w].key # k
      BY <2>2 DEF Nack, Settled
    <3> QED
      BY <2>1, <2>2, <3>1 DEF Nack, HolderInv
  <2>3. ASSUME NEW j \in Keys, Stalled(j)
        PROVE  parking'[k] = parking[k]
    <3>1. j # k
      BY <2>3 DEF Stalled, Settled
    <3> QED
      BY <2>1, <2>3, <3>1 DEF Stalled
  <2>4. ASSUME NEW j \in Keys, Park(j) \/ ParkNew(j) \/ ParkLost(j)
        PROVE  parking'[k] = parking[k]
    BY <1>0, <2>4 DEF Park, ParkNew, ParkLost, TypeOK
  <2>5. parking'[k] = parking[k]
    BY <2>2, <2>3, <2>4
       DEF Next, Enqueue, Evict, Promote, Fetch, Step, Guard, Begin, Work, WorkFails, Record,
           RecordFailure, Ack, DatabaseFails, Crash, Request, ReplayRead, RetryDelete, ReplayReset,
           ReplayDispatch, ReplayDispatchFails, ReplayRestore, RetryDispatch, RequestLost
  <2> QED
    BY <1>0, <2>5
<1> QED
  BY <1>1, <1>2, <1>3, <1>4 DEF Settled

\* What is settled stays settled, too, when the dispatch of a replay fails.
LEMMA SettledKept ==
  ASSUME TypeOK, NEW k \in Keys, NEW o \in Operators, ReplayDispatchFails(o), Settled(k)
  PROVE  Settled(k)'
<1>1. job'[k].state = "active" => job[k].state = "active"
  <2>1. CASE job' = job
    BY <2>1
  <2>2. CASE job' = [job EXCEPT ![operator[o].key].state = "waiting"]
    BY <2>2 DEF TypeOK
  <2> QED
    BY <2>1, <2>2 DEF ReplayDispatchFails, Add
<1>2. run' = run /\ worker' = worker /\ parking' = parking
  BY DEF ReplayDispatchFails
<1> QED
  BY <1>1, <1>2 DEF Settled, Recording, HasRow

\* While a worker is at work on a key, its last completion is not settled.
LEMMA AtWork ==
  ASSUME HolderInv, RowInv, PaidInv, NEW k \in Keys, NEW w \in Workers,
         worker[w].key = k, worker[w].pc = "work"
  PROVE  Owed(k) <= Paid(k)
<1>1. run[k].status # "SUCCEEDED"
  BY DEF RowInv
<1>2. \A v \in Workers : ~ Recording(v, k)
  BY DEF Recording, HolderInv, OneHolder
<1>3. ~ Settled(k)
  BY <1>1, <1>2 DEF Settled
<1> QED
  BY <1>3 DEF PaidInv

\* Work that returns on the row it began on settles its completion.
LEMMA WorkSettles ==
  ASSUME TypeOK, JobInv, HolderInv, NEW k \in Keys, NEW w \in Workers, Work(w),
         worker[w].key = k, HasRow(k, worker[w].gen)
  PROVE  Settled(k)'
<1>1. /\ worker'[w].pc = "record" /\ worker'[w].key = k /\ worker'[w].gen = worker[w].gen
      /\ \A v \in Workers \ {w} : worker'[v] = worker[v]
  BY DEF Work, Goto, TypeOK
<1>2. run' = run /\ parking' = parking
  BY DEF Work
<1>3. Recording(w, k)'
  BY <1>1, <1>2 DEF Recording, HasRow
<1>4. parking'[k] = "none"
  BY <1>2 DEF Work, HolderInv, JobInv
<1>5. \A v \in Workers : worker'[v].key = k => worker'[v].pc # "nack"
  <2>1. \A v \in Workers \ {w} : worker[v].key # k
    BY DEF Work, HolderInv, OneHolder
  <2> QED
    BY <1>1, <2>1
<1> QED
  BY <1>1, <1>3, <1>4, <1>5 DEF Settled

\* A worker is at work because it has just begun, or was before.
LEMMA StillAtWork ==
  ASSUME TypeOK, HolderInv, Next, NEW w \in Workers, worker'[w].pc = "work"
  PROVE  Begin(w) \/ worker'[w] = worker[w]
<1>1. ~ (\E j \in Keys : Fetch(w, j)) /\ ~ Crash(w) /\ ~ Ack(w) /\ ~ Nack(w)
  BY Returns DEF Fetch, TypeOK
<1>2. ~ (Guard(w) \/ Work(w) \/ WorkFails(w) \/ Record(w) \/ RecordFailure(w))
  BY DEF Guard, Work, WorkFails, Record, RecordFailure, Goto, TypeOK
<1>3. ~ DatabaseFails(w)
  BY DEF DatabaseFails, Goto, TypeOK
<1> QED
  BY <1>1, <1>2, <1>3, WorkersStep DEF Step

LEMMA PaidStep ==
  ASSUME TypeOK, TypeOK', JobInv, HolderInv, HolderInv', RowInv, PaidInv, [Next]_vars
  PROVE  PaidInv'
<1>1. CASE UNCHANGED vars
  BY <1>1 DEF vars, PaidInv, Owed, Paid, Settled, Recording, HasRow, Restoring
<1>2. CASE Next
  <2> SUFFICES ASSUME NEW k \in Keys
               PROVE  /\ Owed(k)' <= 1 + Paid(k)'
                      /\ Owed(k)' <= Paid(k)' \/ Settled(k)'
                      /\ \A w \in Workers : worker'[w].key = k /\ worker'[w].pc = "work"
                                             /\ ~ HasRow(k, worker[w].gen)'
                                            => Owed(k)' < Paid(k)'
    BY DEF PaidInv
  <2>1. /\ Paid(k) \in Nat /\ Paid(k)' \in Nat /\ Paid(k) <= Paid(k)'
    <3>1. /\ faults[k] \in Nat /\ resets[k] \in Nat /\ faults'[k] \in Nat /\ resets'[k] \in Nat
          /\ faults[k] <= faults'[k] /\ resets[k] <= resets'[k]
      BY JobQueueAssumption, PaymentsGrow DEF TypeOK
    <3> QED
      BY <3>1 DEF Paid
  <2>2. Owed(k) \in Nat /\ Owed(k)' \in Nat
    BY <1>2, OwedStep
  <2>3. /\ Owed(k) <= 1 + Paid(k)
        /\ Owed(k) <= Paid(k) \/ Settled(k)
    BY DEF PaidInv
  <2>4. ASSUME NEW w \in Workers, Work(w), worker[w].key = k
        PROVE  /\ Owed(k)' <= 1 + Paid(k)'
               /\ Owed(k)' <= Paid(k)' \/ Settled(k)'
               /\ \A v \in Workers : worker'[v].key = k => worker'[v].pc # "work"
    <3>1. Owed(k) <= Paid(k) /\ Owed(k)' <= Owed(k) + 1
      BY <1>2, <2>2, <2>4, AtWork, OwedStep DEF Work
    <3>2. Owed(k)' <= Paid(k)' \/ Settled(k)'
      <4>1. CASE HasRow(k, worker[w].gen)
        BY <2>4, <4>1, WorkSettles
      <4>2. CASE ~ HasRow(k, worker[w].gen)
        <5>1. Owed(k) < Paid(k)
          BY <2>4, <4>2 DEF PaidInv, Work
        <5> QED
          BY <2>1, <2>2, <3>1, <5>1
      <4> QED
        BY <4>1, <4>2
    <3>3. \A v \in Workers : worker'[v].key = k => worker'[v].pc # "work"
      <4>1. worker'[w].pc = "record" /\ worker'[w].key = k
        BY <2>4 DEF Work, Goto, TypeOK
      <4> QED
        BY <4>1 DEF HolderInv, OneHolder
    <3> QED
      BY <2>1, <2>2, <3>1, <3>2, <3>3
  <2>5. CASE ~ \E w \in Workers : Work(w) /\ worker[w].key = k
    <3>1. \/ /\ Owed(k)' = Owed(k) + 1 /\ Paid(k) < Paid(k)'
             /\ \E o \in Operators : ReplayDispatchFails(o)
          \/ Owed(k)' < Owed(k)
          \/ Owed(k)' = Owed(k)
      BY <1>2, <2>5, OwedStep
    <3>2. Owed(k)' <= 1 + Paid(k)'
      BY <2>1, <2>2, <2>3, <3>1
    <3>3. Owed(k)' <= Paid(k)' \/ Settled(k)'
      <4>1. CASE \E o \in Operators : ReplayDispatchFails(o)
        BY <2>1, <2>2, <2>3, <3>1, <4>1, SettledKept
      <4>2. CASE ~ \E o \in Operators : ReplayDispatchFails(o)
        <5>1. CASE Paid(k) < Paid(k)' \/ Owed(k)' < Owed(k)
          BY <2>1, <2>2, <2>3, <3>1, <4>2, <5>1
        <5>2. CASE ~ (Paid(k) < Paid(k)') /\ ~ (Owed(k)' < Owed(k))
          <6>1. Settled(k) => Settled(k)'
            BY <1>2, <5>2, SettledStays
          <6> QED
            BY <2>1, <2>2, <2>3, <3>1, <4>2, <5>2, <6>1
        <5> QED
          BY <5>1, <5>2
      <4> QED
        BY <4>1, <4>2
    <3>4. ASSUME NEW w \in Workers, worker'[w].key = k, worker'[w].pc = "work",
                 ~ HasRow(k, worker[w].gen)'
          PROVE  Owed(k)' < Paid(k)'
      <4>1. ~ Begin(w)
        BY <3>4 DEF Begin, SetRun, HasRow, TypeOK
      <4>2. worker'[w] = worker[w]
        BY <1>2, <3>4, <4>1, StillAtWork
      <4>3. CASE ~ HasRow(k, worker[w].gen)
        <5>1. Owed(k) < Paid(k)
          BY <3>4, <4>2, <4>3 DEF PaidInv
        <5> QED
          BY <2>1, <2>2, <3>1, <5>1
      <4>4. CASE HasRow(k, worker[w].gen)
        <5>1. Owed(k) <= Paid(k)
          BY <3>4, <4>2, AtWork
        <5>2. Paid(k) < Paid(k)'
          BY <1>2, <3>4, <4>2, <4>4, UnpaidRow DEF HasRow
        <5>3. ~ \E o \in Operators : ReplayDispatchFails(o)
          BY <3>4, <4>2, <4>4 DEF ReplayDispatchFails, HasRow
        <5> QED
          BY <2>1, <2>2, <3>1, <5>1, <5>2, <5>3
      <4> QED
        BY <4>3, <4>4
    <3> QED
      BY <3>2, <3>3, <3>4
  <2> QED
    BY <2>4, <2>5
<1> QED
  BY <1>1, <1>2

-----------------------------------------------------------------------------
\* The inductive invariant holds initially, and every step preserves it.
THEOREM Invariance == Spec => []IInv
<1>1. Init => IInv
  <2> SUFFICES ASSUME Init PROVE IInv
    OBVIOUS
  <2>1. JobInv /\ HolderInv /\ RowInv /\ DoneInv
    BY JobQueueAssumption
       DEF Init, NewJob, Idle, JobInv, HolderInv, OneHolder, RowInv, DoneInv, CompletedMeansDone
  <2>2. \A k \in Keys : Restoring(k) = {}
    BY DEF Init, Idle, Restoring
  <2>3. \A k \in Keys : Owed(k) = 0 /\ Paid(k) = 0
    BY <2>2, FS_EmptySet DEF Init, Owed, Paid
  <2>4. \A w \in Workers : worker[w].pc = "idle"
    BY DEF Init, Idle
  <2>5. PaidInv
    BY <2>3, <2>4 DEF PaidInv
  <2> QED
    BY <2>1, <2>5 DEF IInv
<1>2. TypeOK /\ TypeOK' /\ IInv /\ [Next]_vars => IInv'
  BY TypeStep, HolderStep, RowStep, DoneStep, PaidStep DEF IInv
<1> QED
  BY <1>1, <1>2, TypeCorrect, PTL DEF Spec

\* The backbone promise of withJobRun, with its price (jobRun.ts:6-7): for every number
\* of workers, operators, keys, crashes and resets, each completion of a key's work
\* beyond the first is paid for by a fault or by an operator's reset.
THEOREM RepeatsPaidFor == Spec => []RepeatsArePaidFor
<1>1. TypeOK /\ IInv => RepeatsArePaidFor
  <2> SUFFICES ASSUME TypeOK, IInv, NEW k \in Keys
               PROVE  completions[k] <= 1 + faults[k] + resets[k]
    BY DEF RepeatsArePaidFor
  <2>1. Cardinality(Restoring(k)) \in Nat
    BY Restorers
  <2>2. completions[k] \in Nat /\ faults[k] \in Nat /\ resets[k] \in Nat
    BY JobQueueAssumption DEF TypeOK
  <2>3. Owed(k) <= 1 + Paid(k)
    BY DEF IInv, PaidInv
  <2> QED
    BY <2>1, <2>2, <2>3 DEF Owed, Paid
<1> QED
  BY <1>1, Invariance, TypeCorrect, PTL

\* The skip path of withJobRun (jobRun.ts:31-35) never acknowledges undone work: a job
\* reported completed, and a run marked SUCCEEDED, stand for work that returned.
THEOREM CompletedIsDone == Spec => []CompletedMeansDone
<1>1. IInv => CompletedMeansDone
  BY DEF IInv, DoneInv
<1> QED
  BY <1>1, Invariance, PTL
=============================================================================
