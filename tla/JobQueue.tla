------------------------------ MODULE JobQueue ------------------------------
(***************************************************************************)
(* The job machinery every pipeline stage runs on: a BullMQ job per key    *)
(* (jobId = toJobId(key)), the JobRun row withJobRun keeps for the key in  *)
(* Postgres, the dead-letter handler of the workers' "failed" event, and   *)
(* the two operator routes that put failed work back, replay and retry.    *)
(*                                                                         *)
(* BullMQ (version 5.80.9) is external and modelled from its use: an "add" *)
(* with a known jobId is ignored, also when that job is finished but still *)
(* retained; a job whose worker died is handed out again, and failed for   *)
(* good once that happened MaxStalled times.                               *)
(***************************************************************************)
EXTENDS Naturals, FiniteSets

CONSTANTS Keys,          \* the job keys of one queue, e.g. "render:<candidate>"
          Workers,       \* worker slots (processes times concurrency)
          Operators,     \* concurrent operator requests to replay and retry
          NoKey,         \* not a key
          Attempts,      \* defaultJobOptions.attempts
          MaxStalled,    \* BullMQ's maxStalledCount
          MaxFaults,     \* bound: crashes and failed database or Redis calls, per key
          MaxResets,     \* bound: operator resets, per key
          MaxEvictions   \* bound: finished jobs BullMQ drops from retention, per key

ASSUME JobQueueAssumption ==
  /\ NoKey \notin Keys /\ IsFiniteSet(Operators)
  /\ Attempts \in Nat \ {0} /\ MaxStalled \in Nat
  /\ MaxFaults \in Nat /\ MaxResets \in Nat /\ MaxEvictions \in Nat

VARIABLES
  job,          \* job[k]: the BullMQ job with id toJobId(k)
  run,          \* run[k]: the JobRun row (gen counts the rows deleted before it)
  worker,       \* worker[w]: what the worker is doing, and for which key
  parking,      \* parking[k]: the handler of k's terminal "failed" event
  operator,     \* operator[o]: the replay or retry request in progress
  completions,  \* ghost: completions[k] counts the times k's work returned
  faults, resets, evictions   \* per key, for the bounds and the properties

vars == <<job, run, worker, parking, operator, completions, faults, resets, evictions>>
counters == <<completions, faults, resets, evictions>>

JobState == {"absent", "waiting", "delayed", "active", "completed", "failed"}
RunStatus == {"NONE", "QUEUED", "RUNNING", "SUCCEEDED", "FAILED", "DEAD_LETTER"}
WorkerPc == {"idle", "guard", "begin", "work", "record", "recordFailure", "ack", "nack"}
OperatorPc == {"idle", "reset", "dispatch", "restore", "retryDispatch"}

TypeOK ==
  /\ job \in [Keys -> [state : JobState, made : 0..Attempts, stalls : 0..(MaxStalled + 1)]]
  /\ run \in [Keys -> [status : RunStatus, gen : 0..MaxResets]]
  /\ worker \in [Workers -> [pc : WorkerPc, key : Keys \cup {NoKey}, gen : 0..MaxResets]]
  /\ parking \in [Keys -> {"none", "update", "create"}]
  /\ operator \in [Operators -> [pc : OperatorPc, key : Keys \cup {NoKey}, gen : 0..MaxResets]]
  /\ completions \in [Keys -> Nat]
  /\ faults \in [Keys -> 0..MaxFaults]
  /\ resets \in [Keys -> 0..MaxResets]
  /\ evictions \in [Keys -> 0..MaxEvictions]

NewJob == [state |-> "absent", made |-> 0, stalls |-> 0]
Idle == [pc |-> "idle", key |-> NoKey, gen |-> 0]

Init ==
  /\ job = [k \in Keys |-> NewJob]
  /\ run = [k \in Keys |-> [status |-> "NONE", gen |-> 0]]
  /\ worker = [w \in Workers |-> Idle]
  /\ parking = [k \in Keys |-> "none"]
  /\ operator = [o \in Operators |-> Idle]
  /\ completions = [k \in Keys |-> 0]
  /\ faults = [k \in Keys |-> 0]
  /\ resets = [k \in Keys |-> 0]
  /\ evictions = [k \in Keys |-> 0]

-----------------------------------------------------------------------------
(* The queue.                                                              *)

\* queue.add with the deterministic id: ignored while any job has the id.
Add(k) ==
  job' = IF job[k].state = "absent" THEN [job EXCEPT ![k].state = "waiting"] ELSE job

\* A pipeline stage enqueues the key; it may do so again at any time.
Enqueue(k) ==
  /\ Add(k)
  /\ UNCHANGED <<run, worker, parking, operator, counters>>

\* removeOnComplete / removeOnFail: thousands of later jobs have finished, so a
\* handler of this one is long done.
Evict(k) ==
  /\ job[k].state \in {"completed", "failed"}
  /\ parking[k] = "none"
  /\ evictions[k] < MaxEvictions
  /\ job' = [job EXCEPT ![k] = NewJob]
  /\ evictions' = [evictions EXCEPT ![k] = @ + 1]
  /\ UNCHANGED <<run, worker, parking, operator, completions, faults, resets>>

\* The exponential backoff of a failed attempt is over.
Promote(k) ==
  /\ job[k].state = "delayed"
  /\ job' = [job EXCEPT ![k].state = "waiting"]
  /\ UNCHANGED <<run, worker, parking, operator, counters>>

\* Mutants of FailAttempt: one attempt too many; attempts that are not counted;
\* and a terminal failure taken for one that will be retried.
FailAttemptLate(k, retryable) ==
  LET made == job[k].made + 1
  IN  IF retryable /\ made <= Attempts
      THEN /\ job' = [job EXCEPT ![k].state = "delayed", ![k].made = made]
           /\ UNCHANGED parking
      ELSE /\ job' = [job EXCEPT ![k].state = "failed", ![k].made = made]
           /\ parking' = [parking EXCEPT ![k] = "update"]

FailAttemptUncounted(k, retryable) ==
  IF retryable
  THEN job' = [job EXCEPT ![k].state = "delayed"] /\ UNCHANGED parking
  ELSE /\ job' = [job EXCEPT ![k].state = "failed"]
       /\ parking' = [parking EXCEPT ![k] = "update"]

FailAttemptUnparked(k, retryable) ==
  LET made == job[k].made + 1
  IN  /\ job' = [job EXCEPT ![k].state = IF retryable /\ made < Attempts
                                         THEN "delayed" ELSE "failed",
                            ![k].made = made]
      /\ parking' = IF made <= Attempts THEN parking
                    ELSE [parking EXCEPT ![k] = "update"]

\* The attempt failed: retried with backoff while attempts are left.  The
\* "failed" event fires either way; its handler acts on the last attempt only.
FailAttempt(k, retryable) ==
  LET made == job[k].made + 1
  IN  IF retryable /\ made < Attempts
      THEN /\ job' = [job EXCEPT ![k].state = "delayed", ![k].made = made]
           /\ UNCHANGED parking
      ELSE /\ job' = [job EXCEPT ![k].state = "failed", ![k].made = made]
           /\ parking' = IF made < Attempts THEN parking
                         ELSE [parking EXCEPT ![k] = "update"]

\* Mutant of Stalled: the lock of a live worker is not renewed.
StalledAlive(k) ==
  /\ job[k].state = "active"
  /\ IF job[k].stalls < MaxStalled
     THEN /\ job' = [job EXCEPT ![k].state = "waiting", ![k].stalls = @ + 1]
          /\ UNCHANGED parking
     ELSE FailAttempt(k, FALSE)
  /\ UNCHANGED <<run, worker, operator, counters>>

\* An active job whose worker is gone loses its lock: it is handed out again,
\* or failed as unrecoverable when it has stalled too often.
Stalled(k) ==
  /\ job[k].state = "active"
  /\ \A w \in Workers : worker[w].key # k
  /\ IF job[k].stalls < MaxStalled
     THEN /\ job' = [job EXCEPT ![k].state = "waiting", ![k].stalls = @ + 1]
          /\ UNCHANGED parking
     ELSE FailAttempt(k, FALSE)
  /\ UNCHANGED <<run, worker, operator, counters>>

-----------------------------------------------------------------------------
(* withJobRun, step by step.  "gen" stands for the id of the row it holds.  *)

Goto(w, pc) == worker' = [worker EXCEPT ![w].pc = pc]
Fault(k) == faults[k] < MaxFaults /\ faults' = [faults EXCEPT ![k] = @ + 1]
SetRun(k, status) == run' = [run EXCEPT ![k].status = status]
HasRow(k, gen) == run[k].status # "NONE" /\ run[k].gen = gen

Fetch(w, k) ==
  /\ worker[w].pc = "idle"
  /\ job[k].state = "waiting"
  /\ job' = [job EXCEPT ![k].state = "active"]
  /\ worker' = [worker EXCEPT ![w] = [pc |-> "guard", key |-> k, gen |-> 0]]
  /\ UNCHANGED <<run, parking, operator, counters>>

\* Mutants of Guard: nothing is skipped, or every run that was ever started is.
GuardNothing(w) ==
  /\ worker[w].pc = "guard"
  /\ Goto(w, "begin")
  /\ UNCHANGED <<job, run, parking, operator, counters>>

GuardStarted(w) ==
  /\ worker[w].pc = "guard"
  /\ Goto(w, IF run[worker[w].key].status \in {"NONE", "QUEUED"} THEN "begin" ELSE "ack")
  /\ UNCHANGED <<job, run, parking, operator, counters>>

\* The idempotency guard: a SUCCEEDED run is skipped.
Guard(w) ==
  /\ worker[w].pc = "guard"
  /\ Goto(w, IF run[worker[w].key].status = "SUCCEEDED" THEN "ack" ELSE "begin")
  /\ UNCHANGED <<job, run, parking, operator, counters>>

\* The upsert to RUNNING, in a statement of its own.
Begin(w) ==
  LET k == worker[w].key
  IN  /\ worker[w].pc = "begin"
      /\ SetRun(k, "RUNNING")
      /\ worker' = [worker EXCEPT ![w].pc = "work", ![w].gen = run[k].gen]
      /\ UNCHANGED <<job, parking, operator, counters>>

\* fn returned ...
Work(w) ==
  /\ worker[w].pc = "work"
  /\ completions' = [completions EXCEPT ![worker[w].key] = @ + 1]
  /\ Goto(w, "record")
  /\ UNCHANGED <<job, run, parking, operator, faults, resets, evictions>>

\* ... or threw, whatever the reason.
WorkFails(w) ==
  /\ worker[w].pc = "work"
  /\ Goto(w, "recordFailure")
  /\ UNCHANGED <<job, run, parking, operator, counters>>

\* The update by row id fails when a retry has deleted the row meanwhile, and
\* the failure of the SUCCEEDED update is handled like a failure of the work.
Record(w) ==
  LET k == worker[w].key
  IN  /\ worker[w].pc = "record"
      /\ IF HasRow(k, worker[w].gen)
         THEN SetRun(k, "SUCCEEDED") /\ Goto(w, "ack")
         ELSE UNCHANGED run /\ Goto(w, "recordFailure")
      /\ UNCHANGED <<job, parking, operator, counters>>

RecordFailure(w) ==
  LET k == worker[w].key
  IN  /\ worker[w].pc = "recordFailure"
      /\ IF HasRow(k, worker[w].gen) THEN SetRun(k, "FAILED") ELSE UNCHANGED run
      /\ Goto(w, "nack")
      /\ UNCHANGED <<job, parking, operator, counters>>

\* A database call of withJobRun throws.
DatabaseFails(w) ==
  LET failsTo == [guard |-> "nack", begin |-> "nack",
                  record |-> "recordFailure", recordFailure |-> "nack"]
  IN  /\ worker[w].pc \in DOMAIN failsTo
      /\ Fault(worker[w].key)
      /\ Goto(w, failsTo[worker[w].pc])
      /\ UNCHANGED <<job, run, parking, operator, completions, resets, evictions>>

Ack(w) ==
  /\ worker[w].pc = "ack"
  /\ job' = [job EXCEPT ![worker[w].key].state = "completed"]
  /\ worker' = [worker EXCEPT ![w] = Idle]
  /\ UNCHANGED <<run, parking, operator, counters>>

Nack(w) ==
  /\ worker[w].pc = "nack"
  /\ FailAttempt(worker[w].key, TRUE)
  /\ worker' = [worker EXCEPT ![w] = Idle]
  /\ UNCHANGED <<run, operator, counters>>

\* The worker's process dies (or is killed when its drain times out).
Crash(w) ==
  /\ worker[w].pc # "idle"
  /\ Fault(worker[w].key)
  /\ worker' = [worker EXCEPT ![w] = Idle]
  /\ UNCHANGED <<job, run, parking, operator, completions, resets, evictions>>

-----------------------------------------------------------------------------
(* handleTerminalFailure, started and not awaited by the "failed" event.    *)
(* The job's id stands for the key of its run, as it does in every queue    *)
(* but discovery: there every run is called "run", and the dead letter is   *)
(* recorded under the job's id, beside a run that stays FAILED.             *)

Park(k) ==
  /\ parking[k] = "update"
  /\ IF run[k].status # "NONE"
     THEN SetRun(k, "DEAD_LETTER") /\ parking' = [parking EXCEPT ![k] = "none"]
     ELSE UNCHANGED run /\ parking' = [parking EXCEPT ![k] = "create"]
  /\ UNCHANGED <<job, worker, operator, counters>>

\* A row created since then makes the create fail, which is only logged.
ParkNew(k) ==
  /\ parking[k] = "create"
  /\ IF run[k].status = "NONE" THEN SetRun(k, "DEAD_LETTER") ELSE UNCHANGED run
  /\ parking' = [parking EXCEPT ![k] = "none"]
  /\ UNCHANGED <<job, worker, operator, counters>>

\* The process dies with the handler unfinished, or its database call fails.
ParkLost(k) ==
  /\ parking[k] # "none"
  /\ Fault(k)
  /\ parking' = [parking EXCEPT ![k] = "none"]
  /\ UNCHANGED <<job, run, worker, operator, completions, resets, evictions>>

-----------------------------------------------------------------------------
(* replayDeadLetter and the jobs/retry route.                               *)

Reset(k) == resets[k] < MaxResets /\ resets' = [resets EXCEPT ![k] = @ + 1]

\* The row is found DEAD_LETTER and may be replayed (retryable, or forced).
ReplayRead(o, k) ==
  /\ operator[o].pc = "idle"
  /\ run[k].status = "DEAD_LETTER"
  /\ operator' = [operator EXCEPT ![o] = [pc |-> "reset", key |-> k, gen |-> run[k].gen]]
  /\ UNCHANGED <<job, run, worker, parking, counters>>

\* The reset to QUEUED; it throws when the row has been deleted.
ReplayReset(o) ==
  LET k == operator[o].key
  IN  /\ operator[o].pc = "reset"
      /\ \/ /\ HasRow(k, operator[o].gen)
            /\ Reset(k)
            /\ SetRun(k, "QUEUED")
            /\ operator' = [operator EXCEPT ![o].pc = "dispatch"]
         \/ /\ ~ HasRow(k, operator[o].gen)
            /\ operator' = [operator EXCEPT ![o] = Idle]
            /\ UNCHANGED <<run, resets>>
      /\ UNCHANGED <<job, worker, parking, completions, faults, evictions>>

ReplayDispatch(o) ==
  /\ operator[o].pc = "dispatch"
  /\ Add(operator[o].key)
  /\ operator' = [operator EXCEPT ![o] = Idle]
  /\ UNCHANGED <<run, worker, parking, counters>>

\* Redis is unreachable, or the audit fails after the add: the dead letter is
\* restored in either case.
ReplayDispatchFails(o) ==
  /\ operator[o].pc = "dispatch"
  /\ Fault(operator[o].key)
  /\ Add(operator[o].key) \/ UNCHANGED job
  /\ operator' = [operator EXCEPT ![o].pc = "restore"]
  /\ UNCHANGED <<run, worker, parking, completions, resets, evictions>>

ReplayRestore(o) ==
  LET k == operator[o].key
  IN  /\ operator[o].pc = "restore"
      /\ IF HasRow(k, operator[o].gen) THEN SetRun(k, "DEAD_LETTER") ELSE UNCHANGED run
      /\ operator' = [operator EXCEPT ![o] = Idle]
      /\ UNCHANGED <<job, worker, parking, counters>>

\* The retry route deletes the JobRun, whatever its status, and ignores that the
\* delete failed ...
RetryDelete(o, k) ==
  /\ operator[o].pc = "idle"
  /\ \/ /\ Reset(k)
        /\ run' = [run EXCEPT ![k] = [status |-> "NONE", gen |-> resets'[k]]]
        /\ UNCHANGED faults
     \/ Fault(k) /\ UNCHANGED <<run, resets>>
  /\ operator' = [operator EXCEPT ![o] = [pc |-> "retryDispatch", key |-> k, gen |-> 0]]
  /\ UNCHANGED <<job, worker, parking, completions, evictions>>

\* ... and enqueues the key again.  The publish route and an approved review do
\* the same two steps for their publish key.
RetryDispatch(o) ==
  /\ operator[o].pc = "retryDispatch"
  /\ Add(operator[o].key)
  /\ operator' = [operator EXCEPT ![o] = Idle]
  /\ UNCHANGED <<run, worker, parking, counters>>

\* The web process dies, or the dispatch of a retry fails.
RequestLost(o) ==
  /\ operator[o].pc # "idle"
  /\ Fault(operator[o].key)
  /\ operator' = [operator EXCEPT ![o] = Idle]
  /\ UNCHANGED <<job, run, worker, parking, completions, resets, evictions>>

-----------------------------------------------------------------------------
\* What a live worker does with the job it holds.
Step(w) ==
  Guard(w) \/ Begin(w) \/ Work(w) \/ WorkFails(w) \/ Record(w) \/ RecordFailure(w)
    \/ Ack(w) \/ Nack(w)

Request(o) ==
  \/ \E k \in Keys : ReplayRead(o, k) \/ RetryDelete(o, k)
  \/ ReplayReset(o) \/ ReplayDispatch(o) \/ ReplayDispatchFails(o) \/ ReplayRestore(o)
  \/ RetryDispatch(o) \/ RequestLost(o)

Next ==
  \/ \E k \in Keys : Enqueue(k) \/ Evict(k) \/ Promote(k) \/ Stalled(k)
                       \/ Park(k) \/ ParkNew(k) \/ ParkLost(k)
  \/ \E w \in Workers, k \in Keys : Fetch(w, k)
  \/ \E w \in Workers : Step(w) \/ DatabaseFails(w) \/ Crash(w)
  \/ \E o \in Operators : Request(o)

Spec == Init /\ [][Next]_vars

\* Workers poll their queues and run to completion, BullMQ promotes delayed
\* jobs and checks for stalled ones, and promises settle.  Nothing makes a
\* producer enqueue, an operator act, or BullMQ evict.
Fairness ==
  /\ \A k \in Keys : /\ WF_vars(Promote(k)) /\ WF_vars(Stalled(k))
                     /\ WF_vars(Park(k)) /\ WF_vars(ParkNew(k))
                     /\ WF_vars(\E w \in Workers : Fetch(w, k))
  /\ \A w \in Workers : WF_vars(Step(w))

FairSpec == Spec /\ Fairness
-----------------------------------------------------------------------------
\* The backbone promise of withJobRun (jobRun.ts:6-7), with its price: beyond
\* the first, every completion of a key's work is paid for by a crash, a failed
\* database call, or an operator's replay or retry.  Retries, redeliveries and
\* re-enqueues after eviction never repeat finished work by themselves.
RepeatsArePaidFor ==
  \A k \in Keys : completions[k] <= 1 + faults[k] + resets[k]

\* A job BullMQ reports completed, and a run marked SUCCEEDED, stand for work
\* that really returned: the skip path never acknowledges undone work.
CompletedMeansDone ==
  \A k \in Keys :
    job[k].state = "completed" \/ run[k].status = "SUCCEEDED" => completions[k] > 0

\* A key's job is held by one worker at a time, across redelivery of stalled
\* jobs, backoff, and re-adding after eviction.
OneHolder ==
  \A v, w \in Workers : v # w /\ worker[v].pc # "idle" => worker[v].key # worker[w].key

\* Every job that was enqueued is eventually finished, for better or worse:
\* no interleaving of crashes, stalls and failed attempts leaves it waiting.
JobsSettle ==
  \A k \in Keys : job[k].state \in {"waiting", "delayed", "active"}
                    ~> job[k].state \in {"completed", "failed"}

\* A failed job's run becomes a dead letter, where the operator sees it
\* (deadLetter.ts:8-13), unless a fault lost the handler or an operator has put
\* the run back since: no order of retries, backoff and re-enqueues hides one.
FailureParked ==
  \A k \in Keys :
    job[k].state = "failed"
      ~> run[k].status = "DEAD_LETTER" \/ faults[k] + resets[k] > 0
-----------------------------------------------------------------------------
(* The inductive invariant behind the safety properties.                    *)

\* Attempts are left while a job is not finished; its handler runs only after the
\* last one.
JobInv ==
  \A k \in Keys :
    /\ job[k].state \notin {"completed", "failed"} => job[k].made < Attempts
    /\ parking[k] # "none" => job[k].state = "failed"

\* A busy worker holds an active job, and nobody else holds it; a request has a key.
HolderInv ==
  /\ \A w \in Workers :
       IF worker[w].pc = "idle" THEN worker[w].key = NoKey
       ELSE worker[w].key \in Keys /\ job[worker[w].key].state = "active"
  /\ OneHolder
  /\ \A o \in Operators : operator[o].pc # "idle" => operator[o].key \in Keys

\* Row ids are not used again.  A run is not SUCCEEDED under the worker that works on
\* it, and a row that was there when its worker began is deleted only by a reset.
RowInv ==
  /\ \A k \in Keys : run[k].gen <= resets[k]
  /\ \A w \in Workers :
       LET k == worker[w].key IN
       /\ worker[w].pc \in {"begin", "work", "record", "recordFailure"}
            => run[k].status # "SUCCEEDED"
       /\ worker[w].pc \in {"work", "record", "recordFailure"} =>
            /\ worker[w].gen <= run[k].gen
            /\ run[k].status = "NONE" => worker[w].gen < run[k].gen

\* What stands for finished work, and the workers about to say so.
DoneInv ==
  /\ CompletedMeansDone
  /\ \A w \in Workers : worker[w].pc \in {"record", "ack"} => completions[worker[w].key] > 0

\* The replays that may still put a dead letter back over a run that has succeeded
\* meanwhile; each has paid for it with its failed dispatch.
Restoring(k) == {o \in Operators : operator[o].pc = "restore" /\ operator[o].key = k}
Owed(k) == completions[k] + Cardinality(Restoring(k))

\* The worker that is about to record the last completion on the row it began on.
Recording(w, k) ==
  worker[w].pc = "record" /\ worker[w].key = k /\ HasRow(k, worker[w].gen)

\* What completions are paid with.
Paid(k) == faults[k] + resets[k]

\* The last completion of k is recorded, or about to be, and nobody can undo it unpaid.
Settled(k) ==
  /\ run[k].status = "SUCCEEDED" \/ \E w \in Workers : Recording(w, k)
  /\ parking[k] = "none"
  /\ job[k].state = "active" => \E w \in Workers : worker[w].key = k
  /\ \A w \in Workers : worker[w].key = k => worker[w].pc # "nack"

\* Every completion but the last is paid for, and the last one too unless it is settled.
\* Work on a row that is gone has been paid for before it returns.
PaidInv ==
  \A k \in Keys :
    /\ Owed(k) <= 1 + Paid(k)
    /\ Owed(k) <= Paid(k) \/ Settled(k)
    /\ \A w \in Workers :
         worker[w].key = k /\ worker[w].pc = "work" /\ ~ HasRow(k, worker[w].gen)
           => Owed(k) < Paid(k)

IInv == JobInv /\ HolderInv /\ RowInv /\ DoneInv /\ PaidInv
=============================================================================
