-------------------------- MODULE CostControl_proofs --------------------------
(***************************************************************************)
(* Proofs about the gates of renders and publishes, for any processes,     *)
(* slots, caps, costs and times.                                           *)
(***************************************************************************)
EXTENDS CostControl, FiniteSetTheorems, TLAPS

-----------------------------------------------------------------------------
(* Arithmetic.                                                              *)

LEMMA Times ==
  ASSUME NEW a \in Nat, NEW b \in Nat
  PROVE  /\ Cost * a \in Nat
         /\ Cost * (a + 1) = Cost * a + Cost
         /\ a <= b => Cost * a <= Cost * b
<1>1. Cost \in Nat
  BY CostAssumption
<1>2. Cost * a \in Nat /\ Cost * (a + 1) = Cost * a + Cost
  BY <1>1
<1>3. ASSUME a <= b
      PROVE  Cost * a <= Cost * b
  <2>1. PICK c \in Nat : b = a + c
    <3>1. b - a \in Nat /\ b = a + (b - a)
      BY <1>3
    <3> QED
      BY <3>1
  <2>2. Cost * b = Cost * a + Cost * c /\ Cost * c \in Nat
    BY <1>1, <2>1
  <2> QED
    BY <1>2, <2>2
<1> QED
  BY <1>2, <1>3

\* Days follow one another.
LEMMA Quotients ==
  ASSUME NEW a \in Nat, NEW b \in Nat, a <= b
  PROVE  a \div DayLength \in Nat /\ a \div DayLength <= b \div DayLength
<1> DEFINE q == a \div DayLength
           r == b \div DayLength
<1>1. DayLength \in Nat /\ DayLength > 0
  BY CostAssumption
<1>2. q \in Int /\ DayLength * q <= a /\ a < DayLength * q + DayLength
  BY <1>1
<1>3. r \in Int /\ DayLength * r <= b /\ b < DayLength * r + DayLength
  BY <1>1
<1> HIDE DEF q, r
<1>4. q >= 0
  <2>1. CASE q <= -1
    <3>1. DayLength * q <= DayLength * (-1)
      BY <1>1, <1>2, <2>1
    <3> QED
      BY <1>1, <1>2, <3>1
  <2> QED
    BY <1>2, <2>1
<1>5. q <= r
  <2>1. CASE q >= r + 1
    <3>1. DayLength * q >= DayLength * (r + 1)
      BY <1>1, <1>2, <1>3, <2>1
    <3>2. DayLength * (r + 1) = DayLength * r + DayLength
      BY <1>1, <1>3
    <3> QED
      BY <1>1, <1>2, <1>3, <3>1, <3>2
  <2> QED
    BY <1>2, <1>3, <2>1
<1> QED
  BY <1>2, <1>4, <1>5 DEF q, r

LEMMA Calendar ==
  ASSUME NEW t \in 0..MaxTime
  PROVE  t \div DayLength \in Days /\ t \div DayLength \in Nat
BY Quotients, CostAssumption DEF Days

-----------------------------------------------------------------------------
(* What the steps of a job make of it.                                      *)

Made(pc, since, fetched, halt, cap, spent, failed) ==
  [pc |-> pc, since |-> since, fetched |-> fetched, halt |-> halt, cap |-> cap,
   spent |-> spent, failed |-> failed]

Becomes(s, j) == job' = [job EXCEPT ![s] = j]

\* The job of slot s in another step, with other contents or the same.
Turns(s, pc, since, halt, failed) ==
  Becomes(s, Made(pc, since, job[s].fetched, halt, job[s].cap, job[s].spent, failed))

LEMMA Updated ==
  ASSUME NEW s \in Slots, job \in [Slots -> Job], NEW j, Becomes(s, j)
  PROVE  /\ job'[s] = j /\ \A t \in Slots \ {s} : job'[t] = job[t]
         /\ j \in Job => job' \in [Slots -> Job]
BY DEF Becomes

LEMMA Halting ==
  ASSUME job \in [Slots -> Job], NEW s \in Slots
  PROVE  /\ CheckHalt(s) => Turns(s, "gate", 0, job[s].halt, job[s].failed)
         /\ FetchHalt(s) => Turns(s, "halt", clock, setting[AreaOf[s]], job[s].failed)
         /\ ReturnHalt(s) /\ ~ job[s].halt => Turns(s, "gate", 0, job[s].halt, job[s].failed)
         /\ FailHalt(s) => Turns(s, "gate", 0, FALSE, TRUE)
<1>1. ASSUME CheckHalt(s) \/ (ReturnHalt(s) /\ ~ job[s].halt)
      PROVE  Turns(s, "gate", 0, job[s].halt, job[s].failed)
  <2>1. job' = [job EXCEPT ![s].pc = "gate", ![s].since = 0]
    BY <1>1 DEF CheckHalt, ReturnHalt
  <2>2. job'[s] = Made("gate", 0, job[s].fetched, job[s].halt, job[s].cap, job[s].spent,
                       job[s].failed)
    BY <2>1, Zenon DEF Made, Job
  <2>3. job' = [job EXCEPT ![s] = job'[s]]
    BY <2>1
  <2> QED
    BY <2>2, <2>3 DEF Turns, Becomes
<1>2. ASSUME FetchHalt(s)
      PROVE  Turns(s, "halt", clock, setting[AreaOf[s]], job[s].failed)
  <2>1. job' = [job EXCEPT ![s].pc = "halt", ![s].since = clock, ![s].halt = setting[AreaOf[s]]]
    BY <1>2 DEF FetchHalt
  <2>2. job'[s] = Made("halt", clock, job[s].fetched, setting[AreaOf[s]], job[s].cap,
                       job[s].spent, job[s].failed)
    BY <2>1, Zenon DEF Made, Job
  <2>3. job' = [job EXCEPT ![s] = job'[s]]
    BY <2>1
  <2> QED
    BY <2>2, <2>3 DEF Turns, Becomes
<1>3. ASSUME FailHalt(s)
      PROVE  Turns(s, "gate", 0, FALSE, TRUE)
  <2>1. job' = [job EXCEPT ![s].pc = "gate", ![s].since = 0, ![s].halt = FALSE,
                           ![s].failed = TRUE]
    BY <1>3 DEF FailHalt
  <2>2. job'[s] = Made("gate", 0, job[s].fetched, FALSE, job[s].cap, job[s].spent, TRUE)
    BY <2>1, Zenon DEF Made, Job
  <2>3. job' = [job EXCEPT ![s] = job'[s]]
    BY <2>1
  <2> QED
    BY <2>2, <2>3 DEF Turns, Becomes
<1> QED
  BY <1>1, <1>2, <1>3

LEMMA Budgeting ==
  ASSUME job \in [Slots -> Job], NEW s \in Slots
  PROVE  /\ FetchBudget(s) =>
              Becomes(s, Made("budget", clock, ~ Fresh(Cached(s, "cap"), clock), job[s].halt,
                              IF Fresh(Cached(s, "cap"), clock) THEN Cached(s, "cap").value
                                                                ELSE setting["cap"],
                              counter[Today], job[s].failed))
         /\ ReturnBudget(s) /\ ~ (job[s].spent >= Stricter(job[s].cap)) =>
              Turns(s, "working", 0, job[s].halt, job[s].failed)
         /\ FailBudget(s) => Turns(s, "working", 0, job[s].halt, TRUE)
         /\ Work(s) => Turns(s, "paid", job[s].since, job[s].halt, job[s].failed)
<1>1. ASSUME FetchBudget(s)
      PROVE  Becomes(s, Made("budget", clock, ~ Fresh(Cached(s, "cap"), clock), job[s].halt,
                             IF Fresh(Cached(s, "cap"), clock) THEN Cached(s, "cap").value
                                                               ELSE setting["cap"],
                             counter[Today], job[s].failed))
  <2>1. ASSUME NEW fetched, NEW cap, NEW spent,
               job' = [job EXCEPT ![s].pc = "budget", ![s].since = clock, ![s].spent = spent,
                                  ![s].fetched = fetched, ![s].cap = cap]
        PROVE  Becomes(s, Made("budget", clock, fetched, job[s].halt, cap, spent, job[s].failed))
    <3>1. job'[s] = Made("budget", clock, fetched, job[s].halt, cap, spent, job[s].failed)
      <4> DEFINE read == [job[s] EXCEPT !.pc = "budget", !.since = clock, !.spent = spent]
      <4>1. ASSUME NEW j, j = read
            PROVE  j = Made("budget", clock, job[s].fetched, job[s].halt, job[s].cap, spent,
                            job[s].failed)
        BY <4>1, Zenon DEF Made, Job
      <4>2. PICK c, d, e : /\ c = read /\ d = [c EXCEPT !.fetched = fetched]
                           /\ e = [d EXCEPT !.cap = cap] /\ job'[s] = e
        BY <2>1
      <4> HIDE DEF read
      <4>3. c = Made("budget", clock, job[s].fetched, job[s].halt, job[s].cap, spent,
                     job[s].failed)
        BY <4>1, <4>2
      <4>4. d = Made("budget", clock, fetched, job[s].halt, job[s].cap, spent, job[s].failed)
        BY <4>2, <4>3 DEF Made
      <4>5. e = Made("budget", clock, fetched, job[s].halt, cap, spent, job[s].failed)
        <5>1. e = [d EXCEPT !.cap = cap]
          BY <4>2
        <5> QED
          BY <5>1, <4>4 DEF Made
      <4> QED
        BY <4>2, <4>5
    <3>2. job' = [job EXCEPT ![s] = job'[s]]
      BY <2>1
    <3> QED
      BY <3>1, <3>2 DEF Becomes
  <2> QED
    BY <1>1, <2>1, Zenon DEF FetchBudget
<1>2. ASSUME ReturnBudget(s), ~ (job[s].spent >= Stricter(job[s].cap))
      PROVE  Turns(s, "working", 0, job[s].halt, job[s].failed)
  <2>1. job' = [job EXCEPT ![s].pc = "working", ![s].since = 0]
    BY <1>2 DEF ReturnBudget
  <2>2. job'[s] = Made("working", 0, job[s].fetched, job[s].halt, job[s].cap, job[s].spent,
                       job[s].failed)
    BY <2>1, Zenon DEF Made, Job
  <2>3. job' = [job EXCEPT ![s] = job'[s]]
    BY <2>1
  <2> QED
    BY <2>2, <2>3 DEF Turns, Becomes
<1>3. ASSUME FailBudget(s)
      PROVE  Turns(s, "working", 0, job[s].halt, TRUE)
  <2>1. job' = [job EXCEPT ![s].pc = "working", ![s].since = 0, ![s].failed = TRUE]
    BY <1>3 DEF FailBudget
  <2>2. job'[s] = Made("working", 0, job[s].fetched, job[s].halt, job[s].cap, job[s].spent, TRUE)
    BY <2>1, Zenon DEF Made, Job
  <2>3. job' = [job EXCEPT ![s] = job'[s]]
    BY <2>1
  <2> QED
    BY <2>2, <2>3 DEF Turns, Becomes
<1>4. ASSUME Work(s)
      PROVE  Turns(s, "paid", job[s].since, job[s].halt, job[s].failed)
  <2>1. job' = [job EXCEPT ![s].pc = "paid"]
    BY <1>4 DEF Work
  <2>2. job'[s] = Made("paid", job[s].since, job[s].fetched, job[s].halt, job[s].cap,
                       job[s].spent, job[s].failed)
    BY <2>1, Zenon DEF Made, Job
  <2>3. job' = [job EXCEPT ![s] = job'[s]]
    BY <2>1
  <2> QED
    BY <2>2, <2>3 DEF Turns, Becomes
<1> QED
  BY <1>1, <1>2, <1>3, <1>4

Pcs == {"idle", "halt", "gate", "budget", "working", "paid"}

LEMMA Fields ==
  ASSUME NEW pc \in Pcs, NEW since \in 0..MaxTime, NEW cap \in Caps, NEW spent \in Nat,
         NEW fetched, NEW halt, NEW failed,
         fetched \in BOOLEAN, halt \in BOOLEAN, failed \in BOOLEAN
  PROVE  /\ Made(pc, since, fetched, halt, cap, spent, failed) \in Job
         /\ Made(pc, since, fetched, halt, cap, spent, failed).pc = pc
         /\ Made(pc, since, fetched, halt, cap, spent, failed).since = since
         /\ Made(pc, since, fetched, halt, cap, spent, failed).fetched = fetched
         /\ Made(pc, since, fetched, halt, cap, spent, failed).halt = halt
         /\ Made(pc, since, fetched, halt, cap, spent, failed).cap = cap
         /\ Made(pc, since, fetched, halt, cap, spent, failed).spent = spent
         /\ Made(pc, since, fetched, halt, cap, spent, failed).failed = failed
BY DEF Made, Job, Pcs

LEMMA JobFields ==
  ASSUME job \in [Slots -> Job], NEW s \in Slots
  PROVE  /\ job[s].pc \in Pcs /\ job[s].since \in 0..MaxTime /\ job[s].fetched \in BOOLEAN
         /\ job[s].halt \in BOOLEAN /\ job[s].cap \in Caps /\ job[s].spent \in Nat
         /\ job[s].failed \in BOOLEAN
BY DEF Job, Pcs

LEMMA IdleJob == Idle \in Job /\ Idle.pc = "idle"
BY CostAssumption DEF Idle, Job, Caps

-----------------------------------------------------------------------------
(* What is cached.                                                          *)

Entry(key) == [value : Values(key), at : -1..MaxTime]

CacheOK ==
  /\ cache = [p \in Processes |-> [key \in Keys |-> cache[p][key]]]
  /\ \A p \in Processes, key \in Keys : cache[p][key] \in Entry(key)

LEMMA SlotKeys ==
  ASSUME NEW s \in Slots
  PROVE  AreaOf[s] \in Keys /\ "cap" \in Keys /\ AreaOf[s] # "cap" /\ ProcessOf[s] \in Processes
BY CostAssumption DEF Keys, Areas

LEMMA AreaValues ==
  ASSUME TypeOK, NEW s \in Slots
  PROVE  /\ Values(AreaOf[s]) = BOOLEAN /\ Values("cap") = Caps
         /\ setting[AreaOf[s]] \in BOOLEAN /\ setting["cap"] \in Caps
         /\ Cached(s, AreaOf[s]).value \in BOOLEAN /\ Cached(s, "cap").value \in Caps
<1>1. Values(AreaOf[s]) = BOOLEAN /\ Values("cap") = Caps
  BY SlotKeys DEF Values
<1> QED
  BY <1>1, SlotKeys DEF TypeOK, Cached

\* A query replaces one value.
LEMMA Stored ==
  ASSUME CacheOK, clock \in 0..MaxTime, NEW s \in Slots, NEW key \in Keys,
         NEW value \in Values(key), Store(s, key, value)
  PROVE  /\ CacheOK'
         /\ \A p \in Processes, k \in Keys :
              cache'[p][k] = IF p = ProcessOf[s] /\ k = key
                             THEN [value |-> value, at |-> clock] ELSE cache[p][k]
<1>1. cache' = [cache EXCEPT ![ProcessOf[s]] =
                  [cache[ProcessOf[s]] EXCEPT ![key] = [value |-> value, at |-> clock]]]
  BY DEF Store
<1>2. cache' = [p \in Processes |-> IF p = ProcessOf[s]
                  THEN [cache[ProcessOf[s]] EXCEPT ![key] = [value |-> value, at |-> clock]]
                  ELSE cache[p]]
  BY <1>1, SlotKeys DEF CacheOK
<1>3. \A p \in Processes : cache[p] = [k \in Keys |-> cache[p][k]]
  BY DEF CacheOK
<1>4. \A p \in Processes :
        cache'[p] = [k \in Keys |-> IF p = ProcessOf[s] /\ k = key
                                    THEN [value |-> value, at |-> clock] ELSE cache[p][k]]
  BY <1>2, <1>3, SlotKeys
<1>5. \A p \in Processes, k \in Keys :
        cache'[p][k] = IF p = ProcessOf[s] /\ k = key
                       THEN [value |-> value, at |-> clock] ELSE cache[p][k]
  BY <1>4
<1>6. \A p \in Processes, k \in Keys : cache'[p][k] \in Entry(k)
  BY <1>5 DEF CacheOK, Entry
<1>7. cache' = [p \in Processes |-> [k \in Keys |-> cache'[p][k]]]
  BY <1>2, <1>4
<1> QED
  BY <1>5, <1>6, <1>7 DEF CacheOK, Entry

\* Values that expire are forgotten.
LEMMA Expired ==
  ASSUME CacheOK, Tick
  PROVE  /\ CacheOK'
         /\ \A p \in Processes, k \in Keys :
              /\ cache'[p][k].value = cache[p][k].value
              /\ \/ cache'[p][k].at = -1
                 \/ cache'[p][k].at = cache[p][k].at /\ Fresh(cache[p][k], clock + 1)
<1>1. cache' = [p \in Processes |-> [k \in Keys |->
        IF Fresh(cache[p][k], clock + 1) THEN cache[p][k] ELSE [cache[p][k] EXCEPT !.at = -1]]]
  BY DEF Tick
<1>2. \A p \in Processes, k \in Keys :
        cache'[p][k] = IF Fresh(cache[p][k], clock + 1) THEN cache[p][k]
                       ELSE [cache[p][k] EXCEPT !.at = -1]
  BY <1>1
<1>3. ASSUME NEW p \in Processes, NEW k \in Keys
      PROVE  /\ cache'[p][k] \in Entry(k)
             /\ cache'[p][k].value = cache[p][k].value
             /\ \/ cache'[p][k].at = -1
                \/ cache'[p][k].at = cache[p][k].at /\ Fresh(cache[p][k], clock + 1)
  <2>1. cache[p][k] \in Entry(k) /\ -1 \in -1..MaxTime
    BY CostAssumption DEF CacheOK
  <2>2. CASE Fresh(cache[p][k], clock + 1)
    BY <1>2, <2>1, <2>2
  <2>3. CASE ~ Fresh(cache[p][k], clock + 1)
    <3>1. cache'[p][k] = [cache[p][k] EXCEPT !.at = -1]
      BY <1>2, <2>3
    <3> QED
      BY <2>1, <3>1 DEF Entry
  <2> QED
    BY <2>2, <2>3
<1>4. cache' = [p \in Processes |-> [k \in Keys |-> cache'[p][k]]]
  BY <1>1
<1> QED
  BY <1>3, <1>4 DEF CacheOK, Entry

\* A process that dies forgets all it has cached.
LEMMA Forgotten ==
  ASSUME CacheOK, NEW q \in Processes, Crash(q)
  PROVE  /\ CacheOK'
         /\ \A p \in Processes, k \in Keys :
              IF p = q THEN cache'[p][k].at = -1 ELSE cache'[p][k] = cache[p][k]
<1>1. cache' = [cache EXCEPT ![q] = [k \in Keys |-> [cache[q][k] EXCEPT !.at = -1]]]
  BY DEF Crash
<1>2. cache' = [p \in Processes |->
                  IF p = q THEN [k \in Keys |-> [cache[q][k] EXCEPT !.at = -1]] ELSE cache[p]]
  BY <1>1 DEF CacheOK
<1>3. \A p \in Processes, k \in Keys :
        cache'[p][k] = IF p = q THEN [cache[q][k] EXCEPT !.at = -1] ELSE cache[p][k]
  BY <1>2
<1>4. \A p \in Processes : cache[p] = [k \in Keys |-> cache[p][k]]
  BY DEF CacheOK
<1>5. cache' = [p \in Processes |-> [k \in Keys |-> cache'[p][k]]]
  BY <1>2, <1>3, <1>4
<1>6. ASSUME NEW p \in Processes, NEW k \in Keys
      PROVE  /\ cache'[p][k] \in Entry(k)
             /\ IF p = q THEN cache'[p][k].at = -1 ELSE cache'[p][k] = cache[p][k]
  <2>1. cache[p][k] \in Entry(k) /\ -1 \in -1..MaxTime
    BY CostAssumption DEF CacheOK
  <2> QED
    BY <1>3, <2>1 DEF Entry
<1> QED
  BY <1>5, <1>6 DEF CacheOK, Entry

-----------------------------------------------------------------------------
(* What each step makes of a job, for the proofs that follow.               *)

Moves(s) == job' \in [Slots -> Job] /\ \A t \in Slots \ {s} : job'[t] = job[t]

LEMMA Turned ==
  ASSUME job \in [Slots -> Job], NEW s \in Slots, NEW pc \in Pcs, NEW since \in 0..MaxTime,
         NEW halt, NEW failed, halt \in BOOLEAN, failed \in BOOLEAN,
         Turns(s, pc, since, halt, failed)
  PROVE  /\ Moves(s)
         /\ job'[s].pc = pc /\ job'[s].since = since /\ job'[s].halt = halt
         /\ job'[s].failed = failed /\ job'[s].cap = job[s].cap /\ job'[s].spent = job[s].spent
<1> DEFINE j == Made(pc, since, job[s].fetched, halt, job[s].cap, job[s].spent, failed)
<1>1. j \in Job /\ j.pc = pc /\ j.since = since /\ j.halt = halt /\ j.failed = failed
      /\ j.cap = job[s].cap /\ j.spent = job[s].spent
  BY Fields, JobFields
<1>2. Becomes(s, j)
  BY DEF Turns
<1> HIDE DEF j
<1>3. job'[s] = j /\ Moves(s)
  BY <1>1, <1>2, Updated DEF Moves
<1> QED
  BY <1>1, <1>3

LEMMA Stops ==
  ASSUME job \in [Slots -> Job], NEW s \in Slots, Becomes(s, Idle)
  PROVE  Moves(s) /\ job'[s].pc = "idle"
BY Updated, IdleJob DEF Moves

LEMMA HaltMoves ==
  ASSUME TypeOK, NEW s \in Slots
  PROVE  /\ CheckHalt(s) =>
              Moves(s) /\ job'[s].pc = "gate" /\ job'[s].failed = job[s].failed
         /\ FetchHalt(s) =>
              /\ Moves(s) /\ job'[s].pc = "halt" /\ job'[s].failed = job[s].failed
              /\ job'[s].since = clock /\ job'[s].halt = setting[AreaOf[s]]
         /\ ReturnHalt(s) =>
              /\ Moves(s)
              /\ IF job[s].halt THEN job'[s].pc = "idle"
                 ELSE job'[s].pc = "gate" /\ job'[s].failed = job[s].failed
         /\ FailHalt(s) => Moves(s) /\ job'[s].pc = "gate" /\ job'[s].failed
<1>1. /\ job \in [Slots -> Job] /\ clock \in 0..MaxTime /\ 0 \in 0..MaxTime
      /\ setting[AreaOf[s]] \in BOOLEAN /\ job[s].halt \in BOOLEAN /\ job[s].failed \in BOOLEAN
      /\ "halt" \in Pcs /\ "gate" \in Pcs /\ "budget" \in Pcs
      /\ "working" \in Pcs /\ "paid" \in Pcs /\ FALSE \in BOOLEAN /\ TRUE \in BOOLEAN
  BY CostAssumption, AreaValues, JobFields DEF TypeOK, Pcs
<1>2. ASSUME CheckHalt(s)
      PROVE  Moves(s) /\ job'[s].pc = "gate" /\ job'[s].failed = job[s].failed
  <2>1. Turns(s, "gate", 0, job[s].halt, job[s].failed)
    BY <1>1, <1>2, Halting
  <2> QED
    BY <1>1, <2>1, Turned
<1>3. ASSUME FetchHalt(s)
      PROVE  /\ Moves(s) /\ job'[s].pc = "halt" /\ job'[s].failed = job[s].failed
             /\ job'[s].since = clock /\ job'[s].halt = setting[AreaOf[s]]
  <2>1. Turns(s, "halt", clock, setting[AreaOf[s]], job[s].failed)
    BY <1>1, <1>3, Halting
  <2> QED
    BY <1>1, <2>1, Turned
<1>4. ASSUME ReturnHalt(s), ~ job[s].halt
      PROVE  Moves(s) /\ job'[s].pc = "gate" /\ job'[s].failed = job[s].failed
  <2>1. Turns(s, "gate", 0, job[s].halt, job[s].failed)
    BY <1>1, <1>4, Halting
  <2> QED
    BY <1>1, <2>1, Turned
<1>5. ASSUME ReturnHalt(s), job[s].halt
      PROVE  Moves(s) /\ job'[s].pc = "idle"
  BY <1>1, <1>5, Stops DEF ReturnHalt, Refuse, Becomes
<1>6. ASSUME FailHalt(s)
      PROVE  Moves(s) /\ job'[s].pc = "gate" /\ job'[s].failed
  <2>1. Turns(s, "gate", 0, FALSE, TRUE)
    BY <1>1, <1>6, Halting
  <2> QED
    BY <1>1, <2>1, Turned
<1> QED
  BY <1>2, <1>3, <1>4, <1>5, <1>6

LEMMA BudgetMoves ==
  ASSUME TypeOK, NEW s \in Slots
  PROVE  /\ FetchBudget(s) =>
              /\ Moves(s) /\ job'[s].pc = "budget" /\ job'[s].failed = job[s].failed
              /\ job'[s].since = clock /\ job'[s].spent = counter[Today]
              /\ IF Fresh(Cached(s, "cap"), clock)
                 THEN ~ job'[s].fetched /\ job'[s].cap = Cached(s, "cap").value
                 ELSE job'[s].fetched /\ job'[s].cap = setting["cap"]
         /\ ReturnBudget(s) =>
              /\ Moves(s)
              /\ \/ job'[s].pc = "idle"
                 \/ /\ job'[s].pc = "working" /\ job'[s].failed = job[s].failed
                    /\ ~ (job[s].spent >= Stricter(job[s].cap))
         /\ FailBudget(s) => Moves(s) /\ job'[s].pc = "working" /\ job'[s].failed
         /\ Work(s) => Moves(s) /\ job'[s].pc = "paid"
         /\ RecordUsage(s) \/ RecordFails(s) => Moves(s) /\ job'[s].pc = "idle"
<1>1. /\ job \in [Slots -> Job] /\ clock \in 0..MaxTime /\ 0 \in 0..MaxTime
      /\ job[s].halt \in BOOLEAN /\ job[s].failed \in BOOLEAN /\ job[s].since \in 0..MaxTime
      /\ setting["cap"] \in Caps /\ Cached(s, "cap").value \in Caps /\ counter[Today] \in Nat
      /\ "halt" \in Pcs /\ "gate" \in Pcs /\ "budget" \in Pcs
      /\ "working" \in Pcs /\ "paid" \in Pcs /\ FALSE \in BOOLEAN /\ TRUE \in BOOLEAN
  BY CostAssumption, AreaValues, JobFields, Calendar DEF TypeOK, Pcs, Today
<1>2. ASSUME FetchBudget(s)
      PROVE  /\ Moves(s) /\ job'[s].pc = "budget" /\ job'[s].failed = job[s].failed
             /\ job'[s].since = clock /\ job'[s].spent = counter[Today]
             /\ IF Fresh(Cached(s, "cap"), clock)
                THEN ~ job'[s].fetched /\ job'[s].cap = Cached(s, "cap").value
                ELSE job'[s].fetched /\ job'[s].cap = setting["cap"]
  <2>1. ASSUME NEW fetched, fetched \in BOOLEAN, NEW cap \in Caps,
               Becomes(s, Made("budget", clock, fetched, job[s].halt, cap, counter[Today],
                               job[s].failed))
        PROVE  /\ Moves(s) /\ job'[s].pc = "budget" /\ job'[s].failed = job[s].failed
               /\ job'[s].since = clock /\ job'[s].spent = counter[Today]
               /\ job'[s].fetched = fetched /\ job'[s].cap = cap
    <3> DEFINE j == Made("budget", clock, fetched, job[s].halt, cap, counter[Today], job[s].failed)
    <3>1. /\ j \in Job /\ j.pc = "budget" /\ j.failed = job[s].failed
          /\ j.since = clock /\ j.spent = counter[Today] /\ j.fetched = fetched /\ j.cap = cap
      <4>1. /\ "budget" \in Pcs /\ clock \in 0..MaxTime /\ job[s].halt \in BOOLEAN
            /\ counter[Today] \in Nat /\ job[s].failed \in BOOLEAN
        BY <1>1
      <4> QED
        BY <2>1, <4>1, Fields
    <3> HIDE DEF j
    <3>2. job'[s] = j /\ Moves(s)
      BY <1>1, <2>1, <3>1, Updated DEF Moves, j
    <3> QED
      BY <3>1, <3>2
  <2>2. CASE Fresh(Cached(s, "cap"), clock)
    <3>1. Becomes(s, Made("budget", clock, FALSE, job[s].halt, Cached(s, "cap").value,
                          counter[Today], job[s].failed))
      BY <1>1, <1>2, <2>2, Budgeting
    <3> QED
      BY <1>1, <2>1, <2>2, <3>1
  <2>3. CASE ~ Fresh(Cached(s, "cap"), clock)
    <3>1. Becomes(s, Made("budget", clock, TRUE, job[s].halt, setting["cap"],
                          counter[Today], job[s].failed))
      BY <1>1, <1>2, <2>3, Budgeting
    <3> QED
      BY <1>1, <2>1, <2>3, <3>1
  <2> QED
    BY <2>2, <2>3
<1>3. ASSUME ReturnBudget(s), ~ (job[s].spent >= Stricter(job[s].cap))
      PROVE  Moves(s) /\ job'[s].pc = "working" /\ job'[s].failed = job[s].failed
  <2>1. Turns(s, "working", 0, job[s].halt, job[s].failed)
    BY <1>1, <1>3, Budgeting
  <2> QED
    BY <1>1, <2>1, Turned
<1>4. ASSUME ReturnBudget(s), job[s].spent >= Stricter(job[s].cap)
      PROVE  Moves(s) /\ job'[s].pc = "idle"
  BY <1>1, <1>4, Stops DEF ReturnBudget, Refuse, Becomes
<1>5. ASSUME FailBudget(s)
      PROVE  Moves(s) /\ job'[s].pc = "working" /\ job'[s].failed
  <2>1. Turns(s, "working", 0, job[s].halt, TRUE)
    BY <1>1, <1>5, Budgeting
  <2> QED
    BY <1>1, <2>1, Turned
<1>6. ASSUME Work(s)
      PROVE  Moves(s) /\ job'[s].pc = "paid"
  <2>1. Turns(s, "paid", job[s].since, job[s].halt, job[s].failed)
    BY <1>1, <1>6, Budgeting
  <2>2. /\ job \in [Slots -> Job] /\ "paid" \in Pcs /\ job[s].since \in 0..MaxTime
        /\ job[s].halt \in BOOLEAN /\ job[s].failed \in BOOLEAN
    BY <1>1
  <2> QED
    BY <2>1, <2>2, Turned
<1>7. RecordUsage(s) \/ RecordFails(s) => Moves(s) /\ job'[s].pc = "idle"
  BY <1>1, Stops DEF RecordUsage, RecordFails, Becomes
<1> QED
  BY <1>2, <1>3, <1>4, <1>5, <1>6, <1>7

-----------------------------------------------------------------------------
(* Types.                                                                   *)

Left == [writes : 0..MaxWrites, faults : 0..MaxFaults]

LEMMA Spends ==
  ASSUME left \in Left, Spend("writes") \/ Spend("faults")
  PROVE  left' \in Left
<1>1. CASE Spend("writes")
  <2>1. left' = [left EXCEPT !.writes = left.writes - 1] /\ left.writes > 0
    BY <1>1 DEF Spend
  <2> QED
    BY <2>1, CostAssumption DEF Left
<1>2. CASE Spend("faults")
  <2>1. left' = [left EXCEPT !.faults = left.faults - 1] /\ left.faults > 0
    BY <1>2 DEF Spend
  <2> QED
    BY <2>1, CostAssumption DEF Left
<1> QED
  BY <1>1, <1>2

LEMMA Written ==
  ASSUME TypeOK, NEW key \in Keys, NEW value \in Values(key), WriteSetting(key, value)
  PROVE  /\ setting' = [k \in Keys |-> setting'[k]]
         /\ \A k \in Keys : /\ setting'[k] = (IF k = key THEN value ELSE setting[k])
                            /\ setting'[k] \in Values(k)
         /\ changed' \in [Keys -> -1..MaxTime]
         /\ \A k \in Keys : changed'[k] = IF k = key THEN clock ELSE changed[k]
         /\ left' \in Left
<1>1. setting' = [setting EXCEPT ![key] = value] /\ changed' = [changed EXCEPT ![key] = clock]
  BY DEF WriteSetting
<1>2. clock \in -1..MaxTime
  BY CostAssumption DEF TypeOK
<1>3. setting' = [k \in Keys |-> IF k = key THEN value ELSE setting[k]]
  BY <1>1 DEF TypeOK
<1>4. left' \in Left
  BY Spends DEF WriteSetting, TypeOK, Left
<1> QED
  BY <1>1, <1>2, <1>3, <1>4 DEF TypeOK

\* The two settings.
LEMMA Writes ==
  ASSUME \/ \E area \in Areas, halted \in BOOLEAN : SetHalted(area, halted)
         \/ \E cap \in GlobalCaps \cup {NoCap} : SetGlobalDailyCap(cap)
  PROVE  \E key, value : key \in Keys /\ value \in Values(key) /\ WriteSetting(key, value)
<1>1. ASSUME NEW area \in Areas, NEW halted \in BOOLEAN, SetHalted(area, halted)
      PROVE  area \in Keys /\ halted \in Values(area) /\ WriteSetting(area, halted)
  BY <1>1, CostAssumption DEF Keys, Values, SetHalted
<1>2. ASSUME NEW cap \in GlobalCaps \cup {NoCap}, SetGlobalDailyCap(cap)
      PROVE  \E value \in Values("cap") : WriteSetting("cap", value)
  BY <1>2 DEF Values, Caps, SetGlobalDailyCap
<1> QED
  BY <1>1, <1>2 DEF Keys

LEMMA TypeStep == TypeOK /\ [Next]_vars => TypeOK'
<1> SUFFICES ASSUME TypeOK, [Next]_vars
             PROVE  TypeOK'
  OBVIOUS
<1>1. /\ clock \in 0..MaxTime /\ CacheOK /\ job \in [Slots -> Job] /\ left \in Left
      /\ counter \in [Days -> Nat] /\ cost \in [Days -> Nat] /\ unchecked \in Nat
      /\ Today \in Days /\ Cost \in Nat /\ 0 \in 0..MaxTime
  BY Calendar, CostAssumption DEF TypeOK, CacheOK, Entry, Left, Today
<1>2. CASE Tick
  <2>1. clock' \in 0..MaxTime
    BY <1>1, <1>2, CostAssumption DEF Tick
  <2>2. CacheOK'
    BY <1>1, <1>2, Expired
  <2> QED
    BY <1>1, <1>2, <2>1, <2>2 DEF Tick, TypeOK, CacheOK, Entry, Left
<1>3. CASE \/ \E area \in Areas, halted \in BOOLEAN : SetHalted(area, halted)
           \/ \E cap \in GlobalCaps \cup {NoCap} : SetGlobalDailyCap(cap)
  <2>1. PICK key, value : key \in Keys /\ value \in Values(key) /\ WriteSetting(key, value)
    BY <1>3, Writes
  <2>2. /\ setting' = [k \in Keys |-> setting'[k]] /\ \A k \in Keys : setting'[k] \in Values(k)
        /\ changed' \in [Keys -> -1..MaxTime] /\ left' \in Left
    BY <2>1, Written
  <2> QED
    BY <1>1, <2>1, <2>2 DEF WriteSetting, TypeOK, CacheOK, Entry, Left
<1>4. ASSUME NEW s \in Slots,
             CheckHalt(s) \/ FetchHalt(s) \/ ReturnHalt(s) \/ FailHalt(s)
      PROVE  TypeOK'
  <2>1. job' \in [Slots -> Job]
    BY <1>4, HaltMoves DEF Moves
  <2>2. CacheOK'
    <3>1. CASE ReturnHalt(s)
      BY <1>1, <3>1, Stored, SlotKeys, AreaValues, JobFields DEF ReturnHalt
    <3> QED
      BY <1>1, <1>4, <3>1 DEF CheckHalt, FetchHalt, FailHalt, CacheOK, Entry
  <2>3. left' \in Left
    BY <1>1, <1>4, Spends DEF CheckHalt, FetchHalt, ReturnHalt, FailHalt
  <2> QED
    BY <1>1, <1>4, <2>1, <2>2, <2>3
       DEF CheckHalt, FetchHalt, ReturnHalt, FailHalt, TypeOK, CacheOK, Entry, Left
<1>5. ASSUME NEW s \in Slots, FetchBudget(s) \/ ReturnBudget(s) \/ FailBudget(s)
      PROVE  TypeOK'
  <2>1. job' \in [Slots -> Job]
    BY <1>5, BudgetMoves DEF Moves
  <2>2. CacheOK'
    <3>1. CASE ReturnBudget(s) /\ job[s].fetched
      BY <1>1, <3>1, Stored, SlotKeys, AreaValues, JobFields DEF ReturnBudget
    <3> QED
      BY <1>1, <1>5, <3>1 DEF FetchBudget, ReturnBudget, FailBudget, CacheOK, Entry
  <2>3. left' \in Left /\ unchecked' \in Nat
    BY <1>1, <1>5, Spends DEF FetchBudget, ReturnBudget, FailBudget
  <2> QED
    BY <1>1, <1>5, <2>1, <2>2, <2>3
       DEF FetchBudget, ReturnBudget, FailBudget, TypeOK, CacheOK, Entry, Left
<1>6. ASSUME NEW s \in Slots, Work(s) \/ RecordUsage(s) \/ RecordFails(s)
      PROVE  TypeOK'
  <2>1. job' \in [Slots -> Job]
    BY <1>6, BudgetMoves DEF Moves
  <2>2. counter' \in [Days -> Nat] /\ cost' \in [Days -> Nat]
    BY <1>1, <1>6 DEF Work, RecordUsage, RecordFails
  <2>3. left' \in Left /\ unchecked' \in Nat
    BY <1>1, <1>6, Spends DEF Work, RecordUsage, RecordFails
  <2> QED
    BY <1>1, <1>6, <2>1, <2>2, <2>3 DEF Work, RecordUsage, RecordFails, TypeOK, Left
<1>7. ASSUME NEW p \in Processes, Crash(p)
      PROVE  TypeOK'
  <2>1. job' \in [Slots -> Job] /\ left' \in Left /\ CacheOK'
    BY <1>1, <1>7, IdleJob, Spends, Forgotten DEF Crash
  <2>2. unchecked' \in Nat
    <3> DEFINE gone == {s \in Slots : ProcessOf[s] = p /\ job[s].pc = "paid"}
    <3>1. IsFiniteSet(gone)
      BY CostAssumption, FS_Subset
    <3>2. Cardinality(gone) \in Nat
      BY <3>1, FS_CardinalityType
    <3> QED
      BY <1>1, <1>7, <3>2 DEF Crash
  <2> QED
    BY <1>1, <1>7, <2>1, <2>2 DEF Crash, TypeOK, CacheOK, Entry, Left
<1>8. CASE UNCHANGED vars
  BY <1>8 DEF vars, TypeOK
<1> QED
  BY <1>2, <1>3, <1>4, <1>5, <1>6, <1>7, <1>8 DEF Next

-----------------------------------------------------------------------------
(* Time.                                                                    *)

\* The facts about numbers that the steps need.
LEMMA Numbers ==
  ASSUME TypeOK
  PROVE  /\ clock \in Nat /\ TTL \in Nat /\ TTL > 0 /\ ReadTime \in Nat
         /\ \A key \in Keys : changed[key] \in Int
         /\ \A p \in Processes, key \in Keys : cache[p][key].at \in Int
         /\ \A s \in Slots : job[s].since \in Int
<1>1. \A s \in Slots : job[s].since \in Int
  BY JobFields DEF TypeOK
<1>2. \A p \in Processes, key \in Keys : cache[p][key].at \in Int
  BY DEF TypeOK
<1> QED
  BY <1>1, <1>2, CostAssumption DEF TypeOK

LEMMA TimeStep ==
  ASSUME TypeOK, TypeOK', TimeInv, [Next]_vars
  PROVE  TimeInv'
<1>1. CacheOK /\ clock \in 0..MaxTime
  BY DEF TypeOK, CacheOK, Entry
<1> USE DEF Fresh
<1>2. CASE Tick
  <2>1. clock' = clock + 1 /\ changed' = changed /\ job' = job
    BY <1>2 DEF Tick
  <2>2. \A key \in Keys : changed'[key] <= clock'
    BY <2>1, Numbers DEF TimeInv
  <2>3. \A p \in Processes, key \in Keys :
          cache'[p][key].at <= clock' /\ (cache'[p][key].at >= 0 => Fresh(cache'[p][key], clock'))
    BY <1>1, <1>2, <2>1, Expired, Numbers DEF TimeInv
  <2>4. \A s \in Slots :
          job'[s].pc \in {"halt", "budget"}
            => job'[s].since <= clock' /\ clock' - job'[s].since <= ReadTime
    <3>1. \A s \in Slots : job[s].pc \in {"halt", "budget"} => clock - job[s].since < ReadTime
      BY <1>2 DEF Tick
    <3> QED
      BY <2>1, <3>1, Numbers DEF TimeInv
  <2> QED
    BY <2>2, <2>3, <2>4 DEF TimeInv
<1>3. CASE \/ \E area \in Areas, halted \in BOOLEAN : SetHalted(area, halted)
           \/ \E cap \in GlobalCaps \cup {NoCap} : SetGlobalDailyCap(cap)
  <2>1. PICK key, value : key \in Keys /\ value \in Values(key) /\ WriteSetting(key, value)
    BY <1>3, Writes
  <2>2. \A k \in Keys : changed'[k] <= clock
    BY <2>1, Written, Numbers DEF TimeInv
  <2> QED
    BY <2>1, <2>2 DEF WriteSetting, TimeInv
<1>4. ASSUME clock' = clock, changed' = changed, NEW s \in Slots, Moves(s),
             \/ cache' = cache
             \/ \E key, value : key \in Keys /\ value \in Values(key) /\ Store(s, key, value),
             job'[s].pc \in {"halt", "budget"} => job'[s].since = clock
      PROVE  TimeInv'
  <2>1. \A p \in Processes, key \in Keys :
          cache'[p][key].at <= clock /\ (cache'[p][key].at >= 0 => Fresh(cache'[p][key], clock))
    <3>1. CASE cache' = cache
      BY <3>1 DEF TimeInv
    <3>2. ASSUME NEW key \in Keys, NEW value, value \in Values(key), Store(s, key, value)
          PROVE  \A p \in Processes, k \in Keys :
                   cache'[p][k] = cache[p][k] \/ cache'[p][k].at = clock
      <4>1. \A p \in Processes, k \in Keys :
              cache'[p][k] = IF p = ProcessOf[s] /\ k = key
                             THEN [value |-> value, at |-> clock] ELSE cache[p][k]
        BY <1>1, <3>2, Stored
      <4> QED
        BY <4>1
    <3> QED
      BY <1>4, <3>1, <3>2, Numbers DEF TimeInv
  <2>2. \A t \in Slots :
          job'[t].pc \in {"halt", "budget"}
            => job'[t].since <= clock /\ clock - job'[t].since <= ReadTime
    BY <1>4, Numbers DEF Moves, TimeInv
  <2> QED
    BY <1>4, <2>1, <2>2 DEF TimeInv
<1>5. ASSUME NEW s \in Slots,
             CheckHalt(s) \/ FetchHalt(s) \/ ReturnHalt(s) \/ FailHalt(s)
      PROVE  TimeInv'
  <2>1. clock' = clock /\ changed' = changed
    BY <1>5 DEF CheckHalt, FetchHalt, ReturnHalt, FailHalt
  <2>2. Moves(s) /\ (job'[s].pc \in {"halt", "budget"} => job'[s].since = clock)
    BY <1>5, HaltMoves
  <2>3. \/ cache' = cache
        \/ \E key, value : key \in Keys /\ value \in Values(key) /\ Store(s, key, value)
    BY <1>5, SlotKeys, AreaValues, JobFields
       DEF CheckHalt, FetchHalt, ReturnHalt, FailHalt, TypeOK
  <2> QED
    BY <1>4, <2>1, <2>2, <2>3
<1>6. ASSUME NEW s \in Slots,
             \/ FetchBudget(s) \/ ReturnBudget(s) \/ FailBudget(s)
             \/ Work(s) \/ RecordUsage(s) \/ RecordFails(s)
      PROVE  TimeInv'
  <2>1. clock' = clock /\ changed' = changed
    BY <1>6 DEF FetchBudget, ReturnBudget, FailBudget, Work, RecordUsage, RecordFails
  <2>2. Moves(s) /\ (job'[s].pc \in {"halt", "budget"} => job'[s].since = clock)
    BY <1>6, BudgetMoves
  <2>3. \/ cache' = cache
        \/ \E key, value : key \in Keys /\ value \in Values(key) /\ Store(s, key, value)
    BY <1>6, SlotKeys, AreaValues, JobFields
       DEF FetchBudget, ReturnBudget, FailBudget, Work, RecordUsage, RecordFails, TypeOK
  <2> QED
    BY <1>4, <2>1, <2>2, <2>3
<1>7. ASSUME NEW p \in Processes, Crash(p)
      PROVE  TimeInv'
  <2>1. clock' = clock /\ changed' = changed
    BY <1>7 DEF Crash
  <2>2. \A s \in Slots : job'[s] = job[s] \/ job'[s].pc = "idle"
    BY <1>7, IdleJob DEF Crash
  <2>3. \A q \in Processes, k \in Keys : cache'[q][k] = cache[q][k] \/ cache'[q][k].at = -1
    BY <1>1, <1>7, Forgotten
  <2> QED
    BY <2>1, <2>2, <2>3, Numbers DEF TimeInv
<1>8. CASE UNCHANGED vars
  BY <1>8 DEF vars, TimeInv
<1> QED
  BY <1>2, <1>3, <1>5, <1>6, <1>7, <1>8 DEF Next

-----------------------------------------------------------------------------
(* What gates act on.                                                       *)

EntryFresh(p, key) ==
  cache[p][key].at >= 0 => Recent(key, cache[p][key].value, cache[p][key].at, ReadTime + 1)

SlotFresh(s) ==
  /\ job[s].pc = "halt" => Recent(AreaOf[s], job[s].halt, job[s].since, 1)
  /\ job[s].pc = "gate" /\ ~ job[s].failed => Recent(AreaOf[s], FALSE, clock, TTL + ReadTime)
  /\ job[s].pc = "budget" /\ ~ job[s].failed =>
       Recent(AreaOf[s], FALSE, job[s].since, TTL + ReadTime)
  /\ job[s].pc = "budget" =>
       /\ Recent("cap", job[s].cap, job[s].since, TTL + ReadTime)
       /\ job[s].fetched => Recent("cap", job[s].cap, job[s].since, 1)

LEMMA FreshParts ==
  FreshInv <=> /\ \A p \in Processes, key \in Keys : EntryFresh(p, key)
               /\ \A s \in Slots : SlotFresh(s)
BY DEF FreshInv, EntryFresh, SlotFresh

\* What was recent is so after a setting is written, unless it was read later.
LEMMA StillRecent ==
  ASSUME TypeOK, NEW key \in Keys, NEW value, value \in Values(key), WriteSetting(key, value),
         NEW k \in Keys, NEW v, NEW time \in Int, NEW slack \in Nat, time <= clock, slack > 0,
         Recent(k, v, time, slack)
  PROVE  v = setting'[k] \/ time - changed'[k] < slack
<1>1. CASE k = key
  <2>1. changed'[k] = clock
    BY <1>1, Written
  <2> QED
    BY <2>1, Numbers
<1>2. CASE k # key
  <2>1. setting'[k] = setting[k] /\ changed'[k] = changed[k]
    BY <1>2, Written
  <2> QED
    BY <2>1 DEF Recent
<1> QED
  BY <1>1, <1>2

\* A value that is still fresh in the cache, and one that a query returns.
LEMMA CachedRecent ==
  ASSUME TypeOK, NEW p \in Processes, NEW key \in Keys, EntryFresh(p, key),
         Fresh(cache[p][key], clock)
  PROVE  Recent(key, cache[p][key].value, clock, TTL + ReadTime)
BY Numbers DEF EntryFresh, Recent, Fresh

LEMMA ReturnedRecent ==
  ASSUME TypeOK, NEW key \in Keys, NEW value, NEW since \in Int,
         Recent(key, value, since, 1), clock - since <= ReadTime
  PROVE  /\ Recent(key, value, clock, ReadTime + 1)
         /\ Recent(key, value, clock, TTL + ReadTime)
BY Numbers DEF Recent

\* A step of slot s that reads or returns.
LEMMA SlotStep ==
  ASSUME TypeOK, FreshInv, clock' = clock, setting' = setting, changed' = changed,
         NEW s \in Slots, Moves(s), SlotFresh(s)',
         \/ cache' = cache
         \/ \E key, value : /\ key \in Keys /\ value \in Values(key) /\ Store(s, key, value)
                            /\ Recent(key, value, clock, ReadTime + 1)
  PROVE  FreshInv'
<1>1. CacheOK /\ clock \in 0..MaxTime
  BY DEF TypeOK, CacheOK, Entry
<1>2. ASSUME NEW p \in Processes, NEW k \in Keys
      PROVE  EntryFresh(p, k)'
  <2>1. EntryFresh(p, k)
    BY FreshParts
  <2>2. CASE cache'[p][k] = cache[p][k]
    BY <2>1, <2>2 DEF EntryFresh, Recent
  <2>3. ASSUME NEW key \in Keys, NEW value, value \in Values(key), Store(s, key, value),
               Recent(key, value, clock, ReadTime + 1)
        PROVE  EntryFresh(p, k)'
    <3>1. cache'[p][k] = IF p = ProcessOf[s] /\ k = key
                         THEN [value |-> value, at |-> clock] ELSE cache[p][k]
      BY <1>1, <2>3, Stored
    <3>2. CASE p = ProcessOf[s] /\ k = key
      <4>1. cache'[p][k].value = value /\ cache'[p][k].at = clock
        BY <3>1, <3>2
      <4> QED
        BY <2>3, <3>2, <4>1 DEF EntryFresh, Recent
    <3> QED
      BY <2>2, <3>1, <3>2
  <2> QED
    BY <2>2, <2>3
<1>3. ASSUME NEW t \in Slots \ {s}
      PROVE  SlotFresh(t)'
  <2>1. SlotFresh(t) /\ job'[t] = job[t]
    BY FreshParts DEF Moves
  <2> QED
    BY <2>1 DEF SlotFresh, Recent
<1> QED
  BY <1>2, <1>3, FreshParts DEF FreshInv, EntryFresh, SlotFresh

LEMMA FreshStep ==
  ASSUME TypeOK, TypeOK', TimeInv, FreshInv, [Next]_vars
  PROVE  FreshInv'
<1>1. CacheOK /\ clock \in 0..MaxTime
  BY DEF TypeOK, CacheOK, Entry
<1>2. CASE Tick
  <2>1. setting' = setting /\ changed' = changed /\ job' = job
    BY <1>2 DEF Tick
  <2>2. ASSUME NEW p \in Processes, NEW k \in Keys
        PROVE  EntryFresh(p, k)'
    <3>1. /\ cache'[p][k].value = cache[p][k].value
          /\ cache'[p][k].at = -1 \/ cache'[p][k].at = cache[p][k].at
      BY <1>1, <1>2, Expired
    <3>2. EntryFresh(p, k)
      BY FreshParts
    <3> QED
      BY <2>1, <3>1, <3>2 DEF EntryFresh, Recent
  <2>3. ASSUME NEW s \in Slots
        PROVE  SlotFresh(s)'
    <3>1. SlotFresh(s) /\ job[s].pc # "gate"
      BY <1>2, FreshParts DEF Tick
    <3> QED
      BY <2>1, <3>1 DEF SlotFresh, Recent
  <2> QED
    BY <2>2, <2>3 DEF FreshInv, EntryFresh, SlotFresh
<1>3. CASE \/ \E area \in Areas, halted \in BOOLEAN : SetHalted(area, halted)
           \/ \E cap \in GlobalCaps \cup {NoCap} : SetGlobalDailyCap(cap)
  <2>1. PICK key, value : key \in Keys /\ value \in Values(key) /\ WriteSetting(key, value)
    BY <1>3, Writes
  <2>2. clock' = clock /\ cache' = cache /\ job' = job
    BY <2>1 DEF WriteSetting
  <2>3. ASSUME NEW k \in Keys, NEW v, NEW time \in Int, NEW slack \in Nat, time <= clock, slack > 0,
               Recent(k, v, time, slack)
        PROVE  v = setting'[k] \/ time - changed'[k] < slack
    BY <2>1, <2>3, StillRecent
  <2>4. ASSUME NEW p \in Processes, NEW k \in Keys
        PROVE  EntryFresh(p, k)'
    <3>1. EntryFresh(p, k) /\ cache[p][k].at \in Int /\ cache[p][k].at <= clock
          /\ ReadTime + 1 \in Nat /\ ReadTime + 1 > 0
      BY FreshParts, Numbers DEF TimeInv
    <3> QED
      BY <2>2, <2>3, <3>1 DEF EntryFresh, Recent
  <2>5. ASSUME NEW s \in Slots
        PROVE  SlotFresh(s)'
    <3>1. /\ SlotFresh(s) /\ clock \in Int /\ clock <= clock /\ job[s].since \in Int
          /\ job[s].pc \in {"halt", "budget"} => job[s].since <= clock
          /\ TTL + ReadTime \in Nat /\ TTL + ReadTime > 0 /\ 1 \in Nat /\ 1 > 0
          /\ AreaOf[s] \in Keys /\ "cap" \in Keys
      BY FreshParts, Numbers, SlotKeys DEF TimeInv
    <3>2. ASSUME job[s].pc = "halt"
          PROVE  Recent(AreaOf[s], job[s].halt, job[s].since, 1)'
      BY <2>2, <2>3, <3>1, <3>2 DEF SlotFresh, Recent
    <3>3. ASSUME job[s].pc = "gate", ~ job[s].failed
          PROVE  Recent(AreaOf[s], FALSE, clock, TTL + ReadTime)'
      BY <2>2, <2>3, <3>1, <3>3 DEF SlotFresh, Recent
    <3>4. ASSUME job[s].pc = "budget", ~ job[s].failed
          PROVE  Recent(AreaOf[s], FALSE, job[s].since, TTL + ReadTime)'
      BY <2>2, <2>3, <3>1, <3>4 DEF SlotFresh, Recent
    <3>5. ASSUME job[s].pc = "budget"
          PROVE  Recent("cap", job[s].cap, job[s].since, TTL + ReadTime)'
      BY <2>2, <2>3, <3>1, <3>5 DEF SlotFresh, Recent
    <3>6. ASSUME job[s].pc = "budget", job[s].fetched
          PROVE  Recent("cap", job[s].cap, job[s].since, 1)'
      BY <2>2, <2>3, <3>1, <3>6 DEF SlotFresh, Recent
    <3> QED
      BY <2>2, <3>2, <3>3, <3>4, <3>5, <3>6 DEF SlotFresh
  <2> QED
    BY <2>4, <2>5 DEF FreshInv, EntryFresh, SlotFresh
<1>4. ASSUME NEW s \in Slots
      PROVE  /\ SlotFresh(s) /\ AreaOf[s] \in Keys /\ "cap" \in Keys /\ job[s].since \in Int
             /\ Fresh(Cached(s, AreaOf[s]), clock) =>
                  Recent(AreaOf[s], Cached(s, AreaOf[s]).value, clock, TTL + ReadTime)
             /\ Fresh(Cached(s, "cap"), clock) =>
                  Recent("cap", Cached(s, "cap").value, clock, TTL + ReadTime)
             /\ job[s].pc \in {"halt", "budget"} => clock - job[s].since <= ReadTime
  BY FreshParts, CachedRecent, SlotKeys, Numbers DEF Cached, TimeInv
<1>5. ASSUME NEW s \in Slots, CheckHalt(s)
      PROVE  FreshInv'
  <2>1. /\ clock' = clock /\ setting' = setting /\ changed' = changed /\ cache' = cache
        /\ Fresh(Cached(s, AreaOf[s]), clock) /\ ~ Cached(s, AreaOf[s]).value
    BY <1>5 DEF CheckHalt
  <2>2. Moves(s) /\ job'[s].pc = "gate"
    BY <1>5, HaltMoves
  <2>3. Cached(s, AreaOf[s]).value = FALSE
    BY <2>1, AreaValues
  <2>4. Recent(AreaOf[s], FALSE, clock, TTL + ReadTime)
    BY <1>4, <2>1, <2>3
  <2>5. SlotFresh(s)'
    BY <2>1, <2>2, <2>4 DEF SlotFresh, Recent
  <2> QED
    BY <2>1, <2>2, <2>5, SlotStep
<1>6. ASSUME NEW s \in Slots, FetchHalt(s)
      PROVE  FreshInv'
  <2>1. clock' = clock /\ setting' = setting /\ changed' = changed /\ cache' = cache
    BY <1>6 DEF FetchHalt
  <2>2. Moves(s) /\ job'[s].pc = "halt" /\ job'[s].halt = setting[AreaOf[s]]
    BY <1>6, HaltMoves
  <2>3. SlotFresh(s)'
    BY <2>1, <2>2 DEF SlotFresh, Recent
  <2> QED
    BY <2>1, <2>2, <2>3, SlotStep
<1>7. ASSUME NEW s \in Slots, ReturnHalt(s)
      PROVE  FreshInv'
  <2>1. /\ clock' = clock /\ setting' = setting /\ changed' = changed
        /\ job[s].pc = "halt" /\ Store(s, AreaOf[s], job[s].halt)
    BY <1>7 DEF ReturnHalt
  <2>2. /\ Moves(s)
        /\ IF job[s].halt THEN job'[s].pc = "idle"
           ELSE job'[s].pc = "gate" /\ job'[s].failed = job[s].failed
    BY <1>7, HaltMoves
  <2>3. Recent(AreaOf[s], job[s].halt, job[s].since, 1)
    BY <1>4, <2>1 DEF SlotFresh
  <2>4. /\ Recent(AreaOf[s], job[s].halt, clock, ReadTime + 1)
        /\ Recent(AreaOf[s], job[s].halt, clock, TTL + ReadTime)
    BY <1>4, <2>1, <2>3, ReturnedRecent
  <2>5. SlotFresh(s)'
    <3>1. ~ job[s].halt => job[s].halt = FALSE
      BY JobFields DEF TypeOK
    <3> QED
      BY <2>1, <2>2, <2>4, <3>1 DEF SlotFresh, Recent
  <2>6. job[s].halt \in Values(AreaOf[s])
    BY JobFields, AreaValues DEF TypeOK
  <2> QED
    BY <1>4, <2>1, <2>2, <2>4, <2>5, <2>6, SlotStep
<1>8. ASSUME NEW s \in Slots, FailHalt(s)
      PROVE  FreshInv'
  <2>1. clock' = clock /\ setting' = setting /\ changed' = changed /\ cache' = cache
    BY <1>8 DEF FailHalt
  <2>2. Moves(s) /\ job'[s].pc = "gate" /\ job'[s].failed
    BY <1>8, HaltMoves
  <2>3. SlotFresh(s)'
    BY <2>2 DEF SlotFresh
  <2> QED
    BY <2>1, <2>2, <2>3, SlotStep
<1>9. ASSUME NEW s \in Slots, FetchBudget(s)
      PROVE  FreshInv'
  <2>1. /\ clock' = clock /\ setting' = setting /\ changed' = changed /\ cache' = cache
        /\ job[s].pc = "gate"
    BY <1>9 DEF FetchBudget
  <2>2. /\ Moves(s) /\ job'[s].pc = "budget" /\ job'[s].failed = job[s].failed
        /\ job'[s].since = clock
        /\ IF Fresh(Cached(s, "cap"), clock)
           THEN ~ job'[s].fetched /\ job'[s].cap = Cached(s, "cap").value
           ELSE job'[s].fetched /\ job'[s].cap = setting["cap"]
    BY <1>9, BudgetMoves
  <2>3. Recent("cap", job'[s].cap, clock, TTL + ReadTime)
    BY <1>4, <2>2 DEF Recent
  <2>4. ~ job[s].failed => Recent(AreaOf[s], FALSE, clock, TTL + ReadTime)
    BY <1>4, <2>1 DEF SlotFresh
  <2>5. SlotFresh(s)'
    BY <2>1, <2>2, <2>3, <2>4 DEF SlotFresh, Recent
  <2> QED
    BY <2>1, <2>2, <2>5, SlotStep
<1>10. ASSUME NEW s \in Slots, ReturnBudget(s)
       PROVE  FreshInv'
  <2>1. /\ clock' = clock /\ setting' = setting /\ changed' = changed /\ job[s].pc = "budget"
        /\ IF job[s].fetched THEN Store(s, "cap", job[s].cap) ELSE cache' = cache
    BY <1>10 DEF ReturnBudget
  <2>2. Moves(s) /\ job'[s].pc \in {"idle", "working"}
    BY <1>10, BudgetMoves
  <2>3. SlotFresh(s)'
    BY <2>2 DEF SlotFresh
  <2>4. job[s].fetched => Recent("cap", job[s].cap, clock, ReadTime + 1)
    BY <1>4, <2>1, ReturnedRecent DEF SlotFresh
  <2>5. job[s].cap \in Values("cap")
    BY JobFields, AreaValues DEF TypeOK
  <2> QED
    BY <1>4, <2>1, <2>2, <2>3, <2>4, <2>5, SlotStep
<1>11. ASSUME NEW s \in Slots,
              FailBudget(s) \/ Work(s) \/ RecordUsage(s) \/ RecordFails(s)
       PROVE  FreshInv'
  <2>1. clock' = clock /\ setting' = setting /\ changed' = changed /\ cache' = cache
    BY <1>11 DEF FailBudget, Work, RecordUsage, RecordFails
  <2>2. Moves(s) /\ job'[s].pc \in {"idle", "working", "paid"}
    BY <1>11, BudgetMoves
  <2>3. SlotFresh(s)'
    BY <2>2 DEF SlotFresh
  <2> QED
    BY <2>1, <2>2, <2>3, SlotStep
<1>12. ASSUME NEW p \in Processes, Crash(p)
       PROVE  FreshInv'
  <2>1. clock' = clock /\ setting' = setting /\ changed' = changed
    BY <1>12 DEF Crash
  <2>2. ASSUME NEW s \in Slots
        PROVE  SlotFresh(s)'
    <3>1. job'[s] = job[s] \/ job'[s].pc = "idle"
      BY <1>12, IdleJob DEF Crash
    <3> QED
      BY <1>4, <2>1, <3>1 DEF SlotFresh, Recent
  <2>3. ASSUME NEW q \in Processes, NEW k \in Keys
        PROVE  EntryFresh(q, k)'
    <3>1. cache'[q][k] = cache[q][k] \/ cache'[q][k].at = -1
      BY <1>1, <1>12, Forgotten
    <3> QED
      BY <2>1, <3>1, FreshParts DEF EntryFresh, Recent
  <2> QED
    BY <2>2, <2>3 DEF FreshInv, EntryFresh, SlotFresh
<1>13. CASE UNCHANGED vars
  BY <1>13 DEF vars, FreshInv, Recent
<1> QED
  BY <1>2, <1>3, <1>5, <1>6, <1>7, <1>8, <1>9, <1>10, <1>11, <1>12, <1>13 DEF Next

-----------------------------------------------------------------------------
(* What is spent.                                                           *)

\* Two sets of slots that have nothing in common.
LEMMA Counts ==
  ASSUME NEW S \in SUBSET Slots, NEW T \in SUBSET Slots, S \cap T = {}
  PROVE  /\ IsFiniteSet(S) /\ IsFiniteSet(T)
         /\ Cardinality(Slots) \in Nat /\ Cardinality(Slots) > 0
         /\ Cardinality(S) \in Nat /\ Cardinality(T) \in Nat
         /\ Cardinality(S) + Cardinality(T) <= Cardinality(Slots)
         /\ Cardinality(T) > 0 => T # {}
<1>1. IsFiniteSet(Slots) /\ Slots # {}
  BY CostAssumption
<1>2. Cardinality(Slots) \in Nat /\ Cardinality(Slots) > 0
  BY <1>1, FS_EmptySet, FS_CardinalityType
<1>3. IsFiniteSet(S) /\ IsFiniteSet(T)
  BY <1>1, FS_Subset
<1>4. Cardinality(S) \in Nat /\ Cardinality(T) \in Nat
  BY <1>3, FS_CardinalityType
<1>5. Cardinality(S \cup T) = Cardinality(S) + Cardinality(T)
  <2>1. Cardinality(S \cap T) = 0
    BY FS_EmptySet
  <2>2. Cardinality(S \cup T) = Cardinality(S) + Cardinality(T) - Cardinality(S \cap T)
    BY <1>3, FS_Union
  <2> QED
    BY <1>4, <2>1, <2>2
<1>6. Cardinality(S \cup T) <= Cardinality(Slots)
  BY <1>1, FS_Subset
<1>7. Cardinality(T) > 0 => T # {}
  BY FS_EmptySet
<1> QED
  BY <1>2, <1>3, <1>4, <1>5, <1>6, <1>7

LEMMA Apart ==
  /\ Paid \in SUBSET Slots /\ Admitted \in SUBSET Slots /\ Paid \cap Admitted = {}
  /\ Paid' \in SUBSET Slots /\ Admitted' \in SUBSET Slots /\ Paid' \cap Admitted' = {}
BY DEF Paid, Admitted

\* A set that slot s may enter or leave, and nothing else.
LEMMA Changes ==
  ASSUME NEW s \in Slots, NEW S, NEW T, IsFiniteSet(S), IsFiniteSet(T), S \ {s} = T \ {s}
  PROVE  /\ s \in S /\ s \notin T => Cardinality(S) = Cardinality(T) + 1
         /\ s \notin S /\ s \in T => Cardinality(T) = Cardinality(S) + 1
         /\ (s \in S) <=> (s \in T) => S = T
<1>1. ASSUME s \in S, s \notin T
      PROVE  Cardinality(S) = Cardinality(T) + 1
  <2>1. S = T \cup {s}
    BY <1>1
  <2> QED
    BY <1>1, <2>1, FS_AddElement
<1>2. ASSUME s \notin S, s \in T
      PROVE  Cardinality(T) = Cardinality(S) + 1
  <2>1. T = S \cup {s}
    BY <1>2
  <2> QED
    BY <1>2, <2>1, FS_AddElement
<1>3. ASSUME (s \in S) <=> (s \in T)
      PROVE  S = T
  BY <1>3
<1> QED
  BY <1>1, <1>2, <1>3

LEMMA OneMoves ==
  ASSUME TypeOK, NEW s \in Slots, Moves(s)
  PROVE  /\ Paid' \ {s} = Paid \ {s} /\ Admitted' \ {s} = Admitted \ {s}
         /\ s \in Paid <=> job[s].pc = "paid"
         /\ s \in Admitted <=> \/ job[s].pc = "working"
                               \/ job[s].pc = "budget" /\ job[s].spent < WorkspaceCap
         /\ (s \in Paid') <=> job'[s].pc = "paid"
         /\ (s \in Admitted') <=> \/ job'[s].pc = "working"
                                  \/ job'[s].pc = "budget" /\ job'[s].spent < WorkspaceCap
BY DEF Moves, Paid, Admitted

\* The numbers that are compared.
LEMMA Amounts ==
  ASSUME TypeOK
  PROVE  /\ Today \in Days /\ Cost \in Nat /\ Cost > 0 /\ WorkspaceCap \in Nat /\ unchecked \in Nat
         /\ \A d \in Days : cost[d] \in Nat /\ counter[d] \in Nat /\ d \in Nat
BY CostAssumption, Calendar, Quotients DEF TypeOK, Today, Days

\* The day's balance, in numbers: P paid, A admitted, N slots, u unchecked.
Covered(c, k, P, u) == c <= k + Cost * (P + u)
Bounded(c, A, N, u) == c + Cost * A < WorkspaceCap + Cost * (N + u)

\* Admitted after it has read the counter.
LEMMA Admits ==
  ASSUME NEW c \in Nat, NEW k \in Nat, NEW P \in Nat, NEW A \in Nat, NEW N \in Nat, NEW u \in Nat,
         Covered(c, k, P, u), k < WorkspaceCap, P + A <= N
  PROVE  Bounded(c, A, N, u)
<1>1. Cost \in Nat /\ WorkspaceCap \in Nat
  BY CostAssumption
<1>2. Cost * (P + A + u) <= Cost * (N + u)
  BY Times
<1>3. Cost * (P + A + u) = Cost * (P + u) + Cost * A
  BY <1>1
<1>4. Cost * (P + u) \in Nat /\ Cost * A \in Nat /\ Cost * (N + u) \in Nat
  BY Times
<1> QED
  BY <1>1, <1>2, <1>3, <1>4 DEF Covered, Bounded

\* Let through by a failure; working and paid for; refused or dead.
LEMMA BoundedMoves ==
  ASSUME NEW c \in Nat, NEW A \in Nat, NEW N \in Nat, NEW u \in Nat
  PROVE  /\ Bounded(c, A, N, u) => Bounded(c, A + 1, N, u + 1) /\ Bounded(c, A, N, u + 1)
         /\ Bounded(c, A + 1, N, u) => Bounded(c + Cost, A, N, u) /\ Bounded(c, A, N, u)
<1>1. Cost \in Nat /\ WorkspaceCap \in Nat
  BY CostAssumption
<1>2. /\ Cost * (N + u) \in Nat /\ Cost * A \in Nat
      /\ Cost * (A + 1) = Cost * A + Cost
      /\ Cost * (N + (u + 1)) = Cost * (N + u) + Cost
  BY <1>1, Times
<1> QED
  BY <1>1, <1>2 DEF Bounded

\* A usage that is not recorded, one that is still to be, and one that is.
LEMMA CoveredMoves ==
  ASSUME NEW c \in Nat, NEW k \in Nat, NEW P \in Nat, NEW u \in Nat
  PROVE  /\ Covered(c, k, P, u) => Covered(c, k, P, u + 1) /\ Covered(c + Cost, k, P + 1, u)
         /\ Covered(c, k, P + 1, u) => Covered(c, k + Cost, P, u) /\ Covered(c, k, P, u + 1)
<1>1. Cost \in Nat
  BY CostAssumption
<1>2. /\ Cost * (P + u) \in Nat
      /\ Cost * (P + (u + 1)) = Cost * (P + u) + Cost
      /\ Cost * ((P + 1) + u) = Cost * (P + u) + Cost
  BY <1>1, Times
<1> QED
  BY <1>1, <1>2 DEF Covered

\* SpendInv in these terms.
LEMMA SpendParts ==
  SpendInv <=>
    /\ \A d \in Days : d > Today => cost[d] = 0
    /\ Covered(cost[Today], counter[Today], Cardinality(Paid), unchecked)
    /\ Bounded(cost[Today], Cardinality(Admitted), Cardinality(Slots), unchecked)
    /\ Admitted # {} => WorkspaceCap + unchecked > 0
    /\ OverspendBounded
BY DEF SpendInv, Covered, Bounded

\* What bounds the cost goes on to bound it.
LEMMA StillBounded ==
  ASSUME TypeOK, NEW u \in Nat, u >= unchecked, OverspendBounded
  PROVE  \A d \in Days : cost[d] < WorkspaceCap + Cost * (Cardinality(Slots) + u)
<1>1. Cardinality(Slots) \in Nat /\ unchecked \in Nat /\ WorkspaceCap \in Nat
  BY Counts, Apart, Amounts
<1>2. Cost * (Cardinality(Slots) + unchecked) <= Cost * (Cardinality(Slots) + u)
  BY <1>1, Times
<1>3. /\ Cost * (Cardinality(Slots) + unchecked) \in Nat
      /\ Cost * (Cardinality(Slots) + u) \in Nat
  BY <1>1, Times
<1> QED
  BY <1>1, <1>2, <1>3, Amounts DEF OverspendBounded

\* A step within a day of one job that neither spends nor records.
LEMMA SameBalance ==
  ASSUME TypeOK, TypeOK', SpendInv, clock' = clock, cost' = cost, counter' = counter,
         unchecked' = unchecked \/ unchecked' = unchecked + 1,
         NEW s \in Slots, Moves(s), job[s].pc # "paid", job'[s].pc # "paid",
         s \in Admitted' => \/ s \in Admitted
                            \/ counter[Today] < WorkspaceCap
                            \/ unchecked' = unchecked + 1
  PROVE  SpendInv'
<1> DEFINE P == Cardinality(Paid)
           A == Cardinality(Admitted)
           B == Cardinality(Admitted')
           N == Cardinality(Slots)
           c == cost[Today]
           k == counter[Today]
           u == unchecked
           v == unchecked'
<1>1. Today' = Today /\ Today \in Days
  BY Amounts DEF Today
<1>2. /\ P \in Nat /\ A \in Nat /\ B \in Nat /\ N \in Nat /\ u \in Nat /\ v \in Nat
      /\ c \in Nat /\ k \in Nat /\ WorkspaceCap \in Nat
  BY <1>1, Counts, Apart, Amounts
<1>3. Paid' = Paid
  BY OneMoves DEF Paid
<1>4. IsFiniteSet(Admitted) /\ IsFiniteSet(Admitted') /\ P + B <= N
  BY <1>3, Counts, Apart
<1>5. Covered(c, k, P, u) /\ Bounded(c, A, N, u) /\ (Admitted # {} => WorkspaceCap + u > 0)
  BY SpendParts
<1>6. v = u \/ v = u + 1
  OBVIOUS
<1>7. \/ Admitted' = Admitted /\ A = B
      \/ s \notin Admitted' /\ s \in Admitted /\ A = B + 1
      \/ s \in Admitted' /\ s \notin Admitted /\ B = A + 1
  BY <1>4, Changes, OneMoves
<1>8. s \in Admitted' => s \in Admitted \/ k < WorkspaceCap \/ v = u + 1
  OBVIOUS
<1> HIDE DEF P, A, B, N, c, k, u, v
<1>9. Covered(c, k, P, v)
  BY <1>2, <1>5, <1>6, CoveredMoves
<1>10. Bounded(c, B, N, v)
  <2>1. CASE A = B
    BY <1>2, <1>5, <1>6, <2>1, BoundedMoves
  <2>2. CASE A = B + 1
    <3>1. Bounded(c, B, N, u)
      BY <1>2, <1>5, <2>2, BoundedMoves
    <3> QED
      BY <1>2, <1>6, <3>1, BoundedMoves
  <2>3. CASE s \in Admitted' /\ s \notin Admitted /\ B = A + 1
    <3>1. CASE v = u + 1
      BY <1>2, <1>5, <2>3, <3>1, BoundedMoves
    <3>2. CASE k < WorkspaceCap
      BY <1>2, <1>4, <1>9, <3>2, Admits
    <3> QED
      BY <1>8, <2>3, <3>1, <3>2
  <2> QED
    BY <1>7, <2>1, <2>2, <2>3
<1>11. Admitted' # {} => WorkspaceCap + v > 0
  <2>1. CASE Admitted = {}
    <3>1. Admitted' # {} => k < WorkspaceCap \/ v = u + 1
      BY <1>7, <1>8, <2>1
    <3> QED
      BY <1>2, <3>1
  <2>2. CASE Admitted # {}
    BY <1>2, <1>5, <1>6, <2>2
  <2> QED
    BY <2>1, <2>2
<1>12. OverspendBounded'
  <2>1. \A d \in Days : cost[d] < WorkspaceCap + Cost * (Cardinality(Slots) + v)
    BY <1>2, <1>6, StillBounded, SpendParts DEF u
  <2> QED
    BY <2>1 DEF OverspendBounded, v
<1>13. \A d \in Days : d > Today => cost[d] = 0
  BY SpendParts
<1> QED
  BY <1>1, <1>3, <1>9, <1>10, <1>11, <1>12, <1>13
     DEF SpendInv, Covered, Bounded, P, B, N, c, k, v

LEMMA SpendStep ==
  ASSUME TypeOK, TypeOK', SpendInv, [Next]_vars
  PROVE  SpendInv'
<1> DEFINE P == Cardinality(Paid)
           A == Cardinality(Admitted)
           N == Cardinality(Slots)
           c == cost[Today]
           k == counter[Today]
           u == unchecked
<1>1. /\ Today \in Days /\ Today \in Nat
      /\ P \in Nat /\ A \in Nat /\ N \in Nat /\ N > 0 /\ u \in Nat /\ c \in Nat /\ k \in Nat
      /\ WorkspaceCap \in Nat /\ Cost \in Nat /\ Cost > 0 /\ P + A <= N
      /\ Cardinality(Paid') \in Nat /\ Cardinality(Admitted') \in Nat
  BY Counts, Apart, Amounts, Calendar DEF Today, TypeOK
<1>2. /\ IsFiniteSet(Paid) /\ IsFiniteSet(Admitted)
      /\ IsFiniteSet(Paid') /\ IsFiniteSet(Admitted')
  BY Counts, Apart
<1>3. /\ \A d \in Days : d > Today => cost[d] = 0
      /\ Covered(c, k, P, u) /\ Bounded(c, A, N, u)
      /\ Admitted # {} => WorkspaceCap + u > 0
      /\ OverspendBounded
  BY SpendParts
<1>4. CASE Tick
  <2>1. /\ clock' = clock + 1 /\ cost' = cost /\ counter' = counter /\ unchecked' = unchecked
        /\ job' = job /\ clock \in Nat
    BY <1>4 DEF Tick, TypeOK
  <2>2. Paid' = Paid /\ Admitted' = Admitted
    BY <2>1 DEF Paid, Admitted
  <2>3. Today' \in Days /\ Today' \in Nat /\ Today <= Today'
    BY <2>1, Quotients, Calendar DEF Today, TypeOK
  <2>4. \A d \in Days : d > Today' => cost'[d] = 0
    BY <1>1, <1>3, <2>1, <2>3, Amounts
  <2>5. OverspendBounded'
    BY <1>3, <2>1 DEF OverspendBounded
  <2>6. CASE Today' = Today
    BY <1>3, <2>1, <2>2, <2>4, <2>5, <2>6 DEF SpendInv, Covered, Bounded
  <2>7. CASE Today' > Today
    <3>1. cost'[Today'] = 0 /\ counter'[Today'] \in Nat
      BY <1>3, <2>1, <2>3, <2>7, Amounts
    <3>2. Cost * (P + u) \in Nat /\ Cost * A \in Nat /\ Cost * N \in Nat /\ Cost * (N + u) \in Nat
      BY <1>1, Times
    <3>3. Cost * A <= Cost * N /\ Cost * N <= Cost * (N + u)
      BY <1>1, Times
    <3>4. Cost * A < WorkspaceCap + Cost * (N + u)
      <4>1. CASE WorkspaceCap > 0
        BY <1>1, <3>2, <3>3, <4>1
      <4>2. CASE u > 0
        <5>1. Cost * (N + 1) <= Cost * (N + u) /\ Cost * (N + 1) = Cost * N + Cost
          BY <1>1, <4>2, Times
        <5> QED
          BY <1>1, <3>2, <3>3, <5>1
      <4>3. CASE WorkspaceCap = 0 /\ u = 0
        <5>1. A = 0
          BY <1>1, <1>3, <4>3, Counts, Apart
        <5>2. Cost * (0 + 1) <= Cost * (N + u) /\ Cost * (0 + 1) = Cost
          BY <1>1, Times
        <5> QED
          BY <1>1, <3>2, <5>1, <5>2
      <4> QED
        BY <1>1, <4>1, <4>2, <4>3
    <3> QED
      BY <1>1, <1>3, <2>1, <2>2, <2>4, <2>5, <3>1, <3>2, <3>4 DEF SpendInv
  <2> QED
    BY <1>1, <2>3, <2>6, <2>7
<1>5. CASE \/ \E area \in Areas, halted \in BOOLEAN : SetHalted(area, halted)
           \/ \E cap \in GlobalCaps \cup {NoCap} : SetGlobalDailyCap(cap)
           \/ UNCHANGED vars
  <2>1. clock' = clock /\ cost' = cost /\ counter' = counter /\ unchecked' = unchecked /\ job' = job
    BY <1>5 DEF SetHalted, SetGlobalDailyCap, WriteSetting, vars
  <2> QED
    BY <2>1 DEF SpendInv, Today, Paid, Admitted, OverspendBounded
<1>6. ASSUME NEW s \in Slots,
             CheckHalt(s) \/ FetchHalt(s) \/ ReturnHalt(s) \/ FailHalt(s)
      PROVE  SpendInv'
  <2>1. /\ clock' = clock /\ cost' = cost /\ counter' = counter /\ unchecked' = unchecked
        /\ job[s].pc # "paid"
    BY <1>6 DEF CheckHalt, FetchHalt, ReturnHalt, FailHalt
  <2>2. Moves(s) /\ job'[s].pc \in {"idle", "halt", "gate"}
    BY <1>6, HaltMoves
  <2>3. s \notin Admitted'
    BY <2>2 DEF Admitted
  <2> QED
    BY <2>1, <2>2, <2>3, SameBalance
<1>7. ASSUME NEW s \in Slots, FetchBudget(s)
      PROVE  SpendInv'
  <2>1. /\ clock' = clock /\ cost' = cost /\ counter' = counter /\ unchecked' = unchecked
        /\ job[s].pc = "gate"
    BY <1>7 DEF FetchBudget
  <2>2. Moves(s) /\ job'[s].pc = "budget" /\ job'[s].spent = k
    BY <1>7, BudgetMoves
  <2>3. s \in Admitted' => k < WorkspaceCap
    BY <2>2, OneMoves
  <2> QED
    BY <2>1, <2>2, <2>3, SameBalance
<1>8. ASSUME NEW s \in Slots, ReturnBudget(s)
      PROVE  SpendInv'
  <2>1. /\ clock' = clock /\ cost' = cost /\ counter' = counter /\ unchecked' = unchecked
        /\ job[s].pc = "budget"
    BY <1>8 DEF ReturnBudget
  <2>2. /\ Moves(s)
        /\ \/ job'[s].pc = "idle"
           \/ job'[s].pc = "working" /\ ~ (job[s].spent >= Stricter(job[s].cap))
    BY <1>8, BudgetMoves
  <2>3. job[s].spent \in Nat /\ job[s].cap \in Int
    BY JobFields, CostAssumption DEF TypeOK, Caps, NoCap
  <2>4. Stricter(job[s].cap) \in Int /\ Stricter(job[s].cap) <= WorkspaceCap
    BY <1>1, <2>3 DEF Stricter
  <2>5. s \in Admitted' => s \in Admitted
    BY <1>1, <2>1, <2>2, <2>3, <2>4, OneMoves
  <2> QED
    BY <2>1, <2>2, <2>5, SameBalance
<1>9. ASSUME NEW s \in Slots, FailBudget(s)
      PROVE  SpendInv'
  <2>1. /\ clock' = clock /\ cost' = cost /\ counter' = counter /\ unchecked' = unchecked + 1
        /\ job[s].pc = "budget"
    BY <1>9 DEF FailBudget
  <2>2. Moves(s) /\ job'[s].pc = "working"
    BY <1>9, BudgetMoves
  <2> QED
    BY <2>1, <2>2, SameBalance
<1>10. ASSUME NEW s \in Slots, Work(s)
       PROVE  SpendInv'
  <2>1. /\ clock' = clock /\ counter' = counter /\ unchecked' = unchecked /\ job[s].pc = "working"
        /\ cost' = [cost EXCEPT ![Today] = c + Cost]
    BY <1>10 DEF Work
  <2>2. Moves(s) /\ job'[s].pc = "paid"
    BY <1>10, BudgetMoves
  <2>3. /\ Cardinality(Paid') = P + 1 /\ Admitted' \subseteq Admitted
        /\ A = Cardinality(Admitted') + 1
    BY <1>2, <2>1, <2>2, OneMoves, Changes
  <2>4. Today' = Today /\ cost'[Today] = c + Cost /\ \A d \in Days \ {Today} : cost'[d] = cost[d]
    BY <1>1, <2>1 DEF Today, TypeOK
  <2>5. Covered(c + Cost, k, Cardinality(Paid'), u)
    BY <1>1, <1>3, <2>3, CoveredMoves
  <2>6. Bounded(c + Cost, Cardinality(Admitted'), N, u)
    BY <1>1, <1>3, <2>3, BoundedMoves
  <2>7. OverspendBounded'
    <3>1. Cost * Cardinality(Admitted') \in Nat /\ Cost * (N + u) \in Nat
      BY <1>1, Times
    <3>2. c + Cost < WorkspaceCap + Cost * (N + u)
      BY <1>1, <2>6, <3>1 DEF Bounded
    <3> QED
      BY <1>3, <2>1, <2>4, <3>2 DEF OverspendBounded
  <2>8. \A d \in Days : d > Today => cost'[d] = 0
    BY <1>1, <1>3, <2>4
  <2> QED
    BY <1>3, <2>1, <2>3, <2>4, <2>5, <2>6, <2>7, <2>8 DEF SpendInv, Covered, Bounded
<1>11. ASSUME NEW s \in Slots, RecordUsage(s)
       PROVE  SpendInv'
  <2>1. /\ clock' = clock /\ cost' = cost /\ unchecked' = unchecked /\ job[s].pc = "paid"
        /\ counter' = [counter EXCEPT ![Today] = k + Cost]
    BY <1>11 DEF RecordUsage
  <2>2. Moves(s) /\ job'[s].pc = "idle"
    BY <1>11, BudgetMoves
  <2>3. P = Cardinality(Paid') + 1 /\ Admitted' = Admitted
    BY <1>2, <2>1, <2>2, OneMoves, Changes
  <2>4. Today' = Today /\ counter'[Today] = k + Cost
    BY <1>1, <2>1 DEF Today, TypeOK
  <2>5. Covered(c, k + Cost, Cardinality(Paid'), u)
    BY <1>1, <1>3, <2>3, CoveredMoves
  <2> QED
    BY <1>3, <2>1, <2>3, <2>4, <2>5 DEF SpendInv, Covered, Bounded, OverspendBounded
<1>12. ASSUME NEW s \in Slots, RecordFails(s)
       PROVE  SpendInv'
  <2>1. /\ clock' = clock /\ cost' = cost /\ counter' = counter /\ unchecked' = u + 1
        /\ job[s].pc = "paid"
    BY <1>12 DEF RecordFails
  <2>2. Moves(s) /\ job'[s].pc = "idle"
    BY <1>12, BudgetMoves
  <2>3. P = Cardinality(Paid') + 1 /\ Admitted' = Admitted
    BY <1>2, <2>1, <2>2, OneMoves, Changes
  <2>4. Today' = Today
    BY <2>1 DEF Today
  <2>5. Covered(c, k, Cardinality(Paid'), u + 1) /\ Bounded(c, A, N, u + 1)
    BY <1>1, <1>3, <2>3, CoveredMoves, BoundedMoves
  <2>6. \A d \in Days : cost[d] < WorkspaceCap + Cost * (N + (u + 1))
    BY <1>1, <1>3, StillBounded
  <2> QED
    BY <1>1, <1>3, <2>1, <2>3, <2>4, <2>5, <2>6 DEF SpendInv, Covered, Bounded, OverspendBounded
<1>13. ASSUME NEW p \in Processes, Crash(p)
       PROVE  SpendInv'
  <2> DEFINE gone == {s \in Slots : ProcessOf[s] = p /\ job[s].pc = "paid"}
             g == Cardinality(gone)
  <2>1. /\ clock' = clock /\ cost' = cost /\ counter' = counter /\ unchecked' = u + g
        /\ \A s \in Slots : job'[s] = IF ProcessOf[s] = p THEN Idle ELSE job[s]
    BY <1>13 DEF Crash
  <2>2. gone \in SUBSET Slots /\ Paid' = Paid \ gone /\ Admitted' \subseteq Admitted
    BY <2>1, IdleJob DEF Paid, Admitted
  <2>3. g \in Nat /\ P = Cardinality(Paid') + g
    <3>1. Paid = Paid' \cup gone /\ Paid' \cap gone = {}
      BY <2>2 DEF Paid
    <3>2. IsFiniteSet(gone) /\ g \in Nat
      BY <2>2, <3>1, Counts, Apart
    <3>3. Cardinality(Paid' \cup gone) = Cardinality(Paid') + g - Cardinality(Paid' \cap gone)
      BY <1>2, <3>2, FS_Union
    <3>4. Cardinality(Paid' \cap gone) = 0
      BY <3>1, FS_EmptySet
    <3> HIDE DEF gone
    <3> QED
      BY <1>1, <3>1, <3>2, <3>3, <3>4
  <2>4. Cardinality(Admitted') <= A
    BY <1>2, <2>2, FS_Subset
  <2> HIDE DEF gone, g
  <2>5. Today' = Today
    BY <2>1 DEF Today
  <2>6. c <= k + Cost * (Cardinality(Paid') + (u + g))
    <3>1. Cardinality(Paid') + (u + g) = P + u
      BY <1>1, <2>3
    <3> QED
      BY <1>3, <3>1 DEF Covered
  <2>7. c + Cost * Cardinality(Admitted') < WorkspaceCap + Cost * (N + (u + g))
    <3>1. Cost * Cardinality(Admitted') <= Cost * A /\ Cost * (N + u) <= Cost * (N + (u + g))
      BY <1>1, <2>3, <2>4, Times
    <3>2. /\ Cost * Cardinality(Admitted') \in Nat /\ Cost * A \in Nat
          /\ Cost * (N + u) \in Nat /\ Cost * (N + (u + g)) \in Nat
      BY <1>1, <2>3, Times
    <3> QED
      BY <1>1, <1>3, <3>1, <3>2 DEF Bounded
  <2>8. \A d \in Days : cost[d] < WorkspaceCap + Cost * (N + (u + g))
    BY <1>1, <1>3, <2>3, StillBounded
  <2> QED
    BY <1>1, <1>3, <2>1, <2>2, <2>3, <2>5, <2>6, <2>7, <2>8 DEF SpendInv, OverspendBounded
<1> QED
  BY <1>4, <1>5, <1>6, <1>7, <1>8, <1>9, <1>10, <1>11, <1>12, <1>13 DEF Next

-----------------------------------------------------------------------------

LEMMA Initially == Init => TypeOK /\ IInv
<1> SUFFICES ASSUME Init
             PROVE  TypeOK /\ IInv
  OBVIOUS
<1>1. clock = 0 /\ 0 \in 0..MaxTime /\ MaxTime \in Nat /\ Today = 0 /\ 0 \in Days
  <2>1. clock = 0 /\ 0 \in 0..MaxTime /\ MaxTime \in Nat
    BY CostAssumption DEF Init
  <2>2. 0 \div DayLength = 0
    BY CostAssumption
  <2> QED
    BY <2>1, <2>2, Calendar DEF Today
<1>2. \A key \in Keys : setting[key] \in Values(key) /\ changed[key] = -1
  BY DEF Init, Values, Caps, NoCap
<1> DEFINE Unread(key) == [value |-> setting[key], at |-> -1]
<1>3. \A key \in Keys : Unread(key).at = -1 /\ Unread(key) \in Entry(key)
  BY <1>1, <1>2 DEF Entry
<1>4. \A p \in Processes, key \in Keys : cache[p][key] = Unread(key)
  BY DEF Init
<1> HIDE DEF Unread
<1>5. TypeOK
  <2>1. -1 \in -1..MaxTime
    BY <1>1
  <2>2. job \in [Slots -> Job]
    BY IdleJob DEF Init
  <2>3. setting = [key \in Keys |-> setting[key]] /\ changed \in [Keys -> -1..MaxTime]
    BY <2>1 DEF Init
  <2>4. cache = [p \in Processes |-> [key \in Keys |-> cache[p][key]]]
    BY DEF Init
  <2>5. \A p \in Processes, key \in Keys :
          cache[p][key] \in [value : Values(key), at : -1..MaxTime]
    BY <1>3, <1>4 DEF Entry
  <2>6. /\ counter \in [Days -> Nat] /\ cost \in [Days -> Nat] /\ unchecked \in Nat
        /\ left \in [writes : 0..MaxWrites, faults : 0..MaxFaults]
    BY CostAssumption DEF Init
  <2> QED
    BY <1>1, <1>2, <2>2, <2>3, <2>4, <2>5, <2>6 DEF TypeOK
<1>6. TimeInv
  <2>1. \A s \in Slots : job[s].pc = "idle"
    BY IdleJob DEF Init
  <2> QED
    BY <1>1, <1>2, <1>3, <1>4, <2>1 DEF TimeInv
<1>7. FreshInv
  <2>1. \A s \in Slots : job[s].pc = "idle"
    BY IdleJob DEF Init
  <2>2. \A p \in Processes, key \in Keys : ~ (cache[p][key].at >= 0)
    <3>1. \A p \in Processes, key \in Keys : cache[p][key].at = -1
      BY <1>3, <1>4
    <3>2. ~ (-1 >= 0)
      OBVIOUS
    <3> QED
      BY <3>1, <3>2
  <2> QED
    BY <2>1, <2>2 DEF FreshInv
<1>8. SpendInv
  <2>1. Paid = {} /\ Admitted = {}
    BY IdleJob DEF Init, Paid, Admitted
  <2>2. Cardinality(Paid) = 0 /\ Cardinality(Admitted) = 0
    BY <2>1, FS_EmptySet
  <2>3. /\ Cardinality(Slots) \in Nat /\ Cardinality(Slots) > 0
        /\ Cost \in Nat /\ Cost > 0 /\ WorkspaceCap \in Nat
    BY <2>2, Counts, Apart, CostAssumption
  <2>4. Cost * (0 + 1) <= Cost * (Cardinality(Slots) + 0) /\ Cost * (0 + 1) = Cost
    BY <2>3, Times
  <2>5. Cost * 0 = 0 /\ Cost * (0 + 0) = 0
    BY <2>3
  <2>6. unchecked = 0 /\ \A d \in Days : cost[d] = 0 /\ counter[d] = 0
    BY DEF Init
  <2> QED
    BY <1>1, <2>1, <2>2, <2>3, <2>4, <2>5, <2>6 DEF SpendInv, OverspendBounded
<1> QED
  BY <1>5, <1>6, <1>7, <1>8 DEF IInv

\* Types: a slot's job is at one of its steps, and a process has cached a value of the
\* setting, or none (killSwitch.ts, costControl.ts).
THEOREM TypeCorrect == Spec => []TypeOK
<1>1. Init => TypeOK
  BY Initially
<1> QED
  BY <1>1, TypeStep, PTL DEF Spec

\* Queries and cached values are as old as they may be and no older, gates act on what
\* was recently the setting, and today's cost is in today's counter but for the jobs
\* that are still to record it.
THEOREM Invariance == Spec => []IInv
<1>1. Init => TypeOK /\ IInv
  BY Initially
<1>2. TypeOK /\ IInv /\ [Next]_vars => TypeOK' /\ IInv'
  BY TypeStep, TimeStep, FreshStep, SpendStep DEF IInv
<1> QED
  BY <1>1, <1>2, PTL DEF Spec

\* A day's cost exceeds the workspace's cap by no more than one job of every slot, and
\* one for every gate that failed open and every usage that was not recorded, whatever
\* the reads of getBudgetStatus and the increments of recordUsage interleave with.
THEOREM SpendIsBounded == Spec => []OverspendBounded
<1>1. IInv => OverspendBounded
  BY DEF IInv, SpendInv
<1> QED
  BY <1>1, Invariance, PTL

\* Where no query failed, work that starts has read the kill switch and the cap as they
\* are, unless they were written less than TTL and two queries ago: an action
\* property, of the steps in which getBudgetStatus lets a job through.
THEOREM GatesActOnSettings == Spec => GatesFresh
<1> DEFINE Gated ==
      \A s \in Slots :
        job[s].pc = "budget" /\ job'[s].pc = "working" /\ ~ job'[s].failed =>
          /\ clock - changed[AreaOf[s]] >= TTL + 2 * ReadTime => ~ setting[AreaOf[s]]
          /\ clock - changed["cap"] >= TTL + 2 * ReadTime => job[s].cap = setting["cap"]
<1>1. TypeOK /\ IInv /\ [Next]_vars => Gated
  <2> SUFFICES ASSUME TypeOK, IInv, [Next]_vars, NEW s \in Slots,
                      job[s].pc = "budget", job'[s].pc = "working", ~ job'[s].failed
               PROVE  /\ clock - changed[AreaOf[s]] >= TTL + 2 * ReadTime => ~ setting[AreaOf[s]]
                      /\ clock - changed["cap"] >= TTL + 2 * ReadTime => job[s].cap = setting["cap"]
    OBVIOUS
  <2>1. ~ job[s].failed
    <3>1. ASSUME NEW t \in Slots, t # s, Moves(t)
          PROVE  FALSE
      BY <3>1 DEF Moves
    <3>2. ASSUME NEW t \in Slots,
                 CheckHalt(t) \/ FetchHalt(t) \/ ReturnHalt(t) \/ FailHalt(t)
          PROVE  FALSE
      <4>1. Moves(t) /\ (t = s => job'[s].pc # "working")
        BY <3>2, HaltMoves
      <4> QED
        BY <3>1, <4>1
    <3>3. ASSUME NEW t \in Slots,
                 \/ FetchBudget(t) \/ ReturnBudget(t) \/ FailBudget(t)
                 \/ Work(t) \/ RecordUsage(t) \/ RecordFails(t)
          PROVE  ~ job[s].failed
      <4>1. Moves(t) /\ (t = s => job'[s].pc # "working" \/ job'[s].failed
                                    \/ job'[s].failed = job[s].failed)
        BY <3>3, BudgetMoves
      <4> QED
        BY <3>1, <4>1
    <3>4. job' = job => FALSE
      OBVIOUS
    <3>5. ASSUME NEW p \in Processes, Crash(p)
          PROVE  FALSE
      BY <3>5, IdleJob DEF Crash
    <3> QED
      BY <3>2, <3>3, <3>4, <3>5
         DEF Next, Tick, SetHalted, SetGlobalDailyCap, WriteSetting, vars
  <2>2. /\ Recent(AreaOf[s], FALSE, job[s].since, TTL + ReadTime)
        /\ Recent("cap", job[s].cap, job[s].since, TTL + ReadTime)
        /\ clock - job[s].since <= ReadTime
    BY <2>1 DEF IInv, FreshInv, TimeInv
  <2>3. AreaOf[s] \in Keys /\ "cap" \in Keys
    BY SlotKeys
  <2> QED
    BY <2>2, <2>3, Numbers DEF Recent
<1> QED
  BY <1>1, TypeCorrect, Invariance, PTL DEF Spec, GatesFresh

===============================================================================
