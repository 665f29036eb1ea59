---------------------------- MODULE CostControl ----------------------------
(***************************************************************************)
(* The kill switches and the daily cost cap: what an administrator writes  *)
(* to SystemSetting, what each worker process caches of it, and the gates  *)
(* that a render or a publish passes before it spends, until its usage is  *)
(* recorded.  Time is counted in ticks: a cached value lives for TTL of    *)
(* them, a query takes at most ReadTime, and a day has DayLength.          *)
(*                                                                         *)
(* Not modelled: AI calls, which are recorded for the shared pool and pass *)
(* no gate, and the cache of the web server, which no gate reads.          *)
(***************************************************************************)
EXTENDS Integers, FiniteSets

CONSTANTS Processes,    \* worker processes, each with a cache of its own
          Slots,        \* how many jobs run at once: the concurrency of the workers
          ProcessOf,    \* the process of a slot
          AreaOf,       \* what the worker of a slot does: "rendering" or "publishing"
          WorkspaceCap, \* dailyCostCapUsd of the workspace whose jobs these are
          GlobalCaps,   \* bound: the global caps an administrator tries
          Cost,         \* estimateCostUsd of a render or a publish
          TTL,          \* CACHE_TTL_MS
          ReadTime,     \* how long a query takes at most
          DayLength,    \* ticks from one UTC midnight to the next
          MaxTime,      \* bound: ticks
          MaxWrites,    \* bound: settings written
          MaxFaults     \* bound: failed queries and crashes

Areas == {AreaOf[s] : s \in Slots}
NoCap == -1

ASSUME CostAssumption ==
  /\ ProcessOf \in [Slots -> Processes] /\ IsFiniteSet(Slots) /\ Slots # {}
  /\ Areas \subseteq {"rendering", "publishing"}
  /\ WorkspaceCap \in Nat /\ GlobalCaps \subseteq Nat
  /\ {Cost, TTL, DayLength, MaxTime} \subseteq Nat \ {0}
  /\ {ReadTime, MaxWrites, MaxFaults} \subseteq Nat

VARIABLES
  clock,
  setting,   \* setting[key]: the SystemSetting rows: area -> halted; "cap" -> the cap
  cache,     \* cache[p][key]: what process p has cached of them, and when
  counter,   \* counter[d]: the workspace's UsageCounter of day d
  job,       \* job[s]: the job in slot s
  left,      \* what the bounds leave
  changed,   \* ghost: when a setting was last written
  cost,      \* ghost: cost[d]: what was really spent on day d
  unchecked  \* ghost: gates passed because a query failed, and usage never recorded

vars == <<clock, setting, cache, counter, job, left, changed, cost, unchecked>>

Keys == Areas \cup {"cap"}
Days == 0..(MaxTime \div DayLength)
Today == clock \div DayLength

Idle == [pc |-> "idle", since |-> 0, fetched |-> FALSE, halt |-> FALSE, cap |-> NoCap,
         spent |-> 0, failed |-> FALSE]

Caps == GlobalCaps \cup {NoCap, 0}
Values(key) == IF key = "cap" THEN Caps ELSE BOOLEAN

Job == [pc : {"idle", "halt", "gate", "budget", "working", "paid"}, since : 0..MaxTime,
        fetched : BOOLEAN, halt : BOOLEAN, cap : Caps, spent : Nat, failed : BOOLEAN]

TypeOK ==
  /\ clock \in 0..MaxTime
  /\ setting = [key \in Keys |-> setting[key]]
  /\ \A key \in Keys : setting[key] \in Values(key)
  /\ changed \in [Keys -> -1..MaxTime]
  /\ cache = [p \in Processes |-> [key \in Keys |-> cache[p][key]]]
  /\ \A p \in Processes, key \in Keys :
       cache[p][key] \in [value : Values(key), at : -1..MaxTime]
  /\ counter \in [Days -> Nat] /\ cost \in [Days -> Nat] /\ unchecked \in Nat
  /\ job \in [Slots -> Job]
  /\ left \in [writes : 0..MaxWrites, faults : 0..MaxFaults]

\* No rows yet: nothing is halted, and there is no global cap.
Init ==
  /\ clock = 0 /\ unchecked = 0
  /\ setting = [key \in Keys |-> IF key = "cap" THEN NoCap ELSE FALSE]
  /\ cache = [p \in Processes |-> [key \in Keys |-> [value |-> setting[key], at |-> -1]]]
  /\ counter = [d \in Days |-> 0] /\ cost = [d \in Days |-> 0]
  /\ job = [s \in Slots |-> Idle]
  /\ left = [writes |-> MaxWrites, faults |-> MaxFaults]
  /\ changed = [key \in Keys |-> -1]

Spend(budget) == left[budget] > 0 /\ left' = [left EXCEPT ![budget] = @ - 1]

\* Mutant of Fresh: one tick too long.
FreshTooLong(entry, t) == entry.at >= 0 /\ t - entry.at <= TTL

\* readSetting returns what is cached, for less than TTL.
Fresh(entry, t) == entry.at >= 0 /\ t - entry.at < TTL

\* Time passes, but no query takes longer than ReadTime, and between the gates the code
\* does not wait.  Cached values that expire are forgotten.
Tick ==
  /\ clock < MaxTime
  /\ \A s \in Slots : job[s].pc # "gate"
  /\ \A s \in Slots : job[s].pc \in {"halt", "budget"} => clock - job[s].since < ReadTime
  /\ clock' = clock + 1
  /\ cache' = [p \in Processes |-> [key \in Keys |->
       IF Fresh(cache[p][key], clock') THEN cache[p][key] ELSE [cache[p][key] EXCEPT !.at = -1]]]
  /\ UNCHANGED <<setting, counter, job, left, changed, cost, unchecked>>

-----------------------------------------------------------------------------
(* killSwitch.ts.                                                           *)

WriteSetting(key, value) ==
  /\ Spend("writes")
  /\ setting' = [setting EXCEPT ![key] = value]
  /\ changed' = [changed EXCEPT ![key] = clock]
  /\ UNCHANGED <<clock, cache, counter, job, cost, unchecked>>

SetHalted(area, halted) == WriteSetting(area, halted)

\* A cap that is removed is written as "", which getGlobalDailyCapUsd reads as 0.
SetGlobalDailyCap(cap) == WriteSetting("cap", IF cap = NoCap THEN 0 ELSE cap)

Cached(s, key) == cache[ProcessOf[s]][key]

\* What a query returns becomes cached when it returns.
Store(s, key, value) ==
  cache' = [cache EXCEPT ![ProcessOf[s]][key] = [value |-> value, at |-> clock]]

-----------------------------------------------------------------------------
(* The gates of renderCandidate and publishClip.                            *)

Refuse(s) == job' = [job EXCEPT ![s] = Idle]

\* isHalted, from the cache.
CheckHalt(s) ==
  LET entry == Cached(s, AreaOf[s]) IN
  /\ job[s].pc = "idle" /\ Fresh(entry, clock)
  /\ ~ entry.value
  /\ job' = [job EXCEPT ![s].pc = "gate", ![s].since = 0]
  /\ UNCHANGED <<clock, setting, cache, counter, left, changed, cost, unchecked>>

\* isHalted, with a query.
FetchHalt(s) ==
  /\ job[s].pc = "idle" /\ ~ Fresh(Cached(s, AreaOf[s]), clock)
  /\ job' = [job EXCEPT ![s].pc = "halt", ![s].since = clock, ![s].halt = setting[AreaOf[s]]]
  /\ UNCHANGED <<clock, setting, cache, counter, left, changed, cost, unchecked>>

ReturnHalt(s) ==
  /\ job[s].pc = "halt"
  /\ Store(s, AreaOf[s], job[s].halt)
  /\ IF job[s].halt THEN Refuse(s) ELSE job' = [job EXCEPT ![s].pc = "gate", ![s].since = 0]
  /\ UNCHANGED <<clock, setting, counter, left, changed, cost, unchecked>>

\* The query fails: not halted.
FailHalt(s) ==
  /\ job[s].pc = "halt" /\ Spend("faults")
  /\ job' = [job EXCEPT ![s].pc = "gate", ![s].since = 0, ![s].halt = FALSE, ![s].failed = TRUE]
  /\ UNCHANGED <<clock, setting, cache, counter, changed, cost, unchecked>>

\* getBudgetStatus reads today's counter and the caps at once.
FetchBudget(s) ==
  LET entry == Cached(s, "cap") IN
  /\ job[s].pc = "gate"
  /\ job' = [job EXCEPT ![s].pc = "budget", ![s].since = clock, ![s].spent = counter[Today],
                        ![s].fetched = ~ Fresh(entry, clock),
                        ![s].cap = IF Fresh(entry, clock) THEN entry.value ELSE setting["cap"]]
  /\ UNCHANGED <<clock, setting, cache, counter, left, changed, cost, unchecked>>

\* The stricter of the workspace's cap and the global one.
Stricter(cap) == IF cap # NoCap /\ cap < WorkspaceCap THEN cap ELSE WorkspaceCap

ReturnBudget(s) ==
  /\ job[s].pc = "budget"
  /\ IF job[s].fetched THEN Store(s, "cap", job[s].cap) ELSE UNCHANGED cache
  /\ IF job[s].spent >= Stricter(job[s].cap)
     THEN Refuse(s)
     ELSE job' = [job EXCEPT ![s].pc = "working", ![s].since = 0]
  /\ UNCHANGED <<clock, setting, counter, left, changed, cost, unchecked>>

\* A query fails: allowed.
FailBudget(s) ==
  /\ job[s].pc = "budget" /\ Spend("faults")
  /\ job' = [job EXCEPT ![s].pc = "working", ![s].since = 0, ![s].failed = TRUE]
  /\ unchecked' = unchecked + 1
  /\ UNCHANGED <<clock, setting, cache, counter, changed, cost>>

-----------------------------------------------------------------------------
(* The work, and recordUsage.                                               *)

Work(s) ==
  /\ job[s].pc = "working"
  /\ cost' = [cost EXCEPT ![Today] = @ + Cost]
  /\ job' = [job EXCEPT ![s].pc = "paid"]
  /\ UNCHANGED <<clock, setting, cache, counter, left, changed, unchecked>>

\* Mutant of RecordUsage: adds to what the gate read.
RecordOnRead(s) ==
  /\ job[s].pc = "paid"
  /\ counter' = [counter EXCEPT ![Today] = job[s].spent + Cost]
  /\ job' = [job EXCEPT ![s] = Idle]
  /\ UNCHANGED <<clock, setting, cache, left, changed, cost, unchecked>>

\* The increment is the database's, of the day it is made on.
RecordUsage(s) ==
  /\ job[s].pc = "paid"
  /\ counter' = [counter EXCEPT ![Today] = @ + Cost]
  /\ job' = [job EXCEPT ![s] = Idle]
  /\ UNCHANGED <<clock, setting, cache, left, changed, cost, unchecked>>

\* recordUsage never throws.
RecordFails(s) ==
  /\ job[s].pc = "paid" /\ Spend("faults")
  /\ job' = [job EXCEPT ![s] = Idle]
  /\ unchecked' = unchecked + 1
  /\ UNCHANGED <<clock, setting, cache, counter, changed, cost>>

\* A worker process dies: its cache is gone, and what was not recorded.
Crash(p) ==
  /\ Spend("faults")
  /\ job' = [s \in Slots |-> IF ProcessOf[s] = p THEN Idle ELSE job[s]]
  /\ cache' = [cache EXCEPT ![p] = [key \in Keys |-> [@[key] EXCEPT !.at = -1]]]
  /\ unchecked' = unchecked + Cardinality({s \in Slots : ProcessOf[s] = p /\ job[s].pc = "paid"})
  /\ UNCHANGED <<clock, setting, counter, changed, cost>>

Next ==
  \/ Tick
  \/ \E area \in Areas, halted \in BOOLEAN : SetHalted(area, halted)
  \/ \E cap \in GlobalCaps \cup {NoCap} : SetGlobalDailyCap(cap)
  \/ \E s \in Slots :
       \/ CheckHalt(s) \/ FetchHalt(s) \/ ReturnHalt(s) \/ FailHalt(s)
       \/ FetchBudget(s) \/ ReturnBudget(s) \/ FailBudget(s)
       \/ Work(s) \/ RecordUsage(s) \/ RecordFails(s)
  \/ \E p \in Processes : Crash(p)

Spec == Init /\ [][Next]_vars

-----------------------------------------------------------------------------
(* Properties.                                                              *)

\* Gates do not act on old settings: where no query failed, work that starts has read
\* the switch and the cap as they are, unless they were written less than the life of
\* a cached value and two queries ago, a query that was under way when the setting was
\* written having cached the old value after it.  readSetting.
GatesFresh ==
  [][\A s \in Slots :
       job[s].pc = "budget" /\ job'[s].pc = "working" /\ ~ job'[s].failed =>
         /\ clock - changed[AreaOf[s]] >= TTL + 2 * ReadTime => ~ setting[AreaOf[s]]
         /\ clock - changed["cap"] >= TTL + 2 * ReadTime => job[s].cap = setting["cap"]]_vars

\* What is spent on a day exceeds the workspace's cap by no more than one job of every
\* slot, and one for every gate that failed open and every usage that was not recorded,
\* whatever the jobs' reads and increments interleave with and over midnight.
\* getBudgetStatus and recordUsage.
OverspendBounded ==
  \A d \in Days :
    cost[d] < WorkspaceCap + Cost * (Cardinality(Slots) + unchecked)
-----------------------------------------------------------------------------
(* The inductive invariant behind the safety properties.                    *)

\* No query takes longer than it may, and a cached value is not kept for longer.
TimeInv ==
  /\ \A key \in Keys : changed[key] <= clock
  /\ \A p \in Processes, key \in Keys :
       cache[p][key].at <= clock /\ (cache[p][key].at >= 0 => Fresh(cache[p][key], clock))
  /\ \A s \in Slots :
       job[s].pc \in {"halt", "budget"} => job[s].since <= clock /\ clock - job[s].since <= ReadTime

\* What was read at some time is the setting, unless that was written since, or less
\* than slack before.
Recent(key, value, time, slack) == value = setting[key] \/ time - changed[key] < slack

\* What is cached was read by a query that had just begun; a gate acts on what is
\* cached or on such a query.
FreshInv ==
  /\ \A p \in Processes, key \in Keys :
       cache[p][key].at >= 0 =>
         Recent(key, cache[p][key].value, cache[p][key].at, ReadTime + 1)
  /\ \A s \in Slots :
       /\ job[s].pc = "halt" => Recent(AreaOf[s], job[s].halt, job[s].since, 1)
       /\ job[s].pc = "gate" /\ ~ job[s].failed =>
            Recent(AreaOf[s], FALSE, clock, TTL + ReadTime)
       /\ job[s].pc = "budget" /\ ~ job[s].failed =>
            Recent(AreaOf[s], FALSE, job[s].since, TTL + ReadTime)
       /\ job[s].pc = "budget" =>
            /\ Recent("cap", job[s].cap, job[s].since, TTL + ReadTime)
            /\ job[s].fetched => Recent("cap", job[s].cap, job[s].since, 1)

Paid == {s \in Slots : job[s].pc = "paid"}

\* Jobs that will be paid for, unless a gate is still to fail.
Admitted ==
  {s \in Slots : \/ job[s].pc = "working"
                 \/ job[s].pc = "budget" /\ job[s].spent < WorkspaceCap}

\* Today's cost is in today's counter, but for the jobs that have yet to record it;
\* what is admitted has been counted in when it read the counter.
SpendInv ==
  /\ \A d \in Days : d > Today => cost[d] = 0
  /\ cost[Today] <= counter[Today] + Cost * (Cardinality(Paid) + unchecked)
  /\ cost[Today] + Cost * Cardinality(Admitted)
       < WorkspaceCap + Cost * (Cardinality(Slots) + unchecked)
  /\ Admitted # {} => WorkspaceCap + unchecked > 0
  /\ OverspendBounded

IInv == TimeInv /\ FreshInv /\ SpendInv
=============================================================================
