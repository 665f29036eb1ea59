---------------------- MODULE CampaignLifecycle_proofs ----------------------
(***************************************************************************)
(* Proofs about the lifecycle of a campaign, for any set of rules, any     *)
(* number of reviewers, and any bounds on edits, requests and faults.      *)
(***************************************************************************)
EXTENDS CampaignLifecycle, TLAPS

\* The statuses, and the moves between them that the proofs depend on.
LEMMA Statuses ==
  /\ {"DISCOVERED", "PARSING", "PAUSED", "ERROR"} \cup RuleStatus \subseteq CampaignStatus
  /\ "NONE" \notin CampaignStatus
BY DEF CampaignStatus, StatusesOf, TABLES, CAMPAIGN_TRANSITIONS, RuleStatus

\* The statuses of rules may follow each other, and nothing follows a missing row.
LEMMA RuleMoves ==
  /\ \A from, to \in RuleStatus : CanTransition("Campaign", from, to)
  /\ \A to \in CampaignStatus : ~ CanTransition("Campaign", "NONE", to)
<1>1. TABLES["Campaign"] = CAMPAIGN_TRANSITIONS
  BY DEF TABLES
<1>2. \A from, to \in RuleStatus : CanTransition("Campaign", from, to)
  BY <1>1 DEF RuleStatus, CanTransition, Successors, CAMPAIGN_TRANSITIONS
<1>3. \A to \in CampaignStatus : ~ CanTransition("Campaign", "NONE", to)
  BY <1>1, Statuses DEF CanTransition, Successors, CampaignStatus, StatusesOf
<1> QED
  BY <1>2, <1>3

\* Callers that are not reviewers, and no two of them alike.
LEMMA TheCallers ==
  /\ {"scan", "entry", "reparse", "parse", "stop"} \subseteq Callers
  /\ Reviewers \subseteq Callers
  /\ \A p \in {"scan", "entry", "reparse", "parse", "stop"} : p \notin Reviewers
BY CampaignAssumption DEF Callers

-----------------------------------------------------------------------------
(* Types.                                                                   *)

\* A call as a record, and what it means for one to become another.
Pcs == {"idle", "revise", "note", "announce", "begin", "extract", "create", "links", "move",
        "audit", "error", "pause"}
Made(pc, hash, rule, version) ==
  [pc |-> pc, page |-> hash, rule |-> rule, version |-> version]
Sets(p, c) == call' = [call EXCEPT ![p] = c]

LEMMA CallMade ==
  ASSUME NEW pc \in Pcs, NEW hash \in 0..MaxPages, NEW rule \in Rule, NEW version \in Nat
  PROVE  /\ Made(pc, hash, rule, version) \in Call
         /\ Made(pc, hash, rule, version).pc = pc
         /\ Made(pc, hash, rule, version).page = hash
         /\ Made(pc, hash, rule, version).rule = rule
         /\ Made(pc, hash, rule, version).version = version
BY DEF Made, Call, Pcs

LEMMA CallSets ==
  ASSUME call \in [Callers -> Call], NEW p \in Callers, NEW c \in Call, Sets(p, c)
  PROVE  /\ call' \in [Callers -> Call]
         /\ call'[p] = c
         /\ \A q \in Callers \ {p} : call'[q] = call[q]
BY DEF Sets

LEMMA CallFields ==
  ASSUME call \in [Callers -> Call], NEW p \in Callers
  PROVE  /\ call[p].pc \in Pcs /\ call[p].page \in 0..MaxPages /\ call[p].rule \in Rule
         /\ call[p].version \in Nat
BY DEF Call, Pcs

LEMMA IdleCall ==
  /\ NoRule \in Rule /\ 0 \in 0..MaxPages
  /\ Idle = Made("idle", 0, NoRule, 0)
BY CampaignAssumption DEF Idle, NoRule, Rule, RuleStatus, Made

\* What the calls become, whatever is assigned to their fields.
LEMMA Steps ==
  ASSUME call \in [Callers -> Call], NEW p \in Callers, NEW pc, Step(p, pc)
  PROVE  Sets(p, Made(pc, call[p].page, call[p].rule, call[p].version))
<1>1. call'[p] = Made(pc, call[p].page, call[p].rule, call[p].version)
  BY Zenon DEF Step, Made, Call
<1>2. call' = [call EXCEPT ![p] = call'[p]]
  BY DEF Step
<1> QED
  BY <1>1, <1>2 DEF Sets

LEMMA Goes ==
  ASSUME call \in [Callers -> Call], NEW p \in Callers, NEW pc, Goto(p, pc)
  PROVE  Sets(p, Made(pc, call[p].page, call[p].rule, campaign.version))
<1>1. call'[p] = Made(pc, call[p].page, call[p].rule, campaign.version)
  BY Zenon DEF Goto, Made, Call
<1>2. call' = [call EXCEPT ![p] = call'[p]]
  BY DEF Goto
<1> QED
  BY <1>1, <1>2 DEF Sets

LEMMA ReturnsTo ==
  ASSUME NEW p \in Callers, Return(p)
  PROVE  Sets(p, Made("idle", 0, NoRule, 0))
BY IdleCall DEF Return, Sets

LEMMA Reads ==
  ASSUME call \in [Callers -> Call], NEW p \in Callers, NEW pc, NEW hash,
         \/ call' = [call EXCEPT ![p].page = hash, ![p].pc = pc]
         \/ call' = [call EXCEPT ![p].pc = pc, ![p].page = hash]
  PROVE  Sets(p, Made(pc, hash, call[p].rule, call[p].version))
<1>1. CASE call' = [call EXCEPT ![p].page = hash, ![p].pc = pc]
  <2>1. call'[p] = Made(pc, hash, call[p].rule, call[p].version)
    <3>1. /\ call'[p] = [[call[p] EXCEPT !.page = hash] EXCEPT !.pc = pc]
      BY <1>1
    <3>2. [call[p] EXCEPT !.page = hash] = Made(call[p].pc, hash, call[p].rule, call[p].version)
      BY DEF Made, Call
    <3> QED
      BY <3>1, <3>2 DEF Made
  <2>2. call' = [call EXCEPT ![p] = call'[p]]
    BY <1>1
  <2> QED
    BY <2>1, <2>2 DEF Sets
<1>2. CASE call' = [call EXCEPT ![p].pc = pc, ![p].page = hash]
  <2>1. call'[p] = Made(pc, hash, call[p].rule, call[p].version)
    BY <1>2, Zenon DEF Made, Call
  <2>2. call' = [call EXCEPT ![p] = call'[p]]
    BY <1>2
  <2> QED
    BY <2>1, <2>2 DEF Sets
<1> QED
  BY <1>1, <1>2

LEMMA Restarts ==
  ASSUME NEW p \in Callers, NEW pc, NEW rule, NEW version
  PROVE  /\ call' = [call EXCEPT ![p] = [Idle EXCEPT !.pc = pc]]
              => Sets(p, Made(pc, 0, NoRule, 0))
         /\ call' = [call EXCEPT ![p] = [Idle EXCEPT !.pc = pc, !.rule = rule]]
              => Sets(p, Made(pc, 0, rule, 0))
         /\ call' = [call EXCEPT ![p] = [Idle EXCEPT !.pc = pc, !.version = version]]
              => Sets(p, Made(pc, 0, NoRule, version))
<1>1. ASSUME NEW c \in Call, NEW d
      PROVE  /\ d = [c EXCEPT !.pc = pc] => d = Made(pc, c.page, c.rule, c.version)
             /\ d = [c EXCEPT !.pc = pc, !.rule = rule] => d = Made(pc, c.page, rule, c.version)
             /\ d = [c EXCEPT !.pc = pc, !.version = version]
                  => d = Made(pc, c.page, c.rule, version)
  <2>1. d = [c EXCEPT !.pc = pc] => d = Made(pc, c.page, c.rule, c.version)
    BY DEF Made, Call
  <2>2. d = [c EXCEPT !.pc = pc, !.rule = rule] => d = Made(pc, c.page, rule, c.version)
    BY Zenon DEF Made, Call
  <2>3. d = [c EXCEPT !.pc = pc, !.version = version] => d = Made(pc, c.page, c.rule, version)
    BY Zenon DEF Made, Call
  <2> QED
    BY <2>1, <2>2, <2>3
<1>2. Idle \in Call /\ Idle.page = 0 /\ Idle.rule = NoRule /\ Idle.version = 0
  BY IdleCall, CallMade DEF Pcs
<1>3. ASSUME NEW d
      PROVE  /\ d = [Idle EXCEPT !.pc = pc] => d = Made(pc, 0, NoRule, 0)
             /\ d = [Idle EXCEPT !.pc = pc, !.rule = rule] => d = Made(pc, 0, rule, 0)
             /\ d = [Idle EXCEPT !.pc = pc, !.version = version] => d = Made(pc, 0, NoRule, version)
  BY <1>1, <1>2, Zenon
<1> QED
  BY <1>3 DEF Sets

\* The campaign's row, and what a transition makes of it.
CampaignRecord == [status : CampaignStatus \cup {"NONE"}, version : Nat, hash : 0..MaxPages]

LEMMA MovesTo ==
  ASSUME campaign \in CampaignRecord, NEW to, Moves(to)
  PROVE  /\ CanTransition("Campaign", campaign.status, to)
         /\ campaign' = [status |-> to, version |-> campaign.version + 1, hash |-> campaign.hash]
BY Zenon DEF Moves, CampaignRecord

LEMMA MovesType ==
  ASSUME campaign \in CampaignRecord, NEW to \in CampaignStatus, NEW p,
         Moves(to) \/ Refused(p, to)
  PROVE  campaign' \in CampaignRecord
<1>1. CASE Moves(to)
  BY <1>1, MovesTo DEF CampaignRecord
<1>2. CASE Refused(p, to)
  BY <1>2 DEF Refused
<1> QED
  BY <1>1, <1>2

LEMMA Budgets ==
  ASSUME left \in [acts : 0..MaxActs, scans : 0..MaxScans, faults : 0..MaxFaults],
         NEW b \in {"acts", "scans", "faults"}, Spend(b)
  PROVE  left' \in [acts : 0..MaxActs, scans : 0..MaxScans, faults : 0..MaxFaults]
BY CampaignAssumption DEF Spend

\* The row of the job, and what enqueueParse, and a parse that throws, make of it.
JobRow == [state : {"absent", "queued", "active", "done"}, left : 0..Attempts, stalled : BOOLEAN]
RunRow == {"NONE", "RUNNING", "SUCCEEDED", "FAILED"}

LEMMA NoJobs == NoJob \in JobRow /\ Done \in JobRow
BY CampaignAssumption DEF NoJob, Done, JobRow

LEMMA Enqueued ==
  ASSUME job \in JobRow, missed \in BOOLEAN, Enqueue
  PROVE  job' \in JobRow /\ missed' \in BOOLEAN
<1>1. [state |-> "queued", left |-> Attempts, stalled |-> FALSE] \in JobRow
  BY CampaignAssumption DEF JobRow
<1> QED
  BY <1>1 DEF Enqueue

LEMMA Thrown ==
  ASSUME job \in JobRow, run \in RunRow, missed \in BOOLEAN, Throw
  PROVE  job' \in JobRow /\ run' \in RunRow /\ missed' \in BOOLEAN
<1>1. job' \in JobRow
  <2>1. CASE job.left > 1
    <3>1. job' = [state |-> "queued", left |-> job.left - 1, stalled |-> job.stalled]
      BY <2>1 DEF Throw, JobRow
    <3>2. job.left - 1 \in 0..Attempts /\ job.stalled \in BOOLEAN
      BY <2>1, CampaignAssumption DEF JobRow
    <3> QED
      BY <3>1, <3>2 DEF JobRow
  <2>2. CASE ~ (job.left > 1)
    BY <2>2, NoJobs DEF Throw
  <2> QED
    BY <2>1, <2>2
<1> QED
  BY <1>1 DEF Throw, RunRow

-----------------------------------------------------------------------------
\* What each action makes of the calls.
LEMMA CallsMove ==
  ASSUME call \in [Callers -> Call]
  PROVE  /\ Scan => Sets("scan", Made(IF Changed(PageHash(page)) THEN "revise" ELSE "note",
                                      PageHash(page), call["scan"].rule, call["scan"].version))
         /\ Enter => Sets("entry", Made("revise", EntryHash, call["entry"].rule,
                                        call["entry"].version))
         /\ Extract => Sets("parse", Made("create", page, call["parse"].rule,
                                          call["parse"].version))
         /\ \A p \in Callers : WriteRule(p) => Sets(p, Made("links", 0, latest', 0))
         /\ Throw => Sets("parse", Made("idle", 0, NoRule, 0))
BY Reads, Restarts, ReturnsTo, TheCallers DEF Scan, Enter, Extract, WriteRule, Throw

\* The parse job's way to its catch block, and to its audit.
LEMMA ParseMoves ==
  /\ call' = [call EXCEPT !["parse"] = [Idle EXCEPT !.pc = "error", !.version = campaign.version]]
       => Sets("parse", Made("error", 0, NoRule, campaign.version))
  /\ call' = [call EXCEPT !["parse"] = [Idle EXCEPT !.pc = "audit"]]
       => Sets("parse", Made("audit", 0, NoRule, 0))
<1>1. "parse" \in Callers
  BY TheCallers
<1> QED
  BY <1>1, Restarts, Zenon

\* Every action keeps the types.
LEMMA TypeStep == TypeOK /\ HashInv /\ [Next]_vars => TypeOK'
<1> SUFFICES ASSUME TypeOK, HashInv, [Next]_vars
             PROVE  TypeOK'
  OBVIOUS
<1> USE DEF TypeOK
<1>1. /\ job \in JobRow /\ run \in RunRow /\ campaign \in CampaignRecord
      /\ page \in 0..MaxPages /\ PageHash(page) \in 0..MaxPages /\ EntryHash \in 0..MaxPages
      /\ \A p \in Callers : /\ call[p].pc \in Pcs /\ call[p].page \in 0..MaxPages
                            /\ call[p].rule \in Rule /\ call[p].version \in Nat
  <2>1. page \in 0..MaxPages /\ PageHash(page) \in 0..MaxPages /\ EntryHash \in 0..MaxPages
    BY CampaignAssumption DEF PageHash, EntryHash
  <2> QED
    BY <2>1, CallFields DEF JobRow, RunRow, CampaignRecord
<1>2. ASSUME job' \in JobRow, run' \in RunRow, campaign' \in CampaignRecord,
             call' \in [Callers -> Call],
             source' \in Sources, page' \in 1..MaxPages, parsed' \in 0..MaxPages,
             revisions' \subseteq 1..MaxPages, latest' \in Rule \cup {<<>>},
             permitted' \in BOOLEAN, scanned' \in BOOLEAN, missed' \in BOOLEAN,
             abandoned' \in BOOLEAN, listed' \in BOOLEAN, torn' \in BOOLEAN,
             left' \in [acts : 0..MaxActs, scans : 0..MaxScans, faults : 0..MaxFaults]
      PROVE  TypeOK'
  BY <1>2 DEF JobRow, RunRow, CampaignRecord
<1>3. ASSUME NEW p \in Callers, NEW pc \in Pcs, NEW hash \in 0..MaxPages, NEW rule \in Rule,
             NEW version \in Nat, Sets(p, Made(pc, hash, rule, version))
      PROVE  call' \in [Callers -> Call]
  BY <1>3, CallMade, CallSets
<1>4. CASE EditPage
  BY <1>1, <1>2, <1>4, CampaignAssumption DEF EditPage, queue, ghosts
<1>5. CASE Evict
  BY <1>1, <1>2, <1>5, NoJobs DEF Evict, queue, ghosts
<1>6. CASE Scan
  <2>1. call' \in [Callers -> Call]
    BY <1>1, <1>3, <1>6, CallsMove, TheCallers DEF Pcs
  <2>2. campaign' \in CampaignRecord
    <3>1. campaign' = [status |-> IF Exists THEN campaign.status ELSE "DISCOVERED",
                       version |-> campaign.version, hash |-> PageHash(page)]
      BY <1>1, <1>6, Zenon DEF Scan, CampaignRecord
    <3> QED
      BY <1>1, <3>1, Statuses DEF CampaignRecord
  <2> QED
    BY <1>1, <1>2, <1>6, <2>1, <2>2, Budgets DEF Scan, queue, ghosts
<1>7. CASE ScanNothing \/ Rescan
  BY <1>1, <1>2, <1>7, Budgets DEF ScanNothing, Rescan, queue, ghosts
<1>8. CASE Enter
  <2>1. call' \in [Callers -> Call]
    BY <1>1, <1>3, <1>8, CallsMove, TheCallers DEF Pcs
  <2>2. campaign' \in CampaignRecord
    BY <1>1, <1>8, Statuses DEF Enter, CampaignRecord
  <2> QED
    BY <1>1, <1>2, <1>8, <2>1, <2>2, Budgets DEF Enter, queue, ghosts
<1>9. CASE Reparse
  <2>1. call' \in [Callers -> Call]
    BY <1>1, <1>3, <1>9, Steps, TheCallers DEF Reparse, Pcs
  <2> QED
    BY <1>1, <1>2, <1>9, <2>1, Budgets DEF Reparse, ghosts, RunRow
<1>10. ASSUME NEW p \in {"scan", "entry"}, Revise(p)
       PROVE  TypeOK'
  <2>1. call' \in [Callers -> Call] /\ scanned' \in BOOLEAN
    <3>1. CASE At(p, "revise") /\ Step(p, "announce") /\ UNCHANGED scanned
      <4>1. p \in Callers
        BY TheCallers
      <4> QED
        BY <1>1, <1>3, <3>1, <4>1, Steps DEF Pcs
    <3>2. CASE At(p, "note") /\ Return(p) /\ scanned' = TRUE
      BY <1>3, <3>2, ReturnsTo, IdleCall, TheCallers DEF Pcs
    <3> QED
      BY <1>10, <3>1, <3>2 DEF Revise
  <2>2. revisions' \subseteq 1..MaxPages
    <3>1. call[p].page \in 1..MaxPages
      BY <1>1, <1>10, TheCallers DEF HashInv, Revise, At
    <3> QED
      BY <1>10, <3>1 DEF Revise
  <2> QED
    BY <1>1, <1>2, <1>10, <2>1, <2>2 DEF Revise, queue, ghosts
<1>11. ASSUME NEW p \in {"scan", "entry", "reparse"}, Announce(p) \/ AnnounceFails(p)
       PROVE  TypeOK'
  <2>1. call' \in [Callers -> Call]
    BY <1>1, <1>3, <1>11, ReturnsTo, IdleCall, TheCallers DEF Announce, AnnounceFails, Pcs
  <2> QED
    BY <1>1, <1>2, <1>11, <2>1, Budgets, Enqueued DEF Announce, AnnounceFails, queue
<1>12. CASE Fetch
  <2>1. call' \in [Callers -> Call]
    BY <1>1, <1>3, <1>12, Goes, TheCallers DEF Fetch, Pcs, CampaignRecord
  <2>2. job' \in JobRow /\ run' \in RunRow
    BY <1>1, <1>12, NoJobs DEF Fetch, JobRow, RunRow
  <2> QED
    BY <1>1, <1>2, <1>12, <2>1, <2>2 DEF Fetch
<1>13. CASE Begin
  <2>1. call' \in [Callers -> Call]
    BY <1>1, <1>3, <1>13, Restarts, CallsMove, IdleCall, TheCallers DEF Begin, Pcs
  <2> QED
    BY <1>1, <1>2, <1>13, <2>1, MovesType, Thrown, Statuses DEF Begin, queue
<1>14. CASE Extract
  <2>1. call' \in [Callers -> Call]
    BY <1>1, <1>3, <1>14, CallsMove, TheCallers DEF Pcs
  <2> QED
    BY <1>1, <1>2, <1>14, <2>1 DEF Extract, queue
<1>15. ASSUME NEW p \in Callers, WriteRule(p)
       PROVE  /\ latest' \in Rule /\ call' \in [Callers -> Call]
              /\ torn' \in BOOLEAN /\ listed' \in BOOLEAN
  <2>1. latest' \in Rule
    BY <1>15, CampaignAssumption DEF WriteRule
  <2> QED
    BY <1>1, <1>3, <1>15, <2>1, CallsMove, IdleCall DEF WriteRule, Lists, Pcs
<1>16. CASE CreateRule
  BY <1>1, <1>2, <1>15, <1>16, TheCallers DEF CreateRule, queue
<1>17. ASSUME NEW p \in Reviewers \cup {"parse"}, UpsertLinks(p)
       PROVE  TypeOK'
  <2>1. call' \in [Callers -> Call]
    BY <1>1, <1>3, <1>17, Goes, TheCallers DEF UpsertLinks, Pcs, CampaignRecord
  <2>2. permitted' \in BOOLEAN
    BY <1>1, <1>17, TheCallers DEF UpsertLinks, Lists, Rule
  <2> QED
    BY <1>1, <1>2, <1>17, <2>1, <2>2 DEF UpsertLinks, queue, ghosts
<1>18. \A p \in Callers : call[p].rule.status \in CampaignStatus
  BY <1>1, Statuses DEF Rule
<1>19. CASE Conclude
  <2>1. call' \in [Callers -> Call]
    <3>1. \/ call' = [call EXCEPT !["parse"] = [Idle EXCEPT !.pc = "audit"]]
          \/ call' = [call EXCEPT !["parse"] = [Idle EXCEPT !.pc = "error",
                                                           !.version = campaign.version]]
      BY <1>19 DEF Conclude
    <3> QED
      BY <1>1, <1>3, <3>1, ParseMoves, IdleCall, TheCallers DEF Pcs, CampaignRecord
  <2> QED
    BY <1>1, <1>2, <1>18, <1>19, <2>1, MovesType, TheCallers DEF Conclude, queue, ghosts
<1>20. CASE Record
  <2>1. call' \in [Callers -> Call]
    BY <1>1, <1>3, <1>20, CallsMove, ReturnsTo, IdleCall, TheCallers DEF Record, Pcs
  <2>2. job' \in JobRow /\ run' \in RunRow /\ missed' \in BOOLEAN
    BY <1>1, <1>20, NoJobs, Thrown DEF Record, RunRow
  <2> QED
    BY <1>1, <1>2, <1>20, <2>1, <2>2 DEF Record
<1>21. CASE MoveToError
  <2>1. call' \in [Callers -> Call]
    BY <1>1, <1>3, <1>21, CallsMove, IdleCall, TheCallers DEF MoveToError, Pcs
  <2> QED
    BY <1>1, <1>2, <1>21, <2>1, MovesType, Thrown, Statuses DEF MoveToError
<1>22. CASE ParseFails
  <2>1. call' \in [Callers -> Call]
    <3>1. \/ Throw
          \/ call' = [call EXCEPT !["parse"] = [Idle EXCEPT !.pc = "error",
                                                           !.version = campaign.version]]
      BY <1>22 DEF ParseFails
    <3> QED
      BY <1>1, <1>3, <3>1, ParseMoves, CallsMove, IdleCall, TheCallers DEF Pcs, CampaignRecord
  <2> QED
    BY <1>1, <1>2, <1>22, <2>1, Thrown, Budgets DEF ParseFails, queue
<1>23. CASE ParseCrashes
  <2>1. call' \in [Callers -> Call]
    BY <1>1, <1>3, <1>23, ReturnsTo, IdleCall, TheCallers DEF ParseCrashes, Pcs
  <2>2. job' \in JobRow
    BY <1>1, <1>23, NoJobs DEF ParseCrashes, JobRow
  <2> QED
    BY <1>1, <1>2, <1>23, <2>1, <2>2, Budgets DEF ParseCrashes
<1>24. ASSUME NEW o \in Reviewers, Review(o)
       PROVE  TypeOK'
  BY <1>1, <1>2, <1>15, <1>24, Budgets, TheCallers DEF Review, queue
<1>25. ASSUME NEW o \in Reviewers, ConcludeReview(o) \/ ReviewFails(o)
       PROVE  TypeOK'
  <2>1. call' \in [Callers -> Call]
    BY <1>1, <1>3, <1>25, ReturnsTo, IdleCall, TheCallers DEF ConcludeReview, ReviewFails, Pcs
  <2> QED
    BY <1>1, <1>2, <1>18, <1>25, <2>1, MovesType, Budgets, TheCallers
       DEF ConcludeReview, ReviewFails, queue, ghosts
<1>26. CASE CheckStop \/ Pause
  <2>1. call' \in [Callers -> Call]
    <3>1. Goto("stop", "pause") \/ Return("stop")
      BY <1>26 DEF CheckStop, Pause
    <3> QED
      BY <1>1, <1>3, <3>1, Goes, ReturnsTo, IdleCall, TheCallers DEF Pcs, CampaignRecord
  <2> QED
    BY <1>1, <1>2, <1>26, <2>1, MovesType, Statuses, Budgets DEF CheckStop, Pause, queue, ghosts
<1>27. CASE UNCHANGED vars
  BY <1>27 DEF vars, queue, ghosts
<1> QED
  BY <1>4, <1>5, <1>6, <1>7, <1>8, <1>9, <1>10, <1>11, <1>12, <1>13, <1>14, <1>16, <1>17, <1>19,
     <1>20, <1>21, <1>22, <1>23, <1>24, <1>25, <1>26, <1>27
     DEF Next, ParseJob


-----------------------------------------------------------------------------
(* Who moves a call, and where to.                                          *)

\* Every caller has actions of its own.
LEMMA Movers ==
  ASSUME TypeOK, Next, NEW p \in Callers, call'[p] # call[p]
  PROVE  \/ p = "scan" /\ (Scan \/ Revise(p) \/ Announce(p) \/ AnnounceFails(p))
         \/ p = "entry" /\ (Enter \/ Revise(p) \/ Announce(p) \/ AnnounceFails(p))
         \/ p = "reparse" /\ (Reparse \/ Announce(p) \/ AnnounceFails(p))
         \/ p = "parse" /\ (ParseJob \/ ParseFails \/ ParseCrashes)
         \/ p \in Reviewers /\ (Review(p) \/ UpsertLinks(p) \/ ConcludeReview(p) \/ ReviewFails(p))
         \/ p = "stop" /\ (CheckStop \/ Pause)
<1>1. call \in [Callers -> Call]
  BY DEF TypeOK
<1>2. ASSUME Scan, p # "scan"
      PROVE  FALSE
  BY <1>1, <1>2 DEF Scan
<1>3. ASSUME Enter, p # "entry"
      PROVE  FALSE
  BY <1>1, <1>3 DEF Enter
<1>4. ASSUME Reparse, p # "reparse"
      PROVE  FALSE
  BY <1>1, <1>4 DEF Reparse, Step
<1>5. ASSUME NEW q \in {"scan", "entry", "reparse"}, Revise(q) \/ Announce(q) \/ AnnounceFails(q),
             p # q
      PROVE  FALSE
  BY <1>1, <1>5 DEF Revise, Announce, AnnounceFails, Step, Return
<1>6. ASSUME ParseJob \/ ParseFails \/ ParseCrashes, p # "parse"
      PROVE  FALSE
  BY <1>1, <1>6 DEF ParseJob, Fetch, Begin, Extract, CreateRule, WriteRule, UpsertLinks, Conclude,
                    Record, MoveToError, Throw, Goto, Return, ParseFails, ParseCrashes
<1>7. ASSUME NEW o \in Reviewers, p # o,
             Review(o) \/ UpsertLinks(o) \/ ConcludeReview(o) \/ ReviewFails(o)
      PROVE  FALSE
  BY <1>1, <1>7 DEF Review, WriteRule, UpsertLinks, ConcludeReview, ReviewFails, Goto, Return
<1>8. ASSUME CheckStop \/ Pause, p # "stop"
      PROVE  FALSE
  BY <1>1, <1>8 DEF CheckStop, Pause, Goto, Return
<1>9. ASSUME EditPage \/ Evict \/ ScanNothing \/ Rescan
      PROVE  FALSE
  BY <1>9 DEF EditPage, Evict, ScanNothing, Rescan
<1> QED
  BY <1>2, <1>3, <1>4, <1>5, <1>6, <1>7, <1>8, <1>9 DEF Next

LEMMA SetTo ==
  ASSUME call \in [Callers -> Call], NEW p \in Callers, NEW pc, NEW hash, NEW rule, NEW version,
         Sets(p, Made(pc, hash, rule, version))
  PROVE  /\ call'[p].pc = pc /\ call'[p].page = hash
         /\ call'[p].rule = rule /\ call'[p].version = version
BY DEF Sets, Made

\* Where discovery, entry and reparse go.
LEMMA AnnouncersMove ==
  ASSUME TypeOK
  PROVE  /\ Scan => /\ call'["scan"].pc = IF Changed(PageHash(page)) THEN "revise" ELSE "note"
                    /\ call'["scan"].page = PageHash(page)
         /\ Enter => call'["entry"].pc = "revise" /\ call'["entry"].page = EntryHash
         /\ Reparse => call'["reparse"].pc = "announce"
         /\ \A p \in {"scan", "entry"} : Revise(p) =>
              \/ /\ At(p, "revise") /\ call'[p].pc = "announce" /\ call'[p].page = call[p].page
              \/ At(p, "note") /\ call'[p].pc = "idle" /\ call'[p].page = 0
         /\ \A p \in {"scan", "entry", "reparse"} : Announce(p) \/ AnnounceFails(p) =>
              call'[p].pc = "idle" /\ call'[p].page = 0
<1>1. call \in [Callers -> Call]
  BY DEF TypeOK
<1>2. ASSUME NEW p \in {"scan", "entry"}, Revise(p)
      PROVE  \/ /\ At(p, "revise") /\ call'[p].pc = "announce" /\ call'[p].page = call[p].page
             \/ At(p, "note") /\ call'[p].pc = "idle" /\ call'[p].page = 0
  <2>1. CASE At(p, "revise") /\ Step(p, "announce")
    BY <1>1, <2>1, Steps, SetTo, TheCallers
  <2>2. CASE At(p, "note") /\ Return(p)
    BY <1>1, <2>2, ReturnsTo, SetTo, TheCallers
  <2> QED
    BY <1>2, <2>1, <2>2 DEF Revise
<1>3. ASSUME NEW p \in {"scan", "entry", "reparse"}, Announce(p) \/ AnnounceFails(p)
      PROVE  call'[p].pc = "idle" /\ call'[p].page = 0
  BY <1>1, <1>3, ReturnsTo, SetTo, TheCallers DEF Announce, AnnounceFails
<1>4. Reparse => call'["reparse"].pc = "announce"
  BY <1>1, Steps, SetTo, TheCallers DEF Reparse
<1>5. Scan => /\ call'["scan"].pc = IF Changed(PageHash(page)) THEN "revise" ELSE "note"
              /\ call'["scan"].page = PageHash(page)
  BY <1>1, CallsMove, SetTo, TheCallers
<1>6. Enter => call'["entry"].pc = "revise" /\ call'["entry"].page = EntryHash
  BY <1>1, CallsMove, SetTo, TheCallers
<1> QED
  BY <1>2, <1>3, <1>4, <1>5, <1>6

\* Where the parse job goes.
LEMMA ParseGoes ==
  ASSUME TypeOK
  PROVE  /\ Fetch => call'["parse"] = call["parse"] \/ call'["parse"].pc = "begin"
         /\ Begin => \/ Throw
                     \/ Moves("PARSING") /\ call'["parse"].pc = "extract"
         /\ Extract => call'["parse"].pc = "create" /\ call'["parse"].page = page
         /\ CreateRule => call'["parse"].pc = "links" /\ call'["parse"].rule = latest'
         /\ UpsertLinks("parse") =>
              /\ call'["parse"].pc = "move" /\ call'["parse"].rule = call["parse"].rule
              /\ call'["parse"].version = campaign.version
         /\ Conclude =>
              \/ Moves(call["parse"].rule.status) /\ call'["parse"].pc = "audit"
              \/ Refused("parse", call["parse"].rule.status) /\ call'["parse"].pc = "error"
         /\ Throw => call'["parse"].pc = "idle"
         /\ Record => call'["parse"].pc = "idle"
         /\ ParseFails => Throw \/ call'["parse"].pc = "error"
         /\ ParseCrashes => call'["parse"].pc = "idle"
<1>1. call \in [Callers -> Call] /\ "parse" \in Callers
  BY TheCallers DEF TypeOK
<1>2. /\ Throw => call'["parse"].pc = "idle"
      /\ Return("parse") => call'["parse"].pc = "idle"
      /\ call' = [call EXCEPT !["parse"] = [Idle EXCEPT !.pc = "error", !.version = campaign.version]]
           => call'["parse"].pc = "error"
      /\ call' = [call EXCEPT !["parse"] = [Idle EXCEPT !.pc = "audit"]] => call'["parse"].pc = "audit"
      /\ call' = [call EXCEPT !["parse"] = [Idle EXCEPT !.pc = "extract"]]
           => call'["parse"].pc = "extract"
  BY <1>1, CallsMove, ReturnsTo, ParseMoves, Restarts, SetTo
<1>3. Fetch => call'["parse"] = call["parse"] \/ call'["parse"].pc = "begin"
  BY <1>1, Goes, SetTo DEF Fetch
<1>4. /\ Extract => call'["parse"].pc = "create" /\ call'["parse"].page = page
      /\ CreateRule => call'["parse"].pc = "links" /\ call'["parse"].rule = latest'
  BY <1>1, CallsMove, SetTo DEF CreateRule
<1>5. UpsertLinks("parse") =>
        /\ call'["parse"].pc = "move" /\ call'["parse"].rule = call["parse"].rule
        /\ call'["parse"].version = campaign.version
  BY <1>1, Goes, SetTo DEF UpsertLinks
<1>6. Begin => \/ Throw
               \/ Moves("PARSING") /\ call'["parse"].pc = "extract"
  BY <1>2 DEF Begin
<1>7. Conclude =>
        \/ Moves(call["parse"].rule.status) /\ call'["parse"].pc = "audit"
        \/ Refused("parse", call["parse"].rule.status) /\ call'["parse"].pc = "error"
  BY <1>2 DEF Conclude
<1>8. /\ Record => call'["parse"].pc = "idle"
      /\ ParseCrashes => call'["parse"].pc = "idle"
  BY <1>2 DEF Record, ParseCrashes
<1>9. ParseFails => Throw \/ call'["parse"].pc = "error"
  BY <1>2 DEF ParseFails
<1> QED
  BY <1>2, <1>3, <1>4, <1>5, <1>6, <1>7, <1>8, <1>9

\* Where a review goes.
LEMMA ReviewsGo ==
  ASSUME TypeOK, NEW o \in Reviewers
  PROVE  /\ Review(o) => call'[o].pc = "links" /\ call'[o].rule = latest'
         /\ UpsertLinks(o) => /\ call'[o].pc = "move" /\ call'[o].rule = call[o].rule
                              /\ call'[o].version = campaign.version
         /\ ConcludeReview(o) \/ ReviewFails(o) => call'[o].pc = "idle"
BY CallsMove, Goes, ReturnsTo, SetTo, TheCallers
   DEF Review, UpsertLinks, ConcludeReview, ReviewFails, TypeOK

-----------------------------------------------------------------------------
(* Pages: nobody knows one that has not been there.                         *)

\* How pages, and what is known of them, change.
LEMMA PagesMove ==
  ASSUME TypeOK, Next
  PROVE  /\ page \in Nat /\ page' \in Nat /\ page <= page' /\ 0 < page
         /\ PageHash(page) \in Nat /\ PageHash(page) <= page /\ 0 < PageHash(page)
         /\ EntryHash \in Nat /\ EntryHash <= page /\ 0 < EntryHash
         /\ \A p \in Callers : call[p].page \in Nat
         /\ campaign.hash \in Nat /\ \A h \in revisions : h \in Nat
         /\ \/ campaign'.hash = campaign.hash
            \/ Scan /\ campaign'.hash = PageHash(page)
            \/ Enter /\ campaign'.hash = EntryHash
         /\ \/ revisions' = revisions
            \/ \E p \in {"scan", "entry"} : Revise(p) /\ revisions' = revisions \cup {call[p].page}
<1>1. /\ page \in Nat /\ page' \in Nat /\ page <= page' /\ 0 < page
      /\ PageHash(page) \in Nat /\ PageHash(page) <= page /\ 0 < PageHash(page)
      /\ EntryHash \in Nat /\ EntryHash <= page /\ 0 < EntryHash
      /\ \A p \in Callers : call[p].page \in Nat
      /\ campaign.hash \in Nat /\ \A h \in revisions : h \in Nat
  <2>1. page \in Nat /\ 0 < page /\ \A p \in Callers : call[p].page \in Nat
    BY CampaignAssumption, CallFields DEF TypeOK
  <2>2. page' = page \/ page' = page + 1
    BY DEF Next, EditPage, Evict, Scan, ScanNothing, Rescan, Enter, Reparse, Revise,
                Announce, AnnounceFails, ParseJob, Fetch, Begin, Extract, CreateRule,
                UpsertLinks, Conclude, Record, MoveToError, ParseFails, ParseCrashes, Review,
                ConcludeReview, ReviewFails, CheckStop, Pause
  <2> QED
    BY <2>1, <2>2, CampaignAssumption DEF PageHash, EntryHash, TypeOK
<1>2. \/ campaign'.hash = campaign.hash
      \/ Scan /\ campaign'.hash = PageHash(page)
      \/ Enter /\ campaign'.hash = EntryHash
  <2>1. CASE campaign' = campaign
    BY <2>1
  <2>2. ASSUME NEW to, Moves(to)
        PROVE  campaign'.hash = campaign.hash
    BY <2>2, MovesTo DEF TypeOK, CampaignRecord
  <2>3. CASE Scan
    BY <2>3 DEF Scan, TypeOK
  <2>4. CASE Enter
    BY <2>4 DEF Enter
  <2> QED
    BY <2>1, <2>2, <2>3, <2>4
       DEF Next, EditPage, Evict, ScanNothing, Rescan, Reparse, Revise,
           Announce, AnnounceFails, ParseJob, Fetch, Begin, Extract, CreateRule,
           UpsertLinks, Conclude, Record, MoveToError, ParseFails, ParseCrashes, Review,
           ConcludeReview, ReviewFails, CheckStop, Pause, Refused
<1>3. \/ revisions' = revisions
      \/ \E p \in {"scan", "entry"} : Revise(p) /\ revisions' = revisions \cup {call[p].page}
  BY DEF Next, EditPage, Evict, Scan, ScanNothing, Rescan, Enter, Reparse, Revise,
              Announce, AnnounceFails, ParseJob, Fetch, Begin, Extract, CreateRule,
              UpsertLinks, Conclude, Record, MoveToError, ParseFails, ParseCrashes, Review,
              ConcludeReview, ReviewFails, CheckStop, Pause
<1> QED
  BY <1>1, <1>2, <1>3

LEMMA HashStep ==
  ASSUME TypeOK, HashInv, [Next]_vars
  PROVE  HashInv'
<1>1. CASE UNCHANGED vars
  BY <1>1 DEF vars, HashInv, Hashes, At
<1>2. CASE Next
  <2>1. /\ page \in Nat /\ page' \in Nat /\ page <= page' /\ 0 < page
        /\ PageHash(page) \in Nat /\ PageHash(page) <= page /\ 0 < PageHash(page)
        /\ EntryHash \in Nat /\ EntryHash <= page /\ 0 < EntryHash
        /\ \A p \in Callers : call[p].page \in Nat
        /\ campaign.hash \in Nat /\ \A h \in revisions : h \in Nat
    BY <1>2, PagesMove
  <2>2. \/ campaign'.hash = campaign.hash
        \/ Scan /\ campaign'.hash = PageHash(page)
        \/ Enter /\ campaign'.hash = EntryHash
    BY <1>2, PagesMove
  <2>3. \/ revisions' = revisions
        \/ \E p \in {"scan", "entry"} : Revise(p) /\ revisions' = revisions \cup {call[p].page}
    BY <1>2, PagesMove
  <2>4. \A h \in Hashes' : h <= page'
    <3>1. \A h \in Hashes : h <= page
      BY DEF HashInv
    <3>2. \A p \in {"scan", "entry"} : call[p].page <= page
      BY DEF HashInv
    <3> QED
      BY <2>1, <2>2, <2>3, <3>1, <3>2, TheCallers DEF Hashes
  <2>5. ASSUME NEW p \in {"scan", "entry"}
        PROVE  /\ call'[p].page <= page'
               /\ call'[p].pc \in {"revise", "note"} => call'[p].page > 0
    <3>1. CASE call'[p] = call[p]
      BY <2>1, <3>1, TheCallers DEF HashInv
    <3>2. CASE call'[p] # call[p]
      <4>1. \/ Scan /\ p = "scan"
            \/ Enter /\ p = "entry"
            \/ Revise(p) \/ Announce(p) \/ AnnounceFails(p)
        BY <1>2, <3>2, Movers, TheCallers
      <4>2. \/ call'[p].page \in {PageHash(page), EntryHash}
            \/ call'[p].page = call[p].page /\ call'[p].pc = "announce"
            \/ call'[p].page = 0 /\ call'[p].pc = "idle"
        BY <4>1, AnnouncersMove
      <4>3. call[p].page <= page
        BY DEF HashInv
      <4> QED
        BY <2>1, <4>2, <4>3, TheCallers
    <3> QED
      BY <3>1, <3>2
  <2>6. ASSUME call'["scan"].pc = "note"
        PROVE  call'["scan"].page = campaign'.hash
    <3>1. CASE call'["scan"] = call["scan"]
      <4>1. call["scan"].page = campaign.hash /\ source # "MANUAL"
        BY <2>6, <3>1 DEF HashInv, At
      <4>2. ~ Enter
        BY <4>1 DEF Enter
      <4>3. ~ Scan
        BY <2>6, <3>1 DEF Scan, At
      <4> QED
        BY <2>2, <3>1, <4>1, <4>2, <4>3
    <3>2. CASE call'["scan"] # call["scan"]
      <4>1. Scan
        BY <1>2, <2>6, <3>2, Movers, AnnouncersMove, TheCallers
      <4>2. ~ Changed(PageHash(page))
        BY <2>6, <4>1, AnnouncersMove
      <4>3. ~ Enter
        BY <4>1 DEF Scan, Enter
      <4> QED
        BY <2>2, <4>1, <4>2, <4>3, AnnouncersMove DEF Changed
    <3> QED
      BY <3>1, <3>2
  <2>7. call'["entry"].pc # "note"
    <3>1. CASE call'["entry"] = call["entry"]
      BY <3>1 DEF HashInv, At
    <3>2. CASE call'["entry"] # call["entry"]
      BY <1>2, <3>2, Movers, AnnouncersMove, TheCallers
    <3> QED
      BY <3>1, <3>2
  <2>8. ASSUME source' = "MANUAL"
        PROVE  call'["scan"].pc = "idle"
    <3>1. source' = source
      BY <1>2 DEF Next, EditPage, Evict, Scan, ScanNothing, Rescan, Enter, Reparse, Revise,
                  Announce, AnnounceFails, ParseJob, Fetch, Begin, Extract, CreateRule,
                  UpsertLinks, Conclude, Record, MoveToError, ParseFails, ParseCrashes, Review,
                  ConcludeReview, ReviewFails, CheckStop, Pause
    <3>2. call["scan"].pc = "idle"
      BY <2>8, <3>1 DEF HashInv, At
    <3>3. CASE call'["scan"] = call["scan"]
      BY <3>2, <3>3
    <3>4. CASE call'["scan"] # call["scan"]
      <4>1. ~ Scan
        BY <2>8, <3>1 DEF Scan
      <4> QED
        BY <1>2, <3>4, <4>1, Movers, AnnouncersMove, TheCallers, <3>2 DEF At
    <3> QED
      BY <3>3, <3>4
  <2> QED
    BY <2>4, <2>5, <2>6, <2>7, <2>8 DEF HashInv, At
<1> QED
  BY <1>1, <1>2

\* Types and pages together.
LEMMA TypeInvariance == Spec => [](TypeOK /\ HashInv)
<1>1. Init => TypeOK
  <2> SUFFICES ASSUME Init PROVE TypeOK
    OBVIOUS
  <2>1. call \in [Callers -> Call]
    BY IdleCall, CallMade DEF Init, Pcs
  <2>2. campaign \in [status : CampaignStatus \cup {"NONE"}, version : Nat, hash : 0..MaxPages]
    BY CampaignAssumption DEF Init
  <2>3. /\ job \in JobRow
        /\ left \in [acts : 0..MaxActs, scans : 0..MaxScans, faults : 0..MaxFaults]
    BY CampaignAssumption, NoJobs DEF Init
  <2>4. /\ page \in 1..MaxPages /\ parsed \in 0..MaxPages /\ revisions \subseteq 1..MaxPages
        /\ source \in Sources /\ latest \in Rule \cup {<<>>}
    BY CampaignAssumption DEF Init
  <2>5. /\ permitted \in BOOLEAN /\ scanned \in BOOLEAN /\ missed \in BOOLEAN
        /\ abandoned \in BOOLEAN /\ listed \in BOOLEAN /\ torn \in BOOLEAN
        /\ run \in {"NONE", "RUNNING", "SUCCEEDED", "FAILED"}
    BY DEF Init
  <2> QED
    BY <2>1, <2>2, <2>3, <2>4, <2>5 DEF TypeOK, JobRow
<1>2. Init => HashInv
  BY TheCallers, CampaignAssumption DEF Init, HashInv, Hashes, At, Idle
<1> QED
  BY <1>1, <1>2, TypeStep, HashStep, PTL DEF Spec

\* Every variable of a campaign's life keeps its type: the row has a status of its
\* table, and the attempts, pages and calls stay within their bounds.
THEOREM TypeCorrect == Spec => []TypeOK
BY TypeInvariance, PTL

-----------------------------------------------------------------------------
(* The parse job.                                                           *)

\* What a step makes of the parse job: the queue's part, and the worker's.
LEMMA ParseSteps ==
  ASSUME TypeOK, Next
  PROVE  \/ call'["parse"] = call["parse"] /\ (job' = job \/ Evict \/ Enqueue)
         \/ Fetch
         \/ ~ At("parse", "idle") /\ Throw
         \/ /\ ~ At("parse", "idle") /\ call'["parse"].pc = "idle"
            /\ job' = Done \/ job' = [job EXCEPT !.state = "queued", !.stalled = TRUE]
         \/ ~ At("parse", "idle") /\ job' = job
<1>1. CASE ParseJob \/ ParseFails \/ ParseCrashes
  <2>1. CASE Begin
    <3>1. ~ At("parse", "idle") /\ (Throw \/ UNCHANGED queue)
      BY <2>1 DEF Begin, At
    <3> QED
      BY <3>1 DEF queue
  <2>2. CASE Extract \/ CreateRule \/ UpsertLinks("parse") \/ Conclude
    BY <2>2 DEF Extract, CreateRule, UpsertLinks, Conclude, queue, At
  <2>3. CASE Record
    <3>1. ~ At("parse", "idle") /\ (Throw \/ job' = Done)
      BY <2>3 DEF Record, At
    <3> QED
      BY <2>3, <3>1, ParseGoes
  <2>4. CASE MoveToError
    BY <2>4 DEF MoveToError, At
  <2>5. CASE ParseFails
    <3>1. ~ At("parse", "idle") /\ (Throw \/ UNCHANGED queue)
      BY <2>5 DEF ParseFails, At
    <3> QED
      BY <3>1 DEF queue
  <2>6. CASE ParseCrashes
    BY <2>6, ParseGoes DEF ParseCrashes
  <2> QED
    BY <1>1, <2>1, <2>2, <2>3, <2>4, <2>5, <2>6 DEF ParseJob
<1>2. CASE ~ (ParseJob \/ ParseFails \/ ParseCrashes)
  <2>1. call'["parse"] = call["parse"]
    BY <1>2, Movers, TheCallers
  <2>2. job' = job \/ Evict \/ Enqueue
    BY <1>2 DEF Next, EditPage, Scan, ScanNothing, Rescan, Enter, Reparse, Revise, Announce,
                AnnounceFails, Review, UpsertLinks, ConcludeReview, ReviewFails, CheckStop, Pause,
                queue
  <2> QED
    BY <2>1, <2>2
<1> QED
  BY <1>1, <1>2

\* The worker that parses holds the job, and a job in the queue has attempts left.
LEMMA JobStep ==
  ASSUME TypeOK, JobInv, [Next]_vars
  PROVE  JobInv'
<1>1. CASE UNCHANGED vars
  BY <1>1 DEF vars, queue, JobInv, At
<1>2. CASE Next
  <2>1. job.left \in Nat /\ Attempts \in Nat /\ Attempts > 0
    BY CampaignAssumption DEF TypeOK
  <2>2. CASE call'["parse"] = call["parse"] /\ (job' = job \/ Evict \/ Enqueue)
    BY <2>1, <2>2 DEF JobInv, At, Evict, Enqueue, NoJob
  <2>3. CASE Fetch
    BY <2>1, <2>3, ParseGoes DEF JobInv, At, Fetch, Done, TypeOK
  <2>4. CASE ~ At("parse", "idle") /\ Throw
    BY <2>1, <2>4, ParseGoes DEF JobInv, At, Throw, Done, TypeOK
  <2>5. CASE /\ ~ At("parse", "idle") /\ call'["parse"].pc = "idle"
             /\ job' = Done \/ job' = [job EXCEPT !.state = "queued", !.stalled = TRUE]
    <3>1. CASE job' = Done
      BY <2>5, <3>1 DEF JobInv, At, Done
    <3>2. CASE job' = [job EXCEPT !.state = "queued", !.stalled = TRUE]
      <4>1. job'.state = "queued" /\ job'.left = job.left
        BY <3>2 DEF TypeOK
      <4> QED
        BY <2>1, <2>5, <4>1 DEF JobInv, At
    <3> QED
      BY <2>5, <3>1, <3>2
  <2>6. CASE ~ At("parse", "idle") /\ job' = job
    BY <2>6 DEF JobInv, At
  <2> QED
    BY <1>2, <2>2, <2>3, <2>4, <2>5, <2>6, ParseSteps
<1> QED
  BY <1>1, <1>2

-----------------------------------------------------------------------------
(* The pages that are known are parsed.                                     *)

\* Where the announcers are, unless they have handed over.
Announcing(p) == call[p].pc \in {"revise", "announce"}
Announcers == {"scan", "entry", "reparse"}

\* An announcer hands over to the queue, or the parse is missed.
LEMMA HandedOver ==
  ASSUME TypeOK, TypeOK', Next, NEW p \in Announcers, Announcing(p), ~ Announcing(p)'
  PROVE  missed' \/ job'.state = "queued"
<1>1. Announce(p) \/ AnnounceFails(p)
  <2>1. call'[p] # call[p]
    BY DEF Announcing
  <2>2. p \in {"scan", "entry"} => ~ (Revise(p) /\ ~ At(p, "note"))
    BY AnnouncersMove DEF Announcing
  <2>3. CASE p = "scan"
    BY <2>1, <2>2, <2>3, Movers, TheCallers DEF Announcing, Scan, At
  <2>4. CASE p = "entry"
    BY <2>1, <2>2, <2>4, Movers, TheCallers DEF Announcing, Enter, At
  <2>5. CASE p = "reparse"
    BY <2>1, <2>5, Movers, TheCallers DEF Announcing, Reparse, At
  <2> QED
    BY <2>3, <2>4, <2>5 DEF Announcers
<1>2. CASE Announce(p)
  <2>1. CASE job.state = "absent"
    BY <1>2, <2>1 DEF Announce, Enqueue
  <2>2. CASE job.state # "absent" /\ job.state # "queued"
    <3>1. missed' = TRUE
      BY <1>2, <2>2 DEF Announce, Enqueue
    <3> QED
      BY <3>1
  <2>3. CASE job.state = "queued"
    BY <1>2, <2>3 DEF Announce, Enqueue
  <2> QED
    BY <2>1, <2>2, <2>3
<1>3. CASE AnnounceFails(p)
  BY <1>3 DEF AnnounceFails, Announcing, At
<1> QED
  BY <1>1, <1>2, <1>3

\* A parse that is on its way stays on its way, begins to read, or is missed.
LEMMA PendingStays ==
  ASSUME TypeOK, TypeOK', JobInv, Next, Pending, ~ Extract
  PROVE  missed' \/ Pending'
<1>1. ASSUME NEW p \in Announcers, Announcing(p)
      PROVE  missed' \/ Pending'
  BY <1>1, HandedOver DEF Pending, Announcing, Announcers
<1>2. ASSUME Throw, ~ At("parse", "idle")
      PROVE  missed' \/ Pending'
  <2>1. job.left \in Nat /\ job.left > 0
    BY <1>2 DEF JobInv, TypeOK
  <2>2. CASE job.left = 1
    <3>1. missed' = TRUE
      BY <1>2, <2>2 DEF Throw
    <3> QED
      BY <3>1
  <2>3. CASE job.left > 1
    BY <1>2, <2>3 DEF Throw, Pending
  <2> QED
    BY <2>1, <2>2, <2>3
<1>3. ASSUME Fetch
      PROVE  missed' \/ Pending'
  <2>1. CASE run = "SUCCEEDED"
    <3>1. missed' = TRUE
      BY <1>3, <2>1 DEF Fetch
    <3> QED
      BY <3>1
  <2>2. CASE run # "SUCCEEDED"
    <3>1. call'["parse"].pc = "begin"
      BY <1>3, <2>2, Goes, SetTo, TheCallers DEF Fetch, TypeOK
    <3> QED
      BY <3>1 DEF Pending
  <2> QED
    BY <2>1, <2>2
<1>4. CASE call'["parse"] = call["parse"] /\ (job' = job \/ Evict \/ Enqueue)
  BY <1>1, <1>4 DEF Pending, Announcing, Announcers, Evict, Enqueue
<1>5. ASSUME ~ At("parse", "idle"), call["parse"].pc \in {"begin", "extract", "error"}, ~ Throw,
             call'["parse"] # call["parse"]
      PROVE  missed' \/ Pending'
  <2>1. ParseJob \/ ParseFails \/ ParseCrashes
    BY <1>5, Movers, TheCallers
  <2>2. Begin \/ ParseFails \/ ParseCrashes
    BY <1>5, <2>1 DEF ParseJob, Fetch, CreateRule, UpsertLinks, Conclude, Record, MoveToError, At, JobInv
  <2>3. ASSUME ParseCrashes
        PROVE  missed' \/ Pending'
    <3>1. CASE job.stalled = TRUE
      <4> missed' = TRUE
        BY <2>3, <3>1 DEF ParseCrashes
      <4> QED
        OBVIOUS
    <3>2. CASE job.stalled = FALSE
      BY <2>3, <3>2 DEF ParseCrashes, Pending, TypeOK
    <3> QED
      BY <3>1, <3>2 DEF TypeOK
  <2>4. ASSUME Begin \/ ParseFails
        PROVE  Pending'
    BY <1>5, <2>4, ParseGoes DEF Pending
  <2> QED
    BY <2>2, <2>3, <2>4
<1>6. CASE job.state = "queued"
  <2>1. At("parse", "idle")
    BY <1>6 DEF JobInv
  <2> QED
    BY <1>3, <1>4, <2>1, ParseSteps
<1> QED
  BY <1>1, <1>2, <1>5, <1>6 DEF Pending, Announcing, Announcers, At

\* The page that is being parsed is the newest one that is known.
LEMMA CoverStep ==
  ASSUME TypeOK, TypeOK', HashInv, JobInv, CoverInv, [Next]_vars
  PROVE  CoverInv'
<1>1. CASE UNCHANGED vars
  BY <1>1 DEF vars, queue, ghosts, CoverInv, Hashes, Pending, At
<1>2. CASE Next
  <2> SUFFICES ASSUME NEW h \in Hashes', ~ missed', ~ Pending'
               PROVE  \/ h <= parsed'
                      \/ At("parse", "create")' /\ h <= call'["parse"].page
    BY DEF CoverInv
  <2>1. CASE Extract
    <3>1. Hashes' = Hashes /\ call'["parse"].pc = "create" /\ call'["parse"].page = page
      BY <2>1, ParseGoes DEF Extract, Hashes
    <3> QED
      BY <3>1 DEF HashInv, At
  <2>2. CASE ~ Extract
    <3>1. ~ Pending
      BY <1>2, <2>2, PendingStays
    <3>2. ~ missed
      <4>1. ASSUME missed = TRUE
            PROVE  missed' = TRUE
        BY <1>2, <2>2, <4>1
           DEF Next, EditPage, Evict, Scan, ScanNothing, Rescan, Enter, Reparse, Revise, Announce,
               AnnounceFails, Enqueue, ParseJob, Fetch, Begin, CreateRule, UpsertLinks, Conclude,
               Record, MoveToError, Throw, ParseFails, ParseCrashes, Review, ConcludeReview,
               ReviewFails, CheckStop, Pause, ghosts
      <4> QED
        BY <4>1 DEF TypeOK
    <3>3. h \in Hashes
      <4>1. campaign'.hash = campaign.hash
        <5>1. ~ Enter
          BY AnnouncersMove DEF Pending
        <5>2. CASE Scan
          <6>1. ~ Changed(PageHash(page))
            BY <5>2, AnnouncersMove DEF Pending
          <6> QED
            BY <1>2, <5>1, <6>1, PagesMove DEF Changed
        <5> QED
          BY <1>2, <5>1, <5>2, PagesMove
      <4>2. ASSUME NEW p \in {"scan", "entry"}, Revise(p)
            PROVE  call[p].page = campaign.hash
        <5>1. At(p, "note")
          BY <3>1, <4>2 DEF Revise, Pending, At
        <5> QED
          BY <5>1 DEF HashInv
      <4> QED
        BY <1>2, <4>1, <4>2, PagesMove DEF Hashes
    <3>4. /\ h \in Nat /\ parsed \in Nat /\ parsed' \in Nat /\ parsed <= parsed'
      <4>1. h \in Nat
        BY <1>2, <3>3, PagesMove DEF Hashes
      <4>2. parsed \in Nat /\ parsed' \in Nat
        BY CampaignAssumption DEF TypeOK
      <4>3. parsed' = parsed \/ (CreateRule /\ parsed' >= parsed)
        <5>1. CASE CreateRule
          BY <1>2, <4>2, <5>1, PagesMove, TheCallers DEF CreateRule
        <5>2. CASE ~ CreateRule
          BY <1>2, <5>2
             DEF Next, EditPage, Evict, Scan, ScanNothing, Rescan, Enter, Reparse, Revise, Announce,
                 AnnounceFails, ParseJob, Fetch, Begin, Extract, UpsertLinks, Conclude,
                 Record, MoveToError, ParseFails, ParseCrashes, Review, ConcludeReview,
                 ReviewFails, CheckStop, Pause, ghosts
        <5> QED
          BY <5>1, <5>2
      <4> QED
        BY <4>1, <4>2, <4>3
    <3>5. CASE At("parse", "create") /\ h <= call["parse"].page
      <4>1. CASE call'["parse"] = call["parse"]
        BY <3>5, <4>1 DEF At
      <4>2. CASE call'["parse"] # call["parse"]
        <5>1. ParseJob \/ ParseFails \/ ParseCrashes
          BY <1>2, <4>2, Movers, TheCallers
        <5>2. CreateRule \/ ParseFails \/ ParseCrashes
          <6>1. ~ Fetch
            BY <3>5 DEF Fetch, JobInv, At
          <6> QED
            BY <3>5, <5>1, <6>1 DEF ParseJob, Begin, Extract, UpsertLinks, Conclude, Record,
                                    MoveToError, At
        <5>3. ~ ParseCrashes
          <6>1. ASSUME ParseCrashes, job.stalled = TRUE
                PROVE  missed' = TRUE
            BY <6>1 DEF ParseCrashes
          <6>2. ASSUME ParseCrashes, job.stalled = FALSE
                PROVE  Pending'
            BY <6>2 DEF ParseCrashes, Pending, TypeOK
          <6> QED
            BY <6>1, <6>2 DEF TypeOK
        <5>4. ~ ParseFails
          <6>1. ASSUME ParseFails
                PROVE  call'["parse"].pc = "error"
            BY <3>5, <6>1, ParseMoves, SetTo, TheCallers DEF ParseFails, At, TypeOK
          <6> QED
            BY <6>1 DEF Pending
        <5> QED
          BY <1>2, <3>4, <3>5, <5>2, <5>3, <5>4, PagesMove, TheCallers DEF CreateRule
      <4> QED
        BY <4>1, <4>2
    <3> QED
      BY <3>1, <3>2, <3>3, <3>4, <3>5 DEF CoverInv
  <2> QED
    BY <2>1, <2>2
<1> QED
  BY <1>1, <1>2

-----------------------------------------------------------------------------
(* The rules in force.                                                      *)

\* The campaign's status changes with its version, by a transition of one of the calls,
\* or with its discovery.
LEMMA StatusMoves ==
  ASSUME TypeOK, Next
  PROVE  \/ campaign'.status = campaign.status /\ campaign'.version = campaign.version
         \/ /\ ~ Exists /\ campaign'.status = "DISCOVERED"
            /\ campaign'.version = campaign.version \/ campaign'.version = 0
         \/ \E to \in {"PARSING", "ERROR", "PAUSED"} : Moves(to)
         \/ Conclude /\ Moves(call["parse"].rule.status)
         \/ \E o \in Reviewers : ConcludeReview(o) /\ Moves(call[o].rule.status)
<1>1. CASE campaign' = campaign
  BY <1>1
<1>2. CASE Scan
  BY <1>2 DEF Scan, Exists, TypeOK
<1>3. CASE Enter
  BY <1>3 DEF Enter, Exists
<1>4. CASE Begin \/ MoveToError \/ Pause
  BY <1>1, <1>4 DEF Begin, MoveToError, Pause, Refused
<1>5. CASE Conclude
  BY <1>1, <1>5 DEF Conclude, Refused
<1>6. ASSUME NEW o \in Reviewers, ConcludeReview(o)
      PROVE  campaign' = campaign \/ Moves(call[o].rule.status)
  BY <1>6 DEF ConcludeReview, Refused
<1> QED
  BY <1>1, <1>2, <1>3, <1>4, <1>5, <1>6
     DEF Next, EditPage, Evict, ScanNothing, Rescan, Reparse, Revise, Announce, AnnounceFails,
         ParseJob, Fetch, Extract, CreateRule, UpsertLinks, Record, ParseFails, ParseCrashes,
         Review, ReviewFails, CheckStop

\* The actions that write rules, links and the status of the rules.
WritesRules ==
  \/ CreateRule \/ Conclude \/ \E o \in Reviewers : Review(o) \/ ConcludeReview(o)
  \/ \E p \in Writers : UpsertLinks(p)

\* Any other step leaves the calls that are writing alone, or tears their rules.
LEMMA OthersStep ==
  ASSUME TypeOK, TypeOK', JobInv, Next, ~ WritesRules, ~ torn'
  PROVE  /\ ~ torn /\ latest' = latest /\ permitted' = permitted /\ listed' = listed
         /\ \A p \in Writers : /\ Writing(p)' <=> Writing(p)
                               /\ Writing(p) => call'[p] = call[p]
<1>1. /\ latest' = latest /\ permitted' = permitted /\ listed' = listed
  BY DEF ghosts, WritesRules, Writers, Next, EditPage, Evict, Scan, ScanNothing, Rescan, Enter, Reparse,
         Revise, Announce, AnnounceFails, ParseJob, Fetch, Begin, Extract, Record, MoveToError, ParseFails,
         ParseCrashes, ReviewFails, CheckStop, Pause
<1>2. ~ torn
  <2>1. ASSUME torn = TRUE
        PROVE  torn' = TRUE
    BY <2>1
       DEF WritesRules, Writers, Next, EditPage, Evict, Scan, ScanNothing, Rescan, Enter, Reparse,
           Revise, Announce, AnnounceFails, ParseJob, Fetch, Begin, Extract, Record, MoveToError, ParseFails,
           ParseCrashes, ReviewFails, CheckStop, Pause, ghosts
  <2> QED
    BY <2>1 DEF TypeOK
<1>3. ASSUME NEW p \in Writers
      PROVE  \/ call'[p] = call[p]
             \/ ~ Writing(p) /\ ~ Writing(p)'
  <2>1. CASE p \in Reviewers /\ call'[p] # call[p]
    <3>1. ReviewFails(p)
      BY <2>1, Movers, TheCallers DEF WritesRules, Writers
    <3> QED
      BY <3>1 DEF ReviewFails
  <2>2. CASE p = "parse" /\ call'[p] # call[p]
    <3>1. \/ Fetch \/ Begin \/ Extract \/ Record \/ MoveToError \/ ParseFails \/ ParseCrashes
      BY <2>2, Movers, TheCallers DEF WritesRules, Writers, ParseJob
    <3>2. ~ Writing(p)'
      <4>1. call'["parse"].pc \in {"idle", "begin", "extract", "create", "error"}
        BY <2>2, <3>1, ParseGoes DEF MoveToError
      <4> QED
        BY <2>2, <4>1 DEF Writing
    <3>3. CASE Fetch
      BY <2>2, <3>2, <3>3 DEF Fetch, JobInv, Writing, At
    <3>4. CASE ParseFails \/ ParseCrashes
      <4>1. ASSUME Writing("parse")
            PROVE  torn' = TRUE
        BY <3>4, <4>1 DEF ParseFails, ParseCrashes, Writing
      <4> QED
        BY <2>2, <3>2, <4>1
    <3>5. CASE Begin \/ Extract \/ Record \/ MoveToError
      BY <2>2, <3>2, <3>5 DEF Begin, Extract, Record, MoveToError, Writing, At
    <3> QED
      BY <3>1, <3>3, <3>4, <3>5
  <2> QED
    BY <2>1, <2>2 DEF Writers
<1> QED
  BY <1>1, <1>2, <1>3 DEF Writing

\* Rules, link and status stay in agreement.
LEMMA RulesStep ==
  ASSUME TypeOK, TypeOK', JobInv, RulesInv, [Next]_vars
  PROVE  RulesInv'
<1>1. CASE UNCHANGED vars
  BY <1>1 DEF vars, ghosts, RulesInv, Writing, At
<1>2. CASE Next
  <2> SUFFICES ASSUME ~ torn'
               PROVE  /\ \A p, q \in Writers : Writing(p)' /\ Writing(q)' => p = q
                      /\ \A p \in Writers : Writing(p)' => latest' = call'[p].rule
                      /\ \A p \in Writers : At(p, "links")' =>
                           Lists(call'[p].rule, permitted') = listed'
                      /\ \A p \in Writers : At(p, "move")' =>
                           /\ permitted' = listed'
                           /\ \/ call'[p].version = campaign'.version
                              \/ campaign'.status \notin RuleStatus
                      /\ (\A p \in Writers : ~ Writing(p)') =>
                           /\ permitted' = listed'
                           /\ latest' # <<>> /\ campaign'.status \in RuleStatus =>
                                campaign'.status = latest'.status
    BY DEF RulesInv, Lists
  <2>1. Writers \subseteq Callers /\ call \in [Callers -> Call]
    BY TheCallers DEF Writers, TypeOK
  <2>2. ASSUME NEW p \in Writers, WriteRule(p), ~ Writing(p), permitted' = permitted,
               call'[p].pc = "links", call'[p].rule = latest'
        PROVE  RulesInv'
    <3>1. \A q \in Writers \ {p} : call'[q] = call[q] /\ ~ Writing(q)
      BY <2>1, <2>2 DEF WriteRule, Writers, Writing
    <3>2. Lists(call'[p].rule, permitted') = listed'
      <4>1. CASE latest'.permits = "unlisted"
        <5>1. ~ torn
          BY <2>2, <4>1 DEF WriteRule
        <5>2. permitted = listed
          BY <2>2, <3>1, <5>1 DEF RulesInv
        <5> QED
          BY <2>2, <4>1, <5>2 DEF WriteRule, Lists
      <4>2. CASE latest'.permits # "unlisted"
        BY <2>2, <4>2 DEF WriteRule, Lists
      <4> QED
        BY <4>1, <4>2
    <3> QED
      BY <2>2, <3>1, <3>2 DEF RulesInv, Writing, At, Lists
  <2>3. ASSUME NEW p \in Writers, UpsertLinks(p), call'[p].pc = "move",
               call'[p].rule = call[p].rule, call'[p].version = campaign.version
        PROVE  RulesInv'
    <3>1. /\ ~ torn /\ latest' = latest /\ campaign' = campaign
          /\ permitted' = Lists(call[p].rule, permitted) /\ listed' = listed /\ Writing(p)
      BY <2>3 DEF UpsertLinks, ghosts, Writing, At
    <3>2. \A q \in Writers \ {p} : call'[q] = call[q] /\ ~ Writing(q)
      <4>1. \A q \in Writers \ {p} : call'[q] = call[q]
        BY <2>1, <2>3 DEF UpsertLinks, Goto
      <4> QED
        BY <3>1, <4>1 DEF RulesInv
    <3>3. latest = call[p].rule /\ permitted' = listed
      BY <2>3, <3>1 DEF RulesInv, UpsertLinks
    <3> QED
      BY <2>3, <3>1, <3>2, <3>3 DEF RulesInv, Writing, At
  <2>4. ASSUME NEW p \in Writers, At(p, "move"),
               Moves(call[p].rule.status) \/ Refused(p, call[p].rule.status),
               call'[p].pc \in {"audit", "error", "idle"},
               \A q \in Writers \ {p} : call'[q] = call[q],
               latest' = latest, permitted' = permitted, listed' = listed, torn' = torn
        PROVE  RulesInv'
    <3>1. /\ Writing(p) /\ latest = call[p].rule /\ permitted = listed
          /\ call[p].version = campaign.version \/ campaign.status \notin RuleStatus
      BY <2>4 DEF RulesInv, Writing, At
    <3>2. \A q \in Writers : ~ Writing(q)'
      BY <2>4, <3>1 DEF RulesInv, Writing
    <3>3. campaign'.status \in RuleStatus => campaign'.status = latest'.status
      <4>1. CASE Moves(call[p].rule.status)
        BY <2>4, <3>1, <4>1, MovesTo DEF TypeOK, CampaignRecord
      <4>2. CASE Refused(p, call[p].rule.status)
        <5>1. call[p].rule.status \in RuleStatus
          BY <2>1, CallFields DEF Rule
        <5> QED
          BY <3>1, <4>2, <5>1, RuleMoves DEF Refused
      <4> QED
        BY <2>4, <4>1, <4>2
    <3> QED
      BY <2>4, <3>1, <3>2, <3>3 DEF RulesInv, Writing, At
  <2>5. CASE CreateRule
    <3>1. /\ "parse" \in Writers /\ ~ Writing("parse")
          /\ WriteRule("parse") /\ permitted' = permitted
      BY <2>5 DEF CreateRule, Writers, Writing, At
    <3> QED
      BY <2>2, <2>5, <3>1, ParseGoes DEF RulesInv
  <2>6. ASSUME NEW o \in Reviewers, Review(o)
        PROVE  RulesInv'
    BY <2>2, <2>6, ReviewsGo DEF Review, Writers, Writing, At
  <2>7. ASSUME NEW p \in Writers, UpsertLinks(p)
        PROVE  RulesInv'
    BY <2>3, <2>7, ParseGoes, ReviewsGo DEF Writers
  <2>8. CASE Conclude
    <3>1. \A q \in Writers \ {"parse"} : call'[q] = call[q]
      BY <2>1, <2>8 DEF Conclude
    <3>2. /\ At("parse", "move")
          /\ Moves(call["parse"].rule.status) \/ Refused("parse", call["parse"].rule.status)
          /\ latest' = latest /\ permitted' = permitted /\ listed' = listed /\ torn' = torn
      BY <2>8 DEF Conclude, ghosts
    <3>3. call'["parse"].pc \in {"audit", "error", "idle"}
      BY <2>8, ParseGoes
    <3>4. "parse" \in Writers
      BY DEF Writers
    <3> QED
      BY <2>4, <3>1, <3>2, <3>3, <3>4 DEF RulesInv
  <2>9. ASSUME NEW o \in Reviewers, ConcludeReview(o)
        PROVE  RulesInv'
    <3>1. \A q \in Writers \ {o} : call'[q] = call[q]
      BY <2>1, <2>9 DEF ConcludeReview, Return
    <3> QED
      BY <2>4, <2>9, <3>1, ReviewsGo DEF ConcludeReview, Writers, ghosts
  <2>10. CASE ~ WritesRules
    <3>1. /\ ~ torn /\ latest' = latest /\ permitted' = permitted /\ listed' = listed
          /\ \A p \in Writers : /\ Writing(p)' <=> Writing(p)
                                /\ Writing(p) => call'[p] = call[p]
      BY <1>2, <2>10, OthersStep
    <3>2. \/ campaign'.status = campaign.status /\ campaign'.version = campaign.version
          \/ campaign'.status \notin RuleStatus
      <4>1. \/ campaign'.status = campaign.status /\ campaign'.version = campaign.version
            \/ campaign'.status = "DISCOVERED"
            \/ \E to \in {"PARSING", "ERROR", "PAUSED"} : Moves(to)
        BY <1>2, <2>10, StatusMoves DEF WritesRules
      <4> QED
        BY <4>1, MovesTo DEF RuleStatus, TypeOK, CampaignRecord
    <3> QED
      BY <3>1, <3>2 DEF RulesInv, Writing, At
  <2> QED
    BY <2>5, <2>6, <2>7, <2>8, <2>9, <2>10 DEF WritesRules, RulesInv
<1> QED
  BY <1>1, <1>2

-----------------------------------------------------------------------------
\* The inductive invariant holds initially, and every step preserves it.
THEOREM Invariance == Spec => []IInv
<1>1. Init => IInv
  <2> SUFFICES ASSUME Init PROVE IInv
    OBVIOUS
  <2>1. \A p \in Callers : call[p].pc = "idle"
    BY DEF Init, Idle
  <2>2. RulesInv
    BY <2>1, TheCallers DEF Init, RulesInv, Writing, Writers, At
  <2>3. HashInv
    BY TheCallers, CampaignAssumption DEF Init, HashInv, Hashes, At, Idle
  <2>4. JobInv /\ CoverInv
    BY <2>1, TheCallers DEF Init, NoJob, JobInv, CoverInv, Hashes, At
  <2> QED
    BY <2>2, <2>3, <2>4 DEF IInv
<1>2. TypeOK /\ TypeOK' /\ IInv /\ [Next]_vars => IInv'
  BY RulesStep, HashStep, JobStep, CoverStep DEF IInv
<1> QED
  BY <1>1, <1>2, TypeCorrect, PTL DEF Spec

\* Once runParse and saveReviewedRules are through, the status is that of the latest rules
\* and the link is what the newest rules that list it say, whatever ran beside them, unless
\* a statement failed in between or another call was writing, too: for every number of
\* reviewers and every set of rules.
THEOREM RulesAreInForce == Spec => []RulesInForce
<1>1. IInv => RulesInForce
  BY TheCallers DEF IInv, RulesInv, RulesInForce, Quiet, Writing, Writers, At
<1> QED
  BY <1>1, Invariance, PTL

\* The newest revision of the page has been parsed once everything is quiet, unless its
\* parse was missed: for every history of edits, scans, retries and evictions.
THEOREM RevisionsAreParsed == Spec => []RevisionsParsed
<1>1. IInv => RevisionsParsed
  <2> SUFFICES ASSUME IInv, Quiet, job.state # "queued", ~ missed, NEW hash \in revisions
               PROVE  hash <= parsed
    BY DEF RevisionsParsed
  <2>1. ~ Pending /\ ~ At("parse", "create")
    BY TheCallers DEF Quiet, Pending, At
  <2> QED
    BY <2>1 DEF IInv, CoverInv, Hashes
<1> QED
  BY <1>1, Invariance, PTL

-----------------------------------------------------------------------------
(* The refinement of LifecycleRow.                                          *)

\* A campaign that is not there has never been moved.
Unmoved == campaign.status = "NONE" => campaign.version = 0

LEMMA UnmovedStep ==
  ASSUME TypeOK, Unmoved, [Next]_vars
  PROVE  Unmoved'
<1>1. CASE UNCHANGED vars
  BY <1>1 DEF vars, Unmoved
<1>2. ASSUME NEW to, to # "NONE", Moves(to)
      PROVE  campaign'.status # "NONE"
  BY <1>2, MovesTo DEF TypeOK, CampaignRecord
<1>3. \A p \in Callers : call[p].rule.status # "NONE"
  BY CallFields DEF TypeOK, Rule, RuleStatus
<1>4. CASE Next
  BY <1>2, <1>3, <1>4, StatusMoves, TheCallers DEF Unmoved
<1> QED
  BY <1>1, <1>4

\* A transition of the campaign is a transition of the abstract row.
LEMMA RowMoves ==
  ASSUME TypeOK, NEW to \in CampaignStatus, Moves(to)
  PROVE  CampaignRow!Next
<1>1. /\ CanTransition("Campaign", campaign.status, to)
      /\ campaign' = [status |-> to, version |-> campaign.version + 1, hash |-> campaign.hash]
  BY MovesTo DEF TypeOK, CampaignRecord
<1>2. Exists /\ Exists' /\ campaign.status # "NONE"
  BY <1>1, Statuses, RuleMoves DEF Exists
<1>3. /\ Row["campaign"] = [status |-> campaign.status, version |-> campaign.version]
      /\ Row' = [Row EXCEPT !["campaign"] = [status |-> to, version |-> Row["campaign"].version + 1]]
  BY <1>1, <1>2 DEF Row
<1>4. CampaignRow!Transition("campaign", to)
  BY <1>1, <1>2, <1>3 DEF CampaignRow!Transition, Legal
<1> QED
  BY <1>4 DEF CampaignRow!Next

\* Every step is a transition of the abstract row, or leaves it alone.
LEMMA RowStep ==
  ASSUME TypeOK, Unmoved, Unmoved', [Next]_vars
  PROVE  [CampaignRow!Next]_Row
<1>1. CASE UNCHANGED vars
  BY <1>1 DEF vars, Row, Exists
<1>2. CASE campaign'.status = campaign.status /\ campaign'.version = campaign.version
  BY <1>2 DEF Row, Exists
<1>3. CASE /\ ~ Exists /\ campaign'.status = "DISCOVERED"
           /\ campaign'.version = campaign.version \/ campaign'.version = 0
  BY <1>3 DEF Row, Exists, Unmoved
<1>4. \A p \in Callers : call[p].rule.status \in CampaignStatus
  BY Statuses, CallFields DEF TypeOK, Rule
<1>5. ASSUME NEW to \in CampaignStatus, Moves(to)
      PROVE  CampaignRow!Next
  BY <1>5, RowMoves
<1>6. CASE Next
  BY <1>2, <1>3, <1>4, <1>5, <1>6, StatusMoves, Statuses, TheCallers
<1> QED
  BY <1>1, <1>6

\* Discovery, entry, parsing, review and the stop conditions move the campaign by the
\* atomic, legal, counted transitions that guardedTransition promises, and the upserts of
\* discovery leave its status and version alone.
THEOREM Implementation == Spec => ImplementsLifecycle
<1>1. Init => CampaignRow!Init /\ Unmoved
  BY DEF Init, CampaignRow!Init, Row, Exists, Unmoved
<1>2. TypeOK /\ Unmoved /\ [Next]_vars => Unmoved'
  BY UnmovedStep
<1>3. TypeOK /\ Unmoved /\ Unmoved' /\ [Next]_vars => [CampaignRow!Next]_Row
  BY RowStep
<1> QED
  BY <1>1, <1>2, <1>3, TypeCorrect, PTL DEF Spec, ImplementsLifecycle, CampaignRow!Spec
=============================================================================
