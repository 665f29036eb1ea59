-------------------------- MODULE CampaignLifecycle --------------------------
(***************************************************************************)
(* One campaign from its discovery, or its manual entry, to parsed rules:  *)
(* the discovery job that watches the campaign's page, the parse job and   *)
(* the requests that enqueue it, the operators who save reviewed rules,    *)
(* and the stop conditions that pause the campaign after a publication.    *)
(*                                                                         *)
(* A guarded transition is one step, or a StaleWriteError when the row has *)
(* changed since the call came to it: GuardedTransition shows that this is *)
(* what the read and the versioned update amount to.                       *)
(***************************************************************************)
EXTENDS StateMachines, Naturals

CONSTANTS Reviewers,   \* operators who save reviewed rules
          Sources,     \* the campaign sources considered
          Rules,       \* the rules a page or an operator may yield
          Attempts,    \* defaultJobOptions.attempts
          MaxPages,    \* bound: contents the campaign's page has over time
          MaxActs,     \* bound: reparse requests, reviews, publications
          MaxScans,    \* bound: discovery runs, or manual entries
          MaxFaults    \* bound: crashes and failed calls

\* What of a rule row the others depend on: its derived status (deriveRuleStatus:
\* confident, and without uncertainties), and whether it lists the link, and the link
\* may be downloaded.
RuleStatus == {"PARSED", "NEEDS_MANUAL_REVIEW"}
Rule == [status : RuleStatus, permits : {"yes", "no", "unlisted"}]

ASSUME CampaignAssumption ==
  /\ Rules \subseteq Rule
  /\ Reviewers \cap {"scan", "entry", "reparse", "parse", "stop"} = {}
  /\ Sources \subseteq {"CONTENT_REWARDS", "WHOP_FORUM", "MANUAL"}
  /\ Attempts \in Nat \ {0} /\ MaxPages \in Nat \ {0}
  /\ MaxActs \in Nat /\ MaxScans \in Nat /\ MaxFaults \in Nat

VARIABLES
  source,      \* fixed
  page,        \* the content of the campaign's page
  campaign,    \* the Campaign row
  revisions,   \* the page hashes of its CampaignRevision rows
  latest,      \* its latest CampaignRule row
  permitted,   \* the CampaignResource row of one link: may it be downloaded?
  job,         \* the parse job
  run,         \* its JobRun
  scanned,     \* the discovery queue's JobRun "run" has SUCCEEDED
  call,        \* call[p]: what process p is doing
  left,        \* what the bounds leave
  parsed,      \* ghost: the newest page a rule row was extracted from
  missed,      \* ghost: since the last extraction a parse was ignored or given up
  abandoned,   \* ghost: the last parse job was given up by a fault outside its try block
  listed,      \* ghost: what the newest rule row that lists the link says of it
  torn         \* ghost: status or link come from a broken write, or from one beside another

queue == <<job, run>>
ghosts == <<parsed, missed, abandoned, listed, torn>>
vars == <<source, page, campaign, revisions, latest, permitted, queue, scanned, call, left,
          ghosts>>

Callers == {"scan", "entry", "reparse", "parse", "stop"} \cup Reviewers
CampaignStatus == StatusesOf("Campaign")

\* Where a call stands, with the page it works from, the rules it writes, and the
\* version of the row when it came to a guarded transition.
Call == [pc : {"idle", "revise", "note", "announce", "begin", "extract", "create", "links",
               "move", "audit", "error", "pause"},
         page : 0..MaxPages, rule : Rule, version : Nat]

NoJob == [state |-> "absent", left |-> 0, stalled |-> FALSE]
Done == [state |-> "done", left |-> 0, stalled |-> FALSE]
NoRule == [status |-> "NEEDS_MANUAL_REVIEW", permits |-> "no"]
Idle == [pc |-> "idle", page |-> 0, rule |-> NoRule, version |-> 0]

TypeOK ==
  /\ source \in Sources
  /\ page \in 1..MaxPages /\ parsed \in 0..MaxPages
  /\ campaign \in [status : CampaignStatus \cup {"NONE"}, version : Nat, hash : 0..MaxPages]
  /\ revisions \subseteq 1..MaxPages
  /\ latest \in Rule \cup {<<>>}
  /\ permitted \in BOOLEAN
  /\ job \in [state : {"absent", "queued", "active", "done"}, left : 0..Attempts, stalled : BOOLEAN]
  /\ run \in {"NONE", "RUNNING", "SUCCEEDED", "FAILED"}
  /\ scanned \in BOOLEAN
  /\ missed \in BOOLEAN /\ abandoned \in BOOLEAN /\ listed \in BOOLEAN /\ torn \in BOOLEAN
  /\ call \in [Callers -> Call]
  /\ left \in [acts : 0..MaxActs, scans : 0..MaxScans, faults : 0..MaxFaults]

Init ==
  /\ source \in Sources
  /\ page = 1
  /\ campaign = [status |-> "NONE", version |-> 0, hash |-> 0]
  /\ revisions = {} /\ latest = <<>> /\ permitted = FALSE
  /\ job = NoJob /\ run = "NONE"
  /\ scanned = FALSE
  /\ call = [p \in Callers |-> Idle]
  /\ left = [acts |-> MaxActs, scans |-> MaxScans, faults |-> MaxFaults]
  /\ parsed = 0 /\ missed = FALSE /\ abandoned = FALSE /\ listed = FALSE /\ torn = FALSE

-----------------------------------------------------------------------------
(* Calls, guarded transitions, and the parse queue.                         *)

Exists == campaign.status # "NONE"
At(p, pc) == call[p].pc = pc
Step(p, pc) == call' = [call EXCEPT ![p].pc = pc]
\* To a guarded transition.
Goto(p, pc) == call' = [call EXCEPT ![p].pc = pc, ![p].version = campaign.version]
Return(p) == call' = [call EXCEPT ![p] = Idle]
Spend(budget) == left[budget] > 0 /\ left' = [left EXCEPT ![budget] = @ - 1]

Moves(to) ==
  /\ CanTransition("Campaign", campaign.status, to)
  /\ campaign' = [campaign EXCEPT !.status = to, !.version = @ + 1]

\* assertTransition throws, or the versioned update matches no row.
Refused(p, to) ==
  /\ \/ ~ CanTransition("Campaign", campaign.status, to)
     \/ campaign.version # call[p].version
  /\ UNCHANGED campaign

\* enqueueParse: ignored while a job has the id.  One that is still queued will read
\* the page as it is then.
Enqueue ==
  IF job.state = "absent"
  THEN /\ job' = [state |-> "queued", left |-> Attempts, stalled |-> FALSE]
       /\ UNCHANGED missed
  ELSE UNCHANGED job /\ missed' = (missed \/ job.state # "queued")

\* BullMQ drops a finished job at last, and its id with it.
Evict ==
  /\ job.state = "done"
  /\ job' = NoJob
  /\ UNCHANGED <<source, page, campaign, revisions, latest, permitted, run, scanned, call, left,
                 ghosts>>

\* The parse job throws: withJobRun records the failure unless its row is gone.
Throw ==
  /\ run' = IF run = "NONE" THEN "NONE" ELSE "FAILED"
  /\ job' = IF job.left > 1 THEN [job EXCEPT !.state = "queued", !.left = @ - 1] ELSE Done
  /\ missed' = (missed \/ job.left = 1)
  /\ Return("parse")

-----------------------------------------------------------------------------
(* Discovery and manual entry.                                              *)

\* The campaign's owner edits the page.
EditPage ==
  /\ page < MaxPages
  /\ page' = page + 1
  /\ UNCHANGED <<source, campaign, revisions, latest, permitted, queue, scanned, call, left,
                 ghosts>>

\* Cards are hashed; forum posts are known by their link, and so are manual entries, by
\* a hash of their own.
PageHash(content) == IF source = "CONTENT_REWARDS" THEN content ELSE 1
EntryHash == 1

\* Mutant of Changed: the row is compared as the upsert has left it.
ChangedAfterwards(hash) == ~ Exists

\* isNew, isRevised.
Changed(hash) == ~ Exists \/ campaign.hash # hash

\* The discovery job, unless its JobRun says it is done: the cards, and the upsert
\* of the campaign.  The discovery queue runs one job at a time.
Scan ==
  /\ source # "MANUAL" /\ ~ scanned
  /\ At("scan", "idle") /\ Spend("scans")
  /\ LET hash == PageHash(page)
     IN /\ campaign' = [campaign EXCEPT !.hash = hash,
                          !.status = IF Exists THEN @ ELSE "DISCOVERED"]
        /\ call' = [call EXCEPT !["scan"].page = hash,
                                !["scan"].pc = IF Changed(hash) THEN "revise" ELSE "note"]
  /\ UNCHANGED <<source, page, revisions, latest, permitted, queue, scanned, ghosts>>

\* The adapter throws: the run goes on without it, and succeeds.
ScanNothing ==
  /\ source # "MANUAL" /\ ~ scanned
  /\ At("scan", "idle") /\ Spend("faults")
  /\ scanned' = TRUE
  /\ UNCHANGED <<source, page, campaign, revisions, latest, permitted, queue, call, ghosts>>

\* An operator has the finished discovery run's JobRun deleted (jobs/retry).
Rescan ==
  /\ scanned /\ scanned' = FALSE
  /\ left.scans > 0
  /\ UNCHANGED <<source, page, campaign, revisions, latest, permitted, queue, call, left, ghosts>>

\* createFromUrl, createFromText: a new campaign, or the same link or text once more.
Enter ==
  /\ source = "MANUAL"
  /\ At("entry", "idle") /\ Spend("scans")
  /\ campaign' = IF Exists THEN campaign
                 ELSE [status |-> "DISCOVERED", version |-> 0, hash |-> EntryHash]
  /\ call' = [call EXCEPT !["entry"].pc = "revise", !["entry"].page = EntryHash]
  /\ UNCHANGED <<source, page, revisions, latest, permitted, queue, scanned, ghosts>>

\* The revision, deduplicated on the hash; a page that has not changed is only noted.
Revise(p) ==
  /\ revisions' = revisions \cup {call[p].page}
  /\ \/ At(p, "revise") /\ Step(p, "announce") /\ UNCHANGED scanned
     \/ At(p, "note") /\ Return(p) /\ scanned' = TRUE
  /\ UNCHANGED <<source, page, campaign, latest, permitted, queue, left, ghosts>>

\* The audit and enqueueParse; the discovery run has succeeded.
Announce(p) ==
  /\ At(p, "announce")
  /\ Enqueue
  /\ Return(p)
  /\ scanned' = (scanned \/ p = "scan")
  /\ UNCHANGED <<source, page, campaign, revisions, latest, permitted, run, left, parsed, abandoned,
                 listed, torn>>

\* The process dies, or a statement throws: the discovery run is retried, the
\* operator is told.
AnnounceFails(p) ==
  /\ call[p].pc \in {"revise", "note", "announce"} /\ Spend("faults")
  /\ Return(p)
  /\ missed' = (missed \/ ~ At(p, "note"))
  /\ UNCHANGED <<source, page, campaign, revisions, latest, permitted, queue, scanned, parsed,
                 abandoned, listed, torn>>

\* The reparse route deletes the JobRun, whether or not that succeeds, and enqueues.
Reparse ==
  /\ Exists /\ At("reparse", "idle") /\ Spend("acts")
  /\ run' \in {"NONE", run}
  /\ Step("reparse", "announce")
  /\ UNCHANGED <<source, page, campaign, revisions, latest, permitted, job, scanned, ghosts>>

-----------------------------------------------------------------------------
(* The parse job: withJobRun around parseAndPersist.                        *)

\* Mutant of Fetch: a run that is RUNNING is taken to be somebody else's.
FetchSkipsRunning ==
  /\ job.state = "queued"
  /\ IF run \in {"RUNNING", "SUCCEEDED"}
     THEN /\ job' = Done
          /\ missed' = TRUE
          /\ UNCHANGED <<run, call, abandoned>>
     ELSE /\ job' = [job EXCEPT !.state = "active"]
          /\ run' = "RUNNING"
          /\ Goto("parse", "begin")
          /\ abandoned' = FALSE
          /\ UNCHANGED missed
  /\ UNCHANGED <<source, page, campaign, revisions, latest, permitted, scanned, left, parsed, listed,
                 torn>>

Fetch ==
  /\ job.state = "queued"
  /\ IF run = "SUCCEEDED"
     THEN /\ job' = Done
          /\ missed' = TRUE
          /\ UNCHANGED <<run, call, abandoned>>
     ELSE /\ job' = [job EXCEPT !.state = "active"]
          /\ run' = "RUNNING"
          /\ Goto("parse", "begin")
          /\ abandoned' = FALSE
          /\ UNCHANGED missed
  /\ UNCHANGED <<source, page, campaign, revisions, latest, permitted, scanned, left, parsed, listed,
                 torn>>

\* transition.campaign(PARSING), outside the try block.
Begin ==
  /\ At("parse", "begin")
  /\ \/ Moves("PARSING") /\ call' = [call EXCEPT !["parse"] = [Idle EXCEPT !.pc = "extract"]] /\ UNCHANGED <<queue, missed>>
     \/ Refused("parse", "PARSING") /\ Throw
  /\ UNCHANGED <<source, page, revisions, latest, permitted, scanned, left, parsed,
                 abandoned, listed, torn>>

\* parseCampaign: the page as it is now.
Extract ==
  /\ At("parse", "extract")
  /\ call' = [call EXCEPT !["parse"].pc = "create", !["parse"].page = page]
  /\ missed' = FALSE
  /\ UNCHANGED <<source, page, campaign, revisions, latest, permitted, queue, scanned, left,
                 parsed, abandoned, listed, torn>>

\* What a rule row makes of the link's permission: nothing, if the row does not list it.
Lists(rule, before) == IF rule.permits = "unlisted" THEN before ELSE rule.permits = "yes"

\* A validated rule row with its derived status, beside whatever another call has
\* under way.
WriteRule(p) ==
  /\ latest' \in Rules
  /\ call' = [call EXCEPT ![p] = [Idle EXCEPT !.pc = "links", !.rule = latest']]
  /\ listed' = Lists(latest', listed)
  /\ torn' = \/ \E q \in Reviewers \cup {"parse"} : q # p /\ call[q].pc \in {"links", "move"}
             \/ torn /\ latest'.permits = "unlisted"

CreateRule ==
  /\ At("parse", "create")
  /\ WriteRule("parse")
  /\ parsed' = IF call["parse"].page > parsed THEN call["parse"].page ELSE parsed
  /\ UNCHANGED <<source, page, campaign, revisions, permitted, queue, scanned, left, missed,
                 abandoned>>

\* The resource links: permitted as the rules say, unless the URL is unsafe.  A link that
\* the rules no longer list keeps its row.
UpsertLinks(p) ==
  /\ At(p, "links")
  /\ permitted' = Lists(call[p].rule, permitted)
  /\ Goto(p, "move")
  /\ UNCHANGED <<source, page, campaign, revisions, latest, queue, scanned, left, ghosts>>

\* The guarded transition to the status of the rules; runParse throws what it throws.
Conclude ==
  /\ At("parse", "move")
  /\ \/ Moves(call["parse"].rule.status) /\ call' = [call EXCEPT !["parse"] = [Idle EXCEPT !.pc = "audit"]]
     \/ Refused("parse", call["parse"].rule.status) /\ call' = [call EXCEPT !["parse"] = [Idle EXCEPT !.pc = "error", !.version = campaign.version]]
  /\ UNCHANGED <<source, page, revisions, latest, permitted, queue, scanned, left, ghosts>>

\* parseAndPersist has returned, with its audit; withJobRun records it, if the row
\* is still there.
Record ==
  /\ At("parse", "audit")
  /\ IF run = "NONE"
     THEN Throw
     ELSE /\ run' = "SUCCEEDED"
          /\ job' = Done
          /\ Return("parse")
          /\ UNCHANGED missed
  /\ UNCHANGED <<source, page, campaign, revisions, latest, permitted, scanned, left, parsed,
                 abandoned, listed, torn>>

\* The catch block: the transition's own errors are swallowed.
MoveToError ==
  /\ At("parse", "error")
  /\ Moves("ERROR") \/ Refused("parse", "ERROR")
  /\ Throw
  /\ UNCHANGED <<source, page, revisions, latest, permitted, scanned, left, parsed,
                 abandoned, listed, torn>>

\* A statement of the job throws: outside the try block, or inside it.
ParseFails ==
  /\ Spend("faults")
  /\ \/ /\ call["parse"].pc \in {"begin", "error"}
        /\ Throw
        /\ abandoned' = (job.left = 1)
     \/ /\ call["parse"].pc \in {"extract", "create", "links", "move", "audit"}
        /\ call' = [call EXCEPT !["parse"] = [Idle EXCEPT !.pc = "error", !.version = campaign.version]]
        /\ UNCHANGED <<queue, missed, abandoned>>
  /\ torn' = (torn \/ call["parse"].pc \in {"links", "move"})
  /\ UNCHANGED <<source, page, campaign, revisions, latest, permitted, scanned, parsed, listed>>

\* The worker dies: the job is handed out again, or failed for good where it has stalled
\* before (BullMQ's maxStalledCount is 1).
ParseCrashes ==
  /\ ~ At("parse", "idle") /\ Spend("faults")
  /\ job' = IF job.stalled THEN Done ELSE [job EXCEPT !.state = "queued", !.stalled = TRUE]
  /\ missed' = (missed \/ job.stalled)
  /\ abandoned' = job.stalled
  /\ torn' = (torn \/ call["parse"].pc \in {"links", "move"})
  /\ Return("parse")
  /\ UNCHANGED <<source, page, campaign, revisions, latest, permitted, run, scanned, parsed,
                 listed>>

-----------------------------------------------------------------------------
(* Reviewed rules and stop conditions.                                      *)

\* saveReviewedRules: the corrected rules are a row of their own.
Review(o) ==
  /\ Exists /\ At(o, "idle") /\ Spend("acts")
  /\ WriteRule(o)
  /\ UNCHANGED <<source, page, campaign, revisions, permitted, queue, scanned, parsed, missed,
                 abandoned>>

\* Mutant of ConcludeReview: the rules are saved, the campaign stays as it is.
ConcludeReviewKept(o) ==
  /\ At(o, "move")
  /\ UNCHANGED campaign
  /\ Return(o)
  /\ UNCHANGED <<source, page, revisions, latest, permitted, queue, scanned, left, ghosts>>

\* The transition's errors are logged, and the audit written.
ConcludeReview(o) ==
  /\ At(o, "move")
  /\ Moves(call[o].rule.status) \/ Refused(o, call[o].rule.status)
  /\ Return(o)
  /\ UNCHANGED <<source, page, revisions, latest, permitted, queue, scanned, left, ghosts>>

ReviewFails(o) ==
  /\ call[o].pc \in {"links", "move"} /\ Spend("faults")
  /\ Return(o)
  /\ torn' = TRUE
  /\ UNCHANGED <<source, page, campaign, revisions, latest, permitted, queue, scanned, parsed,
                 missed, abandoned, listed>>

\* applyCampaignStopConditions after a publication: the row may be paused, and by the
\* latest rules the posts, the budget or the clock have reached a limit.
CheckStop ==
  /\ latest # <<>> /\ At("stop", "idle") /\ Spend("acts")
  /\ campaign.status \in {"PARSED", "ACTIVE"}
  /\ Goto("stop", "pause")
  /\ UNCHANGED <<source, page, campaign, revisions, latest, permitted, queue, scanned, ghosts>>

\* Mutant of Pause: the status is written as an update would.
PauseAnyway ==
  /\ At("stop", "pause")
  /\ campaign' = [campaign EXCEPT !.status = "PAUSED", !.version = @ + 1]
  /\ Return("stop")
  /\ UNCHANGED <<source, page, revisions, latest, permitted, queue, scanned, left, ghosts>>

Pause ==
  /\ At("stop", "pause")
  /\ Moves("PAUSED") \/ Refused("stop", "PAUSED")
  /\ Return("stop")
  /\ UNCHANGED <<source, page, revisions, latest, permitted, queue, scanned, left, ghosts>>

-----------------------------------------------------------------------------
ParseJob ==
  \/ Fetch \/ Begin \/ Extract \/ CreateRule \/ UpsertLinks("parse") \/ Conclude \/ Record
  \/ MoveToError

Next ==
  \/ EditPage \/ Evict
  \/ Scan \/ ScanNothing \/ Rescan \/ Enter \/ Reparse
  \/ \E p \in {"scan", "entry"} : Revise(p)
  \/ \E p \in {"scan", "entry", "reparse"} : Announce(p) \/ AnnounceFails(p)
  \/ ParseJob \/ ParseFails \/ ParseCrashes
  \/ \E o \in Reviewers :
       Review(o) \/ UpsertLinks(o) \/ ConcludeReview(o) \/ ReviewFails(o)
  \/ CheckStop \/ Pause

Spec == Init /\ [][Next]_vars

\* The parse worker runs; nobody else has to do anything.
FairSpec == Spec /\ WF_vars(ParseJob)

-----------------------------------------------------------------------------
(* Properties.                                                              *)

Quiet == \A p \in Callers : At(p, "idle")

\* Once everything is quiet, the newest revision of the page has been parsed, unless
\* a parse was ignored by the queue or skipped by its JobRun, was given up, or its
\* request was lost, and none has read the page since.  upsertDiscovered, the parse
\* job and the reparse route together.
RevisionsParsed ==
  Quiet /\ job.state # "queued" /\ ~ missed => \A hash \in revisions : hash <= parsed

\* What a parse or a review has concluded is what the rules say: the status of the
\* campaign is that of the latest rules, and a link may be downloaded as the newest rules
\* that list it say, which need not be the latest, when they were not written beside
\* another call's and no statement in between failed.  runParse and saveReviewedRules
\* write rule, links and status one after the other.
RulesInForce ==
  Quiet /\ ~ torn =>
    /\ permitted = listed
    /\ latest # <<>> /\ campaign.status \in RuleStatus => campaign.status = latest.status

\* A campaign does not stay PARSING: whatever throws, some attempt of the parse job ends
\* it, unless the job is given up by a fault that its catch block cannot answer: it stalls
\* twice, or its last attempt fails at the transition to PARSING or at the one to ERROR.
\* parseAndPersist, withJobRun.
ParsingSettles == campaign.status = "PARSING" ~> campaign.status # "PARSING" \/ abandoned

\* Discovery, parsing, review and pausing together move the campaign's row as the
\* promise of guardedTransition says: by atomic, legal, counted transitions; the
\* upserts of discovery leave its status and version alone.
Legal(from, to) == CanTransition("Campaign", from, to)
Row == [id \in {"campaign"} |->
          [status  |-> IF Exists THEN campaign.status ELSE "DISCOVERED",
           version |-> campaign.version]]
CampaignRow == INSTANCE LifecycleRow WITH
    Statuses <- CampaignStatus, Legal <- Legal, Deleted <- "NONE", Ids <- {"campaign"},
    Initial <- "DISCOVERED", rows <- Row
ImplementsLifecycle == CampaignRow!Spec
-----------------------------------------------------------------------------
(* The inductive invariant behind the safety properties.                    *)

Writers == Reviewers \cup {"parse"}
Writing(p) == call[p].pc \in {"links", "move"}

\* Unless the rules are torn, at most one call is writing, and it is writing the latest:
\* the link and the status agree with them once they are written, and a transition that
\* will be refused leaves no status of rules behind.
RulesInv ==
  ~ torn =>
    /\ \A p, q \in Writers : Writing(p) /\ Writing(q) => p = q
    /\ \A p \in Writers : Writing(p) => latest = call[p].rule
    /\ \A p \in Writers : At(p, "links") => Lists(call[p].rule, permitted) = listed
    /\ \A p \in Writers : At(p, "move") =>
         /\ permitted = listed
         /\ call[p].version = campaign.version \/ campaign.status \notin RuleStatus
    /\ (\A p \in Writers : ~ Writing(p)) =>
         /\ permitted = listed
         /\ latest # <<>> /\ campaign.status \in RuleStatus => campaign.status = latest.status

\* The hashes the revisions have, or will have.
Hashes == revisions \cup {campaign.hash}

\* Nothing knows a page that has not been there yet, and a scan that only notes the
\* page has found it unchanged.
HashInv ==
  /\ \A hash \in Hashes : hash <= page
  /\ \A p \in {"scan", "entry"} :
       /\ call[p].page <= page
       /\ call[p].pc \in {"revise", "note"} => call[p].page > 0
  /\ At("scan", "note") => call["scan"].page = campaign.hash
  /\ ~ At("entry", "note")
  /\ source = "MANUAL" => At("scan", "idle")

\* The parse worker holds the job, and a job that is not finished has attempts left.
JobInv ==
  /\ ~ At("parse", "idle") => job.state = "active"
  /\ job.state \in {"queued", "active"} => job.left > 0

\* A parse is on its way that will read the page, or another attempt will.
Pending ==
  \/ job.state = "queued"
  \/ call["parse"].pc \in {"begin", "extract", "error"}
  \/ \E p \in {"scan", "entry", "reparse"} : call[p].pc \in {"revise", "announce"}

\* A page that is known has been parsed, is being parsed, or will be, unless its parse
\* was missed.
CoverInv ==
  \A hash \in Hashes :
    \/ hash <= parsed \/ missed \/ Pending
    \/ At("parse", "create") /\ hash <= call["parse"].page

IInv == RulesInv /\ HashInv /\ JobInv /\ CoverInv
=============================================================================
