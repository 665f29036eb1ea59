---------------------------- MODULE ClipPipeline ----------------------------
(***************************************************************************)
(* One permitted link of a campaign on its way to a rendered and evaluated *)
(* clip: the ingest, transcribe, clip, render and compliance jobs, each    *)
(* under withJobRun, and the operators who request, approve, reject,       *)
(* regenerate and publish meanwhile.  One asset with one range is          *)
(* considered; its ClipCandidate is deleted and made again by              *)
(* regeneration, and every row made gets a new id.                         *)
(*                                                                         *)
(* clipCandidateService writes the candidate's status without its version, *)
(* so guarded transitions are two steps here, the read with the check and  *)
(* the update.                                                             *)
(***************************************************************************)
EXTENDS StateMachines, Naturals, FiniteSets

CONSTANTS Attempts,      \* defaultJobOptions.attempts
          MaxIds,        \* bound: candidate rows, and rendered clip rows, ever made
          MaxRequests,   \* bound: further requests for any of the jobs, and reviews
          MaxDecisions,  \* bound: approve, reject and publish requests
          MaxFaults,     \* bound: crashes, failed calls, and renders that are refused
          MaxEvents      \* bound: all of these together

ASSUME ClipAssumption ==
  /\ Attempts \in Nat \ {0} /\ MaxIds \in Nat \ {0}
  /\ MaxRequests \in Nat /\ MaxDecisions \in Nat /\ MaxFaults \in Nat /\ MaxEvents \in Nat

VARIABLES
  resource,   \* the CampaignResource row
  asset,      \* the SourceAsset: none, "new", or "transcribed"
  candidate,  \* the ClipCandidate row of the range; id 0: there is none
  clip,       \* the RenderedClip row of the render configuration; id 0: there is none
  made,       \* how many candidates and clips were ever made
  job,        \* job[j]: the job of a stage (and row), with its JobRun
  call,       \* call[p]: what job or request p is doing
  left,       \* what the bounds leave
  approvals,  \* ghost: how many transitions to APPROVED there were
  retries,    \* ghost: how often an operator retried or replayed a render job
  renders,    \* ghost: how many renders were written
  lost        \* ghost: a job was given up, a render refused, or an enqueue failed

rows == <<resource, asset, candidate, clip, made>>
ghosts == <<approvals, retries, renders, lost>>
vars == <<rows, job, call, left, ghosts>>

\* toJobId: a job and its JobRun are keyed by the row the stage works on.
Jobs == ({"ingest", "transcribe", "clip"} \X {0}) \cup ({"render", "compliance"} \X (1..MaxIds))
Requests == {"approve", "reject"} \X {0}
Ingest == <<"ingest", 0>>
Transcribe == <<"transcribe", 0>>
Generate == <<"clip", 0>>

MaxRenders == MaxDecisions + MaxRequests + MaxFaults
Idle == [pc |-> "idle", id |-> 0, version |-> 0, content |-> 0]

\* The steps of each kind of job and request.
Pcs(kind) ==
  {"idle"} \cup
  CASE kind = "ingest" -> {"start", "download", "mark", "announce", "end"}
    [] kind = "transcribe" -> {"start", "announce", "end"}
    [] kind = "clip" -> {"start", "score", "end"}
    [] kind = "render" -> {"start", "check", "mark", "replace", "upsert", "finish", "done",
                           "announce", "end"}
    [] kind = "compliance" -> {"start", "write", "end"}
    [] kind = "approve" -> {"commit", "enqueue"}
    [] kind = "reject" -> {"commit"}

Resource == [permitted : BOOLEAN, status : {"DISCOVERED", "DOWNLOADED", "FAILED"}]
Candidate == [id : 0..MaxIds, status : StatusesOf("ClipCandidate"), version : Nat]
Clip == [id : 0..MaxIds, of : 0..MaxIds, content : 0..MaxRenders, checked : 0..MaxRenders,
         published : BOOLEAN]
Job == [state : {"absent", "queued", "active", "kept"}, left : 0..Attempts, stalled : BOOLEAN,
        run : {"NONE", "OPEN", "SUCCEEDED"}]
Steps == {"idle", "start", "download", "mark", "announce", "score", "check", "replace", "upsert",
          "finish", "done", "write", "commit", "enqueue", "end"}
Call == [pc : Steps, id : 0..MaxIds, version : Nat, content : 0..MaxRenders]

RowTypes ==
  /\ resource \in Resource
  /\ asset \in {"none", "new", "transcribed"}
  /\ candidate \in Candidate /\ clip \in Clip
  /\ made \in [candidates : 0..MaxIds, clips : 0..MaxIds]

WorkTypes ==
  /\ job \in [Jobs -> Job]
  /\ call \in [Jobs \cup Requests -> Call]
  /\ \A p \in Jobs \cup Requests : call[p].pc \in Pcs(p[1])
  /\ \A j \in Jobs : call[j].pc = "idle" <=> job[j].state # "active"

CountTypes ==
  /\ left \in [requests : 0..MaxRequests, decisions : 0..MaxDecisions, faults : 0..MaxFaults,
              events : 0..MaxEvents]
  /\ approvals \in 0..MaxDecisions /\ retries \in 0..MaxRequests
  /\ renders \in 0..MaxRenders /\ lost \in BOOLEAN

TypeOK == RowTypes /\ WorkTypes /\ CountTypes

NoCandidate == [id |-> 0, status |-> "CANDIDATE", version |-> 0]
\* A job as an add makes it, with the JobRun there is, and no job.
Fresh(run) == [state |-> "queued", left |-> Attempts, stalled |-> FALSE, run |-> run]
Absent == [state |-> "absent", left |-> 0, stalled |-> FALSE, run |-> "NONE"]

NoClip == [id |-> 0, of |-> 0, content |-> 0, checked |-> 0, published |-> FALSE]

\* The operator has asked for the download of the campaign's permitted link.
Init ==
  /\ resource = [permitted |-> TRUE, status |-> "DISCOVERED"]
  /\ asset = "none" /\ candidate = NoCandidate /\ clip = NoClip
  /\ made = [candidates |-> 0, clips |-> 0]
  /\ job = [j \in Jobs |-> IF j = Ingest THEN Fresh("NONE") ELSE Absent]
  /\ call = [p \in Jobs \cup Requests |-> Idle]
  /\ left = [requests |-> MaxRequests, decisions |-> MaxDecisions, faults |-> MaxFaults,
             events |-> MaxEvents]
  /\ approvals = 0 /\ retries = 0 /\ renders = 0 /\ lost = FALSE

-----------------------------------------------------------------------------
(* Jobs and calls.                                                          *)

At(p, pc) == call[p].pc = pc
Step(p, pc) == call' = [call EXCEPT ![p].pc = pc]
Return(p) == call' = [call EXCEPT ![p] = Idle]
Spend(budget) ==
  /\ left[budget] > 0 /\ left.events > 0
  /\ left' = [left EXCEPT ![budget] = @ - 1, !.events = @ - 1]

\* Whether BullMQ still has a job of the id: finished ones are kept for a while, which
\* matters only to an add.
Retained(j) == IF job[j].state = "kept" THEN BOOLEAN ELSE {job[j].state # "absent"}

\* enqueueIngest .. enqueueCompliance: ignored while a job has the id.
Enqueue(j) ==
  \E retained \in Retained(j) :
    job' = IF retained THEN job ELSE [job EXCEPT ![j] = Fresh(job[j].run)]

\* A route lets the stage run again: the JobRun is deleted, the job enqueued.
Rerun(j) ==
  \E retained \in Retained(j) :
    job' = IF retained THEN [job EXCEPT ![j].run = "NONE"]
           ELSE [job EXCEPT ![j] = Fresh("NONE")]

\* A worker takes the job, whose JobRun says it is not done; renders one at a time.
Take(j) ==
  /\ job[j].state = "queued" /\ job[j].run # "SUCCEEDED"
  /\ j[1] = "render" => \A i \in 1..MaxIds : job[<<"render", i>>].state # "active"
  /\ job' = [job EXCEPT ![j].state = "active", ![j].run = "OPEN"]
  /\ Step(j, "start")
  /\ UNCHANGED <<rows, left, ghosts>>

Skip(j) ==
  /\ job[j].state = "queued" /\ job[j].run = "SUCCEEDED"
  /\ job' = [job EXCEPT ![j].state = "kept", ![j].left = 0]
  /\ UNCHANGED <<rows, call, left, ghosts>>

\* Mutant of Throw: the failed attempt of the worker goes on.
ThrowOnly(j) ==
  /\ job' = IF job[j].left > 1
            THEN [job EXCEPT ![j].state = "queued", ![j].left = @ - 1]
            ELSE [job EXCEPT ![j].state = "kept", ![j].left = 0]
  /\ UNCHANGED call
  /\ lost' = (lost \/ job[j].left = 1)

\* The handler throws.
Throw(j) ==
  /\ job' = IF job[j].left > 1
            THEN [job EXCEPT ![j].state = "queued", ![j].left = @ - 1]
            ELSE [job EXCEPT ![j].state = "kept", ![j].left = 0]
  /\ Return(j)
  /\ lost' = (lost \/ job[j].left = 1)

\* The handler returns: withJobRun records it, and throws if its row is gone.
End(j) ==
  /\ At(j, "end")
  /\ IF job[j].run = "NONE"
     THEN Throw(j)
     ELSE /\ job' = [job EXCEPT ![j].state = "kept", ![j].left = 0, ![j].run = "SUCCEEDED"]
          /\ Return(j)
          /\ UNCHANGED lost
  /\ UNCHANGED <<rows, left, approvals, retries, renders>>

\* A statement of the job throws.  Ingestion only marks the resource FAILED.
Fails(j) ==
  /\ ~ At(j, "idle") /\ Spend("faults")
  /\ \/ j # Ingest /\ Throw(j) /\ UNCHANGED resource
     \/ j = Ingest /\ call[j].pc \in {"start", "end"} /\ Throw(j) /\ UNCHANGED resource
     \/ /\ j = Ingest /\ call[j].pc \in {"download", "mark", "announce"}
        /\ resource' = [resource EXCEPT !.status = "FAILED"]
        /\ Step(j, "end")
        /\ UNCHANGED <<job, lost>>
  /\ UNCHANGED <<asset, candidate, clip, made, approvals, retries, renders>>

\* The worker dies.  BullMQ finds the job stalled and hands it out again; the second time
\* it fails it for good, as JobQueue has it.
Crash(j) ==
  /\ ~ At(j, "idle") /\ Spend("faults")
  /\ job' = IF job[j].stalled
            THEN [job EXCEPT ![j].state = "kept", ![j].left = 0]
            ELSE [job EXCEPT ![j].state = "queued", ![j].stalled = TRUE]
  /\ Return(j)
  /\ lost' = (lost \/ job[j].stalled)
  /\ UNCHANGED <<rows, approvals, retries, renders>>

-----------------------------------------------------------------------------
(* ingestCampaignResources.                                                 *)

ReadResources ==
  /\ At(Ingest, "start")
  /\ Step(Ingest, IF resource.permitted THEN "download" ELSE "end")
  /\ UNCHANGED <<rows, job, left, ghosts>>

\* Mutant of Download: an asset that is there already is nothing new.
DownloadNew ==
  /\ At(Ingest, "download")
  /\ asset' = IF asset = "none" THEN "new" ELSE asset
  /\ Step(Ingest, IF asset = "none" THEN "mark" ELSE "end")
  /\ UNCHANGED <<resource, candidate, clip, made, job, left, ghosts>>

\* downloadOne: idempotent on (campaignId, checksum).
Download ==
  /\ At(Ingest, "download")
  /\ asset' = IF asset = "none" THEN "new" ELSE asset
  /\ Step(Ingest, "mark")
  /\ UNCHANGED <<resource, candidate, clip, made, job, left, ghosts>>

\* The resource is marked; its provisional AssetPermission is part of ClipRules.
MarkDownloaded ==
  /\ At(Ingest, "mark")
  /\ resource' = [resource EXCEPT !.status = "DOWNLOADED"]
  /\ Step(Ingest, "announce")
  /\ UNCHANGED <<asset, candidate, clip, made, job, left, ghosts>>

AnnounceAsset ==
  /\ At(Ingest, "announce")
  /\ Enqueue(Transcribe)
  /\ Step(Ingest, "end")
  /\ UNCHANGED <<rows, left, ghosts>>

\* Reviewed rules withdraw the permission (UpsertLinks in CampaignLifecycle).
Withdraw ==
  /\ resource.permitted /\ Spend("requests")
  /\ resource' = [resource EXCEPT !.permitted = FALSE]
  /\ UNCHANGED <<asset, candidate, clip, made, job, call, ghosts>>

-----------------------------------------------------------------------------
(* transcribeAsset and generateClipCandidates.                              *)

WriteTranscript ==
  /\ At(Transcribe, "start")
  /\ asset' = "transcribed"
  /\ Step(Transcribe, "announce")
  /\ UNCHANGED <<resource, candidate, clip, made, job, left, ghosts>>

AnnounceTranscript ==
  /\ At(Transcribe, "announce")
  /\ Enqueue(Generate)
  /\ Step(Transcribe, "end")
  /\ UNCHANGED <<rows, left, ghosts>>

\* deleteMany: this scoring version's candidates without a rendered clip.
DropUnrendered ==
  /\ At(Generate, "start")
  /\ candidate' = IF candidate.id # 0 /\ clip.id # 0 /\ clip.of = candidate.id
                  THEN candidate ELSE NoCandidate
  /\ Step(Generate, "score")
  /\ UNCHANGED <<resource, asset, clip, made, job, left, ghosts>>

\* The range is scored, or rejected: the upsert sets the status and nothing else.
UpsertCandidate ==
  /\ At(Generate, "score")
  /\ \E status \in {"CANDIDATE", "REJECTED"} :
       \/ /\ candidate.id # 0
          /\ candidate' = [candidate EXCEPT !.status = status]
          /\ UNCHANGED made
       \/ /\ candidate.id = 0 /\ made.candidates < MaxIds
          /\ made' = [made EXCEPT !.candidates = @ + 1]
          /\ candidate' = [id |-> made.candidates + 1, status |-> status, version |-> 0]
  /\ Step(Generate, "end")
  /\ UNCHANGED <<resource, asset, clip, job, left, ghosts>>

-----------------------------------------------------------------------------
(* Guarded transitions of the candidate.                                    *)

\* findUnique and assertTransition for candidate row id.
Legal(id, to) ==
  candidate.id = id /\ id # 0 /\ CanTransition("ClipCandidate", candidate.status, to)

\* updateMany matches the row read.
Matches(p, id) == candidate.id = id /\ candidate.version = call[p].version

MoveTo(to) == candidate' = [candidate EXCEPT !.status = to, !.version = @ + 1]

-----------------------------------------------------------------------------
(* renderCandidate(i).                                                      *)

Render(i) == <<"render", i>>

\* Mutant of StartRender: a candidate that is RENDERING is left to its renderer.
StartRenderOnce(i) ==
  /\ At(Render(i), "start")
  /\ Step(Render(i), IF candidate.id = i /\ candidate.status # "RENDERING" THEN "check" ELSE "end")
  /\ UNCHANGED <<rows, job, left, ghosts>>

\* The candidate and its asset; rules, kill switch, budget and rights admit it.
StartRender(i) ==
  /\ At(Render(i), "start")
  /\ Step(Render(i), IF candidate.id = i THEN "check" ELSE "end")
  /\ UNCHANGED <<rows, job, left, ghosts>>

\* Halted, or over the budget: the job returns, and counts as done.
RefuseRender(i) ==
  /\ At(Render(i), "start") /\ Spend("faults")
  /\ Step(Render(i), "end")
  /\ lost' = TRUE
  /\ UNCHANGED <<rows, job, approvals, retries, renders>>

\* transition.clipCandidate(to).catch(...): where it is refused, the job goes on.
CheckTransition(i, at, to, commit, next) ==
  /\ At(Render(i), at)
  /\ call' = IF Legal(i, to)
             THEN [call EXCEPT ![Render(i)].pc = commit, ![Render(i)].version = candidate.version]
             ELSE [call EXCEPT ![Render(i)].pc = next]
  /\ UNCHANGED <<rows, job, left, ghosts>>

CommitTransition(i, commit, to, next) ==
  /\ At(Render(i), commit)
  /\ \/ Matches(Render(i), i) /\ MoveTo(to)
     \/ ~ Matches(Render(i), i) /\ UNCHANGED candidate
  /\ Step(Render(i), next)
  /\ UNCHANGED <<resource, asset, clip, made, job, left, ghosts>>

\* Mutant of ReplacePrior: the upsert alone replaces the prior render.
ReplaceInPlace(i) ==
  /\ At(Render(i), "replace")
  /\ Step(Render(i), "upsert")
  /\ UNCHANGED <<rows, job, left, ghosts>>

\* The video is encoded and stored, and the prior render of the configuration deleted,
\* its findings and reviews with it, unless it has a publication.
ReplacePrior(i) ==
  /\ At(Render(i), "replace")
  /\ clip' = IF clip.of = i /\ ~ clip.published THEN NoClip ELSE clip
  /\ Step(Render(i), "upsert")
  /\ UNCHANGED <<resource, asset, candidate, made, job, left, ghosts>>

\* renderedClip.upsert; without the candidate its foreign key makes it throw.
UpsertClip(i) ==
  /\ At(Render(i), "upsert")
  /\ \/ candidate.id # i /\ Throw(Render(i)) /\ UNCHANGED <<clip, made, renders>>
     \/ /\ candidate.id = i
        /\ renders' = renders + 1
        /\ \/ clip.of = i /\ clip' = [clip EXCEPT !.content = renders'] /\ UNCHANGED made
           \/ /\ clip.of # i /\ made.clips < MaxIds
              /\ made' = [made EXCEPT !.clips = @ + 1]
              /\ clip' = [NoClip EXCEPT !.id = made'.clips, !.of = i, !.content = renders']
        \* rendered.id
        /\ call' = [call EXCEPT ![Render(i)].pc = "finish", ![Render(i)].id = clip'.id]
        /\ UNCHANGED <<job, lost>>
  /\ UNCHANGED <<resource, asset, candidate, left, approvals, retries>>

AnnounceRender(i) ==
  /\ At(Render(i), "announce")
  /\ Enqueue(<<"compliance", call[Render(i)].id>>)
  /\ Step(Render(i), "end")
  /\ UNCHANGED <<rows, left, ghosts>>

-----------------------------------------------------------------------------
(* evaluateCompliance(c); what Publishing makes of its two writes is there. *)

Compliance(c) == <<"compliance", c>>

StartEvaluation(c) ==
  /\ At(Compliance(c), "start")
  /\ call' = IF clip.id = c
             THEN [call EXCEPT ![Compliance(c)].pc = "write", ![Compliance(c)].content = clip.content]
             ELSE [call EXCEPT ![Compliance(c)].pc = "end"]
  /\ UNCHANGED <<rows, job, left, ghosts>>

WriteFindings(c) ==
  /\ At(Compliance(c), "write")
  /\ \/ /\ clip.id = c
        /\ clip' = [clip EXCEPT !.checked = call[Compliance(c)].content]
        /\ Step(Compliance(c), "end")
        /\ UNCHANGED <<job, lost>>
     \/ clip.id # c /\ Throw(Compliance(c)) /\ UNCHANGED clip
  /\ UNCHANGED <<resource, asset, candidate, made, left, approvals, retries, renders>>

-----------------------------------------------------------------------------
(* Requests.                                                                *)

\* An operator asks for a job of a row that was made, whatever its state.
Requestable(j) ==
  \/ j = Ingest
  \/ j \in {Transcribe, Generate} /\ asset # "none"
  \/ \E i \in 1..made.candidates : j = Render(i)
  \/ \E c \in 1..made.clips : j = Compliance(c)

\* jobs/retry and the replay of a dead letter for every job, the download, generate-clips
\* and regenerate routes: dispatchJob adds the job even where the deletion of its JobRun
\* failed, which is swallowed.
Request(j) ==
  /\ Requestable(j) /\ Spend("requests")
  /\ Rerun(j) \/ Enqueue(j)
  /\ retries' = IF j[1] = "render" THEN retries + 1 ELSE retries
  /\ UNCHANGED <<rows, call, approvals, renders, lost>>

Approve == <<"approve", 0>>
Reject == <<"reject", 0>>

Decision(p) == IF p = Approve THEN "APPROVED" ELSE "REJECTED"

\* The approve and reject routes: a guarded transition of the candidate shown.
Decide(p) ==
  /\ At(p, "idle") /\ Legal(candidate.id, Decision(p)) /\ Spend("decisions")
  /\ call' = [call EXCEPT ![p] = [pc |-> "commit", id |-> candidate.id,
                                  version |-> candidate.version, content |-> 0]]
  /\ UNCHANGED <<rows, job, ghosts>>

\* Mutant of CommitDecision: a stale write is taken for a success.
CommitDecisionStale(p) ==
  /\ At(p, "commit")
  /\ IF Matches(p, call[p].id) THEN MoveTo(Decision(p)) ELSE UNCHANGED candidate
  /\ approvals' = IF p = Approve /\ Matches(p, call[p].id) THEN approvals + 1 ELSE approvals
  /\ IF p = Approve THEN Step(p, "enqueue") ELSE Return(p)
  /\ UNCHANGED <<resource, asset, clip, made, job, left, retries, renders, lost>>

CommitDecision(p) ==
  /\ At(p, "commit")
  /\ IF Matches(p, call[p].id)
     THEN /\ MoveTo(Decision(p))
          /\ approvals' = IF p = Approve THEN approvals + 1 ELSE approvals
          /\ IF p = Approve THEN Step(p, "enqueue") ELSE Return(p)
     ELSE Return(p) /\ UNCHANGED <<candidate, approvals>>
  /\ UNCHANGED <<resource, asset, clip, made, job, left, retries, renders, lost>>

\* An approved candidate's JobRun is deleted, and its render enqueued.
EnqueueRender ==
  /\ At(Approve, "enqueue")
  /\ Rerun(Render(call[Approve].id))
  /\ Return(Approve)
  /\ UNCHANGED <<rows, left, ghosts>>

\* Redis is unreachable, or the server dies: approved, but not enqueued.
EnqueueRenderFails ==
  /\ At(Approve, "enqueue") /\ Spend("faults")
  /\ Return(Approve)
  /\ lost' = TRUE
  /\ UNCHANGED <<rows, job, approvals, retries, renders>>

\* publishClip gives the clip its first Publication.
Publish ==
  /\ clip.id # 0 /\ ~ clip.published /\ Spend("decisions")
  /\ clip' = [clip EXCEPT !.published = TRUE]
  /\ UNCHANGED <<resource, asset, candidate, made, job, call, ghosts>>

-----------------------------------------------------------------------------
RenderJob ==
  \E i \in 1..MaxIds :
    \/ Take(Render(i)) \/ Skip(Render(i)) \/ StartRender(i)
    \/ CheckTransition(i, "check", "RENDERING", "mark", "replace")
    \/ CommitTransition(i, "mark", "RENDERING", "replace")
    \/ ReplacePrior(i) \/ UpsertClip(i)
    \/ CheckTransition(i, "finish", "RENDERED", "done", "announce")
    \/ CommitTransition(i, "done", "RENDERED", "announce")
    \/ AnnounceRender(i) \/ End(Render(i))

Next ==
  \/ \E j \in Jobs : Fails(j) \/ Crash(j)
  \/ \E j \in {Ingest, Transcribe, Generate} \cup {Compliance(c) : c \in 1..MaxIds} :
       Take(j) \/ Skip(j) \/ End(j)
  \/ ReadResources \/ Download \/ MarkDownloaded \/ AnnounceAsset \/ Withdraw
  \/ WriteTranscript \/ AnnounceTranscript \/ DropUnrendered \/ UpsertCandidate
  \/ RenderJob \/ \E i \in 1..MaxIds : RefuseRender(i)
  \/ \E c \in 1..MaxIds : StartEvaluation(c) \/ WriteFindings(c)
  \/ \E j \in Jobs : Request(j)
  \/ \E p \in Requests : Decide(p) \/ CommitDecision(p)
  \/ EnqueueRender \/ EnqueueRenderFails \/ Publish

Spec == Init /\ [][Next]_vars

\* The render worker runs; nobody else has to do anything.
FairSpec == Spec /\ WF_vars(RenderJob)

-----------------------------------------------------------------------------
(* Properties.                                                              *)

Quiet ==
  /\ \A p \in Jobs \cup Requests : At(p, "idle")
  /\ \A j \in Jobs : job[j].state # "queued"

\* Nothing gets stuck on the way from the link to its candidates: once everything is
\* quiet, an asset whose link did not fail and is still permitted has been transcribed
\* and has a candidate for its range, whatever was retried, unless a job was given up.
\* ingestCampaignResources, transcribeAsset and generateClipCandidates, redelivered.
AssetsBecomeCandidates ==
  Quiet /\ ~ lost /\ asset # "none" /\ resource.permitted /\ resource.status # "FAILED" =>
    asset = "transcribed" /\ candidate.id # 0

\* Every render is paid for by an approval, by an operator's retry of a render job, which
\* asks for no approval, or by a fault: no interleaving of approvals, rejections,
\* regenerations, other retries and redeliveries renders a clip that nobody asked for, or
\* more often than it was asked for.  The approve and retry routes and renderCandidate.
RendersPaidFor == renders <= approvals + retries + (MaxFaults - left.faults)

\* Once everything is quiet, the findings of a clip that was not published are about
\* the clip as it was rendered last, unless a job was given up or refused.
\* renderCandidate replaces the row, so that its evaluation is not taken for done.
EvaluatedAsRendered ==
  Quiet /\ ~ lost /\ clip.id # 0 /\ ~ clip.published => clip.checked = clip.content

\* A candidate does not stay RENDERING, whatever fails, is retried, regenerated or
\* decided meanwhile, unless its render was given up or refused.  renderCandidate.
RenderingSettles ==
  candidate.status = "RENDERING" ~> (candidate.status # "RENDERING" \/ lost)
-----------------------------------------------------------------------------
(* The inductive invariant behind the safety properties.                    *)

\* A job that will be taken and not skipped, and one that is at one of these steps.
Waiting(j) == job[j].state = "queued" /\ job[j].run # "SUCCEEDED"
AtOne(p, pcs) == call[p].pc \in pcs

\* Attempts are left to a job that is not over, and its run is done only when it is.
Attended(j) ==
  /\ job[j].state = "absent" => job[j].run = "NONE"
  /\ job[j].state \in {"queued", "active"} => job[j].left > 0
  /\ job[j].state = "active" => job[j].run # "SUCCEEDED"

JobInv == \A j \in Jobs : Attended(j)

\* The clip is one that was made, and the candidate's.
ClipInv ==
  /\ clip.id <= made.clips
  /\ IF clip.id = 0 THEN clip = NoClip ELSE clip.of = candidate.id /\ clip.of # 0

\* Rows that are referred to were made, and a render has only a published clip to replace.
RenderInv(i) ==
  /\ AtOne(Render(i), {"finish", "done", "announce"}) => call[Render(i)].id \in 1..made.clips
  /\ At(Render(i), "upsert") /\ clip.of = i => clip.published

RefInv ==
  /\ ~ At(Approve, "idle") => call[Approve].id # 0
  /\ \A i \in 1..MaxIds : RenderInv(i)
  /\ \A c \in 1..MaxIds : c > made.clips => job[Compliance(c)].state = "absent"

\* The renders still to come: of a job that waits or has not written its render, again
\* of one whose JobRun was deleted meanwhile, and of an approval not yet enqueued.
First(i) ==
  \/ Waiting(Render(i))
  \/ AtOne(Render(i), {"start", "check", "mark", "replace", "upsert"})
Again(i) == job[Render(i)].state = "active" /\ job[Render(i)].run = "NONE"
Owed ==
  {<<i, "first">> : i \in {k \in 1..MaxIds : First(k)}}
  \cup {<<i, "again">> : i \in {k \in 1..MaxIds : Again(k)}}
  \cup (IF At(Approve, "enqueue") THEN {<<0, "approved">>} ELSE {})

PaidInv ==
  /\ renders + Cardinality(Owed) <= approvals + retries + (MaxFaults - left.faults)
  /\ retries + left.requests <= MaxRequests
  /\ approvals + left.decisions <= MaxDecisions
  /\ At(Approve, "commit") => approvals + left.decisions < MaxDecisions

\* Each stage is still on its way to the next, or has got there.
LinkCovered ==
  asset # "none" /\ resource.permitted /\ resource.status # "FAILED" =>
    \/ Waiting(Ingest) \/ AtOne(Ingest, {"start", "download", "mark", "announce"})
    \/ job[Transcribe].state # "absent"
AssetCovered ==
  job[Transcribe].state # "absent" =>
    asset = "transcribed" \/ Waiting(Transcribe) \/ At(Transcribe, "start")
TranscriptCovered ==
  asset = "transcribed" =>
    \/ Waiting(Transcribe) \/ AtOne(Transcribe, {"start", "announce"})
    \/ job[Generate].state # "absent"
RangeCovered ==
  (job[Generate].state = "kept" \/ job[Generate].run = "SUCCEEDED" \/ At(Generate, "end")) =>
    candidate.id # 0
CoverInv == ~ lost => LinkCovered /\ AssetCovered /\ TranscriptCovered /\ RangeCovered

\* What an evaluation has found, or is about to write, is about the clip as it is.
Found(c) ==
  /\ \/ job[Compliance(c)].state = "kept" /\ ~ lost
     \/ job[Compliance(c)].run = "SUCCEEDED"
     \/ At(Compliance(c), "end")
     => clip.checked = clip.content
  /\ At(Compliance(c), "write") => call[Compliance(c)].content = clip.content

\* An evaluation of clip c is under way or over, or the render i that announces it is on.
Evaluated(c, i) ==
  \/ job[Compliance(c)].state # "absent"
  \/ Waiting(Render(i))
  \/ AtOne(Render(i), {"start", "check", "mark", "replace"})
  \/ AtOne(Render(i), {"finish", "done", "announce"}) /\ call[Render(i)].id = c

EvaluationInv ==
  clip.id # 0 /\ ~ clip.published =>
    Found(clip.id) /\ (~ lost => Evaluated(clip.id, clip.of))

IInv == JobInv /\ ClipInv /\ RefInv /\ PaidInv /\ CoverInv /\ EvaluationInv
=============================================================================
