# A verification project for CampaignClipper

CampaignClipper finds paid clipping campaigns, parses their rules, turns source
videos into clips, checks the clips against rules and rights, publishes them on
TikTok, Instagram and YouTube, and submits the posts to the campaign's portal.
It is a Next.js application with BullMQ workers; Postgres (Prisma) holds all
state, Redis the queues. Paths below are relative to the repository root, so the
application's code is under `src/`; line numbers are those of the commit this
project was written for.

This directory holds TLA+ models of its concurrent core, TLC configurations
that check them on small instances, and TLAPS proofs of the main properties for
every value of the constants. `PROJECT.json` is the machine-readable index:
components, runs, mutants, findings, hazards, theorems, and the source lines
every definition stands for.

## 1. Inventory of the system

| Component | State | Operations | What makes it correct |
|---|---|---|---|
| Lifecycle tables (`lib/state/stateMachines.ts`) | none | `canTransition`, `assertTransition` | they are data, and everything else obeys them |
| Guarded transitions (`lib/db/guardedTransition.ts`) | `status`, `version` of every lifecycle row | read, check, versioned update | concurrent calls look atomic; nothing newer is overwritten; a stale error is never spurious |
| Queues and `JobRun` (`lib/queue`, `workers/jobRun.ts`) | BullMQ jobs by deterministic id; one `JobRun` row per key | enqueue, fetch, guard, run, record, retry, stall | finished work is not repeated and unfinished work is not skipped; jobs settle |
| Dead letters, replay, retry (`workers/deadLetter.ts`, `services/ops/replayService.ts`, `app/api/jobs/*`) | `JobRun.status = DEAD_LETTER` | park, replay, retry | terminal failures are seen; a replayed job runs |
| Publish stage (`services/publishing/publishService.ts`, `adapters/publishing`) | `Publication` rows keyed by (clip, platform, effective mode) | `publishClip`, `skip` | one public post per clip and platform; blocked by FAIL; never faked; followed by a submission |
| Reviews and capabilities (`prePublicationService.ts`, `capabilityService.ts`) | `PrePublicationReview` rows | approve, reject, `computeCapabilities` | a review waives only what it may, and only what it saw |
| Compliance (`services/compliance`) | `ComplianceResult` rows of a clip | `evaluateCompliance`, validators | the findings a reader sees are one complete evaluation |
| Submission, tracking, earnings (`services/submission`) | `CampaignSubmission`, `EarningsRecord`, `PostMetric` | prepare, confirm, execute, track, sync | submitted once, after confirmation; approval is never lost; nothing fabricated |
| Discovery and manual entry (`services/discovery`) | `Campaign`, `CampaignRevision` | discover, upsert, enqueue parse | every revision is parsed |
| Parsing and rule review (`services/parsing`) | `CampaignRule`, `CampaignResource`, campaign status | parse, re-parse, save reviewed rules | reviewed rules win; a paused campaign stays paused |
| Stop conditions (`services/ops/campaignStopConditions.ts`) | campaign status | evaluate, pause | a campaign at its cap stops |
| Ingestion, transcription (`services/ingestion`, `services/pipeline`) | `SourceAsset` | download, transcribe | an asset is READY only with its file |
| Clip candidates, rendering (`services/pipeline`, `services/render`) | `ClipCandidate`, `RenderedClip` | generate, approve, reject, render | approvals survive; renders end |
| Rights (`services/rights`) | `AssetPermission` | derive, verify, check | a denial blocks; unverified is never PASS |
| Kill switch, costs (`services/ops`) | `SystemSetting` with a cache, `UsageCounter` | halt, cap, charge | halted work stops; caps hold up to the work in flight |
| Rate limits, sessions, roles, workspaces, envelope encryption (`lib/security`, `lib/db/workspaceScope.ts`) | Redis windows, cookies, ciphertexts | limit, sign, scope, rotate | limits hold; secrets stay readable through a rotation |
| Observability, readiness, AI client, media tools, storage, UI, evaluation harness | reports, files | - | reporting and I/O |

How they interact: a stage's worker runs its service inside `withJobRun`; the
service changes rows by guarded transitions *or by raw upserts*, and enqueues the
next stage's job. Operators act through routes in the web process, on the same
rows. There are no locks and few transactions: every `await` is a point where
other workers, routes and crashes interleave. BullMQ delivers at least once,
retries with backoff, hands stalled jobs out again, and ignores an `add` whose
id it still retains.

What is hard, in one list: redelivery and retries of work with effects outside
the database; rows keyed by something decided late (the effective mode); raw
upserts beside guarded transitions; replacing sets of rows in two statements;
status values read before an await and written after it; handlers nobody waits
for; deduplication that outlives the job. `PROJECT.json` lists each place under
"hazards", with the properties that watch it.

## 2. Modules

| Module | Models | Proofs |
|---|---|---|
| `StateMachines` | the six tables and `canTransition` | - |
| `LifecycleRow` | what guarded transitions promise: atomic, legal, counted transitions and deletions (abstract) | - |
| `GuardedTransition` | `guardedTransition` called concurrently on rows that may be deleted | `GuardedTransition_proofs` |
| `JobQueue` | one queue: BullMQ's use, `withJobRun`, the dead-letter handler, replay and retry | `JobQueue_proofs` |
| `Publishing` | one clip on one platform: `publishClip` in the three modes' jobs, evaluations, approvals | `Publishing_proofs` |
| `Submission` | one publication's submission: the submit job, operators' confirmations, tracking, metrics and earnings syncs, the portal | `Submission_proofs` |
| `CampaignLifecycle` | one campaign: discovery, manual entry, parse jobs, reviewed rules, stop conditions | `CampaignLifecycle_proofs` |
| `ClipPipeline` | one link on its way to a clip: ingest, transcribe, clip, render and compliance jobs, approvals, rejections, regeneration | `ClipPipeline_proofs` |
| `ClipRules` | what the rules make of a clip: ranges, permissions, captions and overlays, and the verdict of every validator | `ClipPipeline_proofs` |
| `CostControl` | kill switches and caps: settings, each process's cache, the gates, the counter | `CostControl_proofs` |
| `Credentials` | envelope encryption of refresh tokens while keys are rotated | `Security_proofs` |
| `Access` | what a request passes: the middleware's counter, session, role, workspace, Redis windows | `Security_proofs` |
| `MC...` | the small instances TLC checks | - |

How they fit together. `LifecycleRow` is the abstract specification:
`GuardedTransition` implements it call by call, and `CampaignLifecycle` implements
it under a refinement mapping, with the campaign's row moved by all of the
discovery, parse, review and stop code together. Because a guarded transition
looks atomic, `CampaignLifecycle` makes it one step; `Publishing`, `Submission` and
`ClipPipeline` keep its two steps, as their rows are also written by code that does
not count versions. `JobQueue` is the interface the stage modules stand on: `OneHolder` (one worker
per key) is why `Publishing` has at most one call per requested mode, and the
redeliveries `JobQueue` allows are the ones the others make by
`Throw`, `Fails` and `Crash`. `ClipPipeline` ends where `Publishing` begins (a rendered clip
with its findings), `Submission` where `Publishing` calls `enqueueSubmission`. `ClipRules`
says what the findings are that `Publishing` takes as a set of checks. `Access` and
`Credentials` are what the requests and the tokens of the others have passed.

Two modules hold the proofs of two components each: `Security_proofs` those of `Access` and
`Credentials`, `ClipPipeline_proofs` those of `ClipPipeline` and `ClipRules`. They extend both, which is why
`Credentials` and `ClipRules` call their specifications `RotationSpec` and `RulesSpec`, and so on.

Left of the plan: several resources of one campaign and several candidates of one asset, should
a hazard show that needs two.

## 3. How the models correspond to the code

**GuardedTransition.** `rows` is the table, `pc` and `call` the local state of a
call between its two awaits. `NotFound`, `Reject`, `Check` are the outcomes of
`findUnique` and `assertTransition`; `Commit` and `Stale` those of the versioned
`updateMany`; `Delete` is the deletion of un-rendered candidates. `extraData` is
left out: it is written with the status.

**JobQueue.** `job[k]` is the BullMQ job with `toJobId(k)`, `run[k]` the `JobRun`
row (`gen` stands for the row's id, which changes when a retry deletes the row
and a worker creates it again), `worker[w].pc` the place inside `withJobRun`.
Each database statement is an action; `Work`/`WorkFails` are the wrapped
function. `Park`/`ParkNew` are the two statements of `handleTerminalFailure`,
started by a job's last failure and waited for by nobody. `ReplayRead`,
`ReplayReset`, `ReplayDispatch`, `ReplayRestore` and `RetryDelete`,
`RetryDispatch` are the two routes' statements. External: BullMQ's
fetch, acknowledge, fail, stalled check and retention. A failed run that stalls
out is "unrecoverable" and is parked only when its attempts are used up, as the
handler's own test decides.

**Publishing.** `findings` are the clip's `ComplianceResult` rows, `approved` the
acknowledged checks of the latest APPROVED review, `rows[k]` the publication
whose idempotency key is the mode `k`, `call[m]` the running `publishClip` of
mode `m`'s job with what it has read (`seen`, `mode`, `token`, `result`,
`version`). Ghosts: `posts`, `lost`, `erased`, `failed`, `acked`. The pc names
follow the function: `gate` (reads, kill switch, budget, FAIL gate, capability
decision), `existing`, `create` (the transaction), `push`, `check` and `commit`
(the guarded transition), `announce` (audit and `enqueueSubmission`),
`failCheck`/`failCommit` (the catch block), `skip`, `returned`.

Abstractions, and why they lose nothing the properties see: the reads between
`publishClip`'s first query and the existing-row query are one step (`Decide`),
because of them only the review can change and it is read once; the transaction
is atomic, because the FAIL count and the upsert touch tables no one step
changes together; an approval is atomic, because its coverage is evaluated again
wherever it is used; kill switch and budget are a free choice (`Refuse`;
`CostControl` has them in full); a
provider's HTTP exchange is one push that is made, refused, or made with its
answer lost; what follows `enqueueSubmission` catches its own errors, so
`Announce` ends the call. `postUrl`, captions and accounts' names are left out.

**Submission.** `row` is the `CampaignSubmission` of one publication, `call[c]` a
running `executeSubmission`, of an operator's request or of the submit job (whose
call also goes through `prepareSubmission`: pcs `prepare`, `prepared`), with the
version it has read. `poll["track"]` is the running `trackSubmission`, `poll[s]`
a running `syncEarnings`, with the status and approval read before the portal was
asked (`seen`) and the portal's `answer`. `track` is the track job, which an
`add` finds by its id; `metrics` and `earnings` count jobs without ids. `portal`
is what the portal's page shows. `setup` says what does not change: whether a
confirmation is required, what the publication records of its post, and whether
the status adapter reads anything (the one in the repository answers null to
every question; the interface it implements lets another one answer). Ghosts:
`filled`, `said`, `recorded`, `synced`.

The statements of `prepareSubmission`, `executeSubmission` and the pollers are
one action each; what is left out is the data no status depends on: views,
earnings, payout, rejection reasons, `publicVerified`. The statements of
`syncMetrics` are one action, because they touch nothing else of this model. A
call's `returned` step stands for the rest of the job or of the request.

**CampaignLifecycle.** A content of the campaign's page is a number, and so is its
hash; a rule row is what the others depend on: its derived status and whether
its link may be downloaded. `call[p]` is the discovery job (`scan`), a manual
entry, a reparse request, the parse job, an operator's review or the stop
conditions, with the page it works from, the rules it writes and the version of
the row when it came to a guarded transition. The upsert of the campaign, that of
its revision and `enqueueParse` are three actions (`Scan` or `Enter`, `Revise`,
`Announce`), as are rule, link, status and audit of a parse or a review. A page
is fetched and parsed in one action, `Extract`. Ghosts: `parsed`, `missed` (a parse was ignored,
skipped or given up since the last one), `torn` (rules written beside another
call's, or cut off), `listed`, `abandoned`. The links are one link: a rule row permits it,
refuses it, or does not list it (`Lists`), and then it keeps the permission it had, as
both writers go only through the links that the rules list. A second link would share nothing
with it but the statement's loop. `EntryHash` is the hash a manual entry makes of its URL, text or file, so
that it is always one and the same page.

**ClipPipeline.** `job[j]` joins a BullMQ job with its `JobRun`, as `JobQueue` shows it
behaves: `Take` and `Skip` are `withJobRun`'s guard, `End` its record, `Fails` and
`Crash` anything else; a job that stalls a second time is failed for good, as BullMQ does
without a `maxStalledCount`. `Request` is an operator's, for any job whose row exists: jobs/retry
and the replay of a dead letter do not look at the state of the row, and where the deletion of its
`JobRun` fails the job is added all the same, so a candidate may be rendered that nobody approved;
`retries` counts these. Each stage's statements are actions: the asset's upsert,
its transcript, `deleteMany` of unrendered candidates and the upsert after it, the
render's two guarded transitions and, between them, the deletion of the prior
clip and the upsert of the new one. That BullMQ has dropped a finished job shows
only when its id is added again (`Retained`). `content` numbers the renders, so that
`checked` can say which one the findings are about. An asset is cut into one
range and linked from one resource.

**ClipRules.** There is one step for each operation, and the operations are functions:
`BuildCandidateRanges` on an asset's length and scene boundaries (the loop over the cut points
is a recursion over where the next range starts, that over windows a closed form),
`DurationTarget`, `Derive` and `Verify` of permission records, `RenderCandidate` with the
overlays and a caption per platform, and the validators, one operator each, over the rules *in
force*, which may have been revised since. Text is a set of elements, each with or without its
mark (`@`, `#`), so that a rule's "brand" and "@brand" differ where the code tells them apart.
The clip's length is the one probed in the encoded file, which is off the cut's by at most
`Rounding` (`Probed`); a file that cannot be probed counts with the cut's. `OddWords` are the
words that `\b` cannot delimit beside a space; they and the marked ones are not looked for
(`Sought`). What no rule decides (duplicates in the database, the media's properties, the
model's semantic verdict, the campaign's status) is the record `Surroundings`.

**CostControl.** `setting` are the `SystemSetting` rows, `cache[p]` the map in
`killSwitch.ts` of each process, `counter[d]` the `UsageCounter` of a day; `job[s].pc`
follows a render or publish job through `isHalted`, `getBudgetStatus`, its work and
`recordUsage`, with each query's request and answer apart. Time is in ticks: a
query takes at most `ReadTime`, a cached value lives `TTL`.

**Credentials.** An environment is a current key and the retired ones; the operator
promotes and retires by `docs/SECRET_ROTATION.md`, processes take an environment up
when they are deployed. `script` is a running `rotate-secrets.ts` with its
snapshot. A legacy ciphertext has no key id and was written under the first key.

**Access.** `call[c]` is a request with its route: the ordered checks that route's
handler makes. `buckets[i]` is the middleware's map in instance `i`, `counters` the
Redis keys, `users` the rows that sessions are copies of. A window's name is computed in
one step and incremented in a later one, because the command may be delayed
(`late` counts those that came into another window). A login is the query for the user's row
(`ReadUser`) and the signature of what it answered (`LogIn`), between which the row may change; an
answer is used at most `ReadTime` after it was true, as in `CostControl`, which is an assumption about the
database and the event loop.

Definitions called *Mutant of ...* are deliberate bugs: each is a variant of the
definition it names that a plausible mistake in the code would give, and at
least one property is violated when it takes that definition's place. They are
in no specification.

## 4. Runs

All bounds are constants of the models, named in their modules as bounds.

| Run | Question | Instance | Result |
|---|---|---|---|
| `guarded_transition` | do concurrent calls look atomic | 3 callers, 1 row, versions to 2 | holds |
| `job_queue` | what do repeats cost, is anything skipped undone, do jobs settle, are failures parked | 1 key, 2 workers, 2 operators, 3 attempts, 2 faults, 2 resets, 2 evictions | holds |
| `publishing` | are posts repeated or faked, and is a public post always authorised | AUTO and DRAFT jobs, 2 attempts, 1 fault of any kind, 1 evaluation, audited and unaudited app | holds |
| `publishing_live` | do publications resolve and get submitted | provider faults only | holds |
| `publishing_fail` | does a FAIL always block | no faults, 2 evaluations | violated |
| `submission` | are forms signed off, statuses never invented, submissions tracked | 2 operators, 1 sign-off each, 1 earnings sync at a time, 1 reset, 1 fault; posts with a URL, an id, nothing; confirmation required or not | holds |
| `campaign` | is every revision parsed, do the rules in force hold, does the row keep its lifecycle, does parsing end | a discovered and a manual campaign, 2 page contents, 2 scans or entries, 1 other act, 1 operator, 2 attempts, 2 faults | holds |
| `clip_pipeline` | does an asset get its candidate, are renders paid for, are findings about the last render, does rendering end | 2 attempts, 3 candidates and clips ever; after the first download request any 3 events of 1 request, 2 decisions and 2 faults; finished jobs dropped at any time | holds |
| `clip_rules` | do ranges tile, are clips made to the rules, what does PASS mean | 4 versions of the rules, 1 revision, assets to 6 s with every set of boundaries, 1 s of rounding, 2 records, 3 hooks, 3 days | holds |
| `cost_control` | how much is overspent, how old are the settings a gate acts on | 2 slots of 1 process, cap 2 at cost 1, 2 days of 3 ticks, 1 write, 1 fault | holds |
| `credentials` | is every value readable, what does a clean run mean, is a token ever lost | 2 processes, 2 accounts, 3 keys, 4 runs of the script, 1 fault | holds |
| `access` | for how long does authority outlive a row, what do the windows admit, who is turned away | 2 instances, 2 requests in flight of 3, 1 user with 1 change, limits 1 and 2, windows of 2 ticks, sessions and queries of 1 | holds |

Why the bounds are enough: rows, keys, clips and campaigns share nothing but worker slots,
so one of each with several actors has all the contention. Three callers give a
winner, a loser and a bystander; two worker slots are what a redelivery needs
while the first worker is still alive elsewhere; one fault of any kind at any
point (two for the queue) reaches every "crash between these two lines"; a second
attempt meets whatever the first one left; one safety-critical and
one waivable check give the three kinds of REVIEW set. Two operators overlap
in every way two calls can; tracking and an earnings sync are the two writers it
takes to put a stale value over a newer one; two faults in a parse or a render
are both attempts, or a stall and the second one that fails the job for good; one reset and one fault, at any
point, let each of the jobs run once more. Two page contents are an old and a
new one for every race between discovery and a parse; three candidate ids are
the first, its replacement, and one made after that; three events are an approval,
a regeneration and a fault, or an approval, a publication and a retry of the render, in any
order; four versions of the rules
contain each kind of rule stated and left out, and revising one into another
gives every stale clip; the prohibited words are a plain one, a marked one and one that ends in
a mark of its own. Two slots are a gate passed while another job spends; two
days are a midnight. Three keys are two promotions, so that a value can be two
keys behind; two instances are a client that is spread over counters that do not
know of each other. Interchangeable operators, slots, processes and instances are
symmetry sets in the runs without liveness.

Deadlock is checked in `guarded_transition` and `job_queue`. In the other runs every
counter of acts and faults is bounded and all may be done. The violated run
has no faults: the disagreement needs no bad luck.

Fairness. `JobQueue`: workers fetch and go on, delayed jobs are promoted
and stalled ones noticed, the dead-letter handler's promises settle; nothing
makes producers, operators or eviction act, or faults stop happening (they are
bounded). `Publishing`: queued jobs are fetched and calls go on. `CampaignLifecycle`:
the parse worker runs (`ParseJob`); `ClipPipeline`: the render worker runs
(`RenderJob`). The others are checked for safety only. All weak: none
of these steps is disabled by others again and again, except fetching, which
competes only for worker slots.

### What the runs show

`publishing_fail`: between `deleteMany` and `createMany` a clip has no findings, and
both gates of `publishClip` take that for PASS.

The passing properties say what is left. A repeated public post is always paid
for by a lost outcome or an erased row (`PublicPostsPaidFor`), the row never
claims a post that was not made (`NeverFaked`), and AUTO is always authorised on
the findings that were read (`AutoIsAuthorized`). A form is filled in at most
once for each sign-off (`SignedOff`); stale writes of the pollers bring back old
statuses, but never one that was not true once (`SubmittedMeansFilled`,
`NeverFabricated`); overlapping submissions share one track job, which is still
enough (`TrackingNotLost`). A render costs an approval, an operator's retry or a fault, although
regeneration resets candidates under it (`RendersPaidFor`); replacing the rendered
clip's row, which looks wasteful, is what gets it evaluated (`EvaluatedAsRendered`).
Spending exceeds a cap by one job of every slot, no more (`OverspendBounded`). A
changed user row takes effect when the last session signed for it has aged out, which is at most the
time of the login's query later than `MaxAge` (`AuthorityBounded`). The role in a proxy's header is outside
this, also where it stands in for a session that has expired; and what `BurstBounded` bounds are the
calls that Redis counts, not those that pass because it fails.

The exceptions that the properties make (ghosts such as `missed`, `torn`, `abandoned`, `lost`,
`overtaken`, `late`) are each a place where the code does not do what one might
expect, and a few are at odds with a comment or a document:

* *Queue.* A replay resets the run to QUEUED and adds the same job id, which
  BullMQ ignores while the failed job is retained (`replayService.ts:85`,
  `queues.ts:30`); `RUNBOOKS.md:62-63` says replay "re-enqueues". A restart can
  process a job twice (`RUNBOOKS.md:46`), which is why `RepeatsArePaidFor` counts
  faults; a dead-letter handler that dies loses its dead letter.
* *Publishing.* Push, crash, redelivery, push: a PENDING row is not reused
  (`publishService.ts:169`; line 41 says a retried job "never double-posts"). An AUTO
  job downgraded to DRAFT shares the DRAFT publication with a DRAFT job, and both
  push. `skip` and the PENDING upsert, and every write of `JobRun.status`, go
  around the tables (`stateMachines.ts:3-4`). A direct TikTok post is recorded
  PUBLISHED while its privacy is `SELF_ONLY` (`tiktok.ts:39,70`).
* *Submission.* Two confirmations that overlap both fill in the form
  (`submissionService.ts:82`; lines 67-68 say it is "not re-submitted"). Without
  confirmation the row is SUBMITTED first, and `executeSubmission` then returns
  early: nothing is submitted (lines 41-47, 66-67, 82-84).
* *Campaigns.* All discovery runs share the `JobRun` key "run", so after the first
  success every later one is skipped (`discovery.worker.ts:27`), and a run whose
  adapter failed has succeeded. A revised page is stored before its parse is
  enqueued, and the enqueue is ignored while the last parse job is retained
  (`discoveryService.ts:23` says revised campaigns "get a parse job enqueued").
  Parsing a PAUSED or CLOSED campaign again makes it PARSED. A link that new rules do not
  list any more stays permitted and is ingested (`parseService.ts:71`,
  `ruleReviewService.ts:33`). A parse job that stalls twice, or whose last attempt fails before or in its
  catch block, leaves the campaign PARSING. An older parse may finish after a review
  and put its rules over the reviewed ones.
* *Clips.* Regeneration resets a preserved candidate to CANDIDATE or REJECTED
  without a guard or a version. A rejection after an approval does not stop the
  queued render; a refused render (halt, budget) is a success and leaves RENDERING
  only if an earlier attempt had come that far. `renderService.ts:196` keeps the row of a
  published clip and updates it, and its findings are then those of the former
  render.
* *Rules.* A prohibited word that begins or ends with `#`, `@` or a letter outside ASCII is not
  found beside a space, as `\b` wants a word character there: such a caption is reported to have "No
  prohibited words present" (`validators.ts:230-232`), and `PassMeansEstablished` leaves these words
  out. A clip cut at the maximum may last longer by a frame and then fails its own rules
  (`renderService.ts:205`, `validators.ts:59`). With a maximum below 15 s and no minimum, ranges
  of 15 s are cut, which all fail their duration check (`clipCandidateService.ts:149-154`). A
  derivation "idempotent per asset+revision" (`permissionService.ts:30-31`) always adds a
  record; verification sets VERIFIED from any status. A clip without a perceptual hash passes
  the near-duplicate check. Only the first required logo is drawn, and all are reported
  (`renderService.ts:268-272`).
* *Costs.* A cleared global cap is stored as "" and read as 0, which blocks all work
  (`killSwitch.ts:78`). No AI call passes the AI kill switch or a budget.
* *Keys.* Legacy values open only with the current key, so after a promotion they
  are unreadable and every pass of the script fails on them, although they are to be
  "upgraded on the next rotation pass" (`envelope.ts:14-15`). The script can write
  an old token over one connected meanwhile. While processes are deployed one after
  the other, the old ones cannot read what the new ones wrote.
* *Requests.* The limiter fails open on an error of Redis, but its connection
  retries for ever, so an outage makes limited routes and the login wait
  (`rateLimit.ts:11-12`, `connection.ts`).

## 5. Proofs

TLAPS checks these for every value of the constants that satisfies the modules'
assumptions, each named `...Assumption` in the module that declares the constants: any
rows, keys, processes and slots, any set of modes, checks and deployments, any number of workers,
callers, operators, attempts, faults, requests, decisions, resets and evictions, and in
`CampaignLifecycle` any set of rules that parsing and reviewing can conclude. What
the assumptions ask beyond types: bounds are naturals and there is at least one
attempt; the operators of `JobQueue` and the slots of `CostControl` are finite sets, as
they are counted, and there is a slot, without which nothing is spent and a cap of 0 is not
exceeded by less than nothing; the reviewers of `CampaignLifecycle` are not named like
its other callers; the routes requested of `Access` have the shape of routes, and the rules of
`ClipRules` that of the schema which every rule row is validated by
(`CampaignRulesSchema`: what is stated is a natural number, what is not is null; seconds,
sizes and amounts are whole in the model).

Every component's theorems have the same shape: `TypeOK`, an inductive invariant
`IInv` that stands with its named parts at the end of the component's module (`RulesInv` and
`RotationInv` in the two that share a module of proofs), lemmas
that go through the actions for each part (`...Step`; in `ClipPipeline`, where the
parts lean on each other, through the parts for each action), and the properties
read off. Only `TypeOK` of `JobQueue` and `ClipPipeline` is also checked by
the runs, as their bounds say something (attempts and renders).

*GuardedTransition.* The invariant `IInv` says of each call in flight that it has
read a legal move from a version no newer than the row's, and that while the
versions agree so do the statuses (unless the row is gone). The type invariant
alone is not enough: that the row a commit replaces is the one it validated is
exactly the last part. From it follow `StaleHasWinner`, `NoStaleOverwrite`,
`OneWinnerPerVersion`, and that every step is a step of `LifecycleRow` or a
stutter (`Implementation`).

*Publishing.* `IInv` has five parts: a running call's job is active; per call,
only the AUTO job ever works in effective mode AUTO, the AUTO row is not
PUBLISHED while that call may write it, its result is PUBLISHED exactly when it
posted, and its capabilities and findings were in order; `Balance`, which counts
each post as recorded, about to be recorded, lost or erased; `NeverFaked`; and
that approvals are among the acknowledged checks. The single writer is the heart
of it: rows of other keys do have two writers (a downgraded AUTO job and a DRAFT job), and
the count of AUTO posts survives only because a downgrade goes away from AUTO.
`AutoIsDecided` carries the decision, one lemma per part (`ActiveStep`,
`CallStep`, `BalanceStep`, `NeverFakedStep`) the steps, and the three theorems
follow from the invariant.

*Submission.* None of the five properties is inductive, because the row's status
and approval are copied into polls and written back later: the invariant has to
speak of the copies. `SignInv` holds a sign-off for each request that may still
fill in a form; `FilledInv` says that before the first form nothing, row or copy,
carries a status of a submission; `SaidInv` that every copy of a decision was
shown by the portal; `CalmInv` that without resets and faults the row is prepared
once, before anyone can confirm, and that polls read it only after a submission
was recorded; `JobInv` and `TrackInv` which jobs are under way. One lemma per
part goes through the actions, and each theorem is one part read off.

*JobQueue.* `OneHolder` rests on `HolderInv` alone: a busy worker's job is active, and
a job becomes active only from a state in which no worker holds it. That repeats are
paid for needs an account. `PaidInv` says that every completion but the last is paid
with a fault or a reset, and the last one too unless it is `Settled`: recorded, or
held by the worker that is about to record it on a row that is still there, with no handler
running and no failure to be acknowledged. Two details were found by the
proof: a replay whose dispatch has failed will write DEAD_LETTER back and so undo a
success it did not see, so each such operator counts as a completion in advance
(`Owed`); and a worker whose row was deleted by a retry may complete on a row that is
gone, which has to have been paid for before it returns. `RowInv` (row ids are not used again, a
row a worker began on disappears only by a reset) makes both true.
`CompletedMeansDone` is in `DoneInv` with the workers that are about to say so.

*CampaignLifecycle.* The types are proved together with `HashInv`: that a revision is one of
the pages follows from what every caller knows of the page, and the other way
round. `RulesInv` says that untorn rules have at most one writer, that the link agrees with
the newest of them that lists it once it is written, and, for the case the property does not mention, that a
transition that will be refused for its version leaves no status of rules behind.
`CoverInv` is the argument for `RevisionsParsed`: every page that is known was parsed, or
was missed, or a parse that has not read the page yet is on its way (`Pending`), or
the one in progress has read a page as new. `Implementation` takes every action apart:
those that write `status` do so by `Moves` from a status that the table permits and count the
version, and the rest leave the row alone, the upserts of discovery included; a campaign
that does not exist yet counts as one DISCOVERED at version 0 (`Unmoved`).

*ClipPipeline.* `RendersPaidFor` counts what is still to come: `Owed` is the set of renders
that are sure to happen unless something fails, namely a first one of each render job that waits or has not
written its clip, one more of each job whose `JobRun` the approve route or a retry deleted under
the running worker, and one of an approval that has not been enqueued; renders and
owed ones together are within approvals, retries and faults. The lemmas `OwedMoves` and
`Account` carry the cardinality. `CoverInv` has one clause for each
stage, that it has done its work or will, and is why an asset ends up with its
candidate. `EvaluationInv` says that an evaluation of the clip as it is exists, or is
announced by the render that is still on. It needs `RefInv`: a clip id that has not been
made has no compliance job, so a render that replaces the row meets no finished
evaluation, and a render that updates a row in place only meets a published one. Here the
types are inductive only together with the account, which bounds `renders`.

*CostControl.* `SpendInv` writes a day's cost as what the counter has, what is paid but not yet recorded
and what will never be recorded; a job that is `Admitted` has read a counter
below the cap, so cost and admitted jobs together stay below the cap and one
job of every slot. The midnight case is that tomorrow has cost nothing, whatever was
admitted today. `FreshInv` gives every copy of a setting an age: a query's answer, a cached
value, and what a gate holds. It uses `TimeInv`, that no query outlasts
`ReadTime` and no entry its life; the action property `GatesFresh` reads them off
at the step that lets the job through.

*Credentials.* `RetiredInv` compares every two environments in use and every key a token was
written under: the older is retired in the newer, never forgotten. Removal keeps it because it
follows a clean and settled run, after which, by `RunInv`, everything is under the current key;
`RunInv` in turn needs that a run starts only when every process is deployed, and that what is
connected meanwhile is new. `TokenInv` says that a ciphertext a run still holds has the token
its account was given, or the account is overtaken.

*Access.* The ghosts count calls by their time, so a sum over a window is the size of a set
(`CallsAt`: each call is its time and its number), and one more call is one more element; no sum
has to be unfolded. `SessionInv` says that what a session says was so when its login read the
row, `RowInv` that a row that was read said so then and is used within `ReadTime`, `CallInv`
that the cookie a request was let through by was once in a browser and had not expired: together
they are `AuthorityBounded`. `BucketInv` bounds an instance's counter by the calls it received
since its window began, which is `RefusedForCause`. For `BurstBounded` it takes `KeyInv` (a
Redis key lives to the end of the window that it is named for, so a window is never counted from
zero again) and `BurstInv`: a period of a window's length meets two windows, and each of the two
lets through the limit. A late call, computed in one window and counted in the next, is the
exception the property makes; the invariant has to say that one allowance for late calls serves
any two windows, or it would be counted twice.

*ClipRules.* What the recursion in `Cut` returns for every duration and every set of boundaries
is proved without induction over data: the function exists, because a start has a range that
ends at a later one (`RangesExist`, by the least level at which it would fail), so the `CHOOSE`
in it is that function (`CutIs`); and a least start whose ranges did not tile would have a next
range that does (`CutTiles`, by `TilesAfter`). Nothing longer than a minimum is left because the
end of the asset is a cut point itself. `SlideTiles` is arithmetic on `(duration - lo + hi) \div
hi`. `RangesOfAnyAsset` follows, and with it the lengths of cuts (`LengthsOfRules`) and of
encoded clips (`ProbedIs`), which `MadeToRule` needs. The invariant (`MadeInv`) says that what
is on a clip comes from the rules it was rendered under, for some hook; `CaptionsOfClip` reads
from it that every caption has what is mandatory, and nothing but elements. The latter is needed
for `PassMeansEstablished`: a validator finds an element *in* a text, and that a marked one that
is found is the one that was asked for holds only of elements. Two of the exceptions of
`MadeToRule` (a minimum that is zero or not stated under a short maximum, and a maximum below
the minimum) are exactly the cases of `TargetOfRules` in which the target is longer than the
rules allow; the other two are the rounding of the encoder at either limit.

Only model-checked, and why: liveness (`JobsSettle`, `FailureParked`, `PendingResolves`,
`SubmissionFollows`, `ParsingSettles`, `RenderingSettles`), as fairness and ENABLED are out of the
prover's reach. Every other property of a passing run is a theorem.

## 6. Not modelled

The UI, the evaluation harness, the AI client, ffmpeg/Remotion, perceptual hashing, storage and
page scraping are I/O or arithmetic on pixels whose results are choices of the models. Reporting
(metrics, readiness, audit events) decides nothing, except that an audit can
throw, which the models include where it matters. Profitability scores are
floating-point numbers shown to operators; of clip scores the models keep whether
they reject the candidate.

Partly modelled: several resources of a campaign and several candidates of an
asset (one of each is); the capability list of the UI and the validation of the
environment at start-up; AI usage, which is recorded for the shared pool and
passes no gate. `Access` takes requests to be same-origin, from one address, with
one secret and synchronised clocks, and Redis to keep its data (it runs with
`--appendonly yes`); passwords and signatures are the facts they establish. Which
routes check the workspace is read from each route as it is.
