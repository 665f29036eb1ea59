--------------------------- MODULE StateMachines ---------------------------
(***************************************************************************)
(* The lifecycle tables of src/lib/state/stateMachines.ts: pure data, with *)
(* the two predicates every status change of the application goes through. *)
(* A table maps a status to the set of statuses it may move to.            *)
(***************************************************************************)

CAMPAIGN_TRANSITIONS ==
  [DISCOVERED          |-> {"PARSING", "CLOSED", "ERROR"},
   PARSING             |-> {"PARSED", "NEEDS_MANUAL_REVIEW", "ERROR"},
   PARSED              |-> {"PARSING", "ACTIVE", "PAUSED", "CLOSED",
                            "NEEDS_MANUAL_REVIEW", "ERROR"},
   NEEDS_MANUAL_REVIEW |-> {"PARSING", "PARSED", "CLOSED", "ERROR"},
   ACTIVE              |-> {"PAUSED", "CLOSED", "PARSING", "ERROR"},
   PAUSED              |-> {"ACTIVE", "CLOSED", "PARSING", "ERROR"},
   CLOSED              |-> {"PARSING", "ERROR"},
   ERROR               |-> {"PARSING", "CLOSED"}]

ASSET_TRANSITIONS ==
  [PENDING     |-> {"DOWNLOADING", "READY", "FAILED"},
   DOWNLOADING |-> {"READY", "FAILED"},
   READY       |-> {"FAILED"},
   FAILED      |-> {"PENDING", "DOWNLOADING"}]

CLIP_TRANSITIONS ==
  [CANDIDATE |-> {"APPROVED", "REJECTED", "FAILED"},
   APPROVED  |-> {"RENDERING", "REJECTED", "CANDIDATE"},
   RENDERING |-> {"RENDERED", "FAILED"},
   RENDERED  |-> {},
   REJECTED  |-> {"CANDIDATE", "APPROVED"},
   FAILED    |-> {"APPROVED", "CANDIDATE"}]

PUBLICATION_TRANSITIONS ==
  [PENDING   |-> {"DRAFTED", "PUBLISHED", "FAILED", "SKIPPED"},
   DRAFTED   |-> {"PUBLISHED", "FAILED"},
   PUBLISHED |-> {},
   FAILED    |-> {"PENDING"},
   SKIPPED   |-> {"PENDING"}]

SUBMISSION_TRANSITIONS ==
  [PREPARED              |-> {"AWAITING_CONFIRMATION", "SUBMITTED", "FAILED"},
   AWAITING_CONFIRMATION |-> {"SUBMITTED", "FAILED", "PREPARED"},
   SUBMITTED             |-> {"APPROVED", "REJECTED", "FAILED"},
   APPROVED              |-> {},
   REJECTED              |-> {"PREPARED"},
   FAILED                |-> {"PREPARED", "AWAITING_CONFIRMATION"}]

JOBRUN_TRANSITIONS ==
  [QUEUED    |-> {"RUNNING", "SKIPPED"},
   RUNNING   |-> {"SUCCEEDED", "FAILED", "SKIPPED"},
   SUCCEEDED |-> {},
   FAILED    |-> {"RUNNING", "QUEUED"},
   SKIPPED   |-> {"RUNNING", "QUEUED"}]

TABLES ==
  [Campaign           |-> CAMPAIGN_TRANSITIONS,
   SourceAsset        |-> ASSET_TRANSITIONS,
   ClipCandidate      |-> CLIP_TRANSITIONS,
   Publication        |-> PUBLICATION_TRANSITIONS,
   CampaignSubmission |-> SUBMISSION_TRANSITIONS,
   JobRun             |-> JOBRUN_TRANSITIONS]

EntityName == DOMAIN TABLES

\* The statuses a table has a row for.
StatusesOf(entity) == DOMAIN TABLES[entity]

\* A status without a row in the table (JobRun's DEAD_LETTER) has no successor.
Successors(entity, from) ==
  IF from \in DOMAIN TABLES[entity] THEN TABLES[entity][from] ELSE {}

\* assertTransition throws exactly when this is FALSE.
CanTransition(entity, from, to) ==
  from = to \/ to \in Successors(entity, from)
=============================================================================
