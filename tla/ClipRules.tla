----------------------------- MODULE ClipRules -----------------------------
(***************************************************************************)
(* What the rules of a campaign make of a clip: the ranges its asset is    *)
(* cut into, the rights recorded for the asset, what rendering puts on the *)
(* clip and into its captions, and the findings that an evaluation comes   *)
(* to.  The rules may be revised at any time, so what was cut, recorded or *)
(* rendered under one version is evaluated under another.                  *)
(*                                                                         *)
(* A text is a set of elements; @ and # are the mark of an element.        *)
(***************************************************************************)
EXTENDS StateMachines, Integers, Sequences, FiniteSets

CONSTANTS Words,        \* the names of the elements of texts
          OddWords,     \* those that begin or end with another character than an ASCII
                        \* letter, a digit or an underscore
          Rules,        \* the CampaignRules a campaign may have
          Surroundings, \* what else an evaluation may find (see Context)
          Hooks,        \* the sets of words the model may open a caption with
          DefaultMin,   \* DEFAULT_MIN
          DefaultMax,   \* DEFAULT_MAX
          Rounding,     \* how far the encoded file's length may be from the cut's
          MaxDuration,  \* bound: seconds of an asset
          MaxRecords,   \* bound: AssetPermission rows
          MaxRevisions, \* bound: how often the rules are revised
          MaxTime       \* bound: days

Null == -1

Publishable == {"TIKTOK", "INSTAGRAM_REELS", "YOUTUBE_SHORTS"}
Platforms == Publishable \cup {"INSTAGRAM", "YOUTUBE", "X", "OTHER"}
Transformations == {"DOWNLOAD", "CLIP", "MODIFY", "CAPTION", "OVERLAY", "PUBLISH"}

Element == [name : Words, marked : BOOLEAN]
Shorts == [name |-> "shorts", marked |-> TRUE]
Maybe(S) == S \cup {Null}

CampaignRules ==
  [min : Maybe(Nat), max : Maybe(Nat), phrases : SUBSET Element, mentions : SUBSET Element,
   hashtags : SUBSET Element, logos : SUBSET Element, platforms : SUBSET Platforms,
   deadline : Maybe(Nat), maxPosts : Maybe(Nat), budgetRemaining : Maybe(Nat),
   maxSize : Maybe(Nat), prohibited : SUBSET Element, accountRequired : BOOLEAN,
   publicPost : BOOLEAN, noYoutube : BOOLEAN, prohibitedContent : BOOLEAN]

Context ==
  [status : StatusesOf("Campaign"), publicationCount : Nat, duplicate : BOOLEAN,
   publicVerified : {"yes", "no", "unknown"}, fromYoutube : BOOLEAN, mediaMatches : BOOLEAN,
   semantic : {"PASS", "REVIEW", "FAIL"}]

ASSUME RulesAssumption ==
  /\ Rules \subseteq CampaignRules /\ Surroundings \subseteq Context
  /\ Hooks \subseteq SUBSET Element /\ OddWords \subseteq Words
  /\ DefaultMin \in Nat \ {0} /\ DefaultMax \in Nat /\ DefaultMin <= DefaultMax
  /\ {Rounding, MaxDuration, MaxRecords, MaxRevisions, MaxTime} \subseteq Nat

VARIABLES
  rules,     \* the CampaignRule row in force
  revisions, \* how often they were revised
  records,   \* the AssetPermission rows of the asset
  time,
  rendering  \* the RenderedClip and its manifest; no captions: there is none

rulesVars == <<rules, revisions, records, time, rendering>>

Permission ==
  [platforms : SUBSET Publishable, transformations : SUBSET Transformations,
   until : Maybe(Nat), status : {"PROVISIONAL", "VERIFIED"}]
NoRendering == [duration |-> 0, bytes |-> Null, captions |-> <<>>, applied |-> {}, under |-> rules]

RulesTypeOK ==
  /\ rules \in Rules /\ revisions \in 0..MaxRevisions /\ time \in 0..MaxTime
  /\ records \in Seq(Permission) /\ Len(records) <= MaxRecords
  /\ rendering.duration \in 0..(MaxDuration + Rounding) /\ rendering.bytes \in -1..2 /\ rendering.under \in Rules

RulesInit ==
  /\ rules \in Rules /\ revisions = 0
  /\ records = <<>> /\ time = 0
  /\ rendering = NoRendering

-----------------------------------------------------------------------------
(* The ranges of an asset.                                                  *)

Larger(m, n) == IF m > n THEN m ELSE n
OrElse(x, y) == IF x = Null THEN y ELSE x

\* Where no minimum is required, or one of zero, the default keeps the maximum up.
DurationTarget(r) ==
  LET min == OrElse(r.min, DefaultMin)
      max == OrElse(r.max, DefaultMax)
  IN [min |-> Larger(1, min), max |-> Larger(IF min = 0 THEN DefaultMin ELSE min, max)]

Least(S) == CHOOSE n \in S : \A m \in S : n <= m

\* Mutant of Cut: after a hard cut the next range starts at the boundary.
CutOn(duration, cuts, target) ==
  LET lo == Larger(1, target.min)
      hi == Larger(lo, target.max)
      from[start \in 0..duration] ==
        LET far == {cut \in cuts : cut - start >= lo}
            here == Least(far)
            end == IF here - start <= hi THEN here ELSE start + hi
        IN IF far = {} THEN <<>> ELSE <<<<start, end>>>> \o from[here]
  IN from[0]

\* From the start of a range on, the cut points that are too near are passed over; the
\* range ends at the first that is not, or at the maximum where that one is too far, and
\* the next range starts there.
Cut(duration, cuts, target) ==
  LET lo == Larger(1, target.min)
      hi == Larger(lo, target.max)
      from[start \in 0..duration] ==
        LET far == {cut \in cuts : cut - start >= lo}
            here == Least(far)
            end == IF here - start <= hi THEN here ELSE start + hi
        IN IF far = {} THEN <<>> ELSE <<<<start, end>>>> \o from[end]
  IN from[0]

\* Without scenes: windows of the maximum, the last one if it is not too short.
Slide(duration, target) ==
  LET lo == Larger(1, target.min)
      hi == Larger(lo, target.max)
      end(k) == IF k * hi < duration THEN k * hi ELSE duration
  IN [k \in 1..((duration - lo + hi) \div hi) |-> <<(k - 1) * hi, end(k)>>]

BuildCandidateRanges(duration, boundaries, target) ==
  LET within == {b \in boundaries : 0 < b /\ b < duration}
  IN IF duration = 0 THEN <<>>
     ELSE IF within = {} THEN Slide(duration, target)
          ELSE Cut(duration, within \cup {duration}, target)

\* The lengths of the candidates of any asset.
CandidateLengths(r) ==
  UNION {LET ranges == BuildCandidateRanges(d, b, DurationTarget(r))
         IN {ranges[i][2] - ranges[i][1] : i \in DOMAIN ranges} :
         d \in 0..MaxDuration, b \in SUBSET (1..(MaxDuration - 1))}

-----------------------------------------------------------------------------
(* permissionService.                                                       *)

\* The names of the apps stand for their short-video platforms; X is dropped.
ToPlatforms(platforms) ==
  (platforms \cap Publishable)
    \cup {"INSTAGRAM_REELS" : p \in platforms \cap {"INSTAGRAM"}}
    \cup {"YOUTUBE_SHORTS" : p \in platforms \cap {"YOUTUBE"}}

\* deriveProvisionalPermission: one more record each time.
Derive ==
  /\ Len(records) < MaxRecords
  /\ records' = Append(records, [platforms |-> ToPlatforms(rules.platforms),
                                 transformations |-> Transformations,
                                 until |-> rules.deadline, status |-> "PROVISIONAL"])
  /\ UNCHANGED <<rules, revisions, time, rendering>>

Verify(i) ==
  /\ records' = [records EXCEPT ![i].status = "VERIFIED"]
  /\ UNCHANGED <<rules, revisions, time, rendering>>

\* Mutant of ActivePermissions: until when a record is valid is ignored.
EveryPermission == DOMAIN records

ActivePermissions == {i \in DOMAIN records : records[i].until = Null \/ records[i].until >= time}

\* checkPermission; without a platform if there are none.  No record is ever DENIED or
\* REVOKED: only permitted resources are ingested, and no operation revokes.
CheckPermission(transforms, platforms) ==
  LET covering == {i \in ActivePermissions : /\ transforms \subseteq records[i].transformations
                                             /\ platforms \subseteq records[i].platforms}
  IN CASE ActivePermissions = {} -> "REVIEW"
       [] ActivePermissions # {} /\ covering = {} -> "FAIL"
       [] covering # {} /\ (\E i \in covering : records[i].status = "VERIFIED") -> "PASS"
       [] OTHER -> "REVIEW"

-----------------------------------------------------------------------------
(* renderCandidate: overlays and captions.                                  *)

Mark(elements) == {[e EXCEPT !.marked = TRUE] : e \in elements}

\* Every required overlay is reported as applied; of the logos the first is drawn.
Overlays(r) ==
  {[kind |-> "CAPTION", value |-> e] : e \in r.phrases}
    \cup {[kind |-> "MENTION", value |-> e] : e \in Mark(r.mentions)}
    \cup {[kind |-> "LOGO", value |-> e] : e \in r.logos}

\* Mutant of Caption: #Shorts in place of the hashtags.
CaptionOfShorts(platform, r, hook) ==
  hook \cup r.phrases \cup Mark(r.mentions)
    \cup IF platform = "YOUTUBE_SHORTS" THEN {Shorts} ELSE Mark(r.hashtags)

\* The hook is the model's; what is mandatory is appended.
Caption(platform, r, hook) ==
  hook \cup r.phrases \cup Mark(r.mentions) \cup Mark(r.hashtags)
    \cup IF platform = "YOUTUBE_SHORTS" THEN {Shorts} ELSE {}

CaptionPlatforms(r) == IF r.platforms = {} THEN Publishable ELSE r.platforms

\* What the encoded file of a cut of that length may be found to last: whole frames of
\* picture and of sound, or the length itself where the file could not be probed.
Probed(length) == {d \in 0..(length + Rounding) : d >= length - Rounding}

\* A candidate cut and rendered under the rules in force, where its rights do not FAIL.
RenderCandidate ==
  /\ CheckPermission({"DOWNLOAD", "CLIP", "MODIFY"}, {}) # "FAIL"
  /\ \E length \in CandidateLengths(rules), hook \in Hooks, bytes \in {Null, 1, 2} :
       \E duration \in Probed(length) :
         rendering' = [duration |-> duration, bytes |-> bytes, applied |-> Overlays(rules),
                       under |-> rules,
                       captions |-> [p \in CaptionPlatforms(rules) |-> Caption(p, rules, hook)]]
  /\ UNCHANGED <<rules, revisions, records, time>>

Revise ==
  /\ revisions < MaxRevisions
  /\ \E r \in Rules \ {rules} : rules' = r
  /\ revisions' = revisions + 1
  /\ UNCHANGED <<records, time, rendering>>

Tick ==
  /\ time < MaxTime
  /\ time' = time + 1
  /\ UNCHANGED <<rules, revisions, records, rendering>>

RulesNext == Derive \/ (\E i \in DOMAIN records : Verify(i)) \/ RenderCandidate \/ Revise \/ Tick

RulesSpec == RulesInit /\ [][RulesNext]_rulesVars

-----------------------------------------------------------------------------
(* evaluateCompliance: s is what it finds in the surroundings of the clip.  *)

TargetPlatforms == IF rendering.captions = <<>> THEN rules.platforms ELSE DOMAIN rendering.captions

PermissionTransforms ==
  {"DOWNLOAD", "CLIP", "MODIFY", "PUBLISH"}
    \cup {"CAPTION" : p \in DOMAIN rendering.captions} \cup {"OVERLAY" : o \in rendering.applied}

\* The strictest outcome; platforms that cannot be published to are passed over.
Worst(outcomes) ==
  IF "FAIL" \in outcomes THEN "FAIL" ELSE IF "REVIEW" \in outcomes THEN "REVIEW" ELSE "PASS"

WorstPermission ==
  LET targets == TargetPlatforms \cap Publishable
  IN IF targets = {}
     THEN CheckPermission(PermissionTransforms, {})
     ELSE Worst({CheckPermission(PermissionTransforms, {p}) : p \in targets})

\* An element is found in a text without regard to what surrounds it.
Contains(text, e) == \E t \in text : t.name = e.name /\ (e.marked => t.marked)

EveryCaptionContains(e) ==
  /\ DOMAIN rendering.captions # {}
  /\ \A p \in DOMAIN rendering.captions : Contains(rendering.captions[p], e)

Known(fails, unknown) == IF unknown THEN "REVIEW" ELSE IF fails THEN "FAIL" ELSE "PASS"

CheckDuration ==
  Known(\/ rules.min # Null /\ rendering.duration < rules.min
        \/ rules.max # Null /\ rendering.duration > rules.max, FALSE)

CheckMandatoryOverlays ==
  Known(\E e \in rules.logos : \A o \in rendering.applied : o.value # e, FALSE)

CheckMandatoryText ==
  LET written == {o.value : o \in {a \in rendering.applied : a.kind \in {"CAPTION", "TEXT"}}}
  IN Known(\E e \in rules.phrases : ~ Contains(written, e) /\ ~ EveryCaptionContains(e), FALSE)

CheckMandatoryMentions ==
  Known(\E e \in Mark(rules.mentions) : ~ EveryCaptionContains(e),
        rules.mentions # {} /\ DOMAIN rendering.captions = {})

CheckMandatoryHashtags ==
  Known(\E e \in Mark(rules.hashtags) : ~ EveryCaptionContains(e),
        rules.hashtags # {} /\ DOMAIN rendering.captions = {})

CheckPlatformEligibility ==
  Known(~ (TargetPlatforms \subseteq rules.platforms),
        rules.platforms = {} \/ TargetPlatforms = {})

CheckDeadline == Known(rules.deadline # Null /\ rules.deadline < time, FALSE)

CheckMaxPosts(s) == Known(rules.maxPosts # Null /\ s.publicationCount >= rules.maxPosts, FALSE)

CheckCampaignStatus(s) ==
  Known(s.status \in {"CLOSED", "PAUSED", "ERROR"},
        s.status \notin {"CLOSED", "PAUSED", "ERROR", "ACTIVE", "PARSED", "DISCOVERED"})

CheckRemainingBudget == Known(rules.budgetRemaining = 0, rules.budgetRemaining = Null)

CheckFileSize ==
  Known(rules.maxSize # Null /\ rendering.bytes > rules.maxSize,
        rules.maxSize # Null /\ rendering.bytes = Null)

\* Only at the ends of a word as \b knows them: one that begins or ends with a mark or
\* another such character is not found beside a space.
Sought == {word \in rules.prohibited : ~ word.marked /\ word.name \notin OddWords}

CheckProhibitedWords ==
  Known(\E word \in Sought :
          \/ \E p \in DOMAIN rendering.captions : Contains(rendering.captions[p], word)
          \/ Contains({o.value : o \in rendering.applied}, word), FALSE)

CheckMinimumAccountRequirements == Known(FALSE, rules.accountRequired)

CheckPublicPostRequirement(s) ==
  Known(rules.publicPost /\ s.publicVerified = "no", rules.publicPost /\ s.publicVerified = "unknown")

CheckSourceEligibility(s) == Known(rules.noYoutube /\ s.fromYoutube, FALSE)

\* hasDuplicate, hasDuplicateCaption, and findPerceptualDuplicate, which finds nothing
\* where the clip has no hash.
CheckDuplicates(s) == Known(s.duplicate, FALSE)

\* Size, ratio and format as probed, or as configured where the probe failed.
CheckMedia(s) == Known(~ s.mediaMatches, FALSE)

\* The model is asked whether the text has prohibited content.
SemanticReview(s) == IF rules.prohibitedContent THEN s.semantic ELSE "PASS"

RunDeterministicChecks(s) ==
  [duration |-> CheckDuration, media |-> CheckMedia(s), sourcePermission |-> WorstPermission,
   sourceEligibility |-> CheckSourceEligibility(s),
   mandatoryOverlays |-> CheckMandatoryOverlays, mandatoryText |-> CheckMandatoryText,
   mandatoryMentions |-> CheckMandatoryMentions, mandatoryHashtags |-> CheckMandatoryHashtags,
   platformEligibility |-> CheckPlatformEligibility, deadline |-> CheckDeadline,
   maxPosts |-> CheckMaxPosts(s), duplicates |-> CheckDuplicates(s),
   campaignStatus |-> CheckCampaignStatus(s), remainingBudget |-> CheckRemainingBudget,
   fileSize |-> CheckFileSize, prohibitedWords |-> CheckProhibitedWords,
   minimumAccountRequirements |-> CheckMinimumAccountRequirements,
   publicPostRequirement |-> CheckPublicPostRequirement(s)]

OverallOutcome(s) ==
  LET findings == RunDeterministicChecks(s)
  IN Worst({findings[check] : check \in DOMAIN findings} \cup {SemanticReview(s)})

-----------------------------------------------------------------------------
(* Properties.                                                              *)

Rendered == rendering.captions # <<>>

\* The ranges of any asset follow each other from its beginning, each as long as the
\* target asks, and leave less than a minimum uncut, wherever the scenes change: no
\* cut is lost and none overlaps another.  buildCandidateRanges.
RangesTile ==
  \A d \in 0..MaxDuration, b \in SUBSET (1..(MaxDuration - 1)) :
    LET target == DurationTarget(rules)
        ranges == BuildCandidateRanges(d, b, target)
        start(i) == IF i = 1 THEN 0 ELSE ranges[i - 1][2]
    IN /\ \A i \in DOMAIN ranges :
            /\ ranges[i][1] = start(i)
            /\ ranges[i][2] - ranges[i][1] \in target.min..target.max
       /\ start(Len(ranges) + 1) \in (d - target.min + 1)..d

\* A clip is made to the rules: evaluated under the rules that it was cut and rendered
\* under, whatever hook the model wrote, it fails no check of what is mandatory in it:
\* its text, mentions, hashtags, overlays and platforms, nor that of its length, unless
\* the encoded file is beyond a limit by no more than it is off the cut, or the rules
\* ask for less than the default minimum and state none.
\* generateClipCandidates and renderCandidate against the validators.
MadeToRule ==
  \A s \in Surroundings :
    LET findings == RunDeterministicChecks(s) IN
    Rendered /\ rendering.under = rules =>
      /\ "FAIL" \notin {findings.mandatoryText, findings.mandatoryMentions, findings.mandatoryHashtags,
                        findings.mandatoryOverlays, findings.platformEligibility}
      /\ \/ findings.duration = "PASS"
         \/ rules.max # Null /\ rendering.duration \in (rules.max + 1)..(rules.max + Rounding)
         \/ rules.min # Null /\ rendering.duration \in (rules.min - Rounding)..(rules.min - 1)
         \/ rules.min \in {0, Null} /\ rules.max # Null /\ rules.max < DefaultMin
         \/ rules.max # Null /\ rules.min > rules.max

\* What passes is established: a clip whose every finding is PASS was granted, for each
\* platform it can be published on, by a record that a human verified and that still
\* holds, and is wanted there; nothing that the rules ask is unknown; and it still
\* meets rules that were revised after it was rendered.  Of the prohibited words, those
\* that the check can find (Sought).  evaluateCompliance.
PassMeansEstablished ==
  \A s \in Surroundings :
    Rendered /\ OverallOutcome(s) = "PASS" =>
      /\ \A p \in DOMAIN rendering.captions \cap Publishable :
           \E i \in DOMAIN records :
             /\ records[i].status = "VERIFIED" /\ p \in records[i].platforms
             /\ records[i].until = Null \/ records[i].until >= time
      /\ DOMAIN rendering.captions \subseteq rules.platforms
      /\ rules.deadline = Null \/ time <= rules.deadline
      /\ rules.budgetRemaining > 0 /\ ~ rules.accountRequired
      /\ rules.maxSize # Null => rendering.bytes \in 0..rules.maxSize
      /\ rules.publicPost => s.publicVerified = "yes"
      /\ \A p \in DOMAIN rendering.captions :
           /\ Mark(rules.mentions) \cup Mark(rules.hashtags) \subseteq rendering.captions[p]
           /\ ~ \E word \in Sought : Contains(rendering.captions[p], word)

-----------------------------------------------------------------------------
\* The inductive invariant behind the properties: what is on a clip comes from the rules
\* that it was rendered under, and its length from one that they allow.
MadeInv ==
  Rendered =>
    /\ \E length \in CandidateLengths(rendering.under) : rendering.duration \in Probed(length)
    /\ rendering.applied = Overlays(rendering.under)
    /\ \E hook \in Hooks :
         rendering.captions =
           [p \in CaptionPlatforms(rendering.under) |-> Caption(p, rendering.under, hook)]

RulesInv == RulesTypeOK /\ MadeInv
=============================================================================
