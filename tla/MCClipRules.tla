---------------------------- MODULE MCClipRules ----------------------------
(* Four versions of a campaign's rules, for TLC. *)
EXTENDS ClipRules

Bare(name) == [name |-> name, marked |-> FALSE]
Tag(name) == [name |-> name, marked |-> TRUE]
Plain(names) == {Bare(name) : name \in names}

\* Rules that are easy to meet.
Open ==
  [min |-> Null, max |-> Null, phrases |-> {}, mentions |-> {}, hashtags |-> {}, logos |-> {},
   platforms |-> {"TIKTOK", "YOUTUBE_SHORTS"}, deadline |-> Null, maxPosts |-> Null,
   budgetRemaining |-> 1, maxSize |-> Null, prohibited |-> {}, accountRequired |-> FALSE,
   publicPost |-> FALSE, noYoutube |-> FALSE, prohibitedContent |-> FALSE]

\* Everything is asked for.
Demanding ==
  [Open EXCEPT !.min = 1, !.max = 3, !.phrases = Plain({"phrase"}),
               !.mentions = {Bare("brand"), Tag("partner")},
               !.hashtags = Plain({"topic"}), !.logos = Plain({"logo"}), !.deadline = 1,
               !.maxPosts = 1, !.maxSize = 1, !.prohibited = Plain({"curse", "oh!"}) \cup {Tag("rival")},
               !.publicPost = TRUE, !.noYoutube = TRUE, !.prohibitedContent = TRUE]

\* Fewer platforms, one by the name of its app, and another mention.
Narrowed ==
  [Open EXCEPT !.min = 3, !.platforms = {"TIKTOK", "INSTAGRAM"}, !.mentions = Plain({"brand"}),
               !.deadline = 0]

\* The platforms and the budget are not stated, and only a short clip is wanted.
Unclear ==
  [Open EXCEPT !.max = 1, !.platforms = {}, !.budgetRemaining = Null, !.hashtags = Plain({"topic"}),
               !.accountRequired = TRUE]

MCWords == {"phrase", "brand", "partner", "topic", "logo", "curse", "oh!", "rival"}
MCOddWords == {"oh!"}
MCRules == {Open, Demanding, Narrowed, Unclear}
MCHooks == {{}, Plain({"curse"}), Plain({"brand", "oh!"}) \cup {Tag("rival")}}

\* Everything is well, or one thing is not.
Fine ==
  [status |-> "ACTIVE", publicationCount |-> 0, duplicate |-> FALSE, publicVerified |-> "yes",
   fromYoutube |-> FALSE, mediaMatches |-> TRUE, semantic |-> "PASS"]

MCSurroundings ==
  {Fine, [Fine EXCEPT !.publicationCount = 1], [Fine EXCEPT !.duplicate = TRUE],
   [Fine EXCEPT !.publicVerified = "unknown"], [Fine EXCEPT !.publicVerified = "no"],
   [Fine EXCEPT !.fromYoutube = TRUE], [Fine EXCEPT !.mediaMatches = FALSE],
   [Fine EXCEPT !.semantic = "REVIEW"]}
    \cup {[Fine EXCEPT !.status = st] : st \in StatusesOf("Campaign")}
=============================================================================
