--------------------------- MODULE SentimentReads ---------------------------
(***************************************************************************)
(* The sentiment history of one symbol as the API reads it: a request runs *)
(* three statements on one READ COMMITTED connection, each with a snapshot *)
(* of its own, while posts arrive and retention moves expired ones from    *)
(* posts into hourly_sentiment_facts and hourly_sentiment_agg.  The older  *)
(* table knows hours but not platforms, and it holds posts that were moved *)
(* before the facts existed.  That a move counts each row once is what     *)
(* Retention shows; here it is one step.                                   *)
(***************************************************************************)
EXTENDS Naturals, FiniteSets, FiniteSetsExt, Sequences

CONSTANTS
  ReadPost,       (* posts of the symbol                                    *)
  HourOfPost,     (* the hour of a post                                     *)
  PlatformOf,     (* its platform                                           *)
  Ancient,        (* posts only hourly_sentiment_agg ever counted           *)
  ReadHours       (* bound: hours 1 .. ReadHours                            *)

ReadHour == 1 .. ReadHours

ASSUME ReadAssumption ==
  /\ ReadHours \in Nat \ {0}
  /\ HourOfPost \in [ReadPost -> ReadHour]
  /\ Ancient \subseteq ReadPost

Unfiltered == "all"
Filter == {Unfiltered} \cup { PlatformOf[p] : p \in ReadPost }

VARIABLES
  hot,          (* rows of posts                                            *)
  canonical,    (* posts counted by hourly_sentiment_facts                  *)
  aggregated,   (* posts counted by hourly_sentiment_agg                    *)
  horizon,      (* hours below it are expired                               *)
  request,      (* the platform of the request that is served, or "none"    *)
  statement,    (* how many of its statements have run                      *)
  counted,      (* how often each post is in the buckets of the response    *)
  coverage,     (* coverage_start, an hour or ReadHours + 1 for none        *)
  slipped,      (* history: posts that were moved after the aggregates of   *)
                (* the request were read and before its posts were          *)
  tooLate       (* history: posts stored after its posts were read          *)

tierVars     == << hot, canonical, aggregated, horizon >>
responseVars == << request, statement, counted, coverage >>
readVars     == << tierVars, responseVars, slipped, tooLate >>

In(S, h) == { p \in S : HourOfPost[p] = h }

Nothing == [p \in ReadPost |-> 0]

ReadInit ==
  /\ hot = {} /\ canonical = {} /\ aggregated = Ancient /\ horizon = 1
  /\ request = "none" /\ statement = 0
  /\ counted = Nothing /\ coverage = ReadHours + 1
  /\ slipped = {} /\ tooLate = {}

(* A post is scored and stored, an old one too: sources deliver late.       *)
StorePost(p) ==
  /\ p \notin hot \cup canonical \cup aggregated
  /\ hot' = hot \cup {p}
  /\ tooLate' = IF statement >= 2 THEN tooLate \cup {p} ELSE tooLate
  /\ UNCHANGED << canonical, aggregated, horizon, responseVars, slipped >>

(* Retention moves posts, whichever statement of a request runs next.       *)
Slip(moved) ==
  /\ slipped' = IF statement = 1 THEN slipped \cup moved ELSE slipped
  /\ UNCHANGED << responseVars, tooLate >>

(* Mutant: the cutoff is not aligned to the hour.                           *)
MoveExpiredSplit(h) ==
  /\ h >= horizon /\ horizon' = h
  /\ \E early \in SUBSET In(hot, h) :
       LET expired == { p \in hot : HourOfPost[p] < h } \cup early
       IN  /\ hot' = hot \ expired
           /\ canonical'  = canonical \cup expired
           /\ aggregated' = aggregated \cup expired
           /\ Slip(expired)

(* The cutoff is a whole hour, so an hour moves as one.                     *)
MoveExpired(h) ==
  LET expired == { p \in hot : HourOfPost[p] < h }
  IN  /\ h >= horizon /\ horizon' = h
      /\ hot' = hot \ expired
      /\ canonical'  = canonical \cup expired
      /\ aggregated' = aggregated \cup expired
      /\ Slip(expired)

Ask(f) ==
  /\ request = "none"
  /\ request' = f /\ statement' = 0 /\ counted' = Nothing
  /\ UNCHANGED << tierVars, coverage, slipped, tooLate >>

Matching(S) ==
  { p \in S : request = Unfiltered \/ PlatformOf[p] = request }

(* Mutant: the aggregates are added to the facts.                           *)
LegacyAlways == IF request = Unfiltered THEN aggregated ELSE {}

(* The older aggregates answer an unfiltered request, for the hours without *)
(* a canonical fact.                                                        *)
Legacy ==
  IF request = Unfiltered
    THEN { p \in aggregated : In(canonical, HourOfPost[p]) = {} }
    ELSE {}

CountAll(S, T) ==
  counted' = [p \in ReadPost |-> counted[p] + (IF p \in S THEN 1 ELSE 0)
                                            + (IF p \in T THEN 1 ELSE 0)]

(* Mutant: the hot tier is read first.                                      *)
StatementsHotFirst == << "posts", "aggregates", "coverage" >>

Statements == << "aggregates", "posts", "coverage" >>

Running(name) ==
  /\ request # "none" /\ statement < Len(Statements)
  /\ Statements[statement + 1] = name
  /\ statement' = statement + 1
  /\ UNCHANGED << tierVars, request, slipped, tooLate >>

(* Mutant: the facts are only looked up to see which hours they have.       *)
ReadLegacyOnly ==
  /\ Running("aggregates")
  /\ CountAll({}, Legacy)
  /\ UNCHANGED coverage

ReadAggregates ==
  /\ Running("aggregates")
  /\ CountAll(Matching(canonical), Legacy)
  /\ UNCHANGED coverage

(* The overlay adds the raw posts to whatever the buckets hold.             *)
ReadPosts ==
  /\ Running("posts")
  /\ CountAll(Matching(hot), {})
  /\ UNCHANGED coverage

(* Mutant: the coverage of a request looks at the facts only.               *)
CoveredByFacts == Matching(canonical)

Covered ==
  Matching(hot) \cup Matching(canonical)
    \cup (IF request = Unfiltered THEN aggregated ELSE {})

ReadCoverage ==
  /\ Running("coverage")
  /\ coverage' = Min({ HourOfPost[p] : p \in Covered } \cup {ReadHours + 1})
  /\ UNCHANGED counted

Respond ==
  /\ statement = Len(Statements) /\ request # "none"
  /\ request' = "none" /\ statement' = 0
  /\ coverage' = ReadHours + 1 /\ counted' = Nothing
  /\ slipped' = {} /\ tooLate' = {}
  /\ UNCHANGED tierVars

ReadNext ==
  \/ \E p \in ReadPost : StorePost(p)
  \/ \E h \in ReadHour : MoveExpired(h)
  \/ \E f \in Filter : Ask(f)
  \/ ReadAggregates \/ ReadPosts \/ ReadCoverage \/ Respond

ReadSpec == ReadInit /\ [][ReadNext]_readVars

(* The leaderboard's count of an hour, in one statement: the aggregate wins *)
(* over the raw posts.  Its window need not begin or end with an hour.      *)
(* Raw posts are compared with its bounds one by one, so those in `inside`  *)
(* count; an aggregate is read or not as its hour starts inside or before.  *)
Buzz(h, startsInside, inside) ==
  IF startsInside /\ In(aggregated, h) # {} THEN Cardinality(In(aggregated, h))
  ELSE Cardinality(In(hot, h) \cap inside)

-----------------------------------------------------------------------------
(* The variables keep their types; canonical facts count only posts that    *)
(* were aggregated.                                                         *)
ReadTypeOK ==
  /\ hot \subseteq ReadPost /\ canonical \subseteq aggregated
  /\ aggregated \subseteq ReadPost /\ horizon \in ReadHour
  /\ request \in Filter \cup {"none"} /\ statement \in 0 .. 3
  /\ counted \in [ReadPost -> Nat] /\ coverage \in 1 .. ReadHours + 1
  /\ slipped \subseteq ReadPost /\ tooLate \subseteq ReadPost

(* However retention interleaves with the statements of a request, no post  *)
(* is counted twice in a response, and none of another platform.            *)
CountedOnce ==
  \A p \in ReadPost :
    /\ counted[p] <= 1
    /\ counted[p] = 1 => p \in Matching(ReadPost)

(* What a response misses is accounted for: retention moved the post after  *)
(* the statement that would have counted it as a fact and before the one    *)
(* that would have counted it as a raw post, or it was stored after that,   *)
(* or it is hidden: an hour that a late post gave a canonical fact forgets  *)
(* what only the older table counted.                                       *)
MissedAreMovedOrHidden ==
  statement >= 2 =>
    \A p \in Matching(hot \cup canonical)
              \cup (IF request = Unfiltered THEN Ancient ELSE {}) :
      counted[p] = 0 =>
        \/ p \in slipped \cup tooLate
        \/ p \in Ancient /\ In(canonical, HourOfPost[p]) # {}

(* The response never counts a post from before the start it says it covers.*)
CoverageReachesCounts ==
  (request # "none" /\ statement = 3) =>
    \A p \in ReadPost : counted[p] > 0 => coverage <= HourOfPost[p]

(* The leaderboard counts the posts of an hour that its window contains, in *)
(* whichever tier, unless the hour was moved and more is known of it than   *)
(* the aggregate: a post that came too late for its hour, which the         *)
(* aggregate hides until the next retention run, or a bound of the window   *)
(* that cuts the hour, whose aggregate then counts as a whole or not at all.*)
BuzzMissesOnlyLate ==
  \A h \in ReadHour, startsInside \in BOOLEAN, inside \in SUBSET ReadPost :
    LET stored == In(hot \cup aggregated, h)
    IN  \/ Buzz(h, startsInside, inside) = Cardinality(stored \cap inside)
        \/ /\ h < horizon \/ In(Ancient, h) # {}
           /\ In(hot, h) # {} \/ ~ startsInside \/ ~ (stored \subseteq inside)

(* What the endpoints read while retention moves posts between the tiers:   *)
(* nothing twice, nothing missing without a reason, nothing before the      *)
(* start that is reported.                                                  *)
ReadsAccountedFor ==
  /\ CountedOnce
  /\ MissedAreMovedOrHidden
  /\ CoverageReachesCounts
  /\ BuzzMissesOnlyLate
=============================================================================
