----------------------------- MODULE NewsPolling -----------------------------
(***************************************************************************)
(* The news producers (finnhub-producer, alpaca-producer).  A cycle        *)
(* gathers one coroutine per symbol of the snapshot; up to MaxConcurrency  *)
(* of them are past the semaphore.  They share the set of the article ids  *)
(* that were dealt with.  A coroutine yields while its request and each of *)
(* its publications are awaited; between two awaits it runs alone.         *)
(* Pacing and cooldown are in module Pacing.                               *)
(***************************************************************************)
EXTENDS Integers, Bags, FiniteSetsExt, SequencesExt, Maps

CONSTANTS
  NewsSymbols,      (* the tracked symbols                                  *)
  Articles,
  FeedOf,           (* symbol -> the articles the provider lists for it     *)
  Names,            (* article -> the symbols its text names                *)
  NewsConcurrency,
  SeenLimit,        (* 2000: ids kept at the end of a cycle                 *)
  MaxNewsFaults     (* bound: edits of the symbols, failures, broker errors *)

ASSUME NewsAssumption ==
  /\ FeedOf \in [NewsSymbols -> Seq(Articles)]
  /\ Names \in [Articles -> SUBSET NewsSymbols]
  /\ NewsConcurrency \in Nat \ {0} /\ SeenLimit \in Nat /\ MaxNewsFaults \in Nat

VARIABLES
  enabled,       (* the snapshot of the symbol registry                     *)
  queuedFor,     (* symbols of the cycle before the semaphore               *)
  requesting,    (* symbols that wait for the provider                      *)
  left,          (* symbol -> articles of its response still to be handled  *)
  publishing,    (* symbol -> the article its coroutine awaits the broker   *)
                 (* for                                                     *)
  seenIds,
  rawPosts,      (* bag of << article, symbol >> in the queue raw-posts     *)
  excused,       (* history: << article, symbol >> whose id became seen     *)
                 (* while the symbol was not in the snapshot                *)
  offTopic,      (* history: << article, symbol >> whose id became seen as  *)
                 (* the text does not name the symbol                       *)
  trims,         (* history: times seen ids were dropped                    *)
  newsFaults

newsVars == << enabled, queuedFor, requesting, left, publishing, seenIds,
               rawPosts, excused, offTopic, trims, newsFaults >>

NewsInit ==
  /\ enabled = NewsSymbols
  /\ queuedFor = {} /\ requesting = {} /\ left = << >> /\ publishing = << >>
  /\ seenIds = {} /\ rawPosts = EmptyBag /\ excused = {} /\ offTopic = {}
  /\ trims = 0 /\ newsFaults = 0

Drop(f, k) == Restrict(f, DOMAIN f \ {k})
Busy == requesting \cup DOMAIN left
Fault == newsFaults < MaxNewsFaults /\ newsFaults' = newsFaults + 1

(* tickers() is read once per cycle, match_symbol reads the snapshot again. *)
(* The cycle before has cut the set of the ids to SeenLimit arbitrary ones. *)
BeginBatch ==
  /\ queuedFor = {} /\ Busy = {}
  /\ IF Cardinality(seenIds) > SeenLimit
     THEN trims < MaxNewsFaults /\ trims' = trims + 1
          /\ seenIds' \in kSubset(SeenLimit, seenIds)
     ELSE UNCHANGED << trims, seenIds >>
  /\ queuedFor' = enabled
  /\ UNCHANGED << enabled, requesting, left, publishing, rawPosts, excused,
                  offTopic, newsFaults >>

RefreshEnabled ==
  /\ Fault
  /\ enabled' \in SUBSET NewsSymbols
  /\ UNCHANGED << queuedFor, requesting, left, publishing, seenIds, rawPosts,
                  excused, offTopic, trims >>

Request(s) ==
  /\ s \in queuedFor /\ Cardinality(Busy) < NewsConcurrency
  /\ queuedFor'  = queuedFor \ {s}
  /\ requesting' = requesting \cup {s}
  /\ UNCHANGED << enabled, left, publishing, seenIds, rawPosts, excused, offTopic,
                  trims, newsFaults >>

(* Status 429, another status, a body that is no list, or an exception:     *)
(* nothing is processed.                                                    *)
RequestFails(s) ==
  /\ s \in requesting /\ Fault
  /\ requesting' = requesting \ {s}
  /\ UNCHANGED << enabled, queuedFor, left, publishing, seenIds, rawPosts, excused,
                  offTopic, trims >>

(* Mutant: an article that names any symbol is published for this one.      *)
MatchesAny(s, a) == s \in enabled /\ Names[a] # {}

Matches(s, a) == s \in enabled /\ s \in Names[a]

(* Mutant: the id counts as seen while its publication is awaited.          *)
RememberedEarly(s, passed, next) ==
  { a \in Range(passed) : ~ Matches(s, a) } \cup next

Remembered(s, passed, next) == { a \in Range(passed) : ~ Matches(s, a) }

(* The first article that must be published, 0 if there is none.            *)
FirstUnseen(s, articles, seen) ==
  SelectInSeq(articles, LAMBDA a : a \notin seen /\ Matches(s, a))

(* The coroutine of s goes on through its articles until one of them must   *)
(* be published.  Ids in seen are passed over; ids that do not match become *)
(* seen.                                                                    *)
Continue(s, articles, seen) ==
  LET i == FirstUnseen(s, articles, seen)
      passed == IF i = 0 THEN articles ELSE SubSeq(articles, 1, i - 1)
      next   == IF i = 0 THEN {} ELSE {articles[i]}
      dealt  == (Range(passed) \ seen) \X {s}
  IN  /\ seenIds' = seen \cup Remembered(s, passed, next)
      /\ excused'  = IF s \in enabled THEN excused ELSE excused \cup dealt
      /\ offTopic' = IF s \in enabled THEN offTopic \cup dealt ELSE offTopic
      /\ IF i = 0
         THEN left' = Drop(left, s) /\ publishing' = Drop(publishing, s)
         ELSE /\ left' = With(left, s, SubSeq(articles, i + 1, Len(articles)))
              /\ publishing' = With(publishing, s, articles[i])

Respond(s) ==
  /\ s \in requesting
  /\ requesting' = requesting \ {s}
  /\ Continue(s, FeedOf[s], seenIds)
  /\ UNCHANGED << enabled, queuedFor, rawPosts, trims, newsFaults >>

(* Mutant: a published id is not remembered.                                *)
SeenAfterForgotten(a) == seenIds

SeenAfter(a) == seenIds \cup {a}

Publish(s) ==
  /\ s \in DOMAIN publishing
  /\ LET a == publishing[s]
     IN  /\ rawPosts' = rawPosts (+) SetToBag({<< a, s >>})
         /\ Continue(s, left[s], SeenAfter(a))
  /\ UNCHANGED << enabled, queuedFor, requesting, trims, newsFaults >>

(* The publication raises, its message may be in the queue nevertheless.    *)
(* The coroutine gives up the rest of its articles.                         *)
PublishFails(s) ==
  /\ s \in DOMAIN publishing /\ Fault
  /\ rawPosts' \in {rawPosts, rawPosts (+) SetToBag({<< publishing[s], s >>})}
  /\ left' = Drop(left, s) /\ publishing' = Drop(publishing, s)
  /\ UNCHANGED << enabled, queuedFor, requesting, seenIds, excused, offTopic, trims >>

(* A restart forgets everything but the queue and the symbols.              *)
ProducerRestarts ==
  /\ Fault
  /\ queuedFor' = {} /\ requesting' = {} /\ left' = << >> /\ publishing' = << >>
  /\ seenIds' = {}
  /\ UNCHANGED << enabled, rawPosts, excused, offTopic, trims >>

NewsNext ==
  \/ BeginBatch \/ RefreshEnabled \/ ProducerRestarts
  \/ \E s \in NewsSymbols :
       Request(s) \/ RequestFails(s) \/ Respond(s) \/ Publish(s) \/ PublishFails(s)

NewsSpec == NewsInit /\ [][NewsNext]_newsVars

-----------------------------------------------------------------------------
(* The variables keep their types; a post in the queue names the symbol it  *)
(* is published for.                                                        *)
NewsTypeOK ==
  /\ enabled \subseteq NewsSymbols /\ queuedFor \subseteq NewsSymbols
  /\ requesting \subseteq NewsSymbols
  /\ DOMAIN left = DOMAIN publishing /\ DOMAIN left \subseteq NewsSymbols
  /\ Range(publishing) \subseteq Articles
  /\ seenIds \subseteq Articles
  /\ BagToSet(rawPosts) \subseteq { m \in Articles \X NewsSymbols : m[2] \in Names[m[1]] }

Listed(s) == Range(FeedOf[s])

(* What made an id seen: its post for the symbol, or the check that passed  *)
(* it over.                                                                 *)
Dealt(a, s) == << a, s >> \in BagToSet(rawPosts) \cup excused \cup offTopic

(* The ids are shared by all symbols, so an article IS lost for a symbol it *)
(* names when another symbol lists it too and marks it first: published for *)
(* that symbol, off its topic, or checked after that symbol was taken out.  *)
(* That is the only way.  Whatever interleaves and fails, an id that is     *)
(* seen was published for every symbol that lists it and is named, or that  *)
(* symbol was out of the snapshot, or another symbol listed and marked it.  *)
MissedOnlyToAnother ==
  \A s \in NewsSymbols :
    \A a \in seenIds \cap Listed(s) :
      s \in Names[a] =>
        \/ << a, s >> \in BagToSet(rawPosts) \cup excused
        \/ \E t \in NewsSymbols \ {s} : a \in Listed(t) /\ Dealt(a, t)

(* Concurrent coroutines never publish an article twice for one symbol: a   *)
(* copy needs a failed publication, a restart or ids that were cut off.     *)
CopiesExplained ==
  \A p \in BagToSet(rawPosts) : rawPosts[p] <= 1 + newsFaults + trims

(* The concurrent coroutines of a cycle account for every article that is   *)
(* passed over for good: it was published, its symbol was out of the        *)
(* snapshot, or another symbol that lists it was first.  None is published  *)
(* twice without a reason.                                                  *)
ArticlesAccountedFor ==
  /\ MissedOnlyToAnother
  /\ CopiesExplained
=============================================================================
