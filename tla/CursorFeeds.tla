----------------------------- MODULE CursorFeeds -----------------------------
(***************************************************************************)
(* The social producers poll a feed that lists its latest posts:           *)
(*   bluesky     newest first, per search term; the cursor is the time of  *)
(*               the newest published post                                 *)
(*   stocktwits  handled oldest first; the cursor is the highest id        *)
(*   reddit      newest first, all symbols; the ids handled are kept in a  *)
(*               bounded deque                                             *)
(* One feed is followed: a search term, a symbol, or the comments feed.    *)
(* Posts are numbered in the order they appear.  A poll fetches the list,  *)
(* then handles it one publication after the other, while posts appear.    *)
(***************************************************************************)
EXTENDS Integers, FiniteSetsExt, SequencesExt

CONSTANTS
  LastPost,         (* bound: of the posts                                  *)
  Matching,         (* posts that match a tracked symbol                    *)
  PageSize,         (* posts a response lists                               *)
  DequeSize,        (* maxlen of seen_ids                                   *)
  MaxFeedFaults     (* bound: failed publications, polls and restarts       *)

(* A page lists 100 comments, the deque holds 2000 ids.                     *)
ASSUME FeedAssumption ==
  /\ {LastPost, PageSize, DequeSize} \subseteq Nat \ {0} /\ MaxFeedFaults \in Nat
  /\ DequeSize >= 2 * PageSize - 1
  /\ Matching \subseteq 1 .. LastPost

VARIABLES
  feed,        (* the producer: "none" until it starts                      *)
  newest,      (* posts that exist                                          *)
  page,        (* posts of the response still to be handled                 *)
  polling,
  cursor,      (* last_seen, last_seen_ids; 0 when unset                    *)
  deque,       (* seen_ids of reddit                                        *)
  sent,        (* sequence of the posts published                           *)
  missed,      (* history: posts that left the page, or were there at a     *)
               (* startup drain, before a poll listed them                  *)
  hidden,      (* history: posts behind a newer one of their page that      *)
               (* bluesky published and moved its cursor to                 *)
  feedFaults

feedVars == << feed, newest, page, polling, cursor, deque, sent, missed, hidden,
               feedFaults >>

FeedInit ==
  /\ feed = "none" /\ newest = 0
  /\ page = << >> /\ polling = FALSE
  /\ cursor = 0 /\ deque = << >>
  /\ sent = << >> /\ missed = {} /\ hidden = {}
  /\ feedFaults = 0

Post == 1 .. LastPost
FeedFault == feedFaults < MaxFeedFaults /\ feedFaults' = feedFaults + 1
OldestFirst(S) == CHOOSE q \in [1 .. Cardinality(S) -> S] :
                    \A i, j \in DOMAIN q : i < j => q[i] < q[j]
NewestFirst(S) == CHOOSE q \in [1 .. Cardinality(S) -> S] :
                    \A i, j \in DOMAIN q : i < j => q[i] > q[j]
Listing == { p \in 1 .. newest : p > newest - PageSize }

(* Mutant: a full deque takes no new entries.                               *)
RememberWhileRoom(q) == IF Len(q) > DequeSize THEN SubSeq(q, 1, DequeSize) ELSE q

(* Mutant: a deque without maxlen.                                          *)
RememberAll(q) == q

(* deque(maxlen): the oldest entries fall out.                              *)
Remember(q) == IF Len(q) > DequeSize THEN SubSeq(q, Len(q) - DequeSize + 1, Len(q)) ELSE q

PostAppears ==
  /\ newest < LastPost /\ newest' = newest + 1
  /\ UNCHANGED << feed, page, polling, cursor, deque, sent, missed, hidden, feedFaults >>

(* main of the reddit producer marks the posts of a first page as seen.     *)
StartFeed(producer) ==
  /\ feed = "none"
  /\ feed' = producer
  /\ IF producer = "reddit"
     THEN \/ /\ deque'  = Remember(NewestFirst(Listing))
             /\ missed' = missed \cup Listing
          \/ UNCHANGED << deque, missed >>             (* the drain failed  *)
     ELSE UNCHANGED << deque, missed >>
  /\ UNCHANGED << newest, page, polling, cursor, sent, hidden, feedFaults >>

RestartFeed ==
  /\ feed # "none" /\ FeedFault
  /\ feed' = "none" /\ page' = << >> /\ polling' = FALSE
  /\ cursor' = 0 /\ deque' = << >>
  /\ UNCHANGED << newest, sent, missed, hidden >>

-----------------------------------------------------------------------------
(* Mutant: stocktwits handles the list in the order of the response.        *)
HandledNewestFirst(S) == NewestFirst(S)

Handled(S) == IF feed = "stocktwits" THEN OldestFirst(S) ELSE NewestFirst(S)

(* The parameter since leaves out what the cursor has passed.               *)
Response == { p \in Listing : feed = "reddit" \/ p > cursor }

FetchPage ==
  /\ feed # "none" /\ ~ polling
  /\ polling' = TRUE
  /\ page' = Handled(Response)
  /\ missed' = IF feed = "reddit" THEN missed
               ELSE missed \cup { p \in 1 .. newest : p > cursor /\ p \notin Listing }
  /\ UNCHANGED << feed, newest, cursor, deque, sent, hidden, feedFaults >>

(* Status 429, 403, 5xx or an unreadable body: the batch ends.              *)
FetchFails ==
  /\ feed # "none" /\ ~ polling /\ FeedFault
  /\ UNCHANGED << feed, newest, page, polling, cursor, deque, sent, missed, hidden >>

(* Mutant: bluesky looks at the cursor only in the request.                 *)
PassedOverUnmatched(p) ==
  CASE feed = "bluesky"    -> p \notin Matching
    [] feed = "stocktwits" -> FALSE
    [] feed = "reddit"     -> p \in Range(deque) \/ p \notin Matching

(* stocktwits posts carry their symbol and are not matched again.           *)
PassedOver(p) ==
  CASE feed = "bluesky"    -> p <= cursor \/ p \notin Matching
    [] feed = "stocktwits" -> FALSE
    [] feed = "reddit"     -> p \in Range(deque) \/ p \notin Matching

Kept(p) == IF p \in Range(deque) THEN deque ELSE Remember(Append(deque, p))

PassOver ==
  /\ page # << >> /\ PassedOver(Head(page))
  /\ page' = Tail(page)
  /\ deque' = IF feed = "reddit" THEN Kept(Head(page)) ELSE deque
  /\ UNCHANGED << feed, newest, polling, cursor, sent, missed, hidden, feedFaults >>

(* Mutant: the cursor rises to the newest post there is.                    *)
CursorAtNewest(p) == IF feed # "reddit" THEN newest ELSE cursor

CursorAfter(p) == IF feed # "reddit" /\ p > cursor THEN p ELSE cursor

(* The publication succeeds; only then does the cursor rise.  bluesky goes  *)
(* through its page newest first, so what is left of the page is behind the *)
(* cursor from now on, and is neither published from this page nor listed   *)
(* in a later one.                                                          *)
PublishPost ==
  /\ page # << >> /\ ~ PassedOver(Head(page))
  /\ LET p == Head(page)
     IN  /\ sent' = Append(sent, p)
         /\ cursor' = CursorAfter(p)
         /\ deque' = IF feed = "reddit" THEN Kept(p) ELSE deque
  /\ hidden' = IF feed = "bluesky" THEN hidden \cup Range(Tail(page)) ELSE hidden
  /\ page' = Tail(page)
  /\ UNCHANGED << feed, newest, polling, missed, feedFaults >>

(* The publication raises, delivered or not; the rest of the page is given  *)
(* up.  For reddit some symbols of the comment may have been published.     *)
PublishRaises ==
  /\ page # << >> /\ ~ PassedOver(Head(page)) /\ FeedFault
  /\ sent' \in {sent, Append(sent, Head(page))}
  /\ page' = << >> /\ polling' = FALSE
  /\ UNCHANGED << feed, newest, cursor, deque, missed, hidden >>

EndPage ==
  /\ polling /\ page = << >>
  /\ polling' = FALSE
  /\ UNCHANGED << feed, newest, page, cursor, deque, sent, missed, hidden, feedFaults >>

FeedNext ==
  \/ PostAppears \/ RestartFeed
  \/ \E producer \in {"bluesky", "stocktwits", "reddit"} : StartFeed(producer)
  \/ FetchPage \/ FetchFails
  \/ PassOver \/ PublishPost \/ PublishRaises \/ EndPage

FeedSpec == FeedInit /\ [][FeedNext]_feedVars

-----------------------------------------------------------------------------
(* The variables keep their types; the cursor stays at or before the newest *)
(* post and the deque of ids within its maxlen.                             *)
FeedTypeOK ==
  /\ feed \in {"none", "bluesky", "stocktwits", "reddit"}
  /\ newest \in 0 .. LastPost /\ cursor \in 0 .. newest
  /\ page \in Seq(Post) /\ Range(deque) \subseteq Post /\ Len(deque) <= DequeSize
  /\ polling \in BOOLEAN
  /\ Range(sent) \subseteq Post /\ missed \cup hidden \subseteq Post

(* Without a failure no post is published twice, although every poll lists  *)
(* posts of the polls before: for reddit because the deque holds nearly two *)
(* pages at least.                                                          *)
PublishedOnce == feedFaults = 0 => IsInjective(sent)

(* What a feed goes by, cursor or deque, passes a post only for one of      *)
(* these reasons, in spite of any failure: it was published, it had left    *)
(* the page or was drained at the start before it was listed, or, for       *)
(* bluesky, a newer post of its page was published.  The last one is a loss *)
(* that happens in every page with two posts that match; no failed          *)
(* publication, overlap or restart adds another.                            *)
PassedAreAccountedFor ==
  /\ feed = "stocktwits" => 1 .. cursor \subseteq Range(sent) \cup missed
  /\ feed = "bluesky" =>
       (1 .. cursor) \cap Matching \subseteq Range(sent) \cup missed \cup hidden
  /\ feed = "reddit" => Range(deque) \cap Matching \subseteq Range(sent) \cup missed

(* Bluesky posts of a term appear in the queue in the order of their time.  *)
(* The price is that an older post of a page never follows a newer one: it  *)
(* is not published at all.                                                 *)
BlueskyInOrder ==
  feed = "bluesky" /\ feedFaults = 0 =>
    \A i, j \in 1 .. Len(sent) : i < j => sent[i] < sent[j]

(* The feeds account for every post the cursor or the deque has passed, and *)
(* publish none twice without a failure, in spite of overlapping pages.     *)
FeedsComplete ==
  /\ PublishedOnce
  /\ PassedAreAccountedFor
  /\ BlueskyInOrder
=============================================================================
