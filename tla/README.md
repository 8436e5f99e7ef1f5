# A TLA+ model of social-sentiment

This directory holds TLA+ modules that model social-sentiment, the TLC
configurations that check them, and theorems about them that the TLA+ proof
system (TLAPS) checks. Every definition is translated from the source; the
`map` of `PROJECT.json` names the lines each one stands for, `hazards` the places
that are hard to test with the properties that watch them.

The code is a pipeline. Producers poll providers and publish posts to RabbitMQ;
three stages clean, score and store them; retention rolls expired rows up into
facts; a monthly export archives samples; an API and a UI read the database.

    social/news producers -> raw-posts -> preprocessing -> clean-posts
      -> sentiment -> scored-posts -> storage -> PostgreSQL -> api -> ui
    market, global-events producers --------------^  |  ^-- migrations
                                   retention, quotes-'  `-> archive export

## Inventory

| Component | State | Operations | Hard behaviour | What must hold |
| --- | --- | --- | --- | --- |
| `shared/messaging.py`, `runtime.py` | a queue, its dead-letter queue, the attempt header; the tasks of a session | dead-letter, retry, requeue; supervise, cancel | confirmations lost, stale channels, cancellation | the copy exists before the original goes; one task ends, all end |
| `preprocessing-service` | one message in hand, prefetched ones | `process_message` | as above | no post lost; two failures before a dead letter |
| `sentiment-service` | buffer, batch | consume, batch, score, retry | two tasks and a supervisor share a buffer | as above; duplicates only from failures |
| `storage-service` writer | buffer, batch, `posts` | batch insert, isolation of a refused batch | commit with a lost confirmation, poison posts | no post lost; a poison post harms only itself |
| post retention | `posts`, facts, staging, advisory lock | `rollup_and_prune_posts` | two runners, statement outliving its client | each row counted once; samples staged |
| quote and context retention | `stock_quotes`, bars, signals | `rollup_and_prune_quotes`, `prune_global_context` | late quotes, overlapping callers | bars are those of all quotes |
| `archive-service` | staging table, manifests, objects | export, purge | SELECT and UPDATE see different tables; the check of an upload does not read it | which marked rows cannot be read back |
| `schema_migrations.py` | applied versions, advisory lock | migrate | several containers and releases | each version once, in order |
| social and news producers | cursor, id deque, seen ids | poll, publish, remember | failures between publish and remember, ids shared by symbols | what is passed over unpublished has one of few causes |
| `shared/pacing.py`, `symbols.py` | bucket, backoff, snapshot | acquire, record, refresh | lock held across a sleep, outages | the rate is kept; the snapshot is not old |
| `market-producer` | sessions, NAV, bars, metrics threads | poll and upsert | clock against exchange calendars, slow answers, overlapping threads | what is stored for good is final |
| `global-events-producer` | rules, signals, links | poll, upsert, replace rules | count read before the transaction | links capped, polling goes on |
| `api-service` | sockets, listener, transactions | broadcast, reads, analytics, replacements | several snapshots in a request, slow clients, deadlocks | counts are accounted for, settled verdicts stay; all or nothing |
| `ui-service` | what is shown, request, socket | poll, abort, receive | answers overtaking notifications, answers of an earlier selection | once answered, the view is the selection's, and becomes right |
| Rust crates | ports of the above | the same | opt-in | parity with the Python services |

## Modules

Session stages. `StorageConsumer` and `SentimentConsumer` extend
`ConsumerSession`, which extends `Broker`; both, and `Preprocessing`, implement
`Settlement`. `Pipeline` composes the three, and implements `Settlement` as a whole.

| Module | Models |
| --- | --- |
| `Broker` | a durable queue and its dead-letter queue as counts of copies: publish, deliver, ack, nack, channel close (RabbitMQ is external) |
| `ConsumerSession` | connect, consumer task, buffer, batch collection, requeueing, supervision, shutdown, crash, channel reset |
| `StorageConsumer`, `SentimentConsumer`, `Preprocessing` | what each stage does with a message or batch |
| `Pipeline` | the three stages behind one another: what one publishes, the next one's queue accepts in the same step |
| `Settlement` | the promise of a stage, and of the pipeline: a message stays open until it is durably stored or rejected |
| `Retention`, `ArchiveExport`, `QuoteTiers` | retention of posts, export and purge, rollup of quotes and the reads across it |
| `SchemaMigrations` | concurrent migration commands of different releases |
| `CursorFeeds`, `NewsPolling` | bluesky, stocktwits, reddit; finnhub, alpaca |
| `Pacing`, `SymbolRegistry` | token bucket, slots and backoff of a polling cycle; the symbol snapshot |
| `MarketPolling`, `MetricsRuns`, `SyntheticNav`, `GlobalMarket` | the four activities of market-producer |
| `Producers` | the components of the producers side by side |
| `MarketProducer` | quote polling, metrics threads and context runner interleaved, as in its process |
| `GlobalEvents` | global-events-producer, with rule edits and retention of signals |
| `LiveUpdates` | relay, WebSocket and polling hook: database, api-service and dashboard composed |
| `SentimentReads`, `AdminReplace` | reads across tiers, concurrent replacements |
| `Correlation`, `GlobalContext` | correlation analytics; sessions of a stock aligned with those of foreign factors |
| `Reports` | both of these side by side, with what they promise of the past |
| `MC*` | instances for TLC |
| `Maps`, `Lists` | a function with one value set; sorted numbers, filtered lists, sums |
| `*Proofs` | theorems: `ConsumerSessionProofs`, `StorageConsumerProofs`, `SentimentConsumerProofs`, `PipelineProofs`, `ServiceProofs`, `ProducerProofs`, `HistoryProofs`, and `ListProofs` for lemmas about lists and loops |

Definitions under a comment that begins with "Mutant" are faulty variants of the
definition they precede. Each is what a plausible bug of that code would be, and
a property of the passing runs catches it; the specifications do not use them.

### How code became actions

One action is what runs between two points where something may fail or overtake
it: an await, a statement, a publication. A call that fails is an action of its
own that consumes a fault and may have taken effect (the transaction committed,
the broker has the copy). Data is abstracted to what the code decides by: a post
is a name in a set such as `Poison`, `Malformed`, `Unscorable`, `TooShort`; an
article is who lists it and whom it names; a price is a small number.

Sessions. `session` is the life of a RabbitMQ session, `receiving` and `hand` the
consumer task, `buffer` the `asyncio.Queue`, `working`, `batch` and `pos` the
worker with its loop index. A delivery is `live`, `done` (settled) or `stale`
(its channel is gone: every disposition raises). `GiveUp` and `RequeueNext` are
`requeue_unprocessed_messages`; `AbortSession` is the TaskGroup;
`CancelSwallowed` is `asyncio.wait_for` of Python 3.11, the version of the
images; `ChannelReset` is the robust connection, under which tasks go on with
stale deliveries. A storage message stands for its row, since
`(platform, id, symbol)` is unique.

Pipeline. preprocessing-service and sentiment-service publish with publisher
confirms and `on_return_raises`, so that a post is in the next queue in the step
that publishes it, or the publication raises. `CleanPost` and `ScoredPost` are
written (preprocessing main.py:60, sentiment main.py:81) and read (sentiment
main.py:199, storage main.py:291) with one schema class, so the inner queues hold
no malformed message. `MaxAccepted` of the later stages is the number of copies
the earlier ones can publish: it keeps no step from happening.

Retention. `Send` fixes a statement's snapshot before it waits for the advisory
lock. After a lost connection the runner retries on a second backend, and the
first may die or finish unseen. Facts are sums, so they are how often each row is
counted. The cutoff is aligned to hours, so the clock counts hours.

Archive. The clock counts half months: 14 days are one tick. An object is named
by its content, so its name is the set of rows it should hold. `upload_file`
puts a new version of it, as a whole, cut short, or altered at the same length;
`head_object` looks at the current version, which another exporter may have put
there, and the closing transaction notes that version. The check compares the
length and the metadata the client sent itself, never the bytes, so an altered
object passes. The timer's run is a process of its own, since systemd starts a
unit once at a time. `late` is a history variable: rows that a retention
transaction commits while an exporter that covers them is between its SELECT and
its closing transaction.

Feeds. The cursor of bluesky rises to each post it publishes, and a page comes
newest first: of two new posts that match, the older one is never published.
`hidden` is a history variable that collects them. `PassedAreAccountedFor` says
that this, and leaving the page before it is listed, are the only ways to be
passed over. For the news producers, `seen_ids` is shared: an article that two
symbols list is lost for the second one when the first has dealt with it, and
`MissedOnlyToAnother` says that it is lost in no other way.

Reports. The last bucket of a series is the hour in progress, which changes with
every quote (`HourChanges`); of an hour that is over the quotes stand, while its
posts may still be scored. A verdict is shown only while there is a buy signal,
which depends on the support of the whole window, on the close of the hour before
it and on the valuation (`Inputs`). So a verdict can return to pending; what
`VerdictsSettle` says is that it is never reversed once it is settled. The start
of the window is fixed in the model: a later request with a later start is an
other series.

Reads. A request is three statements. `slipped` and `tooLate` are history
variables: posts that retention moved between the first and the second, and
posts stored after the second. The window of the leaderboard cuts hours at both
ends: `Buzz` takes the raw posts inside it one by one and an aggregate as its
hour starts inside or before.

Live view. A new selection does not clear what is shown: until its first answer,
posts of the old one stay in view (`shownFor` is "none"). `ShownOfSelection` is
about the time from that answer on, when late answers to aborted requests and
messages of the closed socket may still arrive.

Clocks elsewhere count what the code compares: session ticks in `MarketPolling`,
four moments of a day in `SyntheticNav`, refill ticks in `Pacing`. In
`AdminReplace`, waiting for row locks and unique keys and the server's abort of a
deadlock are PostgreSQL's, hence external.

## Runs

`MCProducers`, `MCServices` and `MCHistory` each hold several components that
share no state in the code. A behaviour picks one at the start (`part`) and the
others stand still, so the states are the sum, not the product, and each property
is checked on all behaviours of its component. Properties such as `MarketRowsSound`
or `ReportsSound` are conjunctions; each conjunct is defined and commented in its
own module. The two reports share no state either, so `MCHistory` checks them
one at a time, while the theorems are about `ReportSpec`, where both kinds of
data grow. What does interact is composed in one module: producer and database
in `GlobalEvents`, relay and dashboard in `LiveUpdates`, queue and stage in the
sessions, the three stages in `Pipeline`, exporter and retention in `ArchiveExport`.

| Run | Shows | Bounds |
| --- | --- | --- |
| `MCStorageConsumer` | `NoMessageLost`, `OnlyUnstorableDeadLettered`, `DeliveriesBounded`, `SinglePutNeverBlocks`, `RequeuedOnlyAfterFailure`, `ImplementsSettlement`, `BatchesDrained` | batches of 2: 4 messages (two storable, poison, malformed), 3 copies, 2 faults; single inserts: 5 copies of two posts against a window of 2, 1 fault |
| `MCSentimentConsumer` | `NoPostLost`, `FailuresPaidFor` (two failures before a dead letter, duplicates paid for by faults), `ImplementsSettlement`, `QueueDrained` | one post per outcome, 2 copies, batches of 2, 2 faults |
| `MCRetention` | `CountedExactlyOnce`, `SampledBeforePruned`, `ExpiredRowsPruned` | 2 keys inserted up to twice, 2 runners, 3 hours, 1 fault |
| `MCHistory` | `OnlyLateRowsLost`, `PurgedRowsExported`, `ReportsSound`, `PastUnchanged` | export: 2 rows of two months, timer and operator, 5 ticks, 1 fault; reports: below |
| `MCProducers` | `NavRowsSound`, `RequestsPaced`, `StalenessBounded`, `ArticlesAccountedFor`, `FeedsComplete`, `LinksCapped`, `MarketRowsSound`, `ProducersGoOn` | below |
| `MCServices` | `PostsAccountedFor`, `PostsSettled`, `MigrationsSafe`, `ViewBounded`, `TiersAgree`, `ReadsAccountedFor`, `ReplacementsSound`, `NothingStalls` | below |
| `MCStorageConsumerWedge`, `MCRetentionRedelivery`, `MCArchiveExportLost`, `MCArchiveExportLate`, `MCMarketPollingLabels`, `GlobalEventsOutage` | counterexamples, see findings | at most 2 faults |

Why these bounds suffice. Two messages make a batch with a neighbour, which
isolation, whole-batch failure and partial acknowledgement need; a third copy is
a redelivery behind a full batch. Two faults allow a failure while an earlier one
is being repaired. Batches of one with five copies exceed prefetch plus hand. Two
runners with a lost connection give three backends on the same rows. Five ticks
hold two month ends.

- Pacing: three symbols, two slots, a burst of four and cycles up to tick 7: the
  bucket runs empty, a symbol waits for a slot while another sleeps in the lock,
  and backoff reaches its maximum. The property counts a window from every
  request, not only from the first.
- NAV: five days with a holiday, two equal NAVs in a row and an implausible move
  and value: every branch of the choice between official, stale and estimate.
- News: two symbols, an article both list and name, and one for each of them
  alone, of which one names the other symbol; the seen ids are cut at two. Feeds:
  four posts, pages of two, so that a page is missed, overlaps, or has a post
  that does not match.
- Global market: two instruments and days, a session that opens the evening
  before. Events: two rules, two urls, a cap of one, two days; quote polling:
  three days, a future that opens the day before; metrics: two stocks of one
  sector with overlapping threads.
- Registry: retry delays pass their maximum after four outages.
- Preprocessing alone: four posts, one per outcome, prefetch of two, two faults.
  Pipeline: seven posts, one per outcome of any stage, batches of two, and
  together two posts, or one post and one fault of any stage (`MaxTogether`): a
  post behind another in every stage, or a failure of one stage followed through
  the others. More failures at a time are in the runs of each stage, and in the
  theorems. Migrations: an old, a new and an edited release, three versions, two
  attempts.
- Live updates: two posts of two symbols, two sockets, one fault. Quote tiers:
  four ticks with late and repeated quotes, two rollups. Reads: four posts on
  either side of the cutoff, three hours.
- Correlation: every series of four hours over two sentiments and two prices, and
  every change of its last hour; context: three factor and four stock sessions,
  two late or unusable bars. Replacements: four requests, one with a dangling
  key, one lost connection: three overlap and two can deadlock.

`Max...`, `Last...`, `Horizon`, `SeriesHours`, `ReadHours` and `GlobalDays` are
bounds of the models only. Symmetry is not used: sets differ by role or are
singletons. TLC's deadlock check is off where a stage with an empty queue is at
rest or a bound stops every clock, and on for retention.

## Fairness

- Sessions and preprocessing: weak fairness of consumer task, worker and
  supervisor. asyncio runs every task that can run, the worker's wait has a
  timeout, `main()` reconnects in a loop, containers are restarted. Nothing is
  assumed of producers, and failures end only by their bound.
- Retention: weak fairness of the scheduler's daily start, strong fairness of
  backend steps, because the advisory lock is released again and again and
  PostgreSQL grants it in turn. The command need not run.
- Archive: weak fairness of the exporters' steps and of the timer, in the run for
  finding 4; `MCHistory` assumes none.
- Migrations, replacements: weak fairness of each command or request; PostgreSQL
  serves lock waiters and aborts a deadlock. Lock timeouts need not happen.
- Pacing and global market: time passes, requests have timeouts, the loop calls
  again.
- Events: weak fairness of the loop and of the database coming back.
- Live updates: both event loops run what is ready; the send timeout and the poll
  interval elapse.

The behaviours of the whole pipeline are checked without fairness: that a queue
is emptied is checked stage by stage, and the stages take nothing from each other
but what is in the queue between them. Nothing is claimed of a run to the end
through all three.

`QueueDrained` says: when failures have stopped, the queue is empty for good, or
the session is `Wedged`, which the code cannot leave by itself (finding 1).

## Findings

1. `MCStorageConsumerWedge`: a cancellation that arrives just when `queue.get()`
   completes is swallowed by `wait_for` on Python 3.11. The worker of a failing
   session waits for a buffer nobody fills, and the supervisor for the worker:
   the service stops consuming. Python 3.12, which the tests use, delivers it.
2. `MCRetentionRedelivery`: a duplicate stored after retention deleted its row is
   counted a second time.
3. `MCArchiveExportLost`: rows committed between the SELECT and the UPDATE of an
   export are marked archived without being in the object, and purged later.
   `OnlyLateRowsLost` shows that no others are lost but those of an object that
   was altered at equal length, which the check after the upload cannot see.
4. `MCArchiveExportLate`: rows of the second half of a month are staged after the
   timer exported that month, and stay until an operator exports it again.
5. `MCMarketPollingLabels`: the session functions look at the calendar row of the
   UTC date only, so after-hours past midnight UTC and the evening opening of a
   futures session count as closed.
6. `GlobalEventsOutage`: the connection is opened once outside the loop; after it
   is lost every later poll fails although the database is back.

Two more disagreements were read off the code while modelling and have no run of
their own. A comment in `get_correlation` (main.py:1886) says that raw posts
"overwrite" the aggregated values of their hour; the code adds them to it
(`ReadPosts`), and adding is right: `CountedOnce` and `MissedAreMovedOrHidden` hold
because of it. And the bluesky producer is described as polling for posts that
mention the symbols, while it publishes only those of a page that are newer than
all published ones, in effect the newest one and what follows it (`hidden`).

## Proofs

The theorems hold for all constants that satisfy the named assumptions: any sets
of messages, posts, symbols or rows, any batch size, rate, page, calendar and
number of actors, any bound of failures. Except for the refinements they say that
a specification implies always P. Each rests on an inductive invariant that TLC
checked before it was proved; `PROJECT.json` lists the theorems with what each
says. What the invariants add to the property, and why it is needed:

**Sessions** (`ConsumerSessionProofs`: what a session step preserves whatever the
stage does).

- `StorageConsumerProofs`. `NoMessageLost` is not inductive: an acknowledgement
  removes the last copy the broker owes. The invariant adds that the loop index
  is in the batch, that a malformed delivery about to be acknowledged has its
  copy, and that what is about to be acknowledged is stored or dead-lettered;
  both only grow. For `DeliveriesBounded` the books are kept exactly: the broker
  waits for as many live deliveries as hand, buffer and batch hold (`Booked`).
- `SentimentConsumerProofs`. What is about to be acknowledged is published,
  dead-lettered, or a first attempt whose retry copy is in the queue
  (`CoveredBeforeAck`). Session steps interleave, but take a retry copy from the
  queue only with a dead letter. `FailuresPaidFor` counts copies against faults.
- `PipelineProofs`, preprocessing-service. One consumer with prefetched
  deliveries. A post that passed and one that went astray are counted as tokens;
  and deliveries go stale from the front, so that no stale one hides behind a live
  one.
- Refinement of `Settlement`, by all three: the promise settles accepted messages
  only, so the invariant knows where each held message came from. Each step is
  one of a few effects on the queues, each mapped to `Accept`, `Reject`,
  `Settle`, `Store` or a stutter.

- The pipeline (`PipelineProofs`). `Sentiment` and `Storage` in `Pipeline` are
  instances of the proof modules, so that every theorem on a stage holds of the
  stage in the pipeline: no stage is proved again, and what is left to show is
  that a step of the pipeline is a step of each stage or leaves it alone
  (`PipelineStages`, `StageSpecs`). `PipelineSettles` then speaks of the three
  promises only: each step moves at most one of them forward (`FirstMoves`,
  `MiddleMoves`, `LastMoves`), and what settles a post in one stage opens it in the
  next, in the same step, or ends it. `StagesComplete` is the reason: of each
  stage, what was accepted is exactly what is open, stored or rejected, so that no
  post falls between a queue and the next one.
- `PipelineAccountsForPosts` needs to know what is in the queues: nothing that
  an earlier stage refuses (`CleanFit`, `OnlyFitScored`), and no poison post in
  the table (`NoPoisonStored`). The copies are summed up along the
  stages (`StagesAccount`): each stage publishes at most what it accepted and one
  for each of its faults.

**Rows** (`HistoryProofs` for retention, `ServiceProofs` for the others).

- Retention: the statement counts precisely the rows its DELETE takes, in one
  step; the advisory lock is not needed for it. Archive: what an export would
  mark is in its file or late (`PendingSelected`); and a version that
  passed the check is whole or altered, also one that a later export of the same
  rows puts in the place of another in the manifest (`CheckedBeforeClosing`).
- Migrations (`MigrationInductive`): one holder of the lock, the schema is a
  prefix of the versions (`AppliedInOrder`), and what a command has read is still
  what is applied (`ViewsAreCurrent`), which nothing in the code compares.
- Replacements: what is in the table, was seen or is deleted comes in whole
  submissions (`AllOrNone`); inserted keys are free, also in other transactions
  (`KeysFree`); and what was done before a request began is among the rows it
  deletes (`OlderAreSeen`). So the row locks and the unique key together leave
  whole submissions, whoever waits or is aborted.
- Live updates: notifications arrive in order, each once (`NotesInOrder`), and a
  post whose note is still to come is shown once at most (`ShownOnceBefore`).
  What a pending answer holds is of the selection (`OfSelection`), for a new one
  aborts the request.
- Reads: a post is in one tier (`OneTier`), and the aggregates, which a request
  reads first, have counted no post that is still in the hot tier
  (`CountedSoFar`); retention moves none back. That what is missing is explained
  follows from `NoneMissed`: after the first statement every fact, and after the
  second also every raw post, was counted or has a reason not to be.
- Quote tiers: a bar is the bar of the *set* of quotes it has taken. Folding is
  a union then, which neither order nor overlap changes, and the observation
  count is exact because each quote is folded into the one bucket it lies in.

**Producers** (`ProducerProofs`).

- Pacing: `BucketBalance` counts, for every past request, the tokens taken since
  and those in the bucket against a full bucket and the time passed. Slots follow
  from counting the coroutines past the semaphore.
- Registry: how old the snapshot is and what is left of the nap together never
  exceed the longest pause while the database answers.
- Feeds: the page in hand continues at the cursor; of a deque, the posts that may
  still be listed are remembered. That needs a deque of 2 * PageSize - 1 places,
  a bound TLC finds to be tight, as an assumption: a page has 100 posts and the
  deque 2000 places (reddit-producer).
- News: a coroutine goes through its own list (`FromOwnList`), an id that is seen
  has been dealt with for a symbol that lists it (`DealtByListing`,
  `SeenAreDealt`), and a surplus copy of an article has a fault to pay for it
  (`CopiesPaidFor`).
- Quotes: a symbol that comes into its session is due in each cycle until it
  leaves it. This needs a pre-market that is not empty, as the code's of five and
  a half hours. Metrics: what a thread has cached it has read
  itself, after it started (`CachedSinceStart`).
- Context bars: `AnswersCover` relates what an answer holds to what is ticked off;
  nothing that is stored later was asked for before the end of its session, so a
  final bar stays final (`SettledStays`). `MarketProducer` puts the parts together.
- The fund: what a call waits for was due when it began, and all NAVs but the
  latest are published. The loop over the rows of a response is followed day by
  day: each NAV before today is compared with that of the session before it
  (`PrevIsLastNav`). This uses the assumption `NavMovesPlausibly`, the code's own
  remark that a broad index fund "essentially never" moves by 8 percent in a day;
  without it a real move of that size would leave a gap. The estimate is within
  the moves of the priced proxies because it is a mean of them, rounded down.
- Events: the count of links read before the transaction is no less than what is
  there (`CountsHold`): others only take links away meanwhile.
- All of them side by side keep their types (`ProducersKeepTypes`), from the
  theorem of each.

**Reports** (`HistoryProofs`). What the endpoints compute is a function of the
hours and closes there are, so the invariant `ReportInductive` is small: types,
one close per end, finite sets. The proofs are about the computations.

- Pairs of closes: `Returns` is strictly increasing in time and spans no unusable
  close (`ReturnsSpanNothing`); `FirstLater`, the bisect, is the first place whose
  close is not before the other (`FirstLaterProperties`), from which the factor
  comes first. When closes arrive in order, every stage of the computation
  extends what it was: `InTimeGrows`, `UsableGrows`, `ReturnsGrow`, `PairedGrows`,
  `AllPairsGrow`, `CutGrows`.
- Closed regions: `ScanSound` is the invariant of the loop over the hours. What it
  has collected are exactly the maximal runs that ended, in order, and `start` is
  where the current one began.
- Leads: n * sum(x^2) - sum(x)^2 is positive unless all x are equal
  (`SpreadOfSums`, itself an invariant of the sum), so that a series which repeats
  the price moves that come later has a correlation of one at that lag
  (`PearsonProperties`), and the sweep over the lags keeps a perfect one
  (`StrongerKeepsPerfect`, `SweepFinds`).
- Curves and signals: a line has a value only where its whole window has; hours
  without posts change none; mood and valuation together are worth less than a
  strong buy without the points for support, and there always is a support price
  (`SupportIsPrice`); a verdict that an hour which is over has made good, or that
  has two such hours, stays, because later hours come behind and only the one in
  progress changes (`ForwardGrows`, `HoursThatAreOverStand`, `VerdictStands`).
  `QualitiesAreNotReversed` carries this over to what a response shows.

Loops of the code over a list are recursive functions here. `FoldExists` and
`FoldInvariant` of `ListProofs` (on sets of numbers, by the least counterexample)
let a proof follow one: an invariant that each iteration keeps holds at its end.
In this way induction over a list can be had without the induction theorems that
take an operator. Sorting is stated by ranks (`Ascending`), so that its properties
are facts about cardinalities: `AscendingProperties`, and `AscendingExtends`, that
greater numbers come behind.

**Only model-checked**: liveness (`BatchesDrained`, `QueueDrained`,
`ExpiredRowsPruned`, `ProducersGoOn`, `NothingStalls`), which is out of the
prover's reach; the counterexamples of the findings, by their nature.
`SinglePutNeverBlocks`, for batches of one, has no theorem of its own:
`StorageKeepsBooks` has `PutNeverBlocks` for every batch size. `ServicesTypeOK`
is a conjunction over components that share no state, each with a specification
of its own: the conjuncts are proved one by one (`PreTypeCorrect`,
`MigrationTypeCorrect`, `LiveTypeCorrect`, `TierTypeCorrect`, `ReadTypeCorrect`);
likewise `HistoryTypeOK` (`TypeCorrect` of `ServiceProofs`, `ReportTypeCorrect`).
Of the pipeline `ServicesTypeOK` has the first stage only; the types of the other
two are `TypeOK` of their modules, checked in their runs and proved of any
instance.

## Not modelled

- Content: text cleaning, models, scores, Parquet encoding, provider formats.
- Order within a queue: no consumer relies on it.
- Of storage-service: the quality counter a batch with duplicates writes into a
  partitioned table (db.py:759), and a retention thread that outlives its session
  (main.py:249, `asyncio.to_thread`), for the runner itself is in `Retention`.
- Artifact and signal snapshots that retention appends; bar deletion by age.
- A staged sample that returns after its purge; objects that change after they
  were uploaded.
- Of the quote rollup: its repetition by recursion, which has no bound, and a
  quote that is offered again with another price.
- Of the API: listing, export and health endpoints, single statements or
  formatting. Of the UI: rendering.
- The Rust ports, configuration and metrics, shell scripts, one-off tools: see
  the notes in `PROJECT.json`.

## Plan

1. Done: sessions, the three stages and their pipeline, retention, export,
   migrations, producers, API reads, live updates; the proofs above.
2. Proofs: a refinement for the batch writer's isolation of refused rows; what
   `Retention` and `SentimentReads` say of the same move of a row, from one lemma.
3. Models: the retention thread across sessions of storage-service; the Rust
   ports as further implementations of `Settlement`.
