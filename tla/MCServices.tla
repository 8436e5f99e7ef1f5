----------------------------- MODULE MCServices -----------------------------
(***************************************************************************)
(* Instances of the components between the queues and the dashboard.  As   *)
(* in MCProducers they share no state here, so a behaviour runs one of     *)
(* them, chosen at the start, and the others stand still.                  *)
(***************************************************************************)
EXTENDS Pipeline, SchemaMigrations, LiveUpdates, QuoteTiers, SentimentReads,
        AdminReplace

CONSTANTS
  EarlyPosts,       (* the posts preprocessing-service tells apart          *)
  MaxTogether       (* bound: posts and faults of one run of the pipeline   *)

VARIABLE part       (* the component that runs in this behaviour           *)

vars == << part, pipelineVars, migrationVars, liveVars, quoteVars, readVars,
           replaceVars >>

Init ==
  /\ part \in {"preprocessing", "pipeline", "migrations", "live", "tiers",
               "reads", "replace"}
  /\ PipelineInit /\ MigrationInit /\ LiveInit /\ QuoteInit /\ ReadInit
  /\ ReplaceInit

(* Bounds: the early stage alone with the posts it can tell apart, the whole *)
(* pipeline with two posts, or one post and one fault.                      *)
EarlyPostsOnly == \A p \in Raw \ EarlyPosts : taken'[p] = 0
FewTogether ==
  SumFunction(taken') + preFaults' + scorerFaults' + writerFaults' <= MaxTogether

OthersStand ==
  /\ UNCHANGED part
  /\ IF part \in {"preprocessing", "pipeline"} THEN TRUE ELSE UNCHANGED pipelineVars
  /\ IF part = "migrations"    THEN TRUE ELSE UNCHANGED migrationVars
  /\ IF part = "live"          THEN TRUE ELSE UNCHANGED liveVars
  /\ IF part = "tiers"         THEN TRUE ELSE UNCHANGED quoteVars
  /\ IF part = "reads"         THEN TRUE ELSE UNCHANGED readVars
  /\ IF part = "replace"       THEN TRUE ELSE UNCHANGED replaceVars

Next ==
  \/ part = "preprocessing" /\ PreprocessingStep /\ EarlyPostsOnly /\ OthersStand
  \/ part = "pipeline"      /\ PipelineNext  /\ FewTogether /\ OthersStand
  \/ part = "migrations"    /\ MigrationNext /\ OthersStand
  \/ part = "live"          /\ LiveNext      /\ OthersStand
  \/ part = "tiers"         /\ QuoteNext     /\ OthersStand
  \/ part = "reads"         /\ ReadNext      /\ OthersStand
  \/ part = "replace"       /\ ReplaceNext   /\ OthersStand

(* PreFairness, MigrationFairness, LiveFairness and ReplaceFairness, for    *)
(* the behaviours of those parts.                                           *)
Fairness ==
  /\ WF_preVars(part = "preprocessing" /\ ConsumerStep)
  /\ \A m \in Migrators : WF_migrationVars(part = "migrations" /\ MigratorStep(m))
  /\ WF_liveVars(part = "live" /\ ServerStep)
  /\ WF_liveVars(part = "live" /\ RequestStep)
  /\ WF_liveVars(part = "live" /\ HandleMessage)
  /\ \A s \in Socket : WF_liveVars(part = "live" /\ EndpointEnds(s))
  /\ \A r \in Replacement : WF_replaceVars(part = "replace" /\ ReplacementStep(r))

Spec == Init /\ [][Next]_vars /\ Fairness

(* RawQueueDrained, for the behaviours in which preprocessing-service runs   *)
(* alone.                                                                    *)
RawQueueLeft == part = "preprocessing" => RawQueueDrained

(* MigratorsEnd, for the behaviours in which schema_migrations.py runs: no  *)
(* command that migrates the schema waits for ever.                         *)
EveryMigratorEnds == part = "migrations" => MigratorsEnd

(* The variables of every component keep their types.                       *)
ServicesTypeOK ==
  /\ PreTypeOK
  /\ MigrationTypeOK
  /\ LiveTypeOK
  /\ QuoteTypeOK
  /\ ReadTypeOK

(* Whoever waits for a queue, a lock, a client or another request goes on   *)
(* in the end: queues drain, commands and requests end, a slow client does  *)
(* not stop a broadcast and the dashboard becomes right.                    *)
NothingStalls ==
  /\ RawQueueLeft
  /\ EveryMigratorEnds
  /\ ViewConverges
  /\ BroadcastsEnd
  /\ DepartedLeave
  /\ ReplacementsEnd

-----------------------------------------------------------------------------
MCMessage == Raw \X {0, 1}

MCVersions == << "0001", "0002", "0003" >>
MCFiles ==
  [m \in Migrators |->
    CASE m = "old"    -> [v \in {"0001", "0002"} |-> "committed"]
      [] m = "new"    -> [v \in {"0001", "0002", "0003"} |-> "committed"]
      [] m = "edited" -> [v \in {"0001", "0002", "0003"} |->
                            IF v = "0001" THEN "committed" ELSE "changed"]]

MCSymbolOf == << "nvda", "mu" >>

MCPriceAt == [t \in QuoteTick |-> << 3, 1, 4, 2, 5, 0 >>[t + 1]]

MCHourOfPost == [p \in ReadPost |-> IF p \in {"old", "a1"} THEN 1 ELSE 2]
MCPlatformOf == [p \in ReadPost |-> IF p = "b2" THEN "bluesky" ELSE "alpaca"]

MCSubmitted ==
  [r \in Replacement |->
    CASE r = "one"   -> << "oil", "yen" >>
      [] r = "two"   -> << "yen", "oil" >>
      [] r = "three" -> << "gold", "oil" >>
      [] r = "four"  -> << "gold", "none" >>]
=============================================================================
