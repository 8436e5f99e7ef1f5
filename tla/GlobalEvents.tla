---------------------------- MODULE GlobalEvents ----------------------------
(***************************************************************************)
(* global-events-producer: a loop polls the event provider once per active *)
(* rule and stores what it reports: one signal per article (url), and a    *)
(* link from the signal to the rule, of which a rule gets at most Cap per  *)
(* day.  A signal that is reported again takes the date and the other data *)
(* of the last report.  The api replaces rules and retention prunes old    *)
(* signals meanwhile; both take their links with them.                     *)
(***************************************************************************)
EXTENDS Integers, FiniteSetsExt, SequencesExt, Maps

CONSTANTS
  RuleIds,        (* ids of global_event_rules, used up in order            *)
  Urls,           (* articles                                               *)
  EventDays,      (* days an article may be dated to                        *)
  Cap,            (* MAX_PER_RULE_PER_DAY                                   *)
  MaxEventFaults  (* bound: failures, edits of the rules, prunings          *)

ASSUME EventAssumption ==
  /\ RuleIds \subseteq Nat /\ RuleIds # {} /\ IsFiniteSet(Urls)
  /\ EventDays \subseteq Nat /\ Cap \in Nat
  /\ MaxEventFaults \in Nat

VARIABLES
  rules,         (* active rules                                            *)
  signals,       (* url -> date of its signal                               *)
  links,         (* << url, rule >> in stock_event_links                    *)
  connected,     (* the connection opened at the start still works          *)
  databaseUp,
  todo,          (* rules of the poll still to be asked                     *)
  reported,      (* url -> date in the answer being stored                  *)
  counts,        (* date -> links of the rule, as they were read            *)
  eventStage,    (* "sleep", "poll", "count" or "store"                     *)
  moved,         (* history: urls whose signal changed its date             *)
  pollsDone,     (* has a poll ended since the last fault?                  *)
  eventFaults

eventVars == << rules, signals, links, connected, databaseUp, todo, reported,
                counts, eventStage, moved, pollsDone, eventFaults >>

EventInit ==
  /\ rules = {Min(RuleIds)} /\ signals = << >> /\ links = {}
  /\ connected = TRUE /\ databaseUp = TRUE
  /\ todo = << >> /\ reported = << >> /\ counts = << >>
  /\ eventStage = "sleep" /\ moved = {} /\ pollsDone = FALSE /\ eventFaults = 0

EventFault == eventFaults < MaxEventFaults /\ eventFaults' = eventFaults + 1
LinksOn(L, f, r, d) == Cardinality({ u \in DOMAIN f : f[u] = d /\ << u, r >> \in L })

(* The elements of S in an order that agrees with before.                   *)
Ordered(S, before(_, _)) ==
  { s \in [1 .. Cardinality(S) -> S] :
      \A m, n \in 1 .. Cardinality(S) : m < n => s[m] # s[n] /\ ~ before(s[n], s[m]) }

(* load_rules raises on a broken connection, and the cycle is over.         *)
BeginPoll ==
  /\ eventStage = "sleep" /\ connected /\ databaseUp
  /\ todo' \in Ordered(rules, <)
  /\ eventStage' = "poll"
  /\ UNCHANGED << rules, signals, links, connected, databaseUp, reported, counts,
                  moved, pollsDone, eventFaults >>

(* The provider reports any dated articles, the same one under different    *)
(* dates from poll to poll.                                                 *)
FetchEvents ==
  /\ eventStage = "poll" /\ todo # << >>
  /\ \E S \in SUBSET Urls : reported' \in [S -> EventDays]
  /\ eventStage' = "count"
  /\ UNCHANGED << rules, signals, links, connected, databaseUp, todo, counts,
                  moved, pollsDone, eventFaults >>

(* A rate limit or any error of a rule; the next rule is polled.            *)
RuleFails ==
  /\ eventStage \in {"poll", "count", "store"} /\ todo # << >> /\ EventFault
  /\ todo' = Tail(todo) /\ eventStage' = "poll"
  /\ reported' = << >> /\ counts' = << >>
  /\ UNCHANGED << rules, signals, links, connected, databaseUp, moved, pollsDone >>

ReadCounts ==
  /\ eventStage = "count" /\ connected /\ databaseUp
  /\ counts' = [d \in EventDays |-> LinksOn(links, signals, Head(todo), d)]
  /\ eventStage' = "store"
  /\ UNCHANGED << rules, signals, links, connected, databaseUp, todo, reported,
                  moved, pollsDone, eventFaults >>

(* Mutant: the links made in the transaction are not counted.               *)
StoreEventUncounted(acc, u) ==
  IF acc.counts[reported[u]] >= Cap THEN acc
  ELSE [ acc EXCEPT !.signals = With(acc.signals, u, reported[u]),
                    !.links = @ \cup {<< u, Head(todo) >>} ]

(* A day at its cap passes the article over; otherwise the signal is        *)
(* inserted or updated, and linked unless it was.                           *)
StoreEvent(acc, u) ==
  LET d == reported[u]
      new == << u, Head(todo) >> \notin acc.links
  IN  IF acc.counts[d] >= Cap THEN acc
      ELSE [ signals |-> With(acc.signals, u, d),
             links   |-> acc.links \cup {<< u, Head(todo) >>},
             counts  |-> IF new THEN [acc.counts EXCEPT ![d] = @ + 1] ELSE acc.counts,
             moved   |-> IF u \in DOMAIN acc.signals /\ acc.signals[u] # d
                         THEN acc.moved \cup {u} ELSE acc.moved ]

(* The signals and links after the articles of a list.                      *)
StoredInOrder(order) ==
  LET after[n \in 0 .. Len(order)] ==
        IF n = 0
        THEN [signals |-> signals, links |-> links, counts |-> counts, moved |-> moved]
        ELSE StoreEvent(after[n - 1], order[n])
  IN  after[Len(order)]

(* store_rule_events: one transaction, in the order of the dates.  A rule   *)
(* that was deleted meanwhile violates the foreign key of the links, and    *)
(* everything is rolled back.                                               *)
StoreEvents ==
  /\ eventStage = "store" /\ connected /\ databaseUp
  /\ \E order \in Ordered(DOMAIN reported, LAMBDA u, v : reported[u] < reported[v]) :
       LET acc == StoredInOrder(order)
           linked == Head(todo) \in rules \/ acc.links = links
       IN  /\ signals' = IF linked THEN acc.signals ELSE signals
           /\ links' = IF linked THEN acc.links ELSE links
           /\ moved' = IF linked THEN acc.moved ELSE moved
  /\ todo' = Tail(todo) /\ eventStage' = "poll"
  /\ reported' = << >> /\ counts' = << >>
  /\ UNCHANGED << rules, connected, databaseUp, pollsDone, eventFaults >>

EndPoll ==
  /\ eventStage = "poll" /\ todo = << >>
  /\ eventStage' = "sleep" /\ pollsDone' = TRUE
  /\ UNCHANGED << rules, signals, links, connected, databaseUp, todo, reported,
                  counts, moved, eventFaults >>

(* Mutant: the links of a deleted rule stay.                                *)
ReplaceRuleOnly ==
  /\ EventFault
  /\ \E old \in rules, new \in RuleIds :
       /\ new > Max(rules)
       /\ rules' = (rules \ {old}) \cup {new}
  /\ UNCHANGED << signals, links, connected, databaseUp, todo, reported, counts,
                  eventStage, moved, pollsDone >>

(* The api replaces a rule: the old one and its links go, the id is new.    *)
ReplaceRule ==
  /\ EventFault
  /\ \E old \in rules, new \in RuleIds :
       /\ new > Max(rules)
       /\ rules' = (rules \ {old}) \cup {new}
       /\ links' = { l \in links : l[2] # old }
  /\ UNCHANGED << signals, connected, databaseUp, todo, reported, counts,
                  eventStage, moved, pollsDone >>

AddRule ==
  /\ EventFault
  /\ \E new \in RuleIds : new > Max(rules) /\ rules' = rules \cup {new}
  /\ UNCHANGED << signals, links, connected, databaseUp, todo, reported, counts,
                  eventStage, moved, pollsDone >>

PruneSignals ==
  /\ EventFault
  /\ \E d \in EventDays :
       /\ signals' = [ u \in { x \in DOMAIN signals : signals[x] > d } |-> signals[u] ]
       /\ links' = { l \in links : signals[l[1]] > d }
  /\ UNCHANGED << rules, connected, databaseUp, todo, reported, counts, eventStage,
                  moved, pollsDone >>

(* The rules that are left in the poll fail one after the other.            *)
DatabaseStops ==
  /\ databaseUp /\ EventFault
  /\ databaseUp' = FALSE /\ connected' = FALSE
  /\ todo' = << >> /\ reported' = << >> /\ counts' = << >> /\ eventStage' = "sleep"
  /\ pollsDone' = FALSE
  /\ UNCHANGED << rules, signals, links, moved >>

DatabaseStarts ==
  /\ ~ databaseUp /\ databaseUp' = TRUE
  /\ UNCHANGED << rules, signals, links, connected, todo, reported, counts,
                  eventStage, moved, pollsDone, eventFaults >>

(* The connection is opened once, in main.                                  *)
RestartEvents ==
  /\ EventFault
  /\ connected' = databaseUp
  /\ todo' = << >> /\ reported' = << >> /\ counts' = << >> /\ eventStage' = "sleep"
  /\ pollsDone' = FALSE
  /\ UNCHANGED << rules, signals, links, databaseUp, moved >>

EventStep == BeginPoll \/ FetchEvents \/ ReadCounts \/ StoreEvents \/ EndPoll
EventNext ==
  \/ EventStep \/ RuleFails \/ ReplaceRule \/ AddRule \/ PruneSignals
  \/ DatabaseStops \/ DatabaseStarts \/ RestartEvents

EventFairness == WF_eventVars(EventStep) /\ WF_eventVars(DatabaseStarts)
EventSpec == EventInit /\ [][EventNext]_eventVars /\ EventFairness

-----------------------------------------------------------------------------
(* The variables keep their types; a link joins a stored signal and a rule  *)
(* that exists.                                                             *)
EventTypeOK ==
  /\ rules \subseteq RuleIds /\ rules # {}
  /\ DOMAIN signals \subseteq Urls /\ DOMAIN reported \subseteq Urls
  /\ links \subseteq (DOMAIN signals) \X rules
  /\ eventStage \in {"sleep", "poll", "count", "store"}
  /\ Range(todo) \subseteq RuleIds

(* Links are capped per rule and UTC day although the count is read before  *)
(* the transaction: only articles the provider dates anew exceed the cap.   *)
LinksCapped ==
  \A r \in rules, d \in EventDays :
    LinksOn(links, [ u \in DOMAIN signals \ moved |-> signals[u] ], r, d) <= Cap

(* The loop logs that it retries at the next interval: once the database    *)
(* answers again, a poll ends.                                              *)
PollingResumes == (eventStage = "sleep" /\ ~ connected) ~> pollsDone
=============================================================================
