---------------------------- MODULE LiveUpdates ----------------------------
(***************************************************************************)
(* How a post reaches an open dashboard.  PostgreSQL notifies the listener *)
(* of api-service of every insert; the listener sends each notification to *)
(* all registered websockets, one notification after the other.  The       *)
(* dashboard adds what its socket delivers to what it shows, and replaces  *)
(* all of it with the answer of a poll that is repeated after each         *)
(* completion.  Choosing another symbol closes the socket and aborts the   *)
(* request; a socket that closes otherwise is not opened again.            *)
(***************************************************************************)
EXTENDS Integers, Bags, FiniteSets, SequencesExt

CONSTANTS
  SymbolOf,        (* sequence: the symbol of each post that is inserted    *)
  MaxSockets,      (* bound: sockets the dashboard opens                    *)
  MaxLiveFaults    (* bound: lost connections, stalled clients, failed polls *)

ASSUME LiveAssumption ==
  /\ SymbolOf \in Seq(Range(SymbolOf)) \ {<< >>}
  /\ MaxSockets \in Nat \ {0} /\ MaxLiveFaults \in Nat

Socket == 1 .. MaxSockets
Selectable == Range(SymbolOf)

VARIABLES
  inserted,      (* posts in the database                                   *)
  hearing, notes,            (* LISTEN is on; notifications received      *)
  message,       (* the post being broadcast, or 0                          *)
  awaited,       (* sockets whose send has not ended                        *)
  undelivered,   (* sockets whose send failed or timed out                  *)
  active,        (* active_connections                                      *)
  served,        (* sockets with a running websocket_endpoint               *)
  stalled,       (* sockets whose client does not read                      *)
  socket,        (* the open socket of the dashboard, 0 if none             *)
  connecting,    (* the dashboard waits for a socket to open                *)
  opened,        (* sockets opened so far                                   *)
  inbox,         (* posts delivered to the dashboard, not yet handled       *)
  selected,      (* symbol                                                  *)
  view,          (* bag of the posts shown and counted                      *)
  shownFor,      (* symbol of the last answer since the selection, or "none" *)
  poll,          (* "due", "sent", "answered"                               *)
  answer,        (* the posts of the answer                                 *)
  aborted,       (* answers to aborted requests: << symbol, posts >>        *)
  liveFaults

liveVars == << inserted, hearing, notes, message, awaited, undelivered, active,
               served, stalled, socket, connecting, opened, inbox, selected, view, shownFor,
               poll, answer, aborted, liveFaults >>
serverVars == << message, awaited, undelivered, active, served >>
pageVars   == << socket, connecting, opened, inbox, selected, view, shownFor, poll,
                 answer, aborted >>

LiveInit ==
  /\ inserted = 0 /\ hearing = FALSE /\ notes = << >>
  /\ message = 0 /\ awaited = {} /\ undelivered = {} /\ active = {} /\ served = {}
  /\ stalled = {} /\ socket = 0 /\ connecting = TRUE /\ opened = 0 /\ inbox = << >>
  /\ selected = SymbolOf[1] /\ view = EmptyBag /\ shownFor = "none"
  /\ poll = "due" /\ answer = {} /\ aborted = {} /\ liveFaults = 0

LiveFault == liveFaults < MaxLiveFaults /\ liveFaults' = liveFaults + 1
PostsOf(s) == { p \in 1 .. inserted : SymbolOf[p] = s }

InsertPost ==
  /\ inserted < Len(SymbolOf) /\ inserted' = inserted + 1
  /\ notes' = IF hearing THEN Append(notes, inserted') ELSE notes
  /\ UNCHANGED << hearing, stalled, serverVars, pageVars, liveFaults >>

-----------------------------------------------------------------------------
(* postgres_listener.  What is notified while it sleeps and reconnects is   *)
(* lost; it notices a lost connection when it asks for the next one.        *)
ListenerConnects ==
  /\ ~ hearing /\ message = 0 /\ hearing' = TRUE
  /\ UNCHANGED << inserted, notes, stalled, serverVars, pageVars, liveFaults >>

ListenerFails ==
  /\ hearing /\ LiveFault
  /\ hearing' = FALSE /\ notes' = << >>
  /\ UNCHANGED << inserted, stalled, serverVars, pageVars >>

(* broadcast: a snapshot of the connections, all sends at the same time.    *)
BeginBroadcast ==
  /\ notes # << >> /\ message = 0
  /\ notes' = Tail(notes)
  /\ message' = IF active = {} THEN 0 ELSE Head(notes)
  /\ awaited' = active
  /\ UNCHANGED << inserted, hearing, undelivered, active, served, stalled,
                  pageVars, liveFaults >>

SendEnds(c) ==
  /\ c \in awaited \ stalled
  /\ awaited' = awaited \ {c}
  /\ IF c = socket
     THEN inbox' = Append(inbox, message) /\ UNCHANGED undelivered
     ELSE undelivered' = undelivered \cup {c} /\ UNCHANGED inbox
  /\ UNCHANGED << inserted, hearing, notes, message, active, served, stalled,
                  socket, connecting, opened, selected, view, shownFor, poll, answer,
                  aborted, liveFaults >>

(* Mutant: a send may take as long as it likes.                             *)
TimesOutNever(c) == FALSE

TimesOut(c) == c \in stalled

SendTimesOut(c) ==
  /\ c \in awaited /\ TimesOut(c)
  /\ awaited' = awaited \ {c} /\ undelivered' = undelivered \cup {c}
  /\ UNCHANGED << inserted, hearing, notes, message, active, served, stalled,
                  pageVars, liveFaults >>

(* Clients that did not get it are disconnected, their sockets stay open.   *)
EndBroadcast ==
  /\ message # 0 /\ awaited = {}
  /\ message' = 0 /\ undelivered' = {}
  /\ active' = active \ undelivered
  /\ UNCHANGED << inserted, hearing, notes, awaited, served, stalled, pageVars,
                  liveFaults >>

(* Mutant: websocket_endpoint does not clean up.                            *)
ActiveAfterLeaving(c) == active

ActiveWithout(c) == active \ {c}

(* receive_text raises: the client has left.                                *)
EndpointEnds(c) ==
  /\ c \in served /\ c # socket
  /\ served' = served \ {c} /\ active' = ActiveWithout(c)
  /\ UNCHANGED << inserted, hearing, notes, message, awaited, undelivered,
                  stalled, pageVars, liveFaults >>

ClientStalls ==
  /\ socket \notin stalled \cup {0} /\ LiveFault
  /\ stalled' = stalled \cup {socket}
  /\ UNCHANGED << inserted, hearing, notes, serverVars, pageVars >>

-----------------------------------------------------------------------------
(* The effect of a selection opens a socket, the server registers it.       *)
OpenSocket ==
  /\ connecting /\ connecting' = FALSE /\ opened < MaxSockets
  /\ opened' = opened + 1 /\ socket' = opened + 1
  /\ active' = active \cup {socket'} /\ served' = served \cup {socket'}
  /\ UNCHANGED << inserted, hearing, notes, message, awaited, undelivered, stalled,
                  inbox, selected, view, shownFor, poll, answer, aborted, liveFaults >>

(* The cleanup of the effects: the socket is closed, polling stops and its  *)
(* request is aborted; the new effects start both anew.  The old posts stay *)
(* in view until the first answer.                                          *)
Select ==
  /\ ~ connecting /\ opened < MaxSockets
  /\ selected' \in Selectable \ {selected}
  /\ socket' = 0 /\ connecting' = TRUE /\ inbox' = << >>
  /\ poll' = "due" /\ shownFor' = "none"
  /\ aborted' = IF poll = "answered" THEN aborted \cup {<< selected, answer >>} ELSE aborted
  /\ UNCHANGED << inserted, hearing, notes, stalled, serverVars, opened, view,
                  answer, liveFaults >>

(* The connection is lost: there is no handler that opens another one.      *)
SocketLost ==
  /\ socket # 0 /\ LiveFault
  /\ socket' = 0 /\ inbox' = << >>
  /\ UNCHANGED << inserted, hearing, notes, stalled, serverVars, connecting, opened,
                  selected, view, shownFor, poll, answer, aborted >>

HandleMessage ==
  /\ inbox # << >> /\ inbox' = Tail(inbox)
  /\ view' = IF SymbolOf[Head(inbox)] = selected
             THEN view (+) SetToBag({Head(inbox)}) ELSE view
  /\ UNCHANGED << inserted, hearing, notes, stalled, serverVars, socket, connecting, opened,
                  selected, shownFor, poll, answer, aborted, liveFaults >>

BeginRequest ==
  /\ poll = "due" /\ poll' = "sent"
  /\ UNCHANGED << inserted, hearing, notes, stalled, serverVars, socket, connecting, opened,
                  inbox, selected, view, shownFor, answer, aborted, liveFaults >>

ServeRequest ==
  /\ poll = "sent" /\ poll' = "answered" /\ answer' = PostsOf(selected)
  /\ UNCHANGED << inserted, hearing, notes, stalled, serverVars, socket, connecting, opened,
                  inbox, selected, view, shownFor, aborted, liveFaults >>

(* Mutant: an answer is added to what is shown.                             *)
ShownAdded(posts) == view (+) SetToBag(posts)

Shown(posts) == SetToBag(posts)

ApplyAnswer ==
  /\ poll = "answered" /\ poll' = "due"
  /\ view' = Shown(answer) /\ shownFor' = selected
  /\ UNCHANGED << inserted, hearing, notes, stalled, serverVars, socket, connecting, opened,
                  inbox, selected, answer, aborted, liveFaults >>

(* Mutant: polling goes on only after a success.                            *)
AfterFailureStopped == "stopped"

AfterFailure == "due"

RequestBreaks ==
  /\ poll \in {"sent", "answered"} /\ LiveFault
  /\ poll' = AfterFailure /\ answer' = {}
  /\ UNCHANGED << inserted, hearing, notes, stalled, serverVars, socket, connecting, opened,
                  inbox, selected, view, shownFor, aborted >>

(* Mutant: the answer to an aborted request is applied.                     *)
AppliedStale == TRUE

AppliedWhenAborted == FALSE

AbortedAnswerArrives ==
  /\ \E a \in aborted :
       /\ aborted' = aborted \ {a}
       /\ IF AppliedWhenAborted
          THEN view' = Shown(a[2]) /\ shownFor' = a[1]
          ELSE UNCHANGED << view, shownFor >>
  /\ UNCHANGED << inserted, hearing, notes, stalled, serverVars, socket, connecting, opened,
                  inbox, selected, poll, answer, liveFaults >>

ServerStep ==
  \/ ListenerConnects \/ BeginBroadcast \/ EndBroadcast
  \/ \E c \in Socket : SendEnds(c) \/ SendTimesOut(c)
RequestStep == BeginRequest \/ ServeRequest \/ ApplyAnswer
LiveNext ==
  \/ InsertPost \/ ServerStep \/ ListenerFails \/ ClientStalls
  \/ \E c \in Socket : EndpointEnds(c)
  \/ OpenSocket \/ Select \/ SocketLost \/ HandleMessage
  \/ RequestStep \/ RequestBreaks \/ AbortedAnswerArrives

(* The event loops of both sides run what is ready, the send timeout and    *)
(* the poll interval elapse.                                                *)
LiveFairness ==
  /\ WF_liveVars(ServerStep) /\ WF_liveVars(RequestStep) /\ WF_liveVars(HandleMessage)
  /\ \A c \in Socket : WF_liveVars(EndpointEnds(c))
LiveSpec == LiveInit /\ [][LiveNext]_liveVars /\ LiveFairness

-----------------------------------------------------------------------------
(* The variables keep their types; a poll is always due, sent or answered.  *)
LiveTypeOK ==
  /\ inserted \in 0 .. Len(SymbolOf) /\ hearing \in BOOLEAN
  /\ message \in 0 .. inserted /\ Range(notes) \cup Range(inbox) \subseteq 1 .. inserted
  /\ awaited \cup undelivered \cup active \cup served \cup stalled \subseteq Socket
  /\ socket \in 0 .. opened /\ opened \in 0 .. MaxSockets
  /\ selected \in Selectable /\ BagToSet(view) \subseteq 1 .. inserted
  /\ shownFor \in Selectable \cup {"none"}
  /\ poll \in {"due", "sent", "answered"} /\ answer \subseteq 1 .. inserted

(* A selection does not clear what is in view: until it is answered, posts  *)
(* of the symbols selected before stay there.  From its first answer on     *)
(* every post in view is of the selection, also when answers to requests of *)
(* an earlier one, or what its socket had delivered, arrive after that.     *)
ShownOfSelection ==
  shownFor # "none" =>
    /\ shownFor = selected
    /\ \A p \in BagToSet(view) : SymbolOf[p] = selected

(* A post may be in an answer and in a notification that comes later; the   *)
(* counters overstate it by that one, never by more.                        *)
ShownAtMostTwice == \A p \in BagToSet(view) : view[p] <= 2

(* Whatever notifications are lost or doubled, the dashboard shows in the   *)
(* end exactly the posts of the selection that are stored.                  *)
ViewConverges == <>[](view = SetToBag(PostsOf(selected)))

(* A client that does not read holds up the others for the timeout only.    *)
BroadcastsEnd == message # 0 ~> message = 0

(* Sockets that were closed do not pile up among the active connections.    *)
DepartedLeave ==
  \A c \in Socket : (c \in active /\ c # socket) ~> (c \notin active)

(* What a dashboard shows in between: posts of its selection as soon as one *)
(* answer to it has come, and a post twice at most.                         *)
ViewBounded ==
  /\ ShownOfSelection
  /\ ShownAtMostTwice
=============================================================================
