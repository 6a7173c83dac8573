------------------------------- MODULE Desktop -------------------------------
(***************************************************************************)
(* The desktop plugin's open conversation and outbox (plugin/Service.qml,  *)
(* Panel.qml, js/Store.js, bin/request.py, bin/subscribe.py) at the other  *)
(* end of the daemon's socket (sync/src/socket_server.rs, and the sends of *)
(* bb.rs).  One conversation.                                              *)
(*                                                                         *)
(* The plugin follows events over one connection: it subscribes, is sent a *)
(* snapshot, then the events from a bounded channel that drops the oldest  *)
(* and says so.  History and sends are connections of their own, at most   *)
(* one each at a time, so what they answer and what the events say         *)
(* overtake each other.                                                    *)
(*                                                                         *)
(* A text or photo waits in the outbox as a row, is posted to the server,  *)
(* stored with the answer, and leaves the outbox by the answer or by an    *)
(* event that carries its row's id.  The answer may fail to come at each   *)
(* step, and the server may carry a post out when nobody waits any more.   *)
(*                                                                         *)
(* External: BlueBubbles, where messages of others appear and which may    *)
(* have sent what it never confirmed; the shell, which runs one callback   *)
(* at a time; the user.                                                    *)
(***************************************************************************)
EXTENDS Naturals, Sequences, FiniteSets

CONSTANTS
    Drafts,         \* what the user writes
    MaxTries,       \* bound: sends, retries included
    MaxInbound,     \* bound: messages of others
    MaxVisits,      \* bound: what the user does with the panel
    MaxActs,        \* bound: sends and visits together
    MaxFaults,      \* bound: connections and daemons that end
    ChannelMax,     \* events the channel keeps (256 in the code)
    PageLimit       \* messages of a page of history (200 in the code)

ASSUME DesktopAssumption ==
    /\ IsFiniteSet(Drafts)
    /\ MaxTries \in Nat /\ MaxInbound \in Nat /\ MaxVisits \in Nat /\ MaxFaults \in Nat
    /\ MaxActs \in Nat
    /\ ChannelMax \in Nat \ {0} /\ PageLimit \in Nat \ {0}

VARIABLES
    server,         \* messages there, oldest first: the try that sent it, 0 for others'
    posts,          \* tries posted that it has not carried out, and may never
    polled,         \* those live delivery has passed on
    cache,          \* those stored
    stream, queue, lagged,  \* the subscription: its state, its channel, its notice
    shown,          \* what the panel shows
    thread,         \* root.messages
    history,        \* historyProc
    excused,        \* the last reload of the thread failed or was dropped, or none was asked for
    outgoing,       \* the outbox, in order
    tried,          \* what each id of a row (sendSequence) was given out for
    send,           \* sendProc, and the daemon's task for it
    visits, faults

daemon == <<server, posts, polled, cache>>
feed == <<stream, queue, lagged>>
panel == <<shown, thread, history, excused>>
outbox == <<outgoing, tried, send>>
vars == <<daemon, feed, panel, outbox, visits, faults>>

MaxMessages == MaxInbound + MaxTries
Messages == 1..MaxMessages
Tries == 1..MaxTries
Events == [id : Messages, client : Tries \cup {0}]
Rows == [id : Tries, state : {"queued", "sending", "failed", "unconfirmed"}]

HistoryPC == {"idle", "asked", "read", "failed"}
\* found: liveMessages, which events add to while it runs, and the answer.
History == [pc : HistoryPC, before : 0..MaxMessages, found : SUBSET Messages,
            pending : SUBSET (0..MaxMessages)]
NoHistory == [pc |-> "idle", before |-> 0, found |-> {}, pending |-> {}]

SendPC == {"idle", "asked", "posted", "stored", "ok", "error", "timeout"}
NoSend == [id |-> 0, pc |-> "idle"]

TypeOK ==
    /\ server \in Seq(Tries \cup {0}) /\ Len(server) <= MaxMessages
    /\ posts \subseteq Tries
    /\ cache \subseteq DOMAIN server /\ polled \subseteq cache
    /\ stream \in {"down", "subscribed", "up"}
    /\ queue \in Seq(Events) /\ Len(queue) <= ChannelMax
    /\ lagged \in BOOLEAN
    /\ shown \in {"closed", "open", "settings"}
    /\ thread \subseteq cache
    /\ history \in History /\ Cardinality(history.pending) <= 1
    /\ excused \in BOOLEAN
    /\ outgoing \in Seq(Rows) /\ tried \in Seq(Drafts) /\ Len(tried) <= MaxTries
    /\ send \in [id : Tries \cup {0}, pc : SendPC]
    /\ visits \in 0..MaxVisits /\ faults \in 0..MaxFaults

\* The panel may show the conversation already: nothing was in it when it was opened.
Init ==
    /\ server = <<>> /\ posts = {} /\ polled = {} /\ cache = {}
    /\ stream = "down" /\ queue = <<>> /\ lagged = FALSE
    /\ shown \in {"closed", "open"} /\ thread = {} /\ history = NoHistory /\ excused = FALSE
    /\ outgoing = <<>> /\ tried = <<>> /\ send = NoSend
    /\ visits = 0 /\ faults = 0

Newest(S) == {m \in S : Cardinality({n \in S : n > m}) < PageLimit}
Delivered(try) == \E m \in DOMAIN server : server[m] = try
\* The tries the server was handed.
Handed == posts \cup ({server[m] : m \in DOMAIN server} \ {0})

-----------------------------------------------------------------------------
(* The thread                                                               *)

Asked(before) == [pc |-> "asked", before |-> before, found |-> {}, pending |-> {}]

\* Mutant: what is asked for while a load runs is left to that load.
LoadOnce(h, before) ==
    IF h.pc # "idle" THEN h ELSE Asked(before)

\* loadMessages: one load runs, one waits; the later to come waits.
LoadMessages(h, before) ==
    IF h.pc # "idle" THEN [h EXCEPT !.pending = {before}]
    ELSE Asked(before)

Load == /\ history' = LoadMessages(history, 0)
        /\ excused' = FALSE

\* The user may do more.
Act == Len(tried) + visits < MaxActs

Visit == Act /\ visits < MaxVisits /\ visits' = visits + 1

\* openChat: by the user, or when the panel is shown again.
OpenChat ==
    /\ Visit /\ shown # "settings"
    /\ shown' = "open"
    /\ thread' = IF shown = "open" THEN thread ELSE {}
    /\ Load
    /\ UNCHANGED <<daemon, feed, outbox, faults>>

\* openChatId is nothing while the panel is hidden or shows the settings ...
Leave ==
    /\ Visit /\ shown = "open"
    /\ shown' \in {"closed", "settings"}
    /\ UNCHANGED <<daemon, feed, thread, history, excused, outbox, faults>>

\* ... and updateActiveChat sets it again when the settings are closed, and asks for
\* no messages.
LeaveSettings ==
    /\ shown = "settings"
    /\ shown' = "open" /\ excused' = TRUE
    /\ UNCHANGED <<daemon, feed, thread, history, outbox, visits, faults>>

\* "Load older": it may take the place of a reload that waits.
LoadOlder ==
    /\ Visit /\ shown = "open" /\ thread # {}
    /\ LET oldest == CHOOSE m \in thread : \A n \in thread : m <= n
       IN  history' = LoadMessages(history, oldest)
    /\ excused' = (excused \/ 0 \in history.pending)
    /\ UNCHANGED <<daemon, feed, shown, thread, outbox, faults>>

\* messages.history reads the cache ...
HistoryRead ==
    /\ history.pc = "asked"
    /\ history' = [history EXCEPT !.pc = "read", !.found =
           @ \cup Newest({m \in cache : history.before = 0 \/ m < history.before})]
    /\ UNCHANGED <<daemon, feed, shown, thread, excused, outbox, visits, faults>>

\* What it makes of the thread: an older page is added to it, and a reload replaces it,
\* except for what events said since the load began.
Merged == history.found \cup (IF history.before = 0 THEN {} ELSE thread)

\* ... and historyProc ends: the answer is for the conversation that is open, or
\* dropped, and so is the load that waits.
HistoryExit ==
    /\ history.pc \in {"read", "failed"}
    /\ thread' = IF history.pc = "read" /\ shown = "open" THEN Merged ELSE thread
    /\ history' = IF history.pending = {} \/ shown # "open" THEN NoHistory
                  ELSE LoadMessages(NoHistory, CHOOSE b \in history.pending : TRUE)
    /\ UNCHANGED <<daemon, feed, shown, excused, outbox, visits, faults>>

-----------------------------------------------------------------------------
(* Events                                                                   *)

\* Mutant: the channel drops nothing.
BroadcastUnbounded(event) ==
    IF stream = "down" THEN UNCHANGED <<queue, lagged>>
    ELSE queue' = Append(queue, event) /\ UNCHANGED lagged

\* What a broadcast does to the one subscription.
Broadcast(event) ==
    IF stream = "down" THEN UNCHANGED <<queue, lagged>>
    ELSE IF Len(queue) < ChannelMax
         THEN queue' = Append(queue, event) /\ UNCHANGED lagged
         ELSE queue' = Append(Tail(queue), event) /\ lagged' = TRUE

\* apply_live stores a message and tells the subscribers.  (One step: who reads the
\* cache in between learns early what the event will say.)
ApplyLive(m) ==
    /\ polled' = polled \cup {m} /\ cache' = cache \cup {m}
    /\ Broadcast([id |-> m, client |-> 0])
    /\ UNCHANGED <<stream, panel, outbox, visits, faults>>

\* A message of another, which live delivery is the first to see ...
Arrive ==
    /\ Cardinality({m \in DOMAIN server : server[m] = 0}) < MaxInbound
    /\ server' = Append(server, 0)
    /\ ApplyLive(Len(server'))
    /\ UNCHANGED posts

\* ... or one sent from here.
Echo(m) ==
    /\ m \in DOMAIN server \ polled
    /\ ApplyLive(m)
    /\ UNCHANGED <<server, posts>>

\* streamRetry: the subscription is taken before the snapshot is made.
Subscribe ==
    /\ stream = "down"
    /\ stream' = "subscribed" /\ queue' = <<>> /\ lagged' = FALSE
    /\ UNCHANGED <<daemon, panel, outbox, visits, faults>>

ReloadOpen ==
    IF shown = "open" THEN Load ELSE UNCHANGED <<history, excused>>

\* ingest, of the snapshot ...
IngestSnapshot ==
    /\ stream = "subscribed"
    /\ stream' = "up"
    /\ ReloadOpen
    /\ UNCHANGED <<daemon, queue, lagged, shown, thread, outbox, visits, faults>>

\* ... of the notice that events were dropped ...
IngestLagged ==
    /\ stream = "up" /\ lagged
    /\ lagged' = FALSE
    /\ ReloadOpen
    /\ UNCHANGED <<daemon, stream, queue, shown, thread, outbox, visits, faults>>

\* Mutant: the load that runs does not hear of it.
KeptApart(h, m) == h

\* A load that runs keeps a message that an event tells of.
Kept(h, m) == IF h.pc = "idle" THEN h ELSE [h EXCEPT !.found = @ \cup {m}]

\* The rows but the one with an id, which was given out once.
Without(rows, id) ==
    IF \A i \in DOMAIN rows : rows[i].id # id THEN rows
    ELSE LET gone == CHOOSE i \in DOMAIN rows : rows[i].id = id
         IN  [i \in 1..(Len(rows) - 1) |-> rows[IF i < gone THEN i ELSE i + 1]]

\* ... and of a sync.message event.
IngestMessage ==
    /\ stream = "up" /\ ~lagged /\ queue # <<>>
    /\ LET event == Head(queue) IN
       /\ queue' = Tail(queue)
       /\ history' = Kept(history, event.id)
       /\ thread' = IF shown = "open" THEN thread \cup {event.id} ELSE thread
       /\ outgoing' = Without(outgoing, event.client)
    /\ UNCHANGED <<daemon, stream, lagged, shown, excused, tried, send, visits, faults>>

-----------------------------------------------------------------------------
(* The outbox                                                               *)

Marked(rows, id, state) ==
    [i \in DOMAIN rows |-> IF rows[i].id = id THEN [rows[i] EXCEPT !.state = state] ELSE rows[i]]

Queued(rows) == {i \in DOMAIN rows : rows[i].state = "queued"}

\* drainOutgoing: the first row that is queued is sent when no send runs.
DrainOutgoing(rows, running) ==
    IF running.pc # "idle" \/ Queued(rows) = {}
    THEN outgoing' = rows /\ send' = running
    ELSE LET first == CHOOSE i \in Queued(rows) : \A j \in Queued(rows) : i <= j
         IN  /\ outgoing' = Marked(rows, rows[first].id, "sending")
             /\ send' = [id |-> rows[first].id, pc |-> "asked"]

\* sendMessage, sendAttachment.
SendMessage(draft) ==
    /\ Act /\ Len(tried) < MaxTries /\ \A i \in DOMAIN tried : tried[i] # draft
    /\ tried' = Append(tried, draft)
    /\ DrainOutgoing(Append(outgoing, [id |-> Len(tried'), state |-> "queued"]), send)
    /\ UNCHANGED <<daemon, feed, panel, visits, faults>>

\* retryMessage, of a row that failed: a new id in the old one's place.
Retry(i) ==
    /\ i \in DOMAIN outgoing /\ outgoing[i].state \in {"failed", "unconfirmed"}
    /\ Act /\ Len(tried) < MaxTries
    /\ tried' = Append(tried, tried[outgoing[i].id])
    /\ DrainOutgoing([outgoing EXCEPT ![i] = [id |-> Len(tried'), state |-> "queued"]], send)
    /\ UNCHANGED <<daemon, feed, panel, visits, faults>>

SendTo(from, to) ==
    /\ send.pc \in from
    /\ send' = [send EXCEPT !.pc = to]
    /\ UNCHANGED <<feed, panel, outgoing, tried, visits, faults>>

\* An unknown chat, or no link: nothing was sent.
Refuse == SendTo({"asked"}, "error") /\ UNCHANGED daemon

\* Mutant: a post whose answer does not come is made again.
PostAgain ==
    /\ SendTo({"asked", "posted"}, "posted")
    /\ posts' = posts \cup {send.id}
    /\ UNCHANGED <<server, polled, cache>>

\* send_text, send_attachment: the post goes to the server ...
Post ==
    /\ SendTo({"asked"}, "posted")
    /\ posts' = posts \cup {send.id}
    /\ UNCHANGED <<server, polled, cache>>

\* ... which carries it out at a time of its own, though the daemon or the plugin have
\* given it up, or the user has tried again.
CarryOut(try) ==
    /\ try \in posts
    /\ posts' = posts \ {try}
    /\ server' = Append(server, try)
    /\ UNCHANGED <<polled, cache, feed, panel, outbox, visits, faults>>

\* Its answer is an error, or something unreadable, or cannot be stored ...
AnswerError == SendTo({"posted"}, "error") /\ UNCHANGED daemon

\* ... or does not come in time, or there was no connection at all.  request.py gives up,
\* and the daemon drops the task of a connection that ended, wherever it is (abort_all),
\* before the panel has seen it end ...
TimeOut == SendTo({"asked", "posted", "stored", "ok"}, "timeout") /\ UNCHANGED daemon

\* ... or is the message, which is stored, ...
StoreSent ==
    /\ SendTo({"posted"}, "stored") /\ Delivered(send.id)
    /\ cache' = cache \cup {CHOOSE m \in DOMAIN server : server[m] = send.id}
    /\ UNCHANGED <<server, posts, polled>>

\* ... and its event, with the row's id if it is a text and none if it is a photo, goes
\* out before the answer.
TellSent ==
    /\ send.pc = "stored"
    /\ send' = [send EXCEPT !.pc = "ok"]
    /\ \E client \in {send.id, 0} :
          Broadcast([id |-> CHOOSE m \in DOMAIN server : server[m] = send.id, client |-> client])
    /\ UNCHANGED <<daemon, stream, panel, outgoing, tried, visits, faults>>

\* classifySendFailure.
Classified(pc) == IF pc = "timeout" THEN "unconfirmed" ELSE "failed"

\* Mutant: a row whose send has ended is done with.
SettledAnyway(rows) == Without(rows, send.id)

\* sendProc's exit removes the row or marks it.
Settled(rows) ==
    IF send.pc = "ok" THEN Without(rows, send.id)
    ELSE Marked(rows, send.id, Classified(send.pc))

\* Mutant: the queue is not looked at when an event has removed the row already.
SendExitQuietly ==
    /\ send.pc \in {"ok", "error", "timeout"}
    /\ IF send.pc # "ok" /\ \A i \in DOMAIN outgoing : outgoing[i].id # send.id
       THEN send' = NoSend /\ UNCHANGED outgoing
       ELSE DrainOutgoing(Settled(outgoing), NoSend)
    /\ IF send.pc = "ok" THEN Load ELSE UNCHANGED <<history, excused>>
    /\ UNCHANGED <<daemon, feed, shown, thread, tried, visits, faults>>

\* After a send that was answered the thread is loaded again, and the next row goes.
SendExit ==
    /\ send.pc \in {"ok", "error", "timeout"}
    /\ DrainOutgoing(Settled(outgoing), NoSend)
    /\ IF send.pc = "ok" THEN Load ELSE UNCHANGED <<history, excused>>
    /\ UNCHANGED <<daemon, feed, shown, thread, tried, visits, faults>>

-----------------------------------------------------------------------------
(* Faults                                                                   *)

Fault == faults < MaxFaults /\ faults' = faults + 1

\* A load gets no answer in time, or an error: what it read is dropped, and nothing asks
\* again.
HistoryFails ==
    /\ Fault /\ history.pc \in {"asked", "read"}
    /\ history' = [history EXCEPT !.pc = "failed"]
    /\ excused' = (excused \/ (history.before = 0 /\ 0 \notin history.pending))
    /\ UNCHANGED <<daemon, feed, shown, thread, outbox, visits>>

\* The subscription's connection ends.
StreamEnds ==
    /\ Fault /\ stream # "down"
    /\ stream' = "down" /\ queue' = <<>> /\ lagged' = FALSE
    /\ UNCHANGED <<daemon, panel, outbox, visits>>

\* The daemon ends and is started again.  request.py takes a connection that is closed
\* without an answer for an empty one.
Restart ==
    /\ Fault
    /\ stream' = "down" /\ queue' = <<>> /\ lagged' = FALSE
    /\ history' = IF history.pc = "asked" THEN [history EXCEPT !.pc = "failed"] ELSE history
    /\ send' = IF send.pc \in {"asked", "posted", "stored", "ok"}
               THEN [send EXCEPT !.pc = "error"] ELSE send
    /\ UNCHANGED <<daemon, shown, thread, excused, outgoing, tried, visits>>

-----------------------------------------------------------------------------

Next ==
    \/ OpenChat \/ Leave \/ LeaveSettings \/ LoadOlder \/ HistoryRead \/ HistoryExit
    \/ Arrive \/ (\E m \in Messages : Echo(m))
    \/ Subscribe \/ IngestSnapshot \/ IngestLagged \/ IngestMessage
    \/ (\E draft \in Drafts : SendMessage(draft)) \/ (\E i \in 1..MaxTries : Retry(i))
    \/ Refuse \/ Post \/ (\E try \in Tries : CarryOut(try)) \/ AnswerError \/ TimeOut
    \/ StoreSent \/ TellSent \/ SendExit
    \/ HistoryFails \/ StreamEnds \/ Restart

Spec == Init /\ [][Next]_vars

-----------------------------------------------------------------------------
(* Properties                                                               *)

\* Each text the user wrote is in the outbox until a copy of it was delivered, and a
\* try is delivered once at most, in whatever order the answer, the event that
\* carries the row's id, a lost connection and a retry under a new id come.
SentAsAsked ==
    /\ \A draft \in {tried[i] : i \in DOMAIN tried} :
          \/ \E i \in DOMAIN outgoing : tried[outgoing[i].id] = draft
          \/ \E m \in DOMAIN server : server[m] # 0 /\ tried[server[m]] = draft
    /\ \A m, n \in DOMAIN server : m # n => server[m] # server[n] \/ server[m] = 0

\* No row waits, or is shown sending, when no send runs, and only one is shown sending:
\* whichever of answer, event and failure ends a send, the next goes.
OutboxMoves ==
    \A i \in DOMAIN outgoing :
        /\ outgoing[i].state = "sending" => outgoing[i].id = send.id
        /\ outgoing[i].state = "queued" => send.pc # "idle"

\* When there is nothing left to follow, the open conversation shows the newest
\* messages of the cache, whatever was dropped from the channel, lost with a connection
\* or a daemon, or overtaken by a load.  (Not so when the last reload itself failed, after
\* a visit to the settings, or when "Load older" displaced a reload: `excused`.)
NothingToFollow ==
    /\ cache \subseteq polled
    /\ stream = "up" /\ ~lagged /\ queue = <<>>
    /\ shown = "open" /\ history.pc = "idle"
ThreadIsCurrent == NothingToFollow /\ ~excused => Newest(cache) \subseteq thread

\* Every step of sendMessage, retryMessage, the daemon, the server, the events and
\* sendProc's exit is a step of OutboxLedger or none: a try is handed to the server once,
\* while its row is shown, it is delivered once at most, then or later, and a row leaves
\* only when that try, not another of its text, was delivered.
Promise == INSTANCE OutboxLedger
    WITH asked <- tried, waiting <- {outgoing[i].id : i \in DOMAIN outgoing},
         handed <- Handed, sent <- server
OutboxSpec == Promise!Spec

\* A row the panel calls "Not delivered" and offers to send again without a warning
\* was not delivered.
FailedIsNotDelivered ==
    \A i \in DOMAIN outgoing : outgoing[i].state = "failed" => ~Delivered(outgoing[i].id)
=============================================================================
