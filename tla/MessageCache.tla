---------------------------- MODULE MessageCache ----------------------------
(***************************************************************************)
(* The SQLite cache of imsg-sync (sync/src/cache.rs), one action per SQL   *)
(* statement.                                                              *)
(*                                                                         *)
(* Two processes touch the file.  The daemon opens it, repairs it, and     *)
(* then runs one writing operation at a time: every caller holds the write *)
(* half of Arc<RwLock<MessageCache>>.  `imsg-sync status` opens the same   *)
(* file from a process of its own, runs the same repairs beside the        *)
(* daemon's statements, counts and leaves.  Only apply_live_message is a   *)
(* transaction; between the statements of anything else a task may be      *)
(* cancelled, a statement may fail, or the process may die.                *)
(*                                                                         *)
(* A row is keyed by a local 63-bit id, a message or chat is named by the  *)
(* server's guid, and the identities table joins the two.  Text, senders   *)
(* and display names are left out; what is kept of a row is what counts    *)
(* unread messages and orders chats.  Time 0 is a missing timestamp.       *)
(***************************************************************************)
EXTENDS Integers, FiniteSets

CONSTANTS
    Chats,          \* chat guids
    Msgs,           \* message guids
    NoGuid,         \* the guid of an absent row
    ChatsOf,        \* message -> the chats its copies may name
    Created,        \* when the server says a message was created
    FromMe,         \* the messages this user sent
    MaxId,          \* i64::MAX
    StableId,       \* domain::stable_id, a hash: it may collide
    ServerUnread,   \* unread counts a chat listing of the server may carry
    LegacyId,       \* row ids of the database an earlier build left behind
    LegacyChats,    \* its chat rows
    LegacyMsgs,     \* its message rows
    LegacyChatOf,   \* message -> the chat it filed it under
    LegacyNamed     \* the guids its identities table already held

Guids == Chats \cup Msgs
Ids   == 1 .. MaxId
Dates == {0} \cup {Created[m] : m \in Msgs}

ASSUME GuidAssumption ==
    /\ Chats \cap Msgs = {} /\ NoGuid \notin Guids
    /\ ChatsOf \in [Msgs -> SUBSET Chats]
    /\ Created \in [Msgs -> Nat \ {0}]
    /\ FromMe \subseteq Msgs
    /\ ServerUnread \subseteq Nat
ASSUME IdAssumption ==
    /\ MaxId \in Nat \ {0}
    /\ StableId \in [Guids -> Ids]
\* What an earlier build left has distinct row ids, and a message whose chat
\* has no row has at least an identity for that chat.
ASSUME LegacyAssumption ==
    /\ LegacyId \in [Guids -> Ids]
    /\ LegacyChats \subseteq Chats /\ LegacyMsgs \subseteq Msgs
    /\ LegacyNamed \subseteq Guids
    /\ LegacyChatOf \in [Msgs -> Chats]
    /\ \A m \in LegacyMsgs :
          LegacyChatOf[m] \in ChatsOf[m] \cap (LegacyChats \cup LegacyNamed)
    /\ \A g, h \in LegacyChats \cup LegacyMsgs \cup LegacyNamed :
          LegacyId[g] = LegacyId[h] => g = h

VARIABLES
    identities,     \* guid -> id, 0 where the table has no row
    chats,          \* id -> row of table chats
    messages,       \* id -> row of table messages
    pc,             \* the next statement of each process
    job             \* its arguments and local variables

tables == <<identities, chats, messages>>
vars   == <<identities, chats, messages, pc, job>>

Procs == {"daemon", "status"}

-----------------------------------------------------------------------------
(* Rows.  A chat row holds its unread count and last_message_at twice: in   *)
(* columns, and inside raw_json, which is what clients are shown.           *)

ChatRow == [guid: Chats \cup {NoGuid}, unread: Nat, last: Dates,
            rawUnread: Nat, rawLast: Dates]
MessageRow == [guid: Msgs \cup {NoGuid}, chatId: Ids \cup {0}, at: Dates]

NoChatRow == [guid |-> NoGuid, unread |-> 0, last |-> 0, rawUnread |-> 0, rawLast |-> 0]
NoMessageRow == [guid |-> NoGuid, chatId |-> 0, at |-> 0]

Later(a, b) == IF b > a THEN b ELSE a
Lesser(a, b) == IF a < b THEN a ELSE b

\* Mutant: the table lost its UNIQUE constraint on id.
InsertableUnlessNamed(g, i) == identities[g] = 0

\* INSERT OR IGNORE INTO identities: guid is the primary key, id is UNIQUE.
Insertable(g, i) == identities[g] = 0 /\ \A h \in Guids : identities[h] # i
InsertIdentity(g, i) ==
    identities' = IF Insertable(g, i) THEN [identities EXCEPT ![g] = i] ELSE identities

-----------------------------------------------------------------------------
(* Operations.  `want` is the guid id_for_guid is looking up, `after` the   *)
(* statement that follows it, `cand` the id its loop tries next.            *)

Orphan == [chat: Chats, last: Dates]

Job == [kind: {"none", "open", "live", "chat", "message", "read"},
        chat: Chats \cup {NoGuid}, msg: Msgs \cup {NoGuid},
        at: Dates, unread: Nat, last: Dates,
        want: Guids \cup {NoGuid},
        after: {"none", "exists", "upsert", "put", "live", "want_msg"},
        cand: Ids \cup {0}, chatId: Ids \cup {0}, msgId: Ids \cup {0},
        todo: SUBSET Orphan]

NoJob == [kind |-> "none", chat |-> NoGuid, msg |-> NoGuid, at |-> 0, unread |-> 0,
          last |-> 0, want |-> NoGuid, after |-> "none", cand |-> 0, chatId |-> 0,
          msgId |-> 0, todo |-> {}]

PCs == {"down", "idle", "rebuild_chats", "rebuild_messages", "find_orphans", "next_orphan",
        "select", "insert", "reselect", "max", "exists", "upsert", "name",
        "put", "live", "unread"}

Goto(p, label) == pc' = [pc EXCEPT ![p] = label]
Return(p) == /\ Goto(p, IF p = "daemon" THEN "idle" ELSE "down")
             /\ job' = [job EXCEPT ![p] = NoJob]

Start(p, j, label) == /\ job' = [job EXCEPT ![p] = j]
                      /\ Goto(p, label)
                      /\ UNCHANGED tables

\* apply_domain_message: a live delivery or the result of a send.  Each copy of a
\* message names a chat of its own; a thin copy carries no date.
ApplyDomainMessage(m, c, at) ==
    /\ pc["daemon"] = "idle" /\ c \in ChatsOf[m] /\ at \in {0, Created[m]}
    /\ Start("daemon", [NoJob EXCEPT !.kind = "live", !.msg = m, !.chat = c,
                          !.at = at, !.want = c, !.after = "exists"], "select")

\* upsert_domain_chat, with what the server's listing says of the chat.
UpsertDomainChat(c, n, t) ==
    /\ pc["daemon"] = "idle"
    /\ Start("daemon", [NoJob EXCEPT !.kind = "chat", !.chat = c, !.unread = n,
                          !.last = t, !.want = c, !.after = "upsert"], "select")

\* upsert_domain_message: prefetch stores the messages of a chat it has just
\* upserted, so the chat has a row; it files them under the chat it asked for.
UpsertDomainMessage(m, c, at) ==
    /\ pc["daemon"] = "idle" /\ c \in ChatsOf[m] /\ at \in {0, Created[m]}
    /\ \E i \in Ids : chats[i].guid = c
    /\ Start("daemon", [NoJob EXCEPT !.kind = "message", !.msg = m, !.chat = c,
                          !.at = at, !.want = c, !.after = "want_msg"], "select")

\* apply_contact_book, one chat of its list: the row goes back with the name the
\* book has for it, by the id in the row and without a lookup.
RenameChat(i) ==
    /\ pc["daemon"] = "idle" /\ chats[i].guid # NoGuid
    /\ Start("daemon", [NoJob EXCEPT !.kind = "chat", !.chat = chats[i].guid, !.chatId = i,
                          !.unread = chats[i].rawUnread, !.last = chats[i].rawLast], "upsert")

\* mark_read, first statement: SELECT raw_json.  The second is MarkRead.
ReadChat(i) ==
    /\ pc["daemon"] = "idle" /\ chats[i].guid # NoGuid
    /\ Start("daemon", [NoJob EXCEPT !.kind = "read", !.chatId = i,
                          !.last = chats[i].rawLast], "unread")

\* Mutant: mark_read takes one message off the count.
MarkOneRead(p) ==
    /\ pc[p] = "unread"
    /\ chats' = [chats EXCEPT ![job[p].chatId].unread = @ - 1,
                              ![job[p].chatId].rawUnread = @ - 1]
    /\ Return(p)
    /\ UNCHANGED <<identities, messages>>

\* mark_read, second statement: the column is cleared and the raw_json read
\* before is written back with the count cleared.
MarkRead(p) ==
    /\ pc[p] = "unread"
    /\ chats' = [chats EXCEPT ![job[p].chatId].unread = 0,
                              ![job[p].chatId].rawUnread = 0,
                              ![job[p].chatId].rawLast = job[p].last]
    /\ Return(p)
    /\ UNCHANGED <<identities, messages>>

-----------------------------------------------------------------------------
(* id_for_guid                                                              *)

\* The lookup found i: hand it to the statement that asked for it.
Found(p, i) ==
    LET j == job[p]
        k == IF j.want = j.chat THEN [j EXCEPT !.chatId = i, !.cand = 0]
                                ELSE [j EXCEPT !.msgId = i, !.cand = 0]
    IN  IF j.after = "want_msg"
        THEN /\ job' = [job EXCEPT ![p] = [k EXCEPT !.want = j.msg, !.after = "put"]]
             /\ Goto(p, "select")
        ELSE /\ job' = [job EXCEPT ![p] = [k EXCEPT !.want = NoGuid, !.after = "none"]]
             /\ Goto(p, j.after)

SelectIdentity(p) ==
    /\ pc[p] = "select"
    /\ IF identities[job[p].want] # 0
       THEN Found(p, identities[job[p].want])
       ELSE /\ job' = [job EXCEPT ![p].cand = StableId[job[p].want]]
            /\ Goto(p, "insert")
    /\ UNCHANGED tables

TryInsertIdentity(p) ==
    /\ pc[p] = "insert"
    /\ InsertIdentity(job[p].want, job[p].cand)
    /\ IF Insertable(job[p].want, job[p].cand)
       THEN Found(p, job[p].cand)
       ELSE Goto(p, "reselect") /\ UNCHANGED job
    /\ UNCHANGED <<chats, messages>>

\* Another connection may have named the guid meanwhile.
ReselectIdentity(p) ==
    /\ pc[p] = "reselect"
    /\ IF identities[job[p].want] # 0
       THEN Found(p, identities[job[p].want])
       ELSE Goto(p, "max") /\ UNCHANGED job
    /\ UNCHANGED tables

\* Mutant: the loop tries the largest id again instead of the one after it.
SameCandidate(p) ==
    /\ pc[p] = "max"
    /\ \E top \in {identities[g] : g \in Guids} :
          /\ \A g \in Guids : identities[g] <= top
          /\ job' = [job EXCEPT ![p].cand = top]
    /\ Goto(p, "insert")
    /\ UNCHANGED tables

\* SELECT COALESCE(MAX(id), 0), then max.saturating_add(1).
NextCandidate(p) ==
    /\ pc[p] = "max"
    /\ \E top \in {identities[g] : g \in Guids} :
          /\ \A g \in Guids : identities[g] <= top
          /\ job' = [job EXCEPT ![p].cand = Lesser(top + 1, MaxId)]
    /\ Goto(p, "insert")
    /\ UNCHANGED tables

-----------------------------------------------------------------------------
(* Chats                                                                    *)

\* Mutant: the message is applied whether or not its chat has a row.
ChatAssumed(p) ==
    /\ pc[p] = "exists"
    /\ job' = [job EXCEPT ![p].want = job[p].msg, ![p].after = "live"]
    /\ Goto(p, "select")
    /\ UNCHANGED tables

\* apply_domain_message looks for the chat row and upserts a stub without it.
ChatExists(p) ==
    /\ pc[p] = "exists"
    /\ LET j == job[p] IN
       job' = [job EXCEPT ![p] =
                 IF chats[j.chatId].guid # NoGuid
                 THEN [j EXCEPT !.want = j.msg, !.after = "live"]
                 ELSE [j EXCEPT !.want = j.chat, !.after = "upsert",
                                !.unread = 0, !.last = j.at]]
    /\ Goto(p, "select")
    /\ UNCHANGED tables

\* What INSERT ... ON CONFLICT(id) DO UPDATE makes of row r: a row that is
\* there keeps its local unread count and takes the incoming date.
Upserted(r, c, n, t) ==
    IF r.guid = NoGuid
    THEN [guid |-> c, unread |-> n, last |-> t, rawUnread |-> n, rawLast |-> t]
    ELSE [r EXCEPT !.last = t, !.rawLast = t, !.rawUnread = r.unread]

UpsertChat(p) ==
    /\ pc[p] = "upsert"
    /\ LET j == job[p] IN
       chats' = [chats EXCEPT ![j.chatId] = Upserted(@, j.chat, j.unread, j.last)]
    /\ Goto(p, "name")
    /\ UNCHANGED <<identities, messages, job>>

\* The INSERT OR IGNORE that ends upsert_chat, and where the operation goes.
NameChat(p) ==
    /\ pc[p] = "name"
    /\ InsertIdentity(job[p].chat, job[p].chatId)
    /\ CASE job[p].kind = "live" ->
              /\ job' = [job EXCEPT ![p].want = job[p].msg, ![p].after = "live"]
              /\ Goto(p, "select")
         [] job[p].kind = "open" -> Goto(p, "next_orphan") /\ UNCHANGED job
         [] OTHER -> Return(p)
    /\ UNCHANGED <<chats, messages>>

-----------------------------------------------------------------------------
(* Messages                                                                 *)

\* Mutant: the chat id of the row wins over the incoming one.
MergedUnderOldChat(r, m, c, at) ==
    [guid |-> m, chatId |-> r.chatId, at |-> IF at = 0 THEN r.at ELSE at]

\* merge_message and persist_message: the row goes to the chat of the incoming copy;
\* an absent date does not erase the one already known.
Merged(r, m, c, at) == [guid |-> m, chatId |-> c, at |-> IF at = 0 THEN r.at ELSE at]

\* upsert_message, which prefetch uses: no chat row is touched.
PutMessage(p) ==
    /\ pc[p] = "put"
    /\ LET j == job[p] IN
       messages' = [messages EXCEPT ![j.msgId] = Merged(@, j.msg, j.chatId, j.at)]
    /\ Return(p)
    /\ UNCHANGED <<identities, chats>>

\* Mutant: a message counts if it is the newest of its chat.
BumpedIfNewest(r, at, new) ==
    LET n == r.rawUnread + (IF new /\ at > r.rawLast THEN 1 ELSE 0)
        t == Later(r.rawLast, at)
    IN  [r EXCEPT !.unread = n, !.rawUnread = n, !.last = t, !.rawLast = t]

\* The chat row after a live message: later_timestamp, and the count.
Bumped(r, at, new) ==
    LET n == r.rawUnread + (IF new THEN 1 ELSE 0)
        t == Later(r.rawLast, at)
    IN  [r EXCEPT !.unread = n, !.rawUnread = n, !.last = t, !.rawLast = t]

\* apply_live_message, one transaction.
ApplyLive(p) ==
    /\ pc[p] = "live"
    /\ LET j     == job[p]
           old   == messages[j.msgId]
           new   == Merged(old, j.msg, j.chatId, j.at)
           isNew == old.guid = NoGuid
       IN  /\ messages' = [messages EXCEPT ![j.msgId] = new]
           /\ chats' = IF chats[j.chatId].guid = NoGuid THEN chats
                       ELSE [chats EXCEPT ![j.chatId] =
                               Bumped(@, new.at, isNew /\ j.msg \notin FromMe)]
    /\ Return(p)
    /\ UNCHANGED identities

-----------------------------------------------------------------------------
(* open and its repairs                                                     *)

Open(p) ==
    /\ pc[p] = "down"
    /\ Start(p, [NoJob EXCEPT !.kind = "open"], "rebuild_chats")

\* INSERT OR IGNORE INTO identities SELECT guid, id FROM a table of rows: a
\* guid takes the id of its row unless it has one or the id is taken.
Rebuilt(rows) ==
    [g \in Guids |->
        LET own == {i \in Ids : rows[i].guid = g /\ Insertable(g, i)}
        IN  IF own = {} THEN identities[g] ELSE CHOOSE i \in own : TRUE]

RebuildChats(p) ==
    /\ pc[p] = "rebuild_chats"
    /\ identities' = Rebuilt(chats)
    /\ Goto(p, "rebuild_messages")
    /\ UNCHANGED <<chats, messages, job>>

\* Mutant: identities are rebuilt from the chats alone.
RebuildNoMessages(p) ==
    /\ pc[p] = "rebuild_messages"
    /\ Goto(p, "find_orphans")
    /\ UNCHANGED <<tables, job>>

RebuildMessages(p) ==
    /\ pc[p] = "rebuild_messages"
    /\ identities' = Rebuilt(messages)
    /\ Goto(p, "find_orphans")
    /\ UNCHANGED <<chats, messages, job>>

\* Chats with an identity and messages but no row, each with the date of its
\* newest message.
Orphans ==
    {o \in Orphan :
        LET i   == identities[o.chat]
            own == {k \in Ids : messages[k].chatId = i}
        IN  /\ i # 0 /\ chats[i].guid = NoGuid
            /\ \E k \in own : messages[k].at = o.last
            /\ \A k \in own : messages[k].at <= o.last}

FindOrphans(p) ==
    /\ pc[p] = "find_orphans"
    /\ job' = [job EXCEPT ![p].todo = Orphans]
    /\ Goto(p, "next_orphan")
    /\ UNCHANGED tables

\* Each orphan of the list is upserted as a stub; the list is not read again.
RepairOrphan(p) ==
    /\ pc[p] = "next_orphan"
    /\ LET j == job[p] IN
       \E o \in j.todo :
          job' = [job EXCEPT ![p] = [j EXCEPT !.todo = j.todo \ {o}, !.chat = o.chat, !.chatId = 0,
                    !.unread = 0, !.last = o.last, !.want = o.chat, !.after = "upsert"]]
    /\ Goto(p, "select")
    /\ UNCHANGED tables

FinishOpen(p) ==
    /\ pc[p] = "next_orphan" /\ job[p].todo = {}
    /\ Return(p)
    /\ UNCHANGED tables

\* A statement fails or the task that runs the operation is cancelled.  A
\* failed open ends its process.
Abandon(p) ==
    /\ pc[p] \notin {"down", "idle"}
    /\ Goto(p, IF job[p].kind = "open" THEN "down" ELSE "idle")
    /\ job' = [job EXCEPT ![p] = NoJob]
    /\ UNCHANGED tables

Crash ==
    /\ pc["daemon"] # "down"
    /\ Goto("daemon", "down")
    /\ job' = [job EXCEPT !["daemon"] = NoJob]
    /\ UNCHANGED tables

-----------------------------------------------------------------------------

Init ==
    /\ identities = [g \in Guids |-> IF g \in LegacyNamed THEN LegacyId[g] ELSE 0]
    /\ chats = [i \in Ids |->
         IF \E c \in LegacyChats : LegacyId[c] = i
         THEN [NoChatRow EXCEPT !.guid = CHOOSE c \in LegacyChats : LegacyId[c] = i]
         ELSE NoChatRow]
    /\ messages = [i \in Ids |->
         IF \E m \in LegacyMsgs : LegacyId[m] = i
         THEN LET m == CHOOSE l \in LegacyMsgs : LegacyId[l] = i
              IN  [guid |-> m, chatId |-> LegacyId[LegacyChatOf[m]], at |-> Created[m]]
         ELSE NoMessageRow]
    /\ pc = [p \in Procs |-> "down"]
    /\ job = [p \in Procs |-> NoJob]

\* A statement of an operation that is under way.
Statement(p) ==
    \/ SelectIdentity(p) \/ TryInsertIdentity(p) \/ ReselectIdentity(p) \/ NextCandidate(p)
    \/ ChatExists(p) \/ UpsertChat(p) \/ NameChat(p)
    \/ PutMessage(p) \/ ApplyLive(p) \/ MarkRead(p)
    \/ RebuildChats(p) \/ RebuildMessages(p) \/ FindOrphans(p)
    \/ RepairOrphan(p) \/ FinishOpen(p)

Request ==
    \/ \E m \in Msgs, c \in Chats : \E at \in {0, Created[m]} :
          ApplyDomainMessage(m, c, at) \/ UpsertDomainMessage(m, c, at)
    \/ \E c \in Chats, n \in ServerUnread :
         \E t \in {0} \cup {Created[m] : m \in {l \in Msgs : c \in ChatsOf[l]}} :
            UpsertDomainChat(c, n, t)
    \/ \E i \in Ids : RenameChat(i) \/ ReadChat(i)

Next ==
    \/ Request
    \/ \E p \in Procs : Open(p) \/ Statement(p) \/ Abandon(p)
    \/ Crash

Spec == Init /\ [][Next]_vars

Fairness == \A p \in Procs : WF_vars(Statement(p))
FairSpec == Spec /\ Fairness

-----------------------------------------------------------------------------
(* Properties                                                               *)

TypeOK ==
    /\ identities \in [Guids -> Ids \cup {0}]
    /\ chats \in [Ids -> ChatRow]
    /\ messages \in [Ids -> MessageRow]
    /\ pc \in [Procs -> PCs]
    /\ job \in [Procs -> Job]

\* No two guids share a local id, and the ids an operation carries from one
\* statement to the next are those of the table, whatever the other process
\* inserted in between (id_for_guid's insert-or-look-again loop).
IdsInAgreement ==
    /\ \A g, h \in Guids : identities[g] # 0 /\ identities[g] = identities[h] => g = h
    /\ \A p \in Procs :
          /\ job[p].chat # NoGuid /\ job[p].chatId # 0 => identities[job[p].chat] = job[p].chatId
          /\ job[p].msgId # 0 => identities[job[p].msg] = job[p].msgId

\* A chat or a message is stored once, however often it is delivered, listed
\* or repaired, and by whichever process.
OneRowPerGuid ==
    \A i, k \in Ids :
        /\ chats[i].guid # NoGuid /\ chats[i].guid = chats[k].guid => i = k
        /\ messages[i].guid # NoGuid /\ messages[i].guid = messages[k].guid => i = k

\* A message is filed under the id of a chat that a copy of it named, by the identity
\* or by the chat's row, though another process names and repairs chats meanwhile.
FiledUnderItsChat ==
    \A k \in Ids : messages[k].guid # NoGuid =>
        \E c \in ChatsOf[messages[k].guid] :
            \/ identities[c] = messages[k].chatId
            \/ messages[k].chatId # 0 /\ chats[messages[k].chatId].guid = c

\* An id that a client was given means the same chat or message ever after: no other
\* guid is stored under it by a collision of hashes, a rebuild of the identities or the
\* other process, and nothing is given a second id (the UNIQUE column, and the upserts
\* ON CONFLICT(id)).
IdsStayValid ==
    [][/\ \A g \in Guids : identities[g] # 0 => identities'[g] = identities[g]
       /\ \A i \in Ids :
             /\ chats[i].guid # NoGuid => chats'[i].guid = chats[i].guid
             /\ messages[i].guid # NoGuid => messages'[i].guid = messages[i].guid]_vars

\* Once open has returned, every stored message belongs to a chat the client
\* can list, also after operations were cut short (repair_orphan_chats, and
\* the stub apply_domain_message inserts before the message).
NoOrphanWhenServing ==
    pc["daemon"] = "idle" =>
        \A k \in Ids : messages[k].guid # NoGuid => chats[messages[k].chatId].guid # NoGuid

\* A live delivery that stores an inbound message nobody has stored before counts it in
\* the chat it names, in the same step, and nothing else counts: every statement is a
\* step of UnreadLedger or no step.
RowOf(c) == CHOOSE i \in Ids : chats[i].guid = c
Listed == {c \in Chats : \E i \in Ids : chats[i].guid = c}
Counts == [c \in Chats |-> IF c \in Listed THEN chats[RowOf(c)].rawUnread ELSE 0]
Known  == {m \in Msgs : \E k \in Ids : messages[k].guid = m}
InHand == IF job["daemon"].kind = "live" THEN {<<job["daemon"].msg, job["daemon"].chat>>} ELSE {}
Ledger == INSTANCE UnreadLedger WITH listed <- Listed, unread <- Counts, known <- Known,
                                     inHand <- InHand
LedgerSpec == Ledger!Spec

\* An operation under way ends: the id_for_guid loop finds a free id although
\* hashes collide and the other process inserts meanwhile.
OperationsEnd ==
    \A p \in Procs : pc[p] \notin {"idle", "down"} ~> pc[p] \in {"idle", "down"}
=============================================================================
