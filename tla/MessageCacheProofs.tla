------------------------- MODULE MessageCacheProofs -------------------------
(***************************************************************************)
(* For all chats, messages, hashes, listings and databases an earlier      *)
(* build may have left: the cache's ids are unique and stable, a guid has  *)
(* one row, and a message is filed under the id of a chat a copy of it     *)
(* named, whatever the two processes interleave and wherever they stop.    *)
(*                                                                         *)
(* The argument has two phases.  Until a process has rebuilt the           *)
(* identities, the only ids in the table are those of the earlier build,   *)
(* so a row that has no identity finds its own id free.  From the moment   *)
(* one process has rebuilt them every row is named by its identity, and    *)
(* the statements that add a row add it under the id that names it.        *)
(*                                                                         *)
(* Then: every message a client can be served has its chat's row, and the  *)
(* cache implements UnreadLedger.                                          *)
(***************************************************************************)
EXTENDS MessageCache, Integers, WellFoundedInduction, TLAPS

Lookup == {"select", "insert", "reselect", "max"}

\* Looking up the chat of an operation, and looking up its message.
WantsChat(j) == /\ j.want = j.chat /\ j.chat \in Chats
                /\ \/ j.after = "exists" /\ j.kind = "live"
                   \/ j.after = "upsert" /\ j.kind \in {"live", "chat", "open"}
                   \/ j.after = "want_msg" /\ j.kind = "message"
WantsMessage(j) == /\ j.want = j.msg /\ j.chatId # 0
                   /\ \/ j.after = "put" /\ j.kind = "message"
                      \/ j.after = "live" /\ j.kind = "live"

\* What the next statement of a process finds in its local variables.
JobFits(j, label) ==
    /\ j.kind \in {"live", "message"} => j.msg \in Msgs /\ j.chat \in ChatsOf[j.msg]
    /\ label \in {"rebuild_chats", "rebuild_messages", "find_orphans", "next_orphan"} =>
          j.kind = "open"
    /\ label \in Lookup => WantsChat(j) \/ WantsMessage(j)
    /\ label = "insert" => j.cand # 0
    /\ label = "exists" => j.kind = "live" /\ j.chatId # 0
    /\ label \in {"upsert", "name"} =>
          j.kind \in {"live", "chat", "open"} /\ j.chat \in Chats /\ j.chatId # 0
    /\ label = "put" => j.kind = "message" /\ j.chatId # 0 /\ j.msgId # 0
    /\ label = "live" => j.kind = "live" /\ j.chatId # 0 /\ j.msgId # 0
    /\ label = "unread" => j.kind = "read"
JobsFit == \A p \in Procs : JobFits(job[p], pc[p])

Legacy == LegacyChats \cup LegacyMsgs \cup LegacyNamed

\* No two guids share an id.
Distinct == \A g, h \in Guids : identities[g] # 0 /\ identities[g] = identities[h] => g = h

\* No identity was added to those the earlier build left.
OnlyOldIds == \A g \in Guids : identities[g] # 0 => g \in Legacy /\ identities[g] = LegacyId[g]

\* Every row of the table is named by its identity.
Named(rows) == \A i \in Ids : rows[i].guid # NoGuid => identities[rows[i].guid] = i
AllNamed == Named(chats) /\ Named(messages)

\* A row that is not named yet is one of the earlier build, under its old id.
NamedOrOld(rows, old) ==
    \A i \in Ids : rows[i].guid # NoGuid =>
        \/ identities[rows[i].guid] = i
        \/ identities[rows[i].guid] = 0 /\ rows[i].guid \in old /\ i = LegacyId[rows[i].guid]

\* The chat rows of the earlier build stay.
OldChatsKept == \A c \in LegacyChats : chats[LegacyId[c]].guid = c

\* FiledUnderItsChat, and where a message is filed whose chat is not named.
Stands(c, i) == \/ identities[c] # 0 /\ i = identities[c]
                \/ identities[c] = 0 /\ c \in LegacyChats /\ i = LegacyId[c]
Filed ==
    \A k \in Ids : messages[k].guid # NoGuid =>
        \E c \in ChatsOf[messages[k].guid] : Stands(c, messages[k].chatId)

TablesFit ==
    /\ Distinct
    /\ OnlyOldIds \/ AllNamed
    /\ NamedOrOld(chats, LegacyChats) /\ NamedOrOld(messages, LegacyMsgs)
    /\ OldChatsKept
    /\ Filed

\* The ids an operation carries are those of the table.
Agrees(ids, j) ==
    /\ j.chat # NoGuid /\ j.chatId # 0 => ids[j.chat] = j.chatId
    /\ j.msgId # 0 => j.msg \in Msgs /\ ids[j.msg] = j.msgId

\* How much is named where a process stands in its repairs.
InOrder(label) ==
    /\ label = "rebuild_messages" => Named(chats)
    /\ label \notin {"down", "rebuild_chats", "rebuild_messages"} => AllNamed

ProcsFit == \A p \in Procs : Agrees(identities, job[p]) /\ InOrder(pc[p])

-----------------------------------------------------------------------------

\* A step of one process keeps the types and the fit of the others' jobs.
LEMMA OneMoves ==
    ASSUME TypeOK, JobsFit, NEW p \in Procs, NEW j \in Job, NEW label \in PCs,
           JobFits(j, label),
           job' = [job EXCEPT ![p] = j], pc' = [pc EXCEPT ![p] = label]
    PROVE  pc' \in [Procs -> PCs] /\ job' \in [Procs -> Job] /\ JobsFit'
<1>1. \A q \in Procs : JobFits(job'[q], pc'[q])
  BY DEF TypeOK, JobsFit
<1>2. pc' \in [Procs -> PCs] /\ job' \in [Procs -> Job]
  BY DEF TypeOK
<1>3. QED
  BY <1>1, <1>2 DEF JobsFit

\* What is looked up next, and for which statement.
LEMMA Retarget ==
    ASSUME NEW j \in Job, NEW w \in Guids \cup {NoGuid},
           NEW a \in {"none", "exists", "upsert", "put", "live", "want_msg"}
    PROVE  [j EXCEPT !.want = w, !.after = a] \in Job
BY DEF Job

LEMMA NoJobFits == NoJob \in Job /\ \A label \in {"down", "idle"} : JobFits(NoJob, label)
BY GuidAssumption DEF NoJob, Job, JobFits, Dates, Lookup

\* id_for_guid hands the id to the statement that asked for it.
LEMMA FoundFits ==
    ASSUME TypeOK, JobsFit, NEW p \in Procs, pc[p] \in Lookup, NEW i \in Ids, Found(p, i)
    PROVE  pc' \in [Procs -> PCs] /\ job' \in [Procs -> Job] /\ JobsFit'
<1> DEFINE j == job[p]
           k == IF j.want = j.chat THEN [j EXCEPT !.chatId = i, !.cand = 0]
                                   ELSE [j EXCEPT !.msgId = i, !.cand = 0]
<1> USE GuidAssumption, IdAssumption
<1>0. j \in Job /\ i # 0
  BY DEF TypeOK, Ids
<1>1. /\ JobFits(j, pc[p])
      /\ WantsChat(j) \/ WantsMessage(j)
      /\ j.kind \in {"live", "message"} => j.msg \in Msgs /\ j.chat \in ChatsOf[j.msg]
  BY DEF JobsFit, JobFits
<1>2. k \in Job
  BY <1>0 DEF Job
<1>3. CASE j.after = "want_msg"
  <2> DEFINE n == [k EXCEPT !.want = j.msg, !.after = "put"]
  <2>1. WantsChat(j) /\ j.kind = "message"
    BY <1>1, <1>3 DEF WantsChat, WantsMessage
  <2>2. n \in Job
    <3>1. j.msg \in Guids
      BY <1>1, <2>1 DEF Guids
    <3>2. QED
      BY <1>2, <3>1, Retarget
  <2>3. JobFits(n, "select")
    <3>1. /\ n.kind = j.kind /\ n.msg = j.msg /\ n.chat = j.chat /\ n.chatId = i
          /\ n.want = j.msg /\ n.after = "put"
      BY <1>0, <2>1 DEF WantsChat, Job
    <3>2. WantsMessage(n)
      BY <1>0, <2>1, <3>1 DEF WantsMessage
    <3>3. QED
      BY <1>1, <3>1, <3>2 DEF JobFits, Lookup
  <2>4. job' = [job EXCEPT ![p] = n] /\ pc' = [pc EXCEPT ![p] = "select"]
    BY <1>3 DEF Found, Goto
  <2>5. QED
    BY <2>2, <2>3, <2>4, OneMoves DEF PCs
<1>4. CASE j.after # "want_msg"
  <2> DEFINE n == [k EXCEPT !.want = NoGuid, !.after = "none"]
  <2>1. n \in Job
    BY <1>2, Retarget
  <2>2. JobFits(n, j.after)
    <3>1. CASE WantsChat(j)
      <4>1. /\ n.kind = j.kind /\ n.msg = j.msg /\ n.chat = j.chat /\ n.chatId = i
        BY <1>0, <3>1 DEF WantsChat, Job
      <4>2. QED
        BY <3>1, <4>1, <1>0, <1>1, <1>4 DEF JobFits, WantsChat, Lookup
    <3>2. CASE WantsMessage(j)
      <4>1. j.want # j.chat
        BY <3>2, <1>1, <1>0 DEF WantsMessage
      <4>2. QED
        BY <4>1, <3>2, <1>0, <1>1, <1>4 DEF JobFits, WantsMessage, Lookup, Job
    <3>3. QED
      BY <3>1, <3>2, <1>1
  <2>3. job' = [job EXCEPT ![p] = n] /\ pc' = [pc EXCEPT ![p] = j.after]
    BY <1>4 DEF Found, Goto
  <2>4. j.after \in PCs
    BY <1>1, <1>4 DEF WantsChat, WantsMessage, PCs
  <2>5. QED
    BY <2>1, <2>2, <2>3, <2>4, OneMoves
<1>5. QED
  BY <1>3, <1>4

Typed == TypeOK /\ JobsFit

LEMMA InitTyped == Init => Typed
<1> SUFFICES ASSUME Init PROVE Typed
  OBVIOUS
<1> USE GuidAssumption, IdAssumption, LegacyAssumption
<1>1. identities \in [Guids -> Ids \cup {0}]
  BY DEF Init
<1>2. chats \in [Ids -> ChatRow]
  <2>1. ASSUME NEW i \in Ids, NEW c \in LegacyChats
        PROVE  [NoChatRow EXCEPT !.guid = c] \in ChatRow
    BY DEF NoChatRow, ChatRow, Dates
  <2>2. NoChatRow \in ChatRow
    BY DEF NoChatRow, ChatRow, Dates
  <2>3. QED
    BY <2>1, <2>2 DEF Init
<1>3. messages \in [Ids -> MessageRow]
  <2>1. ASSUME NEW m \in LegacyMsgs
        PROVE  [guid |-> m, chatId |-> LegacyId[LegacyChatOf[m]], at |-> Created[m]] \in MessageRow
    BY DEF MessageRow, Dates, Guids
  <2>2. NoMessageRow \in MessageRow
    BY DEF NoMessageRow, MessageRow, Dates
  <2>3. QED
    BY <2>1, <2>2 DEF Init
<1>4. pc \in [Procs -> PCs] /\ job \in [Procs -> Job] /\ JobsFit
  BY NoJobFits DEF Init, PCs, JobsFit
<1>5. QED
  BY <1>1, <1>2, <1>3, <1>4 DEF Typed, TypeOK

LEMMA StartTyped ==
    ASSUME Typed, NEW p \in Procs, NEW j \in Job, NEW label \in PCs, JobFits(j, label),
           Start(p, j, label)
    PROVE  Typed'
BY OneMoves DEF Start, Goto, tables, Typed, TypeOK

LEMMA ReturnTyped ==
    ASSUME Typed, NEW p \in Procs, Return(p)
    PROVE  pc' \in [Procs -> PCs] /\ job' \in [Procs -> Job] /\ JobsFit'
BY OneMoves, NoJobFits DEF Return, Goto, Typed, PCs

LEMMA RequestTyped ==
    ASSUME Typed, Request
    PROVE  Typed'
<1> USE GuidAssumption, IdAssumption
<1>0. "daemon" \in Procs /\ "select" \in PCs /\ "unread" \in PCs
  BY DEF Procs, PCs
<1>1. ASSUME NEW m \in Msgs, NEW c \in Chats, NEW at \in {0, Created[m]},
             ApplyDomainMessage(m, c, at)
      PROVE  Typed'
  <2> DEFINE j == [NoJob EXCEPT !.kind = "live", !.msg = m, !.chat = c,
                     !.at = at, !.want = c, !.after = "exists"]
  <2>1. j \in Job
    BY DEF NoJob, Job, Dates, Guids
  <2>2. JobFits(j, "select")
    BY <1>1 DEF ApplyDomainMessage, NoJob, JobFits, WantsChat, Lookup
  <2>3. QED
    BY <1>0, <1>1, <2>1, <2>2, StartTyped DEF ApplyDomainMessage
<1>2. ASSUME NEW m \in Msgs, NEW c \in Chats, NEW at \in {0, Created[m]},
             UpsertDomainMessage(m, c, at)
      PROVE  Typed'
  <2> DEFINE j == [NoJob EXCEPT !.kind = "message", !.msg = m, !.chat = c,
                     !.at = at, !.want = c, !.after = "want_msg"]
  <2>1. j \in Job
    BY DEF NoJob, Job, Dates, Guids
  <2>2. JobFits(j, "select")
    BY <1>2 DEF UpsertDomainMessage, NoJob, JobFits, WantsChat, Lookup
  <2>3. QED
    BY <1>0, <1>2, <2>1, <2>2, StartTyped DEF UpsertDomainMessage
<1>3. ASSUME NEW c \in Chats, NEW n \in ServerUnread, NEW t \in Dates, UpsertDomainChat(c, n, t)
      PROVE  Typed'
  <2> DEFINE j == [NoJob EXCEPT !.kind = "chat", !.chat = c, !.unread = n,
                     !.last = t, !.want = c, !.after = "upsert"]
  <2>1. j \in Job
    BY DEF NoJob, Job, Dates, Guids
  <2>2. JobFits(j, "select")
    BY DEF NoJob, JobFits, WantsChat, Lookup
  <2>3. QED
    BY <1>0, <1>3, <2>1, <2>2, StartTyped DEF UpsertDomainChat
<1>4. ASSUME NEW i \in Ids, ReadChat(i)
      PROVE  Typed'
  <2> DEFINE j == [NoJob EXCEPT !.kind = "read", !.chatId = i, !.last = chats[i].rawLast]
  <2>0. chats[i].rawLast \in Dates
    BY DEF Typed, TypeOK, ChatRow
  <2>1. j \in Job
    BY <2>0 DEF NoJob, Job, Dates
  <2>2. JobFits(j, "unread")
    BY DEF NoJob, JobFits, Lookup
  <2>3. QED
    BY <1>0, <1>4, <2>1, <2>2, StartTyped DEF ReadChat
<1>5. ASSUME NEW i \in Ids, RenameChat(i)
      PROVE  Typed'
  <2> DEFINE j == [NoJob EXCEPT !.kind = "chat", !.chat = chats[i].guid, !.chatId = i,
                     !.unread = chats[i].rawUnread, !.last = chats[i].rawLast]
  <2>0. chats[i].rawLast \in Dates /\ chats[i].rawUnread \in Nat /\ chats[i].guid \in Chats
    BY <1>5 DEF RenameChat, Typed, TypeOK, ChatRow
  <2>1. j \in Job
    BY <2>0 DEF NoJob, Job, Dates
  <2>2. JobFits(j, "upsert") /\ "upsert" \in PCs
    BY <2>0 DEF NoJob, JobFits, Lookup, Ids, PCs
  <2>3. QED
    BY <1>0, <1>5, <2>1, <2>2, StartTyped DEF RenameChat
<1>6. ASSUME NEW c \in Chats,
             NEW t \in {0} \cup {Created[m] : m \in {l \in Msgs : c \in ChatsOf[l]}}
      PROVE  t \in Dates
  BY DEF Dates
<1>7. QED
  BY <1>1, <1>2, <1>3, <1>4, <1>5, <1>6 DEF Request

LEMMA IdentitiesTyped ==
    ASSUME TypeOK, NEW g \in Guids, NEW i \in Ids, InsertIdentity(g, i)
    PROVE  identities' \in [Guids -> Ids \cup {0}]
BY DEF TypeOK, InsertIdentity

LEMMA RebuiltTyped ==
    ASSUME TypeOK, NEW rows
    PROVE  Rebuilt(rows) \in [Guids -> Ids \cup {0}]
BY DEF TypeOK, Rebuilt

\* The lookups of id_for_guid.
LEMMA LookupTyped ==
    ASSUME Typed, NEW p \in Procs,
           SelectIdentity(p) \/ TryInsertIdentity(p) \/ ReselectIdentity(p) \/ NextCandidate(p)
    PROVE  Typed'
<1> DEFINE j == job[p]
<1> USE GuidAssumption, IdAssumption DEF Typed
<1>0. j \in Job
  BY DEF TypeOK
<1>1. pc[p] \in Lookup
  BY DEF SelectIdentity, TryInsertIdentity, ReselectIdentity, NextCandidate, Lookup
<1>2. /\ JobFits(j, pc[p])
      /\ WantsChat(j) \/ WantsMessage(j)
      /\ j.kind \in {"live", "message"} => j.msg \in Msgs
  BY <1>1 DEF JobsFit, JobFits
<1>3. j.want \in Guids
  BY <1>2 DEF WantsChat, WantsMessage, Guids
<1>4. identities[j.want] \in Ids \cup {0} /\ StableId[j.want] \in Ids
  BY <1>3 DEF TypeOK
<1>5. ASSUME NEW i \in Ids \cup {0}, i # 0, Found(p, i)
      PROVE  pc' \in [Procs -> PCs] /\ job' \in [Procs -> Job] /\ JobsFit'
  BY <1>1, <1>5, FoundFits
<1>6. ASSUME NEW i \in Ids,
             job' = [job EXCEPT ![p].cand = i], pc' = [pc EXCEPT ![p] = "insert"]
      PROVE  pc' \in [Procs -> PCs] /\ job' \in [Procs -> Job] /\ JobsFit'
  <2> DEFINE n == [j EXCEPT !.cand = i]
  <2>1. n \in Job
    BY <1>0 DEF Job
  <2>2. /\ n.kind = j.kind /\ n.msg = j.msg /\ n.chat = j.chat /\ n.chatId = j.chatId
        /\ n.want = j.want /\ n.after = j.after /\ n.cand # 0
    BY <1>0 DEF Job, Ids
  <2>3. JobFits(n, "insert")
    BY <1>2, <2>2 DEF JobFits, Lookup, WantsChat, WantsMessage
  <2>4. job' = [job EXCEPT ![p] = n]
    BY <1>6
  <2>5. QED
    BY <1>6, <2>1, <2>3, <2>4, OneMoves DEF PCs
<1>7. ASSUME NEW label \in {"reselect", "max"}, Goto(p, label), UNCHANGED job
      PROVE  pc' \in [Procs -> PCs] /\ job' \in [Procs -> Job] /\ JobsFit'
  <2>1. JobFits(j, label)
    BY <1>2 DEF JobFits, Lookup
  <2>2. job' = [job EXCEPT ![p] = j]
    BY <1>7 DEF TypeOK
  <2>3. label \in PCs /\ pc' = [pc EXCEPT ![p] = label]
    BY <1>7 DEF Goto, PCs
  <2>4. QED
    BY <1>0, <2>1, <2>2, <2>3, OneMoves
<1>8. CASE SelectIdentity(p)
  <2>1. CASE identities[j.want] # 0
    BY <1>4, <1>5, <1>8, <2>1 DEF SelectIdentity, TypeOK, tables
  <2>2. CASE identities[j.want] = 0
    BY <1>4, <1>6, <1>8, <2>2 DEF SelectIdentity, TypeOK, tables, Goto
  <2>3. QED
    BY <2>1, <2>2
<1>9. CASE TryInsertIdentity(p)
  <2>1. j.cand \in Ids /\ j.cand # 0
    <3>1. j.cand # 0 /\ j.cand \in Ids \cup {0}
      BY <1>0, <1>2, <1>9 DEF TryInsertIdentity, JobFits, Job
    <3>2. QED
      BY <3>1
  <2>2. identities' \in [Guids -> Ids \cup {0}]
    BY <1>3, <1>9, <2>1, IdentitiesTyped DEF TryInsertIdentity
  <2>3. CASE Insertable(j.want, j.cand)
    BY <1>5, <1>9, <2>1, <2>2, <2>3 DEF TryInsertIdentity, TypeOK
  <2>4. CASE ~Insertable(j.want, j.cand)
    BY <1>7, <1>9, <2>2, <2>4 DEF TryInsertIdentity, TypeOK
  <2>5. QED
    BY <2>3, <2>4
<1>10. CASE ReselectIdentity(p)
  <2>1. CASE identities[j.want] # 0
    BY <1>4, <1>5, <1>10, <2>1 DEF ReselectIdentity, TypeOK, tables
  <2>2. CASE identities[j.want] = 0
    BY <1>7, <1>10, <2>2 DEF ReselectIdentity, TypeOK, tables
  <2>3. QED
    BY <2>1, <2>2
<1>11. CASE NextCandidate(p)
  <2>1. PICK top \in {identities[g] : g \in Guids} :
           job' = [job EXCEPT ![p].cand = Lesser(top + 1, MaxId)]
    BY <1>11 DEF NextCandidate
  <2>2. top \in Ids \cup {0}
    BY DEF TypeOK
  <2>3. Lesser(top + 1, MaxId) \in Ids
    BY <2>2 DEF Lesser, Ids
  <2>4. QED
    BY <1>6, <1>11, <2>1, <2>3 DEF NextCandidate, TypeOK, tables, Goto
<1>12. QED
  BY <1>8, <1>9, <1>10, <1>11

\* The rows the statements write.
LEMMA RowTypes ==
    /\ \A r \in ChatRow, c \in Chats, n \in Nat, t \in Dates : Upserted(r, c, n, t) \in ChatRow
    /\ \A r \in ChatRow, at \in Dates : \A new : Bumped(r, at, new) \in ChatRow
    /\ \A r \in MessageRow, m \in Msgs, i \in Ids \cup {0}, at \in Dates :
          Merged(r, m, i, at) \in MessageRow
<1>1. ASSUME NEW r \in ChatRow, NEW c \in Chats, NEW n \in Nat, NEW t \in Dates
      PROVE  Upserted(r, c, n, t) \in ChatRow
  BY DEF Upserted, ChatRow
<1>2. ASSUME NEW r \in ChatRow, NEW at \in Dates, NEW new
      PROVE  Bumped(r, at, new) \in ChatRow
  <2>1. r.rawUnread + (IF new THEN 1 ELSE 0) \in Nat
    BY DEF ChatRow
  <2>2. Later(r.rawLast, at) \in Dates
    BY DEF Later, ChatRow
  <2>3. QED
    BY <2>1, <2>2 DEF Bumped, ChatRow
<1>3. ASSUME NEW r \in MessageRow, NEW m \in Msgs, NEW i \in Ids \cup {0}, NEW at \in Dates
      PROVE  Merged(r, m, i, at) \in MessageRow
  BY DEF Merged, MessageRow
<1>4. QED
  BY <1>1, <1>2, <1>3

\* The statements that write a row of chats or messages, and the test for one.
LEMMA RowTyped ==
    ASSUME Typed, NEW p \in Procs,
           ChatExists(p) \/ UpsertChat(p) \/ NameChat(p) \/ PutMessage(p) \/ ApplyLive(p)
              \/ MarkRead(p)
    PROVE  Typed'
<1> DEFINE j == job[p]
<1> USE GuidAssumption, IdAssumption DEF Typed
<1>0. /\ j \in Job /\ JobFits(j, pc[p])
      /\ j.at \in Dates /\ j.last \in Dates /\ j.unread \in Nat
      /\ j.chatId \in Ids \cup {0} /\ j.msgId \in Ids \cup {0}
  BY DEF TypeOK, Job, JobsFit
<1>1. CASE ChatExists(p)
  <2>1. j.kind = "live" /\ j.msg \in Msgs /\ j.chat \in ChatsOf[j.msg] /\ j.chatId # 0
    BY <1>0, <1>1 DEF ChatExists, JobFits
  <2>2. j.msg \in Guids /\ j.chat \in Chats /\ j.chat \in Guids
    BY <2>1 DEF Guids
  <2>3. ASSUME NEW n \in Job, n.kind = "live", n.msg = j.msg, n.chat = j.chat,
               WantsChat(n) \/ WantsMessage(n),
               job' = [job EXCEPT ![p] = n]
        PROVE  Typed'
    <3>1. JobFits(n, "select")
      BY <2>1, <2>3 DEF JobFits, Lookup
    <3>2. "select" \in PCs /\ pc' = [pc EXCEPT ![p] = "select"]
      BY <1>1 DEF ChatExists, Goto, PCs
    <3>3. QED
      BY <1>1, <2>3, <3>1, <3>2, OneMoves DEF ChatExists, tables, TypeOK
  <2>4. CASE chats[j.chatId].guid # NoGuid
    <3> DEFINE n == [j EXCEPT !.want = j.msg, !.after = "live"]
    <3>1. n \in Job
      BY <1>0, <2>2, Retarget
    <3>2. n.kind = "live" /\ n.msg = j.msg /\ n.chat = j.chat /\ WantsMessage(n)
      BY <1>0, <2>1 DEF Job, WantsMessage
    <3>3. job' = [job EXCEPT ![p] = n]
      BY <1>1, <2>4 DEF ChatExists
    <3> HIDE DEF n
    <3>4. QED
      BY <2>3, <3>1, <3>2, <3>3
  <2>5. CASE chats[j.chatId].guid = NoGuid
    <3> DEFINE n == [j EXCEPT !.want = j.chat, !.after = "upsert", !.unread = 0, !.last = j.at]
    <3>1. n \in Job
      BY <1>0, <2>2 DEF Job
    <3>2. n.kind = "live" /\ n.msg = j.msg /\ n.chat = j.chat /\ WantsChat(n)
      BY <1>0, <2>1, <2>2 DEF Job, WantsChat
    <3>3. job' = [job EXCEPT ![p] = n]
      BY <1>1, <2>5 DEF ChatExists
    <3> HIDE DEF n
    <3>4. QED
      BY <2>3, <3>1, <3>2, <3>3
  <2>6. QED
    BY <2>4, <2>5
<1>2. CASE UpsertChat(p)
  <2>1. JobFits(j, "name") /\ j.chat \in Chats
    BY <1>0, <1>2 DEF UpsertChat, JobFits, Lookup
  <2>2. chats' \in [Ids -> ChatRow]
    BY <1>0, <1>2, <2>1, RowTypes DEF UpsertChat, TypeOK
  <2>3. "name" \in PCs /\ pc' = [pc EXCEPT ![p] = "name"] /\ job' = [job EXCEPT ![p] = j]
    BY <1>2 DEF UpsertChat, Goto, PCs, TypeOK
  <2>4. QED
    BY <1>0, <1>2, <2>1, <2>2, <2>3, OneMoves DEF UpsertChat, TypeOK
<1>3. CASE NameChat(p)
  <2>1. j.kind \in {"live", "chat", "open"} /\ j.chat \in Chats /\ j.chatId # 0
    BY <1>0, <1>3 DEF NameChat, JobFits
  <2>2. identities' \in [Guids -> Ids \cup {0}]
    BY <1>0, <1>3, <2>1, IdentitiesTyped DEF NameChat, Guids
  <2>3. pc' \in [Procs -> PCs] /\ job' \in [Procs -> Job] /\ JobsFit'
    <3>1. CASE j.kind = "live"
      <4> DEFINE n == [j EXCEPT !.want = j.msg, !.after = "live"]
      <4>1. j.msg \in Msgs /\ j.chat \in ChatsOf[j.msg] /\ j.msg \in Guids
        BY <1>0, <3>1 DEF JobFits, Guids
      <4>2. n \in Job
        BY <1>0, <4>1, Retarget
      <4>3. JobFits(n, "select")
        <5>1. /\ n.kind = j.kind /\ n.msg = j.msg /\ n.chat = j.chat /\ n.chatId = j.chatId
              /\ n.want = j.msg /\ n.after = "live"
          BY <1>0 DEF Job
        <5>2. QED
          BY <2>1, <3>1, <4>1, <5>1 DEF JobFits, Lookup, WantsMessage
      <4>4. job' = [job EXCEPT ![p] = n] /\ pc' = [pc EXCEPT ![p] = "select"] /\ "select" \in PCs
        BY <1>3, <3>1 DEF NameChat, Goto, PCs
      <4> HIDE DEF n
      <4>5. QED
        BY <4>2, <4>3, <4>4, OneMoves
    <3>2. CASE j.kind = "open"
      <4>1. JobFits(j, "next_orphan") /\ "next_orphan" \in PCs
        BY <3>2 DEF JobFits, Lookup, PCs
      <4>2. job' = [job EXCEPT ![p] = j] /\ pc' = [pc EXCEPT ![p] = "next_orphan"]
        BY <1>3, <3>2 DEF NameChat, Goto, TypeOK
      <4>3. QED
        BY <1>0, <4>1, <4>2, OneMoves
    <3>3. CASE j.kind = "chat"
      BY <1>3, <3>3, ReturnTyped DEF NameChat
    <3>4. QED
      BY <2>1, <3>1, <3>2, <3>3
  <2>4. QED
    BY <1>3, <2>2, <2>3 DEF NameChat, TypeOK
<1>4. CASE PutMessage(p)
  <2>1. j.msg \in Msgs
    BY <1>0, <1>4 DEF PutMessage, JobFits
  <2>2. messages' \in [Ids -> MessageRow]
    BY <1>0, <1>4, <2>1, RowTypes DEF PutMessage, TypeOK
  <2>3. QED
    BY <1>4, <2>2, ReturnTyped DEF PutMessage, TypeOK
<1>5. CASE ApplyLive(p)
  <2> DEFINE old == messages[j.msgId]
             new == Merged(old, j.msg, j.chatId, j.at)
             isNew == old.guid = NoGuid
  <2>1. j.msg \in Msgs /\ j.msgId \in Ids /\ j.chatId \in Ids
    <3>1. j.msg \in Msgs /\ j.msgId # 0 /\ j.chatId # 0
      BY <1>0, <1>5 DEF ApplyLive, JobFits
    <3>2. QED
      BY <1>0, <3>1
  <2>2. new \in MessageRow
    <3>1. old \in MessageRow
      BY <2>1 DEF TypeOK
    <3>2. QED
      BY <1>0, <2>1, <3>1, RowTypes
  <2>3. messages' \in [Ids -> MessageRow]
    BY <1>5, <2>2 DEF ApplyLive, TypeOK
  <2>4. new.at \in Dates /\ Bumped(chats[j.chatId], new.at, isNew /\ j.msg \notin FromMe) \in ChatRow
    <3>1. new.at \in Dates
      BY <2>2 DEF MessageRow
    <3>2. chats[j.chatId] \in ChatRow
      BY <2>1 DEF TypeOK
    <3> HIDE DEF new, isNew
    <3>3. QED
      BY <2>1, <3>1, <3>2, RowTypes
  <2>5. chats' \in [Ids -> ChatRow]
    <3>1. chats' = IF chats[j.chatId].guid = NoGuid THEN chats
                   ELSE [chats EXCEPT ![j.chatId] =
                           Bumped(@, new.at, isNew /\ j.msg \notin FromMe)]
      BY <1>5 DEF ApplyLive
    <3> HIDE DEF new, isNew
    <3>2. QED
      BY <2>4, <3>1 DEF TypeOK
  <2>6. QED
    BY <1>5, <2>3, <2>5, ReturnTyped DEF ApplyLive, TypeOK
<1>6. CASE MarkRead(p)
  <2>1. chats' = [chats EXCEPT ![j.chatId] =
                    [@ EXCEPT !.unread = 0, !.rawUnread = 0, !.rawLast = j.last]]
    BY <1>6 DEF MarkRead
  <2>2. ASSUME NEW r \in ChatRow
        PROVE  [r EXCEPT !.unread = 0, !.rawUnread = 0, !.rawLast = j.last] \in ChatRow
    BY <1>0 DEF ChatRow
  <2>3. chats' \in [Ids -> ChatRow]
    BY <2>1, <2>2 DEF TypeOK
  <2>4. QED
    BY <1>6, <2>3, ReturnTyped DEF MarkRead, TypeOK
<1>7. QED
  BY <1>1, <1>2, <1>3, <1>4, <1>5, <1>6

LEMMA RepairTyped ==
    ASSUME Typed, NEW p \in Procs,
           RebuildChats(p) \/ RebuildMessages(p) \/ FindOrphans(p) \/ RepairOrphan(p)
              \/ FinishOpen(p)
    PROVE  Typed'
<1> DEFINE j == job[p]
<1> USE GuidAssumption, IdAssumption DEF Typed
<1>0. j \in Job /\ JobFits(j, pc[p]) /\ job = [job EXCEPT ![p] = j]
  BY DEF TypeOK, JobsFit
<1>1. CASE RebuildChats(p)
  <2>1. JobFits(j, "rebuild_messages") /\ "rebuild_messages" \in PCs
    BY <1>0, <1>1 DEF RebuildChats, JobFits, Lookup, PCs
  <2>2. pc' = [pc EXCEPT ![p] = "rebuild_messages"] /\ job' = [job EXCEPT ![p] = j]
    BY <1>0, <1>1 DEF RebuildChats, Goto
  <2>3. QED
    BY <1>0, <1>1, <2>1, <2>2, OneMoves, RebuiltTyped DEF RebuildChats, TypeOK
<1>2. CASE RebuildMessages(p)
  <2>1. JobFits(j, "find_orphans") /\ "find_orphans" \in PCs
    BY <1>0, <1>2 DEF RebuildMessages, JobFits, Lookup, PCs
  <2>2. pc' = [pc EXCEPT ![p] = "find_orphans"] /\ job' = [job EXCEPT ![p] = j]
    BY <1>0, <1>2 DEF RebuildMessages, Goto
  <2>3. QED
    BY <1>0, <1>2, <2>1, <2>2, OneMoves, RebuiltTyped DEF RebuildMessages, TypeOK
<1>3. CASE FindOrphans(p)
  <2> DEFINE n == [j EXCEPT !.todo = Orphans]
  <2>1. Orphans \subseteq Orphan
    BY DEF Orphans
  <2>2. n \in Job
    BY <1>0, <2>1 DEF Job
  <2>3. JobFits(n, "next_orphan") /\ "next_orphan" \in PCs
    <3>1. j.kind = "open"
      BY <1>0, <1>3 DEF FindOrphans, JobFits
    <3>2. n.kind = j.kind
      BY <1>0 DEF Job
    <3> HIDE DEF n
    <3>3. QED
      BY <3>1, <3>2 DEF JobFits, Lookup, PCs
  <2>4. pc' = [pc EXCEPT ![p] = "next_orphan"] /\ job' = [job EXCEPT ![p] = n]
    BY <1>3 DEF FindOrphans, Goto
  <2> HIDE DEF n
  <2>5. QED
    BY <1>3, <2>2, <2>3, <2>4, OneMoves DEF FindOrphans, tables, TypeOK
<1>4. CASE RepairOrphan(p)
  <2> DEFINE next(o) == [j EXCEPT !.todo = j.todo \ {o}, !.chat = o.chat, !.chatId = 0,
                           !.unread = 0, !.last = o.last, !.want = o.chat, !.after = "upsert"]
  <2>1. PICK o \in j.todo : job' = [job EXCEPT ![p] = next(o)]
    BY <1>4 DEF RepairOrphan
  <2> DEFINE n == next(o)
  <2>2. j.todo \subseteq Orphan /\ o.chat \in Chats /\ o.chat \in Guids /\ o.last \in Dates
    BY <1>0 DEF Job, Orphan, Guids
  <2>3. n \in Job
    BY <1>0, <2>2 DEF Job
  <2>4. n.kind = j.kind /\ n.chat = o.chat /\ n.want = o.chat /\ n.after = "upsert"
    BY <1>0 DEF Job
  <2>5. j.kind = "open"
    BY <1>0, <1>4 DEF RepairOrphan, JobFits
  <2>6. JobFits(n, "select") /\ "select" \in PCs
    <3> HIDE DEF n
    <3>1. QED
      BY <2>2, <2>4, <2>5 DEF JobFits, Lookup, WantsChat, PCs
  <2>7. pc' = [pc EXCEPT ![p] = "select"] /\ job' = [job EXCEPT ![p] = n]
    <3>1. pc' = [pc EXCEPT ![p] = "select"]
      BY <1>4 DEF RepairOrphan, Goto
    <3>2. QED
      BY <2>1, <3>1
  <2> HIDE DEF n
  <2>8. QED
    BY <1>4, <2>3, <2>6, <2>7, OneMoves DEF RepairOrphan, tables, TypeOK
<1>5. CASE FinishOpen(p)
  BY <1>5, ReturnTyped DEF FinishOpen, tables, TypeOK
<1>6. QED
  BY <1>1, <1>2, <1>3, <1>4, <1>5

LEMMA StopTyped ==
    ASSUME Typed, NEW p \in Procs, Open(p) \/ Abandon(p) \/ Crash
    PROVE  Typed'
<1> USE GuidAssumption, IdAssumption DEF Typed
<1>1. CASE Open(p)
  <2> DEFINE j == [NoJob EXCEPT !.kind = "open"]
  <2>1. j \in Job
    BY DEF NoJob, Job, Dates
  <2>2. JobFits(j, "rebuild_chats") /\ "rebuild_chats" \in PCs
    BY DEF NoJob, JobFits, Lookup, PCs
  <2>3. QED
    BY <1>1, <2>1, <2>2, StartTyped DEF Open
<1>2. CASE Abandon(p)
  <2>1. PICK label \in {"down", "idle"} : pc' = [pc EXCEPT ![p] = label]
    BY <1>2 DEF Abandon, Goto
  <2>2. label \in PCs
    BY DEF PCs
  <2>3. QED
    BY <1>2, <2>1, <2>2, NoJobFits, OneMoves DEF Abandon, tables, TypeOK
<1>3. CASE Crash
  <2>1. "daemon" \in Procs /\ "down" \in PCs
    BY DEF Procs, PCs
  <2>2. QED
    BY <1>3, <2>1, NoJobFits, OneMoves DEF Crash, Goto, tables, TypeOK
<1>4. QED
  BY <1>1, <1>2, <1>3

\* Every operation finds in its local variables what its next statement needs,
\* whatever the other process and a crash did to the tables in between.
THEOREM JobsCorrect == Spec => []Typed
<1>1. Typed /\ [Next]_vars => Typed'
  <2> SUFFICES ASSUME Typed, [Next]_vars PROVE Typed'
    OBVIOUS
  <2>1. CASE Request
    BY <2>1, RequestTyped
  <2>2. ASSUME NEW p \in Procs, Open(p) \/ Statement(p) \/ Abandon(p) PROVE Typed'
    BY <2>2, StopTyped, LookupTyped, RowTyped, RepairTyped DEF Statement
  <2>3. CASE Crash
    BY <2>3, StopTyped DEF Procs
  <2>4. CASE UNCHANGED vars
    BY <2>4 DEF vars, Typed, TypeOK, JobsFit
  <2>5. QED
    BY <2>1, <2>2, <2>3, <2>4 DEF Next
<1>2. QED
  BY <1>1, InitTyped, PTL DEF Spec

\* The rows, the ids and the control state keep their types.
THEOREM CacheTypeCorrect == Spec => []TypeOK
<1>1. Typed => TypeOK
  BY DEF Typed
<1>2. QED
  BY <1>1, JobsCorrect, PTL

-----------------------------------------------------------------------------

LEMMA InitFits == Init => TablesFit /\ ProcsFit
<1> SUFFICES ASSUME Init PROVE TablesFit /\ ProcsFit
  OBVIOUS
<1> USE GuidAssumption, IdAssumption, LegacyAssumption
<1>1. \A g \in Guids : identities[g] = IF g \in LegacyNamed THEN LegacyId[g] ELSE 0
  BY DEF Init
<1>2. ASSUME NEW i \in Ids, chats[i].guid # NoGuid
      PROVE  chats[i].guid \in LegacyChats /\ LegacyId[chats[i].guid] = i
  BY <1>2 DEF Init, NoChatRow
<1>3. ASSUME NEW i \in Ids, messages[i].guid # NoGuid
      PROVE  /\ messages[i].guid \in LegacyMsgs /\ LegacyId[messages[i].guid] = i
             /\ messages[i].chatId = LegacyId[LegacyChatOf[messages[i].guid]]
  BY <1>3 DEF Init, NoMessageRow
<1>4. OldChatsKept
  <2> SUFFICES ASSUME NEW c \in LegacyChats PROVE chats[LegacyId[c]].guid = c
    BY DEF OldChatsKept
  <2>1. LegacyId[c] \in Ids /\ \A d \in LegacyChats : LegacyId[d] = LegacyId[c] => d = c
    BY DEF Guids
  <2>2. QED
    BY <2>1 DEF Init, NoChatRow
<1>5. OnlyOldIds /\ Distinct
  BY <1>1 DEF OnlyOldIds, Distinct, Legacy, Guids
<1>6. NamedOrOld(chats, LegacyChats) /\ NamedOrOld(messages, LegacyMsgs)
  BY <1>1, <1>2, <1>3 DEF NamedOrOld, Guids
<1>7. Filed
  <2> SUFFICES ASSUME NEW k \in Ids, messages[k].guid # NoGuid
               PROVE  \E c \in ChatsOf[messages[k].guid] : Stands(c, messages[k].chatId)
    BY DEF Filed
  <2> DEFINE c == LegacyChatOf[messages[k].guid]
  <2>1. /\ c \in ChatsOf[messages[k].guid] /\ c \in LegacyChats \cup LegacyNamed
        /\ c \in Guids /\ LegacyId[c] # 0 /\ messages[k].chatId = LegacyId[c]
    BY <1>3 DEF Guids, Ids
  <2>2. Stands(c, messages[k].chatId)
    BY <1>1, <2>1 DEF Stands
  <2>3. QED
    BY <2>1, <2>2
<1>8. ProcsFit
  BY DEF Init, ProcsFit, Agrees, InOrder, NoJob, Procs
<1>9. QED
  BY <1>4, <1>5, <1>6, <1>7, <1>8 DEF TablesFit

\* An id that a guid has is never changed.
IdsKept == \A g \in Guids : identities[g] # 0 => identities'[g] = identities[g]

\* A row keeps its guid.
GuidsKept == \A i \in Ids : chats[i].guid # NoGuid => chats'[i].guid = chats[i].guid

\* A message row is the one that was there, or is filed under the id of a chat it may name.
MessagesFiled ==
    \A k \in Ids : messages'[k].guid # NoGuid =>
        \/ messages'[k].guid = messages[k].guid /\ messages'[k].chatId = messages[k].chatId
        \/ /\ messages'[k].chatId # 0
           /\ \E c \in ChatsOf[messages'[k].guid] : messages'[k].chatId = identities'[c]

\* Once everything is named, the tables stay fit under steps that keep it so.
LEMMA NamedTables ==
    ASSUME Typed, Typed', TablesFit, AllNamed, IdsKept, GuidsKept, MessagesFiled,
           Distinct', AllNamed'
    PROVE  TablesFit'
<1> USE GuidAssumption, IdAssumption, LegacyAssumption
<1>1. NamedOrOld(chats, LegacyChats)' /\ NamedOrOld(messages, LegacyMsgs)'
  BY DEF AllNamed, Named, NamedOrOld
<1>2. ASSUME NEW c \in LegacyChats PROVE LegacyId[c] \in Ids
  BY DEF Guids
<1>3. OldChatsKept'
  BY <1>2 DEF TablesFit, OldChatsKept, GuidsKept, Guids
<1>4. ASSUME NEW c \in LegacyChats PROVE identities[c] = LegacyId[c] /\ identities[c] # 0
  <2>1. chats[LegacyId[c]].guid = c /\ LegacyId[c] \in Ids /\ c # NoGuid
    BY <1>2 DEF TablesFit, OldChatsKept, Guids
  <2>2. QED
    BY <2>1 DEF AllNamed, Named, Ids
<1>5. Filed'
  <2> SUFFICES ASSUME NEW k \in Ids, messages'[k].guid # NoGuid
               PROVE  \E c \in ChatsOf[messages'[k].guid] :
                         identities'[c] # 0 /\ messages'[k].chatId = identities'[c]
    BY DEF Filed, Stands
  <2>1. CASE messages'[k].guid = messages[k].guid /\ messages'[k].chatId = messages[k].chatId
    <3>1. PICK c \in ChatsOf[messages[k].guid] :
                 identities[c] # 0 /\ messages[k].chatId = identities[c]
      BY <1>4, <2>1 DEF TablesFit, Filed, Stands
    <3>2. c \in Guids
      BY <2>1 DEF Typed, TypeOK, MessageRow, Guids
    <3>3. QED
      BY <2>1, <3>1, <3>2 DEF IdsKept
  <2>2. CASE /\ messages'[k].chatId # 0
             /\ \E c \in ChatsOf[messages'[k].guid] : messages'[k].chatId = identities'[c]
    BY <2>2
  <2>3. QED
    BY <2>1, <2>2 DEF MessagesFiled
<1>6. QED
  BY <1>1, <1>3, <1>5 DEF TablesFit

\* A step of one process leaves the other in agreement with the tables.
LEMMA OneAgrees ==
    ASSUME Typed, ProcsFit, IdsKept,
           Named(chats) => Named(chats)', AllNamed => AllNamed',
           NEW p \in Procs, NEW j \in Job, NEW label \in PCs,
           job' = [job EXCEPT ![p] = j], pc' = [pc EXCEPT ![p] = label],
           Agrees(identities', j),
           label = "rebuild_messages" => Named(chats)',
           label \notin {"down", "rebuild_chats", "rebuild_messages"} => AllNamed'
    PROVE  ProcsFit'
<1> SUFFICES ASSUME NEW q \in Procs PROVE Agrees(identities', job'[q]) /\ InOrder(pc[q])'
  BY DEF ProcsFit
<1>1. CASE q = p
  BY <1>1 DEF Typed, TypeOK, InOrder
<1>2. CASE q # p
  <2>1. job'[q] = job[q] /\ pc'[q] = pc[q] /\ Agrees(identities, job[q]) /\ InOrder(pc[q])
    BY <1>2 DEF Typed, TypeOK, ProcsFit
  <2>2. InOrder(pc[q])'
    BY <2>1 DEF InOrder
  <2>3. Agrees(identities', job[q])
    <3>1. job[q].chat \in Chats \cup {NoGuid} /\ job[q].msg \in Msgs \cup {NoGuid}
      BY DEF Typed, TypeOK, Job
    <3>2. QED
      BY <2>1, <3>1, GuidAssumption DEF Agrees, IdsKept, Guids
  <2>4. QED
    BY <2>1, <2>2, <2>3
<1>3. QED
  BY <1>1, <1>2

\* With the tables as they were, only the process that moves is looked at.
LEMMA QuietTables ==
    ASSUME Typed, TablesFit, ProcsFit, UNCHANGED tables,
           NEW p \in Procs, NEW j \in Job, NEW label \in PCs,
           job' = [job EXCEPT ![p] = j], pc' = [pc EXCEPT ![p] = label],
           Agrees(identities, j),
           label = "rebuild_messages" => Named(chats),
           label \notin {"down", "rebuild_chats", "rebuild_messages"} => AllNamed
    PROVE  TablesFit' /\ ProcsFit'
<1>1. TablesFit'
  BY DEF tables, TablesFit, Distinct, OnlyOldIds, AllNamed, Named, NamedOrOld, OldChatsKept, Filed,
         Stands
<1>2. IdsKept /\ (Named(chats) <=> Named(chats)') /\ (AllNamed <=> AllNamed')
  BY DEF tables, IdsKept, AllNamed, Named
<1>3. Agrees(identities', j)
  BY DEF tables
<1>4. QED
  BY <1>1, <1>2, <1>3, OneAgrees

LEMMA NoJobAgrees == ASSUME NEW ids PROVE Agrees(ids, NoJob)
BY DEF Agrees, NoJob

\* An operation starts without ids it could disagree about.
LEMMA StartFits ==
    ASSUME Typed, TablesFit, ProcsFit, NEW p \in Procs, NEW j \in Job,
           NEW label \in {"select", "unread", "rebuild_chats"},
           label # "rebuild_chats" => pc[p] = "idle",
           j.chat = NoGuid \/ j.chatId = 0, j.msgId = 0,
           Start(p, j, label)
    PROVE  TablesFit' /\ ProcsFit'
<1>1. label \in PCs
  BY DEF PCs
<1>2. label # "rebuild_chats" => AllNamed
  BY DEF ProcsFit, InOrder
<1>3. Agrees(identities, j)
  BY DEF Agrees
<1>4. job' = [job EXCEPT ![p] = j] /\ pc' = [pc EXCEPT ![p] = label] /\ UNCHANGED tables
  BY DEF Start, Goto
<1>5. QED
  BY <1>1, <1>2, <1>3, <1>4, QuietTables

LEMMA RequestFits ==
    ASSUME Typed, TablesFit, ProcsFit, Request
    PROVE  TablesFit' /\ ProcsFit'
<1> USE GuidAssumption, IdAssumption
<1>0. "daemon" \in Procs
  BY DEF Procs
<1>1. ASSUME NEW m \in Msgs, NEW c \in Chats, NEW at \in {0, Created[m]},
             ApplyDomainMessage(m, c, at)
      PROVE  TablesFit' /\ ProcsFit'
  <2> DEFINE j == [NoJob EXCEPT !.kind = "live", !.msg = m, !.chat = c,
                     !.at = at, !.want = c, !.after = "exists"]
  <2>1. j \in Job /\ j.chatId = 0 /\ j.msgId = 0
    BY DEF NoJob, Job, Dates, Guids
  <2>2. Start("daemon", j, "select") /\ pc["daemon"] = "idle"
    BY <1>1 DEF ApplyDomainMessage
  <2> HIDE DEF j
  <2>3. QED
    BY <1>0, <2>1, <2>2, StartFits
<1>2. ASSUME NEW m \in Msgs, NEW c \in Chats, NEW at \in {0, Created[m]},
             UpsertDomainMessage(m, c, at)
      PROVE  TablesFit' /\ ProcsFit'
  <2> DEFINE j == [NoJob EXCEPT !.kind = "message", !.msg = m, !.chat = c,
                     !.at = at, !.want = c, !.after = "want_msg"]
  <2>1. j \in Job /\ j.chatId = 0 /\ j.msgId = 0
    BY DEF NoJob, Job, Dates, Guids
  <2>2. Start("daemon", j, "select") /\ pc["daemon"] = "idle"
    BY <1>2 DEF UpsertDomainMessage
  <2> HIDE DEF j
  <2>3. QED
    BY <1>0, <2>1, <2>2, StartFits
<1>3. ASSUME NEW c \in Chats, NEW n \in ServerUnread, NEW t \in Dates, UpsertDomainChat(c, n, t)
      PROVE  TablesFit' /\ ProcsFit'
  <2> DEFINE j == [NoJob EXCEPT !.kind = "chat", !.chat = c, !.unread = n,
                     !.last = t, !.want = c, !.after = "upsert"]
  <2>1. j \in Job /\ j.chatId = 0 /\ j.msgId = 0
    BY DEF NoJob, Job, Dates, Guids
  <2>2. Start("daemon", j, "select") /\ pc["daemon"] = "idle"
    BY <1>3 DEF UpsertDomainChat
  <2> HIDE DEF j
  <2>3. QED
    BY <1>0, <2>1, <2>2, StartFits
<1>4. ASSUME NEW i \in Ids, ReadChat(i)
      PROVE  TablesFit' /\ ProcsFit'
  <2> DEFINE j == [NoJob EXCEPT !.kind = "read", !.chatId = i, !.last = chats[i].rawLast]
  <2>0. chats[i].rawLast \in Dates
    BY DEF Typed, TypeOK, ChatRow
  <2>1. j \in Job /\ j.chat = NoGuid /\ j.msgId = 0
    BY <2>0 DEF NoJob, Job, Dates
  <2>2. Start("daemon", j, "unread") /\ pc["daemon"] = "idle"
    BY <1>4 DEF ReadChat
  <2> HIDE DEF j
  <2>3. QED
    BY <1>0, <2>1, <2>2, StartFits
<1>5. ASSUME NEW i \in Ids, RenameChat(i)
      PROVE  TablesFit' /\ ProcsFit'
  <2> DEFINE j == [NoJob EXCEPT !.kind = "chat", !.chat = chats[i].guid, !.chatId = i,
                     !.unread = chats[i].rawUnread, !.last = chats[i].rawLast]
  <2>0. chats[i].rawLast \in Dates /\ chats[i].rawUnread \in Nat /\ chats[i].guid \in Chats
    BY <1>5 DEF RenameChat, Typed, TypeOK, ChatRow
  <2>1. j \in Job /\ j.chat = chats[i].guid /\ j.chatId = i /\ j.msgId = 0
    BY <2>0 DEF NoJob, Job, Dates
  <2>2. AllNamed
    BY <1>0, <1>5 DEF RenameChat, ProcsFit, InOrder
  <2>3. Agrees(identities, j)
    BY <2>0, <2>1, <2>2 DEF Agrees, AllNamed, Named
  <2>4. Start("daemon", j, "upsert")
    BY <1>5 DEF RenameChat
  <2> HIDE DEF j
  <2>5. job' = [job EXCEPT !["daemon"] = j] /\ pc' = [pc EXCEPT !["daemon"] = "upsert"]
        /\ UNCHANGED tables /\ "upsert" \in PCs
    BY <2>4 DEF Start, Goto, PCs
  <2>6. QED
    BY <1>0, <2>1, <2>2, <2>3, <2>5, QuietTables
<1>6. ASSUME NEW c \in Chats,
             NEW t \in {0} \cup {Created[m] : m \in {l \in Msgs : c \in ChatsOf[l]}}
      PROVE  t \in Dates
  BY DEF Dates
<1>7. QED
  BY <1>1, <1>2, <1>3, <1>4, <1>5, <1>6 DEF Request

LEMMA FoundAgrees ==
    ASSUME Typed, Typed', ProcsFit, IdsKept, AllNamed, AllNamed',
           NEW p \in Procs, pc[p] \in Lookup,
           NEW i \in Ids, identities'[job[p].want] = i, Found(p, i)
    PROVE  ProcsFit'
<1> DEFINE j == job[p]
           k == IF j.want = j.chat THEN [j EXCEPT !.chatId = i, !.cand = 0]
                                   ELSE [j EXCEPT !.msgId = i, !.cand = 0]
           n == IF j.after = "want_msg" THEN [k EXCEPT !.want = j.msg, !.after = "put"]
                                        ELSE [k EXCEPT !.want = NoGuid, !.after = "none"]
           label == IF j.after = "want_msg" THEN "select" ELSE j.after
<1> USE GuidAssumption, IdAssumption
<1>1. /\ j \in Job /\ i # 0
      /\ WantsChat(j) \/ WantsMessage(j)
      /\ j.kind \in {"live", "message"} => j.msg \in Msgs /\ j.chat \in ChatsOf[j.msg]
  BY DEF Typed, TypeOK, JobsFit, JobFits, Ids
<1>2. job' = [job EXCEPT ![p] = n] /\ pc' = [pc EXCEPT ![p] = label]
  <2>1. CASE j.after = "want_msg"
    BY <2>1 DEF Found, Goto
  <2>2. CASE j.after # "want_msg"
    BY <2>2 DEF Found, Goto
  <2>3. QED
    BY <2>1, <2>2
<1>3. n = job'[p] /\ label = pc'[p]
  BY <1>2 DEF Typed, TypeOK
<1>4. n \in Job /\ label \in PCs
  BY <1>3 DEF Typed, TypeOK
<1>5. label # "rebuild_messages"
  BY <1>1 DEF WantsChat, WantsMessage
<1>6. Agrees(identities, j)
  BY DEF ProcsFit
<1>7. j.chat \in Guids \cup {NoGuid} /\ j.msg \in Msgs \cup {NoGuid}
  BY <1>1 DEF Job, Guids
<1>8. Agrees(identities', n)
  <2>1. CASE j.want = j.chat
    <3>1. n.chat = j.chat /\ n.msg = j.msg /\ n.chatId = i /\ n.msgId = j.msgId
      BY <1>1, <2>1 DEF Job
    <3> HIDE DEF n
    <3>2. QED
      BY <1>1, <1>6, <1>7, <2>1, <3>1 DEF Agrees, IdsKept, Guids
  <2>2. CASE j.want # j.chat
    <3>1. n.chat = j.chat /\ n.msg = j.msg /\ n.chatId = j.chatId /\ n.msgId = i
      BY <1>1, <2>2 DEF Job
    <3>2. j.want = j.msg /\ j.msg \in Msgs
      BY <1>1, <2>2 DEF WantsChat, WantsMessage
    <3> HIDE DEF n
    <3>3. QED
      BY <1>1, <1>6, <1>7, <3>1, <3>2 DEF Agrees, IdsKept, Guids
  <2>3. QED
    BY <2>1, <2>2
<1>9. QED
  <2> HIDE DEF n, label
  <2>1. QED
    BY <1>2, <1>4, <1>5, <1>8, OneAgrees DEF AllNamed

\* A new identity for a guid that is looked up: no row is unnamed any more, so
\* none of the earlier build's ids is still to come.
LEMMA InsertFits ==
    ASSUME Typed, Typed', TablesFit, AllNamed,
           NEW g \in Guids, NEW i \in Ids, InsertIdentity(g, i), UNCHANGED <<chats, messages>>
    PROVE  TablesFit' /\ IdsKept /\ AllNamed' /\ (Insertable(g, i) => identities'[g] = i)
<1> USE GuidAssumption, IdAssumption
<1>1. IdsKept /\ (Insertable(g, i) => identities'[g] = i)
  BY DEF IdsKept, InsertIdentity, Insertable, Typed, TypeOK
<1>2. Distinct'
  BY DEF Distinct, TablesFit, InsertIdentity, Insertable, Typed, TypeOK, Ids
<1>3. AllNamed'
  <2>1. ASSUME NEW k \in Ids
        PROVE  chats[k].guid \in Guids \cup {NoGuid} /\ messages[k].guid \in Guids \cup {NoGuid}
               /\ k # 0
    BY DEF Typed, TypeOK, ChatRow, MessageRow, Guids, Ids
  <2>2. QED
    BY <1>1, <2>1 DEF AllNamed, Named, IdsKept
<1>4. GuidsKept /\ MessagesFiled
  BY DEF GuidsKept, MessagesFiled
<1>5. QED
  BY <1>1, <1>2, <1>3, <1>4, NamedTables

LEMMA LookupFits ==
    ASSUME Typed, Typed', TablesFit, ProcsFit, NEW p \in Procs,
           SelectIdentity(p) \/ TryInsertIdentity(p) \/ ReselectIdentity(p) \/ NextCandidate(p)
    PROVE  TablesFit' /\ ProcsFit'
<1> DEFINE j == job[p]
<1> USE GuidAssumption, IdAssumption
<1>1. pc[p] \in Lookup
  BY DEF SelectIdentity, TryInsertIdentity, ReselectIdentity, NextCandidate, Lookup
<1>2. AllNamed /\ Agrees(identities, j)
  BY <1>1 DEF ProcsFit, InOrder, Lookup
<1>3. j \in Job /\ JobFits(j, pc[p])
  BY DEF Typed, TypeOK, JobsFit
<1>4. j.want \in Guids /\ identities[j.want] \in Ids \cup {0}
  <2>1. j.want \in Guids
    BY <1>1, <1>3 DEF JobFits, WantsChat, WantsMessage, Guids
  <2>2. QED
    BY <2>1 DEF Typed, TypeOK
<1>5. ASSUME UNCHANGED tables
      PROVE  TablesFit' /\ IdsKept /\ AllNamed'
  BY <1>2, <1>5 DEF tables, TablesFit, Distinct, OnlyOldIds, AllNamed, Named, NamedOrOld,
                    OldChatsKept, Filed, Stands, IdsKept
<1>6. ASSUME UNCHANGED tables, identities[j.want] # 0, Found(p, identities[j.want])
      PROVE  TablesFit' /\ ProcsFit'
  <2>1. identities'[j.want] = identities[j.want] /\ identities[j.want] \in Ids
    BY <1>4, <1>6 DEF tables
  <2>2. QED
    BY <1>1, <1>2, <1>5, <1>6, <2>1, FoundAgrees
<1>7. ASSUME UNCHANGED tables, NEW i \in Ids, NEW label \in {"insert", "reselect", "max"},
             job' = [job EXCEPT ![p].cand = i] \/ UNCHANGED job, Goto(p, label)
      PROVE  TablesFit' /\ ProcsFit'
  <2>1. PICK n \in Job : /\ n.chat = j.chat /\ n.msg = j.msg /\ n.chatId = j.chatId
                         /\ n.msgId = j.msgId /\ job' = [job EXCEPT ![p] = n]
    <3>1. CASE job' = [job EXCEPT ![p].cand = i]
      <4> DEFINE n == [j EXCEPT !.cand = i]
      <4>1. n \in Job /\ n.chat = j.chat /\ n.msg = j.msg /\ n.chatId = j.chatId
            /\ n.msgId = j.msgId
        BY <1>3 DEF Job
      <4>2. QED
        BY <3>1, <4>1
    <3>2. CASE UNCHANGED job
      BY <1>3, <3>2 DEF Typed, TypeOK
    <3>3. QED
      BY <1>7, <3>1, <3>2
  <2>2. label \in PCs
    BY DEF PCs
  <2>3. Agrees(identities, n)
    BY <1>2, <2>1 DEF Agrees
  <2>4. QED
    BY <1>2, <1>7, <2>1, <2>2, <2>3, QuietTables DEF Goto
<1>8. CASE SelectIdentity(p)
  <2>1. StableId[j.want] \in Ids
    BY <1>4
  <2>2. QED
    BY <1>6, <1>7, <1>8, <2>1 DEF SelectIdentity
<1>9. CASE TryInsertIdentity(p)
  <2>1. j.cand \in Ids
    <3>1. j.cand # 0 /\ j.cand \in Ids \cup {0}
      BY <1>3, <1>9 DEF TryInsertIdentity, JobFits, Job
    <3>2. QED
      BY <3>1
  <2>2. /\ TablesFit' /\ IdsKept /\ AllNamed'
        /\ Insertable(j.want, j.cand) => identities'[j.want] = j.cand
    BY <1>2, <1>4, <1>9, <2>1, InsertFits DEF TryInsertIdentity
  <2>3. CASE Insertable(j.want, j.cand)
    BY <1>1, <1>2, <1>9, <2>1, <2>2, <2>3, FoundAgrees DEF TryInsertIdentity
  <2>4. CASE ~Insertable(j.want, j.cand)
    BY <1>7, <1>9, <2>1, <2>4 DEF TryInsertIdentity, InsertIdentity, tables
  <2>5. QED
    BY <2>3, <2>4
<1>10. CASE ReselectIdentity(p)
  <2>1. 1 \in Ids
    BY DEF Ids
  <2>2. QED
    BY <1>6, <1>7, <1>10, <2>1 DEF ReselectIdentity
<1>11. CASE NextCandidate(p)
  <2>1. PICK top \in {identities[g] : g \in Guids} :
           job' = [job EXCEPT ![p].cand = Lesser(top + 1, MaxId)]
    BY <1>11 DEF NextCandidate
  <2>2. top \in Ids \cup {0}
    BY DEF Typed, TypeOK
  <2>3. Lesser(top + 1, MaxId) \in Ids
    BY <2>2 DEF Lesser, Ids
  <2>4. QED
    BY <1>7, <1>11, <2>1, <2>3 DEF NextCandidate
<1>12. QED
  BY <1>8, <1>9, <1>10, <1>11

\* A statement that writes rows under the ids that name them.
LEMMA WriteFits ==
    ASSUME Typed, Typed', TablesFit, ProcsFit, AllNamed, UNCHANGED identities,
           GuidsKept, MessagesFiled, AllNamed',
           NEW p \in Procs, NEW j \in Job, NEW label \in PCs,
           job' = [job EXCEPT ![p] = j], pc' = [pc EXCEPT ![p] = label],
           label # "rebuild_messages", Agrees(identities, j)
    PROVE  TablesFit' /\ ProcsFit'
<1>1. IdsKept /\ Distinct'
  BY DEF IdsKept, TablesFit, Distinct
<1>2. TablesFit'
  BY <1>1, NamedTables
<1>3. Agrees(identities', j)
  OBVIOUS
<1>4. QED
  BY <1>1, <1>2, <1>3, OneAgrees DEF AllNamed

LEMMA ReturnMoves ==
    ASSUME NEW p \in Procs, Return(p)
    PROVE  \E label \in {"idle", "down"} :
              job' = [job EXCEPT ![p] = NoJob] /\ pc' = [pc EXCEPT ![p] = label]
BY DEF Return, Goto

LEMMA RowFits ==
    ASSUME Typed, Typed', TablesFit, ProcsFit, NEW p \in Procs,
           ChatExists(p) \/ UpsertChat(p) \/ NameChat(p) \/ PutMessage(p) \/ ApplyLive(p)
              \/ MarkRead(p)
    PROVE  TablesFit' /\ ProcsFit'
<1> DEFINE j == job[p]
<1> USE GuidAssumption, IdAssumption
<1>0. /\ j \in Job /\ JobFits(j, pc[p]) /\ job = [job EXCEPT ![p] = j]
      /\ Agrees(identities, j) /\ AllNamed
  <2>1. j \in Job /\ JobFits(j, pc[p]) /\ job = [job EXCEPT ![p] = j]
    BY DEF Typed, TypeOK, JobsFit
  <2>2. Agrees(identities, j) /\ InOrder(pc[p])
    BY DEF ProcsFit
  <2>3. pc[p] \in {"exists", "upsert", "name", "put", "live", "unread"}
    BY DEF ChatExists, UpsertChat, NameChat, PutMessage, ApplyLive, MarkRead
  <2>4. QED
    BY <2>1, <2>2, <2>3 DEF InOrder
<1>1. j.chatId \in Ids \cup {0} /\ j.msgId \in Ids \cup {0} /\ j.chat \in Chats \cup {NoGuid}
  BY <1>0 DEF Job
<1>2. ASSUME NEW n \in Job, n.chat = j.chat, n.msg = j.msg, n.chatId = j.chatId, n.msgId = j.msgId
      PROVE  Agrees(identities, n)
  BY <1>0, <1>2 DEF Agrees
<1>3. ASSUME Return(p), UNCHANGED identities, GuidsKept, MessagesFiled, AllNamed'
      PROVE  TablesFit' /\ ProcsFit'
  <2>1. PICK label \in {"idle", "down"} :
           job' = [job EXCEPT ![p] = NoJob] /\ pc' = [pc EXCEPT ![p] = label]
    BY <1>3, ReturnMoves
  <2>2. label \in PCs
    BY DEF PCs
  <2>3. QED
    BY <1>0, <1>3, <2>1, <2>2, NoJobFits, NoJobAgrees, WriteFits
<1>4. ASSUME UNCHANGED tables
      PROVE  GuidsKept /\ MessagesFiled /\ AllNamed' /\ UNCHANGED identities
  BY <1>0, <1>4 DEF tables, GuidsKept, MessagesFiled, AllNamed, Named
<1>5. CASE ChatExists(p)
  <2> DEFINE n == IF chats[j.chatId].guid # NoGuid
                  THEN [j EXCEPT !.want = j.msg, !.after = "live"]
                  ELSE [j EXCEPT !.want = j.chat, !.after = "upsert", !.unread = 0, !.last = j.at]
  <2>1. job' = [job EXCEPT ![p] = n] /\ pc' = [pc EXCEPT ![p] = "select"] /\ "select" \in PCs
    BY <1>5 DEF ChatExists, Goto, PCs
  <2>2. n = job'[p]
    BY <2>1 DEF Typed, TypeOK
  <2>3. n \in Job
    BY <2>2 DEF Typed, TypeOK
  <2>4. n.chat = j.chat /\ n.msg = j.msg /\ n.chatId = j.chatId /\ n.msgId = j.msgId
    BY <1>0 DEF Job
  <2> HIDE DEF n
  <2>5. QED
    BY <1>0, <1>2, <1>5, <2>1, <2>3, <2>4, QuietTables DEF ChatExists
<1>6. CASE UpsertChat(p)
  <2>1. j.chatId \in Ids /\ j.chatId # 0 /\ j.chat \in Chats /\ identities[j.chat] = j.chatId
    <3>1. j.chatId # 0 /\ j.chat \in Chats
      BY <1>0, <1>6 DEF UpsertChat, JobFits
    <3>2. QED
      BY <1>0, <1>1, <3>1 DEF Agrees, Guids
  <2>2. \A i \in Ids : chats'[i] = IF i = j.chatId
                                   THEN Upserted(chats[i], j.chat, j.unread, j.last) ELSE chats[i]
    BY <1>6, <2>1 DEF UpsertChat, Typed, TypeOK
  <2>3. ASSUME NEW r \in ChatRow
        PROVE  Upserted(r, j.chat, j.unread, j.last).guid
                  = IF r.guid = NoGuid THEN j.chat ELSE r.guid
    BY DEF Upserted, ChatRow
  <2>4. \A i \in Ids : chats'[i].guid = IF i = j.chatId /\ chats[i].guid = NoGuid
                                        THEN j.chat ELSE chats[i].guid
    BY <2>2, <2>3 DEF Typed, TypeOK
  <2>5. GuidsKept /\ MessagesFiled /\ AllNamed' /\ UNCHANGED identities
    BY <1>0, <1>6, <2>1, <2>4 DEF UpsertChat, GuidsKept, MessagesFiled, AllNamed, Named
  <2>6. "name" \in PCs /\ pc' = [pc EXCEPT ![p] = "name"] /\ job' = [job EXCEPT ![p] = j]
    BY <1>0, <1>6 DEF UpsertChat, Goto, PCs
  <2>7. QED
    BY <1>0, <2>5, <2>6, WriteFits
<1>7. CASE NameChat(p)
  <2>1. j.kind \in {"live", "chat", "open"} /\ identities[j.chat] # 0
    <3>1. j.kind \in {"live", "chat", "open"} /\ j.chatId # 0 /\ j.chat \in Chats
      BY <1>0, <1>7 DEF NameChat, JobFits
    <3>2. QED
      BY <1>0, <3>1 DEF Agrees, Guids
  <2>2. UNCHANGED tables
    BY <1>7, <2>1 DEF NameChat, InsertIdentity, Insertable, tables
  <2>3. CASE j.kind = "live"
    <3> DEFINE n == [j EXCEPT !.want = j.msg, !.after = "live"]
    <3>1. job' = [job EXCEPT ![p] = n] /\ pc' = [pc EXCEPT ![p] = "select"] /\ "select" \in PCs
      BY <1>7, <2>3 DEF NameChat, Goto, PCs
    <3>2. n = job'[p]
      BY <3>1 DEF Typed, TypeOK
    <3>3. n \in Job
      BY <3>2 DEF Typed, TypeOK
    <3>4. n.chat = j.chat /\ n.msg = j.msg /\ n.chatId = j.chatId /\ n.msgId = j.msgId
      BY <1>0 DEF Job
    <3> HIDE DEF n
    <3>5. QED
      BY <1>0, <1>2, <2>2, <3>1, <3>3, <3>4, QuietTables
  <2>4. CASE j.kind = "open"
    <3>1. pc' = [pc EXCEPT ![p] = "next_orphan"] /\ job' = [job EXCEPT ![p] = j]
          /\ "next_orphan" \in PCs
      BY <1>0, <1>7, <2>4 DEF NameChat, Goto, PCs
    <3>2. QED
      BY <1>0, <2>2, <3>1, QuietTables
  <2>5. CASE j.kind = "chat"
    BY <1>3, <1>4, <1>7, <2>2, <2>5 DEF NameChat
  <2>6. QED
    BY <2>1, <2>3, <2>4, <2>5
<1>8. ASSUME NEW row, PutMessage(p) \/ ApplyLive(p),
             messages' = [messages EXCEPT ![j.msgId] = row],
             row.guid = j.msg, row.chatId = j.chatId
      PROVE  /\ UNCHANGED identities => MessagesFiled
             /\ UNCHANGED identities => Named(messages)'
  <2>1. j.msg \in Msgs /\ j.chat \in ChatsOf[j.msg] /\ j.msgId # 0 /\ j.chatId # 0
    BY <1>0, <1>8 DEF PutMessage, ApplyLive, JobFits
  <2>2. identities[j.msg] = j.msgId /\ identities[j.chat] = j.chatId /\ j.msgId \in Ids
    BY <1>0, <1>1, <2>1 DEF Agrees, Guids
  <2>3. \A k \in Ids : messages'[k] = IF k = j.msgId THEN row ELSE messages[k]
    BY <1>8 DEF Typed, TypeOK
  <2>4. QED
    BY <1>0, <1>8, <2>1, <2>2, <2>3 DEF MessagesFiled, AllNamed, Named
<1>9. ASSUME NEW r, NEW at PROVE Merged(r, j.msg, j.chatId, at).guid = j.msg
                                 /\ Merged(r, j.msg, j.chatId, at).chatId = j.chatId
  BY DEF Merged
<1>10. ASSUME \A i \in Ids : chats'[i].guid = chats[i].guid, UNCHANGED identities
       PROVE  GuidsKept /\ Named(chats)'
  BY <1>0, <1>10 DEF GuidsKept, AllNamed, Named
<1>11. CASE PutMessage(p)
  <2> DEFINE new == Merged(messages[j.msgId], j.msg, j.chatId, j.at)
  <2>1. Return(p) /\ UNCHANGED <<identities, chats>> /\ messages' = [messages EXCEPT ![j.msgId] = new]
    BY <1>11 DEF PutMessage
  <2>2. new.guid = j.msg /\ new.chatId = j.chatId
    BY <1>9
  <2>3. MessagesFiled /\ Named(messages)'
    <3> HIDE DEF new
    <3>1. QED
      BY <1>8, <1>11, <2>1, <2>2
  <2>4. GuidsKept /\ Named(chats)'
    BY <1>10, <2>1
  <2>5. QED
    BY <1>3, <2>1, <2>3, <2>4 DEF AllNamed
<1>12. CASE ApplyLive(p)
  <2> DEFINE old == messages[j.msgId]
             new == Merged(old, j.msg, j.chatId, j.at)
             isNew == old.guid = NoGuid
  <2>1. Return(p) /\ UNCHANGED identities /\ messages' = [messages EXCEPT ![j.msgId] = new]
    BY <1>12 DEF ApplyLive
  <2>2. \A i \in Ids : \/ chats'[i] = chats[i]
                       \/ chats'[i] = Bumped(chats[i], new.at, isNew /\ j.msg \notin FromMe)
    <3>1. chats' = IF chats[j.chatId].guid = NoGuid THEN chats
                   ELSE [chats EXCEPT ![j.chatId] =
                           Bumped(@, new.at, isNew /\ j.msg \notin FromMe)]
      BY <1>12 DEF ApplyLive
    <3> HIDE DEF new, isNew
    <3>2. QED
      BY <3>1 DEF Typed, TypeOK
  <2>3. ASSUME NEW r \in ChatRow, NEW at, NEW b PROVE Bumped(r, at, b).guid = r.guid
    BY DEF Bumped, ChatRow
  <2>4. \A i \in Ids : chats'[i].guid = chats[i].guid
    <3> HIDE DEF new, isNew
    <3>1. QED
      BY <2>2, <2>3 DEF Typed, TypeOK
  <2>5. new.guid = j.msg /\ new.chatId = j.chatId
    BY <1>9
  <2>6. MessagesFiled /\ Named(messages)'
    <3> HIDE DEF new
    <3>1. QED
      BY <1>8, <1>12, <2>1, <2>5
  <2>7. QED
    BY <1>3, <1>10, <2>1, <2>4, <2>6 DEF AllNamed
<1>13. CASE MarkRead(p)
  <2>1. Return(p) /\ UNCHANGED <<identities, messages>>
    BY <1>13 DEF MarkRead
  <2>2. \A i \in Ids : \/ chats'[i] = chats[i]
                       \/ chats'[i] = [chats[i] EXCEPT !.unread = 0, !.rawUnread = 0,
                                                       !.rawLast = j.last]
    BY <1>13 DEF MarkRead, Typed, TypeOK
  <2>3. ASSUME NEW r \in ChatRow
        PROVE  [r EXCEPT !.unread = 0, !.rawUnread = 0, !.rawLast = j.last].guid = r.guid
    BY DEF ChatRow
  <2>4. \A i \in Ids : chats'[i].guid = chats[i].guid
    BY <2>2, <2>3 DEF Typed, TypeOK
  <2>5. MessagesFiled /\ Named(messages)'
    BY <1>0, <2>1 DEF MessagesFiled, AllNamed, Named
  <2>6. QED
    BY <1>3, <1>10, <2>1, <2>4, <2>5 DEF AllNamed
<1>14. QED
  BY <1>5, <1>6, <1>7, <1>11, <1>12, <1>13

\* What INSERT OR IGNORE ... SELECT gives a guid: its id, that of a row of it
\* no one has, or nothing when every row's id is taken.
LEMMA RebuiltIds ==
    ASSUME Typed, NEW rows, NEW g \in Guids
    PROVE  /\ identities[g] # 0 => Rebuilt(rows)[g] = identities[g]
           /\ identities[g] = 0 /\ Rebuilt(rows)[g] # 0 =>
                 /\ Rebuilt(rows)[g] \in Ids /\ rows[Rebuilt(rows)[g]].guid = g
                 /\ \A h \in Guids : identities[h] # Rebuilt(rows)[g]
           /\ \A i \in Ids : Insertable(g, i) /\ rows[i].guid = g => Rebuilt(rows)[g] # 0
<1> DEFINE own == {i \in Ids : rows[i].guid = g /\ Insertable(g, i)}
<1>1. Rebuilt(rows)[g] = IF own = {} THEN identities[g] ELSE CHOOSE i \in own : TRUE
  BY DEF Rebuilt
<1>2. own # {} => (CHOOSE i \in own : TRUE) \in own
  OBVIOUS
<1>3. \A i \in own : i \in Ids /\ i # 0 /\ rows[i].guid = g /\ identities[g] = 0
                     /\ \A h \in Guids : identities[h] # i
  BY IdAssumption DEF Insertable, Ids
<1>4. identities[g] # 0 => own = {}
  BY <1>3
<1>5. \A i \in Ids : Insertable(g, i) /\ rows[i].guid = g => own # {}
  OBVIOUS
<1> HIDE DEF own
<1>6. QED
  BY <1>1, <1>2, <1>3, <1>4, <1>5

\* Rebuilding from a table names every row of it: while only old ids are in the
\* table, no other guid can hold the id of a row that is not named.
LEMMA RebuildNames ==
    ASSUME Typed, TablesFit,
           NEW rows, \A i \in Ids : rows[i].guid \in Guids \cup {NoGuid},
           NEW old, old \subseteq Legacy, NamedOrOld(rows, old), OnlyOldIds \/ Named(rows),
           identities' = Rebuilt(rows)
    PROVE  /\ IdsKept /\ Distinct' /\ (OnlyOldIds => OnlyOldIds')
           /\ \A g \in Guids : identities[g] = 0 /\ identities'[g] # 0 =>
                 g \in old /\ identities'[g] = LegacyId[g]
           /\ \A i \in Ids : rows[i].guid # NoGuid => identities'[rows[i].guid] = i
<1> USE GuidAssumption, IdAssumption, LegacyAssumption
<1>1. ASSUME NEW g \in Guids
      PROVE  /\ identities[g] # 0 => identities'[g] = identities[g]
             /\ identities[g] = 0 /\ identities'[g] # 0 =>
                   /\ identities'[g] \in Ids /\ rows[identities'[g]].guid = g
                   /\ \A h \in Guids : identities[h] # identities'[g]
             /\ \A i \in Ids : Insertable(g, i) /\ rows[i].guid = g => identities'[g] # 0
  BY RebuiltIds
<1>2. IdsKept
  BY <1>1 DEF IdsKept
<1>3. ASSUME NEW g \in Guids, identities[g] = 0, identities'[g] # 0
      PROVE  g \in old /\ identities'[g] = LegacyId[g]
  <2>1. identities'[g] \in Ids /\ rows[identities'[g]].guid = g /\ g # NoGuid
    BY <1>1, <1>3
  <2>2. identities[g] # identities'[g]
    BY <1>3
  <2>3. QED
    BY <2>1, <2>2 DEF NamedOrOld
<1>4. Distinct'
  BY <1>1 DEF Distinct, TablesFit
<1>5. OnlyOldIds => OnlyOldIds'
  BY <1>1, <1>3 DEF OnlyOldIds
<1>6. ASSUME NEW i \in Ids, rows[i].guid # NoGuid PROVE identities'[rows[i].guid] = i
  <2> DEFINE g == rows[i].guid
  <2>1. g \in Guids /\ i # 0
    BY <1>6 DEF Ids
  <2>2. CASE identities[g] = i
    BY <1>1, <2>1, <2>2
  <2>3. CASE identities[g] # i
    <3>1. identities[g] = 0 /\ g \in old /\ i = LegacyId[g] /\ OnlyOldIds
      BY <1>6, <2>3 DEF NamedOrOld, Named
    <3>2. Insertable(g, i)
      <4> SUFFICES ASSUME NEW h \in Guids, identities[h] = i PROVE FALSE
        BY <3>1 DEF Insertable
      <4>1. h \in Legacy /\ LegacyId[h] = LegacyId[g] /\ g \in Legacy
        BY <2>1, <3>1 DEF OnlyOldIds
      <4>2. h = g
        BY <4>1 DEF Legacy
      <4>3. QED
        BY <2>3, <4>2
    <3>3. identities'[g] # 0
      BY <1>1, <2>1, <3>2
    <3>4. QED
      BY <1>3, <2>1, <3>1, <3>3
  <2>4. QED
    BY <2>2, <2>3
<1>7. QED
  BY <1>2, <1>3, <1>4, <1>5, <1>6

LEMMA RebuildFits ==
    ASSUME Typed, Typed', TablesFit, ProcsFit, NEW p \in Procs,
           RebuildChats(p) \/ RebuildMessages(p)
    PROVE  TablesFit' /\ ProcsFit'
<1> DEFINE j == job[p]
<1> USE GuidAssumption, IdAssumption, LegacyAssumption
<1>0. j \in Job /\ job = [job EXCEPT ![p] = j] /\ Agrees(identities, j)
      /\ j.chat \in Guids \cup {NoGuid} /\ j.msg \in Msgs \cup {NoGuid}
  <2>1. j \in Job /\ job = [job EXCEPT ![p] = j] /\ Agrees(identities, j)
    BY DEF Typed, TypeOK, ProcsFit
  <2>2. QED
    BY <2>1 DEF Job, Guids
<1>1. ASSUME NEW i \in Ids
      PROVE  /\ chats[i].guid \in Chats \cup {NoGuid} /\ messages[i].guid \in Msgs \cup {NoGuid}
             /\ i # 0
  BY DEF Typed, TypeOK, ChatRow, MessageRow, Ids
<1>2. ASSUME IdsKept, UNCHANGED <<chats, messages>>
      PROVE  /\ Named(chats) => Named(chats)'
             /\ AllNamed => AllNamed'
             /\ Agrees(identities', j)
  <2>1. (Named(chats) => Named(chats)') /\ (Named(messages) => Named(messages)')
    BY <1>1, <1>2 DEF Named, IdsKept, Guids
  <2>2. Agrees(identities', j)
    BY <1>0, <1>2 DEF Agrees, IdsKept, Guids
  <2>3. QED
    BY <2>1, <2>2 DEF AllNamed
<1>3. ASSUME IdsKept, UNCHANGED <<chats, messages>>,
             \A g \in Guids : identities[g] = 0 /\ identities'[g] # 0 => identities'[g] = LegacyId[g]
      PROVE  OldChatsKept' /\ Filed'
  <2>1. OldChatsKept'
    BY <1>3 DEF TablesFit, OldChatsKept
  <2>2. ASSUME NEW k \in Ids, messages[k].guid # NoGuid
        PROVE  \A c \in ChatsOf[messages[k].guid] : c \in Guids
    BY <1>1, <2>2 DEF Guids
  <2>3. ASSUME NEW c \in Guids, NEW i, Stands(c, i) PROVE Stands(c, i)'
    BY <1>3, <2>3 DEF Stands, IdsKept
  <2>4. Filed'
    BY <1>3, <2>2, <2>3 DEF TablesFit, Filed
  <2>5. QED
    BY <2>1, <2>4
<1>4. CASE RebuildChats(p)
  <2>1. /\ IdsKept /\ Distinct' /\ (OnlyOldIds => OnlyOldIds')
        /\ \A g \in Guids : identities[g] = 0 /\ identities'[g] # 0 =>
              g \in LegacyChats /\ identities'[g] = LegacyId[g]
        /\ \A i \in Ids : chats[i].guid # NoGuid => identities'[chats[i].guid] = i
    <3>1. \A i \in Ids : chats[i].guid \in Guids \cup {NoGuid}
      BY <1>1 DEF Guids
    <3>2. LegacyChats \subseteq Legacy /\ (OnlyOldIds \/ Named(chats))
          /\ NamedOrOld(chats, LegacyChats)
      BY DEF Legacy, TablesFit, AllNamed
    <3>3. QED
      BY <1>4, <3>1, <3>2, RebuildNames DEF RebuildChats
  <2>2. UNCHANGED <<chats, messages>>
    BY <1>4 DEF RebuildChats
  <2>3. Named(chats)'
    BY <2>1, <2>2 DEF Named
  <2>4. NamedOrOld(chats, LegacyChats)' /\ NamedOrOld(messages, LegacyMsgs)'
    <3>1. NamedOrOld(chats, LegacyChats)'
      BY <2>3 DEF Named, NamedOrOld
    <3>2. ASSUME NEW m \in Msgs, identities[m] = 0 PROVE identities'[m] = 0
      BY <2>1, <3>2 DEF Guids
    <3>3. NamedOrOld(messages, LegacyMsgs)'
      BY <1>1, <2>1, <2>2, <3>2 DEF TablesFit, NamedOrOld, IdsKept, Guids
    <3>4. QED
      BY <3>1, <3>3
  <2>5. TablesFit'
    BY <1>2, <1>3, <2>1, <2>2, <2>4 DEF TablesFit
  <2>6. /\ pc' = [pc EXCEPT ![p] = "rebuild_messages"] /\ "rebuild_messages" \in PCs
        /\ job' = [job EXCEPT ![p] = j]
    BY <1>0, <1>4 DEF RebuildChats, Goto, PCs
  <2>7. ProcsFit'
    BY <1>0, <1>2, <2>1, <2>2, <2>3, <2>6, OneAgrees
  <2>8. QED
    BY <2>5, <2>7
<1>5. CASE RebuildMessages(p)
  <2>1. /\ IdsKept /\ Distinct'
        /\ \A g \in Guids : identities[g] = 0 /\ identities'[g] # 0 =>
              g \in LegacyMsgs /\ identities'[g] = LegacyId[g]
        /\ \A i \in Ids : messages[i].guid # NoGuid => identities'[messages[i].guid] = i
    <3>1. \A i \in Ids : messages[i].guid \in Guids \cup {NoGuid}
      BY <1>1 DEF Guids
    <3>2. LegacyMsgs \subseteq Legacy /\ (OnlyOldIds \/ Named(messages))
          /\ NamedOrOld(messages, LegacyMsgs)
      BY DEF Legacy, TablesFit, AllNamed
    <3>3. QED
      BY <1>5, <3>1, <3>2, RebuildNames DEF RebuildMessages
  <2>2. UNCHANGED <<chats, messages>>
    BY <1>5 DEF RebuildMessages
  <2>3. Named(chats)
    BY <1>5 DEF RebuildMessages, ProcsFit, InOrder
  <2>4. AllNamed'
    <3>1. Named(chats)'
      BY <1>2, <2>1, <2>2, <2>3
    <3>2. Named(messages)'
      BY <2>1, <2>2 DEF Named
    <3>3. QED
      BY <3>1, <3>2 DEF AllNamed
  <2>5. NamedOrOld(chats, LegacyChats)' /\ NamedOrOld(messages, LegacyMsgs)'
    BY <2>4 DEF AllNamed, Named, NamedOrOld
  <2>6. TablesFit'
    BY <1>3, <2>1, <2>2, <2>4, <2>5 DEF TablesFit
  <2>7. /\ pc' = [pc EXCEPT ![p] = "find_orphans"] /\ "find_orphans" \in PCs
        /\ job' = [job EXCEPT ![p] = j]
    BY <1>0, <1>5 DEF RebuildMessages, Goto, PCs
  <2>8. ProcsFit'
    BY <1>0, <1>2, <2>1, <2>2, <2>4, <2>7, OneAgrees DEF AllNamed
  <2>9. QED
    BY <2>6, <2>8
<1>6. QED
  BY <1>4, <1>5

LEMMA RepairFits ==
    ASSUME Typed, Typed', TablesFit, ProcsFit, NEW p \in Procs,
           FindOrphans(p) \/ RepairOrphan(p) \/ FinishOpen(p)
    PROVE  TablesFit' /\ ProcsFit'
<1> DEFINE j == job[p]
<1>0. j \in Job /\ Agrees(identities, j) /\ AllNamed /\ UNCHANGED tables
  <2>1. pc[p] \in {"find_orphans", "next_orphan"} /\ UNCHANGED tables
    BY DEF FindOrphans, RepairOrphan, FinishOpen
  <2>2. QED
    BY <2>1 DEF Typed, TypeOK, ProcsFit, InOrder
<1>1. ASSUME NEW n, job' = [job EXCEPT ![p] = n],
             NEW label \in {"next_orphan", "select"}, Goto(p, label),
             n.msg = j.msg, n.msgId = j.msgId,
             (n.chat = j.chat /\ n.chatId = j.chatId) \/ n.chatId = 0
      PROVE  TablesFit' /\ ProcsFit'
  <2>1. n = job'[p]
    BY <1>1 DEF Typed, TypeOK
  <2>2. n \in Job
    BY <2>1 DEF Typed, TypeOK
  <2>3. Agrees(identities, n)
    BY <1>0, <1>1 DEF Agrees
  <2>4. label \in PCs /\ pc' = [pc EXCEPT ![p] = label]
    BY <1>1 DEF Goto, PCs
  <2>5. QED
    BY <1>0, <1>1, <2>2, <2>3, <2>4, QuietTables
<1>2. CASE FindOrphans(p)
  <2> DEFINE n == [j EXCEPT !.todo = Orphans]
  <2>1. job' = [job EXCEPT ![p] = n] /\ Goto(p, "next_orphan")
    BY <1>2 DEF FindOrphans
  <2>2. n.msg = j.msg /\ n.msgId = j.msgId /\ n.chat = j.chat /\ n.chatId = j.chatId
    BY <1>0 DEF Job
  <2> HIDE DEF n
  <2>3. QED
    BY <1>1, <2>1, <2>2
<1>3. CASE RepairOrphan(p)
  <2> DEFINE next(o) == [j EXCEPT !.todo = j.todo \ {o}, !.chat = o.chat, !.chatId = 0,
                           !.unread = 0, !.last = o.last, !.want = o.chat, !.after = "upsert"]
  <2>1. PICK o \in j.todo : job' = [job EXCEPT ![p] = next(o)]
    BY <1>3 DEF RepairOrphan
  <2> DEFINE n == next(o)
  <2>2. n.msg = j.msg /\ n.msgId = j.msgId /\ n.chatId = 0
    BY <1>0 DEF Job
  <2>3. job' = [job EXCEPT ![p] = n]
    BY <2>1
  <2>4. Goto(p, "select")
    BY <1>3 DEF RepairOrphan
  <2> HIDE DEF n
  <2>5. QED
    BY <1>1, <2>2, <2>3, <2>4
<1>4. CASE FinishOpen(p)
  <2>1. PICK label \in {"idle", "down"} :
           job' = [job EXCEPT ![p] = NoJob] /\ pc' = [pc EXCEPT ![p] = label]
    BY <1>4, ReturnMoves DEF FinishOpen
  <2>2. label \in PCs
    BY DEF PCs
  <2>3. QED
    BY <1>0, <2>1, <2>2, NoJobFits, NoJobAgrees, QuietTables
<1>5. QED
  BY <1>2, <1>3, <1>4

LEMMA StopFits ==
    ASSUME Typed, Typed', TablesFit, ProcsFit, NEW p \in Procs, Open(p) \/ Abandon(p) \/ Crash
    PROVE  TablesFit' /\ ProcsFit'
<1> USE GuidAssumption, IdAssumption
<1>1. CASE Open(p)
  <2> DEFINE j == [NoJob EXCEPT !.kind = "open"]
  <2>1. j \in Job /\ j.chatId = 0 /\ j.msgId = 0
    BY DEF NoJob, Job, Dates
  <2>2. Start(p, j, "rebuild_chats")
    BY <1>1 DEF Open
  <2> HIDE DEF j
  <2>3. QED
    BY <2>1, <2>2, StartFits
<1>2. CASE Abandon(p)
  <2>1. job[p].kind # "open" => AllNamed
    BY <1>2 DEF Abandon, Typed, JobsFit, JobFits, ProcsFit, InOrder
  <2>2. PICK label \in {"down", "idle"} :
           pc' = [pc EXCEPT ![p] = label] /\ (label = "idle" => AllNamed)
    BY <1>2, <2>1 DEF Abandon, Goto
  <2>3. label \in PCs
    BY DEF PCs
  <2>4. QED
    BY <1>2, <2>2, <2>3, NoJobFits, NoJobAgrees, QuietTables DEF Abandon
<1>3. CASE Crash
  <2>1. "daemon" \in Procs /\ "down" \in PCs
    BY DEF Procs, PCs
  <2>2. QED
    BY <1>3, <2>1, NoJobFits, NoJobAgrees, QuietTables DEF Crash, Goto
<1>4. QED
  BY <1>1, <1>2, <1>3

\* The invariant behind the theorems, for every instance.
LEMMA CacheInvariant == Spec => [](Typed /\ TablesFit /\ ProcsFit)
<1>1. Typed /\ Typed' /\ TablesFit /\ ProcsFit /\ [Next]_vars => TablesFit' /\ ProcsFit'
  <2> SUFFICES ASSUME Typed, Typed', TablesFit, ProcsFit, [Next]_vars
               PROVE  TablesFit' /\ ProcsFit'
    OBVIOUS
  <2>1. CASE Request
    BY <2>1, RequestFits
  <2>2. ASSUME NEW p \in Procs, Open(p) \/ Statement(p) \/ Abandon(p)
        PROVE  TablesFit' /\ ProcsFit'
    BY <2>2, StopFits, LookupFits, RowFits, RebuildFits, RepairFits DEF Statement
  <2>3. CASE Crash
    BY <2>3, StopFits DEF Procs
  <2>4. CASE UNCHANGED vars
    BY <2>4 DEF vars, TablesFit, Distinct, OnlyOldIds, AllNamed, Named, NamedOrOld, OldChatsKept,
                Filed, Stands, ProcsFit, Agrees, InOrder
  <2>5. QED
    BY <2>1, <2>2, <2>3, <2>4 DEF Next
<1>2. QED
  BY <1>1, InitFits, JobsCorrect, PTL DEF Spec

\* A guid has the same id in every table and in every running operation: no
\* lookup ever answers with an id that another guid holds.
THEOREM IdsStayInAgreement == Spec => []IdsInAgreement
<1>1. TablesFit /\ ProcsFit => IdsInAgreement
  BY DEF TablesFit, Distinct, ProcsFit, Agrees, IdsInAgreement
<1>2. QED
  BY <1>1, CacheInvariant, PTL

\* Every guid has at most one row, also while a database of an earlier build is
\* being given its identities.
THEOREM EachGuidHasOneRow == Spec => []OneRowPerGuid
<1>1. TablesFit => OneRowPerGuid
  <2>1. \A i \in Ids : i # 0
    BY IdAssumption DEF Ids
  <2>2. QED
    BY <2>1 DEF TablesFit, NamedOrOld, OneRowPerGuid
<1>2. QED
  BY <1>1, CacheInvariant, PTL

\* A message stands under the id of a chat that a copy of it named, by its identity or,
\* before the first rebuild, by the row an earlier build left.
THEOREM MessagesStayFiled == Spec => []FiledUnderItsChat
<1>1. Typed /\ TablesFit => FiledUnderItsChat
  <2> SUFFICES ASSUME Typed, TablesFit, NEW k \in Ids, messages[k].guid # NoGuid
               PROVE  \E c \in ChatsOf[messages[k].guid] :
                         \/ identities[c] = messages[k].chatId
                         \/ messages[k].chatId # 0 /\ chats[messages[k].chatId].guid = c
    BY DEF FiledUnderItsChat
  <2>1. PICK c \in ChatsOf[messages[k].guid] : Stands(c, messages[k].chatId)
    BY DEF TablesFit, Filed
  <2>2. c \in LegacyChats => LegacyId[c] # 0 /\ chats[LegacyId[c]].guid = c
    BY LegacyAssumption, IdAssumption DEF TablesFit, OldChatsKept, Guids, Ids
  <2>3. QED
    BY <2>1, <2>2 DEF Stands
<1>2. QED
  BY <1>1, CacheInvariant, JobsCorrect, PTL

-----------------------------------------------------------------------------
(* No orphans.  A message may lack its chat's row only in what an earlier   *)
(* build left behind.  Every open finds all of those at once, since each is *)
(* filed under an identity, and what it has not inserted yet is on its      *)
(* list; and nothing stores a message before its chat has a row.            *)

\* Induction is used in its set form.  Every set of naturals with an element has a least one.
LEMMA LeastNat ==
    ASSUME NEW T, T \subseteq Nat, T # {}
    PROVE  \E x \in T : \A y \in T : x <= y
<1> DEFINE R == {ss \in Nat \X Nat : ss[1] < ss[2]}
<1>1. IsWellFoundedOn(R, Nat)
  <2>1. R = OpToRel(<, Nat)
    BY DEF OpToRel
  <2>2. QED
    BY <2>1, NatLessThanWellFounded, Zenon DEF OpToRel
<1>2. \A x, y \in Nat : x < y => <<x, y>> \in R
  OBVIOUS
<1> HIDE DEF R
<1>3. PICK x \in T : \A y \in T : ~(<<y, x>> \in R)
  BY <1>1, WFMin
<1>4. ASSUME NEW y \in T PROVE x <= y
  <2>1. x \in Nat /\ y \in Nat
    BY <1>3
  <2>2. ~(y < x)
    BY <1>2, <1>3, <2>1
  <2>3. QED
    BY <2>1, <2>2
<1>5. QED
  BY <1>3, <1>4

\* Of finitely many numbers one is the largest: a least n below which it fails
\* to hold would have a largest one below n - 1, or none.
LEMMA LargestOf ==
    ASSUME NEW N \in Nat, NEW f \in [1 .. N -> Nat], NEW own \in SUBSET (1 .. N), own # {}
    PROVE  \E k \in own : \A l \in own : f[l] <= f[k]
<1> DEFINE upTo(n) == own \cap (1 .. n)
           Has(n) == \E k \in upTo(n) : \A l \in upTo(n) : f[l] <= f[k]
           Bad == {n \in Nat : upTo(n) # {} /\ ~Has(n)}
<1>1. Bad = {}
  <2> SUFFICES ASSUME Bad # {} PROVE FALSE
    OBVIOUS
  <2>1. PICK n \in Bad : \A m \in Bad : n <= m
    <3>1. Bad \subseteq Nat
      OBVIOUS
    <3> HIDE DEF Bad
    <3>2. QED
      BY <3>1, LeastNat
  <2>2. n \in Nat /\ \A m \in Nat : m < n => m \notin Bad
    <3>1. Bad \subseteq Nat
      OBVIOUS
    <3> HIDE DEF Bad
    <3>2. QED
      BY <2>1, <3>1
  <2>3. PICK a \in upTo(n) : TRUE
    BY <2>1
  <2>4. n # 0 /\ n - 1 \in Nat /\ n - 1 < n
    BY <2>2, <2>3
  <2>5. upTo(n - 1) = {} \/ Has(n - 1)
    BY <2>2, <2>4
  <2>6. \A l \in upTo(n) : l = n \/ l \in upTo(n - 1)
    BY <2>2
  <2>7. \A l \in upTo(n) : f[l] \in Nat
    OBVIOUS
  <2>8. upTo(n - 1) \subseteq upTo(n)
    BY <2>2
  <2>9. /\ \A x \in Nat : x <= x
        /\ \A x, y, z \in Nat : x <= y /\ y < z => x <= z
        /\ \A x, y \in Nat : ~(x < y) => y <= x
    OBVIOUS
  <2>10. Has(n)
    <3>1. CASE upTo(n - 1) = {}
      <4>1. a = n /\ \A l \in upTo(n) : l = n
        BY <2>3, <2>6, <3>1
      <4>2. QED
        BY <2>3, <2>7, <4>1
    <3>2. CASE Has(n - 1)
      <4>1. PICK k \in upTo(n - 1) : \A l \in upTo(n - 1) : f[l] <= f[k]
        BY <3>2
      <4>2. k \in upTo(n) /\ f[k] \in Nat /\ f[k] <= f[k]
        BY <2>7, <2>8, <4>1, <2>9
      <4>3. \A l \in upTo(n) : l = n \/ f[l] <= f[k]
        BY <2>6, <4>1
      <4>4. CASE n \in upTo(n) /\ f[k] < f[n]
        <5>1. \A l \in upTo(n) : f[l] <= f[n]
          <6> HIDE DEF upTo
          <6>1. QED
            BY <2>7, <2>9, <4>2, <4>3, <4>4, Zenon
        <5>2. QED
          BY <4>4, <5>1
      <4>5. CASE n \notin upTo(n) \/ ~(f[k] < f[n])
        <5>1. \A l \in upTo(n) : f[l] <= f[k]
          <6> HIDE DEF upTo
          <6>1. QED
            BY <2>7, <2>9, <4>2, <4>3, <4>5, Zenon
        <5>2. QED
          BY <4>2, <5>1
      <4>6. QED
        BY <4>4, <4>5
    <3>3. QED
      BY <2>5, <3>1, <3>2
  <2>11. QED
    BY <2>1, <2>10
<1>2. upTo(N) = own
  OBVIOUS
<1>3. QED
  BY <1>1, <1>2

Homed(k) == chats[messages[k].chatId].guid # NoGuid
HasRow(c) == identities[c] # 0 /\ chats[identities[c]].guid # NoGuid

\* The repair is still going to insert the chat row with id i.
ToBeRepaired(j, label, i) ==
    /\ j.kind = "open" /\ label # "idle"
    /\ \/ \E o \in j.todo : identities[o.chat] = i
       \/ label \in Lookup \cup {"upsert"} /\ identities[j.chat] = i

\* The operation is going to store a message without looking for the chat again.
SureOfChat(j, label) ==
    \/ j.kind = "message"
    \/ j.kind = "live" /\ label \in Lookup /\ j.after = "live"
    \/ j.kind = "live" /\ label \in {"name", "live"}

Repaired(label) == label \notin {"down", "rebuild_chats", "rebuild_messages", "find_orphans"}

Houses(j, label) ==
    /\ Repaired(label) =>
          \A k \in Ids : messages[k].guid # NoGuid /\ ~Homed(k) =>
             ToBeRepaired(j, label, messages[k].chatId)
    /\ SureOfChat(j, label) => HasRow(j.chat)
ProcsHouse == \A p \in Procs : Houses(job[p], pc[p])

\* A message is filed under an id, and if no chat row has it, it is a chat's identity.
LEMMA MessageFiledUnder ==
    ASSUME Typed, TablesFit, NEW k \in Ids, messages[k].guid # NoGuid
    PROVE  /\ messages[k].chatId \in Ids /\ messages[k].chatId # 0
           /\ ~Homed(k) => \E c \in Chats : identities[c] = messages[k].chatId
<1>0. PICK c \in ChatsOf[messages[k].guid] : Stands(c, messages[k].chatId)
  BY DEF TablesFit, Filed
<1> USE GuidAssumption, IdAssumption, LegacyAssumption
<1>1. messages[k].guid \in Msgs /\ c \in Chats /\ c \in Guids
  BY DEF Typed, TypeOK, MessageRow, Guids
<1>2. \/ identities[c] # 0 /\ messages[k].chatId = identities[c]
      \/ identities[c] = 0 /\ c \in LegacyChats /\ messages[k].chatId = LegacyId[c]
  BY <1>0 DEF Stands
<1>3. identities[c] \in Ids \cup {0} /\ LegacyId[c] \in Ids /\ 0 \notin Ids
  BY <1>1 DEF Typed, TypeOK, Ids
<1>4. c \in LegacyChats => chats[LegacyId[c]].guid = c /\ c # NoGuid
  BY <1>1 DEF TablesFit, OldChatsKept, Guids
<1>5. QED
  BY <1>1, <1>2, <1>3, <1>4 DEF Homed

\* Where a message stands, or that its chat has a row.
MessagesHoused ==
    \A k \in Ids : messages'[k].guid # NoGuid =>
        \/ messages'[k].guid = messages[k].guid /\ messages'[k].chatId = messages[k].chatId
        \/ Homed(k)'

\* No statement takes a house away: what was so of an operation stays so.
LEMMA HousesKept ==
    ASSUME Typed, TablesFit, IdsKept, GuidsKept, MessagesHoused,
           NEW j \in Job, NEW label, Houses(j, label),
           j.kind = "open" /\ label \in Lookup \cup {"upsert"} => j.chat \in Chats,
           j.kind \in {"live", "message"} => j.chat \in Chats
    PROVE  Houses(j, label)'
<1> USE GuidAssumption, IdAssumption
<1>1. 0 \notin Ids
  BY DEF Ids
<1>2. ASSUME NEW c \in Chats, HasRow(c) PROVE HasRow(c)'
  <2>1. identities[c] \in Ids /\ identities'[c] = identities[c]
    BY <1>2 DEF HasRow, Typed, TypeOK, Guids, IdsKept
  <2>2. QED
    BY <1>2, <2>1 DEF HasRow, GuidsKept
<1>3. SureOfChat(j, label) => HasRow(j.chat)'
  BY <1>2 DEF Houses, SureOfChat
<1>4. ASSUME Repaired(label), NEW k \in Ids, messages'[k].guid # NoGuid, ~Homed(k)'
      PROVE  ToBeRepaired(j, label, messages[k].chatId)'
  <2>1. messages'[k].guid = messages[k].guid /\ messages'[k].chatId = messages[k].chatId
    BY <1>4 DEF MessagesHoused
  <2>2. messages[k].guid # NoGuid /\ messages[k].chatId \in Ids
    BY <1>4, <2>1, MessageFiledUnder
  <2>3. ~Homed(k)
    BY <1>4, <2>1, <2>2 DEF Homed, GuidsKept
  <2>4. ToBeRepaired(j, label, messages[k].chatId)
    BY <1>4, <2>2, <2>3 DEF Houses
  <2>5. \A c \in Chats : identities[c] = messages[k].chatId => identities'[c] = messages[k].chatId
    BY <1>1, <2>2 DEF IdsKept, Guids
  <2>6. \A o \in j.todo : o.chat \in Chats
    BY DEF Job, Orphan
  <2>7. QED
    BY <2>1, <2>4, <2>5, <2>6 DEF ToBeRepaired
<1>5. QED
  BY <1>3, <1>4 DEF Houses

\* The chat an operation names.
LEMMA JobChat ==
    ASSUME Typed, NEW p \in Procs
    PROVE  /\ job[p] \in Job /\ JobFits(job[p], pc[p])
           /\ job[p].kind = "open" /\ pc[p] \in Lookup \cup {"upsert"} => job[p].chat \in Chats
           /\ job[p].kind \in {"live", "message"} => job[p].chat \in Chats
<1> USE GuidAssumption
<1>1. job[p] \in Job /\ JobFits(job[p], pc[p])
  BY DEF Typed, TypeOK, JobsFit
<1>2. job[p].kind \in {"live", "message"} => job[p].chat \in Chats
  BY <1>1 DEF JobFits
<1>3. job[p].kind = "open" /\ pc[p] \in Lookup => job[p].chat \in Chats
  BY <1>1 DEF JobFits, WantsChat, WantsMessage
<1>4. pc[p] = "upsert" => job[p].chat \in Chats
  BY <1>1 DEF JobFits
<1>5. QED
  BY <1>1, <1>2, <1>3, <1>4

\* A step of one process: the others keep what they had.
LEMMA OneHouses ==
    ASSUME Typed, TablesFit, ProcsHouse, IdsKept, GuidsKept, MessagesHoused,
           NEW p \in Procs, NEW j, NEW label,
           job' = [job EXCEPT ![p] = j], pc' = [pc EXCEPT ![p] = label],
           Houses(j, label)'
    PROVE  ProcsHouse'
<1> SUFFICES ASSUME NEW q \in Procs PROVE Houses(job[q], pc[q])'
  BY DEF ProcsHouse
<1>1. CASE q = p
  <2>1. job'[q] = j /\ pc'[q] = label
    BY <1>1 DEF Typed, TypeOK
  <2>2. QED
    BY <2>1 DEF Houses, Repaired, SureOfChat, ToBeRepaired, Homed, HasRow
<1>2. CASE q # p
  <2>0. PICK jq \in Job, lq \in PCs : jq = job[q] /\ lq = pc[q]
    BY DEF Typed, TypeOK
  <2>1. job'[q] = jq /\ pc'[q] = lq
    BY <1>2, <2>0 DEF Typed, TypeOK
  <2>2. Houses(jq, lq)'
    <3>1. Houses(jq, lq)
      BY <2>0 DEF ProcsHouse
    <3>2. QED
      BY <2>0, <3>1, HousesKept, JobChat
  <2>3. QED
    BY <2>1, <2>2 DEF Houses, Repaired, SureOfChat, ToBeRepaired, Homed, HasRow
<1>3. QED
  BY <1>1, <1>2

\* No statement changes an id that is there, or the guid of a chat row.
LEMMA RowsStay ==
    ASSUME Typed, NEW p \in Procs, Statement(p)
    PROVE  IdsKept /\ GuidsKept
<1> USE GuidAssumption, IdAssumption
<1>1. ASSUME UNCHANGED tables PROVE IdsKept /\ GuidsKept
  BY <1>1 DEF tables, IdsKept, GuidsKept
<1>2. ASSUME UNCHANGED chats PROVE GuidsKept
  BY <1>2 DEF GuidsKept
<1>3. ASSUME UNCHANGED identities PROVE IdsKept
  BY <1>3 DEF IdsKept
<1>4. ASSUME NEW g, NEW i, InsertIdentity(g, i) PROVE IdsKept
  <2>1. CASE Insertable(g, i)
    <3>1. \A h \in Guids : identities'[h] = IF h = g THEN i ELSE identities[h]
      BY <1>4, <2>1 DEF InsertIdentity, Typed, TypeOK
    <3>2. QED
      BY <2>1, <3>1 DEF Insertable, IdsKept
  <2>2. CASE ~Insertable(g, i)
    BY <1>4, <2>2 DEF InsertIdentity, IdsKept
  <2>3. QED
    BY <2>1, <2>2
<1>5. ASSUME NEW rows, identities' = Rebuilt(rows) PROVE IdsKept
  BY <1>5, RebuiltIds DEF IdsKept
<1>6. CASE SelectIdentity(p) \/ ReselectIdentity(p) \/ NextCandidate(p) \/ ChatExists(p)
           \/ FindOrphans(p) \/ RepairOrphan(p) \/ FinishOpen(p)
  <2>1. UNCHANGED tables
    BY <1>6, Zenon DEF SelectIdentity, ReselectIdentity, NextCandidate, ChatExists,
                       FindOrphans, RepairOrphan, FinishOpen
  <2>2. QED
    BY <1>1, <2>1
<1>7. CASE TryInsertIdentity(p) \/ NameChat(p)
  BY <1>2, <1>4, <1>7 DEF TryInsertIdentity, NameChat
<1>8. CASE RebuildChats(p) \/ RebuildMessages(p)
  BY <1>2, <1>5, <1>8 DEF RebuildChats, RebuildMessages
<1>9. CASE PutMessage(p)
  BY <1>2, <1>3, <1>9 DEF PutMessage
<1>10. ASSUME NEW r \in ChatRow, r.guid # NoGuid
       PROVE  /\ \A c, n, t : Upserted(r, c, n, t).guid = r.guid
              /\ \A at, b : Bumped(r, at, b).guid = r.guid
  BY <1>10 DEF ChatRow, Upserted, Bumped
<1>11. CASE UpsertChat(p)
  <2>1. chats' = [chats EXCEPT ![job[p].chatId] =
                    Upserted(@, job[p].chat, job[p].unread, job[p].last)]
    BY <1>11 DEF UpsertChat
  <2>2. GuidsKept
    BY <1>10, <2>1 DEF GuidsKept, Typed, TypeOK
  <2>3. QED
    BY <1>3, <1>11, <2>2 DEF UpsertChat
<1>12. CASE ApplyLive(p)
  <2>1. PICK at, b : \A i \in Ids : chats'[i] = chats[i] \/ chats'[i] = Bumped(chats[i], at, b)
    <3> DEFINE old == messages[job[p].msgId]
               new == Merged(old, job[p].msg, job[p].chatId, job[p].at)
               isNew == old.guid = NoGuid
    <3>1. chats' = IF chats[job[p].chatId].guid = NoGuid THEN chats
                   ELSE [chats EXCEPT ![job[p].chatId] =
                           Bumped(@, new.at, isNew /\ job[p].msg \notin FromMe)]
      BY <1>12 DEF ApplyLive
    <3> HIDE DEF new, isNew
    <3>2. QED
      BY <3>1 DEF Typed, TypeOK
  <2>2. GuidsKept
    BY <1>10, <2>1 DEF GuidsKept, Typed, TypeOK
  <2>3. QED
    BY <1>3, <1>12, <2>2 DEF ApplyLive
<1>13. CASE MarkRead(p)
  <2>1. \A i \in Ids : \/ chats'[i] = chats[i]
                       \/ chats'[i] = [chats[i] EXCEPT !.unread = 0, !.rawUnread = 0,
                                                       !.rawLast = job[p].last]
    BY <1>13 DEF MarkRead, Typed, TypeOK
  <2>2. ASSUME NEW i \in Ids PROVE chats'[i].guid = chats[i].guid
    <3>1. chats[i] \in ChatRow
      BY DEF Typed, TypeOK
    <3>2. CASE chats'[i] = [chats[i] EXCEPT !.unread = 0, !.rawUnread = 0, !.rawLast = job[p].last]
      BY <3>1, <3>2 DEF ChatRow
    <3>3. QED
      BY <2>1, <3>2, Zenon
  <2>3. QED
    BY <1>3, <1>13, <2>2 DEF MarkRead, GuidsKept
<1>14. QED
  BY <1>6, <1>7, <1>8, <1>9, <1>11, <1>12, <1>13 DEF Statement

\* The list of a repair names the chat of every message that has no house.
LEMMA OrphansFound ==
    ASSUME Typed, TablesFit, NEW k \in Ids, messages[k].guid # NoGuid, ~Homed(k)
    PROVE  \E o \in Orphans : identities[o.chat] = messages[k].chatId
<1> DEFINE own == {l \in Ids : messages[l].chatId = messages[k].chatId}
           at == [l \in 1 .. MaxId |-> messages[l].at]
<1> USE GuidAssumption, IdAssumption
<1>1. PICK c \in Chats : /\ messages[k].chatId \in Ids /\ messages[k].chatId # 0
                         /\ identities[c] = messages[k].chatId
  BY MessageFiledUnder
<1>2. \A l \in Ids : messages[l].at \in Dates /\ messages[l].at \in Nat
  BY DEF Typed, TypeOK, MessageRow, Dates
<1>3. at \in [1 .. MaxId -> Nat] /\ own \in SUBSET (1 .. MaxId) /\ own # {} /\ MaxId \in Nat
  BY <1>2 DEF Ids
<1>4. PICK n \in own : \A l \in own : at[l] <= at[n]
  <2> HIDE DEF own, at
  <2>1. QED
    BY <1>3, LargestOf
<1>5. n \in Ids /\ \A l \in own : messages[l].at <= messages[n].at
  BY <1>3, <1>4 DEF Ids
<1> DEFINE o == [chat |-> c, last |-> messages[n].at]
<1>6. o \in Orphan
  BY <1>1, <1>2, <1>5 DEF Orphan
<1>7. chats[messages[k].chatId].guid = NoGuid
  BY DEF Homed
<1>8. o \in Orphans
  BY <1>1, <1>4, <1>5, <1>6, <1>7 DEF Orphans
<1>9. QED
  BY <1>1, <1>8

\* A step that moves one process, judged by the tables before it.
LEMMA StepHouses ==
    ASSUME Typed, Typed', TablesFit, ProcsHouse, IdsKept, GuidsKept, MessagesHoused,
           NEW p \in Procs, NEW j, NEW label,
           job' = [job EXCEPT ![p] = j], pc' = [pc EXCEPT ![p] = label],
           Houses(j, label)
    PROVE  ProcsHouse'
<1>1. job'[p] = j /\ pc'[p] = label
  BY DEF Typed, TypeOK
<1>2. /\ j \in Job
      /\ j.kind = "open" /\ label \in Lookup \cup {"upsert"} => j.chat \in Chats
      /\ j.kind \in {"live", "message"} => j.chat \in Chats
  <2>1. j \in Job /\ JobFits(j, label)
    BY <1>1 DEF Typed, TypeOK, JobsFit
  <2>2. j.kind \in {"live", "message"} => j.chat \in Chats
    BY <2>1, GuidAssumption DEF JobFits
  <2>3. label \in Lookup /\ j.kind = "open" => j.chat \in Chats
    BY <2>1 DEF JobFits, WantsChat, WantsMessage
  <2>4. label = "upsert" => j.chat \in Chats
    BY <2>1 DEF JobFits
  <2>5. QED
    BY <2>1, <2>2, <2>3, <2>4
<1>3. Houses(j, label)'
  BY <1>2, HousesKept
<1>4. QED
  BY <1>3, OneHouses

\* Within an operation the repairs to come and the chat it is sure of are kept.
LEMMA HousesMove ==
    ASSUME NEW j, NEW label, NEW n, NEW next, Houses(j, label), Repaired(label), next # "idle",
           n.kind = j.kind, n.chat = j.chat, n.todo = j.todo,
           j.kind = "open" /\ label \in Lookup \cup {"upsert"} => next \in Lookup \cup {"upsert"},
           SureOfChat(n, next) => SureOfChat(j, label) \/ HasRow(j.chat)
    PROVE  Houses(n, next)
<1>1. ASSUME NEW i, ToBeRepaired(j, label, i) PROVE ToBeRepaired(n, next, i)
  BY <1>1 DEF ToBeRepaired
<1>2. QED
  BY <1>1 DEF Houses

\* An operation that is no repair ends with every message housed.
LEMMA HousesEnd ==
    ASSUME NEW j, NEW label, Houses(j, label), Repaired(label),
           j.kind # "open" \/ (label = "next_orphan" /\ j.todo = {}),
           NEW next \in {"idle", "down"}
    PROVE  Houses(NoJob, next)
<1>1. ASSUME NEW i PROVE ~ToBeRepaired(j, label, i)
  BY DEF ToBeRepaired, Lookup
<1>2. ~SureOfChat(NoJob, next)
  BY DEF SureOfChat, NoJob
<1>3. QED
  BY <1>1, <1>2 DEF Houses

LEMMA LookupHouses ==
    ASSUME Typed, Typed', TablesFit, ProcsFit, ProcsHouse, NEW p \in Procs,
           SelectIdentity(p) \/ TryInsertIdentity(p) \/ ReselectIdentity(p) \/ NextCandidate(p)
    PROVE  ProcsHouse'
<1> DEFINE j == job[p]
<1> USE GuidAssumption, IdAssumption
<1>1. /\ pc[p] \in Lookup /\ UNCHANGED messages /\ Statement(p)
  BY Zenon DEF SelectIdentity, TryInsertIdentity, ReselectIdentity, NextCandidate, Lookup, Statement,
               tables
<1>2. /\ j \in Job /\ JobFits(j, pc[p]) /\ Houses(j, pc[p])
      /\ WantsChat(j) \/ WantsMessage(j)
  BY <1>1 DEF Typed, TypeOK, JobsFit, JobFits, ProcsHouse
<1>3. Repaired(pc[p]) /\ IdsKept /\ GuidsKept /\ MessagesHoused
  BY <1>1, RowsStay DEF Repaired, Lookup, MessagesHoused
<1>4. ASSUME NEW n, NEW label, job' = [job EXCEPT ![p] = n], pc' = [pc EXCEPT ![p] = label],
             label # "idle", n.kind = j.kind, n.chat = j.chat, n.todo = j.todo,
             j.kind = "open" => label \in Lookup \cup {"upsert"},
             SureOfChat(n, label) => SureOfChat(j, pc[p])
      PROVE  ProcsHouse'
  <2>1. Houses(n, label)
    BY <1>1, <1>2, <1>3, <1>4, HousesMove
  <2>2. QED
    BY <1>3, <1>4, <2>1, StepHouses
<1>5. ASSUME NEW i, Found(p, i) PROVE ProcsHouse'
  <2> DEFINE k == IF j.want = j.chat THEN [j EXCEPT !.chatId = i, !.cand = 0]
                                     ELSE [j EXCEPT !.msgId = i, !.cand = 0]
             n == IF j.after = "want_msg" THEN [k EXCEPT !.want = j.msg, !.after = "put"]
                                          ELSE [k EXCEPT !.want = NoGuid, !.after = "none"]
             label == IF j.after = "want_msg" THEN "select" ELSE j.after
  <2>1. job' = [job EXCEPT ![p] = n] /\ pc' = [pc EXCEPT ![p] = label]
    <3>1. CASE j.after = "want_msg"
      BY <1>5, <3>1 DEF Found, Goto
    <3>2. CASE j.after # "want_msg"
      BY <1>5, <3>2 DEF Found, Goto
    <3>3. QED
      BY <3>1, <3>2
  <2>2. n.kind = j.kind /\ n.chat = j.chat /\ n.todo = j.todo
        /\ n.after = (IF j.after = "want_msg" THEN "put" ELSE "none")
    BY <1>2 DEF Job
  <2>3. label # "idle" /\ (j.kind = "open" => label \in Lookup \cup {"upsert"})
    BY <1>2 DEF WantsChat, WantsMessage, Lookup
  <2>4. SureOfChat(n, label) => SureOfChat(j, pc[p])
    <3> HIDE DEF n
    <3>1. QED
      BY <1>1, <1>2, <2>2 DEF SureOfChat, WantsChat, WantsMessage
  <2> HIDE DEF n, label
  <2>5. QED
    BY <1>4, <2>1, <2>2, <2>3, <2>4
<1>6. ASSUME NEW label \in {"insert", "reselect", "max"}, Goto(p, label), UNCHANGED job
      PROVE  ProcsHouse'
  <2>1. job' = [job EXCEPT ![p] = j] /\ pc' = [pc EXCEPT ![p] = label] /\ label \in Lookup
    BY <1>6 DEF Goto, Lookup, Typed, TypeOK
  <2>2. SureOfChat(j, label) => SureOfChat(j, pc[p])
    BY <1>1, <2>1 DEF SureOfChat, Lookup
  <2>3. QED
    BY <1>4, <1>6, <2>1, <2>2
<1>7. ASSUME NEW i, Goto(p, "insert"), job' = [job EXCEPT ![p].cand = i]
      PROVE  ProcsHouse'
  <2> DEFINE n == [j EXCEPT !.cand = i]
  <2>1. n.kind = j.kind /\ n.chat = j.chat /\ n.todo = j.todo /\ n.after = j.after
    BY <1>2 DEF Job
  <2>2. job' = [job EXCEPT ![p] = n] /\ pc' = [pc EXCEPT ![p] = "insert"] /\ "insert" \in Lookup
    BY <1>7 DEF Goto, Lookup
  <2> HIDE DEF n
  <2>3. SureOfChat(n, "insert") => SureOfChat(j, pc[p])
    BY <1>1, <2>1, <2>2 DEF SureOfChat, Lookup
  <2>4. QED
    BY <1>4, <2>1, <2>2, <2>3
<1>8. CASE SelectIdentity(p)
  BY <1>5, <1>7, <1>8 DEF SelectIdentity
<1>9. CASE TryInsertIdentity(p)
  BY <1>5, <1>6, <1>9 DEF TryInsertIdentity
<1>10. CASE ReselectIdentity(p)
  BY <1>5, <1>6, <1>10 DEF ReselectIdentity
<1>11. CASE NextCandidate(p)
  BY <1>7, <1>11 DEF NextCandidate
<1>12. QED
  BY <1>8, <1>9, <1>10, <1>11

LEMMA RowHouses ==
    ASSUME Typed, Typed', TablesFit, ProcsFit, ProcsHouse, NEW p \in Procs,
           ChatExists(p) \/ UpsertChat(p) \/ NameChat(p) \/ PutMessage(p) \/ ApplyLive(p)
              \/ MarkRead(p)
    PROVE  ProcsHouse'
<1> DEFINE j == job[p]
<1> USE GuidAssumption, IdAssumption
<1>1. Statement(p) /\ pc[p] \in {"exists", "upsert", "name", "put", "live", "unread"}
  BY Zenon DEF ChatExists, UpsertChat, NameChat, PutMessage, ApplyLive, MarkRead, Statement
<1>2. /\ j \in Job /\ JobFits(j, pc[p]) /\ Houses(j, pc[p]) /\ Agrees(identities, j)
      /\ job = [job EXCEPT ![p] = j]
  BY DEF Typed, TypeOK, JobsFit, ProcsHouse, ProcsFit
<1>3. Repaired(pc[p]) /\ IdsKept /\ GuidsKept
  BY <1>1, RowsStay DEF Repaired
<1>4. ASSUME MessagesHoused, NEW n, NEW label,
             job' = [job EXCEPT ![p] = n], pc' = [pc EXCEPT ![p] = label],
             label # "idle", n.kind = j.kind, n.chat = j.chat, n.todo = j.todo,
             j.kind = "open" /\ pc[p] = "upsert" => label \in Lookup \cup {"upsert"},
             SureOfChat(n, label) => SureOfChat(j, pc[p]) \/ HasRow(j.chat)
      PROVE  ProcsHouse'
  <2>1. pc[p] \in Lookup \cup {"upsert"} => pc[p] = "upsert"
    BY <1>1 DEF Lookup
  <2>2. Houses(n, label)
    BY <1>2, <1>3, <1>4, <2>1, HousesMove
  <2>3. QED
    BY <1>3, <1>4, <2>2, StepHouses
<1>5. ASSUME Return(p), MessagesHoused, j.kind # "open" PROVE ProcsHouse'
  <2>1. PICK label \in {"idle", "down"} :
           job' = [job EXCEPT ![p] = NoJob] /\ pc' = [pc EXCEPT ![p] = label]
    BY <1>5, ReturnMoves
  <2>2. Houses(NoJob, label)
    BY <1>2, <1>3, <1>5, HousesEnd
  <2>3. QED
    BY <1>3, <1>5, <2>1, <2>2, StepHouses
<1>6. CASE ChatExists(p)
  <2> DEFINE n == IF chats[j.chatId].guid # NoGuid
                  THEN [j EXCEPT !.want = j.msg, !.after = "live"]
                  ELSE [j EXCEPT !.want = j.chat, !.after = "upsert", !.unread = 0, !.last = j.at]
  <2>1. job' = [job EXCEPT ![p] = n] /\ pc' = [pc EXCEPT ![p] = "select"] /\ MessagesHoused
    BY <1>6 DEF ChatExists, Goto, MessagesHoused, tables
  <2>2. /\ n.kind = j.kind /\ n.chat = j.chat /\ n.todo = j.todo
        /\ n.after = IF chats[j.chatId].guid # NoGuid THEN "live" ELSE "upsert"
    BY <1>2 DEF Job
  <2>3. j.kind = "live" /\ j.chatId # 0 /\ j.chat \in Chats
    BY <1>2, <1>6 DEF ChatExists, JobFits
  <2>4. identities[j.chat] = j.chatId
    BY <1>2, <2>3 DEF Agrees, Guids
  <2> HIDE DEF n
  <2>5. SureOfChat(n, "select") => HasRow(j.chat)
    BY <2>2, <2>3, <2>4 DEF SureOfChat, HasRow
  <2>6. pc[p] # "upsert"
    BY <1>6 DEF ChatExists
  <2>7. QED
    BY <1>4, <2>1, <2>2, <2>5, <2>6
<1>7. CASE UpsertChat(p)
  <2>1. PICK n : n = j
    OBVIOUS
  <2>2. j.chatId \in Ids /\ j.chat \in Chats /\ identities[j.chat] = j.chatId /\ j.chatId # 0
    <3>1. j.chatId # 0 /\ j.chat \in Chats /\ j.chatId \in Ids \cup {0}
      BY <1>2, <1>7 DEF UpsertChat, JobFits, Job
    <3>2. QED
      BY <1>2, <3>1 DEF Agrees, Guids
  <2>3. chats'[j.chatId].guid # NoGuid
    <3>1. chats'[j.chatId] = Upserted(chats[j.chatId], j.chat, j.unread, j.last)
      BY <1>7, <2>2 DEF UpsertChat, Typed, TypeOK
    <3>2. chats[j.chatId] \in ChatRow
      BY <2>2 DEF Typed, TypeOK
    <3>3. ASSUME NEW r \in ChatRow
          PROVE  Upserted(r, j.chat, j.unread, j.last).guid
                    = IF r.guid = NoGuid THEN j.chat ELSE r.guid
      BY DEF Upserted, ChatRow
    <3>4. QED
      BY <2>2, <3>1, <3>2, <3>3 DEF Guids
  <2>4. UNCHANGED <<identities, messages, job>> /\ pc' = [pc EXCEPT ![p] = "name"] /\ MessagesHoused
    BY <1>7 DEF UpsertChat, Goto, MessagesHoused
  <2>5. ASSUME NEW k \in Ids, messages'[k].guid # NoGuid, ~Homed(k)'
        PROVE  ToBeRepaired(n, "name", messages[k].chatId)'
    <3>1. messages[k].guid # NoGuid /\ messages[k].chatId \in Ids
      BY <2>4, <2>5, MessageFiledUnder
    <3>2. messages[k].chatId # j.chatId /\ ~Homed(k)
      BY <1>3, <2>3, <2>4, <2>5, <3>1 DEF Homed, GuidsKept
    <3>3. ToBeRepaired(j, "upsert", messages[k].chatId)
      BY <1>2, <1>3, <1>7, <3>1, <3>2 DEF Houses, UpsertChat
    <3>4. QED
      BY <2>1, <2>2, <2>4, <3>2, <3>3 DEF ToBeRepaired
  <2>6. j.kind \in {"live", "chat", "open"} /\ HasRow(j.chat)'
    <3>1. j.kind \in {"live", "chat", "open"}
      BY <1>2, <1>7 DEF UpsertChat, JobFits
    <3>2. HasRow(j.chat)'
      BY <2>2, <2>3, <2>4 DEF HasRow
    <3>3. QED
      BY <3>1, <3>2
  <2>7. Houses(n, "name")'
    BY <2>1, <2>4, <2>5, <2>6 DEF Houses, SureOfChat, Lookup, HasRow
  <2>8. job' = [job EXCEPT ![p] = n]
    BY <1>2, <2>1, <2>4
  <2>9. QED
    BY <1>3, <2>4, <2>7, <2>8, OneHouses
<1>8. CASE NameChat(p)
  <2>1. MessagesHoused /\ pc[p] = "name" /\ j.kind \in {"live", "chat", "open"}
    BY <1>2, <1>8 DEF NameChat, JobFits, MessagesHoused
  <2>2. CASE j.kind = "live"
    <3> DEFINE n == [j EXCEPT !.want = j.msg, !.after = "live"]
    <3>1. job' = [job EXCEPT ![p] = n] /\ pc' = [pc EXCEPT ![p] = "select"]
      BY <1>8, <2>2 DEF NameChat, Goto
    <3>2. n.kind = j.kind /\ n.chat = j.chat /\ n.todo = j.todo
      BY <1>2 DEF Job
    <3>3. SureOfChat(j, pc[p])
      BY <2>1, <2>2 DEF SureOfChat
    <3> HIDE DEF n
    <3>4. QED
      BY <1>4, <2>1, <3>1, <3>2, <3>3
  <2>3. CASE j.kind = "open"
    <3>1. job' = [job EXCEPT ![p] = j] /\ pc' = [pc EXCEPT ![p] = "next_orphan"]
      BY <1>2, <1>8, <2>3 DEF NameChat, Goto
    <3>2. ~SureOfChat(j, "next_orphan")
      BY <2>3 DEF SureOfChat
    <3>3. QED
      BY <1>4, <2>1, <3>1, <3>2
  <2>4. CASE j.kind = "chat"
    BY <1>5, <1>8, <2>1, <2>4 DEF NameChat
  <2>5. QED
    BY <2>1, <2>2, <2>3, <2>4
<1>9. ASSUME NEW row, PutMessage(p) \/ ApplyLive(p),
             messages' = [messages EXCEPT ![j.msgId] = row], row.chatId = j.chatId,
             Return(p), UNCHANGED identities
      PROVE  ProcsHouse'
  <2>1. j.kind \in {"live", "message"} /\ SureOfChat(j, pc[p]) /\ j.chatId # 0 /\ j.chat \in Chats
    BY <1>2, <1>9 DEF PutMessage, ApplyLive, JobFits, SureOfChat
  <2>2. HasRow(j.chat) /\ identities[j.chat] = j.chatId /\ j.chatId \in Ids
    BY <1>2, <2>1 DEF Houses, Agrees, Guids, Job
  <2>3. chats'[j.chatId].guid # NoGuid
    BY <1>3, <2>2 DEF HasRow, GuidsKept
  <2>4. \A k \in Ids : messages'[k] = IF k = j.msgId THEN row ELSE messages[k]
    BY <1>9 DEF Typed, TypeOK
  <2>5. MessagesHoused
    BY <1>9, <2>3, <2>4 DEF MessagesHoused, Homed
  <2>6. QED
    BY <1>5, <1>9, <2>1, <2>5
<1>10. ASSUME NEW r, NEW at PROVE Merged(r, j.msg, j.chatId, at).chatId = j.chatId
  BY DEF Merged
<1>11. CASE PutMessage(p)
  <2> DEFINE new == Merged(messages[j.msgId], j.msg, j.chatId, j.at)
  <2>1. Return(p) /\ UNCHANGED identities /\ messages' = [messages EXCEPT ![j.msgId] = new]
    BY <1>11 DEF PutMessage
  <2>2. new.chatId = j.chatId
    BY <1>10
  <2> HIDE DEF new
  <2>3. QED
    BY <1>9, <1>11, <2>1, <2>2
<1>12. CASE ApplyLive(p)
  <2> DEFINE new == Merged(messages[j.msgId], j.msg, j.chatId, j.at)
  <2>1. Return(p) /\ UNCHANGED identities /\ messages' = [messages EXCEPT ![j.msgId] = new]
    BY <1>12 DEF ApplyLive
  <2>2. new.chatId = j.chatId
    BY <1>10
  <2> HIDE DEF new
  <2>3. QED
    BY <1>9, <1>12, <2>1, <2>2
<1>13. CASE MarkRead(p)
  <2>1. Return(p) /\ MessagesHoused
    BY <1>13 DEF MarkRead, MessagesHoused
  <2>2. j.kind # "open"
    BY <1>2, <1>13 DEF MarkRead, JobFits
  <2>3. QED
    BY <1>5, <2>1, <2>2
<1>14. QED
  BY <1>6, <1>7, <1>8, <1>11, <1>12, <1>13

LEMMA OpenHouses ==
    ASSUME Typed, Typed', TablesFit, ProcsFit, ProcsHouse, NEW p \in Procs,
           RebuildChats(p) \/ RebuildMessages(p) \/ FindOrphans(p) \/ RepairOrphan(p)
              \/ FinishOpen(p)
    PROVE  ProcsHouse'
<1> DEFINE j == job[p]
<1>1. Statement(p) /\ MessagesHoused
        /\ pc[p] \in {"rebuild_chats", "rebuild_messages", "find_orphans", "next_orphan"}
  <2>1. Statement(p) /\ UNCHANGED messages
          /\ pc[p] \in {"rebuild_chats", "rebuild_messages", "find_orphans", "next_orphan"}
    BY Zenon DEF RebuildChats, RebuildMessages, FindOrphans, RepairOrphan, FinishOpen, Statement,
                 tables
  <2>2. QED
    BY <2>1 DEF MessagesHoused
<1>2. j \in Job /\ j.kind = "open" /\ Houses(j, pc[p]) /\ job = [job EXCEPT ![p] = j]
  BY <1>1 DEF Typed, TypeOK, JobsFit, JobFits, ProcsHouse
<1>3. IdsKept /\ GuidsKept
  BY <1>1, RowsStay
<1>4. ASSUME NEW n, NEW label, job' = [job EXCEPT ![p] = n], pc' = [pc EXCEPT ![p] = label],
             Houses(n, label)
      PROVE  ProcsHouse'
  BY <1>1, <1>3, <1>4, StepHouses
<1>5. CASE RebuildChats(p) \/ RebuildMessages(p)
  <2>1. PICK label \in {"rebuild_messages", "find_orphans"} :
           job' = [job EXCEPT ![p] = j] /\ pc' = [pc EXCEPT ![p] = label]
    BY <1>2, <1>5 DEF RebuildChats, RebuildMessages, Goto
  <2>2. Houses(j, label)
    BY <1>2 DEF Houses, Repaired, SureOfChat
  <2>3. QED
    BY <1>4, <2>1, <2>2
<1>6. CASE FindOrphans(p)
  <2> DEFINE n == [j EXCEPT !.todo = Orphans]
  <2>1. job' = [job EXCEPT ![p] = n] /\ pc' = [pc EXCEPT ![p] = "next_orphan"]
    BY <1>6 DEF FindOrphans, Goto
  <2>2. n.kind = "open" /\ n.todo = Orphans
    BY <1>2 DEF Job
  <2> HIDE DEF n
  <2>3. Houses(n, "next_orphan")
    BY <2>2, OrphansFound DEF Houses, SureOfChat, ToBeRepaired
  <2>4. QED
    BY <1>4, <2>1, <2>3
<1>7. CASE RepairOrphan(p)
  <2> DEFINE next(o) == [j EXCEPT !.todo = j.todo \ {o}, !.chat = o.chat, !.chatId = 0,
                           !.unread = 0, !.last = o.last, !.want = o.chat, !.after = "upsert"]
  <2>1. PICK o \in j.todo : job' = [job EXCEPT ![p] = next(o)]
    BY <1>7, Zenon DEF RepairOrphan
  <2> DEFINE n == next(o)
  <2>2. n.kind = "open" /\ n.chat = o.chat /\ n.todo = j.todo \ {o}
    BY <1>2 DEF Job
  <2>3. job' = [job EXCEPT ![p] = n]
    BY <2>1
  <2>4. pc' = [pc EXCEPT ![p] = "select"] /\ pc[p] = "next_orphan"
    BY <1>7, Zenon DEF RepairOrphan, Goto
  <2> HIDE DEF n, next
  <2>5. ASSUME NEW i, ToBeRepaired(j, "next_orphan", i) PROVE ToBeRepaired(n, "select", i)
    <3>1. \E r \in j.todo : identities[r.chat] = i
      BY <2>5 DEF ToBeRepaired, Lookup
    <3>2. QED
      BY <2>2, <3>1 DEF ToBeRepaired, Lookup
  <2>6. Houses(n, "select")
    BY <1>2, <2>2, <2>4, <2>5 DEF Houses, SureOfChat, Repaired
  <2>7. QED
    BY <1>4, <2>3, <2>4, <2>6
<1>8. CASE FinishOpen(p)
  <2>1. PICK label \in {"idle", "down"} :
           job' = [job EXCEPT ![p] = NoJob] /\ pc' = [pc EXCEPT ![p] = label]
    BY <1>8, ReturnMoves DEF FinishOpen
  <2>2. pc[p] = "next_orphan" /\ j.todo = {} /\ Repaired(pc[p])
    BY <1>8 DEF FinishOpen, Repaired
  <2>3. Houses(NoJob, label)
    BY <1>2, <2>2, HousesEnd
  <2>4. QED
    BY <1>4, <2>1, <2>3
<1>9. QED
  BY <1>5, <1>6, <1>7, <1>8

LEMMA StopHouses ==
    ASSUME Typed, Typed', TablesFit, ProcsFit, ProcsHouse, NEW p \in Procs,
           Open(p) \/ Abandon(p) \/ Crash
    PROVE  ProcsHouse'
<1>1. UNCHANGED tables
  BY Zenon DEF Open, Abandon, Crash, Start
<1>2. IdsKept /\ GuidsKept /\ MessagesHoused
  BY <1>1 DEF tables, IdsKept, GuidsKept, MessagesHoused
<1>3. Houses(NoJob, "down")
  BY DEF Houses, Repaired, SureOfChat, NoJob
<1>4. CASE Open(p)
  <2> DEFINE j == [NoJob EXCEPT !.kind = "open"]
  <2>1. job' = [job EXCEPT ![p] = j] /\ pc' = [pc EXCEPT ![p] = "rebuild_chats"]
    BY <1>4 DEF Open, Start, Goto
  <2>2. j.kind = "open"
    BY DEF NoJob
  <2>3. Houses(j, "rebuild_chats")
    BY <2>2 DEF Houses, Repaired, SureOfChat
  <2> HIDE DEF j
  <2>4. QED
    BY <1>2, <2>1, <2>3, StepHouses
<1>5. CASE Abandon(p)
  <2>1. job' = [job EXCEPT ![p] = NoJob]
    BY <1>5 DEF Abandon
  <2>2. CASE job[p].kind = "open"
    <3>1. pc' = [pc EXCEPT ![p] = "down"]
      BY <1>5, <2>2 DEF Abandon, Goto
    <3>2. QED
      BY <1>2, <1>3, <2>1, <3>1, StepHouses
  <2>3. CASE job[p].kind # "open"
    <3>1. pc' = [pc EXCEPT ![p] = "idle"] /\ pc[p] \notin {"down", "idle"}
      BY <1>5, <2>3 DEF Abandon, Goto
    <3>2. Repaired(pc[p]) /\ Houses(job[p], pc[p])
      BY <2>3, <3>1 DEF Typed, JobsFit, JobFits, ProcsHouse, Repaired
    <3>3. Houses(NoJob, "idle")
      BY <2>3, <3>2, HousesEnd
    <3>4. QED
      BY <1>2, <2>1, <3>1, <3>3, StepHouses
  <2>4. QED
    BY <2>2, <2>3
<1>6. CASE Crash
  <2>1. job' = [job EXCEPT !["daemon"] = NoJob] /\ pc' = [pc EXCEPT !["daemon"] = "down"]
    BY <1>6 DEF Crash, Goto
  <2>2. "daemon" \in Procs
    BY DEF Procs
  <2>3. QED
    BY <1>2, <1>3, <2>1, <2>2, StepHouses
<1>7. QED
  BY <1>4, <1>5, <1>6

LEMMA RequestHouses ==
    ASSUME Typed, Typed', TablesFit, ProcsFit, ProcsHouse, Request
    PROVE  ProcsHouse'
<1> USE GuidAssumption, IdAssumption
<1>1. "daemon" \in Procs
  BY DEF Procs
<1>2. ASSUME NEW j, NEW label \in {"select", "upsert", "unread"}, Start("daemon", j, label),
             pc["daemon"] = "idle",
             j.kind \in {"live", "message", "chat", "read"},
             j.kind = "live" => label = "select" /\ j.after = "exists",
             j.kind = "message" => HasRow(j.chat)
      PROVE  ProcsHouse'
  <2>1. UNCHANGED tables /\ job' = [job EXCEPT !["daemon"] = j] /\ pc' = [pc EXCEPT !["daemon"] = label]
    BY <1>2 DEF Start, Goto
  <2>2. IdsKept /\ GuidsKept /\ MessagesHoused
    BY <2>1 DEF tables, IdsKept, GuidsKept, MessagesHoused
  <2>3. \A k \in Ids : messages[k].guid # NoGuid => Homed(k)
    BY <1>1, <1>2 DEF ProcsHouse, Houses, Repaired, ToBeRepaired
  <2>4. Houses(j, label)
    BY <1>2, <2>3 DEF Houses, SureOfChat
  <2>5. QED
    BY <1>1, <2>1, <2>2, <2>4, StepHouses
<1>3. ASSUME NEW m \in Msgs, NEW c \in Chats, NEW at, ApplyDomainMessage(m, c, at) PROVE ProcsHouse'
  <2> DEFINE j == [NoJob EXCEPT !.kind = "live", !.msg = m, !.chat = c,
                     !.at = at, !.want = c, !.after = "exists"]
  <2>1. Start("daemon", j, "select") /\ pc["daemon"] = "idle"
    BY <1>3 DEF ApplyDomainMessage
  <2>2. j.kind = "live" /\ j.after = "exists"
    BY DEF NoJob
  <2> HIDE DEF j
  <2>3. QED
    BY <1>2, <2>1, <2>2
<1>4. ASSUME NEW m \in Msgs, NEW c \in Chats, NEW at, UpsertDomainMessage(m, c, at) PROVE ProcsHouse'
  <2> DEFINE j == [NoJob EXCEPT !.kind = "message", !.msg = m, !.chat = c,
                     !.at = at, !.want = c, !.after = "want_msg"]
  <2>1. Start("daemon", j, "select") /\ pc["daemon"] = "idle"
        /\ \E i \in Ids : chats[i].guid = c
    BY <1>4 DEF UpsertDomainMessage
  <2>2. j.kind = "message" /\ j.chat = c /\ c \in Guids
    BY DEF NoJob, Guids
  <2>3. AllNamed
    BY <1>1, <2>1 DEF ProcsFit, InOrder
  <2>4. HasRow(c)
    BY <2>1, <2>2, <2>3 DEF AllNamed, Named, HasRow, Ids
  <2> HIDE DEF j
  <2>5. QED
    BY <1>2, <2>1, <2>2, <2>4
<1>5. ASSUME NEW c, NEW n, NEW t, UpsertDomainChat(c, n, t) PROVE ProcsHouse'
  <2> DEFINE j == [NoJob EXCEPT !.kind = "chat", !.chat = c, !.unread = n,
                     !.last = t, !.want = c, !.after = "upsert"]
  <2>1. Start("daemon", j, "select") /\ pc["daemon"] = "idle"
    BY <1>5 DEF UpsertDomainChat
  <2>2. j.kind = "chat"
    BY DEF NoJob
  <2> HIDE DEF j
  <2>3. QED
    BY <1>2, <2>1, <2>2
<1>6. ASSUME NEW i \in Ids, RenameChat(i) PROVE ProcsHouse'
  <2> DEFINE j == [NoJob EXCEPT !.kind = "chat", !.chat = chats[i].guid, !.chatId = i,
                     !.unread = chats[i].rawUnread, !.last = chats[i].rawLast]
  <2>1. Start("daemon", j, "upsert") /\ pc["daemon"] = "idle"
    BY <1>6 DEF RenameChat
  <2>2. j.kind = "chat"
    BY DEF NoJob
  <2> HIDE DEF j
  <2>3. QED
    BY <1>2, <2>1, <2>2
<1>7. ASSUME NEW i \in Ids, ReadChat(i) PROVE ProcsHouse'
  <2> DEFINE j == [NoJob EXCEPT !.kind = "read", !.chatId = i, !.last = chats[i].rawLast]
  <2>1. Start("daemon", j, "unread") /\ pc["daemon"] = "idle"
    BY <1>7 DEF ReadChat
  <2>2. j.kind = "read"
    BY DEF NoJob
  <2> HIDE DEF j
  <2>3. QED
    BY <1>2, <2>1, <2>2
<1>8. QED
  BY <1>3, <1>4, <1>5, <1>6, <1>7 DEF Request

\* The argument about orphans, for every instance.
LEMMA HousesInvariant == Spec => []ProcsHouse
<1>1. Init => ProcsHouse
  BY DEF Init, ProcsHouse, Houses, Repaired, SureOfChat, NoJob
<1>2. Typed /\ Typed' /\ TablesFit /\ ProcsFit /\ ProcsHouse /\ [Next]_vars => ProcsHouse'
  <2> SUFFICES ASSUME Typed, Typed', TablesFit, ProcsFit, ProcsHouse, [Next]_vars
               PROVE  ProcsHouse'
    OBVIOUS
  <2>1. CASE Request
    BY <2>1, RequestHouses
  <2>2. ASSUME NEW p \in Procs, Open(p) \/ Statement(p) \/ Abandon(p)
        PROVE  ProcsHouse'
    BY <2>2, StopHouses, LookupHouses, RowHouses, OpenHouses DEF Statement
  <2>3. CASE Crash
    BY <2>3, StopHouses DEF Procs
  <2>4. CASE UNCHANGED vars
    BY <2>4 DEF vars, ProcsHouse, Houses, SureOfChat, ToBeRepaired, Homed, HasRow
  <2>5. QED
    BY <2>1, <2>2, <2>3, <2>4 DEF Next
<1>3. QED
  BY <1>1, <1>2, CacheInvariant, PTL DEF Spec

\* Whatever an earlier build left, whatever was cut short: once the daemon's open
\* has returned, no stored message is one that clients cannot reach by a chat.
THEOREM EveryMessageHasItsChat == Spec => []NoOrphanWhenServing
<1>1. ProcsHouse => NoOrphanWhenServing
  BY DEF ProcsHouse, Houses, Repaired, ToBeRepaired, Homed, NoOrphanWhenServing, Procs
<1>2. QED
  BY <1>1, HousesInvariant, PTL

-----------------------------------------------------------------------------
(* The cache implements UnreadLedger, for every instance: what a delivery  *)
(* stores for the first time it counts, in the chat it names, and nothing  *)
(* is counted twice, although the count is kept in rows that other         *)
(* statements rewrite, and twice in each.                                  *)
(*                                                                         *)
(* Three more facts are needed.  The column and the copy in raw_json hold  *)
(* the same count, so an upsert that keeps the column changes nothing a    *)
(* client sees; the chat mark_read is about still has its row when the     *)
(* second statement runs; and only the daemon delivers, so that the stub   *)
(* either process inserts meanwhile has no unread messages.                *)

CacheInv == Typed /\ TablesFit /\ ProcsFit

SameCount == \A i \in Ids : chats[i].rawUnread = chats[i].unread
ReadHasRow ==
    \A p \in Procs : pc[p] = "unread" =>
        job[p].chatId \in Ids /\ chats[job[p].chatId].guid # NoGuid

-----------------------------------------------------------------------------
(* What the statements that write rows do to them.                          *)

LEMMA ReadyForWrite ==
    ASSUME CacheInv, NEW p \in Procs, pc[p] \in {"upsert", "put", "live", "unread"}
    PROVE  /\ AllNamed
           /\ job[p] \in Job /\ JobFits(job[p], pc[p]) /\ Agrees(identities, job[p])
BY DEF CacheInv, Typed, TypeOK, JobsFit, ProcsFit, InOrder

LEMMA UpsertChatRow ==
    ASSUME CacheInv, SameCount, NEW p \in Procs, UpsertChat(p)
    PROVE  \E i \in Ids, c \in Chats :
              /\ chats[i].guid \in {NoGuid, c} /\ chats'[i].guid = c
              /\ chats'[i].unread = chats'[i].rawUnread
              /\ chats'[i].rawUnread = IF chats[i].guid = c THEN chats[i].rawUnread
                                                            ELSE job[p].unread
              /\ \A k \in Ids \ {i} : chats'[k] = chats[k]
              /\ UNCHANGED messages
<1> DEFINE j == job[p]
           i == j.chatId
<1> USE GuidAssumption, IdAssumption
<1>1. j \in Job /\ i \in Ids /\ j.chat \in Chats /\ identities[j.chat] = i /\ AllNamed
  <2>1. pc[p] = "upsert"
    BY DEF UpsertChat
  <2>2. j \in Job /\ i # 0 /\ j.chat \in Chats /\ Agrees(identities, j) /\ AllNamed
    BY <2>1, ReadyForWrite DEF JobFits
  <2>3. i \in Ids /\ j.chat # NoGuid
    BY <2>2 DEF Job, Guids
  <2>4. QED
    BY <2>2, <2>3 DEF Agrees
<1>2. chats[i] \in ChatRow /\ chats[i].guid \in Chats \cup {NoGuid} /\ j.unread \in Nat
  BY <1>1 DEF CacheInv, Typed, TypeOK, ChatRow, Job
<1>3. chats[i].guid \in {NoGuid, j.chat}
  <2>1. ASSUME chats[i].guid # NoGuid PROVE identities[chats[i].guid] = i /\ i # 0
    BY <1>1, <2>1 DEF AllNamed, Named, Ids
  <2>2. QED
    BY <1>1, <1>2, <2>1 DEF CacheInv, TablesFit, Distinct, Guids
<1>4. /\ chats'[i] = Upserted(chats[i], j.chat, j.unread, j.last)
      /\ \A k \in Ids \ {i} : chats'[k] = chats[k]
      /\ UNCHANGED messages
  BY <1>1 DEF UpsertChat, CacheInv, Typed, TypeOK
<1>5. chats[i].rawUnread = chats[i].unread
  BY <1>1 DEF SameCount
<1>6. /\ chats'[i].guid = j.chat
      /\ chats'[i].unread = chats'[i].rawUnread
      /\ chats'[i].rawUnread = IF chats[i].guid = j.chat THEN chats[i].rawUnread ELSE j.unread
  <2>1. CASE chats[i].guid = NoGuid
    BY <1>1, <1>4, <2>1 DEF Upserted, Guids
  <2>2. CASE chats[i].guid = j.chat
    BY <1>1, <1>2, <1>4, <1>5, <2>2 DEF Upserted, Guids, ChatRow
  <2>3. QED
    BY <1>3, <2>1, <2>2
<1>7. QED
  BY <1>1, <1>2, <1>3, <1>4, <1>6

\* The message of put and live has at most its own row, and its chat's id is
\* that of no other chat.
LEMMA MessageSlot ==
    ASSUME CacheInv, NEW p \in Procs, pc[p] \in {"put", "live"}
    PROVE  /\ job[p].msgId \in Ids /\ job[p].msg \in Msgs /\ job[p].chatId \in Ids
           /\ messages[job[p].msgId].guid \in {NoGuid, job[p].msg}
           /\ job[p].chat \in Chats /\ chats[job[p].chatId].guid \in {NoGuid, job[p].chat}
<1> DEFINE j == job[p]
<1> USE GuidAssumption, IdAssumption
<1>1. /\ j \in Job /\ Agrees(identities, j) /\ AllNamed /\ j.msgId # 0 /\ j.chatId # 0
      /\ j.msg \in Msgs /\ j.chat \in ChatsOf[j.msg]
  BY ReadyForWrite DEF JobFits
<1>2. j.msgId \in Ids /\ j.chatId \in Ids /\ j.chat \in Chats /\ j.msgId # 0 /\ j.chatId # 0
  BY <1>1 DEF Job
<1>3. identities[j.msg] = j.msgId /\ identities[j.chat] = j.chatId
  BY <1>1, <1>2 DEF Agrees, Guids
<1>4. /\ messages[j.msgId].guid \in Msgs \cup {NoGuid} /\ chats[j.chatId].guid \in Chats \cup {NoGuid}
  BY <1>2 DEF CacheInv, Typed, TypeOK, ChatRow, MessageRow
<1>5. messages[j.msgId].guid # NoGuid => messages[j.msgId].guid = j.msg
  BY <1>1, <1>2, <1>3, <1>4 DEF AllNamed, Named, CacheInv, TablesFit, Distinct, Guids
<1>6. chats[j.chatId].guid # NoGuid => chats[j.chatId].guid = j.chat
  BY <1>1, <1>2, <1>3, <1>4 DEF AllNamed, Named, CacheInv, TablesFit, Distinct, Guids
<1>7. QED
  BY <1>1, <1>2, <1>5, <1>6

LEMMA PutMessageRow ==
    ASSUME CacheInv, NEW p \in Procs, PutMessage(p)
    PROVE  /\ messages'[job[p].msgId].guid = job[p].msg
           /\ \A k \in Ids \ {job[p].msgId} : messages'[k] = messages[k]
           /\ UNCHANGED chats
<1>1. job[p].msgId \in Ids
  BY MessageSlot DEF PutMessage
<1>2. QED
  BY <1>1 DEF PutMessage, Merged, CacheInv, Typed, TypeOK

LEMMA ApplyLiveRows ==
    ASSUME CacheInv, SameCount, NEW p \in Procs, ApplyLive(p)
    PROVE  LET j == job[p]
               new == messages[j.msgId].guid = NoGuid /\ j.msg \notin FromMe
           IN  /\ messages'[j.msgId].guid = j.msg
               /\ \A k \in Ids \ {j.msgId} : messages'[k] = messages[k]
               /\ \A k \in Ids \ {j.chatId} : chats'[k] = chats[k]
               /\ chats[j.chatId].guid = NoGuid => chats'[j.chatId] = chats[j.chatId]
               /\ chats[j.chatId].guid # NoGuid =>
                     /\ chats'[j.chatId].guid = chats[j.chatId].guid
                     /\ chats'[j.chatId].unread = chats'[j.chatId].rawUnread
                     /\ chats'[j.chatId].rawUnread
                           = chats[j.chatId].rawUnread + (IF new THEN 1 ELSE 0)
<1> DEFINE j == job[p]
           old == messages[j.msgId]
           row == Merged(old, j.msg, j.chatId, j.at)
           new == messages[j.msgId].guid = NoGuid /\ j.msg \notin FromMe
<1>1. j.msgId \in Ids /\ j.chatId \in Ids
  BY MessageSlot DEF ApplyLive
<1>2. messages' = [messages EXCEPT ![j.msgId] = row] /\ row.guid = j.msg
  BY DEF ApplyLive, Merged
<1>3. /\ messages'[j.msgId].guid = j.msg
      /\ \A k \in Ids \ {j.msgId} : messages'[k] = messages[k]
  BY <1>1, <1>2 DEF CacheInv, Typed, TypeOK
<1>4. chats' = IF chats[j.chatId].guid = NoGuid THEN chats
               ELSE [chats EXCEPT ![j.chatId] = Bumped(chats[j.chatId], row.at, new)]
  BY DEF ApplyLive
<1>5. chats[j.chatId] \in ChatRow
  BY <1>1 DEF CacheInv, Typed, TypeOK
<1> HIDE DEF row, new
<1>6. LET b == Bumped(chats[j.chatId], row.at, new)
      IN  /\ b.guid = chats[j.chatId].guid /\ b.unread = b.rawUnread
          /\ b.rawUnread = chats[j.chatId].rawUnread + (IF new THEN 1 ELSE 0)
  BY <1>5 DEF Bumped, ChatRow
<1>7. /\ \A k \in Ids \ {j.chatId} : chats'[k] = chats[k]
      /\ chats[j.chatId].guid = NoGuid => chats'[j.chatId] = chats[j.chatId]
      /\ chats[j.chatId].guid # NoGuid =>
            chats'[j.chatId] = Bumped(chats[j.chatId], row.at, new)
  BY <1>1, <1>4 DEF CacheInv, Typed, TypeOK
<1>8. QED
  BY <1>3, <1>6, <1>7 DEF new

LEMMA MarkReadRow ==
    ASSUME CacheInv, ReadHasRow, NEW p \in Procs, MarkRead(p)
    PROVE  \E i \in Ids, c \in Chats :
              /\ chats[i].guid = c /\ chats'[i].guid = c
              /\ chats'[i].unread = 0 /\ chats'[i].rawUnread = 0
              /\ \A k \in Ids \ {i} : chats'[k] = chats[k]
              /\ UNCHANGED messages
<1> DEFINE i == job[p].chatId
<1>1. i \in Ids /\ chats[i].guid # NoGuid
  BY DEF MarkRead, ReadHasRow
<1>2. chats[i] \in ChatRow /\ chats[i].guid \in Chats
  BY <1>1 DEF CacheInv, Typed, TypeOK, ChatRow
<1>3. /\ chats'[i] = [chats[i] EXCEPT !.unread = 0, !.rawUnread = 0, !.rawLast = job[p].last]
      /\ \A k \in Ids \ {i} : chats'[k] = chats[k]
      /\ UNCHANGED messages
  BY <1>1 DEF MarkRead, CacheInv, Typed, TypeOK
<1>4. chats'[i].guid = chats[i].guid /\ chats'[i].unread = 0 /\ chats'[i].rawUnread = 0
  BY <1>2, <1>3 DEF ChatRow
<1>5. QED
  BY <1>1, <1>2, <1>3, <1>4

-----------------------------------------------------------------------------
(* The two facts are invariants.                                            *)

LEMMA InitCounts == Init => SameCount /\ ReadHasRow
BY DEF Init, SameCount, ReadHasRow, NoChatRow, Procs

\* No step takes a chat row away, and the only one that begins the second
\* statement of mark_read has just found the row.
LEMMA CountsKept ==
    ASSUME CacheInv, SameCount, ReadHasRow, [Next]_vars
    PROVE  SameCount' /\ ReadHasRow'
<1> DEFINE RowsKept == \A i \in Ids : chats[i].guid # NoGuid => chats'[i].guid # NoGuid
           NoneRead == \A p \in Procs : pc'[p] = "unread" => pc[p] = "unread" /\ job'[p].chatId = job[p].chatId
<1> USE GuidAssumption, IdAssumption
<1>0. /\ pc \in [Procs -> PCs] /\ job \in [Procs -> Job]
      /\ NoGuid \notin Chats
  BY DEF CacheInv, Typed, TypeOK, Guids
<1>1. ASSUME RowsKept, NoneRead PROVE ReadHasRow'
  BY <1>1 DEF ReadHasRow
<1>2. ASSUME UNCHANGED chats, NoneRead PROVE SameCount' /\ ReadHasRow'
  BY <1>1, <1>2 DEF SameCount
<1>3. ASSUME NEW p \in Procs, NEW label, label # "unread", pc' = [pc EXCEPT ![p] = label],
             \E n : job' = [job EXCEPT ![p] = n]
      PROVE  NoneRead
  BY <1>0, <1>3
<1>4. ASSUME NEW p \in Procs, pc' = [pc EXCEPT ![p] = "name"] \/ Return(p), UNCHANGED job \/ Return(p)
      PROVE  NoneRead
  BY <1>0, <1>4 DEF Return, Goto
<1>5. CASE Request
  <2>1. UNCHANGED chats /\ UNCHANGED messages
    BY <1>5 DEF Request, ApplyDomainMessage, UpsertDomainMessage, UpsertDomainChat, RenameChat,
                ReadChat, Start, tables
  <2>2. ASSUME NEW i \in Ids, ReadChat(i) PROVE ReadHasRow'
    <3> DEFINE n == [NoJob EXCEPT !.kind = "read", !.chatId = i, !.last = chats[i].rawLast]
    <3>1. n.chatId = i
      BY DEF NoJob
    <3>2. /\ chats[i].guid # NoGuid
          /\ job' = [job EXCEPT !["daemon"] = n] /\ pc' = [pc EXCEPT !["daemon"] = "unread"]
      BY <2>2 DEF ReadChat, Start, Goto
    <3> HIDE DEF n
    <3>3. QED
      BY <1>0, <2>1, <3>1, <3>2 DEF ReadHasRow
  <2>3. ASSUME NEW n, NEW label \in {"select", "upsert"}, Start("daemon", n, label)
        PROVE  NoneRead
    BY <1>3, <2>3 DEF Start, Goto, Procs
  <2>4. CASE \E i \in Ids : ReadChat(i)
    BY <2>1, <2>2, <2>4 DEF SameCount
  <2>5. CASE ~ \E i \in Ids : ReadChat(i)
    <3>1. \E n : \E label \in {"select", "upsert"} : Start("daemon", n, label)
      BY <1>5, <2>5 DEF Request, ApplyDomainMessage, UpsertDomainMessage, UpsertDomainChat, RenameChat
    <3>2. NoneRead
      BY <2>3, <3>1
    <3>3. QED
      BY <1>2, <2>1, <3>2
  <2>6. QED
    BY <2>4, <2>5
<1>6. ASSUME NEW p \in Procs, UpsertChat(p) PROVE SameCount' /\ ReadHasRow'
  <2>1. SameCount' /\ RowsKept
    BY <1>0, <1>6, UpsertChatRow DEF SameCount
  <2>2. NoneRead
    BY <1>4, <1>6 DEF UpsertChat, Goto
  <2>3. QED
    BY <1>1, <2>1, <2>2
<1>7. ASSUME NEW p \in Procs, ApplyLive(p) PROVE SameCount' /\ ReadHasRow'
  <2>1. SameCount' /\ RowsKept
    BY <1>0, <1>7, ApplyLiveRows DEF SameCount
  <2>2. NoneRead
    BY <1>4, <1>7 DEF ApplyLive
  <2>3. QED
    BY <1>1, <2>1, <2>2
<1>8. ASSUME NEW p \in Procs, MarkRead(p) PROVE SameCount' /\ ReadHasRow'
  <2>1. SameCount' /\ RowsKept
    BY <1>0, <1>8, MarkReadRow DEF SameCount
  <2>2. NoneRead
    BY <1>4, <1>8 DEF MarkRead
  <2>3. QED
    BY <1>1, <2>1, <2>2
<1>9. ASSUME NEW p \in Procs, pc[p] \in Lookup, NEW i, Found(p, i) PROVE NoneRead
  <2>1. job[p].after # "unread"
    BY <1>0 DEF Job
  <2>2. QED
    BY <1>3, <1>9, <2>1 DEF Found, Goto
<1>10. ASSUME NEW p \in Procs, SelectIdentity(p) \/ TryInsertIdentity(p) \/ ReselectIdentity(p)
                               \/ NextCandidate(p)
       PROVE  NoneRead
  <2>1. CASE \E i : Found(p, i)
    BY <1>9, <1>10, <2>1 DEF SelectIdentity, TryInsertIdentity, ReselectIdentity, NextCandidate, Lookup
  <2>2. CASE ~ \E i : Found(p, i)
    <3>1. \E label \in {"insert", "reselect", "max"} : pc' = [pc EXCEPT ![p] = label]
      BY <1>10, <2>2 DEF SelectIdentity, TryInsertIdentity, ReselectIdentity, NextCandidate, Goto
    <3>2. \A q \in Procs : job'[q].chatId = job[q].chatId
      BY <1>0, <1>10, <2>2 DEF SelectIdentity, TryInsertIdentity, ReselectIdentity, NextCandidate, Job
    <3>3. QED
      BY <1>0, <3>1, <3>2
  <2>3. QED
    BY <2>1, <2>2
<1>11. ASSUME NEW p \in Procs, PutMessage(p) \/ NameChat(p) \/ FinishOpen(p) PROVE NoneRead
  BY <1>0, <1>11 DEF PutMessage, NameChat, FinishOpen, Return, Goto
<1>12. ASSUME NEW p \in Procs, ChatExists(p) \/ RepairOrphan(p) \/ RebuildChats(p) \/ RebuildMessages(p)
                               \/ FindOrphans(p) \/ Open(p) \/ Abandon(p)
       PROVE  NoneRead
  BY <1>0, <1>12 DEF ChatExists, RepairOrphan, RebuildChats, RebuildMessages, FindOrphans, Open,
                     Abandon, Start, Goto
<1>13. CASE Crash
  BY <1>0, <1>2, <1>3, <1>13 DEF Crash, Goto, tables, Procs
<1>14. CASE UNCHANGED vars
  BY <1>2, <1>14 DEF vars
<1>15. ASSUME NEW p \in Procs, Open(p) \/ Statement(p) \/ Abandon(p),
              ~ UpsertChat(p), ~ ApplyLive(p), ~ MarkRead(p)
       PROVE  SameCount' /\ ReadHasRow'
  <2>1. UNCHANGED chats
    BY <1>15 DEF Statement, SelectIdentity, TryInsertIdentity, ReselectIdentity, NextCandidate,
                 ChatExists, NameChat, PutMessage, RebuildChats, RebuildMessages, FindOrphans,
                 RepairOrphan, FinishOpen, Open, Abandon, Start, tables
  <2>2. NoneRead
    BY <1>10, <1>11, <1>12, <1>15 DEF Statement
  <2>3. QED
    BY <1>2, <2>1, <2>2
<1>16. QED
  BY <1>5, <1>6, <1>7, <1>8, <1>13, <1>14, <1>15 DEF Next

LEMMA CountInvariant == Spec => [](CacheInv /\ SameCount /\ ReadHasRow)
<1>1. Spec => []CacheInv
  BY CacheInvariant, PTL DEF CacheInv
<1>2. CacheInv /\ SameCount /\ ReadHasRow /\ [Next]_vars => (SameCount /\ ReadHasRow)'
  BY CountsKept
<1>3. QED
  BY <1>1, <1>2, InitCounts, PTL DEF Spec

-----------------------------------------------------------------------------
(* What a change of rows is to the ledger.                                  *)

LEMMA RowIs ==
    ASSUME OneRowPerGuid, NEW i \in Ids, NEW c \in Chats, chats[i].guid = c
    PROVE  c \in Listed /\ RowOf(c) = i
<1>1. c # NoGuid
  BY GuidAssumption DEF Guids
<1>2. QED
  BY <1>1 DEF OneRowPerGuid, RowOf, Listed

LEMMA RowIsNext ==
    ASSUME OneRowPerGuid', NEW i \in Ids, NEW c \in Chats, chats'[i].guid = c
    PROVE  c \in Listed' /\ RowOf(c)' = i
<1>1. c # NoGuid
  BY GuidAssumption DEF Guids
<1>2. QED
  BY <1>1 DEF OneRowPerGuid, RowOf, Listed

\* Rows that keep their guid and the count in raw_json are the same ledger.
LEMMA SameLedger ==
    ASSUME OneRowPerGuid, OneRowPerGuid',
           \A i \in Ids : chats'[i].guid = chats[i].guid /\ chats'[i].rawUnread = chats[i].rawUnread
    PROVE  Listed' = Listed /\ Counts' = Counts
<1>1. Listed' = Listed
  BY DEF Listed
<1>2. ASSUME NEW c \in Chats, c \in Listed PROVE chats'[RowOf(c)'].rawUnread = chats[RowOf(c)].rawUnread
  <2>1. PICK i \in Ids : chats[i].guid = c
    BY <1>2 DEF Listed
  <2>2. RowOf(c) = i /\ RowOf(c)' = i
    BY <2>1, RowIs, RowIsNext
  <2>3. QED
    BY <2>2
<1>3. QED
  BY <1>1, <1>2 DEF Counts

\* One row is written, for chat c: the count of c is what the row now says.
LEMMA OneCountChanges ==
    ASSUME OneRowPerGuid, OneRowPerGuid', NEW i \in Ids, NEW c \in Chats,
           chats[i].guid \in {NoGuid, c}, chats'[i].guid = c,
           \A k \in Ids \ {i} : chats'[k] = chats[k]
    PROVE  /\ Listed' = Listed \cup {c}
           /\ Counts' = [Counts EXCEPT ![c] = chats'[i].rawUnread]
           /\ chats[i].guid = c => c \in Listed /\ Counts[c] = chats[i].rawUnread
           /\ chats[i].guid = NoGuid => c \notin Listed
<1> USE GuidAssumption DEF Guids
<1>0. ASSUME chats[i].guid = NoGuid, NEW k \in Ids, chats[k].guid = c PROVE FALSE
  <2>1. k # i /\ c # NoGuid
    BY <1>0
  <2>2. chats'[k].guid = c
    BY <1>0, <2>1
  <2>3. QED
    BY <2>1, <2>2 DEF OneRowPerGuid
<1>1. Listed' = Listed \cup {c}
  BY DEF Listed
<1>2. chats[i].guid = c => c \in Listed /\ Counts[c] = chats[i].rawUnread
  BY RowIs DEF Counts
<1>3. Counts'[c] = chats'[i].rawUnread
  <2>1. c \in Listed' /\ RowOf(c)' = i
    BY RowIsNext
  <2>2. QED
    BY <2>1 DEF Counts
<1>4. ASSUME NEW d \in Chats \ {c} PROVE Counts'[d] = Counts[d]
  <2>1. CASE d \in Listed
    <3>1. PICK k \in Ids : chats[k].guid = d
      BY <2>1 DEF Listed
    <3>2. k # i
      BY <3>1
    <3>3. chats'[k] = chats[k]
      BY <3>2
    <3>4. RowOf(d) = k /\ RowOf(d)' = k /\ d \in Listed'
      BY <3>1, <3>3, RowIs, RowIsNext
    <3>5. QED
      BY <2>1, <3>3, <3>4 DEF Counts
  <2>2. CASE d \notin Listed
    <3>1. d \notin Listed'
      BY <1>1, <2>2
    <3>2. QED
      BY <2>2, <3>1 DEF Counts
  <2>3. QED
    BY <2>1, <2>2
<1>5. Counts' = [d \in Chats |-> Counts'[d]] /\ Counts = [d \in Chats |-> Counts[d]]
  BY DEF Counts
<1>6. QED
  BY <1>0, <1>1, <1>2, <1>3, <1>4, <1>5 DEF Listed

\* One message row is written, for message m.
LEMMA OneKnown ==
    ASSUME OneRowPerGuid', NEW i \in Ids, NEW m \in Msgs,
           messages[i].guid \in {NoGuid, m}, messages'[i].guid = m,
           \A k \in Ids \ {i} : messages'[k] = messages[k]
    PROVE  /\ Known' = Known \cup {m}
           /\ messages[i].guid = m => m \in Known
           /\ messages[i].guid = NoGuid => m \notin Known
<1> USE GuidAssumption DEF Guids
<1>1. m # NoGuid
  OBVIOUS
<1>2. Known' = Known \cup {m}
  BY <1>1 DEF Known
<1>3. ASSUME messages[i].guid = NoGuid, NEW k \in Ids, messages[k].guid = m PROVE FALSE
  <2>1. k # i
    BY <1>1, <1>3
  <2>2. messages'[k].guid = m
    BY <1>3, <2>1
  <2>3. QED
    BY <1>1, <2>1, <2>2 DEF OneRowPerGuid
<1>4. QED
  BY <1>2, <1>3 DEF Known

-----------------------------------------------------------------------------
(* What the daemon has in hand.                                             *)

Errand(p, j, label) ==
    /\ label \in {"idle", "down"} => j.kind = "none"
    /\ p = "status" => j.kind \in {"none", "open"}
    /\ j.kind \in {"live", "open"} => j.unread = 0
Errands == \A p \in Procs : Errand(p, job[p], pc[p])

OthersWait(p) == \A q \in Procs \ {p} : job'[q] = job[q] /\ pc'[q] = pc[q]

\* p goes on with its operation; a delivery stays that of its message and chat.
GoesOn(p) ==
    /\ job'[p].kind = job[p].kind /\ pc'[p] \notin {"idle", "down"}
    /\ job[p].kind = "live" => job'[p].msg = job[p].msg /\ job'[p].chat = job[p].chat
    /\ job'[p].unread \in {0, job[p].unread}
    /\ OthersWait(p)

\* p has ended its operation.
Ends(p) == job'[p] = NoJob /\ OthersWait(p)

LEMMA GoingOn ==
    ASSUME Errands, NEW p \in Procs, GoesOn(p)
    PROVE  Errands' /\ UNCHANGED InHand
<1>1. \A q \in Procs : Errand(q, job'[q], pc'[q])
  <2> SUFFICES ASSUME NEW q \in Procs PROVE Errand(q, job'[q], pc'[q])
    OBVIOUS
  <2>1. Errand(q, job[q], pc[q])
    BY DEF Errands
  <2>2. CASE q = p
    BY <2>1, <2>2 DEF GoesOn, Errand
  <2>3. CASE q # p
    BY <2>1, <2>3 DEF GoesOn, OthersWait
  <2>4. QED
    BY <2>2, <2>3
<1>2. UNCHANGED InHand
  <2>1. CASE p = "daemon"
    BY <2>1 DEF GoesOn, InHand
  <2>2. CASE p # "daemon"
    BY <2>2 DEF GoesOn, OthersWait, InHand, Procs
  <2>3. QED
    BY <2>1, <2>2
<1>3. QED
  BY <1>1, <1>2 DEF Errands

LEMMA Ending ==
    ASSUME Errands, NEW p \in Procs, Ends(p)
    PROVE  /\ Errands'
           /\ p = "status" \/ job[p].kind # "live" => UNCHANGED InHand
           /\ p = "daemon" => InHand' = {}
<1>1. \A q \in Procs : Errand(q, job'[q], pc'[q])
  <2> SUFFICES ASSUME NEW q \in Procs PROVE Errand(q, job'[q], pc'[q])
    OBVIOUS
  <2>1. Errand(q, job[q], pc[q])
    BY DEF Errands
  <2>2. CASE q = p
    BY <2>2 DEF Ends, Errand, NoJob
  <2>3. CASE q # p
    BY <2>1, <2>3 DEF Ends, OthersWait
  <2>4. QED
    BY <2>2, <2>3
<1>2. p = "daemon" => InHand' = {}
  BY DEF Ends, InHand, NoJob
<1>3. p = "status" \/ job[p].kind # "live" => UNCHANGED InHand
  <2>1. CASE p = "daemon" /\ job[p].kind # "live"
    BY <1>2, <2>1 DEF InHand
  <2>2. CASE p = "status"
    BY <2>2 DEF Ends, OthersWait, InHand, Procs
  <2>3. QED
    BY <2>1, <2>2 DEF Procs
<1>4. QED
  BY <1>1, <1>2, <1>3 DEF Errands

\* A statement goes on, or is the last of its operation.
LEMMA FoundGoesOn ==
    ASSUME CacheInv, NEW p \in Procs, pc[p] \in Lookup, NEW i \in Ids, Found(p, i)
    PROVE  GoesOn(p)
<1> DEFINE j == job[p]
           k == IF j.want = j.chat THEN [j EXCEPT !.chatId = i, !.cand = 0]
                                   ELSE [j EXCEPT !.msgId = i, !.cand = 0]
           n == IF j.after = "want_msg" THEN [k EXCEPT !.want = j.msg, !.after = "put"]
                                        ELSE [k EXCEPT !.want = NoGuid, !.after = "none"]
           label == IF j.after = "want_msg" THEN "select" ELSE j.after
<1>1. j \in Job /\ (WantsChat(j) \/ WantsMessage(j))
  BY DEF CacheInv, Typed, TypeOK, JobsFit, JobFits
<1>2. job' = [job EXCEPT ![p] = n] /\ pc' = [pc EXCEPT ![p] = label]
  <2>1. CASE j.after = "want_msg"
    BY <2>1 DEF Found, Goto
  <2>2. CASE j.after # "want_msg"
    BY <2>2 DEF Found, Goto
  <2>3. QED
    BY <2>1, <2>2
<1>3. n.kind = j.kind /\ n.msg = j.msg /\ n.chat = j.chat /\ n.unread = j.unread
  BY <1>1 DEF Job
<1>4. label \notin {"idle", "down"}
  BY <1>1 DEF WantsChat, WantsMessage
<1> HIDE DEF n, label
<1>5. QED
  BY <1>2, <1>3, <1>4 DEF GoesOn, OthersWait, CacheInv, Typed, TypeOK

LEMMA StatementsMove ==
    ASSUME CacheInv, NEW p \in Procs, Statement(p)
    PROVE  GoesOn(p) \/ (Ends(p) /\ (job[p].kind = "live" => ApplyLive(p)))
<1> DEFINE j == job[p]
<1> USE GuidAssumption, IdAssumption
<1>0. j \in Job /\ JobFits(j, pc[p]) /\ job \in [Procs -> Job] /\ pc \in [Procs -> PCs]
  BY DEF CacheInv, Typed, TypeOK, JobsFit
<1>1. ASSUME NEW label \in PCs \ {"idle", "down"}, Goto(p, label), UNCHANGED job PROVE GoesOn(p)
  BY <1>0, <1>1 DEF Goto, GoesOn, OthersWait
<1>2. ASSUME NEW label \in PCs \ {"idle", "down"}, Goto(p, label), NEW n,
             job' = [job EXCEPT ![p] = n], n.kind = j.kind,
             j.kind = "live" => n.msg = j.msg /\ n.chat = j.chat, n.unread \in {0, j.unread}
      PROVE  GoesOn(p)
  BY <1>0, <1>2 DEF Goto, GoesOn, OthersWait
<1>3. ASSUME Return(p) PROVE Ends(p)
  BY <1>0, <1>3 DEF Return, Goto, Ends, OthersWait
<1>4. {"insert", "reselect", "max", "select", "name", "next_orphan", "rebuild_messages", "find_orphans"}
        \subseteq PCs \ {"idle", "down"}
  BY DEF PCs
<1>5. ASSUME pc[p] \in Lookup PROVE j.want \in Guids
  <2>1. j.msg \in Msgs \/ ~ WantsMessage(j)
    BY <1>0, <1>5 DEF JobFits, WantsMessage
  <2>2. QED
    BY <1>0, <1>5, <2>1 DEF JobFits, WantsMessage, WantsChat, Guids
<1>6. CASE SelectIdentity(p)
  <2>1. CASE identities[j.want] # 0
    <3>1. identities[j.want] \in Ids /\ pc[p] \in Lookup
      BY <1>5, <1>6, <2>1 DEF SelectIdentity, Lookup, CacheInv, Typed, TypeOK
    <3>2. QED
      BY <1>6, <2>1, <3>1, FoundGoesOn DEF SelectIdentity
  <2>2. CASE identities[j.want] = 0
    <3> DEFINE n == [j EXCEPT !.cand = StableId[j.want]]
    <3>1. job' = [job EXCEPT ![p] = n] /\ Goto(p, "insert")
      BY <1>0, <1>6, <2>2 DEF SelectIdentity
    <3>2. n.kind = j.kind /\ n.msg = j.msg /\ n.chat = j.chat /\ n.unread = j.unread
      BY <1>0 DEF Job
    <3> HIDE DEF n
    <3>3. QED
      BY <1>2, <1>4, <3>1, <3>2
  <2>3. QED
    BY <2>1, <2>2
<1>7. CASE TryInsertIdentity(p)
  <2>1. CASE Insertable(j.want, j.cand)
    <3>1. j.cand \in Ids /\ pc[p] \in Lookup
      BY <1>0, <1>7 DEF TryInsertIdentity, Lookup, JobFits, Job
    <3>2. QED
      BY <1>7, <2>1, <3>1, FoundGoesOn DEF TryInsertIdentity
  <2>2. CASE ~ Insertable(j.want, j.cand)
    BY <1>1, <1>4, <1>7, <2>2 DEF TryInsertIdentity
  <2>3. QED
    BY <2>1, <2>2
<1>8. CASE ReselectIdentity(p)
  <2>1. CASE identities[j.want] # 0
    <3>1. identities[j.want] \in Ids /\ pc[p] \in Lookup
      BY <1>5, <1>8, <2>1 DEF ReselectIdentity, Lookup, CacheInv, Typed, TypeOK
    <3>2. QED
      BY <1>8, <2>1, <3>1, FoundGoesOn DEF ReselectIdentity
  <2>2. CASE identities[j.want] = 0
    BY <1>1, <1>4, <1>8, <2>2 DEF ReselectIdentity
  <2>3. QED
    BY <2>1, <2>2
<1>9. CASE NextCandidate(p)
  <2>1. PICK x : job' = [job EXCEPT ![p].cand = x]
    BY <1>9 DEF NextCandidate
  <2> DEFINE n == [j EXCEPT !.cand = x]
  <2>2. job' = [job EXCEPT ![p] = n] /\ Goto(p, "insert")
    BY <1>0, <1>9, <2>1 DEF NextCandidate
  <2>3. n.kind = j.kind /\ n.msg = j.msg /\ n.chat = j.chat /\ n.unread = j.unread
    BY <1>0 DEF Job
  <2> HIDE DEF n
  <2>4. QED
    BY <1>2, <1>4, <2>2, <2>3
<1>10. CASE ChatExists(p)
  <2> DEFINE n == IF chats[j.chatId].guid # NoGuid
                  THEN [j EXCEPT !.want = j.msg, !.after = "live"]
                  ELSE [j EXCEPT !.want = j.chat, !.after = "upsert", !.unread = 0, !.last = j.at]
  <2>1. job' = [job EXCEPT ![p] = n] /\ Goto(p, "select")
    BY <1>10 DEF ChatExists
  <2>2. n.kind = j.kind /\ n.msg = j.msg /\ n.chat = j.chat /\ n.unread \in {0, j.unread}
    BY <1>0 DEF Job
  <2> HIDE DEF n
  <2>3. QED
    BY <1>2, <1>4, <2>1, <2>2
<1>11. CASE UpsertChat(p)
  BY <1>1, <1>4, <1>11 DEF UpsertChat
<1>12. CASE NameChat(p)
  <2>1. CASE j.kind = "live"
    <3> DEFINE n == [j EXCEPT !.want = j.msg, !.after = "live"]
    <3>1. job' = [job EXCEPT ![p] = n] /\ Goto(p, "select")
      BY <1>0, <1>12, <2>1 DEF NameChat
    <3>2. n.kind = j.kind /\ n.msg = j.msg /\ n.chat = j.chat /\ n.unread = j.unread
      BY <1>0 DEF Job
    <3> HIDE DEF n
    <3>3. QED
      BY <1>2, <1>4, <3>1, <3>2
  <2>2. CASE j.kind = "open"
    BY <1>1, <1>4, <1>12, <2>2 DEF NameChat
  <2>3. CASE j.kind \notin {"live", "open"}
    BY <1>3, <1>12, <2>3 DEF NameChat
  <2>4. QED
    BY <2>1, <2>2, <2>3
<1>13. CASE PutMessage(p)
  BY <1>0, <1>3, <1>13 DEF PutMessage, JobFits
<1>14. CASE ApplyLive(p)
  BY <1>3, <1>14 DEF ApplyLive
<1>15. CASE MarkRead(p)
  BY <1>0, <1>3, <1>15 DEF MarkRead, JobFits
<1>16. CASE RebuildChats(p)
  BY <1>1, <1>4, <1>16 DEF RebuildChats
<1>17. CASE RebuildMessages(p)
  BY <1>1, <1>4, <1>17 DEF RebuildMessages
<1>18. CASE FindOrphans(p)
  <2> DEFINE n == [j EXCEPT !.todo = Orphans]
  <2>1. job' = [job EXCEPT ![p] = n] /\ Goto(p, "next_orphan")
    BY <1>0, <1>18 DEF FindOrphans
  <2>2. n.kind = j.kind /\ n.msg = j.msg /\ n.chat = j.chat /\ n.unread = j.unread
    BY <1>0 DEF Job
  <2> HIDE DEF n
  <2>3. QED
    BY <1>2, <1>4, <2>1, <2>2
<1>19. CASE RepairOrphan(p)
  <2>1. PICK o \in j.todo :
           job' = [job EXCEPT ![p] = [j EXCEPT !.todo = j.todo \ {o}, !.chat = o.chat, !.chatId = 0,
                     !.unread = 0, !.last = o.last, !.want = o.chat, !.after = "upsert"]]
    BY <1>19 DEF RepairOrphan
  <2> DEFINE n == [j EXCEPT !.todo = j.todo \ {o}, !.chat = o.chat, !.chatId = 0,
                     !.unread = 0, !.last = o.last, !.want = o.chat, !.after = "upsert"]
  <2>2. n.kind = j.kind /\ n.unread = 0 /\ j.kind = "open"
    BY <1>0, <1>19 DEF Job, RepairOrphan, JobFits
  <2>3. job' = [job EXCEPT ![p] = n] /\ Goto(p, "select")
    BY <1>19, <2>1 DEF RepairOrphan
  <2> HIDE DEF n
  <2>4. QED
    BY <1>2, <1>4, <2>2, <2>3
<1>20. CASE FinishOpen(p)
  BY <1>0, <1>3, <1>20 DEF FinishOpen, JobFits
<1>21. QED
  BY <1>6, <1>7, <1>8, <1>9, <1>10, <1>11, <1>12, <1>13, <1>14, <1>15, <1>16, <1>17, <1>18,
     <1>19, <1>20 DEF Statement

\* What a statement does to what is in hand.
LEMMA StatementHand ==
    ASSUME CacheInv, Errands, NEW p \in Procs, Statement(p)
    PROVE  /\ Errands'
           /\ ~ ApplyLive(p) => UNCHANGED InHand
<1>1. CASE GoesOn(p)
  BY <1>1, GoingOn
<1>2. CASE Ends(p) /\ (job[p].kind = "live" => ApplyLive(p))
  BY <1>2, Ending
<1>3. QED
  BY <1>1, <1>2, StatementsMove

-----------------------------------------------------------------------------
(* Every statement is a step of the ledger, or none.                        *)

LedgerStep == [Ledger!Next]_(Ledger!ledger)

LEMMA Stutters ==
    ASSUME UNCHANGED <<chats, messages, InHand>> PROVE LedgerStep
BY DEF LedgerStep, Ledger!ledger, Listed, Counts, Known, RowOf

\* A request takes a message in hand, or leaves the hands empty.
LEMMA RequestSteps ==
    ASSUME CacheInv, Errands, Request
    PROVE  Errands' /\ LedgerStep
<1>0. /\ job \in [Procs -> Job] /\ pc \in [Procs -> PCs] /\ "daemon" \in Procs
      /\ \A q \in Procs : Errand(q, job[q], pc[q])
  BY DEF CacheInv, Typed, TypeOK, Errands, Procs
<1>1. ASSUME NEW j, NEW label \in PCs \ {"idle", "down"}, Start("daemon", j, label),
             pc["daemon"] = "idle", j.kind # "open", j.kind = "live" => j.unread = 0
      PROVE  /\ Errands' /\ UNCHANGED <<chats, messages>>
             /\ InHand = {}
             /\ InHand' = IF j.kind = "live" THEN {<<j.msg, j.chat>>} ELSE {}
  <2>1. /\ job'["daemon"] = j /\ pc'["daemon"] = label
        /\ \A q \in Procs \ {"daemon"} : job'[q] = job[q] /\ pc'[q] = pc[q]
        /\ UNCHANGED <<chats, messages>>
    BY <1>0, <1>1 DEF Start, Goto, tables
  <2>2. \A q \in Procs : Errand(q, job'[q], pc'[q])
    <3>1. Errand("daemon", j, label)
      BY <1>1 DEF Errand
    <3>2. QED
      BY <1>0, <2>1, <3>1
  <2>3. InHand = {}
    BY <1>0, <1>1 DEF Errand, InHand
  <2>4. QED
    BY <2>1, <2>2, <2>3 DEF Errands, InHand
<1>2. {"select", "upsert", "unread"} \subseteq PCs \ {"idle", "down"}
  BY DEF PCs
<1>3. ASSUME NEW j, NEW label \in {"select", "upsert", "unread"}, Start("daemon", j, label),
             pc["daemon"] = "idle", j.kind \notin {"open", "live"}
      PROVE  Errands' /\ LedgerStep
  BY <1>1, <1>2, <1>3, Stutters
<1>4. ASSUME NEW m \in Msgs, NEW c \in Chats, NEW at, ApplyDomainMessage(m, c, at)
      PROVE  Errands' /\ LedgerStep
  <2> DEFINE j == [NoJob EXCEPT !.kind = "live", !.msg = m, !.chat = c,
                     !.at = at, !.want = c, !.after = "exists"]
  <2>1. Start("daemon", j, "select") /\ pc["daemon"] = "idle" /\ c \in ChatsOf[m]
    BY <1>4 DEF ApplyDomainMessage
  <2>2. j.kind = "live" /\ j.unread = 0 /\ j.msg = m /\ j.chat = c
    BY DEF NoJob
  <2> HIDE DEF j
  <2>3. Errands' /\ UNCHANGED <<chats, messages>> /\ InHand = {} /\ InHand' = {<<m, c>>}
    BY <1>1, <1>2, <2>1, <2>2
  <2>4. UNCHANGED <<Listed, Counts, Known>>
    BY <2>3 DEF Listed, Counts, Known, RowOf
  <2>5. Ledger!Deliver(m, c)
    BY <2>1, <2>3, <2>4 DEF Ledger!Deliver
  <2>6. QED
    BY <2>3, <2>5 DEF LedgerStep, Ledger!Next
<1>5. ASSUME NEW m \in Msgs, NEW c \in Chats, NEW at, UpsertDomainMessage(m, c, at)
      PROVE  Errands' /\ LedgerStep
  <2> DEFINE j == [NoJob EXCEPT !.kind = "message", !.msg = m, !.chat = c,
                     !.at = at, !.want = c, !.after = "want_msg"]
  <2>1. Start("daemon", j, "select") /\ pc["daemon"] = "idle" /\ j.kind = "message"
    BY <1>5 DEF UpsertDomainMessage, NoJob
  <2> HIDE DEF j
  <2>2. QED
    BY <1>3, <2>1
<1>6. ASSUME NEW c, NEW n, NEW t, UpsertDomainChat(c, n, t) PROVE Errands' /\ LedgerStep
  <2> DEFINE j == [NoJob EXCEPT !.kind = "chat", !.chat = c, !.unread = n,
                     !.last = t, !.want = c, !.after = "upsert"]
  <2>1. Start("daemon", j, "select") /\ pc["daemon"] = "idle" /\ j.kind = "chat"
    BY <1>6 DEF UpsertDomainChat, NoJob
  <2> HIDE DEF j
  <2>2. QED
    BY <1>3, <2>1
<1>7. ASSUME NEW i \in Ids, RenameChat(i) PROVE Errands' /\ LedgerStep
  <2> DEFINE j == [NoJob EXCEPT !.kind = "chat", !.chat = chats[i].guid, !.chatId = i,
                     !.unread = chats[i].rawUnread, !.last = chats[i].rawLast]
  <2>1. Start("daemon", j, "upsert") /\ pc["daemon"] = "idle" /\ j.kind = "chat"
    BY <1>7 DEF RenameChat, NoJob
  <2> HIDE DEF j
  <2>2. QED
    BY <1>3, <2>1
<1>8. ASSUME NEW i \in Ids, ReadChat(i) PROVE Errands' /\ LedgerStep
  <2> DEFINE j == [NoJob EXCEPT !.kind = "read", !.chatId = i, !.last = chats[i].rawLast]
  <2>1. Start("daemon", j, "unread") /\ pc["daemon"] = "idle" /\ j.kind = "read"
    BY <1>8 DEF ReadChat, NoJob
  <2> HIDE DEF j
  <2>2. QED
    BY <1>3, <2>1
<1>9. QED
  BY <1>4, <1>5, <1>6, <1>7, <1>8 DEF Request

\* A process that opens the database, gives up or dies.
LEMMA StopSteps ==
    ASSUME CacheInv, Errands, NEW p \in Procs,
           Open(p) \/ Abandon(p) \/ (p = "daemon" /\ Crash)
    PROVE  Errands' /\ LedgerStep
<1>0. job \in [Procs -> Job] /\ pc \in [Procs -> PCs] /\ Errand(p, job[p], pc[p])
      /\ UNCHANGED <<chats, messages>>
  BY DEF CacheInv, Typed, TypeOK, Errands, Open, Abandon, Crash, Start, tables
<1>1. CASE Open(p)
  <2> DEFINE j == [NoJob EXCEPT !.kind = "open"]
  <2>1. /\ job'[p] = j /\ pc'[p] = "rebuild_chats" /\ job[p].kind = "none"
        /\ \A q \in Procs \ {p} : job'[q] = job[q] /\ pc'[q] = pc[q]
    BY <1>0, <1>1 DEF Open, Start, Goto, Errand
  <2>2. j.kind = "open" /\ j.unread = 0
    BY DEF NoJob
  <2> HIDE DEF j
  <2>3. Errand(p, job'[p], pc'[p])
    BY <2>1, <2>2 DEF Errand
  <2>4. Errands'
    BY <2>1, <2>3 DEF Errands
  <2>5. UNCHANGED InHand
    <3>1. CASE p = "daemon"
      BY <2>1, <2>2, <3>1 DEF InHand
    <3>2. CASE p # "daemon"
      BY <2>1, <3>2 DEF InHand, Procs
    <3>3. QED
      BY <3>1, <3>2
  <2>6. QED
    BY <1>0, <2>4, <2>5, Stutters
<1>2. CASE Abandon(p) \/ (p = "daemon" /\ Crash)
  <2>1. Ends(p)
    BY <1>0, <1>2 DEF Abandon, Crash, Goto, Ends, OthersWait
  <2>2. /\ Errands'
        /\ p = "status" \/ job[p].kind # "live" => UNCHANGED InHand
        /\ p = "daemon" => InHand' = {}
    BY <2>1, Ending
  <2>3. CASE UNCHANGED InHand
    BY <1>0, <2>2, <2>3, Stutters
  <2>4. CASE p = "daemon" /\ job[p].kind = "live"
    <3>1. InHand # {} /\ InHand' = {} /\ UNCHANGED <<Listed, Counts, Known>>
      BY <1>0, <2>2, <2>4 DEF InHand, Listed, Counts, Known, RowOf
    <3>2. Ledger!Drop
      BY <3>1 DEF Ledger!Drop
    <3>3. QED
      BY <2>2, <3>2 DEF LedgerStep, Ledger!Next
  <2>5. QED
    BY <2>2, <2>3, <2>4 DEF Procs
<1>3. QED
  BY <1>1, <1>2

LEMMA UpsertChatSteps ==
    ASSUME CacheInv, SameCount, Errands, OneRowPerGuid, OneRowPerGuid', NEW p \in Procs, UpsertChat(p)
    PROVE  LedgerStep
<1> DEFINE n == job[p].unread
<1>0. UNCHANGED InHand
  BY DEF UpsertChat, InHand
<1>1. PICK i \in Ids, c \in Chats :
         /\ chats[i].guid \in {NoGuid, c} /\ chats'[i].guid = c
         /\ chats'[i].rawUnread = IF chats[i].guid = c THEN chats[i].rawUnread ELSE n
         /\ \A k \in Ids \ {i} : chats'[k] = chats[k]
         /\ UNCHANGED messages
  BY UpsertChatRow
<1>2. UNCHANGED Known
  BY <1>1 DEF Known
<1>3. n \in IF InHand = {} THEN Nat ELSE {0}
  <2>1. job[p] \in Job /\ JobFits(job[p], "upsert")
    BY DEF UpsertChat, CacheInv, Typed, TypeOK, JobsFit
  <2>2. n \in Nat /\ job[p].kind \in {"live", "chat", "open"}
    BY <2>1 DEF JobFits, Job
  <2>3. Errand(p, job[p], "upsert")
    BY DEF UpsertChat, Errands
  <2>4. CASE p = "daemon" /\ job[p].kind = "live"
    BY <2>2, <2>3, <2>4 DEF Errand
  <2>5. CASE p = "daemon" /\ job[p].kind # "live"
    BY <2>2, <2>5 DEF InHand
  <2>6. CASE p = "status"
    BY <2>2, <2>3, <2>6 DEF Errand
  <2>7. QED
    BY <2>4, <2>5, <2>6 DEF Procs
<1>4. CASE chats[i].guid = c
  <2>1. UNCHANGED <<Listed, Counts>>
    BY <1>1, <1>4, SameLedger
  <2>2. QED
    BY <1>0, <1>2, <2>1 DEF LedgerStep, Ledger!ledger
<1>5. CASE chats[i].guid # c
  <2>1. /\ c \notin Listed /\ Listed' = Listed \cup {c}
        /\ Counts' = [Counts EXCEPT ![c] = n]
    BY <1>1, <1>5, OneCountChanges
  <2>2. Counts'[c] = n
    BY <2>1 DEF Counts
  <2>3. Ledger!List(c)
    BY <1>0, <1>2, <1>3, <2>1, <2>2 DEF Ledger!List
  <2>4. QED
    BY <2>3 DEF LedgerStep, Ledger!Next
<1>6. QED
  BY <1>4, <1>5

LEMMA PutMessageSteps ==
    ASSUME CacheInv, Errands, OneRowPerGuid', NEW p \in Procs, PutMessage(p)
    PROVE  LedgerStep
<1>0. InHand = {} /\ UNCHANGED InHand
  <2>1. JobFits(job[p], "put") /\ Errand(p, job[p], "put")
    BY DEF PutMessage, CacheInv, Typed, JobsFit, Errands
  <2>2. p = "daemon" /\ job[p].kind = "message"
    BY <2>1 DEF JobFits, Errand, Procs
  <2>3. UNCHANGED InHand
    BY <2>2, StatementHand DEF Statement, PutMessage, ApplyLive
  <2>4. QED
    BY <2>2, <2>3 DEF InHand
<1>1. PICK i \in Ids, m \in Msgs :
         /\ messages[i].guid \in {NoGuid, m} /\ messages'[i].guid = m
         /\ \A k \in Ids \ {i} : messages'[k] = messages[k]
         /\ UNCHANGED chats
  BY PutMessageRow, MessageSlot DEF PutMessage
<1>2. UNCHANGED <<Listed, Counts>>
  BY <1>1 DEF Listed, Counts, RowOf
<1>3. Known' = Known \cup {m}
  BY <1>1, OneKnown
<1>4. Ledger!Learn(m)
  BY <1>0, <1>2, <1>3 DEF Ledger!Learn
<1>5. QED
  BY <1>4 DEF LedgerStep, Ledger!Next

\* The message in hand is stored, and counted in the chat it names if it is new and inbound.
LEMMA ApplyLiveSteps ==
    ASSUME CacheInv, ProcsHouse, SameCount, Errands, OneRowPerGuid, OneRowPerGuid',
           NEW p \in Procs, ApplyLive(p)
    PROVE  LedgerStep
<1> DEFINE j == job[p]
           i == j.msgId
           k == j.chatId
           m == j.msg
           c == j.chat
           new == messages[i].guid = NoGuid /\ m \notin FromMe
<1>1. p = "daemon" /\ j.kind = "live" /\ j.chatId # 0 /\ AllNamed /\ Agrees(identities, j)
  <2>1. JobFits(j, "live") /\ Errand(p, j, "live")
    BY DEF ApplyLive, CacheInv, Typed, JobsFit, Errands
  <2>2. QED
    BY <2>1, ReadyForWrite DEF ApplyLive, JobFits, Errand, Procs
<1>2. /\ i \in Ids /\ k \in Ids /\ m \in Msgs /\ c \in Chats /\ c # NoGuid /\ m # NoGuid
      /\ messages[i].guid \in {NoGuid, m} /\ chats[k].guid \in {NoGuid, c}
  BY MessageSlot, GuidAssumption DEF ApplyLive, Guids
<1>3. chats[k].guid = c
  <2>1. HasRow(c) /\ identities[c] = k
    BY <1>1, <1>2 DEF ApplyLive, ProcsHouse, Houses, SureOfChat, Agrees
  <2>2. QED
    BY <1>2, <2>1 DEF HasRow
<1>4. /\ messages'[i].guid = m
      /\ \A l \in Ids \ {i} : messages'[l] = messages[l]
      /\ \A l \in Ids \ {k} : chats'[l] = chats[l]
      /\ chats'[k].guid = c
      /\ chats'[k].rawUnread = chats[k].rawUnread + (IF new THEN 1 ELSE 0)
  BY <1>2, <1>3, ApplyLiveRows
<1>5. InHand = {<<m, c>>} /\ InHand' = {}
  <2>1. Ends(p)
    BY DEF ApplyLive, Return, Goto, Ends, OthersWait, CacheInv, Typed, TypeOK
  <2>2. QED
    BY <1>1, <2>1, Ending DEF InHand
<1> HIDE DEF i, k, m, c
<1>6. /\ Known' = Known \cup {m}
      /\ messages[i].guid = m => m \in Known
      /\ messages[i].guid = NoGuid => m \notin Known
  BY <1>2, <1>4, OneKnown
<1>7. chats[k].rawUnread \in Nat
  BY <1>2 DEF CacheInv, Typed, TypeOK, ChatRow
<1>8. /\ c \in Listed /\ Listed' = Listed \cup {c} /\ Counts[c] = chats[k].rawUnread
      /\ Counts' = [Counts EXCEPT ![c] = chats'[k].rawUnread]
  BY <1>2, <1>3, <1>4, OneCountChanges
<1>9. Listed' = Listed
  BY <1>8
<1>10. Counts' = IF m \in Known \cup FromMe THEN Counts ELSE [Counts EXCEPT ![c] = @ + 1]
  <2>1. new <=> m \notin Known \cup FromMe
    BY <1>2, <1>6
  <2>2. CASE new
    BY <1>4, <1>8, <2>1, <2>2
  <2>3. CASE ~ new
    <3>1. chats'[k].rawUnread = Counts[c]
      BY <1>4, <1>7, <1>8, <2>3
    <3>2. [Counts EXCEPT ![c] = Counts[c]] = Counts
      BY DEF Counts
    <3>3. QED
      BY <1>8, <2>1, <2>3, <3>1, <3>2
  <2>4. QED
    BY <2>2, <2>3
<1>11. Ledger!Store(m, c)
  BY <1>5, <1>6, <1>8, <1>9, <1>10 DEF Ledger!Store
<1>12. QED
  BY <1>2, <1>11 DEF LedgerStep, Ledger!Next

LEMMA MarkReadSteps ==
    ASSUME CacheInv, Errands, ReadHasRow, OneRowPerGuid, OneRowPerGuid', NEW p \in Procs, MarkRead(p)
    PROVE  LedgerStep
<1>0. UNCHANGED InHand
  BY StatementHand DEF Statement, MarkRead, ApplyLive
<1>1. PICK i \in Ids, c \in Chats :
         /\ chats[i].guid = c /\ chats'[i].guid = c /\ chats'[i].rawUnread = 0
         /\ \A k \in Ids \ {i} : chats'[k] = chats[k]
         /\ UNCHANGED messages
  BY MarkReadRow
<1>2. UNCHANGED Known
  BY <1>1 DEF Known
<1>3. /\ c \in Listed /\ Listed' = Listed \cup {c}
      /\ Counts' = [Counts EXCEPT ![c] = 0]
  BY <1>1, OneCountChanges
<1>4. Ledger!Read(c)
  BY <1>0, <1>2, <1>3 DEF Ledger!Read
<1>5. QED
  BY <1>4 DEF LedgerStep, Ledger!Next

\* Nothing but these four statements writes a chat or a message.
LEMMA OthersStutter ==
    ASSUME CacheInv, Errands, NEW p \in Procs, Statement(p),
           ~ UpsertChat(p) /\ ~ PutMessage(p) /\ ~ ApplyLive(p) /\ ~ MarkRead(p)
    PROVE  LedgerStep
<1>1. UNCHANGED <<chats, messages>>
  BY DEF Statement, SelectIdentity, TryInsertIdentity, ReselectIdentity, NextCandidate,
         ChatExists, NameChat, RebuildChats, RebuildMessages, FindOrphans, RepairOrphan,
         FinishOpen, tables
<1>2. QED
  BY <1>1, StatementHand, Stutters

LEMMA NextSteps ==
    ASSUME CacheInv, ProcsHouse, SameCount, ReadHasRow, Errands, OneRowPerGuid, OneRowPerGuid',
           [Next]_vars
    PROVE  Errands' /\ LedgerStep
<1>1. ASSUME NEW p \in Procs, Statement(p) PROVE Errands' /\ LedgerStep
  BY <1>1, StatementHand, UpsertChatSteps, PutMessageSteps, ApplyLiveSteps, MarkReadSteps,
     OthersStutter
<1>2. CASE UNCHANGED vars
  BY <1>2, Stutters DEF vars, Errands, InHand
<1>3. "daemon" \in Procs
  BY DEF Procs
<1>4. QED
  BY <1>1, <1>2, <1>3, RequestSteps, StopSteps DEF Next

LEMMA InitLedger == Init => Ledger!Init
<1> SUFFICES ASSUME Init PROVE Ledger!Init
  OBVIOUS
<1>1. \A i \in Ids : chats[i].rawUnread = 0
  BY DEF Init, NoChatRow
<1>2. ASSUME NEW c \in Chats, c \in Listed PROVE RowOf(c) \in Ids
  BY <1>2 DEF Listed, RowOf
<1>3. Counts = [c \in Chats |-> 0]
  BY <1>1, <1>2 DEF Counts
<1>4. InHand = {}
  BY DEF Init, InHand, NoJob, Procs
<1>5. QED
  BY <1>3, <1>4 DEF Ledger!Init, Listed, Known

\* The cache implements the ledger, for all chats, messages, hashes, listings and
\* databases of an earlier build: an inbound message that a delivery is the first to store
\* is counted in the chat it names, in that step, and nothing else is counted, whatever is
\* delivered again, upserted over, repaired, interleaved or cut short.
THEOREM LedgerCorrect == Spec => LedgerSpec
<1> DEFINE Inv == CacheInv /\ ProcsHouse /\ SameCount /\ ReadHasRow /\ OneRowPerGuid
<1>1. Inv /\ Errands /\ OneRowPerGuid' /\ [Next]_vars => Errands' /\ LedgerStep
  BY NextSteps
<1>2. Init => Errands
  BY DEF Init, Errands, Errand, NoJob
<1>3. Spec => []Inv
  BY CountInvariant, HousesInvariant, EachGuidHasOneRow, PTL
<1>4. QED
  BY <1>1, <1>2, <1>3, InitLedger, PTL DEF Spec, LedgerSpec, Ledger!Spec, LedgerStep

-----------------------------------------------------------------------------
(* What an id stands for never changes.                                     *)

\* A message row keeps its guid.
MessagesKept == \A k \in Ids : messages[k].guid # NoGuid => messages'[k].guid = messages[k].guid

LEMMA MergedKeeps ==
    ASSUME CacheInv, NEW p \in Procs, PutMessage(p) \/ ApplyLive(p)
    PROVE  MessagesKept
<1> DEFINE j == job[p]
           row == Merged(messages[j.msgId], j.msg, j.chatId, j.at)
<1>1. pc[p] \in {"put", "live"} /\ messages' = [messages EXCEPT ![j.msgId] = row]
  BY DEF PutMessage, ApplyLive
<1>2. j.msgId \in Ids /\ row.guid = j.msg
  BY <1>1, MessageSlot DEF Merged
<1>3. messages[j.msgId].guid # NoGuid => messages[j.msgId].guid = j.msg
  BY <1>1, MessageSlot
<1>4. \A k \in Ids : messages'[k] = IF k = j.msgId THEN row ELSE messages[k]
  BY <1>1 DEF CacheInv, Typed, TypeOK
<1> HIDE DEF row
<1>5. QED
  BY <1>2, <1>3, <1>4 DEF MessagesKept

LEMMA StepKeepsIds ==
    ASSUME CacheInv, [Next]_vars PROVE IdsKept /\ GuidsKept /\ MessagesKept
<1>1. ASSUME UNCHANGED messages PROVE MessagesKept
  BY <1>1 DEF MessagesKept
<1>2. ASSUME UNCHANGED tables PROVE IdsKept /\ GuidsKept /\ MessagesKept
  BY <1>2 DEF tables, IdsKept, GuidsKept, MessagesKept
<1>3. CASE Request
  BY <1>2, <1>3 DEF Request, ApplyDomainMessage, UpsertDomainMessage, UpsertDomainChat,
                    RenameChat, ReadChat, Start
<1>4. ASSUME NEW p \in Procs, Statement(p) PROVE IdsKept /\ GuidsKept /\ MessagesKept
  <2>1. IdsKept /\ GuidsKept
    BY <1>4, RowsStay DEF CacheInv
  <2>2. CASE PutMessage(p) \/ ApplyLive(p)
    BY <2>1, <2>2, MergedKeeps
  <2>3. CASE ~ (PutMessage(p) \/ ApplyLive(p))
    <3>1. UNCHANGED messages
      BY <1>4, <2>3 DEF Statement, SelectIdentity, TryInsertIdentity, ReselectIdentity,
                NextCandidate, ChatExists, UpsertChat, NameChat, MarkRead, RebuildChats,
                RebuildMessages, FindOrphans, RepairOrphan, FinishOpen, tables
    <3>2. QED
      BY <1>1, <2>1, <3>1
  <2>4. QED
    BY <2>2, <2>3
<1>5. ASSUME NEW p \in Procs, Open(p) \/ Abandon(p) PROVE UNCHANGED tables
  BY <1>5 DEF Open, Abandon, Start
<1>6. CASE Crash \/ UNCHANGED vars
  BY <1>2, <1>6 DEF Crash, vars, tables
<1>7. QED
  BY <1>2, <1>3, <1>4, <1>5, <1>6 DEF Next

\* An id that was given to a client stands for the same chat or message ever after, for any hash of guids and any database of an earlier build.
THEOREM IdsNeverChangeMeaning == Spec => IdsStayValid
<1>1. CacheInv /\ [Next]_vars => IdsKept /\ GuidsKept /\ MessagesKept
  BY StepKeepsIds
<1>2. Spec => []CacheInv
  BY CacheInvariant, PTL DEF CacheInv
<1>3. (IdsKept /\ GuidsKept /\ MessagesKept) =>
          (/\ \A g \in Guids : identities[g] # 0 => identities'[g] = identities[g]
           /\ \A i \in Ids :
                 /\ chats[i].guid # NoGuid => chats'[i].guid = chats[i].guid
                 /\ messages[i].guid # NoGuid => messages'[i].guid = messages[i].guid)
  BY DEF IdsKept, GuidsKept, MessagesKept
<1>4. QED
  BY <1>1, <1>2, <1>3, PTL DEF Spec, IdsStayValid
=============================================================================
