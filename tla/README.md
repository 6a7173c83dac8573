# imsg, specified in TLA+

This directory holds TLA+ specifications of imsg, the TLC runs that check them on
small instances, and TLAPS proofs of the properties that matter most for every
instance.

Check a run with `tlc -config MCMessageCache.cfg MCMessageCache` and a proof module
with `tlapm MessageCacheProofs.tla`. `PROJECT.json` lists the runs, the source lines
each definition models, the mutants that show each property can fail, the hazards of
the code, and the theorems.

## 1. The system

imsg shows iMessage chats on a Linux desktop. A Mac runs a BlueBubbles server. On the
desktop a daemon, `imsg-sync`, keeps a copy of chats and messages and serves them to
a panel plugin, a terminal client and command line tools over a Unix socket.

```
 BlueBubbles server (Mac)
      |  REST: list, poll, send        |  web hook: "message changed"
      v                                v
  bb.rs client <--- client.rs session ---> webhook.rs listener
      |                  |
      | uplink.rs        v
      |             cache.rs (SQLite)  <--- `imsg-sync status` (another process)
      v                  |
  socket_server.rs <-----+--- broadcast of events
      |
   Unix socket: plugin, tui, cli, setup
```

| component | state | operations | what makes it right |
|---|---|---|---|
| message cache, `sync/src/cache.rs` | tables `identities`, `chats`, `messages`, `sync_meta` | upsert a chat or a message, apply a live message, mark a chat read, rename from contacts, open with its repairs | one id per guid and one row per id, messages under their chat, an inbound live message counted, and once, nothing a client cannot list |
| link and session, `link/mod.rs`, `client.rs`, `uplink.rs` | provision, generation, watch channel, uplink handle, three flags, the session task | load settings and wake the session; connect, prefetch, listen or poll, back off, give up for a new generation | the daemon ends up on the settings last published; requests use the running session's client; what is shown settles |
| live synchronisation, `client.rs`, `bb.rs` | what the poller read and remembers, two bounded queues | prefetch, poll, doorbell, the end of a session | what the server has reaches the cache, newest copy last, and then it is quiet |
| socket server, `socket_server.rs` | connections, request tasks, permits, subscriptions | requests, subscribe with a snapshot, events, lag, abort on hang-up | a subscriber that merges what it gets shows what the cache has |
| settings store, `link/store.rs`, `secret.rs` | `config.toml`, its temporary file, the keyring | load (with migration), commit, web hook settings and token | no setting and no password lost |
| web hook listener, `webhook.rs` | its token, queue of 64, rate window | accept, check, enqueue, refuse | a delivery it accepts is looked at, one it refuses is recovered by the poll |
| BlueBubbles client, `bb.rs` | window of the poll | REST calls, web hook registration | a message is passed on once per change |
| desktop plugin, `plugin/Service.qml`, `Panel.qml`, `js/Store.js`, `bin/*.py` | thread, outbox, one history load, one send, a subscription | merge snapshots, events and answers; send, retry | no text lost, doubled or left "sending"; the open conversation is current |
| bridge server, `bridge/src/server.rs`, `contacts.rs` | connections, event channel, the state of Contacts, a gate | greet, pass events on, call, authorize | one dialog at a time, it ends, clients know how it stands |
| bridge child, `bridge/src/imsg_rpc.rs` | the child, the mutex of its stdin, pending calls | call, read answers, respawn | a call returns, also across a respawn |
| pairing, `bridge/src/pairing.rs`, `tls.rs`, `commands.rs`, `setup/src/enroll.rs` | ticket, four PEM files, wrong attempts; the client's four files | init, rotate, serve, enrol | a code that was replaced is dead; a paired client and the bridge trust each other |
| `domain.rs`, `proto/` | none | conversions | - |
| terminal client, `tui/`; cli, installer, setup wizard | none of their own | a second view of the socket; install, configure | sequential |

How they meet. Every writer of the daemon holds the write half of one `RwLock` around
the cache, so its operations do not interleave with each other, but `imsg-sync status`
opens the same file from another process and repairs it. Socket requests are tasks of
a multi-threaded runtime: they change settings, publish a provision and wake the
session, and they use the client the session attached. The session gives up what it is
doing when the watch value is no longer its generation; it is cancelled at an await.
A client that hangs up has its requests aborted, again at an await.

The plugin makes one connection for events and one for each request, so an answer
and the event about the same thing overtake each other. The bridge is the older path to
a Mac without BlueBubbles: a daemon there runs `imsg rpc` as a child and serves clients
over TLS; its parts share one state, the grant of Contacts, and one child.

What is hard to test here: the status process between two statements of the daemon;
crashes and cancellation between statements, between the keyring and the file, between
two PEM files; the same message from four sources; two settings requests and the
session, each in several steps; two processes and one temporary file; an event that
overtakes an answer; a channel that drops what does not fit; a child that is killed
while a call waits for it; a limit that is checked and counted under two locks.
`PROJECT.json` lists each at its line.

## 2. The modules

| module | models | checked in | proofs |
|---|---|---|---|
| `MessageCache` | `cache.rs`, one action per SQL statement, for both processes | `MCMessageCache` | `MessageCacheProofs` |
| `UnreadLedger` | the abstract specification of the cache: a delivery counts what is new and inbound, exactly once, every operation atomic | `MCMessageCache` (refinement) | `MessageCacheProofs` |
| `LinkSession` | session task, settings requests, web hook requests, uplink handle, flags | `MCLinkSession` | `LinkSessionProofs` |
| `LiveSync` | poller, web hook queue, prefetch and the loop that stores what they bring | `MCLiveSync` | `LiveSyncProofs` |
| `Desktop` | the plugin's conversation and outbox against the socket server and sends | `MCDesktop` | `DesktopProofs` |
| `OutboxLedger` | the abstract specification of the plugin's outbox: what was asked for, shown and sent, nothing failing | `MCDesktop` (refinement) | `DesktopProofs` |
| `SettingsStore` | config.toml by inode, its temporary name, the keyring, several processes | `MCSettingsStore` | `SettingsStoreProofs` |
| `ImsgRpc` | the bridge's child, its calls and its respawn | `MCImsgRpc` | `ImsgRpcProofs` |
| `BridgeServer` | the bridge's connections, event channel and authorize attempt | `MCBridgeServer` | `BridgeServerProofs` |
| `Pairing` | the Mac's files and commands, the enroll server, the clients' files | `MCPairing` | `PairingProofs` |

The modules overlap where the code meets: `LinkSession` sees a commit and a load as
atomic, `SettingsStore` shows what happens inside them; `LiveSync` and `Desktop` see the
cache as the set of messages it holds, which `MessageCache` justifies; `BridgeServer`
lets the child's calls return, fail or hang, which `ImsgRpc` explains.

### MessageCache

`identities` maps a guid to its id, `chats` and `messages` map an id to a row. The
unread count and the date of the last message are kept twice in a chat row, in columns
(`unread`, `last`) and inside `raw_json` (`rawUnread`, `rawLast`); clients are shown
the second. `pc[p]` names the next statement of process `p` and `job[p]` its local
variables: the guid `id_for_guid` is looking for, the statement that asked
(`after`), the candidate of its loop, the two ids found so far, the rows
`repair_orphan_chats` has fetched.

| code | actions |
|---|---|
| `id_for_guid` | `SelectIdentity`, `TryInsertIdentity`, `ReselectIdentity`, `NextCandidate` |
| `apply_domain_message` | `ApplyDomainMessage`, lookup, `ChatExists`, (lookup, `UpsertChat`, `NameChat`), lookup, `ApplyLive` |
| `upsert_domain_chat` | `UpsertDomainChat`, lookup, `UpsertChat`, `NameChat` |
| `upsert_domain_message` | `UpsertDomainMessage`, two lookups, `PutMessage` |
| `mark_read` | `ReadChat`, `MarkRead` |
| `apply_contact_book` | `RenameChat`, `UpsertChat`, `NameChat`, per chat |
| `open` | `Open`, `RebuildChats`, `RebuildMessages`, `FindOrphans`, `RepairOrphan`..., `FinishOpen` |
| an error, a cancelled task, the end of a process | `Abandon`, `Crash` |

`upsert_chat` and `upsert_message` read the row they are about to write, but only for
names and for a merge of that row with the new copy; nobody else writes a row between
(the daemon's operations exclude each other and the status process inserts chat rows
that are not there), so the read is part of the write. The hash `stable_id` is a
constant function that may collide.

Each copy of a message names its chat, one of `ChatsOf[m]`, and the row is filed under the chat of the copy
that was stored last (`Merged`), so it may move; `LegacyChatOf` is where an earlier build filed it.

The initial state is a database an earlier build left: rows without identities,
identities without rows, a message whose chat has no row. What is assumed of it is
`LegacyAssumption`: its row ids are distinct across both tables, and the chat of a
message has a row or an identity. Where chat and message ids of such a database overlap,
the rebuild gives the message no identity and the properties do not claim anything.
Counts of such rows start at zero, dates at "missing".

`UnreadLedger` knows which chats are listed, their counts, which messages are known and which delivery is under way.
`Deliver` begins one, with the chat its copy names; `Store` ends it by making the message known and, if it was not known
and is inbound, counting it, and there is no other way to end it but to be cut short (`Drop`) with nothing stored. So a
cache that does not count a message it stores does not implement it, nor one that counts it twice or elsewhere. `Learn`
is prefetch, which stores without counting and does not run while a delivery does.

### LinkSession

The session is a task with a program counter, the generation it believes in, the
credentials it runs with, and its listener's token. A request is one of two (or more)
tasks; `reconnect_from_store` is the five steps `LoadStore`, `FlagConnecting`,
`Publish`, `TakeNumber`, `SendWake`, because nothing orders them between two tasks.
`news` says whether the session's own receiver has seen the last value sent, which is
what `changed()` waits for. `Leave` is the `select!` of `connect_and_sync`: the inner
future ended or was dropped at whatever it was waiting for. The web hook registrations on
a server are the set of tokens our URLs carry there; clearing them may fail one by one,
and a creation that failed for us may have happened there.

Two things are external: that BlueBubbles answers, refuses or fails each call, and that
it keeps what it was told of web hooks. They appear as nondeterminism of the actions that
call it.

### LiveSync

`server` and `cache` hold a version for each message; a copy is a message with the version it
was read at, so that an older copy stored over a newer one shows. The poller is
`batch` (what it read and has yet to look at) and `seen` (what it remembers, the
oldest forgotten first, a guid at most once); `channel` and `hooks` are the two bounded queues; `held` is what the
loop has read and not stored. `PassOn` is `remember_message` and the send into the channel, which
waits when it is full; `HookAccepted` and `HookLost` are the listener's `try_send`, the
limit and the token together being a reason to refuse. `EndSession` empties everything a session
owns. Only messages of others are modelled; a message sent from here is in `Desktop`.

### Desktop

One conversation, seen from the plugin. `stream`, `queue`, `lagged` are the subscription:
`tokio::broadcast` keeps the newest `ChannelMax` events and says that it dropped some.
`history` is `historyProc` (one runs, one waits), whose `found` collects the messages
events brought while it ran, as `Store.js` merges them. `send` is `sendProc` together with the
daemon's task for it; each way it can end is an action. `tried` maps each row id the plugin
gave out to the text it stood for, so that a retry under a new id is told apart; ids are given out
once, so removing a row by its id removes one (`Without`, the filter of `Store.js`).
`excused` marks the three paths on which the last reload of the thread does not come about, see section 5.

A send has two halves. `Post` hands the try to the server and puts it in `posts`; `CarryOut` is the server carrying it
out, at any time after, or never. So a text whose post the plugin gave up after its 20 seconds may go out after the user
has retried it under a new id. A load of the history fails by `HistoryFails`, alone: the subscription stays up, what
was read is dropped, and `HistoryExit` asks again only if another load waits.

`OutboxLedger` knows the texts asked for, the numbers of the rows shown, those handed to the server and those sent, and
no connections, requests or answers. `OutboxSpec` maps them to `tried`, the ids in `outgoing`, `Handed` and `server`:
`SendMessage` is `Ask`, `Retry` is `AskAgain`, `Post` is `HandOver`, `CarryOut` is `Deliver`, and an event or an answer that
takes a row away is `Clear`, all others change nothing there.

### SettingsStore

A name stands for an inode and a process writes to the inode it opened, because two processes
that open one temporary name write to one file, and a rename moves it away from under the other.
An operation is the steps `StoreSecret`, `ReadFile`, (`Migrate`,) `CreateTmp`,
`WriteTmp`, `Rename`, and then the load with which it ends; `Stop` is an error or the end of
the process anywhere. `saved` is what the operations that reached their rename intended, one
after the other, and `overlap` says that an operation has read while another was replacing the
file, which nothing in the code prevents and after which a setting can be lost.

### ImsgRpc

`holder` has the mutex of stdin for a whole call. Children are numbered; `alive`, `reading`, `held`
and `stdin` say which of them runs, is read, is to be killed, and is written to. The respawn
is `Kill`, `Reap`, `Drain`, `Launch`, `Install`, `Watch`; `TimedOut` drops it anywhere.
`hurt` records that a child ended unasked, that its reading task ended, or that a
respawn was dropped before its drain: then a call may wait for ever, and the code has no timeout for it.

### BridgeServer

Each connection is a task: `Connect` subscribes, `Greet` reads the state, then
`PassOn` and requests alternate. An authorize attempt is a step counter per connection from
the gate (`Begin`) over probe, prompt, wait, names and respawn to the outcome; publishing is
two steps, the write (`Store`) and the event. The rest of the bridge's events are
`"message"`.

### Pairing

The Mac runs one command at a time, each file of it two steps, truncating and writing, that the process may not reach
(`CommandDies`); `conf.state = "torn"` between the two for config.toml, and `torn` has the PEM files that are empty. It
may have been set up by an earlier build, whose ticket never expires. `serve`
reads files and ticket once. An enrol request passes `RateLimit`, reads the ticket on disk (`ReadTicket`), compares its
code with it (`Verify`) and is signed (`Sign`) or counted (`RecordAttempt`); a command may write, and time pass, between
any two of these, and the limit and the count are under separate locks. `asked[c].since` is history: the code on disk when the request was sent. `attempts` are the wrong ones, each with its time and the key it was made with, which
tells two of them at one time apart. The client writes its CA, certificate, key and config in that order
and may give up between two.

## 3. The runs

| run | checks | distinct states |
|---|---|---|
| `cache` | `TypeOK`, `IdsInAgreement`, `OneRowPerGuid`, `FiledUnderItsChat`, `NoOrphanWhenServing`, `LedgerSpec` (the cache implements `UnreadLedger`), `IdsStayValid`, `OperationsEnd` | 246,124 |
| `session` | `TypeOK`, `SessionFollowsProvision`, `NoLostWakeup`, `HandleIsSessions`, `SettlesOnProvision`, `ConnectingEnds` | about 162,000 |
| `live_sync` | `TypeOK`, `KnownIsStored`, `CacheCatchesUp`, `FallsSilent` | 348,061 |
| `desktop` | `TypeOK`, `SentAsAsked`, `OutboxMoves`, `ThreadIsCurrent`, `OutboxSpec` (the plugin implements `OutboxLedger`) | about 1,750,000 |
| `settings_store` | `TypeOK`, `SettingsKept`, `MoveKeepsPassword` | 2,386,171 |
| `bridge_rpc` | `TypeOK`, `WaiterHasServer`, `CallReturns`, `RespawnEnds` | 205,559 |
| `bridge_contacts` | `TypeOK`, `QuietViewIsCurrent`, `OneAttempt`, `AttemptEnds`, `AttemptAdvances` | 211,236 |
| `pairing` | `TypeOK`, `AttemptsBounded`, `PairedIsTrusted`, `ReplacedCodeIsDead` | 2,525,072 |
| `saved_is_applied` | finds `SavedIsApplied` violated | |
| `ready_means_registered` | finds `ReadyMeansRegistered` violated | |
| `password_kept` | finds `PasswordKept` violated | |
| `failed_not_delivered` | finds `FailedIsNotDelivered` violated | |

### Instances and bounds

**`cache`.** Three chats and two messages over six ids. One chat is left by an
earlier build without an identity; one message is left filed under a chat that has an
identity and no row, which the repair has to find. Copies of either message name either of two chats. The
hash of one message is the id of the other's row, and the id the loop falls back to is
the hash of the other, so the loop goes round and meets ids the other process took. Each message
may be delivered any number of times, with or without its date (they share one); each chat listed any number of
times with a count of 0 or 1. Both messages are inbound; that a message of the user's own is never counted is
proved (`LedgerCorrect`) and not run. Nothing bounds the length of a behaviour: the state space
is finite because counts can only rise with a new message or a listing of a chat that
has no row. The cache never deadlocks: a process that is down may open again.

**`session`.** Two servers so that being connected to the wrong one can be told
apart. Two request tasks so that two can be anywhere inside `reconnect_from_store`, and two
requests in a behaviour, so that they race; `MaxRequests` is the only bound.
`CHECK_DEADLOCK FALSE`: once the requests are used up and the session waits for a setting,
the instance has nothing left to do. `Faults = FALSE` in the two violation runs shows that the
counterexample needs no failure.

**`live_sync`.** Three messages, one of them in two versions, so that an older copy can be stored
over a newer one; a poll returns two, so a message can fall out of it; the poller remembers two, so
it forgets (the code polls 200 and remembers 2000: what matters is that it remembers no fewer than it
polls, `LiveAssumption`); queues of one, so that each is full; one session that fails, so that what
it held is lost and read again.

**`desktop`.** Two texts and two tries, so that a retry and a second row compete; one message of
others; a channel of one event, so that the notice of a lag comes; a page of one out of up to three
messages, so that a page does not hold all; one visit of the panel and one fault (of a load, of the stream or of the
daemon) at any point. That a send's answer does not come in time and that a post is carried out late or never are not
faults and happen at will. `MaxActs` lets the user send twice, or send once and visit once: all three
together add seven times the states and no kind of step. The proofs hold for every value of these
bounds. Texts are interchangeable (symmetry; the run checks no liveness). `CHECK_DEADLOCK FALSE`: user
and server may stop.

**`settings_store`.** Two processes, two servers and one password; each process may begin any number
of operations, and every one may end at any step. The states are finite because an inode nobody names
is blank again. Processes and servers are interchangeable.

**`bridge_rpc`.** Two callers and the respawner, three calls, two children, one attempt to watch:
a call can wait across a respawn while another waits for the mutex, and one of them belongs to the
attempt that respawns. `CHECK_DEADLOCK FALSE`: call ids run out.

**`bridge_contacts`.** Two connections that come and go, a channel of one event (so that one lags), two
attempts to verify (so that the loop goes round once). No other bound.

**`pairing`.** Two clients behind one address, one wrong attempt allowed, windows and tickets of one tick in
a time of one, two codes, three client keys: tickets expire and are rotated, attempts leave the window, a
client pairs again, and a Mac of an earlier build gets its second code. The clients are interchangeable (symmetry; the run checks no liveness). `CHECK_DEADLOCK FALSE`: codes, keys and time run out.

### Fairness

- `cache`: each statement of an operation under way is weakly fair; SQLite answers or fails,
  and a process that is not killed goes on. Cancellation and crashes are not fair. The two
  processes are separate, and neither waits for the other inside an operation.
- `session`: the session's own steps and each request's are weakly fair, because tokio runs every
  task that can run, HTTP calls time out, and sleeps end. That the server's connection ends, that a
  client hangs up, and that anybody makes a request are not fair.
- `live_sync`: the poller and the loop are weakly fair; taking from the poller's channel is strongly
  fair, because the loop's `select!` picks at random among what is ready, so a doorbell cannot
  keep it away for ever. Failures that end a session are bounded: after the last, connecting and
  polling succeed. No call of the web hook is fair: the poll alone must do.
- `bridge_rpc`: a call's wait for the mutex and `Install`, which waits for it too, are strongly fair
  (tokio's mutex is first come, first served); the child answers what it is asked and dies when it is killed; the
  respawn's other steps are weakly fair. Both properties exempt behaviours after a child ended unasked,
  its output could not be read, or a respawn was dropped (`hurt`): a call has no timeout of its own there.
- `bridge_contacts`: only the attempt's own steps and its timer. Nothing is assumed of the child, whose calls
  may never return.

### What the four violations show

- `SavedIsApplied`: `reconnect_from_store` loads the store and publishes the result without a
  lock over both. Two requests both load; the one that loaded the older settings publishes last.
  Both have answered, and the daemon goes on with settings that are no longer in the file, until the next
  reconnect. `SessionFollowsProvision` and `SettlesOnProvision` hold nevertheless: they are
  about what was *published*.
- `ReadyMeansRegistered`: `webhook.rotate` changes the stored token and not the running listener's;
  a following `webhook.register` registers the new one and raises the flag. The settings form
  then says that the hook is registered, while the listener refuses what the server
  sends. New messages still arrive, by the recovery poll.
- `PasswordKept`: `commit_webhook` reads the file into a structure without a password and writes that
  back. When the password is still in the file, because the load that would have moved it failed and
  `boot_with` went on without it, it is gone. `MoveKeepsPassword` says that nothing else loses it.
- `FailedIsNotDelivered`: an answer of the server that is an error, or that cannot be read, is called
  "failed", and "Not delivered" offers a plain retry; the message may have gone out. Only a timeout
  is called unconfirmed.

## 4. What is proved

All of it for every value of the constants: any number of chats, messages, servers,
tasks, processes, connections and clients, any hash, any listing, any database allowed by
`LegacyAssumption`.

- `MessageCacheProofs`
  - `JobsCorrect`, `CacheTypeCorrect`: types, and that each statement finds the arguments it
    needs (`JobsFit`).
  - `IdsStayInAgreement`, `EachGuidHasOneRow`, `MessagesStayFiled`: `IdsInAgreement`,
    `OneRowPerGuid` and `FiledUnderItsChat`.
    None of them is inductive. A row that has no identity may have its id taken by a lookup,
    and then a second row for its guid appears. What prevents it is order: until some process
    has rebuilt the identities, nobody inserts an identity that is not of the earlier
    build (`OnlyOldIds`); from then on every row is named by its identity (`AllNamed`), and
    a process past its own rebuild is in the second phase (`InOrder`). `NamedOrOld`,
    `OldChatsKept` and `Filed` say what rows may look like between the rebuild of chats and
    that of messages. `CacheInvariant` is the conjunction.
  - `EveryMessageHasItsChat`: `NoOrphanWhenServing`. Only a database an earlier build left can hold a
    message without its chat's row. Every `open` finds all of those at once, because each is filed under an
    identity, and from then on what has no row is on the list of an `open` that has not ended;
    nothing stores a message before its chat has a row, and a row found to be there stays. The repair takes the
    newest date of a chat's messages; that there is one is `LargestOf`.
  - `LedgerCorrect`: `MessageCache` implements `UnreadLedger` under the mapping `Listed`,
    `Counts`, `Known`, `InHand`. It needs four more facts: the column and `raw_json` agree
    (`SameCount`), the chat of a `mark_read` under way has its row (`ReadHasRow`), the chat of a live delivery has its
    row when the message is stored (`ProcsHouse`), and a delivery is the daemon's, carries no count of a listing, and is in hand until it ends
    (`Errands`). Then each of the
    four statements that write rows is a step of the ledger or a stutter, by what it does to
    one row (`OneCountChanges`, `OneKnown`): the one that stores a new inbound message of a delivery is `Store`, which counts
    it, and no stutter.
  - `IdsNeverChangeMeaning`: `IdsStayValid`. No statement changes an identity or the guid of a chat row
    (`RowsStay`). A message may be written over: its row is its own or empty because everything is named by then
    (`MessageSlot`).
- `LinkSessionProofs`
  - `TypeCorrect`; `SessionRunsAsPublished`, `NoWakeupIsLost`, `HandleFollowsSession`:
    `SessionFollowsProvision`, `NoLostWakeup` and `HandleIsSessions`. The strengthening says
    that generation numbers in flight are distinct and never older than what they announce, so
    a number sent late still differs from the one the session holds.
- `SettingsStoreProofs`
  - `StoreTypeCorrect`: types, with the fact that an inode made for the temporary file is nobody's:
    one for each process and two names are more than are in use (a pigeonhole argument with the
    library's theorems on cardinalities).
  - `SettingsSurvive`: `SettingsKept`. Until its rename an operation touches only an inode that is not
    config.toml's; as long as operations do not overlap, one replaces the file at a time
    (`OneReplaces`), and what it has staged is its change of what the file says (`Staged`).
  - `MoveNeverLosesPassword`: `MoveKeepsPassword`, overlap or not. A password in a file can only be in
    the config.toml that was there at the start (`PlainInConf`), and a process that may rename over
    it, but for `webhook.set`, has seen one in the keyring (`Covered`), which never loses it.
- `ImsgRpcProofs`
  - `RpcTypeCorrect`, and `WaiterIsServed`: `WaiterHasServer`. The task that waits holds the mutex
    (`MutexHeld`), so the child it wrote to is the one held (`WroteToHeld`); that child ends only
    in a respawn, which drains every pending call, and is read for as long as it runs (`HeldChild`).
- `BridgeServerProofs`
  - `BridgeTypeCorrect`; `OneAttemptAtATime`: the gate is held by exactly the connection whose attempt is
    under way (`GateHeld`); `QuietClientIsCurrent`: while no write of the state lacks its event, the last state a client
    was told, or will be told by what is in its queue, is the state as it is (`TellsAll`).
  - `AttemptComesNearer`: `AttemptAdvances`. Each step of an attempt lowers `StepsLeft`, which starts at 2 V + 9 for V
    attempts to verify: `Follows` lists what may follow what, and a "verify" before the restart counts
    more than the rounds after it. While an attempt is under way none can begin (`GateHeld`).
- `PairingProofs`
  - `PairedClientIsTrusted`: `PairedIsTrusted`. Once there is a ca.pem it never changes, so every CA that
    server, answer or client has is that one (`OneCa`), and what a client has written so far is of
    the request it is at (`WrittenSoFar`). 
    `ReplacedCodeNeverMatches`: `ReplacedCodeIsDead`. Codes only grow (`CodesGrow`): what is on disk, and what a command has
    yet to write, is no older than the code a request found there when it was sent, nor is the ticket read for it.
  - `PairingTypes`, and `AttemptsWithinLimit`: `AttemptsBounded`. A request that was let through has a place:
    attempts and places together stay below the limit and the number of clients, because a request is let
    through only while the attempts alone are below the limit, and recording one trades a place for
    an attempt. `EachAttemptCounts`: keys are one request's, so recording adds one and never merges two.
- `LiveSyncProofs`
  - `LiveTypes`; `KnownCopiesAreStored`: `KnownIsStored`. Messages are numbered as they appear, so a poll returns
    at most what it asks for (`Numbered`, `NewestAre`), and a guid is remembered once (`Once`). A copy
    the poller knows as the server has it is the last of its message in the channel, or nothing of the message is
    in the channel, and then the loop holds it or the cache has it and the loop holds nothing else of the message
    (`Comes`). What the loop reads is as the server has it at that moment, and it holds one thing
    at a time, which is why a stale copy is never behind a newer one the poller has passed on.
- `DesktopProofs`
  - `OutboxKeepsItsPromise`: `OutboxSpec`, step by step (`StepPromised` and the lemmas `...Promised`). A row leaves by its
    own delivered number because an answer and an event tell the truth (`Truthful`), and never another with it, because
    ids are given out once (`WithoutRow`). A number is handed over while its row is shown because a send that was asked for has
    its row marked "sending" (`Sending`): neither a retry, which takes failed rows, nor an event removes that one. It is
    delivered then or later, also when a retry has taken the row's place, and once because the server carries a post out once.
  - `NothingLostOrDoubled`: `SentAsAsked`; `OutboxNeverStalls`: `OutboxMoves`. Each text tried has a row or
    a message on the server (`Accounted`). A row leaves by an answer or an event, and both speak of ids that were
    delivered (`Truthful`); a try is delivered once because a row that is queued, or whose send was only
    asked for, is of an id the server does not have (`RowsFit`, `SendFits`).
  - `DesktopTypes`: with the bound on tries and on messages of others the server's messages are bounded
    (`ServerFits`, a counting argument: one message for each try and each of the others').
  - `OpenThreadIsCurrent`: `ThreadIsCurrent`. Of the newest messages of the cache each is in view
    (`InView`: in the thread, or in what the thread will be when the load that has read the cache ends), or on its way as an
    event (`OnTheWay`), or a load of the newest messages is due (`LoadComes`: the subscription is down or
    lagged, which ends in one, or one has yet to read the cache). A step that takes a message out of one of the three
    puts it into another; only the three paths of `excused` do not. With nothing left to follow only
    the first remains.

Every invariant and every action property that a passing run checks is proved, and so are the
refinements of `UnreadLedger` and `OutboxLedger`. The facts about sequences and numbers the proofs need are stated in the modules that need them;
induction is used in its set form, that a set of naturals has a least element (`LeastNat`).

Only model-checked: liveness (`OperationsEnd`, `SettlesOnProvision`, `ConnectingEnds`, `CacheCatchesUp`,
`FallsSilent`, `CallReturns`, `RespawnEnds`, `AttemptEnds`), which needs ENABLED and fairness, out of
this prover's reach. `KnownIsStored` is the safety half of `CacheCatchesUp`: what is left to TLC is that
the poller comes to know the newest messages, and `AttemptAdvances` that of `AttemptEnds`: an attempt cannot go
round in circles, and what is left is that its next step comes.

## 5. What is not modelled

Whole parts:

- `domain.rs` and `proto/`: JSON, names, timestamps and serialisation are data. What the models keep of
  them is that a hash may collide and a date be missing.
- The terminal client: a second view of the same socket, without an outbox.
- The command line, the installer and the setup wizard: sequential, they copy files and start services.
- mDNS, the TLS handshake, the tokens of attachments.

Of the parts that are modelled:

- Cache: text, senders, names and contacts, and so `repair_phone_sender_names` and
  `repair_message_projections` (the first writes back a `raw_json` it read in an earlier statement: listed
  as a hazard); `sync_meta`; search; the saturation of counts and ids at `i64::MAX`. SQLite
  itself: a statement is atomic and durable, a transaction too.
- Session: the delay of `RetryBackoff`, the `sync.link` events.
- Live synchronisation: `bind_names`, and `reload_chats`, which is reached only for a message whose chat has no
  row (`NoOrphanWhenServing` says there is none). The rate window of the listener is one of the
  reasons for which a call is lost.
- Socket server: `messages.search`, `contacts.authorize`, and the limit of eight requests of one
  connection, which no client of the repository reaches, each making one.
- Desktop: the chat list and its badge, which a poll every five seconds replaces whole; `mark_read`;
  notifications; the settings form. The answer to a send carries the guid of the message: the temporary one of
  `bb.rs:397`, under which a second row appears, is listed as a hazard. The daemon drops the task
  of a connection that ended (`abort_all`) before the panel has seen it end, so a task does not begin its post after the panel has
  given up on it; a post that was made may be carried out at any time.
- Store: the web hook token is in `LinkSession` only.
- Bridge: a client's certificate is enough for a connection; `client_allowed` is not called. The
  bridge's `init` with another address does not renew the certificate's names, which are not modelled. `setup pair`
  writes a config.toml under the name `imsg-sync` uses (`enroll.rs:103`); that the two meet is not modelled.

What a property leaves out on purpose, because the code does not promise it:

- `ThreadIsCurrent` exempts (`excused`), until the next reload, a conversation whose last reload failed by itself, by the
  timeout or an error of the daemon (`Service.qml:529`: nothing asks again while the subscription stays up, so a conversation
  just opened stays blank, which is not what `PLAN.md:593` has in mind); one reopened after the settings were
  shown, which `Panel.qml:98-102` does without asking for its messages; and one whose waiting reload a "Load older" took the
  place of (`Service.qml:189-192`).
- `LedgerSpec` counts what a live delivery is the first to store. A message that prefetch stored first, because it came during a
  reconnect, is never counted.
- `SettingsKept` exempts operations that overlap (`overlap`), `WaiterHasServer`, `CallReturns` and `RespawnEnds` a child that
  ended unasked and a respawn that was dropped (`hurt`).
- `ReplacedCodeIsDead` exempts a request that met a config.toml that was being written: the copy `serve` started with
  decides (`pairing.rs:71`).
- `QuietViewIsCurrent` exempts a connection that lagged: the code ignores the notice and does not make up for what was
  dropped (`server.rs:171-172`).
- `PairedIsTrusted` speaks of pairings that ended: a client that gave up between two files is `partial`. A Mac whose
  `init` ended after it began ca.pem and before it finished the fourth file has a PEM file that is missing or empty, which
  `serve` and `sign_client_csr` refuse; it cannot be set up again without deleting ca.pem (`tls.rs:25`), and then
  nobody is signed.
- `CacheCatchesUp` speaks of the newest messages a poll returns: what a burst pushed out of the poll while every
  web hook call was lost may not be fetched before the next session.

## 6. The plan

Done: the cache and its ledger, the session, live synchronisation, the settings store, the conversation and outbox of the plugin
against the socket server, and the bridge, with the proofs of section 4: no safety property is only model-checked.

Left, in this order:

1. `reload_chats` and `mark_read` against the server's own unread count, composed with `UnreadLedger`: what a
   client's badge shows after a reconnect.
2. The temporary guid of a send, as a second message in `Desktop` and `MessageCache`.
3. `sync_meta` and the names of senders, for the status process beside the daemon.
