---------------------------- MODULE LinkSession -----------------------------
(***************************************************************************)
(* The link of imsg-sync to the BlueBubbles server: the session task of    *)
(* link/mod.rs and client.rs, and the socket requests that change what it  *)
(* should be doing.                                                        *)
(*                                                                         *)
(* A request saves settings, then reconnect_from_store loads them back,    *)
(* publishes them as `provision`, takes the next generation number and     *)
(* sends it on the `wake` watch channel.  Requests are tasks of a          *)
(* multi-threaded runtime and nothing orders the steps of two of them.     *)
(* The session task reads the watch value and the provision, runs a        *)
(* connection with those credentials, and gives it up when the watch value *)
(* is no longer the one it started with.                                   *)
(*                                                                         *)
(* The web hook is part of it: its listener lives in the session, its      *)
(* registration on the server is made by requests, and three flags say to  *)
(* clients how far it got.                                                 *)
(***************************************************************************)
EXTENDS Naturals, FiniteSets

CONSTANTS
    Servers,        \* BlueBubbles servers, each with its password
    NoServer,       \* no usable url and password
    Requests,       \* tasks that serve a socket request
    MaxRequests,    \* bound: requests begun in a behaviour
    Faults          \* whether clients hang up and the keyring fails

ASSUME LinkAssumption ==
    /\ NoServer \notin Servers
    /\ MaxRequests \in Nat
    /\ Faults \in BOOLEAN

VARIABLES
    stored,         \* config.toml and the keyring: server and hook enabled
    token,          \* the webhook token of the keyring, 0 for none
    provision,      \* Link.provision
    generation,     \* Link.generation
    wake,           \* the value of the watch channel
    news,           \* the session loop's receiver has not seen that value
    uplink,         \* the server the attached client talks to
    connecting, listening, registered,  \* Link's flags
    session,        \* the session task: pc, gen, creds and the listener's token
    req,            \* the request tasks
    begun,          \* requests begun
    hooks           \* server -> tokens of our URLs registered there

linkVars == <<provision, generation, wake, news>>
flags == <<connecting, listening, registered>>
vars == <<stored, token, provision, generation, wake, news, uplink, connecting,
          listening, registered, session, req, begun, hooks>>

Config == [server: Servers \cup {NoServer}, hook: BOOLEAN]
Unconfigured == [server |-> NoServer, hook |-> FALSE]
Ready(config) == config.server # NoServer

-----------------------------------------------------------------------------
(* Requests                                                                 *)

RequestPC == {"idle", "load", "flag", "publish", "number", "send",
              "clear_off", "off", "clear_rotate", "rotate", "replace", "create", "mark"}
RequestState == [pc: RequestPC, loaded: Config, num: Nat, token: Nat,
                 server: Servers \cup {NoServer}]
NoRequest == [pc |-> "idle", loaded |-> Unconfigured,
              num |-> 0, token |-> 0, server |-> NoServer]

Begin(r, label) ==
    /\ req[r].pc = "idle" /\ begun < MaxRequests
    /\ begun' = begun + 1
    /\ req' = [req EXCEPT ![r].pc = label]
Step(r, from, to) == req[r].pc = from /\ req' = [req EXCEPT ![r].pc = to] /\ UNCHANGED begun
Answer(r, from) == req[r].pc = from /\ req' = [req EXCEPT ![r] = NoRequest] /\ UNCHANGED begun

EnsuredToken == IF token = 0 THEN 1 ELSE token

\* config.set: store::commit, which answers before anything is reloaded.
ConfigSet(r, s) ==
    /\ Begin(r, "load")
    /\ stored' = [stored EXCEPT !.server = s]
    /\ UNCHANGED <<token, linkVars, uplink, flags, session, hooks>>

ConfigReconnect(r) ==
    /\ Begin(r, "load")
    /\ UNCHANGED <<stored, token, linkVars, uplink, flags, session, hooks>>

\* webhook.set with enabled: store::commit_webhook makes sure of a token.
WebhookOn(r) ==
    /\ Begin(r, "load")
    /\ stored' = [stored EXCEPT !.hook = TRUE]
    /\ token' = EnsuredToken
    /\ UNCHANGED <<linkVars, uplink, flags, session, hooks>>

\* webhook.set without: first webhook_clear_ours, whose errors are ignored.
WebhookOff(r) ==
    /\ Begin(r, "clear_off")
    /\ UNCHANGED <<stored, token, linkVars, uplink, flags, session, hooks>>

WebhookRotate(r) ==
    /\ Begin(r, "clear_rotate")
    /\ UNCHANGED <<stored, token, linkVars, uplink, flags, session, hooks>>

\* webhook.register: the uplink is up, and the URL carries the stored token.
WebhookRegister(r) ==
    /\ uplink # NoServer
    /\ req[r].pc = "idle" /\ begun < MaxRequests
    /\ begun' = begun + 1
    /\ token' = EnsuredToken
    /\ req' = [req EXCEPT ![r].pc = "replace", ![r].token = EnsuredToken]
    /\ UNCHANGED <<stored, linkVars, uplink, flags, session, hooks>>

\* The registrations after webhook_clear_ours at server s: the listing and each
\* deletion may fail, unnoticed.  There is nothing to clear without a client.
Cleared(s) == IF s = NoServer THEN {hooks}
              ELSE {[hooks EXCEPT ![s] = kept] : kept \in SUBSET hooks[s]}
Created(s, t) == [hooks EXCEPT ![s] = @ \cup {t}]

ClearOurs(r) ==
    /\ \/ Step(r, "clear_off", "off")
       \/ Step(r, "clear_rotate", "rotate")
    /\ hooks' \in Cleared(uplink)
    /\ UNCHANGED <<stored, token, linkVars, uplink, flags, session>>

\* apply_webhook up to reconnect_from_store.
CommitOff(r) ==
    /\ Step(r, "off", "load")
    /\ stored' = [stored EXCEPT !.hook = FALSE]
    /\ listening' = FALSE /\ registered' = FALSE
    /\ UNCHANGED <<token, linkVars, uplink, connecting, session, hooks>>

\* rotate_webhook_token: a listener that is running keeps the token it has.
RotateToken(r) ==
    /\ Answer(r, "rotate")
    /\ token' = token + 1
    /\ registered' = FALSE
    /\ UNCHANGED <<stored, linkVars, uplink, connecting, listening, session, hooks>>

\* webhook_replace: the client is cloned out of the handle, so it is used
\* whatever becomes of the handle; without a client the request fails.
ReplaceHooks(r) ==
    /\ req[r].pc = "replace"
    /\ req' = [req EXCEPT ![r] = IF uplink = NoServer THEN NoRequest
                                 ELSE [@ EXCEPT !.pc = "create", !.server = uplink]]
    /\ hooks' \in Cleared(uplink)
    /\ UNCHANGED <<stored, token, linkVars, uplink, flags, session, begun>>

CreateHook(r) ==
    /\ Step(r, "create", "mark")
    /\ hooks' = Created(req[r].server, req[r].token)
    /\ UNCHANGED <<stored, token, linkVars, uplink, flags, session>>

\* The server may have done it all the same.
CreateFails(r) ==
    /\ Answer(r, "create")
    /\ hooks' \in {hooks, Created(req[r].server, req[r].token)}
    /\ UNCHANGED <<stored, token, linkVars, uplink, flags, session>>

MarkRegistered(r) ==
    /\ Answer(r, "mark")
    /\ registered' = TRUE
    /\ UNCHANGED <<stored, token, linkVars, uplink, connecting, listening, session, hooks>>

-----------------------------------------------------------------------------
(* reconnect_from_store, in the five steps others can come between.         *)

LoadStore(r) ==
    /\ req[r].pc = "load"
    /\ req' = [req EXCEPT ![r].pc = "flag", ![r].loaded = stored]
    /\ UNCHANGED <<stored, token, linkVars, uplink, flags, session, begun, hooks>>

LoadFails(r) ==
    /\ Faults
    /\ Answer(r, "load")
    /\ UNCHANGED <<stored, token, linkVars, uplink, flags, session, hooks>>

FlagConnecting(r) ==
    /\ Step(r, "flag", "publish")
    /\ connecting' = Ready(req[r].loaded)
    /\ UNCHANGED <<stored, token, linkVars, uplink, listening, registered, session, hooks>>

Publish(r) ==
    /\ Step(r, "publish", "number")
    /\ provision' = req[r].loaded
    /\ UNCHANGED <<stored, token, generation, wake, news, uplink, flags, session, hooks>>

\* Mutant: fetch_sub for fetch_add.
TakeNumberBelow(r) ==
    /\ req[r].pc = "number"
    /\ generation' = generation - 1
    /\ req' = [req EXCEPT ![r].pc = "send", ![r].num = generation]
    /\ UNCHANGED <<stored, token, provision, wake, news, uplink, flags, session, begun, hooks>>

\* Mutant: the value fetch_add returns is sent as it is.
TakeOldNumber(r) ==
    /\ req[r].pc = "number"
    /\ generation' = generation + 1
    /\ req' = [req EXCEPT ![r].pc = "send", ![r].num = generation]
    /\ UNCHANGED <<stored, token, provision, wake, news, uplink, flags, session, begun, hooks>>

TakeNumber(r) ==
    /\ req[r].pc = "number"
    /\ generation' = generation + 1
    /\ req' = [req EXCEPT ![r].pc = "send", ![r].num = generation + 1]
    /\ UNCHANGED <<stored, token, provision, wake, news, uplink, flags, session, begun, hooks>>

SendWake(r) ==
    /\ Answer(r, "send")
    /\ wake' = req[r].num
    /\ news' = TRUE
    /\ UNCHANGED <<stored, token, provision, generation, uplink, flags, session, hooks>>

\* The client hangs up and abort_all cancels the task at an await, with some
\* of the deletions or the creation it was waiting for done.
HangUp(r) ==
    /\ Faults
    /\ \/ req[r].pc = "publish" /\ UNCHANGED hooks
       \/ req[r].pc \in {"clear_off", "clear_rotate", "replace"} /\ hooks' \in Cleared(uplink)
       \/ req[r].pc = "create" /\ hooks' \in {hooks, Created(req[r].server, req[r].token)}
    /\ req' = [req EXCEPT ![r] = NoRequest]
    /\ UNCHANGED <<stored, token, linkVars, uplink, flags, session, begun>>

-----------------------------------------------------------------------------
(* session_loop                                                             *)

SessionPC == {"top", "read", "empty", "wait", "enter", "check", "dial", "prefetch",
              "clear", "bind", "poll", "listen", "detach", "after", "backoff"}
SessionState == [pc: SessionPC, gen: Nat, creds: Config, token: Nat]

At(label) == session.pc = label
To(label) == session' = [session EXCEPT !.pc = label]
Superseded == wake # session.gen

ReadWake ==
    /\ At("top")
    /\ session' = [session EXCEPT !.pc = "read", !.gen = wake]
    /\ UNCHANGED <<stored, token, linkVars, uplink, flags, req, begun, hooks>>

ReadProvision ==
    /\ At("read")
    /\ session' = [session EXCEPT !.pc = IF Ready(provision) THEN "enter" ELSE "empty",
                                  !.creds = provision]
    /\ UNCHANGED <<stored, token, linkVars, uplink, flags, req, begun, hooks>>

\* Mutant: the watch value is marked as seen where the loop is about to wait.
DisconnectedAndSeen ==
    /\ At("empty") /\ To("wait")
    /\ connecting' = FALSE
    /\ uplink' = NoServer
    /\ news' = FALSE
    /\ UNCHANGED <<stored, token, provision, generation, wake, listening, registered,
                   req, begun, hooks>>

Disconnected ==
    /\ At("empty") /\ To("wait")
    /\ connecting' = FALSE
    /\ uplink' = NoServer
    /\ UNCHANGED <<stored, token, linkVars, listening, registered, req, begun, hooks>>

WakeChanged ==
    /\ At("wait") /\ news /\ To("top")
    /\ news' = FALSE
    /\ UNCHANGED <<stored, token, provision, generation, wake, uplink, flags, req, begun, hooks>>

EnterGeneration ==
    /\ At("enter") /\ To("check")
    /\ connecting' = TRUE
    /\ UNCHANGED <<stored, token, linkVars, uplink, listening, registered, req, begun, hooks>>

-----------------------------------------------------------------------------
(* run_generation and connect_and_sync                                      *)

CheckGeneration ==
    /\ At("check")
    /\ To(IF Superseded THEN "top" ELSE "dial")
    /\ connecting' = IF Superseded THEN connecting ELSE TRUE
    /\ UNCHANGED <<stored, token, linkVars, uplink, listening, registered, req, begun, hooks>>

\* BlueBubbles::connect answered and the client is attached; the generation is
\* not looked at again before it is.
Attach ==
    /\ At("dial") /\ To("prefetch")
    /\ uplink' = session.creds.server
    /\ connecting' = FALSE
    /\ UNCHANGED <<stored, token, linkVars, listening, registered, req, begun, hooks>>

\* Mutant: the select loses its wait_new_gen branch.
LeaveAtEnd(why) ==
    /\ session.pc \in {"dial", "prefetch", "clear", "bind", "poll", "listen"}
    /\ why = "ended"
    /\ session' = [session EXCEPT !.pc = "detach", !.token = 0]
    /\ listening' = FALSE /\ registered' = FALSE
    /\ UNCHANGED <<stored, token, linkVars, uplink, connecting, req, begun, hooks>>

\* The inner future ends (a refused connection, a failed statement, the end of
\* the subscription) or is dropped for a new generation, the listener with it.
\* set_webhook_listening(false) comes in the same step.
Leave(why) ==
    /\ session.pc \in {"dial", "prefetch", "clear", "bind", "poll", "listen"}
    /\ why = "superseded" => Superseded
    /\ session' = [session EXCEPT !.pc = "detach", !.token = 0]
    /\ listening' = FALSE /\ registered' = FALSE
    /\ hooks' \in IF At("clear") THEN Cleared(uplink) ELSE {hooks}
    /\ UNCHANGED <<stored, token, linkVars, uplink, connecting, req, begun>>

\* A failed prefetch is tolerated, so only its end matters here.
Prefetched ==
    /\ At("prefetch") /\ To(IF session.creds.hook THEN "bind" ELSE "clear")
    /\ UNCHANGED <<stored, token, linkVars, uplink, flags, req, begun, hooks>>

ClearThenPoll ==
    /\ At("clear") /\ To("poll")
    /\ hooks' \in Cleared(uplink)
    /\ listening' = FALSE /\ registered' = FALSE
    /\ UNCHANGED <<stored, token, linkVars, uplink, connecting, req, begun>>

\* live_webhook: the listener checks requests against this token until it ends.
Listen ==
    /\ At("bind")
    /\ token' = EnsuredToken
    /\ session' = [session EXCEPT !.pc = "listen", !.token = EnsuredToken]
    /\ listening' = TRUE
    /\ UNCHANGED <<stored, linkVars, uplink, connecting, registered, req, begun, hooks>>

\* The port is taken: poll instead.
BindFails ==
    /\ At("bind") /\ To("poll")
    /\ token' = EnsuredToken
    /\ listening' = FALSE /\ registered' = FALSE
    /\ UNCHANGED <<stored, linkVars, uplink, connecting, req, begun, hooks>>

\* Mutant: the handle keeps the client of a connection that ended.
DetachForgotten ==
    /\ At("detach") /\ To("after")
    /\ UNCHANGED <<stored, token, linkVars, uplink, flags, req, begun, hooks>>

Detach ==
    /\ At("detach") /\ To("after")
    /\ uplink' = NoServer
    /\ UNCHANGED <<stored, token, linkVars, flags, req, begun, hooks>>

\* Mutant: the flag stays up through the backoff.
AfterSyncStillConnecting ==
    /\ At("after")
    /\ To(IF Superseded THEN "top" ELSE "backoff")
    /\ UNCHANGED <<stored, token, linkVars, uplink, flags, req, begun, hooks>>

AfterSync ==
    /\ At("after")
    /\ To(IF Superseded THEN "top" ELSE "backoff")
    /\ connecting' = IF Superseded THEN connecting ELSE FALSE
    /\ UNCHANGED <<stored, token, linkVars, uplink, listening, registered, req, begun, hooks>>

RetryTimer ==
    /\ At("backoff") /\ To("check")
    /\ UNCHANGED <<stored, token, linkVars, uplink, flags, req, begun, hooks>>

LeaveBackoff ==
    /\ At("backoff") /\ Superseded /\ To("top")
    /\ UNCHANGED <<stored, token, linkVars, uplink, flags, req, begun, hooks>>

-----------------------------------------------------------------------------

Init ==
    /\ stored \in Config
    /\ token = IF stored.hook THEN 1 ELSE 0
    /\ provision \in IF Faults THEN {stored, Unconfigured} ELSE {stored}
    /\ generation = 0 /\ wake = 0 /\ news = FALSE
    /\ uplink = NoServer
    /\ connecting = FALSE /\ listening = FALSE /\ registered = FALSE
    /\ session = [pc |-> "top", gen |-> 0, creds |-> Unconfigured, token |-> 0]
    /\ req = [r \in Requests |-> NoRequest]
    /\ begun = 0
    /\ hooks = [s \in Servers |-> {}]

BeginRequest(r) ==
    \/ \E s \in Servers : ConfigSet(r, s)
    \/ ConfigReconnect(r)
    \/ WebhookOn(r) \/ WebhookOff(r) \/ WebhookRotate(r) \/ WebhookRegister(r)

Reconnect(r) ==
    \/ LoadStore(r) \/ LoadFails(r) \/ FlagConnecting(r)
    \/ Publish(r) \/ TakeNumber(r) \/ SendWake(r)

Hook(r) ==
    \/ ClearOurs(r) \/ CommitOff(r) \/ RotateToken(r)
    \/ ReplaceHooks(r) \/ CreateHook(r) \/ CreateFails(r) \/ MarkRegistered(r)

\* What the session does without waiting for the server's messages.
Advance ==
    \/ ReadWake \/ ReadProvision \/ Disconnected \/ WakeChanged \/ EnterGeneration
    \/ CheckGeneration \/ Attach \/ Prefetched \/ ClearThenPoll \/ Listen \/ BindFails
    \/ Leave("superseded") \/ Detach \/ AfterSync \/ RetryTimer \/ LeaveBackoff

Next ==
    \/ \E r \in Requests : BeginRequest(r) \/ Reconnect(r) \/ Hook(r) \/ HangUp(r)
    \/ Advance
    \/ Leave("ended")

Spec == Init /\ [][Next]_vars

\* Tokio runs every task that can run; connecting, prefetch and the hook calls
\* have HTTP timeouts and end, and sleeps end.
Fairness == WF_vars(Advance) /\ \A r \in Requests : WF_vars(Reconnect(r) \/ Hook(r))
FairSpec == Spec /\ Fairness

-----------------------------------------------------------------------------
(* Properties                                                               *)

TypeOK ==
    /\ stored \in Config /\ token \in Nat
    /\ provision \in Config
    /\ generation \in Nat /\ wake \in Nat /\ news \in BOOLEAN
    /\ uplink \in Servers \cup {NoServer}
    /\ connecting \in BOOLEAN /\ listening \in BOOLEAN /\ registered \in BOOLEAN
    /\ session \in SessionState
    /\ req \in [Requests -> RequestState]
    /\ begun \in Nat
    /\ hooks \in [Servers -> SUBSET Nat]

\* A session that believes it is current runs with the published settings,
\* unless a request that published is still on its way to wake it.  The loop
\* reads the watch value and the provision apart, and two requests may send
\* their numbers in the wrong order.
SessionFollowsProvision ==
    /\ \A r \in Requests : req[r].pc \notin {"number", "send"}
    /\ ~Superseded /\ session.pc \notin {"top", "read"}
    => session.creds = provision

\* The session never sleeps on a watch value it has not read.
NoLostWakeup == At("wait") /\ Superseded => news

\* Requests reach a server only through the client of the session that is
\* running, and only while it runs, and clients are told that the web hook is
\* listening only while its listener is.
HandleIsSessions ==
    /\ uplink # NoServer =>
          /\ uplink = session.creds.server
          /\ session.pc \in {"prefetch", "clear", "bind", "poll", "listen", "detach"}
    /\ listening => At("listen") /\ session.token # 0

\* When requests stop, the daemon ends up on the last settings published, and
\* a client for any other server is gone for good.
SettlesOnProvision ==
    <>[](session.creds = provision /\ uplink \in {NoServer, provision.server})

\* Link.view
View == IF ~Ready(provision) THEN "unconfigured"
        ELSE IF uplink # NoServer THEN "live"
        ELSE IF connecting THEN "connecting" ELSE "down"

\* "Connecting" is passing: whatever is shown settles as live or down.
ConnectingEnds == View = "connecting" ~> View # "connecting"

\* What config.set is tested to answer, of every request: once no request is
\* under way, what is published is what is stored.
SavedIsApplied == (\A r \in Requests : req[r].pc = "idle") => provision = stored

\* What the settings form says when the three flags are up and no request is
\* under way: the server pokes a listener that accepts its token.
ReadyMeansRegistered ==
    (\A r \in Requests : req[r].pc = "idle") /\ stored.hook /\ listening /\ registered
    => session.token \in hooks[session.creds.server]
=============================================================================
