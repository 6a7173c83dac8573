------------------------------- MODULE LiveSync -------------------------------
(***************************************************************************)
(* How messages of others reach the cache while a session lives            *)
(* (sync/src/client.rs, bb.rs, webhook.rs).                                *)
(*                                                                         *)
(* A task polls the server for its newest messages and passes on, through  *)
(* a bounded channel, those it has not passed on before or that have       *)
(* changed since; the listener of the web hook puts the guid of what it is *)
(* told of into a bounded queue and refuses what does not fit.  One loop   *)
(* takes from both, fetching a message for a guid, and stores it; it also  *)
(* repeats the prefetch that failed when the session began.  What it holds *)
(* was read from the server earlier, so an older copy may be stored over a *)
(* newer one.  A failed poll ends the session, and the next starts over.   *)
(*                                                                         *)
(* External: the server, where messages appear and change, and which calls *)
(* the web hook once for each, or not at all.                              *)
(***************************************************************************)
EXTENDS Naturals, Sequences, FiniteSets

CONSTANTS
    MaxMessages,    \* bound: messages on the server, numbered as they appear
    MaxVersions,    \* bound: versions of a message
    MaxEdited,      \* bound: messages that change after they appeared
    MaxFailures,    \* bound: failures that end a session
    PollLimit,      \* newest messages a poll asks for (200 in the code)
    SeenMax,        \* messages the poller remembers (2000 in the code)
    ChannelMax,     \* from the poller to the loop (256 in the code)
    HookMax,        \* from the listener to the loop (64 in the code)
    PrefetchLimit   \* newest messages of a chat that are prefetched

ASSUME LiveAssumption ==
    /\ MaxMessages \in Nat /\ MaxVersions \in Nat \ {0}
    /\ MaxEdited \in Nat /\ MaxFailures \in Nat
    /\ PollLimit \in Nat \ {0} /\ ChannelMax \in Nat \ {0} /\ HookMax \in Nat \ {0}
    /\ SeenMax \in Nat /\ SeenMax >= PollLimit /\ PrefetchLimit \in Nat

VARIABLES
    server,         \* message -> its version there (0: not yet)
    calls,          \* messages the server is about to call the web hook for
    phase,          \* of the session
    failures,
    prefetched,     \* prefetch_ok
    batch, seen,    \* the poller: what it read and has yet to look at; what it knows
    channel, hooks, \* what the loop takes from
    held,           \* copies the loop has read and not stored, in a set
    cache           \* message -> the version stored (0: none)

external == <<server, calls>>
poller == <<batch, seen>>
vars == <<server, calls, phase, failures, prefetched, batch, seen, channel, hooks,
          held, cache>>

Messages == 1..MaxMessages
Versions == 1..MaxVersions
Copies == [id : Messages, version : Versions]

TypeOK ==
    /\ server \in [Messages -> 0..MaxVersions]
    /\ calls \subseteq Messages
    /\ phase \in {"down", "prefetch", "live"} /\ failures \in 0..MaxFailures
    /\ prefetched \in BOOLEAN
    /\ batch \in Seq(Copies) /\ Len(batch) <= PollLimit
    /\ seen \in Seq(Copies) /\ Len(seen) <= SeenMax
    /\ channel \in Seq(Copies) /\ Len(channel) <= ChannelMax
    /\ hooks \in Seq(Messages) /\ Len(hooks) <= HookMax
    /\ held \subseteq Copies
    /\ cache \in [Messages -> 0..MaxVersions]

Init ==
    /\ server = [m \in Messages |-> 0] /\ calls = {}
    /\ phase = "down" /\ failures = 0 /\ prefetched = FALSE
    /\ batch = <<>> /\ seen = <<>> /\ channel = <<>> /\ hooks = <<>> /\ held = {}
    /\ cache = [m \in Messages |-> 0]

Count == Cardinality({m \in Messages : server[m] # 0})
Newest(limit) == {m \in Messages : server[m] # 0 /\ m + limit > Count}
Copy(m) == [id |-> m, version |-> server[m]]

-----------------------------------------------------------------------------
(* The server                                                               *)

\* A message appears, or one changes ("new-message", "updated-message").
Change(m) ==
    /\ m <= Count + 1 /\ server[m] < MaxVersions
    /\ server[m] # 0 => Cardinality({n \in Messages : server[n] > 1} \cup {m}) <= MaxEdited
    /\ server' = [server EXCEPT ![m] = @ + 1]
    /\ calls' = calls \cup {m}
    /\ UNCHANGED <<phase, failures, prefetched, poller, channel, hooks, held, cache>>

\* The call reaches the listener of a live session and fits in its queue ...
HookAccepted(m) ==
    /\ m \in calls /\ phase = "live" /\ Len(hooks) < HookMax
    /\ calls' = calls \ {m}
    /\ hooks' = Append(hooks, m)
    /\ UNCHANGED <<server, phase, failures, prefetched, poller, channel, held, cache>>

\* ... or is lost, refused for its token or the rate, or does not fit.
HookLost(m) ==
    /\ m \in calls
    /\ calls' = calls \ {m}
    /\ UNCHANGED <<server, phase, failures, prefetched, poller, channel, hooks, held, cache>>

-----------------------------------------------------------------------------
(* The session                                                              *)

Connect ==
    /\ phase = "down"
    /\ phase' = "prefetch"
    /\ UNCHANGED <<external, failures, prefetched, poller, channel, hooks, held, cache>>

\* prefetch_cache reads a chat's newest messages ...
PrefetchRead ==
    /\ held = {} /\ (phase = "prefetch" \/ (phase = "live" /\ ~prefetched))
    /\ held' = {Copy(m) : m \in Newest(PrefetchLimit)}
    /\ prefetched' = TRUE
    /\ phase' = IF held' = {} THEN "live" ELSE phase
    /\ UNCHANGED <<external, failures, poller, channel, hooks, cache>>

\* ... or fails: the session goes on, and its loop tries again.
PrefetchFails ==
    /\ phase = "prefetch" /\ held = {}
    /\ phase' = "live" /\ prefetched' = FALSE
    /\ UNCHANGED <<external, failures, poller, channel, hooks, held, cache>>

\* What the loop holds goes to the cache: prefetched messages or a doorbell's.
Store ==
    /\ held # {}
    /\ cache' = [m \in Messages |->
          IF \E c \in held : c.id = m THEN (CHOOSE c \in held : c.id = m).version ELSE cache[m]]
    /\ held' = {}
    /\ phase' = "live"
    /\ UNCHANGED <<external, failures, prefetched, poller, channel, hooks>>

\* apply_live, of what the poller passed on.
TakePolled ==
    /\ phase = "live" /\ held = {} /\ channel # <<>>
    /\ cache' = [cache EXCEPT ![Head(channel).id] = Head(channel).version]
    /\ channel' = Tail(channel)
    /\ UNCHANGED <<external, phase, failures, prefetched, poller, hooks, held>>

\* doorbell: the message is fetched, or the fetch fails and it is left at that.
TakeHook ==
    /\ phase = "live" /\ held = {} /\ hooks # <<>>
    /\ held' \in {{Copy(Head(hooks))}, {}}
    /\ hooks' = Tail(hooks)
    /\ UNCHANGED <<external, phase, failures, prefetched, poller, channel, cache>>

\* Mutant: the next session's poller remembers what this one passed on.
EndSessionKeepsSeen ==
    /\ phase # "down" /\ failures < MaxFailures
    /\ failures' = failures + 1
    /\ phase' = "down" /\ prefetched' = FALSE
    /\ batch' = <<>> /\ channel' = <<>> /\ hooks' = <<>> /\ held' = {}
    /\ UNCHANGED <<external, seen, cache>>

\* A failed poll, an error of the cache, the end of the daemon: the next session has
\* a poller that has seen nothing.
EndSession ==
    /\ phase # "down" /\ failures < MaxFailures
    /\ failures' = failures + 1
    /\ phase' = "down" /\ prefetched' = FALSE
    /\ batch' = <<>> /\ seen' = <<>> /\ channel' = <<>> /\ hooks' = <<>> /\ held' = {}
    /\ UNCHANGED <<external, cache>>

-----------------------------------------------------------------------------
(* The poller                                                               *)

\* recent_messages, oldest first.
Poll ==
    /\ phase = "live" /\ batch = <<>>
    /\ batch' = LET new == Newest(PollLimit)
                    k == Cardinality(new)
                IN  [i \in 1..k |-> Copy(Count - k + i)]
    /\ UNCHANGED <<external, phase, failures, prefetched, seen, channel, hooks, held, cache>>

\* What is remembered but for a guid, which is there once at most.
Without(copies, id) ==
    IF \A i \in DOMAIN copies : copies[i].id # id THEN copies
    ELSE LET gone == CHOOSE i \in DOMAIN copies : copies[i].id = id
         IN  [i \in 1..(Len(copies) - 1) |-> copies[IF i < gone THEN i ELSE i + 1]]

\* Mutant: a message is remembered by its guid alone.
RememberedByGuid(copy) ==
    IF \E i \in DOMAIN seen : seen[i].id = copy.id THEN seen ELSE Append(seen, copy)

\* Mutant: fewer messages are remembered than a poll returns.
RememberedFew(copy) ==
    LET others == Without(seen, copy.id)
        longer == Append(others, copy)
    IN  IF \E i \in DOMAIN seen : seen[i] = copy THEN seen
        ELSE IF Len(longer) >= PollLimit THEN Tail(longer) ELSE longer

\* Mutant: the oldest is never forgotten.
RememberedAll(copy) ==
    IF \E i \in DOMAIN seen : seen[i] = copy THEN seen
    ELSE Append(Without(seen, copy.id), copy)

\* remember_message: unchanged if it was known like that, else its newest entry.
Remembered(copy) ==
    LET others == Without(seen, copy.id)
        longer == Append(others, copy)
    IN  IF \E i \in DOMAIN seen : seen[i] = copy THEN seen
        ELSE IF Len(longer) > SeenMax THEN Tail(longer) ELSE longer

\* poll_loop: the next of the batch, passed on when there is room if it is news.
PassOn ==
    /\ phase = "live" /\ batch # <<>>
    /\ LET copy == Head(batch) IN
       IF Remembered(copy) = seen THEN UNCHANGED <<seen, channel>>
       ELSE /\ Len(channel) < ChannelMax
            /\ seen' = Remembered(copy)
            /\ channel' = Append(channel, copy)
    /\ batch' = Tail(batch)
    /\ UNCHANGED <<external, phase, failures, prefetched, hooks, held, cache>>

Next ==
    \/ \E m \in Messages : Change(m) \/ HookAccepted(m) \/ HookLost(m)
    \/ Connect \/ PrefetchRead \/ PrefetchFails \/ Store \/ TakePolled \/ TakeHook
    \/ EndSession \/ Poll \/ PassOn

Spec == Init /\ [][Next]_vars

\* The poller and the loop are tasks, and connections and polls succeed again once
\* the failures, which this instance bounds, are over.
Fairness ==
    /\ WF_vars(Connect \/ PrefetchRead \/ Store)
    /\ SF_vars(TakePolled) /\ WF_vars(TakeHook)
    /\ WF_vars(Poll \/ PassOn)

FairSpec == Spec /\ Fairness

-----------------------------------------------------------------------------
(* Properties                                                               *)

\* What the poller will not pass on again, because it knows it as the server has it, is
\* in the cache like that when the loop has nothing left to store: no older copy, from a
\* doorbell or the prefetch, came after it, and none got lost with a session.
KnownIsStored ==
    held = {} /\ channel = <<>> =>
        \A i \in DOMAIN seen :
            seen[i] = Copy(seen[i].id) => cache[seen[i].id] = seen[i].version

\* "reconciliation recovers dropped deliveries": however calls of the web hook are
\* lost and copies overtake each other between poller, doorbell and prefetch, the
\* cache comes to hold the newest messages as the server has them, and keeps them so.
CacheCatchesUp == <>[](\A m \in Newest(PollLimit) : cache[m] = server[m])

\* Once nothing changes on the server, clients hear nothing more.
FallsSilent == <>[](channel = <<>> /\ hooks = <<>>)
=============================================================================
