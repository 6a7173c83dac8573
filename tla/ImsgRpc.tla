------------------------------ MODULE ImsgRpc -------------------------------
(***************************************************************************)
(* The bridge's `imsg rpc` child and the calls made of it                  *)
(* (bridge/src/imsg_rpc.rs).                                               *)
(*                                                                         *)
(* A call takes a fresh id, leaves a one-shot sender in `pending` under    *)
(* it, takes the mutex of the child's stdin, writes its request and waits  *)
(* for the answer with the mutex still held.  One task per child reads its *)
(* stdout and completes pending calls by id.  `respawn` kills the child,   *)
(* waits for its end, answers every pending call with an error, launches   *)
(* another child, and needs the stdin mutex to put the new pipe in place.  *)
(*                                                                         *)
(* The authorize attempt that respawns has a timeout and is dropped, at    *)
(* whatever it waits for, when that fires.  The child may exit by itself   *)
(* or print a line that is no JSON, which ends its reading task; nothing   *)
(* then completes the call that waits.  `hurt` remembers such an event.    *)
(***************************************************************************)
EXTENDS Naturals

CONSTANTS
    Callers,        \* tasks that call: one per connection, and the watch forwarder
    Respawner,      \* the connection that runs an authorize attempt
    Nobody,         \* holds no mutex
    MaxCalls,       \* bound: calls in a behaviour
    MaxChildren,    \* bound: children launched
    WatchTries      \* attempts of ensure_watch (6 in the code)

ASSUME RpcAssumption ==
    /\ Respawner \notin Callers /\ Nobody \notin Callers \cup {Respawner}
    /\ MaxCalls \in Nat /\ MaxChildren \in Nat \ {0} /\ WatchTries \in Nat

VARIABLES
    nextId,         \* REQ_ID
    chan,           \* id -> its one-shot channel; it is pending while "open"
    wire, sentTo,   \* id -> the line of it in a pipe, and the child of that pipe
    pc, call,       \* task -> where it is in `call`, and its id there
    holder,         \* who holds the mutex of stdin
    stdin, held,    \* the children whose pipe and handle the bridge holds
    launched,       \* children launched so far, numbered from 1
    alive,          \* the children that run
    reading,        \* the children whose stdout a task still reads
    respawn, tries, \* where respawn is, and its attempts to subscribe
    hurt            \* a child ended unasked, or a respawn was dropped before its drain

ids == <<nextId, chan, wire, sentTo>>
tasks == <<pc, call, holder>>
children == <<stdin, held, launched, alive, reading>>
phase == <<respawn, tries>>
vars == <<nextId, chan, wire, sentTo, pc, call, holder, stdin, held, launched,
          alive, reading, respawn, tries, hurt>>

Tasks == Callers \cup {Respawner}
Ids == 1..MaxCalls
Children == 1..MaxChildren
Phases == {"none", "killing", "reaped", "drained", "launched", "watch"}

TypeOK ==
    /\ nextId \in 1..(MaxCalls + 1)
    /\ chan \in [Ids -> {"none", "open", "answered", "respawned"}]
    /\ wire \in [Ids -> {"none", "sent", "replied"}]
    /\ sentTo \in [Ids -> Children \cup {0}]
    /\ pc \in [Tasks -> {"idle", "queued", "waiting"}]
    /\ call \in [Tasks -> Ids \cup {0}]
    /\ holder \in Tasks \cup {Nobody}
    /\ stdin \in Children /\ held \in Children /\ launched \in Children
    /\ alive \subseteq Children /\ reading \subseteq Children
    /\ respawn \in Phases /\ tries \in 0..WatchTries /\ hurt \in BOOLEAN

\* spawn: one child, its pipes and its reading task.
Init ==
    /\ nextId = 1
    /\ chan = [i \in Ids |-> "none"]
    /\ wire = [i \in Ids |-> "none"]
    /\ sentTo = [i \in Ids |-> 0]
    /\ pc = [t \in Tasks |-> "idle"]
    /\ call = [t \in Tasks |-> 0]
    /\ holder = Nobody
    /\ stdin = 1 /\ held = 1 /\ launched = 1 /\ alive = {1} /\ reading = {1}
    /\ respawn = "none" /\ tries = 0 /\ hurt = FALSE

-----------------------------------------------------------------------------
(* Calls                                                                    *)

\* call: the id, the pending entry, and the wait for stdin.
Call(t) ==
    /\ pc[t] = "idle" /\ nextId <= MaxCalls
    /\ nextId' = nextId + 1
    /\ chan' = [chan EXCEPT ![nextId] = "open"]
    /\ pc' = [pc EXCEPT ![t] = "queued"]
    /\ call' = [call EXCEPT ![t] = nextId]
    /\ UNCHANGED <<wire, sentTo, holder>>

\* Off the stack of `call`: the mutex is free again.  A pending entry stays.
Over(t) ==
    /\ chan' = [i \in Ids |-> IF i = call[t] /\ chan[i] # "open" THEN "none" ELSE chan[i]]
    /\ pc' = [pc EXCEPT ![t] = "idle"]
    /\ call' = [call EXCEPT ![t] = 0]
    /\ holder' = IF holder = t THEN Nobody ELSE holder

\* The request reaches the pipe of a child that runs.
Write(t) ==
    /\ pc[t] = "queued" /\ holder = Nobody /\ stdin \in alive
    /\ holder' = t
    /\ pc' = [pc EXCEPT ![t] = "waiting"]
    /\ wire' = [wire EXCEPT ![call[t]] = "sent"]
    /\ sentTo' = [sentTo EXCEPT ![call[t]] = stdin]
    /\ UNCHANGED <<nextId, chan, call, children, phase, hurt>>

\* The write fails: the call ends, its pending entry stays.
BrokenPipe(t) ==
    /\ pc[t] = "queued" /\ holder = Nobody /\ stdin \notin alive
    /\ Over(t)
    /\ UNCHANGED <<nextId, wire, sentTo, children, phase, hurt>>

\* rx.await: an answer, or the error a respawn sent.  ensure_watch is done with
\* an answer that is no error.
Return(t) ==
    /\ pc[t] = "waiting" /\ chan[call[t]] \in {"answered", "respawned"}
    /\ Over(t)
    /\ respawn' \in IF t = Respawner /\ respawn = "watch" /\ chan[call[t]] = "answered"
                    THEN {"none", "watch"} ELSE {respawn}
    /\ UNCHANGED <<nextId, wire, sentTo, children, tries, hurt>>

\* read_loop: the answer completes the call of its id, if somebody still waits.
ReadReply(i) ==
    /\ wire[i] = "replied" /\ sentTo[i] \in reading
    /\ wire' = [wire EXCEPT ![i] = "none"]
    /\ sentTo' = [sentTo EXCEPT ![i] = 0]
    /\ chan' = [chan EXCEPT ![i] = IF @ = "open" THEN "answered" ELSE @]
    /\ UNCHANGED <<nextId, tasks, children, phase, hurt>>

\* read_loop: end of file, once everything printed is read.
ReadEnd(g) ==
    /\ g \in reading \ alive
    /\ ~ \E i \in Ids : sentTo[i] = g /\ wire[i] = "replied"
    /\ reading' = reading \ {g}
    /\ UNCHANGED <<ids, tasks, stdin, held, launched, alive, phase, hurt>>

\* read_loop: a line that is no JSON ends it.
ReadGarbled(g) ==
    /\ g \in reading \cap alive
    /\ reading' = reading \ {g} /\ hurt' = TRUE
    /\ UNCHANGED <<ids, tasks, stdin, held, launched, alive, phase>>

-----------------------------------------------------------------------------
(* The child                                                                *)

Reply(i) ==
    /\ wire[i] = "sent" /\ sentTo[i] \in alive
    /\ wire' = [wire EXCEPT ![i] = "replied"]
    /\ UNCHANGED <<nextId, chan, sentTo, tasks, children, phase, hurt>>

Killed(g) == g = held /\ respawn \in {"killing", "reaped", "drained", "launched"}

\* The end start_kill asked for, or one of its own.
Exit(g) ==
    /\ g \in alive
    /\ alive' = alive \ {g}
    /\ hurt' = (hurt \/ ~Killed(g))
    /\ UNCHANGED <<ids, tasks, stdin, held, launched, reading, phase>>

-----------------------------------------------------------------------------
(* respawn                                                                  *)

Kill ==
    /\ respawn = "none" /\ pc[Respawner] = "idle" /\ launched < MaxChildren
    /\ respawn' = "killing"
    /\ UNCHANGED <<ids, tasks, children, tries, hurt>>

\* Mutant: respawn goes on without waiting for the child's end.
ReapAtOnce ==
    /\ respawn = "killing"
    /\ respawn' = "reaped"
    /\ UNCHANGED <<ids, tasks, children, tries, hurt>>

\* child.wait().await
Reap ==
    /\ respawn = "killing" /\ held \notin alive
    /\ respawn' = "reaped"
    /\ UNCHANGED <<ids, tasks, children, tries, hurt>>

\* Mutant: the pending calls are forgotten and not answered.
DrainNothing ==
    /\ respawn = "reaped"
    /\ respawn' = "drained"
    /\ UNCHANGED <<ids, tasks, children, tries, hurt>>

\* Every pending call is answered with an error.
Drain ==
    /\ respawn = "reaped"
    /\ chan' = [i \in Ids |-> IF chan[i] = "open" THEN "respawned" ELSE chan[i]]
    /\ respawn' = "drained"
    /\ UNCHANGED <<nextId, wire, sentTo, tasks, children, tries, hurt>>

Launch ==
    /\ respawn = "drained"
    /\ launched' = launched + 1
    /\ alive' = alive \cup {launched'}
    /\ respawn' = "launched"
    /\ UNCHANGED <<ids, tasks, stdin, held, reading, tries, hurt>>

LaunchFails ==
    /\ respawn = "drained"
    /\ respawn' = "none"
    /\ UNCHANGED <<ids, tasks, children, tries, hurt>>

\* Mutant: nobody reads the new child's stdout.
InstallUnread ==
    /\ respawn = "launched" /\ holder = Nobody
    /\ stdin' = launched /\ held' = launched
    /\ respawn' = "watch" /\ tries' = 0
    /\ UNCHANGED <<ids, tasks, launched, alive, reading, hurt>>

\* The stdin mutex, the new pipe and handle, the new reading task: nothing in
\* between waits, since only respawn takes the mutex of the handle.
Install ==
    /\ respawn = "launched" /\ holder = Nobody
    /\ stdin' = launched /\ held' = launched
    /\ reading' = reading \cup {launched}
    /\ respawn' = "watch" /\ tries' = 0
    /\ UNCHANGED <<ids, tasks, launched, alive, hurt>>

\* Mutant: one attempt more than there are.
WatchOnceMore ==
    /\ respawn = "watch" /\ tries <= WatchTries
    /\ Call(Respawner)
    /\ tries' = tries + 1
    /\ UNCHANGED <<children, respawn, hurt>>

\* ensure_watch: the next attempt.
Watch ==
    /\ respawn = "watch" /\ tries < WatchTries
    /\ Call(Respawner)
    /\ tries' = tries + 1
    /\ UNCHANGED <<children, respawn, hurt>>

\* ensure_watch is out of attempts (or this instance out of ids).
WatchFails ==
    /\ respawn = "watch" /\ pc[Respawner] = "idle"
    /\ tries = WatchTries \/ nextId > MaxCalls
    /\ respawn' = "none"
    /\ UNCHANGED <<ids, tasks, children, tries, hurt>>

\* The attempt's timeout drops respawn or a call at its await.  A child not yet in
\* place loses its pipes and exits; before the drain, pending calls stay pending.
TimedOut ==
    /\ respawn \in {"killing", "reaped", "launched"} \/ pc[Respawner] # "idle"
    /\ Over(Respawner)
    /\ respawn' = "none"
    /\ alive' = IF respawn = "launched" THEN alive \ {launched} ELSE alive
    /\ hurt' = (hurt \/ respawn \in {"killing", "reaped"})
    /\ UNCHANGED <<nextId, wire, sentTo, stdin, held, launched, reading, tries>>

Respawn == Kill \/ Reap \/ Drain \/ Launch \/ LaunchFails \/ Install \/ Watch \/ WatchFails \/ TimedOut

\* The connection of the attempt makes calls of its own before it respawns.
PlainCall(t) ==
    /\ t = Respawner => respawn = "none"
    /\ Call(t)
    /\ UNCHANGED <<children, phase, hurt>>

Next ==
    \/ \E t \in Tasks : PlainCall(t) \/ Write(t) \/ BrokenPipe(t) \/ Return(t)
    \/ \E i \in Ids : Reply(i) \/ ReadReply(i)
    \/ \E g \in Children : ReadEnd(g) \/ ReadGarbled(g) \/ Exit(g)
    \/ Respawn

Spec == Init /\ [][Next]_vars

\* tokio runs every task that can run and its mutexes are first come, first
\* served; the child answers what it is asked and dies when it is killed.
Fairness ==
    /\ \A t \in Tasks : SF_vars(Write(t) \/ BrokenPipe(t))
    /\ WF_vars(\E t \in Tasks : Return(t))
    /\ WF_vars(\E i \in Ids : Reply(i)) /\ WF_vars(\E i \in Ids : ReadReply(i))
    /\ WF_vars(Killed(held) /\ Exit(held))
    /\ WF_vars(Reap \/ Drain \/ Launch \/ Watch \/ WatchFails) /\ SF_vars(Install)

FairSpec == Spec /\ Fairness

-----------------------------------------------------------------------------
(* Properties                                                               *)

\* A call that waits can be answered: its request went to the child the bridge
\* holds, that child runs or has replied, and its stdout is read; or a respawn is
\* about to answer it.  Otherwise a child ended unasked or a respawn was dropped.
WaiterHasServer ==
    \A t \in Tasks : pc[t] = "waiting" /\ chan[call[t]] = "open" =>
        \/ hurt
        \/ respawn \in {"killing", "reaped"}
        \/ /\ sentTo[call[t]] = held /\ held \in reading
           /\ wire[call[t]] = "replied" \/ held \in alive

\* Every call returns, also across respawns, which need the mutex that a call
\* waiting for the killed child holds.
CallReturns == \A t \in Tasks : (pc[t] # "idle") ~> (pc[t] = "idle" \/ hurt)

\* A respawn ends by itself, without the timeout of the attempt, whatever calls
\* are under way.
RespawnEnds == (respawn # "none") ~> (respawn = "none" \/ hurt)
=============================================================================
