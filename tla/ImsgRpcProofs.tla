---------------------------- MODULE ImsgRpcProofs ----------------------------
(***************************************************************************)
(* For any number of callers, calls, children and attempts: a call that    *)
(* waits for its answer has somebody who will answer it, unless a child    *)
(* ended unasked or a respawn was dropped before its drain.                *)
(*                                                                         *)
(* The argument: the one task that waits holds the mutex of stdin, so the  *)
(* child it wrote to is still the one the bridge holds; that child ends    *)
(* unhurt only in a respawn, which drains every pending call after it; and *)
(* its stdout is read for as long as it runs.                              *)
(***************************************************************************)
EXTENDS ImsgRpc, TLAPS

Counters ==
    /\ \A t \in Tasks : pc[t] # "idle" => call[t] \in Ids /\ call[t] < nextId
    /\ respawn \in {"killing", "reaped", "drained"} => launched < MaxChildren
    /\ held = stdin /\ held <= launched
    /\ respawn = "launched" => launched # held

MutexHeld == \A t \in Tasks : pc[t] = "waiting" <=> holder = t

\* A call that waits unanswered was written to the child the bridge holds.
OpenWaiter(t) == pc[t] = "waiting" /\ chan[call[t]] = "open"
WroteToHeld ==
    \A t \in Tasks : OpenWaiter(t) => sentTo[call[t]] = held /\ wire[call[t]] # "none"

\* What the end of the held child implies.
HeldChild ==
    /\ held \in alive => held \in reading \/ hurt
    /\ respawn \in {"reaped", "drained", "launched"} => held \notin alive
    /\ held \notin alive =>
          hurt \/ respawn \in {"killing", "reaped"} \/ \A t \in Tasks : ~OpenWaiter(t)

IInv == TypeOK /\ Counters /\ MutexHeld /\ WroteToHeld /\ HeldChild

-----------------------------------------------------------------------------

LEMMA InitHolds == Init => IInv
<1> SUFFICES ASSUME Init PROVE IInv
  OBVIOUS
<1> USE RpcAssumption
<1>0. 1 \in Children /\ 1 \in 1..(MaxCalls + 1) /\ 0 \in 0..WatchTries
  BY DEF Children
<1>1. TypeOK
  BY <1>0 DEF Init, TypeOK, Phases
<1>2. Counters /\ MutexHeld
  BY DEF Init, Counters, MutexHeld, Tasks
<1>3. WroteToHeld /\ HeldChild
  BY DEF Init, WroteToHeld, HeldChild, OpenWaiter
<1>4. QED
  BY <1>1, <1>2, <1>3 DEF IInv

\* A new call, by a task that was idle.
LEMMA CallHolds ==
    ASSUME IInv, NEW t \in Tasks, Call(t),
           UNCHANGED <<stdin, held, launched, alive, reading, respawn, hurt>>,
           tries' \in 0..WatchTries
    PROVE  IInv'
<1> USE RpcAssumption
<1>0. /\ nextId \in Ids /\ nextId' = nextId + 1 /\ nextId' \in 1..(MaxCalls + 1)
      /\ UNCHANGED <<wire, sentTo, holder>>
      /\ pc[t] = "idle" /\ pc'[t] = "queued" /\ call'[t] = nextId
      /\ \A u \in Tasks : u # t => pc'[u] = pc[u] /\ call'[u] = call[u]
      /\ \A i \in Ids : i # nextId => chan'[i] = chan[i]
  BY DEF IInv, TypeOK, Call, Ids
<1>1. TypeOK'
  BY <1>0 DEF IInv, TypeOK, Call
<1>2. Counters'
  BY <1>0 DEF IInv, TypeOK, Counters, Ids
<1>3. MutexHeld'
  BY <1>0 DEF IInv, TypeOK, MutexHeld
<1>4. \A u \in Tasks : OpenWaiter(u)' => OpenWaiter(u) /\ call'[u] = call[u]
  <2> SUFFICES ASSUME NEW u \in Tasks, OpenWaiter(u)'
               PROVE  OpenWaiter(u) /\ call'[u] = call[u]
    OBVIOUS
  <2>1. u # t /\ pc[u] = "waiting" /\ call'[u] = call[u]
    BY <1>0 DEF OpenWaiter
  <2>2. call[u] \in Ids /\ call[u] # nextId
    BY <1>0, <2>1 DEF IInv, Counters, Ids
  <2>3. QED
    BY <1>0, <2>1, <2>2 DEF OpenWaiter
<1>5. WroteToHeld'
  BY <1>0, <1>4 DEF IInv, WroteToHeld
<1>6. HeldChild'
  <2>1. (\A u \in Tasks : ~OpenWaiter(u)) => \A u \in Tasks : ~OpenWaiter(u)'
    BY <1>4
  <2>2. QED
    BY <2>1 DEF IInv, HeldChild
<1>7. QED
  BY <1>1, <1>2, <1>3, <1>5, <1>6 DEF IInv

\* What a call that ends leaves behind.
LEMMA OverSteps ==
    ASSUME IInv, NEW t \in Tasks, Over(t)
    PROVE  /\ chan' \in [Ids -> {"none", "open", "answered", "respawned"}]
           /\ pc' \in [Tasks -> {"idle", "queued", "waiting"}]
           /\ call' \in [Tasks -> Ids \cup {0}]
           /\ holder' \in Tasks \cup {Nobody}
           /\ MutexHeld'
           /\ \A u \in Tasks : pc'[u] # "idle" => pc'[u] = pc[u] /\ call'[u] = call[u]
           /\ \A u \in Tasks : OpenWaiter(u)' => OpenWaiter(u)
<1> USE RpcAssumption DEF IInv, TypeOK
<1>1. /\ pc' = [pc EXCEPT ![t] = "idle"] /\ call' = [call EXCEPT ![t] = 0]
      /\ \A i \in Ids : chan'[i] = chan[i] \/ chan'[i] = "none"
      /\ chan' \in [Ids -> {"none", "open", "answered", "respawned"}]
  BY DEF Over
<1>2. holder' \in Tasks \cup {Nobody} /\ MutexHeld'
  BY <1>1 DEF Over, MutexHeld, Tasks
<1>3. \A u \in Tasks : pc'[u] # "idle" => pc'[u] = pc[u] /\ call'[u] = call[u]
  BY <1>1
<1>4. \A u \in Tasks : OpenWaiter(u)' => OpenWaiter(u)
  BY <1>1, <1>3 DEF OpenWaiter, Counters
<1>5. QED
  BY <1>1, <1>2, <1>3, <1>4

\* Every step of a task or of respawn keeps the invariant.
LEMMA TaskStepHolds ==
    ASSUME IInv, NEW t \in Tasks, PlainCall(t) \/ Write(t) \/ BrokenPipe(t) \/ Return(t)
    PROVE  IInv'
<1> USE RpcAssumption DEF children, phase
<1>1. CASE PlainCall(t)
  BY <1>1, CallHolds DEF PlainCall, IInv, TypeOK
<1>2. CASE Write(t)
  <2>0. /\ UNCHANGED <<nextId, chan, call, children, phase, hurt>>
        /\ holder = Nobody /\ holder' = t /\ stdin \in alive
        /\ pc[t] = "queued" /\ pc' = [pc EXCEPT ![t] = "waiting"]
        /\ wire' = [wire EXCEPT ![call[t]] = "sent"]
        /\ sentTo' = [sentTo EXCEPT ![call[t]] = stdin]
    BY <1>2 DEF Write
  <2>1. TypeOK'
    BY <2>0 DEF IInv, TypeOK
  <2>2. Counters' /\ MutexHeld'
    BY <2>0 DEF IInv, TypeOK, Counters, MutexHeld, Tasks
  <2>3. call[t] \in Ids /\ \A u \in Tasks : u # t => pc'[u] # "waiting"
    BY <2>0, <2>2 DEF IInv, TypeOK, Counters, MutexHeld
  <2>4. WroteToHeld'
    BY <2>0, <2>3 DEF IInv, TypeOK, WroteToHeld, OpenWaiter, Counters
  <2>5. HeldChild'
    BY <2>0 DEF IInv, HeldChild, Counters, OpenWaiter
  <2>6. QED
    BY <2>1, <2>2, <2>4, <2>5 DEF IInv
<1>3. CASE BrokenPipe(t) \/ Return(t)
  <2>0. Over(t) /\ UNCHANGED <<nextId, wire, sentTo, children, tries, hurt>>
    BY <1>3 DEF BrokenPipe, Return
  <2>a. respawn' = respawn \/ (respawn = "watch" /\ respawn' \in {"none", "watch"})
    BY <1>3 DEF BrokenPipe, Return
  <2>1. TypeOK'
    BY <2>0, <2>a, OverSteps DEF IInv, TypeOK, Phases
  <2>2. Counters'
    BY <2>0, <2>a, OverSteps DEF IInv, Counters
  <2>3. WroteToHeld'
    BY <2>0, OverSteps DEF IInv, WroteToHeld, OpenWaiter
  <2>4. HeldChild'
    BY <2>0, <2>a, OverSteps DEF IInv, HeldChild
  <2>5. QED
    BY <2>0, <2>1, <2>2, <2>3, <2>4, OverSteps DEF IInv
<1>4. QED
  BY <1>1, <1>2, <1>3

LEMMA ReplyHolds ==
    ASSUME IInv, NEW i \in Ids, Reply(i) \/ ReadReply(i)
    PROVE  IInv'
<1> USE DEF tasks, children, phase
<1>0. /\ UNCHANGED <<nextId, tasks, children, phase, hurt>>
      /\ \A j \in Ids : j # i => chan'[j] = chan[j] /\ wire'[j] = wire[j] /\ sentTo'[j] = sentTo[j]
      /\ \/ chan'[i] = chan[i] /\ wire'[i] = "replied" /\ sentTo'[i] = sentTo[i]
         \/ chan'[i] # "open"
      /\ wire[i] # "none"
  BY DEF Reply, ReadReply, IInv, TypeOK
<1>1. TypeOK'
  BY <1>0 DEF Reply, ReadReply, IInv, TypeOK
<1>2. Counters' /\ MutexHeld'
  BY <1>0 DEF IInv, Counters, MutexHeld
<1>3. \A u \in Tasks : OpenWaiter(u)' => OpenWaiter(u) /\ call[u] \in Ids
  BY <1>0 DEF IInv, OpenWaiter, Counters
<1>4. WroteToHeld'
  BY <1>0, <1>3 DEF IInv, WroteToHeld, OpenWaiter
<1>5. HeldChild'
  BY <1>0, <1>3 DEF IInv, HeldChild
<1>6. QED
  BY <1>1, <1>2, <1>4, <1>5 DEF IInv

LEMMA ChildStepHolds ==
    ASSUME IInv, NEW g \in Children, ReadEnd(g) \/ ReadGarbled(g) \/ Exit(g)
    PROVE  IInv'
<1> USE DEF ids, tasks, phase
<1>0. /\ UNCHANGED <<ids, tasks, stdin, held, launched, phase>>
      /\ alive' \subseteq alive /\ reading' \subseteq reading
  BY DEF ReadEnd, ReadGarbled, Exit
<1>1. TypeOK'
  BY <1>0 DEF ReadEnd, ReadGarbled, Exit, IInv, TypeOK
<1>2. Counters' /\ MutexHeld'
  BY <1>0 DEF IInv, Counters, MutexHeld
<1>3. \A u \in Tasks : OpenWaiter(u)' <=> OpenWaiter(u)
  BY <1>0 DEF OpenWaiter
<1>4. WroteToHeld'
  BY <1>0, <1>3 DEF IInv, WroteToHeld
<1>5. HeldChild'
  <2>1. CASE ReadEnd(g) \/ ReadGarbled(g)
    BY <1>0, <1>3, <2>1 DEF ReadEnd, ReadGarbled, IInv, HeldChild
  <2>2. CASE Exit(g)
    BY <1>0, <1>3, <2>2 DEF Exit, Killed, IInv, HeldChild
  <2>3. QED
    BY <2>1, <2>2
<1>6. QED
  BY <1>1, <1>2, <1>4, <1>5 DEF IInv

LEMMA RespawnHolds ==
    ASSUME IInv, Respawn
    PROVE  IInv'
<1> USE RpcAssumption DEF ids, tasks, children, phase
<1>1. CASE Kill \/ Reap \/ LaunchFails \/ WatchFails
  <2>0. /\ UNCHANGED <<ids, tasks, children, tries, hurt>>
        /\ \/ respawn = "none" /\ respawn' = "killing" /\ launched < MaxChildren
           \/ respawn = "killing" /\ respawn' = "reaped" /\ held \notin alive
           \/ respawn = "drained" /\ respawn' = "none"
           \/ respawn = "watch" /\ respawn' = "none"
    BY <1>1 DEF Kill, Reap, LaunchFails, WatchFails
  <2>1. TypeOK'
    BY <2>0 DEF IInv, TypeOK, Phases
  <2>2. Counters' /\ MutexHeld' /\ WroteToHeld'
    BY <2>0 DEF IInv, Counters, MutexHeld, WroteToHeld, OpenWaiter
  <2>3. HeldChild'
    BY <2>0 DEF IInv, HeldChild, OpenWaiter
  <2>4. QED
    BY <2>1, <2>2, <2>3 DEF IInv
<1>2. CASE Drain
  <2>0. /\ respawn = "reaped" /\ respawn' = "drained"
        /\ UNCHANGED <<nextId, wire, sentTo, tasks, children, tries, hurt>>
        /\ chan' = [i \in Ids |-> IF chan[i] = "open" THEN "respawned" ELSE chan[i]]
    BY <1>2 DEF Drain
  <2>1. TypeOK'
    BY <2>0 DEF IInv, TypeOK, Phases
  <2>2. Counters' /\ MutexHeld'
    BY <2>0 DEF IInv, Counters, MutexHeld
  <2>3. \A u \in Tasks : ~OpenWaiter(u)'
    BY <2>0 DEF IInv, OpenWaiter, Counters
  <2>4. WroteToHeld' /\ HeldChild'
    BY <2>0, <2>3 DEF IInv, WroteToHeld, HeldChild
  <2>5. QED
    BY <2>1, <2>2, <2>4 DEF IInv
<1>3. CASE Launch
  <2>0. /\ respawn = "drained" /\ respawn' = "launched" /\ launched' = launched + 1
        /\ alive' = alive \cup {launched + 1}
        /\ UNCHANGED <<ids, tasks, stdin, held, reading, tries, hurt>>
    BY <1>3 DEF Launch
  <2>1. launched + 1 \in Children /\ held # launched + 1 /\ held <= launched + 1
    BY <2>0 DEF IInv, TypeOK, Counters, Children
  <2>2. TypeOK'
    BY <2>0, <2>1 DEF IInv, TypeOK, Phases
  <2>3. Counters' /\ MutexHeld' /\ WroteToHeld'
    BY <2>0, <2>1 DEF IInv, Counters, MutexHeld, WroteToHeld, OpenWaiter
  <2>4. HeldChild'
    BY <2>0, <2>1 DEF IInv, HeldChild, OpenWaiter
  <2>5. QED
    BY <2>2, <2>3, <2>4 DEF IInv
<1>4. CASE Install
  <2>0. /\ respawn = "launched" /\ respawn' = "watch" /\ holder = Nobody
        /\ stdin' = launched /\ held' = launched /\ reading' = reading \cup {launched}
        /\ tries' = 0 /\ UNCHANGED <<ids, tasks, launched, alive, hurt>>
    BY <1>4 DEF Install
  <2>1. TypeOK'
    BY <2>0 DEF IInv, TypeOK, Phases
  <2>2. Counters' /\ MutexHeld'
    BY <2>0 DEF IInv, TypeOK, Counters, MutexHeld, Children
  <2>3. \A u \in Tasks : ~OpenWaiter(u)'
    BY <2>0 DEF IInv, MutexHeld, OpenWaiter, Tasks
  <2>4. WroteToHeld' /\ HeldChild'
    BY <2>0, <2>3 DEF WroteToHeld, HeldChild
  <2>5. QED
    BY <2>1, <2>2, <2>4 DEF IInv
<1>5. CASE Watch
  BY <1>5, CallHolds DEF Watch, IInv, TypeOK, Tasks
<1>6. CASE TimedOut
  <2>0. /\ Over(Respawner) /\ Respawner \in Tasks /\ respawn' = "none"
        /\ alive' = IF respawn = "launched" THEN alive \ {launched} ELSE alive
        /\ hurt' = (hurt \/ respawn \in {"killing", "reaped"})
        /\ UNCHANGED <<nextId, wire, sentTo, stdin, held, launched, reading, tries>>
    BY <1>6 DEF TimedOut, Tasks
  <2>1. TypeOK'
    BY <2>0, OverSteps DEF IInv, TypeOK, Phases
  <2>2. Counters'
    BY <2>0, OverSteps DEF IInv, Counters
  <2>3. WroteToHeld'
    BY <2>0, OverSteps DEF IInv, WroteToHeld, OpenWaiter
  <2>4. held \in alive' <=> held \in alive
    BY <2>0 DEF IInv, Counters
  <2>5. HeldChild'
    BY <2>0, <2>4, OverSteps DEF IInv, HeldChild
  <2>6. QED
    BY <2>0, <2>1, <2>2, <2>3, <2>5, OverSteps DEF IInv
<1>7. QED
  BY <1>1, <1>2, <1>3, <1>4, <1>5, <1>6 DEF Respawn

LEMMA RpcInvariant == Spec => []IInv
<1>1. IInv /\ [Next]_vars => IInv'
  <2> SUFFICES ASSUME IInv, [Next]_vars PROVE IInv'
    OBVIOUS
  <2>1. CASE UNCHANGED vars
    BY <2>1 DEF vars, IInv, TypeOK, Counters, MutexHeld, WroteToHeld, HeldChild, OpenWaiter
  <2>2. QED
    BY <2>1, TaskStepHolds, ReplyHolds, ChildStepHolds, RespawnHolds DEF Next
<1>2. QED
  BY <1>1, InitHolds, PTL DEF Spec

\* The variables hold values of their types, whatever ends or is dropped when.
THEOREM RpcTypeCorrect == Spec => []TypeOK
<1>1. IInv => TypeOK
  BY DEF IInv
<1>2. QED
  BY <1>1, RpcInvariant, PTL

\* No call is left without somebody to answer it: across respawns the one call that
\* waits is either answered by the child it was written to or drained.
THEOREM WaiterIsServed == Spec => []WaiterHasServer
<1>1. IInv => WaiterHasServer
  BY DEF IInv, WroteToHeld, HeldChild, OpenWaiter, WaiterHasServer
<1>2. QED
  BY <1>1, RpcInvariant, PTL
=============================================================================
