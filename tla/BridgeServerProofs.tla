------------------------- MODULE BridgeServerProofs -------------------------
(***************************************************************************)
(* For any number of connections, any capacity of the channel and any      *)
(* number of verify attempts: one authorize attempt at a time, and a       *)
(* client that has been passed all its events knows the state of Contacts. *)
(*                                                                         *)
(* The gate is held by exactly the connection whose attempt is under way.  *)
(* So at most one write of the state is without its event, and while there *)
(* is none, the last state a client was told or will be told by an event   *)
(* already in its queue is the state as it is.                             *)
(***************************************************************************)
EXTENDS BridgeServer, Integers, TLAPS

\* An attempt under way holds the gate, and "prompting" is not left behind.
GateHeld ==
    /\ \A c \in Conns : att[c].step # "none" => gate = {c} /\ pc[c] = "authorizing"
    /\ contacts = "prompting" =>
          \E c \in Conns : att[c].step \notin {"none", "announce outcome"}

\* What c's client knows of Contacts once it has received what is in its queue;
\* before the greeting, only if there is such an event.
Told(c, state) ==
    \/ \E i \in 1..Len(queue[c]) :
          /\ queue[c][i] = state
          /\ \A j \in 1..Len(queue[c]) : j > i => queue[c][j] = "message"
    \/ /\ \A j \in 1..Len(queue[c]) : queue[c][j] = "message"
       /\ pc[c] = "subscribed" \/ view[c] = state

TellsAll ==
    ~Unannounced => \A c \in Conns : pc[c] # "off" /\ ~lagged[c] => Told(c, contacts)

-----------------------------------------------------------------------------

LEMMA SendTypes ==
    ASSUME TypeOK, NEW event \in ContactsStates \cup {"message"}, Send(event)
    PROVE  /\ queue' \in [Conns -> Seq(ContactsStates \cup {"message"})]
           /\ \A c \in Conns : Len(queue'[c]) <= Capacity
           /\ lagged' \in [Conns -> BOOLEAN]
<1> DEFINE E == ContactsStates \cup {"message"}
<1>1. ASSUME NEW c \in Conns
      PROVE  queue'[c] \in Seq(E) /\ Len(queue'[c]) <= Capacity
  <2>0. queue[c] \in Seq(E) /\ Len(queue[c]) <= Capacity /\ Len(queue[c]) \in Nat
    BY DEF TypeOK
  <2>1. CASE pc[c] = "off"
    BY <2>0, <2>1 DEF Send
  <2>2. CASE pc[c] # "off" /\ Len(queue[c]) = Capacity
    <3>1. queue[c] # <<>>
      BY <2>0, <2>2, BridgeAssumption
    <3>2. Tail(queue[c]) \in Seq(E) /\ Len(Tail(queue[c])) = Capacity - 1
      BY <2>0, <2>2, <3>1
    <3>3. queue'[c] = Append(Tail(queue[c]), event)
      BY <2>2 DEF Send
    <3>4. QED
      BY <3>2, <3>3, BridgeAssumption
  <2>3. CASE pc[c] # "off" /\ Len(queue[c]) # Capacity
    <3>1. queue'[c] = Append(queue[c], event)
      BY <2>3 DEF Send
    <3>2. QED
      BY <2>0, <2>3, <3>1, BridgeAssumption
  <2>4. QED
    BY <2>1, <2>2, <2>3
<1>2. QED
  BY <1>1 DEF Send

LEMMA AttemptTypes ==
    ASSUME TypeOK, NEW c \in Conns
    PROVE  /\ NoAttempt \in Attempt
           /\ \A step \in Steps : Goto(c, step) => att' \in [Conns -> Attempt]
           /\ \A outcome \in Outcomes : Done(c, outcome) => att' \in [Conns -> Attempt]
<1>1. NoAttempt \in Attempt
  BY BridgeAssumption DEF NoAttempt, Attempt, Steps, Outcomes
<1>2. ASSUME NEW step \in Steps, Goto(c, step) PROVE att' \in [Conns -> Attempt]
  BY <1>2 DEF TypeOK, Goto, Attempt
<1>3. ASSUME NEW outcome \in Outcomes, Done(c, outcome) PROVE att' \in [Conns -> Attempt]
  <2>1. [NoAttempt EXCEPT !.step = "store outcome", !.outcome = outcome] \in Attempt
    BY <1>1 DEF Attempt, Steps
  <2>2. QED
    BY <1>3, <2>1 DEF TypeOK, Done
<1>4. QED
  BY <1>1, <1>2, <1>3

\* The variables hold values of their types, and no queue exceeds the channel.
THEOREM BridgeTypeCorrect == Spec => []TypeOK
<1>1. Init => TypeOK
  BY BridgeAssumption DEF Init, TypeOK, Permissions, ContactsStates, NoAttempt, Attempt, Steps, Outcomes
<1>2. TypeOK /\ [Next]_vars => TypeOK'
  <2> SUFFICES ASSUME TypeOK, [Next]_vars PROVE TypeOK'
    OBVIOUS
  <2> USE DEF env, clients
  <2>1. CASE ForwardMessage
    BY <2>1, SendTypes DEF ForwardMessage, TypeOK
  <2>2. CASE UserDecides \/ ChildChanges
    BY <2>2 DEF UserDecides, ChildChanges, TypeOK, Permissions
  <2>3. ASSUME NEW c \in Conns,
               Connect(c) \/ Greet(c) \/ Serve(c) \/ Close(c) \/ Status(c)
                 \/ ForwardCall(c) \/ AnswerCall(c)
        PROVE  TypeOK'
    <3>1. CASE Connect(c) \/ Close(c)
      <4>1. queue' = [queue EXCEPT ![c] = <<>>]
        BY <3>1 DEF Connect, Close
      <4>2. /\ queue' \in [Conns -> Seq(ContactsStates \cup {"message"})]
            /\ \A d \in Conns : Len(queue'[d]) <= Capacity
        BY <4>1, BridgeAssumption DEF TypeOK
      <4>3. QED
        BY <3>1, <4>2 DEF Connect, Close, TypeOK
    <3>2. CASE Greet(c) \/ Serve(c) \/ Status(c) \/ ForwardCall(c) \/ AnswerCall(c)
      BY <3>2 DEF Greet, Serve, Status, ForwardCall, AnswerCall, TypeOK
    <3>3. QED
      BY <2>3, <3>1, <3>2
  <2>4. ASSUME NEW c \in Conns, PassOn(c) PROVE TypeOK'
    <3> DEFINE E == ContactsStates \cup {"message"}
    <3>1. queue[c] \in Seq(E) /\ queue[c] # <<>> /\ Len(queue[c]) <= Capacity
      BY <2>4 DEF PassOn, TypeOK
    <3>2. Tail(queue[c]) \in Seq(E) /\ Len(Tail(queue[c])) <= Capacity /\ Head(queue[c]) \in E
      BY <3>1, BridgeAssumption
    <3>3. queue' = [queue EXCEPT ![c] = Tail(queue[c])]
      BY <2>4 DEF PassOn
    <3>4. /\ queue' \in [Conns -> Seq(E)]
          /\ \A d \in Conns : Len(queue'[d]) <= Capacity
      BY <3>2, <3>3 DEF TypeOK
    <3>5. view' \in [Conns -> ContactsStates]
      BY <2>4, <3>2 DEF PassOn, TypeOK
    <3>6. QED
      BY <2>4, <3>4, <3>5 DEF PassOn, TypeOK
  <2>5. ASSUME NEW c \in Conns, Authorize(c) PROVE TypeOK'
    <3>0. contacts \in ContactsStates \cup {"message"}
      BY DEF TypeOK
    <3>1. CASE Begin(c)
      <4>1. [NoAttempt EXCEPT !.step = "store"] \in Attempt
        BY AttemptTypes DEF Attempt, Steps
      <4>2. QED
        BY <3>1, <4>1 DEF Begin, TypeOK
    <3>2. CASE Store(c)
      <4>1. att' \in [Conns -> Attempt]
        BY <3>2 DEF Store, TypeOK, Attempt, Steps
      <4>2. QED
        BY <3>2, <4>1 DEF Store, Stored, TypeOK, ContactsStates
    <3>3. CASE AnnouncePrompting(c)
      <4>1. att' \in [Conns -> Attempt]
        BY <3>3 DEF AnnouncePrompting, TypeOK, Attempt, Steps
      <4>2. QED
        BY <3>0, <3>3, <4>1, SendTypes DEF AnnouncePrompting, TypeOK
    <3>4. CASE AnnounceOutcome(c)
      BY <3>0, <3>4, SendTypes, AttemptTypes DEF AnnounceOutcome, TypeOK
    <3>5. CASE Probe(c) \/ AwaitUser(c) \/ LastProbe(c)
      <4>1. att' \in [Conns -> Attempt]
        BY <3>5, AttemptTypes DEF Probe, AwaitUser, LastProbe, ProbeStep, TypeOK, Steps, Outcomes
      <4>2. QED
        BY <3>5, <4>1 DEF Probe, AwaitUser, LastProbe, ProbeStep, TypeOK
    <3>6. CASE Prompt(c) \/ Deadline(c)
      <4>1. att' \in [Conns -> Attempt]
        BY <3>6, AttemptTypes DEF Prompt, Deadline, Steps, Outcomes
      <4>2. QED
        BY <3>6, <4>1 DEF Prompt, Deadline, TypeOK
    <3>7. CASE VerifyNames(c)
      <4>1. att[c].verify \in 0..(VerifyAttempts - 1)
        BY DEF TypeOK, Attempt
      <4>2. ASSUME att[c].verify + 1 < VerifyAttempts, ~(rpc = "up" /\ names)
            PROVE  att' \in [Conns -> Attempt]
        <5> DEFINE n == att[c].verify + 1
        <5>1. n \in 0..(VerifyAttempts - 1)
          BY <4>1, <4>2, BridgeAssumption
        <5>2. att' = [att EXCEPT ![c] = [att[c] EXCEPT !.verify = n]]
          BY <3>7, <4>2 DEF VerifyNames, TypeOK
        <5> HIDE DEF n
        <5>3. [att[c] EXCEPT !.verify = n] \in Attempt
          BY <5>1 DEF TypeOK, Attempt
        <5>4. QED
          BY <3>7, <5>2, <5>3 DEF VerifyNames, TypeOK
      <4>a. ASSUME ~(att[c].verify + 1 < VerifyAttempts) \/ (rpc = "up" /\ names)
            PROVE  att' \in [Conns -> Attempt]
        BY <3>7, <4>a, AttemptTypes DEF VerifyNames, Steps, Outcomes
      <4>3. att' \in [Conns -> Attempt]
        BY <4>2, <4>a
      <4>4. QED
        BY <3>7, <4>3 DEF VerifyNames, TypeOK
    <3>8. CASE RestartRpc(c)
      <4>0. 0 \in 0..(VerifyAttempts - 1)
        BY BridgeAssumption
      <4>1. [att[c] EXCEPT !.step = "verify", !.verify = 0, !.restarted = TRUE] \in Attempt
        <5>1. att[c] \in Attempt
          BY DEF TypeOK
        <5>2. QED
          BY <4>0, <5>1 DEF Attempt, Steps
      <4>2. att' \in [Conns -> Attempt]
        BY <3>8, <4>1, AttemptTypes DEF RestartRpc, TypeOK, Outcomes
      <4>3. QED
        BY <3>8, <4>2 DEF RestartRpc, TypeOK
    <3>9. CASE Timeout(c)
      <4>1. att' \in [Conns -> Attempt]
        BY <3>9, AttemptTypes DEF Timeout, Outcomes
      <4>2. QED
        BY <3>9, <4>1 DEF Timeout, TypeOK
    <3>10. QED
      BY <2>5, <3>1, <3>2, <3>3, <3>4, <3>5, <3>6, <3>7, <3>8, <3>9 DEF Authorize
  <2>6. CASE UNCHANGED vars
    BY <2>6 DEF vars, TypeOK
  <2>7. QED
    BY <2>1, <2>2, <2>3, <2>4, <2>5, <2>6 DEF Next
<1>3. QED
  BY <1>1, <1>2, PTL DEF Spec

-----------------------------------------------------------------------------

\* Who is between the two halves of a publication, and who holds the gate.
LEMMA GateInvariant == Spec => []GateHeld
<1>1. Init => GateHeld
  BY DEF Init, GateHeld, NoAttempt
<1>2. TypeOK /\ GateHeld /\ [Next]_vars => GateHeld'
  <2> SUFFICES ASSUME TypeOK, GateHeld, [Next]_vars PROVE GateHeld'
    OBVIOUS
  <2> USE DEF env, clients
  <2>1. CASE /\ UNCHANGED <<contacts, gate, att>>
             /\ \A c \in Conns : pc[c] = "authorizing" => pc'[c] = pc[c]
    BY <2>1 DEF GateHeld
  <2>2. ASSUME NEW c \in Conns, Begin(c) PROVE GateHeld'
    <3>1. att'[c].step = "store" /\ \A d \in Conns : d # c => att'[d].step = "none"
      BY <2>2 DEF Begin, TypeOK, GateHeld, NoAttempt
    <3>a. pc'[c] = "authorizing"
      BY <2>2 DEF Begin, TypeOK
    <3>2. QED
      BY <2>2, <3>1, <3>a DEF Begin, GateHeld
  <2>a. ASSUME NEW c \in Conns, att[c].step \notin {"none", "announce outcome"},
               \A d \in Conns : d # c => att'[d] = att[d],
               att'[c].step \notin {"none", "announce outcome"}, gate' = gate, pc' = pc
        PROVE  GateHeld'
    BY <2>a DEF GateHeld
  <2>3. ASSUME NEW c \in Conns, Store(c) PROVE GateHeld'
    <3>1. CASE att[c].step = "store"
      <4>1. att'[c].step = "announce" /\ \A d \in Conns : d # c => att'[d] = att[d]
        BY <2>3, <3>1 DEF Store, TypeOK, Attempt
      <4>2. QED
        BY <2>3, <2>a, <3>1, <4>1 DEF Store
    <3>2. CASE att[c].step = "store outcome"
      <4>1. contacts' # "prompting"
        BY <2>3, <3>2 DEF Store, Stored
      <4>2. \A d \in Conns : att'[d].step # "none" => att[d].step # "none"
        BY <2>3, <3>2 DEF Store, TypeOK, Attempt
      <4>3. QED
        BY <2>3, <4>1, <4>2 DEF Store, GateHeld
    <3>3. QED
      BY <2>3, <3>1, <3>2 DEF Store
  <2>4. ASSUME NEW c \in Conns, AnnouncePrompting(c) PROVE GateHeld'
    <3>1. att'[c].step = "probe" /\ \A d \in Conns : d # c => att'[d] = att[d]
      BY <2>4 DEF AnnouncePrompting, TypeOK, Attempt
    <3>2. QED
      BY <2>4, <2>a, <3>1 DEF AnnouncePrompting
  <2>5. ASSUME NEW c \in Conns, AnnounceOutcome(c) PROVE GateHeld'
    <3>1. gate = {c} /\ \A d \in Conns : d # c => att[d].step = "none"
      BY <2>5 DEF AnnounceOutcome, GateHeld
    <3>2. \A d \in Conns : att'[d].step = "none"
      BY <2>5, <3>1 DEF AnnounceOutcome, TypeOK, NoAttempt
    <3>3. contacts' # "prompting"
      BY <2>5, <3>1 DEF AnnounceOutcome, GateHeld
    <3>4. QED
      BY <3>2, <3>3 DEF GateHeld
  <2>6. ASSUME NEW c \in Conns,
               att[c].step \in {"probe", "prompt", "await", "verify", "restart", "last"},
               \/ UNCHANGED att
               \/ \E step \in {"prompt", "await", "verify", "restart", "last"} : Goto(c, step)
               \/ \E outcome \in Outcomes : Done(c, outcome),
               gate' = gate, pc' = pc
        PROVE  GateHeld'
    <3>1. CASE UNCHANGED att
      BY <2>6, <2>a, <3>1
    <3>2. CASE ~UNCHANGED att
      <4>1. /\ att'[c].step \notin {"none", "announce outcome"}
            /\ \A d \in Conns : d # c => att'[d] = att[d]
        BY <2>6, <3>2 DEF Goto, Done, TypeOK, Attempt, NoAttempt
      <4>2. QED
        BY <2>6, <2>a, <4>1
    <3>3. QED
      BY <3>1, <3>2
  <2>7. ASSUME NEW c \in Conns,
               \/ Probe(c) \/ AwaitUser(c) \/ LastProbe(c) \/ Prompt(c) \/ Deadline(c) \/ Timeout(c)
        PROVE  GateHeld'
    BY <2>6, <2>7 DEF Probe, AwaitUser, LastProbe, ProbeStep, Prompt, Deadline, Timeout, Outcomes
  <2>8. ASSUME NEW c \in Conns, VerifyNames(c) \/ RestartRpc(c) PROVE GateHeld'
    <3>0. att[c] \in Attempt
      BY DEF TypeOK
    <3>1. CASE att' = [att EXCEPT ![c].verify = @ + 1] /\ VerifyNames(c)
      <4>1. att'[c].step = "verify" /\ \A d \in Conns : d # c => att'[d] = att[d]
        BY <3>0, <3>1 DEF VerifyNames, TypeOK, Attempt
      <4>2. QED
        BY <2>a, <3>1, <4>1 DEF VerifyNames
    <3>2. CASE /\ RestartRpc(c)
               /\ att' = [att EXCEPT ![c] = [@ EXCEPT !.step = "verify", !.verify = 0, !.restarted = TRUE]]
      <4>1. att'[c].step = "verify" /\ \A d \in Conns : d # c => att'[d] = att[d]
        BY <3>0, <3>2 DEF TypeOK, Attempt
      <4>2. QED
        BY <2>a, <3>2, <4>1 DEF RestartRpc
    <3>3. CASE \/ \E step \in {"prompt", "await", "verify", "restart", "last"} : Goto(c, step)
               \/ \E outcome \in Outcomes : Done(c, outcome)
      BY <2>6, <2>8, <3>3 DEF VerifyNames, RestartRpc
    <3>4. QED
      BY <2>8, <3>1, <3>2, <3>3 DEF VerifyNames, RestartRpc, Outcomes
  <2>9. QED
    <3>1. ASSUME NEW c \in Conns,
                 Connect(c) \/ Greet(c) \/ Serve(c) \/ PassOn(c) \/ Close(c) \/ Status(c)
                   \/ ForwardCall(c) \/ AnswerCall(c)
          PROVE  GateHeld'
      BY <2>1, <3>1 DEF Connect, Greet, Serve, PassOn, Close, Status, ForwardCall, AnswerCall, TypeOK
    <3>2. CASE ForwardMessage \/ UserDecides \/ ChildChanges \/ UNCHANGED vars
      BY <2>1, <3>2 DEF ForwardMessage, UserDecides, ChildChanges, vars
    <3>3. QED
      BY <2>2, <2>3, <2>4, <2>5, <2>7, <2>8, <3>1, <3>2 DEF Next, Authorize
<1>3. QED
  BY <1>1, <1>2, BridgeTypeCorrect, PTL DEF Spec

\* However many clients ask to authorize, one attempt runs at a time, and no state
\* says "prompting" without one.
THEOREM OneAttemptAtATime == Spec => []OneAttempt
<1>1. GateHeld => OneAttempt
  BY DEF GateHeld, OneAttempt
<1>2. QED
  BY <1>1, GateInvariant, PTL

-----------------------------------------------------------------------------

\* An event ends in what its receivers will know, if it is about Contacts and did
\* not push another out.
LEMMA SentIsTold ==
    ASSUME TypeOK, Send(contacts), NEW c \in Conns, pc[c] # "off", ~lagged'[c],
           contacts' = contacts
    PROVE  Told(c, contacts)'
<1> DEFINE E == ContactsStates \cup {"message"}
<1>1. queue[c] \in Seq(E) /\ contacts \in E
  BY DEF TypeOK
<1>2. queue'[c] = Append(queue[c], contacts)
  BY DEF Send, TypeOK
<1>3. Len(queue'[c]) = Len(queue[c]) + 1 /\ queue'[c][Len(queue[c]) + 1] = contacts
  BY <1>1, <1>2
<1>4. Len(queue[c]) + 1 \in 1..Len(queue'[c])
      /\ \A j \in 1..Len(queue'[c]) : ~(j > Len(queue[c]) + 1)
  BY <1>1, <1>3
<1>5. QED
  BY <1>3, <1>4 DEF Told

\* A message does not change it, nor does passing an event on.
LEMMA MessageIsNotTold ==
    ASSUME TypeOK, Send("message"), NEW c \in Conns, pc[c] # "off", ~lagged'[c],
           ~lagged[c] => Told(c, contacts), UNCHANGED <<contacts, pc, view>>
    PROVE  Told(c, contacts)'
<1> DEFINE E == ContactsStates \cup {"message"}
           q == queue[c]
<1>1. q \in Seq(E) /\ Len(q) \in Nat
  BY DEF TypeOK
<1>2. queue'[c] = Append(q, "message") /\ ~lagged[c]
  BY DEF Send, TypeOK
<1>3. /\ Len(queue'[c]) = Len(q) + 1 /\ queue'[c][Len(q) + 1] = "message"
      /\ \A j \in 1..Len(q) : queue'[c][j] = q[j]
  BY <1>1, <1>2
<1> HIDE DEF q
<1>4. \A j \in 1..Len(queue'[c]) : j \in 1..Len(q) \/ j = Len(q) + 1
  BY <1>1, <1>3
<1>5. 1..Len(q) \subseteq 1..Len(queue'[c])
  BY <1>1, <1>3
<1>6. QED
  <2>1. CASE \E i \in 1..Len(q) :
                q[i] = contacts /\ \A j \in 1..Len(q) : j > i => q[j] = "message"
    BY <1>3, <1>4, <1>5, <2>1 DEF Told
  <2>2. CASE (\A j \in 1..Len(q) : q[j] = "message") /\ (pc[c] = "subscribed" \/ view[c] = contacts)
    BY <1>3, <1>4, <2>2 DEF Told
  <2>3. QED
    BY <1>2, <2>1, <2>2 DEF Told, q

LEMMA PassedOnIsTold ==
    ASSUME TypeOK, NEW c \in Conns, PassOn(c), Told(c, contacts)
    PROVE  Told(c, contacts)'
<1> DEFINE E == ContactsStates \cup {"message"}
           q == queue[c]
<1>1. q \in Seq(E) /\ Len(q) \in Nat /\ q # <<>> /\ pc[c] = "serving"
  BY DEF TypeOK, PassOn
<1>2. queue'[c] = Tail(q)
  BY DEF PassOn, TypeOK
<1>3. /\ Len(q) >= 1 /\ Len(queue'[c]) = Len(q) - 1
      /\ \A j \in 1..Len(queue'[c]) : queue'[c][j] = q[j + 1]
  BY <1>1, <1>2
<1>4. view'[c] = IF q[1] = "message" THEN view[c] ELSE q[1]
  BY <1>1 DEF PassOn, TypeOK
<1>5. contacts' = contacts /\ contacts # "message"
  BY DEF PassOn, TypeOK, ContactsStates
<1>a. Told(c, contacts) /\ queue[c] = q
  OBVIOUS
<1> HIDE DEF q
<1>6. \A j \in 1..Len(queue'[c]) : j + 1 \in 1..Len(q)
  BY <1>1, <1>3
<1>7. CASE \E i \in 1..Len(q) :
              q[i] = contacts /\ \A j \in 1..Len(q) : j > i => q[j] = "message"
  <2>1. PICK i \in 1..Len(q) :
           q[i] = contacts /\ \A j \in 1..Len(q) : j > i => q[j] = "message"
    BY <1>7
  <2>2. CASE i = 1
    <3>1. \A j \in 1..Len(queue'[c]) : queue'[c][j] = "message"
      BY <1>1, <1>3, <1>6, <2>1, <2>2
    <3>2. QED
      BY <1>4, <1>5, <2>1, <2>2, <3>1 DEF Told
  <2>3. CASE i # 1
    <3>1. i - 1 \in 1..Len(queue'[c]) /\ (i - 1) + 1 = i
      BY <1>1, <1>3, <2>3
    <3>2. queue'[c][i - 1] = contacts
      BY <1>3, <2>1, <3>1
    <3>3. \A j \in 1..Len(queue'[c]) : j > i - 1 => queue'[c][j] = "message"
      BY <1>1, <1>3, <1>6, <2>1
    <3>4. QED
      BY <1>5, <3>1, <3>2, <3>3 DEF Told
  <2>4. QED
    BY <2>2, <2>3
<1>8. CASE (\A j \in 1..Len(q) : q[j] = "message") /\ (pc[c] = "subscribed" \/ view[c] = contacts)
  BY <1>1, <1>3, <1>4, <1>5, <1>6, <1>8 DEF Told
<1>9. QED
  BY <1>7, <1>8, <1>a DEF Told

LEMMA TellsAllInvariant == Spec => []TellsAll
<1>1. Init => TellsAll
  BY DEF Init, TellsAll
<1>2. TypeOK /\ GateHeld /\ TellsAll /\ [Next]_vars => TellsAll'
  <2> SUFFICES ASSUME TypeOK, GateHeld, TellsAll, [Next]_vars, ~Unannounced',
                      NEW c \in Conns, pc'[c] # "off", ~lagged'[c]
               PROVE  Told(c, contacts)'
    BY DEF TellsAll
  <2> USE DEF env, clients
  <2>1. CASE /\ ~Unannounced
             /\ UNCHANGED <<contacts, queue, lagged, view>>
             /\ pc'[c] # pc[c] => pc[c] \notin {"off", "subscribed"}
    BY <2>1 DEF TellsAll, Told
  <2>2. CASE ForwardMessage
    <3>1. lagged[c] = FALSE \/ lagged'[c]
      BY <2>2 DEF ForwardMessage, Send, TypeOK
    <3>2. ~Unannounced
      BY <2>2 DEF ForwardMessage, Unannounced
    <3>3. QED
      BY <2>2, <3>1, <3>2, MessageIsNotTold DEF ForwardMessage, TellsAll
  <2>3. ASSUME NEW d \in Conns, AnnouncePrompting(d) \/ AnnounceOutcome(d)
        PROVE  Told(c, contacts)'
    <3>1. Send(contacts) /\ contacts' = contacts
      BY <2>3 DEF AnnouncePrompting, AnnounceOutcome
    <3>2. pc[c] # "off"
      BY <2>3 DEF AnnouncePrompting, AnnounceOutcome, TypeOK, GateHeld
    <3>3. QED
      BY <3>1, <3>2, SentIsTold
  <2>4. ASSUME NEW d \in Conns, Store(d) PROVE Told(c, contacts)'
    <3>1. att'[d].step \in {"announce", "announce outcome"}
      BY <2>4 DEF Store, TypeOK, Attempt
    <3>2. QED
      BY <3>1 DEF Unannounced
  <2>5. ASSUME NEW d \in Conns,
               Connect(d) \/ Greet(d) \/ Serve(d) \/ PassOn(d) \/ Close(d) \/ Status(d)
                 \/ ForwardCall(d) \/ AnswerCall(d)
        PROVE  Told(c, contacts)'
    <3>1. ~Unannounced
      BY <2>5 DEF Unannounced, Connect, Greet, Serve, PassOn, Close, Status, ForwardCall, AnswerCall
    <3>2. CASE Connect(d)
      <4>1. CASE c = d
        <5>1. queue'[c] = <<>> /\ pc'[c] = "subscribed"
          BY <3>2, <4>1 DEF Connect, TypeOK
        <5>2. 1..Len(queue'[c]) = {}
          BY <5>1
        <5>3. QED
          BY <5>1, <5>2 DEF Told
      <4>2. CASE c # d
        BY <3>1, <3>2, <4>2 DEF Connect, TypeOK, TellsAll, Told
      <4>3. QED
        BY <4>1, <4>2
    <3>3. CASE Greet(d) \/ Status(d)
      <4>1. Told(c, contacts) /\ UNCHANGED <<contacts, queue>>
        <5>1. pc[c] # "off" /\ ~lagged[c]
          BY <3>3 DEF Greet, Status, TypeOK
        <5>2. QED
          BY <3>1, <3>3, <5>1 DEF Greet, Status, TellsAll
      <4>2. (pc[c] = pc'[c] /\ view[c] = view'[c]) \/ view'[c] = contacts
        BY <3>3 DEF Greet, Status, TypeOK
      <4>3. QED
        BY <4>1, <4>2 DEF Told
    <3>4. CASE Serve(d) \/ ForwardCall(d) \/ AnswerCall(d)
      BY <2>1, <3>1, <3>4 DEF Serve, ForwardCall, AnswerCall, TypeOK
    <3>5. CASE PassOn(d)
      <4>1. Told(c, contacts)
        BY <3>1, <3>5 DEF PassOn, TellsAll
      <4>2. CASE c = d
        BY <3>5, <4>1, <4>2, PassedOnIsTold
      <4>3. CASE c # d
        BY <3>5, <4>1, <4>3 DEF PassOn, TypeOK, Told
      <4>4. QED
        BY <4>2, <4>3
    <3>6. CASE Close(d)
      <4>1. c # d
        BY <3>6 DEF Close, TypeOK
      <4>2. QED
        BY <3>1, <3>6, <4>1 DEF Close, TypeOK, TellsAll, Told
    <3>7. QED
      BY <2>5, <3>2, <3>3, <3>4, <3>5, <3>6
  <2>6. ASSUME NEW d \in Conns, Begin(d) PROVE Told(c, contacts)'
    <3>1. ~Unannounced
      BY <2>6 DEF Begin, GateHeld, Unannounced
    <3>2. QED
      BY <2>1, <2>6, <3>1 DEF Begin, TypeOK
  <2>7. ASSUME NEW d \in Conns,
               \/ Probe(d) \/ AwaitUser(d) \/ LastProbe(d) \/ Prompt(d) \/ Deadline(d)
               \/ VerifyNames(d) \/ RestartRpc(d) \/ Timeout(d)
        PROVE  Told(c, contacts)'
    <3>0. UNCHANGED <<contacts, gate, pc, queue, lagged, view>>
          /\ att[d].step \in {"probe", "prompt", "await", "verify", "restart", "last"}
      BY <2>7 DEF Probe, AwaitUser, LastProbe, ProbeStep, Prompt, Deadline, VerifyNames,
         RestartRpc, Timeout
    <3>1. ~Unannounced
      BY <3>0 DEF GateHeld, Unannounced
    <3>2. QED
      BY <2>1, <3>0, <3>1
  <2>8. CASE UserDecides \/ ChildChanges \/ UNCHANGED vars
    <3>1. ~Unannounced
      BY <2>8 DEF UserDecides, ChildChanges, vars, Unannounced
    <3>2. QED
      BY <2>1, <2>8, <3>1 DEF UserDecides, ChildChanges, vars
  <2>9. QED
    BY <2>2, <2>3, <2>4, <2>5, <2>6, <2>7, <2>8 DEF Next, Authorize
<1>3. QED
  BY <1>1, <1>2, BridgeTypeCorrect, GateInvariant, PTL DEF Spec

\* A client with an empty queue and nothing dropped knows the state of Contacts as
\* it is, whenever no write of the state waits for its event.
THEOREM QuietClientIsCurrent == Spec => []QuietViewIsCurrent
<1>1. TypeOK /\ TellsAll => QuietViewIsCurrent
  <2> SUFFICES ASSUME TypeOK, TellsAll, ~Unannounced, NEW c \in Conns,
                      pc[c] = "serving", queue[c] = <<>>, ~lagged[c]
               PROVE  view[c] = contacts
    BY DEF QuietViewIsCurrent
  <2>1. Told(c, contacts) /\ Len(queue[c]) = 0
    BY DEF TellsAll
  <2>2. QED
    BY <2>1 DEF Told
<1>2. QED
  BY <1>1, BridgeTypeCorrect, TellsAllInvariant, PTL

-----------------------------------------------------------------------------
(* An attempt gets nearer to its end.                                       *)

\* How many steps are left, by the step an attempt is at.
StepsKnown(a) ==
    /\ a.step = "store"            => StepsLeft(a) = 2 * VerifyAttempts + 9
    /\ a.step = "announce"         => StepsLeft(a) = 2 * VerifyAttempts + 8
    /\ a.step = "probe"            => StepsLeft(a) = 2 * VerifyAttempts + 7
    /\ a.step = "prompt"           => StepsLeft(a) = 2 * VerifyAttempts + 6
    /\ a.step = "await"            => StepsLeft(a) = 2 * VerifyAttempts + 5
    /\ a.step = "verify" /\ ~a.restarted =>
          StepsLeft(a) = VerifyAttempts - a.verify + (VerifyAttempts + 4)
    /\ a.step = "verify" /\ a.restarted => StepsLeft(a) = VerifyAttempts - a.verify + 3
    /\ a.step = "restart"          => StepsLeft(a) = VerifyAttempts + 4
    /\ a.step = "last"             => StepsLeft(a) = 3
    /\ a.step = "store outcome"    => StepsLeft(a) = 2
    /\ a.step = "announce outcome" => StepsLeft(a) = 1
    /\ a.step = "none"             => StepsLeft(a) = 0
    /\ VerifyAttempts \in Nat \ {0}
    /\ a.verify \in Nat /\ a.verify <= VerifyAttempts - 1
    /\ a.restarted \in BOOLEAN

LEMMA StepsLeftAre == ASSUME NEW a \in Attempt PROVE StepsKnown(a)
<1>1. /\ VerifyAttempts \in Nat \ {0} /\ a.verify \in 0..(VerifyAttempts - 1)
      /\ a.restarted \in BOOLEAN
  BY BridgeAssumption DEF Attempt
<1>2. a.verify \in Nat /\ a.verify <= VerifyAttempts - 1
  BY <1>1
<1>3. /\ a.step = "store" => StepsLeft(a) = 2 * VerifyAttempts + 9
      /\ a.step = "announce" => StepsLeft(a) = 2 * VerifyAttempts + 8
  BY DEF StepsLeft
<1>4. /\ a.step = "probe" => StepsLeft(a) = 2 * VerifyAttempts + 7
      /\ a.step = "prompt" => StepsLeft(a) = 2 * VerifyAttempts + 6
  BY DEF StepsLeft
<1>5. /\ a.step = "await" => StepsLeft(a) = 2 * VerifyAttempts + 5
      /\ a.step = "restart" => StepsLeft(a) = VerifyAttempts + 4
  BY DEF StepsLeft
<1>6. /\ a.step = "last" => StepsLeft(a) = 3
      /\ a.step = "store outcome" => StepsLeft(a) = 2
  BY DEF StepsLeft
<1>7. /\ a.step = "announce outcome" => StepsLeft(a) = 1
      /\ a.step = "none" => StepsLeft(a) = 0
  BY DEF StepsLeft
<1>8. a.step = "verify" /\ a.restarted => StepsLeft(a) = VerifyAttempts - a.verify + 3
  BY DEF StepsLeft
<1>9. a.step = "verify" /\ ~a.restarted =>
        StepsLeft(a) = VerifyAttempts - a.verify + (VerifyAttempts + 4)
  BY DEF StepsLeft
<1>10. QED
  BY <1>1, <1>2, <1>3, <1>4, <1>5, <1>6, <1>7, <1>8, <1>9 DEF StepsKnown

\* The steps at which the flow of an attempt runs, under its timer.
Flow == {"probe", "prompt", "await", "verify", "restart", "last"}

\* What an attempt may be after a step of it.
Follows(a, b) ==
    \/ a.step = "store" /\ b.step = "announce"
    \/ a.step = "announce" /\ b.step = "probe"
    \/ a.step = "probe" /\ b.step = "prompt"
    \/ a.step = "probe" /\ b.step = "verify"
    \/ a.step = "prompt" /\ b.step = "await"
    \/ a.step = "await" /\ b.step = "verify"
    \/ /\ a.step = "verify" /\ b.step = "verify"
       /\ b.verify = a.verify + 1 /\ b.restarted = a.restarted
    \/ a.step = "verify" /\ ~a.restarted /\ b.step = "restart"
    \/ a.step = "verify" /\ a.restarted /\ b.step = "last"
    \/ a.step = "restart" /\ b.step = "verify" /\ b.restarted
    \/ a.step \in Flow /\ b.step = "store outcome"
    \/ a.step = "store outcome" /\ b.step = "announce outcome"
    \/ a.step = "announce outcome" /\ b.step = "none"

\* The rounds of "verify" before the restart count as more than those after it.
LEMMA FollowsIsNearer ==
    ASSUME NEW a \in Attempt, NEW b \in Attempt, Follows(a, b)
    PROVE  StepsLeft(b) < StepsLeft(a)
<1>0. StepsKnown(a) /\ StepsKnown(b)
  BY StepsLeftAre
<1>a. /\ a.verify \in Nat /\ a.verify <= VerifyAttempts - 1
      /\ b.verify \in Nat /\ b.verify <= VerifyAttempts - 1
  BY <1>0 DEF StepsKnown
<1>1. CASE a.step = "store" /\ b.step = "announce"
  BY <1>0, <1>1 DEF StepsKnown
<1>2. CASE a.step = "announce" /\ b.step = "probe"
  BY <1>0, <1>2 DEF StepsKnown
<1>3. CASE a.step = "probe" /\ b.step = "prompt"
  BY <1>0, <1>3 DEF StepsKnown
<1>4. CASE a.step = "prompt" /\ b.step = "await"
  BY <1>0, <1>4 DEF StepsKnown
<1>5. ASSUME b.step = "verify" PROVE StepsLeft(b) \in Int /\ StepsLeft(b) <= 2 * VerifyAttempts + 4
  <2>1. CASE b.restarted
    <3>1. StepsLeft(b) = VerifyAttempts - b.verify + 3
      BY <1>0, <1>5, <2>1 DEF StepsKnown
    <3>2. QED
      BY <1>a, <3>1, BridgeAssumption
  <2>2. CASE ~b.restarted
    <3>1. StepsLeft(b) = VerifyAttempts - b.verify + (VerifyAttempts + 4)
      BY <1>0, <1>5, <2>2 DEF StepsKnown
    <3>2. QED
      BY <1>a, <3>1, BridgeAssumption
  <2>3. QED
    BY <2>1, <2>2
<1>6. CASE a.step = "probe" /\ b.step = "verify"
  <2>1. StepsLeft(a) = 2 * VerifyAttempts + 7
    BY <1>0, <1>6 DEF StepsKnown
  <2>2. QED
    BY <1>5, <1>6, <2>1, BridgeAssumption
<1>7. CASE a.step = "await" /\ b.step = "verify"
  <2>1. StepsLeft(a) = 2 * VerifyAttempts + 5
    BY <1>0, <1>7 DEF StepsKnown
  <2>2. QED
    BY <1>5, <1>7, <2>1, BridgeAssumption
<1>8. CASE /\ a.step = "verify" /\ b.step = "verify"
           /\ b.verify = a.verify + 1 /\ b.restarted = a.restarted
  <2>1. CASE a.restarted
    BY <1>0, <1>8, <2>1 DEF StepsKnown
  <2>2. CASE ~a.restarted
    BY <1>0, <1>8, <2>2 DEF StepsKnown
  <2>3. QED
    BY <2>1, <2>2
<1>9. CASE a.step = "verify" /\ ~a.restarted /\ b.step = "restart"
  BY <1>0, <1>9 DEF StepsKnown
<1>10. CASE a.step = "verify" /\ a.restarted /\ b.step = "last"
  BY <1>0, <1>10 DEF StepsKnown
<1>11. CASE a.step = "restart" /\ b.step = "verify" /\ b.restarted
  BY <1>0, <1>11 DEF StepsKnown
<1>12. CASE a.step \in Flow /\ b.step = "store outcome"
  <2>0. StepsLeft(b) = 2
    BY <1>0, <1>12 DEF StepsKnown
  <2>1. CASE a.step = "probe"
    <3>1. StepsLeft(a) = 2 * VerifyAttempts + 7
      BY <1>0, <2>1 DEF StepsKnown
    <3>2. QED
      BY <2>0, <3>1, BridgeAssumption
  <2>2. CASE a.step = "prompt"
    <3>1. StepsLeft(a) = 2 * VerifyAttempts + 6
      BY <1>0, <2>2 DEF StepsKnown
    <3>2. QED
      BY <2>0, <3>1, BridgeAssumption
  <2>3. CASE a.step = "await"
    <3>1. StepsLeft(a) = 2 * VerifyAttempts + 5
      BY <1>0, <2>3 DEF StepsKnown
    <3>2. QED
      BY <2>0, <3>1, BridgeAssumption
  <2>4. CASE a.step = "verify" /\ a.restarted
    <3>1. StepsLeft(a) = VerifyAttempts - a.verify + 3
      BY <1>0, <2>4 DEF StepsKnown
    <3>2. QED
      BY <1>a, <2>0, <3>1, BridgeAssumption
  <2>5. CASE a.step = "verify" /\ ~a.restarted
    <3>1. StepsLeft(a) = VerifyAttempts - a.verify + (VerifyAttempts + 4)
      BY <1>0, <2>5 DEF StepsKnown
    <3>2. QED
      BY <1>a, <2>0, <3>1, BridgeAssumption
  <2>6. CASE a.step = "restart"
    <3>1. StepsLeft(a) = VerifyAttempts + 4
      BY <1>0, <2>6 DEF StepsKnown
    <3>2. QED
      BY <2>0, <3>1, BridgeAssumption
  <2>7. CASE a.step = "last"
    <3>1. StepsLeft(a) = 3
      BY <1>0, <2>7 DEF StepsKnown
    <3>2. QED
      BY <2>0, <3>1, BridgeAssumption
  <2>8. QED
    BY <1>12, <2>1, <2>2, <2>3, <2>4, <2>5, <2>6, <2>7 DEF Flow
<1>13. CASE a.step = "store outcome" /\ b.step = "announce outcome"
  <2>1. StepsLeft(a) = 2 /\ StepsLeft(b) = 1
    BY <1>0, <1>13 DEF StepsKnown
  <2>2. QED
    BY <2>1
<1>14. CASE a.step = "announce outcome" /\ b.step = "none"
  <2>1. StepsLeft(a) = 1 /\ StepsLeft(b) = 0
    BY <1>0, <1>14 DEF StepsKnown
  <2>2. QED
    BY <2>1
<1>15. QED
  BY <1>1, <1>2, <1>3, <1>4, <1>6, <1>7, <1>8, <1>9, <1>10, <1>11, <1>12, <1>13, <1>14 DEF Follows

\* What a step does to the attempts of other connections: nothing.
OnlyIts(c) == \A d \in Conns : d # c => att'[d] = att[d]

\* The flow goes on to a later step, to the next round of "verify", or to its end.
LEMMA FlowFollows ==
    ASSUME TypeOK, NEW c \in Conns,
           \/ Probe(c) \/ AwaitUser(c) \/ LastProbe(c) \/ Prompt(c) \/ Deadline(c)
           \/ VerifyNames(c) \/ RestartRpc(c) \/ Timeout(c)
    PROVE  /\ att'[c] = att[c] \/ Follows(att[c], att'[c])
           /\ OnlyIts(c)
<1>1. att[c] \in Attempt
  BY DEF TypeOK
<1>2. ASSUME NEW outcome, Done(c, outcome)
      PROVE  att'[c].step = "store outcome" /\ OnlyIts(c)
  BY <1>2 DEF Done, TypeOK, NoAttempt, OnlyIts
<1>3. ASSUME NEW step, Goto(c, step)
      PROVE  att'[c].step = step /\ OnlyIts(c)
  BY <1>1, <1>3 DEF Goto, TypeOK, Attempt, OnlyIts
<1>4. CASE Deadline(c) \/ Timeout(c) \/ LastProbe(c)
  <2>1. att[c].step \in Flow /\ (UNCHANGED att \/ \E outcome : Done(c, outcome))
    BY <1>4 DEF Deadline, Timeout, LastProbe, ProbeStep, Flow
  <2>2. QED
    BY <1>2, <2>1 DEF Follows, OnlyIts
<1>5. CASE Probe(c) \/ AwaitUser(c) \/ Prompt(c)
  <2>1. /\ att[c].step \in Flow
        /\ \/ UNCHANGED att
           \/ \E outcome : Done(c, outcome)
           \/ att[c].step \in {"probe", "await"} /\ Goto(c, "verify")
           \/ att[c].step = "probe" /\ Goto(c, "prompt")
           \/ att[c].step = "prompt" /\ Goto(c, "await")
    BY <1>5 DEF Probe, AwaitUser, ProbeStep, Prompt, Flow
  <2>2. QED
    BY <1>2, <1>3, <2>1 DEF Follows, OnlyIts
<1>6. CASE VerifyNames(c)
  <2>1. att[c].step = "verify" /\ att[c].step \in Flow
    BY <1>6 DEF VerifyNames, Flow
  <2>2. CASE att' = [att EXCEPT ![c].verify = @ + 1]
    <3>1. /\ att'[c].step = "verify" /\ att'[c].verify = att[c].verify + 1
          /\ att'[c].restarted = att[c].restarted /\ OnlyIts(c)
      BY <1>1, <2>1, <2>2 DEF TypeOK, Attempt, OnlyIts
    <3>2. QED
      BY <2>1, <3>1 DEF Follows
  <2>3. CASE att' # [att EXCEPT ![c].verify = @ + 1]
    <3>1. \/ \E outcome : Done(c, outcome)
          \/ ~att[c].restarted /\ Goto(c, "restart")
          \/ att[c].restarted /\ Goto(c, "last")
      BY <1>6, <2>3 DEF VerifyNames
    <3>2. QED
      BY <1>2, <1>3, <2>1, <3>1 DEF Follows
  <2>4. QED
    BY <2>2, <2>3
<1>7. CASE RestartRpc(c)
  <2>0. att[c].step = "restart" /\ att[c].step \in Flow
    BY <1>7 DEF RestartRpc, Flow
  <2>1. CASE att' = [att EXCEPT ![c] = [@ EXCEPT !.step = "verify", !.verify = 0, !.restarted = TRUE]]
    <3>1. att'[c].step = "verify" /\ att'[c].restarted /\ OnlyIts(c)
      BY <1>1, <2>1 DEF TypeOK, Attempt, OnlyIts
    <3>2. QED
      BY <2>0, <3>1 DEF Follows
  <2>2. CASE \E outcome : Done(c, outcome)
    BY <1>2, <2>0, <2>2 DEF Follows
  <2>3. QED
    BY <1>7, <2>1, <2>2 DEF RestartRpc
<1>8. QED
  BY <1>4, <1>5, <1>6, <1>7

\* So do the publications before and after it.
LEMMA PublicationFollows ==
    ASSUME TypeOK, NEW c \in Conns, Store(c) \/ AnnouncePrompting(c) \/ AnnounceOutcome(c)
    PROVE  Follows(att[c], att'[c]) /\ OnlyIts(c)
<1>1. att[c] \in Attempt
  BY DEF TypeOK
<1>2. CASE Store(c)
  <2>1. /\ \/ att[c].step = "store" /\ att'[c].step = "announce"
           \/ att[c].step = "store outcome" /\ att'[c].step = "announce outcome"
        /\ OnlyIts(c)
    BY <1>1, <1>2 DEF Store, TypeOK, Attempt, OnlyIts
  <2>2. QED
    BY <2>1 DEF Follows
<1>3. CASE AnnouncePrompting(c)
  <2>1. att[c].step = "announce" /\ att'[c].step = "probe" /\ OnlyIts(c)
    BY <1>1, <1>3 DEF AnnouncePrompting, TypeOK, Attempt, OnlyIts
  <2>2. QED
    BY <2>1 DEF Follows
<1>4. CASE AnnounceOutcome(c)
  <2>1. att[c].step = "announce outcome" /\ att'[c].step = "none" /\ OnlyIts(c)
    BY <1>1, <1>4 DEF AnnounceOutcome, TypeOK, NoAttempt, OnlyIts
  <2>2. QED
    BY <2>1 DEF Follows
<1>5. QED
  BY <1>2, <1>3, <1>4

\* Whatever the child and the user do, an attempt takes no step back: 2 V + 9 steps, for V
\* attempts to verify, are the most it can take, with one restart of the child.
THEOREM AttemptComesNearer == Spec => AttemptAdvances
<1> DEFINE Advance == \A c \in Conns : att[c].step # "none" /\ att'[c] # att[c] =>
                          StepsLeft(att'[c]) < StepsLeft(att[c])
<1>1. TypeOK /\ TypeOK' /\ GateHeld /\ [Next]_vars => Advance
  <2> SUFFICES ASSUME TypeOK, TypeOK', GateHeld, [Next]_vars PROVE Advance
    OBVIOUS
  <2>0. \A c \in Conns : att[c] \in Attempt /\ att'[c] \in Attempt
    BY DEF TypeOK
  <2>1. ASSUME NEW c \in Conns, OnlyIts(c), att'[c] = att[c] \/ Follows(att[c], att'[c])
        PROVE  Advance
    BY <2>0, <2>1, FollowsIsNearer DEF OnlyIts
  <2>2. ASSUME NEW c \in Conns, Begin(c) PROVE Advance
    <3>1. att[c].step = "none" /\ OnlyIts(c)
      BY <2>2 DEF Begin, GateHeld, TypeOK, OnlyIts
    <3>2. QED
      BY <3>1 DEF OnlyIts
  <2>3. ASSUME NEW c \in Conns, Authorize(c) PROVE Advance
    BY <2>1, <2>2, <2>3, FlowFollows, PublicationFollows DEF Authorize
  <2>4. ASSUME UNCHANGED att PROVE Advance
    BY <2>4
  <2>5. ASSUME NEW c \in Conns,
               Connect(c) \/ Greet(c) \/ Serve(c) \/ PassOn(c) \/ Close(c) \/ Status(c)
                 \/ ForwardCall(c) \/ AnswerCall(c)
        PROVE  UNCHANGED att
    BY <2>5 DEF Connect, Greet, Serve, PassOn, Close, Status, ForwardCall, AnswerCall
  <2>6. CASE ForwardMessage \/ UserDecides \/ ChildChanges \/ UNCHANGED vars
    BY <2>4, <2>6 DEF ForwardMessage, UserDecides, ChildChanges, vars
  <2>7. QED
    BY <2>3, <2>4, <2>5, <2>6 DEF Next
<1>2. QED
  BY <1>1, BridgeTypeCorrect, GateInvariant, PTL DEF Spec, AttemptAdvances
=============================================================================
