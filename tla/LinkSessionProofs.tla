------------------------- MODULE LinkSessionProofs --------------------------
(***************************************************************************)
(* For every set of servers and request tasks, any number of requests and  *)
(* with or without faults: the session that believes it is current runs    *)
(* with the published settings, it never sleeps through a wake-up, and the *)
(* uplink handle and the listening flag follow it.                         *)
(*                                                                         *)
(* The argument is about numbers.  A number taken and not yet sent differs *)
(* from the watch value, from the session's generation and from every      *)
(* other such number, so sending it supersedes the session whatever the    *)
(* order of the sends, and a session that is not superseded while nobody   *)
(* is between publishing and sending has read the provision since.         *)
(***************************************************************************)
EXTENDS LinkSession, TLAPS

Pending(r) == req[r].pc = "send"

\* Numbers in flight are new to the watch channel and to the session.
NumbersAreFresh ==
    /\ wake <= generation /\ session.gen <= generation
    /\ \A r \in Requests : Pending(r) =>
          req[r].num <= generation /\ req[r].num # wake /\ req[r].num # session.gen
    /\ \A r, q \in Requests : Pending(r) /\ Pending(q) /\ req[r].num = req[q].num => r = q

\* NoLostWakeup from the moment the session has read the watch value.
WakeupKept == session.pc \in {"read", "empty", "wait"} /\ Superseded => news

-----------------------------------------------------------------------------

\* The variables hold values of their types, whatever requests and faults come.
THEOREM TypeCorrect == Spec => []TypeOK
<1> USE LinkAssumption DEF TypeOK, linkVars, flags
<1>0. Unconfigured \in Config /\ NoRequest \in RequestState
  BY DEF Config, Unconfigured, NoRequest, RequestState, RequestPC
<1>1. Init => TypeOK
  <2> SUFFICES ASSUME Init PROVE TypeOK
    OBVIOUS
  <2>1. provision \in Config /\ stored \in Config
    <3>1. CASE Faults
      BY <1>0, <3>1 DEF Init
    <3>2. CASE ~Faults
      BY <3>2 DEF Init
    <3>3. QED
      BY <3>1, <3>2
  <2>2. session \in SessionState
    BY <1>0 DEF Init, SessionState, SessionPC
  <2>3. req \in [Requests -> RequestState]
    BY <1>0 DEF Init
  <2>4. hooks \in [Servers -> SUBSET Nat] /\ uplink \in Servers \cup {NoServer}
    BY DEF Init
  <2>5. token \in Nat /\ begun \in Nat /\ generation \in Nat /\ wake \in Nat
    BY DEF Init
  <2>6. QED
    BY <2>1, <2>2, <2>3, <2>4, <2>5 DEF Init
<1>2. TypeOK /\ [Next]_vars => TypeOK'
  <2> SUFFICES ASSUME TypeOK, [Next]_vars PROVE TypeOK'
    OBVIOUS
  <2>0. EnsuredToken \in Nat
    BY DEF EnsuredToken
  <2>1. ASSUME NEW r \in Requests, BeginRequest(r) PROVE TypeOK'
    <3>0. ASSUME NEW label \in RequestPC, Begin(r, label)
          PROVE  req' \in [Requests -> RequestState] /\ begun' \in Nat
      BY <3>0 DEF Begin, RequestState
    <3> USE DEF RequestPC
    <3>1. ASSUME NEW s \in Servers, ConfigSet(r, s) PROVE TypeOK'
      BY <3>0, <3>1 DEF ConfigSet, Config
    <3>2. CASE ConfigReconnect(r)
      BY <3>0, <3>2 DEF ConfigReconnect
    <3>3. CASE WebhookOn(r)
      BY <2>0, <3>0, <3>3 DEF WebhookOn, Config
    <3>4. CASE WebhookOff(r)
      BY <3>0, <3>4 DEF WebhookOff
    <3>5. CASE WebhookRotate(r)
      BY <3>0, <3>5 DEF WebhookRotate
    <3>6. CASE WebhookRegister(r)
      <4>1. req' \in [Requests -> RequestState]
        BY <2>0, <3>6 DEF WebhookRegister, RequestState
      <4>2. QED
        BY <2>0, <3>6, <4>1 DEF WebhookRegister
    <3>7. QED
      BY <2>1, <3>1, <3>2, <3>3, <3>4, <3>5, <3>6 DEF BeginRequest
  <2>a. ASSUME NEW r \in Requests, NEW from \in RequestPC, NEW to \in RequestPC,
               Step(r, from, to) \/ Answer(r, from)
        PROVE  req' \in [Requests -> RequestState] /\ begun' \in Nat
    BY <1>0, <2>a DEF Step, Answer, RequestState
  <2>2. ASSUME NEW r \in Requests, Reconnect(r) PROVE TypeOK'
    <3> USE DEF RequestPC
    <3>1. CASE LoadStore(r)
      <4>1. req' \in [Requests -> RequestState]
        BY <3>1 DEF LoadStore, RequestState
      <4>2. QED
        BY <3>1, <4>1 DEF LoadStore
    <3>2. CASE LoadFails(r)
      BY <2>a, <3>2 DEF LoadFails
    <3>3. CASE FlagConnecting(r)
      BY <2>a, <3>3 DEF FlagConnecting, Ready
    <3>4. CASE Publish(r)
      <4>1. req[r].loaded \in Config
        BY DEF RequestState
      <4>2. QED
        BY <2>a, <3>4, <4>1 DEF Publish
    <3>5. CASE TakeNumber(r)
      <4>1. generation' \in Nat
        BY <3>5 DEF TakeNumber
      <4>2. req' = [req EXCEPT ![r] = [@ EXCEPT !.pc = "send", !.num = generation']]
        BY <3>5 DEF TakeNumber
      <4>3. req' \in [Requests -> RequestState]
        BY <4>1, <4>2 DEF RequestState
      <4>4. QED
        BY <3>5, <4>1, <4>3 DEF TakeNumber
    <3>6. CASE SendWake(r)
      <4>1. req[r].num \in Nat
        BY DEF RequestState
      <4>2. QED
        BY <2>a, <3>6, <4>1 DEF SendWake
    <3>7. QED
      BY <2>2, <3>1, <3>2, <3>3, <3>4, <3>5, <3>6 DEF Reconnect
  <2>b. \A h \in Cleared(uplink) : h \in [Servers -> SUBSET Nat]
    BY DEF Cleared
  <2>c. ASSUME NEW r \in Requests PROVE Created(req[r].server, req[r].token) \in [Servers -> SUBSET Nat]
    <3>1. req[r].token \in Nat
      BY DEF RequestState
    <3>2. QED
      BY <3>1 DEF Created
  <2>3. ASSUME NEW r \in Requests, Hook(r) PROVE TypeOK'
    <3> USE DEF RequestPC
    <3>1. CASE ClearOurs(r)
      BY <2>a, <2>b, <3>1 DEF ClearOurs
    <3>2. CASE CommitOff(r)
      BY <2>a, <3>2 DEF CommitOff, Config
    <3>3. CASE RotateToken(r)
      <4>1. token' \in Nat
        BY <3>3 DEF RotateToken
      <4>2. QED
        BY <2>a, <3>3, <4>1 DEF RotateToken
    <3>4. CASE ReplaceHooks(r)
      <4>1. req' \in [Requests -> RequestState]
        BY <1>0, <3>4 DEF ReplaceHooks, RequestState
      <4>2. QED
        BY <2>b, <3>4, <4>1 DEF ReplaceHooks
    <3>5. CASE CreateHook(r)
      BY <2>a, <2>c, <3>5 DEF CreateHook
    <3>6. CASE CreateFails(r)
      BY <2>a, <2>c, <3>6 DEF CreateFails
    <3>7. CASE MarkRegistered(r)
      BY <2>a, <3>7 DEF MarkRegistered
    <3>8. QED
      BY <2>3, <3>1, <3>2, <3>3, <3>4, <3>5, <3>6, <3>7 DEF Hook
  <2>4. ASSUME NEW r \in Requests, HangUp(r) PROVE TypeOK'
    BY <1>0, <2>b, <2>c, <2>4 DEF HangUp
  <2>5. CASE Advance
    <3>0. ASSUME NEW label \in SessionPC, To(label) PROVE session' \in SessionState
      BY <3>0 DEF To, SessionState
    <3> USE DEF SessionPC
    <3>1. CASE ReadWake
      BY <3>1 DEF ReadWake, SessionState
    <3>2. CASE ReadProvision
      BY <3>2 DEF ReadProvision, SessionState
    <3>3. CASE Disconnected
      BY <3>0, <3>3 DEF Disconnected
    <3>4. CASE WakeChanged
      BY <3>0, <3>4 DEF WakeChanged
    <3>5. CASE EnterGeneration
      BY <3>0, <3>5 DEF EnterGeneration
    <3>6. CASE CheckGeneration
      BY <3>0, <3>6 DEF CheckGeneration
    <3>7. CASE Attach
      <4>1. session.creds.server \in Servers \cup {NoServer}
        BY DEF SessionState, Config
      <4>2. QED
        BY <3>0, <3>7, <4>1 DEF Attach
    <3>8. CASE Prefetched
      BY <3>0, <3>8 DEF Prefetched
    <3>9. CASE ClearThenPoll
      BY <2>b, <3>0, <3>9 DEF ClearThenPoll
    <3>10. CASE Listen
      <4>1. session' \in SessionState
        BY <2>0, <3>10 DEF Listen, SessionState
      <4>2. QED
        BY <2>0, <3>10, <4>1 DEF Listen
    <3>11. CASE BindFails
      BY <2>0, <3>0, <3>11 DEF BindFails
    <3>12. CASE Leave("superseded")
      BY <2>b, <3>12 DEF Leave, SessionState
    <3>13. CASE Detach
      BY <3>0, <3>13 DEF Detach
    <3>14. CASE AfterSync
      BY <3>0, <3>14 DEF AfterSync
    <3>15. CASE RetryTimer \/ LeaveBackoff
      BY <3>0, <3>15 DEF RetryTimer, LeaveBackoff
    <3>16. QED
      BY <2>5, <3>1, <3>2, <3>3, <3>4, <3>5, <3>6, <3>7, <3>8, <3>9, <3>10, <3>11,
         <3>12, <3>13, <3>14, <3>15 DEF Advance
  <2>6. CASE Leave("ended")
    BY <2>b, <2>6 DEF Leave, SessionState, SessionPC
  <2>7. CASE UNCHANGED vars
    BY <2>7 DEF vars
  <2>8. QED
    BY <2>1, <2>2, <2>3, <2>4, <2>5, <2>6, <2>7 DEF Next
<1>3. QED
  BY <1>1, <1>2, PTL DEF Spec

-----------------------------------------------------------------------------

\* The steps of requests other than the last three of reconnect_from_store
\* leave alone everything the session goes by, and send nothing.
QuietStep ==
    /\ UNCHANGED <<provision, generation, wake, news, session, uplink>>
    /\ listening' => listening
    /\ \A q \in Requests :
          /\ req'[q].pc \in {"number", "send"} <=> req[q].pc \in {"number", "send"}
          /\ req'[q].pc = "send" => req[q].pc = "send" /\ req'[q].num = req[q].num

LEMMA RequestsAreQuiet ==
    ASSUME TypeOK, NEW r \in Requests,
           \/ BeginRequest(r) \/ Hook(r) \/ HangUp(r)
           \/ LoadStore(r) \/ LoadFails(r) \/ FlagConnecting(r)
    PROVE  QuietStep
<1> USE DEF TypeOK, QuietStep, linkVars, flags, NoRequest
<1>1. ASSUME NEW label \in {"load", "clear_off", "clear_rotate"}, Begin(r, label),
             UNCHANGED <<linkVars, session, uplink, flags>>
      PROVE  QuietStep
  BY <1>1 DEF Begin
<1>a. ASSUME NEW from \in RequestPC \ {"number", "send"},
             NEW to \in RequestPC \ {"number", "send"},
             Step(r, from, to) \/ Answer(r, from),
             UNCHANGED <<linkVars, session, uplink>>, listening' => listening
      PROVE  QuietStep
  <2>1. \A q \in Requests : q # r => req'[q] = req[q]
    BY <1>a DEF Step, Answer
  <2>2. req'[r].pc \notin {"number", "send"} /\ req[r].pc \notin {"number", "send"}
    <3>1. CASE Step(r, from, to)
      BY <1>a, <3>1 DEF Step, RequestState
    <3>2. CASE Answer(r, from)
      BY <1>a, <3>2 DEF Answer, RequestState
    <3>3. QED
      BY <1>a, <3>1, <3>2
  <2>3. QED
    BY <1>a, <2>1, <2>2
<1>2. CASE BeginRequest(r)
  <2>1. ASSUME NEW s \in Servers, ConfigSet(r, s) PROVE QuietStep
    BY <1>1, <2>1 DEF ConfigSet
  <2>2. CASE ConfigReconnect(r) \/ WebhookOn(r) \/ WebhookOff(r) \/ WebhookRotate(r)
    BY <1>1, <2>2 DEF ConfigReconnect, WebhookOn, WebhookOff, WebhookRotate
  <2>3. CASE WebhookRegister(r)
    BY <2>3 DEF WebhookRegister
  <2>4. QED
    BY <1>2, <2>1, <2>2, <2>3 DEF BeginRequest
<1>3. CASE Hook(r)
  <2>1. CASE ClearOurs(r)
    BY <1>a, <2>1 DEF ClearOurs, RequestPC
  <2>a. CASE CommitOff(r)
    BY <1>a, <2>a DEF CommitOff, RequestPC
  <2>b. CASE RotateToken(r)
    BY <1>a, <2>b DEF RotateToken, RequestPC
  <2>2. CASE ReplaceHooks(r)
    BY <2>2 DEF ReplaceHooks
  <2>3. CASE CreateHook(r) \/ CreateFails(r) \/ MarkRegistered(r)
    BY <1>a, <2>3 DEF CreateHook, CreateFails, MarkRegistered, RequestPC
  <2>4. QED
    BY <1>3, <2>1, <2>a, <2>b, <2>2, <2>3 DEF Hook
<1>4. CASE HangUp(r)
  BY <1>4 DEF HangUp
<1>5. CASE LoadStore(r) \/ LoadFails(r) \/ FlagConnecting(r)
  <2>1. CASE LoadStore(r)
    BY <2>1 DEF LoadStore
  <2>2. CASE LoadFails(r) \/ FlagConnecting(r)
    BY <1>a, <2>2 DEF LoadFails, FlagConnecting, RequestPC
  <2>3. QED
    BY <1>5, <2>1, <2>2
<1>6. QED
  BY <1>2, <1>3, <1>4, <1>5

\* What the session's steps have in common: they leave the settings and the
\* requests alone, and only the two reads change what it runs with.
SessionStep ==
    /\ UNCHANGED <<provision, generation, wake, req>>
    /\ At("top") => session'.pc = "read" /\ session'.gen = wake
    /\ At("read") => session'.creds = provision
    /\ ~At("top") => session'.gen = session.gen /\ session'.pc # "read"
    /\ ~At("read") => session'.creds = session.creds
    /\ news' = news \/ session'.pc = "top"

LEMMA SessionSteps ==
    ASSUME TypeOK, Advance \/ Leave("ended")
    PROVE  SessionStep
<1> USE DEF TypeOK, SessionStep, SessionState, At, To, linkVars, flags
<1>1. CASE ReadWake \/ ReadProvision
  BY <1>1 DEF ReadWake, ReadProvision
<1>2. CASE Disconnected \/ WakeChanged \/ EnterGeneration \/ CheckGeneration
  BY <1>2 DEF Disconnected, WakeChanged, EnterGeneration, CheckGeneration
<1>3. CASE Attach \/ Prefetched \/ ClearThenPoll \/ Listen \/ BindFails
  BY <1>3 DEF Attach, Prefetched, ClearThenPoll, Listen, BindFails
<1>4. CASE Leave("superseded") \/ Leave("ended")
  BY <1>4 DEF Leave
<1>5. CASE Detach \/ AfterSync \/ RetryTimer \/ LeaveBackoff
  BY <1>5 DEF Detach, AfterSync, RetryTimer, LeaveBackoff
<1>6. QED
  BY <1>1, <1>2, <1>3, <1>4, <1>5 DEF Advance

-----------------------------------------------------------------------------

\* The invariants of the session, in one induction: generation numbers are
\* fresh, and the three properties below.
LEMMA SessionInvariant ==
    Spec => [](SessionFollowsProvision /\ NoLostWakeup /\ HandleIsSessions)
<1> USE DEF Pending
<1>1. Init => NumbersAreFresh /\ SessionFollowsProvision /\ WakeupKept /\ HandleIsSessions
  BY DEF Init, NoRequest, NumbersAreFresh, SessionFollowsProvision, WakeupKept,
         HandleIsSessions, Superseded, At
<1>2. TypeOK /\ NumbersAreFresh /\ [Next]_vars => NumbersAreFresh'
  <2> SUFFICES ASSUME TypeOK, NumbersAreFresh, [Next]_vars PROVE NumbersAreFresh'
    OBVIOUS
  <2> USE DEF NumbersAreFresh, TypeOK, SessionState, RequestState
  <2>1. CASE QuietStep \/ UNCHANGED vars
    BY <2>1 DEF QuietStep, vars
  <2>2. ASSUME NEW r \in Requests, Publish(r) PROVE NumbersAreFresh'
    BY <2>2 DEF Publish, Step
  <2>3. ASSUME NEW r \in Requests, TakeNumber(r) PROVE NumbersAreFresh'
    BY <2>3 DEF TakeNumber
  <2>4. ASSUME NEW r \in Requests, SendWake(r) PROVE NumbersAreFresh'
    BY <2>4 DEF SendWake, Answer, NoRequest
  <2>5. CASE SessionStep
    BY <2>5 DEF SessionStep, At
  <2>6. QED
    BY <2>1, <2>2, <2>3, <2>4, <2>5, RequestsAreQuiet, SessionSteps DEF Next, Reconnect
<1>3. TypeOK /\ NumbersAreFresh /\ SessionFollowsProvision /\ [Next]_vars
        => SessionFollowsProvision'
  <2> SUFFICES ASSUME TypeOK, NumbersAreFresh, SessionFollowsProvision, [Next]_vars
               PROVE  SessionFollowsProvision'
    OBVIOUS
  <2> USE DEF SessionFollowsProvision, Superseded, TypeOK
  <2>1. CASE QuietStep \/ UNCHANGED vars
    BY <2>1 DEF QuietStep, vars
  <2>2. ASSUME NEW r \in Requests, Publish(r) \/ TakeNumber(r)
        PROVE  SessionFollowsProvision'
    <3>1. req'[r].pc \in {"number", "send"}
      BY <2>2 DEF Publish, TakeNumber, Step, RequestState
    <3>2. QED
      BY <3>1
  <2>3. ASSUME NEW r \in Requests, SendWake(r) PROVE SessionFollowsProvision'
    <3>1. wake' # session'.gen
      BY <2>3 DEF SendWake, Answer, NumbersAreFresh
    <3>2. QED
      BY <3>1
  <2>4. CASE SessionStep
    BY <2>4 DEF SessionStep, At
  <2>5. QED
    BY <2>1, <2>2, <2>3, <2>4, RequestsAreQuiet, SessionSteps DEF Next, Reconnect
<1>4. TypeOK /\ WakeupKept /\ [Next]_vars => WakeupKept'
  <2> SUFFICES ASSUME TypeOK, WakeupKept, [Next]_vars PROVE WakeupKept'
    OBVIOUS
  <2> USE DEF WakeupKept, Superseded, TypeOK
  <2>1. CASE QuietStep \/ UNCHANGED vars
    BY <2>1 DEF QuietStep, vars
  <2>2. ASSUME NEW r \in Requests, Publish(r) \/ TakeNumber(r) \/ SendWake(r)
        PROVE  WakeupKept'
    BY <2>2 DEF Publish, TakeNumber, SendWake, linkVars
  <2>3. CASE ReadWake
    BY <2>3 DEF ReadWake, linkVars, SessionState
  <2>4. CASE ReadProvision \/ Disconnected \/ WakeChanged
    BY <2>4 DEF ReadProvision, Disconnected, WakeChanged, At, To, linkVars, SessionState
  <2>5. ASSUME SessionStep, session'.pc \notin {"read", "empty", "wait"} PROVE WakeupKept'
    BY <2>5
  <2>6. CASE Advance \/ Leave("ended")
    <3>1. \/ ReadWake \/ ReadProvision \/ Disconnected \/ WakeChanged
          \/ session'.pc \notin {"read", "empty", "wait"}
      BY <2>6 DEF Advance, EnterGeneration, CheckGeneration, Attach, Prefetched, ClearThenPoll,
         Listen, BindFails, Leave, Detach, AfterSync, RetryTimer, LeaveBackoff, At, To, SessionState
    <3>2. QED
      BY <2>3, <2>4, <2>5, <2>6, <3>1, SessionSteps
  <2>7. QED
    BY <2>1, <2>2, <2>6, RequestsAreQuiet DEF Next, Reconnect
<1>5. TypeOK /\ HandleIsSessions /\ [Next]_vars => HandleIsSessions'
  <2> SUFFICES ASSUME TypeOK, HandleIsSessions, [Next]_vars PROVE HandleIsSessions'
    OBVIOUS
  <2> USE DEF HandleIsSessions, TypeOK, At, To, flags, SessionState
  <2>1. CASE QuietStep \/ UNCHANGED vars
    BY <2>1 DEF QuietStep, vars
  <2>2. ASSUME NEW r \in Requests, Publish(r) \/ TakeNumber(r) \/ SendWake(r)
        PROVE  HandleIsSessions'
    BY <2>2 DEF Publish, TakeNumber, SendWake
  <2>3. CASE ReadWake \/ ReadProvision \/ Disconnected \/ WakeChanged \/ EnterGeneration
    BY <2>3 DEF ReadWake, ReadProvision, Disconnected, WakeChanged, EnterGeneration
  <2>4. CASE CheckGeneration
    BY <2>4 DEF CheckGeneration
  <2>c. CASE Attach
    BY <2>c DEF Attach
  <2>a. CASE Prefetched \/ ClearThenPoll \/ BindFails
    BY <2>a DEF Prefetched, ClearThenPoll, BindFails
  <2>5. CASE Listen
    <3>1. EnsuredToken # 0
      BY DEF EnsuredToken
    <3>2. QED
      BY <2>5, <3>1 DEF Listen
  <2>6. CASE Leave("superseded") \/ Leave("ended")
    BY <2>6 DEF Leave
  <2>7. CASE Detach
    BY <2>7 DEF Detach
  <2>b. CASE AfterSync
    BY <2>b DEF AfterSync
  <2>d. CASE RetryTimer \/ LeaveBackoff
    BY <2>d DEF RetryTimer, LeaveBackoff
  <2>8. QED
    BY <2>1, <2>2, <2>3, <2>4, <2>a, <2>b, <2>c, <2>d, <2>5, <2>6, <2>7, RequestsAreQuiet DEF Next, Reconnect, Advance
<1>6. WakeupKept => NoLostWakeup
  BY DEF WakeupKept, NoLostWakeup, At
<1>7. QED
  BY <1>1, <1>2, <1>3, <1>4, <1>5, <1>6, TypeCorrect, PTL DEF Spec

\* Once no request is between publishing and waking, a session that is not
\* superseded runs with the settings published last, whichever order two
\* requests published and woke it in.
THEOREM SessionRunsAsPublished == Spec => []SessionFollowsProvision
BY SessionInvariant, PTL

\* A session about to wait for a change has seen every wake-up already sent for
\* the settings it read, or will see it at once.
THEOREM NoWakeupIsLost == Spec => []NoLostWakeup
BY SessionInvariant, PTL

\* The handle requests send through, and the listening flag, are those of the
\* session that is running.
THEOREM HandleFollowsSession == Spec => []HandleIsSessions
BY SessionInvariant, PTL
=============================================================================
