---------------------------- MODULE BridgeServer ----------------------------
(***************************************************************************)
(* The bridge's WebSocket connections and the one thing they share, the    *)
(* state of Contacts on the Mac (bridge/src/server.rs, contacts.rs).       *)
(*                                                                         *)
(* A connection subscribes to the broadcast channel, reads the state once  *)
(* to greet its client with it, and then alternates between events and     *)
(* requests; while a request runs it passes no events on.  An authorize    *)
(* attempt runs on its connection: it takes a gate without waiting,        *)
(* publishes "prompting", drives a dialog, the names and a respawn of the  *)
(* `imsg` child to an outcome under a timeout, and publishes that.         *)
(* Publishing is a write of the state and then an event.                   *)
(*                                                                         *)
(* External: the user, who answers the dialog or changes System Settings;  *)
(* the child, whose calls return, fail, or never return (see ImsgRpc) and  *)
(* which shows names only if it was started with the grant.                *)
(***************************************************************************)
EXTENDS Naturals, Sequences

CONSTANTS
    Conns,              \* connections
    Capacity,           \* of the broadcast channel (256 in the code)
    VerifyAttempts      \* VERIFY_ATTEMPTS (5 in the code)

ASSUME BridgeAssumption == Capacity \in Nat \ {0} /\ VerifyAttempts \in Nat \ {0}

VARIABLES
    permission,         \* what macOS says of Contacts
    rpc, names,         \* whether the child's calls return; whether it shows names
    contacts,           \* AppState.contacts
    gate,               \* the connection that holds contacts_gate, in a set
    att,                \* connection -> its attempt
    pc,                 \* connection -> what it does
    queue, lagged,      \* connection -> events not received; whether any was dropped
    view                \* connection -> the state of Contacts its client was told

env == <<permission, rpc, names>>
clients == <<queue, lagged, view>>
vars == <<permission, rpc, names, contacts, gate, att, pc, queue, lagged, view>>

Permissions == {"undetermined", "denied", "authorized"}
ContactsStates == {"unavailable", "prompting", "granted"}
Outcomes == {"granted", "no names", "denied", "timed out", "helper missing"}
Steps == {"none", "store", "announce", "probe", "prompt", "await", "verify",
          "restart", "last", "store outcome", "announce outcome"}
Attempt == [step : Steps, verify : 0..(VerifyAttempts - 1), restarted : BOOLEAN,
            outcome : Outcomes]
NoAttempt == [step |-> "none", verify |-> 0, restarted |-> FALSE, outcome |-> "denied"]

TypeOK ==
    /\ permission \in Permissions /\ rpc \in {"up", "failing", "stuck"} /\ names \in BOOLEAN
    /\ contacts \in ContactsStates
    /\ gate \subseteq Conns
    /\ att \in [Conns -> Attempt]
    /\ pc \in [Conns -> {"off", "subscribed", "greeted", "serving", "calling",
                        "authorizing"}]
    /\ queue \in [Conns -> Seq(ContactsStates \cup {"message"})]
    /\ \A c \in Conns : Len(queue[c]) <= Capacity
    /\ lagged \in [Conns -> BOOLEAN]
    /\ view \in [Conns -> ContactsStates]

\* run, with what initial_contacts_state finds: granted when names are seen.
Init ==
    /\ permission \in Permissions
    /\ rpc \in {"up", "failing"}
    /\ names = (permission = "authorized")
    /\ contacts = IF names /\ rpc = "up" THEN "granted" ELSE "unavailable"
    /\ gate = {}
    /\ att = [c \in Conns |-> NoAttempt]
    /\ pc = [c \in Conns |-> "off"]
    /\ queue = [c \in Conns |-> <<>>]
    /\ lagged = [c \in Conns |-> FALSE]
    /\ view = [c \in Conns |-> "unavailable"]

-----------------------------------------------------------------------------
(* Events                                                                   *)

\* Mutant: the channel grows without a bound.
SendUnbounded(event) ==
    /\ queue' = [c \in Conns |-> IF pc[c] = "off" THEN queue[c] ELSE Append(queue[c], event)]
    /\ lagged' = lagged

\* broadcast::Sender::send: a receiver that is full loses its oldest event, and
\* the connection goes on with the next as if nothing had happened.
Send(event) ==
    /\ queue' = [c \in Conns |->
          IF pc[c] = "off" THEN queue[c]
          ELSE Append(IF Len(queue[c]) = Capacity THEN Tail(queue[c]) ELSE queue[c], event)]
    /\ lagged' = [c \in Conns |-> lagged[c] \/ (pc[c] # "off" /\ Len(queue[c]) = Capacity)]

\* spawn_watch_forwarder: a message the child printed.
ForwardMessage ==
    /\ Send("message")
    /\ UNCHANGED <<env, contacts, gate, att, pc, view>>

-----------------------------------------------------------------------------
(* A connection                                                             *)

\* handle_socket: subscribe ...
Connect(c) ==
    /\ pc[c] = "off"
    /\ pc' = [pc EXCEPT ![c] = "subscribed"]
    /\ queue' = [queue EXCEPT ![c] = <<>>]
    /\ lagged' = [lagged EXCEPT ![c] = FALSE]
    /\ UNCHANGED <<env, contacts, gate, att, view>>

\* ... then read the state and write it to the client ...
Greet(c) ==
    /\ pc[c] = "subscribed"
    /\ pc' = [pc EXCEPT ![c] = "greeted"]
    /\ view' = [view EXCEPT ![c] = contacts]
    /\ UNCHANGED <<env, contacts, gate, att, queue, lagged>>

\* Mutant: the connection subscribes after it has read the state.
SubscribeLate(c) ==
    /\ pc[c] = "greeted"
    /\ pc' = [pc EXCEPT ![c] = "serving"]
    /\ queue' = [queue EXCEPT ![c] = <<>>]
    /\ UNCHANGED <<env, contacts, gate, att, lagged, view>>

\* ... and, when that is written, start to select between events and requests.
Serve(c) ==
    /\ pc[c] = "greeted"
    /\ pc' = [pc EXCEPT ![c] = "serving"]
    /\ UNCHANGED <<env, contacts, gate, att, clients>>

PassOn(c) ==
    /\ pc[c] = "serving" /\ queue[c] # <<>>
    /\ queue' = [queue EXCEPT ![c] = Tail(@)]
    /\ view' = [view EXCEPT ![c] = IF Head(queue[c]) = "message" THEN @ ELSE Head(queue[c])]
    /\ UNCHANGED <<env, contacts, gate, att, pc, lagged>>

Close(c) ==
    /\ pc[c] = "serving"
    /\ pc' = [pc EXCEPT ![c] = "off"]
    /\ queue' = [queue EXCEPT ![c] = <<>>]
    /\ UNCHANGED <<env, contacts, gate, att, lagged, view>>

\* contacts.status
Status(c) ==
    /\ pc[c] = "serving"
    /\ view' = [view EXCEPT ![c] = contacts]
    /\ UNCHANGED <<env, contacts, gate, att, pc, queue, lagged>>

\* Any method that is passed to the child.
ForwardCall(c) ==
    /\ pc[c] = "serving"
    /\ pc' = [pc EXCEPT ![c] = "calling"]
    /\ UNCHANGED <<env, contacts, gate, att, clients>>
AnswerCall(c) ==
    /\ pc[c] = "calling" /\ rpc # "stuck"
    /\ pc' = [pc EXCEPT ![c] = "serving"]
    /\ UNCHANGED <<env, contacts, gate, att, clients>>

-----------------------------------------------------------------------------
(* contacts.authorize                                                       *)

\* Mutant: the attempt does not look at the gate.
BeginUngated(c) ==
    /\ pc[c] = "serving"
    /\ gate' = gate \cup {c}
    /\ pc' = [pc EXCEPT ![c] = "authorizing"]
    /\ att' = [att EXCEPT ![c] = [NoAttempt EXCEPT !.step = "store"]]
    /\ UNCHANGED <<env, contacts, clients>>

\* try_lock_gate: with an attempt under way the answer is "prompting", at once.
Begin(c) ==
    /\ pc[c] = "serving" /\ gate = {}
    /\ gate' = {c}
    /\ pc' = [pc EXCEPT ![c] = "authorizing"]
    /\ att' = [att EXCEPT ![c] = [NoAttempt EXCEPT !.step = "store"]]
    /\ UNCHANGED <<env, contacts, clients>>

\* store_and_publish_contacts: the write ...
Stored(c) == IF att[c].step = "store" THEN "prompting"
             ELSE IF att[c].outcome = "granted" THEN "granted" ELSE "unavailable"
Store(c) ==
    /\ att[c].step \in {"store", "store outcome"}
    /\ contacts' = Stored(c)
    /\ att' = [att EXCEPT ![c].step = IF @ = "store" THEN "announce" ELSE "announce outcome"]
    /\ UNCHANGED <<env, gate, pc, clients>>

\* ... and the event.  After the outcome's, the gate is dropped and the answer sent.
AnnouncePrompting(c) ==
    /\ att[c].step = "announce"
    /\ Send(contacts)
    /\ att' = [att EXCEPT ![c].step = "probe"]
    /\ UNCHANGED <<env, contacts, gate, pc, view>>
AnnounceOutcome(c) ==
    /\ att[c].step = "announce outcome"
    /\ Send(contacts)
    /\ att' = [att EXCEPT ![c] = NoAttempt]
    /\ gate' = gate \ {c}
    /\ pc' = [pc EXCEPT ![c] = "serving"]
    /\ UNCHANGED <<env, contacts, view>>

Goto(c, step) == att' = [att EXCEPT ![c].step = step]
Done(c, outcome) ==
    att' = [att EXCEPT ![c] = [NoAttempt EXCEPT !.step = "store outcome", !.outcome = outcome]]

\* probe_with_handle: the Swift probe's answer, or the nickname command's, which
\* may know less, or neither; a call of the child comes first.
Probed == {permission, "undetermined", "error"}
ProbeStep(c, step, undetermined) ==
    /\ att[c].step = step /\ rpc # "stuck"
    /\ \E status \in Probed :
          \/ status = "authorized" /\ step # "last" /\ Goto(c, "verify")
          \/ status = "authorized" /\ step = "last" /\ Done(c, "no names")
          \/ status = "denied" /\ Done(c, "denied")
          \/ status = "undetermined" /\ undetermined
          \/ status = "error" /\ Done(c, "helper missing")
    /\ UNCHANGED <<env, contacts, gate, pc, clients>>

Probe(c) == ProbeStep(c, "probe", Goto(c, "prompt"))
AwaitUser(c) == ProbeStep(c, "await", UNCHANGED att)
LastProbe(c) == ProbeStep(c, "last", Done(c, "timed out"))

\* prompt_via_ghostty, with a handle the child gave; Ghostty may be missing.
Prompt(c) ==
    /\ att[c].step = "prompt" /\ rpc # "stuck"
    /\ \/ rpc = "up" /\ Goto(c, "await")
       \/ Done(c, "helper missing")
    /\ UNCHANGED <<env, contacts, gate, pc, clients>>

\* The user had 90 seconds.
Deadline(c) ==
    /\ att[c].step = "await" /\ Done(c, "timed out")
    /\ UNCHANGED <<env, contacts, gate, pc, clients>>

\* VerifyNames: a failed call counts as no names.
VerifyNames(c) ==
    /\ att[c].step = "verify" /\ rpc # "stuck"
    /\ IF rpc = "up" /\ names THEN Done(c, "granted")
       ELSE IF att[c].verify + 1 < VerifyAttempts
            THEN att' = [att EXCEPT ![c].verify = @ + 1]
            ELSE Goto(c, IF att[c].restarted THEN "last" ELSE "restart")
    /\ UNCHANGED <<env, contacts, gate, pc, clients>>

\* Mutant: that the child was restarted is not remembered.
RestartForgotten(c) ==
    /\ att[c].step = "restart"
    /\ \/ /\ rpc' = "up" /\ names' = (permission = "authorized")
          /\ att' = [att EXCEPT ![c] = [@ EXCEPT !.step = "verify", !.verify = 0]]
       \/ /\ rpc' = "failing" /\ names' = FALSE
          /\ Done(c, "helper missing")
    /\ UNCHANGED <<permission, contacts, gate, pc, clients>>

\* rpc.respawn: a child started now knows of a grant given before.
RestartRpc(c) ==
    /\ att[c].step = "restart"
    /\ \/ /\ rpc' = "up" /\ names' = (permission = "authorized")
          /\ att' = [att EXCEPT ![c] = [@ EXCEPT !.step = "verify", !.verify = 0, !.restarted = TRUE]]
       \/ /\ rpc' = "failing" /\ names' = FALSE
          /\ Done(c, "helper missing")
    /\ UNCHANGED <<permission, contacts, gate, pc, clients>>

\* Mutant: the attempt has no timeout of its own while it verifies.
TimeoutUnlessVerifying(c) ==
    /\ att[c].step \in {"probe", "prompt", "await", "restart", "last"}
    /\ Done(c, "timed out")
    /\ rpc' \in IF att[c].step = "restart" THEN {rpc, "failing", "stuck"} ELSE {rpc}
    /\ UNCHANGED <<permission, names, contacts, gate, pc, clients>>

\* AUTHORIZE_TIMEOUT drops the attempt at its await; a respawn it drops may leave
\* the bridge with a dead child or with calls nobody answers.
Timeout(c) ==
    /\ att[c].step \in {"probe", "prompt", "await", "verify", "restart", "last"}
    /\ Done(c, "timed out")
    /\ rpc' \in IF att[c].step = "restart" THEN {rpc, "failing", "stuck"} ELSE {rpc}
    /\ UNCHANGED <<permission, names, contacts, gate, pc, clients>>

Authorize(c) ==
    \/ Begin(c) \/ Store(c) \/ AnnouncePrompting(c) \/ AnnounceOutcome(c)
    \/ Probe(c) \/ AwaitUser(c) \/ LastProbe(c) \/ Prompt(c) \/ Deadline(c)
    \/ VerifyNames(c) \/ RestartRpc(c) \/ Timeout(c)

-----------------------------------------------------------------------------
(* The user and the child                                                   *)

UserDecides ==
    /\ permission' \in {"denied", "authorized"}
    /\ UNCHANGED <<rpc, names, contacts, gate, att, pc, clients>>

ChildChanges ==
    /\ rpc # "stuck" /\ rpc' \in {"up", "failing", "stuck"}
    /\ UNCHANGED <<permission, names, contacts, gate, att, pc, clients>>

Next ==
    \/ ForwardMessage \/ UserDecides \/ ChildChanges
    \/ \E c \in Conns :
          \/ Connect(c) \/ Greet(c) \/ Serve(c) \/ PassOn(c) \/ Close(c) \/ Status(c)
          \/ ForwardCall(c) \/ AnswerCall(c) \/ Authorize(c)

Spec == Init /\ [][Next]_vars

\* The attempt's own steps, and its timer.  Nothing is assumed of the child.
Fairness ==
    \A c \in Conns : WF_vars(Store(c) \/ AnnouncePrompting(c) \/ AnnounceOutcome(c) \/ Timeout(c))

FairSpec == Spec /\ Fairness

-----------------------------------------------------------------------------
(* Properties                                                               *)

Unannounced == \E c \in Conns : att[c].step \in {"announce", "announce outcome"}

\* A client that has been passed all its events, none of them dropped, was told the
\* state as it is, however it connected between a write and its event.
QuietViewIsCurrent ==
    ~Unannounced =>
        \A c \in Conns : pc[c] = "serving" /\ queue[c] = <<>> /\ ~lagged[c] =>
            view[c] = contacts

\* "callers must reply busy and not prompt again": one attempt at a time; and the state
\* a client is greeted with says that a dialog is up only while an attempt runs.  (An
\* event that says so may still wait in a client's queue when the attempt has ended.)
OneAttempt ==
    /\ \A c, d \in Conns : att[c].step # "none" /\ att[d].step # "none" => c = d
    /\ contacts = "prompting" => \E c \in Conns : att[c].step # "none"

\* Every attempt ends, also when the child never answers.
AttemptEnds == \A c \in Conns : (att[c].step # "none") ~> (att[c].step = "none")

\* An upper bound of the steps an attempt has before it.  "verify" comes twice: before
\* the child is restarted and after.
StepsLeft(a) ==
    LET round == VerifyAttempts - a.verify IN
    CASE a.step = "store"            -> 2 * VerifyAttempts + 9
      [] a.step = "announce"         -> 2 * VerifyAttempts + 8
      [] a.step = "probe"            -> 2 * VerifyAttempts + 7
      [] a.step = "prompt"           -> 2 * VerifyAttempts + 6
      [] a.step = "await"            -> 2 * VerifyAttempts + 5
      [] a.step = "verify"           -> round + (IF a.restarted THEN 3 ELSE VerifyAttempts + 4)
      [] a.step = "restart"          -> VerifyAttempts + 4
      [] a.step = "last"             -> 3
      [] a.step = "store outcome"    -> 2
      [] a.step = "announce outcome" -> 1
      [] OTHER                       -> 0

\* An attempt gets nearer to its end with every step it takes, whatever the child and
\* the user do: it asks the user once, restarts the child once, and does not go round
\* between "verify" and "restart" until its timer ends it.
AttemptAdvances ==
    [][\A c \in Conns : att[c].step # "none" /\ att'[c] # att[c] =>
           StepsLeft(att'[c]) < StepsLeft(att[c])]_vars
=============================================================================
