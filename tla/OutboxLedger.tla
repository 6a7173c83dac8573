---------------------------- MODULE OutboxLedger ----------------------------
(***************************************************************************)
(* What the plugin's outbox promises, without connections, events, answers *)
(* or anything that fails.                                                 *)
(*                                                                         *)
(* A text is asked for once, and again only by the user, of a row that is  *)
(* shown; each time has a number.  A number is handed to the server once   *)
(* at most, and only while its row is shown; the server delivers it once   *)
(* at most, when it likes, though the user may have asked again meanwhile. *)
(* A row leaves only when its own number was delivered.                    *)
(***************************************************************************)
EXTENDS Naturals, Sequences

CONSTANTS Drafts

VARIABLES asked,    \* the text each number stands for
          waiting,  \* the numbers that are shown
          handed,   \* the numbers the server was handed
          sent      \* messages at the server, by the number that sent them, 0 for others'

promise == <<asked, waiting, handed, sent>>

Delivered(n) == \E m \in DOMAIN sent : sent[m] = n

Init == asked = <<>> /\ waiting = {} /\ handed = {} /\ sent = <<>>

\* The user writes a text ...
Ask(draft) ==
    /\ \A n \in DOMAIN asked : asked[n] # draft
    /\ asked' = Append(asked, draft)
    /\ waiting' = waiting \cup {Len(asked')}
    /\ UNCHANGED <<handed, sent>>

\* ... or asks for a row to be sent again: a new number in the place of the old.
AskAgain(n) ==
    /\ n \in waiting
    /\ asked' = Append(asked, asked[n])
    /\ waiting' = (waiting \ {n}) \cup {Len(asked')}
    /\ UNCHANGED <<handed, sent>>

HandOver(n) ==
    /\ n \in waiting /\ n \notin handed
    /\ handed' = handed \cup {n}
    /\ UNCHANGED <<asked, waiting, sent>>

Deliver(n) ==
    /\ n \in handed /\ ~Delivered(n)
    /\ sent' = Append(sent, n)
    /\ UNCHANGED <<asked, waiting, handed>>

\* A message of another.
Receive ==
    /\ sent' = Append(sent, 0)
    /\ UNCHANGED <<asked, waiting, handed>>

Clear(n) ==
    /\ n \in waiting /\ Delivered(n)
    /\ waiting' = waiting \ {n}
    /\ UNCHANGED <<asked, handed, sent>>

Next ==
    \/ \E draft \in Drafts : Ask(draft)
    \/ \E n \in waiting : AskAgain(n) \/ HandOver(n) \/ Clear(n)
    \/ \E n \in handed : Deliver(n)
    \/ Receive

Spec == Init /\ [][Next]_promise
=============================================================================
