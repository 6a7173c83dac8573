---------------------------- MODULE UnreadLedger ----------------------------
(***************************************************************************)
(* What the message cache promises about unread counts, with every         *)
(* operation atomic and without rows, ids or processes.                    *)
(*                                                                         *)
(* A chat enters with the count of the server's listing, or with none when *)
(* a delivery or a repair needs it.  A live delivery holds a message and   *)
(* the chat its copy names; it may be cut short, or it stores the message. *)
(* If the message was not known and is inbound it is counted then and in   *)
(* that chat, which is listed.  Prefetch makes a message known without     *)
(* counting it, and never the one that is being delivered.  Nothing but    *)
(* mark_read lowers a count, and it lowers it to zero.                     *)
(***************************************************************************)
EXTENDS Naturals

CONSTANTS Chats, Msgs, ChatsOf, FromMe

VARIABLES listed,   \* chats that have a row
          unread,   \* the count clients are shown
          known,    \* messages that have a row
          inHand    \* the live delivery under way, if any: its message and chat

ledger == <<listed, unread, known, inHand>>

\* A database of an earlier build may already list chats and know messages.
Init == /\ listed \in SUBSET Chats
        /\ known \in SUBSET Msgs
        /\ unread = [c \in Chats |-> 0]
        /\ inHand = {}

\* A chat is listed for the first time, with any count unless a delivery waits for it.
List(c) == /\ c \notin listed
           /\ listed' = listed \cup {c}
           /\ unread'[c] \in IF inHand = {} THEN Nat ELSE {0}
           /\ unread' = [unread EXCEPT ![c] = unread'[c]]
           /\ UNCHANGED <<known, inHand>>

\* Prefetch stores a message.
Learn(m) == /\ inHand = {}
            /\ known' = known \cup {m}
            /\ UNCHANGED <<listed, unread, inHand>>

Deliver(m, c) == /\ inHand = {} /\ c \in ChatsOf[m]
                 /\ inHand' = {<<m, c>>}
                 /\ UNCHANGED <<listed, unread, known>>

\* The delivery is cut short, and nothing of it is stored.
Drop == /\ inHand # {} /\ inHand' = {}
        /\ UNCHANGED <<listed, unread, known>>

\* The delivery stores its message, and counts it if it is new and inbound.
Store(m, c) == /\ <<m, c>> \in inHand /\ c \in listed
               /\ inHand' = {}
               /\ known' = known \cup {m}
               /\ unread' = IF m \in known \cup FromMe THEN unread
                            ELSE [unread EXCEPT ![c] = @ + 1]
               /\ UNCHANGED listed

Read(c) == /\ c \in listed
           /\ unread' = [unread EXCEPT ![c] = 0]
           /\ UNCHANGED <<listed, known, inHand>>

Next == \/ \E c \in Chats : List(c) \/ Read(c)
        \/ \E m \in Msgs : Learn(m) \/ \E c \in Chats : Deliver(m, c) \/ Store(m, c)
        \/ Drop

Spec == Init /\ [][Next]_ledger
=============================================================================
