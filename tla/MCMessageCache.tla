--------------------------- MODULE MCMessageCache ---------------------------
(***************************************************************************)
(* A cache of three chats and two messages.  An earlier build left a chat  *)
(* row without an identity (c3) and a message without one (m3), filed      *)
(* under a chat that has an identity and no row (c2).  The hash of m1 is   *)
(* the id of m3's row.  Copies of a message name either of two chats.      *)
(***************************************************************************)
EXTENDS MessageCache, TLC

CONSTANTS c1, c2, c3, m1, m3

MCChats    == {c1, c2, c3}
MCMsgs     == {m1, m3}
MCChatsOf  == m1 :> {c1, c2} @@ m3 :> {c1, c2}
MCCreated  == m1 :> 1 @@ m3 :> 1
MCStableId == c1 :> 1 @@ c2 :> 2 @@ c3 :> 4 @@ m1 :> 3 @@ m3 :> 6
MCLegacyId == c1 :> 6 @@ c2 :> 2 @@ c3 :> 4 @@ m1 :> 6 @@ m3 :> 3
MCLegacyChats == {c3}
MCLegacyMsgs  == {m3}
MCLegacyChatOf == m1 :> c1 @@ m3 :> c2
MCLegacyNamed == {c2}
=============================================================================
