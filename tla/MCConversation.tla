--------------------------- MODULE MCConversation ---------------------------
(* An instance of Conversation for TLC. *)
EXTENDS Conversation
=============================================================================
