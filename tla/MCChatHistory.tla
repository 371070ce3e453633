--------------------------- MODULE MCChatHistory ---------------------------
(* ChatHistory for two messages, a tail of two and appends of one or two. *)
EXTENDS ChatHistory
=============================================================================
