---------------------------- MODULE MCChatStream ----------------------------
(* A session shown in a tab: messages, texts in chunks, cards, answers, a    *)
(* lost connection or a reload.                                              *)
EXTENDS ChatStream

CONSTANTS t1
=============================================================================
