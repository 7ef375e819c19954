---------------------------- MODULE MCAssistant -----------------------------
(* Two overlapping requests of one session and two overlapping closing      *)
(* runs, up to two conversations and two tickets.                           *)
EXTENDS Assistant, TLC

RequestsAlike == Permutations(Chats) \cup Permutations(Closers)
=============================================================================
