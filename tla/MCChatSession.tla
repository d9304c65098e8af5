--------------------------- MODULE MCChatSession ---------------------------
(***************************************************************************)
(* Small instances of ChatSession for TLC.                                 *)
(***************************************************************************)
EXTENDS ChatSession, TLC
=============================================================================
