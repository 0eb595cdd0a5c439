---------------------------- MODULE MC_ToolCalls ----------------------------
(***************************************************************************)
(* Small instances of ToolCalls: one tool that exists, one that an LLM     *)
(* makes up.                                                               *)
(***************************************************************************)
EXTENDS ToolCalls, TLC

CONSTANTS search, madeUp
=============================================================================
