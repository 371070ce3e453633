---------------------------- MODULE MCPromptTurn ----------------------------
(* Model values and bounds of PromptTurn are in MCPromptTurn.cfg.           *)
EXTENDS PromptTurn
=============================================================================
