---------------------------- MODULE MCOneShotRun ----------------------------
(* OneShotRun for one or two calls and one or two versions of the script. *)
EXTENDS OneShotRun
=============================================================================
