---------------------------- MODULE MCWebSshWorker --------------------------
(* WebSshWorker for two profiles and two host keys.                         *)
EXTENDS WebSshWorker
=============================================================================
