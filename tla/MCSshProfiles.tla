---------------------------- MODULE MCSshProfiles ---------------------------
(* SshProfiles for two positions: a profile of older firmware and a new one *)
EXTENDS SshProfiles
CONSTANT p1
=============================================================================
