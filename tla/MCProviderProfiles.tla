------------------------ MODULE MCProviderProfiles ------------------------
(* Bounds of ProviderProfiles are in MCProviderProfiles.cfg.                *)
EXTENDS ProviderProfiles
=============================================================================
