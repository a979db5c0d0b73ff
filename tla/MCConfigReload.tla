--------------------------- MODULE MCConfigReload ---------------------------
(* Instances of ConfigReload for TLC; the notifiers are model values. *)
EXTENDS ConfigReload

=============================================================================
