----------------------------- MODULE MCAutoCert -----------------------------
(* Instances of AutoCert for TLC; the callers of the API are model values. *)
EXTENDS AutoCert

=============================================================================
