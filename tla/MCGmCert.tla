------------------------------ MODULE MCGmCert ------------------------------
(* The constants of GmCert are given in the configuration; the drawn keys   *)
(* need no bound, each fault and each ageing leads to a few new ones.       *)
EXTENDS GmCert

=============================================================================
