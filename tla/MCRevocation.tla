---------------------------- MODULE MCRevocation ----------------------------
(* Revocation on small sets: three devices, so that one serial can be      *)
(* listed, one forgotten and one rewrite the file without it.              *)
EXTENDS Revocation
=============================================================================
