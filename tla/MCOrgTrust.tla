----------------------------- MODULE MCOrgTrust -----------------------------
(* Instance of OrgTrust for TLC.                                              *)
EXTENDS OrgTrust
=============================================================================
