------------------------------ MODULE MCRcFile ------------------------------
(* Instance of RcFile for TLC.                                                *)
EXTENDS RcFile
=============================================================================
