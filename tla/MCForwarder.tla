----------------------------- MODULE MCForwarder ----------------------------
(* Instance of Forwarder for TLC.                                             *)
EXTENDS Forwarder
=============================================================================
