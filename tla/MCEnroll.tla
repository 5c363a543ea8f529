------------------------------ MODULE MCEnroll ------------------------------
(* Enroll on small sets; the two requests may share a token or not.        *)
EXTENDS Enroll
=============================================================================
