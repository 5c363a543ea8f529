---------------------------- MODULE MCRulesFile -----------------------------
(* RulesFile with one built-in rule and one more id.                       *)
EXTENDS RulesFile
=============================================================================
