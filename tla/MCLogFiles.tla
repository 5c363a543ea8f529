----------------------------- MODULE MCLogFiles -----------------------------
(* Instance of LogFiles for TLC: one entry is longer than the line buffer     *)
(* and fills a file by itself.                                                *)
EXTENDS LogFiles

CONSTANTS e1, e3

MCSize == [e \in Entry |-> IF e \in Long THEN 2 ELSE 1]
=============================================================================
