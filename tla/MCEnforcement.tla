--------------------------- MODULE MCEnforcement ----------------------------
(* Enforcement with two rules and two services, and two policies that      *)
(* block for one service and mask or warn for the other.                   *)
EXTENDS Enforcement

CONSTANTS r1, r2, s1, s2

Pol(m) == [global |-> "block", services |-> [s \in Service |->
              IF s = s1 THEN m ELSE Unset]]

MCOffered == {Pol("mask"), Pol("warn")}

B(service, prompt, rest, quiet, upload, named) ==
  [service |-> service,
   found |-> [p \in Part |-> IF p = "prompt" THEN prompt ELSE rest],
   quiet |-> quiet, upload |-> upload, named |-> named,
   blank |-> FALSE, reached |-> Part]

(* A secret in the prompt and more in earlier turns; one that is not in    *)
(* force at times beside one that its context suppresses; one in earlier   *)
(* turns only; a Gemini form with one outside f.req; an upload with a      *)
(* telling name, which has text, and one which has none.                   *)
MCSeen == {B(s1, {r2}, {r1}, {}, FALSE, FALSE),
           B(s2, {r1, r2}, {}, {r2}, FALSE, FALSE),
           B(s2, {}, {r1}, {}, FALSE, FALSE),
           [B(s1, {r2}, {r1}, {}, FALSE, FALSE) EXCEPT !.reached = {"prompt"}],
           B(s1, {}, {}, {}, TRUE, TRUE),
           [B(s2, {}, {r1}, {}, TRUE, TRUE) EXCEPT !.blank = TRUE]}

MCInForce == {[detect |-> {r1, r2}, mask |-> {r1, r2}],
              [detect |-> {r2}, mask |-> {r2}]}
=============================================================================
