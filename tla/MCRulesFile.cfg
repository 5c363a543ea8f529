CONSTANTS
  Rule = {b1, x1}
  Builtin = {b1}
  Edit = {e1, e2}
  Torn = Torn
  Absent = Absent
SPECIFICATION Spec
INVARIANTS TypeOK OneEntryPerId WholeRulesInForce AcknowledgedRuleStays
PROPERTIES FileComesIntoForce
