CONSTANTS
  r1 = r1
  r2 = r2
  s1 = s1
  s2 = s2
  Service = {s1, s2}
  Rule = {r1, r2}
  Severe = {r1}
  Request = {q1}
  Put = {u1, u2}
  Offered <- MCOffered
  Seen <- MCSeen
  InForce <- MCInForce
  Torn = Torn
  Absent = Absent
SPECIFICATION Spec
INVARIANTS AnsweredAsLogged SteadyConfigurationIsEnforced AcknowledgedPolicyStays
PROPERTIES PolicyComesIntoForce
CHECK_DEADLOCK FALSE
