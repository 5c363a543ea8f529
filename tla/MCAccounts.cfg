CONSTANTS
  User = {u1, u2}
  Login = {l1, l2}
  Change = {c1, c2}
  Command = {k1}
  MaxFailures = 2
  First = First
  Cli = Cli
  NoUser = NoUser
  Torn = Torn
SPECIFICATION Spec
SYMMETRY Symmetry
INVARIANTS TypeOK SessionsFollowAccounts RestartKeepsAccounts
PROPERTIES OnlyFormerAdminEmptiesAdmins
CHECK_DEADLOCK FALSE
