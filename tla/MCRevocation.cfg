CONSTANTS
  Device = {d1, d2, d3}
  Click = {c1, c2, c3}
  View = {v1}
SPECIFICATION RevokeSpec
INVARIANTS RevokeTypeOK FlagAndListAgree
PROPERTIES ListedStaysListed RefusedStaysRefused ListedIsRefused
