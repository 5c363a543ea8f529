CONSTANTS
  Token = {t1, t2}
  Req = {r1, r2}
  NoReq = NoReq
  Webui = Webui
SPECIFICATION Spec
INVARIANTS SingleUse SignedIsSpentOnDisk
PROPERTIES AppendLosesNoRecord ImplementsOneTimeToken EveryRequestAnswered
