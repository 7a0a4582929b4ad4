SPECIFICATION FairSpec
CONSTANTS
  None = None
  p1 = p1
  p2 = p2
  r1 = r1
  Clients = {c1, c2}
  Paths = {p1, p2}
  FirstPath = p1
  Builtin <- MCBuiltin
  Rules <- MCRules
  Calls <- MCCalls
  Texts <- MCTexts
  Surfaces = {s1, s2}
  Rects = {r1}
  Budgets <- MCBudgets
  MaxHost = 2
INVARIANTS
  CursorFromOwner
  OwnerHasKeyboard
  HostAreaKnown
  DbusOwnerWantsIme
  DenyIsFinal
  BestRuleWins
PROPERTIES
  CallAnswered
  FocusedClientGetsIme
CHECK_DEADLOCK FALSE
