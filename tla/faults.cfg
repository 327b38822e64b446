SPECIFICATION HandlerFairSpec
CONSTANTS
  p1 = p1 p2 = p2 p3 = p3 v1 = v1 v2 = v2 v3 = v3
  Processes = {p1, p2, p3}
  Pages = {v1, v2, v3}
  PageOf <- MCPageOf
  None = None
  Alone = TRUE
  Mortal = TRUE
  Threads = {t1, t2}
  Faults <- MCFaults
  Areas <- MCAreas
  Smap = TRUE
  Apart = TRUE
CHECK_DEADLOCK FALSE
INVARIANT HandlerTypeOK
INVARIANT AccessSurvives
INVARIANT BitUndone
INVARIANT HookWhileOpen
INVARIANT SemBalanced
INVARIANT AccessChecked
INVARIANT WaitsSafely
PROPERTY AccessReturns
PROPERTY StrayOnlyAtExit
PROPERTY EndDeserved
PROPERTY FaultsEnd
