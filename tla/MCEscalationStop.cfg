\* One handler, one decision, one stop: the escalation that is never opened.
CONSTANTS
  None = None
  c1 = c1
  k1 = k1
  Threads = {t1}
  Keys = {k1}
  Actions = {approve}
  Promotions = {FALSE}
  CaseIds = {k1}
  CaseId <- OwnCaseId
  MaxStops = 1
SPECIFICATION Spec
INVARIANT AnsweredDecisionsEscalated
