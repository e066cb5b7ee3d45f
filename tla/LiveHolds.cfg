SPECIFICATION Spec
CONSTANTS
  Tasks = {t1, t2}
  None = None
  Triggers <- HoldTriggers
  MinBudget = 1
  MaxBudget = 2
  RawBudgets <- BudgetInputs
  GapAnswers <- AnyGap
  NoFlowLimit = 2
  FailureLimit = 2
  IQua2 = FALSE
  Readings <- OnlineOrNot
  PromptWakeup = TRUE
INVARIANTS  StoppedIsQuiet
PROPERTIES FailuresEndOnFrames LeaseSpec
