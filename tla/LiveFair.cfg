SPECIFICATION FairSpec
CONSTANTS
  Tasks = {t1}
  None = None
  Triggers <- FairTriggers
  MinBudget = 1
  MaxBudget = 1
  RawBudgets <- NoInputs
  GapAnswers <- NoInputs
  NoFlowLimit = 2
  FailureLimit = 1
  IQua2 = FALSE
  Readings <- Healthy
  PromptWakeup = TRUE
PROPERTIES ContinuousComesBack  BrakeEndsQuietBlock 
