SPECIFICATION FlowSpec
CONSTANTS
  legacy = legacy
  iqua2 = iqua2
  None = None
  ProbeHosts <- TwoHosts
  f1 = f1
  f2 = f2
  Flows <- Signers
  Identities <- SameOrOther
  MaxPassword = 2
SYMMETRY SymmetricFlows
INVARIANTS EntryStaysWithItsAccount
PROPERTIES RightPasswordIsNeverCalledWrong 
