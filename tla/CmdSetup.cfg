CONSTANTS
  Registered <- MCRegistered
  CommandOrder <- MCCommandOrder
  SystemRules <- MCSystemRules
  InPath = {"ls"}
  FlagSets <- MCFlags
  None = None
SPECIFICATION Spec
INVARIANT
  
  RulesBeforeAction
  HelpOrder
CHECK_DEADLOCK FALSE
