CONSTANTS
  NumFiles = 6
  DirOf <- MCDirOf
  Trees <- MCTrees
SPECIFICATION Spec
CHECK_DEADLOCK FALSE
INVARIANTS FirstDefinitionWins ProviderIsFirst CleanLoadIsComplete GoodFilesSurvive OrderingInForce
