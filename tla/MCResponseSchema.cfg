SPECIFICATION Spec
CONSTANTS
  KeyOrder <- MCKeyOrder
  Values <- MCValues
  Tasks <- MCTasks
  Documents <- MCDocuments
  MaxNodes = 40
  MaxDepth = 8
  MaxEnum = 2
  MaxArrayItems = 3
  MaxObjectChoices = 2
  MaxDefinitions = 1
  MaxPassageEnum = 2
  MaxReferences = 2
  MaxPassageValues = 3
INVARIANTS OneWire IdentityIsMeaning DecoderFollowsSchema BudgetCoversOutputs
