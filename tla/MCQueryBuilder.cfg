CONSTANTS
  Dialects <- MCDialects
  Items <- MCItems
  Sources <- MCSources
  Conditions <- MCConditions
  OrderEntries <- MCOrderEntries
  Ctes <- MCCtes
  Members <- MCMembers
  Operands <- MCOperands
  MaxCalls = 3
  Admitted = {}
SPECIFICATION Spec
INVARIANTS ParamsInOrder NamesAreDefined ClausesStayInPlace
CHECK_DEADLOCK FALSE
