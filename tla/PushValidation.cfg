SPECIFICATION Spec
CONSTANTS
  i1 = i1  i2 = i2
  phone = phone
  cash = cash
  NULL = NULL
  Users = {}
  Devices = {phone}
  Ids = {i1, i2}
  Inputs = {cash}
  Currencies = {}
  Batches <- MCBatches
INVARIANTS
  TypeOK LoopMeetsDefinition OneResultPerId ParsedIdsDistinct
