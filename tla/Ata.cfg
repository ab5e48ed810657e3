SPECIFICATION Spec
CONSTANTS
  Present = {0, 1}
  SECTORS = 2
  Counts = {0, 1, 2}
  Values = {1}
  Faults = {"identify", "read", "write", "flush"}
  POLLS = 2
  RETRIES = 1
INVARIANTS TypeOK ReadGivesSector ReadyAfterSuccess
PROPERTIES EarlierSectorsStored CallReturns
