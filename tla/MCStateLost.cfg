SPECIFICATION Spec
CONSTANTS
  Plain = {}
  Direct = {}
  History = History
  Settings = Settings
  Runs = {r1, r2}
  MaxChanges = 2
  StoreOutcomes = {TRUE}
PROPERTIES ClearedWhenWritten
