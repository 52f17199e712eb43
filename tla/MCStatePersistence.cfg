SPECIFICATION FairSpec
CONSTANTS
  Plain = {plain}
  Direct = {direct}
  History = History
  Settings = Settings
  Runs = {r1, r2}
  MaxChanges = 2
  StoreOutcomes = {TRUE, FALSE}
INVARIANT Durable
PROPERTY Drains
