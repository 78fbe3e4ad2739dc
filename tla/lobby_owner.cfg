SPECIFICATION Spec
CONSTANTS
  Nodes = {host, guest}
  Creator = host
  NoOne = NoOne
  Values = {v}
  Nothing = Nothing
  JoinUnheard = TRUE
  Duplicates = FALSE
  MaxInFlight = 1
  MaxSets = 2
  Restarting = {}
CHECK_DEADLOCK FALSE
PROPERTY OwnerStays
