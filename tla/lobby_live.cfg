SPECIFICATION FairSpec
CONSTANTS
  Nodes = {host, guest}
  Creator = host
  NoOne = NoOne
  Values = {v}
  Nothing = Nothing
  JoinUnheard = FALSE
  Duplicates = FALSE
  MaxInFlight = 1
  MaxSets = 1
  Restarting = {}
CHECK_DEADLOCK FALSE
PROPERTIES DataConverges SilentMemberExpires
