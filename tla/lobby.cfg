SPECIFICATION Spec
CONSTANTS
  Nodes = {host, guest}
  Creator = host
  NoOne = NoOne
  Values = {v}
  Nothing = Nothing
  JoinUnheard = FALSE
  Duplicates = TRUE
  MaxInFlight = 2
  MaxSets = 1
  Restarting = {host, guest}
CHECK_DEADLOCK FALSE
INVARIANTS TypeOK OwnersAgree SelfMember NoMissedUpdate
