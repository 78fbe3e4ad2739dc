SPECIFICATION Spec
CONSTANTS
  Nodes = {host, guest}
  Listeners = {host}
  Callers = {guest}
  Restarting = {host}
  Duplicated = {}
  host = host
  guest = guest
  MaxHandle <- Handles
  MaxSends = 1
  MaxInbox = 1
CHECK_DEADLOCK FALSE
INVARIANTS TypeOK NoCrossTalk ConnectedWasAccepted CallerStatusCurrent
