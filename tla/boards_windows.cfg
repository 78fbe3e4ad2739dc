SPECIFICATION BoardSpec
CONSTANTS
  BoardNames = {"x"}
  FileOf <- OwnFiles
  Users = {p}
  NoUser = NoUser
  Scores = {1, 2}
  ReadsDir = FALSE
  MaxUploads = 2
  MaxProcesses = 2
INVARIANT ScoresPersist
CHECK_DEADLOCK FALSE
