CONSTANTS
  Tasks <- MCTasks
  ThreadCount = 1
  MaxFails = 1
  Session = "session"
  Names <- MCNames
  LastWord <- MCLastWord
  Commands <- CmdOps
  MaxCmds = 4
  MaxSplits = 1
  MaxChunks = 1
SPECIFICATION FtpSpec
CONSTRAINT Followed
INVARIANTS
  InStep
  StaysUp
  FilesRight
  NoTaskStranded
PROPERTY EveryCommandAnswered
CHECK_DEADLOCK FALSE
