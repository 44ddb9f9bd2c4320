SPECIFICATION FairSpec
CONSTANTS
  screen = screen
  console = console
  Callers <- MCCallers
  Does <- MCDoes
  Locks = {locker0}
  locker0 = locker0
  SAFEBOX = SAFEBOX
  AnswerCount = 1
  MaxCommands = 1
  MaxOutages = 2
  NoThread = NoThread
  NoCommand = NoCommand
INVARIANTS OwnAnswer NeverAborted ConfigReaches
PROPERTIES CallsEnd Served
CHECK_DEADLOCK FALSE
