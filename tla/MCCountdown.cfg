CONSTANTS
  SecBase = 8
  MinBase = 4
  Naps = {1, 2, 3, 4}
  MaxOverrun = 3
SPECIFICATION TimerSpec
INVARIANTS TimerTypeOK NotEarly EndsPromptly ShownNotMore
CHECK_DEADLOCK FALSE
