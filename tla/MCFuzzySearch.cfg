CONSTANTS
  Lines <- MCLines
  MaxLines = 3
  InitSize = 1
  MAX_INPUT = 4
  Typed = {"A", "b", "eof", "NUL"}
  NUL = "NUL"
  tolower <- MCtolower
  Behind <- MCBehind
SPECIFICATION SearchSpec
INVARIANTS SearchTypeOK MatchedExactly KeywordPreferred
CHECK_DEADLOCK FALSE
