SPECIFICATION Spec
CONSTANTS
  n = 3
  Symbols = {"a", "b"}
  delta <- Table
  Final = {1}
  Numerals = {"1", "7"}
  value <- Values
  Lines <- OneWordLines
  MaxWords = 2
INVARIANTS StartsAgain
CHECK_DEADLOCK FALSE
