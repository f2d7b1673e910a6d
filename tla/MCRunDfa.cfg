SPECIFICATION FairSpec
CONSTANTS
  n = 3
  Symbols = {"a", "b"}
  delta <- Table
  Final = {1}
  Numerals = {"1", "7"}
  value <- Values
  Lines <- AllLines
  MaxWords = 3
PROPERTIES Refines WordsAnswered QuitEnds
CHECK_DEADLOCK FALSE
