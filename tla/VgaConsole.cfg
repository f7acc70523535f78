SPECIFICATION ConsoleSpec
CONSTANTS
  ROWS = 3
  COLS = 2
  Ascii = {"a"}
  Paper = 13
INVARIANTS
  ShowsLatestLines
