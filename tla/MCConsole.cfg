\* A screen that a few lines scroll, and lines that three characters fill.
CONSTANTS
  Columns = 3
  Rows = 3
  TabWidth = 2
  MaxBoot = 7
  Keys <- MCKeys
SPECIFICATION ConsoleSpec
INVARIANTS StaysOnScreen ShowsTheText
\* A terminal that has been killed prints nothing more.
CHECK_DEADLOCK FALSE
