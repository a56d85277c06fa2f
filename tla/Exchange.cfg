SPECIFICATION Spec
CONSTANTS
  CommandLine <- MCCommandLine
  Line <- MCLine
  DefaultSymbols <- MCDefaultSymbols
  Lists <- MCLists
  NotNumber = NotNumber
  PriceScale = 1
  Width = 16
  BookDepth = 1
  MaxLines = 4
CHECK_DEADLOCK FALSE
INVARIANTS LinesAccounted OpenExplained TapeExplained StatsAgree FeedCurrent
