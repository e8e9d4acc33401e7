SPECIFICATION FairSpec
CONSTANTS
  Words <- MCWords
  Mentions <- MCMentions
  Text <- MCText
  Number <- MCNumber
  Braces <- MCBraces
  Blank = ""
  Junk = "?"
  MaxPuts = 5
  Setups <- MCExample
  Capacity = 4
PROPERTIES
  ExampleIsRead
CHECK_DEADLOCK FALSE
