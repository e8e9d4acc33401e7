SPECIFICATION FairSpec
CONSTANTS
  Words <- MCWords
  Mentions <- MCMentions
  Text <- MCText
  Number <- MCNumber
  Braces <- MCBraces
  Blank = ""
  Junk = "?"
  MaxPuts = 5
  Setups <- MCSetups
  Capacity = 4
INVARIANTS
  TypeOK
  ConfigAsWritten
  SchemaAsWritten
  OwnFiles
  StreamsOwned
  CorruptOnlyOnUsedPages
PROPERTIES
  Serves
CHECK_DEADLOCK FALSE
