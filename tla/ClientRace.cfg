\* The images of a form, the session of a tab or the filters of a list, with
\* answers that are late or lost.
SPECIFICATION ClientSpec
CONSTANTS
  Files = {"f1", "f2"}
  Concurrency = 2
  MaxActs = 4
  MaxFaults = 1
  Queries = {"q"}
  Pictures = {"u"}
  MaxTokens = 2
  MaxSends = 2
  MaxLost = 1
  Texts = {"a"}
  Names = {"c", "x"}
  Known = {"c"}
  MaxPage = 2
  MaxClicks = 3
INVARIANTS
  WaitCovers
  SentAsListed
  NoSelfReuse
PROPERTIES
  ListKept
  UploadsSettle
  ComesToRest
  FiltersAgree
CHECK_DEADLOCK FALSE
