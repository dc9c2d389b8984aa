SPECIFICATION ExtractSpec
CONSTANTS
  ta = ta  tb = tb
  Threads <- MCThreads
  Providers = {"anthropic", "openai"}
  Messages <- MCMessages
  Awkward <- MCAwkward
  Replies <- MCReplies
  Matches <- MCMatches
  Fold <- MCFold
  Empty = ""
  User = "user"
  Missing = Missing
  MaxBegun = 3
INVARIANTS
  CountersAddUp
PROPERTIES
  FactsAsReplied
  RegexFactsOnce
CHECK_DEADLOCK FALSE
