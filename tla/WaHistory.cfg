CONSTANTS
  Size = 6
  Stubs = {3}
  Answers = "lid"
  Forms <- MCForms
  Page = 2
  Most = 6
  Bundles = {{2}}
  Caches = {{}, {5}}
  Mail = {0, 6}
  Asks <- MCAsks
  MaxReads = 1
  MaxReplays = 1
  MaxRequests = 4
  MaxFaults = 2
SPECIFICATION FairSpec
CHECK_DEADLOCK FALSE
INVARIANTS CoverageIsHonest IngestedOnce ChatsAreListed
PROPERTIES ReadsEnd
