\* Liveness with a message that is refused on every attempt.
CONSTANTS
  key = key
  text = text
  remove = remove
  bad = bad
  Envelopes = {key, text, bad}
  HasGuid <- MCGuid
  Kind <- MCKind
  Needs <- MCNeeds
  Target <- MCTarget
  MaxCopies = 1
  MaxFaults = 1
SPECIFICATION FairSpec
PROPERTIES
  EventuallyConsumed
