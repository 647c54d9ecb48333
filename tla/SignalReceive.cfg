\* A key distribution, the text that needs it (no server GUID, so up to two
\* rows) and the deletion of that text; one crash or busy database.
CONSTANTS
  key = key
  text = text
  remove = remove
  bad = bad
  Envelopes = {key, text, remove}
  HasGuid <- MCGuid
  Kind <- MCKind
  Needs <- MCNeeds
  Target <- MCTarget
  MaxCopies = 2
  MaxFaults = 1
SPECIFICATION Spec
INVARIANTS
  TypeOK
  AcknowledgedIsStored
  ConsumedAtMostOnce
  InboxMatchesRatchet
  MemoryIsCommitted
PROPERTIES
  FifoUnlessFailed
  ImplementsMailbox
