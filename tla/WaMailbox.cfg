SPECIFICATION FairSpec
CONSTANTS
  MailCount = 4
  Kind <- MailKind
  Skdm <- MailSkdm
  MaxFaults = 2
INVARIANTS
  AcknowledgedIsKept
  KeptOnce
  HistReceiptMeansSaved
PROPERTY
  Progress
