SPECIFICATION FairSpec
CONSTANTS
  Leads = {l1}
  Handlers = {h1}
  Ttl = 1
  Grace = 1
  MaxReplies = 2
  MaxCrashes = 1
INVARIANTS TypeOK DeliveredOnce SentWasDelivered WrittenOrder GraceExplained FailedUntilSent
PROPERTY RepliesAreSettled
