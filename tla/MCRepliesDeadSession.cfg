SPECIFICATION Spec
CONSTANTS
  Leads = {l1}
  Handlers = {h1}
  Ttl = 1
  Grace = 1
  MaxReplies = 2
  MaxCrashes = 1
PROPERTY DeadSessionKeepsQueue
