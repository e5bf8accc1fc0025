SPECIFICATION Spec
CONSTANTS
  Accounts = {a1, a2}
  Leads = {l1, l2, l3}
  NoTicket = NoTicket
  Settings <- MCBatch
  EnvLimits <- MCEnvLimits
  MaxAcc = 2
  MaxTotal = 1
  MaxAdmissions = 1
  MaxFaults = 1
SYMMETRY MCSymmetry
INVARIANTS
  TypeOK
  GlobalCapSlack
  LimiterKeepsUp
  LimiterAheadByOne
PROPERTY KeepsPromise
