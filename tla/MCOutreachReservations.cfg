SPECIFICATION Spec
CONSTANTS
  Accounts = {a1, a2}
  Leads = {l1, l2}
  NoTicket = NoTicket
  Settings <- MCOnOff
  EnvLimits <- MCEnvLimits
  MaxAcc = 1
  MaxTotal = 2
  MaxAdmissions = 2
  MaxFaults = 0
SYMMETRY MCSymmetry
INVARIANTS
  OneMessagePerAdmission
  NewLeadIsFree
  AccountCap
PROPERTY
  KeepsQueues
