SPECIFICATION FairSpec
CONSTANTS
  Accounts = {a1, a2}
  Leads = {l1, l2}
  NoTicket = NoTicket
  Settings <- MCSingle
  EnvLimits <- MCEnvLimits
  MaxAcc = 1
  MaxTotal = 1
  MaxAdmissions = 1
  MaxFaults = 0
PROPERTIES
  ReservationsAreHandled
  NewLeadsAreReserved
