CONSTANTS
  Codes = {c1, c2}
  CodeTtl = 1
  MaxAttempts = 2
  TokenTtl = 0
  Window = 2
  MaxRequests <- MCMaxRequests
SPECIFICATION FairSpec
INVARIANTS TypeOK NewestMailWorks SessionAsProven AdmittedInWindow
PROPERTIES CodeOpensOnce LimitOpens
