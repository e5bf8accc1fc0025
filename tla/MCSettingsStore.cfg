CONSTANTS
  Accounts = {a1, a2}
  Options = {o1}
  Values = {0, 1}
  Default = 0
  Admins = {d1, d2}
SPECIFICATION Spec
INVARIANTS TypeOK ProcessesAgree AsDecided
PROPERTIES OnlyAsEntered
