SPECIFICATION FairSpec
CONSTANT MaxRestarts = 2
INVARIANTS TypeOK BannedIsDown
PROPERTIES DeadIsNotResumed KeepsView ActiveIsServed DisabledIsPaused RestartHappens
