SPECIFICATION FairSpec
CONSTANT MaxRestarts = 1
PROPERTY LoginIsResumed
