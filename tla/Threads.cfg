CONSTANTS
  MaxInt = 2
  MaxUsr = 2
SPECIFICATION FairSpec
INVARIANT TypeOK
INVARIANT FaultsExplained
INVARIANT NoLostWakeup
INVARIANT QueuesDestroyedLast
PROPERTY SigintEndsProcess
