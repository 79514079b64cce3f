SPECIFICATION FairSpec
CONSTANTS
  Scripts <- MCScripts
  MAX_TRACKED_PORTS = 4
  MaxUpdates = 2
INVARIANTS
  IndexIntact
  HandlesOwned
  NoPortLeak
PROPERTIES
  SlotsKept
  TimesWhole
  HandledWhenRaised
  ClockRuns
CHECK_DEADLOCK FALSE
