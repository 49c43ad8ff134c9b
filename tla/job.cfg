SPECIFICATION FairSpec
CONSTANTS
  OutputLimit = 1
  BufSize = 2
  PipeCapacity = 2
  MaxOutput <- MCMaxOutput
  ExitCodes <- MCCodes
  Daemons = TRUE
  SigchldIgnored = FALSE
INVARIANTS TypeOK OutputExact LimitJustified SettledIsDead TimerSilent QuietWhenReleased
PROPERTIES EventuallySettled EventuallyReleased Implements
