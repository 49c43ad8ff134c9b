SPECIFICATION Spec
CONSTANTS
  OutputLimit = 1
  BufSize = 2
  PipeCapacity = 2
  MaxOutput <- MCQuietErr
  ExitCodes <- MCCodes
  Daemons = FALSE
  SigchldIgnored = FALSE
PROPERTIES SignalsOwnChild
