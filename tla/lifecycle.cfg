SPECIFICATION FairSpec
CONSTANTS
  Procs = {a, b, c}
  Null = Null
INVARIANTS TypeOK PidFileNotOther NoStalePid
PROPERTIES RefusedByHolder NameLostToUnlink PortReleased
