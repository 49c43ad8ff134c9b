SPECIFICATION FairSpec
CONSTANTS
  Conns = {c1, c2, c3}
  MaxFd = 2
  MaxJobs = 1
  MaxBody = 2
  Wrap = 8
  Honest = FALSE
  Null = Null
INVARIANTS TypeOK NoLeak
PROPERTIES OnlySecondClose Served HungUp BodyEnds
