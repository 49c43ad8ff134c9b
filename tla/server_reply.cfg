SPECIFICATION Spec
CONSTANTS
  Conns = {c1, c2, c3}
  MaxFd = 3
  MaxJobs = 2
  MaxBody = 1
  Wrap = 4
  Honest = TRUE
  Null = Null
INVARIANTS ReplyToOwn
SYMMETRY Symmetry
