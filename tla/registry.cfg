SPECIFICATION FairSpec
CONSTANTS
  Scripts = {s1, s2}
  Pids = {p1, p2}
  Workers = {w1, w2}
  MaxJobs = 2
  Null = Null
  Main = Main
INVARIANTS TypeOK NJobsExact DeletedIsUnused JobsBounded OneOwner
PROPERTIES RunAnswered OnlyKnownRaces
