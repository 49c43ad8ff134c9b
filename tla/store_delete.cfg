SPECIFICATION StoreSpec
CONSTANTS
  Scripts = {s1, s2}
  Names = {"a", "b"}
  NameOf <- MCNameOf
  Earlier = Earlier
  Used = {1}
  Pids = {}
  Workers = {w1, w2}
  MaxJobs = 1
  MaxRestarts = 1
  Null = Null
  Main = Main
SYMMETRY Symmetry
PROPERTY DeleteTellsFailure
