SPECIFICATION FairSpec
CONSTANTS
  c1 = c1  c2 = c2  c3 = c3  c4 = c4  s = s
  Clients = {c1, c2, c3, c4}
  Sweepers = {s}
  Threads = 3
  Conns = 2
INVARIANTS NoLeak ThreadLeft
PROPERTIES Answered
