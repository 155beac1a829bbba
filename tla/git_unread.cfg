SPECIFICATION AnySpec
CONSTANTS
  m1 = m1
  m2 = m2
  p1 = p1
  p2 = p2
  s1 = s1
  s2 = s2
  Machines = {m1, m2}
  Procs = {p1, p2}
  Host <- HostOf
  Sessions = {s1, s2}
  Writers = {m1, m2}
  Ops <- AllOps
  Remotes = {TRUE, FALSE}
  MaxFaults = 1
  Setups = {"share"}
  DeliverOps <- WriterAndReader
PROPERTIES
  AlwaysAppendOnly
