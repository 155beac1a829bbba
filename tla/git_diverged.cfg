SPECIFICATION AnySpec
CONSTANTS
  m1 = m1
  m2 = m2
  p1 = p1
  p2 = p2
  s1 = s1
  Machines = {m1, m2}
  Procs = {p1, p2}
  Host <- HostOf
  Sessions = {s1}
  Writers = {m1}
  Ops <- AllOps
  Remotes = {TRUE}
  MaxFaults = 0
  Setups = {"deliver"}
  DeliverOps <- SyncOnly
PROPERTIES
  Delivered
