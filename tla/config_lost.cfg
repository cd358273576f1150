SPECIFICATION Spec
CONSTANTS
  Ops = {o1, o2}
  Uuids = {u1}
  Hosts = {h1, h2}
  Creds = {c1}
  Lists = {l1}
  Cidrs = {n1}
  None = None
  MEROSS_KEY = FALSE
  AtomicWrites = TRUE
  MaxKills = 0
INVARIANTS
  ReportedUpdatesKept
SYMMETRY OpSymmetry
