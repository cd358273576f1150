SPECIFICATION Spec
CONSTANTS
  Ops = {o1, o2}
  Uuids = {u1}
  Hosts = {h1}
  Creds = {c1}
  Lists = {l1}
  Cidrs = {n1}
  None = None
  MEROSS_KEY = FALSE
  AtomicWrites = FALSE
  MaxKills = 1
INVARIANTS
  TypeOK
  SerialUpdatesKept
SYMMETRY OpSymmetry
