SPECIFICATION Spec
CONSTANTS
  Uuids = {u1}
  Readings = {r1, r2}
  Delays = 2
  MaxWire = 4
  Inventory = {u1}
  Cidrs = {c1}
  NoCidr = NoCidr
  Others = {o1}
  None = None
INVARIANTS
    StreamSound
    ShownConverges
    OptimismOwned
PROPERTIES
    AlwaysRetries
    InventoryKept
