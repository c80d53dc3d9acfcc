SPECIFICATION Spec
CONSTANTS
  Runs = {a, b}
  Cap = 2
  MaxUnits = 2
  MaxOwner = 1
  MaxDisturbed = 1
INVARIANTS
  TypeOK
  NoPhantomUnits
  HaltsAreReal
PROPERTIES
  TopUpsAreAdopted
CHECK_DEADLOCK FALSE
