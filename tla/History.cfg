SPECIFICATION ExportSpec
CONSTANTS
  Hub = {h1, h2}
  h1 = h1
  h2 = h2
  Order <- TasksThenAudit
  Changing = {"tasks"}
  Batch = 1
  MaxRows = 2
  MaxFaults = 1
INVARIANTS NothingSkipped
PROPERTIES EveryRowArchived
