CONSTANTS
    Name = {h1, h2}
    MaxEdits = 5
SPECIFICATION InventorySpec
INVARIANTS
    InventoryTypeOK
    PollsInventory
PROPERTIES
    StaleIsKept
    CatchesUp
