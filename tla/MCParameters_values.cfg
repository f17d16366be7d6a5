SPECIFICATION Spec
CONSTANTS
  NumLowIDs = 1
  Ids <- TheIds
  Info <- TheInfo
  Lists <- TheLists
  Scale = 6
  Positions <- ThePositions
  ReadSizes = {1, 2, 3}
  MaxRead = 2
INVARIANTS IndexFits UnitsTrue TextsTrue StateRestored
PROPERTY ImplementsStore
