SPECIFICATION Spec
CONSTANTS
    Characters <- MCCharacters
    Strays <- MCStrays
    MaxPieces = 3
    Rooms = {1, 3, 6}
    Leftovers = {120}
CHECK_DEADLOCK FALSE
INVARIANTS NamesTrue AddressTrue TextTrue
