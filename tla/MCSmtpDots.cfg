CONSTANTS
    MaxBytes = 9
    Rooms <- MCRooms
    Limit = 3
SPECIFICATION ReaderSpec
INVARIANTS
    EofAtFirstMark
    Transparent
    RoomSuffices
    ReadOnce
    LinesWhole
