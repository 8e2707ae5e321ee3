CONSTANTS
    Calls = {1, 2, 3, 4}
    Large = {2}
    Posts = {3}
    Unknown = {4}
    Cramped = {1, 4}
    Pieces = 2
SPECIFICATION AllSpec
INVARIANTS
    CallsSound
    GuestSound
PROPERTIES
    ReplacedUnseen
    AllAnswered
CHECK_DEADLOCK FALSE
