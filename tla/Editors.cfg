CONSTANTS
    Editors = {e1, e2}
    Clean = {0}
    MaxEdits = 1
    MaxCalls = 3
    MaxRuns = 1
    MaxFaults = 1
    f1 = f1
    f2 = f2
SYMMETRY Alike
SPECIFICATION AllSpec
INVARIANTS
    PlaygroundsSound
    ClientsSound
PROPERTIES
    DiagsForward
CHECK_DEADLOCK FALSE
