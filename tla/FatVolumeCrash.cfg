SPECIFICATION Spec
CONSTANTS
    h2 = h2
    Names = {a, b}
    Handles = {h1, h2}
    MaxClust = 4
    PerFat = 3
    NSlots = 2
    PerDir = 1
    NFats = 2
    MaxSize = 2
    Faults = {"crash", "copy"}
    Habits = {}
SYMMETRY Symmetry
INVARIANTS
    CrashSafe
    FilesApart
    Durable
