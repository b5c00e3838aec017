SPECIFICATION Spec
CONSTANTS
    Names = {a, b}
    Handles = {h1}
    MaxClust = 4
    PerFat = 3
    NSlots = 2
    PerDir = 1
    NFats = 1
    MaxSize = 2
    Faults = {"write"}
    Habits = {"retry"}
INVARIANTS
    ClosedDataOnCard
