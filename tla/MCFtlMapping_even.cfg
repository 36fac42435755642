CONSTANTS
    Entries = 4
    Halves <- FourHalves
SPECIFICATION Spec
INVARIANTS
    EntriesAreKept
