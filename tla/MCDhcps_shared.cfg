CONSTANTS
    Clients = {a, b, c}
    NoClient = nobody
    Slots = 2
    First = 4
    Last = 6
    WordBits = 3
    Own = {4}
SYMMETRY ClientSymmetry
SPECIFICATION Spec
INVARIANTS
    TypeOK
    TableAgrees
    HeldIsRecorded
    HeldOnce
