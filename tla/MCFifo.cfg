CONSTANTS
    Byte = {a, b}
    max = 3
SPECIFICATION Spec
INVARIANTS
    TypeOK
    HeadFollows
PROPERTIES
    ImplementsQueue
