SPECIFICATION Spec
CONSTANTS
    r = r
    a = a
    b = b
    x = x
    Vertices <- MCVertices
    Entry = r
    Shapes <- MCShapes
    RPO_INTERVAL = 10
    Builds <- MCDebug
    MaxMarks = 1
INVARIANT NoAssertFails
SYMMETRY Ids
CHECK_DEADLOCK FALSE
