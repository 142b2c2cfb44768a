SPECIFICATION Spec
CONSTANTS
    r = r
    a = a
    b = b
    x = x
    Vertices <- MCVertices
    Entry = r
    Shapes <- MCShapes
    RPO_INTERVAL = 10
    Builds <- MCRelease
    MaxMarks = 1
INVARIANT IdomsRight
SYMMETRY Ids
