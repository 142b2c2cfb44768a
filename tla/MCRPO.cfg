SPECIFICATION Spec
CONSTANTS
    r = r
    a = a
    b = b
    x = x
    Vertices <- MCVertices
    Entry = r
    Shapes <- MCShapes
    RPO_INTERVAL = 4
    Builds <- MCBuilds
    MaxMarks = 1
INVARIANTS
    NumbersUnique
    DownEdgesCloseLoopsUnlessRedirected
    ListLeadsTo
    UsedIsTaken
    IdomsRightUnlessRedirected
SYMMETRY Ids
CHECK_DEADLOCK FALSE
