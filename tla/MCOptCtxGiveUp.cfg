\* PRSSA on a graph with a dense dominance frontier.
SPECIFICATION Spec
CONSTANTS
    Requests <- MCSSARequests
    IPARequests <- MCNone
    Excludes <- MCNone
    Edits = {"cfg"}
    BBCounts = {"few"}
    ByPRSSA = TRUE
    DensePRSSA = TRUE
INVARIANT ValidNotStale
CHECK_DEADLOCK FALSE
