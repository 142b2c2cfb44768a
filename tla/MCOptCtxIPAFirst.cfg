\* The default list of IPA, on a region whose processing has ended.
SPECIFICATION Spec
CONSTANTS
    Requests <- MCIPACallers
    IPARequests <- MCDefaultIPA
    Excludes <- MCNone
    Edits = {"mdref", "all"}
    BBCounts = {"few"}
    ByPRSSA = TRUE
    DensePRSSA = FALSE
INVARIANT CFGIsThere
CHECK_DEADLOCK FALSE
