\* The classic DU chain as IPA recomputes it, after every kind of edit, and after
\* PRSSA has been constructed or has given up.
SPECIFICATION Spec
CONSTANTS
    Requests <- MCIPARegions
    IPARequests <- MCIPARequests
    Excludes <- MCNone
    Edits <- MCIPAEdits
    BBCounts = {"few", "many"}
    ByPRSSA = FALSE
    DensePRSSA = TRUE
INVARIANTS
    TypeOK
    InputsReady
    NoSelfDependence
    RequestDelivers
PROPERTY
    RequestReturns
\* A failed assertion stops the compiler.
CHECK_DEADLOCK FALSE
