\* The CFG analyses, alias analysis, MD reference, SSA and value numbering, as
\* the passes of a region ask for them and leave them behind, on graphs that
\* PRSSA does not give up on.
SPECIFICATION Spec
CONSTANTS
    Requests <- MCPassesRequests
    IPARequests <- MCNone
    Excludes <- MCExcludes
    Edits <- MCPassesEdits
    BBCounts = {"none", "few"}
    ByPRSSA = TRUE
    DensePRSSA = FALSE
INVARIANTS
    InputsReady
    RequestDelivers
    NoAssertFails
    CacheInv
PROPERTY
    KeepsPromise
\* A failed assertion stops the compiler.
CHECK_DEADLOCK FALSE
