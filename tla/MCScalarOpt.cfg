\* The pipeline with every counter-effect, to its end.
SPECIFICATION Spec
CONSTANTS
    OptionSets <- MCOptionSets
    Gains <- MCGains
    Enables <- MCEnables
INVARIANTS
    NothingWorthLeft
    DeadCodeGone
PROPERTY
    Finishes
\* perform returns.
CHECK_DEADLOCK FALSE
