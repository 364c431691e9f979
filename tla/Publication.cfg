SPECIFICATION Spec
CONSTANTS
    Writer = {w1, w2}
    MaxStarts = 3
    MaxEdits = 1
    MaxKills = 1
SYMMETRY Symmetry
INVARIANTS
    ChainVouched
    TornOnlyByInterruption
PROPERTY
    ReleaseWholeAndImmutable
CHECK_DEADLOCK FALSE
