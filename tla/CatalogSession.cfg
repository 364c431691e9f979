SPECIFICATION Spec
CONSTANTS
    price = price
    color = color
    category = category
    none = none
    root = root
    shoes = shoes
    red_ = red_
    green = green
    other = other
    Facets <- MCFacets
    NumericFacets <- MCNumericFacets
    Category = category
    SemanticOnly = none
    Texts = {quiet}
    NoText = NoText
    Confidences <- MCConfidences
    Scopes <- MCScopes
    RootScope = root
    CatalogFacets <- MCCatalogFacets
    Committable <- MCCommittable
    RetrievalDerived <- MCRetrievalDerived
    AddShapes <- MCAddShapes
    ReplaceShapes <- MCReplaceShapes
    ClearedFacets = {price}
    Goals = {gift}
    NoGoal = NoGoal
    NoBatch = NoBatch
    NoBelief = NoBelief
    NoToken = NoToken
    Scalars <- MCScalars
    Grid <- MCGrid
    MaxTxns = 3
    MaxOps = 2
    OpBudget = 3
    MaxProbes = 1
    ProbeTxns = 2
INVARIANTS
    CommittedIntentSatisfiable
    IdsDenoteOnePreference
    ReplayReproducesIntent
    PreviewedBatchCommits
PROPERTIES
    AddNarrows
    DroppedStaysDropped
    BeliefsAreAttested
CHECK_DEADLOCK FALSE
