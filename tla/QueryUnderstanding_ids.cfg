SPECIFICATION Spec
CONSTANTS
    price = price
    color = color
    category = category
    none = none
    root = root
    shoes = shoes
    crimson = crimson
    azure = azure
    quiet = quiet
    light = light
    gift = gift
    Facets <- MCFacets
    FacetOrder <- MCFacetOrder
    Certain = 100
    NumericFacets <- MCNumericFacets
    Category = category
    SemanticOnly = none
    Texts = {quiet, light}
    NoText = NoText
    Confidences <- MCConfidences
    Scopes <- MCScopes
    RootScope = root
    CatalogFacets <- MCCatalogFacets
    Committable <- MCCommittable
    RetrievalDerived <- MCRetrievalDerived
    StructuredItems <- NoItems
    PriceItems <- NoItems
    SemanticItems <- TwoWishes
    IrrelevantSets <- OnlyRelevant
    GoalFrames <- SameGoal
    NoGoal = NoGoal
    NoFrame = NoFrame
    BadFrame = BadFrame
    FirstTurn = 9
    MaxTurn = 11
    MaxNew = 1
INVARIANT
    OmissionDeletes
CHECK_DEADLOCK FALSE
