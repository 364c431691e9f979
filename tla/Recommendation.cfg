SPECIFICATION TurnSpec
CONSTANTS
    price = price
    color = color
    category = category
    none = none
    root = root
    shoes = shoes
    crimson = crimson
    azure = azure
    quiet = quiet
    light = light
    gift = gift
    sneaker = sneaker
    boot = boot
    sandal = sandal
    hat = hat
    scarf = scarf
    unpriced = unpriced
    Facets <- MCFacets
    FacetOrder <- MCFacetOrder
    Certain = 100
    NumericFacets <- MCNumericFacets
    Category = category
    SemanticOnly = none
    Texts = {quiet, light}
    NoText = NoText
    Confidences <- MCConfidences
    Scopes <- MCScopes
    RootScope = root
    CatalogFacets <- MCCatalogFacets
    Committable <- MCCommittable
    RetrievalDerived <- MCRetrievalDerived
    StructuredItems <- MCStructuredItems
    PriceItems <- MCPriceItems
    SemanticItems <- MCSemanticItems
    IrrelevantSets <- MCIrrelevantSets
    GoalFrames <- MCGoalFrames
    NoGoal = NoGoal
    NoFrame = NoFrame
    BadFrame = BadFrame
    FirstTurn = 1
    MaxTurn = 2
    MaxNew = 2
    Product <- MCProduct
    InScope <- MCInScope
    PriceOf <- MCPriceOf
    NoPrice = unpriced
    Evidence <- MCEvidence
    PoolK = 4
    DenseAtHigh = 1
    DenseRange = 1
    LexicalAtLow = 1
    LexicalRange = 0
    ShortlistK = 3
    FinalK = 3
    TopK = 2
    Transparencies <- MCTransparencies
INVARIANTS
    FinalIsWhatTheFrameSays
    RefusedOnlyIfUnsatisfiable
    SlateHonoursIntent
    FullSlate
PROPERTIES
    CategoryKept
    NewestGivesWay
CHECK_DEADLOCK FALSE
