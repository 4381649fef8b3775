CONSTANTS
    page = page
    image = image
    Containers = {page, image}
    PageContainer = page
    CrossContainers = {image}
    Nodes = {1, 2}
    SummarySize = 1
    IndicatorLimit = 1
    MaxRows = 2
    MaxPosts = 2
    MaxAnswers = 3
SPECIFICATION Spec
INVARIANTS
    TypeOK
    TotalsAddUp
    SummaryCoversItsList
    OverByOne
    KnownReactionsShown
CHECK_DEADLOCK FALSE
