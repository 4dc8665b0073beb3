CONSTANTS
    Requests = {1, 2}
    SiteMaps <- AllMaps
    Answers <- AllAnswers
    TypedLists <- AllTyped
    DefaultPages = 3
    MaxCredits = 4
    PoolSize = 1
    WebTicks = 2
    AgentTicks = 1
    DatabaseTicks = 1
    MaxStops = 1
SPECIFICATION Spec
INVARIANT TypeOK
INVARIANT PagesAreSpread
INVARIANT OwnersWordsComeFirst
INVARIANT ScreenTellsTheTruth
PROPERTY EverySubmitIsAnswered
PROPERTY ImplementsRegistry
CHECK_DEADLOCK FALSE
