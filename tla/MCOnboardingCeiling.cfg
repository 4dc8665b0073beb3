CONSTANTS
    Requests = {1}
    SiteMaps <- AllMaps
    Answers <- AllAnswers
    TypedLists <- AllTyped
    DefaultPages = 4
    MaxCredits = 5
    PoolSize = 1
    WebTicks = 10
    AgentTicks = 9
    DatabaseTicks = 1
    MaxStops = 0
SPECIFICATION PromptSpec
PROPERTY CeilingMeansStopped
CHECK_DEADLOCK FALSE
