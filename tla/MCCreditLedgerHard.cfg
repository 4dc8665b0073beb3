SPECIFICATION Spec
CONSTANTS
    web = web
    news = news
    r1 = r1
    r2 = r2
    NoRow = NoRow
    NoQuery = NoQuery
    Runs = {r1, r2}
    Sources = {web, news}
    Queries = {"shared", "web_only"}
    Plan <- MCPlan
    Cost <- MCCost
    DailyBudget = 2
    Modes = {"live"}
    MaxAttempts = 2
    MaxFaults = 0
CHECK_DEADLOCK FALSE
INVARIANT HardCeiling
