SPECIFICATION FairSpec
CONSTANTS
    NumKeys = 2
    MaxGen = 3
    MaxSeq = 3
    FileKeys = 1
    Levels = {1, 4}
    MinGenerations1 = 2
    MinGenerations = 2
    Slots = {s1}
    Cursors = {c1}
    Deleters = {d1, d2}
    Toggler = Toggler
    NoSlot = NoSlot
    MaxDeletes = 2
    MaxToggles = 0
    MaxQueries = 1
    MaxFailures = 1
    MaxSwapFailures = 0
    MaxCrashes = 0
    s1 = s1
    s2 = s2
    c1 = c1
    c2 = c2
    d1 = d1
    d2 = d2
    PlanGroups <- MCPlanGroups
    Loaded <- OneGeneration
INVARIANT NoResurrection
INVARIANT Served
PROPERTY DeletesReturn
PROPERTY EventuallyPurged
