SPECIFICATION Spec
CONSTANTS
    NumKeys = 2
    MaxGen = 3
    MaxSeq = 3
    FileKeys = 1
    Levels = {1, 4}
    MinGenerations1 = 2
    MinGenerations = 2
    Slots = {s1}
    Cursors = {c1}
    Deleters = {d1}
    Toggler = Toggler
    NoSlot = NoSlot
    MaxDeletes = 1
    MaxToggles = 0
    MaxQueries = 0
    MaxFailures = 0
    MaxSwapFailures = 0
    MaxCrashes = 0
    s1 = s1
    s2 = s2
    c1 = c1
    c2 = c2
    d1 = d1
    d2 = d2
    PlanGroups <- MCPlanGroups
    Loaded <- OneGeneration2
SYMMETRY Symmetry
INVARIANT DeleteRemoves
CHECK_DEADLOCK FALSE
