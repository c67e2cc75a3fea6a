SPECIFICATION Spec
CONSTANTS
    NumKeys = 4
    MaxGen = 4
    MaxSeq = 3
    FileKeys = 2
    Levels = {1, 4}
    MinGenerations1 = 2
    MinGenerations = 2
    Slots = {s1, s2}
    Cursors = {c1}
    Deleters = {}
    Toggler = Toggler
    NoSlot = NoSlot
    MaxDeletes = 0
    MaxToggles = 1
    MaxQueries = 1
    MaxFailures = 0
    MaxSwapFailures = 1
    MaxCrashes = 1
    s1 = s1
    s2 = s2
    c1 = c1
    c2 = c2
    d1 = d1
    d2 = d2
    PlanGroups <- MCPlanGroups
    Loaded <- FourGenerations
SYMMETRY Symmetry
INVARIANT TypeOK
INVARIANT PlansDisjoint
INVARIANT NoClobber
INVARIANT Preserved
PROPERTY InUseStaysOpen
CHECK_DEADLOCK FALSE
