CONSTANTS
    ByteBits = 2
    MaxSubscriptions = 2
    MaxPatternsPerSubscription = 2
    Lists <- MCLists
    Subjects <- MCSubjects
    Number <- TextNumber
    Base = 3
    HeaderBits = 2
    ComponentOrder <- MCComponentOrder
    Definitions <- MCDefinitions
    CodeBits = 3
    WordBits = 4
    LayoutControls = {3}
    OtherControls = {5}
    IdentityCharacters = {4, 6, 8, 9}
    IdentityLimit = 4
    Constructs <- MCConstructs
    Authorities <- MCAuthorities
    MaxWords = 32
    DefaultFormat = "gs1"
    Observations <- MCObservations
    MadeUnits <- MCUnits
    PatternURIs <- MCPatternURIs
    N = 3
    Callers = {c1, c2}
    SampleEvery = 10
    Warmup = 2
    Window = 2
    Cooldown = 2
    Hysteresis = 1
    OverheadBudget = 5
    Costs = {1, 5}
    MaxCalls = 81
    MaxSampled = 8
SPECIFICATION MCSpec
INVARIANTS
    IndexAgrees
    NoTagFailsTheConsumer
    IdentityKept
    BitTestIsExact
    ShadowsHarmless
PROPERTY SwitchJustified
SYMMETRY MCSymmetry
CHECK_DEADLOCK FALSE
