SPECIFICATION StageSpec
CONSTANTS
    w1 = w1
    w2 = w2
    None = None
    Pages <- AllPages
    Organizations = {"north", "south"}
    OrganizationName <- Names
    Home = "north"
    Identity <- Identities
    Length <- Lengths
    Parsed <- ParsedNames
    Patterns <- LocalPatterns
    Parts <- AddressParts
    OrganizationDomain <- Domains
    MinSupport = 2
    MinConsistency = 80
    Generators = {g}
    Validators = {v1, v2}
    Answers = {"valid", "invalid", "unknown"}
    Passes = 3
    g = g
    v1 = v1
    v2 = v2
    Normalized <- Normals
    Workers = {w1, w2}
    Base <- TheBase
    Arrangements <- TheArrangements
    OrganizationScopes <- TheScopes
    Titles <- TheTitles
    SeniorityModifiers <- TheModifiers
    Runners = {r1, r2, r3}
    r3 = r3
    r1 = r1
    r2 = r2
    SetupCommands <- TheCommands
    Fetches = 3
INVARIANTS EvidenceStands VersionsNumbered WindowsCover StatusIsAnAnswer PacksDoNotInterfere SchemaIsRecorded
PROPERTIES ReplayAddsNothing PublishedStays DecisionsStand
CHECK_DEADLOCK FALSE
SYMMETRY Sym
