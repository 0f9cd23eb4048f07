SPECIFICATION SourcesSpec
CONSTANTS
    w1 = w1
    w2 = w2
    None = None
    Records <- AllRecords
    Edges <- AllEdges
    Existing <- AllExisting
    Writers = {w1, w2}
    Upserts = 3
    Relations = 4
    Forever = 9
    Files <- AllFiles
    Scope <- RosterScope
    Websites <- AllWebsites
    Stagings = 3
    Manifest <- TheManifest
    Exclusions <- TheExclusions
    Allowed <- TheAllowed
    Spines <- TheSpines
    Campuses <- TheCampuses
    BatchSize = 2
    Starters = {"s1"}
    Invocations = 2
    Releases <- TheReleases
    Inventory <- TheInventory
    AreaCount = 2
    Prohibited = {"public_pension_system"}
    StageBatch = 3
    Commands = 4
    Processes = {p1, p2}
    LocalityLabels = {"k12", "ci"}
    StateLabels = {"tx", "us"}
    Organizations <- TheOrganizations
    Site <- TheSite
    RobotsFiles <- TheRobots
    UserAgent = "bot"
    Reviews <- TheReviews
    FirstPolicies <- ThePolicies
    MaxPages = 3
    MaxDepth = 2
    MaxFailures = 2
    Frontier = 5
    MaxClaims = 2
    MaxReviews = 1
    Contents <- TheContents
    ChunkSize = 3
    Operators = {ada, ben}
    BulkForms <- TheForms
    ConsoleReviews <- TheConsoleReviews
    LinkedTargets <- TheTargets
    SourceRecords <- TheRecords
    FirstRoster = {"o1"}
    MaxSelection = 1
    MaxChanges = 4
    Directories <- TheDirectories
    Reveals <- WhatTextsReveal
    Spellings <- OtherSpellings
    MaxFruitless = 2
INVARIANTS EvidenceHasOneOwner HierarchyAcyclic ImportedMeansLinked OneVerifiedWebsite NoContactIsSkipped SpineAccountsForEveryRow NothingFoundIsLost ChunksReadAsWhole DecisionsComeWhole EveryAddressIsHarvested
CHECK_DEADLOCK FALSE
SYMMETRY SourcesSymmetry
