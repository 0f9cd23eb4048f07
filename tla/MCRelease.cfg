SPECIFICATION CastSpec
CONSTANTS
    None = None
    Contains <- SchoolContains
    AreaTree <- SchoolAreas
    DomainOf <- SchoolDomains
    Subdomain <- SchoolSubdomain
    MaxDepth = 1
    Rows <- SchoolRows
    PageSize = 1
    Purpose = "outreach"
    Catalogue <- SchoolCatalogue
    Deliveries <- AllDeliveries
    Owners <- SchoolOwners
    Intakes = {"i1", "i2"}
    Operators = {"o1", "o2", "o3"}
    Streams = {"s1"}
    Builds = {"b1"}
    Casts <- AllCasts
INVARIANTS OptOutsReachTheFile ContactsAppearOnce ComplaintSuppressesOnce ChainVerifies TrailTellsTheTruth
PROPERTIES WorkEnds
CHECK_DEADLOCK FALSE
