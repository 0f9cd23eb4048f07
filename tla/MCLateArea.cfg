SPECIFICATION CastSpec
CONSTANTS
    None = None
    Contains <- SchoolContains
    AreaTree <- SchoolAreas
    DomainOf <- SchoolDomains
    Subdomain <- SchoolSubdomain
    MaxDepth = 1
    Rows <- SchoolRows
    PageSize = 1
    Purpose = "outreach"
    Catalogue <- StateCatalogue
    Deliveries <- AllDeliveries
    Owners <- SchoolOwners
    Intakes = {"i1", "i2"}
    Operators = {"o1", "o2"}
    Streams = {"s1"}
    Builds = {"b1"}
    Casts <- LateCast
INVARIANTS LateAreasCount

CHECK_DEADLOCK FALSE
