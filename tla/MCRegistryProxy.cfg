SPECIFICATION Spec
CONSTANTS
    r1 = r1
    r2 = r2
    e1 = e1
    b1 = b1
    Requests <- MCRequests
    Entries <- MCEntries
    Bundles <- MCBundles
    Context = Context
    Versions <- MCVersions
    MaxEntries = 1
    Ttl = 2
    NegTtl = 1
    MaxPublishes = 1
    None = None
    Reading = Reading
    Absent = Absent
    Fault = Fault
    Leaf = Leaf
    NoBundle = NoBundle
    NoContext = NoContext
INVARIANTS FlightsShared NeverMixed LandedLeafFound
PROPERTIES RequestsEnd Converges
CHECK_DEADLOCK FALSE
