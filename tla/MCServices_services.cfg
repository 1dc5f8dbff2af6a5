\* Modification objects: two processes, two objects, one surface, counters
\* of two bits that wrap.
SPECIFICATION ServicesSpec
CONSTANTS
    Instances = {"sync", "events", "pages", "load", "threads", "areas", "ccb"}
    p1 = p1
    p2 = p2
    o1 = o1
    o2 = o2
    o3 = o3
    s1 = s1
    Processes = {p1, p2}
    Objects = {o1, o2}
    Syncs = {s1}
    Modulus = 4
    MaxIssued = 4
    MaxStalls = 1

INVARIANTS
    AnnouncedIsHeld
    QueriesHonest
    ExitWaitsForOthers
    SignalsReach
    CachesSound
    LoadSound
    MapsSound
PROPERTIES
    CompletesInOrder
    Delivered
\* MaxIssued operations are issued and done: there the system may rest.
CHECK_DEADLOCK FALSE
SYMMETRY Symmetry
