\* One process with two objects, and SGX, which is late at most once.
SPECIFICATION FairSpec
CONSTANTS
    p1 = p1
    p2 = p2
    o1 = o1
    o2 = o2
    o3 = o3
    s1 = s1
    Processes = {p1}
    Objects = {o1, o2}
    Syncs = {s1}
    Modulus = 8
    MaxIssued = 4
    MaxStalls = 1
PROPERTY AnnouncedCompletes
\* MaxIssued operations are issued and done: there the system may rest.
CHECK_DEADLOCK FALSE
