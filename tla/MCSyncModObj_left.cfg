\* Two processes and a surface between them.
SPECIFICATION Spec
CONSTANTS
    p1 = p1
    p2 = p2
    o1 = o1
    o2 = o2
    o3 = o3
    s1 = s1
    Processes = {p1, p2}
    Objects = {o1, o2, o3}
    Syncs = {s1}
    Modulus = 8
    MaxIssued = 3
    MaxStalls = 0
INVARIANT NoResourceLeft
\* MaxIssued operations are issued and done: there the system may rest.
CHECK_DEADLOCK FALSE
