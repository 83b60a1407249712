\* Two requests at once, link requests and calls, one of them fails; the user
\* manages keys and projects meanwhile.
SPECIFICATION Spec
CONSTANTS
    t1 = t1  t2 = t2  p1 = p1  p2 = p2  k1 = k1  k2 = k2  k3 = k3
    Threads = {t1, t2}
    Projects = {p1, p2}
    Keys = {k1, k2, k3}
    NoProject = NoProject
    NoKey = NoKey
    MaxFaults = 1
SYMMETRY Interchangeable
INVARIANTS
    TypeOK
    DefaultsBounded
    LinksBounded
    LatestLinkWorks
CHECK_DEADLOCK FALSE
