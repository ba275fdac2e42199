SPECIFICATION Spec

CONSTANTS
    s1 = s1
    s2 = s2
    s3 = s3
    p1 = p1
    p2 = p2
    n1 = n1
    n2 = n2
    w1 = w1
    c1 = c1
    c2 = c2
    None = None
    Sessions = {s1, s2, s3}
    Parents = {p1, p2}
    Nodes = {n1, n2}
    Workflows = {w1}
    OnTerminate = {}
    OnCancelled = {w1}
    Uninterruptible = FALSE
    Cleanups = {c1, c2}
    ScopeCleanups = {c1, c2}
    ParentOf <- MCParentOf
    CleanupOf <- MCCleanupOf

INVARIANTS
    TypeOK
    OwnCleaningProgresses
    BuffersAreCleanedLast
    NotifiedMeansClean

PROPERTIES
    FirstEndingDecides
