\* Two calls at once over three memories, any of them fail half way; a prune looks at one
\* point, so that it may stop before it has seen the store.
SPECIFICATION Spec
CONSTANTS
    t1 = t1  t2 = t2  a = a  b = b  c = c  x = x  stored = stored  other = other
    Threads = {t1, t2}
    Ids = {a, b, c}
    NoId = NoId
    Types = {x}
    MaxPoints = 1
    Values = {stored, other}
    Stored = stored
    Batches <- OneOrTwo
    Annotations <- NewAnchors
    MayFail = TRUE
SYMMETRY Interchangeable
INVARIANTS
    TypeOK
    GhostsNeedOverlap
PROPERTIES
    AnchorIsKept
    KeepsGraph
