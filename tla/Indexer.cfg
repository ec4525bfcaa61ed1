SPECIFICATION Spec
CONSTANTS
    p1 = p1
    p2 = p2
    v1 = v1
    v2 = v2
    k1 = k1
    k2 = k2
    e1 = e1
    e2 = e2
    Paths = {p1, p2}
    Contents = {v1, v2}
    NoFile = NoFile
    Undecodable = {}
    Chunks = {k1, k2}
    Releases = {e1, e2}
    ChunksOf <- MCChunksOf
    MarkOf <- MCMarkOf
SYMMETRY AnyOrder
INVARIANTS
    TypeOK
    RebuildExact
    IncrementalExact
PROPERTIES
    ValidAfterRun
    KeepsServing
