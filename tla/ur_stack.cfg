SPECIFICATION Spec
CONSTANTS
    Objects = {part, hulled}
    Hulled = {hulled}
    Shapes = {s1, s2}
    MeshAddrs = {m1}
    HullAddrs = {h1}
    Absent = absent
    MaxTime = 5
SYMMETRY Symmetries
CHECK_DEADLOCK FALSE
INVARIANTS
    TypeOK
    SnapshotsLoadable
    NoOrphanData
    PointersCurrent
    StackValid
PROPERTIES
    ImplementsList
