CONSTANTS
    Names = {n1}
    Uuids = {u1, u2, u3}
    Handlers = {h1, h2}
SPECIFICATION Spec
SYMMETRY Symmetry
INVARIANTS
    TypeOK
    RegisteredRouted
    CleanReplacement
    GaugeExact
    DocsComplete
PROPERTY FollowsLifecycle
