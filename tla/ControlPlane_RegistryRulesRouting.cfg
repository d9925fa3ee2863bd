CONSTANTS
    Names = {n1}
    Uuids = {u1, u2}
    Handlers = {h1, h2}
SPECIFICATION Spec
SYMMETRY Symmetry
INVARIANT RegistryRulesRouting
