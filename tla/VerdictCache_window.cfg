CONSTANTS
    Tokens = {t1}
    Sessions = {}
    Domains = {d1}
    Callers = {c1, c2}
    cacheTTL = 2
    Timeout = 1
SPECIFICATION CacheSpec
SYMMETRY CallerSymmetry
INVARIANTS
    CacheTypeOK
    RevocationWindow
    NoStrayCertificate
