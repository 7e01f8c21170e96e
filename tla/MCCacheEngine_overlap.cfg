SPECIFICATION CacheSpec
CONSTANTS
    r1 = r1
    m1 = m1
    m2 = m2
    Readers = {r1}
    Removers = {m1, m2}
    Slow = {}
    None = None
    Old = Old
INVARIANT NeverPanics
