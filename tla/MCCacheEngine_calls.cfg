SPECIFICATION CacheSpec
CONSTANTS
    r1 = r1
    r2 = r2
    r3 = r3
    m1 = m1
    m2 = m2
    Readers = {r1, r2, r3}
    Removers = {m1, m2}
    Slow = {}
    None = None
    Old = Old
SYMMETRY CallSymmetry
CONSTRAINT TwoOrNoRemoval
INVARIANTS
    RefCountExact
    UsedFileStaysOpen
    SingleFlight
    ResumesSameContent
    NoStrayTempFile
    PlaceholderHoldsEntry
