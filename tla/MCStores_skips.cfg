SPECIFICATION StoresSpec
CONSTANTS
    Clients = {1, 2, 3}
    Releases <- MCReleases
    MaxRepeats = 10
    MaxFaults = 1
    Nobody = Nobody
    Processes = {p1, p2}
    Keys = {k1, k2}
    Captchas = {c1, c2}
    Requests = {q1, q2}
    Duration = 1
    MaxClock = 2
    MaxCrashes = 1
    NoOne = NoOne
    s1 = s1
    s2 = s2
    s3 = s3
    l1 = l1
    l2 = l2
    Servers <- MCServers
    Listeners <- MCListeners
    ListenerOf <- MCListenerOf
    Conns = {1, 2, 3}
    Closers = {1, 2}
    NoConn = 0
    Groups = {1, 2}
    MaxId = 3
    SliceSize = 1
    MaxListSize = 2
    Methods = {1, 2, 4}
    Supported = {2, 4}
    Unreadable = {2}
    MaxScanFaults = 1
    MaxChanges = 2
INVARIANT VersionTrue
