SPECIFICATION ReadersSpec
CONSTANTS
    DotLength = 4
    LinesLength = 5
    WildmatLength = 4
    MaxTextLen = 2
    MaxInt64 = 7
    FormFaults = 1
    InbufLen = 8
    WordSize = 16
    NameChars = {"t", "o", "c", ".", "_"}
    NewsChars = {"t", "o", "c", "_"}
    Ctl <- MCCtl
    FirstReserved <- MCFirstReserved
    AnyReserved <- MCAnyReserved
    WholeReserved <- MCWholeReserved
    HeaderOrder <- MCHeaderOrder
    PathName <- MCPathName
    Instance <- MCInstance
    reader = reader
    poster = poster
    Accounts <- MCAccounts
    PrivOf <- MCPrivOf
    NoPass = {poster}
    DefaultPriv = {}
    TLSPriv = {"r"}
    Configs <- MCConfigs
    Supported = {"POST", "IHAVE", "STREAM"}
    ArticleTexts <- MCTexts
    BufSize = 2
    BodyLimit = 3
    MaxAhead = 2
    Sends <- Commands
INVARIANT
    RelayedTrue
CHECK_DEADLOCK FALSE
