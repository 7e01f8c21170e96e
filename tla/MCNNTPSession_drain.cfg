SPECIFICATION SessionSpec
CONSTANTS
    reader = reader
    poster = poster
    Accounts <- MCAccounts
    PrivOf <- MCPrivOf
    NoPass = {poster}
    DefaultPriv = {"w"}
    TLSPriv = {"r"}
    Configs <- MCConfigs
    Supported = {"POST", "IHAVE", "STREAM"}
    ArticleTexts <- MCAnyTexts
    BufSize = 2
    BodyLimit = 3
    MaxAhead = 2
    Sends = {"POST", "CHECK"}
CHECK_DEADLOCK FALSE
INVARIANT
    InStep
