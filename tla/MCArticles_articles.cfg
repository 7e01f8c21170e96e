SPECIFICATION ArticlesSpec
CONSTANTS
    MaxLen = 6
    Articles <- MCArticles
    Kinds = {"full", "head"}
    BufLen = 3
    Bodies <- MCBodies
    Names = {1, 2, 3, 4, 5, 6, 7}
    MaxFaults = 2
    Boards = {1, 2}
    PostNames = {1, 2, 3}
    Messages <- MCMessages
    PageLen = 1
    MaxTx = 4
    MaxWriters = 2
    MaxRefs = 4
    Peers = {p1, p2}
    Offers <- MCOffers
    AutoAdd = {"new"}
    OldBoards = {"a", "b"}
    OldPosts <- MCOldPosts
    MaxOffers = 2
    MaxRemovals = 1
    MaxFailures = 1
INVARIANTS
    NoTempLeft
    Described
    RefsTrue
    TakenTrue
PROPERTIES
    Delivers
    ArticleEnds
