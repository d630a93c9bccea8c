SPECIFICATION AllSpec
CONSTANTS
    None = None
    Fields = {f1, f2}
    Texts = {Blank, t1}
    Blank = Blank
    Editors = {c1, c2}
    MaxRequests = 4
    MaxSiteEdits = 1
    Words = {"rock", "jazz", "folk"}
    Spellings = {"Rock", "ROCK", "Jazz", "Folk"}
    Cap = 2
    Lists <- GenreLists
    Parts = {p1, p2}
    Readings = {"x"}
    Findings = {"seen"}
    Clients = {c1, c2}
    Visits = {r1, r2, r3}
    Requests = {r1, r2, r3}
    Changes = {"view", "cover", "reset"}
    Uploads = {{"image"}, {"mp4", "webm"}, {"mp4"}}
    Names = {"n1"}
    Addresses = {"i1", "i2"}
    Attempts = {r1, r2, r3}
    MaxAttempts = 1
    Window = 2
    Comments = {c1, c2}
    Jobs = {1, 2, 3}
    Clicks = {c1, c2}
    Catalogues <- SomeCatalogues
    Filters <- SomeFilters
    PageSize = 1
    ShelfSize = 1
    Commas = {"folk, world"}
    MaxArtists = 1
    SEARCH_LIMIT = 1
    SalesInputs <- SomeSales
    MaxRows = 2
    MaxTextLength = 100
    OldestAge = 10000
    MaxPrice = 99999
    FenceRows = 5
    MediumRows = 3
    HighRows = 10
    HighDays = 180
    LowDays = 730
    FileInputs <- SomeFiles
    Header = 2
    MAX_IMAGE_BYTES = 3
    MAX_VIDEO_BYTES = 6
    MIN_WIDTH = 1200
    MIN_HEIGHT = 300
    MAX_SIDE = 8192
    MIN_VIDEO_WIDTH = 640
    MAX_VIDEO_SIDE = 3840
    MAX_DURATION_S = 60
    CacheBytes = 5
    RuleInputs <- SomeRules
    ReleaseInputs <- SomeReleases
    PerPage = 2
    RunoutInputs <- SomeRunouts
    BiographyInputs <- SomeBiographies
    DiscographyInputs <- SomeDiscographies
    BIO_MIN_CHARS = 6
    BIO_MAX_CHARS = 12
    MinRoom = 2
    WIKI_SUFFICIENT_CHARS = 8
    WIKIPEDIA_WEIGHT = 2
    DISCOGS_MIN_CHARS = 2
    DISCOGS_MIN_SENTENCES = 2
    MinPage = 2
SYMMETRY Symmetry
INVARIANTS
    DetailsHold EntriesStay LatestIsJoined CacheIsComplete StoredAsAsked
    OneAnimation FailuresAreBounded DecisionIsWhole OneJobRuns ListsAgree SalesHold
    FilesHold EnginesAgree SourcesHold
CHECK_DEADLOCK FALSE
