------------------------------- MODULE Inputs -------------------------------
(***************************************************************************)
(* The parts of Site, and beside them the modules without variables: in a  *)
(* behaviour that is about one of those an input is picked, once.          *)
(***************************************************************************)
EXTENDS Site

CONSTANTS
    Catalogues, Filters, PageSize, ShelfSize, Commas, MaxArtists, SEARCH_LIMIT, \* Browse
    SalesInputs, MaxRows, MaxTextLength, OldestAge, MaxPrice, FenceRows,
    MediumRows, HighRows, HighDays, LowDays,                                    \* SalesHistory
    FileInputs, Header, MAX_IMAGE_BYTES, MAX_VIDEO_BYTES, MIN_WIDTH, MIN_HEIGHT, MAX_SIDE,
    MIN_VIDEO_WIDTH, MAX_VIDEO_SIDE, MAX_DURATION_S, CacheBytes,                \* BackgroundFiles
    RuleInputs,                                                                 \* Rules
    ReleaseInputs, PerPage, RunoutInputs, BiographyInputs, DiscographyInputs,   \* Releases
    BIO_MIN_CHARS, BIO_MAX_CHARS, MinRoom, WIKI_SUFFICIENT_CHARS, WIKIPEDIA_WEIGHT,
    DISCOGS_MIN_CHARS, DISCOGS_MIN_SENTENCES, MinPage                           \* Biography

VARIABLE input

Browse == INSTANCE Browse
SalesHistory == INSTANCE SalesHistory
Files == INSTANCE BackgroundFiles
Rules == INSTANCE Rules
Releases == INSTANCE Releases
Runouts == INSTANCE Runouts
Biography == INSTANCE Biography
Discography == INSTANCE Discography

SourceInputs == ReleaseInputs \cup RunoutInputs \cup BiographyInputs \cup DiscographyInputs

ASSUME InputsAssumption ==
    /\ Files!FilesAssumption
    /\ SalesHistory!SalesAssumption
    /\ Browse!BrowseAssumption
    /\ \A x \in Catalogues : Browse!IsCatalogue(x)
    /\ \A x \in Filters : Browse!IsFilter(x)
    /\ \A x \in FileInputs : Files!IsRequest(x)
    /\ \A x \in RuleInputs : Rules!IsFields(x)
    /\ \A x \in SalesInputs : SalesHistory!IsSale(x)
    /\ Biography!BiographyAssumption
    /\ Releases!ReleasesAssumption
    /\ \A x \in SourceInputs :
          /\ x[1] \in {"form", "scan"} => Releases!IsShelf(x[2]) /\ Releases!IsSources(x[3])
          /\ x[1] = "form" => Releases!IsTyped(x[5])
          /\ x[1] = "scan" => Releases!IsScanned(x[4])
          /\ x[1] = "world" => Biography!IsWorld(x[2])
          /\ x[1] = "text" => x[2] \in Seq(Biography!Paragraphs)

-----------------------------------------------------------------------------
AllInit ==
    /\ input = None
    /\ \/ Init
       \/ /\ part \in {"lists", "sales", "files", "rules", "sources"}
          /\ NoDetails /\ NoColumns /\ NoArtist /\ NoBackground /\ NoLogin /\ NoReview /\ NoJob

Pick ==
    /\ input = None
    /\ \/ part = "lists" /\ \E cat \in Catalogues, f \in Filters : input' = <<cat, f>>
       \/ part = "sales" /\ \E x \in SalesInputs : input' = x
       \/ part = "files" /\ \E x \in FileInputs : input' = x
       \/ part = "rules" /\ \E x \in RuleInputs : input' = x
       \/ part = "sources" /\ \E x \in SourceInputs : input' = x
    /\ UNCHANGED vars

AllNext == (Next /\ UNCHANGED input) \/ Pick

AllSpec == AllInit /\ [][AllNext]_<<vars, input>>

-----------------------------------------------------------------------------
\* The lists of the catalogue show what their counts, facets and links promise
\* (web/catalogue.py:537, web/catalogue.py:757).
ListsAgree == part = "lists" /\ input # None => Browse!ListsAgree(input[1], input[2])

\* A pasted sales history is read as it was written, and its statistics are those of the rows
\* that are no outliers (ingestion/discogs_sales_parser.py:312).
SalesHold ==
    part = "sales" /\ input # None =>
        /\ input[1] = "rows" => SalesHistory!StatisticsHold(input[2])
        /\ input[1] = "price" => SalesHistory!PricesRead(input[2])
        /\ input[1] = "text" => SalesHistory!ImportHolds(input[2], input[3])

\* An upload that is accepted can be shown, the boxes of a file lie in it, a range is within
\* the file and the cache within its size (web/background.py:183, web/background.py:508).
FilesHold == part = "files" /\ input # None => Files!FilesHold(input)

\* The local engine and the OPA bundle decide alike where both have a rule
\* (rules/local.py:55, deploy/opa/bundles/mediacat).
EnginesAgree == part = "rules" /\ input # None => Rules!EnginesAgree(input)

\* The form for a new token finds what is typed or scanned and says what is in the catalogue, and
\* the biography of an artist is the best that the sources have (web/catalogue.py:1004,
\* ingestion/artist_bio.py:577).
FormsHold ==
    part = "sources" /\ input # None =>
        /\ input[1] = "form" => Releases!FormHolds(input[2], input[3], input[4], input[5])
        /\ input[1] = "scan" => Releases!ScanHolds(input[2], input[3], input[4])
        /\ input[1] = "world" => Biography!ResolutionHolds(input[2])
        /\ input[1] = "text" => Biography!TrimHolds(input[2])

\* So much for the form and biographies; the readers of a release agree and lose none of its
\* runouts, and the discography of an artist is whole (ingestion/discogs.py:239,
\* ingestion/discogs_extras.py:122, web/artists.py:426).
SourcesHold ==
    /\ FormsHold
    /\ part = "sources" /\ input # None =>
          /\ input[1] = "read" => Releases!ReadersHold(input[2])
          /\ input[1] = "variants" => Runouts!VariantsHold(input[2], input[3])
          /\ input[1] = "sheet" => Runouts!SheetHolds(input[2])
          /\ input[1] = "discography" => Discography!DiscographyHolds(input[2], input[3], input[4])
=============================================================================
