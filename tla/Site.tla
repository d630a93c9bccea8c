-------------------------------- MODULE Site --------------------------------
(***************************************************************************)
(* The parts of the site that do not share state, each by itself: a        *)
(* behaviour begins with the part that it is about, and the variables of   *)
(* the others have the value None.                                         *)
(***************************************************************************)
EXTENDS Integers, Sequences, FiniteSets

CONSTANTS
    None,
    Fields, Texts, Blank, Editors, MaxRequests, MaxSiteEdits,      \* Details
    Words, Spellings, Cap, Lists, Parts, Readings, Findings, Clients,  \* TokenColumns
    Visits,                                                        \* ArtistPages
    Requests, Changes, Uploads,                                    \* Background
    Names, Addresses, Attempts, MaxAttempts, Window,               \* Login
    Comments,                                                      \* Reviews, with Requests
    Jobs, Clicks                                                   \* CtlJobs

VARIABLES
    part,
    \* Details
    identifiers, collection, site, at, task, copy, base, found, result, todo,
    behind, pushed, late, moved, typed, raced, spent,
    \* TokenColumns
    genres, parsed, where, asked, loaded, chosen, entered, outdated,
    \* ArtistPages
    cached, fresh, registered, visit, lookup, answer, selected, newest, got, mishap,
    \* Background
    stored, objects, kept, saving, wanted, slips,
    \* Login
    failures, attempt, wrong, crowd,
    \* Reviews
    token, items, request, decided, crossed,
    \* CtlJobs
    job, proc, pump, click, owed

Details == INSTANCE Details WITH Null <- None
TokenColumns == INSTANCE TokenColumns
ArtistPages == INSTANCE ArtistPages WITH Nothing <- None
Background == INSTANCE Background
Login == INSTANCE Login
Reviews == INSTANCE Reviews
CtlJobs == INSTANCE CtlJobs

ASSUME SiteAssumption ==
    /\ Details!DetailsAssumption /\ TokenColumns!ColumnsAssumption
    /\ ArtistPages!PagesAssumption /\ Background!BackgroundAssumption
    /\ Login!LoginAssumption /\ Reviews!ReviewsAssumption

-----------------------------------------------------------------------------
detailVars ==
    <<identifiers, collection, site, at, task, copy, base, found, result, todo, behind, pushed,
      late, moved, typed, raced, spent>>
columnVars == <<genres, parsed, where, asked, loaded, chosen, entered, outdated>>
artistVars ==
    <<cached, fresh, registered, visit, lookup, answer, selected, newest, got, mishap>>
backgroundVars == <<stored, objects, kept, saving, wanted, slips>>
loginVars == <<failures, attempt, wrong, crowd>>
reviewVars == <<token, items, request, decided, crossed>>
ctlVars == <<job, proc, pump, click, owed>>
vars ==
    <<part, detailVars, columnVars, artistVars, backgroundVars, loginVars, reviewVars, ctlVars>>

\* The variables of a part that the behaviour is not about.
NoDetails ==
    /\ identifiers = None /\ collection = None /\ site = None /\ at = None /\ task = None
    /\ copy = None /\ base = None /\ found = None /\ result = None /\ todo = None
    /\ behind = None /\ pushed = None /\ late = None /\ moved = None /\ typed = None
    /\ raced = None /\ spent = None
NoColumns ==
    /\ genres = None /\ parsed = None /\ where = None /\ asked = None /\ loaded = None
    /\ chosen = None /\ entered = None /\ outdated = None
NoArtist ==
    /\ cached = None /\ fresh = None /\ registered = None /\ visit = None /\ lookup = None
    /\ answer = None /\ selected = None /\ newest = None /\ got = None /\ mishap = None
NoBackground ==
    /\ stored = None /\ objects = None /\ kept = None /\ saving = None /\ wanted = None
    /\ slips = None
NoLogin == failures = None /\ attempt = None /\ wrong = None /\ crowd = None
NoReview == token = None /\ items = None /\ request = None /\ decided = None /\ crossed = None
NoJob == job = None /\ proc = None /\ pump = None /\ click = None /\ owed = None

Init ==
    /\ part \in {"details", "columns", "artist", "background", "login", "review", "job"}
    /\ IF part = "details" THEN Details!Init ELSE NoDetails
    /\ IF part = "columns" THEN TokenColumns!Init ELSE NoColumns
    /\ IF part = "artist" THEN ArtistPages!Init ELSE NoArtist
    /\ IF part = "background" THEN Background!Init ELSE NoBackground
    /\ IF part = "login" THEN Login!Init ELSE NoLogin
    /\ IF part = "review" THEN Reviews!Init ELSE NoReview
    /\ IF part = "job" THEN CtlJobs!Init ELSE NoJob

Next ==
    \/ /\ part = "details" /\ Details!Next
       /\ UNCHANGED <<part, columnVars, artistVars, backgroundVars, loginVars, reviewVars, ctlVars>>
    \/ /\ part = "columns" /\ TokenColumns!Next
       /\ UNCHANGED <<part, detailVars, artistVars, backgroundVars, loginVars, reviewVars, ctlVars>>
    \/ /\ part = "artist" /\ ArtistPages!Next
       /\ UNCHANGED <<part, detailVars, columnVars, backgroundVars, loginVars, reviewVars, ctlVars>>
    \/ /\ part = "background" /\ Background!Next
       /\ UNCHANGED <<part, detailVars, columnVars, artistVars, loginVars, reviewVars, ctlVars>>
    \/ /\ part = "login" /\ Login!Next
       /\ UNCHANGED <<part, detailVars, columnVars, artistVars, backgroundVars, reviewVars,
                      ctlVars>>
    \/ /\ part = "review" /\ Reviews!Next
       /\ UNCHANGED <<part, detailVars, columnVars, artistVars, backgroundVars, loginVars, ctlVars>>
    \/ /\ part = "job" /\ CtlJobs!Next
       /\ UNCHANGED <<part, detailVars, columnVars, artistVars, backgroundVars, loginVars,
                      reviewVars>>

Spec == Init /\ [][Next]_vars

-----------------------------------------------------------------------------
\* Each invariant has the types of its part with it.

\* What an editor typed into the Discogs fields of a token is not lost to a refresh, and what
\* the row says that Discogs holds is what it holds, but for the changes that are named there
\* (web/discogs_details.py:112, ingestion/discogs_extras.py:347).
DetailsHold == part = "details" => Details!TypeOK /\ Details!EditsSurvive /\ Details!KnowsDiscogs

\* The genres and readings that a user chose last stay until a re-import or an analysis takes
\* their place, but for a request that had loaded the column before another one wrote it
\* (web/catalogue.py:3398, web/catalogue.py:4022, web/admin.py:1096).
EntriesStay == part = "columns" => TokenColumns!TypeOK /\ TokenColumns!EntriesStay

\* A request for a biography waits for the lookup that was started last (web/artists.py:392).
LatestIsJoined == part = "artist" => ArtistPages!TypeOK /\ ArtistPages!LatestIsJoined

\* What was looked up is in the row in the end, and picture and text go together, but for
\* inserts at once, failures and writes that overlap (web/artists.py:488).
CacheIsComplete == part = "artist" => ArtistPages!CacheIsComplete

\* The background is the one that the admins asked for, in their order, but for changes of a
\* copy that was outdated (web/background.py:404, web/background.py:636).
StoredAsAsked == part = "background" => Background!TypeOK /\ Background!StoredAsAsked

\* The two files of an animation are from one upload (web/background.py:598), and the files of
\* a setting are in the store.
OneAnimation == part = "background" => Background!OneAnimation

\* The failures of a name or an address are bounded by the threshold and by the attempts that
\* were past the check at once (web/auth.py:225).
FailuresAreBounded == part = "login" => Login!TypeOK /\ Login!FailuresAreBounded

\* A review item shows the last decision with its own comment (web/routes.py:608).
DecisionIsWhole == part = "review" => Reviews!TypeOK /\ Reviews!DecisionIsWhole

\* The control portal runs one job at a time and reports how it ended
\* (tools/ctl_portal/jobs.py:70).
OneJobRuns == part = "job" => CtlJobs!TypeOK /\ CtlJobs!OneJobRuns
=============================================================================
