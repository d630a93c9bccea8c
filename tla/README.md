# MediaCat in TLA+

A verification project for MediaCat, a catalogue of record pressings with a
FastAPI/HTMX front end, a PostgreSQL registry, a Redis job queue, an S3 object
store and connectors to Discogs, MusicBrainz, Wikipedia and Spotify. Source
paths below are relative to `src/mediacat/src/mediacat/` unless they start with
`src/`.

Everything runs in one asyncio process per service: the web server (whose
handlers and background tasks interleave at every `await`), a worker (a skeleton
in this version) and reapers of the queue. State is shared through the database,
through Redis, and through a few dictionaries in the memory of the web server.
That is where the hard behaviour is: values read before an `await` and used after
it, several transactions of different handlers on one row, a process that dies
between two steps, and in-memory state that disagrees with what is stored.

## Inventory

| Component | State | Operations | What is hard | What makes it correct |
|---|---|---|---|---|
| Job queue (`ingestion/queue.py`) | Redis lists pending, processing, dead; hash of start times | enqueue, dequeue, complete, fail, reap_stale | every operation is two to four Redis commands; workers and reapers race and die | no job disappears unnoticed; attempts bounded; every job is settled; limited duplication |
| Token registry (`web/catalogue.py`, `db/models.py`) | tokens, append-only token_revisions | create, import, edit, merge, OCR, correction, genres, sync, archive, delete | read-modify-write over `await`s, autoflush and row locks, unique numbers | contiguous numbering, append-only history, writes ordered as numbered, merges complete |
| Housekeeping (`web/admin.py`) | the same rows | bulk delete, recover, purge | purging a row a handler has loaded | no revision without token, no half-done write |
| Collection import (`web/admin.py`) | job rows, `_stop_flags`, `_import_tasks` | start, pause, resume, `_run_import`, zombie check | overlapping tasks of one job, restarts, flags removed by the wrong task | resuming skips nothing, completion is complete, jobs settle |
| Users and login (`web/routes.py`, `web/auth.py`, `web/admin.py`) | users table, in-memory mirror, login limiter, sessions | register, create, edit, deactivate, activate, login | check-then-write of the last administrator; two copies of each user | an active administrator remains; the copies agree |
| Connectors (`ingestion/base.py` and subclasses) | token bucket, circuit breaker, HTTP client | acquire, `_request` with retries | waiting callers, time, breaker changing under way | the rate is kept; an open breaker stops requests |
| Media objects (`storage/object_store.py`, `web/catalogue.py`) | objects, media rows, primary cover flag | upload, import, delete, set cover | two stores written one after the other | no row without object; one primary cover |
| Review queue (`web/routes.py`) | review items | flag, approve, reject | no check of the status | an item shows its last decision as a whole |
| Artist pages (`web/artists.py`) | running lookups, bio and discography caches | info, discography, refresh | joining a running lookup; two caches in one row | one lookup at a time; no lost cache |
| Discogs details (`web/discogs_details.py`) | `Token.extra` | refresh, write-back, save | JSON rewritten as a whole by several flows | no lost section |
| Page background (`web/background.py`) | setting, its cache, objects | upload, mode, fit, reset | read-modify-write with an upload in between | setting names stored objects |
| Sales history, valuation (`ingestion/`) | import rows | parse, confirm, confidence | numeric boundaries | bounded, monotone confidence |
| Catalogue lists (`web/catalogue.py`, `web/routes.py`) | none of their own | browse, filter, page, drill down, search, dashboard | several queries that must agree | counts, links and lists say the same |
| Release readers, biography and discography sources (`ingestion/`) | none of their own | prefill, scan, map, group, resolve | sources that fail or answer something else, two readers of the same data | what is typed is found, nothing is lost |
| Rules (`rules/`) | none that lasts | evaluate, fall back | the same rules by hand in two places | both engines decide alike |
| LLM adapters, vision (`llm/`, `vision/`) | none that lasts | adapt, fall back | no caller, or one fallback | |
| Control portal (`src/mediacat/tools/ctl_portal/`) | one job slot, its log | start, pump, cancel | threads | one job at a time |
| Backup, print sheet, audit, logging, configuration, deployment, migrations | files, none | | | not modelled, see the end |

## Modules

| Module | Models | Note |
|---|---|---|
| `JobQueue` | `ingestion/queue.py` | one action per Redis command |
| `JobQueueProofs` | | types, conservation of jobs and the bound on duplicates, proved |
| `RevisionLog` | the promise of `TokenRevision` | abstract: a log per token that only grows until the token is purged |
| `TokenRegistry` | the write handlers of `web/catalogue.py`, `web/admin.py` | implements `RevisionLog` |
| `TokenRegistryProofs` | | numbers, types, merges, writers, rows and their logs, and that `RevisionLog` is implemented, proved |
| `CollectionImport` | the import handlers and task of `web/admin.py` | |
| `CollectionImportProofs` | | nothing jumped over, nothing twice, progress kept, proved |
| `RateLimiter` | the token bucket of `ingestion/base.py` | |
| `Connector` | circuit breaker and `_request` of `ingestion/base.py` | built on `RateLimiter`, and implements it |
| `ConnectorProofs` | | the rate kept and the load shed, proved |
| `Users` | user administration in `web/routes.py`, `web/admin.py` | rows and the in-memory mirror |
| `UsersProofs` | | the rule of the last administrator, and the mirror, proved |
| `Media` | the image handlers of `web/catalogue.py` over `storage/object_store.py` | rows, cover flag and objects |
| `MediaProofs` | | objects before rows, the cover chosen, sources that are distinct, proved |
| `TokenColumns` | genres and matrix parts in `web/catalogue.py`, re-import in `web/admin.py` | JSON columns rewritten as a whole, word by word |
| `Details` | `web/discogs_details.py`, `ingestion/discogs_extras.py`, extras of an import | the column `extra`, and what Discogs holds |
| `Background` | the setting of `web/background.py` | row, cache, objects |
| `ArtistPages` | `web/artists.py` | running lookups and the row of an artist |
| `Login` | `web/auth.py`, `login_submit` | two limiters |
| `Reviews` | the review queue of `web/routes.py`, `flag_for_review` | |
| `CtlJobs` | `src/mediacat/tools/ctl_portal/jobs.py` | threads and processes |
| `Site` | | puts the seven modules from `TokenColumns` to `CtlJobs` side by side |
| `SiteProofs` | | what `Site` says of each of the seven, proved |
| `Browse` | lists, facets, paging, search of `web/catalogue.py`, `web/routes.py`, `web/artists.py` | functions |
| `Releases` | the form for a new pressing, the cover scan, readers of releases | functions |
| `Runouts` | `parse_discogs_extras` and the album sheet | functions |
| `Biography` | `ingestion/artist_bio.py`, `ingestion/wikipedia.py` | functions |
| `Discography` | `web/artists.py`, `ingestion/spotify.py`, `ingestion/wikipedia.py` | functions |
| `SalesHistory` | `ingestion/discogs_sales_parser.py`, `valuation_confidence.py` and the confirmation | functions |
| `BackgroundFiles` | uploads, boxes, ranges and file cache of `web/background.py` | functions |
| `Inputs` | | `Site`, and beside it the functions from `Browse` to `Rules` with inputs |
| `Rules` | `rules/`, the OPA bundle | functions |
| `InputsProofs` | | what `Browse`, `BackgroundFiles`, `SalesHistory`, `Rules` and `Biography` say of inputs of any size, proved, and the form and the scan of `Releases` |
| `MC...` | | constants, symmetry for TLC; `MCSite` gives the inputs of `Inputs` |

Operators whose comment begins "A mistake of ..." are wrong variants of the
definition that follows them. Nothing uses them in the specifications; replacing
the definition by its variant must break a property, which shows that the
property says something about the code.

### JobQueue

`pending`, `processing`, `dead` and `times` are the three lists and the hash. A
message is a job id with its attempt counter, which is all that distinguishes
two serialisations of a job here; `processing` is a bag, because LREM removes by
value. Each worker and reaper has a program counter between two Redis commands:
`Move` and `Stamp` are the two halves of dequeue(), `Complete`/`Forget` of
complete(), `Fail`/`FailForget`/`FailPush` of fail(), and `Snapshot`, `Judge`,
`Reap`, `ReapForget`, `ReapPush`, `ReapEnd` of reap_stale(). Workers and reapers
die at any of them (`CrashWorker`, `CrashReaper`), and an error in one round of
the reaper's loop goes on with the next item (`ReapError`). Time is counted in
ticks up to one past the stale limit: what matters is whether an age exceeds it.
`acked` and `dropped` are history variables. The worker of the source
(`worker.py`) is a skeleton, so a worker here does whatever the interface allows,
running one job at a time.

### TokenRegistry and RevisionLog

A request is one transaction, and each request runs once. `Load` is the SELECT
together with the assignments that follow (they touch the request's own object
only); `Flush` is the UPDATE that autoflush emits before the next query, taking
the row's lock; `Count` the `select(func.count())`; `Commit` the INSERT of the
revision and the COMMIT; `Conflict` the violated unique constraint; `Save` the
commit of handlers that write no revision; `Vanish` what happens when the token
was purged; `Fail` a rollback at any point. PostgreSQL is modelled as documented
at READ COMMITTED: changed columns only, row locks until the end of the
transaction, nothing visible before COMMIT. Columns: `status`, `deleted`,
`country_id`, one plain text (`matrix_runout`), the JSON column of the parsed
matrix, `genres`, `current_revision_id`; side B and the other form fields behave
as side A's text does. A revision records number, source and data, and three
history fields the properties need.

`RevisionLog` says what history is supposed to be. The refinement mapping takes
the revisions of a token, in the order of their numbers, as its log; that it is a
function at all is what `ContiguousNumbers` says.

### CollectionImport

A run is one start or resume request with the task it launches. `Start`/`Resume`
commit the row, `Launch` registers the stop event and creates the task; then
`Begin`, `LoadProgress`, and for each page `PageTop`, `Fetch` or `FetchFails`, for
each release `StopAtRelease`, `BadRelease`, `Skip`, `LookUp` with `ImportRelease`
or `ImportFails`, then `GiveUp` or `PageEnd`, and `CompleteImport`, `Blow` (the
outer `except`) and `Close` (the `finally`). `Pause` sets the event, `PauseRow`
writes the row. `View`, `MarkZombie` and `SpareActive` are the check on the import
page. `Restart` loses all tasks, flags and handlers and keeps the rows. A write of
the row by `_mark` may fail and is then ignored, as in the code. Skipped and
failed counters are not kept: no decision depends on them.

### RateLimiter and Connector

Time is counted in ticks and tokens of the bucket in the ticks they take to
accrue, so that the arithmetic of `acquire` is in whole numbers. The limiter's
lock is held across one `await`, the sleep: `TakeToken` is an `acquire` that finds
a token, `StartWait` and `FinishWait` are the two halves of one that sleeps.
`Elapse` lets a tick pass; a sleep may last longer than asked for, never shorter.
`meter` is an observer, a bucket that fills at twice the rate and from which each
request let through is taken.

`Connector` extends `RateLimiter` and adds the breaker (`failures`, `opened`, the
time since `_opened_at`) and, for each caller, where it is in `_request`: `Reject`
and `Begin` are its first lines, `Pass`, `Wait` and `PassLate` the acquisition,
`Succeed`, `Throttled` (429) and `Fail` what the server's answer leads to, `Retry`
the next round of the loop. `late` is a history variable: what a caller has sent
while the breaker was open. No connector is shared in this version of the server
(every handler and import makes its own), but the class is built to be: it has a
lock. One caller is the special case.

### Users

`row` is the users table by name, `mem` the dictionary `_users_store`. A request
goes from one `await` to the next: `StartCreate`, `Insert`, `MirrorNew` are the
three handlers that create an account; `StartChange`, `Load`, `CountAdmins`,
`Update`, `Mirror` those that edit, deactivate or activate one. Any statement may
fail, and the handlers then go on without the database. `Restart` loses the
store. The store writes ids without dashes and the database with them, so the
lookup in the store succeeds only for ids that a page took from the store
(`plain`). `behind` and `odd` are history: which requests act on what they read
before another one wrote, and which unusual thing has happened so far. The
properties are stated up to those, so each shows that nothing else can go wrong.

### Media

One pressing. `row` is its part of `media_objects` by content (`row[c]` is None or
the row with that content hash: the unique constraint of the table), `stored` the
contents of the object store. A request is an upload (`StoreUpload`,
`InsertUpload`), an import of a list of images (`Select`, then `Skip` or `Fetch`
for each, then `CommitImport`), a choice of the cover (`Select`, `SaveCover`), a
deletion (`FindDeleted`, `Remove`) or an analysis (`FindAnalysed`, `Record`).
`loaded` is what its SELECT returned, `adding` the rows it has added to its session. A
choice of the cover assigns the flag of every loaded image, and SQLAlchemy writes
those that changed (`ToFlag`), without looking at how many of several are still
there. `FindDeleted` includes the first statement of the flush: it sets the foreign
key of the image's OCR results to NULL, which fails if there are any. `chosen` is
history, the image last made the cover; so are `behind` (requests since whose
SELECT another one has written covers) and `odd` (what has happened that excuses
a wrong cover).

### TokenColumns, Details, Background

The three have one shape: a value is loaded, changed and written as a whole, with
`await`s in between and no lock. In `TokenColumns` a request loads the row and
stores one column, if it changed it; `outdated` are requests whose column was written by
another one since. `chosen` is the list of genres that was last set as a whole, by a save
or by a re-import of the collection, which overwrites what the user chose
(`web/admin.py:1125`), and `entered` what was last entered or found for each part of the
matrix number: applying an analysis replaces all parts, the corrected ones included, also
by "not read" (`web/catalogue.py:3248`). These two writers are meant to replace, so
`EntriesStay` starts afresh from what they wrote; imports, syncs and corrections are meant
to keep, and it says that they do. In `Details` the column
`extra` has the release's identifiers and, for each field of the user's collection,
MediaCat's value and the last one known to be on Discogs (`site` is what is there in
truth, and changes by itself in `EditOnSite`); refresh, write-back, save and import
fetch, push field by field and store, and may fail after each. In `Background` a
change is made to the copy in the cache (`kept`), files are stored before the setting,
and the cache is filled by pages while a change is saved. `typed`, `moved`, `late`,
`slips`, `raced` are history: which unusual thing excuses a lost change. The
properties say that nothing else loses one.

### ArtistPages, Login, Reviews, CtlJobs

`ArtistPages`: a visit looks in the cache, joins the registered lookup or starts one
(`lookup` is a task of its own, which goes on when the visit leaves), and fetches the
discography itself; both write the one row. `Login`: `attempt` is where each request
is between the two checks and the two records; failures are kept with their age;
`crowd` counts how many attempts were past a check at once. `Reviews`: an item is
flagged, loaded by a decision and saved with the columns that differ, while the token
is deleted, recovered or purged. `CtlJobs`: `Begin` and `Launch` are the two halves of
`start`, `Wait`, `Look` and `Settle` those of the reading thread, `AskCancel`, `Mark`
and `Kill` those of `cancel`; a process may end at any time, also before the signal.

### Functions of their inputs

`Browse`, `Releases`, `Runouts`, `Biography`, `Discography`, `SalesHistory`,
`BackgroundFiles` and `Rules` have no variables. What a handler or a parser computes
is an operator of its input, and the property relates operators that are computed in
different places, or one of them to what it promises: the count of a facet to the
list behind its link, a reader of releases to the other one, a text pasted twice to
the text pasted once, the Python rules to the OPA tables (all thousand prefixes of a
barcode). Data is reduced to what decides: a title is a word in a spelling, a text
its length and the positions at which it may be cut, a service what it would answer
to each question, None when it fails.

Where the code cuts a list off, so does the model, and what was cut is open where the
order leaves it open. `Browse` has the text of a list twice: the facets search for it
without the blanks at its ends, the lists for it as it was typed (`web/catalogue.py:557`,
`web/catalogue.py:820`), so a blank makes a facet promise more than its link shows. The
search shows `MaxArtists` (50) artists and `SEARCH_LIMIT` (100) pressings; beyond that the
panels say that there are more albums, and the flat list chooses its pressings by title and
sorts those by artist (`web/routes.py:1452`, `web/routes.py:1588`), so that it is not the
first of what it is a list of, and the artists panel says nothing of those it leaves out. In
`Releases` a barcode finds one page of `PerPage` (10) releases, whichever Discogs puts on
it, and the form reads as tracks all titled entries of a tracklist, headings included, which
the connector leaves out (`web/catalogue.py:1819`, `ingestion/discogs.py:378`): `ReadersHold`
says that the two count the same exactly when the entries with a title are those that are
no headings.

## Runs

| Run | Expectation | Checks |
|---|---|---|
| `JobQueue_safety` | pass | `AttemptsAreMade`, `JobConservation`, `BoundedDuplication` |
| `JobQueue_liveness` | pass | `EventuallySettled`, `EventuallyDrained` |
| `TokenRegistry_history` | pass | `ContiguousNumbers`, `RowReplaysLog`, `MergedIsNamed`, `WritersNeverConflict`, `HistoryIsAppendOnly` |
| `TokenRegistry_requests` | pass | `EveryRequestEnds` |
| `CollectionImport_safety` | pass | `ResumeSkipsNothing`, `CompletionIsComplete`, `DuplicatesNeedOverlap`, `FlagsMatchTasks`, `ProgressKept` |
| `CollectionImport_liveness` | pass | `JobsSettle` |
| `CollectionImport_zombie` | violation | `ZombieHasNoTask` |
| `Connector_requests` | pass | `LoadIsShed`, `RateKept`, `EveryRequestEnds`, `BreakerRecovers` |
| `Users_accounts` | pass | `AdminRemains`, `MirrorFollows` |
| `Media_images` | pass | `RowsHaveObjects`, `CoverIsChosen`, `SourcesAreDistinct` |
| `Media_deletion` | violation | `DeletionsSucceed` |
| `Site` | pass | one or two for each part: `EntriesStay`, `DetailsHold`, `StoredAsAsked`, `OneAnimation`, `LatestIsJoined`, `CacheIsComplete`, `FailuresAreBounded`, `DecisionIsWhole`, `OneJobRuns`, `ListsAgree`, `SalesHold`, `FilesHold`, `EnginesAgree`, `SourcesHold` |

The run `Site` explores twelve parts that share no state with each other: a behaviour
begins with one of them and stays in it, the variables of the others being None, so that
the states are the sum of the parts and not their product. Seven are processes; they are
the module `Site`. `Inputs` adds the other five (lists, sales, files, rules, sources), in
which the one step picks an input, and the invariant is about it; the inputs are constants,
which `MCSite` defines. `SourcesHold`, of which `FormsHold` is a part, covers `Releases`, `Runouts`, `Biography` and
`Discography`. What each part promises is in the comment of the definition of that name
in its module.

Types are part of another property of each module's run (`EveryRequestEnds` of the
registry and the connector, `FlagsMatchTasks`, `MirrorFollows`, those of `Site`); of the
queue, the registry, the import, the accounts, the images and the parts of `Site` they are
proved.

### Bounds

* JobQueue: one job (jobs share nothing but the order of the pending list), two
  workers and two reapers (any race here is between two of them), two attempts
  (one retry, one burial), a stale limit of zero ticks (just taken, and stale).
* TokenRegistry: two tokens (a merge needs two), four requests over the kinds
  that write revisions (two to create, two to race), three over all kinds, one
  value besides Null, one key of the parsed column.
* CollectionImport: one job, two runs (the hazards need two tasks of one job),
  two pages with one and two releases, two failures in a row, one pause. The
  liveness run has one release.
* Connector: two callers (one waits or backs off while the other goes on), two
  attempts, two failures to open, two ticks for a token, for the longest pause and
  for the recovery; an answer 429 asks for no pause or one that is cut short.
* Users: three names of which two are administrators (the last of two is the
  interesting one), three requests: two that race and one that creates or undoes.
* Media: three images, three requests (two that race and one between them), two
  addresses and two lists to import: a cover with another image, and a list that
  names its cover twice.

* Site: two requests on a token's columns or details (any undone entry is between
  two), three where a third comes between two others (visits of an artist, changes of
  the background, decisions, logins), two fields of a collection and one edit on
  Discogs, three jobs of the control panel, so that one runs beside a cancelled one.
  A threshold of one failure and a window of two ticks. Catalogues of three tokens of
  two artists in every combination of live, archived, untitled and cleared; pages of
  one entry, so that every list has several, texts with and without a blank that matters, and
  a search that shows one artist and one pressing, so that three tokens are below, at and
  beyond its limits. Two releases to a page of a search and up to three that match. Histories of up to twelve sales at three
  prices with the last one on both sides of each tier. Up to three uploaded files, boxes
  or identifiers, and up to five files served in turn. Names with every combination of
  links, pages and failing services, but a wrong answer of the model only where it is
  asked. Lengths and sizes are scaled down to a few units where only the comparison
  with a limit matters; thresholds that interact are kept in their order.

### Fairness

* JobQueue: a worker that started takes its next step or dies; some idle worker
  takes a pending message; reapers go on making rounds, and as they may die in
  any round, each of their steps is taken if it is enabled again and again
  (strong fairness: it does not die at the same point every time); time passes.
* TokenRegistry: a request that has begun goes on. Nothing is assumed about who
  gets a lock first. A handler that holds a lock waits for nothing, so this is the
  scheduler's and the database's ordinary progress.
* CollectionImport: the event loop runs tasks and handlers that can go on, and
  an administrator opens the import page again and again. The last is an
  assumption about people; without it a job that a restart orphaned stays
  "running", since nothing else looks for it.
* Connector: time passes, a request sent is answered or times out, a sleep ends
  and the loop goes on (all weak). The limiter's lock goes to whoever waited
  longest, as `asyncio.Lock` does: strong fairness of each caller's acquisition,
  which is disabled again and again while others hold the lock.
* Users, Media and the parts of Site have no liveness property.

The runs of CollectionImport, Users, Media and Site switch deadlock checking off: when all
requests are used up and every task or handler has ended the system has nothing left to do. TokenRegistry has an
explicit `Finished` step, and JobQueue never stops (time passes).

## What was found

The two violation runs are disagreements between the code and what it says of
itself. These and nineteen more that were met while modelling are quoted in
PROJECT.json with what the code says and where. In short, with the property that
leaves the case out:

* queue: a crash between LREM and LPUSH loses the job (`JobConservation` counts it as
  dropped), although "the job remains in the processing queue for recovery";
* import: the page takes a live job for a zombie (`CollectionImport_zombie`); images:
  the deletion of an analysed one fails (`Media_deletion`);
* lists (`ListsAgree`): cleared genres are a JSON null on which the facets fail, a
  genre with a comma has a link that shows nothing, so has an album without a title;
  the pressings counted for an album of the artist page are always one; a facet counts
  what is found without the blanks at the ends of a text, its link does not;
* pressings: `auto` prefers MusicBrainz's tracks to those of Discogs, a reassigned
  region queues no analysis, the facets endpoint refuses everybody;
* sessions: a user's timeout beyond a day has no effect;
* valuation (`SalesHold`): a sale of exactly 730 days is old;
* rules (`EnginesAgree`): every match counts, not the first, and a 12-digit code is
  decoded like one of 13;
* form and scan (`SourcesHold`): digits of unusual length open an unrelated release,
  two live tokens of a release make the form fail, and headings become tracks;
* biography (`SourcesHold`): MusicBrainz is said to list no article when it lists one
  that cannot be read, and a text may be a character too long;
* background (`FilesHold`): the built-in video is shown with the ratio of an image.

More that the models contain and no finding quotes:

* Between BLMOVE and HSET a job has no start time, and the reaper falls back to
  the time of its creation: a job that waited long is reaped the moment it is taken
  (`ingestion/queue.py:166`), against "so age is measured from processing start, not
  creation" (`ingestion/queue.py:34-35`).
* Two edits that loaded a token before either wrote leave a newest revision that
  lacks the other's change: its data is taken from the request's own copy
  (`web/catalogue.py:2795`), although it "holds the complete attribute set at that
  point in time" (`db/models.py:418-419`). `RowReplaysLog` says what does hold.
* `current_revision_id` is assigned from an id that is None before the flush
  (`web/catalogue.py:1268, 1610, 2800`); the pointer never points at a revision.
* Merging A into B and B into A leaves both `merged` (`web/catalogue.py:1595`: the
  winner's status is not looked at).
* Corrections of two fields of the parsed matrix undo each other
  (`web/catalogue.py:3398`), and a sync may overwrite genres saved meanwhile
  (`web/catalogue.py:4022`): a JSON column is rewritten from a copy.
* A re-import changes tokens without a revision (`web/admin.py:1126`), against
  "Every change creates a new `TokenRevision`" (`src/mediacat/README.md:87`).
* A resume while the old task still runs makes two tasks and possibly two tokens
  of one release (`web/admin.py:698`); `DuplicatesNeedOverlap` shows that this is
  the only way.
* A job that completes while the import page works through its list is marked as
  aborted (`web/admin.py:146`).
* A resumed run that fails before loading its row stores an imported count of
  zero (`web/admin.py:1244`), and `last_page` is the page a run stopped on rather
  than "which Discogs collection page we last completed" (`db/models.py:801`).
* The rate limiter lets through about twice the "Maximum requests per period"
  (`ingestion/base.py:86`): after a sleep the tokens are zero but `_last_refill` is
  the beginning of the sleep, so the next caller is credited that time again
  (`ingestion/base.py:102-111`). With a meter that fills at the rate itself,
  `RateKept` is violated by three callers in a row; twice the rate is kept.
* A request that failed while the breaker was open renews its recovery time, and
  one that succeeded closes it early (`ingestion/base.py:143-150`), because only
  the first attempt asks the breaker (`ingestion/base.py:279`).
* Two administrators that are demoted or deactivated at the same time leave none
  (`web/routes.py:1035, 1126`), against "Blocked if this would leave zero active
  admins" (`web/routes.py:1091`); and a deactivation whose lookup fails checks
  nothing (`web/routes.py:1116-1126`).
* A change made from a page that listed the database never reaches the store: the
  ids are compared as text, with dashes and without (`web/routes.py:1079, 1148`).
  Login asks the store first (`web/routes.py:218`).
* An INSERT that did nothing because the name or the e-mail address was taken in
  the meantime still makes an entry of the store (`web/routes.py:896`,
  `web/admin.py:360`), whose password then works until a restart.
* Two overlapping choices of a cover may leave two covers, since each writes only
  the flags that it saw differ (`web/catalogue.py:3326`), against "clear the flag
  on all others" (`web/catalogue.py:3313`); a choice of an image deleted meanwhile
  leaves none. `CoverIsChosen` shows that nothing else does.

## Theorems

`JobQueueProofs`

* `TypeCorrect`: `Spec => []TypeOK`. Inductive with `OnlyLiveHandled`: a message
  being handled has an attempt left only because the lists hold no others, and its
  successor is well-typed only because it has one left.
* `AttemptsAreCounted`: `Spec => []AttemptsAreMade`. `Counted` is inductive with the
  types: the attempts below that of any message, pending, dead or in hand, were given to
  workers, and a message was itself given to one wherever only `BLMOVE` can have brought
  it: in the processing list, in the snapshot of a reaper, in a client's hands.
* `ConservationOfJobs`: `Spec => []JobConservation`. Each step either leaves every
  place a job may be in alone, or moves a message from one to the next; the proof
  has one case per action, and cites `TypeCorrect`.
* `DuplicationIsBounded`: `Spec => []BoundedDuplication`, for any number of reapers and
  attempts. What has been pushed on is not in the state, so the inductive invariant
  `Accounted` says that there are counts of it: how often the workers have pushed on a
  message of each attempt, and how often each reaper has. Of an attempt no more has
  arrived than the attempt before was pushed on (`Arrived`), and what has arrived and no
  longer waits bounds three things (`Within`): what is processing; what workers have pushed
  on and those who hold it; and for each reaper what it has pushed on, holds, and may go on
  to reap, which is what it finds processing, has seen there or has on its list (`Claims`).
  A step that neither pushes nor takes from the pending list is `Quiet`: it raises none of
  these, since a reaper that finds less than it has seen has at most removed one more.
  A push raises one count and what arrives of the next attempt. `ArrivedIsBounded` then
  goes up the attempts, by least counterexample: each was pushed on at most once by its
  worker and once by every reaper for each message that had arrived.

`TokenRegistryProofs`, for any number of tokens, requests and values

* `NumbersAreContiguous`: `Spec => []ContiguousNumbers`. ContiguousNumbers is not
  inductive: the count a request has read may be out of date when it commits. The
  inductive invariant `Numbering` adds that a count read is at most the number of
  revisions as long as the token is stored (`Counted`): then either the number is taken
  and the commit conflicts, or it is the next one. It also needs that unused ids have no
  revisions and that sets of revisions are finite.
* `RegistryTypeCorrect`: `Spec => []TypeOK`. What a request carries depends on where it
  is: the inductive invariant `Registry` says it of each label (`Sessions`, with
  `SessionOf`), of what is in the rows and revisions (`Stored`), and that a request which
  has flushed an update holds the lock of the row (`Locks`). The other theorems rest on
  `Registry` and `Numbering`.
* `MergesAreNamed`: `Spec => []MergedIsNamed`. It needs of a session that it marks a row
  as merged only when it writes the log of another token, and before it writes it.
* `WritersDoNotConflict`: `Spec => WritersNeverConflict`, an action property. `NothingLost`
  says that since a writer counted, its row locked, no other has committed a change of
  that row, for two that did would hold one lock (`WritersDiffer`).
* `RowsReplayTheirLogs`: `Spec => []RowReplaysLog`, for the operations of `OnlyAuthors`:
  a re-import, a sync and a collection import change the logged columns without a
  revision, and with them it is false (that is one of the findings). `Replaying` says that
  a column has the value of some revision that is the newest to change it, and `Distinct`
  that there is one such.
* `RegistryImplementsRevisionLog`: `Spec => HistoryIsAppendOnly`, the refinement.
  `StepKinds` sorts the steps: they insert a token, commit a revision, purge, or leave
  tokens and revisions alone but for columns. `LogGrows` says that a revision with the next
  number makes the log that is read off the revisions one longer, which takes
  `NumbersAreContiguous`. `HistoryIs` spells the abstract actions out, and `StepRefines` puts
  them together: insert and commit are `Revise` (or nothing, for a token that begins
  without a revision), purge is `Purge`, the rest stutters.

`CollectionImportProofs`

* `NothingIsSkipped`, `CompletedIsComplete`: `Spec => []ResumeSkipsNothing` and
  `Spec => []CompletionIsComplete`, for any collection and any number of jobs, runs
  and restarts, overlapping or not. The row says nothing of what a run still has
  to do, so the invariant `Covered` says of every run at work that all pages before
  its own are handled, and that what is left of its own is in `todo` or being
  imported. `Progress` says what a step may do to a row: keep its page, or take that
  of a run at work, so that the row inherits what the run has behind it.
* `FlagsNameTasks`, `OneTaskNoDuplicates`: `Spec => []FlagsMatchTasks` and
  `Spec => []DuplicatesNeedOverlap`. The invariant `Reached` holds the first two parts
  of `FlagsMatchTasks` and, as long as tasks have not overlapped, that there is one
  task at most (`Alone`), that its page is not behind that of its row, and that a
  release it is about to insert is not in the catalogue.
* `ProgressIsKept`: `Spec => ProgressKept`, from `Progress` and `Reached`.

`ConnectorProofs`

* `UsesLimiter`: `Spec => LimiterSpec`. Every step of the connector is a step of
  the limiter or leaves its variables alone, so what is shown of the limiter holds
  of the connector.
* `RateIsKept`: `Spec => []RateKept`, for any rate and interval. The inductive
  invariant relates the meter to the bucket: it holds at least what the bucket and
  the time not yet credited amount to, plus the part of a sleep that will be
  credited twice. Proved of the limiter, and of the connector by `UsesLimiter`.
* `OpenBreakerShedsLoad`: `Spec => []LoadIsShed`, for any number of callers,
  attempts and threshold. A caller that is making a request has sent at most its
  attempts so far; one that is idle cannot begin while the breaker is open.

`UsersProofs`

* `AnAdminRemains`: `Spec => []AdminRemains`, for any number of accounts and
  requests. A request that is about to update has made up its mind, so the
  inductive invariant `Guarded` says of each such request that its update would
  leave an administrator, as long as nobody wrote since it began. For a request
  that counted two administrators that takes that an id stands for one account.
* `TheMirrorFollows`: `Spec => []MirrorFollows`. While requests are under way the store
  lags behind the rows, so the inductive invariant `Following` says of each account that
  differs that a request is about to write just what its row holds (`Closes`), unless
  another has written since, and of such a request that the row is as it wrote it
  (`Wrote`).

`MediaProofs`

* `TypeCorrect`: `Spec => []TypeOK`. Inductive with what the program counters say of
  the local variables (`Typed`): what is loaded is a set of rows, a request that saves
  or inserts has something to save.
* `RowsAreBacked`: `Spec => []RowsHaveObjects`. The inductive invariant `Backed`
  adds that what a request is about to insert has been stored.
* `ChosenCoverStays`: `Spec => []CoverIsChosen`, for any number of requests, images and
  lists. The inductive invariant `Followed` says that what a request has selected
  still tells where the flag is, unless another request has written flags since
  (`SelectedIsCurrent`); that an import adds one cover at most, and that only if it
  saw none (`AddsOneCover`); and that the id of a row belongs to a request that has
  ended (`IdsAreUsed`), without which a row that came after the SELECT could be
  taken for one that was selected. Two lemmas say what steps that take rows away
  and steps that bring rows do to the invariant; each action is an instance of one.
* `SourcesStayDistinct`: `Spec => []SourcesAreDistinct`. The invariant `Sourced` says that
  an import adds no address twice and none that it selected (`Listed`), that what it
  selected tells the address of each such row that is still there (`Known`), and of each
  row that the one that inserted it saw no other with its address (`OwnSource`).

`SiteProofs`: a theorem says of a behaviour of `Site` what holds in the part that it is
about. For each part there is an inductive invariant, a lemma that the part's initial
states have it, and a lemma that its steps keep it.

* `OneJobAtATime`: `Spec => []OneJobRuns`. `JobReached` says what has happened before each
  point of a thread: a job is owed a process only while it runs and has none, its thread
  settles only once the process has gone by itself, and a signal goes only to a job that
  was marked.
* `LastDecisionShown`: `Spec => []DecisionIsWhole`. `ReviewWhole` adds that what a decision
  has loaded is what the item still shows unless another decision saved meanwhile
  (`DecidersInformed`), since it is the difference to that copy that is written; and that
  an item exists before it is decided on (`ItemsCreated`).
* `RequestsJoinTheLatest` and `LookupsAreCached`: `Spec => []LatestIsJoined` and
  `Spec => []CacheIsComplete`. `PagesHold` says who registered last, that what was looked up
  and is not in the row yet is on its way there (`OnItsWay`), and that the picture is from
  the page of the biography unless two stored at once (`PictureFits`).
* `SettingIsAsAsked` and `BrowsersShowOneAnimation`: `Spec => []StoredAsAsked` and
  `Spec => []OneAnimation`. `BackgroundHolds` says of every copy of the setting, stored,
  cached or in the hands of a request, that its files are in the object store and of one
  upload (`AllShowable`), and that as long as nothing has slipped the copies are equal to
  what is stored (`OneAdmin`).
* `LockoutHolds`: `Spec => []FailuresAreBounded`, for any number of attempts, names and
  addresses, also infinitely many. `FewCounted` bounds the failures of a key together with
  the attempts that are past its check, which is what a check compares; `WrongsKnown`
  says of every failure that it is one or the other. The proof counts: sets are compared
  by injections and surjections.
* `EditsAreNotLost`: `Spec => []DetailsHold`. `RequestsKnow` has two halves: what a request
  takes for the values on Discogs is there but for what has changed since (`InSight`), and
  a request behind which nobody has stored has what is stored and, once it has computed a
  result, leaves in it the entries that are still to be pushed (`UpToDate`).
  `EditsPending` says that an edit is one of those until it is pushed.
* `ChoicesStay`: `Spec => []EntriesStay`. `LoadedIsThere` says of a request that is not
  outdated that the column it is going to write is the one it loaded. That no import
  brings a genre in twice is a fact about the recursive function of `AddGenres`, over lists
  of any length: `AdditionsExist` shows that there is such a function and
  `AddGenresEffect` what it makes. Both are by least counterexample (`LeastNumber`, from
  the library's theorem that the order of the numbers is well-founded), as induction
  over a predicate is not to be had.

`InputsProofs`, about functions:

* `FilesAreHandled`: `AllSpec => []FilesHold`, whatever requests `FileInputs` holds: uploads of
  any files, ranges of any file, box headers of any sizes within a file of any length, and
  reads of any names in any order (`IsRequest`); that an image that can be
  read has a width and a height is the one thing that is asked of a file. All there is to the
  specification is that what is picked is one of the inputs; the rest is about the operators.
  The loops of the code are recursive functions here, so each part shows that
  there is such a function (`WalkExists`, `CheckedExists`, `CachesExist`) and then what every
  step of it keeps: boxes that tile the rest of the file tile it with the box before them
  (`TilesBehind`, from the end of the file); what is accepted has a size that is not empty, and
  a slot of its own (`OneMoreAccepted`); a name that is found again leaves the names of the
  cache as they were, and one that is new drops the oldest until the bound is met
  (`OneMoreServed`). Both by least counterexample again. `resolve` needs no loop: with a size
  for each slot the first slot there is has the ratio of the page.
* `SalesAreValued`: `AllSpec => []SalesHold`, whatever sales `SalesInputs` holds: texts of any
  lines, histories of any length, prices of any amount (`IsSale`). A place in the order of the
  prices is defined by counting (`Sorted`): fewer prices are below it than there are places up to
  it, and at least as many up to it. `SortedIs` shows that every place up to the number of rows
  has a price, by taking the least price with enough at or below it; `SortedTwice` that twice
  the history has at place `p` what the history has at the place `p` falls into, as every count
  doubles, which `FenceTwice` and `KeptTwice` need of the quartiles and the statistics. That the
  outliers are a minority (`MostAreKept`) is that no more than a quarter of the prices are below the
  first quartile and less than a quarter above the third. The two loops of the
  parser, over the cells of a row and over the groups of digits of a number, are recursive
  functions; `StepsExist` and `StepsStay` say once for both that there is such a function and
  that it keeps what each of its steps keeps. So a row with a price has a currency, which is what
  `ImportsAreRight` rests on, and `JoinedIs` gives the digits of the six styles of
  `AllPricesAreRead`.
* `EnginesDecide`: `AllSpec => []EnginesAgree`, whatever fields `RuleInputs` holds (`IsFields`).
  The tables are finite, and the proof goes over them once: the ranges of the table in Python are in ascending
  order and do not meet, and each range of the policy is within those of the same
  country. `EnginesDecideAlike` follows for every prefix, not only for those below 1000.
* `ListsAreAsPromised`: `AllSpec => []ListsAgree`, whatever catalogues and filters there are
  (`IsCatalogue`, `IsFilter`). The order of the artists is defined by counting: the place of a
  name is the number of names up to it (`Rank`), and `NthIs` shows that there is exactly one
  name at each place. `PageOfPlace` says that a place is on one page, by the division with
  remainder. A pressing that shares its artist and title with no other has the same place in
  every order that the query may give, one more than the pressings before it (`PlaceIs`), and so
  is on the same page of each. The counts of the cards are added by a recursive function, which
  at each place has counted the pressings of the artists up to it (`CardsAddUp`). The facets
  are proved by comparing sets: what a facet counts is part of what its link lists, while the
  text has no blank at an end, and a format never shows more than it counts. The search is proved for any
  limits: `FirstAre` says of what is cut off that it is all there is up to the limit and as many
  as the limit beyond it, so that both layouts find the same while all fits. The years of
  a card need the order of the list behind it, with the pressings without a year at its end
  (`YearsAreRight`).
* `FormsAndBiographies`: `AllSpec => []FormsHold`, the part of `SourcesHold` about the form for
  a new token, the scan of a cover, the sources of a biography and the cut of a text, whatever
  inputs of these kinds there are (`IsShelf`, `IsSources`, `IsTyped`, `IsScanned`, `IsWorld`,
  `Paragraphs`). For the form there is a case for each thing that may be typed, and for each page
  that the source may answer with: a barcode lists matches only, and all of them up to a page, and
  a scan that fills the form in has found the only one. Of a biography,
  `LinksAre`, `PageBioIs`, `HitIs`, `ProfileIs`, `ChoiceIs` and `WrittenIs` say what each source
  gives, and `ResolutionIsRight` goes through the five ways in which the sources fall into place;
  that Wikipedia is left for a text twice as long only needs that a text of the length that
  suffices is not cut. Of the cut, `TakingKeeps` is the invariant of the loop over the
  paragraphs: until it is over, all were taken whole, and once it is over, what was taken is what
  is promised, so that nothing but an ellipsis after a word without a space goes beyond the
  limit; `TotalIs` is that one more paragraph adds its length and what is between the two.

Looking for the invariant of `EditsAreNotLost` showed a mistake of the model: a refresh
that found nothing to store ended without leaving the set of requests that are behind, so
that the next request of the same editor began in it and every later change of it was excused.
`FetchCollection` ends it as the other endings do now.

The assumptions are those the modules state: MaxAttempts positive, MaxAge a
natural number, workers and reapers disjoint and the reapers finitely many, a collection of finitely many releases
on pages without a gap (a collection without releases is refused at the first page), a
positive number of failures before a run gives up, rate, interval, attempts and
threshold positive, finitely many user names with an administrator among them, a threshold of
failures and a window that are positive, names that are no addresses (nothing enforces it: names
and addresses are keys of one table, `web/auth.py:202`, and an attempt on a name that is also its
address would be counted twice), and that the special values
are not ordinary ones (`SiteAssumption` puts those of the parts of `Site` together,
`FilesAssumption` has those of `BackgroundFiles`: a header and the least sides are positive;
`SalesAssumption` those of `SalesHistory`: the numbers of rows that outliers and the medium tier
ask for are positive; `BrowseAssumption` those of `Browse`: a page has room for a pressing, a search shows one at least;
`ReleasesAssumption` that a page of releases has room for two, so that one is known to be the only one;
`BiographyAssumption` those of `Biography`: the limits are numbers, the least length and what is
left for a cut paragraph fit into the greatest, and a text that suffices is within it;
`InputsAssumption` is these and that every input is one of its kind, `IsRequest`, `IsFields`,
`IsSale`, `IsCatalogue`, `IsFilter` and those that `FormsAndBiographies` names).

Only model-checked:

* liveness (`EventuallySettled`, `EventuallyDrained`, `EveryRequestEnds`, `JobsSettle`,
  `BreakerRecovers`), which is out of the prover's reach;
* of `SourcesHold` what is not in `FormsHold`: the readers of a release, its runouts by variant,
  the sheet of an album and the discography. These are functions of small inputs that `MCSite`
  enumerates; they select from and fold sequences with operators of the community modules, which
  take an operator as a parameter.

## Not modelled

* Backup: an export is one query per table and an import one transaction; what can
  go wrong is in the schema, which the models do not have.
* The OCR pipeline, its backends and the candidate search (`storage/pipeline.py`,
  `storage/ocr.py`, `storage/translation.py`, `vision/candidates.py`), the registry of
  connectors and drift detection have no caller in the application, so that how they
  would run beside the rest is not determined. The same goes for
  `_discogs_discography` and `_discogs_artist_image` of `web/artists.py`.
* LLM adapters: requests and prompts with one fallback; their answers are inputs of
  `Biography` and `TokenRegistry`.
* Symbols (a few queries), the layout of the print sheet, logging, configuration,
  audit lines, deployment and migrations: no state that several steps could spoil.
* Session tokens and CSRF: signatures of a library.
* Of modelled components: the saves of single columns that read nothing (rating,
  tracklist, vinyl, price), which are `save_genres` without the list; the region of an
  image and presigned links; the in-process counters of the login limiter.

Two hazards are in the models and no property states them: the zombie check marks a
job that completed since it was listed as failed (`web/admin.py:144`), and a resume
that fails before loading its row stores a count of zero (`web/admin.py:1244`).
Two more are outside: a re-import decides in one session that a token has no country
and writes it in another (`web/admin.py:1124`), and two imports at once may insert the
same country (`web/catalogue.py:165`).

## Plan

1. The readers of `Releases`, and `Runouts` and `Discography`, as for `Browse` and
   `Biography`: places by counting where the code sorts, and recursive functions where it goes
   through a list.
2. An abstract atomic update that `TokenColumns`, `Details` and `Background` implement
   as long as no copy is outdated: their invariants `LoadedIsThere`, `UpToDate` and
   `OneAdmin` are what its proof would rest on.
