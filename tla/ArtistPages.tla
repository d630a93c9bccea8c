----------------------------- MODULE ArtistPages ----------------------------
(***************************************************************************)
(* The page of an artist (web/artists.py): biography and discography are   *)
(* looked up with outside services and cached in one row of artist_bios.   *)
(*                                                                         *)
(* A biography is looked up by a task of its own, which requests wait for  *)
(* and which goes on when they leave; the lookup that was started last is  *)
(* registered in _bio_jobs, for the next request to join.  A discography   *)
(* is looked up by the request.                                            *)
(*                                                                         *)
(* A step is what a request or a task does from one await to the next.     *)
(*                                                                         *)
(* Data: one artist.  A biography is named by the request that started its *)
(* lookup, a picture by the biography whose page it is from, and so is a   *)
(* discography by its request.                                             *)
(***************************************************************************)
EXTENDS FiniteSets

CONSTANTS Visits, Nothing

VARIABLES
    cached,    \* the row, or Nothing
    fresh,     \* was the cached discography fetched today
    registered,\* _bio_jobs: the visit whose lookup is registered
    visit,     \* where each request is
    lookup,    \* where the task that a request has started is
    answer,    \* what the services have answered
    selected,  \* the row as it was selected for writing
    newest,    \* the visit whose lookup was started last (history)
    got,       \* what was looked up since the row was last written without conflict (history)
    mishap     \* "conflict", "failure" or "overlap" of writes (history)

cache == <<cached, fresh>>
artistVars == <<cache, registered, visit, lookup, answer, selected, newest, got, mishap>>

\* found: is the biography from a page; otherwise it says that nothing was found.
Row == [bio : Visits \cup {Nothing}, found : BOOLEAN, picture : Visits \cup {Nothing},
        discography : Visits \cup {Nothing}]
NewRow == [bio |-> Nothing, found |-> FALSE, picture |-> Nothing, discography |-> Nothing]

PagesAssumption == Nothing \notin Visits /\ Nothing \notin Row

Init ==
    /\ cached = Nothing /\ fresh = FALSE
    /\ registered = Nothing
    /\ visit = [v \in Visits |-> "new"]
    /\ lookup = [v \in Visits |-> "none"]
    /\ answer = [v \in Visits |-> Nothing]
    /\ selected = [v \in Visits |-> Nothing]
    /\ newest = Nothing /\ got = {} /\ mishap = {}

-----------------------------------------------------------------------------
At(v, label) == visit' = [visit EXCEPT ![v] = label]
Task(v, label) == lookup' = [lookup EXCEPT ![v] = label]

\* artist_info: a request joins a running lookup, or else looks in the cache first
\* unless the user wants a new lookup.
OpenInfo(v, refresh) ==
    /\ visit[v] = "new"
    /\ At(v, IF registered # Nothing THEN "waiting" ELSE IF refresh THEN "start" ELSE "look in cache")
    /\ UNCHANGED <<cache, registered, lookup, answer, selected, newest, got, mishap>>

\* A text is served, also one that says that nothing was found.  A biography without a
\* picture gets the picture of its page.
ServeInfo(v) ==
    /\ visit[v] = "look in cache"
    /\ IF cached # Nothing /\ cached.bio # Nothing
       THEN At(v, IF cached.found /\ cached.picture = Nothing THEN "backfill" ELSE "left")
       ELSE At(v, "start")
    /\ selected' = [selected EXCEPT ![v] = cached]
    /\ UNCHANGED <<cache, registered, lookup, answer, newest, got, mishap>>

\* An UPDATE by name, of the row there is by then.
Backfill(v) ==
    /\ visit[v] = "backfill"
    /\ \/ cached' = [cached EXCEPT !.picture = selected[v].bio]
       \/ UNCHANGED cached
    /\ mishap' = mishap \cup IF cached'.picture # cached.picture /\ cached.bio # selected[v].bio
                             THEN {"overlap"} ELSE {}
    /\ At(v, "left")
    /\ UNCHANGED <<fresh, registered, lookup, answer, selected, newest, got>>

\* _start_bio_job: the token is resolved, then the task is created and registered.
StartJob(v) ==
    /\ visit[v] = "start"
    /\ Task(v, "resolving")
    /\ registered' = v /\ newest' = v
    /\ At(v, "waiting")
    /\ UNCHANGED <<cache, answer, selected, got, mishap>>

\* resolve_artist_bio: a page or none, with a picture or without, or an exception.
Resolve(v) ==
    /\ lookup[v] = "resolving"
    /\ \/ /\ \E found, picture \in BOOLEAN :
                answer' = [answer EXCEPT ![v] = [found |-> found,
                                                 picture |-> IF found /\ picture THEN v ELSE Nothing]]
          /\ Task(v, "selecting")
          /\ got' = got \cup {"biography"}
       \/ Task(v, "over") /\ UNCHANGED <<answer, got>>
    /\ UNCHANGED <<cache, registered, visit, selected, newest, mishap>>

\* The row is selected, by the task or by the request with a discography.
Select(v) ==
    /\ \/ lookup[v] = "selecting" /\ Task(v, "storing") /\ UNCHANGED visit
       \/ visit[v] = "select row" /\ At(v, "store") /\ UNCHANGED lookup
    /\ selected' = [selected EXCEPT ![v] = cached]
    /\ UNCHANGED <<cache, registered, answer, newest, got, mishap>>

\* A row that was not there is inserted, and the name is unique; otherwise the columns
\* that are to change are updated.
Written(v, insert, update) ==
    \/ /\ selected[v] = Nothing /\ cached = Nothing
       /\ cached' = insert
       /\ UNCHANGED mishap
    \/ /\ selected[v] = Nothing /\ cached # Nothing
       /\ mishap' = mishap \cup {"conflict"}
       /\ UNCHANGED cached
    \/ /\ selected[v] # Nothing
       /\ cached' = update
       /\ mishap' = mishap \cup IF cached # selected[v] THEN {"overlap"} ELSE {}
    \/ mishap' = mishap \cup {"failure"} /\ UNCHANGED cached

\* The new value of a column, which is written only when it differs from the one selected.
Column(old, now, new) == IF new = old THEN now ELSE new

\* A mistake of StoreBio: the columns of a row are all written.
StoreBioRow(v) ==
    /\ lookup[v] = "storing"
    /\ LET bio == [NewRow EXCEPT !.bio = v, !.found = answer[v].found,
                                 !.picture = answer[v].picture]
       IN Written(v, bio, bio)
    /\ Task(v, "over")
    /\ UNCHANGED <<fresh, registered, visit, answer, selected, newest, got>>

\* _lookup_and_cache_bio stores the outcome, "not found" too; a failure is logged.
StoreBio(v) ==
    /\ lookup[v] = "storing"
    /\ LET old == selected[v]
           bio == [NewRow EXCEPT !.bio = v, !.found = answer[v].found,
                                 !.picture = answer[v].picture]
       IN Written(v, bio,
                  [bio EXCEPT !.picture = Column(old.picture, cached.picture, @),
                              !.discography = cached.discography])
    /\ Task(v, "over")
    /\ UNCHANGED <<fresh, registered, visit, answer, selected, newest, got>>

\* A mistake of JobDone: the registered lookup is taken for the one that is done.
JobDoneAny(v) ==
    /\ lookup[v] = "over"
    /\ Task(v, "gone")
    /\ registered' = Nothing
    /\ UNCHANGED <<cache, visit, answer, selected, newest, got, mishap>>

\* _bio_job_done, called by the event loop once the task is over.
JobDone(v) ==
    /\ lookup[v] = "over"
    /\ Task(v, "gone")
    /\ registered' = IF registered = v THEN Nothing ELSE registered
    /\ UNCHANGED <<cache, visit, answer, selected, newest, got, mishap>>

\* artist_discography: a discography of today is served from the cache.
OpenDiscography(v, refresh) ==
    /\ visit[v] = "new"
    /\ At(v, IF ~ refresh /\ cached # Nothing /\ cached.discography # Nothing /\ fresh
             THEN "left" ELSE "fetch")
    /\ UNCHANGED <<cache, registered, lookup, answer, selected, newest, got, mishap>>

\* MusicBrainz, then Wikipedia, then the links to Spotify; nothing found is not cached.
FetchDiscography(v) ==
    /\ visit[v] = "fetch"
    /\ \/ At(v, "left") /\ UNCHANGED got
       \/ At(v, "select row") /\ got' = got \cup {"discography"}
    /\ UNCHANGED <<cache, registered, lookup, answer, selected, newest, mishap>>

StoreDiscography(v) ==
    /\ visit[v] = "store"
    /\ Written(v, [NewRow EXCEPT !.discography = v], [cached EXCEPT !.discography = v])
    /\ fresh' = (fresh \/ cached' # cached)
    /\ At(v, "left")
    /\ UNCHANGED <<registered, lookup, answer, selected, newest, got>>

\* The browser goes away: the request is cancelled where it waits, its task is not.
Leave(v) ==
    /\ visit[v] \notin {"new", "left"}
    /\ At(v, "left")
    /\ got' = IF visit[v] \in {"select row", "store"} THEN got \ {"discography"} ELSE got
    /\ UNCHANGED <<cache, registered, lookup, answer, selected, newest, mishap>>

Midnight == fresh /\ fresh' = FALSE
            /\ UNCHANGED <<cached, registered, visit, lookup, answer, selected, newest, got, mishap>>

Next ==
    \/ \E v \in Visits :
          \/ \E refresh \in BOOLEAN : OpenInfo(v, refresh) \/ OpenDiscography(v, refresh)
          \/ ServeInfo(v) \/ Backfill(v) \/ StartJob(v)
          \/ Resolve(v) \/ Select(v) \/ StoreBio(v) \/ JobDone(v)
          \/ FetchDiscography(v) \/ StoreDiscography(v) \/ Leave(v)
    \/ Midnight

Spec == Init /\ [][Next]_artistVars

-----------------------------------------------------------------------------
Running == {v \in Visits : lookup[v] \in {"resolving", "selecting", "storing"}}

TypeOK ==
    /\ cached \in Row \cup {Nothing}
    /\ registered \in Visits \cup {Nothing}
    /\ visit \in [Visits -> {"new", "look in cache", "backfill", "start", "waiting", "fetch",
                             "select row", "store", "left"}]
    /\ lookup \in [Visits -> {"none", "resolving", "selecting", "storing", "over", "gone"}]
    /\ mishap \subseteq {"conflict", "failure", "overlap"}

\* artists.py:273: "a second request for the same artist joins the running lookup".  Two
\* requests may both find none and start one each (artists.py:392); the lookup started last
\* is then the one that later requests join, for as long as it runs, and one that is over
\* and done with is never joined.
LatestIsJoined ==
    /\ newest \in Running => registered = newest
    /\ registered # Nothing => lookup[registered] \notin {"none", "gone"}

\* What was looked up is in the cache when nobody is at work any more, biography and
\* discography alike, unless two requests inserted the row at once (artists.py:488) or a
\* write failed; and the picture is from the page of the biography, unless writes overlapped.
CacheIsComplete ==
    /\ (\A v \in Visits : visit[v] \notin {"select row", "store"} /\ lookup[v] \in {"none", "over", "gone"})
          => \/ mishap \cap {"conflict", "failure"} # {}
             \/ /\ "biography" \in got => cached # Nothing /\ cached.bio # Nothing
                /\ "discography" \in got => cached # Nothing /\ cached.discography # Nothing
    /\ cached = Nothing \/ "overlap" \in mishap \/ cached.picture \in {Nothing, cached.bio}
=============================================================================
