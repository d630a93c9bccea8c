----------------------------- MODULE Discography -----------------------------
(***************************************************************************)
(* The discography of an artist: the albums from MusicBrainz or else from  *)
(* Wikipedia, with their links to Spotify, the marks of those that are in  *)
(* the catalogue, and the links that its tokens get (web/artists.py,       *)
(* ingestion/spotify.py, ingestion/wikipedia.py).                          *)
(*                                                                         *)
(* Data: a title is <<word, spelling>>; casefold leaves the word.  What    *)
(* the services know of a name is a record w:                              *)
(*   groups    the release groups [title, type, date] of the first artist  *)
(*             that MusicBrainz finds, date a number or None; or None when *)
(*             it fails                                                    *)
(*   pages     the pages [named, meta, albums] that Wikipedia finds,       *)
(*             albums the rows [title, date] that can be read there        *)
(*   keys      whether there are credentials for Spotify                   *)
(*   found     the artists [name, popularity, id] of a search there, name  *)
(*             TRUE if it is this one; or None when it fails               *)
(*   releases  of an artist there, pages of [id, title, url]               *)
(* and a token is [live, artist, title, url], artist TRUE if it is this.   *)
(***************************************************************************)
EXTENDS Integers, FiniteSets, Sequences, SequencesExt

CONSTANT None

word(title) == title[1]
-----------------------------------------------------------------------------
\* The albums by their dates, those without a date last, each title once.
Sorted(albums) ==
    LET Key(a) == IF a.date = None THEN 9999 ELSE a.date
        dates == SetToSortSeq({Key(a) : a \in ToSet(albums)}, <)
        Of(date) == SelectSeq(albums, LAMBDA a : Key(a) = date)
        ordered == FlattenSeq([i \in DOMAIN dates |-> Of(dates[i])])
        add(sofar, a) == IF \E x \in ToSet(sofar) : x.title = a.title THEN sofar
                         ELSE Append(sofar, [title |-> a.title, date |-> a.date, url |-> None])
    IN FoldLeft(add, <<>>, ordered)

Listed(g) == g.type \in {"album", "ep", "single", None} /\ g.title # None
_mb_discography(w) == IF w.groups = None THEN <<>> ELSE Sorted(SelectSeq(w.groups, Listed))

\* Of the first page that is named after the artist.
_wikipedia_discography(w) ==
    LET named == SelectSeq(w.pages, LAMBDA p : p.named /\ ~ p.meta)
    IN IF named = <<>> THEN <<>> ELSE Sorted(SelectSeq(named[1].albums, LAMBDA a : a.date # None))

\* resolve_artist: the first of the most popular ones of this name.
resolve_artist(w) ==
    LET exact == SelectSeq(w.found, LAMBDA a : a.name)
        best == SelectSeq(exact, LAMBDA a : \A b \in ToSet(exact) : b.popularity <= a.popularity)
    IN IF exact = <<>> THEN None ELSE best[1]

\* fetch_artist_albums: every page, each release once.
fetch_artist_albums(pages) ==
    LET add(sofar, r) == IF \E x \in ToSet(sofar) : x.id = r.id THEN sofar ELSE Append(sofar, r)
    IN FoldLeft(add, <<>>, FlattenSeq(pages))

\* _spotify_enrich: of releases with the same word the last one counts.
_spotify_enrich(w, list) ==
    LET artist == resolve_artist(w)
        known == SelectSeq(fetch_artist_albums(w.releases[artist.id]), LAMBDA r : r.url # None)
        Match(title) == SelectSeq(known, LAMBDA r : word(r.title) = word(title))
        Link(title) == LET m == Match(title) IN IF m = <<>> THEN None ELSE m[Len(m)].url
    IN IF artist = None THEN list
       ELSE [i \in DOMAIN list |-> [list[i] EXCEPT !.url = Link(list[i].title)]]

\* _backfill_token_spotify_urls: the tokens of the artist that have no link, live or not.
_backfill(list, tokens) ==
    LET Of(t) == SelectSeq(list, LAMBDA a : a.title = t.title /\ a.url # None)
    IN [i \in DOMAIN tokens |->
           IF tokens[i].artist /\ tokens[i].url = None /\ Of(tokens[i]) # <<>>
           THEN [tokens[i] EXCEPT !.url = Of(tokens[i])[1].url] ELSE tokens[i]]

\* _annotate_in_db with the titles of the live tokens of the artist.
_annotate_in_db(list, tokens) ==
    LET titles == {t.title : t \in {x \in ToSet(tokens) : x.live /\ x.artist /\ x.title # None}}
    IN [i \in DOMAIN list |-> list[i].title \in titles]

\* artist_discography: what is fetched, what is shown, and the tokens and the cache afterwards.
Answer(w, list, tokens) ==
    [list |-> list, marks |-> _annotate_in_db(list, tokens), tokens |-> tokens,
     cache |-> IF list = <<>> THEN None ELSE list,
     note |-> IF list = <<>> THEN None ELSE IF ~ w.keys THEN "not configured"
              ELSE IF w.found = None THEN "error"
              ELSE IF \E a \in ToSet(list) : a.url # None THEN "matches" ELSE "no match"]
artist_discography(w, tokens) ==
    LET primary == _mb_discography(w)
        list == IF primary # <<>> THEN primary ELSE _wikipedia_discography(w)
        enriched == IF list # <<>> /\ w.keys /\ w.found # None THEN _spotify_enrich(w, list) ELSE list
    IN Answer(w, enriched, _backfill(enriched, tokens))

-----------------------------------------------------------------------------
\* No album that a source has is lost or shown twice, whatever fails after it; a link is one to a
\* release of that name by an artist of exactly that name, though where Spotify has several it is
\* the last; a token keeps the link that it has and gets only one that is shown; the same request
\* again changes nothing; and a mark is as the live tokens are, on a visit that the cache serves
\* too (web/artists.py:426, web/artists.py:604, web/artists.py:844).
DiscographyHolds(w, tokens, later) ==
    \A shown \in {artist_discography(w, tokens)} :
    LET list == shown.list
        Titles == {a.title : a \in ToSet(list)}
        Owned(all, title) == \E t \in ToSet(all) : t.live /\ t.artist /\ t.title = title
        Spotify == IF w.keys /\ w.found # None
                   THEN UNION {UNION {ToSet(p) : p \in ToSet(w.releases[a.id])} :
                                 a \in {x \in ToSet(w.found) : x.name}}
                   ELSE {}
    IN /\ Cardinality(Titles) = Len(list)
       /\ w.groups # None => \A g \in ToSet(w.groups) : Listed(g) => g.title \in Titles
       /\ list = <<>> => _wikipedia_discography(w) = <<>>
       /\ \A i, j \in DOMAIN list : i < j /\ list[j].date # None =>
             list[i].date # None /\ list[i].date <= list[j].date
       /\ \A a \in ToSet(list) : a.url # None =>
             \E r \in Spotify : r.url = a.url /\ word(r.title) = word(a.title)
       /\ \A i \in DOMAIN tokens :
             LET before == tokens[i].url
                 url == shown.tokens[i].url
             IN url # before => /\ before = None /\ tokens[i].artist
                                /\ \E a \in ToSet(list) : a.title = tokens[i].title /\ a.url = url
       /\ artist_discography(w, shown.tokens) = shown
       /\ \A i \in DOMAIN list :
             /\ shown.marks[i] <=> Owned(tokens, list[i].title)
             /\ _annotate_in_db(shown.cache, later)[i] <=> Owned(later, list[i].title)
       /\ shown.note = "matches" => Spotify # {}
=============================================================================
