------------------------------- MODULE Browse -------------------------------
(***************************************************************************)
(* What the lists of the catalogue show: the artist browser with its       *)
(* facets, the pressings of a genre, the drill-down to an album, the       *)
(* dashboard and the search (web/catalogue.py, web/routes.py).             *)
(*                                                                         *)
(* Data: a catalogue is a function to tokens [live, artist, title, genres, *)
(* cleared, format, year, rating], where live is neither deleted nor       *)
(* merged, and cleared are genres that were taken away (a JSON null);      *)
(* artists and titles are numbers in their alphabetical order, and a text  *)
(* that is searched for is the set of those that have it in them.  A genre *)
(* is <<word, spelling>>, and lower case is its word.                      *)
(***************************************************************************)
EXTENDS Integers, FiniteSets, Sequences, SequencesExt

CONSTANTS None, PageSize, ShelfSize,
          Commas,      \* the words of genres whose name has a comma in it
          MaxArtists,  \* how many artists a search finds
          SEARCH_LIMIT \* how many pressings a search shows

\* The filters of a list: [q, fmt, from, to, genres], genres a sequence and q what is found by
\* a text as it is typed and when it is stripped of blanks at its ends, or None for no text.
Live(cat) == {t \in DOMAIN cat : cat[t].live}
Named(cat) == {t \in Live(cat) : cat[t].artist # None}

InYears(tok, f) ==
    /\ f.from # None => tok.year # None /\ tok.year >= f.from
    /\ f.to # None => tok.year # None /\ tok.year <= f.to

Found(tok, q) == q # None => tok.artist \in q \/ tok.title \in q
InFormat(tok, f) == f.fmt # None => tok.format = f.fmt

\* catalogue_index and catalogue_artists_partial: what is listed, for the text as it is typed.
Full(cat, f) ==
    {t \in Named(cat) : InYears(cat[t], f) /\ Found(cat[t], f.q.typed) /\ InFormat(cat[t], f)}

\* _fetch_facets: what is counted for genres and decades, for the text without its blanks;
\* formats are counted in all formats.
Base(cat, f) == {t \in Named(cat) : InYears(cat[t], f) /\ Found(cat[t], f.q.stripped)}
Counted(cat, f) == {t \in Base(cat, f) : InFormat(cat[t], f)}

lower(genre) == genre[1]

genre_count(cat, f, g) == Cardinality({t \in Counted(cat, f) : g \in ToSet(cat[t].genres)})
\* A mistake of format_count: the formats are counted in the one that is chosen.
format_countChosen(cat, f, fmt) == Cardinality({t \in Counted(cat, f) : cat[t].format = fmt})
format_count(cat, f, fmt) == Cardinality({t \in Base(cat, f) : cat[t].format = fmt})
decade_count(cat, f, d) ==
    Cardinality({t \in Counted(cat, f) : cat[t].year # None /\ cat[t].year \in d..(d + 9)
                                          /\ cat[t].year \in 1900..2100})

\* The genre query fails on a JSON null, and with it the whole page of catalogue_index.
index_fails(cat, f) == \E t \in Counted(cat, f) : cat[t].cleared

\* A link has commas between the genres, and the page reads a genre with a comma as several:
\* here as one that no token has.
Linked(genres) == [i \in DOMAIN genres |-> IF lower(genres[i]) \in Commas THEN <<None, None>> ELSE genres[i]]

\* The filters behind the link of a facet: it is switched on, or off if it is on.
_genre_toggle(f, g) ==
    [f EXCEPT !.genres = Linked(IF \E i \in DOMAIN @ : lower(@[i]) = lower(g)
                                THEN SelectSeq(@, LAMBDA h : lower(h) # lower(g)) ELSE Append(@, g))]
_fmt_toggle(f, fmt) == [f EXCEPT !.fmt = IF @ = fmt THEN None ELSE fmt]
_decade_toggle(f, d) ==
    IF f.from = d /\ f.to = d + 9 THEN [f EXCEPT !.from = None, !.to = None]
    ELSE [f EXCEPT !.from = d, !.to = d + 9]

\* catalogue_index: with a genre chosen, the pressings that have one of the genres; else artists.
Pressings(cat, f) ==
    {t \in Full(cat, f) : \E i \in DOMAIN f.genres : lower(f.genres[i]) \in {lower(g) : g \in ToSet(cat[t].genres)}}

ArtistCard(cat, f, artist) ==
    LET own == {t \in Full(cat, f) : cat[t].artist = artist}
        years == {cat[t].year : t \in own} \ {None}
    IN [name |-> artist, pressing_count |-> Cardinality(own),
        vinyl_count |-> Cardinality({t \in own : cat[t].format = "vinyl"}),
        cd_count |-> Cardinality({t \in own : cat[t].format = "cd"}),
        years |-> {y \in years : \A z \in years : y <= z} \cup {y \in years : \A z \in years : y >= z}]

\* In the order of the names: as many are up to a name as its place says.
Artists(cat, f) == {cat[t].artist : t \in Full(cat, f)}
Nth(names, place) ==
    CHOOSE name \in names : Cardinality({other \in names : other <= name}) = place
artists(cat, f) ==
    [i \in 1..Cardinality(Artists(cat, f)) |-> ArtistCard(cat, f, Nth(Artists(cat, f), i))]

\* artists_index: the grid of all artists, found by their name only; its order and its
\* pictures are left out.
artists_index(cat, q) ==
    LET own(name) == {t \in Named(cat) : cat[t].artist = name}
        years(name) == {cat[t].year : t \in own(name)} \ {None}
        ratings(name) == {cat[t].rating : t \in own(name)} \ {None}
        names == {cat[t].artist : t \in Named(cat)}
    IN {[name |-> name, pressing_count |-> Cardinality(own(name)),
         yr_min |-> {y \in years(name) : \A z \in years(name) : y <= z},
         yr_max |-> {y \in years(name) : \A z \in years(name) : y >= z},
         max_rating |-> {r \in ratings(name) : \A x \in ratings(name) : r >= x}] :
           name \in IF q = None THEN names ELSE names \cap q}

\* artist_detail and the albums of artists.py: the pressings of an artist by year and title.
artist_detail(cat, name) ==
    LET UpTo(a, b) == a = b \/ b = None \/ (a # None /\ a < b)
    IN {s \in SetToSeqs({t \in Named(cat) : cat[t].artist = name}) :
           \A i, j \in DOMAIN s : i < j =>
              /\ UpTo(cat[s[i]].year, cat[s[j]].year)
              /\ cat[s[i]].year = cat[s[j]].year => UpTo(cat[s[i]].title, cat[s[j]].title)}

\* The places of a list that are on a page.
Page(list, page) == {i \in DOMAIN list : (page - 1) * PageSize < i /\ i <= page * PageSize}
total_pages(total) == IF total = 0 THEN 1 ELSE (total + PageSize - 1) \div PageSize

\* catalogue_artists_partial: the next page, for as long as there is one.
has_next(total, page) == page * PageSize < total

\* Pressings are ordered by artist and title, and in any order among those that share both.
Orders(cat, set) ==
    {s \in SetToSeqs(set) :
        \A i, j \in DOMAIN s : i < j =>
            \/ cat[s[i]].artist < cat[s[j]].artist
            \/ /\ cat[s[i]].artist = cat[s[j]].artist
               /\ cat[s[j]].title = None \/ (cat[s[i]].title # None /\ cat[s[i]].title <= cat[s[j]].title)}

\* artist_albums and album_pressings, whose links have the title in them: none is the empty text.
albums(cat, artist) ==
    LET own == {t \in Named(cat) : cat[t].artist = artist}
    IN {[title |-> title, pressing_count |-> Cardinality({t \in own : cat[t].title = title})] :
           title \in {cat[t].title : t \in own}}
album_pressings(cat, artist, title) ==
    {t \in Named(cat) : cat[t].artist = artist /\ title # None /\ cat[t].title = title}

\* dashboard: the newest tokens, then the best rated of the others, then one shelf a genre of
\* what is left, by the first genre of each (of which a few are shown); ties are broken in any way.
TopOf(set, size, score) ==
    {best \in SUBSET set :
        /\ Cardinality(best) = IF Cardinality(set) < size THEN Cardinality(set) ELSE size
        /\ \A t \in set \ best, b \in best : score[t] <= score[b]}
recent(cat) == UNION TopOf(Live(cat), ShelfSize, [t \in Live(cat) |-> t])
Dashboards(cat) ==
    {[recent |-> recent(cat), top_rated |-> rated,
      carousels |-> [g \in {cat[t].genres[1] : t \in {u \in Live(cat) : cat[u].genres # <<>>}} |->
          {t \in Live(cat) \ (recent(cat) \cup rated) : cat[t].genres # <<>> /\ cat[t].genres[1] = g}]] :
        rated \in TopOf({t \in Live(cat) \ recent(cat) : cat[t].rating # None}, ShelfSize,
                       [t \in DOMAIN cat |-> cat[t].rating])}

stats(cat) == [total |-> Cardinality(Live(cat)),
               vinyl |-> Cardinality({t \in Live(cat) : cat[t].format = "vinyl"}),
               artists |-> Cardinality({cat[t].artist : t \in Named(cat)})]

\* token_list: the token browser, tokens without an artist included.
token_list(cat, q, media) ==
    {t \in Live(cat) : Found(cat[t], q) /\ (media # None => cat[t].format = media)}

\* The first of a set in an order that may leave ties, up to a size: which of those that are
\* tied are among them is open.  Postgres has what is None last, the sort in Python first.
FirstOf(set, size, before) ==
    {first \in SUBSET set :
        /\ Cardinality(first) = IF Cardinality(set) < size THEN Cardinality(set) ELSE size
        /\ \A t \in set \ first, u \in first : <<t, u>> \notin before}
Smaller(a, b, last) == a # b /\ (IF last THEN b = None \/ (a # None /\ a < b)
                                 ELSE a = None \/ (b # None /\ a < b))
ByTitle(cat, set) ==
    {p \in set \X set : LET s == cat[p[1]]
                           t == cat[p[2]]
                       IN \/ Smaller(s.title, t.title, TRUE)
                          \/ s.title = t.title /\ Smaller(s.artist, t.artist, TRUE)
                          \/ s.title = t.title /\ s.artist = t.artist /\ Smaller(s.year, t.year, TRUE)}
ByArtist(cat, set) ==
    {p \in set \X set : LET s == cat[p[1]]
                           t == cat[p[2]]
                       IN \/ Smaller(s.artist, t.artist, FALSE)
                          \/ s.artist = t.artist /\ Smaller(s.title, t.title, FALSE)}

\* global_search: the first artists found by name, and one pressing more than is shown, for
\* the page to say that there are more; a catalogue number that is found counts as a title.
Matching(cat, q, scope) ==
    IF scope \in {"all", "artists"} THEN {cat[t].artist : t \in Named(cat)} \cap q ELSE {}
_search_artists(cat, q, scope) ==
    LET names == Matching(cat, q, scope)
    IN FirstOf(names, MaxArtists, {p \in names \X names : p[1] < p[2]})
Hits(cat, q, by_artist, by_album) ==
    {t \in Live(cat) : (by_artist /\ cat[t].artist \in q) \/ (by_album /\ cat[t].title \in q)}
_search_pressings(cat, q, by_artist, by_album) ==
    LET hits == Hits(cat, q, by_artist, by_album)
    IN FirstOf(hits, SEARCH_LIMIT + 1, ByTitle(cat, hits))

\* The hits in three panels by their kind; a single album or track with no artist is opened
\* at once.
_single_pressing_hit(artist_hits, hits) == artist_hits = {} /\ Cardinality(hits) = 1
panels(cat, q, scope) ==
    UNION {{[artists |-> names, albums |-> shown, albums_more |-> Cardinality(rows) > SEARCH_LIMIT,
             opened |-> _single_pressing_hit(names, rows)] :
               names \in _search_artists(cat, q, scope),
               shown \in FirstOf(rows, SEARCH_LIMIT, ByTitle(cat, rows))} :
              rows \in IF scope \in {"all", "albums"} THEN _search_pressings(cat, q, FALSE, TRUE)
                       ELSE {{}}}

\* The flat list of the classic layout: what was found is sorted again before it is cut.
flat_lists(cat, q, scope) ==
    UNION {FirstOf(rows, SEARCH_LIMIT, ByArtist(cat, rows)) :
              rows \in _search_pressings(cat, q, scope \in {"all", "artists"}, scope \in {"all", "albums"})}

-----------------------------------------------------------------------------
\* What is asked of a catalogue and of filters: artists, titles and ratings have their order.
BrowseAssumption ==
    /\ None \notin Int /\ None \notin {"vinyl", "cd"}
    /\ PageSize \in Nat \ {0} /\ ShelfSize \in Nat
    /\ MaxArtists \in Nat \ {0} /\ SEARCH_LIMIT \in Nat \ {0}
Genres == (STRING \cup {None}) \X (STRING \cup {None})
IsCatalogue(cat) ==
    /\ IsFiniteSet(DOMAIN cat)
    /\ \A t \in DOMAIN cat :
          cat[t] \in [live : BOOLEAN, artist : Nat \cup {None}, title : Nat \cup {None},
                     genres : Seq(Genres), cleared : BOOLEAN, format : {"vinyl", "cd"},
                     year : Nat \cup {None}, rating : Nat \cup {None}]
IsFilter(f) ==
    /\ f \in [q : [stripped : (SUBSET Nat) \cup {None}, typed : (SUBSET Nat) \cup {None}],
             fmt : {None, "vinyl", "cd"}, from : Nat \cup {None}, to : Nat \cup {None},
             genres : Seq(Genres)]
    /\ f.q.stripped # None => f.q.typed # None /\ f.q.typed \subseteq f.q.stripped

\* What a facet promises is what its link shows, while no genre is chosen and the text has no
\* blank at an end: a format has the count that it says.  The link of a decade takes the place
\* of the years, and so shows at least what it says; and so does a genre, which is counted in
\* its own spelling and listed in any (catalogue.py:572, catalogue.py:660), unless there is a
\* comma in it (catalogue.py:648).  With a blank at an end the formats promise what is found
\* without it, and their links show no more than that (catalogue.py:557, catalogue.py:820).
FacetsHold(cat, f) ==
    f.genres = <<>> =>
        /\ \A fmt \in {"vinyl", "cd"} : f.fmt # fmt =>
              LET shown == Cardinality(Full(cat, _fmt_toggle(f, fmt)))
              IN shown <= format_count(cat, f, fmt)
                 /\ (f.q.typed = f.q.stripped => shown = format_count(cat, f, fmt))
        /\ f.q.typed = f.q.stripped =>
              /\ \A d \in {1960, 1970} :
                    ~ (f.from = d /\ f.to = d + 9) =>
                       decade_count(cat, f, d) <= Cardinality(Full(cat, _decade_toggle(f, d)))
              /\ \A g \in UNION {ToSet(cat[t].genres) : t \in DOMAIN cat} : lower(g) \notin Commas =>
                    genre_count(cat, f, g) <= Cardinality(Pressings(cat, _genre_toggle(f, g)))

\* Every artist is on one page of the browser, the pages that are scrolled to are those that
\* are counted, and the cards count every pressing once.
PagesHold(cat, f) ==
    LET list == artists(cat, f)
        n == Len(list)
        pages == total_pages(n)
        counted[k \in 0..n] == IF k = 0 THEN 0 ELSE counted[k - 1] + list[k].pressing_count
    IN /\ \A i \in 1..n :
             Cardinality({p \in 1..pages : \E j \in Page(list, p) : list[j] = list[i]}) = 1
       /\ \A p \in 1..pages : has_next(n, p) <=> p < pages
       /\ counted[n] = Cardinality(Full(cat, f))
       /\ \A i \in 1..n : list[i].pressing_count = list[i].vinyl_count + list[i].cd_count

\* Each page of pressings is a query of its own, and their order is not total
\* (catalogue.py:757): a pressing may be on two pages or on none, but only one that shares its
\* artist and its title with another.
PressingsHold(cat, f) ==
    LET set == Pressings(cat, f)
        alone == {t \in set : \A s \in set \ {t} : <<cat[s].artist, cat[s].title>> # <<cat[t].artist, cat[t].title>>}
    IN \A t \in alone : \E p \in 1..total_pages(Cardinality(set)) :
          \A order \in Orders(cat, set) : \E i \in Page(order, p) : order[i] = t

\* The drill-down shows what it counts: the albums of an artist have all pressings of its card,
\* and each album those it says, except the one without a title, which shows none.
DrillDownHolds(cat) ==
    \A artist \in {cat[t].artist : t \in Named(cat)} :
        \A album \in albums(cat, artist) :
            album.title # None =>
                album.pressing_count = Cardinality(album_pressings(cat, artist, album.title))

\* The dashboard shows no token twice, and its figures are those of the token browser and,
\* but for tokens without an artist, of the artist browser.
DashboardHolds(cat, all) ==
    /\ \A d \in Dashboards(cat), t \in Live(cat) :
          Cardinality({g \in DOMAIN d.carousels : t \in d.carousels[g]})
              + (IF t \in d.recent THEN 1 ELSE 0) + (IF t \in d.top_rated THEN 1 ELSE 0) <= 1
    /\ stats(cat).total = Cardinality(token_list(cat, None, None))
    /\ stats(cat).vinyl = Cardinality(token_list(cat, None, "vinyl"))
    /\ stats(cat).artists = Len(artists(cat, all))

\* The search shows as much as it may and says so when there is more; while all fits, both
\* layouts find the same: the pressings of the artists found and the albums found are the flat
\* list.  Beyond its limit the flat list has that many of them, and not the first ones: they
\* were chosen by title and are shown by artist (routes.py:1451, routes.py:1588).  A pressing
\* that is opened at once is all that the flat list has.
SearchHolds(cat, q) ==
    \A scope \in {"all", "artists", "albums"} :
        LET names == Matching(cat, q, scope)
            titled == IF scope \in {"all", "albums"} THEN {t \in Live(cat) : cat[t].title \in q} ELSE {}
            found == titled \cup {t \in Live(cat) : cat[t].artist \in names}
            Cut(size, limit) == IF size < limit THEN size ELSE limit
        IN /\ \A hits \in panels(cat, q, scope) :
                 /\ hits.albums \subseteq titled /\ (hits.albums # titled <=> hits.albums_more)
                 /\ hits.artists \subseteq names
                 /\ Cardinality(hits.artists) = Cut(Cardinality(names), MaxArtists)
                 /\ hits.opened => found = hits.albums /\ Cardinality(found) = 1
           /\ \A flat \in flat_lists(cat, q, scope) :
                 flat \subseteq found /\ Cardinality(flat) = Cut(Cardinality(found), SEARCH_LIMIT)

\* The grid of artists has those of the artist browser with the same counts and years; behind a
\* card are as many pressings as it says, and the years on it are those of the first of them and
\* of the last one with a year (artists.py:54).
GridHolds(cat, all) ==
    LET grid == artists_index(cat, None)
    IN /\ {<<c.name, c.pressing_count, c.yr_min \cup c.yr_max>> : c \in grid}
             = {<<c.name, c.pressing_count, c.years>> : c \in ToSet(artists(cat, all))}
       /\ \A card \in grid : \A list \in artist_detail(cat, card.name) :
             LET dated == {i \in DOMAIN list : cat[list[i]].year # None}
             IN /\ Len(list) = card.pressing_count
                /\ \A last \in dated : (\A i \in dated : i <= last) =>
                      /\ card.yr_min = {cat[list[1]].year}
                      /\ card.yr_max = {cat[list[last]].year}
                /\ \A t \in ToSet(list) : cat[t].rating # None =>
                      \E r \in card.max_rating : r >= cat[t].rating

\* The lists of the catalogue, for one catalogue and one choice of filters.  There is no page
\* to speak of while a token that it would show has had its genres cleared (catalogue.py:589).
ListsAgree(cat, f) ==
    /\ index_fails(cat, f) \/ (FacetsHold(cat, f) /\ PagesHold(cat, f) /\ PressingsHold(cat, f))
    /\ DrillDownHolds(cat)
    /\ LET all == [f EXCEPT !.q = [stripped |-> None, typed |-> None],
                             !.fmt = None, !.from = None, !.to = None]
       IN DashboardHolds(cat, all) /\ GridHolds(cat, all)
    /\ f.q.stripped # None => SearchHolds(cat, f.q.stripped)
=============================================================================
