------------------------------ MODULE Biography ------------------------------
(***************************************************************************)
(* Where the biography of an artist comes from: Wikipedia, Discogs, the    *)
(* artist's own pages, or a statement that there is none                   *)
(* (ingestion/artist_bio.py, ingestion/wikipedia.py).                      *)
(*                                                                         *)
(* Data: a paragraph is [length, stops, spaces], where stops are the       *)
(* positions of ". " in it and spaces those of " ".  What the services     *)
(* know of a name is a record w:                                           *)
(*   links     the relations [kind, to] on MusicBrainz, or None            *)
(*   sitelink  the page that Wikidata has for the artist, or None          *)
(*   hits      the titles that a search of Wikipedia finds                 *)
(*   pages     of a title, [kind, named, meta, music, text, about, image]: *)
(*             kind is "standard", "disambiguation" or "missing", named    *)
(*             that the title is the name, text the length of its text     *)
(*   llm       whether there is a model, and verdict, what it says of a    *)
(*             title: TRUE, FALSE, or None without an answer               *)
(*   exact     the artist that Discogs has under this very name, or None   *)
(*   profiles  of an artist of Discogs, [text, sentences, about, image]    *)
(*   homes     of an address that answers, [text, summary], lengths, 0 for *)
(*             none                                                        *)
(* about is "this" or "other" artist.                                      *)
(***************************************************************************)
EXTENDS Integers, FiniteSets, Sequences, SequencesExt

CONSTANTS None,
          BIO_MIN_CHARS, BIO_MAX_CHARS, MinRoom,
          WIKI_SUFFICIENT_CHARS, WIKIPEDIA_WEIGHT, DISCOGS_MIN_CHARS, DISCOGS_MIN_SENTENCES,
          MinPage                  \* the least text of a home page that is summarised

Largest(S) == CHOOSE x \in S : \A y \in S : y <= x
First(S) == CHOOSE x \in S : \A y \in S : x <= y
-----------------------------------------------------------------------------
\* The length of what is left of a paragraph: up to the last sentence in the limit if that is
\* more than a third of it, or else up to the last space, with an ellipsis.
_cut_at_sentence(para, limit) ==
    LET stops == {i \in para.stops : i + 1 < limit /\ i > limit \div 3}
        spaces == {i \in para.spaces : i < limit}
    IN IF para.length <= limit THEN para.length
       ELSE IF stops # {} THEN Largest(stops) + 1
       ELSE IF spaces # {} THEN Largest(spaces) + 1 ELSE limit + 1

\* The length of a text of paragraphs; two characters are between them.
Total(picked) ==
    LET upto[k \in 0..Len(picked)] ==
            IF k = 0 THEN 0 ELSE upto[k - 1] + picked[k] + IF k = 1 THEN 0 ELSE 2
    IN upto[Len(picked)]

\* trim_bio: the lengths of the paragraphs that are taken.
Taking(sofar, para, min_chars) ==
    LET sep == IF sofar.picked = <<>> THEN 0 ELSE 2
        room == BIO_MAX_CHARS - sofar.length - sep
    IN IF sofar.over \/ (sofar.picked # <<>> /\ sofar.length >= min_chars)
       THEN [sofar EXCEPT !.over = TRUE]
       ELSE IF para.length <= room
            THEN [sofar EXCEPT !.picked = Append(@, para.length), !.length = @ + sep + para.length]
       ELSE [sofar EXCEPT !.over = TRUE,
                !.picked = IF room > MinRoom THEN Append(@, _cut_at_sentence(para, room)) ELSE @]
trim_bio(paragraphs, min_chars) ==
    LET upto[k \in 0..Len(paragraphs)] ==
            IF k = 0 THEN [picked |-> <<>>, length |-> 0, over |-> FALSE]
            ELSE Taking(upto[k - 1], paragraphs[k], min_chars)
    IN upto[Len(paragraphs)].picked

-----------------------------------------------------------------------------
Bio(length, source, about, image) ==
    [text |-> IF length < BIO_MAX_CHARS THEN length ELSE BIO_MAX_CHARS,
     source |-> source, about |-> about, image |-> image, found |-> TRUE]

\* musicbrainz_links: the first page, the addresses once each, and the last link to Discogs; the
\* page that Wikidata has is taken if there is no other.
musicbrainz_links(w) ==
    LET relations == IF w.links = None THEN <<>> ELSE w.links
        Of(kind) == {i \in DOMAIN relations : relations[i].kind = kind}
        add(pages, rel) == IF rel.kind = "homepage" /\ rel.to \notin ToSet(pages)
                           THEN Append(pages, rel.to) ELSE pages
    IN [mbid |-> w.links # None,
        wp_title |-> IF Of("wikipedia") # {} THEN relations[First(Of("wikipedia"))].to
                     ELSE IF Of("wikidata") # {} THEN w.sitelink ELSE None,
        homepages |-> FoldLeft(add, <<>>, relations),
        discogs |-> IF Of("discogs") # {} THEN relations[Largest(Of("discogs"))].to ELSE None]

\* A page without a summary, or of names that are alike, has no biography.
_wikipedia_bio(w, title, source) ==
    LET page == w.pages[title]
    IN IF page.kind # "standard" THEN None ELSE Bio(page.text, source, page.about, page.image)

\* The first page of a search that has the name for a title, reads like one of a music artist
\* and that the model does not reject.
_verified_search_hit(w) ==
    LET Passes(title) ==
            /\ w.pages[title].named /\ ~ w.pages[title].meta
            /\ w.pages[title].kind = "standard" /\ w.pages[title].music
            /\ (w.llm => w.verdict[title] # FALSE)
        passed == {i \in DOMAIN w.hits : Passes(w.hits[i])}
    IN IF passed = {} THEN None ELSE _wikipedia_bio(w, w.hits[First(passed)], "Wikipedia search")

\* The profile of the artist that MusicBrainz links or else that has the very name; state is "ok",
\* "no_bio" or "missing".
fetch_discogs_profile(w, linked) ==
    LET id == IF linked # None THEN linked ELSE w.exact
        profile == w.profiles[id]
    IN IF id = None \/ id \notin DOMAIN w.profiles THEN [bio |-> None, state |-> "missing"]
       ELSE IF profile.text < DISCOGS_MIN_CHARS \/ profile.sentences < DISCOGS_MIN_SENTENCES
            THEN [bio |-> None, state |-> "no_bio"]
       ELSE [bio |-> Bio(profile.text, "Discogs", profile.about, profile.image), state |-> "ok"]

choose_bio(wiki, discogs) ==
    IF wiki = None \/ discogs = None THEN IF wiki # None THEN wiki ELSE discogs
    ELSE IF discogs.text >= WIKIPEDIA_WEIGHT * wiki.text
         THEN [discogs EXCEPT !.source = "Discogs over Wikipedia",
                              !.image = IF @ = None THEN wiki.image ELSE @]
    ELSE wiki

\* The model writes a biography from one of the first two home pages.
Summarised(w, url) ==
    url \in DOMAIN w.homes /\ w.homes[url].text >= MinPage /\ w.homes[url].summary > 0
llm_summarise_homepage(w, homepages) ==
    LET usable == {i \in {1, 2} \cap DOMAIN homepages : Summarised(w, homepages[i])}
    IN IF ~ w.llm \/ usable = {} THEN None
       ELSE Bio(w.homes[homepages[First(usable)]].summary, "Official website", "this", None)

\* not_found_statement: the reasons that it gives.
not_found_statement(w, links, state) ==
    [found |-> FALSE,
     reasons |-> {IF links.mbid THEN "MusicBrainz lists no page" ELSE "not on MusicBrainz",
                  "no page matched",
                  IF state = "no_bio" THEN "the profile is no biography" ELSE "no profile",
                  IF links.homepages = <<>> THEN "no website is known"
                  ELSE IF w.llm THEN "no biography on the website" ELSE "the website was not read"}]

resolve_artist_bio(w) ==
    LET links == musicbrainz_links(w)
        linked == IF links.wp_title = None THEN None
                  ELSE _wikipedia_bio(w, links.wp_title, "MusicBrainz")
        wiki == IF linked # None THEN linked ELSE _verified_search_hit(w)
        profile == fetch_discogs_profile(w, links.discogs)
        chosen == choose_bio(wiki, profile.bio)
        written == llm_summarise_homepage(w, links.homepages)
    IN IF wiki # None /\ wiki.text >= WIKI_SUFFICIENT_CHARS THEN wiki
       ELSE IF chosen # None THEN chosen
       ELSE IF written # None THEN written
       ELSE not_found_statement(w, links, profile.state)

-----------------------------------------------------------------------------
\* What is asked of the limits, of a paragraph and of what the services know.
BioSources == {"MusicBrainz", "Wikipedia search", "Discogs", "Discogs over Wikipedia", "Official website"}
Bios == [text : Nat, source : BioSources, about : {"this", "other"}, image : STRING \cup {None},
         found : {TRUE}]
BiographyAssumption ==
    /\ {BIO_MIN_CHARS, BIO_MAX_CHARS, MinRoom, WIKI_SUFFICIENT_CHARS, WIKIPEDIA_WEIGHT,
        DISCOGS_MIN_CHARS, DISCOGS_MIN_SENTENCES} \subseteq Nat
    /\ BIO_MIN_CHARS + MinRoom + 2 <= BIO_MAX_CHARS /\ WIKI_SUFFICIENT_CHARS <= BIO_MAX_CHARS
    /\ None \notin Bios /\ None \notin STRING
Paragraphs == {para \in [length : Nat, stops : SUBSET Nat, spaces : SUBSET Nat] :
                  para.stops \cup para.spaces \subseteq 0..para.length}
IsWorld(w) ==
    LET Titles == DOMAIN w.pages
        Text == [text : Nat, sentences : Nat, about : {"this", "other"}, image : STRING \cup {None}]
    IN /\ w.hits \in Seq(Titles) /\ w.sitelink \in Titles \cup {None} /\ Titles \subseteq STRING
       /\ w.links # None =>
             /\ w.links \in Seq([kind : STRING, to : STRING])
             /\ \A i \in DOMAIN w.links : w.links[i].kind = "wikipedia" => w.links[i].to \in Titles
       /\ \A title \in Titles :
             w.pages[title] \in [kind : {"standard", "disambiguation", "missing"}, named : BOOLEAN,
                                meta : BOOLEAN, music : BOOLEAN, text : Nat, about : {"this", "other"},
                                image : STRING \cup {None}]
       /\ DOMAIN w.profiles \subseteq STRING /\ \A id \in DOMAIN w.profiles : w.profiles[id] \in Text
       /\ \A url \in DOMAIN w.homes : w.homes[url] \in [text : Nat, summary : Nat]
       /\ w.exact \in STRING \cup {None}

\* "Join whole paragraphs until min_chars is reached, never beyond max_chars" (artist_bio.py:169):
\* except that a paragraph without a space in the room that is left is one character too long, and
\* that a cut at the end of a sentence may leave a third of the room.
TrimHolds(paragraphs) ==
    \A picked \in {trim_bio(paragraphs, BIO_MIN_CHARS)} :
    LET whole == {i \in DOMAIN picked : picked[i] = paragraphs[i].length}
        Spaced(i) == \E j \in paragraphs[i].spaces : j <= MinRoom
    IN /\ Len(picked) <= Len(paragraphs) /\ 1..(Len(picked) - 1) \subseteq whole
       /\ Total(picked) <= BIO_MAX_CHARS + 1
       /\ Total(picked) > BIO_MAX_CHARS => picked # <<>> /\ ~ Spaced(Len(picked))
       /\ Total(picked) < BIO_MIN_CHARS =>
             \/ Len(picked) = Len(paragraphs)
             \/ \E i \in DOMAIN picked : i \notin whole

\* "so the page explains the gap instead of showing a wrong article" (artist_bio.py:20): with links,
\* pages of the name and verdicts that are right, what is shown is about the artist; where any
\* source has a biography there is one; Wikipedia is left for a text twice as long only; and the
\* reasons of the statement are true, except that MusicBrainz may well list a page, one that cannot
\* be read (artist_bio.py:206).
ResolutionHolds(w) ==
    \A bio \in {resolve_artist_bio(w)}, links \in {musicbrainz_links(w)} :
    LET Readable(title) == title # None /\ w.pages[title].kind = "standard"
        Fits(title) == /\ w.pages[title].named /\ ~ w.pages[title].meta
                       /\ w.pages[title].kind = "standard" /\ w.pages[title].music
        Real(id) == /\ id \in DOMAIN w.profiles /\ w.profiles[id].text >= DISCOGS_MIN_CHARS
                    /\ w.profiles[id].sentences >= DISCOGS_MIN_SENTENCES
    IN /\ bio.found /\ bio.about = "other" =>
             \/ Readable(links.wp_title) /\ w.pages[links.wp_title].about = "other"
             \/ \E id \in {links.discogs, w.exact} : Real(id) /\ w.profiles[id].about = "other"
             \/ \E i \in DOMAIN w.hits : /\ Fits(w.hits[i]) /\ w.pages[w.hits[i]].about = "other"
                                        /\ (w.llm => w.verdict[w.hits[i]] # FALSE)
       /\ (\/ Readable(links.wp_title)
           \/ \E i \in DOMAIN w.hits : Fits(w.hits[i]) /\ (w.llm => w.verdict[w.hits[i]] # FALSE)
           \/ Real(IF links.discogs # None THEN links.discogs ELSE w.exact)
           \/ w.llm /\ \E i \in {1, 2} \cap DOMAIN links.homepages : Summarised(w, links.homepages[i]))
          => bio.found
       /\ Readable(links.wp_title) /\ bio.source # "MusicBrainz" =>
             /\ bio.source = "Discogs over Wikipedia"
             /\ bio.text >= WIKIPEDIA_WEIGHT * w.pages[links.wp_title].text
             /\ w.pages[links.wp_title].image # None => bio.image # None
       /\ ~ bio.found =>
             /\ "MusicBrainz lists no page" \in bio.reasons => ~ Readable(links.wp_title)
             /\ "not on MusicBrainz" \in bio.reasons => w.links = None
             /\ "the profile is no biography" \in bio.reasons =>
                   \E id \in {links.discogs, w.exact} : id \in DOMAIN w.profiles /\ ~ Real(id)
             /\ "no website is known" \in bio.reasons <=> links.homepages = <<>>
=============================================================================
