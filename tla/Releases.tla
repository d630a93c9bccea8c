------------------------------ MODULE Releases ------------------------------
(***************************************************************************)
(* How a release of Discogs or MusicBrainz is found and read: the form for *)
(* a new token with its search, the scan of a cover, and the two readers   *)
(* of each source, one for the form and imports (web/catalogue.py) and one *)
(* of the connectors (ingestion/discogs.py, ingestion/musicbrainz.py).     *)
(*                                                                         *)
(* Data: what is typed is [kind, digits, is, limit]: a "uuid", "number" or *)
(* "text" with its number of digits, the release or barcode that it is and *)
(* the number of results asked for.  A release of Discogs is [formats,     *)
(* identifiers, catno, tracklist] with the name of each format,            *)
(* identifiers [type, side, value] and entries of the tracklist [heading,  *)
(* titled, side]; one of MusicBrainz has the formats of its media.  The    *)
(* sources are [up, has], has[r] = [of, barcode, words].                   *)
(***************************************************************************)
EXTENDS Integers, FiniteSets, Sequences, SequencesExt

CONSTANTS None,
          PerPage  \* how many releases a search by barcode asks for, and the form unless told

BarcodeDigits == {8, 12, 13}

-----------------------------------------------------------------------------
\* A mistake of Resolved: any number is a release of Discogs.
ResolvedNumber(typed) ==
    CASE typed.kind = "uuid" -> "mb_id"
      [] typed.kind = "number" -> "discogs_id"
      [] OTHER -> "text"

\* token_new_form: what is typed is a release of MusicBrainz, a barcode, a release of Discogs
\* or a text to search for.
Resolved(typed) ==
    CASE typed.kind = "uuid" -> "mb_id"
      [] typed.kind = "number" /\ typed.digits \in BarcodeDigits -> "barcode"
      [] typed.kind = "number" /\ typed.digits \notin BarcodeDigits -> "discogs_id"
      [] OTHER -> "text"

\* The answers of a source to a search: one page of what it finds, in an order of its own.
Answers(found, limit) ==
    {page \in SUBSET found :
        Cardinality(page) = IF Cardinality(found) < limit THEN Cardinality(found) ELSE limit}

\* What a source finds, for a barcode and for a text; nothing if it cannot be reached.
_discogs_barcode_search(sources, barcode) ==
    Answers({r \in DOMAIN sources.has : /\ sources.up /\ sources.has[r].of = "discogs"
                                       /\ sources.has[r].barcode = barcode}, PerPage)
_text_search(sources, source, text, limit) ==
    Answers({r \in DOMAIN sources.has : /\ sources.up /\ sources.has[r].of = source
                                       /\ text \in sources.has[r].words}, limit)

\* The tokens of the catalogue that have a release.
Duplicates(catalogue, r) == {t \in DOMAIN catalogue : catalogue[t].release = r /\ ~ catalogue[t].deleted}

\* The form is filled in with a release, or has the results of a search, each marked if it is in
\* the catalogue; scalar_one_or_none fails if two tokens have the release.
EmptyForm == [prefill |-> None, duplicate |-> None, results |-> {}, error |-> TRUE, fails |-> FALSE]
FilledIn(catalogue, sources, r) ==
    IF ~ sources.up \/ r \notin DOMAIN sources.has THEN EmptyForm
    ELSE [EmptyForm EXCEPT !.prefill = r, !.error = FALSE,
             !.duplicate = IF Duplicates(catalogue, r) = {} THEN None
                           ELSE CHOOSE t \in Duplicates(catalogue, r) : TRUE,
             !.fails = Cardinality(Duplicates(catalogue, r)) > 1]
Listed(catalogue, sources, found) ==
    [EmptyForm EXCEPT !.error = ~ sources.up,
        !.results = {[release |-> r, in_catalogue |-> Duplicates(catalogue, r) # {}] : r \in found}]

\* The forms that there may be, for there are several answers.
token_new_form(catalogue, sources, source, typed) ==
    LET OfText(of) == _text_search(sources, of, typed.is, typed.limit)
        OfBarcode == UNION {IF exact # {} THEN {exact} ELSE OfText("discogs") :
                               exact \in _discogs_barcode_search(sources, typed.is)}
    IN CASE Resolved(typed) \in {"discogs_id", "mb_id"} -> {FilledIn(catalogue, sources, typed.is)}
         [] Resolved(typed) = "barcode" -> {Listed(catalogue, sources, page) : page \in OfBarcode}
         [] OTHER -> {Listed(catalogue, sources, page) : page \in OfText(source)}

\* scan_cover: with one match for its barcode the form is filled in, else the form searches.
scan_cover(catalogue, sources, barcode) ==
    LET typed == [kind |-> barcode.kind, digits |-> barcode.digits, is |-> barcode.is, limit |-> PerPage]
    IN IF ~ barcode.readable THEN {EmptyForm}
       ELSE UNION {IF Cardinality(matches) = 1
                   THEN {FilledIn(catalogue, sources, CHOOSE r \in matches : TRUE)}
                   ELSE token_new_form(catalogue, sources, "discogs", typed) :
                      matches \in _discogs_barcode_search(sources, barcode.is)}

\* catalogue_search: the results of a search in the page, not marked.
catalogue_search(sources, source, typed) ==
    {[results |-> page, error |-> ~ sources.up] :
        page \in _text_search(sources, source, typed.is, typed.limit)}

-----------------------------------------------------------------------------
\* The format of a release: of the reader of the form a CD unless there is vinyl, of the
\* connector what comes first, with vinyl where neither is named.
FirstFormat(formats, vinyl, cd) ==
    LET named == SelectSeq(formats, LAMBDA f : f \in vinyl \cup cd)
    IN IF named # <<>> /\ named[1] \in cd THEN "cd" ELSE "vinyl"
_map_discogs_format(formats) == IF "Vinyl" \in ToSet(formats) THEN "vinyl" ELSE "cd"
_discogs_format_to_media(formats) == FirstFormat(formats, {"Vinyl", "LP"}, {"CD"})
_map_mb_format(formats) == FirstFormat(formats, {"Vinyl", "LP", "EP"}, {"CD", "Digital"})
_mb_format_to_media(formats) == FirstFormat(formats, {"Vinyl", "LP"}, {"CD"})

\* _map_discogs_fields: the runouts of side A and B, and what has neither to A if it is free.
Runout(found, ident) ==
    IF ident.type # "Matrix / Runout" THEN found
    ELSE IF found.a = None /\ ident.side = "A" THEN [found EXCEPT !.a = ident.value]
    ELSE IF found.b = None /\ ident.side = "B" THEN [found EXCEPT !.b = ident.value]
    ELSE IF found.a = None THEN [found EXCEPT !.a = ident.value] ELSE found
FirstOf(identifiers, type) ==
    LET found == SelectSeq(identifiers, LAMBDA ident : ident.type = type)
    IN IF found = <<>> THEN None ELSE found[1].value
_map_discogs_fields(release) ==
    LET runout == FoldLeft(Runout, [a |-> None, b |-> None], release.identifiers)
        titled == SelectSeq(release.tracklist, LAMBDA e : e.titled)
    IN [media_format |-> _map_discogs_format(release.formats),
        matrix_runout |-> runout.a, matrix_runout_b |-> runout.b,
        barcode |-> FirstOf(release.identifiers, "Barcode"),
        catalog_number |-> IF release.catno = "none" THEN None ELSE release.catno,
        tracks |-> [i \in DOMAIN titled |-> titled[i].side]]

\* DiscogsConnector._normalise, with its tracklist: a disc is two headings long.
_extract_tracklist(entries) ==
    LET add(sofar, entry) ==
            IF ~ entry.heading
            THEN [sofar EXCEPT !.tracks = Append(@, [disc |-> sofar.disc, side |-> entry.side])]
            ELSE [sofar EXCEPT !.sides = @ + 1, !.disc = IF sofar.sides > 0 /\ sofar.sides % 2 = 0
                                                         THEN @ + 1 ELSE @]
    IN FoldLeft(add, [tracks |-> <<>>, disc |-> 1, sides |-> 0], entries).tracks
_normalise(release) ==
    [media_format |-> _discogs_format_to_media(release.formats),
     matrix_runout |-> FirstOf(release.identifiers, "Matrix / Runout"),
     barcode |-> FirstOf(release.identifiers, "Barcode"),
     catalog_number |-> release.catno,
     tracks |-> _extract_tracklist(release.tracklist)]

\* import_tracks: the tracks of Discogs if they are asked for; those of MusicBrainz take their
\* place if they are asked for too, and are taken as well if there are no others.
import_tracks(source, of_discogs, of_musicbrainz) ==
    LET first == IF source \in {"discogs", "auto"} THEN of_discogs ELSE <<>>
    IN IF of_musicbrainz # <<>> /\ (first = <<>> \/ source \in {"musicbrainz", "auto"})
       THEN of_musicbrainz ELSE first

\* save_rating, from tenths to half stars; what is not from 0 to 10 clears the rating.
save_rating(tenths) == IF tenths \in 0..100 THEN (2 * tenths + 5) \div 10 ELSE None

-----------------------------------------------------------------------------
\* What is asked of a catalogue, of the sources and of what is typed or scanned; one match for a
\* barcode is told from several.
ReleasesAssumption == PerPage \in Nat /\ PerPage >= 2
IsShelf(catalogue) ==
    /\ IsFiniteSet(DOMAIN catalogue) /\ None \notin DOMAIN catalogue
    /\ \A t \in DOMAIN catalogue : catalogue[t].deleted \in BOOLEAN
IsSources(sources) ==
    sources.up \in BOOLEAN /\ IsFiniteSet(DOMAIN sources.has) /\ None \notin DOMAIN sources.has
IsTyped(typed) == typed.kind \in {"uuid", "number", "text"} /\ typed.limit \in Nat
IsScanned(barcode) == barcode.kind \in {"number", "text"} /\ barcode.readable \in BOOLEAN

\* Only Discogs is asked for a barcode.
Carrying(sources, barcode) ==
    {r \in DOMAIN sources.has : sources.has[r].of = "discogs" /\ sources.has[r].barcode = barcode}

\* What is typed finds what it is, and what is in the catalogue is said to be: a release number
\* fills in the form, unless it has as many digits as a barcode; a barcode lists the releases
\* that have it, all of them if they are on one page and else a page of them (catalogue.py:1708);
\* a text lists what the search of the page does; and a duplicate is shown, unless two tokens
\* have the release: then there is no form (catalogue.py:1109).
FormHolds(catalogue, sources, source, typed) ==
    LET forms == token_new_form(catalogue, sources, source, typed)
        Taken(r) == \E t \in DOMAIN catalogue : ~ catalogue[t].deleted /\ catalogue[t].release = r
        Shown(form) == {result.release : result \in form.results}
        number == typed.kind = "number" /\ typed.digits \notin BarcodeDigits
        matches == Carrying(sources, typed.is)
    IN /\ \A form \in forms :
             /\ form.fails =>
                   \E s, t \in DOMAIN catalogue :
                      /\ s # t /\ ~ catalogue[s].deleted /\ ~ catalogue[t].deleted
                      /\ {catalogue[s].release, catalogue[t].release} = {typed.is}
             /\ form.prefill # None /\ ~ form.fails => (form.duplicate # None <=> Taken(form.prefill))
             /\ \A result \in form.results : result.in_catalogue <=> Taken(result.release)
             /\ sources.up /\ typed.is \in DOMAIN sources.has /\ (typed.kind = "uuid" \/ number) =>
                   form.prefill = typed.is
             /\ sources.up /\ typed.kind = "number" /\ ~ number /\ matches # {} =>
                   /\ form.prefill = None /\ Shown(form) \subseteq matches
                   /\ Cardinality(Shown(form)) = IF Cardinality(matches) < PerPage
                                                 THEN Cardinality(matches) ELSE PerPage
       /\ typed.kind = "text" =>
             {Shown(form) : form \in forms}
                = {search.results : search \in catalogue_search(sources, source, typed)}

\* "If one Discogs match is found the form is pre-filled directly.  If multiple matches or only
\* a raw barcode, the search results list is shown." (catalogue.py:1632): so it is for barcodes
\* of 8, 12 or 13 digits and for those that are no numbers; other digits are taken for the
\* number of a release, and may fill in one that has nothing to do with the cover.
ScanHolds(catalogue, sources, barcode) ==
    LET matches == Carrying(sources, barcode.is)
    IN \A form \in scan_cover(catalogue, sources, barcode) :
          /\ sources.up /\ barcode.readable /\ Cardinality(matches) = 1 => form.prefill \in matches
          /\ form.prefill # None =>
                \/ matches = {form.prefill}
                \/ barcode.kind = "number" /\ barcode.digits \notin BarcodeDigits

\* A release has the same barcode and format whichever way it is read, if it is of one medium;
\* of several media, and of neither vinyl nor CD, the readers differ (catalogue.py:1776,
\* discogs.py:352, musicbrainz.py:216, catalogue.py:1455).  A runout of side B is read to side B,
\* and with one for each side at most, each is read to its own (catalogue.py:1785).  The tracks
\* are the same if all of them have a title and no heading has: the form takes a heading with
\* a title for a track (catalogue.py:1819).  With a heading for each side, the disc of a track
\* is the one that its side is of (discogs.py:372).
ReadersHold(release) ==
    LET form == _map_discogs_fields(release)
        connector == _normalise(release)
        kinds == ToSet(release.formats)
        runouts == SelectSeq(release.identifiers, LAMBDA ident : ident.type = "Matrix / Runout")
        OfSide(side) == {runouts[i].value : i \in {j \in DOMAIN runouts : runouts[j].side = side}}
        headings == SelectSeq(release.tracklist, LAMBDA e : e.heading)
    IN /\ form.barcode = connector.barcode
       /\ (\A i \in DOMAIN release.tracklist : release.tracklist[i].titled <=> ~ release.tracklist[i].heading) =>
             form.tracks = [i \in DOMAIN connector.tracks |-> connector.tracks[i].side]
       /\ kinds \in {{"Vinyl"}, {"CD"}, {"Vinyl", "LP"}} =>
             form.media_format = connector.media_format
             /\ _map_mb_format(release.formats) = _mb_format_to_media(release.formats)
             /\ form.media_format = _map_mb_format(release.formats)
       /\ connector.matrix_runout = None <=> form.matrix_runout = None /\ form.matrix_runout_b = None
       /\ form.matrix_runout_b # None <=> OfSide("B") # {}
       /\ (\A i, j \in DOMAIN runouts : runouts[i].side \in {"A", "B"}
                                       /\ (runouts[i].side = runouts[j].side => i = j)) =>
             /\ OfSide("A") = {form.matrix_runout} \ {None}
             /\ OfSide("B") = {form.matrix_runout_b} \ {None}
       /\ [i \in DOMAIN headings |-> headings[i].side] = [i \in DOMAIN headings |-> i]
          /\ (\A i \in DOMAIN release.tracklist : release.tracklist[i].heading
                 \/ \E j \in 1..(i - 1) : /\ release.tracklist[j].heading
                                          /\ \A k \in (j + 1)..i : ~ release.tracklist[k].heading
                                          /\ release.tracklist[j].side = release.tracklist[i].side) =>
             \A i \in DOMAIN connector.tracks :
                connector.tracks[i].disc = (connector.tracks[i].side + 1) \div 2
=============================================================================
