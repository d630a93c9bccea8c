------------------------------- MODULE Runouts -------------------------------
(***************************************************************************)
(* What MediaCat makes of the identifiers of a Discogs release and of the  *)
(* collection fields of a user: the runouts by variant, disc and side, the *)
(* variants that are those of the user's own copy, and the sheet of an     *)
(* album (ingestion/discogs_extras.py, web/discogs_details.py).            *)
(*                                                                         *)
(* Data: an identifier is [type, variant, side, code], variant a number or *)
(* None.  A side is [letter, n]: A or 1 is 1, and 0 is one that cannot be  *)
(* mapped, such as AA; or None.  A code is what is compared, without its   *)
(* spaces and case.  A field is [id, words, lp, side]: the words of its    *)
(* name that are known, and the disc and the side in it, or None.          *)
(***************************************************************************)
EXTENDS Integers, FiniteSets, Sequences, SequencesExt

CONSTANT None

-----------------------------------------------------------------------------
\* side_to_lp: two sides to a disc.
side_to_lp(side) ==
    IF side = None \/ side.n = 0 THEN None
    ELSE [lp |-> (side.n - 1) \div 2 + 1, side |-> IF side.n % 2 = 1 THEN "A" ELSE "B"]

\* lp_letters: the sides of a disc.
lp_letters(lp) == <<2 * lp - 1, 2 * lp>>

\* track_lp of a track [position, disc]: by a letter or by the number of the disc in its position,
\* or else by what the importer counted.
track_lp(track) ==
    IF track.position # None /\ track.position.letter THEN side_to_lp(track.position).lp
    ELSE IF track.position # None THEN IF track.position.n = 0 THEN 1 ELSE track.position.n
    ELSE track.disc

\* format_qty of formats [vinyl, qty]: what is no number counts for one.
format_qty(formats) ==
    LET count(f) == IF ~ f.vinyl THEN 0 ELSE IF f.qty \in {None, 0} THEN 1 ELSE f.qty
        total == FoldLeft(LAMBDA n, f : n + count(f), 0, formats)
    IN IF total = 0 THEN None ELSE total

-----------------------------------------------------------------------------
\* The places of the runouts of a variant on a side of a disc, as a list: digits before letters.
IsRunout(ident) == ident.type = "Matrix / Runout"
Sides(identifiers, variant, lp) ==
    LET On(ident) == /\ IsRunout(ident) /\ ident.variant = variant
                     /\ side_to_lp(ident.side) # None /\ side_to_lp(ident.side).lp = lp
        Of(letter, n) ==
            SelectSeq(identifiers, LAMBDA i : On(i) /\ i.side = [letter |-> letter, n |-> n])
        first == lp_letters(lp)[1]
    IN Of(FALSE, first) \o Of(FALSE, first + 1) \o Of(TRUE, first) \o Of(TRUE, first + 1)

\* group_runouts: the variants by their numbers, the one without a number last, each with its
\* discs in order.
group_runouts(identifiers) ==
    LET runouts == SelectSeq(identifiers, IsRunout)
        numbers == {runouts[i].variant : i \in DOMAIN runouts}
        sided(v) == {r \in ToSet(runouts) : r.variant = v /\ side_to_lp(r.side) # None}
        lps(v) == {side_to_lp(r.side).lp : r \in sided(v)}
        Group(v) == [variant |-> v,
                     lps |-> [i \in 1..Cardinality(lps(v)) |->
                                 LET lp == SetToSortSeq(lps(v), <)[i]
                                 IN [lp |-> lp, sides |-> Sides(identifiers, v, lp)]],
                     unsided |-> SelectSeq(runouts, LAMBDA r : r.variant = v /\ r \notin sided(v))]
        order == SetToSortSeq(numbers \ {None}, <) \o IF None \in numbers THEN <<None>> ELSE <<>>
    IN [variants |-> [i \in DOMAIN order |-> Group(order[i])],
        other |-> SelectSeq(identifiers, LAMBDA i : ~ IsRunout(i)), runout_count |-> Len(runouts)]

\* variant_runout_fill: the first code of each side of the first two discs.
variant_runout_fill(group) ==
    LET Codes(lp, side) ==
            UNION {{b.sides[j].code : j \in {k \in DOMAIN b.sides :
                       /\ side_to_lp(b.sides[k].side).side = side
                       /\ \A l \in 1..(k - 1) : side_to_lp(b.sides[l].side).side # side}} :
                   b \in {x \in ToSet(group.lps) : x.lp = lp}}
        keys == {k \in (1..2) \X {"A", "B"} : Codes(k[1], k[2]) # {}}
    IN [k \in keys |-> CHOOSE c \in Codes(k[1], k[2]) : TRUE]

\* mark_matching_variants: a variant is the user's own if it has every code that the user has.
matches(group, known) ==
    LET mine == DOMAIN known \cap ((1..2) \X {"A", "B"})
        codes == variant_runout_fill(group)
    IN mine # {} /\ \A k \in mine : k \in DOMAIN codes /\ codes[k] = known[k]

-----------------------------------------------------------------------------
\* classify_field: <<disc, side>> of a runout of the first two discs, or <<0, key>> of what the
\* words of the name say first.
classify_field(field) ==
    LET Says(word) == word \in field.words
    IN IF Says("runout")
       THEN IF field.side = None THEN None
            ELSE IF field.lp = None THEN <<1, field.side>>
            ELSE IF field.lp \in 1..2 THEN <<field.lp, field.side>> ELSE None
       ELSE IF Says("price") /\ ~ Says("paid") THEN <<0, "price_estimate">>
       ELSE IF Says("signed by") THEN <<0, "signed_by">>
       ELSE IF Says("signed on") THEN <<0, "signed_on">>
       ELSE IF Says("autograph") \/ field.words = {"signed"} THEN <<0, "autographed">>
       ELSE IF Says("notes") /\ Cardinality(field.words) = 1 THEN <<0, "notes">> ELSE None

\* collection_view: the value of a key is that of the first field that has one; a field is pending
\* while its value is not that on Discogs.
collection_view(collection) ==
    LET fields == collection.fields
        Value(f) == IF f.id \in DOMAIN collection.values THEN collection.values[f.id] ELSE None
        Remote(f) == IF f.id \in DOMAIN collection.remote THEN collection.remote[f.id] ELSE None
        filled == SelectSeq(fields, LAMBDA f : classify_field(f) # None /\ Value(f) # None)
        keys == {classify_field(f) : f \in ToSet(filled)}
    IN [known |-> [k \in keys |-> Value(SelectSeq(filled, LAMBDA f : classify_field(f) = k)[1])],
        pending |-> {f.id : f \in {x \in ToSet(fields) : Value(x) # Remote(x)}}]

\* build_sheet_data: of the first two discs those that the release has or that have anything, with
\* their tracks and runouts; disc one has MediaCat's own runouts where the collection has none.
build_sheet_data(token) ==
    LET known == collection_view(token.collection).known
        Own(k) == IF k \in DOMAIN token.matrix THEN token.matrix[k] ELSE None
        Code(k) == IF k \in DOMAIN known THEN known[k] ELSE IF k[1] = 1 THEN Own(k) ELSE None
        discs == {track_lp(t) : t \in ToSet(token.tracklist)}
        last == IF discs = {} THEN 1 ELSE CHOOSE d \in discs : \A e \in discs : e <= d
        qty == format_qty(token.formats)
        total == IF qty = None THEN last ELSE qty
        shown == {lp \in 1..2 : lp = 1 \/ total >= lp \/ lp \in discs \/ Code(<<lp, "A">>) # None
                                \/ Code(<<lp, "B">>) # None}
    IN [lp_total |-> IF total > last THEN total ELSE last,
        lps |-> [lp \in shown |->
                    [tracks |-> SelectSeq(token.tracklist, LAMBDA t : track_lp(t) = lp),
                     runouts |-> <<Code(<<lp, "A">>), Code(<<lp, "B">>)>>]]]

\* release_preview: the first variant, and up to three barcodes.
release_preview(identifiers) ==
    LET groups == group_runouts(identifiers)
        barcodes == SelectSeq(groups.other, LAMBDA i : i.type = "Barcode")
    IN [variant |-> IF groups.variants = <<>> THEN None ELSE groups.variants[1].variant,
        variant_count |-> Len(groups.variants),
        barcodes |-> SubSeq(barcodes, 1, IF Len(barcodes) < 3 THEN Len(barcodes) ELSE 3)]

-----------------------------------------------------------------------------
\* No runout of a release is lost or shown twice, whatever the order, the variants and the names of
\* its sides; the variants come in the order of their numbers; a user who copies the codes of a
\* variant into the fields of the collection has that variant marked as their own, together only
\* with such as have the same codes there; and a code that no variant has on that side marks none
\* (discogs_extras.py:169, discogs_extras.py:251).
VariantsHold(identifiers, fields) ==
    \A groups \in {group_runouts(identifiers)} :
    LET Count(g) == FoldLeft(LAMBDA n, b : n + Len(b.sides), Len(g.unsided), g.lps)
        Fill(g) == variant_runout_fill(g)
        fit(g) == {f \in ToSet(fields) : classify_field(f) \in DOMAIN Fill(g)}
        Typed(g) ==
            [fields |-> fields, remote |-> <<>>,
             values |-> [id \in {f.id : f \in fit(g)} |->
                            Fill(g)[classify_field(CHOOSE f \in fit(g) : f.id = id)]]]
        Known(g) == collection_view(Typed(g)).known
    IN /\ FoldLeft(LAMBDA n, g : n + Count(g), 0, groups.variants) = groups.runout_count
       /\ groups.runout_count + Len(groups.other) = Len(identifiers)
       /\ \A i, j \in DOMAIN groups.variants : i < j =>
             /\ groups.variants[i].variant # None
             /\ groups.variants[j].variant # None =>
                   groups.variants[i].variant < groups.variants[j].variant
       /\ \A g \in ToSet(groups.variants) : \A known \in {Known(g)} : DOMAIN known # {} =>
             /\ matches(g, known)
             /\ \A other \in ToSet(groups.variants) : matches(other, known) =>
                   \A k \in DOMAIN known : Fill(other)[k] = Fill(g)[k]
             /\ \A k \in DOMAIN known : \E r \in ToSet(identifiers) :
                   /\ IsRunout(r) /\ r.variant = g.variant /\ r.code = known[k]
                   /\ side_to_lp(r.side) = [lp |-> k[1], side |-> k[2]]
       /\ LET first == release_preview(identifiers).variant IN
          groups.variants # <<>> /\ first = None =>
             \A r \in ToSet(identifiers) : IsRunout(r) => r.variant = None

\* The sheet of an album loses none of its tracks and runouts, but for the discs after the second:
\* the total says that there are more; and what a field says that was paid is no estimate
\* (discogs_details.py:335, discogs_extras.py:293).
SheetHolds(token) ==
    \A sheet \in {build_sheet_data(token)}, view \in {collection_view(token.collection)} :
    LET fields == ToSet(token.collection.fields)
        Value(f) == token.collection.values[f.id]
    IN /\ \A i \in DOMAIN token.tracklist :
             LET lp == track_lp(token.tracklist[i]) IN
             IF lp \in 1..2 THEN /\ lp \in DOMAIN sheet.lps
                                 /\ token.tracklist[i] \in ToSet(sheet.lps[lp].tracks)
             ELSE sheet.lp_total > 2
       /\ \A k \in DOMAIN view.known : k \in (1..2) \X {"A", "B"} =>
             /\ k[1] \in DOMAIN sheet.lps
             /\ view.known[k] = sheet.lps[k[1]].runouts[IF k[2] = "A" THEN 1 ELSE 2]
       /\ \A k \in DOMAIN token.matrix : \/ token.matrix[k] \in ToSet(sheet.lps[1].runouts)
                                         \/ k \in DOMAIN view.known
       /\ \A k \in DOMAIN view.known : \E f \in fields :
             /\ f.id \in DOMAIN token.collection.values /\ Value(f) = view.known[k]
             /\ k = <<0, "price_estimate">> => "paid" \notin f.words
=============================================================================
