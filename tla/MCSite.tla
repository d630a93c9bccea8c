------------------------------- MODULE MCSite -------------------------------
(***************************************************************************)
(* What TLC needs to check Inputs: the genres of the parts, the inputs of  *)
(* the modules without variables, and symmetry.                            *)
(***************************************************************************)
EXTENDS Inputs, TLC

Genre(word, spelling) == <<word, spelling>>
GenreLists == {<<Genre("rock", "Rock"), Genre("rock", "ROCK")>>,
               <<Genre("rock", "ROCK"), Genre("jazz", "Jazz"), Genre("folk", "Folk")>>, <<>>}

UpTo(n, S) == UNION {[1..k -> S] : k \in 0..n}
-----------------------------------------------------------------------------
\* Three tokens of two artists, one of them not live or without an artist, a title or a year,
\* or with its genres cleared; texts with and without a blank at an end, and one that is all blanks.
Tokens ==
    LET Tok(live, artist, title, tags, format, year) ==
            [live |-> live, artist |-> artist, title |-> title, genres |-> tags,
             cleared |-> tags = <<>>, format |-> format, year |-> year, rating |-> year]
        rock == Genre("rock", "rock")
        pop == Genre("pop", "Pop")
        folk == Genre("folk, world", "Folk, World")
    IN {Tok(TRUE, 1, 1, <<Genre("rock", "Rock")>>, "vinyl", 1965),
        Tok(TRUE, 1, 1, <<rock, pop>>, "cd", 1972), Tok(TRUE, 1, 2, <<>>, "vinyl", None),
        Tok(TRUE, 2, 1, <<folk>>, "cd", 1979),
        Tok(TRUE, 2, None, <<Genre("rock", "Rock")>>, "vinyl", 1968),
        Tok(FALSE, 2, 2, <<rock>>, "cd", 1970), Tok(TRUE, None, 2, <<pop>>, "cd", 1970)}
SomeCatalogues == [1..3 -> Tokens]
SomeFilters ==
    {[q |-> [stripped |-> q[1], typed |-> q[2]], fmt |-> fmt, from |-> years[1], to |-> years[2],
      genres |-> tags] :
        q \in {<<None, None>>, <<{1}, {1}>>, <<{1, 2}, {2}>>, <<None, {}>>}, fmt \in {None, "vinyl"}, tags \in {<<>>, <<Genre("rock", "rock")>>},
        years \in {<<None, None>>, <<1965, 1975>>, <<1970, 1979>>}}

\* Pasted rows of every kind, prices about each threshold, and histories of up to twelve sales
\* at three prices, the newest at either side of each tier of age.
SomeSales ==
    LET Date(age) == [kind |-> "date", value |-> age, currency |-> None]
        Grade(g) == [kind |-> "grade", value |-> g, currency |-> None]
        Price(cents, currency) ==
            [kind |-> "price", value |-> SalesHistory!Written(cents, None, "point"), currency |-> currency]
        Heading == [kind |-> "heading", value |-> None, currency |-> None]
        Lines == {<<Date(1), Grade("M"), Grade(None), Price(1000, "EUR")>>,
                  <<Price(2000, "EUR"), Date(900), Grade("VG")>>,
                  <<Date(3), Price(1000, "USD"), Grade("M"), Grade("G")>>,
                  <<Date(-1), Grade(None), Grade("M"), Price(500, "EUR")>>,
                  <<Grade(None), Grade("M"), Price(500, "EUR"), Date(-1), Date(5), Date(7)>>,
                  <<Heading, Heading, Grade("M")>>, <<Date(1)>>}
        Pasted == [lines : UpTo(3, Lines), length : {10, 101}, release : {None, 1}]
        Sales(count, age) ==
            LET prices == [i \in 1..count[1] |-> 10] \o [i \in 1..count[2] |-> 20]
                          \o [i \in 1..count[3] |-> 90]
            IN [i \in DOMAIN prices |->
                   [date |-> IF i = Len(prices) THEN age ELSE 800, price |-> prices[i],
                    currency |-> "EUR", media |-> "M", sleeve |-> {}]]
        Cents == {0, 5, 99, 100, 12345, 123456, 100000, 1234500, 9999900, 9999901, 10000000}
    IN {<<"rows", Sales(count, age)>> : count \in [1..3 -> 0..4], age \in {0, 180, 181, 729, 730}}
       \cup ({"price"} \X Cents) \cup ({"text"} \X Pasted \X {None, 1, 2})

\* Uploads about each limit, ranges of short files, short sequences of boxes and of reads.
SomeFiles ==
    LET Track(video, codec, width, height) ==
            [video |-> video, codec |-> codec, width |-> width, height |-> height]
        Upload(slot, bytes, tracks) ==
            [slot |-> slot, bytes |-> bytes, readable |-> TRUE, animated |-> FALSE,
             boxes |-> <<"ftyp", "mdat", "moov">>, tracks |-> tracks, duration |-> None]
        Image(width) == Upload("image", 3, <<Track(TRUE, None, width, 300)>>)
        Mp4(height) == Upload("mp4", 5, <<Track(TRUE, "avc1", 640, height)>>)
        Offered == {Image(1200), Image(1199), [Image(1200) EXCEPT !.bytes = 4, !.animated = TRUE],
                  Upload("mp4", 5, <<Track(FALSE, "mp4a", 0, 0), Track(TRUE, "avc1", 640, 400),
                                     Track(TRUE, "hvc1", 0, 0)>>),
                  [Upload("mp4", 5, <<Track(TRUE, "hvc1", 640, 400)>>) EXCEPT !.duration = 70],
                  Mp4(0), [Mp4(0) EXCEPT !.bytes = 7, !.readable = FALSE],
                  Upload("webm", 5, <<Track(TRUE, None, 0, 0), Track(TRUE, "V_VP9", 3840, 1)>>),
                  [Upload("webm", 5, <<Track(TRUE, "V_VP8", 800, 400)>>) EXCEPT !.duration = 61],
                  Upload("gif", 2, <<>>), Upload("image", 0, <<>>)}
    IN ({"upload"} \X UpTo(3, Offered) \X {"video", "image"})
       \cup ({"range"} \X (0..4) \X [first : (0..5) \cup {None}, last : (0..5) \cup {None}])
       \cup ({"boxes"} \X [0..3 -> [size : 0..4, large : BOOLEAN]] \X (0..5))
       \cup ({"reads"} \X UpTo(5, {"a", "b", "c", "d"}) \X {[a |-> 1, b |-> 2, c |-> 3, d |-> 6]})

\* Every prefix of a barcode, with and without what the other rules look at.
SomeRules ==
    [barcode : [length : {2, 13}, prefix : (0..999) \cup {None}],
     runout : {<<>>, <<[mastering |-> TRUE, code |-> "c1"], [mastering |-> FALSE, code |-> "c2"]>>},
     catalog : {[length |-> 0, starts |-> {}], [length |-> 5, starts |-> {"MOVLP"}],
                [length |-> 4, starts |-> {}]}]

\* Catalogues of up to two tokens and four releases; formats, identifiers and tracklists.
SomeReleases ==
    LET Shelves == UpTo(2, [release : {"r1", "r2", "m1"}, deleted : BOOLEAN])
        Known(of, barcode, words) == [of |-> of, barcode |-> barcode, words |-> words]
        Sources ==
            [up : BOOLEAN,
             has : {[r1 |-> Known("discogs", "b1", {"x"}), r2 |-> Known("discogs", b, words),
                     m1 |-> Known("musicbrainz", None, {"x"}), r3 |-> Known("discogs", b, words)] :
                       b \in {None, "b1", "b3"}, words \in {{}, {"x", "b1"}}}]
        Typed(kind, digits, is, limit) == [kind |-> kind, digits |-> digits, is |-> is, limit |-> limit]
        Queries == {Typed("uuid", 0, "m1", 1), Typed("number", 12, "b1", 1), Typed("number", 8, "r1", 2),
                    Typed("number", 4, "r1", 1), Typed("number", 4, "r9", 1), Typed("text", 0, "x", 2)}
        Barcodes == {[kind |-> b[1], digits |-> b[2], is |-> b[3], readable |-> readable] :
                       b \in {<<"number", 12, "b1">>, <<"number", 12, "b3">>, <<"number", 7, "b1">>,
                              <<"number", 7, "r2">>, <<"text", 0, "b1">>}, readable \in BOOLEAN}
        Of(formats, ids, entries) ==
            [formats |-> formats, identifiers |-> ids, catno |-> "none", tracklist |-> entries]
        Sides(n) == [i \in 1..(2 * n) |->
                        [heading |-> i % 2 = 1, titled |-> i % 2 = 0, side |-> (i + 1) \div 2]]
        Ids == [type : {"Matrix / Runout", "Barcode"}, side : {"A", "B", None}, value : {1, 2}]
        ToRead == {Of(f, <<>>, <<>>) : f \in UpTo(3, {"Vinyl", "LP", "CD", "EP", "Digital", "Box"})}
                  \cup {Of(<<"Vinyl">>, ids, <<>>) : ids \in UpTo(3, Ids)}
                  \cup {Of(<<"CD">>, <<>>, entries) :
                           entries \in {Sides(n) : n \in 0..4}
                                       \cup UpTo(3, [heading : BOOLEAN, titled : BOOLEAN, side : 1..2])}
    IN ({"form"} \X Shelves \X Sources \X {"discogs", "musicbrainz"} \X Queries)
       \cup ({"scan"} \X Shelves \X Sources \X Barcodes) \cup ({"read"} \X ToRead)

\* Releases with up to three identifiers over two variants and five sides, the fields of a user,
\* and albums of up to three discs.
SomeRunouts ==
    LET Side(letter, n) == [letter |-> letter, n |-> n]
        Ident(type, variant, side, code) ==
            [type |-> type, variant |-> variant, side |-> side, code |-> code]
        SidesOf == {Side(TRUE, 1), Side(FALSE, 1), Side(TRUE, 2), Side(TRUE, 4), Side(TRUE, 0), None}
        Ids == {Ident("Matrix / Runout", v, s, c) : v \in {None, 1, 2}, s \in SidesOf, c \in {"c1", "c2"}}
               \cup {Ident("Barcode", None, None, "c1")}
        Few == {i \in Ids : /\ i.variant # 2 /\ i.code = (IF i.variant = 1 THEN "c1" ELSE "c2")
                            /\ i.side \in {Side(TRUE, 1), Side(FALSE, 1), Side(TRUE, 4), None}}
        Field(id, words, lp, side) == [id |-> id, words |-> words, lp |-> lp, side |-> side]
        Labels == <<Field(1, {"runout"}, None, "A"), Field(2, {"runout"}, 1, "A"),
                   Field(3, {"runout"}, 2, "B"), Field(4, {"runout"}, 3, "A"),
                   Field(5, {"price", "paid"}, None, None)>>
        SomeFields == {SubSeq(Labels, 2, 5), Labels}
        Track == [position : {None, Side(TRUE, 3), Side(FALSE, 2), Side(TRUE, 6)}, disc : {1, 2}]
        Album == [tracklist : UpTo(2, Track),
                  formats : {<<>>, <<[vinyl |-> TRUE, qty |-> None]>>, <<[vinyl |-> FALSE, qty |-> 3]>>},
                  matrix : {<<>>, <<1, "A">> :> "m1"},
                  collection : [fields : SomeFields, remote : {<<>>},
                                values : UNION {[S -> {"c1"}] : S \in SUBSET {1, 3, 5}}]]
    IN ({"variants"} \X (UpTo(2, Ids) \cup UpTo(3, Few)) \X SomeFields) \cup ({"sheet"} \X Album)

\* Names with and without links, pages of the artist and of others, a model that is right, wrong
\* or silent, and texts about each limit.
SomeBiographies ==
    LET Page(kind, meta, music, text, about) ==
            [kind |-> kind, named |-> TRUE, meta |-> meta, music |-> music, text |-> text,
             about |-> about, image |-> IF text > 5 THEN "w" ELSE None]
        Pages == {Page("standard", FALSE, TRUE, 9, "this"), Page("standard", FALSE, TRUE, 3, "this"),
                  Page("standard", FALSE, TRUE, 5, "other"), Page("standard", FALSE, FALSE, 9, "other"),
                  Page("standard", TRUE, TRUE, 9, "other"), Page("missing", FALSE, FALSE, 0, "this"),
                  Page("disambiguation", FALSE, TRUE, 3, "other")}
        Rel(kind, to) == [kind |-> kind, to |-> to]
        Links == {None, <<>>, <<Rel("wikipedia", "t1"), Rel("wikidata", "q"), Rel("homepage", "h1")>>,
                  <<Rel("wikidata", "q"), Rel("discogs", "d1")>>,
                  <<Rel("homepage", "h1"), Rel("homepage", "h1"), Rel("homepage", "h2"),
                    Rel("wikipedia", "t2")>>}
        Profile(text, sentences, about) ==
            [text |-> text, sentences |-> sentences, about |-> about, image |-> None]
        Worlds ==
            [links : Links, sitelink : {None, "t1"}, hits : {<<>>, <<"t2", "t1">>},
             pages : [t1 : Pages, t2 : {p \in Pages : p.text > 0}],
             llm : BOOLEAN, verdict : [t1 : {TRUE, FALSE}, t2 : {FALSE, None}], exact : {None, "d1"},
             profiles : {<<>>, "d1" :> Profile(6, 2, "this"), "d1" :> Profile(10, 1, "this"),
                         "d1" :> Profile(12, 3, "other")},
             homes : {[h1 |-> [text |-> 1, summary |-> 3], h2 |-> [text |-> 4, summary |-> 3]]}]
        Para(length, stops, spaces) == [length |-> length, stops |-> stops, spaces |-> spaces]
        Paras == {Para(3, {}, {}), Para(8, {4}, {2, 5}), Para(14, {2}, {1, 3, 9}),
                  Para(14, {6, 9}, {7, 10}), Para(13, {}, {}), Para(5, {}, {2})}
    IN ({"world"} \X {w \in Worlds : /\ w.links = None \/ w.sitelink # None
                                     /\ w.llm \/ w.verdict = [t1 |-> TRUE, t2 |-> None]})
       \cup ({"text"} \X UpTo(3, Paras))

\* Up to two albums of two names in three spellings on each of the sources, one of the artists of
\* Spotify another one, and tokens that are archived, of another artist or linked already.
SomeDiscographies ==
    LET titles == {<<"a", "A">>, <<"a", "a">>, <<"b", "B">>}
        Group(title, type, date) == [title |-> title, type |-> type, date |-> date]
        Groups == UpTo(2, {Group(t, "album", d) : t \in titles, d \in {1970, None}}
                          \cup {Group(<<"b", "B">>, "other", 1960)})
        Page(named, meta, albums) == [named |-> named, meta |-> meta, albums |-> albums]
        Row(title, date) == [title |-> title, date |-> date]
        Pages == {<<>>, <<Page(TRUE, FALSE, <<Row(<<"b", "B">>, 1980), Row(<<"a", "A">>, 1970)>>)>>,
                  <<Page(FALSE, FALSE, <<Row(<<"a", "A">>, 1970)>>), Page(TRUE, FALSE, <<>>)>>}
        Artist(name, popularity, id) == [name |-> name, popularity |-> popularity, id |-> id]
        Found == {None, <<>>, <<Artist(FALSE, 9, "s2"), Artist(TRUE, 2, "s1")>>,
                  <<Artist(TRUE, 5, "s2"), Artist(TRUE, 2, "s1")>>}
        Release(id, title, url) == [id |-> id, title |-> title, url |-> url]
        OnSpotify ==
            [s1 |-> <<<<Release(1, <<"a", "A">>, "u1"), Release(2, <<"b", "b">>, None)>>,
                      <<Release(1, <<"a", "A">>, "u1"), Release(3, <<"a", "a">>, "u3")>>>>,
             s2 |-> <<<<Release(4, <<"b", "B">>, "u4")>>>>]
        Token(live, mine, title, url) == [live |-> live, artist |-> mine, title |-> title, url |-> url]
        Shelf == {<<>>, <<Token(TRUE, TRUE, <<"a", "A">>, None), Token(FALSE, TRUE, <<"b", "B">>, None)>>,
                  <<Token(TRUE, TRUE, <<"a", "a">>, "u9"), Token(TRUE, FALSE, <<"b", "B">>, None)>>}
        Worlds == [groups : Groups \cup {None}, pages : Pages, keys : BOOLEAN, found : Found,
                   releases : {OnSpotify}]
    IN {"discography"} \X Worlds \X Shelf \X Shelf

Symmetry == Permutations(Editors) \cup Permutations(Visits) \cup Permutations(Fields)
=============================================================================
