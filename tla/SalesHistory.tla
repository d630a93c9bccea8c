---------------------------- MODULE SalesHistory ----------------------------
(***************************************************************************)
(* The import of a pasted Discogs sales history: the rows that are read,   *)
(* the outliers among them, and the statistics and the confidence of the   *)
(* valuation that is stored (ingestion/discogs_sales_parser.py,            *)
(* ingestion/valuation_confidence.py, web/catalogue.py).                   *)
(*                                                                         *)
(* Data: a cell is [kind, value, currency] of kind "date" (value: days     *)
(* ago), "price" (value: a Number), "grade" (value: a grade, or None for   *)
(* "no sleeve"), "heading" or "other".  A Number is [groups, marks]:       *)
(* groups of digits [scale, value] with a mark "point" or "comma" between  *)
(* any two, where scale has a nought for each digit.  Rows are a function  *)
(* from the places where they are.  Prices are in ten-thousandths, as they *)
(* are quantized.                                                          *)
(***************************************************************************)
EXTENDS Integers, FiniteSets, Sequences, SequencesExt

CONSTANTS None,
          MaxRows, MaxTextLength, OldestAge, MaxPrice,
          FenceRows,               \* outliers are looked for among as many rows
          MediumRows, HighRows,    \* _ROW_COUNT_MEDIUM_MIN, _ROW_COUNT_HIGH_MIN
          HighDays, LowDays        \* _RECENCY_HIGH_DAYS, _RECENCY_LOW_DAYS

-----------------------------------------------------------------------------
\* The digits of groups in a row, as a number and with the scale of all of them.
Joined(groups) ==
    LET joined[n \in 0..Len(groups)] ==
            IF n = 0 THEN [scale |-> 1, value |-> 0]
            ELSE [scale |-> joined[n - 1].scale * groups[n].scale,
                  value |-> joined[n - 1].value * groups[n].scale + groups[n].value]
    IN joined[Len(groups)]

\* Where the decimal points are: the marks like the last one, but a comma alone is one only
\* if it has two digits behind it.
Points(number) ==
    LET last == Last(number.groups)
    IN IF ToSet(number.marks) = {"comma"} /\ last.scale # 100 THEN {}
       ELSE {i \in DOMAIN number.marks : number.marks[i] = number.marks[Len(number.marks)]}

\* A fraction in ten-thousandths; of two that are equally near, the even one.
Quantized(fraction) ==
    LET whole == (fraction.value * 10000) \div fraction.scale
        rest == (fraction.value * 10000) % fraction.scale
    IN IF \/ 2 * rest > fraction.scale
          \/ 2 * rest = fraction.scale /\ whole % 2 = 1
       THEN whole + 1 ELSE whole

\* A number in ten-thousandths.
Amount(number) ==
    LET points == Points(number)
        p == CHOOSE i \in points : TRUE
        fraction == Joined(SubSeq(number.groups, p + 1, Len(number.groups)))
    IN IF points = {} THEN Joined(number.groups).value * 10000
       ELSE Joined(SubSeq(number.groups, 1, p)).value * 10000 + Quantized(fraction)

\* _parse_price_and_currency: the price, or None; Decimal takes one point.
_parse_price(cell) ==
    IF \/ cell.kind # "price" \/ cell.currency = None \/ Cardinality(Points(cell.value)) > 1
       \/ Amount(cell.value) <= 0 \/ Amount(cell.value) > MaxPrice * 10000
    THEN None ELSE Amount(cell.value)

_parse_date(cell) == IF cell.kind = "date" /\ cell.value \in 0..OldestAge THEN cell.value ELSE None

\* _parse_row: each cell in turn is tried as the date, the price, the grade of the medium and
\* that of the sleeve, as long as these are not known.
NoRow == [date |-> None, price |-> None, currency |-> None, media |-> None, sleeve |-> {}]
WithCell(row, cell) ==
    IF row.date = None /\ _parse_date(cell) # None THEN [row EXCEPT !.date = _parse_date(cell)]
    ELSE IF row.price = None /\ _parse_price(cell) # None
         THEN [row EXCEPT !.price = _parse_price(cell), !.currency = cell.currency]
    ELSE IF cell.kind # "grade" THEN row
    ELSE IF row.media = None THEN [row EXCEPT !.media = cell.value]
    ELSE IF row.sleeve = {} THEN [row EXCEPT !.sleeve = {cell.value}] ELSE row
_parse_row(cells) ==
    LET row[n \in 0..Len(cells)] == IF n = 0 THEN NoRow ELSE WithCell(row[n - 1], cells[n])
    IN row[Len(cells)]
IsValid(row) == None \notin {row.date, row.price, row.media}

_is_header_line(cells) == Cardinality({i \in DOMAIN cells : cells[i].kind = "heading"}) >= 2

\* parse_sales_text of a text [length, release, lines], where release is the first release ID
\* in it and lines are sequences of cells.
Lines(text) == {i \in DOMAIN text.lines : Len(text.lines[i]) >= 2 /\ ~ _is_header_line(text.lines[i])}
Valid(text) == {i \in Lines(text) : IsValid(_parse_row(text.lines[i]))}
Parsed(text, expected) ==
    LET valid == [i \in Valid(text) |-> _parse_row(text.lines[i])]
        many == Cardinality(Valid(text)) > MaxRows
        refused == \/ text.lines = <<>> \/ text.length > MaxTextLength
                   \/ expected # None /\ text.release \notin {None, expected}
    IN IF refused THEN [hard_error |-> TRUE, valid_rows |-> <<>>, discarded |-> 0]
       ELSE [hard_error |-> many \/ Cardinality({valid[i].currency : i \in Valid(text)}) > 1,
             valid_rows |-> IF many THEN <<>> ELSE valid,
             discarded |-> Cardinality(Lines(text)) - Cardinality(Valid(text))]

-----------------------------------------------------------------------------
\* The price at a place in the order of the prices: fewer are below it than there are places
\* up to this one.
Below(rows, price) == {i \in DOMAIN rows : rows[i].price < price}
UpTo(rows, price) == {i \in DOMAIN rows : rows[i].price <= price}
Sorted(rows, place) ==
    CHOOSE price \in {rows[i].price : i \in DOMAIN rows} :
        Cardinality(Below(rows, price)) < place /\ place <= Cardinality(UpTo(rows, price))

\* A mistake of Fence: the quartiles are counted from one.
FenceShifted(rows) ==
    LET n == Cardinality(DOMAIN rows)
        q1 == Sorted(rows, IF n \div 4 = 0 THEN 1 ELSE n \div 4)
        q3 == Sorted(rows, (3 * n) \div 4)
    IN [lower |-> q1 - 3 * (q3 - q1), upper |-> q3 + 3 * (q3 - q1)]

\* apply_outlier_detection: three times the distance of the quartiles around them.
Fence(rows) ==
    LET n == Cardinality(DOMAIN rows)
        q1 == Sorted(rows, n \div 4 + 1)
        q3 == Sorted(rows, (3 * n) \div 4 + 1)
    IN [lower |-> q1 - 3 * (q3 - q1), upper |-> q3 + 3 * (q3 - q1)]
is_outlier(rows, i) ==
    /\ Cardinality(DOMAIN rows) >= FenceRows
    /\ rows[i].price \notin Fence(rows).lower..Fence(rows).upper
Kept(rows) == {i \in DOMAIN rows : ~ is_outlier(rows, i)}
non_outlier(rows) == [i \in Kept(rows) |-> rows[i]]

\* compute_statistics: the median is a price that was paid.
compute_statistics(rows) ==
    LET kept == non_outlier(rows)
        n == Cardinality(Kept(rows))
    IN IF n = 0 THEN [low |-> None, median |-> None, high |-> None, row_count |-> 0]
       ELSE [low |-> Sorted(kept, 1), median |-> Sorted(kept, (n + 1) \div 2),
             high |-> Sorted(kept, n), row_count |-> n]

\* calculate_confidence: the lower of two tiers, 0 for low, 1 for medium and 2 for high.
_row_count_tier(count) == IF count < MediumRows THEN 0 ELSE IF count < HighRows THEN 1 ELSE 2
_recency_tier(ages) ==
    IF \A age \in ages : age >= LowDays THEN 0 ELSE IF \A age \in ages : age > HighDays THEN 1 ELSE 2
Dates(rows) == {rows[i].date : i \in Kept(rows)}
calculate_confidence(rows) ==
    LET count == _row_count_tier(Cardinality(Kept(rows)))
        recency == _recency_tier(Dates(rows))
    IN IF count <= recency THEN count ELSE recency

\* import_sales_history_confirm: the import that is stored, or None if it is refused.
Import(rows, discarded) ==
    LET places == DOMAIN rows
    IN [statistics |-> compute_statistics(rows), confidence |-> calculate_confidence(rows),
        newest_sold |-> {d \in Dates(rows) : \A e \in Dates(rows) : d <= e},
        oldest_sold |-> {d \in Dates(rows) : \A e \in Dates(rows) : d >= e},
        currency |-> IF places = {} THEN None
                     ELSE rows[CHOOSE i \in places : \A j \in places : i <= j].currency,
        rows_found |-> Cardinality(places) + discarded,
        outlier_count |-> Cardinality(places) - Cardinality(Kept(rows))]
Stored(text, release) ==
    LET result == Parsed(text, release)
    IN IF result.hard_error THEN None ELSE Import(result.valid_rows, result.discarded)

-----------------------------------------------------------------------------
\* What the proofs need of the constants, and what is asked of an input: prices are numbers, and
\* a cell has what its kind says.
SalesAssumption ==
    /\ None \notin Int /\ None \notin STRING /\ None \notin {"EUR", "comma", "point"}
    /\ {FenceRows, MediumRows} \subseteq Nat \ {0}
    /\ {HighRows, MaxRows, MaxPrice, OldestAge} \subseteq Nat
    /\ {HighDays, LowDays} \subseteq Int
Row == [date : Nat, price : Nat, currency : STRING, media : STRING,
        sleeve : SUBSET (STRING \cup {None})]
IsNumber(number) ==
    /\ number.groups \in Seq([scale : Nat \ {0}, value : Nat]) /\ number.marks \in Seq({"comma", "point"})
    /\ Len(number.groups) = Len(number.marks) + 1
IsCell(cell) ==
    /\ cell.kind = "price" => IsNumber(cell.value) /\ cell.currency \in STRING \cup {None}
    /\ cell.kind = "date" => cell.value \in Int
IsSale(x) ==
    \/ x[1] = "rows" /\ x[2] \in Seq(Row)
    \/ x[1] = "price" /\ x[2] \in Nat
    \/ /\ x[1] = "text" /\ x[2].length \in Nat
       /\ Len(x[2].lines) \in Nat /\ DOMAIN x[2].lines = 1..Len(x[2].lines)
       /\ \A i \in DOMAIN x[2].lines :
             /\ Len(x[2].lines[i]) \in Nat /\ DOMAIN x[2].lines[i] = 1..Len(x[2].lines[i])
             /\ \A j \in DOMAIN x[2].lines[i] : IsCell(x[2].lines[i][j])

-----------------------------------------------------------------------------
\* How an amount in cents is written, with a mark between thousands and one before the cents.
Thousands(cents) == cents \div 100000
Written(cents, thousands, point) ==
    LET Group(scale, value) == [scale |-> scale, value |-> value]
        parted == thousands # None /\ Thousands(cents) > 0
        above == Group(100, Thousands(cents))
        below == Group(1000, (cents \div 100) % 1000)
        whole == Group(100000, cents \div 100)
        fraction == Group(100, cents % 100)
    IN IF point = None
       THEN IF parted THEN [groups |-> <<above, below>>, marks |-> <<thousands>>]
            ELSE [groups |-> <<whole>>, marks |-> <<>>]
       ELSE IF parted THEN [groups |-> <<above, below, fraction>>, marks |-> <<thousands, point>>]
            ELSE [groups |-> <<whole, fraction>>, marks |-> <<point>>]

\* A price is read as it is written in America and in Europe, with and without a mark between
\* the thousands and with or without cents, except 1.234, which is read as one and a bit
\* (discogs_sales_parser.py:503).
PricesRead(cents) ==
    \A style \in {<<None, "point">>, <<"comma", "point">>, <<None, "comma">>, <<"point", "comma">>,
                 <<None, None>>, <<"comma", None>>} :
        style[2] # None \/ cents % 100 = 0 =>
            _parse_price([kind |-> "price", currency |-> "EUR",
                          value |-> Written(cents, style[1], style[2])])
                = IF cents = 0 \/ cents > MaxPrice * 100 THEN None ELSE cents * 100

\* The outliers are never the majority, what is kept is an interval of prices, the median is
\* in the middle of it, and a history that is pasted twice in one text, or whose pages overlap
\* entirely, has the statistics of the history pasted once (discogs_sales_parser.py:327,
\* valuation_confidence.py:183) and at least its confidence: rows are not matched to each other.
StatisticsHold(rows) ==
    LET kept == Kept(rows)
        n == Cardinality(DOMAIN rows)
        once == compute_statistics(rows)
        twice == [p \in (DOMAIN rows) \X {1, 2} |-> rows[p[1]]]
    IN /\ 2 * Cardinality(kept) >= n
       /\ \A a, b \in kept, i \in DOMAIN rows :
             rows[i].price \in rows[a].price..rows[b].price => i \in kept
       /\ kept # {} =>
             /\ \E i \in kept : once.median = rows[i].price
             /\ 2 * Cardinality({i \in kept : rows[i].price <= once.median}) >= Cardinality(kept)
             /\ 2 * Cardinality({i \in kept : rows[i].price >= once.median}) >= Cardinality(kept)
       /\ n >= FenceRows =>
             /\ compute_statistics(twice) = [once EXCEPT !.row_count = 2 * @]
             /\ calculate_confidence(twice) >= calculate_confidence(rows)

\* What is stored is about one release and in one currency, its rows are all accounted for, its
\* dates are in order and its statistics are of rows that were valid; and the confidence in
\* nothing is low.
ImportHolds(text, release) ==
    \A import \in {Stored(text, release)} \ {None} :
        /\ None \in {text.release, release} \/ text.release = release
        /\ import.rows_found = Cardinality(Lines(text))
        /\ import.statistics.row_count + import.outlier_count <= import.rows_found
        /\ \A newest \in import.newest_sold, oldest \in import.oldest_sold : newest <= oldest
        /\ import.currency = None <=> import.statistics.row_count = 0
        /\ \A i \in Valid(text) : _parse_row(text.lines[i]).currency = import.currency
        /\ import.statistics.row_count = 0 => import.confidence = 0
=============================================================================
