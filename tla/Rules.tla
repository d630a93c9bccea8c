------------------------------- MODULE Rules --------------------------------
(***************************************************************************)
(* The rule engine that decodes what is printed on a medium, in both of    *)
(* its forms (rules/engine.py): rules in Python (rules/local.py) and a     *)
(* policy that a server evaluates (rules/opa.py, deploy/opa).              *)
(*                                                                         *)
(* Data: fields are [barcode, runout, catalog].  A barcode is [length,     *)
(* prefix], its first three digits as a number, or None if they are not    *)
(* digits.  A runout is the sequence of the SID codes in it, [mastering,   *)
(* code], where mastering is whether it begins with an L.  A catalog       *)
(* number is [length, starts], the known prefixes that it starts with.     *)
(***************************************************************************)
EXTENDS Integers, Sequences

CONSTANT None

\* _BARCODE_PREFIXES of the rules in Python.
_BARCODE_PREFIXES == <<
    <<0, 99, "US">>, <<100, 139, "US">>, <<300, 379, "FR">>, <<400, 440, "DE">>,
    <<450, 459, "JP">>, <<460, 469, "RU">>, <<471, 471, "TW">>, <<489, 489, "HK">>,
    <<490, 499, "JP">>, <<500, 509, "GB">>, <<520, 521, "GR">>, <<528, 528, "LB">>,
    <<530, 530, "XK">>, <<531, 531, "MK">>, <<535, 535, "MT">>, <<539, 539, "IE">>,
    <<540, 549, "BE">>, <<560, 560, "PT">>, <<569, 569, "IS">>, <<570, 579, "DK">>,
    <<590, 590, "PL">>, <<599, 599, "HU">>, <<600, 601, "ZA">>, <<609, 609, "MU">>,
    <<611, 611, "MA">>, <<613, 613, "DZ">>, <<616, 616, "KE">>, <<618, 618, "CI">>,
    <<619, 619, "TN">>, <<621, 621, "SY">>, <<622, 622, "EG">>, <<690, 699, "CN">>,
    <<700, 709, "NO">>, <<729, 729, "IL">>, <<730, 739, "SE">>, <<740, 740, "GT">>,
    <<750, 750, "MX">>, <<754, 755, "CA">>, <<760, 769, "CH">>, <<770, 771, "CO">>,
    <<773, 773, "UY">>, <<775, 775, "PE">>, <<777, 777, "BO">>, <<779, 779, "AR">>,
    <<780, 780, "CL">>, <<784, 784, "PY">>, <<786, 786, "EC">>, <<789, 790, "BR">>,
    <<800, 839, "IT">>, <<840, 849, "ES">>, <<850, 850, "CU">>, <<858, 858, "SK">>,
    <<859, 859, "CZ">>, <<860, 860, "RS">>, <<865, 865, "MN">>, <<867, 867, "KP">>,
    <<868, 869, "TR">>, <<870, 879, "NL">>, <<880, 880, "KR">>, <<885, 885, "TH">>,
    <<888, 888, "SG">>, <<890, 890, "IN">>, <<893, 893, "VN">>, <<896, 896, "PK">>,
    <<899, 899, "ID">>, <<900, 919, "AT">>, <<930, 939, "AU">>, <<940, 949, "NZ">>,
    <<950, 950, "GS1_HQ">>, <<955, 955, "MY">>, <<958, 958, "MO">>, <<977, 977, "ISSN">>,
    <<978, 979, "ISBN">>>>

\* barcode_ranges of the policy.
barcode_ranges == {
    <<0, 139, "US">>, <<300, 379, "FR">>, <<400, 440, "DE">>, <<450, 459, "JP">>,
    <<460, 469, "RU">>, <<490, 499, "JP">>, <<500, 509, "GB">>, <<540, 549, "BE">>,
    <<560, 560, "PT">>, <<570, 579, "DK">>, <<590, 590, "PL">>, <<690, 699, "CN">>,
    <<700, 709, "NO">>, <<729, 729, "IL">>, <<730, 739, "SE">>, <<750, 750, "MX">>,
    <<754, 755, "CA">>, <<760, 769, "CH">>, <<779, 779, "AR">>, <<789, 790, "BR">>,
    <<800, 839, "IT">>, <<840, 849, "ES">>, <<858, 858, "SK">>, <<859, 859, "CZ">>,
    <<860, 860, "RS">>, <<868, 869, "TR">>, <<870, 879, "NL">>, <<880, 880, "KR">>,
    <<885, 885, "TH">>, <<890, 890, "IN">>, <<900, 919, "AT">>, <<930, 939, "AU">>,
    <<940, 949, "NZ">>}

\* _CATALOG_PREFIXES.
_CATALOG_PREFIXES == <<
    <<"MFSL", "Mobile Fidelity">>, <<"UHQR", "Mobile Fidelity">>, <<"AP", "Analogue Productions">>,
    <<"ORG", "ORG Music">>, <<"MOVLP", "Music On Vinyl">>, <<"MOFI", "Mobile Fidelity">>,
    <<"UIJY", "Universal Music Japan">>, <<"UICY", "Universal Music Japan">>,
    <<"SICP", "Sony Music Japan">>, <<"TOCP", "Toshiba-EMI Japan">>>>

\* What the first of the entries found in a table says in a column, if there is one.
FirstOf(table, found, column) ==
    IF found = {} THEN None ELSE table[CHOOSE i \in found : \A j \in found : i <= j][column]

-----------------------------------------------------------------------------
\* The rules in Python: each says whether it fires and what it finds.

\* A mistake of Matching: the upper end of a range is not in it.
MatchingOpen(prefix) ==
    {i \in DOMAIN _BARCODE_PREFIXES : prefix \in _BARCODE_PREFIXES[i][1]..(_BARCODE_PREFIXES[i][2] - 1)}

\* The ranges that a prefix is in.
Matching(prefix) ==
    {i \in DOMAIN _BARCODE_PREFIXES : prefix \in _BARCODE_PREFIXES[i][1].._BARCODE_PREFIXES[i][2]}

barcode_country(fields) ==
    [fires |-> fields.barcode.length >= 3 /\ fields.barcode.prefix # None,
     found |-> FirstOf(_BARCODE_PREFIXES, Matching(fields.barcode.prefix), 3)]
matrix_sid(fields) ==
    [fires |-> fields.runout # <<>>,
     found |-> [i \in DOMAIN fields.runout |->
         [type |-> IF fields.runout[i].mastering THEN "mastering" ELSE "mould",
          code |-> fields.runout[i].code]]]
catalog_prefix(fields) ==
    [fires |-> fields.catalog.length >= 2,
     found |-> FirstOf(_CATALOG_PREFIXES, {i \in DOMAIN _CATALOG_PREFIXES :
                                             _CATALOG_PREFIXES[i][1] \in fields.catalog.starts}, 2)]

\* LocalRuleEngine.decode: what the rules that fire have found, each under a name of its own.
decode(media_format, fields) ==
    LET Fires(rule) == media_format \in {"vinyl", "cd"} /\ rule.fires
        Of(rule) == IF Fires(rule) THEN rule.found ELSE None
    IN [status |-> IF \/ Fires(barcode_country(fields)) \/ Fires(matrix_sid(fields))
                      \/ Fires(catalog_prefix(fields))
                   THEN "matched" ELSE "unknown",
        decoded |-> [country |-> Of(barcode_country(fields)), sid_codes |-> Of(matrix_sid(fields)),
                     label_hint |-> Of(catalog_prefix(fields))],
        warnings |-> FALSE]

\* OpaRuleEngine.decode with the policy main.rego and barcode.rego, which knows of barcodes only;
\* a server that does not answer is an error, and the caller gets an answer all the same.
OpaDecode(fields, reachable) ==
    LET countries == {r[3] : r \in {s \in barcode_ranges : fields.barcode.prefix \in s[1]..s[2]}}
    IN IF ~ reachable THEN [status |-> "error", decoded |-> [country |-> None], warnings |-> TRUE]
       ELSE IF fields.barcode.length < 3 \/ fields.barcode.prefix = None \/ countries = {}
            THEN [status |-> "unknown", decoded |-> [country |-> None], warnings |-> TRUE]
       ELSE [status |-> "matched", decoded |-> [country |-> CHOOSE c \in countries : TRUE],
             warnings |-> FALSE]

-----------------------------------------------------------------------------
\* What is asked of the fields: the first three digits are a number if they are digits.
IsFields(fields) ==
    /\ fields.barcode \in [length : Nat, prefix : Nat \cup {None}]
    /\ fields.runout \in Seq([mastering : BOOLEAN, code : STRING])
    /\ fields.catalog \in [length : Nat, starts : SUBSET STRING]

\* "Swapping the backend is a one-line config change" (engine.py:9): of a vinyl or a CD, the
\* rules in Python decode all that the policy does, and to the same country, for each of the
\* thousand prefixes of a barcode; no prefix has two countries in either table; and where only
\* the rules in Python find a match, it is of a barcode outside the policy's table, of a SID
\* code or of a catalog number, known or not.
EnginesAgree(fields) ==
    LET policy == OpaDecode(fields, TRUE)
        prefix == fields.barcode.prefix
    IN \A format \in {"vinyl", "cd"} :
          LET rules == decode(format, fields) IN
          /\ policy.status = "matched" =>
                rules.status = "matched" /\ rules.decoded.country = policy.decoded.country
          /\ policy.status = "unknown" /\ rules.status = "matched" =>
                \/ prefix # None /\ \A r \in barcode_ranges : prefix \notin r[1]..r[2]
                \/ fields.runout # <<>> \/ fields.catalog.length >= 2
          /\ \A i, j \in Matching(prefix) : i = j
=============================================================================
