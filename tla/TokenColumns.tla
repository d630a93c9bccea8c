---------------------------- MODULE TokenColumns ----------------------------
(***************************************************************************)
(* Columns of a token that hold a list or an object and are rewritten as a *)
(* whole (web/catalogue.py): the genres, which the user chooses, imports   *)
(* add to and a re-import of the collection replaces (web/admin.py); and   *)
(* the parsed parts of the matrix number, which an analysis of the image   *)
(* replaces and the user corrects one at a time.                           *)
(*                                                                         *)
(* A request loads the row, computes the new value of the column and       *)
(* commits, with an await before the commit; nothing is locked.  What is   *)
(* computed is written only when it differs from what was loaded.  The     *)
(* re-import alone writes without loading.                                 *)
(*                                                                         *)
(* Data: a genre is a word in one of its spellings; two spellings of a     *)
(* word are the same genre.  A list has no empty or blank genres left      *)
(* (_sanitize_genre), and NULL is the empty list.  A finding is what an    *)
(* analysis says of a part, also that it could not be read; it has its     *)
(* source with it, so it is no reading of the user's.                      *)
(***************************************************************************)
EXTENDS Naturals, Sequences

CONSTANTS
    Words, Spellings,
    Cap,        \* _GENRE_MAX_COUNT
    Lists,      \* lists of genres that users and services come up with
    Parts,      \* keys of matrix_runout_parsed
    Readings,   \* what the user may enter for a part
    Findings,   \* what an analysis may say of a part
    Clients,    \* requests
    None

Genres == Words \X Spellings

ColumnsAssumption == Lists \subseteq Seq(Genres) /\ Cap \in Nat

Part == Readings \cup Findings \cup {None}

VARIABLES
    genres,   \* Token.genres
    parsed,   \* Token.matrix_runout_parsed
    where,    \* where each request is
    asked,    \* what it is to do
    loaded,   \* the row it has loaded
    chosen,   \* the words of the list that was last set as a whole (history)
    entered,  \* what was last entered or found for each part (history)
    outdated  \* requests whose loaded column another one has replaced (history)

columnVars == <<genres, parsed, where, asked, loaded, chosen, entered, outdated>>

GenreRequests ==
    [kind : {"save genres", "import genres", "re-import"}, list : Lists]
    \cup [kind : {"correct"}, part : Parts, reading : Readings]
    \cup [kind : {"apply"}, analysis : [Parts -> Findings]]

Init ==
    /\ genres = <<>> /\ parsed = [p \in Parts |-> None]
    /\ where = [c \in Clients |-> "idle"]
    /\ asked = [c \in Clients |-> None]
    /\ loaded = [c \in Clients |-> None]
    /\ chosen = {} /\ entered = [p \in Parts |-> None]
    /\ outdated = {}

-----------------------------------------------------------------------------
(* Lists of genres *)

WordsOf(list) == {list[i][1] : i \in DOMAIN list}

\* g is added unless its word is there.
AddGenre(list, g) == IF g[1] \in WordsOf(list) THEN list ELSE Append(list, g)

\* The incoming genres, one after the other.
AddGenres(list, incoming) ==
    LET after[n \in 0..Len(incoming)] ==
            IF n = 0 THEN list ELSE AddGenre(after[n - 1], incoming[n])
    IN after[Len(incoming)]

\* _sanitize_genre_list: the first spelling of each word, and at most Cap of them.
Sanitized(list) ==
    LET distinct == AddGenres(<<>>, list)
    IN SubSeq(distinct, 1, IF Len(distinct) < Cap THEN Len(distinct) ELSE Cap)

\* _merge_genres: incoming genres are added after the existing ones.
MergeGenres(existing, incoming) ==
    AddGenres(existing, Sanitized(incoming))

-----------------------------------------------------------------------------
Move(c, label) == where' = [where EXCEPT ![c] = label]

\* A request comes in; an import fetches its list first.
Ask(c, request) ==
    /\ where[c] = "idle"
    /\ asked' = [asked EXCEPT ![c] = request]
    /\ Move(c, "load")
    /\ UNCHANGED <<genres, parsed, loaded, chosen, entered, outdated>>

\* The row is loaded in the session that will write it.
Load(c) ==
    /\ where[c] = "load" /\ asked[c].kind # "re-import"
    /\ loaded' = [loaded EXCEPT ![c] = [genres |-> genres, parsed |-> parsed]]
    /\ Move(c, "store")
    /\ UNCHANGED <<genres, parsed, asked, chosen, entered, outdated>>

Finish(c) ==
    /\ Move(c, "idle")
    /\ asked' = [asked EXCEPT ![c] = None]
    /\ loaded' = [loaded EXCEPT ![c] = None]

\* The others that have loaded the same column and are yet to write it.
Overtakes(c, kinds) ==
    {d \in Clients \ {c} : where[d] = "store" /\ asked[d].kind \in kinds}

OfGenres == {"save genres", "import genres"}
OfParts == {"correct", "apply"}

\* The flush leaves a column alone whose new value equals the one that was loaded.
Written(loadedValue, new, stored) == IF new = loadedValue THEN stored ELSE new

\* What a request that loaded an outdated list takes away, or leaves away, is lost.
Kept(c, words, list) == IF c \in outdated THEN words \cap WordsOf(list) ELSE words

\* save_genres: the list of the form replaces the column.
SaveGenres(c) ==
    /\ where[c] = "store" /\ asked[c].kind = "save genres"
    /\ LET list == Sanitized(asked[c].list) IN
         /\ genres' = Written(loaded[c].genres, list, genres)
         /\ chosen' = Kept(c, WordsOf(list), genres')
    /\ outdated' = (outdated \cup Overtakes(c, OfGenres)) \ {c}
    /\ Finish(c)
    /\ UNCHANGED <<parsed, entered>>

\* import_genres, and the genres of sync_discogs_execute: what is found is added to the
\* list as it was loaded.
ImportGenres(c) ==
    /\ where[c] = "store" /\ asked[c].kind = "import genres"
    /\ genres' = Written(loaded[c].genres, MergeGenres(loaded[c].genres, asked[c].list), genres)
    /\ chosen' = Kept(c, chosen, genres')
    /\ outdated' = (outdated \cup Overtakes(c, OfGenres)) \ {c}
    /\ Finish(c)
    /\ UNCHANGED <<parsed, entered>>

\* _run_import of a release that is there already: an UPDATE sets the genres to those of the
\* release, whoever chose the ones before, unless it has none.
Reimport(c) ==
    /\ where[c] = "load" /\ asked[c].kind = "re-import"
    /\ LET list == Sanitized(asked[c].list) IN
         IF list = <<>> THEN UNCHANGED <<genres, chosen, outdated>>
         ELSE /\ genres' = list
              /\ chosen' = WordsOf(list)
              /\ outdated' = outdated \cup Overtakes(c, OfGenres)
    /\ Finish(c)
    /\ UNCHANGED <<parsed, entered>>

\* A mistake of Correct: the other parts are dropped.
CorrectAlone(c) ==
    /\ where[c] = "store" /\ asked[c].kind = "correct"
    /\ parsed' = [p \in Parts |-> IF p = asked[c].part THEN asked[c].reading ELSE None]
    /\ entered' = IF c \in outdated THEN parsed'
                  ELSE [entered EXCEPT ![asked[c].part] = asked[c].reading]
    /\ outdated' = (outdated \cup Overtakes(c, OfParts)) \ {c}
    /\ Finish(c)
    /\ UNCHANGED <<genres, chosen>>

\* correct_matrix_field: the object as it was loaded, with one part replaced.
Correct(c) ==
    /\ where[c] = "store" /\ asked[c].kind = "correct"
    /\ LET old == loaded[c].parsed IN
         parsed' = Written(old, [old EXCEPT ![asked[c].part] = asked[c].reading], parsed)
    /\ entered' = IF c \in outdated THEN parsed'
                  ELSE [entered EXCEPT ![asked[c].part] = asked[c].reading]
    /\ outdated' = (outdated \cup Overtakes(c, OfParts)) \ {c}
    /\ Finish(c)
    /\ UNCHANGED <<genres, chosen>>

\* apply_ocr_to_pressing: the parts that an analysis found, and nothing of what was there.
Apply(c) ==
    /\ where[c] = "store" /\ asked[c].kind = "apply"
    /\ parsed' = Written(loaded[c].parsed, asked[c].analysis, parsed)
    /\ entered' = IF c \in outdated THEN parsed' ELSE asked[c].analysis
    /\ outdated' = (outdated \cup Overtakes(c, OfParts)) \ {c}
    /\ Finish(c)
    /\ UNCHANGED <<genres, chosen>>

\* The token is gone, or the commit fails.
Fail(c) ==
    /\ where[c] = "store" \/ (where[c] = "load" /\ asked[c].kind = "re-import")
    /\ outdated' = outdated \ {c}
    /\ Finish(c)
    /\ UNCHANGED <<genres, parsed, chosen, entered>>

Next ==
    \E c \in Clients :
        \/ \E request \in GenreRequests : Ask(c, request)
        \/ Load(c) \/ Fail(c)
        \/ SaveGenres(c) \/ ImportGenres(c) \/ Reimport(c)
        \/ Correct(c) \/ Apply(c)

Spec == Init /\ [][Next]_columnVars

-----------------------------------------------------------------------------
TypeOK ==
    /\ genres \in Seq(Genres)
    /\ parsed \in [Parts -> Part]
    /\ where \in [Clients -> {"idle", "load", "store"}]
    /\ asked \in [Clients -> GenreRequests \cup {None}]
    /\ outdated \subseteq Clients

\* catalogue.py:3478: "Add incoming genres to existing without removing user choices", "merge
\* with existing user choices, never overwrite" (catalogue.py:4018), and a correction of one
\* part leaves the others (catalogue.py:3379-3389).  What was last set as a whole is there: the
\* genres that the user saved, or a re-import that took their place, with what imports added;
\* and of each part what the user entered, or the analysis that took its place.  The exception
\* is a request that loaded the column before another one wrote it: it may undo what that one
\* wrote, or leave its own away.  Imports never add a genre that is there in another spelling.
EntriesStay ==
    /\ chosen \subseteq WordsOf(genres)
    /\ \A p \in Parts : entered[p] \in {None, parsed[p]}
    /\ \A i, j \in DOMAIN genres : genres[i][1] = genres[j][1] => i = j
=============================================================================
