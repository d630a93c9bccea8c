--------------------------- MODULE BackgroundFiles ---------------------------
(***************************************************************************)
(* The files of the page background: how an upload is checked, what a page *)
(* shows, and how a file is served (web/background.py).                    *)
(*                                                                         *)
(* Data: a file is [slot, bytes, readable, animated, boxes, tracks,        *)
(* duration], where tracks has [video, codec, width, height] of the        *)
(* picture or of the tracks, boxes the kinds of the boxes on the top       *)
(* level, and duration is in seconds or None.  The header of a box is      *)
(* [size, large] at its position.                                          *)
(***************************************************************************)
EXTENDS Integers, FiniteSets, Sequences, SequencesExt

CONSTANTS None, Header,  \* the bytes of the header of a box
          MAX_IMAGE_BYTES, MAX_VIDEO_BYTES, MIN_WIDTH, MIN_HEIGHT, MAX_SIDE,
          MIN_VIDEO_WIDTH, MAX_VIDEO_SIDE, MAX_DURATION_S, CacheBytes

Codecs == [mp4 |-> {"avc1", "avc3", "av01"}, webm |-> {"V_VP8", "V_VP9", "V_AV1"}]
BuiltIn == [width |-> 1668, height |-> 470]

-----------------------------------------------------------------------------
\* The box at a position: a size of 0 reaches to the end, and a large box has its size behind
\* its header.
BoxHeader(header, pos) == IF header[pos].large THEN 2 * Header ELSE Header
BoxSize(header, end, pos) ==
    IF header[pos].size = 0 /\ ~ header[pos].large THEN end - pos ELSE header[pos].size
Payload(header, end, pos) == <<pos + BoxHeader(header, pos), pos + BoxSize(header, end, pos)>>

\* A mistake of _boxes: the end of a box is not checked.
_boxesLoose(header, start, end) ==
    LET walk[pos \in start..(2 * end)] ==
            IF pos + Header > end THEN <<>>
            ELSE IF \/ BoxSize(header, end, pos) < BoxHeader(header, pos)
                    \/ Payload(header, end, pos)[1] > end THEN <<None>>
            ELSE <<Payload(header, end, pos)>> \o walk[Payload(header, end, pos)[2]]
    IN walk[start]

\* _boxes: the payloads of the boxes in start..end, with None where the file is corrupt.
IsBox(header, end, pos) ==
    /\ BoxHeader(header, pos) <= BoxSize(header, end, pos)
    /\ Payload(header, end, pos)[1] <= end /\ Payload(header, end, pos)[2] <= end
_boxes(header, start, end) ==
    LET walk[pos \in start..end] ==
            IF pos + Header > end THEN <<>>
            ELSE IF ~ IsBox(header, end, pos) THEN <<None>>
            ELSE <<Payload(header, end, pos)>> \o walk[Payload(header, end, pos)[2]]
    IN walk[start]

\* The position of the first of a kind among the boxes, or None.
Least(S) == CHOOSE i \in S : \A j \in S : i <= j
First(kinds, kind) ==
    LET at == {i \in DOMAIN kinds : kinds[i] = kind}
    IN IF at = {} THEN None ELSE Least(at)

\* The first video track of an MP4; of a WebM, the first that has a codec.
VideoTracks(file) == SelectSeq(file.tracks, LAMBDA t : t.video /\ (file.slot = "webm" => t.codec # None))

_video_limits(track, duration) ==
    IF track.width \notin MIN_VIDEO_WIDTH..MAX_VIDEO_SIDE \/ track.height \notin 1..MAX_VIDEO_SIDE
    THEN "video_dims"
    ELSE IF duration # None /\ duration > MAX_DURATION_S THEN "duration" ELSE "ok"

_check_image(file) ==
    LET size == file.tracks[1]
    IN IF file.bytes > MAX_IMAGE_BYTES THEN "image_size"
       ELSE IF ~ file.readable THEN "corrupt"
       ELSE IF file.animated THEN "animated"
       ELSE IF \/ size.width < MIN_WIDTH \/ size.height < MIN_HEIGHT
               \/ size.width > MAX_SIDE \/ size.height > MAX_SIDE THEN "image_dims"
       ELSE "ok"

_check_mp4(file) ==
    LET videos == VideoTracks(file)
    IN IF file.bytes > MAX_VIDEO_BYTES THEN "video_size"
       ELSE IF ~ file.readable \/ First(file.boxes, "ftyp") # 1 \/ First(file.boxes, "moov") = None
               \/ videos = <<>> THEN "corrupt"
       ELSE IF videos[1].codec \notin Codecs.mp4 THEN "codec"
       ELSE _video_limits(videos[1], file.duration)
faststart(file) ==
    First(file.boxes, "mdat") = None \/ First(file.boxes, "moov") < First(file.boxes, "mdat")

_check_webm(file) ==
    LET videos == VideoTracks(file)
    IN IF file.bytes > MAX_VIDEO_BYTES THEN "video_size"
       ELSE IF ~ file.readable \/ videos = <<>> THEN "corrupt"
       ELSE IF videos[1].codec \notin Codecs.webm THEN "webm_codec"
       ELSE _video_limits(videos[1], file.duration)

\* check_media: by its content a file is an image, an MP4, a WebM or none of them.
check_media(file) ==
    CASE file.slot = "image" -> _check_image(file)
      [] file.slot = "mp4" -> _check_mp4(file)
      [] file.slot = "webm" -> _check_webm(file)
      [] OTHER -> "type"

\* _check_uploads: the files of an upload by their slots, or the first mistake in it.
SizeOf(file) ==
    LET track == IF file.slot = "image" THEN file.tracks[1] ELSE VideoTracks(file)[1]
    IN [width |-> track.width, height |-> track.height]
WithFile(checked, file) ==
    IF checked.error # "ok" \/ file.bytes = 0 THEN checked
    ELSE IF check_media(file) # "ok" THEN [checked EXCEPT !.error = check_media(file)]
    ELSE IF file.slot \in DOMAIN checked.files THEN [checked EXCEPT !.error = "duplicate"]
    ELSE [checked EXCEPT !.files = [slot \in DOMAIN @ \cup {file.slot} |->
                                       IF slot = file.slot THEN SizeOf(file) ELSE @[slot]]]
_check_uploads(files) ==
    LET checked[n \in 0..Len(files)] ==
            IF n = 0 THEN [error |-> "ok", files |-> <<>>] ELSE WithFile(checked[n - 1], files[n])
    IN checked[Len(files)]

\* resolve, for the page and for the admin: the mode, whether the videos are built in, and the
\* file whose height over width is the ratio of the picture.
resolve(setting) ==
    LET slots == IF setting.mode = "video" THEN <<"webm", "mp4", "image">> ELSE <<"image">>
        own == {i \in DOMAIN slots : slots[i] \in DOMAIN setting.files}
        shown == setting.files[slots[Least(own)]]
    IN [mode |-> setting.mode,
        videos |-> IF {"mp4", "webm"} \cap DOMAIN setting.files = {} THEN {"built-in"}
                   ELSE {"mp4", "webm"} \cap DOMAIN setting.files,
        image |-> IF "image" \in DOMAIN setting.files THEN "image" ELSE "built-in",
        shape |-> IF own = {} \/ 0 \in {shown.width, shown.height} THEN BuiltIn ELSE shown]

-----------------------------------------------------------------------------
\* ranged_response to a range [first, last], each a number or None: the bytes that are sent.
ranged_response(total, range) ==
    LET start == IF range.first # None THEN range.first
                 ELSE IF total < range.last THEN 0 ELSE total - range.last
        end == IF range.first # None /\ range.last # None /\ range.last < total - 1
               THEN range.last ELSE total - 1
    IN IF range.first = None /\ range.last = None THEN [status |-> 200, bytes |-> 0..(total - 1)]
       ELSE IF start >= total \/ start > end THEN [status |-> 416, bytes |-> {}]
       ELSE [status |-> 206, bytes |-> start..end]

\* serve_background and _cache_put: a name goes to the end of the cache when it is served, and
\* the oldest are dropped while the cache is too large and has more than one.
Bytes(names, size) == MapThenSumSet(LAMBDA n : size[n], ToSet(names))
served(cache, name, size) ==
    LET grown == Append(cache, name)
        Rest(i) == SubSeq(grown, i, Len(grown))
    IN IF name \in ToSet(cache)
       THEN Append(RemoveAt(cache, CHOOSE i \in DOMAIN cache : cache[i] = name), name)
       ELSE Rest(Least({i \in DOMAIN grown : i = Len(grown) \/ Bytes(Rest(i), size) <= CacheBytes}))

-----------------------------------------------------------------------------
\* What the proofs need of the constants.
FilesAssumption ==
    /\ None \notin Int /\ None \notin Int \X Int
    /\ {Header, MIN_WIDTH, MIN_HEIGHT, MIN_VIDEO_WIDTH} \subseteq Nat \ {0}
    /\ MAX_VIDEO_SIDE \in Nat

\* What is asked of the files: to accept an upload, to serve a range, to walk over the boxes and
\* to serve files in turn.  A file has a size in bytes and what the readers find in it; an image
\* that can be read has its width and height; the header of a box is where there is room for it.
Uploaded ==
    {file \in [slot : STRING, bytes : Nat, readable : BOOLEAN, animated : BOOLEAN, boxes : Seq(STRING),
               tracks : Seq([video : BOOLEAN, codec : STRING \cup {None}, width : Nat, height : Nat]),
               duration : Int \cup {None}] :
        file.slot = "image" /\ file.readable /\ file.bytes > 0 => file.tracks # <<>>}
HasHeaders(header, end) ==
    \A pos \in 0..end : pos + Header <= end => header[pos] \in [size : Nat, large : BOOLEAN]
IsRequest(x) ==
    \/ x[1] = "upload" /\ x[2] \in Seq(Uploaded) /\ x[3] \in {"video", "image"}
    \/ x[1] = "range" /\ x[2] \in Nat /\ x[3] \in [first : Nat \cup {None}, last : Nat \cup {None}]
    \/ x[1] = "boxes" /\ x[3] \in Nat /\ HasHeaders(x[2], x[3])
    \/ x[1] = "reads" /\ x[2] \in Seq(STRING)

\* The boxes of a file that is not corrupt tile it: each begins behind the one before it and
\* ends within the file, and less than a header is left over (background.py:196).
BoxesHold(header, end) ==
    LET boxes == _boxes(header, 0, end)
        Start(i) == IF i = 1 THEN 0 ELSE boxes[i - 1][2]
    IN None \notin ToSet(boxes) =>
          /\ \A i \in DOMAIN boxes :
                /\ Start(i) + Header <= boxes[i][1] /\ boxes[i][1] <= boxes[i][2] /\ boxes[i][2] <= end
                /\ header[Start(i)].size > 0 => boxes[i][2] - Start(i) = header[Start(i)].size
          /\ Start(Len(boxes) + 1) + Header > end

\* What is uploaded and accepted can be shown: the picture of the page has a ratio, and it is
\* that of the file that is shown, except that the built-in video has the ratio of an uploaded
\* image (background.py:437).
UploadsHold(files, mode) ==
    LET upload == _check_uploads(files)
        page == resolve([mode |-> mode, files |-> upload.files])
    IN upload.error = "ok" =>
          /\ page.shape.width >= 1 /\ page.shape.height >= 1
          /\ mode = "video" /\ "built-in" \notin page.videos =>
                \E slot \in page.videos : page.shape = upload.files[slot]
          /\ mode = "image" => page.shape = IF page.image = "built-in" THEN BuiltIn ELSE upload.files.image
          /\ mode = "video" /\ "built-in" \in page.videos /\ page.image = "built-in"
                => page.shape = BuiltIn
          /\ Cardinality(DOMAIN upload.files) = Cardinality({i \in DOMAIN files : files[i].bytes > 0})

\* A range gets the bytes of the file that are asked for and no others, and is refused if and
\* only if there are none (background.py:514).
RangeHolds(total, range) ==
    LET asked == IF range.first # None
                 THEN {b \in 0..(total - 1) : b >= range.first /\ (range.last # None => b <= range.last)}
                 ELSE IF range.last # None THEN {b \in 0..(total - 1) : b >= total - range.last}
                 ELSE 0..(total - 1)
        answer == ranged_response(total, range)
    IN /\ answer.bytes = asked
       /\ answer.status = 416 <=> asked = {} /\ range # [first |-> None, last |-> None]

\* Whatever is served in turn, the cache has what was served last, each file once, and is within
\* its bound unless one file alone is larger (background.py:508).
CacheHolds(names, size) ==
    LET caches[n \in 0..Len(names)] == IF n = 0 THEN <<>> ELSE served(caches[n - 1], names[n], size)
        cache == caches[Len(names)]
    IN names # <<>> =>
          /\ Last(cache) = Last(names) /\ Cardinality(ToSet(cache)) = Len(cache)
          /\ Len(cache) > 1 => Bytes(cache, size) <= CacheBytes

FilesHold(x) ==
    /\ x[1] = "upload" => UploadsHold(x[2], x[3])
    /\ x[1] = "range" => RangeHolds(x[2], x[3])
    /\ x[1] = "boxes" => BoxesHold(x[2], x[3])
    /\ x[1] = "reads" => CacheHolds(x[2], x[3])
=============================================================================
