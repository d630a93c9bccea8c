---------------------------- MODULE InputsProofs ----------------------------
(***************************************************************************)
(* Theorems about six of the modules without variables, for inputs of      *)
(* any size.  Of the files of the page background: the boxes of a file     *)
(* tile it, an upload that is accepted can be shown, a range gets what it  *)
(* asks for, and the cache stays within its bound.  Of a sales history:    *)
(* its prices are read as they are written, its statistics are in the      *)
(* middle of what was paid, and what is stored accounts for it.  Of the    *)
(* rules: the two engines decide alike.  Of the lists of the catalogue:    *)
(* each shows what the others say that it has.  Of the form for a new      *)
(* token and of biographies: the form finds what is typed, and what is     *)
(* shown is the best that the sources have, within its limit.              *)
(***************************************************************************)
EXTENDS Inputs, FiniteSetTheorems, WellFoundedInduction, TLAPS

\* A set of numbers that is not empty has a least one.
LEMMA LeastNumber ==
  ASSUME NEW S \in SUBSET Nat, S # {}
  PROVE  \E n \in S : \A m \in S : n <= m
<1> DEFINE R == OpToRel(<, Nat)
<1>1. IsWellFoundedOn(R, Nat)
  BY NatLessThanWellFounded
<1>2. \A x, y \in Nat : <<x, y>> \in R <=> x < y
  BY DEF OpToRel
<1> HIDE DEF R
<1>3. PICK x \in S : \A y \in S : ~ (<<y, x>> \in R)
  BY <1>1, WFMin
<1>4. ASSUME NEW y \in S PROVE x <= y
  <2>1. x \in Nat /\ y \in Nat /\ ~ (y < x)
    BY <1>2, <1>3
  <2> QED BY <2>1
<1> QED BY <1>4

\* A finite one has a greatest.
LEMMA GreatestNumber ==
  ASSUME NEW S \in SUBSET Nat, S # {}, IsFiniteSet(S)
  PROVE  \E n \in S : \A m \in S : m <= n
<1>1. PICK n \in Nat : ExistsSurjection(1..n, S)
  BY FS_NatSurjection
<1>5. PICK f \in [1..n -> S] : \A x \in S : \E i \in 1..n : f[i] = x
  BY <1>1 DEF ExistsSurjection, Surjection
<1>6. \A j \in 1..n : f[j] \in Nat
  <2>1. \A j \in 1..n : f[j] \in S
    BY <1>5
  <2> QED BY <2>1
<1> DEFINE topped == {k \in 1..n : \E i \in 1..k : \A j \in 1..k : f[j] <= f[i]}
           bad == (1..n) \ topped
<1>2. bad = {}
  <2> SUFFICES ASSUME bad # {} PROVE FALSE
    OBVIOUS
  <2>1. PICK k \in bad : \A m \in bad : k <= m
    <3>1. bad \in SUBSET Nat
      OBVIOUS
    <3> HIDE DEF bad
    <3> QED BY <3>1, LeastNumber
  <2>2. CASE k = 1
    <3>1. f[1] \in Nat
      BY <1>1, <1>5, <2>2
    <3>2. k \in topped
      BY <2>2, <3>1
    <3> QED BY <3>2
  <2>3. CASE k # 1
    <3>1. k - 1 \in 1..n /\ ~ (k <= k - 1)
      BY <2>3
    <3>2. k - 1 \in topped
      BY <2>1, <3>1
    <3>3. PICK i \in 1..(k - 1) : \A j \in 1..(k - 1) : f[j] <= f[i]
      BY <3>2
    <3>4. f[i] \in Nat /\ f[k] \in Nat /\ \A j \in 1..n : f[j] \in Nat
      <4>1. i \in 1..n /\ k \in 1..n
        BY <1>1, <2>1, <3>1, <3>3
      <4> QED BY <1>6, <4>1
    <3>5. CASE f[i] <= f[k]
      <4>1. \A j \in 1..k : f[j] <= f[k]
        <5> SUFFICES ASSUME NEW j \in 1..k PROVE f[j] <= f[k]
          OBVIOUS
        <5>1. j = k \/ j \in 1..(k - 1)
          BY <1>1, <2>1
        <5>2. j \in 1..n
          BY <1>1, <2>1
        <5> QED BY <3>3, <3>4, <3>5, <5>1, <5>2
      <4> QED BY <2>1, <3>1, <4>1
    <3>6. CASE f[k] <= f[i]
      <4>1. \A j \in 1..k : f[j] <= f[i]
        BY <1>1, <2>1, <3>1, <3>3, <3>4, <3>6
      <4> QED BY <1>1, <2>1, <3>1, <3>3, <4>1
    <3> QED BY <3>4, <3>5, <3>6
  <2> QED BY <2>2, <2>3
<1>3. n \in 1..n
  <2>1. n # 0
    <3>1. PICK x \in S : TRUE
      OBVIOUS
    <3>2. PICK i \in 1..n : f[i] = x
      BY <1>5
    <3> QED BY <1>1, <3>2
  <2> QED BY <1>1, <2>1
<1>4. PICK i \in 1..n : \A j \in 1..n : f[j] <= f[i]
  BY <1>2, <1>3
<1> QED BY <1>5, <1>4

\* Least gives it.
LEMMA LeastIs ==
  ASSUME NEW S \in SUBSET Nat, S # {}
  PROVE  Files!Least(S) \in S /\ \A n \in S : Files!Least(S) <= n
  BY LeastNumber DEF Files!Least

-----------------------------------------------------------------------------
(* Boxes.  The recursive function of _boxes is there, as each box is       *)
(* behind the one before it; and what is proved of the boxes from one      *)
(* position on holds for the one before, from the end of the file to its   *)
(* beginning.                                                              *)

BoxesFrom(header, end, walk, pos) ==
    IF pos + Header > end THEN <<>>
    ELSE IF ~ Files!IsBox(header, end, pos) THEN <<None>>
    ELSE <<Files!Payload(header, end, pos)>> \o walk[Files!Payload(header, end, pos)[2]]

\* A box is not empty and within the file.
LEMMA BoxIsIn ==
  ASSUME Files!FilesAssumption, NEW end \in Nat, NEW header, Files!HasHeaders(header, end),
         NEW pos \in 0 .. end,
         ~ (pos + Header > end), Files!IsBox(header, end, pos)
  PROVE  /\ Files!Payload(header, end, pos) \in Nat \X ((pos + 1) .. end)
         /\ pos + Header <= Files!Payload(header, end, pos)[1]
         /\ Files!Payload(header, end, pos)[1] <= Files!Payload(header, end, pos)[2]
         /\ header[pos].size > 0 => Files!Payload(header, end, pos)[2] - pos = header[pos].size
<1>1. Header \in Nat \ {0}
  BY DEF Files!FilesAssumption
<1>2. header[pos].size \in Nat /\ header[pos].large \in BOOLEAN
  BY <1>1 DEF Files!HasHeaders
<1>3. Files!BoxHeader(header, pos) \in Nat /\ Files!BoxHeader(header, pos) >= Header
  BY <1>1, <1>2 DEF Files!BoxHeader
<1>4. Files!BoxSize(header, end, pos) \in Int
  BY <1>2 DEF Files!BoxSize
<1> QED BY <1>1, <1>2, <1>3, <1>4 DEF Files!IsBox, Files!Payload, Files!BoxSize

\* The recursive function of _boxes, from the end of the file to its beginning.
LEMMA WalkExists ==
  ASSUME Files!FilesAssumption, NEW end \in Nat, NEW header, Files!HasHeaders(header, end)
  PROVE  \E walk : /\ walk = [pos \in 0 .. end |-> BoxesFrom(header, end, walk, pos)]
                   /\ Files!_boxes(header, 0, end) = walk[0]
<1> DEFINE Solves(w, k) == w = [pos \in (end - k) .. end |-> BoxesFrom(header, end, w, pos)]
           unsolved == {k \in 0 .. end : ~ \E w : Solves(w, k)}
<1>1. Header \in Nat \ {0}
  BY DEF Files!FilesAssumption
<1>2. unsolved = {}
  <2> SUFFICES ASSUME unsolved # {} PROVE FALSE
    OBVIOUS
  <2>1. PICK k \in unsolved : \A m \in unsolved : k <= m
    <3>1. unsolved \in SUBSET Nat
      OBVIOUS
    <3> HIDE DEF unsolved
    <3> QED BY <3>1, LeastNumber
  <2>2. CASE k = 0
    <3>1. Solves([pos \in end .. end |-> <<>>], 0)
      BY <1>1 DEF BoxesFrom
    <3> QED BY <2>2, <3>1
  <2>3. CASE k # 0
    <3> DEFINE here == end - k
    <3>1. k - 1 \in 0 .. end /\ k - 1 \notin unsolved
      <4>1. k \in 0 .. end
        OBVIOUS
      <4> HIDE DEF unsolved
      <4>2. k - 1 \in 0 .. end /\ ~ (k <= k - 1)
        BY <2>3, <4>1
      <4> QED BY <2>1, <4>2
    <3>2. PICK w : Solves(w, k - 1)
      BY <3>1
    <3>3. here \in 0 .. end /\ end - (k - 1) = here + 1
      OBVIOUS
    <3> DEFINE v == [pos \in here .. end |->
                   IF pos = here THEN BoxesFrom(header, end, w, here) ELSE w[pos]]
    <3> HIDE DEF here
    <3>4. ASSUME NEW pos \in (here + 1) .. end
          PROVE  v[pos] = w[pos] /\ w[pos] = BoxesFrom(header, end, w, pos)
      <4>1. w = [p \in (here + 1) .. end |-> BoxesFrom(header, end, w, p)]
        BY <3>2, <3>3
      <4>2. w[pos] = BoxesFrom(header, end, w, pos)
        BY <4>1, Zenon
      <4>3. pos \in here .. end /\ pos # here
        BY <3>3
      <4> QED BY <4>2, <4>3
    <3>5. v[here] = BoxesFrom(header, end, w, here) /\ v = [pos \in here .. end |-> v[pos]]
      BY <3>3
    <3> HIDE DEF v
    <3>6. ASSUME NEW pos \in here .. end PROVE v[pos] = BoxesFrom(header, end, v, pos)
      <4>1. v[pos] = BoxesFrom(header, end, w, pos)
        <5>1. pos = here \/ pos \in (here + 1) .. end
          BY <3>3
        <5> QED BY <3>4, <3>5, <5>1
      <4>2. CASE pos + Header > end \/ ~ Files!IsBox(header, end, pos)
        BY <4>1, <4>2 DEF BoxesFrom
      <4>3. CASE ~ (pos + Header > end) /\ Files!IsBox(header, end, pos)
        <5>1. Files!Payload(header, end, pos)[2] \in (here + 1) .. end
          <6>1. pos \in 0 .. end /\ pos >= here
            BY <3>3
          <6>2. Files!Payload(header, end, pos)[2] \in (pos + 1) .. end
            BY <4>3, <6>1, BoxIsIn
          <6> QED BY <3>3, <6>1, <6>2
        <5>2. v[Files!Payload(header, end, pos)[2]] = w[Files!Payload(header, end, pos)[2]]
          BY <3>4, <5>1
        <5> QED BY <4>1, <4>3, <5>2 DEF BoxesFrom
      <4> QED BY <4>2, <4>3
    <3>7. v = [pos \in here .. end |-> BoxesFrom(header, end, v, pos)]
      BY <3>5, <3>6
    <3> QED BY <2>1, <3>7 DEF here
  <2> QED BY <2>2, <2>3
<1>3. PICK w : Solves(w, end)
  BY <1>2
<1>4. end - end = 0
  OBVIOUS
<1>5. \E w0 : w0 = [pos \in 0 .. end |-> BoxesFrom(header, end, w0, pos)]
  BY <1>3, <1>4
<1> DEFINE walk == CHOOSE w0 : w0 = [pos \in 0 .. end |-> BoxesFrom(header, end, w0, pos)]
<1>6. walk = [pos \in 0 .. end |-> BoxesFrom(header, end, walk, pos)]
  BY <1>5, Zenon
<1>7. Files!_boxes(header, 0, end) = walk[0]
  BY Zenon DEF Files!_boxes, BoxesFrom
<1> QED BY <1>6, <1>7

\* What is where when an element is put before a sequence.
LEMMA PrependIs ==
  ASSUME NEW T, NEW e \in T, NEW s \in Seq(T)
  PROVE  /\ <<e>> \o s \in Seq(T) /\ Len(<<e>> \o s) = Len(s) + 1 /\ (<<e>> \o s)[1] = e
         /\ \A i \in 1 .. Len(s) : (<<e>> \o s)[i + 1] = s[i]
  OBVIOUS

\* The boxes from a position on tile the file from there.
Start(boxes, from, i) == IF i = 1 THEN from ELSE boxes[i - 1][2]
Fits(header, boxes, from, end, i) ==
    /\ Start(boxes, from, i) + Header <= boxes[i][1]
    /\ boxes[i][1] <= boxes[i][2] /\ boxes[i][2] <= end
    /\ header[Start(boxes, from, i)].size > 0
          => boxes[i][2] - Start(boxes, from, i) = header[Start(boxes, from, i)].size
Tiles(header, boxes, from, end) ==
    /\ boxes \in Seq((Nat \X Nat) \cup {None})
    /\ (\A i \in 1 .. Len(boxes) : boxes[i] # None)
          => /\ \A i \in 1 .. Len(boxes) : Fits(header, boxes, from, end, i)
             /\ Start(boxes, from, Len(boxes) + 1) + Header > end

\* A box in front of boxes that tile the rest tiles the file with them.
LEMMA TilesBehind ==
  ASSUME Files!FilesAssumption, NEW end \in Nat, NEW header, Files!HasHeaders(header, end),
         NEW pos \in 0 .. end,
         ~ (pos + Header > end), Files!IsBox(header, end, pos),
         NEW rest, Tiles(header, rest, Files!Payload(header, end, pos)[2], end)
  PROVE  Tiles(header, <<Files!Payload(header, end, pos)>> \o rest, pos, end)
<1> DEFINE box == Files!Payload(header, end, pos)
           boxes == <<box>> \o rest
           T == (Nat \X Nat) \cup {None}
<1>1. /\ box \in Nat \X Nat /\ box[2] <= end /\ pos + Header <= box[1] /\ box[1] <= box[2]
      /\ header[pos].size > 0 => box[2] - pos = header[pos].size
  BY BoxIsIn
<1>2. rest \in Seq(T) /\ Tiles(header, rest, box[2], end)
  BY DEF Tiles
<1> HIDE DEF box
<1>3. /\ boxes \in Seq(T) /\ Len(boxes) = Len(rest) + 1 /\ boxes[1] = box
      /\ \A i \in 1 .. Len(rest) : boxes[i + 1] = rest[i]
  <2>1. box \in T
    BY <1>1
  <2> HIDE DEF T
  <2> QED BY <1>2, <2>1, PrependIs
<1>4. Len(rest) \in Nat
  BY <1>2
<1> HIDE DEF boxes
<1>5. \A i \in 1 .. (Len(rest) + 1) : Start(boxes, pos, i + 1) = Start(rest, box[2], i)
  <2> TAKE i \in 1 .. (Len(rest) + 1)
  <2>1. CASE i = 1
    BY <1>3, <2>1 DEF Start
  <2>2. CASE i # 1
    <3>1. i - 1 \in 1 .. Len(rest) /\ (i - 1) + 1 = i /\ (i + 1) - 1 = i /\ i + 1 # 1
      BY <1>4, <2>2
    <3>2. boxes[i] = rest[i - 1]
      BY <1>3, <3>1
    <3> QED BY <2>2, <3>1, <3>2 DEF Start
  <2> QED BY <2>1, <2>2
<1>6. ASSUME \A i \in 1 .. Len(boxes) : boxes[i] # None
      PROVE  /\ \A i \in 1 .. Len(boxes) : Fits(header, boxes, pos, end, i)
             /\ Start(boxes, pos, Len(boxes) + 1) + Header > end
  <2>1. \A i \in 1 .. Len(rest) : rest[i] # None
    <3> TAKE i \in 1 .. Len(rest)
    <3>1. i + 1 \in 1 .. Len(boxes)
      BY <1>3, <1>4
    <3> QED BY <1>3, <1>6, <3>1
  <2>2. /\ \A i \in 1 .. Len(rest) : Fits(header, rest, box[2], end, i)
        /\ Start(rest, box[2], Len(rest) + 1) + Header > end
    BY <1>2, <2>1 DEF Tiles
  <2>3. Start(boxes, pos, Len(boxes) + 1) + Header > end
    BY <1>3, <1>4, <1>5, <2>2
  <2>4. ASSUME NEW i \in 1 .. Len(boxes) PROVE Fits(header, boxes, pos, end, i)
    <3>1. CASE i = 1
      BY <1>1, <1>3, <3>1 DEF Fits, Start
    <3>2. CASE i # 1
      <4>1. PICK j \in 1 .. Len(rest) : i = j + 1
        <5>1. i - 1 \in 1 .. Len(rest) /\ i = (i - 1) + 1
          BY <1>3, <1>4, <3>2
        <5> QED BY <5>1
      <4>2. Fits(header, rest, box[2], end, j) /\ boxes[i] = rest[j]
        BY <1>3, <2>2, <4>1
      <4>3. Start(boxes, pos, i) = Start(rest, box[2], j)
        BY <1>4, <1>5, <4>1
      <4> QED BY <4>2, <4>3 DEF Fits
    <3> QED BY <3>1, <3>2
  <2> QED BY <2>3, <2>4
<1> QED
  <2>1. Tiles(header, boxes, pos, end)
    BY <1>3, <1>6 DEF Tiles
  <2> QED BY <2>1 DEF boxes, box

\* The boxes of a file that is not corrupt tile it, whatever sizes their headers say.
LEMMA BoxesTile ==
  ASSUME Files!FilesAssumption, NEW end \in Nat, NEW header, Files!HasHeaders(header, end)
  PROVE  Files!BoxesHold(header, end)
<1>1. PICK walk : /\ walk = [pos \in 0 .. end |-> BoxesFrom(header, end, walk, pos)]
                  /\ Files!_boxes(header, 0, end) = walk[0]
  BY WalkExists
<1>2. \A pos \in 0 .. end : walk[pos] = BoxesFrom(header, end, walk, pos)
  BY <1>1, Zenon
<1> DEFINE bad == {k \in 0 .. end : ~ Tiles(header, walk[end - k], end - k, end)}
<1>3. bad = {}
  <2> SUFFICES ASSUME bad # {} PROVE FALSE
    OBVIOUS
  <2>1. PICK k \in bad : \A m \in bad : k <= m
    <3>1. bad \in SUBSET Nat
      OBVIOUS
    <3> HIDE DEF bad
    <3> QED BY <3>1, LeastNumber
  <2> DEFINE pos == end - k
  <2>2. k \in 0 .. end /\ ~ Tiles(header, walk[pos], pos, end)
    OBVIOUS
  <2>3. pos \in 0 .. end
    BY <2>2
  <2> HIDE DEF pos, bad
  <2>4. walk[pos] = BoxesFrom(header, end, walk, pos)
    BY <1>2, <2>3
  <2>5. CASE pos + Header > end
    <3>1. walk[pos] = <<>>
      BY <2>4, <2>5 DEF BoxesFrom
    <3>2. Tiles(header, <<>>, pos, end)
      BY <2>3, <2>5 DEF Tiles, Start
    <3> QED BY <2>2, <3>1, <3>2
  <2>6. CASE ~ (pos + Header > end) /\ ~ Files!IsBox(header, end, pos)
    <3>1. walk[pos] = <<None>>
      BY <2>4, <2>6 DEF BoxesFrom
    <3>2. Tiles(header, <<None>>, pos, end)
      BY DEF Tiles
    <3> QED BY <2>2, <3>1, <3>2
  <2>7. CASE ~ (pos + Header > end) /\ Files!IsBox(header, end, pos)
    <3> DEFINE next == Files!Payload(header, end, pos)[2]
    <3>1. walk[pos] = <<Files!Payload(header, end, pos)>> \o walk[next]
      BY <2>4, <2>7 DEF BoxesFrom
    <3>2. next \in (pos + 1) .. end
      BY <2>3, <2>7, BoxIsIn
    <3>3. Tiles(header, walk[next], next, end)
      <4> HIDE DEF next
      <4>1. end - next \in 0 .. end /\ end - next < k /\ end - (end - next) = next /\ k \in Nat
        BY <2>2, <2>3, <3>2 DEF pos
      <4>2. end - next \notin bad
        <5>1. bad \subseteq Nat
          BY DEF bad
        <5> QED BY <2>1, <4>1, <5>1
      <4> QED BY <4>1, <4>2 DEF bad
    <3>4. Tiles(header, <<Files!Payload(header, end, pos)>> \o walk[next], pos, end)
      BY <2>3, <2>7, <3>3, TilesBehind
    <3> QED BY <2>2, <3>1, <3>4
  <2> QED BY <2>5, <2>6, <2>7
<1>4. Tiles(header, walk[0], 0, end)
  <2>1. end \in 0 .. end /\ end - end = 0
    OBVIOUS
  <2> QED BY <1>3, <2>1
<1> DEFINE boxes == walk[0]
<1>5. boxes \in Seq((Nat \X Nat) \cup {None}) /\ Files!_boxes(header, 0, end) = boxes
  BY <1>1, <1>4 DEF Tiles
<1> HIDE DEF boxes
<1>6. ASSUME None \notin Files!ToSet(boxes)
      PROVE  /\ \A i \in DOMAIN boxes : Fits(header, boxes, 0, end, i)
             /\ Start(boxes, 0, Len(boxes) + 1) + Header > end
  <2>1. DOMAIN boxes = 1 .. Len(boxes)
    BY <1>5
  <2>2. \A i \in 1 .. Len(boxes) : boxes[i] # None
    BY <1>6, <2>1 DEF Files!ToSet
  <2> QED BY <1>4, <2>1, <2>2 DEF Tiles, boxes
<1> QED BY <1>5, <1>6 DEF Files!BoxesHold, Fits, Start

-----------------------------------------------------------------------------
(* Uploads.  A file that is accepted has a size that is not empty, and the *)
(* files of an upload have one each.                                       *)

Sizes == [width : Nat \ {0}, height : Nat \ {0}]
Tracks == [video : BOOLEAN, codec : STRING \cup {None}, width : Nat, height : Nat]

\* A file that check_media accepts has a slot of its own kind and a size that is not empty.
LEMMA AcceptedHaveSizes ==
  ASSUME Files!FilesAssumption, NEW file \in Files!Uploaded, file.bytes > 0, Files!check_media(file) = "ok"
  PROVE  file.slot \in {"image", "mp4", "webm"} /\ Files!SizeOf(file) \in Sizes
<1>0. /\ MIN_WIDTH \in Nat \ {0} /\ MIN_HEIGHT \in Nat \ {0} /\ MIN_VIDEO_WIDTH \in Nat \ {0}
      /\ MAX_VIDEO_SIDE \in Nat
  BY DEF Files!FilesAssumption
<1>1. ASSUME NEW track, NEW duration, Files!_video_limits(track, duration) = "ok"
      PROVE  [width |-> track.width, height |-> track.height] \in Sizes
  BY <1>0, <1>1 DEF Files!_video_limits, Sizes
<1>2. CASE file.slot = "image"
  <2>1. Files!_check_image(file) = "ok"
    BY <1>2 DEF Files!check_media
  <2>2. /\ file.readable
        /\ ~ (file.tracks[1].width < MIN_WIDTH) /\ ~ (file.tracks[1].height < MIN_HEIGHT)
    BY <2>1 DEF Files!_check_image
  <2>3. file.tracks \in Seq(Tracks) /\ file.tracks # <<>>
    BY <1>2, <2>2 DEF Files!Uploaded, Tracks
  <2>4. file.tracks[1] \in Tracks
    BY <2>3
  <2>5. file.tracks[1].width \in Nat /\ file.tracks[1].height \in Nat
    BY <2>4 DEF Tracks
  <2> QED BY <1>0, <1>2, <2>2, <2>5 DEF Files!SizeOf, Sizes
<1>3. CASE file.slot = "mp4"
  <2>1. Files!_check_mp4(file) = "ok"
    BY <1>3 DEF Files!check_media
  <2>2. Files!_video_limits(Files!VideoTracks(file)[1], file.duration) = "ok"
    BY <2>1 DEF Files!_check_mp4
  <2> QED BY <1>1, <1>3, <2>2 DEF Files!SizeOf
<1>4. CASE file.slot = "webm"
  <2>1. Files!_check_webm(file) = "ok"
    BY <1>4 DEF Files!check_media
  <2>2. Files!_video_limits(Files!VideoTracks(file)[1], file.duration) = "ok"
    BY <2>1 DEF Files!_check_webm
  <2> QED BY <1>1, <1>4, <2>2 DEF Files!SizeOf
<1>5. CASE file.slot \notin {"image", "mp4", "webm"}
  BY <1>5 DEF Files!check_media
<1> QED BY <1>2, <1>3, <1>4, <1>5

\* The recursive function of _check_uploads.
LEMMA CheckedExists ==
  ASSUME NEW files, Len(files) \in Nat
  PROVE  \E checked :
            /\ checked = [n \in 0 .. Len(files) |->
                            IF n = 0 THEN [error |-> "ok", files |-> <<>>]
                            ELSE Files!WithFile(checked[n - 1], files[n])]
            /\ Files!_check_uploads(files) = checked[Len(files)]
<1> DEFINE N == Len(files)
           Step(f, n) == IF n = 0 THEN [error |-> "ok", files |-> <<>>]
                         ELSE Files!WithFile(f[n - 1], files[n])
           unsolved == {k \in 0 .. N : ~ \E f : f = [n \in 0 .. k |-> Step(f, n)]}
<1>1. unsolved = {}
  <2> SUFFICES ASSUME unsolved # {} PROVE FALSE
    OBVIOUS
  <2>1. PICK k \in unsolved : \A m \in unsolved : k <= m
    <3>1. unsolved \in SUBSET Nat
      OBVIOUS
    <3> HIDE DEF unsolved
    <3> QED BY <3>1, LeastNumber
  <2>2. k \in 0 .. N
    OBVIOUS
  <2>3. CASE k = 0
    <3> DEFINE f == [n \in 0 .. 0 |-> [error |-> "ok", files |-> <<>>]]
    <3>1. f = [n \in 0 .. 0 |-> Step(f, n)]
      OBVIOUS
    <3> QED BY <2>3, <3>1
  <2>4. CASE k # 0
    <3>1. k - 1 \in 0 .. N /\ k - 1 \notin unsolved
      <4> HIDE DEF unsolved
      <4>1. k - 1 \in 0 .. N /\ ~ (k <= k - 1)
        BY <2>2, <2>4
      <4> QED BY <2>1, <4>1
    <3>2. PICK f : f = [n \in 0 .. (k - 1) |-> Step(f, n)]
      BY <3>1
    <3> HIDE DEF unsolved, Step
    <3> DEFINE g == [n \in 0 .. k |-> IF n = k THEN Step(f, k) ELSE f[n]]
    <3>3. ASSUME NEW n \in 0 .. k PROVE g[n] = Step(g, n)
      <4>1. g[n] = Step(f, n)
        <5>1. CASE n = k
          BY <5>1
        <5>2. CASE n # k
          <6>1. n \in 0 .. (k - 1)
            BY <2>2, <5>2
          <6>2. f[n] = Step(f, n)
            BY <3>2, <6>1, Zenon
          <6> QED BY <5>2, <6>2
        <5> QED BY <5>1, <5>2
      <4>2. CASE n = 0
        BY <4>1, <4>2 DEF Step
      <4>3. CASE n # 0
        <5>1. n - 1 \in 0 .. k /\ n - 1 # k
          BY <2>2, <4>3
        <5>2. g[n - 1] = f[n - 1]
          BY <5>1
        <5> HIDE DEF g
        <5> QED BY <4>1, <4>3, <5>2 DEF Step
      <4> QED BY <4>2, <4>3
    <3>4. g = [n \in 0 .. k |-> g[n]]
      OBVIOUS
    <3> HIDE DEF g
    <3>5. g = [n \in 0 .. k |-> Step(g, n)]
      BY <3>3, <3>4
    <3> QED BY <2>1, <3>5 DEF unsolved
  <2> QED BY <2>3, <2>4
<1>2. \E f : f = [n \in 0 .. N |-> Step(f, n)]
  <2>1. N \in 0 .. N
    OBVIOUS
  <2> QED BY <1>1, <2>1
<1> DEFINE checked == CHOOSE f : f = [n \in 0 .. N |-> Step(f, n)]
<1>3. checked = [n \in 0 .. N |-> Step(checked, n)]
  BY <1>2, Zenon
<1>4. Files!_check_uploads(files) = checked[N]
  BY Zenon DEF Files!_check_uploads
<1> QED BY <1>3, <1>4, Zenon

\* The modules count with the same operator.
LEMMA SameCardinality == \A S : Files!Cardinality(S) = Cardinality(S)
BY DEF Files!Cardinality, Cardinality

Filled(files, n) == {i \in 1 .. n : files[i].bytes > 0}
Maps == UNION {[S -> Sizes] : S \in SUBSET {"image", "mp4", "webm"}}
\* What has been accepted of the first n files of an upload.
Accepted(files, checked, n) ==
    /\ checked = [error |-> checked.error, files |-> checked.files]
    /\ checked.files \in Maps
    /\ checked.error = "ok" =>
          /\ IsFiniteSet(DOMAIN checked.files) /\ IsFiniteSet(Filled(files, n))
          /\ Cardinality(DOMAIN checked.files) = Cardinality(Filled(files, n))

\* Whatever WithFile does with the next file, every accepted one has its slot.
LEMMA OneMoreAccepted ==
  ASSUME Files!FilesAssumption, NEW files \in Seq(Files!Uploaded), NEW n \in 1 .. Len(files),
         NEW checked, Accepted(files, checked, n - 1)
  PROVE  Accepted(files, Files!WithFile(checked, files[n]), n)
<1> DEFINE file == files[n]
<1>1. file \in Files!Uploaded /\ file.bytes \in Nat
  <2>1. file \in Files!Uploaded
    OBVIOUS
  <2> HIDE DEF file
  <2>2. file.bytes \in Nat
    BY <2>1 DEF Files!Uploaded
  <2> QED BY <2>1, <2>2
<1>2. checked = [error |-> checked.error, files |-> checked.files] /\ checked.files \in Maps
  BY DEF Accepted
<1>3. ASSUME NEW error, NEW own \in Maps, Files!WithFile(checked, file) = [error |-> error, files |-> own],
             error = "ok" =>
                /\ IsFiniteSet(DOMAIN own) /\ IsFiniteSet(Filled(files, n))
                /\ Cardinality(DOMAIN own) = Cardinality(Filled(files, n))
      PROVE  Accepted(files, Files!WithFile(checked, file), n)
  BY ONLY <1>3 DEF Accepted
<1>4. CASE checked.error # "ok"
  BY <1>2, <1>4 DEF Accepted, Files!WithFile
<1>5. CASE checked.error = "ok" /\ file.bytes = 0
  <2>1. Filled(files, n) = Filled(files, n - 1)
    BY <1>5 DEF Filled
  <2> QED BY <1>2, <1>5, <2>1 DEF Accepted, Files!WithFile
<1>6. CASE checked.error = "ok" /\ file.bytes > 0 /\ Files!check_media(file) # "ok"
  <2>1. Files!WithFile(checked, file) = [error |-> Files!check_media(file), files |-> checked.files]
    BY <1>1, <1>2, <1>6 DEF Files!WithFile
  <2> QED BY <1>2, <1>3, <1>6, <2>1
<1>7. CASE checked.error = "ok" /\ file.bytes > 0 /\ Files!check_media(file) = "ok"
           /\ file.slot \in DOMAIN checked.files
  <2>1. Files!WithFile(checked, file) = [error |-> "duplicate", files |-> checked.files]
    BY <1>1, <1>2, <1>7 DEF Files!WithFile
  <2> QED BY <1>2, <1>3, <2>1
<1>8. CASE checked.error = "ok" /\ file.bytes > 0 /\ Files!check_media(file) = "ok"
           /\ file.slot \notin DOMAIN checked.files
  <2> DEFINE more == [slot \in DOMAIN checked.files \cup {file.slot} |->
                         IF slot = file.slot THEN Files!SizeOf(file) ELSE checked.files[slot]]
  <2>1. Files!WithFile(checked, file) = [error |-> "ok", files |-> more]
    BY <1>1, <1>2, <1>8 DEF Files!WithFile
  <2>2. file.slot \in {"image", "mp4", "webm"} /\ Files!SizeOf(file) \in Sizes
    BY <1>1, <1>8, AcceptedHaveSizes
  <2>3. more \in Maps
    <3> USE DEF Maps
    <3> HIDE DEF file
    <3>1. PICK S \in SUBSET {"image", "mp4", "webm"} : checked.files \in [S -> Sizes]
      BY <1>2
    <3>2. more \in [S \cup {file.slot} -> Sizes]
      BY <2>2, <3>1
    <3>3. S \cup {file.slot} \in SUBSET {"image", "mp4", "webm"}
      BY <2>2
    <3> HIDE DEF more
    <3> QED BY <3>2, <3>3
  <2>4. DOMAIN more = DOMAIN checked.files \cup {file.slot}
    OBVIOUS
  <2>5. Filled(files, n) = Filled(files, n - 1) \cup {n} /\ n \notin Filled(files, n - 1)
    BY <1>8 DEF Filled
  <2>6. /\ IsFiniteSet(DOMAIN checked.files) /\ IsFiniteSet(Filled(files, n - 1))
        /\ Cardinality(DOMAIN checked.files) = Cardinality(Filled(files, n - 1))
    BY <1>8 DEF Accepted
  <2> HIDE DEF more
  <2>7. /\ IsFiniteSet(DOMAIN more)
        /\ Cardinality(DOMAIN more) = Cardinality(DOMAIN checked.files) + 1
    BY ONLY <1>8, <2>4, <2>6, FS_AddElement
  <2>8. /\ IsFiniteSet(Filled(files, n))
        /\ Cardinality(Filled(files, n)) = Cardinality(Filled(files, n - 1)) + 1
    BY ONLY <2>5, <2>6, FS_AddElement
  <2>9. Cardinality(DOMAIN more) = Cardinality(Filled(files, n))
    BY <2>6, <2>7, <2>8
  <2> QED BY <1>3, <2>1, <2>3, <2>7, <2>8, <2>9
<1> QED BY <1>1, <1>4, <1>5, <1>6, <1>7, <1>8

\* So after the whole upload.
LEMMA UploadsAreAccepted ==
  ASSUME Files!FilesAssumption, NEW files \in Seq(Files!Uploaded)
  PROVE  Accepted(files, Files!_check_uploads(files), Len(files))
<1>1. Len(files) \in Nat
  OBVIOUS
<1>2. PICK checked : /\ checked = [n \in 0 .. Len(files) |->
                                     IF n = 0 THEN [error |-> "ok", files |-> <<>>]
                                     ELSE Files!WithFile(checked[n - 1], files[n])]
                     /\ Files!_check_uploads(files) = checked[Len(files)]
  BY <1>1, CheckedExists
<1>3. \A n \in 0 .. Len(files) :
        checked[n] = IF n = 0 THEN [error |-> "ok", files |-> <<>>]
                     ELSE Files!WithFile(checked[n - 1], files[n])
  BY <1>2, Zenon
<1> DEFINE bad == {n \in 0 .. Len(files) : ~ Accepted(files, checked[n], n)}
<1>4. bad = {}
  <2> SUFFICES ASSUME bad # {} PROVE FALSE
    OBVIOUS
  <2>1. PICK n \in bad : \A m \in bad : n <= m
    <3>1. bad \in SUBSET Nat
      BY <1>1
    <3> HIDE DEF bad
    <3> QED BY <3>1, LeastNumber
  <2>2. n \in 0 .. Len(files) /\ ~ Accepted(files, checked[n], n)
    OBVIOUS
  <2>3. CASE n = 0
    <3>1. checked[n] = [error |-> "ok", files |-> <<>>]
      BY <1>3, <2>2, <2>3
    <3>2. <<>> \in [{} -> Sizes] /\ DOMAIN <<>> = {} /\ Filled(files, 0) = {}
      BY DEF Filled
    <3>3. <<>> \in Maps
      BY <3>2 DEF Maps
    <3> DEFINE own == <<>>
    <3>4. DOMAIN own = {} /\ own \in Maps
      BY <3>2, <3>3
    <3> HIDE DEF own
    <3>5. Accepted(files, [error |-> "ok", files |-> own], 0)
      BY <3>2, <3>4, FS_EmptySet DEF Accepted
    <3> QED BY <2>2, <2>3, <3>1, <3>5 DEF own
  <2>4. CASE n # 0
    <3>1. n - 1 \in 0 .. Len(files) /\ n \in 1 .. Len(files) /\ ~ (n <= n - 1)
      BY <1>1, <2>2, <2>4
    <3>2. Accepted(files, checked[n - 1], n - 1)
      <4>1. n - 1 \notin bad
        BY <2>1, <3>1
      <4> QED BY <3>1, <4>1
    <3>3. checked[n] = Files!WithFile(checked[n - 1], files[n])
      BY <1>3, <2>2, <2>4
    <3> QED BY <2>2, <3>1, <3>2, <3>3, OneMoreAccepted
  <2> QED BY <2>3, <2>4
<1>5. Len(files) \in 0 .. Len(files)
  BY <1>1
<1> QED BY <1>2, <1>4, <1>5

\* What is uploaded and accepted can be shown.
LEMMA UploadsAreShown ==
  ASSUME Files!FilesAssumption, NEW files \in Seq(Files!Uploaded), NEW mode \in {"video", "image"}
  PROVE  Files!UploadsHold(files, mode)
<1> DEFINE upload == Files!_check_uploads(files)
           own == upload.files
           setting == [mode |-> mode, files |-> own]
           page == Files!resolve(setting)
<1> SUFFICES ASSUME upload.error = "ok"
             PROVE  /\ page.shape.width >= 1 /\ page.shape.height >= 1
                    /\ mode = "video" /\ "built-in" \notin page.videos =>
                          \E slot \in page.videos : page.shape = own[slot]
                    /\ mode = "image" => page.shape = IF page.image = "built-in"
                                                       THEN Files!BuiltIn ELSE own.image
                    /\ mode = "video" /\ "built-in" \in page.videos /\ page.image = "built-in"
                          => page.shape = Files!BuiltIn
                    /\ Files!Cardinality(DOMAIN own)
                          = Files!Cardinality({i \in DOMAIN files : files[i].bytes > 0})
  BY DEF Files!UploadsHold
<1>1. Accepted(files, upload, Len(files))
  BY UploadsAreAccepted
<1>2. Files!Cardinality(DOMAIN own) = Files!Cardinality({i \in DOMAIN files : files[i].bytes > 0})
  <2>1. Filled(files, Len(files)) = {i \in DOMAIN files : files[i].bytes > 0}
    BY DEF Filled
  <2> QED BY <1>1, <2>1, SameCardinality DEF Accepted
<1>3. /\ DOMAIN own \subseteq {"image", "mp4", "webm"}
      /\ \A slot \in DOMAIN own :
            own[slot].width \in Nat \ {0} /\ own[slot].height \in Nat \ {0}
  <2>1. own \in UNION {[S -> Sizes] : S \in SUBSET {"image", "mp4", "webm"}}
    BY <1>1 DEF Accepted, Maps
  <2> HIDE DEF own
  <2>2. PICK S \in SUBSET {"image", "mp4", "webm"} : own \in [S -> Sizes]
    BY <2>1
  <2>3. \A slot \in S : own[slot] \in Sizes
    BY <2>2
  <2> QED BY <2>2, <2>3 DEF Sizes
<1> DEFINE slots == IF mode = "video" THEN <<"webm", "mp4", "image">> ELSE <<"image">>
           have == {i \in DOMAIN slots : slots[i] \in DOMAIN own}
           first == slots[Files!Least(have)]
           videos == {"mp4", "webm"} \cap DOMAIN own
<1> HIDE DEF upload
<1> HIDE DEF own
<1>4. /\ page.videos = IF videos = {} THEN {"built-in"} ELSE videos
      /\ page.image = IF "image" \in DOMAIN own THEN "image" ELSE "built-in"
      /\ page.shape = IF have = {} \/ 0 \in {own[first].width, own[first].height} THEN Files!BuiltIn
                      ELSE own[first]
  BY DEF Files!resolve
<1>5. /\ have \subseteq {1, 2, 3}
      /\ have # {} => Files!Least(have) \in have /\ \A i \in have : Files!Least(have) <= i
  <2>1. have \subseteq {1, 2, 3}
    OBVIOUS
  <2>2. have \in SUBSET Nat
    BY <2>1
  <2> HIDE DEF have
  <2> QED BY <2>1, <2>2, LeastIs
<1>6. have # {} => first \in DOMAIN own
  BY <1>5
<1>7. page.shape = IF have = {} THEN Files!BuiltIn ELSE own[first]
  BY <1>3, <1>4, <1>6
<1>8. page.shape.width >= 1 /\ page.shape.height >= 1
  <2> HIDE DEF page, have
  <2> QED BY <1>3, <1>6, <1>7 DEF Files!BuiltIn
<1>9. ASSUME mode = "video", "built-in" \notin page.videos
      PROVE  \E slot \in page.videos : page.shape = own[slot]
  <2>1. videos # {} /\ page.videos = videos
    BY <1>4, <1>9
  <2>2. slots = <<"webm", "mp4", "image">> /\ DOMAIN slots = 1 .. 3
    BY <1>9
  <2>3. 1 \in have \/ 2 \in have
    BY <2>1, <2>2
  <2>4. Files!Least(have) \in {1, 2}
    <3> HIDE DEF have
    <3>1. /\ Files!Least(have) \in {1, 2, 3}
          /\ 1 \in have => Files!Least(have) <= 1
          /\ 2 \in have => Files!Least(have) <= 2
      BY <1>5, <2>3
    <3> QED BY <2>3, <3>1
  <2>5. first \in videos
    <3>1. slots[1] = "webm" /\ slots[2] = "mp4"
      BY <2>2
    <3>2. first \in DOMAIN own
      BY <1>6, <2>3
    <3>3. first = slots[1] \/ first = slots[2]
      BY <2>4
    <3> HIDE DEF first, slots
    <3> QED BY <3>1, <3>2, <3>3
  <2> QED BY <1>7, <2>1, <2>3, <2>5
<1>10. ASSUME mode = "image"
       PROVE  page.shape = IF page.image = "built-in" THEN Files!BuiltIn ELSE own.image
  <2>1. slots = <<"image">> /\ DOMAIN slots = {1}
    BY <1>10
  <2>2. CASE "image" \in DOMAIN own
    <3>1. have = {1}
      BY <2>1, <2>2
    <3>2. first = "image"
      <4>1. Files!Least(have) = 1
        <5> HIDE DEF have
        <5> QED BY <1>5, <3>1
      <4>2. slots[1] = "image"
        BY <2>1
      <4> QED BY <4>1, <4>2
    <3> QED BY <1>4, <1>7, <2>2, <3>1, <3>2
  <2>3. CASE "image" \notin DOMAIN own
    <3>1. have = {}
      BY <2>1, <2>3
    <3> QED BY <1>4, <1>7, <2>3, <3>1
  <2> QED BY <2>2, <2>3
<1>11. ASSUME mode = "video", "built-in" \in page.videos, page.image = "built-in"
       PROVE  page.shape = Files!BuiltIn
  <2>1. DOMAIN own = {}
    BY <1>3, <1>4, <1>11
  <2>2. have = {}
    BY <2>1
  <2> QED BY <1>7, <2>2
<1> HIDE DEF page
<1> QED BY <1>2, <1>8, <1>9, <1>10, <1>11

-----------------------------------------------------------------------------
(* A range gets the bytes of the file that are asked for and no others.    *)

\* By the four forms of a range.
LEMMA RangesAreServed ==
  ASSUME Files!FilesAssumption, NEW total \in Nat,
         NEW range \in [first : Nat \cup {None}, last : Nat \cup {None}]
  PROVE  Files!RangeHolds(total, range)
<1>1. None \notin Int
  BY DEF Files!FilesAssumption
<1>2. range = [first |-> range.first, last |-> range.last]
      /\ range.first \in Nat \cup {None} /\ range.last \in Nat \cup {None}
  OBVIOUS
<1> DEFINE reply == Files!ranged_response(total, range)
<1>3. CASE range.first # None /\ range.last # None
  <2>1. range.first \in Nat /\ range.last \in Nat
    BY <1>2, <1>3
  <2> QED BY <1>1, <1>3, <2>1 DEF Files!RangeHolds, Files!ranged_response
<1>4. CASE range.first # None /\ range.last = None
  <2>1. range.first \in Nat
    BY <1>2, <1>4
  <2> QED BY <1>1, <1>4, <2>1 DEF Files!RangeHolds, Files!ranged_response
<1>5. CASE range.first = None /\ range.last # None
  <2>1. range.last \in Nat
    BY <1>2, <1>5
  <2> QED BY <1>1, <1>5, <2>1 DEF Files!RangeHolds, Files!ranged_response
<1>6. CASE range.first = None /\ range.last = None
  BY <1>1, <1>2, <1>6 DEF Files!RangeHolds, Files!ranged_response
<1> QED BY <1>3, <1>4, <1>5, <1>6

-----------------------------------------------------------------------------
(* The cache.  A name that is found moves to the end, which leaves the set *)
(* of the names and so their bytes as they were; otherwise the oldest are  *)
(* dropped until the bound is met or one is left.                          *)

Distinct(s) == \A i, j \in 1 .. Len(s) : i # j => s[i] # s[j]
CacheIsGood(cache, names, size) ==
    names # <<>> =>
          /\ Files!Last(cache) = Files!Last(names) /\ Files!Cardinality(Files!ToSet(cache)) = Len(cache)
          /\ Len(cache) > 1 => Files!Bytes(cache, size) <= CacheBytes

\* The recursive function of CacheHolds.
LEMMA CachesExist ==
  ASSUME NEW names, NEW size, Len(names) \in Nat
  PROVE  \E caches :
            /\ caches = [n \in 0 .. Len(names) |->
                           IF n = 0 THEN <<>> ELSE Files!served(caches[n - 1], names[n], size)]
            /\ Files!CacheHolds(names, size) <=> CacheIsGood(caches[Len(names)], names, size)
<1> DEFINE N == Len(names)
           Step(f, n) == IF n = 0 THEN <<>> ELSE Files!served(f[n - 1], names[n], size)
           unsolved == {k \in 0 .. N : ~ \E f : f = [n \in 0 .. k |-> Step(f, n)]}
<1>1. unsolved = {}
  <2> SUFFICES ASSUME unsolved # {} PROVE FALSE
    OBVIOUS
  <2>1. PICK k \in unsolved : \A m \in unsolved : k <= m
    <3>1. unsolved \in SUBSET Nat
      OBVIOUS
    <3> HIDE DEF unsolved
    <3> QED BY <3>1, LeastNumber
  <2>2. k \in 0 .. N
    OBVIOUS
  <2>3. CASE k = 0
    <3> DEFINE f == [n \in 0 .. 0 |-> <<>>]
    <3>1. f = [n \in 0 .. 0 |-> Step(f, n)]
      OBVIOUS
    <3> QED BY <2>3, <3>1
  <2>4. CASE k # 0
    <3>1. k - 1 \in 0 .. N /\ k - 1 \notin unsolved
      <4> HIDE DEF unsolved
      <4>1. k - 1 \in 0 .. N /\ ~ (k <= k - 1)
        BY <2>2, <2>4
      <4> QED BY <2>1, <4>1
    <3>2. PICK f : f = [n \in 0 .. (k - 1) |-> Step(f, n)]
      BY <3>1
    <3> HIDE DEF unsolved, Step
    <3> DEFINE g == [n \in 0 .. k |-> IF n = k THEN Step(f, k) ELSE f[n]]
    <3>3. ASSUME NEW n \in 0 .. k PROVE g[n] = Step(g, n)
      <4>1. g[n] = Step(f, n)
        <5>1. CASE n = k
          BY <5>1
        <5>2. CASE n # k
          <6>1. n \in 0 .. (k - 1)
            BY <2>2, <5>2
          <6>2. f[n] = Step(f, n)
            BY <3>2, <6>1, Zenon
          <6> QED BY <5>2, <6>2
        <5> QED BY <5>1, <5>2
      <4>2. CASE n = 0
        BY <4>1, <4>2 DEF Step
      <4>3. CASE n # 0
        <5>1. n - 1 \in 0 .. k /\ n - 1 # k
          BY <2>2, <4>3
        <5>2. g[n - 1] = f[n - 1]
          BY <5>1
        <5> HIDE DEF g
        <5> QED BY <4>1, <4>3, <5>2 DEF Step
      <4> QED BY <4>2, <4>3
    <3>4. g = [n \in 0 .. k |-> g[n]]
      OBVIOUS
    <3> HIDE DEF g
    <3>5. g = [n \in 0 .. k |-> Step(g, n)]
      BY <3>3, <3>4
    <3> QED BY <2>1, <3>5 DEF unsolved
  <2> QED BY <2>3, <2>4
<1>2. \E f : f = [n \in 0 .. N |-> Step(f, n)]
  <2>1. N \in 0 .. N
    OBVIOUS
  <2> QED BY <1>1, <2>1
<1> DEFINE caches == CHOOSE f : f = [n \in 0 .. N |-> Step(f, n)]
<1>3. caches = [n \in 0 .. N |-> Step(caches, n)]
  BY <1>2, Zenon
<1>4. Files!CacheHolds(names, size) <=> CacheIsGood(caches[N], names, size)
  BY Zenon DEF Files!CacheHolds, CacheIsGood
<1> QED BY <1>3, <1>4, Zenon

\* A sequence without repetitions has as many elements as it is long.
LEMMA DistinctAreCounted ==
  ASSUME NEW T, NEW s \in Seq(T), Distinct(s)
  PROVE  Cardinality(Files!ToSet(s)) = Len(s)
<1>1. Len(s) \in Nat /\ DOMAIN s = 1 .. Len(s) /\ s = [i \in 1 .. Len(s) |-> s[i]]
  OBVIOUS
<1>2. s \in [1 .. Len(s) -> Files!ToSet(s)]
  BY <1>1 DEF Files!ToSet
<1>3. \A t \in Files!ToSet(s) : \E i \in 1 .. Len(s) : s[i] = t
  BY <1>1 DEF Files!ToSet
<1>4. s \in Bijection(1 .. Len(s), Files!ToSet(s))
  BY <1>2, <1>3 DEF Distinct, Bijection, Injection, Surjection, IsInjective
<1>5. ExistsBijection(1 .. Len(s), Files!ToSet(s))
  BY <1>4 DEF ExistsBijection
<1> QED BY <1>1, <1>5, FS_CountingElements

\* What is where in a part of a sequence, in a concatenation and in an extension.
LEMMA SubSeqIs ==
  ASSUME NEW T, NEW s \in Seq(T), NEW a \in 1 .. (Len(s) + 1), NEW b \in 0 .. Len(s), a <= b + 1
  PROVE  /\ SubSeq(s, a, b) \in Seq(T) /\ Len(SubSeq(s, a, b)) = b - a + 1
         /\ \A i \in 1 .. (b - a + 1) : SubSeq(s, a, b)[i] = s[a + i - 1]
<1>1. Len(s) \in Nat /\ \A i \in 1 .. Len(s) : s[i] \in T
  OBVIOUS
<1>2. \A i \in 1 .. (b - a + 1) : a + i - 1 \in 1 .. Len(s)
  BY <1>1
<1> QED BY <1>1, <1>2

LEMMA ConcatIs ==
  ASSUME NEW T, NEW s \in Seq(T), NEW t \in Seq(T)
  PROVE  /\ s \o t \in Seq(T) /\ Len(s \o t) = Len(s) + Len(t)
         /\ \A i \in 1 .. Len(s) : (s \o t)[i] = s[i]
         /\ \A i \in 1 .. Len(t) : (s \o t)[Len(s) + i] = t[i]
  OBVIOUS

LEMMA AppendIs ==
  ASSUME NEW T, NEW s \in Seq(T), NEW e \in T
  PROVE  /\ Append(s, e) \in Seq(T) /\ Len(Append(s, e)) = Len(s) + 1 /\ Append(s, e)[Len(s) + 1] = e
         /\ \A i \in 1 .. Len(s) : Append(s, e)[i] = s[i]
  OBVIOUS

\* What a cache keeps after n reads.
Kept(cache, names, size, n, N) ==
    /\ cache \in Seq(N) /\ Distinct(cache)
    /\ n > 0 => Len(cache) > 0 /\ cache[Len(cache)] = names[n]
    /\ Len(cache) > 1 => Files!Bytes(cache, size) <= CacheBytes

\* What serve_background does with one more name keeps the cache so.
LEMMA OneMoreServed ==
  ASSUME NEW N, NEW names \in Seq(N), NEW size, NEW n \in 1 .. Len(names),
         NEW cache, Kept(cache, names, size, n - 1, N)
  PROVE  Kept(Files!served(cache, names[n], size), names, size, n, N)
<1> DEFINE name == names[n]
           next == Files!served(cache, name, size)
<1>1. name \in N /\ cache \in Seq(N) /\ Distinct(cache) /\ n > 0
  BY DEF Kept
<1>2. Len(cache) \in Nat
  BY <1>1
<1>3. DOMAIN cache = 1 .. Len(cache)
  BY <1>1
<1>4. CASE name \in Files!ToSet(cache)
  <2> DEFINE place == CHOOSE i \in DOMAIN cache : cache[i] = name
             rest == SubSeq(cache, 1, place - 1) \o SubSeq(cache, place + 1, Len(cache))
  <2>1. place \in 1 .. Len(cache) /\ cache[place] = name
    <3>1. \E i \in DOMAIN cache : cache[i] = name
      BY <1>4 DEF Files!ToSet
    <3> QED BY <1>3, <3>1
  <2>2. next = Append(rest, name)
    BY <1>4 DEF Files!served, Files!RemoveAt
  <2> HIDE DEF place
  <2>3. /\ rest \in Seq(N) /\ Len(rest) = Len(cache) - 1
        /\ \A i \in 1 .. (Len(cache) - 1) : rest[i] = IF i < place THEN cache[i] ELSE cache[i + 1]
    <3> DEFINE low == SubSeq(cache, 1, place - 1)
               high == SubSeq(cache, place + 1, Len(cache))
    <3>1. /\ low \in Seq(N) /\ Len(low) = place - 1
          /\ \A i \in 1 .. (place - 1) : low[i] = cache[i]
      <4>1. 1 \in 1 .. (Len(cache) + 1) /\ place - 1 \in 0 .. Len(cache) /\ 1 <= (place - 1) + 1
        BY <1>2, <2>1
      <4>2. /\ low \in Seq(N) /\ Len(low) = (place - 1) - 1 + 1
            /\ \A i \in 1 .. ((place - 1) - 1 + 1) : low[i] = cache[1 + i - 1]
        BY ONLY <1>1, <4>1, SubSeqIs
      <4> HIDE DEF low
      <4> QED BY <2>1, <4>2
    <3>2. /\ high \in Seq(N) /\ Len(high) = Len(cache) - place
          /\ \A i \in 1 .. (Len(cache) - place) : high[i] = cache[place + i]
      <4>1. place + 1 \in 1 .. (Len(cache) + 1) /\ Len(cache) \in 0 .. Len(cache)
            /\ place + 1 <= Len(cache) + 1
        BY <1>2, <2>1
      <4>2. /\ high \in Seq(N) /\ Len(high) = Len(cache) - (place + 1) + 1
            /\ \A i \in 1 .. (Len(cache) - (place + 1) + 1) : high[i] = cache[(place + 1) + i - 1]
        BY ONLY <1>1, <4>1, SubSeqIs
      <4> HIDE DEF high
      <4>3. Len(cache) - (place + 1) + 1 = Len(cache) - place
            /\ \A i \in Nat : (place + 1) + i - 1 = place + i
        BY <1>2, <2>1
      <4> QED BY <4>2, <4>3
    <3> HIDE DEF low, high
    <3>3. /\ rest \in Seq(N) /\ Len(rest) = Len(low) + Len(high)
          /\ \A i \in 1 .. Len(low) : rest[i] = low[i]
          /\ \A i \in 1 .. Len(high) : rest[Len(low) + i] = high[i]
      <4>1. rest = low \o high
        BY DEF low, high
      <4> HIDE DEF rest
      <4>2. low \in Seq(N) /\ high \in Seq(N)
        BY <3>1, <3>2
      <4> QED BY ONLY <4>1, <4>2, ConcatIs
    <3> HIDE DEF rest
    <3>4. Len(rest) = Len(cache) - 1
      BY <1>2, <2>1, <3>1, <3>2, <3>3
    <3>5. ASSUME NEW i \in 1 .. (Len(cache) - 1)
          PROVE  rest[i] = IF i < place THEN cache[i] ELSE cache[i + 1]
      <4>1. CASE i < place
        <5>1. i \in 1 .. (place - 1)
          BY <1>2, <2>1, <4>1
        <5> QED BY <3>1, <3>3, <4>1, <5>1
      <4>2. CASE ~ (i < place)
        <5>1. PICK j \in 1 .. (Len(cache) - place) : i = place - 1 + j
          <6>1. i - (place - 1) \in 1 .. (Len(cache) - place) /\ i = place - 1 + (i - (place - 1))
            BY <1>2, <2>1, <4>2
          <6> QED BY <6>1
        <5>2. rest[i] = high[j] /\ high[j] = cache[place + j]
          BY <3>1, <3>2, <3>3, <5>1
        <5>3. place + j = i + 1
          BY <2>1, <5>1
        <5> QED BY <4>2, <5>2, <5>3
      <4> QED BY <4>1, <4>2
    <3> QED BY <3>3, <3>4, <3>5
  <2> HIDE DEF rest
  <2>4. /\ next \in Seq(N) /\ Len(next) = Len(cache) /\ next[Len(cache)] = name
        /\ \A i \in 1 .. (Len(cache) - 1) : next[i] = IF i < place THEN cache[i] ELSE cache[i + 1]
    <3>1. /\ next \in Seq(N) /\ Len(next) = Len(rest) + 1 /\ next[Len(rest) + 1] = name
          /\ \A i \in 1 .. Len(rest) : next[i] = rest[i]
      BY <1>1, <2>2, <2>3, AppendIs
    <3>2. Len(rest) + 1 = Len(cache)
      BY <1>2, <2>3
    <3> HIDE DEF next
    <3> QED BY <2>3, <3>1, <3>2
  <2> HIDE DEF next
  <2>5. Distinct(next)
    <3>1. ASSUME NEW i \in 1 .. Len(cache)
          PROVE  \E k \in 1 .. Len(cache) :
                    /\ next[i] = cache[k]
                    /\ k = IF i = Len(cache) THEN place ELSE IF i < place THEN i ELSE i + 1
      <4>1. CASE i = Len(cache)
        BY <2>1, <2>4, <4>1
      <4>2. CASE i # Len(cache)
        <5>1. i \in 1 .. (Len(cache) - 1)
          BY ONLY <1>2, <4>2, i \in 1 .. Len(cache)
        <5> QED BY <1>2, <2>1, <2>4, <4>2, <5>1
      <4> QED BY <4>1, <4>2
    <3>2. ASSUME NEW i \in 1 .. Len(cache), NEW j \in 1 .. Len(cache), i # j PROVE next[i] # next[j]
      <4>1. PICK k \in 1 .. Len(cache) :
               next[i] = cache[k] /\ k = IF i = Len(cache) THEN place ELSE IF i < place THEN i ELSE i + 1
        BY <3>1
      <4>2. PICK l \in 1 .. Len(cache) :
               next[j] = cache[l] /\ l = IF j = Len(cache) THEN place ELSE IF j < place THEN j ELSE j + 1
        BY <3>1
      <4>3. k # l
        BY ONLY <1>2, <2>1, i \in 1 .. Len(cache), j \in 1 .. Len(cache), i # j, <4>1, <4>2
      <4> QED BY <1>1, <4>1, <4>2, <4>3 DEF Distinct
    <3> QED BY <2>4, <3>2 DEF Distinct
  <2>6. Files!ToSet(next) = Files!ToSet(cache)
    <3>1. DOMAIN next = 1 .. Len(cache)
      BY <2>4
    <3>2. ASSUME NEW i \in 1 .. Len(cache) PROVE next[i] \in Files!ToSet(cache)
      <4>1. \E j \in 1 .. Len(cache) : next[i] = cache[j]
        <5>1. CASE i = Len(cache)
          BY <2>1, <2>4, <5>1
        <5>2. CASE i # Len(cache)
          <6>1. i \in 1 .. (Len(cache) - 1) /\ i + 1 \in 1 .. Len(cache)
            BY ONLY <1>2, <5>2, i \in 1 .. Len(cache)
          <6> QED BY <2>4, <6>1
        <5> QED BY <5>1, <5>2
      <4> QED BY <1>3, <4>1 DEF Files!ToSet
    <3>3. ASSUME NEW j \in 1 .. Len(cache) PROVE cache[j] \in Files!ToSet(next)
      <4>1. \E i \in 1 .. Len(cache) : next[i] = cache[j]
        <5>1. CASE j < place
          BY <1>2, <2>1, <2>4, <5>1
        <5>2. CASE j = place
          BY <1>2, <2>1, <2>4, <5>2
        <5>3. CASE j > place
          <6>1. j - 1 \in 1 .. (Len(cache) - 1) /\ ~ (j - 1 < place) /\ (j - 1) + 1 = j
            BY <1>2, <2>1, <5>3
          <6> QED BY <2>4, <6>1
        <5> QED BY <2>1, <5>1, <5>2, <5>3
      <4> QED BY <3>1, <4>1 DEF Files!ToSet
    <3> QED BY <1>3, <3>1, <3>2, <3>3 DEF Files!ToSet
  <2>7. Files!Bytes(next, size) = Files!Bytes(cache, size)
    BY <2>6 DEF Files!Bytes
  <2>8. Len(cache) > 1 => Files!Bytes(cache, size) <= CacheBytes
    BY DEF Kept
  <2>9. Len(next) > 0 /\ next[Len(next)] = name
    BY <1>2, <2>1, <2>4
  <2>10. Len(next) > 1 => Files!Bytes(next, size) <= CacheBytes
    BY <2>4, <2>7, <2>8
  <2>11. Kept(next, names, size, n, N)
    BY ONLY <2>4, <2>5, <2>9, <2>10 DEF Kept
  <2> QED BY <2>11 DEF next
<1>5. CASE name \notin Files!ToSet(cache)
  <2> DEFINE grown == Append(cache, name)
             fits == {i \in DOMAIN grown :
                        i = Len(grown) \/ Files!Bytes(SubSeq(grown, i, Len(grown)), size) <= CacheBytes}
             from == Files!Least(fits)
  <2>1. next = SubSeq(grown, from, Len(grown))
    BY <1>5 DEF Files!served
  <2>2. /\ grown \in Seq(N) /\ Len(grown) = Len(cache) + 1 /\ grown[Len(cache) + 1] = name
        /\ DOMAIN grown = 1 .. (Len(cache) + 1)
        /\ \A i \in 1 .. Len(cache) : grown[i] = cache[i]
    BY <1>1, <1>2
  <2> HIDE DEF grown
  <2>3. Distinct(grown)
    <3>1. \A i \in 1 .. Len(cache) : grown[i] # name
      BY <1>3, <1>5, <2>2 DEF Files!ToSet
    <3> QED BY <1>1, <1>2, <2>2, <3>1 DEF Distinct
  <2>4. from \in fits
    <3>1. fits \in SUBSET Nat /\ Len(grown) \in fits
      BY <1>2, <2>2
    <3> HIDE DEF fits
    <3> QED BY <3>1, LeastIs
  <2>5. from \in 1 .. Len(grown) /\ Len(grown) \in Nat
        /\ (from = Len(grown) \/ Files!Bytes(next, size) <= CacheBytes)
    BY <1>2, <2>1, <2>2, <2>4
  <2> HIDE DEF from
  <2>6. /\ next \in Seq(N) /\ Len(next) = Len(grown) - from + 1
        /\ \A i \in 1 .. Len(next) : next[i] = grown[from + i - 1]
    BY <2>1, <2>2, <2>5
  <2> HIDE DEF next
  <2>7. Distinct(next)
    BY <2>3, <2>5, <2>6 DEF Distinct
  <2>8. Len(next) > 0 /\ next[Len(next)] = name
    <3>1. Len(next) \in 1 .. Len(next) /\ from + Len(next) - 1 = Len(grown)
      BY <2>5, <2>6
    <3> QED BY <2>2, <2>6, <3>1
  <2>9. Len(next) > 1 => Files!Bytes(next, size) <= CacheBytes
    BY <2>5, <2>6
  <2>10. Kept(next, names, size, n, N)
    BY ONLY <2>6, <2>7, <2>8, <2>9 DEF Kept
  <2> QED BY <2>10 DEF next
<1> QED BY <1>4, <1>5

\* Whatever is served in turn, the cache is within its bound or holds one file.
LEMMA CacheIsBounded ==
  ASSUME NEW N, NEW names \in Seq(N), NEW size
  PROVE  Files!CacheHolds(names, size)
<1>1. Len(names) \in Nat
  OBVIOUS
<1>2. PICK caches : /\ caches = [n \in 0 .. Len(names) |->
                                   IF n = 0 THEN <<>> ELSE Files!served(caches[n - 1], names[n], size)]
                    /\ Files!CacheHolds(names, size) <=> CacheIsGood(caches[Len(names)], names, size)
  BY <1>1, CachesExist
<1>3. \A n \in 0 .. Len(names) :
        caches[n] = IF n = 0 THEN <<>> ELSE Files!served(caches[n - 1], names[n], size)
  BY <1>2, Zenon
<1> DEFINE bad == {n \in 0 .. Len(names) : ~ Kept(caches[n], names, size, n, N)}
<1>4. bad = {}
  <2> SUFFICES ASSUME bad # {} PROVE FALSE
    OBVIOUS
  <2>1. PICK n \in bad : \A m \in bad : n <= m
    <3>1. bad \in SUBSET Nat
      BY <1>1
    <3> HIDE DEF bad
    <3> QED BY <3>1, LeastNumber
  <2>2. n \in 0 .. Len(names) /\ ~ Kept(caches[n], names, size, n, N)
    OBVIOUS
  <2>3. CASE n = 0
    <3>1. caches[n] = <<>>
      BY <1>3, <2>2, <2>3
    <3>2. Kept(<<>>, names, size, 0, N)
      BY DEF Kept, Distinct
    <3> QED BY <2>2, <2>3, <3>1, <3>2
  <2>4. CASE n # 0
    <3>1. n - 1 \in 0 .. Len(names) /\ n \in 1 .. Len(names) /\ ~ (n <= n - 1)
      BY <1>1, <2>2, <2>4
    <3>2. Kept(caches[n - 1], names, size, n - 1, N)
      <4>1. n - 1 \notin bad
        BY <2>1, <3>1
      <4> QED BY <3>1, <4>1
    <3>3. caches[n] = Files!served(caches[n - 1], names[n], size)
      BY <1>3, <2>2, <2>4
    <3> QED BY <2>2, <3>1, <3>2, <3>3, OneMoreServed
  <2> QED BY <2>3, <2>4
<1> DEFINE cache == caches[Len(names)]
<1>5. Kept(cache, names, size, Len(names), N)
  <2>1. Len(names) \in 0 .. Len(names)
    BY <1>1
  <2> QED BY <1>4, <2>1
<1> HIDE DEF cache
<1>6. CacheIsGood(cache, names, size)
  <2>1. Files!Cardinality(Files!ToSet(cache)) = Len(cache)
    BY <1>5, DistinctAreCounted, SameCardinality DEF Kept
  <2>2. ASSUME names # <<>> PROVE Files!Last(cache) = Files!Last(names)
    <3>1. Len(names) > 0
      BY <2>2
    <3> QED BY <1>5, <3>1 DEF Kept, Files!Last
  <2>3. Len(cache) > 1 => Files!Bytes(cache, size) <= CacheBytes
    BY <1>5 DEF Kept
  <2> QED BY <2>1, <2>2, <2>3 DEF CacheIsGood
<1> QED BY <1>2, <1>6 DEF cache

-----------------------------------------------------------------------------
(* Sales.  What is at a place in the order of the prices is defined by     *)
(* counting, and everything about the fence and the median by counting.    *)

LEMMA SalesCount == \A S : SalesHistory!Cardinality(S) = Cardinality(S)
BY DEF SalesHistory!Cardinality, Cardinality

\* Rows that can be put in order.
Priced(rows) ==
    /\ IsFiniteSet(DOMAIN rows)
    /\ \A i \in DOMAIN rows : rows[i].price \in Nat
\* The price is the one at the place.
AtPlace(rows, price, place) ==
    /\ \E i \in DOMAIN rows : price = rows[i].price
    /\ Cardinality(SalesHistory!Below(rows, price)) < place
    /\ place <= Cardinality(SalesHistory!UpTo(rows, price))

\* What is counted is finite.
LEMMA Countable ==
  ASSUME NEW rows, Priced(rows), NEW price
  PROVE  /\ IsFiniteSet(SalesHistory!Below(rows, price)) /\ IsFiniteSet(SalesHistory!UpTo(rows, price))
         /\ Cardinality(SalesHistory!Below(rows, price)) \in Nat
         /\ Cardinality(SalesHistory!UpTo(rows, price)) \in Nat
         /\ Cardinality(SalesHistory!UpTo(rows, price)) <= Cardinality(DOMAIN rows)
         /\ Cardinality(DOMAIN rows) \in Nat
<1>1. /\ SalesHistory!Below(rows, price) \in SUBSET DOMAIN rows
      /\ SalesHistory!UpTo(rows, price) \in SUBSET DOMAIN rows
  BY DEF SalesHistory!Below, SalesHistory!UpTo
<1> QED BY <1>1, FS_Subset, FS_CardinalityType DEF Priced

\* There is a price at each place.
LEMMA PlacesAreTaken ==
  ASSUME NEW rows, Priced(rows), NEW place \in Nat, 1 <= place, place <= Cardinality(DOMAIN rows)
  PROVE  \E price \in Nat : AtPlace(rows, price, place)
<1> DEFINE places == DOMAIN rows
           prices == {rows[i].price : i \in places}
           reached == {m \in Nat : place <= Cardinality(SalesHistory!UpTo(rows, m))}
<1>1. prices \in SUBSET Nat /\ prices # {} /\ IsFiniteSet(prices)
  <2>1. Cardinality(places) \in Nat /\ places # {}
    BY FS_CardinalityType, FS_EmptySet DEF Priced
  <2>2. [i \in places |-> rows[i].price] \in Surjection(places, prices)
    BY DEF Surjection
  <2>3. IsFiniteSet(prices)
    BY <2>2, FS_Surjection DEF Priced
  <2> QED BY <2>1, <2>3 DEF Priced
<1>2. PICK top \in prices : \A p \in prices : p <= top
  BY <1>1, GreatestNumber
<1>3. top \in reached
  <2>1. SalesHistory!UpTo(rows, top) = places
    BY <1>2 DEF SalesHistory!UpTo
  <2> QED BY <1>1, <2>1
<1>4. PICK m \in reached : \A n \in reached : m <= n
  <2>1. reached \in SUBSET Nat
    OBVIOUS
  <2> HIDE DEF reached
  <2> QED BY <1>3, <2>1, LeastNumber
<1>5. Cardinality(SalesHistory!Below(rows, m)) < place
  <2>1. CASE m = 0
    <3>1. SalesHistory!Below(rows, m) = {}
      BY <2>1 DEF SalesHistory!Below, Priced
    <3> QED BY <3>1, FS_EmptySet
  <2>2. CASE m # 0
    <3>1. m - 1 \in Nat /\ ~ (m <= m - 1)
      BY <2>2
    <3>2. ~ (place <= Cardinality(SalesHistory!UpTo(rows, m - 1)))
      BY <1>4, <3>1
    <3>3. SalesHistory!Below(rows, m) = SalesHistory!UpTo(rows, m - 1)
      BY DEF SalesHistory!Below, SalesHistory!UpTo, Priced
    <3>4. Cardinality(SalesHistory!UpTo(rows, m - 1)) \in Nat
      BY Countable
    <3> QED BY <3>2, <3>3, <3>4
  <2> QED BY <2>1, <2>2
<1>6. \E i \in places : m = rows[i].price
  <2> SUFFICES ASSUME \A i \in places : m # rows[i].price PROVE FALSE
    OBVIOUS
  <2>1. SalesHistory!Below(rows, m) = SalesHistory!UpTo(rows, m)
    BY DEF SalesHistory!Below, SalesHistory!UpTo, Priced
  <2> QED BY <1>5, <2>1, Countable
<1> QED BY <1>5, <1>6 DEF AtPlace

\* And only one.
LEMMA SortedIs ==
  ASSUME NEW rows, Priced(rows), NEW place \in Nat, NEW price, AtPlace(rows, price, place)
  PROVE  SalesHistory!Sorted(rows, place) = price
<1> DEFINE prices == {rows[i].price : i \in DOMAIN rows}
<1>1. ASSUME NEW p \in prices, NEW q \in prices, AtPlace(rows, p, place), AtPlace(rows, q, place)
      PROVE  ~ (p < q)
  <2> SUFFICES ASSUME p < q PROVE FALSE
    OBVIOUS
  <2>1. p \in Nat /\ q \in Nat
    BY DEF Priced
  <2>2. SalesHistory!UpTo(rows, p) \in SUBSET SalesHistory!Below(rows, q)
    BY <2>1 DEF SalesHistory!Below, SalesHistory!UpTo, Priced
  <2>3. Cardinality(SalesHistory!UpTo(rows, p)) <= Cardinality(SalesHistory!Below(rows, q))
    BY <2>2, Countable, FS_Subset
  <2> QED BY <1>1, <2>3, Countable DEF AtPlace
<1>2. \A p \in prices : AtPlace(rows, p, place) => p = price
  <2>1. price \in prices /\ prices \subseteq Nat
    BY DEF AtPlace, Priced
  <2> HIDE DEF prices
  <2> QED BY <1>1, <2>1
<1>3. price \in prices
  BY DEF AtPlace
<1>4. SalesHistory!Sorted(rows, place) = CHOOSE p \in prices : AtPlace(rows, p, place)
  BY SalesCount DEF SalesHistory!Sorted, AtPlace
<1> HIDE DEF prices
<1> QED BY <1>2, <1>3, <1>4

LEMMA SortedAt ==
  ASSUME NEW rows, Priced(rows), NEW place \in Nat, 1 <= place, place <= Cardinality(DOMAIN rows)
  PROVE  /\ SalesHistory!Sorted(rows, place) \in Nat
         /\ AtPlace(rows, SalesHistory!Sorted(rows, place), place)
BY PlacesAreTaken, SortedIs

-----------------------------------------------------------------------------
\* Rows that are there twice.
Twice(rows) == [p \in (DOMAIN rows) \X {1, 2} |-> rows[p[1]]]

\* Places that are there twice.
LEMMA Doubled ==
  ASSUME NEW S, IsFiniteSet(S)
  PROVE  /\ IsFiniteSet(S \X {1, 2})
         /\ Cardinality(S \X {1, 2}) = 2 * Cardinality(S)
         /\ Cardinality(S) \in Nat
<1>1. IsFiniteSet({1, 2}) /\ Cardinality({1, 2}) = 2
  <2>1. {1, 2} = {1} \cup {2} /\ 2 \notin {1}
    OBVIOUS
  <2>2. IsFiniteSet({1}) /\ Cardinality({1}) = 1
    BY FS_Singleton
  <2> QED BY <2>1, <2>2, FS_AddElement
<1>2. Cardinality(S) \in Nat
  BY FS_CardinalityType
<1>3. IsFiniteSet(S \X {1, 2}) /\ Cardinality(S \X {1, 2}) = Cardinality(S) * 2
  BY <1>1, FS_Product
<1> QED BY <1>2, <1>3

\* They are put in order like the rows.
LEMMA TwicePriced ==
  ASSUME NEW rows, Priced(rows)
  PROVE  /\ Priced(Twice(rows))
         /\ DOMAIN Twice(rows) = (DOMAIN rows) \X {1, 2}
         /\ \A p \in DOMAIN Twice(rows) : p[1] \in DOMAIN rows /\ Twice(rows)[p] = rows[p[1]]
BY Doubled DEF Priced, Twice

\* And each price has the places that it has, and as many behind it.
LEMMA SortedTwice ==
  ASSUME NEW rows, Priced(rows), NEW place \in Nat, 1 <= place, place <= 2 * Cardinality(DOMAIN rows)
  PROVE  SalesHistory!Sorted(Twice(rows), place) = SalesHistory!Sorted(rows, (place + 1) \div 2)
<1> DEFINE price == SalesHistory!Sorted(rows, (place + 1) \div 2)
<1>1. Cardinality(DOMAIN rows) \in Nat
  BY Countable
<1>2. AtPlace(rows, price, (place + 1) \div 2)
  <2>1. (place + 1) \div 2 \in Nat /\ 1 <= (place + 1) \div 2
        /\ (place + 1) \div 2 <= Cardinality(DOMAIN rows)
    BY <1>1
  <2> QED BY <2>1, SortedAt
<1> HIDE DEF price
<1>3. /\ SalesHistory!Below(Twice(rows), price) = SalesHistory!Below(rows, price) \X {1, 2}
      /\ SalesHistory!UpTo(Twice(rows), price) = SalesHistory!UpTo(rows, price) \X {1, 2}
  BY DEF SalesHistory!Below, SalesHistory!UpTo, Twice
<1>4. /\ Cardinality(SalesHistory!Below(Twice(rows), price))
           = 2 * Cardinality(SalesHistory!Below(rows, price))
      /\ Cardinality(SalesHistory!UpTo(Twice(rows), price))
           = 2 * Cardinality(SalesHistory!UpTo(rows, price))
  BY <1>3, Countable, Doubled
<1>5. \E p \in DOMAIN Twice(rows) : price = Twice(rows)[p].price
  <2>1. PICK i \in DOMAIN rows : price = rows[i].price
    BY <1>2 DEF AtPlace
  <2>2. <<i, 1>> \in DOMAIN Twice(rows) /\ Twice(rows)[<<i, 1>>] = rows[i]
    BY DEF Twice
  <2> QED BY <2>1, <2>2
<1>6. AtPlace(Twice(rows), price, place)
  <2>1. /\ Cardinality(SalesHistory!Below(rows, price)) \in Nat
        /\ Cardinality(SalesHistory!UpTo(rows, price)) \in Nat
    BY Countable
  <2>2. /\ Cardinality(SalesHistory!Below(rows, price)) < (place + 1) \div 2
        /\ (place + 1) \div 2 <= Cardinality(SalesHistory!UpTo(rows, price))
    BY <1>2 DEF AtPlace
  <2>3. /\ 2 * Cardinality(SalesHistory!Below(rows, price)) < place
        /\ place <= 2 * Cardinality(SalesHistory!UpTo(rows, price))
    BY <2>1, <2>2
  <2> QED BY <1>4, <1>5, <2>3 DEF AtPlace
<1> QED BY <1>6, TwicePriced, SortedIs DEF price

\* What is above a price.
LEMMA AboveIs ==
  ASSUME NEW rows, Priced(rows), NEW price \in Nat
  PROVE  /\ IsFiniteSet({i \in DOMAIN rows : price < rows[i].price})
         /\ Cardinality({i \in DOMAIN rows : price < rows[i].price})
              = Cardinality(DOMAIN rows) - Cardinality(SalesHistory!UpTo(rows, price))
         /\ IsFiniteSet({i \in DOMAIN rows : price <= rows[i].price})
         /\ Cardinality({i \in DOMAIN rows : price <= rows[i].price})
              = Cardinality(DOMAIN rows) - Cardinality(SalesHistory!Below(rows, price))
<1> DEFINE below == SalesHistory!Below(rows, price)
           upto == SalesHistory!UpTo(rows, price)
<1>1. /\ {i \in DOMAIN rows : price < rows[i].price} = (DOMAIN rows) \ upto
      /\ {i \in DOMAIN rows : price <= rows[i].price} = (DOMAIN rows) \ below
      /\ (DOMAIN rows) \cap upto = upto /\ (DOMAIN rows) \cap below = below
  BY DEF SalesHistory!Below, SalesHistory!UpTo, Priced
<1>2. IsFiniteSet(DOMAIN rows)
  BY DEF Priced
<1> HIDE DEF below, upto
<1>3. /\ IsFiniteSet((DOMAIN rows) \ upto) /\ IsFiniteSet((DOMAIN rows) \ below)
      /\ Cardinality((DOMAIN rows) \ upto) = Cardinality(DOMAIN rows) - Cardinality(upto)
      /\ Cardinality((DOMAIN rows) \ below) = Cardinality(DOMAIN rows) - Cardinality(below)
  BY <1>1, <1>2, FS_Difference
<1> QED BY <1>1, <1>3 DEF below, upto

\* Of two places the one behind has no lower price.
LEMMA SortedRises ==
  ASSUME NEW rows, Priced(rows), NEW j \in Nat, NEW k \in Nat, j <= k,
         NEW p \in Nat, NEW q \in Nat, AtPlace(rows, p, j), AtPlace(rows, q, k)
  PROVE  p <= q
<1> SUFFICES ASSUME q < p PROVE FALSE
  OBVIOUS
<1>1. SalesHistory!UpTo(rows, q) \in SUBSET SalesHistory!Below(rows, p)
  BY DEF SalesHistory!Below, SalesHistory!UpTo, Priced
<1>2. Cardinality(SalesHistory!UpTo(rows, q)) <= Cardinality(SalesHistory!Below(rows, p))
  BY <1>1, Countable, FS_Subset
<1> QED BY <1>2, Countable DEF AtPlace

-----------------------------------------------------------------------------
\* The quartiles, and the fence around them.
LEMMA FenceIs ==
  ASSUME NEW rows, Priced(rows), DOMAIN rows # {}
  PROVE  \E q1, q3 \in Nat :
            LET n == Cardinality(DOMAIN rows) IN
            /\ q1 <= q3
            /\ AtPlace(rows, q1, n \div 4 + 1) /\ AtPlace(rows, q3, (3 * n) \div 4 + 1)
            /\ SalesHistory!Fence(rows)
                 = [lower |-> q1 - 3 * (q3 - q1), upper |-> q3 + 3 * (q3 - q1)]
<1> DEFINE n == Cardinality(DOMAIN rows)
           q1 == SalesHistory!Sorted(rows, n \div 4 + 1)
           q3 == SalesHistory!Sorted(rows, (3 * n) \div 4 + 1)
<1>1. n \in Nat /\ n # 0
  BY Countable, FS_EmptySet DEF Priced
<1>2. /\ n \div 4 + 1 \in Nat /\ 1 <= n \div 4 + 1 /\ n \div 4 + 1 <= n
      /\ (3 * n) \div 4 + 1 \in Nat /\ 1 <= (3 * n) \div 4 + 1 /\ (3 * n) \div 4 + 1 <= n
      /\ n \div 4 + 1 <= (3 * n) \div 4 + 1
  <2> HIDE DEF n
  <2> QED BY <1>1
<1>3. /\ q1 \in Nat /\ AtPlace(rows, q1, n \div 4 + 1)
      /\ q3 \in Nat /\ AtPlace(rows, q3, (3 * n) \div 4 + 1)
  <2> HIDE DEF n
  <2> QED BY <1>2, SortedAt DEF n
<1>4. SalesHistory!Fence(rows) = [lower |-> q1 - 3 * (q3 - q1), upper |-> q3 + 3 * (q3 - q1)]
  BY SalesCount DEF SalesHistory!Fence
<1>5. q1 <= q3
  <2> HIDE DEF n, q1, q3
  <2> QED BY <1>2, <1>3, SortedRises
<1> QED BY <1>3, <1>4, <1>5

\* The fence of the rows is the fence of the rows twice.
LEMMA FenceTwice ==
  ASSUME NEW rows, Priced(rows), DOMAIN rows # {}
  PROVE  SalesHistory!Fence(Twice(rows)) = SalesHistory!Fence(rows)
<1> DEFINE n == Cardinality(DOMAIN rows)
<1>1. n \in Nat /\ n # 0
  BY Countable, FS_EmptySet DEF Priced
<1>2. Cardinality(DOMAIN Twice(rows)) = 2 * n
  BY TwicePriced, Doubled DEF Priced
<1>3. /\ (2 * n) \div 4 + 1 \in Nat /\ 1 <= (2 * n) \div 4 + 1 /\ (2 * n) \div 4 + 1 <= 2 * n
      /\ ((2 * n) \div 4 + 1 + 1) \div 2 = n \div 4 + 1
      /\ (3 * (2 * n)) \div 4 + 1 \in Nat /\ 1 <= (3 * (2 * n)) \div 4 + 1
      /\ (3 * (2 * n)) \div 4 + 1 <= 2 * n
      /\ ((3 * (2 * n)) \div 4 + 1 + 1) \div 2 = (3 * n) \div 4 + 1
  <2> HIDE DEF n
  <2> QED BY <1>1
<1>4. /\ SalesHistory!Sorted(Twice(rows), (2 * n) \div 4 + 1) = SalesHistory!Sorted(rows, n \div 4 + 1)
      /\ SalesHistory!Sorted(Twice(rows), (3 * (2 * n)) \div 4 + 1)
           = SalesHistory!Sorted(rows, (3 * n) \div 4 + 1)
  BY <1>3, SortedTwice
<1> HIDE DEF n
<1> QED BY <1>2, <1>4, SalesCount DEF SalesHistory!Fence, n

-----------------------------------------------------------------------------
\* What is kept is among the rows.
LEMMA KeptAre ==
  ASSUME NEW rows, Priced(rows)
  PROVE  /\ SalesHistory!Kept(rows) \in SUBSET DOMAIN rows
         /\ IsFiniteSet(SalesHistory!Kept(rows)) /\ Cardinality(SalesHistory!Kept(rows)) \in Nat
         /\ Cardinality(SalesHistory!Kept(rows)) <= Cardinality(DOMAIN rows)
         /\ Priced(SalesHistory!non_outlier(rows))
         /\ DOMAIN SalesHistory!non_outlier(rows) = SalesHistory!Kept(rows)
<1>1. SalesHistory!Kept(rows) \in SUBSET DOMAIN rows
  BY DEF SalesHistory!Kept
<1>2. /\ IsFiniteSet(SalesHistory!Kept(rows)) /\ Cardinality(SalesHistory!Kept(rows)) \in Nat
      /\ Cardinality(SalesHistory!Kept(rows)) <= Cardinality(DOMAIN rows)
  BY <1>1, FS_Subset, FS_CardinalityType DEF Priced
<1> QED BY <1>1, <1>2 DEF SalesHistory!non_outlier, Priced

\* No more than a quarter of the rows is below the fence, and less than one above.
LEMMA MostAreKept ==
  ASSUME NEW rows, Priced(rows)
  PROVE  2 * Cardinality(SalesHistory!Kept(rows)) >= Cardinality(DOMAIN rows)
<1> DEFINE n == Cardinality(DOMAIN rows)
           remaining == SalesHistory!Kept(rows)
<1>1. n \in Nat /\ Cardinality(remaining) \in Nat
  BY Countable, KeptAre
<1>2. CASE n < FenceRows \/ DOMAIN rows = {}
  <2> SUFFICES remaining = DOMAIN rows
    BY <1>1
  <2>1. CASE n < FenceRows
    <3>1. ~ (n >= FenceRows)
      BY <1>1, <2>1, InputsAssumption DEF SalesHistory!SalesAssumption
    <3> QED BY <3>1, SalesCount DEF SalesHistory!Kept, SalesHistory!is_outlier
  <2>2. CASE DOMAIN rows = {}
    BY <2>2 DEF SalesHistory!Kept
  <2> QED BY <1>2, <2>1, <2>2
<1>3. CASE DOMAIN rows # {}
  <2>1. PICK q1 \in Nat, q3 \in Nat :
           /\ q1 <= q3
           /\ AtPlace(rows, q1, n \div 4 + 1) /\ AtPlace(rows, q3, (3 * n) \div 4 + 1)
           /\ SalesHistory!Fence(rows) = [lower |-> q1 - 3 * (q3 - q1), upper |-> q3 + 3 * (q3 - q1)]
    BY <1>3, FenceIs
  <2> DEFINE below == SalesHistory!Below(rows, q1)
             above == {i \in DOMAIN rows : q3 < rows[i].price}
             upto == SalesHistory!UpTo(rows, q3)
  <2>2. (DOMAIN rows) \ remaining \in SUBSET (below \cup above)
    <3> SUFFICES ASSUME NEW i \in DOMAIN rows, i \notin remaining
                 PROVE  rows[i].price < q1 \/ q3 < rows[i].price
      BY DEF SalesHistory!Below
    <3>1. rows[i].price \notin (q1 - 3 * (q3 - q1)) .. (q3 + 3 * (q3 - q1))
      BY <2>1 DEF SalesHistory!Kept, SalesHistory!is_outlier
    <3>2. rows[i].price \in Nat
      BY DEF Priced
    <3> QED BY <2>1, <3>1, <3>2
  <2>3. /\ IsFiniteSet(below) /\ Cardinality(below) \in Nat /\ Cardinality(below) < n \div 4 + 1
        /\ IsFiniteSet(above) /\ Cardinality(above) = n - Cardinality(upto)
        /\ Cardinality(upto) \in Nat /\ (3 * n) \div 4 + 1 <= Cardinality(upto)
        /\ Cardinality(above) \in Nat
    <3>1. /\ IsFiniteSet(above) /\ Cardinality(above) = n - Cardinality(upto)
      BY <2>1, AboveIs
    <3> QED BY <2>1, <3>1, Countable, FS_CardinalityType DEF AtPlace
  <2> HIDE DEF below, above, upto
  <2>4. /\ IsFiniteSet(below \cup above)
        /\ Cardinality(below \cup above) <= Cardinality(below) + Cardinality(above)
    <3>1. Cardinality(below \cap above) \in Nat
      <4>1. below \cap above \in SUBSET below
        OBVIOUS
      <4> QED BY <2>3, <4>1, FS_Subset, FS_CardinalityType
    <3>2. /\ IsFiniteSet(below \cup above)
          /\ Cardinality(below \cup above)
               = Cardinality(below) + Cardinality(above) - Cardinality(below \cap above)
      BY <2>3, FS_Union
    <3> QED BY <2>3, <3>1, <3>2
  <2>5. Cardinality((DOMAIN rows) \ remaining) <= Cardinality(below) + Cardinality(above)
    <3>1. /\ Cardinality((DOMAIN rows) \ remaining) <= Cardinality(below \cup above)
          /\ Cardinality((DOMAIN rows) \ remaining) \in Nat /\ Cardinality(below \cup above) \in Nat
      BY <2>2, <2>4, FS_Subset, FS_CardinalityType
    <3> QED BY <2>3, <2>4, <3>1
  <2>6. Cardinality((DOMAIN rows) \ remaining) = n - Cardinality(remaining)
    <3>1. (DOMAIN rows) \cap remaining = remaining
      BY KeptAre
    <3> QED BY <3>1, FS_Difference DEF Priced
  <2> HIDE DEF n, remaining
  <2>7. n - Cardinality(remaining) <= n \div 4 + (n - ((3 * n) \div 4 + 1))
    BY <1>1, <2>3, <2>5, <2>6
  <2> QED BY <1>1, <2>7 DEF n, remaining
<1> QED BY <1>2, <1>3

\* The rows that are kept are the same, twice.
LEMMA KeptTwice ==
  ASSUME NEW rows, Priced(rows), DOMAIN rows # {}, Cardinality(DOMAIN rows) >= FenceRows
  PROVE  /\ SalesHistory!Kept(Twice(rows)) = SalesHistory!Kept(rows) \X {1, 2}
         /\ SalesHistory!non_outlier(Twice(rows)) = Twice(SalesHistory!non_outlier(rows))
<1>1. /\ Cardinality(DOMAIN rows) \in Nat /\ FenceRows \in Nat
      /\ Cardinality(DOMAIN Twice(rows)) = 2 * Cardinality(DOMAIN rows)
  BY TwicePriced, Doubled, Countable, InputsAssumption DEF Priced, SalesHistory!SalesAssumption
<1>2. ASSUME NEW p \in DOMAIN Twice(rows)
      PROVE  SalesHistory!is_outlier(Twice(rows), p) <=> SalesHistory!is_outlier(rows, p[1])
  <2>1. Cardinality(DOMAIN Twice(rows)) >= FenceRows
    BY <1>1
  <2>2. Twice(rows)[p] = rows[p[1]]
    BY TwicePriced
  <2> QED BY <2>1, <2>2, SalesCount, FenceTwice DEF SalesHistory!is_outlier
<1>3. SalesHistory!Kept(Twice(rows)) = SalesHistory!Kept(rows) \X {1, 2}
  <2>1. \A p : p \in SalesHistory!Kept(Twice(rows))
               <=> p \in (DOMAIN rows) \X {1, 2} /\ ~ SalesHistory!is_outlier(rows, p[1])
    BY <1>2, TwicePriced DEF SalesHistory!Kept
  <2>2. \A p : p \in SalesHistory!Kept(rows) \X {1, 2}
               <=> p \in (DOMAIN rows) \X {1, 2} /\ ~ SalesHistory!is_outlier(rows, p[1])
    BY DEF SalesHistory!Kept
  <2> QED BY <2>1, <2>2
<1>4. \A p \in SalesHistory!Kept(rows) \X {1, 2} : /\ Twice(rows)[p] = rows[p[1]]
                                                   /\ p[1] \in SalesHistory!Kept(rows)
  BY TwicePriced DEF SalesHistory!Kept
<1> QED BY <1>3, <1>4 DEF SalesHistory!non_outlier, Twice

\* The statistics of rows that are kept.
LEMMA StatisticsAre ==
  ASSUME NEW rows, Priced(rows)
  PROVE  LET remaining == SalesHistory!non_outlier(rows)
             m == Cardinality(SalesHistory!Kept(rows)) IN
         SalesHistory!compute_statistics(rows)
           = IF m = 0 THEN [low |-> None, median |-> None, high |-> None, row_count |-> 0]
             ELSE [low |-> SalesHistory!Sorted(remaining, 1),
                   median |-> SalesHistory!Sorted(remaining, (m + 1) \div 2),
                   high |-> SalesHistory!Sorted(remaining, m), row_count |-> m]
BY SalesCount DEF SalesHistory!compute_statistics

LEMMA StatisticsTwice ==
  ASSUME NEW rows, Priced(rows), DOMAIN rows # {}, Cardinality(DOMAIN rows) >= FenceRows
  PROVE  SalesHistory!compute_statistics(Twice(rows))
            = [SalesHistory!compute_statistics(rows) EXCEPT !.row_count = 2 * @]
<1> DEFINE remaining == SalesHistory!non_outlier(rows)
           m == Cardinality(SalesHistory!Kept(rows))
<1>1. m \in Nat /\ Priced(remaining) /\ DOMAIN remaining = SalesHistory!Kept(rows)
  BY KeptAre
<1>2. Cardinality(SalesHistory!Kept(Twice(rows))) = 2 * m
  BY KeptAre, KeptTwice, Doubled
<1>3. SalesHistory!non_outlier(Twice(rows)) = Twice(remaining)
  BY KeptTwice
<1>4. m # 0 => /\ SalesHistory!Sorted(Twice(remaining), 1) = SalesHistory!Sorted(remaining, 1)
               /\ SalesHistory!Sorted(Twice(remaining), (2 * m + 1) \div 2)
                    = SalesHistory!Sorted(remaining, (m + 1) \div 2)
               /\ SalesHistory!Sorted(Twice(remaining), 2 * m) = SalesHistory!Sorted(remaining, m)
  <2> SUFFICES ASSUME m # 0
        PROVE  /\ SalesHistory!Sorted(Twice(remaining), 1) = SalesHistory!Sorted(remaining, 1)
               /\ SalesHistory!Sorted(Twice(remaining), (2 * m + 1) \div 2)
                    = SalesHistory!Sorted(remaining, (m + 1) \div 2)
               /\ SalesHistory!Sorted(Twice(remaining), 2 * m) = SalesHistory!Sorted(remaining, m)
    OBVIOUS
  <2>1. Cardinality(DOMAIN remaining) = m
    BY <1>1
  <2> HIDE DEF m, remaining
  <2>2. /\ (1 + 1) \div 2 = 1 /\ 1 \in Nat /\ 1 <= 2 * m
        /\ (2 * m + 1) \div 2 = m /\ m \in Nat /\ 1 <= m /\ m <= 2 * m
        /\ 2 * m \in Nat /\ 1 <= 2 * m
    BY <1>1
  <2> QED BY <1>1, <2>1, <2>2, SortedTwice
<1>5. Priced(Twice(rows))
  BY TwicePriced
<1> HIDE DEF m, remaining
<1>6. SalesHistory!compute_statistics(Twice(rows))
        = IF 2 * m = 0 THEN [low |-> None, median |-> None, high |-> None, row_count |-> 0]
          ELSE [low |-> SalesHistory!Sorted(Twice(remaining), 1),
                median |-> SalesHistory!Sorted(Twice(remaining), (2 * m + 1) \div 2),
                high |-> SalesHistory!Sorted(Twice(remaining), 2 * m), row_count |-> 2 * m]
  BY <1>2, <1>3, <1>5, StatisticsAre
<1>7. SalesHistory!compute_statistics(rows)
        = IF m = 0 THEN [low |-> None, median |-> None, high |-> None, row_count |-> 0]
          ELSE [low |-> SalesHistory!Sorted(remaining, 1),
                median |-> SalesHistory!Sorted(remaining, (m + 1) \div 2),
                high |-> SalesHistory!Sorted(remaining, m), row_count |-> m]
  BY StatisticsAre DEF m, remaining
<1>8. CASE m = 0
  BY <1>6, <1>7, <1>8
<1>9. CASE m # 0
  <2>1. 2 * m # 0
    BY <1>1, <1>9
  <2> QED BY <1>4, <1>6, <1>7, <1>9, <2>1
<1> QED BY <1>8, <1>9

\* The median is a price that was kept, with half of what was kept on each side.
LEMMA MedianIs ==
  ASSUME NEW rows, Priced(rows), SalesHistory!Kept(rows) # {}
  PROVE  LET remaining == SalesHistory!Kept(rows)
             median == SalesHistory!compute_statistics(rows).median IN
         /\ \E i \in remaining : median = rows[i].price
         /\ 2 * Cardinality({i \in remaining : rows[i].price <= median}) >= Cardinality(remaining)
         /\ 2 * Cardinality({i \in remaining : rows[i].price >= median}) >= Cardinality(remaining)
<1> DEFINE remaining == SalesHistory!Kept(rows)
           m == Cardinality(remaining)
           among == SalesHistory!non_outlier(rows)
           median == SalesHistory!Sorted(among, (m + 1) \div 2)
<1>1. /\ m \in Nat /\ m # 0 /\ Priced(among) /\ DOMAIN among = remaining
      /\ \A i \in remaining : among[i] = rows[i]
  BY KeptAre, FS_EmptySet DEF SalesHistory!non_outlier
<1>2. SalesHistory!compute_statistics(rows).median = median
  <2>1. m # 0
    BY <1>1
  <2> QED BY <2>1, StatisticsAre
<1>3. median \in Nat /\ AtPlace(among, median, (m + 1) \div 2)
  <2>1. Cardinality(DOMAIN among) = m
    BY <1>1
  <2> HIDE DEF m, among
  <2>2. (m + 1) \div 2 \in Nat /\ 1 <= (m + 1) \div 2 /\ (m + 1) \div 2 <= m
    BY <1>1
  <2> QED BY <1>1, <2>1, <2>2, SortedAt
<1> HIDE DEF median
<1>4. \E i \in remaining : median = rows[i].price
  BY <1>1, <1>3 DEF AtPlace
<1>5. /\ Cardinality(SalesHistory!Below(among, median)) \in Nat
      /\ Cardinality(SalesHistory!UpTo(among, median)) \in Nat
      /\ Cardinality(SalesHistory!Below(among, median)) < (m + 1) \div 2
      /\ (m + 1) \div 2 <= Cardinality(SalesHistory!UpTo(among, median))
  BY <1>1, <1>3, Countable DEF AtPlace
<1>6. Cardinality({i \in DOMAIN among : median <= among[i].price})
        = m - Cardinality(SalesHistory!Below(among, median))
  <2>1. Cardinality(DOMAIN among) = m
    BY <1>1
  <2> HIDE DEF m, among
  <2> QED BY <1>1, <1>3, <2>1, AboveIs
<1>7. /\ {i \in remaining : rows[i].price <= median} = SalesHistory!UpTo(among, median)
      /\ {i \in remaining : rows[i].price >= median} = {i \in DOMAIN among : median <= among[i].price}
  <2>1. \A i \in remaining : rows[i].price \in Nat
    BY <1>1 DEF Priced
  <2> HIDE DEF among, remaining
  <2> QED BY <1>1, <1>3, <2>1 DEF SalesHistory!UpTo
<1> HIDE DEF m
<1>8. /\ 2 * Cardinality(SalesHistory!UpTo(among, median)) >= m
      /\ 2 * (m - Cardinality(SalesHistory!Below(among, median))) >= m
  BY <1>1, <1>5
<1> QED BY <1>2, <1>4, <1>6, <1>7, <1>8 DEF m

\* Rows that are there twice are at least as sure as the rows.
LEMMA ConfidenceTwice ==
  ASSUME NEW rows, Priced(rows), DOMAIN rows # {}, Cardinality(DOMAIN rows) >= FenceRows
  PROVE  SalesHistory!calculate_confidence(Twice(rows)) >= SalesHistory!calculate_confidence(rows)
<1> DEFINE m == Cardinality(SalesHistory!Kept(rows))
           ages == SalesHistory!Dates(rows)
<1>1. /\ m \in Nat /\ Cardinality(SalesHistory!Kept(Twice(rows))) = 2 * m
      /\ MediumRows \in Nat /\ HighRows \in Nat
  BY KeptAre, KeptTwice, Doubled, InputsAssumption DEF SalesHistory!SalesAssumption
<1>2. SalesHistory!Dates(Twice(rows)) = ages
  <2>5. /\ SalesHistory!Kept(Twice(rows)) = SalesHistory!Kept(rows) \X {1, 2}
        /\ SalesHistory!Kept(rows) \subseteq DOMAIN rows
    BY KeptTwice, KeptAre
  <2>1. \A p \in SalesHistory!Kept(Twice(rows)) : /\ p[1] \in SalesHistory!Kept(rows)
                                                  /\ Twice(rows)[p] = rows[p[1]]
    BY <2>5 DEF Twice
  <2>2. \A i \in SalesHistory!Kept(rows) : /\ <<i, 1>> \in SalesHistory!Kept(Twice(rows))
                                           /\ Twice(rows)[<<i, 1>>] = rows[i]
    BY <2>5 DEF Twice
  <2>3. \A d \in ages : d \in SalesHistory!Dates(Twice(rows))
    BY <2>2 DEF SalesHistory!Dates
  <2>4. \A d \in SalesHistory!Dates(Twice(rows)) : d \in ages
    BY <2>1 DEF SalesHistory!Dates
  <2> QED BY <2>3, <2>4
<1>3. SalesHistory!_recency_tier(ages) \in {0, 1, 2}
  BY DEF SalesHistory!_recency_tier
<1> HIDE DEF ages, m
<1>4. /\ SalesHistory!_row_count_tier(m) \in {0, 1, 2} /\ SalesHistory!_row_count_tier(2 * m) \in {0, 1, 2}
      /\ SalesHistory!_row_count_tier(m) <= SalesHistory!_row_count_tier(2 * m)
  BY <1>1 DEF SalesHistory!_row_count_tier
<1>5. SalesHistory!calculate_confidence(Twice(rows))
        = IF SalesHistory!_row_count_tier(2 * m) <= SalesHistory!_recency_tier(ages)
          THEN SalesHistory!_row_count_tier(2 * m) ELSE SalesHistory!_recency_tier(ages)
  BY <1>1, <1>2, SalesCount DEF SalesHistory!calculate_confidence
<1>6. SalesHistory!calculate_confidence(rows)
        = IF SalesHistory!_row_count_tier(m) <= SalesHistory!_recency_tier(ages)
          THEN SalesHistory!_row_count_tier(m) ELSE SalesHistory!_recency_tier(ages)
  BY SalesCount DEF SalesHistory!calculate_confidence, m, ages
<1> QED BY <1>3, <1>4, <1>5, <1>6

\* What is between two prices that are kept is kept.
LEMMA KeptIsInterval ==
  ASSUME NEW rows, Priced(rows), NEW a \in SalesHistory!Kept(rows), NEW b \in SalesHistory!Kept(rows),
         NEW i \in DOMAIN rows, rows[i].price \in rows[a].price .. rows[b].price
  PROVE  i \in SalesHistory!Kept(rows)
<1> SUFFICES ASSUME SalesHistory!is_outlier(rows, i) PROVE FALSE
  BY DEF SalesHistory!Kept
<1>1. /\ a \in DOMAIN rows /\ b \in DOMAIN rows
      /\ ~ SalesHistory!is_outlier(rows, a) /\ ~ SalesHistory!is_outlier(rows, b)
  BY DEF SalesHistory!Kept
<1>2. PICK q1 \in Nat, q3 \in Nat :
         SalesHistory!Fence(rows) = [lower |-> q1 - 3 * (q3 - q1), upper |-> q3 + 3 * (q3 - q1)]
  BY FenceIs
<1>3. /\ rows[a].price \in SalesHistory!Fence(rows).lower .. SalesHistory!Fence(rows).upper
      /\ rows[b].price \in SalesHistory!Fence(rows).lower .. SalesHistory!Fence(rows).upper
      /\ rows[i].price \notin SalesHistory!Fence(rows).lower .. SalesHistory!Fence(rows).upper
  BY <1>1 DEF SalesHistory!is_outlier
<1>4. /\ SalesHistory!Fence(rows).lower \in Int /\ SalesHistory!Fence(rows).upper \in Int
      /\ rows[a].price \in Nat /\ rows[b].price \in Nat /\ rows[i].price \in Nat
  BY <1>1, <1>2 DEF Priced
<1> HIDE DEF Priced
<1> QED BY <1>3, <1>4

\* The statistics of rows hold.
LEMMA StatisticsAreRight ==
  ASSUME NEW rows, rows \in Seq(SalesHistory!Row)
  PROVE  SalesHistory!StatisticsHold(rows)
<1>1. Priced(rows) /\ DOMAIN rows = 1..Len(rows) /\ Len(rows) \in Nat
  <2>1. DOMAIN rows = 1..Len(rows) /\ Len(rows) \in Nat
    OBVIOUS
  <2>2. IsFiniteSet(DOMAIN rows)
    BY <2>1, FS_Interval
  <2>3. \A i \in DOMAIN rows : rows[i].price \in Nat
    <3>1. \A i \in DOMAIN rows : rows[i] \in SalesHistory!Row
      BY <2>1
    <3> QED BY <3>1 DEF SalesHistory!Row
  <2> QED BY <2>1, <2>2, <2>3 DEF Priced
<1>2. Cardinality(DOMAIN rows) >= FenceRows => DOMAIN rows # {}
  <2>1. FenceRows \in Nat \ {0}
    BY InputsAssumption, Zenon DEF SalesHistory!SalesAssumption
  <2>2. Cardinality({}) = 0
    BY FS_EmptySet
  <2> QED BY <2>1, <2>2
<1>3. [p \in (DOMAIN rows) \X {1, 2} |-> rows[p[1]]] = Twice(rows)
  BY DEF Twice
<1>4. /\ 2 * Cardinality(SalesHistory!Kept(rows)) >= Cardinality(DOMAIN rows)
      /\ \A a, b \in SalesHistory!Kept(rows), i \in DOMAIN rows :
            rows[i].price \in rows[a].price .. rows[b].price => i \in SalesHistory!Kept(rows)
  BY <1>1, MostAreKept, KeptIsInterval
<1>5. SalesHistory!Kept(rows) # {} =>
         /\ \E i \in SalesHistory!Kept(rows) : SalesHistory!compute_statistics(rows).median = rows[i].price
         /\ 2 * Cardinality({i \in SalesHistory!Kept(rows) :
                               rows[i].price <= SalesHistory!compute_statistics(rows).median})
              >= Cardinality(SalesHistory!Kept(rows))
         /\ 2 * Cardinality({i \in SalesHistory!Kept(rows) :
                               rows[i].price >= SalesHistory!compute_statistics(rows).median})
              >= Cardinality(SalesHistory!Kept(rows))
  BY <1>1, MedianIs
<1>6. Cardinality(DOMAIN rows) >= FenceRows =>
         /\ SalesHistory!compute_statistics(Twice(rows))
              = [SalesHistory!compute_statistics(rows) EXCEPT !.row_count = 2 * @]
         /\ SalesHistory!calculate_confidence(Twice(rows)) >= SalesHistory!calculate_confidence(rows)
  BY <1>1, <1>2, StatisticsTwice, ConfidenceTwice
<1> QED BY <1>3, <1>4, <1>5, <1>6, SalesCount, Zenon DEF SalesHistory!StatisticsHold

-----------------------------------------------------------------------------
(* Recursion.  A value that is made of the one before it is there, and     *)
(* what each makes of a good one is good.                                  *)

\* What is good at the beginning and stays good at each step is good.
LEMMA StepsStay ==
  ASSUME NEW N \in Nat, NEW S, NEW f,
         f[0] \in S, \A n \in 1..N : f[n - 1] \in S => f[n] \in S
  PROVE  \A n \in 0..N : f[n] \in S
<1> DEFINE bad == {n \in 0..N : f[n] \notin S}
<1>1. SUFFICES ASSUME bad # {} PROVE FALSE
  OBVIOUS
<1>2. PICK k \in bad : \A m \in bad : k <= m
  <2>1. bad \in SUBSET Nat
    OBVIOUS
  <2> HIDE DEF bad
  <2> QED BY <1>1, <2>1, LeastNumber
<1>3. k \in 0..N /\ f[k] \notin S
  OBVIOUS
<1>4. k # 0
  BY <1>3
<1>5. k \in 1..N /\ k - 1 \in 0..N /\ ~ (k <= k - 1)
  BY <1>3, <1>4
<1>6. f[k - 1] \in S
  BY <1>2, <1>5
<1> QED BY <1>3, <1>5, <1>6

\* The values of the steps.
Steps(N, S) == [(1..N) \X S -> S]
IsWalk(f, N, start, step) == \A n \in 0..N : f[n] = IF n = 0 THEN start ELSE step[<<n, f[n - 1]>>]
LEMMA StepsExist ==
  ASSUME NEW N \in Nat, NEW S, NEW start \in S, NEW step \in Steps(N, S)
  PROVE  \E f \in [0..N -> S] : IsWalk(f, N, start, step)
<1> DEFINE Step(f, n) == IF n = 0 THEN start ELSE step[<<n, f[n - 1]>>]
           solved == {k \in 0..N : \E f \in [0..k -> S] : \A n \in 0..k : f[n] = Step(f, n)}
           each == [k \in 0..N |-> k]
<1>1. \A k \in 0..N : each[k] \in solved
  <2>1. each[0] \in solved
    <3>1. [n \in 0..0 |-> start] \in [0..0 -> S]
      OBVIOUS
    <3>2. \A n \in 0..0 : [m \in 0..0 |-> start][n] = Step([m \in 0..0 |-> start], n)
      OBVIOUS
    <3>3. each[0] = 0 /\ 0 \in 0..N
      OBVIOUS
    <3> HIDE DEF Step, each
    <3> QED BY <3>1, <3>2, <3>3
  <2>2. ASSUME NEW k \in 1..N, each[k - 1] \in solved PROVE each[k] \in solved
    <3>1. k - 1 \in solved /\ each[k] = k /\ k \in 0..N /\ k - 1 \in 0..N
      BY <2>2
    <3>2. PICK f \in [0..(k - 1) -> S] : \A n \in 0..(k - 1) : f[n] = Step(f, n)
      BY <3>1
    <3> DEFINE g == [n \in 0..k |-> IF n = k THEN step[<<k, f[k - 1]>>] ELSE f[n]]
    <3>3. f[k - 1] \in S
      <4>1. k - 1 \in 0..(k - 1)
        BY <2>2
      <4> QED BY <3>2, <4>1
    <3>4. step[<<k, f[k - 1]>>] \in S
      BY <2>2, <3>3 DEF Steps
    <3>5. g \in [0..k -> S]
      <4>1. \A n \in 0..k : n # k => n \in 0..(k - 1)
        BY <2>2
      <4> QED BY <3>2, <3>4, <4>1
    <3>6. ASSUME NEW n \in 0..k PROVE g[n] = Step(g, n)
      <4>1. CASE n = k
        <5>1. k # 0 /\ k - 1 \in 0..k /\ k - 1 # k
          BY <2>2
        <5>2. g[k - 1] = f[k - 1]
          BY <5>1
        <5> QED BY <4>1, <5>1, <5>2
      <4>2. CASE n # k
        <5>1. n \in 0..(k - 1)
          BY <2>2, <4>2
        <5>2. g[n] = f[n] /\ f[n] = Step(f, n)
          BY <3>2, <4>2, <5>1
        <5>3. CASE n = 0
          BY <5>2, <5>3
        <5>4. CASE n # 0
          <6>1. n - 1 \in 0..k /\ n - 1 # k
            BY <2>2, <5>1, <5>4
          <6>2. g[n - 1] = f[n - 1]
            BY <6>1
          <6> HIDE DEF g
          <6> QED BY <5>2, <5>4, <6>2
        <5> QED BY <5>3, <5>4
      <4> QED BY <4>1, <4>2
    <3> HIDE DEF g, Step, each
    <3>7. k \in solved
      BY <3>1, <3>5, <3>6
    <3> QED BY <3>1, <3>7
  <2> HIDE DEF solved, each
  <2> QED BY <2>1, <2>2, StepsStay
<1>2. N \in solved
  <2>1. N \in 0..N /\ each[N] = N
    OBVIOUS
  <2> HIDE DEF each, solved
  <2> QED BY <1>1, <2>1
<1> QED BY <1>2 DEF IsWalk

-----------------------------------------------------------------------------
(* Prices.  An amount is the same however it is written.                   *)

GroupOfDigits == [scale : Nat, value : Nat]

\* The recursive function of Joined.
LEMMA JoinedIs ==
  ASSUME NEW groups, Len(groups) \in Nat, \A n \in 1..Len(groups) : groups[n] \in GroupOfDigits
  PROVE  \E joined :
            /\ joined[0] = [scale |-> 1, value |-> 0]
            /\ \A n \in 1..Len(groups) :
                  joined[n] = [scale |-> joined[n - 1].scale * groups[n].scale,
                               value |-> joined[n - 1].value * groups[n].scale + groups[n].value]
            /\ SalesHistory!Joined(groups) = joined[Len(groups)]
<1> DEFINE N == Len(groups)
           start == [scale |-> 1, value |-> 0]
           With(x, g) == [scale |-> x.scale * g.scale, value |-> x.value * g.scale + g.value]
           step == [p \in (1..N) \X GroupOfDigits |-> With(p[2], groups[p[1]])]
           Step(f, n) == IF n = 0 THEN start ELSE With(f[n - 1], groups[n])
<1>1. \A x \in GroupOfDigits, g \in GroupOfDigits : With(x, g) \in GroupOfDigits
  <2>1. \A a, b, c \in Nat : a * b \in Nat /\ a * b + c \in Nat
    OBVIOUS
  <2> QED BY <2>1 DEF GroupOfDigits
<1>2. start \in GroupOfDigits
  BY DEF GroupOfDigits
<1> HIDE DEF start, With
<1>3. \A n \in 1..N, x \in GroupOfDigits : step[<<n, x>>] = With(x, groups[n])
  OBVIOUS
<1> HIDE DEF step
<1>4. PICK f \in [0..N -> GroupOfDigits] : IsWalk(f, N, start, step)
  <2>1. step \in Steps(N, GroupOfDigits)
    BY <1>1 DEF step, Steps
  <2> HIDE DEF N
  <2>2. N \in Nat
    BY DEF N
  <2> QED BY <1>2, <2>1, <2>2, StepsExist
<1>5. f = [n \in 0..N |-> Step(f, n)]
  <2>1. ASSUME NEW n \in 0..N PROVE f[n] = Step(f, n)
    <3>1. f[n] = IF n = 0 THEN start ELSE step[<<n, f[n - 1]>>]
      BY <1>4, Zenon DEF IsWalk
    <3>2. CASE n = 0
      BY <3>1, <3>2
    <3>3. CASE n # 0
      <4>1. n \in 1..N /\ n - 1 \in 0..N
        BY <3>3
      <4>2. f[n - 1] \in GroupOfDigits
        BY <4>1
      <4> QED BY <1>3, <3>1, <3>3, <4>1, <4>2
    <3> QED BY <3>2, <3>3
  <2>2. f = [n \in 0..N |-> f[n]]
    OBVIOUS
  <2> HIDE DEF Step
  <2> QED BY <2>1, <2>2
<1> DEFINE joined == CHOOSE g : g = [n \in 0..N |-> Step(g, n)]
<1>6. joined = [n \in 0..N |-> Step(joined, n)]
  BY <1>5, Zenon
<1>7. SalesHistory!Joined(groups) = joined[N]
  BY Zenon DEF SalesHistory!Joined, start, With
<1> HIDE DEF joined
<1>8. joined[0] = start
  BY <1>6
<1>9. ASSUME NEW n \in 1..N PROVE joined[n] = With(joined[n - 1], groups[n])
  <2>1. n \in 0..N /\ n # 0
    OBVIOUS
  <2>2. joined[n] = Step(joined, n)
    <3> HIDE DEF Step
    <3> QED BY <1>6, <2>1
  <2> QED BY <2>1, <2>2
<1> QED BY <1>7, <1>8, <1>9 DEF start, With

\* One group and two.
LEMMA JoinedOne ==
  ASSUME NEW a \in GroupOfDigits
  PROVE  SalesHistory!Joined(<<a>>) = a
<1>1. PICK joined : /\ joined[0] = [scale |-> 1, value |-> 0]
                    /\ \A n \in 1..1 : joined[n] = [scale |-> joined[n - 1].scale * <<a>>[n].scale,
                                     value |-> joined[n - 1].value * <<a>>[n].scale + <<a>>[n].value]
                    /\ SalesHistory!Joined(<<a>>) = joined[1]
  <2>1. Len(<<a>>) = 1 /\ \A n \in 1..1 : <<a>>[n] \in GroupOfDigits
    OBVIOUS
  <2> QED BY <2>1, JoinedIs
<1>2. joined[1] = [scale |-> 1 * a.scale, value |-> 0 * a.scale + a.value]
  BY <1>1
<1> QED BY <1>1, <1>2 DEF GroupOfDigits

LEMMA JoinedTwo ==
  ASSUME NEW a \in GroupOfDigits, NEW b \in GroupOfDigits
  PROVE  SalesHistory!Joined(<<a, b>>).value = a.value * b.scale + b.value
<1>1. PICK joined :
         /\ joined[0] = [scale |-> 1, value |-> 0]
         /\ \A n \in 1..2 : joined[n] = [scale |-> joined[n - 1].scale * <<a, b>>[n].scale,
                                 value |-> joined[n - 1].value * <<a, b>>[n].scale + <<a, b>>[n].value]
         /\ SalesHistory!Joined(<<a, b>>) = joined[2]
  <2>1. Len(<<a, b>>) = 2 /\ \A n \in 1..2 : <<a, b>>[n] \in GroupOfDigits
    OBVIOUS
  <2> QED BY <2>1, JoinedIs
<1>2. joined[1] = [scale |-> 1 * a.scale, value |-> 0 * a.scale + a.value]
  BY <1>1
<1>3. joined[2].value = (0 * a.scale + a.value) * b.scale + b.value
  BY <1>1, <1>2
<1>4. 0 * a.scale + a.value = a.value
  BY DEF GroupOfDigits
<1> QED BY <1>1, <1>3, <1>4

\* What _parse_price does with an amount that has no decimal point, and with one that has.
Cell(number) == [kind |-> "price", currency |-> "EUR", value |-> number]
Read(cents) == IF cents = 0 \/ cents > MaxPrice * 100 THEN None ELSE cents * 100

IsAmount(number, cents, whole) ==
    \/ /\ SalesHistory!Points(number) = {}
       /\ SalesHistory!Joined(number.groups).value = whole /\ cents = whole * 100
    \/ \E p, c \in Nat :
          /\ SalesHistory!Points(number) = {p} /\ cents = whole * 100 + c
          /\ SalesHistory!Joined(SubSeq(number.groups, 1, p)).value = whole
          /\ SalesHistory!Joined(SubSeq(number.groups, p + 1, Len(number.groups)))
               = [scale |-> 100, value |-> c]

\* Cents are not rounded.
LEMMA QuantizedCents ==
  ASSUME NEW c \in Nat
  PROVE  SalesHistory!Quantized([scale |-> 100, value |-> c]) = c * 100
<1>1. (c * 10000) \div 100 = c * 100 /\ (c * 10000) % 100 = 0
  OBVIOUS
<1> QED BY <1>1 DEF SalesHistory!Quantized

LEMMA PriceIs ==
  ASSUME NEW number, NEW cents \in Nat, NEW whole \in Nat, IsAmount(number, cents, whole)
  PROVE  SalesHistory!_parse_price(Cell(number)) = Read(cents)
<1> DEFINE points == SalesHistory!Points(number)
           groups == number.groups
           price == SalesHistory!Amount(number)
<1>1. price = cents * 100 /\ Cardinality(points) \in {0, 1}
  <2>1. CASE points = {} /\ SalesHistory!Joined(groups).value = whole /\ cents = whole * 100
    <3>1. price = SalesHistory!Joined(groups).value * 10000
      BY <2>1 DEF SalesHistory!Amount
    <3> QED BY <2>1, <3>1, FS_EmptySet
  <2>2. ASSUME NEW p \in Nat, NEW c \in Nat, points = {p}, cents = whole * 100 + c,
               SalesHistory!Joined(SubSeq(groups, 1, p)).value = whole,
               SalesHistory!Joined(SubSeq(groups, p + 1, Len(groups))) = [scale |-> 100, value |-> c]
        PROVE  price = cents * 100 /\ Cardinality(points) \in {0, 1}
    <3>1. (CHOOSE i \in points : TRUE) = p /\ points # {}
      BY <2>2
    <3>2. Cardinality(points) = 1
      BY <2>2, FS_Singleton
    <3> HIDE DEF points, groups, price
    <3>3. price = whole * 10000 + SalesHistory!Quantized([scale |-> 100, value |-> c])
      BY <2>2, <3>1 DEF SalesHistory!Amount, points, groups, price
    <3>4. SalesHistory!Quantized([scale |-> 100, value |-> c]) = c * 100
      BY <2>2, QuantizedCents
    <3> QED BY <2>2, <3>2, <3>3, <3>4
  <2> QED BY <2>1, <2>2 DEF IsAmount
<1> HIDE DEF points, price
<1>2. SalesHistory!_parse_price(Cell(number))
        = IF Cardinality(points) > 1 \/ price <= 0 \/ price > MaxPrice * 10000 THEN None ELSE price
  <2>1. /\ Cell(number).value = number /\ Cell(number).kind = "price"
        /\ Cell(number).currency = "EUR" /\ "EUR" # None
    BY InputsAssumption DEF Cell, SalesHistory!SalesAssumption
  <2> QED BY <2>1, SalesCount DEF SalesHistory!_parse_price, points, price
<1>3. MaxPrice \in Nat
  BY InputsAssumption DEF SalesHistory!SalesAssumption
<1>4. (price <= 0 <=> cents = 0) /\ (price > MaxPrice * 10000 <=> cents > MaxPrice * 100)
  BY <1>1, <1>3
<1> QED BY <1>1, <1>2, <1>4 DEF Read

\* Parts of a sequence of two and of three.
LEMMA PartsAre ==
  ASSUME NEW a, NEW b
  PROVE  SubSeq(<<a, b>>, 1, 1) = <<a>> /\ SubSeq(<<a, b>>, 2, 2) = <<b>>
<1> DEFINE two == <<a, b>>
<1>1. two \in Seq({a, b}) /\ Len(two) = 2 /\ two[1] = a /\ two[2] = b
  OBVIOUS
<1> HIDE DEF two
<1>2. ASSUME NEW s, NEW x, Len(s) = 1, s \in Seq({a, b}), s[1] = x PROVE s = <<x>>
  BY <1>2
<1>3. SubSeq(two, 1, 1) = <<a>>
  <2>1. /\ SubSeq(two, 1, 1) \in Seq({a, b}) /\ Len(SubSeq(two, 1, 1)) = 1
        /\ SubSeq(two, 1, 1)[1] = a
    BY <1>1
  <2> QED BY <1>2, <2>1
<1>4. SubSeq(two, 2, 2) = <<b>>
  <2>1. /\ SubSeq(two, 2, 2) \in Seq({a, b}) /\ Len(SubSeq(two, 2, 2)) = 1
        /\ SubSeq(two, 2, 2)[1] = b
    BY <1>1
  <2> QED BY <1>2, <2>1
<1> QED BY <1>3, <1>4 DEF two

LEMMA PartsOfThree ==
  ASSUME NEW a, NEW b, NEW c
  PROVE  SubSeq(<<a, b, c>>, 1, 2) = <<a, b>> /\ SubSeq(<<a, b, c>>, 3, 3) = <<c>>
<1> DEFINE three == <<a, b, c>>
<1>1. three \in Seq({a, b, c}) /\ Len(three) = 3 /\ three[1] = a /\ three[2] = b /\ three[3] = c
  OBVIOUS
<1> HIDE DEF three
<1>2. ASSUME NEW s, NEW x, Len(s) = 1, s \in Seq({a, b, c}), s[1] = x PROVE s = <<x>>
  BY <1>2
<1>3. ASSUME NEW s, NEW x, NEW y, Len(s) = 2, s \in Seq({a, b, c}), s[1] = x, s[2] = y
      PROVE  s = <<x, y>>
  BY <1>3
<1>4. SubSeq(three, 1, 2) = <<a, b>>
  <2>1. /\ SubSeq(three, 1, 2) \in Seq({a, b, c}) /\ Len(SubSeq(three, 1, 2)) = 2
        /\ SubSeq(three, 1, 2)[1] = a /\ SubSeq(three, 1, 2)[2] = b
    BY <1>1
  <2> QED BY <1>3, <2>1
<1>5. SubSeq(three, 3, 3) = <<c>>
  <2>1. /\ SubSeq(three, 3, 3) \in Seq({a, b, c}) /\ Len(SubSeq(three, 3, 3)) = 1
        /\ SubSeq(three, 3, 3)[1] = c
    BY <1>1
  <2> QED BY <1>2, <2>1
<1> QED BY <1>4, <1>5 DEF three

\* Digits between marks, from the number that they are.
Digits(scale, value) == [scale |-> scale, value |-> value]
Marks == {"comma", "point"}
Styles == {<<None, "point">>, <<"comma", "point">>, <<None, "comma">>, <<"point", "comma">>,
            <<None, None>>, <<"comma", None>>}
Whole(w) == [groups |-> <<Digits(100000, w)>>, marks |-> <<>>]
InThousands(t, h, mark) == [groups |-> <<Digits(100, t), Digits(1000, h)>>, marks |-> <<mark>>]
WithCents(w, c, point) == [groups |-> <<Digits(100000, w), Digits(100, c)>>, marks |-> <<point>>]
InFull(t, h, c, mark, point) ==
    [groups |-> <<Digits(100, t), Digits(1000, h), Digits(100, c)>>, marks |-> <<mark, point>>]

\* A number of a whole only, one with a mark of thousands, and both with a point and cents.
LEMMA WholeIsRead ==
  ASSUME NEW w \in Nat
  PROVE  SalesHistory!_parse_price(Cell(Whole(w))) = Read(w * 100)
<1> DEFINE number == [groups |-> <<Digits(100000, w)>>, marks |-> <<>>]
           cents == w * 100
<1>1. SalesHistory!Points(number) = {}
  BY DEF SalesHistory!Points
<1>2. SalesHistory!Joined(number.groups).value = w
  <2>1. Digits(100000, w) \in GroupOfDigits /\ Digits(100000, w).value = w
    BY DEF Digits, GroupOfDigits
  <2> QED BY <2>1, JoinedOne
<1>3. cents \in Nat /\ cents = w * 100
  OBVIOUS
<1> HIDE DEF number, cents
<1>4. IsAmount(number, cents, w)
  BY <1>1, <1>2, <1>3 DEF IsAmount
<1>5. SalesHistory!_parse_price(Cell(number)) = Read(cents)
  BY <1>3, <1>4, PriceIs
<1> QED BY <1>5 DEF number, cents, Whole

LEMMA ThousandsAreRead ==
  ASSUME NEW t \in Nat, NEW h \in Nat
  PROVE  SalesHistory!_parse_price(Cell(InThousands(t, h, "comma"))) = Read((t * 1000 + h) * 100)
<1> DEFINE number == [groups |-> <<Digits(100, t), Digits(1000, h)>>, marks |-> <<"comma">>]
           w == t * 1000 + h
           cents == w * 100
<1>1. SalesHistory!Points(number) = {}
  <2>1. SalesHistory!Last(number.groups).scale = 1000
    BY DEF SalesHistory!Last, Digits
  <2>2. SalesHistory!ToSet(number.marks) = {"comma"}
    BY DEF SalesHistory!ToSet
  <2> QED BY <2>1, <2>2 DEF SalesHistory!Points
<1>2. SalesHistory!Joined(number.groups).value = w
  <2>1. /\ Digits(100, t) \in GroupOfDigits /\ Digits(100, t).value = t
        /\ Digits(1000, h) \in GroupOfDigits /\ Digits(1000, h).value = h
        /\ Digits(1000, h).scale = 1000
    BY DEF Digits, GroupOfDigits
  <2> QED BY <2>1, JoinedTwo
<1>3. w \in Nat /\ cents \in Nat /\ cents = w * 100
  OBVIOUS
<1> HIDE DEF number, w, cents
<1>4. IsAmount(number, cents, w)
  BY <1>1, <1>2, <1>3 DEF IsAmount
<1>5. SalesHistory!_parse_price(Cell(number)) = Read(cents)
  BY <1>3, <1>4, PriceIs
<1> QED BY <1>5 DEF number, w, cents, InThousands

LEMMA CentsAreRead ==
  ASSUME NEW w \in Nat, NEW c \in Nat, NEW point \in Marks
  PROVE  SalesHistory!_parse_price(Cell(WithCents(w, c, point))) = Read(w * 100 + c)
<1> DEFINE a == Digits(100000, w)
           b == Digits(100, c)
           number == [groups |-> <<a, b>>, marks |-> <<point>>]
           cents == w * 100 + c
<1>1. SalesHistory!Points(number) = {1}
  <2>1. SalesHistory!Last(number.groups).scale = 100
    BY DEF SalesHistory!Last, Digits
  <2>2. Len(number.marks) = 1 /\ DOMAIN number.marks = {1} /\ number.marks[1] = point
    OBVIOUS
  <2> QED BY <2>1, <2>2 DEF SalesHistory!Points, Marks
<1>2. a \in GroupOfDigits /\ a.value = w /\ b \in GroupOfDigits /\ b = [scale |-> 100, value |-> c]
  BY DEF Digits, GroupOfDigits
<1>3. number.groups = <<a, b>> /\ Len(<<a, b>>) = 2 /\ 1 + 1 = 2
  OBVIOUS
<1>4. cents \in Nat /\ 1 \in Nat /\ cents = w * 100 + c
  OBVIOUS
<1> HIDE DEF number, a, b, cents
<1>5. /\ SubSeq(number.groups, 1, 1) = <<a>>
      /\ SubSeq(number.groups, 1 + 1, Len(number.groups)) = <<b>>
  <2>1. SubSeq(<<a, b>>, 1, 1) = <<a>> /\ SubSeq(<<a, b>>, 2, 2) = <<b>>
    BY PartsAre
  <2> QED BY <1>3, <2>1, Zenon
<1>6. /\ SalesHistory!Joined(SubSeq(number.groups, 1, 1)).value = w
      /\ SalesHistory!Joined(SubSeq(number.groups, 1 + 1, Len(number.groups)))
           = [scale |-> 100, value |-> c]
  BY <1>2, <1>5, JoinedOne, Zenon
<1>7. IsAmount(number, cents, w)
  BY <1>1, <1>4, <1>6 DEF IsAmount
<1>8. SalesHistory!_parse_price(Cell(number)) = Read(cents)
  BY <1>4, <1>7, PriceIs
<1> QED BY <1>8 DEF number, a, b, cents, WithCents

LEMMA AllIsRead ==
  ASSUME NEW t \in Nat, NEW h \in Nat, NEW c \in Nat,
         NEW mark \in Marks, NEW point \in Marks, mark # point
  PROVE  SalesHistory!_parse_price(Cell(InFull(t, h, c, mark, point)))
            = Read((t * 1000 + h) * 100 + c)
<1> DEFINE a == Digits(100, t)
           b == Digits(1000, h)
           d == Digits(100, c)
           number == [groups |-> <<a, b, d>>, marks |-> <<mark, point>>]
           w == t * 1000 + h
           cents == w * 100 + c
<1>1. SalesHistory!Points(number) = {2}
  <2> USE DEF Marks
  <2>1. mark \in SalesHistory!ToSet(number.marks) /\ point \in SalesHistory!ToSet(number.marks)
    BY DEF SalesHistory!ToSet
  <2>2. Len(number.marks) = 2 /\ DOMAIN number.marks = {1, 2}
        /\ number.marks[1] = mark /\ number.marks[2] = point
    OBVIOUS
  <2>3. SalesHistory!ToSet(number.marks) # {"comma"}
    BY <2>1
  <2> QED BY <2>2, <2>3 DEF SalesHistory!Points
<1>2. /\ a \in GroupOfDigits /\ a.value = t
      /\ b \in GroupOfDigits /\ b.value = h /\ b.scale = 1000
      /\ d \in GroupOfDigits /\ d = [scale |-> 100, value |-> c]
  BY DEF Digits, GroupOfDigits
<1>3. number.groups = <<a, b, d>> /\ Len(<<a, b, d>>) = 3 /\ 2 + 1 = 3
  OBVIOUS
<1>4. w \in Nat /\ w = t * 1000 + h /\ cents \in Nat /\ 2 \in Nat /\ cents = w * 100 + c
  OBVIOUS
<1> HIDE DEF number, a, b, d, w, cents
<1>5. /\ SubSeq(number.groups, 1, 2) = <<a, b>>
      /\ SubSeq(number.groups, 2 + 1, Len(number.groups)) = <<d>>
  <2>1. SubSeq(<<a, b, d>>, 1, 2) = <<a, b>> /\ SubSeq(<<a, b, d>>, 3, 3) = <<d>>
    BY PartsOfThree
  <2> QED BY <1>3, <2>1, Zenon
<1>6. /\ SalesHistory!Joined(SubSeq(number.groups, 1, 2)).value = w
      /\ SalesHistory!Joined(SubSeq(number.groups, 2 + 1, Len(number.groups)))
           = [scale |-> 100, value |-> c]
  <2>1. SalesHistory!Joined(<<a, b>>).value = t * 1000 + h
    BY <1>2, JoinedTwo
  <2>2. SalesHistory!Joined(<<d>>) = d
    BY <1>2, JoinedOne
  <2>3. /\ SalesHistory!Joined(SubSeq(number.groups, 1, 2)) = SalesHistory!Joined(<<a, b>>)
        /\ SalesHistory!Joined(SubSeq(number.groups, 2 + 1, Len(number.groups))) = d
    BY <1>5, <2>2, Zenon
  <2>4. SalesHistory!Joined(SubSeq(number.groups, 1, 2)).value = t * 1000 + h
    BY <2>1, <2>3, Zenon
  <2>5. w = t * 1000 + h /\ d = [scale |-> 100, value |-> c]
    BY <1>2, <1>4
  <2> HIDE DEF number
  <2> QED BY <2>3, <2>4, <2>5
<1>7. IsAmount(number, cents, w)
  BY <1>1, <1>4, <1>6 DEF IsAmount
<1>8. SalesHistory!_parse_price(Cell(number)) = Read(cents)
  BY <1>4, <1>7, PriceIs
<1> QED BY <1>8 DEF number, a, b, d, w, cents, InFull

\* Prices are read.
LEMMA AllPricesAreRead ==
  ASSUME NEW cents, cents \in Nat
  PROVE  SalesHistory!PricesRead(cents)
<1> DEFINE w == cents \div 100
           c == cents % 100
           t == cents \div 100000
           h == (cents \div 100) % 1000
           Price(number) == SalesHistory!_parse_price(Cell(number))
<1>1. /\ w \in Nat /\ c \in Nat /\ t \in Nat /\ h \in Nat
      /\ w = t * 1000 + h /\ cents = w * 100 + c /\ cents = (t * 1000 + h) * 100 + c
  OBVIOUS
<1>2. \A thousands, point : SalesHistory!Written(cents, thousands, point)
        = IF point = None
          THEN IF thousands # None /\ t > 0 THEN InThousands(t, h, thousands) ELSE Whole(w)
          ELSE IF thousands # None /\ t > 0 THEN InFull(t, h, c, thousands, point)
               ELSE WithCents(w, c, point)
  <2> SUFFICES ASSUME NEW thousands, NEW point
        PROVE  SalesHistory!Written(cents, thousands, point)
                 = IF point = None
                   THEN IF thousands # None /\ t > 0 THEN InThousands(t, h, thousands) ELSE Whole(w)
                   ELSE IF thousands # None /\ t > 0 THEN InFull(t, h, c, thousands, point)
                        ELSE WithCents(w, c, point)
    OBVIOUS
  <2>1. CASE thousands # None /\ t > 0
    BY <2>1 DEF SalesHistory!Written, SalesHistory!Thousands, InThousands, InFull, Digits
  <2>2. CASE ~ (thousands # None /\ t > 0)
    BY <2>2 DEF SalesHistory!Written, SalesHistory!Thousands, Whole, WithCents, Digits
  <2> QED BY <2>1, <2>2
<1> HIDE DEF w, c, t, h, Price
<1>3. /\ c = 0 => Price(Whole(w)) = Read(cents)
      /\ c = 0 => Price(InThousands(t, h, "comma")) = Read(cents)
  <2>1. Price(Whole(w)) = Read(w * 100)
    BY <1>1, WholeIsRead DEF Price
  <2>2. Price(InThousands(t, h, "comma")) = Read((t * 1000 + h) * 100)
    BY <1>1, ThousandsAreRead DEF Price
  <2>3. c = 0 => w * 100 = cents /\ (t * 1000 + h) * 100 = cents
    BY <1>1
  <2> QED BY <2>1, <2>2, <2>3, Zenon
<1>4. ASSUME NEW point \in Marks PROVE Price(WithCents(w, c, point)) = Read(cents)
  <2>1. Price(WithCents(w, c, point)) = Read(w * 100 + c)
    BY <1>1, CentsAreRead DEF Price
  <2>2. cents = w * 100 + c
    BY <1>1
  <2> QED BY <2>1, <2>2
<1>5. ASSUME NEW mark \in Marks, NEW point \in Marks, mark # point
      PROVE  Price(InFull(t, h, c, mark, point)) = Read(cents)
  <2>1. Price(InFull(t, h, c, mark, point)) = Read((t * 1000 + h) * 100 + c)
    BY <1>1, <1>5, AllIsRead DEF Price
  <2>2. cents = (t * 1000 + h) * 100 + c
    BY <1>1
  <2> QED BY <2>1, <2>2
<1>6. None # "comma" /\ None # "point"
  BY InputsAssumption DEF SalesHistory!SalesAssumption
<1>7. ASSUME NEW thousands, NEW point,
             <<thousands, point>> \in Styles,
             point # None \/ c = 0
      PROVE  Price(SalesHistory!Written(cents, thousands, point)) = Read(cents)
  <2>1. CASE thousands # None /\ t > 0 /\ point = None
    <3>1. thousands = "comma" /\ c = 0
      BY <1>6, <1>7, <2>1 DEF Marks, Styles
    <3>2. SalesHistory!Written(cents, thousands, point) = InThousands(t, h, "comma")
      BY <1>2, <2>1, <3>1
    <3> QED BY <1>3, <3>1, <3>2
  <2>2. CASE thousands # None /\ t > 0 /\ point # None
    <3>1. thousands \in Marks /\ point \in Marks /\ thousands # point
      BY <1>6, <1>7, <2>2 DEF Marks, Styles
    <3>2. SalesHistory!Written(cents, thousands, point) = InFull(t, h, c, thousands, point)
      BY <1>2, <2>2
    <3> QED BY <1>5, <3>1, <3>2
  <2>3. CASE ~ (thousands # None /\ t > 0) /\ point = None
    <3>1. SalesHistory!Written(cents, thousands, point) = Whole(w)
      BY <1>2, <2>3
    <3> QED BY <1>3, <1>7, <2>3, <3>1
  <2>4. CASE ~ (thousands # None /\ t > 0) /\ point # None
    <3>1. point \in Marks
      BY <1>6, <1>7, <2>4 DEF Marks, Styles
    <3>2. SalesHistory!Written(cents, thousands, point) = WithCents(w, c, point)
      BY <1>2, <2>4
    <3> QED BY <1>4, <3>1, <3>2
  <2> QED BY <2>1, <2>2, <2>3, <2>4
<1>8. ASSUME NEW style \in Styles,
             style[2] # None \/ c = 0
      PROVE  Price(SalesHistory!Written(cents, style[1], style[2])) = Read(cents)
  <2>1. <<style[1], style[2]>> \in Styles
    BY DEF Styles
  <2> QED BY <1>7, <1>8, <2>1
<1> QED BY <1>8, Zenon DEF SalesHistory!PricesRead, Cell, Read, Price, Styles, c

-----------------------------------------------------------------------------
(* Imports.  A row that has a price has its currency, whatever the order   *)
(* of its cells.                                                           *)

Groups == [scale : Nat \ {0}, value : Nat]

\* Digits that are joined are a number again.
LEMMA JoinedIn ==
  ASSUME NEW groups \in Seq(Groups)
  PROVE  SalesHistory!Joined(groups) \in Groups
<1> DEFINE N == Len(groups)
<1>1. N \in Nat /\ \A n \in 1..N : groups[n] \in Groups
  OBVIOUS
<1>2. \A n \in 1..N : groups[n] \in GroupOfDigits
  BY <1>1 DEF Groups, GroupOfDigits
<1> HIDE DEF N
<1>3. PICK joined :
         /\ joined[0] = [scale |-> 1, value |-> 0]
         /\ \A n \in 1..N : joined[n] = [scale |-> joined[n - 1].scale * groups[n].scale,
                                    value |-> joined[n - 1].value * groups[n].scale + groups[n].value]
         /\ SalesHistory!Joined(groups) = joined[N]
  BY <1>1, <1>2, JoinedIs DEF N
<1>4. joined[0] \in Groups
  BY <1>3 DEF Groups
<1>5. ASSUME NEW n \in 1..N, joined[n - 1] \in Groups PROVE joined[n] \in Groups
  <2>1. \A a, b \in Nat \ {0} : a * b \in Nat \ {0}
    OBVIOUS
  <2>2. \A a, b, c \in Nat : a * b + c \in Nat
    OBVIOUS
  <2>3. /\ joined[n - 1].scale \in Nat \ {0} /\ joined[n - 1].value \in Nat
        /\ groups[n].scale \in Nat \ {0} /\ groups[n].scale \in Nat /\ groups[n].value \in Nat
    BY <1>1, <1>5 DEF Groups
  <2>4. /\ joined[n - 1].scale * groups[n].scale \in Nat \ {0}
        /\ joined[n - 1].value * groups[n].scale + groups[n].value \in Nat
    BY <2>1, <2>2, <2>3
  <2>5. \A x \in Nat \ {0}, y \in Nat : [scale |-> x, value |-> y] \in Groups
    BY DEF Groups
  <2>6. [scale |-> joined[n - 1].scale * groups[n].scale,
         value |-> joined[n - 1].value * groups[n].scale + groups[n].value] \in Groups
    BY <2>4, <2>5, Zenon
  <2> QED BY <1>3, <2>6, Zenon
<1>6. \A n \in 0..N : joined[n] \in Groups
  BY <1>1, <1>4, <1>5, StepsStay
<1>7. N \in 0..N
  BY <1>1
<1> QED BY <1>3, <1>6, <1>7

\* What is read is a number.
LEMMA AmountIn ==
  ASSUME NEW number, SalesHistory!IsNumber(number)
  PROVE  SalesHistory!Amount(number) \in Int
<1> DEFINE groups == number.groups
           points == SalesHistory!Points(number)
           p == CHOOSE i \in points : TRUE
           fraction == SalesHistory!Joined(SubSeq(groups, p + 1, Len(groups)))
<1>1. /\ groups \in Seq(Groups) /\ Len(groups) \in Nat /\ Len(groups) = Len(number.marks) + 1
      /\ Len(number.marks) \in Nat /\ DOMAIN number.marks = 1..Len(number.marks)
  BY DEF SalesHistory!IsNumber, Groups
<1>2. CASE points = {}
  <2>1. SalesHistory!Amount(number) = SalesHistory!Joined(groups).value * 10000
    BY <1>2 DEF SalesHistory!Amount
  <2>2. SalesHistory!Joined(groups) \in Groups
    BY <1>1, JoinedIn
  <2> QED BY <2>1, <2>2 DEF Groups
<1>3. CASE points # {}
  <2>1. p \in points
    BY <1>3
  <2>2. p \in 1..Len(number.marks)
    BY <1>1, <2>1 DEF SalesHistory!Points
  <2> HIDE DEF p, points, groups
  <2>3. SubSeq(groups, p + 1, Len(groups)) \in Seq(Groups) /\ SubSeq(groups, 1, p) \in Seq(Groups)
    BY <1>1, <2>2, SubSeqIs
  <2>4. fraction \in Groups /\ SalesHistory!Joined(SubSeq(groups, 1, p)) \in Groups
    BY <2>3, JoinedIn
  <2>5. SalesHistory!Amount(number)
          = SalesHistory!Joined(SubSeq(groups, 1, p)).value * 10000
               + SalesHistory!Quantized(fraction)
    BY <1>3 DEF SalesHistory!Amount, p, points, groups
  <2> HIDE DEF fraction
  <2>6. \A a \in Nat, b \in Nat \ {0} : (a * 10000) \div b \in Int
    OBVIOUS
  <2>7. SalesHistory!Quantized(fraction) \in Int
    BY <2>4, <2>6 DEF Groups, SalesHistory!Quantized
  <2> QED BY <2>4, <2>5, <2>7 DEF Groups
<1> QED BY <1>2, <1>3

GoodPrice(price, currency) == price # None => price \in Nat /\ currency # None

\* A price has a currency.
LEMMA PriceHasCurrency ==
  ASSUME NEW cell, SalesHistory!IsCell(cell)
  PROVE  GoodPrice(SalesHistory!_parse_price(cell), cell.currency)
<1> SUFFICES ASSUME cell.kind = "price", cell.currency # None, SalesHistory!_parse_price(cell) # None,
                    SalesHistory!_parse_price(cell) = SalesHistory!Amount(cell.value),
                    ~ (SalesHistory!Amount(cell.value) <= 0)
             PROVE  SalesHistory!_parse_price(cell) \in Nat
  BY DEF SalesHistory!_parse_price, GoodPrice
<1>1. SalesHistory!Amount(cell.value) \in Int
  BY AmountIn DEF SalesHistory!IsCell
<1> QED BY <1>1

\* The rows that can be read from cells.
RowsOf(cells, N) ==
    LET values == {cells[j].value : j \in 1..N} IN
    {row \in [date : values \cup {None},
              price : {SalesHistory!_parse_price(cells[j]) : j \in 1..N} \cup {None},
              currency : {cells[j].currency : j \in 1..N} \cup {None},
              media : values \cup {None}, sleeve : SUBSET values] :
        GoodPrice(row.price, row.currency)}

LEMMA WithCellIn ==
  ASSUME NEW cells, NEW N \in Nat, NEW n \in 1..N, SalesHistory!IsCell(cells[n]),
         NEW row \in RowsOf(cells, N)
  PROVE  SalesHistory!WithCell(row, cells[n]) \in RowsOf(cells, N)
<1> DEFINE values == {cells[j].value : j \in 1..N}
           cell == cells[n]
<1>1. cell.value \in values /\ GoodPrice(SalesHistory!_parse_price(cell), cell.currency)
  BY PriceHasCurrency
<1>2. SalesHistory!_parse_date(cell) \in values \cup {None}
  BY DEF SalesHistory!_parse_date
<1>3. /\ SalesHistory!_parse_price(cell) \in {SalesHistory!_parse_price(cells[j]) : j \in 1..N} \cup {None}
      /\ cell.currency \in {cells[j].currency : j \in 1..N} \cup {None}
  OBVIOUS
<1> DEFINE prices == {SalesHistory!_parse_price(cells[j]) : j \in 1..N} \cup {None}
           currencies == {cells[j].currency : j \in 1..N} \cup {None}
<1>4. \A r : r \in RowsOf(cells, N) <=>
         /\ r \in [date : values \cup {None}, price : prices, currency : currencies,
                   media : values \cup {None}, sleeve : SUBSET values]
         /\ GoodPrice(r.price, r.currency)
  BY Zenon DEF RowsOf
<1> HIDE DEF values, cell, prices, currencies
<1>5. /\ row \in [date : values \cup {None}, price : prices, currency : currencies,
                  media : values \cup {None}, sleeve : SUBSET values]
      /\ GoodPrice(row.price, row.currency)
      /\ SalesHistory!_parse_price(cell) \in prices /\ cell.currency \in currencies
  BY <1>3, <1>4 DEF prices, currencies, cell
<1> DEFINE with == SalesHistory!WithCell(row, cell)
<1>6. /\ with \in [date : values \cup {None}, price : prices, currency : currencies,
                   media : values \cup {None}, sleeve : SUBSET values]
      /\ GoodPrice(with.price, with.currency)
  BY <1>1, <1>2, <1>5 DEF SalesHistory!WithCell
<1> QED BY <1>4, <1>6 DEF cell

\* The recursive function of _parse_row.
LEMMA ParsedRowIs ==
  ASSUME NEW cells, Len(cells) \in Nat, \A j \in 1..Len(cells) : SalesHistory!IsCell(cells[j])
  PROVE  SalesHistory!_parse_row(cells) \in RowsOf(cells, Len(cells))
<1> DEFINE N == Len(cells)
           S == RowsOf(cells, N)
           start == SalesHistory!NoRow
           step == [p \in (1..N) \X S |-> SalesHistory!WithCell(p[2], cells[p[1]])]
           Step(f, n) == IF n = 0 THEN start ELSE SalesHistory!WithCell(f[n - 1], cells[n])
<1>1. start \in S
  BY DEF SalesHistory!NoRow, RowsOf, GoodPrice
<1>2. \A n \in 1..N, x \in S : SalesHistory!WithCell(x, cells[n]) \in S
  BY WithCellIn
<1>3. N \in Nat
  OBVIOUS
<1> HIDE DEF start, S, N
<1>4. \A n \in 1..N, x \in S : step[<<n, x>>] = SalesHistory!WithCell(x, cells[n])
  OBVIOUS
<1>5. step \in Steps(N, S)
  BY <1>2 DEF Steps
<1> HIDE DEF step
<1>6. PICK f \in [0..N -> S] : IsWalk(f, N, start, step)
  BY <1>1, <1>3, <1>5, StepsExist
<1>7. f = [n \in 0..N |-> Step(f, n)]
  <2>1. ASSUME NEW n \in 0..N PROVE f[n] = Step(f, n)
    <3>1. f[n] = IF n = 0 THEN start ELSE step[<<n, f[n - 1]>>]
      BY <1>6, Zenon DEF IsWalk
    <3>2. CASE n = 0
      BY <3>1, <3>2
    <3>3. CASE n # 0
      <4>1. n \in 1..N /\ n - 1 \in 0..N
        BY <1>3, <3>3
      <4>2. f[n - 1] \in S
        BY <4>1
      <4> QED BY <1>4, <3>1, <3>3, <4>1, <4>2
    <3> QED BY <3>2, <3>3
  <2>2. f = [n \in 0..N |-> f[n]]
    OBVIOUS
  <2> HIDE DEF Step
  <2> QED BY <2>1, <2>2
<1> DEFINE row == CHOOSE g : g = [n \in 0..N |-> Step(g, n)]
<1>8. row = [n \in 0..N |-> Step(row, n)]
  BY <1>7, Zenon
<1>9. SalesHistory!_parse_row(cells) = row[N]
  BY Zenon DEF SalesHistory!_parse_row, start, N
<1> HIDE DEF row
<1>10. row[0] \in S
  BY <1>1, <1>3, <1>8
<1>11. ASSUME NEW n \in 1..N, row[n - 1] \in S PROVE row[n] \in S
  <2>1. n \in 0..N /\ n # 0
    OBVIOUS
  <2>2. row[n] = Step(row, n)
    <3> HIDE DEF Step
    <3> QED BY <1>8, <2>1
  <2> QED BY <1>2, <1>11, <2>1, <2>2
<1>12. \A n \in 0..N : row[n] \in S
  BY <1>3, <1>10, <1>11, StepsStay
<1>13. N \in 0..N
  BY <1>3
<1> QED BY <1>9, <1>12, <1>13 DEF S, N

\* A text whose lines are sequences of cells.
IsText(text) ==
    /\ Len(text.lines) \in Nat /\ DOMAIN text.lines = 1..Len(text.lines)
    /\ \A i \in DOMAIN text.lines :
          /\ Len(text.lines[i]) \in Nat /\ DOMAIN text.lines[i] = 1..Len(text.lines[i])
          /\ \A j \in DOMAIN text.lines[i] : SalesHistory!IsCell(text.lines[i][j])

\* The rows that are valid have a price and a currency.
LEMMA ValidAre ==
  ASSUME NEW text, IsText(text)
  PROVE  /\ SalesHistory!Valid(text) \in SUBSET SalesHistory!Lines(text)
         /\ SalesHistory!Lines(text) \in SUBSET Nat
         /\ IsFiniteSet(SalesHistory!Lines(text)) /\ IsFiniteSet(SalesHistory!Valid(text))
         /\ Cardinality(SalesHistory!Lines(text)) \in Nat
         /\ Cardinality(SalesHistory!Valid(text)) \in Nat
         /\ Cardinality(SalesHistory!Valid(text)) <= Cardinality(SalesHistory!Lines(text))
         /\ \A i \in SalesHistory!Valid(text) :
               /\ SalesHistory!_parse_row(text.lines[i]).price \in Nat
               /\ SalesHistory!_parse_row(text.lines[i]).currency # None
<1>1. /\ SalesHistory!Valid(text) \in SUBSET SalesHistory!Lines(text)
      /\ SalesHistory!Lines(text) \in SUBSET (1..Len(text.lines)) /\ Len(text.lines) \in Nat
  BY DEF SalesHistory!Valid, SalesHistory!Lines, IsText
<1>2. IsFiniteSet(1..Len(text.lines))
  BY <1>1, FS_Interval
<1>3. IsFiniteSet(SalesHistory!Lines(text)) /\ Cardinality(SalesHistory!Lines(text)) \in Nat
  BY <1>1, <1>2, FS_Subset, FS_CardinalityType
<1>4. /\ IsFiniteSet(SalesHistory!Valid(text)) /\ Cardinality(SalesHistory!Valid(text)) \in Nat
      /\ Cardinality(SalesHistory!Valid(text)) <= Cardinality(SalesHistory!Lines(text))
  BY <1>1, <1>3, FS_Subset, FS_CardinalityType
<1>5. ASSUME NEW i \in SalesHistory!Valid(text)
      PROVE  /\ SalesHistory!_parse_row(text.lines[i]).price \in Nat
             /\ SalesHistory!_parse_row(text.lines[i]).currency # None
  <2>1. i \in DOMAIN text.lines /\ SalesHistory!IsValid(SalesHistory!_parse_row(text.lines[i]))
    BY DEF SalesHistory!Valid, SalesHistory!Lines
  <2>2. SalesHistory!_parse_row(text.lines[i]) \in RowsOf(text.lines[i], Len(text.lines[i]))
    BY <2>1, ParsedRowIs DEF IsText
  <2>3. GoodPrice(SalesHistory!_parse_row(text.lines[i]).price,
                  SalesHistory!_parse_row(text.lines[i]).currency)
    BY <2>2 DEF RowsOf
  <2>4. SalesHistory!_parse_row(text.lines[i]).price # None
    BY <2>1 DEF SalesHistory!IsValid
  <2> QED BY <2>3, <2>4 DEF GoodPrice
<1>6. SalesHistory!Lines(text) \in SUBSET Nat
  BY <1>1
<1> QED BY <1>1, <1>3, <1>4, <1>5, <1>6

\* What is stored is as it is.
LEMMA StoredIs ==
  ASSUME NEW text, IsText(text), NEW release, SalesHistory!Stored(text, release) # None
  PROVE  LET rows == [i \in SalesHistory!Valid(text) |-> SalesHistory!_parse_row(text.lines[i])] IN
         /\ None \in {text.release, release} \/ text.release = release
         /\ SalesHistory!Stored(text, release)
              = SalesHistory!Import(rows, Cardinality(SalesHistory!Lines(text))
                                             - Cardinality(SalesHistory!Valid(text)))
         /\ ~ (Cardinality({rows[i].currency : i \in SalesHistory!Valid(text)}) > 1)
<1> DEFINE valid == [i \in SalesHistory!Valid(text) |-> SalesHistory!_parse_row(text.lines[i])]
           many == SalesHistory!Cardinality(SalesHistory!Valid(text)) > MaxRows
           refused == \/ text.lines = <<>> \/ text.length > MaxTextLength
                      \/ release # None /\ text.release \notin {None, release}
           outcome == SalesHistory!Parsed(text, release)
           currencies == {valid[i].currency : i \in SalesHistory!Valid(text)}
           discarded == SalesHistory!Cardinality(SalesHistory!Lines(text))
                           - SalesHistory!Cardinality(SalesHistory!Valid(text))
<1>1. outcome = IF refused THEN [hard_error |-> TRUE, valid_rows |-> <<>>, discarded |-> 0]
               ELSE [hard_error |-> many \/ SalesHistory!Cardinality(currencies) > 1,
                     valid_rows |-> IF many THEN <<>> ELSE valid, discarded |-> discarded]
  BY Zenon DEF SalesHistory!Parsed
<1>2. /\ ~ outcome.hard_error
      /\ SalesHistory!Stored(text, release) = SalesHistory!Import(outcome.valid_rows, outcome.discarded)
  BY DEF SalesHistory!Stored
<1> HIDE DEF valid, many, refused, outcome, currencies, discarded
<1>3. ~ refused
  <2> SUFFICES ASSUME refused PROVE FALSE
    OBVIOUS
  <2>1. outcome.hard_error = TRUE
    BY <1>1
  <2> QED BY <1>2, <2>1
<1>4. /\ outcome.hard_error = (many \/ SalesHistory!Cardinality(currencies) > 1)
      /\ outcome.valid_rows = IF many THEN <<>> ELSE valid
      /\ outcome.discarded = discarded
  BY <1>1, <1>3
<1>5. ~ many /\ ~ (SalesHistory!Cardinality(currencies) > 1)
  BY <1>2, <1>4
<1>6. SalesHistory!Stored(text, release) = SalesHistory!Import(valid, discarded)
  BY <1>2, <1>4, <1>5
<1>7. None \in {text.release, release} \/ text.release = release
  BY <1>3 DEF refused
<1>8. /\ discarded = Cardinality(SalesHistory!Lines(text)) - Cardinality(SalesHistory!Valid(text))
      /\ ~ (Cardinality(currencies) > 1)
  BY <1>5, SalesCount DEF discarded
<1> QED BY <1>6, <1>7, <1>8, Zenon DEF valid, currencies

\* What is stored of a text accounts for it.
LEMMA ImportsAreRight ==
  ASSUME NEW text, IsText(text), NEW release
  PROVE  SalesHistory!ImportHolds(text, release)
<1> DEFINE import == SalesHistory!Stored(text, release)
           lines == SalesHistory!Lines(text)
           valid == SalesHistory!Valid(text)
           rows == [i \in valid |-> SalesHistory!_parse_row(text.lines[i])]
           remaining == SalesHistory!Kept(rows)
           dates == SalesHistory!Dates(rows)
           stats == SalesHistory!compute_statistics(rows)
           sure == SalesHistory!calculate_confidence(rows)
           first == CHOOSE i \in valid : \A j \in valid : i <= j
           currency == IF valid = {} THEN None ELSE rows[first].currency
           currencies == {rows[i].currency : i \in valid}
<1>1. SUFFICES ASSUME import # None
               PROVE  /\ None \in {text.release, release} \/ text.release = release
                      /\ import.rows_found = Cardinality(lines)
                      /\ import.statistics.row_count + import.outlier_count <= import.rows_found
                      /\ \A latest \in import.newest_sold, earliest \in import.oldest_sold :
                            latest <= earliest
                      /\ import.currency = None <=> import.statistics.row_count = 0
                      /\ \A i \in valid : rows[i].currency = import.currency
                      /\ import.statistics.row_count = 0 => import.confidence = 0
  BY SalesCount, Zenon DEF SalesHistory!ImportHolds
<1>2. /\ valid \in SUBSET lines /\ lines \in SUBSET Nat
      /\ IsFiniteSet(valid) /\ Cardinality(valid) \in Nat /\ Cardinality(lines) \in Nat
      /\ Cardinality(valid) <= Cardinality(lines)
      /\ \A i \in valid : rows[i].price \in Nat /\ rows[i].currency # None
  BY ValidAre
<1>3. /\ None \in {text.release, release} \/ text.release = release
      /\ import = SalesHistory!Import(rows, Cardinality(lines) - Cardinality(valid))
      /\ ~ (Cardinality(currencies) > 1)
  BY <1>1, StoredIs, Zenon
<1>4. Priced(rows) /\ DOMAIN rows = valid
  BY <1>2 DEF Priced
<1>5. import = [statistics |-> stats, confidence |-> sure,
                newest_sold |-> {d \in dates : \A e \in dates : d <= e},
                oldest_sold |-> {d \in dates : \A e \in dates : d >= e},
                currency |-> currency,
                rows_found |-> Cardinality(valid) + (Cardinality(lines) - Cardinality(valid)),
                outlier_count |-> Cardinality(valid) - Cardinality(remaining)]
  <2> HIDE DEF rows, dates, stats, sure, remaining, import
  <2> QED BY <1>3, <1>4, SalesCount DEF SalesHistory!Import, dates, stats, sure, remaining
<1>6. /\ remaining \in SUBSET valid /\ Cardinality(remaining) \in Nat
      /\ Cardinality(remaining) <= Cardinality(valid) /\ 2 * Cardinality(remaining) >= Cardinality(valid)
  <2> HIDE DEF rows, valid
  <2> QED BY <1>4, KeptAre, MostAreKept
<1>7. stats.row_count = Cardinality(remaining)
  <2> HIDE DEF rows
  <2>1. Cardinality(remaining) = 0 => stats.row_count = 0
    BY <1>4, StatisticsAre
  <2>2. Cardinality(remaining) # 0 => stats.row_count = Cardinality(remaining)
    BY <1>4, StatisticsAre
  <2> QED BY <2>1, <2>2
<1>8. stats.row_count = 0 => sure = 0
  <2> SUFFICES ASSUME Cardinality(remaining) = 0 PROVE sure = 0
    BY <1>7
  <2>1. 0 < MediumRows
    <3>1. MediumRows \in Nat \ {0}
      BY InputsAssumption, Zenon DEF SalesHistory!SalesAssumption
    <3> QED BY <3>1
  <2>2. SalesHistory!_row_count_tier(0) = 0
    BY <2>1 DEF SalesHistory!_row_count_tier
  <2>3. SalesHistory!_recency_tier(dates) \in {0, 1, 2}
    BY DEF SalesHistory!_recency_tier
  <2> HIDE DEF rows
  <2> QED BY <2>2, <2>3, SalesCount DEF SalesHistory!calculate_confidence
<1>9. valid # {} => first \in valid
  <2> SUFFICES ASSUME valid # {} PROVE \E i \in valid : \A j \in valid : i <= j
    OBVIOUS
  <2>1. valid \in SUBSET Nat
    BY <1>2
  <2> HIDE DEF valid
  <2> QED BY <2>1, LeastNumber
<1>10. currency = None <=> valid = {}
  <2> HIDE DEF first, valid, rows
  <2> QED BY <1>2, <1>9
<1>11. Cardinality(valid) = 0 <=> valid = {}
  BY <1>2, FS_EmptySet
<1> HIDE DEF rows, valid, lines, remaining, dates, stats, sure, first, import
<1>12. currency = None <=> stats.row_count = 0
  BY <1>2, <1>6, <1>7, <1>10, <1>11
<1>13. ASSUME NEW i \in valid PROVE rows[i].currency = currency
  <2>1. first \in valid /\ currency = rows[first].currency
    BY <1>9
  <2>2. rows[i].currency \in currencies /\ rows[first].currency \in currencies
    BY <2>1
  <2>3. IsFiniteSet(currencies) /\ Cardinality(currencies) \in Nat
    <3>1. [k \in valid |-> rows[k].currency] \in Surjection(valid, currencies)
      BY DEF Surjection
    <3>2. IsFiniteSet(currencies)
      BY <1>2, <3>1, FS_Surjection
    <3> QED BY <3>2, FS_CardinalityType
  <2> HIDE DEF currencies, currency
  <2>4. SUFFICES ASSUME rows[i].currency # rows[first].currency PROVE FALSE
    BY <2>1
  <2> DEFINE a == rows[i].currency
             b == rows[first].currency
  <2>5. Cardinality({a} \cup {b}) = 2
    <3>1. IsFiniteSet({a}) /\ Cardinality({a}) = 1
      BY FS_Singleton
    <3> HIDE DEF a, b
    <3>2. b \notin {a}
      BY <2>4 DEF a, b
    <3> QED BY <3>1, <3>2, FS_AddElement
  <2>6. ({a} \cup {b}) \in SUBSET currencies
    BY <2>2
  <2> HIDE DEF a, b
  <2>7. Cardinality({a} \cup {b}) <= Cardinality(currencies)
    BY <2>3, <2>6, FS_Subset
  <2> QED BY <1>3, <2>3, <2>5, <2>7
<1> HIDE DEF currency, currencies
<1>14. /\ import.rows_found = Cardinality(lines)
       /\ import.statistics.row_count + import.outlier_count <= import.rows_found
  BY <1>2, <1>5, <1>6, <1>7
<1>15. \A latest \in import.newest_sold, earliest \in import.oldest_sold : latest <= earliest
  BY <1>5
<1>16. /\ import.currency = currency /\ import.statistics = stats /\ import.confidence = sure
  BY <1>5
<1> QED BY <1>3, <1>8, <1>12, <1>13, <1>14, <1>15, <1>16

\* A sales history that is asked about is read and valued as it should be.
LEMMA SalesAreRight ==
  ASSUME NEW x, SalesHistory!IsSale(x)
  PROVE  /\ x[1] = "rows" => SalesHistory!StatisticsHold(x[2])
         /\ x[1] = "price" => SalesHistory!PricesRead(x[2])
         /\ x[1] = "text" => SalesHistory!ImportHolds(x[2], x[3])
<1>1. CASE x[1] = "rows" /\ x[2] \in Seq(SalesHistory!Row)
  BY <1>1, StatisticsAreRight
<1>2. CASE x[1] = "price" /\ x[2] \in Nat
  BY <1>2, AllPricesAreRead
<1>3. CASE x[1] = "text" /\ IsText(x[2])
  BY <1>3, ImportsAreRight
<1> QED BY <1>1, <1>2, <1>3 DEF SalesHistory!IsSale, IsText

-----------------------------------------------------------------------------
(* Rules.  The table of the local engine is in order, and has all ranges   *)
(* of the policy.                                                          *)

\* The ranges of the table are numbers, and each ends before the next begins.
LEMMA TableIsInOrder ==
  \E n \in Nat :
     /\ DOMAIN Rules!_BARCODE_PREFIXES = 1..n
     /\ \A i \in 1..n : /\ Rules!_BARCODE_PREFIXES[i][1] \in Int
                        /\ Rules!_BARCODE_PREFIXES[i][2] \in Int
                        /\ Rules!_BARCODE_PREFIXES[i][1] <= Rules!_BARCODE_PREFIXES[i][2]
     /\ \A i \in 1..(n - 1) : Rules!_BARCODE_PREFIXES[i][2] < Rules!_BARCODE_PREFIXES[i + 1][1]
<1>1. DOMAIN Rules!_BARCODE_PREFIXES = 1..73
  BY DEF Rules!_BARCODE_PREFIXES
<1>2. \A i \in 1..73 : /\ Rules!_BARCODE_PREFIXES[i][1] \in Int
                       /\ Rules!_BARCODE_PREFIXES[i][2] \in Int
                       /\ Rules!_BARCODE_PREFIXES[i][1] <= Rules!_BARCODE_PREFIXES[i][2]
  BY SMTT(60) DEF Rules!_BARCODE_PREFIXES
<1>3. \A i \in 1..72 : Rules!_BARCODE_PREFIXES[i][2] < Rules!_BARCODE_PREFIXES[i + 1][1]
  BY SMTT(60) DEF Rules!_BARCODE_PREFIXES
<1>4. 73 \in Nat /\ 73 - 1 = 72
  OBVIOUS
<1> QED BY <1>1, <1>2, <1>3, <1>4, Zenon

\* So each ends before every later one begins.
LEMMA RangesInOrder ==
  ASSUME NEW i \in DOMAIN Rules!_BARCODE_PREFIXES, NEW j \in DOMAIN Rules!_BARCODE_PREFIXES, i < j
  PROVE  Rules!_BARCODE_PREFIXES[i][2] < Rules!_BARCODE_PREFIXES[j][1]
<1> DEFINE Low(k) == Rules!_BARCODE_PREFIXES[k][1]
           High(k) == Rules!_BARCODE_PREFIXES[k][2]
<1>1. PICK n \in Nat :
         /\ DOMAIN Rules!_BARCODE_PREFIXES = 1..n
         /\ \A k \in 1..n : Low(k) \in Int /\ High(k) \in Int /\ Low(k) <= High(k)
         /\ \A k \in 1..(n - 1) : High(k) < Low(k + 1)
  BY TableIsInOrder
<1> HIDE DEF Low, High
<1> DEFINE misplaced == {k \in 1..n : i < k /\ ~ (High(i) < Low(k))}
<1>2. ASSUME misplaced # {} PROVE FALSE
  <2>1. misplaced \in SUBSET Nat
    OBVIOUS
  <2>2. PICK k \in misplaced : \A m \in misplaced : k <= m
    BY <1>2, <2>1, LeastNumber
  <2>3. k \in 1..n /\ k - 1 \in 1..(n - 1) /\ k - 1 \in 1..n /\ k - 1 \notin misplaced
    BY <1>1, <2>2
  <2>4. High(k - 1) < Low((k - 1) + 1) /\ (k - 1) + 1 = k
    BY <1>1, <2>3
  <2>5. CASE k - 1 = i
    BY <2>2, <2>4, <2>5
  <2>6. CASE k - 1 # i
    <3>1. High(i) < Low(k - 1)
      BY <2>2, <2>3, <2>6, <1>1
    <3>2. Low(k - 1) <= High(k - 1)
      BY <1>1, <2>3
    <3> QED BY <1>1, <2>2, <2>3, <2>4, <3>1, <3>2
  <2> QED BY <2>5, <2>6
<1>3. High(i) < Low(j)
  BY <1>1, <1>2
<1> QED BY <1>3 DEF High, Low

\* And no prefix is in two of them.
LEMMA OneRange ==
  ASSUME NEW prefix, NEW i \in Rules!Matching(prefix), NEW j \in Rules!Matching(prefix)
  PROVE  i = j
<1>1. PICK n \in Nat :
         /\ DOMAIN Rules!_BARCODE_PREFIXES = 1..n
         /\ \A k \in 1..n : Rules!_BARCODE_PREFIXES[k][1] \in Int /\ Rules!_BARCODE_PREFIXES[k][2] \in Int
  BY TableIsInOrder
<1>2. \A k \in {i, j} : /\ k \in 1..n /\ k \in DOMAIN Rules!_BARCODE_PREFIXES
                        /\ prefix \in Rules!_BARCODE_PREFIXES[k][1]..Rules!_BARCODE_PREFIXES[k][2]
  BY <1>1 DEF Rules!Matching
<1>3. \A k, m \in {i, j} : ~ (k < m)
  BY <1>1, <1>2, RangesInOrder
<1> QED BY <1>2, <1>3

\* What is in a range of the policy is in one of the table, of the same country.
LEMMA PolicyIsInTable ==
  ASSUME NEW r \in Rules!barcode_ranges, NEW prefix \in r[1]..r[2]
  PROVE  \E i \in Rules!Matching(prefix) : Rules!_BARCODE_PREFIXES[i][3] = r[3]
<1>1. PICK i \in 1..73 : /\ Rules!_BARCODE_PREFIXES[i][3] = r[3]
                         /\ prefix \in Rules!_BARCODE_PREFIXES[i][1]..Rules!_BARCODE_PREFIXES[i][2]
  BY SMTT(60) DEF Rules!_BARCODE_PREFIXES, Rules!barcode_ranges
<1>2. DOMAIN Rules!_BARCODE_PREFIXES = 1..73
  BY DEF Rules!_BARCODE_PREFIXES
<1>3. i \in Rules!Matching(prefix)
  BY <1>1, <1>2, Zenon DEF Rules!Matching
<1> QED BY <1>1, <1>3

\* With the one range that a prefix is in the rules find its country.
LEMMA CountryFound ==
  ASSUME NEW prefix, NEW i \in Rules!Matching(prefix)
  PROVE  Rules!FirstOf(Rules!_BARCODE_PREFIXES, Rules!Matching(prefix), 3)
           = Rules!_BARCODE_PREFIXES[i][3]
<1>1. Rules!Matching(prefix) = {i}
  BY OneRange
<1>2. i <= i
  BY TableIsInOrder DEF Rules!Matching
<1>3. (CHOOSE k \in {i} : \A j \in {i} : k <= j) = i
  BY <1>2
<1> QED BY <1>1, <1>3 DEF Rules!FirstOf

LEMMA EnginesDecideAlike ==
  ASSUME NEW fields, Rules!IsFields(fields), None \notin Int
  PROVE  Rules!EnginesAgree(fields)
<1> DEFINE prefix == fields.barcode.prefix
           policy == Rules!OpaDecode(fields, TRUE)
           ranges == {s \in Rules!barcode_ranges : prefix \in s[1]..s[2]}
           countries == {r[3] : r \in ranges}
<1> SUFFICES ASSUME NEW format \in {"vinyl", "cd"}
             PROVE  LET rules == Rules!decode(format, fields) IN
                    /\ policy.status = "matched" =>
                          rules.status = "matched" /\ rules.decoded.country = policy.decoded.country
                    /\ policy.status = "unknown" /\ rules.status = "matched" =>
                          \/ prefix # None /\ \A r \in Rules!barcode_ranges : prefix \notin r[1]..r[2]
                          \/ fields.runout # <<>> \/ fields.catalog.length >= 2
  BY OneRange DEF Rules!EnginesAgree
<1> DEFINE rules == Rules!decode(format, fields)
<1>1. policy = IF fields.barcode.length < 3 \/ prefix = None \/ countries = {}
               THEN [status |-> "unknown", decoded |-> [country |-> None], warnings |-> TRUE]
               ELSE [status |-> "matched", decoded |-> [country |-> CHOOSE c \in countries : TRUE],
                     warnings |-> FALSE]
  BY DEF Rules!OpaDecode
<1>2. /\ policy.status \in {"matched", "unknown"}
      /\ policy.status = "matched" <=> (fields.barcode.length >= 3 /\ prefix # None /\ countries # {})
      /\ policy.status = "matched" => policy.decoded.country \in countries
  <2> HIDE DEF countries, prefix, policy
  <2>1. fields.barcode.length < 3 <=> ~ (fields.barcode.length >= 3)
    BY DEF Rules!IsFields
  <2>2. countries # {} => (CHOOSE c \in countries : TRUE) \in countries
    OBVIOUS
  <2> QED BY <1>1, <2>1, <2>2
<1>3. ASSUME policy.status = "matched"
      PROVE  rules.status = "matched" /\ rules.decoded.country = policy.decoded.country
  <2>1. fields.barcode.length >= 3 /\ prefix # None /\ policy.decoded.country \in countries
    BY <1>2, <1>3
  <2>2. PICK r \in ranges : policy.decoded.country = r[3]
    BY <2>1
  <2>3. PICK i \in Rules!Matching(prefix) : Rules!_BARCODE_PREFIXES[i][3] = r[3]
    BY PolicyIsInTable
  <2>4. Rules!barcode_country(fields).found = r[3]
    BY <2>3, CountryFound DEF Rules!barcode_country
  <2>5. Rules!barcode_country(fields).fires
    BY <2>1 DEF Rules!barcode_country
  <2> QED BY <2>2, <2>4, <2>5 DEF Rules!decode
<1>4. ASSUME policy.status = "unknown", rules.status = "matched"
      PROVE  \/ prefix # None /\ \A r \in Rules!barcode_ranges : prefix \notin r[1]..r[2]
             \/ fields.runout # <<>> \/ fields.catalog.length >= 2
  <2>1. \/ Rules!barcode_country(fields).fires \/ Rules!matrix_sid(fields).fires
        \/ Rules!catalog_prefix(fields).fires
    BY <1>4 DEF Rules!decode
  <2>2. CASE Rules!barcode_country(fields).fires
    <3>1. fields.barcode.length >= 3 /\ prefix # None
      BY <2>2 DEF Rules!barcode_country
    <3>2. countries = {}
      BY <1>2, <1>4, <3>1
    <3> QED BY <3>1, <3>2
  <2> QED BY <2>1, <2>2 DEF Rules!matrix_sid, Rules!catalog_prefix
<1> QED BY <1>3, <1>4

-----------------------------------------------------------------------------
(* The lists of the catalogue: facets, drill-down and search.              *)

\* Browse counts as this module does.
LEMMA BrowseCount == \A S : Browse!Cardinality(S) = Cardinality(S)
BY DEF Browse!Cardinality, Cardinality
\* So do its finite sets.
LEMMA BrowseFinite == \A S : Browse!IsFiniteSet(S) = IsFiniteSet(S)
BY DEF Browse!IsFiniteSet, IsFiniteSet

\* One of the tokens.
LEMMA TokenIs ==
  ASSUME NEW cat, Browse!IsCatalogue(cat), NEW t \in DOMAIN cat
  PROVE  /\ cat[t].live \in BOOLEAN /\ cat[t].artist \in Nat \cup {None}
         /\ cat[t].title \in Nat \cup {None} /\ cat[t].genres \in Seq(Browse!Genres)
         /\ cat[t].format \in {"vinyl", "cd"}
         /\ cat[t].year \in Nat \cup {None} /\ cat[t].rating \in Nat \cup {None}
BY DEF Browse!IsCatalogue

\* Any tokens are finitely many.
LEMMA TokensAreFinite ==
  ASSUME NEW cat, Browse!IsCatalogue(cat), NEW S \in SUBSET DOMAIN cat
  PROVE  IsFiniteSet(S) /\ Cardinality(S) \in Nat
<1>1. IsFiniteSet(DOMAIN cat)
  BY BrowseFinite DEF Browse!IsCatalogue
<1> QED BY <1>1, FS_Subset, FS_CardinalityType

\* A set within another has no more.
LEMMA Fewer ==
  ASSUME NEW cat, Browse!IsCatalogue(cat), NEW S \in SUBSET DOMAIN cat, NEW T \in SUBSET S
  PROVE  Cardinality(T) <= Cardinality(S)
BY TokensAreFinite, FS_Subset

\* The lists are parts of each other, and a pressing in them has an artist.
LEMMA ListedAre ==
  ASSUME NEW cat, Browse!IsCatalogue(cat), NEW f
  PROVE  /\ Browse!Live(cat) \in SUBSET DOMAIN cat /\ Browse!Named(cat) \in SUBSET Browse!Live(cat)
         /\ Browse!Counted(cat, f) \in SUBSET Browse!Base(cat, f)
         /\ Browse!Base(cat, f) \in SUBSET Browse!Named(cat)
         /\ Browse!Full(cat, f) \in SUBSET Browse!Named(cat)
         /\ Browse!Pressings(cat, f) \in SUBSET Browse!Full(cat, f)
         /\ \A t \in Browse!Named(cat) : cat[t].artist \in Nat /\ t \in DOMAIN cat
BY TokenIs DEF Browse!Live, Browse!Named, Browse!Base, Browse!Counted, Browse!Full, Browse!Pressings

\* What is found by a text as it is typed is found without its blanks, and what is counted for
\* a text without blanks at its ends is what is listed.
LEMMA BlanksAre ==
  ASSUME NEW cat, NEW f, Browse!IsFilter(f)
  PROVE  /\ \A tok : Browse!Found(tok, f.q.typed) => Browse!Found(tok, f.q.stripped)
         /\ f.q.typed = f.q.stripped => Browse!Counted(cat, f) = Browse!Full(cat, f)
<1>1. f.q.stripped # None => f.q.typed # None /\ f.q.typed \subseteq f.q.stripped
  BY DEF Browse!IsFilter
<1> QED BY <1>1 DEF Browse!Found, Browse!Counted, Browse!Base, Browse!Full

\* Behind the link of a facet is what it says, or more.
LEMMA FacetsAreRight ==
  ASSUME NEW cat, Browse!IsCatalogue(cat), NEW f, Browse!IsFilter(f), Browse!BrowseAssumption
  PROVE  Browse!FacetsHold(cat, f)
<1> DEFINE Shown(g) == Cardinality(Browse!Full(cat, g))
<1> SUFFICES ASSUME f.genres = <<>>
             PROVE  /\ \A fmt \in {"vinyl", "cd"} : f.fmt # fmt =>
                          /\ Shown(Browse!_fmt_toggle(f, fmt)) <= Browse!format_count(cat, f, fmt)
                          /\ f.q.typed = f.q.stripped =>
                                Shown(Browse!_fmt_toggle(f, fmt)) = Browse!format_count(cat, f, fmt)
                    /\ f.q.typed = f.q.stripped =>
                       /\ \A d \in {1960, 1970} : ~ (f.from = d /\ f.to = d + 9) =>
                             Browse!decade_count(cat, f, d) <= Shown(Browse!_decade_toggle(f, d))
                       /\ \A g \in UNION {Browse!ToSet(cat[t].genres) : t \in DOMAIN cat} :
                             Browse!lower(g) \notin Commas =>
                             Browse!genre_count(cat, f, g)
                               <= Cardinality(Browse!Pressings(cat, Browse!_genre_toggle(f, g)))
  BY BrowseCount DEF Browse!FacetsHold
<1>1. ASSUME NEW fmt \in {"vinyl", "cd"}, f.fmt # fmt
      PROVE  /\ Shown(Browse!_fmt_toggle(f, fmt)) <= Browse!format_count(cat, f, fmt)
             /\ f.q.typed = f.q.stripped =>
                   Shown(Browse!_fmt_toggle(f, fmt)) = Browse!format_count(cat, f, fmt)
  <2> DEFINE g == Browse!_fmt_toggle(f, fmt)
             counted == {t \in Browse!Base(cat, f) : cat[t].format = fmt}
  <2>1. g = [f EXCEPT !.fmt = fmt]
    BY <1>1 DEF Browse!_fmt_toggle
  <2>2. g.fmt = fmt /\ g.q = f.q /\ g.from = f.from /\ g.to = f.to /\ fmt # None
    BY <2>1 DEF Browse!IsFilter, Browse!BrowseAssumption
  <2> HIDE DEF g
  <2>3. Browse!Full(cat, g) = {t \in Browse!Named(cat) : /\ Browse!InYears(cat[t], f)
                                 /\ Browse!Found(cat[t], f.q.typed) /\ cat[t].format = fmt}
    BY <2>2 DEF Browse!Full, Browse!InYears, Browse!InFormat
  <2>4. /\ Browse!Full(cat, g) \in SUBSET counted
        /\ f.q.typed = f.q.stripped => Browse!Full(cat, g) = counted
    BY <2>3, BlanksAre DEF Browse!Base
  <2>5. counted \in SUBSET DOMAIN cat
    BY ListedAre
  <2>6. Browse!format_count(cat, f, fmt) = Cardinality(counted)
    BY BrowseCount DEF Browse!format_count
  <2> HIDE DEF counted
  <2> QED BY <2>4, <2>5, <2>6, Fewer DEF g
<1>2. ASSUME NEW d \in {1960, 1970}, ~ (f.from = d /\ f.to = d + 9), f.q.typed = f.q.stripped
      PROVE  Browse!decade_count(cat, f, d) <= Shown(Browse!_decade_toggle(f, d))
  <2> DEFINE g == Browse!_decade_toggle(f, d)
             counted == {t \in Browse!Counted(cat, f) :
                           /\ cat[t].year # None /\ cat[t].year \in d..(d + 9)
                           /\ cat[t].year \in 1900..2100}
  <2>1. g = [f EXCEPT !.from = d, !.to = d + 9]
    BY <1>2 DEF Browse!_decade_toggle
  <2>2. g.fmt = f.fmt /\ g.q = f.q /\ g.from = d /\ g.to = d + 9
    BY <2>1 DEF Browse!IsFilter
  <2> HIDE DEF g
  <2>3. counted \in SUBSET Browse!Full(cat, g)
    <3>1. Browse!Counted(cat, f) = Browse!Full(cat, f)
      BY <1>2, BlanksAre
    <3> QED BY <2>2, <3>1, TokenIs DEF Browse!Full, Browse!InYears, Browse!InFormat
  <2>4. Browse!Full(cat, g) \in SUBSET DOMAIN cat
    BY ListedAre
  <2>5. Cardinality(counted) <= Cardinality(Browse!Full(cat, g))
    BY <2>3, <2>4, Fewer
  <2> QED BY <2>5, BrowseCount DEF Browse!decade_count, g
<1>3. ASSUME NEW t0 \in DOMAIN cat, NEW g \in Browse!ToSet(cat[t0].genres),
             Browse!lower(g) \notin Commas, f.q.typed = f.q.stripped
      PROVE  Browse!genre_count(cat, f, g)
               <= Cardinality(Browse!Pressings(cat, Browse!_genre_toggle(f, g)))
  <2> DEFINE h == Browse!_genre_toggle(f, g)
             counted == {t \in Browse!Counted(cat, f) : g \in Browse!ToSet(cat[t].genres)}
  <2>1. Append(<<>>, g) = <<g>>
    OBVIOUS
  <2>2. Browse!Linked(<<g>>) = [i \in 1..1 |-> g]
    BY <1>3 DEF Browse!Linked
  <2>3. h = [f EXCEPT !.genres = [i \in 1..1 |-> g]]
    <3>1. ~ \E i \in DOMAIN f.genres : Browse!lower(f.genres[i]) = Browse!lower(g)
      OBVIOUS
    <3> QED BY <2>1, <2>2, <3>1 DEF Browse!_genre_toggle
  <2>4. h.fmt = f.fmt /\ h.q = f.q /\ h.from = f.from /\ h.to = f.to /\ h.genres = [i \in 1..1 |-> g]
    BY <2>3 DEF Browse!IsFilter
  <2> HIDE DEF h
  <2>5. Browse!Full(cat, h) = Browse!Counted(cat, f)
    <3>1. Browse!Counted(cat, f) = Browse!Full(cat, f)
      BY <1>3, BlanksAre
    <3> QED BY <2>4, <3>1 DEF Browse!Full, Browse!InYears, Browse!InFormat
  <2>6. counted \in SUBSET Browse!Pressings(cat, h)
    <3> SUFFICES ASSUME NEW t \in counted
                 PROVE  \E i \in DOMAIN h.genres :
                           Browse!lower(h.genres[i])
                              \in {Browse!lower(x) : x \in Browse!ToSet(cat[t].genres)}
      BY <2>5 DEF Browse!Pressings
    <3>1. 1 \in DOMAIN h.genres /\ h.genres[1] = g
      BY <2>4
    <3> QED BY <3>1
  <2>7. Browse!Pressings(cat, h) \in SUBSET DOMAIN cat
    BY ListedAre
  <2>8. Cardinality(counted) <= Cardinality(Browse!Pressings(cat, h))
    BY <2>6, <2>7, Fewer
  <2> QED BY <2>8, BrowseCount DEF Browse!genre_count, h
<1> QED BY <1>1, <1>2, <1>3

\* The drill-down.
LEMMA DrillDownIsRight ==
  ASSUME NEW cat, Browse!IsCatalogue(cat)
  PROVE  Browse!DrillDownHolds(cat)
<1>1. ASSUME NEW artist, NEW title, title # None
      PROVE  {t \in {u \in Browse!Named(cat) : cat[u].artist = artist} : cat[t].title = title}
               = Browse!album_pressings(cat, artist, title)
  BY <1>1 DEF Browse!album_pressings
<1>2. ASSUME NEW artist, NEW album \in Browse!albums(cat, artist), album.title # None
      PROVE  album.pressing_count = Browse!Cardinality(Browse!album_pressings(cat, artist, album.title))
  <2> DEFINE Of(title) == {t \in {u \in Browse!Named(cat) : cat[u].artist = artist} : cat[t].title = title}
  <2>1. PICK title : album = [title |-> title, pressing_count |-> Browse!Cardinality(Of(title))]
    BY DEF Browse!albums
  <2> HIDE DEF Of
  <2>2. album.title = title /\ album.pressing_count = Browse!Cardinality(Of(title))
    BY <2>1
  <2> QED BY <1>1, <1>2, <2>2 DEF Of
<1> QED BY <1>2 DEF Browse!DrillDownHolds

\* A size up to a limit.
Cut(size, limit) == IF size < limit THEN size ELSE limit

\* The first ones of a set are as many as there may be, and all of them if there may be.
LEMMA FirstAre ==
  ASSUME NEW set, IsFiniteSet(set), NEW size \in Nat, NEW before,
         NEW first \in Browse!FirstOf(set, size, before)
  PROVE  /\ first \in SUBSET set /\ IsFiniteSet(first) /\ Cardinality(set) \in Nat
         /\ Cardinality(first) = Cut(Cardinality(set), size)
         /\ first # set <=> Cardinality(set) > size
<1>1. first \in SUBSET set /\ Cardinality(first) = Cut(Cardinality(set), size)
  BY BrowseCount DEF Browse!FirstOf, Cut
<1>2. IsFiniteSet(first) /\ Cardinality(set) \in Nat
  BY <1>1, FS_Subset, FS_CardinalityType
<1>3. Cardinality(first) = Cardinality(set) => first = set
  BY <1>1, FS_Subset
<1> QED BY <1>1, <1>2, <1>3 DEF Cut

\* The flat list has as many pressings as it may of those that are found.
LEMMA FlatIs ==
  ASSUME NEW cat, Browse!IsCatalogue(cat), NEW q, NEW scope, Browse!BrowseAssumption,
         NEW flat \in Browse!flat_lists(cat, q, scope)
  PROVE  LET matched == Browse!Hits(cat, q, scope \in {"all", "artists"}, scope \in {"all", "albums"})
         IN flat \in SUBSET matched /\ Cardinality(flat) = Cut(Cardinality(matched), SEARCH_LIMIT)
<1> DEFINE matched == Browse!Hits(cat, q, scope \in {"all", "artists"}, scope \in {"all", "albums"})
<1>1. PICK rows \in Browse!FirstOf(matched, SEARCH_LIMIT + 1, Browse!ByTitle(cat, matched)) :
         flat \in Browse!FirstOf(rows, SEARCH_LIMIT, Browse!ByArtist(cat, rows))
  BY DEF Browse!flat_lists, Browse!_search_pressings
<1>2. IsFiniteSet(matched) /\ SEARCH_LIMIT \in Nat /\ SEARCH_LIMIT + 1 \in Nat
  <2>1. matched \in SUBSET DOMAIN cat
    BY DEF Browse!Hits, Browse!Live
  <2> QED BY <2>1, TokensAreFinite DEF Browse!BrowseAssumption
<1> HIDE DEF matched
<1>3. /\ rows \in SUBSET matched /\ IsFiniteSet(rows) /\ Cardinality(matched) \in Nat
      /\ Cardinality(rows) = Cut(Cardinality(matched), SEARCH_LIMIT + 1)
  BY <1>1, <1>2, FirstAre
<1>4. flat \in SUBSET rows /\ Cardinality(flat) = Cut(Cardinality(rows), SEARCH_LIMIT)
  BY <1>1, <1>2, <1>3, FirstAre
<1>5. Cut(Cut(Cardinality(matched), SEARCH_LIMIT + 1), SEARCH_LIMIT) = Cut(Cardinality(matched), SEARCH_LIMIT)
  BY <1>2, <1>3 DEF Cut
<1> QED BY <1>3, <1>4, <1>5 DEF matched

\* What is asked of a search in one scope.
SearchIsSound(cat, q, scope) ==
    LET names == Browse!Matching(cat, q, scope)
        titled == IF scope \in {"all", "albums"}
                  THEN {t \in Browse!Live(cat) : cat[t].title \in q} ELSE {}
        matched == titled \cup {t \in Browse!Live(cat) : cat[t].artist \in names}
        Up(size, limit) == IF size < limit THEN size ELSE limit
    IN /\ \A hits \in Browse!panels(cat, q, scope) :
             /\ hits.albums \subseteq titled /\ (hits.albums # titled <=> hits.albums_more)
             /\ hits.artists \subseteq names
             /\ Browse!Cardinality(hits.artists) = Up(Browse!Cardinality(names), MaxArtists)
             /\ hits.opened => matched = hits.albums /\ Browse!Cardinality(matched) = 1
       /\ \A flat \in Browse!flat_lists(cat, q, scope) :
             flat \subseteq matched /\ Browse!Cardinality(flat) = Up(Browse!Cardinality(matched), SEARCH_LIMIT)

\* The search.
LEMMA SearchIsRight ==
  ASSUME NEW cat, Browse!IsCatalogue(cat), NEW q \in SUBSET Nat, Browse!BrowseAssumption
  PROVE  Browse!SearchHolds(cat, q)
<1> SUFFICES ASSUME NEW scope \in {"all", "artists", "albums"} PROVE SearchIsSound(cat, q, scope)
  BY Zenon DEF Browse!SearchHolds, SearchIsSound
<1> DEFINE names == Browse!Matching(cat, q, scope)
           titled == IF scope \in {"all", "albums"}
                     THEN {t \in Browse!Live(cat) : cat[t].title \in q} ELSE {}
           matched == titled \cup {t \in Browse!Live(cat) : cat[t].artist \in names}
<1>1. /\ titled \in SUBSET DOMAIN cat /\ matched \in SUBSET DOMAIN cat
      /\ matched = Browse!Hits(cat, q, scope \in {"all", "artists"}, scope \in {"all", "albums"})
  <2>1. ASSUME NEW t \in Browse!Live(cat)
        PROVE  cat[t].artist \in names <=> scope \in {"all", "artists"} /\ cat[t].artist \in q
    <3>1. None \notin q
      BY DEF Browse!BrowseAssumption
    <3>2. cat[t].artist \in q => cat[t].artist \in {cat[u].artist : u \in Browse!Named(cat)}
      BY <3>1 DEF Browse!Named
    <3>3. scope \in {"all", "artists"} => names = {cat[u].artist : u \in Browse!Named(cat)} \cap q
      BY DEF Browse!Matching
    <3>4. scope \notin {"all", "artists"} => names = {}
      BY DEF Browse!Matching
    <3> HIDE DEF names
    <3> QED BY <3>2, <3>3, <3>4
  <2> HIDE DEF names
  <2> QED BY <2>1 DEF Browse!Hits, Browse!Live
<1>2. IsFiniteSet(titled) /\ IsFiniteSet(matched) /\ Cardinality(titled) \in Nat
  BY <1>1, TokensAreFinite
<1>3. IsFiniteSet(names) /\ MaxArtists \in Nat \ {0} /\ SEARCH_LIMIT \in Nat \ {0}
  <2>1. names \in SUBSET {cat[t].artist : t \in Browse!Named(cat)}
    BY DEF Browse!Matching
  <2>2. IsFiniteSet(Browse!Named(cat))
    BY ListedAre, TokensAreFinite
  <2>3. [t \in Browse!Named(cat) |-> cat[t].artist]
           \in Surjection(Browse!Named(cat), {cat[t].artist : t \in Browse!Named(cat)})
    BY DEF Surjection
  <2>4. IsFiniteSet({cat[t].artist : t \in Browse!Named(cat)})
    BY <2>2, <2>3, FS_Surjection
  <2> QED BY <2>1, <2>4, FS_Subset DEF Browse!BrowseAssumption
<1>4. ASSUME NEW hits \in Browse!panels(cat, q, scope)
      PROVE  /\ hits.albums \subseteq titled /\ (hits.albums # titled <=> hits.albums_more)
             /\ hits.artists \subseteq names
             /\ Cardinality(hits.artists) = Cut(Cardinality(names), MaxArtists)
             /\ hits.opened => matched = hits.albums /\ Cardinality(matched) = 1
  <2> DEFINE fetched == IF scope \in {"all", "albums"}
                        THEN Browse!_search_pressings(cat, q, FALSE, TRUE) ELSE {{}}
             shows(rows) ==
                {[artists |-> artists, albums |-> shown,
                  albums_more |-> Browse!Cardinality(rows) > SEARCH_LIMIT,
                  opened |-> artists = {} /\ Browse!Cardinality(rows) = 1] :
                    artists \in Browse!_search_artists(cat, q, scope),
                    shown \in Browse!FirstOf(rows, SEARCH_LIMIT, Browse!ByTitle(cat, rows))}
  <2>0. Browse!panels(cat, q, scope) = UNION {shows(rows) : rows \in fetched}
    BY DEF Browse!panels, Browse!_single_pressing_hit
  <2>1. PICK rows \in fetched : hits \in shows(rows)
    <3> HIDE DEF shows, fetched
    <3> QED BY <2>0
  <2>2. PICK artists \in Browse!_search_artists(cat, q, scope),
             shown \in Browse!FirstOf(rows, SEARCH_LIMIT, Browse!ByTitle(cat, rows)) :
                hits = [artists |-> artists, albums |-> shown,
                        albums_more |-> Cardinality(rows) > SEARCH_LIMIT,
                        opened |-> artists = {} /\ Cardinality(rows) = 1]
    BY <2>1, BrowseCount
  <2>3. /\ hits.artists = artists /\ hits.albums = shown
        /\ hits.albums_more <=> Cardinality(rows) > SEARCH_LIMIT
        /\ hits.opened <=> artists = {} /\ Cardinality(rows) = 1
    BY <2>2
  <2>4. artists \subseteq names /\ Cardinality(artists) = Cut(Cardinality(names), MaxArtists)
    <3>1. artists \in Browse!FirstOf(names, MaxArtists, {p \in names \X names : p[1] < p[2]})
      BY DEF Browse!_search_artists
    <3> HIDE DEF names
    <3> QED BY <1>3, <3>1, FirstAre
  <2>5. /\ rows \in SUBSET titled /\ IsFiniteSet(rows) /\ Cardinality(rows) \in Nat
        /\ Cardinality(rows) = Cut(Cardinality(titled), SEARCH_LIMIT + 1)
        /\ rows # titled => Cardinality(titled) > SEARCH_LIMIT + 1
    <3>1. CASE scope \in {"all", "albums"}
      <4>1. Browse!Hits(cat, q, FALSE, TRUE) = titled
        BY <3>1 DEF Browse!Hits
      <4>2. rows \in Browse!FirstOf(titled, SEARCH_LIMIT + 1, Browse!ByTitle(cat, titled))
        BY <2>1, <3>1, <4>1 DEF Browse!_search_pressings
      <4> HIDE DEF titled
      <4> QED BY <1>2, <1>3, <4>2, FirstAre, FS_CardinalityType
    <3>2. CASE scope \notin {"all", "albums"}
      <4>1. rows = {} /\ titled = {}
        BY <2>1, <3>2
      <4> HIDE DEF titled
      <4> QED BY <1>3, <4>1, FS_EmptySet DEF Cut
    <3> QED BY <3>1, <3>2
  <2> HIDE DEF titled, names, matched
  <2>6. shown \in SUBSET rows /\ (shown # rows <=> Cardinality(rows) > SEARCH_LIMIT)
    BY <1>3, <2>2, <2>5, FirstAre
  <2>7. Cardinality(rows) > SEARCH_LIMIT <=> Cardinality(titled) > SEARCH_LIMIT
    BY <1>2, <1>3, <2>5 DEF Cut
  <2>8. shown \subseteq titled /\ (shown # titled <=> Cardinality(rows) > SEARCH_LIMIT)
    <3>1. CASE Cardinality(rows) > SEARCH_LIMIT
      BY <2>5, <2>6, <3>1
    <3>2. CASE ~ (Cardinality(rows) > SEARCH_LIMIT)
      <4>1. shown = rows /\ rows = titled
        BY <1>2, <1>3, <2>5, <2>6, <2>7, <3>2
      <4> QED BY <3>2, <4>1
    <3> QED BY <3>1, <3>2
  <2>9. ASSUME artists = {}, Cardinality(rows) = 1 PROVE matched = shown /\ Cardinality(matched) = 1
    <3>1. names = {}
      <4>1. Cardinality(names) \in Nat /\ (Cardinality(names) = 0 <=> names = {})
        BY <1>3, FS_CardinalityType, FS_EmptySet
      <4>2. Cardinality(artists) = 0
        BY <2>9, FS_EmptySet
      <4> QED BY <1>3, <2>4, <4>1, <4>2 DEF Cut
    <3>2. matched = titled
      BY <3>1 DEF matched
    <3>3. ~ (Cardinality(rows) > SEARCH_LIMIT) /\ shown = rows
      BY <1>3, <2>6, <2>9
    <3> QED BY <2>8, <2>9, <3>2, <3>3
  <2> QED BY <2>3, <2>4, <2>8, <2>9
<1>5. ASSUME NEW flat \in Browse!flat_lists(cat, q, scope)
      PROVE  flat \subseteq matched /\ Cardinality(flat) = Cut(Cardinality(matched), SEARCH_LIMIT)
  <2> HIDE DEF matched
  <2> QED BY <1>1, FlatIs
<1> HIDE DEF names, titled, matched
<1> QED BY <1>4, <1>5, BrowseCount, Zenon DEF SearchIsSound, Cut, names, titled, matched

-----------------------------------------------------------------------------
(* Places and pages.                                                       *)

\* How many names there are up to a name.
Rank(names, name) == Cardinality({other \in names : other <= name})

\* It grows with the name, up to the number of names.
LEMMA RankIs ==
  ASSUME NEW names \in SUBSET Nat, IsFiniteSet(names), NEW name \in Nat
  PROVE  /\ Rank(names, name) \in 0..Cardinality(names)
         /\ name \in names => Rank(names, name) \in 1..Cardinality(names)
         /\ \A other \in names : name < other => Rank(names, name) < Rank(names, other)
<1> DEFINE upto == {other \in names : other <= name}
<1>4. \A other \in names : other \in Nat
  OBVIOUS
<1>1. /\ IsFiniteSet(upto) /\ Cardinality(upto) \in Nat /\ Cardinality(names) \in Nat
      /\ Cardinality(upto) <= Cardinality(names)
  BY FS_Subset, FS_CardinalityType
<1>2. ASSUME name \in names PROVE Cardinality(upto) # 0
  <2>1. name \in upto
    BY <1>2
  <2> QED BY <1>1, <2>1, FS_EmptySet
<1>3. ASSUME NEW other \in names, name < other PROVE Rank(names, name) < Rank(names, other)
  <2> DEFINE more == {x \in names : x <= other}
  <2>1. IsFiniteSet(more) /\ Cardinality(more) \in Nat
    BY FS_Subset, FS_CardinalityType
  <2>2. upto \in SUBSET more /\ other \in more /\ other \notin upto
    <3>1. \A x \in names : x <= name => x <= other
      <4> SUFFICES ASSUME NEW x \in names, x <= name PROVE x <= other
        OBVIOUS
      <4>1. x \in Nat /\ other \in Nat
        BY <1>4
      <4> QED BY <1>3, <4>1
    <3>2. ~ (other <= name) /\ other <= other
      <4>1. other \in Nat
        BY <1>4
      <4> QED BY <1>3, <4>1
    <3> QED BY <3>1, <3>2
  <2>3. Cardinality(upto) <= Cardinality(more) /\ Cardinality(upto) # Cardinality(more)
    BY <2>1, <2>2, FS_Subset
  <2> QED BY <1>1, <2>1, <2>3 DEF Rank
<1> QED BY <1>1, <1>2, <1>3 DEF Rank

\* There is one name at each place.
LEMMA NthIs ==
  ASSUME NEW names \in SUBSET Nat, IsFiniteSet(names), NEW place \in 1..Cardinality(names)
  PROVE  /\ Browse!Nth(names, place) \in names
         /\ Rank(names, Browse!Nth(names, place)) = place
<1>1. Cardinality(names) \in Nat /\ names # {}
  BY FS_CardinalityType, FS_EmptySet
<1> DEFINE reached == {m \in Nat : place <= Rank(names, m)}
<1>2. reached # {}
  <2>1. PICK top \in names : \A n \in names : n <= top
    BY <1>1, GreatestNumber
  <2>2. {other \in names : other <= top} = names
    BY <2>1
  <2> QED BY <1>1, <2>1, <2>2 DEF Rank
<1>3. PICK m \in reached : \A n \in reached : m <= n
  <2>1. reached \in SUBSET Nat
    OBVIOUS
  <2> HIDE DEF reached
  <2> QED BY <1>2, <2>1, LeastNumber
<1>9. m \in Nat /\ place \in Nat /\ place <= Rank(names, m) /\ \A other \in names : other \in Nat
  BY <1>1, <1>3
<1> HIDE DEF reached
<1> DEFINE before == {other \in names : other < m}
<1>4. IsFiniteSet(before) /\ Cardinality(before) \in Nat
  BY FS_Subset, FS_CardinalityType
<1>5. Cardinality(before) < place
  <2>1. CASE m = 0
    <3>1. before = {}
      <4> SUFFICES ASSUME NEW x \in names, x < m PROVE FALSE
        OBVIOUS
      <4>1. x \in Nat
        BY <1>9
      <4> QED BY <2>1, <4>1
    <3> QED BY <1>1, <3>1, FS_EmptySet
  <2>2. CASE m # 0
    <3>1. m - 1 \in Nat /\ m - 1 \notin reached
      BY <1>3, <1>9, <2>2
    <3>2. before = {other \in names : other <= m - 1}
      <4>1. \A x \in names : x < m <=> x <= m - 1
        <5> SUFFICES ASSUME NEW x \in names PROVE x < m <=> x <= m - 1
          OBVIOUS
        <5>1. x \in Nat
          BY <1>9
        <5> QED BY <1>9, <5>1
      <4> QED BY <4>1
    <3> QED BY <1>4, <1>9, <3>1, <3>2 DEF Rank, reached
  <2> QED BY <2>1, <2>2
<1>6. m \in names
  <2> SUFFICES ASSUME m \notin names PROVE FALSE
    OBVIOUS
  <2>1. before = {other \in names : other <= m}
    <3>1. \A x \in names : x < m <=> x <= m
      <4> SUFFICES ASSUME NEW x \in names PROVE x < m <=> x <= m
        OBVIOUS
      <4>1. x \in Nat /\ x # m
        BY <1>9
      <4> QED BY <1>9, <4>1
    <3> QED BY <3>1
  <2> QED BY <1>4, <1>5, <1>9, <2>1 DEF Rank
<1>7. Rank(names, m) = place
  <2>1. {other \in names : other <= m} = before \cup {m}
    <3>1. \A x \in names : x <= m <=> x < m \/ x = m
      <4> SUFFICES ASSUME NEW x \in names PROVE x <= m <=> x < m \/ x = m
        OBVIOUS
      <4>1. x \in Nat
        BY <1>9
      <4> QED BY <1>9, <4>1
    <3> QED BY <1>6, <3>1
  <2>2. Cardinality(before \cup {m}) = Cardinality(before) + 1
    <3>1. m \notin before
      BY <1>9
    <3> QED BY <1>4, <3>1, FS_AddElement
  <2> QED BY <1>4, <1>5, <1>9, <2>1, <2>2 DEF Rank
<1>8. Browse!Nth(names, place) = CHOOSE name \in names : Rank(names, name) = place
  BY BrowseCount DEF Browse!Nth, Rank
<1> QED BY <1>6, <1>7, <1>8

\* Two names are not at one place.
LEMMA RankDiffers ==
  ASSUME NEW names \in SUBSET Nat, IsFiniteSet(names), NEW a \in names, NEW b \in names,
         Rank(names, a) = Rank(names, b)
  PROVE  a = b
<1>1. a \in Nat /\ b \in Nat /\ Rank(names, a) \in Nat
  BY RankIs
<1>2. ~ (a < b)
  BY <1>1, RankIs
<1>3. ~ (b < a)
  BY <1>1, RankIs
<1> QED BY <1>1, <1>2, <1>3

\* Each place is on one page.
LEMMA PageOfPlace ==
  ASSUME NEW n \in Nat, NEW i \in 1..n, Browse!BrowseAssumption
  PROVE  /\ \E p \in 1..Browse!total_pages(n) : (p - 1) * PageSize < i /\ i <= p * PageSize
         /\ \A p, q \in Nat : (p - 1) * PageSize < i /\ i <= p * PageSize
                              /\ (q - 1) * PageSize < i /\ i <= q * PageSize => p = q
<1> DEFINE d == (i - 1) \div PageSize
           all == (n + PageSize - 1) \div PageSize
<1>1. PageSize \in Nat /\ PageSize > 0
  BY DEF Browse!BrowseAssumption
<1>2. d \in Nat /\ d * PageSize <= i - 1 /\ i - 1 < (d + 1) * PageSize
  <2>1. i - 1 \in Nat
    OBVIOUS
  <2>2. \A a \in Nat : /\ (a \div PageSize) \in Nat /\ (a \div PageSize) * PageSize <= a
                        /\ a < ((a \div PageSize) + 1) * PageSize
    BY <1>1
  <2> QED BY <2>1, <2>2
<1>3. Browse!total_pages(n) = all
  <2>1. n # 0
    OBVIOUS
  <2> QED BY <2>1 DEF Browse!total_pages
<1>4. all \in Nat /\ n + PageSize - 1 < (all + 1) * PageSize
  <2>1. n + PageSize - 1 \in Nat
    BY <1>1
  <2>2. \A a \in Nat : (a \div PageSize) \in Nat /\ a < ((a \div PageSize) + 1) * PageSize
    BY <1>1
  <2> QED BY <2>1, <2>2
<1> HIDE DEF d, all
<1>5. \A a, b \in Int : a < b => (a + 1) * PageSize <= b * PageSize
  <2> SUFFICES ASSUME NEW a \in Int, NEW b \in Int, a < b PROVE (a + 1) * PageSize <= b * PageSize
    OBVIOUS
  <2>1. b - (a + 1) \in Nat
    OBVIOUS
  <2>2. (b - (a + 1)) * PageSize >= 0
    BY <1>1, <2>1
  <2>3. (b - (a + 1)) * PageSize = b * PageSize - (a + 1) * PageSize
    BY <1>1
  <2> QED BY <1>1, <2>2, <2>3
<1>6. d < all
  <2> SUFFICES ASSUME all < d + 1 PROVE FALSE
    BY <1>2, <1>4
  <2>1. (all + 1) * PageSize <= (d + 1) * PageSize
    BY <1>2, <1>4, <1>5
  <2>2. /\ (d + 1) * PageSize = d * PageSize + PageSize /\ d * PageSize \in Nat
        /\ (all + 1) * PageSize \in Nat
    BY <1>1, <1>2, <1>4
  <2> QED BY <1>1, <1>2, <1>4, <2>1, <2>2
<1>7. d + 1 \in 1..all /\ ((d + 1) - 1) * PageSize < i /\ i <= (d + 1) * PageSize
  <2>1. d * PageSize \in Nat /\ (d + 1) * PageSize \in Nat /\ (d + 1) - 1 = d
    BY <1>1, <1>2
  <2> QED BY <1>2, <1>4, <1>6, <2>1
<1>8. ASSUME NEW p \in Nat, NEW q \in Nat, (p - 1) * PageSize < i, i <= p * PageSize,
             (q - 1) * PageSize < i, i <= q * PageSize
      PROVE  ~ (p < q)
  <2> SUFFICES ASSUME p < q PROVE FALSE
    OBVIOUS
  <2>1. p - 1 < q - 1 /\ (p - 1) + 1 = p /\ p - 1 \in Int /\ q - 1 \in Int
    OBVIOUS
  <2>2. p * PageSize <= (q - 1) * PageSize
    BY <1>5, <2>1
  <2>3. p * PageSize \in Int /\ (q - 1) * PageSize \in Int
    BY <1>1
  <2> QED BY <1>8, <2>2, <2>3
<1>9. ASSUME NEW p \in Nat, NEW q \in Nat, (p - 1) * PageSize < i, i <= p * PageSize,
             (q - 1) * PageSize < i, i <= q * PageSize
      PROVE  p = q
  <2>1. ~ (p < q) /\ ~ (q < p)
    BY <1>8, <1>9
  <2>2. p \in Nat /\ q \in Nat
    OBVIOUS
  <2> QED BY <2>1, <2>2, SMTT(30)
<1>10. \E p \in 1..all : (p - 1) * PageSize < i /\ i <= p * PageSize
  BY <1>7
<1>11. \A p, q \in Nat : (p - 1) * PageSize < i /\ i <= p * PageSize
                            /\ (q - 1) * PageSize < i /\ i <= q * PageSize => p = q
  BY <1>9
<1>12. \E p \in 1..Browse!total_pages(n) : (p - 1) * PageSize < i /\ i <= p * PageSize
  BY <1>3, <1>10
<1> QED BY <1>11, <1>12, Zenon

\* The next page.
LEMMA NextPageIs ==
  ASSUME NEW n \in Nat, NEW p \in 1..Browse!total_pages(n), Browse!BrowseAssumption
  PROVE  Browse!has_next(n, p) <=> p < Browse!total_pages(n)
<1> DEFINE all == (n + PageSize - 1) \div PageSize
<1>1. PageSize \in Nat /\ PageSize > 0
  BY DEF Browse!BrowseAssumption
<1>2. CASE n = 0
  <2>1. Browse!total_pages(n) = 1
    BY <1>2 DEF Browse!total_pages
  <2>2. p = 1 /\ ~ (1 * PageSize < 0)
    BY <1>1, <2>1
  <2> QED BY <1>2, <2>1, <2>2 DEF Browse!has_next
<1>3. CASE n # 0
  <2>1. Browse!total_pages(n) = all
    BY <1>3 DEF Browse!total_pages
  <2>2. all \in Nat /\ all * PageSize <= n + PageSize - 1 /\ n + PageSize - 1 < (all + 1) * PageSize
    <3>1. n + PageSize - 1 \in Nat
      BY <1>1
    <3>2. \A a \in Nat : /\ (a \div PageSize) \in Nat /\ (a \div PageSize) * PageSize <= a
                          /\ a < ((a \div PageSize) + 1) * PageSize
      BY <1>1
    <3> QED BY <3>1, <3>2
  <2> HIDE DEF all
  <2>3. p \in Nat /\ p <= all
    BY <2>1, <2>2
  <2>4. (all + 1) * PageSize = all * PageSize + PageSize /\ all * PageSize \in Nat /\ p * PageSize \in Nat
    BY <1>1, <2>2, <2>3
  <2>5. CASE p = all
    BY <1>1, <2>1, <2>2, <2>4, <2>5 DEF Browse!has_next
  <2>6. CASE p < all
    <3>1. (all - 1 - p) * PageSize >= 0
      <4>1. all - 1 - p \in Nat
        BY <2>2, <2>3, <2>6
      <4> QED BY <1>1, <4>1
    <3>2. (all - 1 - p) * PageSize = all * PageSize - PageSize - p * PageSize
      BY <1>1, <2>2, <2>3
    <3>3. p * PageSize < n
      BY <1>1, <2>2, <2>4, <3>1, <3>2
    <3> QED BY <2>1, <2>6, <3>3 DEF Browse!has_next
  <2> QED BY <2>2, <2>3, <2>5, <2>6
<1> QED BY <1>2, <1>3

-----------------------------------------------------------------------------
(* The artist browser.                                                     *)

\* The names in it are finitely many.
LEMMA ArtistsAre ==
  ASSUME NEW cat, Browse!IsCatalogue(cat), NEW f
  PROVE  /\ Browse!Artists(cat, f) \in SUBSET Nat /\ IsFiniteSet(Browse!Artists(cat, f))
         /\ Cardinality(Browse!Artists(cat, f)) \in Nat
<1> DEFINE full == Browse!Full(cat, f)
<1>1. \A t \in full : cat[t].artist \in Nat
  BY ListedAre
<1>2. IsFiniteSet(full)
  BY ListedAre, TokensAreFinite
<1> HIDE DEF full
<1>3. [t \in full |-> cat[t].artist] \in Surjection(full, {cat[t].artist : t \in full})
  BY DEF Surjection
<1>4. IsFiniteSet({cat[t].artist : t \in full})
  BY <1>2, <1>3, FS_Surjection
<1> QED BY <1>1, <1>4, FS_CardinalityType DEF Browse!Artists, full

\* The card of an artist at a place.
LEMMA CardIs ==
  ASSUME NEW cat, Browse!IsCatalogue(cat), NEW f
  PROVE  /\ DOMAIN Browse!artists(cat, f) = 1..Cardinality(Browse!Artists(cat, f))
         /\ Len(Browse!artists(cat, f)) = Cardinality(Browse!Artists(cat, f))
         /\ \A i \in DOMAIN Browse!artists(cat, f) :
               Browse!artists(cat, f)[i]
                  = Browse!ArtistCard(cat, f, Browse!Nth(Browse!Artists(cat, f), i))
<1> DEFINE n == Cardinality(Browse!Artists(cat, f))
           card(i) == Browse!ArtistCard(cat, f, Browse!Nth(Browse!Artists(cat, f), i))
<1>1. n \in Nat
  BY ArtistsAre
<1>2. Browse!artists(cat, f) = [i \in 1..n |-> card(i)]
  BY BrowseCount DEF Browse!artists
<1> HIDE DEF n, card
<1>3. Len([i \in 1..n |-> card(i)]) = n
  BY <1>1
<1> QED BY <1>2, <1>3 DEF n, card

\* The pressings of an artist that the filters let through.
OwnOf(cat, f, artist) == {t \in Browse!Full(cat, f) : cat[t].artist = artist}

\* How many pressings a card says.
LEMMA SizeOfCard ==
  ASSUME NEW cat, NEW f, NEW artist
  PROVE  /\ Browse!ArtistCard(cat, f, artist).name = artist
         /\ Browse!ArtistCard(cat, f, artist).pressing_count = Cardinality(OwnOf(cat, f, artist))
BY BrowseCount DEF Browse!ArtistCard, OwnOf

\* What else it says.
LEMMA CountsOfCard ==
  ASSUME NEW cat, NEW f, NEW artist
  PROVE  LET card == Browse!ArtistCard(cat, f, artist)
             years == {cat[t].year : t \in OwnOf(cat, f, artist)} \ {None}
         IN /\ card.name = artist /\ card.pressing_count = Cardinality(OwnOf(cat, f, artist))
            /\ card.vinyl_count = Cardinality({t \in OwnOf(cat, f, artist) : cat[t].format = "vinyl"})
            /\ card.cd_count = Cardinality({t \in OwnOf(cat, f, artist) : cat[t].format = "cd"})
            /\ card.years = {y \in years : \A z \in years : y <= z}
                              \cup {y \in years : \A z \in years : y >= z}
BY BrowseCount DEF Browse!ArtistCard, OwnOf

\* Two sets without a common element.
LEMMA Disjoint ==
  ASSUME NEW S, NEW T, IsFiniteSet(S), IsFiniteSet(T), S \cap T = {}
  PROVE  Cardinality(S \cup T) = Cardinality(S) + Cardinality(T)
<1>1. Cardinality(S \cap T) = 0
  BY FS_EmptySet
<1>2. Cardinality(S) \in Nat /\ Cardinality(T) \in Nat
  BY FS_CardinalityType
<1>3. Cardinality(S \cup T) = Cardinality(S) + Cardinality(T) - Cardinality(S \cap T)
  BY FS_Union
<1> QED BY <1>1, <1>2, <1>3

\* The recursive function that adds up the cards.
LEMMA CountedIs ==
  ASSUME NEW N \in Nat, NEW count, \A k \in 1..N : count[k] \in Nat
  PROVE  \E counted \in [0..N -> Nat] :
            /\ counted = [k \in 0..N |-> IF k = 0 THEN 0 ELSE counted[k - 1] + count[k]]
<1> DEFINE step == [p \in (1..N) \X Nat |-> p[2] + count[p[1]]]
<1>1. step \in Steps(N, Nat)
  <2>1. \A p \in (1..N) \X Nat : p[2] + count[p[1]] \in Nat
    OBVIOUS
  <2> QED BY <2>1 DEF Steps
<1>2. PICK g \in [0..N -> Nat] : IsWalk(g, N, 0, step)
  BY <1>1, StepsExist
<1>3. ASSUME NEW k \in 0..N PROVE g[k] = IF k = 0 THEN 0 ELSE g[k - 1] + count[k]
  <2>1. g[k] = IF k = 0 THEN 0 ELSE step[<<k, g[k - 1]>>]
    BY <1>2, Zenon DEF IsWalk
  <2>2. CASE k # 0
    <3>1. k \in 1..N /\ k - 1 \in 0..N
      BY <2>2
    <3>2. g[k - 1] \in Nat
      BY <1>2, <3>1
    <3>3. step[<<k, g[k - 1]>>] = g[k - 1] + count[k]
      BY <3>1, <3>2
    <3> QED BY <2>1, <2>2, <3>3
  <2> QED BY <2>1, <2>2
<1>4. g = [k \in 0..N |-> IF k = 0 THEN 0 ELSE g[k - 1] + count[k]]
  BY <1>2, <1>3
<1> QED BY <1>2, <1>4

\* The tokens of the artists at the first places.
FirstOnes(cat, f, k) ==
    {t \in Browse!Full(cat, f) : Rank(Browse!Artists(cat, f), cat[t].artist) <= k}

\* Each card adds its own.
LEMMA CardsAddUp ==
  ASSUME NEW cat, Browse!IsCatalogue(cat), NEW f
  PROVE  LET names == Browse!Artists(cat, f)
             own(k) == OwnOf(cat, f, Browse!Nth(names, k))
         IN /\ Cardinality(FirstOnes(cat, f, 0)) = 0
            /\ \A k \in 1..Cardinality(names) :
                  /\ Cardinality(own(k)) \in Nat
                  /\ Cardinality(FirstOnes(cat, f, k))
                       = Cardinality(FirstOnes(cat, f, k - 1)) + Cardinality(own(k))
            /\ FirstOnes(cat, f, Cardinality(names)) = Browse!Full(cat, f)
<1> DEFINE names == Browse!Artists(cat, f)
           own(k) == OwnOf(cat, f, Browse!Nth(names, k))
           Place(t) == Rank(names, cat[t].artist)
<1>1. names \in SUBSET Nat /\ IsFiniteSet(names) /\ Cardinality(names) \in Nat
  BY ArtistsAre
<1>2. \A t \in Browse!Full(cat, f) : cat[t].artist \in names
  BY DEF Browse!Artists
<1> HIDE DEF names
<1>8. \A a, b \in names : Rank(names, a) = Rank(names, b) => a = b
  BY <1>1, RankDiffers
<1>3. \A t \in Browse!Full(cat, f) : Place(t) \in 1..Cardinality(names)
  <2> SUFFICES ASSUME NEW t \in Browse!Full(cat, f) PROVE Place(t) \in 1..Cardinality(names)
    OBVIOUS
  <2>1. cat[t].artist \in names /\ cat[t].artist \in Nat
    BY <1>1, <1>2
  <2> QED BY <1>1, <2>1, RankIs
<1>4. \A S \in SUBSET Browse!Full(cat, f) : IsFiniteSet(S) /\ Cardinality(S) \in Nat
  BY ListedAre, TokensAreFinite
<1>5. Cardinality(FirstOnes(cat, f, 0)) = 0
  <2>1. FirstOnes(cat, f, 0) = {}
    <3> SUFFICES ASSUME NEW t \in Browse!Full(cat, f) PROVE ~ (Place(t) <= 0)
      BY DEF FirstOnes, names
    <3> HIDE DEF Place
    <3> QED BY <1>1, <1>3
  <2> QED BY <2>1, FS_EmptySet
<1>6. FirstOnes(cat, f, Cardinality(names)) = Browse!Full(cat, f)
  <2> SUFFICES ASSUME NEW t \in Browse!Full(cat, f) PROVE Place(t) <= Cardinality(names)
    BY DEF FirstOnes, names
  <2> HIDE DEF Place
  <2> QED BY <1>1, <1>3
<1>7. ASSUME NEW k \in 1..Cardinality(names)
      PROVE  /\ Cardinality(own(k)) \in Nat
             /\ Cardinality(FirstOnes(cat, f, k))
                  = Cardinality(FirstOnes(cat, f, k - 1)) + Cardinality(own(k))
  <2>1. Browse!Nth(names, k) \in names /\ Rank(names, Browse!Nth(names, k)) = k
    BY <1>1, NthIs
  <2>2. \A t \in Browse!Full(cat, f) : cat[t].artist = Browse!Nth(names, k) <=> Place(t) = k
    <3> SUFFICES ASSUME NEW t \in Browse!Full(cat, f)
                 PROVE  cat[t].artist = Browse!Nth(names, k) <=> Place(t) = k
      OBVIOUS
    <3>1. cat[t].artist \in names
      BY <1>2
    <3>2. ASSUME Rank(names, cat[t].artist) = k PROVE cat[t].artist = Browse!Nth(names, k)
      <4>1. Rank(names, cat[t].artist) = Rank(names, Browse!Nth(names, k))
        BY <2>1, <3>2
      <4> QED BY <1>8, <2>1, <3>1, <4>1, Zenon
    <3> QED BY <2>1, <3>2
  <2>3. own(k) = {t \in Browse!Full(cat, f) : Place(t) = k}
    BY <2>2 DEF OwnOf
  <2>4. \A t \in Browse!Full(cat, f) : /\ Place(t) <= k <=> Place(t) <= k - 1 \/ Place(t) = k
                                      /\ ~ (Place(t) <= k - 1 /\ Place(t) = k)
    <3> SUFFICES ASSUME NEW t \in Browse!Full(cat, f)
                 PROVE  /\ Place(t) <= k <=> Place(t) <= k - 1 \/ Place(t) = k
                        /\ ~ (Place(t) <= k - 1 /\ Place(t) = k)
      OBVIOUS
    <3>1. Place(t) \in Nat /\ k \in Nat
      BY <1>1, <1>3
    <3> HIDE DEF Place
    <3> QED BY <3>1
  <2>5. FirstOnes(cat, f, k) = FirstOnes(cat, f, k - 1) \cup own(k)
    BY <2>3, <2>4 DEF FirstOnes, names
  <2>6. FirstOnes(cat, f, k - 1) \cap own(k) = {}
    BY <2>3, <2>4 DEF FirstOnes, names
  <2>7. own(k) \in SUBSET Browse!Full(cat, f) /\ FirstOnes(cat, f, k - 1) \in SUBSET Browse!Full(cat, f)
    BY DEF OwnOf, FirstOnes
  <2> HIDE DEF own
  <2> QED BY <1>4, <2>5, <2>6, <2>7, Disjoint
<1> QED BY <1>5, <1>6, <1>7 DEF names

\* Vinyl and compact discs are all there is.
LEMMA FormatsAddUp ==
  ASSUME NEW cat, Browse!IsCatalogue(cat), NEW f, NEW artist
  PROVE  LET card == Browse!ArtistCard(cat, f, artist)
         IN card.pressing_count = card.vinyl_count + card.cd_count
<1> DEFINE own == OwnOf(cat, f, artist)
           vinyl == {t \in own : cat[t].format = "vinyl"}
           cd == {t \in own : cat[t].format = "cd"}
<1>1. own \in SUBSET DOMAIN cat
  BY ListedAre DEF OwnOf
<1>2. own = vinyl \cup cd /\ vinyl \cap cd = {}
  BY <1>1, TokenIs
<1>3. IsFiniteSet(vinyl) /\ IsFiniteSet(cd)
  BY <1>1, TokensAreFinite
<1>4. Cardinality(own) = Cardinality(vinyl) + Cardinality(cd)
  <2> HIDE DEF vinyl, cd, own
  <2> QED BY <1>2, <1>3, Disjoint
<1> QED BY <1>4, CountsOfCard

\* The pages of the artist browser: each name is on one, and the cards add up.
LEMMA PagesAreRight ==
  ASSUME NEW cat, Browse!IsCatalogue(cat), NEW f, Browse!BrowseAssumption
  PROVE  Browse!PagesHold(cat, f)
<1> DEFINE list == Browse!artists(cat, f)
           names == Browse!Artists(cat, f)
           n == Len(list)
           pages == Browse!total_pages(n)
<1>1. /\ n = Cardinality(names) /\ n \in Nat /\ DOMAIN list = 1..n
      /\ names \in SUBSET Nat /\ IsFiniteSet(names)
      /\ \A i \in 1..n : list[i] = Browse!ArtistCard(cat, f, Browse!Nth(names, i))
  BY ArtistsAre, CardIs
<1> HIDE DEF list, names, n
<1>2. ASSUME NEW i \in 1..n, NEW j \in 1..n, list[i] = list[j] PROVE i = j
  <2>1. list[i].name = Browse!Nth(names, i) /\ list[j].name = Browse!Nth(names, j)
    BY <1>1, SizeOfCard
  <2>2. Rank(names, Browse!Nth(names, i)) = i /\ Rank(names, Browse!Nth(names, j)) = j
    BY <1>1, NthIs
  <2> QED BY <1>2, <2>1, <2>2
<1>3. ASSUME NEW i \in 1..n
      PROVE  Cardinality({p \in 1..pages : \E j \in Browse!Page(list, p) : list[j] = list[i]}) = 1
  <2> DEFINE shown == {p \in 1..pages : \E j \in Browse!Page(list, p) : list[j] = list[i]}
  <2>1. \A p : (\E j \in Browse!Page(list, p) : list[j] = list[i])
                  <=> (p - 1) * PageSize < i /\ i <= p * PageSize
    <3>1. \A p : Browse!Page(list, p) = {j \in 1..n : (p - 1) * PageSize < j /\ j <= p * PageSize}
      BY <1>1 DEF Browse!Page
    <3>2. \A j \in 1..n : list[j] = list[i] <=> j = i
      BY <1>2
    <3> QED BY <3>1, <3>2
  <2>2. PICK p \in 1..pages : (p - 1) * PageSize < i /\ i <= p * PageSize
    BY <1>1, PageOfPlace
  <2>3. \A q \in 1..pages : (q - 1) * PageSize < i /\ i <= q * PageSize => q = p
    <3>1. \A q, r \in Nat : (q - 1) * PageSize < i /\ i <= q * PageSize
                              /\ (r - 1) * PageSize < i /\ i <= r * PageSize => q = r
      BY <1>1, PageOfPlace
    <3>2. \A q \in 1..pages : q \in Nat
      OBVIOUS
    <3> HIDE DEF pages
    <3> QED BY <2>2, <3>1, <3>2, Zenon
  <2> HIDE DEF pages
  <2>4. shown = {p}
    BY <2>1, <2>2, <2>3
  <2> QED BY <2>4, FS_Singleton
<1>4. \A p \in 1..pages : Browse!has_next(n, p) <=> p < pages
  BY <1>1, NextPageIs
<1>5. \A i \in 1..n : list[i].pressing_count = list[i].vinyl_count + list[i].cd_count
  BY <1>1, FormatsAddUp
<1> DEFINE counted == CHOOSE g : g = [k \in 0..n |-> IF k = 0 THEN 0
                                                      ELSE g[k - 1] + list[k].pressing_count]
<1>6. counted[n] = Cardinality(Browse!Full(cat, f))
  <2> DEFINE count == [k \in 1..n |-> list[k].pressing_count]
             good == {k \in 0..n : counted[k] = Cardinality(FirstOnes(cat, f, k))}
  <2>1. \A k \in 1..n : /\ count[k] \in Nat
                        /\ Cardinality(FirstOnes(cat, f, k))
                             = Cardinality(FirstOnes(cat, f, k - 1)) + list[k].pressing_count
    <3> SUFFICES ASSUME NEW k \in 1..n
                 PROVE  /\ list[k].pressing_count \in Nat
                        /\ Cardinality(FirstOnes(cat, f, k))
                             = Cardinality(FirstOnes(cat, f, k - 1)) + list[k].pressing_count
      OBVIOUS
    <3>1. list[k].pressing_count = Cardinality(OwnOf(cat, f, Browse!Nth(names, k)))
      BY <1>1, SizeOfCard
    <3> QED BY <1>1, <3>1, CardsAddUp DEF names
  <2>2. PICK g \in [0..n -> Nat] :
           g = [k \in 0..n |-> IF k = 0 THEN 0 ELSE g[k - 1] + count[k]]
    BY <1>1, <2>1, CountedIs
  <2>3. g = [k \in 0..n |-> IF k = 0 THEN 0 ELSE g[k - 1] + list[k].pressing_count]
    <3>1. \A k \in 0..n : k # 0 => count[k] = list[k].pressing_count
      BY <1>1
    <3> HIDE DEF count
    <3> QED BY <2>2, <3>1
  <2>4. counted = [k \in 0..n |-> IF k = 0 THEN 0 ELSE counted[k - 1] + list[k].pressing_count]
    BY <2>3, Zenon
  <2> HIDE DEF counted
  <2>5. counted[0] = Cardinality(FirstOnes(cat, f, 0))
    <3>1. counted[0] = 0
      BY <1>1, <2>4
    <3> QED BY <3>1, CardsAddUp
  <2>6. ASSUME NEW k \in 1..n, counted[k - 1] = Cardinality(FirstOnes(cat, f, k - 1))
        PROVE  counted[k] = Cardinality(FirstOnes(cat, f, k))
    <3>1. k \in 0..n /\ k # 0
      BY <1>1
    <3>2. counted[k] = counted[k - 1] + list[k].pressing_count
      BY <2>4, <3>1
    <3> QED BY <2>1, <2>6, <3>2
  <2> DEFINE each == [k \in 0..n |-> k]
  <2>7. \A k \in 0..n : each[k] \in good
    <3>1. each[0] \in good
      BY <1>1, <2>5
    <3>2. \A k \in 1..n : each[k - 1] \in good => each[k] \in good
      <4> SUFFICES ASSUME NEW k \in 1..n, each[k - 1] \in good PROVE each[k] \in good
        OBVIOUS
      <4>1. each[k - 1] = k - 1 /\ each[k] = k /\ k \in 0..n
        BY <1>1
      <4> HIDE DEF each
      <4> QED BY <2>6, <4>1
    <3> HIDE DEF good, each
    <3> QED BY <1>1, <3>1, <3>2, StepsStay
  <2>8. n \in good
    <3>1. each[n] = n /\ n \in 0..n
      BY <1>1
    <3> HIDE DEF good, each
    <3> QED BY <2>7, <3>1
  <2> QED BY <1>1, <2>8, CardsAddUp DEF names
<1> HIDE DEF counted, pages
<1> QED BY <1>3, <1>4, <1>5, <1>6, BrowseCount, Zenon DEF Browse!PagesHold, list, n, pages, counted

\* The pages are counted.
LEMMA PagesAre ==
  ASSUME NEW n \in Nat, Browse!BrowseAssumption
  PROVE  Browse!total_pages(n) \in Int
<1>1. n + PageSize - 1 \in Int /\ PageSize \in Int /\ PageSize > 0
  BY DEF Browse!BrowseAssumption
<1>2. ((n + PageSize - 1) \div PageSize) \in Int
  BY <1>1
<1> QED BY <1>2 DEF Browse!total_pages

-----------------------------------------------------------------------------
(* Orders of pressings.                                                    *)

\* An order has every element at one place.
LEMMA OrdersAre ==
  ASSUME NEW S, IsFiniteSet(S), NEW s \in Browse!SetToSeqs(S)
  PROVE  /\ s \in [1..Cardinality(S) -> S] /\ Cardinality(S) \in Nat
         /\ \A i, j \in 1..Cardinality(S) : s[i] = s[j] => i = j
         /\ \A x \in S : \E i \in 1..Cardinality(S) : s[i] = x
<1> DEFINE n == Cardinality(S)
<1>1. n \in Nat
  BY FS_CardinalityType
<1>2. s \in [1..n -> S] /\ \A i, j \in 1..n : s[i] = s[j] => i = j
  BY BrowseCount DEF Browse!SetToSeqs
<1>3. s \in Injection(1..n, S)
  BY <1>2 DEF Injection, IsInjective
<1>4. Cardinality(1..n) = n
  BY <1>1, FS_Interval
<1>5. s \in Surjection(1..n, S)
  BY <1>3, <1>4, FS_Injection
<1> QED BY <1>1, <1>2, <1>5 DEF Surjection

\* What is before an element is as much as its place says.
LEMMA PlaceIs ==
  ASSUME NEW S, IsFiniteSet(S), NEW s \in Browse!SetToSeqs(S), NEW k \in 1..Cardinality(S)
  PROVE  Cardinality({s[i] : i \in 1..(k - 1)}) = k - 1
<1> DEFINE n == Cardinality(S)
           before == {s[i] : i \in 1..(k - 1)}
           g == [i \in 1..(k - 1) |-> s[i]]
<1>1. /\ s \in [1..n -> S] /\ n \in Nat /\ k - 1 \in Nat
      /\ \A i, j \in 1..n : s[i] = s[j] => i = j
  BY OrdersAre
<1>2. \A i \in 1..(k - 1) : i \in 1..n
  BY <1>1
<1>3. g \in Bijection(1..(k - 1), before)
  BY <1>1, <1>2 DEF Bijection, Injection, Surjection, IsInjective
<1>4. ExistsBijection(1..(k - 1), before)
  BY <1>3 DEF ExistsBijection
<1> QED BY <1>1, <1>4, FS_CountingElements

\* The order of pressings.
UpToPressing(cat, a, b) ==
    \/ cat[a].artist < cat[b].artist
    \/ /\ cat[a].artist = cat[b].artist
       /\ cat[b].title = None \/ (cat[a].title # None /\ cat[a].title <= cat[b].title)

\* A pressing that shares its artist and title with no other is on one page in every order.
LEMMA PressingsAreRight ==
  ASSUME NEW cat, Browse!IsCatalogue(cat), NEW f, Browse!BrowseAssumption
  PROVE  Browse!PressingsHold(cat, f)
<1> DEFINE set == Browse!Pressings(cat, f)
           pages == Browse!total_pages(Cardinality(set))
           before(t) == {u \in set \ {t} : UpToPressing(cat, u, t)}
<1>1. set \in SUBSET DOMAIN cat /\ IsFiniteSet(set) /\ Cardinality(set) \in Nat
  BY ListedAre, TokensAreFinite
<1>2. \A t \in set : cat[t].artist \in Nat /\ cat[t].title \in Nat \cup {None}
  BY <1>1, ListedAre, TokenIs
<1>3. None \notin Int
  BY DEF Browse!BrowseAssumption
<1> HIDE DEF set
<1> SUFFICES ASSUME NEW t \in set,
                    \A u \in set \ {t} : <<cat[u].artist, cat[u].title>> # <<cat[t].artist, cat[t].title>>
             PROVE  \E p \in 1..pages : \A order \in Browse!Orders(cat, set) :
                       \E i \in Browse!Page(order, p) : order[i] = t
  BY BrowseCount DEF Browse!PressingsHold, set
<1>4. ASSUME NEW u \in set \ {t}, UpToPressing(cat, u, t) PROVE ~ UpToPressing(cat, t, u)
  <2>1. /\ cat[u].artist \in Nat /\ cat[u].title \in Nat \cup {None}
        /\ cat[t].artist \in Nat /\ cat[t].title \in Nat \cup {None}
    BY <1>2
  <2>2. ~ (cat[u].artist = cat[t].artist /\ cat[u].title = cat[t].title)
    OBVIOUS
  <2>3. UpToPressing(cat, u, t) /\ u \in set /\ None \notin Nat
    BY <1>3, <1>4
  <2> QED BY <2>1, <2>2, <2>3 DEF UpToPressing
<1> DEFINE k == Cardinality(before(t)) + 1
<1>5. ASSUME NEW order \in Browse!Orders(cat, set)
      PROVE  k \in 1..Cardinality(set) /\ order[k] = t /\ DOMAIN order = 1..Cardinality(set)
  <2>1. /\ order \in Browse!SetToSeqs(set)
        /\ \A i, j \in DOMAIN order : i < j => UpToPressing(cat, order[i], order[j])
    BY DEF Browse!Orders, UpToPressing
  <2>2. /\ order \in [1..Cardinality(set) -> set]
        /\ \A i, j \in 1..Cardinality(set) : order[i] = order[j] => i = j
        /\ \A x \in set : \E i \in 1..Cardinality(set) : order[i] = x
    BY <1>1, <2>1, OrdersAre
  <2>3. PICK m \in 1..Cardinality(set) : order[m] = t
    BY <2>2
  <2>4. before(t) = {order[i] : i \in 1..(m - 1)}
    <3>1. ASSUME NEW u \in before(t) PROVE \E i \in 1..(m - 1) : u = order[i]
      <4>1. PICK i \in 1..Cardinality(set) : order[i] = u
        BY <2>2
      <4>2. i # m
        BY <2>3, <4>1
      <4>3. ~ (m < i)
        <5> SUFFICES ASSUME m < i PROVE FALSE
          OBVIOUS
        <5>1. UpToPressing(cat, t, u)
          BY <2>1, <2>2, <2>3, <4>1
        <5> QED BY <1>4, <5>1
      <4>4. i \in 1..(m - 1)
        BY <1>1, <4>2, <4>3
      <4> QED BY <4>1, <4>4
    <3>2. ASSUME NEW i \in 1..(m - 1) PROVE order[i] \in before(t)
      <4>1. i \in 1..Cardinality(set) /\ i < m /\ i # m
        BY <1>1
      <4>2. order[i] \in set /\ order[i] # t
        BY <2>2, <2>3, <4>1
      <4>3. UpToPressing(cat, order[i], t)
        BY <2>1, <2>2, <2>3, <4>1
      <4> QED BY <4>2, <4>3
    <3> HIDE DEF before
    <3> QED BY <3>1, <3>2
  <2>5. Cardinality({order[i] : i \in 1..(m - 1)}) = m - 1
    BY <1>1, <2>1, PlaceIs
  <2>6. k = m
    <3>1. m \in Nat
      BY <1>1
    <3> HIDE DEF before
    <3> QED BY <2>4, <2>5, <3>1
  <2> QED BY <2>2, <2>3, <2>6
<1> HIDE DEF k, before
<1>6. CASE Browse!Orders(cat, set) = {}
  <2>1. 1 \in 1..pages
    <3>1. Cardinality(set) # 0
      BY <1>1, FS_EmptySet
    <3>2. 1 \in 1..Cardinality(set)
      BY <1>1, <3>1
    <3>3. PICK p \in 1..pages : (p - 1) * PageSize < 1 /\ 1 <= p * PageSize
      BY <1>1, <3>2, PageOfPlace
    <3>4. pages \in Int
      BY <1>1, PagesAre
    <3> HIDE DEF pages
    <3> QED BY <3>3, <3>4
  <2> QED BY <1>6, <2>1
<1>7. CASE Browse!Orders(cat, set) # {}
  <2>1. k \in 1..Cardinality(set)
    BY <1>5, <1>7
  <2>2. PICK p \in 1..pages : (p - 1) * PageSize < k /\ k <= p * PageSize
    BY <1>1, <2>1, PageOfPlace
  <2>3. \A order \in Browse!Orders(cat, set) : k \in Browse!Page(order, p) /\ order[k] = t
    BY <1>5, <2>1, <2>2 DEF Browse!Page
  <2> QED BY <2>3
<1> QED BY <1>6, <1>7

-----------------------------------------------------------------------------
(* The dashboard and the grid of artists.                                  *)

\* The filters that choose nothing.
AllOf(f) == [f EXCEPT !.q = [stripped |-> None, typed |-> None],
                      !.fmt = None, !.from = None, !.to = None]

\* They let every token with an artist through.
LEMMA AllAreFull ==
  ASSUME NEW cat, NEW f, Browse!IsFilter(f)
  PROVE  Browse!Full(cat, AllOf(f)) = Browse!Named(cat)
<1>1. /\ AllOf(f).q.typed = None /\ AllOf(f).fmt = None
      /\ AllOf(f).from = None /\ AllOf(f).to = None
  BY DEF AllOf, Browse!IsFilter
<1> QED BY <1>1 DEF Browse!Full, Browse!InYears, Browse!Found, Browse!InFormat

\* No token is twice on the dashboard, and its figures are those of the other lists.
LEMMA DashboardIsRight ==
  ASSUME NEW cat, Browse!IsCatalogue(cat), NEW f, Browse!IsFilter(f), Browse!BrowseAssumption
  PROVE  Browse!DashboardHolds(cat, AllOf(f))
<1> DEFINE recent == Browse!recent(cat)
<1>1. ASSUME NEW d \in Browse!Dashboards(cat), NEW t \in Browse!Live(cat)
      PROVE  Cardinality({g \in DOMAIN d.carousels : t \in d.carousels[g]})
                + (IF t \in d.recent THEN 1 ELSE 0) + (IF t \in d.top_rated THEN 1 ELSE 0) <= 1
  <2> DEFINE unseen == {u \in Browse!Live(cat) \ recent : cat[u].rating # None}
             stars == [u \in DOMAIN cat |-> cat[u].rating]
             first == {cat[u].genres[1] : u \in {v \in Browse!Live(cat) : cat[v].genres # <<>>}}
             shelf(rated, g) == {u \in Browse!Live(cat) \ (recent \cup rated) :
                                    cat[u].genres # <<>> /\ cat[u].genres[1] = g}
             on == {g \in DOMAIN d.carousels : t \in d.carousels[g]}
  <2>1. PICK rated \in Browse!TopOf(unseen, ShelfSize, stars) :
           d = [recent |-> recent, top_rated |-> rated, carousels |-> [g \in first |-> shelf(rated, g)]]
    BY DEF Browse!Dashboards
  <2>2. rated \in SUBSET unseen
    BY DEF Browse!TopOf
  <2> HIDE DEF first, stars
  <2>3. d.recent = recent /\ d.top_rated = rated /\ d.carousels = [g \in first |-> shelf(rated, g)]
    BY <2>1
  <2>4. ~ (t \in d.recent /\ t \in d.top_rated)
    BY <2>2, <2>3
  <2>5. on = {g \in first : t \in shelf(rated, g)}
    BY <2>3
  <2> SUFFICES Cardinality(on) + (IF t \in d.recent THEN 1 ELSE 0)
                + (IF t \in d.top_rated THEN 1 ELSE 0) <= 1
    OBVIOUS
  <2>6. CASE t \in d.recent \/ t \in d.top_rated
    <3>1. on = {}
      BY <2>3, <2>5, <2>6
    <3>2. Cardinality(on) = 0
      BY <3>1, FS_EmptySet
    <3> HIDE DEF on
    <3> QED BY <2>4, <3>2
  <2>7. CASE ~ (t \in d.recent \/ t \in d.top_rated)
    <3>1. on \in SUBSET {cat[t].genres[1]}
      BY <2>5
    <3>2. IsFiniteSet({cat[t].genres[1]}) /\ Cardinality({cat[t].genres[1]}) = 1
      BY FS_Singleton
    <3> HIDE DEF on
    <3>3. IsFiniteSet(on) /\ Cardinality(on) <= 1
      BY <3>1, <3>2, FS_Subset
    <3>4. Cardinality(on) \in Nat
      BY <3>3, FS_CardinalityType
    <3> QED BY <2>7, <3>3, <3>4
  <2> QED BY <2>6, <2>7
<1>2. Browse!stats(cat).total = Cardinality(Browse!token_list(cat, None, None))
  <2>1. Browse!token_list(cat, None, None) = Browse!Live(cat)
    BY DEF Browse!token_list, Browse!Found
  <2> QED BY <2>1, BrowseCount DEF Browse!stats
<1>3. Browse!stats(cat).vinyl = Cardinality(Browse!token_list(cat, None, "vinyl"))
  <2>1. None # "vinyl"
    BY DEF Browse!BrowseAssumption
  <2>2. Browse!token_list(cat, None, "vinyl") = {t \in Browse!Live(cat) : cat[t].format = "vinyl"}
    BY <2>1 DEF Browse!token_list, Browse!Found
  <2> QED BY <2>2, BrowseCount DEF Browse!stats
<1>4. Browse!stats(cat).artists = Len(Browse!artists(cat, AllOf(f)))
  <2>1. Browse!stats(cat).artists = Cardinality({cat[t].artist : t \in Browse!Named(cat)})
    BY BrowseCount DEF Browse!stats
  <2>2. Browse!Artists(cat, AllOf(f)) = {cat[t].artist : t \in Browse!Named(cat)}
    BY AllAreFull DEF Browse!Artists
  <2> QED BY <2>1, <2>2, CardIs
<1> QED BY <1>1, <1>2, <1>3, <1>4, BrowseCount, Zenon DEF Browse!DashboardHolds

\* What the grid says of an artist.
Years(cat, own) == {cat[t].year : t \in own} \ {None}
Ratings(cat, own) == {cat[t].rating : t \in own} \ {None}
Least(years) == {y \in years : \A z \in years : y <= z}
Greatest(years) == {y \in years : \A z \in years : y >= z}
By(cat, name) == {t \in Browse!Named(cat) : cat[t].artist = name}
CardOf(cat, name) ==
    [name |-> name, pressing_count |-> Cardinality(By(cat, name)),
     yr_min |-> Least(Years(cat, By(cat, name))), yr_max |-> Greatest(Years(cat, By(cat, name))),
     max_rating |-> Greatest(Ratings(cat, By(cat, name)))]
NamesOf(cat) == {cat[t].artist : t \in Browse!Named(cat)}

\* The grid has a card for each artist.
LEMMA GridIs ==
  ASSUME NEW cat
  PROVE  Browse!artists_index(cat, None) = {CardOf(cat, name) : name \in NamesOf(cat)}
BY BrowseCount DEF Browse!artists_index, CardOf, NamesOf, By, Years, Ratings, Least, Greatest

\* The years on a card.
LEMMA YearsOfCard ==
  ASSUME NEW cat, NEW f, NEW artist
  PROVE  Browse!ArtistCard(cat, f, artist).years
           = Least(Years(cat, OwnOf(cat, f, artist))) \cup Greatest(Years(cat, OwnOf(cat, f, artist)))
<1> DEFINE years == {cat[t].year : t \in {u \in Browse!Full(cat, f) : cat[u].artist = artist}} \ {None}
<1>1. Browse!ArtistCard(cat, f, artist).years
        = {y \in years : \A z \in years : y <= z} \cup {y \in years : \A z \in years : y >= z}
  BY DEF Browse!ArtistCard
<1>2. Years(cat, OwnOf(cat, f, artist)) = years
  BY DEF Years, OwnOf
<1> HIDE DEF years
<1> QED BY <1>1, <1>2 DEF Least, Greatest

\* The cards of the grid and of the browser say the same.
LEMMA CardsAgree ==
  ASSUME NEW cat, Browse!IsCatalogue(cat), NEW f, Browse!IsFilter(f)
  PROVE  {<<c.name, c.pressing_count, c.yr_min \cup c.yr_max>> : c \in Browse!artists_index(cat, None)}
           = {<<c.name, c.pressing_count, c.years>> :
                 c \in Browse!ToSet(Browse!artists(cat, AllOf(f)))}
<1> DEFINE list == Browse!artists(cat, AllOf(f))
           names == NamesOf(cat)
           said(name) == <<name, Cardinality(By(cat, name)),
                           Least(Years(cat, By(cat, name))) \cup Greatest(Years(cat, By(cat, name)))>>
           grid == Browse!artists_index(cat, None)
<1>1. names = Browse!Artists(cat, AllOf(f))
  BY AllAreFull DEF Browse!Artists, NamesOf
<1>2. /\ names \in SUBSET Nat /\ IsFiniteSet(names) /\ Cardinality(names) \in Nat
      /\ DOMAIN list = 1..Cardinality(names)
      /\ \A i \in DOMAIN list : list[i] = Browse!ArtistCard(cat, AllOf(f), Browse!Nth(names, i))
  BY <1>1, ArtistsAre, CardIs
<1> HIDE DEF list
<1>3. {<<c.name, c.pressing_count, c.yr_min \cup c.yr_max>> : c \in grid} = {said(name) : name \in names}
  <2>1. \A name : <<CardOf(cat, name).name, CardOf(cat, name).pressing_count,
                    CardOf(cat, name).yr_min \cup CardOf(cat, name).yr_max>> = said(name)
    BY DEF CardOf
  <2>2. grid = {CardOf(cat, name) : name \in names}
    BY GridIs
  <2> HIDE DEF said, grid, names
  <2> QED BY <2>1, <2>2
<1>4. \A name : LET c == Browse!ArtistCard(cat, AllOf(f), name)
                IN <<c.name, c.pressing_count, c.years>> = said(name)
  <2> TAKE name
  <2>1. OwnOf(cat, AllOf(f), name) = By(cat, name)
    BY AllAreFull DEF OwnOf, By
  <2> DEFINE c == Browse!ArtistCard(cat, AllOf(f), name)
             years == Years(cat, By(cat, name))
             own == OwnOf(cat, AllOf(f), name)
  <2>2. c.name = name /\ c.pressing_count = Cardinality(By(cat, name))
    <3>1. c.name = name /\ c.pressing_count = Cardinality(own)
      BY SizeOfCard
    <3> QED BY <2>1, <3>1
  <2>3. c.years = Least(years) \cup Greatest(years)
    <3>1. c.years = Least(Years(cat, own)) \cup Greatest(Years(cat, own))
      BY YearsOfCard
    <3> QED BY <2>1, <3>1
  <2> HIDE DEF c
  <2> QED BY <2>2, <2>3 DEF c
<1> HIDE DEF said, names
<1>5. \A i \in DOMAIN list : \E name \in names :
         list[i] = Browse!ArtistCard(cat, AllOf(f), name)
  BY <1>2, NthIs
<1>6. \A name \in names : \E i \in DOMAIN list :
         list[i] = Browse!ArtistCard(cat, AllOf(f), name)
  <2> SUFFICES ASSUME NEW name \in names
               PROVE  \E i \in DOMAIN list : list[i] = Browse!ArtistCard(cat, AllOf(f), name)
    OBVIOUS
  <2> DEFINE i == Rank(names, name)
  <2>1. name \in Nat
    BY <1>2
  <2>2. i \in 1..Cardinality(names)
    BY <1>2, <2>1, RankIs
  <2>3. Browse!Nth(names, i) \in names /\ Rank(names, Browse!Nth(names, i)) = i
    BY <1>2, <2>2, NthIs
  <2>5. Rank(names, Browse!Nth(names, i)) = Rank(names, name)
    BY <2>3
  <2> HIDE DEF i
  <2>4. Browse!Nth(names, i) = name
    BY <1>2, <2>3, <2>5, RankDiffers
  <2> QED BY <1>2, <2>2, <2>4
<1>7. {<<c.name, c.pressing_count, c.years>> : c \in Browse!ToSet(list)} = {said(name) : name \in names}
  <2>1. Browse!ToSet(list) = {Browse!ArtistCard(cat, AllOf(f), name) : name \in names}
    <3>1. Browse!ToSet(list) = {list[i] : i \in DOMAIN list}
      BY DEF Browse!ToSet
    <3> QED BY <1>5, <1>6, <3>1
  <2> QED BY <1>4, <2>1
<1> QED BY <1>3, <1>7 DEF list, grid

\* Two years of a list of pressings.
YearUpTo(a, b) == a = b \/ b = None \/ (a # None /\ a < b)

\* A list of the pressings of an artist.
LEMMA DetailIs ==
  ASSUME NEW cat, Browse!IsCatalogue(cat), NEW name, NEW list \in Browse!artist_detail(cat, name)
  PROVE  LET n == Cardinality(By(cat, name))
         IN /\ n \in Nat /\ list \in [1..n -> By(cat, name)] /\ Len(list) = n /\ DOMAIN list = 1..n
            /\ \A t \in By(cat, name) : \E i \in 1..n : list[i] = t
            /\ \A i, j \in 1..n : i < j => YearUpTo(cat[list[i]].year, cat[list[j]].year)
<1> DEFINE own == By(cat, name)
           n == Cardinality(own)
<1>1. own \in SUBSET DOMAIN cat
  BY ListedAre DEF By
<1>2. IsFiniteSet(own)
  BY <1>1, TokensAreFinite
<1>3. /\ list \in Browse!SetToSeqs(own)
      /\ \A i, j \in DOMAIN list : i < j => YearUpTo(cat[list[i]].year, cat[list[j]].year)
  BY DEF Browse!artist_detail, By, YearUpTo
<1> HIDE DEF own
<1>4. /\ list \in [1..n -> own] /\ n \in Nat /\ \A t \in own : \E i \in 1..n : list[i] = t
  BY <1>2, <1>3, OrdersAre
<1> HIDE DEF n
<1>5. DOMAIN list = 1..n
  BY <1>4
<1>6. Len(list) = n
  BY <1>4
<1> QED BY <1>3, <1>4, <1>5, <1>6 DEF n, own

\* The years on a card are those of the first pressing and of the last that has one.
LEMMA YearsAreRight ==
  ASSUME NEW cat, Browse!IsCatalogue(cat), Browse!BrowseAssumption, NEW name,
         NEW list \in Browse!artist_detail(cat, name),
         NEW last \in {i \in DOMAIN list : cat[list[i]].year # None},
         \A i \in {j \in DOMAIN list : cat[list[j]].year # None} : i <= last
  PROVE  /\ Least(Years(cat, By(cat, name))) = {cat[list[1]].year}
         /\ Greatest(Years(cat, By(cat, name))) = {cat[list[last]].year}
<1> DEFINE own == By(cat, name)
           n == Cardinality(own)
           year(i) == cat[list[i]].year
           years == Years(cat, own)
<1>1. /\ n \in Nat /\ list \in [1..n -> own] /\ DOMAIN list = 1..n
      /\ \A t \in own : \E i \in 1..n : list[i] = t
      /\ \A i, j \in 1..n : i < j => YearUpTo(year(i), year(j))
  BY DetailIs
<1>2. own \in SUBSET DOMAIN cat
  BY ListedAre DEF By
<1>3. None \notin Int
  BY DEF Browse!BrowseAssumption
<1> HIDE DEF own
<1>4. \A i \in 1..n : year(i) \in Nat \cup {None}
  <2> SUFFICES ASSUME NEW i \in 1..n PROVE year(i) \in Nat \cup {None}
    OBVIOUS
  <2>1. list[i] \in DOMAIN cat
    BY <1>1, <1>2
  <2> QED BY <2>1, TokenIs
<1> HIDE DEF n
<1>5. last \in 1..n /\ year(last) # None /\ \A i \in 1..n : year(i) # None => i <= last
  BY <1>1
<1>6. years = {year(i) : i \in {j \in 1..n : year(j) # None}}
  <2>1. ASSUME NEW y \in years PROVE \E i \in {j \in 1..n : year(j) # None} : y = year(i)
    <3>1. PICK t \in own : y = cat[t].year /\ y # None
      BY DEF Years
    <3>2. PICK i \in 1..n : list[i] = t
      BY <1>1
    <3> QED BY <3>1, <3>2
  <2>2. ASSUME NEW i \in 1..n, year(i) # None PROVE year(i) \in years
    <3>1. list[i] \in own
      BY <1>1
    <3> QED BY <2>2, <3>1 DEF Years
  <2> HIDE DEF years, year
  <2> QED BY <2>1, <2>2
<1> HIDE DEF years
<1> HIDE DEF year
<1>7. 1 \in 1..n /\ last >= 1 /\ n \in Int /\ last \in Int
  BY <1>1, <1>5
<1>8. year(1) # None
  <2>1. CASE last = 1
    BY <1>5, <2>1
  <2>2. CASE last # 1
    <3>1. YearUpTo(year(1), year(last))
      <4>1. 1 < last
        BY <1>7, <2>2
      <4> QED BY <1>1, <1>5, <1>7, <4>1
    <3> QED BY <1>5, <3>1 DEF YearUpTo
  <2> QED BY <2>1, <2>2
<1>9. \A i, j \in 1..n : i <= j /\ year(i) # None /\ year(j) # None => year(i) <= year(j)
  <2> SUFFICES ASSUME NEW i \in 1..n, NEW j \in 1..n, i <= j, year(i) # None, year(j) # None
               PROVE  year(i) <= year(j)
    OBVIOUS
  <2>1. year(i) \in Nat /\ year(j) \in Nat
    BY <1>4
  <2>2. CASE i = j
    BY <2>1, <2>2
  <2>3. CASE i # j
    <3>1. i < j
      BY <1>7, <2>3
    <3>2. YearUpTo(year(i), year(j))
      BY <1>1, <3>1
    <3> QED BY <2>1, <3>2 DEF YearUpTo
  <2> QED BY <2>2, <2>3
<1>10. /\ year(1) \in years /\ year(last) \in years
       /\ \A y \in years : y \in Nat /\ year(1) <= y /\ y <= year(last)
  <2>1. year(1) \in years /\ year(last) \in years
    BY <1>5, <1>6, <1>7, <1>8
  <2>2. ASSUME NEW y \in years PROVE y \in Nat /\ year(1) <= y /\ y <= year(last)
    <3>1. PICK i \in 1..n : year(i) # None /\ y = year(i)
      BY <1>6
    <3>2. 1 <= i /\ i <= last
      BY <1>5, <1>7, <3>1
    <3>3. year(i) \in Nat
      BY <1>4, <3>1
    <3>4. year(1) <= year(i) /\ year(i) <= year(last)
      BY <1>5, <1>7, <1>8, <1>9, <3>1, <3>2
    <3> QED BY <3>1, <3>3, <3>4
  <2> QED BY <2>1, <2>2
<1>11. Least(years) = {year(1)}
  <2> SUFFICES ASSUME NEW y \in years PROVE (\A z \in years : y <= z) <=> y = year(1)
    BY <1>10 DEF Least
  <2>1. y \in Nat /\ year(1) \in Nat /\ year(1) <= y
    BY <1>10
  <2>2. (\A z \in years : y <= z) => y <= year(1)
    BY <1>10
  <2> QED BY <1>10, <2>1, <2>2
<1>12. Greatest(years) = {year(last)}
  <2> SUFFICES ASSUME NEW y \in years PROVE (\A z \in years : y >= z) <=> y = year(last)
    BY <1>10 DEF Greatest
  <2>1. y \in Nat /\ year(last) \in Nat /\ y <= year(last)
    BY <1>10
  <2>2. (\A z \in years : y >= z) => y >= year(last)
    BY <1>10
  <2>3. y = year(last) => \A z \in years : y >= z
    <3> SUFFICES ASSUME y = year(last), NEW z \in years PROVE y >= z
      OBVIOUS
    <3>1. z \in Nat /\ z <= year(last)
      BY <1>10
    <3> QED BY <2>1, <3>1
  <2> QED BY <2>1, <2>2, <2>3
<1> QED BY <1>11, <1>12 DEF year, years, own

\* The best rating of an artist is on the card.
LEMMA RatingIsRight ==
  ASSUME NEW cat, Browse!IsCatalogue(cat), NEW name, NEW t \in By(cat, name), cat[t].rating # None
  PROVE  \E r \in Greatest(Ratings(cat, By(cat, name))) : r >= cat[t].rating
<1> DEFINE own == By(cat, name)
           ratings == Ratings(cat, own)
           rated == {u \in own : cat[u].rating # None}
<1>1. own \in SUBSET DOMAIN cat
  BY ListedAre DEF By
<1>2. IsFiniteSet(rated)
  BY <1>1, TokensAreFinite
<1>3. \A u \in rated : cat[u].rating \in Nat
  BY <1>1, TokenIs
<1>4. ratings = {cat[u].rating : u \in rated}
  BY DEF Ratings
<1> HIDE DEF ratings
<1>5. cat[t].rating \in ratings
  BY <1>4
<1> HIDE DEF rated
<1>6. [u \in rated |-> cat[u].rating] \in Surjection(rated, ratings)
  BY <1>4 DEF Surjection
<1>7. IsFiniteSet(ratings)
  BY <1>2, <1>6, FS_Surjection
<1>8. ratings \in SUBSET Nat
  BY <1>3, <1>4
<1>9. PICK r \in ratings : \A s \in ratings : s <= r
  BY <1>5, <1>7, <1>8, GreatestNumber
<1>10. r \in Nat /\ \A s \in ratings : r >= s
  <2>1. r \in Nat
    BY <1>8, <1>9
  <2> SUFFICES ASSUME NEW s \in ratings PROVE r >= s
    BY <2>1
  <2>2. s \in Nat /\ s <= r
    BY <1>8, <1>9
  <2> QED BY <2>1, <2>2
<1>11. r \in Greatest(ratings)
  BY <1>9, <1>10 DEF Greatest
<1> QED BY <1>5, <1>10, <1>11 DEF ratings

\* The grid agrees with the browser, and its cards with what is behind them.
LEMMA GridIsRight ==
  ASSUME NEW cat, Browse!IsCatalogue(cat), NEW f, Browse!IsFilter(f), Browse!BrowseAssumption
  PROVE  Browse!GridHolds(cat, AllOf(f))
<1> DEFINE grid == Browse!artists_index(cat, None)
<1>1. ASSUME NEW card \in grid, NEW list \in Browse!artist_detail(cat, card.name)
      PROVE  LET dated == {i \in DOMAIN list : cat[list[i]].year # None}
             IN /\ Len(list) = card.pressing_count
                /\ \A last \in dated : (\A i \in dated : i <= last) =>
                      /\ card.yr_min = {cat[list[1]].year}
                      /\ card.yr_max = {cat[list[last]].year}
                /\ \A t \in Browse!ToSet(list) : cat[t].rating # None =>
                      \E r \in card.max_rating : r >= cat[t].rating
  <2> DEFINE dated == {i \in DOMAIN list : cat[list[i]].year # None}
  <2>1. PICK name \in NamesOf(cat) : card = CardOf(cat, name)
    BY GridIs
  <2>2. /\ card.name = name /\ card.pressing_count = Cardinality(By(cat, name))
        /\ card.yr_min = Least(Years(cat, By(cat, name)))
        /\ card.yr_max = Greatest(Years(cat, By(cat, name)))
        /\ card.max_rating = Greatest(Ratings(cat, By(cat, name)))
    BY <2>1 DEF CardOf
  <2>3. list \in Browse!artist_detail(cat, name)
    BY <2>2
  <2>4. Len(list) = card.pressing_count
    BY <2>2, <2>3, DetailIs
  <2>5. ASSUME NEW last \in dated, \A i \in dated : i <= last
        PROVE  card.yr_min = {cat[list[1]].year} /\ card.yr_max = {cat[list[last]].year}
    BY <2>2, <2>3, <2>5, YearsAreRight
  <2>6. ASSUME NEW t \in Browse!ToSet(list), cat[t].rating # None
        PROVE  \E r \in card.max_rating : r >= cat[t].rating
    <3>1. t \in By(cat, name)
      <4>1. list \in [1..Cardinality(By(cat, name)) -> By(cat, name)]
        BY <2>3, DetailIs
      <4> QED BY <4>1 DEF Browse!ToSet
    <3> QED BY <2>2, <2>6, <3>1, RatingIsRight
  <2> QED BY <2>4, <2>5, <2>6
<1> HIDE DEF grid
<1> QED BY <1>1, CardsAgree, Zenon DEF Browse!GridHolds, grid

\* All lists of a catalogue.
LEMMA ListsAreRight ==
  ASSUME NEW cat, Browse!IsCatalogue(cat), NEW f, Browse!IsFilter(f), Browse!BrowseAssumption
  PROVE  Browse!ListsAgree(cat, f)
<1>1. Browse!FacetsHold(cat, f) /\ Browse!PagesHold(cat, f) /\ Browse!PressingsHold(cat, f)
  BY FacetsAreRight, PagesAreRight, PressingsAreRight
<1>2. Browse!DrillDownHolds(cat)
  BY DrillDownIsRight
<1>3. Browse!DashboardHolds(cat, AllOf(f)) /\ Browse!GridHolds(cat, AllOf(f))
  BY DashboardIsRight, GridIsRight
<1>4. f.q.stripped # None => Browse!SearchHolds(cat, f.q.stripped)
  BY SearchIsRight DEF Browse!IsFilter
<1> QED BY <1>1, <1>2, <1>3, <1>4 DEF Browse!ListsAgree, AllOf

-----------------------------------------------------------------------------
(* The form for a new token, and the scan of a cover.                      *)

\* Releases counts as this module does.
LEMMA ReleasesCount == \A S : Releases!Cardinality(S) = Cardinality(S)
BY DEF Releases!Cardinality, Cardinality
\* So do its finite sets.
LEMMA ReleasesFinite == \A S : Releases!IsFiniteSet(S) = IsFiniteSet(S)
BY DEF Releases!IsFiniteSet, IsFiniteSet

\* A live token has the release.
Taken(catalogue, r) == \E t \in DOMAIN catalogue : ~ catalogue[t].deleted /\ catalogue[t].release = r

\* The form that is filled in with a release.
LEMMA FilledIs ==
  ASSUME NEW catalogue, NEW sources, NEW r
  PROVE  LET form == Releases!FilledIn(catalogue, sources, r)
             shown == sources.up /\ r \in DOMAIN sources.has
             same == Releases!Duplicates(catalogue, r)
         IN /\ form.results = {}
            /\ form.prefill = IF shown THEN r ELSE None
            /\ form.fails <=> (shown /\ Cardinality(same) > 1)
            /\ shown => form.duplicate = IF same = {} THEN None ELSE CHOOSE t \in same : TRUE
<1> DEFINE form == Releases!FilledIn(catalogue, sources, r)
           shown == sources.up /\ r \in DOMAIN sources.has
           same == Releases!Duplicates(catalogue, r)
           other == IF same = {} THEN None ELSE CHOOSE t \in same : TRUE
           more == Cardinality(same) > 1
<1>1. CASE shown
  <2>1. form = [Releases!EmptyForm EXCEPT !.prefill = r, !.error = FALSE,
                                          !.duplicate = other, !.fails = more]
    BY <1>1, ReleasesCount DEF Releases!FilledIn
  <2>2. form.results = {} /\ form.prefill = r /\ form.fails = more /\ form.duplicate = other
    <3> HIDE DEF form, other, more
    <3> QED BY <2>1 DEF Releases!EmptyForm
  <2> HIDE DEF form, other
  <2> QED BY <1>1, <2>2 DEF form, other
<1>2. CASE ~ shown
  <2>1. form = Releases!EmptyForm
    BY <1>2 DEF Releases!FilledIn
  <2>2. form.results = {} /\ form.prefill = None /\ form.fails = FALSE
    <3> HIDE DEF form
    <3> QED BY <2>1 DEF Releases!EmptyForm
  <2> HIDE DEF form
  <2> QED BY <1>2, <2>2 DEF form
<1> QED BY <1>1, <1>2

\* The form with the results of a search.
LEMMA ListedIs ==
  ASSUME NEW catalogue, NEW sources, NEW hits
  PROVE  /\ Releases!Listed(catalogue, sources, hits).prefill = None
         /\ Releases!Listed(catalogue, sources, hits).fails = FALSE
BY DEF Releases!Listed, Releases!EmptyForm
\* Each of what was found is among the results.
LEMMA ResultsAre ==
  ASSUME NEW catalogue, NEW sources, NEW hits
  PROVE  Releases!Listed(catalogue, sources, hits).results
           = {[release |-> r, in_catalogue |-> Releases!Duplicates(catalogue, r) # {}] : r \in hits}
BY DEF Releases!Listed, Releases!EmptyForm

\* The tokens of a release.
LEMMA DuplicatesAre ==
  ASSUME NEW catalogue, Releases!IsShelf(catalogue), NEW r
  PROVE  /\ Releases!Duplicates(catalogue, r) # {} <=> Taken(catalogue, r)
         /\ Releases!Duplicates(catalogue, r) \in SUBSET DOMAIN catalogue
         /\ Cardinality(Releases!Duplicates(catalogue, r)) > 1 =>
               \E s, t \in DOMAIN catalogue : /\ s # t /\ ~ catalogue[s].deleted /\ ~ catalogue[t].deleted
                                             /\ {catalogue[s].release, catalogue[t].release} = {r}
<1> DEFINE same == Releases!Duplicates(catalogue, r)
<1>1. /\ same # {} <=> Taken(catalogue, r)
      /\ \A t \in same : t \in DOMAIN catalogue /\ ~ catalogue[t].deleted /\ catalogue[t].release = r
  BY DEF Releases!Duplicates, Taken
<1> HIDE DEF same
<1>2. ASSUME Cardinality(same) > 1 PROVE \E s, t \in same : s # t
  <2>1. same # {}
    BY <1>2, FS_EmptySet
  <2>2. PICK s \in same : TRUE
    BY <2>1
  <2>3. same # {s}
    <3>1. Cardinality({s}) = 1
      BY FS_Singleton
    <3> QED BY <1>2, <3>1
  <2> QED BY <2>2, <2>3
<1>3. ASSUME NEW s \in same, NEW t \in same, s # t
      PROVE  /\ s \in DOMAIN catalogue /\ t \in DOMAIN catalogue
             /\ s # t /\ ~ catalogue[s].deleted /\ ~ catalogue[t].deleted
             /\ {catalogue[s].release, catalogue[t].release} = {r}
  BY <1>1, <1>3
<1> QED BY <1>1, <1>2, <1>3 DEF same

\* The form that is filled in says what is in the catalogue.
LEMMA FilledHolds ==
  ASSUME NEW catalogue, Releases!IsShelf(catalogue), NEW sources, NEW r
  PROVE  LET form == Releases!FilledIn(catalogue, sources, r)
         IN /\ form.fails =>
                 \E s, t \in DOMAIN catalogue :
                                               /\ s # t /\ ~ catalogue[s].deleted /\ ~ catalogue[t].deleted
                                               /\ {catalogue[s].release, catalogue[t].release} = {r}
            /\ form.prefill # None => (form.duplicate # None <=> Taken(catalogue, form.prefill))
<1> DEFINE form == Releases!FilledIn(catalogue, sources, r)
           shown == sources.up /\ r \in DOMAIN sources.has
           same == Releases!Duplicates(catalogue, r)
<1>1. /\ form.prefill = IF shown THEN r ELSE None
      /\ form.fails <=> (shown /\ Cardinality(same) > 1)
      /\ shown => form.duplicate = IF same = {} THEN None ELSE CHOOSE t \in same : TRUE
  BY FilledIs
<1>2. /\ same # {} <=> Taken(catalogue, r)
      /\ same \in SUBSET DOMAIN catalogue
      /\ Cardinality(same) > 1 =>
               \E s, t \in DOMAIN catalogue : /\ s # t /\ ~ catalogue[s].deleted /\ ~ catalogue[t].deleted
                                             /\ {catalogue[s].release, catalogue[t].release} = {r}
  BY DuplicatesAre
<1>3. None \notin DOMAIN catalogue
  BY DEF Releases!IsShelf
<1> HIDE DEF form, same, shown
<1>4. ASSUME form.prefill # None PROVE form.duplicate # None <=> Taken(catalogue, form.prefill)
  <2>1. shown /\ form.prefill = r
    BY <1>1, <1>4
  <2>2. same # {} => (CHOOSE t \in same : TRUE) \in same
    OBVIOUS
  <2>3. same # {} => (CHOOSE t \in same : TRUE) # None
    BY <1>2, <1>3, <2>2
  <2> QED BY <1>1, <1>2, <2>1, <2>3
<1> QED BY <1>1, <1>2, <1>4 DEF form

\* A form lists what was found.
LEMMA ShownAre ==
  ASSUME NEW catalogue, NEW sources, NEW page
  PROVE  {hit.release : hit \in Releases!Listed(catalogue, sources, page).results} = page
<1> DEFINE marked(r) == [release |-> r, in_catalogue |-> Releases!Duplicates(catalogue, r) # {}]
           results == Releases!Listed(catalogue, sources, page).results
<1>1. results = {marked(r) : r \in page}
  BY ResultsAre
<1>2. \A r \in page : marked(r).release = r
  OBVIOUS
<1> HIDE DEF marked, results
<1>3. {hit.release : hit \in results} = page
  BY <1>1, <1>2
<1> QED BY <1>3 DEF results

\* An answer is as much of what there is as is asked for.
LEMMA AnswersAre ==
  ASSUME NEW hits, IsFiniteSet(hits), NEW limit \in Nat, NEW page \in Releases!Answers(hits, limit)
  PROVE  /\ page \in SUBSET hits /\ IsFiniteSet(page) /\ Cardinality(hits) \in Nat
         /\ Cardinality(page) = Cut(Cardinality(hits), limit)
BY ReleasesCount, FS_Subset, FS_CardinalityType DEF Releases!Answers, Cut

\* A barcode is answered with the releases that have it.
LEMMA BarcodeIs ==
  ASSUME NEW sources, Releases!IsSources(sources), Releases!ReleasesAssumption, NEW barcode,
         NEW page \in Releases!_discogs_barcode_search(sources, barcode)
  PROVE  LET matches == Releases!Carrying(sources, barcode)
         IN /\ page \in SUBSET matches /\ IsFiniteSet(page) /\ IsFiniteSet(matches)
            /\ sources.up => Cardinality(page) = Cut(Cardinality(matches), PerPage)
            /\ ~ sources.up => page = {}
<1> DEFINE matches == Releases!Carrying(sources, barcode)
           reached == {r \in DOMAIN sources.has : /\ sources.up /\ sources.has[r].of = "discogs"
                                                /\ sources.has[r].barcode = barcode}
<1>1. /\ matches \in SUBSET DOMAIN sources.has /\ reached \in SUBSET matches
      /\ sources.up => reached = matches
      /\ ~ sources.up => reached = {}
  BY DEF Releases!Carrying
<1>2. IsFiniteSet(matches) /\ IsFiniteSet(reached) /\ PerPage \in Nat
  BY <1>1, ReleasesFinite, FS_Subset DEF Releases!IsSources, Releases!ReleasesAssumption
<1>3. page \in Releases!Answers(reached, PerPage)
  BY DEF Releases!_discogs_barcode_search
<1> HIDE DEF matches, reached
<1>4. page \in SUBSET reached /\ IsFiniteSet(page) /\ Cardinality(page) = Cut(Cardinality(reached), PerPage)
  BY <1>2, <1>3, AnswersAre
<1> QED BY <1>1, <1>2, <1>4 DEF matches

\* What a form says of the results that it lists.
LEMMA ListedHolds ==
  ASSUME NEW catalogue, Releases!IsShelf(catalogue), NEW sources, NEW page
  PROVE  LET form == Releases!Listed(catalogue, sources, page)
         IN /\ form.prefill = None /\ ~ form.fails
            /\ \A hit \in form.results : hit.in_catalogue <=> Taken(catalogue, hit.release)
<1> DEFINE form == Releases!Listed(catalogue, sources, page)
<1>1. form.prefill = None /\ form.fails = FALSE
  BY ListedIs
<1>2. form.results =
         {[release |-> r, in_catalogue |-> Releases!Duplicates(catalogue, r) # {}] : r \in page}
  BY ResultsAre
<1> HIDE DEF form
<1>3. ASSUME NEW hit \in form.results PROVE hit.in_catalogue <=> Taken(catalogue, hit.release)
  <2>1. PICK r \in page : hit = [release |-> r, in_catalogue |-> Releases!Duplicates(catalogue, r) # {}]
    BY <1>2
  <2>2. hit.release = r /\ (hit.in_catalogue <=> Releases!Duplicates(catalogue, r) # {})
    BY <2>1
  <2>3. Releases!Duplicates(catalogue, r) # {} <=> Taken(catalogue, r)
    BY DuplicatesAre
  <2> QED BY <2>2, <2>3
<1> QED BY <1>1, <1>3 DEF form

\* What is asked of each form for what is typed.
FormIsSound(catalogue, sources, entry, form) ==
    LET Shown == {hit.release : hit \in form.results}
        number == entry.kind = "number" /\ entry.digits \notin Releases!BarcodeDigits
        matches == Releases!Carrying(sources, entry.is)
    IN /\ form.fails =>
             \E s, t \in DOMAIN catalogue : /\ s # t /\ ~ catalogue[s].deleted /\ ~ catalogue[t].deleted
                                           /\ {catalogue[s].release, catalogue[t].release} = {entry.is}
       /\ form.prefill # None /\ ~ form.fails => (form.duplicate # None <=> Taken(catalogue, form.prefill))
       /\ \A hit \in form.results : hit.in_catalogue <=> Taken(catalogue, hit.release)
       /\ sources.up /\ entry.is \in DOMAIN sources.has /\ (entry.kind = "uuid" \/ number) =>
             form.prefill = entry.is
       /\ sources.up /\ entry.kind = "number" /\ ~ number /\ matches # {} =>
             /\ form.prefill = None /\ Shown \subseteq matches
             /\ Cardinality(Shown) = Cut(Cardinality(matches), PerPage)

\* What is typed is one of three things, and the forms for it are these.
LEMMA FormsAre ==
  ASSUME NEW catalogue, NEW sources, NEW from, NEW entry, Releases!IsTyped(entry)
  PROVE  LET forms == Releases!token_new_form(catalogue, sources, from, entry)
             barcode == entry.kind = "number" /\ entry.digits \in Releases!BarcodeDigits
             number == \/ entry.kind = "uuid"
                       \/ entry.kind = "number" /\ entry.digits \notin Releases!BarcodeDigits
         IN /\ number => forms = {Releases!FilledIn(catalogue, sources, entry.is)}
            /\ barcode => \A form \in forms :
                  \E exact \in Releases!_discogs_barcode_search(sources, entry.is) : \E page :
                     /\ form = Releases!Listed(catalogue, sources, page)
                     /\ exact # {} => page = exact
            /\ ~ number /\ ~ barcode =>
                  forms = {Releases!Listed(catalogue, sources, page) :
                              page \in Releases!_text_search(sources, from, entry.is, entry.limit)}
<1> DEFINE barcode == entry.kind = "number" /\ entry.digits \in Releases!BarcodeDigits
           number == \/ entry.kind = "uuid"
                     \/ entry.kind = "number" /\ entry.digits \notin Releases!BarcodeDigits
           OfText(of) == Releases!_text_search(sources, of, entry.is, entry.limit)
           OfBarcode == UNION {IF exact # {} THEN {exact} ELSE OfText("discogs") :
                                  exact \in Releases!_discogs_barcode_search(sources, entry.is)}
           forms == Releases!token_new_form(catalogue, sources, from, entry)
<1>1. /\ number => Releases!Resolved(entry) \in {"discogs_id", "mb_id"}
      /\ barcode => Releases!Resolved(entry) = "barcode"
      /\ ~ number /\ ~ barcode => Releases!Resolved(entry) = "text"
  BY DEF Releases!Resolved, Releases!IsTyped
<1>2. /\ number => forms = {Releases!FilledIn(catalogue, sources, entry.is)}
      /\ barcode => forms = {Releases!Listed(catalogue, sources, page) : page \in OfBarcode}
      /\ ~ number /\ ~ barcode =>
            forms = {Releases!Listed(catalogue, sources, page) : page \in OfText(from)}
  <2> HIDE DEF number, barcode, OfText
  <2> QED BY <1>1 DEF Releases!token_new_form, OfText
<1>3. ASSUME NEW page \in OfBarcode
      PROVE  \E exact \in Releases!_discogs_barcode_search(sources, entry.is) : exact # {} => page = exact
  OBVIOUS
<1> HIDE DEF forms, OfBarcode, number, barcode
<1>4. ASSUME barcode, NEW form \in forms
      PROVE  \E exact \in Releases!_discogs_barcode_search(sources, entry.is) : \E page :
                /\ form = Releases!Listed(catalogue, sources, page)
                /\ exact # {} => page = exact
  <2>1. PICK page \in OfBarcode : form = Releases!Listed(catalogue, sources, page)
    BY <1>2, <1>4
  <2> QED BY <1>3, <2>1
<1> QED BY <1>2, <1>4 DEF forms, number, barcode

\* The form finds what is typed and says what is in the catalogue (catalogue.py:1004).
LEMMA FormIsRight ==
  ASSUME NEW catalogue, Releases!IsShelf(catalogue), NEW sources, Releases!IsSources(sources),
         NEW from, NEW entry, Releases!IsTyped(entry), Releases!ReleasesAssumption
  PROVE  Releases!FormHolds(catalogue, sources, from, entry)
<1> DEFINE forms == Releases!token_new_form(catalogue, sources, from, entry)
           barcode == entry.kind = "number" /\ entry.digits \in Releases!BarcodeDigits
           number == \/ entry.kind = "uuid"
                     \/ entry.kind = "number" /\ entry.digits \notin Releases!BarcodeDigits
           texts == Releases!_text_search(sources, from, entry.is, entry.limit)
           matches == Releases!Carrying(sources, entry.is)
<1>1. /\ number => forms = {Releases!FilledIn(catalogue, sources, entry.is)}
      /\ ~ number /\ ~ barcode =>
            forms = {Releases!Listed(catalogue, sources, page) : page \in texts}
  BY FormsAre
<1>2. barcode => \A form \in forms :
         \E exact \in Releases!_discogs_barcode_search(sources, entry.is) : \E page :
            form = Releases!Listed(catalogue, sources, page) /\ (exact # {} => page = exact)
  BY FormsAre
<1>3. ~ (number /\ barcode)
  OBVIOUS
<1> HIDE DEF forms, texts
<1>4. ASSUME NEW form \in forms PROVE FormIsSound(catalogue, sources, entry, form)
  <2>1. CASE number
    <3> DEFINE filled == Releases!FilledIn(catalogue, sources, entry.is)
    <3>1. form = filled /\ ~ barcode
      BY <1>1, <1>3, <2>1
    <3>2. /\ filled.results = {}
          /\ filled.prefill = IF sources.up /\ entry.is \in DOMAIN sources.has THEN entry.is ELSE None
      BY FilledIs, Zenon
    <3>3. /\ filled.fails =>
               \E s, t \in DOMAIN catalogue : /\ s # t /\ ~ catalogue[s].deleted /\ ~ catalogue[t].deleted
                                             /\ {catalogue[s].release, catalogue[t].release} = {entry.is}
          /\ filled.prefill # None => (filled.duplicate # None <=> Taken(catalogue, filled.prefill))
      BY FilledHolds
    <3> HIDE DEF filled, number
    <3> QED BY <3>1, <3>2, <3>3 DEF FormIsSound
  <2>2. CASE ~ number
    <3>1. PICK page : form = Releases!Listed(catalogue, sources, page)
      <4> HIDE DEF number, barcode
      <4> QED BY <1>1, <1>2, <2>2
    <3>2. /\ form.prefill = None /\ ~ form.fails
          /\ \A hit \in form.results : hit.in_catalogue <=> Taken(catalogue, hit.release)
      BY <3>1, ListedHolds
    <3>3. ASSUME sources.up, barcode, matches # {}
          PROVE  /\ {hit.release : hit \in form.results} \subseteq matches
                 /\ Cardinality({hit.release : hit \in form.results}) = Cut(Cardinality(matches), PerPage)
      <4>1. PICK exact \in Releases!_discogs_barcode_search(sources, entry.is) :
               \E other : form = Releases!Listed(catalogue, sources, other) /\ (exact # {} => other = exact)
        BY <1>2, <3>3
      <4>2. /\ exact \in SUBSET matches /\ IsFiniteSet(matches)
            /\ Cardinality(exact) = Cut(Cardinality(matches), PerPage)
        BY <3>3, BarcodeIs
      <4> HIDE DEF matches
      <4>3. exact # {}
        <5>1. Cardinality(matches) \in Nat \ {0}
          BY <3>3, <4>2, FS_CardinalityType, FS_EmptySet
        <5>2. Cardinality(exact) # 0
          BY <4>2, <5>1 DEF Cut, Releases!ReleasesAssumption
        <5> QED BY <5>2, FS_EmptySet
      <4>4. form = Releases!Listed(catalogue, sources, exact)
        BY <4>1, <4>3
      <4>5. {hit.release : hit \in form.results} = exact
        BY <4>4, ShownAre
      <4> QED BY <4>2, <4>5
    <3> QED BY <2>2, <3>2, <3>3 DEF FormIsSound
  <2> QED BY <2>1, <2>2
<1>5. ASSUME entry.kind = "text"
      PROVE  {{hit.release : hit \in form.results} : form \in forms}
                = {search.results : search \in Releases!catalogue_search(sources, from, entry)}
  <2>1. forms = {Releases!Listed(catalogue, sources, page) : page \in texts}
    BY <1>1, <1>5
  <2>2. {{hit.release : hit \in form.results} : form \in forms} = texts
    <3> DEFINE Shown(form) == {hit.release : hit \in form.results}
               Made(page) == Releases!Listed(catalogue, sources, page)
    <3>1. \A page : Shown(Made(page)) = page
      BY ShownAre
    <3> HIDE DEF Shown, Made
    <3>2. {Shown(form) : form \in {Made(page) : page \in texts}} = texts
      BY <3>1
    <3> QED BY <2>1, <3>2 DEF Shown, Made
  <2>3. {search.results : search \in Releases!catalogue_search(sources, from, entry)} = texts
    <3> DEFINE Page(page) == [results |-> page, error |-> ~ sources.up]
    <3>1. Releases!catalogue_search(sources, from, entry) = {Page(page) : page \in texts}
      BY DEF Releases!catalogue_search, texts
    <3>2. \A page : Page(page).results = page
      OBVIOUS
    <3> HIDE DEF Page
    <3> QED BY <3>1, <3>2
  <2> QED BY <2>2, <2>3
<1> QED BY <1>4, <1>5, ReleasesCount DEF Releases!FormHolds, FormIsSound, Taken, Cut, forms

\* A scan fills in the one release that has the barcode (catalogue.py:1623).
LEMMA ScanIsRight ==
  ASSUME NEW catalogue, NEW sources, Releases!IsSources(sources),
         NEW barcode, Releases!IsScanned(barcode), Releases!ReleasesAssumption
  PROVE  Releases!ScanHolds(catalogue, sources, barcode)
<1> DEFINE matches == Releases!Carrying(sources, barcode.is)
           other == barcode.kind = "number" /\ barcode.digits \notin Releases!BarcodeDigits
<1> SUFFICES ASSUME NEW form \in Releases!scan_cover(catalogue, sources, barcode)
             PROVE  /\ sources.up /\ barcode.readable /\ Cardinality(matches) = 1 => form.prefill \in matches
                    /\ form.prefill # None => matches = {form.prefill} \/ other
  BY ReleasesCount DEF Releases!ScanHolds
<1>1. CASE ~ barcode.readable
  <2>1. form.prefill = None
    BY <1>1 DEF Releases!scan_cover, Releases!EmptyForm
  <2> QED BY <1>1, <2>1
<1>2. CASE barcode.readable
  <2> DEFINE entry == [kind |-> barcode.kind, digits |-> barcode.digits, is |-> barcode.is,
                       limit |-> PerPage]
  <2>1. PICK hits \in Releases!_discogs_barcode_search(sources, barcode.is) :
           form \in IF Cardinality(hits) = 1
                    THEN {Releases!FilledIn(catalogue, sources, CHOOSE r \in hits : TRUE)}
                    ELSE Releases!token_new_form(catalogue, sources, "discogs", entry)
    BY <1>2, ReleasesCount DEF Releases!scan_cover
  <2>2. /\ hits \in SUBSET matches /\ IsFiniteSet(hits) /\ IsFiniteSet(matches)
        /\ sources.up => Cardinality(hits) = Cut(Cardinality(matches), PerPage)
        /\ ~ sources.up => hits = {}
    BY BarcodeIs
  <2>3. Cardinality(matches) \in Nat /\ PerPage \in Nat /\ PerPage >= 2
    BY <2>2, FS_CardinalityType DEF Releases!ReleasesAssumption
  <2>4. matches \in SUBSET DOMAIN sources.has
    BY DEF Releases!Carrying
  <2> HIDE DEF matches, entry
  <2>5. CASE Cardinality(hits) = 1
    <3>1. PICK r : hits = {r}
      BY <2>2, <2>5, FS_Singleton
    <3>2. sources.up
      BY <2>2, <3>1 DEF Releases!IsSources
    <3>3. Cardinality(matches) = 1
      BY <2>2, <2>3, <2>5, <3>2 DEF Cut
    <3>4. matches = {r}
      BY <2>2, <2>5, <3>1, <3>3, FS_Subset
    <3>5. form = Releases!FilledIn(catalogue, sources, r)
      BY <2>1, <2>5, <3>1
    <3>6. form.prefill = r
      <4>1. Releases!FilledIn(catalogue, sources, r).prefill
              = IF sources.up /\ r \in DOMAIN sources.has THEN r ELSE None
        BY FilledIs, Zenon
      <4>2. r \in DOMAIN sources.has
        BY <2>4, <3>4
      <4> QED BY <3>2, <3>5, <4>1, <4>2
    <3> QED BY <3>4, <3>6
  <2>6. CASE Cardinality(hits) # 1
    <3>1. form \in Releases!token_new_form(catalogue, sources, "discogs", entry)
      BY <2>1, <2>6
    <3>2. ~ (sources.up /\ Cardinality(matches) = 1)
      BY <2>2, <2>3, <2>6 DEF Cut
    <3>3. ASSUME ~ other PROVE form.prefill = None
      <4>1. Releases!Resolved(entry) \in {"barcode", "text"}
        BY <3>3 DEF Releases!Resolved, Releases!IsScanned, entry
      <4>2. \E page : form = Releases!Listed(catalogue, sources, page)
        BY <3>1, <4>1 DEF Releases!token_new_form
      <4> QED BY <4>2, ListedIs
    <3> QED BY <3>2, <3>3
  <2> QED BY <2>5, <2>6
<1> QED BY <1>1, <1>2

-----------------------------------------------------------------------------
(* Where a biography comes from.                                           *)

\* The length of a text in the limit.
Capped(n) == IF n < BIO_MAX_CHARS THEN n ELSE BIO_MAX_CHARS

\* A biography of a text, from a source, about an artist.
IsBio(bio, n, said, who, image) ==
    /\ bio \in Biography!Bios /\ bio # None /\ bio.found = TRUE
    /\ bio.text = Capped(n) /\ bio.source = said /\ bio.about = who /\ bio.image = image
\* What is made of a text is one.
LEMMA BioIs ==
  ASSUME Biography!BiographyAssumption, NEW n \in Nat, NEW said \in Biography!BioSources,
         NEW who \in {"this", "other"}, NEW image \in STRING \cup {None}
  PROVE  IsBio(Biography!Bio(n, said, who, image), n, said, who, image)
<1> DEFINE bio == Biography!Bio(n, said, who, image)
<1>1. bio = [text |-> Capped(n), source |-> said, about |-> who, image |-> image, found |-> TRUE]
  BY DEF Biography!Bio, Capped
<1>2. Capped(n) \in Nat
  BY DEF Capped, Biography!BiographyAssumption
<1>3. bio \in Biography!Bios
  BY <1>1, <1>2 DEF Biography!Bios
<1>4. bio # None
  BY <1>3 DEF Biography!BiographyAssumption
<1> HIDE DEF Capped
<1>5. bio.found = TRUE /\ bio.text = Capped(n) /\ bio.source = said /\ bio.about = who /\ bio.image = image
  BY <1>1
<1> HIDE DEF bio
<1>6. IsBio(bio, n, said, who, image)
  BY <1>3, <1>4, <1>5 DEF IsBio
<1> QED BY <1>6 DEF bio

\* The least of some numbers.
LEMMA FirstIs ==
  ASSUME NEW S \in SUBSET Nat, S # {}
  PROVE  Biography!First(S) \in S
BY LeastNumber DEF Biography!First

\* What a page and a profile are.
LEMMA WorldIs ==
  ASSUME NEW w, Biography!IsWorld(w)
  PROVE  /\ w.hits \in Seq(DOMAIN w.pages) /\ w.sitelink \in DOMAIN w.pages \cup {None}
         /\ \A title \in DOMAIN w.pages :
               /\ title \in STRING /\ w.pages[title].text \in Nat
               /\ w.pages[title].about \in {"this", "other"} /\ w.pages[title].image \in STRING \cup {None}
         /\ \A id \in DOMAIN w.profiles :
               /\ id \in STRING /\ w.profiles[id].text \in Nat /\ w.profiles[id].sentences \in Nat
               /\ w.profiles[id].about \in {"this", "other"} /\ w.profiles[id].image \in STRING \cup {None}
         /\ \A url \in DOMAIN w.homes : w.homes[url].summary \in Nat
BY DEF Biography!IsWorld

\* The page that MusicBrainz has.
LEMMA LinksAre ==
  ASSUME NEW w, Biography!IsWorld(w)
  PROVE  /\ Biography!musicbrainz_links(w).mbid <=> w.links # None
         /\ Biography!musicbrainz_links(w).wp_title \in DOMAIN w.pages \cup {None}
<1> DEFINE links == Biography!musicbrainz_links(w)
           relations == IF w.links = None THEN <<>> ELSE w.links
           Of(kind) == {i \in DOMAIN relations : relations[i].kind = kind}
<1>1. /\ links.mbid <=> w.links # None
      /\ links.wp_title = IF Of("wikipedia") # {} THEN relations[Biography!First(Of("wikipedia"))].to
                          ELSE IF Of("wikidata") # {} THEN w.sitelink ELSE None
  BY DEF Biography!musicbrainz_links
<1>2. \A i \in Of("wikipedia") : relations[i].to \in DOMAIN w.pages
  BY DEF Biography!IsWorld
<1>3. Of("wikipedia") \in SUBSET Nat
  <2>1. DOMAIN relations \in SUBSET Nat
    BY DEF Biography!IsWorld
  <2> HIDE DEF relations
  <2> QED BY <2>1
<1>4. w.sitelink \in DOMAIN w.pages \cup {None}
  BY WorldIs
<1> HIDE DEF links, Of, relations
<1>5. Of("wikipedia") # {} => Biography!First(Of("wikipedia")) \in Of("wikipedia")
  BY <1>3, FirstIs
<1> QED BY <1>1, <1>2, <1>4, <1>5 DEF links

\* There is a page, and it has a summary.
Readable(w, title) == title # None /\ w.pages[title].kind = "standard"

IsPageBio(w, title, said, bio) ==
    IF w.pages[title].kind # "standard" THEN bio = None
    ELSE IsBio(bio, w.pages[title].text, said, w.pages[title].about, w.pages[title].image)
\* What is made of a page.
LEMMA PageBioIs ==
  ASSUME Biography!BiographyAssumption, NEW w, Biography!IsWorld(w), NEW title \in DOMAIN w.pages,
         NEW said \in Biography!BioSources
  PROVE  IsPageBio(w, title, said, Biography!_wikipedia_bio(w, title, said))
<1> DEFINE page == w.pages[title]
           n == page.text
           who == page.about
           image == page.image
           bio == Biography!_wikipedia_bio(w, title, said)
<1>1. n \in Nat /\ who \in {"this", "other"} /\ image \in STRING \cup {None}
  BY WorldIs
<1>2. bio = IF page.kind # "standard" THEN None ELSE Biography!Bio(n, said, who, image)
  BY DEF Biography!_wikipedia_bio
<1> HIDE DEF n, who, image
<1>3. IsBio(Biography!Bio(n, said, who, image), n, said, who, image)
  BY <1>1, BioIs, Zenon
<1> HIDE DEF bio, page
<1>4. IF page.kind # "standard" THEN bio = None ELSE IsBio(bio, n, said, who, image)
  BY <1>2, <1>3
<1>5. IsPageBio(w, title, said, bio)
  BY <1>4, Zenon DEF IsPageBio, page, n, who, image
<1> QED BY <1>5 DEF bio

\* A page that is taken from a search.
Passes(w, title) ==
    /\ w.pages[title].named /\ ~ w.pages[title].meta
    /\ w.pages[title].kind = "standard" /\ w.pages[title].music
    /\ (w.llm => w.verdict[title] # FALSE)

\* The first page of the search that passes.
LEMMA HitIs ==
  ASSUME Biography!BiographyAssumption, NEW w, Biography!IsWorld(w)
  PROVE  LET bio == Biography!_verified_search_hit(w)
         IN \/ bio = None /\ \A i \in DOMAIN w.hits : ~ Passes(w, w.hits[i])
            \/ \E i \in DOMAIN w.hits :
                  /\ Passes(w, w.hits[i]) /\ bio \in Biography!Bios /\ bio # None
                  /\ bio.source = "Wikipedia search"
                  /\ bio.about = w.pages[w.hits[i]].about /\ bio.found = TRUE
<1> DEFINE bio == Biography!_verified_search_hit(w)
           passed == {i \in DOMAIN w.hits : Passes(w, w.hits[i])}
           first == Biography!First(passed)
<1>1. bio = IF passed = {} THEN None
            ELSE Biography!_wikipedia_bio(w, w.hits[first], "Wikipedia search")
  BY DEF Biography!_verified_search_hit, Passes
<1>2. w.hits \in Seq(DOMAIN w.pages)
  BY WorldIs
<1>3. passed \in SUBSET Nat /\ \A i \in passed : w.hits[i] \in DOMAIN w.pages
  BY <1>2
<1> HIDE DEF bio
<1>4. CASE passed = {}
  BY <1>1, <1>4 DEF bio
<1>5. CASE passed # {}
  <2>1. first \in passed
    BY <1>3, <1>5, FirstIs
  <2> DEFINE title == w.hits[first]
  <2>2. title \in DOMAIN w.pages /\ Passes(w, title) /\ first \in DOMAIN w.hits
    BY <1>3, <2>1
  <2>3. bio = Biography!_wikipedia_bio(w, title, "Wikipedia search")
    BY <1>1, <1>5
  <2> HIDE DEF title
  <2>4. w.pages[title].kind = "standard"
    BY <2>2 DEF Passes
  <2>6. "Wikipedia search" \in Biography!BioSources
    BY DEF Biography!BioSources
  <2>7. IsPageBio(w, title, "Wikipedia search", bio)
    BY <2>2, <2>3, <2>6, PageBioIs, Zenon
  <2>5. /\ bio \in Biography!Bios /\ bio # None /\ bio.source = "Wikipedia search"
        /\ bio.about = w.pages[title].about /\ bio.found = TRUE
    BY <2>4, <2>7, Zenon DEF IsPageBio, IsBio
  <2> HIDE DEF first, passed
  <2> QED BY <2>2, <2>5 DEF bio, title
<1> QED BY <1>4, <1>5

\* A profile that is long enough to be a biography.
Real(w, id) ==
    /\ id \in DOMAIN w.profiles /\ w.profiles[id].text >= DISCOGS_MIN_CHARS
    /\ w.profiles[id].sentences >= DISCOGS_MIN_SENTENCES

\* The profile on Discogs.
LEMMA ProfileIs ==
  ASSUME Biography!BiographyAssumption, NEW w, Biography!IsWorld(w), NEW linked
  PROVE  LET profile == Biography!fetch_discogs_profile(w, linked)
             id == IF linked # None THEN linked ELSE w.exact
         IN IF Real(w, id)
            THEN /\ profile.bio \in Biography!Bios /\ profile.bio # None /\ profile.state = "ok"
                 /\ profile.bio.source = "Discogs" /\ profile.bio.about = w.profiles[id].about
                 /\ profile.bio.found = TRUE
            ELSE /\ profile.bio = None /\ profile.state \in {"missing", "no_bio"}
                 /\ profile.state = "no_bio" => id \in DOMAIN w.profiles
<1> DEFINE id == IF linked # None THEN linked ELSE w.exact
           profile == Biography!fetch_discogs_profile(w, linked)
           known == w.profiles[id]
           n == known.text
           who == known.about
           image == known.image
<1>1. profile = IF id = None \/ id \notin DOMAIN w.profiles THEN [bio |-> None, state |-> "missing"]
                ELSE IF known.text < DISCOGS_MIN_CHARS \/ known.sentences < DISCOGS_MIN_SENTENCES
                     THEN [bio |-> None, state |-> "no_bio"]
                ELSE [bio |-> Biography!Bio(n, "Discogs", who, image), state |-> "ok"]
  BY DEF Biography!fetch_discogs_profile
<1>2. \A x \in DOMAIN w.profiles :
         /\ x # None /\ w.profiles[x].text \in Nat /\ w.profiles[x].sentences \in Nat
         /\ w.profiles[x].about \in {"this", "other"} /\ w.profiles[x].image \in STRING \cup {None}
  BY WorldIs DEF Biography!BiographyAssumption
<1>3. DISCOGS_MIN_CHARS \in Nat /\ DISCOGS_MIN_SENTENCES \in Nat
  BY DEF Biography!BiographyAssumption
<1> HIDE DEF id, profile
<1>4. CASE Real(w, id)
  <2> DEFINE bio == Biography!Bio(n, "Discogs", who, image)
  <2>1. /\ id \in DOMAIN w.profiles /\ ~ (n < DISCOGS_MIN_CHARS)
        /\ ~ (known.sentences < DISCOGS_MIN_SENTENCES)
    BY <1>2, <1>3, <1>4 DEF Real
  <2>4. /\ n \in Nat /\ who \in {"this", "other"} /\ image \in STRING \cup {None}
        /\ "Discogs" \in Biography!BioSources
    BY <1>2, <2>1 DEF Biography!BioSources
  <2> HIDE DEF n, who, image
  <2>5. IsBio(bio, n, "Discogs", who, image)
    BY <2>4, BioIs, Zenon
  <2> HIDE DEF bio
  <2>2. /\ bio \in Biography!Bios /\ bio # None /\ bio.source = "Discogs"
        /\ bio.about = who /\ bio.found = TRUE
    BY <2>5, Zenon DEF IsBio
  <2>6. who = w.profiles[id].about
    BY DEF who
  <2>3. profile = [bio |-> bio, state |-> "ok"]
    BY <1>1, <1>2, <2>1 DEF bio, n
  <2>7. profile.bio = bio /\ profile.state = "ok"
    BY <2>3
  <2> QED BY <1>4, <2>2, <2>6, <2>7 DEF id, profile
<1>5. CASE ~ Real(w, id)
  <2>1. \/ profile = [bio |-> None, state |-> "missing"]
        \/ profile = [bio |-> None, state |-> "no_bio"] /\ id \in DOMAIN w.profiles
    BY <1>1, <1>2, <1>3, <1>5 DEF Real
  <2> QED BY <1>5, <2>1 DEF id, profile
<1> QED BY <1>4, <1>5

\* The choice between two.
LEMMA ChoiceIs ==
  ASSUME Biography!BiographyAssumption, NEW wiki \in Biography!Bios \cup {None},
         NEW discogs \in Biography!Bios \cup {None}
  PROVE  LET bio == Biography!choose_bio(wiki, discogs)
         IN \/ bio = wiki /\ (wiki # None \/ discogs = None)
            \/ bio = discogs /\ wiki = None
            \/ /\ wiki # None /\ discogs # None /\ bio # None
               /\ bio.source = "Discogs over Wikipedia" /\ bio.about = discogs.about /\ bio.found = TRUE
               /\ bio.text = discogs.text /\ discogs.text >= WIKIPEDIA_WEIGHT * wiki.text
               /\ wiki.image # None => bio.image # None
<1>1. CASE wiki = None \/ discogs = None
  BY <1>1 DEF Biography!choose_bio
<1>2. CASE ~ (wiki = None \/ discogs = None) /\ ~ (discogs.text >= WIKIPEDIA_WEIGHT * wiki.text)
  BY <1>2 DEF Biography!choose_bio
<1>3. CASE ~ (wiki = None \/ discogs = None) /\ discogs.text >= WIKIPEDIA_WEIGHT * wiki.text
  <2> DEFINE bio == [discogs EXCEPT !.source = "Discogs over Wikipedia",
                                    !.image = IF @ = None THEN wiki.image ELSE @]
  <2>1. Biography!choose_bio(wiki, discogs) = bio
    BY <1>3 DEF Biography!choose_bio
  <2>2. discogs \in Biography!Bios /\ wiki \in Biography!Bios
    BY <1>3
  <2>3. /\ bio.source = "Discogs over Wikipedia" /\ bio.about = discogs.about /\ bio.found = TRUE
        /\ bio.text = discogs.text
        /\ bio.image = IF discogs.image = None THEN wiki.image ELSE discogs.image
    BY <2>2 DEF Biography!Bios
  <2>4. bio \in Biography!Bios
    <3>1. "Discogs over Wikipedia" \in Biography!BioSources
      BY DEF Biography!BioSources
    <3> DEFINE image == IF discogs.image = None THEN wiki.image ELSE discogs.image
    <3>2. image \in STRING \cup {None}
      BY <2>2, Zenon DEF Biography!Bios
    <3>3. bio = [discogs EXCEPT !.source = "Discogs over Wikipedia", !.image = image]
      OBVIOUS
    <3> HIDE DEF image, bio
    <3> QED BY <2>2, <3>1, <3>2, <3>3 DEF Biography!Bios
  <2>5. bio # None
    BY <2>4 DEF Biography!BiographyAssumption
  <2> HIDE DEF bio
  <2>6. wiki.image # None => bio.image # None
    BY <2>3
  <2> QED BY <1>3, <2>1, <2>3, <2>5, <2>6
<1> QED BY <1>1, <1>2, <1>3

\* The biography that the model writes.
LEMMA WrittenIs ==
  ASSUME Biography!BiographyAssumption, NEW w, Biography!IsWorld(w), NEW homepages
  PROVE  LET bio == Biography!llm_summarise_homepage(w, homepages)
             able == w.llm /\ \E i \in {1, 2} \cap DOMAIN homepages : Biography!Summarised(w, homepages[i])
         IN IF able THEN /\ bio # None /\ bio.source = "Official website" /\ bio.about = "this"
                         /\ bio.found = TRUE
            ELSE bio = None
<1> DEFINE usable == {i \in {1, 2} \cap DOMAIN homepages : Biography!Summarised(w, homepages[i])}
           bio == Biography!llm_summarise_homepage(w, homepages)
           url == homepages[Biography!First(usable)]
<1>1. bio = IF ~ w.llm \/ usable = {} THEN None
            ELSE Biography!Bio(w.homes[url].summary, "Official website", "this", None)
  BY DEF Biography!llm_summarise_homepage
<1> HIDE DEF bio
<1>2. CASE ~ w.llm \/ usable = {}
  BY <1>1, <1>2 DEF bio
<1>3. CASE w.llm /\ usable # {}
  <2>1. usable \in SUBSET Nat
    OBVIOUS
  <2>2. Biography!First(usable) \in usable
    BY <1>3, <2>1, FirstIs
  <2>3. Biography!Summarised(w, url)
    BY <2>2
  <2>4. w.homes[url].summary \in Nat
    BY <2>3, WorldIs DEF Biography!Summarised
  <2> DEFINE n == w.homes[url].summary
  <2>7. n \in Nat /\ "Official website" \in Biography!BioSources /\ "this" \in {"this", "other"}
        /\ None \in STRING \cup {None}
    BY <2>4 DEF Biography!BioSources
  <2> HIDE DEF url
  <2>5. bio = Biography!Bio(n, "Official website", "this", None)
    BY <1>1, <1>3
  <2> HIDE DEF n
  <2>8. IsBio(bio, n, "Official website", "this", None)
    BY <2>5, <2>7, BioIs, Zenon
  <2>6. bio # None /\ bio.source = "Official website" /\ bio.about = "this" /\ bio.found = TRUE
    BY <2>8, Zenon DEF IsBio
  <2> QED BY <1>3, <2>6 DEF bio
<1> QED BY <1>2, <1>3

\* What the pages of an artist give: the one that MusicBrainz has, or else the first that passes.
LEMMA WikiIs ==
  ASSUME Biography!BiographyAssumption, NEW w, Biography!IsWorld(w),
         NEW title, title \in DOMAIN w.pages \cup {None}, NEW linked, NEW wiki,
         linked = IF title = None THEN None ELSE Biography!_wikipedia_bio(w, title, "MusicBrainz"),
         wiki = IF linked # None THEN linked ELSE Biography!_verified_search_hit(w)
  PROVE  /\ Readable(w, title) =>
               IsBio(wiki, w.pages[title].text, "MusicBrainz", w.pages[title].about, w.pages[title].image)
         /\ ~ Readable(w, title) =>
               \/ wiki = None /\ \A i \in DOMAIN w.hits : ~ Passes(w, w.hits[i])
               \/ \E i \in DOMAIN w.hits :
                     /\ Passes(w, w.hits[i]) /\ wiki \in Biography!Bios /\ wiki # None
                     /\ wiki.source = "Wikipedia search" /\ wiki.about = w.pages[w.hits[i]].about
                     /\ wiki.found = TRUE
<1>1. "MusicBrainz" \in Biography!BioSources
  BY DEF Biography!BioSources
<1>2. title # None => IsPageBio(w, title, "MusicBrainz", linked)
  <2> SUFFICES ASSUME title # None PROVE IsPageBio(w, title, "MusicBrainz", linked)
    OBVIOUS
  <2>1. title \in DOMAIN w.pages
    OBVIOUS
  <2> QED BY <1>1, <2>1, PageBioIs, Zenon
<1>3. CASE Readable(w, title)
  <2>1. IsBio(linked, w.pages[title].text, "MusicBrainz", w.pages[title].about, w.pages[title].image)
    BY <1>2, <1>3, Zenon DEF Readable, IsPageBio
  <2>2. linked # None
    BY <2>1 DEF IsBio
  <2> QED BY <1>3, <2>1, <2>2, Zenon
<1>4. CASE ~ Readable(w, title)
  <2>1. linked = None
    BY <1>2, <1>4, Zenon DEF Readable, IsPageBio
  <2>2. wiki = Biography!_verified_search_hit(w)
    BY <2>1
  <2> QED BY <1>4, <2>2, HitIs, Zenon
<1> QED BY <1>3, <1>4

\* The biography of an artist is the best that the sources have (artist_bio.py:577).
LEMMA ResolutionIsRight ==
  ASSUME Biography!BiographyAssumption, NEW w, Biography!IsWorld(w)
  PROVE  Biography!ResolutionHolds(w)
<1> DEFINE bio == Biography!resolve_artist_bio(w)
           links == Biography!musicbrainz_links(w)
           title == links.wp_title
           linked == IF title = None THEN None ELSE Biography!_wikipedia_bio(w, title, "MusicBrainz")
           wiki == IF linked # None THEN linked ELSE Biography!_verified_search_hit(w)
           id == IF links.discogs # None THEN links.discogs ELSE w.exact
           profile == Biography!fetch_discogs_profile(w, links.discogs)
           discogs == profile.bio
           state == profile.state
           best == Biography!choose_bio(wiki, discogs)
           written == Biography!llm_summarise_homepage(w, links.homepages)
           able == w.llm /\ \E i \in {1, 2} \cap DOMAIN links.homepages :
                               Biography!Summarised(w, links.homepages[i])
           no == Biography!not_found_statement(w, links, state)
           page == w.pages[title]
<1>1. bio = IF wiki # None /\ wiki.text >= WIKI_SUFFICIENT_CHARS THEN wiki
            ELSE IF best # None THEN best ELSE IF written # None THEN written ELSE no
  BY DEF Biography!resolve_artist_bio
<1>2. links.mbid <=> w.links # None
  BY LinksAre
<1>3. title \in DOMAIN w.pages \cup {None}
  BY LinksAre
<1> HIDE DEF links
<1>4. /\ Readable(w, title) => IsBio(wiki, page.text, "MusicBrainz", page.about, page.image)
      /\ ~ Readable(w, title) =>
            \/ wiki = None /\ \A i \in DOMAIN w.hits : ~ Passes(w, w.hits[i])
            \/ \E i \in DOMAIN w.hits :
                  /\ Passes(w, w.hits[i]) /\ wiki \in Biography!Bios /\ wiki # None
                  /\ wiki.source = "Wikipedia search" /\ wiki.about = w.pages[w.hits[i]].about
                  /\ wiki.found = TRUE
  <2> HIDE DEF title
  <2>1. linked = IF title = None THEN None ELSE Biography!_wikipedia_bio(w, title, "MusicBrainz")
    OBVIOUS
  <2> HIDE DEF linked
  <2>2. wiki = IF linked # None THEN linked ELSE Biography!_verified_search_hit(w)
    OBVIOUS
  <2> HIDE DEF wiki
  <2>3. title \in DOMAIN w.pages \cup {None}
    BY <1>3 DEF title
  <2> QED BY <2>1, <2>2, <2>3, WikiIs, Zenon
<1>5. IF Real(w, id)
      THEN /\ discogs \in Biography!Bios /\ discogs # None /\ state = "ok"
           /\ discogs.source = "Discogs" /\ discogs.about = w.profiles[id].about /\ discogs.found = TRUE
      ELSE /\ discogs = None /\ state \in {"missing", "no_bio"}
           /\ state = "no_bio" => id \in DOMAIN w.profiles
  BY ProfileIs, Zenon
<1>6. IF able THEN /\ written # None /\ written.source = "Official website" /\ written.about = "this"
                   /\ written.found = TRUE
      ELSE written = None
  BY WrittenIs, Zenon
<1>7. no.found = FALSE /\ no.reasons =
         {IF links.mbid THEN "MusicBrainz lists no page" ELSE "not on MusicBrainz",
          "no page matched",
          IF state = "no_bio" THEN "the profile is no biography" ELSE "no profile",
          IF links.homepages = <<>> THEN "no website is known"
          ELSE IF w.llm THEN "no biography on the website" ELSE "the website was not read"}
  BY DEF Biography!not_found_statement
<1> HIDE DEF bio, wiki, id, discogs, state, best, written, able, no
<1>8. wiki \in Biography!Bios \cup {None} /\ discogs \in Biography!Bios \cup {None}
  BY <1>4, <1>5, Zenon DEF IsBio
<1>9. \/ best = wiki /\ (wiki # None \/ discogs = None)
      \/ best = discogs /\ wiki = None
      \/ /\ wiki # None /\ discogs # None /\ best # None
         /\ best.source = "Discogs over Wikipedia" /\ best.about = discogs.about /\ best.found = TRUE
         /\ best.text = discogs.text /\ discogs.text >= WIKIPEDIA_WEIGHT * wiki.text
         /\ wiki.image # None => best.image # None
  BY <1>8, ChoiceIs, Zenon DEF best
<1>10. \/ wiki # None /\ bio = wiki
       \/ /\ wiki # None /\ discogs # None /\ ~ (wiki.text >= WIKI_SUFFICIENT_CHARS)
          /\ bio # None /\ bio.source = "Discogs over Wikipedia" /\ bio.about = discogs.about
          /\ bio.found = TRUE
          /\ bio.text = discogs.text /\ discogs.text >= WIKIPEDIA_WEIGHT * wiki.text
          /\ wiki.image # None => bio.image # None
       \/ wiki = None /\ discogs # None /\ bio = discogs
       \/ wiki = None /\ discogs = None /\ written # None /\ bio = written
       \/ wiki = None /\ discogs = None /\ written = None /\ bio = no
  BY <1>1, <1>9, Zenon
<1>11. /\ wiki # None => wiki.found = TRUE
       /\ discogs # None => discogs.found = TRUE /\ Real(w, id) /\ discogs.about = w.profiles[id].about
       /\ written # None => written.found = TRUE /\ written.about = "this"
       /\ wiki = None => ~ Readable(w, title) /\ \A i \in DOMAIN w.hits : ~ Passes(w, w.hits[i])
       /\ discogs = None => ~ Real(w, id)
       /\ written = None => ~ able
  BY <1>4, <1>5, <1>6, Zenon DEF IsBio
<1>12. \/ bio.found = TRUE
       \/ bio = no /\ bio.found = FALSE /\ wiki = None /\ discogs = None /\ written = None
  BY <1>7, <1>10, <1>11, Zenon
<1>13. ASSUME bio.found = TRUE, bio.about = "other"
       PROVE  \/ Readable(w, title) /\ page.about = "other"
              \/ Real(w, id) /\ w.profiles[id].about = "other"
              \/ \E i \in DOMAIN w.hits : Passes(w, w.hits[i]) /\ w.pages[w.hits[i]].about = "other"
  <2>1. CASE wiki # None /\ bio = wiki
    BY <1>4, <1>13, <2>1, Zenon DEF IsBio
  <2>2. CASE discogs # None /\ bio.about = discogs.about
    BY <1>11, <1>13, <2>2
  <2>3. CASE written # None /\ bio = written
    <3>1. "this" # "other"
      OBVIOUS
    <3> QED BY <1>11, <1>13, <2>3, <3>1, Zenon
  <2>4. CASE bio = no
    <3>1. TRUE # FALSE
      OBVIOUS
    <3> QED BY <1>7, <1>13, <2>4, <3>1, Zenon
  <2> QED BY <1>10, <2>1, <2>2, <2>3, <2>4, Zenon
<1>14. Readable(w, title) \/ (\E i \in DOMAIN w.hits : Passes(w, w.hits[i])) \/ Real(w, id) \/ able
         => bio.found = TRUE
  BY <1>11, <1>12, Zenon
<1>15. ASSUME Readable(w, title), bio.source # "MusicBrainz"
       PROVE  /\ bio.source = "Discogs over Wikipedia" /\ bio.text >= WIKIPEDIA_WEIGHT * page.text
              /\ page.image # None => bio.image # None
  <2>1. /\ wiki # None /\ wiki.source = "MusicBrainz" /\ wiki.text = Capped(page.text)
        /\ wiki.image = page.image
    BY <1>4, <1>15, Zenon DEF IsBio
  <2>2. /\ ~ (wiki.text >= WIKI_SUFFICIENT_CHARS)
        /\ bio.source = "Discogs over Wikipedia" /\ bio.text >= WIKIPEDIA_WEIGHT * wiki.text
        /\ wiki.image # None => bio.image # None
    BY <1>10, <1>15, <2>1, Zenon
  <2>3. title \in DOMAIN w.pages
    BY <1>3, <1>15, Zenon DEF Readable
  <2>4. page.text \in Nat
    BY <2>3, WorldIs
  <2>5. BIO_MAX_CHARS \in Nat /\ WIKI_SUFFICIENT_CHARS \in Nat /\ WIKI_SUFFICIENT_CHARS <= BIO_MAX_CHARS
    BY DEF Biography!BiographyAssumption
  <2> DEFINE n == page.text
  <2>6. n \in Nat /\ wiki.text = Capped(n)
    BY <2>1, <2>4
  <2> HIDE DEF n
  <2>7. Capped(n) = n
    BY <2>2, <2>5, <2>6 DEF Capped
  <2>8. wiki.text = page.text
    BY <2>6, <2>7 DEF n
  <2> QED BY <2>1, <2>2, <2>8, Zenon
<1>16. ASSUME ~ (bio.found = TRUE)
       PROVE  /\ "MusicBrainz lists no page" \in bio.reasons => ~ Readable(w, title)
              /\ "not on MusicBrainz" \in bio.reasons => w.links = None
              /\ "the profile is no biography" \in bio.reasons => id \in DOMAIN w.profiles /\ ~ Real(w, id)
              /\ "no website is known" \in bio.reasons <=> links.homepages = <<>>
  <2>1. bio = no /\ wiki = None /\ discogs = None
    BY <1>12, <1>16, Zenon
  <2>2. ~ Readable(w, title) /\ ~ Real(w, id)
    BY <1>11, <2>1, Zenon
  <2>3. state = "no_bio" => id \in DOMAIN w.profiles
    BY <1>5, <2>2, Zenon
  <2> DEFINE reasons == bio.reasons
             unknown == links.homepages = <<>>
  <2>4. reasons =
           {IF links.mbid THEN "MusicBrainz lists no page" ELSE "not on MusicBrainz",
            "no page matched",
            IF state = "no_bio" THEN "the profile is no biography" ELSE "no profile",
            IF unknown THEN "no website is known"
            ELSE IF w.llm THEN "no biography on the website" ELSE "the website was not read"}
    BY <1>7, <2>1, Zenon
  <2> HIDE DEF reasons, unknown
  <2>5. /\ "not on MusicBrainz" \in reasons => ~ links.mbid
        /\ "the profile is no biography" \in reasons => state = "no_bio"
        /\ "no website is known" \in reasons <=> unknown
    BY <2>4
  <2> QED BY <1>2, <2>2, <2>3, <2>5, Zenon DEF reasons, unknown
<1>17. id \in {links.discogs, w.exact}
  BY DEF id
<1> QED
  BY <1>13, <1>14, <1>15, <1>16, <1>17
     DEF Biography!ResolutionHolds, Readable, Passes, Real, able, bio, links, id

-----------------------------------------------------------------------------
(* What is shown of a text.                                                *)

\* The greatest of some numbers up to a limit.
LEMMA LargestIs ==
  ASSUME NEW limit \in Nat, NEW S \in SUBSET (0..limit), S # {}
  PROVE  Biography!Largest(S) \in S /\ \A x \in S : x <= Biography!Largest(S)
<1>1. IsFiniteSet(S)
  <2>1. IsFiniteSet(0..limit)
    BY FS_Interval
  <2> QED BY <2>1, FS_Subset
<1>2. \E n \in S : \A m \in S : m <= n
  BY <1>1, GreatestNumber
<1> QED BY <1>2, Zenon DEF Biography!Largest

\* A paragraph that is too long is cut in the room that there is, or has no space in it.
LEMMA CutIs ==
  ASSUME NEW para \in Biography!Paragraphs, NEW limit \in Nat, ~ (para.length <= limit)
  PROVE  LET cut == Biography!_cut_at_sentence(para, limit)
         IN /\ cut \in Nat /\ cut <= limit + 1
            /\ cut <= limit => cut < para.length
            /\ cut = limit + 1 => \A j \in para.spaces : ~ (j < limit)
<1> DEFINE cut == Biography!_cut_at_sentence(para, limit)
           stops == {i \in para.stops : i + 1 < limit /\ i > limit \div 3}
           spaces == {i \in para.spaces : i < limit}
<1>1. para.length \in Nat /\ para.stops \in SUBSET Nat /\ para.spaces \in SUBSET Nat
  BY DEF Biography!Paragraphs
<1>2. cut = IF stops # {} THEN Biography!Largest(stops) + 1
            ELSE IF spaces # {} THEN Biography!Largest(spaces) + 1 ELSE limit + 1
  BY DEF Biography!_cut_at_sentence
<1>3. stops \in SUBSET (0..limit) /\ spaces \in SUBSET (0..limit)
  BY <1>1
<1> HIDE DEF cut
<1>4. CASE stops # {}
  <2>1. Biography!Largest(stops) \in stops
    BY <1>3, <1>4, LargestIs
  <2>2. Biography!Largest(stops) \in Nat /\ Biography!Largest(stops) + 1 < limit
    BY <1>1, <2>1
  <2> HIDE DEF stops, spaces
  <2> QED BY <1>1, <1>2, <1>4, <2>2 DEF cut
<1>5. CASE stops = {} /\ spaces # {}
  <2>1. Biography!Largest(spaces) \in spaces
    BY <1>3, <1>5, LargestIs
  <2>2. Biography!Largest(spaces) \in Nat /\ Biography!Largest(spaces) < limit
    BY <1>1, <2>1
  <2> HIDE DEF stops, spaces
  <2> QED BY <1>1, <1>2, <1>5, <2>2 DEF cut
<1>6. CASE stops = {} /\ spaces = {}
  <2>1. \A j \in para.spaces : ~ (j < limit)
    BY <1>6
  <2> HIDE DEF stops, spaces
  <2> QED BY <1>1, <1>2, <1>6, <2>1 DEF cut
<1> QED BY <1>4, <1>5, <1>6

\* What lies between two paragraphs.
Gap(k) == IF k = 1 THEN 0 ELSE 2

\* The recursive function that adds up the paragraphs.
Added(p, upto) == upto = [k \in 0..Len(p) |-> IF k = 0 THEN 0
                                              ELSE upto[k - 1] + p[k] + IF k = 1 THEN 0 ELSE 2]
\* It exists, and ends with the total.
LEMMA AddedIs ==
  ASSUME NEW p \in Seq(Nat)
  PROVE  \E upto \in [0..Len(p) -> Nat] : Added(p, upto) /\ Biography!Total(p) = upto[Len(p)]
<1> DEFINE N == Len(p)
           count == [k \in 1..N |-> p[k] + Gap(k)]
<1>1. N \in Nat /\ \A k \in 1..N : count[k] \in Nat
  BY DEF Gap
<1>2. PICK g \in [0..N -> Nat] : g = [k \in 0..N |-> IF k = 0 THEN 0 ELSE g[k - 1] + count[k]]
  <2> HIDE DEF count, N
  <2> QED BY <1>1, CountedIs
<1>3. Added(p, g)
  <2>1. ASSUME NEW k \in 0..N, k # 0 PROVE g[k - 1] + count[k] = g[k - 1] + p[k] + IF k = 1 THEN 0 ELSE 2
    <3>1. k \in 1..N /\ k - 1 \in 0..N
      BY <2>1
    <3>2. g[k - 1] \in Nat
      BY <1>2, <3>1
    <3>3. p[k] \in Nat /\ count[k] = p[k] + Gap(k)
      BY <3>1
    <3> HIDE DEF count
    <3> QED BY <3>2, <3>3 DEF Gap
  <2> HIDE DEF count
  <2> QED BY <1>2, <2>1 DEF Added
<1> DEFINE upto == CHOOSE f : Added(p, f)
<1>4. Added(p, upto)
  BY <1>3, Zenon
<1>5. Biography!Total(p) = upto[N]
  BY Zenon DEF Biography!Total, Added
<1> HIDE DEF upto
<1> DEFINE each == [k \in 0..N |-> upto[k]]
<1>6. \A k \in 0..N : upto[k] \in Nat
  <2>1. upto[0] \in Nat
    BY <1>1, <1>4 DEF Added
  <2>2. \A k \in 1..N : upto[k - 1] \in Nat => upto[k] \in Nat
    <3> SUFFICES ASSUME NEW k \in 1..N, upto[k - 1] \in Nat PROVE upto[k] \in Nat
      OBVIOUS
    <3>1. k \in 0..N /\ k # 0 /\ p[k] \in Nat
      OBVIOUS
    <3>2. upto[k] = upto[k - 1] + p[k] + IF k = 1 THEN 0 ELSE 2
      BY <1>4, <3>1 DEF Added
    <3> QED BY <3>1, <3>2
  <2> HIDE DEF N
  <2> QED BY <1>1, <2>1, <2>2, StepsStay
<1>7. upto \in [0..N -> Nat]
  BY <1>4, <1>6 DEF Added
<1> QED BY <1>4, <1>5, <1>7

\* One more paragraph adds its length and a gap.
LEMMA TotalIs ==
  ASSUME NEW p \in Seq(Nat), NEW x \in Nat
  PROVE  /\ Biography!Total(p) \in Nat /\ Biography!Total(<<>>) = 0
         /\ Biography!Total(Append(p, x)) = Biography!Total(p) + x + IF p = <<>> THEN 0 ELSE 2
<1> DEFINE N == Len(p)
           q == Append(p, x)
<1>1. PICK u \in [0..N -> Nat] : Added(p, u) /\ Biography!Total(p) = u[N]
  BY AddedIs
<1>2. q \in Seq(Nat) /\ Len(q) = N + 1 /\ q[N + 1] = x /\ (\A k \in 1..N : q[k] = p[k]) /\ N \in Nat
  OBVIOUS
<1>3. PICK v \in [0..(N + 1) -> Nat] : Added(q, v) /\ Biography!Total(q) = v[N + 1]
  BY <1>2, AddedIs
<1>4. Biography!Total(<<>>) = 0
  <2>1. <<>> \in Seq(Nat) /\ Len(<<>>) = 0
    OBVIOUS
  <2>2. PICK o \in [0..Len(<<>>) -> Nat] : Added(<<>>, o) /\ Biography!Total(<<>>) = o[Len(<<>>)]
    BY <2>1, AddedIs
  <2>3. o[0] = 0
    BY <2>1, <2>2 DEF Added
  <2> QED BY <2>1, <2>2, <2>3
<1>5. Biography!Total(p) \in Nat
  BY <1>1, <1>2
<1> HIDE DEF q
<1> DEFINE alike == {k \in 0..N : u[k] = v[k]}
           each == [k \in 0..N |-> k]
<1>6. \A k \in 0..N : each[k] \in alike
  <2>1. each[0] \in alike
    <3>1. u[0] = 0 /\ v[0] = 0
      BY <1>1, <1>2, <1>3 DEF Added
    <3>2. 0 \in 0..N
      BY <1>2
    <3> HIDE DEF N
    <3> QED BY <3>1, <3>2
  <2>2. ASSUME NEW k \in 1..N, each[k - 1] \in alike PROVE each[k] \in alike
    <3>1. k \in 0..N /\ k - 1 \in 0..N /\ k # 0 /\ k \in 0..(N + 1) /\ p[k] = q[k]
      BY <1>2
    <3>2. u[k] = u[k - 1] + p[k] + IF k = 1 THEN 0 ELSE 2
      BY <1>1, <3>1 DEF Added
    <3>3. v[k] = v[k - 1] + q[k] + IF k = 1 THEN 0 ELSE 2
      BY <1>2, <1>3, <3>1 DEF Added
    <3>4. each[k] = k /\ each[k - 1] = k - 1
      BY <3>1
    <3> HIDE DEF each, N
    <3>5. u[k - 1] = v[k - 1]
      BY <2>2, <3>4
    <3> QED BY <3>1, <3>2, <3>3, <3>4, <3>5
  <2> HIDE DEF each, N, alike
  <2> QED BY <1>2, <2>1, <2>2, StepsStay
<1>7. u[N] = v[N]
  <2>1. N \in 0..N
    BY <1>2
  <2> HIDE DEF N
  <2> QED BY <1>6, <2>1
<1>8. v[N + 1] = v[N] + x + IF N = 0 THEN 0 ELSE 2
  <2>1. N + 1 \in 0..(N + 1) /\ N + 1 # 0 /\ (N + 1) - 1 = N /\ (N + 1 = 1 <=> N = 0)
    BY <1>2
  <2>2. v[N + 1] = v[(N + 1) - 1] + q[N + 1] + IF N + 1 = 1 THEN 0 ELSE 2
    BY <1>2, <1>3, <2>1 DEF Added
  <2> QED BY <1>2, <2>1, <2>2
<1>9. p = <<>> <=> N = 0
  OBVIOUS
<1> QED BY <1>1, <1>3, <1>4, <1>5, <1>7, <1>8, <1>9 DEF q

\* What has been taken of a text.
Takings == [picked : Seq(Nat), length : Nat, over : BOOLEAN]
NoneTaken == [picked |-> <<>>, length |-> 0, over |-> FALSE]
Separator(sofar) == IF sofar.picked = <<>> THEN 0 ELSE 2
RoomLeft(sofar) == BIO_MAX_CHARS - sofar.length - Separator(sofar)

\* The four things that may happen with a paragraph: no more is wanted, it is taken whole, it is
\* cut, or there is too little room.
LEMMA TakingIs ==
  ASSUME Biography!BiographyAssumption, NEW sofar \in Takings, NEW para \in Biography!Paragraphs
  PROVE  LET after == Biography!Taking(sofar, para, BIO_MIN_CHARS)
             room == RoomLeft(sofar)
             cut == Biography!_cut_at_sentence(para, room)
         IN /\ after \in Takings /\ room \in Int
            /\ \/ /\ sofar.over \/ (sofar.picked # <<>> /\ sofar.length >= BIO_MIN_CHARS)
                  /\ after.over /\ after.picked = sofar.picked
               \/ /\ ~ sofar.over /\ para.length <= room /\ ~ after.over
                  /\ after.picked = Append(sofar.picked, para.length)
                  /\ after.length = sofar.length + Separator(sofar) + para.length
               \/ /\ ~ sofar.over /\ ~ (para.length <= room) /\ room > MinRoom /\ after.over
                  /\ after.picked = Append(sofar.picked, cut)
               \/ /\ ~ sofar.over /\ ~ (room > MinRoom) /\ after.over /\ after.picked = sofar.picked
<1> DEFINE after == Biography!Taking(sofar, para, BIO_MIN_CHARS)
           room == RoomLeft(sofar)
           cut == Biography!_cut_at_sentence(para, room)
           full == sofar.over \/ (sofar.picked # <<>> /\ sofar.length >= BIO_MIN_CHARS)
           sep == Separator(sofar)
<1>1. after = IF full THEN [sofar EXCEPT !.over = TRUE]
              ELSE IF para.length <= room
                   THEN [sofar EXCEPT !.picked = Append(@, para.length), !.length = @ + sep + para.length]
              ELSE [sofar EXCEPT !.over = TRUE,
                       !.picked = IF room > MinRoom THEN Append(@, cut) ELSE @]
  BY DEF Biography!Taking, RoomLeft, Separator
<1>2. /\ sofar.picked \in Seq(Nat) /\ sofar.length \in Nat /\ sofar.over \in BOOLEAN
      /\ para.length \in Nat /\ sep \in Nat /\ BIO_MAX_CHARS \in Nat /\ MinRoom \in Nat
  BY DEF Takings, Biography!Paragraphs, Separator, Biography!BiographyAssumption
<1>3. room \in Int
  BY <1>2 DEF RoomLeft
<1>4. room > MinRoom /\ ~ (para.length <= room) => cut \in Nat
  <2> SUFFICES ASSUME room > MinRoom, ~ (para.length <= room) PROVE cut \in Nat
    OBVIOUS
  <2>1. room \in Nat
    BY <1>2, <1>3
  <2> HIDE DEF room
  <2> QED BY <2>1, CutIs
<1> HIDE DEF cut, room, sep, after
<1>5. CASE full
  <2>1. after = [sofar EXCEPT !.over = TRUE]
    BY <1>1, <1>5
  <2>2. after \in Takings /\ after.over = TRUE /\ after.picked = sofar.picked
    BY <2>1 DEF Takings
  <2> QED BY <1>3, <1>5, <2>2 DEF after, room
<1>6. CASE ~ full /\ para.length <= room
  <2> DEFINE p == Append(sofar.picked, para.length)
             n == sofar.length + sep + para.length
  <2>1. after = [sofar EXCEPT !.picked = p, !.length = n]
    BY <1>1, <1>6
  <2>2. p \in Seq(Nat) /\ n \in Nat
    BY <1>2
  <2> HIDE DEF p, n
  <2>3. after \in Takings /\ after.over = sofar.over /\ after.picked = p /\ after.length = n
    BY <2>1, <2>2 DEF Takings
  <2> QED BY <1>3, <1>6, <2>3 DEF after, room, p, n, sep
<1>7. CASE ~ full /\ ~ (para.length <= room) /\ room > MinRoom
  <2> DEFINE p == Append(sofar.picked, cut)
  <2>1. after = [sofar EXCEPT !.over = TRUE, !.picked = p]
    BY <1>1, <1>7
  <2>2. p \in Seq(Nat)
    BY <1>2, <1>4, <1>7
  <2> HIDE DEF p
  <2>3. after \in Takings /\ after.over = TRUE /\ after.picked = p
    BY <2>1, <2>2 DEF Takings
  <2> QED BY <1>3, <1>7, <2>3 DEF after, room, p, cut
<1>8. CASE ~ full /\ ~ (para.length <= room) /\ ~ (room > MinRoom)
  <2>1. after = [sofar EXCEPT !.over = TRUE, !.picked = sofar.picked]
    BY <1>1, <1>8
  <2>2. after \in Takings /\ after.over = TRUE /\ after.picked = sofar.picked
    BY <1>2, <2>1 DEF Takings
  <2> QED BY <1>3, <1>8, <2>2 DEF after, room
<1> QED BY <1>5, <1>6, <1>7, <1>8

\* What is promised of the paragraphs that are taken in the end, and while they are taken.
Trimmed(paragraphs, picked) ==
    /\ Len(picked) <= Len(paragraphs)
    /\ \A i \in 1..(Len(picked) - 1) : picked[i] = paragraphs[i].length
    /\ Biography!Total(picked) <= BIO_MAX_CHARS + 1
    /\ Biography!Total(picked) > BIO_MAX_CHARS =>
          picked # <<>> /\ \A j \in paragraphs[Len(picked)].spaces : ~ (j <= MinRoom)
    /\ Biography!Total(picked) < BIO_MIN_CHARS =>
          \/ Len(picked) = Len(paragraphs)
          \/ \E i \in DOMAIN picked : picked[i] # paragraphs[i].length
\* After k paragraphs.
Trimming(paragraphs, k, sofar) ==
    /\ ~ sofar.over => /\ Len(sofar.picked) = k /\ sofar.length = Biography!Total(sofar.picked)
                       /\ sofar.length <= BIO_MAX_CHARS
                       /\ \A i \in 1..k : sofar.picked[i] = paragraphs[i].length
    /\ sofar.over => Trimmed(paragraphs, sofar.picked)

\* The next paragraph keeps it.
LEMMA TakingKeeps ==
  ASSUME Biography!BiographyAssumption, NEW paragraphs \in Seq(Biography!Paragraphs),
         NEW k \in 1..Len(paragraphs), NEW sofar \in Takings, Trimming(paragraphs, k - 1, sofar)
  PROVE  Trimming(paragraphs, k, Biography!Taking(sofar, paragraphs[k], BIO_MIN_CHARS))
<1> DEFINE para == paragraphs[k]
           after == Biography!Taking(sofar, para, BIO_MIN_CHARS)
           room == RoomLeft(sofar)
           cut == Biography!_cut_at_sentence(para, room)
           p == sofar.picked
           n == sofar.length
           sep == Separator(sofar)
           N == Len(paragraphs)
<1>1. para \in Biography!Paragraphs /\ N \in Nat /\ k \in Nat
  OBVIOUS
<1>2. /\ after \in Takings /\ room \in Int
      /\ \/ /\ sofar.over \/ (p # <<>> /\ n >= BIO_MIN_CHARS)
            /\ after.over /\ after.picked = p
         \/ /\ ~ sofar.over /\ para.length <= room /\ ~ after.over
            /\ after.picked = Append(p, para.length)
            /\ after.length = n + sep + para.length
         \/ /\ ~ sofar.over /\ ~ (para.length <= room) /\ room > MinRoom /\ after.over
            /\ after.picked = Append(p, cut)
         \/ /\ ~ sofar.over /\ ~ (room > MinRoom) /\ after.over /\ after.picked = p
  <2> HIDE DEF para
  <2> QED BY <1>1, TakingIs, Zenon
<1>3. /\ p \in Seq(Nat) /\ n \in Nat /\ sep \in {0, 2} /\ room = BIO_MAX_CHARS - n - sep
      /\ (sep = IF p = <<>> THEN 0 ELSE 2) /\ para.length \in Nat
  BY <1>1 DEF Takings, Separator, RoomLeft, Biography!Paragraphs
<1>4. /\ BIO_MIN_CHARS \in Nat /\ BIO_MAX_CHARS \in Nat /\ MinRoom \in Nat
      /\ BIO_MIN_CHARS + MinRoom + 2 <= BIO_MAX_CHARS
  BY DEF Biography!BiographyAssumption
<1>5. ~ sofar.over => /\ Len(p) = k - 1 /\ n = Biography!Total(p) /\ n <= BIO_MAX_CHARS
                      /\ \A i \in 1..(k - 1) : p[i] = paragraphs[i].length
  BY DEF Trimming
<1> HIDE DEF after, room, cut, sep
<1>6. CASE sofar.over /\ after.over /\ after.picked = p
  <2>1. Trimmed(paragraphs, p)
    BY <1>6 DEF Trimming
  <2>2. Trimming(paragraphs, k, after)
    BY <1>6, <2>1 DEF Trimming
  <2> QED BY <2>2 DEF after
<1>7. CASE /\ ~ sofar.over /\ after.over /\ after.picked = p
           /\ (p # <<>> /\ n >= BIO_MIN_CHARS) \/ ~ (room > MinRoom)
  <2>1. n >= BIO_MIN_CHARS
    <3> HIDE DEF p, n
    <3> QED BY <1>2, <1>3, <1>4, <1>7
  <2>2. Trimmed(paragraphs, p)
    <3>1. Len(p) = k - 1 /\ n = Biography!Total(p) /\ n <= BIO_MAX_CHARS /\ k <= N
      BY <1>5, <1>7
    <3>2. \A i \in 1..(Len(p) - 1) : p[i] = paragraphs[i].length
      <4>1. \A i \in 1..(Len(p) - 1) : i \in 1..(k - 1)
        BY <1>1, <3>1
      <4> QED BY <1>5, <1>7, <4>1
    <3> HIDE DEF p, n
    <3>3. Len(p) <= N /\ Biography!Total(p) <= BIO_MAX_CHARS + 1
          /\ ~ (Biography!Total(p) > BIO_MAX_CHARS) /\ ~ (Biography!Total(p) < BIO_MIN_CHARS)
      BY <1>1, <1>3, <1>4, <2>1, <3>1
    <3> QED BY <3>2, <3>3 DEF Trimmed
  <2>3. Trimming(paragraphs, k, after)
    BY <1>7, <2>2 DEF Trimming
  <2> QED BY <2>3 DEF after
<1>8. CASE /\ ~ sofar.over /\ para.length <= room /\ ~ after.over
           /\ after.picked = Append(p, para.length) /\ after.length = n + sep + para.length
  <2> DEFINE q == Append(p, para.length)
  <2>1. Len(p) = k - 1 /\ n = Biography!Total(p) /\ \A i \in 1..(k - 1) : p[i] = paragraphs[i].length
    BY <1>5, <1>8
  <2>2. Len(q) = k /\ \A i \in 1..k : q[i] = paragraphs[i].length
    <3>1. Len(q) = Len(p) + 1 /\ q[Len(p) + 1] = para.length /\ \A i \in 1..Len(p) : q[i] = p[i]
      BY <1>3
    <3> HIDE DEF p, q
    <3>2. \A i \in 1..k : i \in 1..(k - 1) \/ i = k
      BY <1>1
    <3> QED BY <1>1, <2>1, <3>1, <3>2
  <2>3. Biography!Total(q) = Biography!Total(p) + para.length + sep
    <3> HIDE DEF p, para
    <3> QED BY <1>3, TotalIs
  <2>4. after.length = Biography!Total(q) /\ after.length <= BIO_MAX_CHARS
    <3> DEFINE more == para.length
               total == Biography!Total(q)
    <3>1. /\ after.length = n + sep + more /\ more <= room /\ room = BIO_MAX_CHARS - n - sep
          /\ total = n + more + sep
      BY <1>3, <1>8, <2>1, <2>3
    <3>2. n \in Nat /\ sep \in Nat /\ more \in Nat /\ BIO_MAX_CHARS \in Nat
      BY <1>3, <1>4
    <3> HIDE DEF n, more, total
    <3>3. after.length = total /\ after.length <= BIO_MAX_CHARS
      BY <3>1, <3>2
    <3> QED BY <3>3 DEF total
  <2>5. Trimming(paragraphs, k, after)
    BY <1>8, <2>2, <2>4 DEF Trimming
  <2> QED BY <2>5 DEF after
<1>9. CASE /\ ~ sofar.over /\ ~ (para.length <= room) /\ room > MinRoom /\ after.over
           /\ after.picked = Append(p, cut)
  <2> DEFINE q == Append(p, cut)
  <2>1. room \in Nat
    BY <1>2, <1>4, <1>9
  <2>2. /\ cut \in Nat /\ cut <= room + 1
        /\ cut <= room => cut < para.length
        /\ cut = room + 1 => \A j \in para.spaces : ~ (j < room)
    <3> HIDE DEF para
    <3> QED BY <1>1, <1>9, <2>1, CutIs DEF cut
  <2>3. Len(p) = k - 1 /\ n = Biography!Total(p) /\ n <= BIO_MAX_CHARS
        /\ \A i \in 1..(k - 1) : p[i] = paragraphs[i].length
    BY <1>5, <1>9
  <2>4. Len(q) = k /\ q[k] = cut /\ q # <<>> /\ k \in DOMAIN q /\ \A i \in 1..(k - 1) : q[i] = p[i]
    <3> HIDE DEF p
    <3>1. Len(q) = Len(p) + 1 /\ q[Len(p) + 1] = cut /\ \A i \in 1..Len(p) : q[i] = p[i]
      BY <1>3, <2>2
    <3>2. DOMAIN q = 1..Len(q)
      BY <1>3, <2>2
    <3> HIDE DEF q
    <3>3. k \in DOMAIN q
      BY <1>1, <2>3, <3>1, <3>2
    <3> QED BY <1>1, <2>3, <3>1, <3>3 DEF q
  <2>5. Biography!Total(q) = n + cut + sep
    <3> HIDE DEF p, n
    <3> QED BY <1>3, <2>2, <2>3, TotalIs
  <2> DEFINE total == Biography!Total(q)
  <2>6. /\ total <= BIO_MAX_CHARS + 1
        /\ total > BIO_MAX_CHARS => cut = room + 1
        /\ total < BIO_MIN_CHARS => cut <= room
    <3> HIDE DEF p, n, q, total
    <3>1. total = n + cut + sep
      BY <2>5 DEF total
    <3>2. n \in Nat /\ sep \in Nat /\ room = BIO_MAX_CHARS - n - sep
      BY <1>3
    <3>3. cut \in Nat /\ cut <= room + 1
      BY <2>2
    <3> QED BY <1>4, <2>1, <3>1, <3>2, <3>3
  <2>7. total > BIO_MAX_CHARS => \A j \in para.spaces : ~ (j <= MinRoom)
    <3>1. \A j \in para.spaces : j \in Nat
      BY <1>1 DEF Biography!Paragraphs
    <3> HIDE DEF total, para
    <3> QED BY <1>4, <1>9, <2>1, <2>2, <2>6, <3>1
  <2>8. total < BIO_MIN_CHARS => q[k] # para.length
    <3> HIDE DEF total, para
    <3> QED BY <1>3, <2>1, <2>2, <2>4, <2>6
  <2>9. Trimmed(paragraphs, q)
    <3>1. k <= N
      OBVIOUS
    <3> HIDE DEF q, p
    <3>2. \A i \in 1..(Len(q) - 1) : q[i] = paragraphs[i].length
      BY <2>3, <2>4
    <3> QED BY <2>4, <2>6, <2>7, <2>8, <3>1, <3>2 DEF Trimmed
  <2>10. Trimming(paragraphs, k, after)
    BY <1>9, <2>9 DEF Trimming
  <2> QED BY <2>10 DEF after
<1> QED
  <2> HIDE DEF p, n, para
  <2> QED BY <1>2, <1>6, <1>7, <1>8, <1>9, Zenon

\* A text is cut to its limit, and not before it must be (artist_bio.py:169).
LEMMA TrimIsRight ==
  ASSUME Biography!BiographyAssumption, NEW paragraphs \in Seq(Biography!Paragraphs)
  PROVE  Biography!TrimHolds(paragraphs)
<1> DEFINE N == Len(paragraphs)
           Step(f, k) == IF k = 0 THEN NoneTaken
                         ELSE Biography!Taking(f[k - 1], paragraphs[k], BIO_MIN_CHARS)
           upto == CHOOSE f : f = [k \in 0..N |-> Step(f, k)]
           picked == Biography!trim_bio(paragraphs, BIO_MIN_CHARS)
<1>1. N \in Nat /\ \A k \in 1..N : paragraphs[k] \in Biography!Paragraphs
  OBVIOUS
<1>2. \A k \in 1..N : \A s \in Takings :
         Biography!Taking(s, paragraphs[k], BIO_MIN_CHARS) \in Takings
  BY <1>1, TakingIs
<1>3. NoneTaken \in Takings
  BY DEF NoneTaken, Takings
<1>4. \E f : f = [k \in 0..N |-> Step(f, k)]
  <2> DEFINE step == [x \in (1..N) \X Takings |-> Biography!Taking(x[2], paragraphs[x[1]], BIO_MIN_CHARS)]
  <2>1. step \in Steps(N, Takings)
    <3>1. \A x \in (1..N) \X Takings : Biography!Taking(x[2], paragraphs[x[1]], BIO_MIN_CHARS) \in Takings
      BY <1>2
    <3> QED BY <3>1, Zenon DEF Steps
  <2>2. PICK f \in [0..N -> Takings] : IsWalk(f, N, NoneTaken, step)
    <3> HIDE DEF step, N
    <3> QED BY <1>1, <1>3, <2>1, StepsExist
  <2>3. ASSUME NEW k \in 0..N PROVE f[k] = Step(f, k)
    <3>1. f[k] = IF k = 0 THEN NoneTaken ELSE step[<<k, f[k - 1]>>]
      BY <2>2, Zenon DEF IsWalk
    <3>2. CASE k # 0
      <4>1. k \in 1..N /\ k - 1 \in 0..N
        BY <1>1, <3>2
      <4>2. f[k - 1] \in Takings
        BY <2>2, <4>1
      <4>3. step[<<k, f[k - 1]>>] = Biography!Taking(f[k - 1], paragraphs[k], BIO_MIN_CHARS)
        BY <4>1, <4>2
      <4> QED BY <3>1, <3>2, <4>3
    <3> QED BY <3>1, <3>2
  <2>4. f = [k \in 0..N |-> f[k]]
    BY <2>2
  <2> HIDE DEF Step
  <2> QED BY <2>3, <2>4
<1>5. upto = [k \in 0..N |-> Step(upto, k)]
  BY <1>4, Zenon
<1>6. picked = upto[N].picked
  BY Zenon DEF Biography!trim_bio, NoneTaken
<1> HIDE DEF upto, picked
<1>7. /\ upto[0] = NoneTaken
      /\ \A k \in 1..N : upto[k] = Biography!Taking(upto[k - 1], paragraphs[k], BIO_MIN_CHARS)
  BY <1>1, <1>5
<1> DEFINE good == {k \in 0..N : upto[k] \in Takings /\ Trimming(paragraphs, k, upto[k])}
           each == [k \in 0..N |-> k]
<1>8. \A k \in 0..N : each[k] \in good
  <2>1. each[0] \in good
    <3>1. Trimming(paragraphs, 0, NoneTaken)
      <4>1. Biography!Total(<<>>) = 0
        <5>1. <<>> \in Seq(Nat) /\ 0 \in Nat
          OBVIOUS
        <5> QED BY <5>1, TotalIs
      <4>2. BIO_MAX_CHARS \in Nat
        BY DEF Biography!BiographyAssumption
      <4> QED BY <4>1, <4>2 DEF Trimming, NoneTaken
    <3>2. 0 \in 0..N /\ each[0] = 0
      BY <1>1
    <3> HIDE DEF each, N
    <3> QED BY <1>3, <1>7, <3>1, <3>2
  <2>2. ASSUME NEW k \in 1..N, each[k - 1] \in good PROVE each[k] \in good
    <3>1. k \in 0..N /\ each[k] = k /\ each[k - 1] = k - 1
      BY <1>1
    <3> HIDE DEF each
    <3>2. upto[k - 1] \in Takings /\ Trimming(paragraphs, k - 1, upto[k - 1])
      BY <2>2, <3>1
    <3>3. upto[k] = Biography!Taking(upto[k - 1], paragraphs[k], BIO_MIN_CHARS)
      BY <1>7
    <3>4. upto[k] \in Takings
      BY <1>2, <3>2, <3>3
    <3>5. Trimming(paragraphs, k, upto[k])
      BY <3>2, <3>3, TakingKeeps
    <3> QED BY <3>1, <3>4, <3>5
  <2> HIDE DEF each, N, good
  <2> QED BY <1>1, <2>1, <2>2, StepsStay
<1>9. upto[N] \in Takings /\ Trimming(paragraphs, N, upto[N])
  <2>1. N \in 0..N /\ each[N] = N
    BY <1>1
  <2> HIDE DEF each, N
  <2> QED BY <1>8, <2>1
<1>10. picked \in Seq(Nat)
  BY <1>6, <1>9 DEF Takings
<1>11. Trimmed(paragraphs, picked)
  <2>1. CASE upto[N].over
    BY <1>6, <1>9, <2>1 DEF Trimming
  <2>2. CASE ~ upto[N].over
    <3>1. /\ Len(picked) = N /\ Biography!Total(picked) <= BIO_MAX_CHARS
          /\ \A i \in 1..N : picked[i] = paragraphs[i].length
      BY <1>6, <1>9, <2>2 DEF Trimming
    <3>2. Biography!Total(picked) \in Nat /\ BIO_MAX_CHARS \in Nat
      BY <1>10, TotalIs DEF Biography!BiographyAssumption
    <3> HIDE DEF N
    <3>3. \A i \in 1..(Len(picked) - 1) : picked[i] = paragraphs[i].length
      BY <1>1, <3>1
    <3> QED BY <1>1, <3>1, <3>2, <3>3 DEF Trimmed, N
  <2> QED BY <2>1, <2>2
<1>12. DOMAIN picked = 1..Len(picked) /\ Len(picked) \in Nat
  BY <1>10
<1> DEFINE whole == {i \in DOMAIN picked : picked[i] = paragraphs[i].length}
<1>13. 1..(Len(picked) - 1) \subseteq whole
  BY <1>11, <1>12 DEF Trimmed
<1>14. Biography!Total(picked) < BIO_MIN_CHARS =>
          Len(picked) = Len(paragraphs) \/ \E i \in DOMAIN picked : i \notin whole
  BY <1>11 DEF Trimmed
<1> HIDE DEF whole
<1> QED BY <1>11, <1>13, <1>14, Zenon DEF Biography!TrimHolds, Trimmed, picked, whole

-----------------------------------------------------------------------------
\* An input is picked once, from those of its part.
Picked ==
    input # None => /\ part = "sales" => input \in SalesInputs
                    /\ part = "files" => input \in FileInputs
                    /\ part = "rules" => input \in RuleInputs
                    /\ part = "sources" => input \in SourceInputs
                    /\ part = "lists" => \E cat \in Catalogues, f \in Filters : input = <<cat, f>>

LEMMA InputIsPicked == AllSpec => []Picked
<1>1. AllInit => Picked
  BY DEF AllInit, Picked
<1>2. Picked /\ [AllNext]_<<vars, input>> => Picked'
  <2> SUFFICES ASSUME Picked, [AllNext]_<<vars, input>> PROVE Picked'
    OBVIOUS
  <2>1. part' = part
    BY DEF AllNext, Next, Pick, vars
  <2>2. CASE input' = input
    BY <2>1, <2>2 DEF Picked
  <2>3. CASE Pick
    BY <2>1, <2>3 DEF Picked, Pick
  <2> QED BY <2>2, <2>3 DEF AllNext
<1> QED BY <1>1, <1>2, PTL DEF AllSpec

\* Whatever is asked of the files of the page background, the boxes of a file that is accepted
\* tile it, what is uploaded can be shown in its own ratio, a range gets exactly the bytes it asks
\* for, and the cache is within its bound (web/background.py:183, :427, :508 and :514).
THEOREM FilesAreHandled == AllSpec => []FilesHold
<1>1. Picked => FilesHold
  <2> SUFFICES ASSUME NEW x \in FileInputs PROVE Files!FilesHold(x)
    BY DEF FilesHold, Picked
  <2>1. Files!FilesAssumption /\ Files!IsRequest(x)
    BY InputsAssumption
  <2>2. CASE x[1] = "upload"
    <3>1. x[2] \in Seq(Files!Uploaded) /\ x[3] \in {"video", "image"}
      BY <2>1, <2>2 DEF Files!IsRequest
    <3> QED BY <2>1, <2>2, <3>1, UploadsAreShown DEF Files!FilesHold
  <2>3. CASE x[1] = "range"
    <3>1. x[2] \in Nat /\ x[3] \in [first : Nat \cup {None}, last : Nat \cup {None}]
      BY <2>1, <2>3 DEF Files!IsRequest
    <3> QED BY <2>1, <2>3, <3>1, RangesAreServed DEF Files!FilesHold
  <2>4. CASE x[1] = "boxes"
    <3>1. x[3] \in Nat /\ Files!HasHeaders(x[2], x[3])
      BY <2>1, <2>4 DEF Files!IsRequest
    <3> QED BY <2>1, <2>4, <3>1, BoxesTile DEF Files!FilesHold
  <2>5. CASE x[1] = "reads"
    <3>1. x[2] \in Seq(STRING)
      BY <2>1, <2>5 DEF Files!IsRequest
    <3> QED BY <2>5, <3>1, CacheIsBounded DEF Files!FilesHold
  <2>6. CASE x[1] \notin {"upload", "range", "boxes", "reads"}
    BY <2>6 DEF Files!FilesHold
  <2> QED BY <2>2, <2>3, <2>4, <2>5, <2>6
<1> QED BY <1>1, InputIsPicked, PTL

\* Whatever is asked of a sales history: a price is read as it is written in America and in
\* Europe, the outliers among any rows are not the majority and the median is in the middle of
\* the rest, a history pasted twice is valued as it is, and what is stored of a text accounts
\* for all of its rows in one currency (ingestion/discogs_sales_parser.py:312 and :503,
\* ingestion/valuation_confidence.py:183, web/catalogue.py:3893).
THEOREM SalesAreValued == AllSpec => []SalesHold
<1>1. Picked => SalesHold
  <2> SUFFICES ASSUME NEW x \in SalesInputs
               PROVE  /\ x[1] = "rows" => SalesHistory!StatisticsHold(x[2])
                      /\ x[1] = "price" => SalesHistory!PricesRead(x[2])
                      /\ x[1] = "text" => SalesHistory!ImportHolds(x[2], x[3])
    BY DEF SalesHold, Picked
  <2> QED BY InputsAssumption, SalesAreRight
<1> QED BY <1>1, InputIsPicked, PTL

\* The engine in Python decides as the policy does of every barcode that the policy knows, and no
\* prefix is in two ranges of its table (rules/local.py:55, rules/engine.py:9).
THEOREM EnginesDecide == AllSpec => []EnginesAgree
<1>1. Picked => EnginesAgree
  <2> SUFFICES ASSUME NEW x \in RuleInputs PROVE Rules!EnginesAgree(x)
    BY DEF EnginesAgree, Picked
  <2>1. None \notin Int
    BY InputsAssumption DEF SalesHistory!SalesAssumption
  <2> QED BY <2>1, InputsAssumption, EnginesDecideAlike
<1> QED BY <1>1, InputIsPicked, PTL

\* Of any catalogue and filters, a facet's link shows what the facet promises while the text has
\* no blank at an end, and of a format never more; each artist and each pressing that is alone
\* with its title is on one page of its list, the cards count every pressing once and have behind
\* them what they say, no token is twice on the dashboard, and the search shows as much as its
\* limits let it, and the same in both layouts while all fits (web/catalogue.py:548, :707, :805
\* and :912, web/routes.py:348, :1320, :1428 and :1523, web/artists.py:55).
THEOREM ListsAreAsPromised == AllSpec => []ListsAgree
<1>1. Picked => ListsAgree
  <2> SUFFICES ASSUME NEW cat \in Catalogues, NEW f \in Filters PROVE Browse!ListsAgree(cat, f)
    BY DEF ListsAgree, Picked
  <2> QED BY InputsAssumption, ListsAreRight
<1> QED BY <1>1, InputIsPicked, PTL

\* Whatever is typed or scanned, whatever the catalogue and the sources hold: the form is filled in
\* with the release that it is or lists a page of those that match, and all of them if a page has
\* room; a scan fills it in with a match only if there is no other; what is in the catalogue is
\* marked, and the form fails for two tokens of one release only.  Whatever the services say of
\* an artist, the biography is the best that they have, the statement that there is none is true
\* but for its first reason, and a text is cut to its limit (web/catalogue.py:1004 and :1623, ingestion/artist_bio.py:163 and :577).
THEOREM FormsAndBiographies == AllSpec => []FormsHold
<1>1. Picked => FormsHold
  <2> SUFFICES ASSUME NEW x \in SourceInputs
               PROVE  /\ x[1] = "form" => Releases!FormHolds(x[2], x[3], x[4], x[5])
                      /\ x[1] = "scan" => Releases!ScanHolds(x[2], x[3], x[4])
                      /\ x[1] = "world" => Biography!ResolutionHolds(x[2])
                      /\ x[1] = "text" => Biography!TrimHolds(x[2])
    BY DEF FormsHold, Picked
  <2> QED BY InputsAssumption, FormIsRight, ScanIsRight, ResolutionIsRight, TrimIsRight, Zenon
<1> QED BY <1>1, InputIsPicked, PTL
=============================================================================
