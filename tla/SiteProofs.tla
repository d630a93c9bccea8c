----------------------------- MODULE SiteProofs -----------------------------
(***************************************************************************)
(* The parts of Site, each with its inductive invariant, for any number of *)
(* requests, clients, visits and attempts, and for the other values of the *)
(* constants that SiteAssumption allows.                                   *)
(*                                                                         *)
(* A theorem says of a behaviour of Site what its invariant says of the    *)
(* part that the behaviour is about: StepsOfAPart gives the steps of that  *)
(* part, a lemma ...AtStart that the initial states have the inductive     *)
(* invariant, and a lemma ...Stay(s) that every step keeps it.             *)
(*                                                                         *)
(*   control panel  JobReached     a thread is as far as its job, one runs *)
(*   review queue   ReviewWhole    what a decider knows of its item        *)
(*   artist pages   PagesHold      who registered last; what is on its way *)
(*                                 to the row; picture and text fit        *)
(*   backgrounds    BackgroundHolds  what a change has read and will store *)
(*   login          LoginHolds     failures in the window, and past the    *)
(*                                 check, are counted together             *)
(*   details        DetailsKept    what a request knows of the row and of  *)
(*                                 Discogs, and what it cannot know        *)
(*   columns        ColumnsKept    what a request has loaded               *)
(*                                                                         *)
(* LeastNumber makes induction over the numbers possible, from the         *)
(* library's WFMin, which takes no operator: a set of counterexamples has  *)
(* a least one.  AdditionsExist shows with it that the recursive function  *)
(* of AddGenres is what its equation says, AddGenresEffect what it makes.  *)
(***************************************************************************)
EXTENDS Site, FiniteSetTheorems, WellFoundedInduction, TLAPS

\* Which part a behaviour is about never changes, and its steps are those of that part.
LEMMA StepsOfAPart ==
  ASSUME [Next]_vars
  PROVE  /\ part' = part
         /\ part = "details" => [Details!Next]_detailVars
         /\ part = "columns" => [TokenColumns!Next]_columnVars
         /\ part = "artist" => [ArtistPages!Next]_artistVars
         /\ part = "background" => [Background!Next]_backgroundVars
         /\ part = "login" => [Login!Next]_loginVars
         /\ part = "review" => [Reviews!Next]_reviewVars
         /\ part = "job" => [CtlJobs!Next]_ctlVars
BY DEF Next, vars

-----------------------------------------------------------------------------
(* The control panel *)

JobReached ==
    /\ CtlJobs!TypeOK
    /\ click \in [Clicks -> [at : {"new", "mark", "kill", "over"}, job : Jobs \cup {0}]]
    /\ \A i, j \in Jobs : job[i] = "running" /\ job[j] = "running" => i = j
    /\ \A j \in Jobs :
          /\ job[j] = "none" => proc[j] = "none" /\ pump[j] = "none"
          /\ j \in owed => job[j] = "running" /\ proc[j] = "none" /\ pump[j] = "none"
          /\ proc[j] = "alive" => job[j] \in {"running", "cancelled"}
          /\ proc[j] = "killed" => job[j] = "cancelled"
          /\ pump[j] # "none" => proc[j] # "none"
          /\ pump[j] = "waited" => proc[j] \in {"gone", "killed"}
          /\ pump[j] = "settling" => proc[j] = "gone"
    /\ \A c \in Clicks :
          /\ click[c].at \in {"mark", "kill"} => click[c].job \in Jobs /\ proc[click[c].job] # "none"
          /\ click[c].at = "kill" /\ proc[click[c].job] = "alive" => job[click[c].job] = "cancelled"

\* At the start nothing has been begun, launched or cancelled.
LEMMA JobAtStart == CtlJobs!Init => JobReached
  BY DEF CtlJobs!Init, JobReached, CtlJobs!TypeOK

\* Every step of a request, of a process and of its thread keeps what has been reached.
LEMMA JobStays == JobReached /\ [CtlJobs!Next]_ctlVars => JobReached'
<1> SUFFICES ASSUME JobReached, [CtlJobs!Next]_ctlVars PROVE JobReached'
  OBVIOUS
<1> USE DEF JobReached, CtlJobs!TypeOK
<1>1. ASSUME NEW j \in Jobs, CtlJobs!Begin(j) PROVE JobReached'
  BY <1>1 DEF CtlJobs!Begin, CtlJobs!active
<1>2. ASSUME NEW j \in Jobs, CtlJobs!Launch(j) PROVE JobReached'
  BY <1>2 DEF CtlJobs!Launch
<1>3. ASSUME NEW j \in Jobs, CtlJobs!Exit(j) PROVE JobReached'
  BY <1>3 DEF CtlJobs!Exit
<1>4. ASSUME NEW j \in Jobs, CtlJobs!Wait(j) PROVE JobReached'
  <2>1. CASE proc[j] # "alive" /\ pump' = [pump EXCEPT ![j] = "waited"]
    <3>1. proc[j] \in {"gone", "killed"}
      BY <1>4, <2>1 DEF CtlJobs!Wait
    <3> QED
      BY <1>4, <2>1, <3>1 DEF CtlJobs!Wait
  <2>2. CASE pump' = [pump EXCEPT ![j] = "over"]
    BY <1>4, <2>2 DEF CtlJobs!Wait
  <2> QED
    BY <1>4, <2>1, <2>2 DEF CtlJobs!Wait
<1>5. ASSUME NEW j \in Jobs, CtlJobs!Look(j) PROVE JobReached'
  BY <1>5 DEF CtlJobs!Look
<1>6. ASSUME NEW j \in Jobs, CtlJobs!Settle(j) PROVE JobReached'
  BY <1>6 DEF CtlJobs!Settle
<1>7. ASSUME NEW c \in Clicks, NEW j \in Jobs, CtlJobs!AskCancel(c, j) PROVE JobReached'
  BY <1>7 DEF CtlJobs!AskCancel
<1>8. ASSUME NEW c \in Clicks, CtlJobs!Mark(c) PROVE JobReached'
  BY <1>8 DEF CtlJobs!Mark
<1>9. ASSUME NEW c \in Clicks, CtlJobs!Kill(c) PROVE JobReached'
  BY <1>9 DEF CtlJobs!Kill
<1>10. CASE UNCHANGED ctlVars
  BY <1>10 DEF ctlVars
<1> QED
  BY <1>1, <1>2, <1>3, <1>4, <1>5, <1>6, <1>7, <1>8, <1>9, <1>10 DEF CtlJobs!Next, ctlVars

\* Of two jobs that run both would be the same, so that there is one at most.
LEMMA JobIsOne == JobReached => CtlJobs!OneJobRuns
<1> SUFFICES ASSUME JobReached PROVE CtlJobs!OneJobRuns
  OBVIOUS
<1>1. CtlJobs!active = {} \/ \E j \in Jobs : CtlJobs!active = {j}
  BY DEF JobReached, CtlJobs!active
<1>2. Cardinality(CtlJobs!active) <= 1
  BY <1>1, FS_EmptySet, FS_Singleton
<1>3. CtlJobs!Cardinality(CtlJobs!active) = Cardinality(CtlJobs!active)
  BY DEF CtlJobs!Cardinality, Cardinality
<1> QED
  BY <1>2, <1>3 DEF JobReached, CtlJobs!OneJobRuns


\* The lock of start and the order in which a thread reads, waits and reports are enough: there is
\* one running job at most, only a running or cancelled one has a process, and one that was ended
\* by the cancel is reported as cancelled (tools/ctl_portal/jobs.py:66, :107, :114).
THEOREM OneJobAtATime == Spec => []OneJobRuns
<1> DEFINE Inv == part = "job" => JobReached
<1>1. Init => Inv
  BY JobAtStart DEF Init
<1>2. Inv /\ [Next]_vars => Inv'
  <2> SUFFICES ASSUME Inv, [Next]_vars, part' = "job" PROVE JobReached'
    OBVIOUS
  <2>1. JobReached /\ [CtlJobs!Next]_ctlVars
    BY StepsOfAPart
  <2> QED
    BY <2>1, JobStays
<1>3. Inv => OneJobRuns
  BY JobIsOne DEF OneJobRuns, JobReached
<1> QED
  BY <1>1, <1>2, <1>3, PTL DEF Spec
-----------------------------------------------------------------------------
(* The review queue *)

Shown == [status : Reviews!Verdicts \cup {"pending"}, comment : Comments \cup {None}]
Decision == [status : Reviews!Verdicts, comment : Comments]

ReviewTyped ==
    /\ token \in {"live", "deleted", "purged"}
    /\ items \in [Requests -> Shown \cup {None}]
    /\ decided \in [Requests -> Decision \cup {None}]
    /\ crossed \subseteq Requests
    /\ request \in [Requests -> [at : {"new", "insert", "store", "over"}, item : Requests \cup {None},
                                 verdict : Reviews!Verdicts \cup {"none"}, comment : Comments \cup {None},
                                 copy : Shown \cup {None}]]
    /\ \A r \in Requests : request[r].at = "store" =>
          /\ request[r].item \in Requests /\ request[r].verdict \in Reviews!Verdicts
          /\ request[r].comment \in Comments /\ request[r].copy \in Shown

\* An item is created by the last step of its request.
ItemsCreated ==
    \A i \in Requests : items[i] # None \/ decided[i] # None => request[i].at = "over"

\* Who decides on an item alone knows it as it is.
DecidersInformed ==
    \A r \in Requests : request[r].at = "store" /\ request[r].item \notin crossed =>
        /\ request[request[r].item].at = "over"
        /\ items[request[r].item] # None => request[r].copy = items[request[r].item]
        /\ \A q \in Requests \ {r} : request[q].at = "store" => request[q].item # request[r].item

ReviewWhole == ReviewTyped /\ ItemsCreated /\ DecidersInformed /\ Reviews!DecisionIsWhole
\* At the start there is no item and nobody decides.
LEMMA ReviewAtStart == Reviews!Init => ReviewWhole
  BY DEF Reviews!Init, ReviewWhole, ReviewTyped, ItemsCreated, DecidersInformed, Reviews!DecisionIsWhole

\* Flagging, deciding, deleting and purging in any order keep what is shown whole.
LEMMA ReviewStays ==
  ASSUME Reviews!ReviewsAssumption, ReviewWhole, [Reviews!Next]_reviewVars
  PROVE  ReviewWhole'
<1> USE DEF ReviewWhole, ReviewTyped, Shown, Decision, Reviews!Verdicts
<1>1. ASSUME NEW r \in Requests, Reviews!Flag(r) PROVE ReviewWhole'
  <2>1. ReviewTyped'
    BY <1>1 DEF Reviews!Flag, Reviews!To
  <2>2. ItemsCreated' /\ Reviews!DecisionIsWhole'
    BY <1>1 DEF Reviews!Flag, Reviews!To, ItemsCreated, Reviews!DecisionIsWhole
  <2>3. DecidersInformed'
    BY <1>1 DEF Reviews!Flag, Reviews!To, DecidersInformed
  <2> QED
    BY <2>1, <2>2, <2>3
<1>2. ASSUME NEW r \in Requests, Reviews!Insert(r) PROVE ReviewWhole'
  <2>1. ReviewTyped'
    BY <1>2 DEF Reviews!Insert, Reviews!To
  <2>2. ItemsCreated'
    BY <1>2 DEF Reviews!Insert, Reviews!To, ItemsCreated
  <2>3. DecidersInformed'
    BY <1>2 DEF Reviews!Insert, Reviews!To, DecidersInformed
  <2>4. decided[r] = None
    BY <1>2 DEF Reviews!Insert, ItemsCreated
  <2>5. Reviews!DecisionIsWhole'
    BY <1>2, <2>4 DEF Reviews!Insert, Reviews!To, Reviews!DecisionIsWhole
  <2> QED
    BY <2>1, <2>2, <2>3, <2>5
<1>3. ASSUME NEW r \in Requests, NEW i \in Requests, NEW v \in Reviews!Verdicts, NEW c \in Comments,
             Reviews!Select(r, i, v, c)
      PROVE  ReviewWhole'
  <2>1. ReviewTyped'
    BY <1>3 DEF Reviews!Select
  <2>2. ItemsCreated' /\ Reviews!DecisionIsWhole'
    BY <1>3 DEF Reviews!Select, ItemsCreated, Reviews!DecisionIsWhole
  <2>3. DecidersInformed'
    BY <1>3 DEF Reviews!Select, DecidersInformed, ItemsCreated
  <2> QED
    BY <2>1, <2>2, <2>3
<1>4. ASSUME NEW r \in Requests, Reviews!Store(r) PROVE ReviewWhole'
  <2>1. CASE UNCHANGED <<items, decided>>
    BY <1>4, <2>1 DEF Reviews!Store, Reviews!To, ItemsCreated, DecidersInformed, Reviews!DecisionIsWhole
  <2>2. CASE items[request[r].item] # None /\ ~ UNCHANGED <<items, decided>>
    <3> DEFINE i == request[r].item
               decision == [status |-> request[r].verdict, comment |-> request[r].comment]
               row == [c \in DOMAIN items[i] |->
                          IF decision[c] = request[r].copy[c] THEN items[i][c] ELSE decision[c]]
    <3>1. /\ i \in Requests /\ items[i] \in Shown /\ decision \in Decision
          /\ request' = [request EXCEPT ![r].at = "over"] /\ crossed' = crossed /\ token' = token
      BY <1>4, <2>2 DEF Reviews!Store, Reviews!To
    <3>2. items' = [items EXCEPT ![i] = row] /\ decided' = [decided EXCEPT ![i] = decision]
      BY <1>4, <2>2 DEF Reviews!Store
    <3>3. row \in Shown
      BY <3>1
    <3>4. i \notin crossed => row = decision
      BY <1>4, <2>2, <3>1 DEF Reviews!Store, DecidersInformed
    <3>5. ReviewTyped'
      <4> HIDE DEF i, row, decision
      <4>1. /\ items' \in [Requests -> Shown \cup {None}]
            /\ decided' \in [Requests -> Decision \cup {None}]
            /\ crossed' \subseteq Requests
        BY <3>1, <3>2, <3>3
      <4>2. \A q \in Requests : request'[q] = IF q = r THEN [request[r] EXCEPT !.at = "over"]
                                              ELSE request[q]
        BY <3>1
      <4>3. request' \in [Requests -> [at : {"new", "insert", "store", "over"},
                                     item : Requests \cup {None},
                                     verdict : Reviews!Verdicts \cup {"none"},
                                     comment : Comments \cup {None}, copy : Shown \cup {None}]]
        BY <3>1
      <4>4. \A q \in Requests : request'[q].at = "store" => request'[q] = request[q]
        BY <4>2
      <4> QED
        BY <3>1, <4>1, <4>3, <4>4
    <3>6. ItemsCreated'
      BY <2>2, <3>1, <3>2 DEF ItemsCreated
    <3>7. DecidersInformed'
      BY <1>4, <3>1, <3>2 DEF Reviews!Store, DecidersInformed
    <3>8. Reviews!DecisionIsWhole'
      BY <3>1, <3>2, <3>4 DEF Reviews!DecisionIsWhole, Reviews!ReviewsAssumption
    <3> QED
      BY <3>5, <3>6, <3>7, <3>8
  <2> QED
    BY <1>4, <2>1, <2>2 DEF Reviews!Store
<1>5. CASE Reviews!DeleteOrRecover
  BY <1>5 DEF Reviews!DeleteOrRecover, ItemsCreated, DecidersInformed, Reviews!DecisionIsWhole
<1>6. CASE Reviews!Purge
  <2>1. \A i \in Requests : items'[i] = None
    BY <1>6 DEF Reviews!Purge
  <2>2. ReviewTyped'
    BY <1>6 DEF Reviews!Purge
  <2>3. ItemsCreated' /\ DecidersInformed' /\ Reviews!DecisionIsWhole'
    BY <1>6, <2>1 DEF Reviews!Purge, ItemsCreated, DecidersInformed, Reviews!DecisionIsWhole
  <2> QED
    BY <2>2, <2>3
<1>7. CASE UNCHANGED reviewVars
  BY <1>7 DEF reviewVars, ItemsCreated, DecidersInformed, Reviews!DecisionIsWhole
<1> HIDE DEF ReviewWhole, ReviewTyped, Shown, Decision, Reviews!Verdicts
<1> QED
  BY <1>1, <1>2, <1>3, <1>4, <1>5, <1>6, <1>7 DEF Reviews!Next, reviewVars

LEMMA ReviewIsWhole == ReviewWhole => Reviews!TypeOK /\ Reviews!DecisionIsWhole
  BY DEF ReviewWhole, ReviewTyped, Shown, Reviews!TypeOK

\* An item that only one request at a time decides on shows the last decision with the comment
\* that was made with it, although no status is checked (web/routes.py:607).
THEOREM LastDecisionShown == Spec => []DecisionIsWhole
<1> DEFINE Inv == part = "review" => ReviewWhole
<1>1. Init => Inv
  BY ReviewAtStart DEF Init
<1>2. Inv /\ [Next]_vars => Inv'
  <2> SUFFICES ASSUME Inv, [Next]_vars, part' = "review" PROVE ReviewWhole'
    OBVIOUS
  <2>1. ReviewWhole /\ [Reviews!Next]_reviewVars
    BY StepsOfAPart
  <2> QED
    BY <2>1, ReviewStays, SiteAssumption
<1>3. Inv => DecisionIsWhole
  BY ReviewIsWhole DEF DecisionIsWhole
<1> QED
  BY <1>1, <1>2, <1>3, PTL DEF Spec

-----------------------------------------------------------------------------
(* The pages of artists *)

Asked == [found : BOOLEAN, picture : Visits \cup {None}]

\* A row that was there once stays, and a task that is about to store has an answer of its own.
PagesTyped ==
    /\ ArtistPages!TypeOK
    /\ selected \in [Visits -> ArtistPages!Row \cup {None}]
    /\ answer \in [Visits -> Asked \cup {None}]
    /\ \A v \in Visits :
          /\ selected[v] # None => cached # None
          /\ visit[v] = "backfill" => selected[v] # None
          /\ lookup[v] # "none" => visit[v] \in {"waiting", "left"}
          /\ lookup[v] \in {"selecting", "storing"} =>
                answer[v] \in Asked /\ answer[v].picture \in {v, None}

\* What was looked up and is not in the row is on its way there.
OnItsWay ==
    \/ mishap \cap {"conflict", "failure"} # {}
    \/ /\ "biography" \in got =>
             \/ cached # None /\ cached.bio # None
             \/ \E v \in Visits : lookup[v] \in {"selecting", "storing"}
       /\ "discography" \in got =>
             \/ cached # None /\ cached.discography # None
             \/ \E v \in Visits : visit[v] \in {"select row", "store"}

\* The picture is from the page of the biography.
PictureFits == cached = None \/ "overlap" \in mishap \/ cached.picture \in {None, cached.bio}

PagesHold == PagesTyped /\ ArtistPages!LatestIsJoined /\ OnItsWay /\ PictureFits

\* At the start nothing is cached and nobody looks anything up.
LEMMA PagesAtStart == ArtistPages!Init => PagesHold
BY DEF ArtistPages!Init, PagesHold, PagesTyped, Asked, OnItsWay, PictureFits,
       ArtistPages!TypeOK, ArtistPages!LatestIsJoined, ArtistPages!Running

\* What a write makes of the row, whoever writes: it has the type of a row, it is not lost, and
\* if it has failed or overlapped, that is known.
LEMMA WriteEffect ==
  ASSUME PagesTyped, NEW v \in Visits,
         NEW insert \in ArtistPages!Row, NEW update, selected[v] # None => update \in ArtistPages!Row,
         ArtistPages!Written(v, insert, update)
  PROVE  /\ cached' \in ArtistPages!Row \cup {None}
         /\ cached # None => cached' # None
         /\ mishap \subseteq mishap' /\ mishap' \subseteq {"conflict", "failure", "overlap"}
         /\ \/ mishap' \cap {"conflict", "failure"} # {} /\ cached' = cached
            \/ selected[v] = None /\ cached = None /\ cached' = insert
            \/ selected[v] # None /\ cached' = update /\ (cached = selected[v] \/ "overlap" \in mishap')
BY SiteAssumption DEF ArtistPages!Written, PagesTyped, ArtistPages!TypeOK, ArtistPages!PagesAssumption

\* Every step of a request and of a lookup keeps what holds of the pages.
LEMMA PagesStay == PagesHold /\ [ArtistPages!Next]_artistVars => PagesHold'
<1> SUFFICES ASSUME PagesHold, [ArtistPages!Next]_artistVars PROVE PagesHold'
  OBVIOUS
<1> USE DEF PagesHold, PagesTyped, Asked, ArtistPages!TypeOK, ArtistPages!LatestIsJoined,
            ArtistPages!Running, ArtistPages!cache, ArtistPages!At, ArtistPages!Task
<1>0. None \notin Visits /\ None \notin ArtistPages!Row
  BY SiteAssumption DEF ArtistPages!PagesAssumption
<1>1. ASSUME NEW v \in Visits, NEW refresh \in BOOLEAN, ArtistPages!OpenInfo(v, refresh)
      PROVE  PagesHold'
  BY ZenonT(60), <1>1 DEF ArtistPages!OpenInfo, OnItsWay, PictureFits
<1>2. ASSUME NEW v \in Visits, NEW refresh \in BOOLEAN, ArtistPages!OpenDiscography(v, refresh)
      PROVE  PagesHold'
  BY <1>2 DEF ArtistPages!OpenDiscography, OnItsWay, PictureFits
<1>3. ASSUME NEW v \in Visits, ArtistPages!ServeInfo(v) PROVE PagesHold'
  <2>1. PICK label \in {"backfill", "left", "start"} :
           /\ visit' = [visit EXCEPT ![v] = label]
           /\ label = "backfill" => cached # None
    BY <1>3 DEF ArtistPages!ServeInfo
  <2>2. /\ selected' = [selected EXCEPT ![v] = cached] /\ visit[v] = "look in cache"
        /\ UNCHANGED <<cached, fresh, registered, lookup, answer, newest, got, mishap>>
    BY <1>3 DEF ArtistPages!ServeInfo
  <2>3. OnItsWay' /\ PictureFits'
    BY <2>1, <2>2 DEF OnItsWay, PictureFits
  <2> QED
    BY <2>1, <2>2, <2>3
<1>4. ASSUME NEW v \in Visits, ArtistPages!Backfill(v) PROVE PagesHold'
  <2>1. /\ visit[v] = "backfill" /\ visit' = [visit EXCEPT ![v] = "left"]
        /\ cached \in ArtistPages!Row /\ selected[v] \in ArtistPages!Row
        /\ UNCHANGED <<fresh, registered, lookup, answer, selected, newest, got>>
        /\ mishap \subseteq mishap' /\ mishap' \subseteq mishap \cup {"overlap"}
    BY <1>4 DEF ArtistPages!Backfill
  <2>2. CASE cached' = [cached EXCEPT !.picture = selected[v].bio]
    <3>1. /\ cached' \in ArtistPages!Row /\ cached'.picture = selected[v].bio
          /\ cached'.bio = cached.bio /\ cached'.discography = cached.discography
      BY <2>1, <2>2 DEF ArtistPages!Row
    <3>2. cached' # None
      BY <1>0, <3>1
    <3>3. OnItsWay'
      BY <2>1, <3>1, <3>2 DEF OnItsWay
    <3>4. PictureFits'
      BY <1>4, <2>1, <3>1, <3>2 DEF ArtistPages!Backfill, PictureFits
    <3> QED
      BY <2>1, <3>1, <3>2, <3>3, <3>4
  <2>3. CASE UNCHANGED cached
    BY <2>1, <2>3 DEF OnItsWay, PictureFits
  <2> QED
    BY <1>4, <2>2, <2>3 DEF ArtistPages!Backfill
<1>5. ASSUME NEW v \in Visits, ArtistPages!StartJob(v) PROVE PagesHold'
  <2>1. PagesTyped' /\ ArtistPages!LatestIsJoined'
    BY <1>5 DEF ArtistPages!StartJob
  <2>2. /\ \A u \in Visits : lookup[u] \in {"selecting", "storing"} /\ u # v =>
              lookup'[u] \in {"selecting", "storing"}
        /\ \A u \in Visits : visit[u] \in {"select row", "store"} =>
              visit'[u] \in {"select row", "store"}
    BY <1>5 DEF ArtistPages!StartJob
  <2>3. OnItsWay' /\ PictureFits'
    BY <1>5, <2>2 DEF ArtistPages!StartJob, OnItsWay, PictureFits
  <2> QED
    BY <2>1, <2>3
<1>6. ASSUME NEW v \in Visits, ArtistPages!Resolve(v) PROVE PagesHold'
  <2>1. /\ lookup[v] = "resolving"
        /\ UNCHANGED <<cached, fresh, registered, visit, selected, newest, mishap>>
    BY <1>6 DEF ArtistPages!Resolve
  <2>2. CASE lookup' = [lookup EXCEPT ![v] = "over"] /\ UNCHANGED <<answer, got>>
    BY <2>1, <2>2 DEF OnItsWay, PictureFits
  <2>3. ASSUME NEW there \in BOOLEAN, NEW picture \in BOOLEAN,
               answer' = [answer EXCEPT ![v] = [found |-> there,
                                 picture |-> IF there /\ picture THEN v ELSE None]],
               lookup' = [lookup EXCEPT ![v] = "selecting"], got' = got \cup {"biography"}
        PROVE  PagesHold'
    <3> DEFINE a == [found |-> there, picture |-> IF there /\ picture THEN v ELSE None]
    <3>1. a \in Asked /\ a.picture \in {v, None} /\ answer' = [answer EXCEPT ![v] = a]
      BY <2>3
    <3> HIDE DEF a
    <3>5. answer' \in [Visits -> Asked \cup {None}] /\ answer'[v] = a
      BY <3>1
    <3>6. \A u \in Visits : lookup'[u] \in {"selecting", "storing"} =>
             answer'[u] \in Asked /\ answer'[u].picture \in {u, None}
      <4> SUFFICES ASSUME NEW u \in Visits, lookup'[u] \in {"selecting", "storing"}
                   PROVE  answer'[u] \in Asked /\ answer'[u].picture \in {u, None}
        OBVIOUS
      <4> CASE u = v
        BY <3>1, <3>5
      <4> CASE u # v
        BY <2>3, <3>1
      <4> QED
        OBVIOUS
    <3>2. PagesTyped'
      BY <2>1, <2>3, <3>5, <3>6
    <3>4. ArtistPages!LatestIsJoined'
      BY <2>1, <2>3
    <3>3. OnItsWay' /\ PictureFits'
      BY <2>1, <2>3 DEF OnItsWay, PictureFits
    <3> QED
      BY <3>2, <3>3, <3>4
  <2> QED
    BY <1>6, <2>2, <2>3 DEF ArtistPages!Resolve
<1>7. ASSUME NEW v \in Visits, ArtistPages!Select(v) PROVE PagesHold'
  BY ZenonT(60), <1>7 DEF ArtistPages!Select, OnItsWay, PictureFits
<1>8. ASSUME NEW v \in Visits, ArtistPages!StoreBio(v) PROVE PagesHold'
  <2> DEFINE old == selected[v]
             bio == [ArtistPages!NewRow EXCEPT !.bio = v, !.found = answer[v].found,
                                               !.picture = answer[v].picture]
             update == [bio EXCEPT !.picture = ArtistPages!Column(old.picture, cached.picture, @),
                                   !.discography = cached.discography]
  <2>1. /\ lookup[v] = "storing" /\ lookup' = [lookup EXCEPT ![v] = "over"]
        /\ UNCHANGED <<fresh, registered, visit, answer, selected, newest, got>>
        /\ answer[v] \in Asked /\ answer[v].picture \in {v, None}
    BY <1>8 DEF ArtistPages!StoreBio
  <2>2. bio \in ArtistPages!Row
    BY <2>1 DEF ArtistPages!NewRow, ArtistPages!Row
  <2>3. selected[v] # None => update \in ArtistPages!Row
    BY <2>1, <2>2 DEF ArtistPages!Row, ArtistPages!Column
  <2>4. ArtistPages!Written(v, bio, update)
    BY <1>8 DEF ArtistPages!StoreBio
  <2>5. /\ cached' \in ArtistPages!Row \cup {None} /\ (cached # None => cached' # None)
        /\ mishap \subseteq mishap' /\ mishap' \subseteq {"conflict", "failure", "overlap"}
        /\ \/ mishap' \cap {"conflict", "failure"} # {} /\ cached' = cached
           \/ selected[v] = None /\ cached = None /\ cached' = bio
           \/ selected[v] # None /\ cached' = update /\ (cached = selected[v] \/ "overlap" \in mishap')
    <3> HIDE DEF bio, update, PagesTyped
    <3> QED
      BY <2>2, <2>3, <2>4, WriteEffect
  <2>6. PagesTyped' /\ ArtistPages!LatestIsJoined'
    BY <2>1, <2>5
  <2>7. /\ bio.bio = v /\ bio.picture \in {v, None}
        /\ update.bio = v /\ update.discography = cached.discography
        /\ cached = selected[v] => update.picture \in {v, None}
    BY <2>1 DEF ArtistPages!Column, ArtistPages!NewRow
  <2> HIDE DEF bio, update
  <2>8. mishap' \cap {"conflict", "failure"} = {} =>
           /\ cached' # None /\ cached'.bio = v /\ mishap \cap {"conflict", "failure"} = {}
           /\ cached = None \/ cached'.discography = cached.discography
    BY ZenonT(60), <1>0, <2>2, <2>3, <2>5, <2>7
  <2>9. OnItsWay'
    BY ZenonT(60), <1>0, <2>1, <2>8 DEF OnItsWay
  <2>10. PictureFits'
    BY <2>5, <2>7 DEF PictureFits
  <2> QED
    BY <2>6, <2>9, <2>10
<1>9. ASSUME NEW v \in Visits, ArtistPages!JobDone(v) PROVE PagesHold'
  BY <1>9 DEF ArtistPages!JobDone, OnItsWay, PictureFits
<1>10. ASSUME NEW v \in Visits, ArtistPages!FetchDiscography(v) PROVE PagesHold'
  <2>1. /\ visit[v] = "fetch" /\ UNCHANGED <<cached, registered, lookup, answer, selected, newest, mishap>>
        /\ \/ visit' = [visit EXCEPT ![v] = "left"] /\ UNCHANGED got
           \/ visit' = [visit EXCEPT ![v] = "select row"] /\ got' = got \cup {"discography"}
    BY <1>10 DEF ArtistPages!FetchDiscography
  <2>2. PagesTyped' /\ ArtistPages!LatestIsJoined'
    BY <1>10, <2>1 DEF ArtistPages!FetchDiscography
  <2>3. OnItsWay' /\ PictureFits'
    BY <2>1 DEF OnItsWay, PictureFits
  <2> QED
    BY <2>2, <2>3
<1>11. ASSUME NEW v \in Visits, ArtistPages!StoreDiscography(v) PROVE PagesHold'
  <2> DEFINE new == [ArtistPages!NewRow EXCEPT !.discography = v]
             update == [cached EXCEPT !.discography = v]
  <2>1. /\ visit[v] = "store" /\ visit' = [visit EXCEPT ![v] = "left"]
        /\ UNCHANGED <<registered, lookup, answer, selected, newest, got>>
    BY <1>11 DEF ArtistPages!StoreDiscography
  <2>2. new \in ArtistPages!Row
    BY DEF ArtistPages!NewRow, ArtistPages!Row
  <2>3. selected[v] # None =>
           /\ update \in ArtistPages!Row /\ update.bio = cached.bio
           /\ update.picture = cached.picture /\ update.discography = v
    BY DEF ArtistPages!Row
  <2>4. ArtistPages!Written(v, new, update)
    BY <1>11 DEF ArtistPages!StoreDiscography
  <2>5. /\ cached' \in ArtistPages!Row \cup {None} /\ (cached # None => cached' # None)
        /\ mishap \subseteq mishap' /\ mishap' \subseteq {"conflict", "failure", "overlap"}
        /\ \/ mishap' \cap {"conflict", "failure"} # {} /\ cached' = cached
           \/ selected[v] = None /\ cached = None /\ cached' = new
           \/ selected[v] # None /\ cached' = update /\ (cached = selected[v] \/ "overlap" \in mishap')
    <3> HIDE DEF new, update, PagesTyped
    <3> QED
      BY <2>2, <2>3, <2>4, WriteEffect
  <2>6. PagesTyped' /\ ArtistPages!LatestIsJoined'
    BY <2>1, <2>5
  <2>7. new.discography = v /\ new.picture = None
    BY DEF ArtistPages!NewRow
  <2> HIDE DEF new, update
  <2>8. mishap' \cap {"conflict", "failure"} = {} =>
           /\ cached' # None /\ cached'.discography = v
           /\ mishap \cap {"conflict", "failure"} = {}
           /\ cached = None \/ cached'.bio = cached.bio
    <3> SUFFICES ASSUME mishap' \cap {"conflict", "failure"} = {}
                 PROVE  /\ cached' # None /\ cached'.discography = v
                        /\ mishap \cap {"conflict", "failure"} = {}
                        /\ cached = None \/ cached'.bio = cached.bio
      OBVIOUS
    <3>1. mishap \cap {"conflict", "failure"} = {}
      BY <2>5
    <3>2. CASE selected[v] = None /\ cached = None /\ cached' = new
      BY <1>0, <2>2, <2>7, <3>1, <3>2
    <3>3. CASE selected[v] # None /\ cached' = update
      BY <1>0, <2>3, <3>1, <3>3
    <3> QED
      BY <2>5, <3>2, <3>3
  <2>9. OnItsWay'
    BY ZenonT(60), <1>0, <2>1, <2>8 DEF OnItsWay
  <2>10. PictureFits'
    BY <2>3, <2>5, <2>7 DEF PictureFits
  <2> QED
    BY <2>6, <2>9, <2>10
<1>12. ASSUME NEW v \in Visits, ArtistPages!Leave(v) PROVE PagesHold'
  BY <1>12 DEF ArtistPages!Leave, OnItsWay, PictureFits
<1>13. CASE ArtistPages!Midnight
  BY <1>13 DEF ArtistPages!Midnight, OnItsWay, PictureFits
<1>14. CASE UNCHANGED artistVars
  BY <1>14 DEF artistVars, OnItsWay, PictureFits
<1> HIDE DEF PagesHold, PagesTyped
<1> QED
  BY <1>1, <1>2, <1>3, <1>4, <1>5, <1>6, <1>7, <1>8, <1>9, <1>10, <1>11, <1>12, <1>13, <1>14
  DEF ArtistPages!Next, artistVars

\* So it holds of the pages in every behaviour that is about them.
LEMMA PagesAlwaysHold == Spec => [](part = "artist" => PagesHold)
<1> DEFINE Inv == part = "artist" => PagesHold
<1>1. Init => Inv
  BY PagesAtStart DEF Init
<1>2. Inv /\ [Next]_vars => Inv'
  <2> SUFFICES ASSUME Inv, [Next]_vars, part' = "artist" PROVE PagesHold'
    OBVIOUS
  <2>1. PagesHold /\ [ArtistPages!Next]_artistVars
    BY StepsOfAPart
  <2> QED
    BY <2>1, PagesStay
<1> QED
  BY <1>1, <1>2, PTL DEF Spec

\* While the lookup that was started last is running it is the one that requests join, and one
\* that is over is joined by nobody, however many requests start one each
\* (web/artists.py:273, :392).
THEOREM RequestsJoinTheLatest == Spec => []LatestIsJoined
<1>1. (part = "artist" => PagesHold) => LatestIsJoined
  BY DEF LatestIsJoined, PagesHold, PagesTyped
<1> QED
  BY <1>1, PagesAlwaysHold, PTL

\* What was looked up is in the row once nobody is at work, unless two requests inserted it at once
\* or a write failed, and the picture is from the page of the biography (web/artists.py:488).
THEOREM LookupsAreCached == Spec => []CacheIsComplete
<1>1. (part = "artist" => PagesHold) => CacheIsComplete
  <2> SUFFICES ASSUME PagesHold PROVE ArtistPages!CacheIsComplete
    BY DEF CacheIsComplete
  <2> QED
    BY DEF PagesHold, OnItsWay, PictureFits, ArtistPages!CacheIsComplete
<1> QED
  BY <1>1, PagesAlwaysHold, PTL

-----------------------------------------------------------------------------
(* The background *)

Operations == {"none", "upload", "view", "video", "image", "width", "cover", "reset"}

\* The requests that make their change to a copy.
Copies(r) == saving[r].at = "put" \/ (saving[r].at = "save" /\ saving[r].op # "reset")

\* What a request has that is about to change the setting: a copy of it, unless it resets it, and
\* its files in the object store.
ChangesTyped ==
    /\ Background!TypeOK
    /\ saving \in [Requests -> [at : {"new", "select", "keep", "put", "save", "forget", "over"},
                                op : Operations, slots : SUBSET Background!Slots,
                                copy : Background!Setting \cup {None}]]
    /\ \A r \in Requests :
          /\ saving[r].at \notin {"new", "over"} => saving[r].op # "none"
          /\ saving[r].at \in {"put", "save", "forget"} => saving[r].op # "view"
          /\ saving[r].at = "keep" \/ Copies(r) => saving[r].copy \in Background!Setting
          /\ saving[r].at = "put" => saving[r].op = "upload"
          /\ saving[r].at = "save" /\ saving[r].op = "upload" =>
                \A slot \in saving[r].slots : <<r, slot>> \in objects

\* A setting that can be shown: its files are stored, and both formats are from one upload.
Showable(setting) ==
    /\ \A slot \in Background!Slots : setting[slot] # None => <<setting[slot], slot>> \in objects
    /\ None \notin {setting.mp4, setting.webm} => setting.mp4 = setting.webm

AllShowable ==
    /\ stored # None => Showable(stored)
    /\ kept # None => Showable(kept)
    /\ \A r \in Requests : saving[r].copy # None => Showable(saving[r].copy)

\* As long as nothing has slipped one admin is at work, whose copy is the setting, and so is the
\* cached one until it is dropped.
OneAdmin ==
    slips = {} =>
        /\ \A q, r \in Background!Posts : q = r
        /\ \A r \in Requests : Copies(r) => saving[r].copy = Background!Normalised(stored)
        /\ \/ kept \in {None, Background!Normalised(stored)}
           \/ \E r \in Requests : saving[r].at = "forget"

BackgroundHolds == ChangesTyped /\ AllShowable /\ OneAdmin /\ Background!StoredAsAsked

\* At the start there is no setting and no request.
LEMMA BackgroundAtStart == Background!Init => BackgroundHolds
<1> SUFFICES ASSUME Background!Init PROVE BackgroundHolds
  OBVIOUS
<1>1. Background!default_setting \in Background!Setting
  BY DEF Background!default_setting, Background!Setting
<1> QED
  BY <1>1 DEF Background!Init, BackgroundHolds, ChangesTyped, AllShowable, OneAdmin, Operations, Copies,
     Background!Normalised, Background!TypeOK, Background!Posts, Background!StoredAsAsked

\* What a request asks for is a setting again,
LEMMA ChangedIsSetting ==
  ASSUME NEW r \in Requests, NEW setting \in Background!Setting,
         saving[r].op \in Operations \ {"none", "view"}, saving[r].slots \subseteq Background!Slots
  PROVE  Background!Changed(setting, r) \in Background!Setting
BY DEF Background!Changed, Background!WithFiles, Background!Setting, Background!default_setting,
       Operations, Background!Slots

\* which can be shown if the one before could, and if the new files are stored.
LEMMA ChangedIsShowable ==
  ASSUME NEW r \in Requests, NEW setting \in Background!Setting,
         saving[r].op \in Operations \ {"none", "view"}, saving[r].slots \subseteq Background!Slots,
         saving[r].op = "reset" \/ Showable(setting),
         saving[r].op = "upload" => \A slot \in saving[r].slots : <<r, slot>> \in objects
  PROVE  Showable(Background!Changed(setting, r))
BY SiteAssumption
   DEF Background!Changed, Background!WithFiles, Background!Setting, Background!default_setting,
       Operations, Showable, Background!Slots, Background!BackgroundAssumption

\* Every step of an admin, of a page and of the process keeps what holds of the background.
LEMMA BackgroundStays == BackgroundHolds /\ [Background!Next]_backgroundVars => BackgroundHolds'
<1> SUFFICES ASSUME BackgroundHolds, [Background!Next]_backgroundVars PROVE BackgroundHolds'
  OBVIOUS
<1> USE DEF BackgroundHolds, ChangesTyped, Background!TypeOK
<1>0. /\ None \notin Background!Setting /\ None \notin Requests
      /\ Background!default_setting \in Background!Setting
  BY SiteAssumption DEF Background!BackgroundAssumption, Background!default_setting, Background!Setting
<1>1. ASSUME NEW r \in Requests, NEW op \in Changes \cup {"upload"}, NEW slots \in Uploads \cup {{}},
             Background!Open(r, op, slots)
      PROVE  BackgroundHolds'
  <2>1. op \in Operations /\ op # "none" /\ slots \subseteq Background!Slots
    BY <1>1, SiteAssumption DEF Background!BackgroundAssumption, Operations
  <2> DEFINE label == IF op = "reset" THEN "save"
                      ELSE IF kept # None THEN Background!Onward(op) ELSE "select"
  <2>2. /\ saving[r].at = "new" /\ UNCHANGED <<stored, objects, kept, wanted>>
        /\ saving' = [saving EXCEPT ![r] = [at |-> label, op |-> op, slots |-> slots, copy |-> kept]]
        /\ slips' = slips \cup IF op # "view" /\ Background!Posts # {} THEN {"overlap"} ELSE {}
    BY <1>1 DEF Background!Open
  <2>3. label \in {"save", "over", "put", "select"} /\ (label = "put" => op = "upload")
        /\ (op = "upload" => label # "save") /\ (op = "view" => label \notin {"save", "put"})
        /\ (label \notin {"select", "save"} \/ (label = "save" /\ op # "reset") => kept # None)
    BY <2>1 DEF Background!Onward, Operations
  <2> HIDE DEF label
  <2>4. ChangesTyped'
    BY <2>1, <2>2, <2>3 DEF Copies
  <2>5. AllShowable'
    BY <2>2 DEF AllShowable, Showable
  <2>6. OneAdmin'
    BY <2>1, <2>2, <2>3 DEF OneAdmin, Background!Posts, Copies
  <2> QED
    BY <2>2, <2>4, <2>5, <2>6 DEF Background!StoredAsAsked
<1>2. ASSUME NEW r \in Requests, Background!Select(r) PROVE BackgroundHolds'
  <2>1. PICK setting \in Background!Setting :
           /\ saving' = [saving EXCEPT ![r].at = "keep", ![r].copy = setting]
           /\ setting \in {Background!default_setting, stored}
    BY <1>0, <1>2 DEF Background!Select, Background!Normalised
  <2>2. /\ saving[r].at = "select" /\ slips \subseteq slips' /\ slips' \subseteq slips \cup {"misread"}
        /\ UNCHANGED <<stored, objects, kept, wanted>>
    BY <1>2 DEF Background!Select
  <2>3. ChangesTyped'
    BY ZenonT(60), <2>1, <2>2 DEF Copies
  <2>4. Showable(setting)
    BY <1>0, <2>1 DEF AllShowable, Showable, Background!default_setting, Background!Slots
  <2>5. AllShowable'
    BY <2>1, <2>2, <2>4 DEF AllShowable, Showable
  <2>6. OneAdmin'
    BY <2>1, <2>2 DEF OneAdmin, Background!Posts, Copies
  <2> QED
    BY <2>2, <2>3, <2>5, <2>6 DEF Background!StoredAsAsked
<1>3. ASSUME NEW r \in Requests, Background!Keep(r) PROVE BackgroundHolds'
  <2> DEFINE label == Background!Onward(saving[r].op)
  <2>1. /\ saving[r].at = "keep" /\ kept' = saving[r].copy /\ saving' = [saving EXCEPT ![r].at = label]
        /\ slips' = slips \cup IF saving[r].copy # Background!Normalised(stored) THEN {"late"} ELSE {}
        /\ UNCHANGED <<stored, objects, wanted>>
    BY <1>3 DEF Background!Keep
  <2>2. /\ label \in {"over", "put", "save"} /\ (label = "put" => saving[r].op = "upload")
        /\ saving[r].op = "upload" => label # "save"
        /\ saving[r].op = "view" => label = "over"
    BY DEF Background!Onward
  <2> HIDE DEF label
  <2>3. saving[r].op # "none"
    BY <2>1
  <2>4. ChangesTyped'
    BY <2>1, <2>2, <2>3 DEF Copies
  <2>5. AllShowable'
    BY <2>1 DEF AllShowable, Showable
  <2>6. OneAdmin'
    BY <2>1, <2>2 DEF OneAdmin, Background!Posts, Copies
  <2> QED
    BY <2>1, <2>4, <2>5, <2>6 DEF Background!StoredAsAsked
<1>4. ASSUME NEW r \in Requests, Background!Put(r) PROVE BackgroundHolds'
  BY <1>4 DEF Background!Put, AllShowable, Showable, OneAdmin, Background!Posts, Copies,
     Background!StoredAsAsked
<1>5. ASSUME NEW r \in Requests, Background!Save(r) PROVE BackgroundHolds'
  <2>1. saving[r].at = "save" /\ UNCHANGED <<objects, kept, slips>>
    BY <1>5 DEF Background!Save
  <2>2. CASE saving' = [saving EXCEPT ![r].at = "over"] /\ UNCHANGED <<stored, wanted>>
    BY <2>1, <2>2 DEF AllShowable, Showable, OneAdmin, Background!Posts, Copies,
       Background!StoredAsAsked
  <2>3. CASE /\ stored' = Background!Changed(saving[r].copy, r)
             /\ wanted' = Background!Changed(wanted, r)
             /\ saving' = [saving EXCEPT ![r].at = "forget"]
    <3>1. saving[r].op \in Operations \ {"none", "view"} /\ saving[r].slots \subseteq Background!Slots
      BY <2>1
    <3>2. saving[r].op = "reset" \/ saving[r].copy \in Background!Setting
      BY <2>1 DEF Copies
    <3>3. saving[r].op = "reset" =>
             \A s : Background!Changed(s, r) = Background!default_setting
      BY DEF Background!Changed
    <3>4. /\ Background!Changed(saving[r].copy, r) \in Background!Setting
          /\ Background!Changed(wanted, r) \in Background!Setting
      <4>1. Background!Changed(wanted, r) \in Background!Setting
        BY <3>1, ChangedIsSetting
      <4>2. CASE saving[r].op = "reset"
        BY <1>0, <3>3, <4>1, <4>2
      <4>3. CASE saving[r].copy \in Background!Setting
        BY <3>1, <4>1, <4>3, ChangedIsSetting
      <4> QED
        BY <3>2, <4>2, <4>3
    <3>5. ChangesTyped'
      BY <2>1, <2>3, <3>4 DEF Copies
    <3>6. Showable(Background!Changed(saving[r].copy, r))
      <4>1. saving[r].op = "upload" => \A slot \in saving[r].slots : <<r, slot>> \in objects
        BY <2>1
      <4>2. CASE saving[r].op = "reset"
        <5>1. Showable(Background!Changed(wanted, r))
          BY <3>1, <4>1, <4>2, ChangedIsShowable
        <5> QED
          BY <3>3, <4>2, <5>1
      <4>3. CASE saving[r].copy \in Background!Setting
        <5>1. Showable(saving[r].copy)
          BY <1>0, <4>3 DEF AllShowable
        <5> QED
          BY <3>1, <4>1, <4>3, <5>1, ChangedIsShowable
      <4> QED
        BY <3>2, <4>2, <4>3
    <3>7. AllShowable'
      BY <2>1, <2>3, <3>6 DEF AllShowable, Showable
    <3>8. ASSUME slips = {}
          PROVE  /\ Background!Normalised(stored') = stored'
                 /\ stored' = wanted'
      <4>1. Background!Normalised(stored') = stored'
        BY <1>0, <2>3, <3>4 DEF Background!Normalised
      <4>2. CASE saving[r].op = "reset"
        BY <2>3, <3>3, <4>1, <4>2
      <4>3. CASE saving[r].op # "reset"
        <5>1. saving[r].copy = wanted
          BY <2>1, <3>8, <4>3 DEF OneAdmin, Copies, Background!StoredAsAsked
        <5> QED
          BY <2>3, <4>1, <5>1
      <4> QED
        BY <4>2, <4>3
    <3>9. Background!StoredAsAsked'
      BY <2>1, <3>8 DEF Background!StoredAsAsked, Background!Normalised
    <3>10. OneAdmin'
      <4> SUFFICES ASSUME slips = {} PROVE OneAdmin'
        BY <2>1 DEF OneAdmin
      <4>1. r \in Background!Posts /\ Background!Posts' = Background!Posts
        BY <2>1, <2>3, <3>1 DEF Background!Posts
      <4>2. \A q \in Requests : ~ Copies(q)'
        BY <2>1, <2>3, <4>1 DEF OneAdmin, Background!Posts, Copies
      <4>3. saving'[r].at = "forget"
        BY <2>3
      <4> QED
        BY <2>1, <4>1, <4>2, <4>3 DEF OneAdmin
    <3> QED
      BY <3>5, <3>7, <3>9, <3>10
  <2> QED
    BY <1>5, <2>2, <2>3 DEF Background!Save
<1>6. ASSUME NEW r \in Requests, Background!Forget(r) PROVE BackgroundHolds'
  BY <1>6 DEF Background!Forget, AllShowable, Showable, OneAdmin, Background!Posts, Copies,
     Background!StoredAsAsked
<1>7. CASE Background!Expire
  BY <1>7 DEF Background!Expire, AllShowable, Showable, OneAdmin, Background!Posts, Copies,
     Background!StoredAsAsked
<1>8. CASE Background!Restart
  BY <1>8 DEF Background!Restart, AllShowable, Showable, OneAdmin, Background!Posts, Copies,
     Background!StoredAsAsked
<1>9. CASE UNCHANGED backgroundVars
  BY <1>9 DEF backgroundVars, AllShowable, Showable, OneAdmin, Background!Posts, Copies,
     Background!StoredAsAsked
<1> HIDE DEF BackgroundHolds, ChangesTyped
<1>10. ASSUME NEW r \in Requests, NEW op \in Changes, Background!Open(r, op, {}) PROVE BackgroundHolds'
  BY <1>1, <1>10
<1>11. ASSUME NEW r \in Requests, NEW slots \in Uploads, Background!Open(r, "upload", slots)
       PROVE  BackgroundHolds'
  BY <1>1, <1>11
<1> QED
  BY <1>2, <1>3, <1>4, <1>5, <1>6, <1>7, <1>8, <1>9, <1>10, <1>11
  DEF Background!Next, backgroundVars

\* So it holds of the background in every behaviour that is about it.
LEMMA BackgroundAlwaysHolds == Spec => [](part = "background" => BackgroundHolds)
<1> DEFINE Inv == part = "background" => BackgroundHolds
<1>1. Init => Inv
  BY BackgroundAtStart DEF Init
<1>2. Inv /\ [Next]_vars => Inv'
  <2> SUFFICES ASSUME Inv, [Next]_vars, part' = "background" PROVE BackgroundHolds'
    OBVIOUS
  <2>1. BackgroundHolds /\ [Background!Next]_backgroundVars
    BY StepsOfAPart
  <2> QED
    BY <2>1, BackgroundStays
<1> QED
  BY <1>1, <1>2, PTL DEF Spec

\* The setting is what the admins were told that is saved, in their order, unless two of them worked
\* at once, a setting was cached late or could not be read (web/background.py:401, :404, :636).
THEOREM SettingIsAsAsked == Spec => []StoredAsAsked
<1>1. (part = "background" => BackgroundHolds) => StoredAsAsked
  BY DEF StoredAsAsked, BackgroundHolds, ChangesTyped
<1> QED
  BY <1>1, BackgroundAlwaysHolds, PTL

\* The stored and the cached setting name files that are in the object store, and an MP4 and a WebM
\* of one upload, whatever copies the changes are made to (web/background.py:594).
THEOREM BrowsersShowOneAnimation == Spec => []OneAnimation
<1>1. (part = "background" => BackgroundHolds) => OneAnimation
  <2> SUFFICES ASSUME BackgroundHolds PROVE Background!OneAnimation
    BY DEF OneAnimation
  <2> QED
    BY DEF BackgroundHolds, AllShowable, Showable, Background!OneAnimation
<1> QED
  BY <1>1, BackgroundAlwaysHolds, PTL

-----------------------------------------------------------------------------
(* Logging in *)

Labels == {"new", "check address", "verify", "record name", "record address", "clear name",
           "clear address", "over"}
Ticket == [at : Labels, name : Names \cup {None}, address : Addresses \cup {None}]

LoginTyped ==
    /\ failures \in [Login!Keys -> SUBSET (Attempts \X (0..Window))]
    /\ wrong \in [Login!Keys -> SUBSET (Attempts \X (0..(Window - 1)))]
    /\ crowd \in [Login!Keys -> Nat]
    /\ attempt \in [Attempts -> Ticket]
    /\ \A a \in Attempts : attempt[a].at \notin {"new", "over"} =>
          attempt[a].name \in Names /\ attempt[a].address \in Addresses

\* The count of a key, and how many attempts are past its check.
CrowdKnown ==
    \A k \in Login!Keys :
        /\ IsFiniteSet(failures[k])
        /\ IsFiniteSet(Login!Past(k)) /\ Cardinality(Login!Past(k)) <= crowd[k]

\* A failure is counted already, no earlier than it happened, or is past the check still.
WrongsKnown ==
    \A k \in Login!Keys :
        /\ \A f, g \in wrong[k] : f[1] = g[1] => f = g
        /\ \A f \in wrong[k] :
              /\ attempt[f[1]].at \in {"record name", "record address", "over"}
              /\ \/ f[1] \in Login!Past(k)
                 \/ \E g \in failures[k] : g[1] = f[1] /\ g[2] <= f[2]

\* The attempts that are counted, and those that may be.
Counted(k) == {f[1] : f \in failures[k]} \cup Login!Past(k)

FewCounted ==
    \A k \in Login!Keys : Cardinality(Counted(k)) <= (MaxAttempts - 1) + crowd[k]

LoginHolds == LoginTyped /\ CrowdKnown /\ WrongsKnown /\ FewCounted

\* Finite sets of pairs: what they begin with is no more, and as many if they begin differently.
LEMMA FirstsAreNoMore ==
  ASSUME NEW S, IsFiniteSet(S)
  PROVE  IsFiniteSet({f[1] : f \in S}) /\ Cardinality({f[1] : f \in S}) <= Cardinality(S)
<1> DEFINE T == {f[1] : f \in S}
           first == [f \in S |-> f[1]]
<1>1. first \in Surjection(S, T)
  BY DEF Surjection
<1> QED
  BY <1>1, FS_Surjection

LEMMA FirstsAreDistinct ==
  ASSUME NEW S, NEW T, IsFiniteSet(T), \A f \in S : f[1] \in T,
         \A f, g \in S : f[1] = g[1] => f = g
  PROVE  IsFiniteSet(S) /\ Cardinality(S) <= Cardinality(T)
<1> DEFINE first == [f \in S |-> f[1]]
<1>1. first \in Injection(S, T)
  BY DEF Injection, IsInjective
<1> QED
  BY <1>1, FS_Injection

LEMMA OlderAreFinite ==
  ASSUME NEW S, IsFiniteSet(S)
  PROVE  IsFiniteSet({<<f[1], f[2] + 1>> : f \in S})
<1> DEFINE T == {<<f[1], f[2] + 1>> : f \in S}
           older == [f \in S |-> <<f[1], f[2] + 1>>]
<1>1. older \in Surjection(S, T)
  BY DEF Surjection
<1> QED
  BY <1>1, FS_Surjection

LEMMA SameCardinality == \A S : Login!Cardinality(S) = Cardinality(S)
BY DEF Login!Cardinality, Cardinality

\* At the start nobody has tried and nothing is counted.
LEMMA LoginAtStart == Login!Init => LoginHolds
<1> SUFFICES ASSUME Login!Init PROVE LoginHolds
  OBVIOUS
<1>1. LoginTyped /\ WrongsKnown
  BY DEF Login!Init, LoginTyped, WrongsKnown, Labels, Ticket
<1>2. \A k \in Login!Keys : Login!Past(k) = {} /\ Counted(k) = {} /\ failures[k] = {} /\ crowd[k] = 0
  BY DEF Login!Init, Login!Past, Counted
<1>3. MaxAttempts \in Nat \ {0}
  BY SiteAssumption DEF Login!LoginAssumption
<1>4. CrowdKnown /\ FewCounted
  BY <1>2, <1>3, FS_EmptySet DEF CrowdKnown, FewCounted
<1> QED
  BY <1>1, <1>4 DEF LoginHolds

\* What a step of an attempt does to the crowds.
LEMMA CrowdEffect ==
  ASSUME LoginHolds, NEW a \in Attempts, NEW to \in Ticket, Login!Set(a, to)
  PROVE  /\ crowd' \in [Login!Keys -> Nat]
         /\ \A k \in Login!Keys :
               /\ Login!Past(k)' \subseteq Login!Past(k) \cup {a}
               /\ IsFiniteSet(Login!Past(k)') /\ Cardinality(Login!Past(k)') <= crowd'[k]
               /\ crowd[k] <= crowd'[k]
<1>1. attempt' = [attempt EXCEPT ![a] = to]
  BY DEF Login!Set
<1>2. \A k \in Login!Keys : Login!Past(k)' \subseteq Login!Past(k) \cup {a}
  BY <1>1 DEF Login!Past, LoginHolds, LoginTyped
<1>3. \A k \in Login!Keys : IsFiniteSet(Login!Past(k)') /\ Cardinality(Login!Past(k)') \in Nat
  <2> SUFFICES ASSUME NEW k \in Login!Keys
               PROVE  IsFiniteSet(Login!Past(k)') /\ Cardinality(Login!Past(k)') \in Nat
    OBVIOUS
  <2>1. IsFiniteSet(Login!Past(k) \cup {a})
    BY FS_AddElement DEF LoginHolds, CrowdKnown
  <2> QED
    BY <1>2, <2>1, FS_Subset, FS_CardinalityType
<1>4. crowd' = [k \in Login!Keys |-> IF Cardinality(Login!Past(k)') > crowd[k]
                                     THEN Cardinality(Login!Past(k)') ELSE crowd[k]]
  BY SameCardinality DEF Login!Set
<1>5. crowd \in [Login!Keys -> Nat]
  BY DEF LoginHolds, LoginTyped
<1> QED
  BY <1>2, <1>3, <1>4, <1>5

\* The bound is kept by a step that counts nobody anew, and by one that lets an attempt past a
\* check, where fewer than the threshold are counted.
LEMMA FewStay ==
  ASSUME LoginHolds, crowd' \in [Login!Keys -> Nat],
         \A k \in Login!Keys :
            /\ IsFiniteSet(failures'[k]) /\ IsFiniteSet(Login!Past(k)')
            /\ Cardinality(Login!Past(k)') <= crowd'[k] /\ crowd[k] <= crowd'[k]
            /\ \/ Counted(k)' \subseteq Counted(k)
               \/ failures'[k] = failures[k] /\ Cardinality(failures[k]) < MaxAttempts
  PROVE  CrowdKnown' /\ FewCounted'
<1>1. CrowdKnown'
  BY DEF CrowdKnown
<1>2. ASSUME NEW k \in Login!Keys
      PROVE  Cardinality(Counted(k)') <= (MaxAttempts - 1) + crowd'[k]
  <2> DEFINE counted == {f[1] : f \in failures[k]}
             past == Login!Past(k)'
  <2>0. MaxAttempts \in Nat /\ crowd[k] \in Nat /\ crowd'[k] \in Nat
    BY SiteAssumption DEF Login!LoginAssumption, LoginHolds, LoginTyped
  <2>1. IsFiniteSet(counted) /\ Cardinality(counted) <= Cardinality(failures[k])
    BY FirstsAreNoMore DEF LoginHolds, CrowdKnown
  <2>2. Cardinality(failures[k]) \in Nat /\ Cardinality(counted) \in Nat /\ Cardinality(past) \in Nat
    <3>1. IsFiniteSet(failures[k]) /\ IsFiniteSet(past)
      BY DEF LoginHolds, CrowdKnown
    <3> HIDE DEF counted, past
    <3> QED
      BY <2>1, <3>1, FS_CardinalityType
  <2>3. CASE Counted(k)' \subseteq Counted(k)
    <3>1. IsFiniteSet(Counted(k))
      BY <2>1, FS_Union DEF Counted, LoginHolds, CrowdKnown
    <3>2. Cardinality(Counted(k)') <= Cardinality(Counted(k))
      BY <2>3, <3>1, FS_Subset
    <3>3. Cardinality(Counted(k)) \in Nat /\ Cardinality(Counted(k)') \in Nat
      <4>1. IsFiniteSet(Counted(k)')
        BY <2>3, <3>1, FS_Subset
      <4> QED
        BY <3>1, <4>1, FS_CardinalityType
    <3>4. Cardinality(Counted(k)) <= (MaxAttempts - 1) + crowd[k] /\ crowd[k] <= crowd'[k]
      BY DEF LoginHolds, FewCounted
    <3> QED
      BY <2>0, <3>2, <3>3, <3>4
  <2>4. CASE failures'[k] = failures[k] /\ Cardinality(failures[k]) < MaxAttempts
    <3>1. Counted(k)' = counted \cup past
      BY <2>4 DEF Counted
    <3>2. IsFiniteSet(past) /\ Cardinality(past) <= crowd'[k]
      OBVIOUS
    <3> HIDE DEF counted, past
    <3>3. /\ Cardinality(counted \cup past)
                = Cardinality(counted) + Cardinality(past) - Cardinality(counted \cap past)
          /\ IsFiniteSet(counted \cap past)
      BY <2>1, <3>2, FS_Union, FS_Subset
    <3>4. Cardinality(counted \cap past) \in Nat
      BY <3>3, FS_CardinalityType
    <3> QED
      BY <2>0, <2>1, <2>2, <2>4, <3>1, <3>2, <3>3, <3>4
  <2> QED
    BY <2>3, <2>4
<1> QED
  BY <1>1, <1>2 DEF FewCounted

LEMMA YoungerThanWindow ==
  ASSUME NEW n \in Nat, NEW i \in 0..n, NEW j \in 0..(n - 1), i <= j
  PROVE  i < n
OBVIOUS

\* What is known of the wrong attempts is kept by a step of one attempt that is at most known wrong
\* itself, as long as the others stay counted.
LEMMA WrongsStay ==
  ASSUME LoginTyped, WrongsKnown, NEW a \in Attempts,
         \A b \in Attempts \ {a} : attempt'[b] = attempt[b],
         \A k \in Login!Keys :
            /\ \/ wrong'[k] \subseteq wrong[k]
               \/ wrong'[k] \subseteq wrong[k] \cup {<<a, 0>>} /\ \A f \in wrong[k] : f[1] # a
            /\ \/ wrong'[k] = {}
               \/ \A g \in failures[k] : g[2] < Window => g \in failures'[k]
            /\ \A f \in wrong'[k] : f[1] = a =>
                  /\ attempt'[a].at \in {"record name", "record address", "over"}
                  /\ \/ a \in Login!Past(k)'
                     \/ \E g \in failures'[k] : g[1] = a /\ g[2] <= f[2]
  PROVE  WrongsKnown'
<1>0. Window \in Nat
  BY SiteAssumption DEF Login!LoginAssumption
<1> SUFFICES ASSUME NEW k \in Login!Keys
             PROVE  /\ \A f, g \in wrong'[k] : f[1] = g[1] => f = g
                    /\ \A f \in wrong'[k] :
                          /\ attempt'[f[1]].at \in {"record name", "record address", "over"}
                          /\ \/ f[1] \in Login!Past(k)'
                             \/ \E g \in failures'[k] : g[1] = f[1] /\ g[2] <= f[2]
  BY DEF WrongsKnown
<1>3. \/ wrong'[k] \subseteq wrong[k]
      \/ wrong'[k] \subseteq wrong[k] \cup {<<a, 0>>} /\ \A f \in wrong[k] : f[1] # a
  OBVIOUS
<1>4. <<a, 0>>[1] = a
  OBVIOUS
<1>1. \A f, g \in wrong'[k] : f[1] = g[1] => f = g
  <2>1. \A f, g \in wrong[k] : f[1] = g[1] => f = g
    BY DEF WrongsKnown
  <2>2. CASE wrong'[k] \subseteq wrong[k]
    BY <2>1, <2>2
  <2>3. CASE wrong'[k] \subseteq wrong[k] \cup {<<a, 0>>} /\ \A f \in wrong[k] : f[1] # a
    <3>1. \A f \in wrong'[k] : f \in wrong[k] \/ f = <<a, 0>>
      BY <2>3
    <3> QED
      BY <1>4, <2>1, <2>3, <3>1
  <2> QED
    BY <1>3, <2>2, <2>3
<1>2. ASSUME NEW f \in wrong'[k], f[1] # a
      PROVE  /\ attempt'[f[1]].at \in {"record name", "record address", "over"}
             /\ \/ f[1] \in Login!Past(k)'
                \/ \E g \in failures'[k] : g[1] = f[1] /\ g[2] <= f[2]
  <2>1. f \in wrong[k]
    BY <1>2, <1>3, <1>4
  <2>2. f[1] \in Attempts /\ f[2] \in 0..(Window - 1)
    <3>1. wrong[k] \subseteq Attempts \X (0..(Window - 1))
      BY DEF LoginTyped
    <3>2. f \in Attempts \X (0..(Window - 1))
      BY <2>1, <3>1
    <3> QED
      BY <3>2
  <2>3. attempt'[f[1]] = attempt[f[1]]
    BY <1>2, <2>2
  <2>4. attempt'[f[1]].at \in {"record name", "record address", "over"}
    BY <2>1, <2>3 DEF WrongsKnown
  <2>5. CASE f[1] \in Login!Past(k)
    BY <2>2, <2>3, <2>4, <2>5 DEF Login!Past
  <2>6. ASSUME NEW g \in failures[k], g[1] = f[1], g[2] <= f[2]
        PROVE  \E h \in failures'[k] : h[1] = f[1] /\ h[2] <= f[2]
    <3>1. failures[k] \subseteq Attempts \X (0..Window)
      BY DEF LoginTyped
    <3>2. g[2] \in 0..Window
      BY <2>6, <3>1
    <3>3. g[2] < Window
      BY <1>0, <2>2, <2>6, <3>2, YoungerThanWindow
    <3>4. g \in failures'[k]
      BY <1>2, <2>6, <3>3
    <3> QED
      BY <2>6, <3>4
  <2> QED
    BY <2>1, <2>4, <2>5, <2>6 DEF WrongsKnown
<1> QED
  BY <1>1, <1>2

\* Every step of an attempt keeps what holds of the counts.
LEMMA LoginStays == LoginHolds /\ [Login!Next]_loginVars => LoginHolds'
<1> SUFFICES ASSUME LoginHolds, [Login!Next]_loginVars PROVE LoginHolds'
  OBVIOUS
<1>0. /\ MaxAttempts \in Nat \ {0} /\ Window \in Nat \ {0} /\ Names \cap Addresses = {}
      /\ LoginTyped /\ CrowdKnown /\ WrongsKnown
  BY SiteAssumption DEF Login!LoginAssumption, LoginHolds
<1> DEFINE over == [at |-> "over", name |-> None, address |-> None]
<1>1. over \in Ticket
  BY DEF Ticket, Labels
<1>2. ASSUME NEW a \in Attempts, NEW label \in Labels
      PROVE  /\ [attempt[a] EXCEPT !.at = label] \in Ticket
             /\ [attempt[a] EXCEPT !.at = label].at = label
             /\ [attempt[a] EXCEPT !.at = label].name = attempt[a].name
             /\ [attempt[a] EXCEPT !.at = label].address = attempt[a].address
  BY <1>0 DEF LoginTyped, Ticket
<1>13. ASSUME NEW a \in Attempts, NEW to, attempt' = [attempt EXCEPT ![a] = to]
       PROVE  attempt'[a] = to /\ \A b \in Attempts \ {a} : attempt'[b] = attempt[b]
  BY <1>0, <1>13 DEF LoginTyped
<1>14. over.at = "over"
  OBVIOUS
<1> HIDE DEF over
<1>3. ASSUME NEW a \in Attempts, NEW to \in Ticket, Login!Set(a, to),
             to.at \notin {"new", "over"} => to.name \in Names /\ to.address \in Addresses,
             failures' \in [Login!Keys -> SUBSET (Attempts \X (0..Window))],
             wrong' \in [Login!Keys -> SUBSET (Attempts \X (0..(Window - 1)))],
             WrongsKnown',
             \A k \in Login!Keys :
                /\ IsFiniteSet(failures'[k])
                /\ \/ Counted(k)' \subseteq Counted(k)
                   \/ failures'[k] = failures[k] /\ Cardinality(failures[k]) < MaxAttempts
      PROVE  LoginHolds'
  <2>1. /\ crowd' \in [Login!Keys -> Nat]
        /\ \A k \in Login!Keys :
              /\ Login!Past(k)' \subseteq Login!Past(k) \cup {a}
              /\ IsFiniteSet(Login!Past(k)') /\ Cardinality(Login!Past(k)') <= crowd'[k]
              /\ crowd[k] <= crowd'[k]
    BY <1>3, CrowdEffect
  <2>2. CrowdKnown' /\ FewCounted'
    BY <1>3, <2>1, FewStay
  <2>3. LoginTyped'
    BY <1>0, <1>3, <2>1 DEF LoginTyped, Login!Set
  <2> QED
    BY <1>3, <2>2, <2>3 DEF LoginHolds
<1>4. ASSUME NEW a \in Attempts, NEW name \in Names, NEW address \in Addresses,
             Login!CheckName(a, name, address)
      PROVE  LoginHolds'
  <2>1. PICK to \in Ticket :
           /\ Login!Set(a, to)
           /\ \/ to = over
              \/ /\ to.at = "check address" /\ to.name = name /\ to.address = address
                 /\ ~ Login!is_locked(name)
    <3> DEFINE to == [at |-> "check address", name |-> name, address |-> address]
    <3>1. to \in Ticket /\ to.at = "check address" /\ to.name = name /\ to.address = address
      BY DEF Ticket, Labels
    <3> HIDE DEF to
    <3>2. IF Login!is_locked(name) THEN Login!Set(a, over) ELSE Login!Set(a, to)
      BY <1>4 DEF Login!CheckName, Login!End, to, over
    <3> QED
      BY <1>1, <3>1, <3>2
  <2>2. attempt[a].at = "new" /\ UNCHANGED <<failures, wrong>>
    BY <1>4 DEF Login!CheckName
  <2>5. attempt'[a] = to /\ \A b \in Attempts \ {a} : attempt'[b] = attempt[b]
    BY <1>13, <2>1 DEF Login!Set
  <2>3. ASSUME NEW k \in Login!Keys
        PROVE  \/ Counted(k)' \subseteq Counted(k)
               \/ failures'[k] = failures[k] /\ Cardinality(failures[k]) < MaxAttempts
    <3>1. CASE to = over \/ k # name
      <4>1. Login!Past(k)' \subseteq Login!Past(k)
        BY <1>0, <1>14, <2>1, <2>2, <2>5, <3>1 DEF Login!Past
      <4> QED
        BY <2>2, <4>1 DEF Counted
    <3>2. CASE to # over /\ k = name
      <4>1. ~ (Cardinality(failures[k]) >= MaxAttempts)
        BY <2>1, <3>2, SameCardinality DEF Login!is_locked
      <4>2. Cardinality(failures[k]) \in Nat
        BY <1>0, FS_CardinalityType DEF CrowdKnown
      <4> QED
        BY <1>0, <2>2, <4>1, <4>2
    <3> QED
      BY <3>1, <3>2
  <2>4. WrongsKnown'
    <3>1. \A k \in Login!Keys : \A f \in wrong[k] : f[1] # a
      BY <1>0, <2>2 DEF WrongsKnown
    <3> QED
      BY <1>0, <2>2, <2>5, <3>1, WrongsStay
  <2> QED
    <3>1. to.at \notin {"new", "over"} => to.name \in Names /\ to.address \in Addresses
      BY <1>14, <2>1, <2>2
    <3>2. /\ failures' \in [Login!Keys -> SUBSET (Attempts \X (0..Window))]
          /\ wrong' \in [Login!Keys -> SUBSET (Attempts \X (0..(Window - 1)))]
          /\ \A k \in Login!Keys : IsFiniteSet(failures'[k])
      BY <1>0, <2>2 DEF LoginTyped, CrowdKnown
    <3> QED
      BY <1>3, <2>1, <2>3, <2>4, <3>1, <3>2
<1>5. ASSUME NEW a \in Attempts, Login!CheckAddress(a) PROVE LoginHolds'
  <2> DEFINE address == attempt[a].address
  <2>1. PICK to \in Ticket :
           /\ Login!Set(a, to)
           /\ \/ to = over
              \/ /\ to.at = "verify" /\ to.name = attempt[a].name /\ to.address = address
                 /\ ~ Login!is_locked(address)
    BY <1>1, <1>2, <1>5 DEF Login!CheckAddress, Login!End, Login!To, Labels, over
  <2>2. /\ attempt[a].at = "check address" /\ UNCHANGED <<failures, wrong>>
        /\ attempt[a].name \in Names /\ address \in Addresses
    BY <1>0, <1>5 DEF Login!CheckAddress, LoginTyped
  <2>5. attempt'[a] = to /\ \A b \in Attempts \ {a} : attempt'[b] = attempt[b]
    BY <1>13, <2>1 DEF Login!Set
  <2>3. ASSUME NEW k \in Login!Keys
        PROVE  \/ Counted(k)' \subseteq Counted(k)
               \/ failures'[k] = failures[k] /\ Cardinality(failures[k]) < MaxAttempts
    <3>1. CASE to = over \/ k # address
      <4>1. Login!Past(k)' \subseteq Login!Past(k)
        BY <1>0, <1>14, <2>1, <2>2, <2>5, <3>1 DEF Login!Past
      <4> QED
        BY <2>2, <4>1 DEF Counted
    <3>2. CASE to # over /\ k = address
      <4>1. ~ (Cardinality(failures[k]) >= MaxAttempts)
        BY <2>1, <3>2, SameCardinality DEF Login!is_locked
      <4>2. Cardinality(failures[k]) \in Nat
        BY <1>0, FS_CardinalityType DEF CrowdKnown
      <4>3. failures'[k] = failures[k]
        BY <2>2
      <4> QED
        BY <1>0, <4>1, <4>2, <4>3
    <3> QED
      BY <3>1, <3>2
  <2>4. WrongsKnown'
    <3>1. \A k \in Login!Keys : \A f \in wrong[k] : f[1] # a
      BY <1>0, <2>2 DEF WrongsKnown
    <3> QED
      BY <1>0, <2>2, <2>5, <3>1, WrongsStay
  <2> QED
    <3>1. to.at \notin {"new", "over"} => to.name \in Names /\ to.address \in Addresses
      BY <1>14, <2>1, <2>2
    <3>2. /\ failures' \in [Login!Keys -> SUBSET (Attempts \X (0..Window))]
          /\ wrong' \in [Login!Keys -> SUBSET (Attempts \X (0..(Window - 1)))]
          /\ \A k \in Login!Keys : IsFiniteSet(failures'[k])
      BY <1>0, <2>2 DEF LoginTyped, CrowdKnown
    <3> QED
      BY <1>3, <2>1, <2>3, <2>4, <3>1, <3>2
<1>6. ASSUME NEW a \in Attempts, Login!Verify(a) PROVE LoginHolds'
  <2>1. /\ attempt[a].at = "verify" /\ UNCHANGED failures
        /\ attempt[a].name \in Names /\ attempt[a].address \in Addresses
    BY <1>0, <1>6 DEF Login!Verify, LoginTyped
  <2>2. PICK to \in Ticket :
           /\ Login!Set(a, to) /\ to.name = attempt[a].name /\ to.address = attempt[a].address
           /\ \/ to.at = "clear name" /\ UNCHANGED wrong
              \/ /\ to.at = "record name"
                 /\ wrong' = [k \in Login!Keys |-> IF k \in {to.name, to.address}
                                                   THEN wrong[k] \cup {<<a, 0>>} ELSE wrong[k]]
    <3> DEFINE clear == [attempt[a] EXCEPT !.at = "clear name"]
               record == [attempt[a] EXCEPT !.at = "record name"]
    <3>1. /\ clear \in Ticket /\ clear.at = "clear name"
          /\ clear.name = attempt[a].name /\ clear.address = attempt[a].address
      BY <1>2 DEF Labels
    <3>2. /\ record \in Ticket /\ record.at = "record name"
          /\ record.name = attempt[a].name /\ record.address = attempt[a].address
      BY <1>2 DEF Labels
    <3> HIDE DEF clear, record
    <3>3. \/ Login!Set(a, clear) /\ UNCHANGED wrong
          \/ /\ Login!Set(a, record)
             /\ wrong' = [k \in Login!Keys |-> IF k \in {attempt[a].name, attempt[a].address}
                                               THEN wrong[k] \cup {<<a, 0>>} ELSE wrong[k]]
      BY <1>6 DEF Login!Verify, Login!To, clear, record
    <3> QED
      BY <3>1, <3>2, <3>3
  <2>3. attempt'[a] = to /\ \A b \in Attempts \ {a} : attempt'[b] = attempt[b]
    BY <1>13, <2>2 DEF Login!Set
  <2>4. \A k \in Login!Keys : \A f \in wrong[k] : f[1] # a
    BY <1>0, <2>1 DEF WrongsKnown
  <2>5. ASSUME NEW k \in Login!Keys
        PROVE  \/ wrong'[k] = wrong[k]
               \/ /\ wrong'[k] = wrong[k] \cup {<<a, 0>>} /\ a \in Login!Past(k)'
                  /\ to.at = "record name"
    <3>1. CASE k \in {to.name, to.address} /\ to.at = "record name"
      BY <2>2, <2>3, <3>1 DEF Login!Past
    <3>2. CASE ~ (k \in {to.name, to.address} /\ to.at = "record name")
      BY <2>2, <3>2
    <3> QED
      BY <3>1, <3>2
  <2>6. wrong' \in [Login!Keys -> SUBSET (Attempts \X (0..(Window - 1)))]
    <3>1. <<a, 0>> \in Attempts \X (0..(Window - 1))
      BY <1>0
    <3>2. wrong \in [Login!Keys -> SUBSET (Attempts \X (0..(Window - 1)))]
      BY <1>0 DEF LoginTyped
    <3>3. CASE UNCHANGED wrong
      BY <3>2, <3>3
    <3>4. CASE wrong' = [k \in Login!Keys |-> IF k \in {to.name, to.address}
                                              THEN wrong[k] \cup {<<a, 0>>} ELSE wrong[k]]
      <4>1. \A k \in Login!Keys : wrong[k] \cup {<<a, 0>>} \subseteq Attempts \X (0..(Window - 1))
        BY <3>1, <3>2
      <4> QED
        BY <3>2, <3>4, <4>1
    <3> QED
      BY <2>2, <3>3, <3>4
  <2>7. WrongsKnown'
    <3>1. ASSUME NEW k \in Login!Keys
          PROVE  /\ \/ wrong'[k] \subseteq wrong[k]
                    \/ wrong'[k] \subseteq wrong[k] \cup {<<a, 0>>} /\ \A f \in wrong[k] : f[1] # a
                 /\ \/ wrong'[k] = {}
                    \/ \A g \in failures[k] : g[2] < Window => g \in failures'[k]
                 /\ \A f \in wrong'[k] : f[1] = a =>
                       /\ attempt'[a].at \in {"record name", "record address", "over"}
                       /\ \/ a \in Login!Past(k)'
                          \/ \E g \in failures'[k] : g[1] = a /\ g[2] <= f[2]
      BY <2>1, <2>3, <2>4, <2>5
    <3> QED
      BY <1>0, <2>3, <3>1, WrongsStay
  <2>8. \A k \in Login!Keys : Counted(k)' \subseteq Counted(k)
    BY ZenonT(60), <1>0, <2>1, <2>2, <2>3 DEF Counted, Login!Past
  <2> QED
    BY <1>0, <1>3, <2>1, <2>2, <2>6, <2>7, <2>8 DEF LoginTyped, CrowdKnown
<1>7. ASSUME NEW a \in Attempts, NEW to \in Ticket, NEW key \in Login!Keys,
             Login!Set(a, to), UNCHANGED wrong, failures' = Login!record_failure(key, a),
             \/ /\ attempt[a].at = "record name" /\ key = attempt[a].name
                /\ to.at = "record address" /\ to.name = key /\ to.address = attempt[a].address
             \/ attempt[a].at = "record address" /\ key = attempt[a].address /\ to.at = "over"
      PROVE  LoginHolds'
  <2> DEFINE new == {f \in failures[key] : f[2] < Window} \cup {<<a, 0>>}
  <2>1. attempt[a].name \in Names /\ attempt[a].address \in Addresses
    BY <1>0, <1>7 DEF LoginTyped
  <2>2. attempt'[a] = to /\ \A b \in Attempts \ {a} : attempt'[b] = attempt[b]
    BY <1>7, <1>13 DEF Login!Set
  <2>3. failures'[key] = new /\ \A k \in Login!Keys \ {key} : failures'[k] = failures[k]
    BY <1>0, <1>7 DEF Login!record_failure, LoginTyped
  <2>4. failures' \in [Login!Keys -> SUBSET (Attempts \X (0..Window))]
    <3>1. <<a, 0>> \in Attempts \X (0..Window)
      BY <1>0
    <3> QED
      BY <1>0, <1>7, <3>1 DEF Login!record_failure, LoginTyped
  <2>5. \A k \in Login!Keys : IsFiniteSet(failures'[k])
    <3>1. IsFiniteSet(failures[key])
      BY <1>0 DEF CrowdKnown
    <3>2. IsFiniteSet({f \in failures[key] : f[2] < Window})
      BY <3>1, FS_Subset
    <3>3. IsFiniteSet(new)
      BY <3>2, FS_AddElement
    <3> HIDE DEF new
    <3> QED
      BY <1>0, <2>3, <3>3 DEF CrowdKnown
  <2>6. <<a, 0>> \in failures'[key] /\ <<a, 0>>[1] = a /\ <<a, 0>>[2] = 0
    BY <2>3
  <2>7. a \in Login!Past(key)
    BY <1>7, <2>1 DEF Login!Past
  <2>8. WrongsKnown'
    <3>1. \A k \in Login!Keys : \A g \in failures[k] : g[2] < Window => g \in failures'[k]
      BY <2>3
    <3>2. ASSUME NEW k \in Login!Keys, NEW f \in wrong'[k], f[1] = a
          PROVE  \/ a \in Login!Past(k)'
                 \/ \E g \in failures'[k] : g[1] = a /\ g[2] <= f[2]
      <4>1. f \in wrong[k] /\ f \in Attempts \X (0..(Window - 1))
        BY <1>0, <1>7, <3>2 DEF LoginTyped
      <4>2. f[2] >= 0
        BY <4>1
      <4>3. CASE k = key
        BY <2>6, <4>2, <4>3
      <4>4. CASE k # key /\ a \in Login!Past(k)
        BY <1>0, <1>7, <2>1, <2>2, <4>4 DEF Login!Past
      <4>5. CASE k # key /\ a \notin Login!Past(k)
        <5>1. PICK g \in failures[k] : g[1] = a /\ g[2] <= f[2]
          BY <1>0, <3>2, <4>1, <4>5 DEF WrongsKnown
        <5> QED
          BY <2>3, <4>5, <5>1
      <4> QED
        BY <4>3, <4>4, <4>5
    <3> QED
      <4>1. ASSUME NEW k \in Login!Keys
            PROVE  /\ \/ wrong'[k] \subseteq wrong[k]
                      \/ wrong'[k] \subseteq wrong[k] \cup {<<a, 0>>} /\ \A f \in wrong[k] : f[1] # a
                   /\ \/ wrong'[k] = {}
                      \/ \A g \in failures[k] : g[2] < Window => g \in failures'[k]
                   /\ \A f \in wrong'[k] : f[1] = a =>
                         /\ attempt'[a].at \in {"record name", "record address", "over"}
                         /\ \/ a \in Login!Past(k)'
                            \/ \E g \in failures'[k] : g[1] = a /\ g[2] <= f[2]
        BY <1>7, <2>2, <3>1, <3>2
      <4> QED
        BY <1>0, <2>2, <4>1, WrongsStay
  <2>9. ASSUME NEW k \in Login!Keys PROVE Counted(k)' \subseteq Counted(k)
    <3>1. {f[1] : f \in failures'[k]} \subseteq Counted(k)
      <4>1. CASE k = key
        <5>1. \A f \in failures'[k] : f \in failures[k] \/ f[1] = a
          BY <2>3, <2>6, <4>1
        <5> QED
          BY <2>7, <4>1, <5>1 DEF Counted
      <4>2. CASE k # key
        BY <2>3, <4>2 DEF Counted
      <4> QED
        BY <4>1, <4>2
    <3>2. Login!Past(k)' \subseteq Login!Past(k)
      BY <1>7, <2>1, <2>2 DEF Login!Past
    <3> QED
      BY <3>1, <3>2 DEF Counted
  <2> HIDE DEF new
  <2>10. to.at \notin {"new", "over"} => to.name \in Names /\ to.address \in Addresses
    BY <1>7, <2>1
  <2>11. wrong' \in [Login!Keys -> SUBSET (Attempts \X (0..(Window - 1)))]
    BY <1>0, <1>7 DEF LoginTyped
  <2> QED
    BY <1>3, <1>7, <2>4, <2>5, <2>8, <2>9, <2>10, <2>11
<1>8. ASSUME NEW a \in Attempts, Login!Record(a) PROVE LoginHolds'
  <2>1. attempt[a].at \in {"record name", "record address"}
        /\ attempt[a].name \in Login!Keys /\ attempt[a].address \in Login!Keys /\ UNCHANGED wrong
    BY <1>0, <1>8 DEF Login!Record, LoginTyped, Login!Keys
  <2>2. CASE attempt[a].at = "record name"
    <3> DEFINE to == [attempt[a] EXCEPT !.at = "record address"]
    <3>1. /\ to \in Ticket /\ to.at = "record address" /\ to.name = attempt[a].name
          /\ to.address = attempt[a].address
      BY <1>2 DEF Labels
    <3>2. Login!Set(a, to) /\ failures' = Login!record_failure(attempt[a].name, a)
      BY <1>8, <2>2 DEF Login!Record, Login!To
    <3> HIDE DEF to
    <3> QED
      BY <1>7, <2>1, <2>2, <3>1, <3>2
  <2>3. CASE attempt[a].at = "record address"
    <3>1. Login!Set(a, over) /\ failures' = Login!record_failure(attempt[a].address, a)
      BY <1>8, <2>3 DEF Login!Record, Login!End, over
    <3> QED
      BY <1>1, <1>7, <1>14, <2>1, <2>3, <3>1
  <2> QED
    BY <2>1, <2>2, <2>3
<1>9. ASSUME NEW a \in Attempts, NEW to \in Ticket, NEW cleared \in SUBSET Login!Keys,
             Login!Set(a, to), attempt[a].at # "new",
             to.at \in {"clear address", "over"},
             to.at = "over" \/ (to.name = attempt[a].name /\ to.address = attempt[a].address
                               /\ attempt[a].at = "clear name"),
             failures' = [k \in Login!Keys |-> IF k \in cleared THEN {} ELSE failures[k]],
             wrong' \in [Login!Keys -> SUBSET (Attempts \X (0..(Window - 1)))],
             \A k \in Login!Keys : wrong'[k] \subseteq wrong[k],
             \A k \in cleared : wrong'[k] = {},
             \A k \in Login!Keys : \A f \in wrong'[k] : f[1] # a
      PROVE  LoginHolds'
  <2>1. attempt'[a] = to /\ \A b \in Attempts \ {a} : attempt'[b] = attempt[b]
    BY <1>9, <1>13 DEF Login!Set
  <2>2. /\ failures' \in [Login!Keys -> SUBSET (Attempts \X (0..Window))]
        /\ \A k \in Login!Keys : failures'[k] \subseteq failures[k] /\ IsFiniteSet(failures'[k])
    BY <1>0, <1>9, FS_EmptySet DEF LoginTyped, CrowdKnown
  <2>3. \A k \in Login!Keys \ cleared : failures'[k] = failures[k]
    BY <1>9
  <2>4. WrongsKnown'
    <3>1. ASSUME NEW k \in Login!Keys
          PROVE  /\ \/ wrong'[k] \subseteq wrong[k]
                    \/ wrong'[k] \subseteq wrong[k] \cup {<<a, 0>>} /\ \A f \in wrong[k] : f[1] # a
                 /\ \/ wrong'[k] = {}
                    \/ \A g \in failures[k] : g[2] < Window => g \in failures'[k]
                 /\ \A f \in wrong'[k] : f[1] = a =>
                       /\ attempt'[a].at \in {"record name", "record address", "over"}
                       /\ \/ a \in Login!Past(k)'
                          \/ \E g \in failures'[k] : g[1] = a /\ g[2] <= f[2]
      BY <1>9, <2>3
    <3> QED
      BY <1>0, <2>1, <3>1, WrongsStay
  <2>5. ASSUME NEW k \in Login!Keys PROVE Counted(k)' \subseteq Counted(k)
    <3>1. Login!Past(k)' \subseteq Login!Past(k)
      BY <1>9, <2>1 DEF Login!Past
    <3> QED
      BY <2>2, <3>1 DEF Counted
  <2>6. to.at \notin {"new", "over"} => to.name \in Names /\ to.address \in Addresses
    BY <1>0, <1>9 DEF LoginTyped
  <2> QED
    BY <1>3, <1>9, <2>2, <2>4, <2>5, <2>6
<1>10. ASSUME NEW a \in Attempts, Login!Clear(a) PROVE LoginHolds'
  <2>1. /\ attempt[a].at \in {"clear name", "clear address"}
        /\ attempt[a].name \in Login!Keys /\ attempt[a].address \in Login!Keys
    BY <1>0, <1>10 DEF Login!Clear, LoginTyped, Login!Keys
  <2>2. \A k \in Login!Keys : \A f \in wrong[k] : f[1] # a
    BY <2>1, <1>0 DEF WrongsKnown
  <2>3. ASSUME NEW key \in Login!Keys, failures' = [failures EXCEPT ![key] = {}],
               wrong' = [wrong EXCEPT ![key] = {}]
        PROVE  /\ failures' = [k \in Login!Keys |-> IF k \in {key} THEN {} ELSE failures[k]]
               /\ wrong' \in [Login!Keys -> SUBSET (Attempts \X (0..(Window - 1)))]
               /\ \A k \in Login!Keys : wrong'[k] \subseteq wrong[k]
               /\ wrong'[key] = {}
    BY <1>0, <2>3 DEF LoginTyped
  <2>4. CASE attempt[a].at = "clear name"
    <3> DEFINE to == [attempt[a] EXCEPT !.at = "clear address"]
               key == attempt[a].name
    <3>1. /\ to \in Ticket /\ to.at = "clear address" /\ to.name = attempt[a].name
          /\ to.address = attempt[a].address
      BY <1>2 DEF Labels
    <3>2. /\ Login!Set(a, to) /\ failures' = [failures EXCEPT ![key] = {}]
          /\ wrong' = [wrong EXCEPT ![key] = {}]
      BY <1>10, <2>4 DEF Login!Clear, Login!To
    <3>3. key \in Login!Keys
      BY <2>1
    <3> HIDE DEF to, key
    <3>4. /\ failures' = [k \in Login!Keys |-> IF k \in {key} THEN {} ELSE failures[k]]
          /\ wrong' \in [Login!Keys -> SUBSET (Attempts \X (0..(Window - 1)))]
          /\ \A k \in Login!Keys : wrong'[k] \subseteq wrong[k]
          /\ \A k \in {key} : wrong'[k] = {}
      BY <2>3, <3>2, <3>3
    <3>5. \A k \in Login!Keys : \A f \in wrong'[k] : f[1] # a
      BY <2>2, <3>4
    <3>6. {key} \in SUBSET Login!Keys
      BY <3>3
    <3> QED
      BY <1>9, <2>4, <3>1, <3>2, <3>4, <3>5, <3>6
  <2>5. CASE attempt[a].at = "clear address"
    <3> DEFINE key == attempt[a].address
    <3>2. /\ Login!Set(a, over) /\ failures' = [failures EXCEPT ![key] = {}]
          /\ wrong' = [wrong EXCEPT ![key] = {}]
      BY <1>10, <2>5 DEF Login!Clear, Login!End, over
    <3>3. key \in Login!Keys
      BY <2>1
    <3> HIDE DEF key
    <3>4. /\ failures' = [k \in Login!Keys |-> IF k \in {key} THEN {} ELSE failures[k]]
          /\ wrong' \in [Login!Keys -> SUBSET (Attempts \X (0..(Window - 1)))]
          /\ \A k \in Login!Keys : wrong'[k] \subseteq wrong[k]
          /\ \A k \in {key} : wrong'[k] = {}
      BY <2>3, <3>2, <3>3
    <3>5. \A k \in Login!Keys : \A f \in wrong'[k] : f[1] # a
      BY <2>2, <3>4
    <3>6. {key} \in SUBSET Login!Keys
      BY <3>3
    <3> QED
      BY <1>1, <1>9, <1>14, <2>5, <3>2, <3>4, <3>5, <3>6
  <2> QED
    BY <2>1, <2>4, <2>5
<1>11. ASSUME NEW a \in Attempts, Login!Fail(a) PROVE LoginHolds'
  <2>1. /\ attempt[a].at # "new" /\ Login!Set(a, over) /\ UNCHANGED failures
        /\ wrong' = [k \in Login!Keys |-> {f \in wrong[k] : f[1] # a}]
    BY <1>11 DEF Login!Fail, Login!End, over
  <2>2. failures' = [k \in Login!Keys |-> IF k \in {} THEN {} ELSE failures[k]]
    BY <1>0, <2>1 DEF LoginTyped
  <2>3. /\ wrong' \in [Login!Keys -> SUBSET (Attempts \X (0..(Window - 1)))]
        /\ \A k \in Login!Keys : wrong'[k] \subseteq wrong[k]
        /\ \A k \in Login!Keys : \A f \in wrong'[k] : f[1] # a
    BY <1>0, <2>1 DEF LoginTyped
  <2>4. {} \in SUBSET Login!Keys /\ \A k \in {} : wrong'[k] = {}
    OBVIOUS
  <2> QED
    BY <1>1, <1>9, <1>14, <2>1, <2>2, <2>3, <2>4
<1>12. CASE Login!Tick
  <2>1. /\ failures' = [k \in Login!Keys |-> {<<f[1], f[2] + 1>> :
                                               f \in {g \in failures[k] : g[2] < Window}}]
        /\ wrong' = [k \in Login!Keys |-> {<<f[1], f[2] + 1>> :
                                            f \in {g \in wrong[k] : g[2] + 1 < Window}}]
        /\ UNCHANGED <<attempt, crowd>>
    BY <1>12 DEF Login!Tick
  <2>2. \A k \in Login!Keys : /\ failures[k] \subseteq Attempts \X (0..Window)
                              /\ wrong[k] \subseteq Attempts \X (0..(Window - 1))
    BY <1>0 DEF LoginTyped
  <2>3. ASSUME NEW k \in Login!Keys, NEW f \in failures'[k]
        PROVE  \E g \in failures[k] : g[2] < Window /\ f = <<g[1], g[2] + 1>>
    BY <2>1, <2>3
  <2>4. ASSUME NEW k \in Login!Keys, NEW f \in wrong'[k]
        PROVE  \E g \in wrong[k] : g[2] + 1 < Window /\ f = <<g[1], g[2] + 1>>
    BY <2>1, <2>4
  <2>5. failures' \in [Login!Keys -> SUBSET (Attempts \X (0..Window))]
    <3>1. ASSUME NEW k \in Login!Keys, NEW f \in failures'[k] PROVE f \in Attempts \X (0..Window)
      BY <1>0, <2>2, <2>3, <3>1
    <3> QED
      BY <2>1, <3>1
  <2>6. wrong' \in [Login!Keys -> SUBSET (Attempts \X (0..(Window - 1)))]
    <3>1. ASSUME NEW k \in Login!Keys, NEW f \in wrong'[k]
          PROVE  f \in Attempts \X (0..(Window - 1))
      BY <1>0, <2>2, <2>4, <3>1
    <3> QED
      BY <2>1, <3>1
  <2>7. LoginTyped'
    BY <1>0, <2>1, <2>5, <2>6 DEF LoginTyped
  <2>8. \A k \in Login!Keys : Login!Past(k)' = Login!Past(k)
    BY <2>1 DEF Login!Past
  <2>9. ASSUME NEW k \in Login!Keys PROVE IsFiniteSet(failures'[k])
    <3>1. IsFiniteSet({g \in failures[k] : g[2] < Window})
      BY <1>0, FS_Subset DEF CrowdKnown
    <3> QED
      BY <2>1, <3>1, OlderAreFinite
  <2>10. ASSUME NEW k \in Login!Keys PROVE Counted(k)' \subseteq Counted(k)
    <3>1. \A f \in failures'[k] : \E g \in failures[k] : f[1] = g[1]
      BY <2>3
    <3> QED
      BY <2>8, <3>1 DEF Counted
  <2>11. CrowdKnown' /\ FewCounted'
    <3>1. crowd' \in [Login!Keys -> Nat] /\ \A k \in Login!Keys : crowd[k] <= crowd'[k]
      BY <1>0, <2>1 DEF LoginTyped
    <3>2. \A k \in Login!Keys : IsFiniteSet(Login!Past(k)') /\ Cardinality(Login!Past(k)') <= crowd'[k]
      BY <1>0, <2>1, <2>8 DEF CrowdKnown
    <3> QED
      BY <2>9, <2>10, <3>1, <3>2, FewStay
  <2>12. ASSUME NEW k \in Login!Keys, NEW f \in wrong'[k]
         PROVE  /\ attempt'[f[1]].at \in {"record name", "record address", "over"}
                /\ \/ f[1] \in Login!Past(k)'
                   \/ \E h \in failures'[k] : h[1] = f[1] /\ h[2] <= f[2]
    <3>1. PICK w \in wrong[k] : w[2] + 1 < Window /\ f = <<w[1], w[2] + 1>>
      BY <2>4
    <3>2. w[2] \in Nat /\ f[1] = w[1] /\ f[2] = w[2] + 1
      BY <2>2, <3>1
    <3>3. attempt'[f[1]].at \in {"record name", "record address", "over"}
      BY <1>0, <2>1, <3>2 DEF WrongsKnown
    <3>4. CASE w[1] \in Login!Past(k)
      BY <2>8, <3>2, <3>3, <3>4
    <3>5. ASSUME NEW g \in failures[k], g[1] = w[1], g[2] <= w[2]
          PROVE  \E h \in failures'[k] : h[1] = f[1] /\ h[2] <= f[2]
      <4>1. g[2] \in Nat
        BY <2>2, <3>5
      <4>2. g[2] < Window
        BY <1>0, <3>1, <3>2, <3>5, <4>1
      <4>3. <<g[1], g[2] + 1>> \in failures'[k]
        BY <2>1, <4>2
      <4>4. <<g[1], g[2] + 1>>[1] = f[1] /\ <<g[1], g[2] + 1>>[2] <= f[2]
        BY <3>2, <3>5, <4>1
      <4> QED
        BY <4>3, <4>4
    <3> QED
      BY <1>0, <3>3, <3>4, <3>5 DEF WrongsKnown
  <2>13. ASSUME NEW k \in Login!Keys, NEW f \in wrong'[k], NEW g \in wrong'[k], f[1] = g[1]
         PROVE  f = g
    <3>1. PICK u \in wrong[k] : f = <<u[1], u[2] + 1>>
      BY <2>4
    <3>2. PICK w \in wrong[k] : g = <<w[1], w[2] + 1>>
      BY <2>4
    <3>3. u = w
      BY <1>0, <2>13, <3>1, <3>2 DEF WrongsKnown
    <3> QED
      BY <3>1, <3>2, <3>3
  <2>14. WrongsKnown'
    BY <2>12, <2>13 DEF WrongsKnown
  <2> QED
    BY <2>7, <2>11, <2>14 DEF LoginHolds
<1>15. CASE UNCHANGED loginVars
  BY ZenonT(60), <1>15 DEF loginVars, LoginHolds, LoginTyped, CrowdKnown, WrongsKnown, FewCounted, Counted,
      Login!Past
<1> QED
  BY <1>4, <1>5, <1>6, <1>8, <1>10, <1>11, <1>12, <1>15 DEF Login!Next, loginVars

\* The wrong attempts of a key are among those that are counted or may be, each once.
LEMMA LoginIsBounded == LoginHolds => Login!TypeOK /\ Login!FailuresAreBounded
<1> SUFFICES ASSUME LoginHolds PROVE Login!TypeOK /\ Login!FailuresAreBounded
  OBVIOUS
<1> USE DEF LoginHolds
<1>1. Login!TypeOK
  BY DEF LoginTyped, Ticket, Login!TypeOK
<1>2. ASSUME NEW k \in Login!Keys
      PROVE  Cardinality(wrong[k]) <= (MaxAttempts - 1) + crowd[k]
  <2>1. IsFiniteSet(Counted(k))
    BY FirstsAreNoMore, FS_Union DEF Counted, CrowdKnown
  <2>2. \A f \in wrong[k] : f[1] \in Counted(k)
    <3> SUFFICES ASSUME NEW f \in wrong[k] PROVE f[1] \in Counted(k)
      OBVIOUS
    <3>1. CASE f[1] \in Login!Past(k)
      BY <3>1 DEF Counted
    <3>2. ASSUME NEW g \in failures[k], g[1] = f[1] PROVE f[1] \in Counted(k)
      BY <3>2 DEF Counted
    <3> QED
      BY <3>1, <3>2 DEF WrongsKnown
  <2>3. \A f, g \in wrong[k] : f[1] = g[1] => f = g
    BY DEF WrongsKnown
  <2>4. IsFiniteSet(wrong[k]) /\ Cardinality(wrong[k]) <= Cardinality(Counted(k))
    BY <2>1, <2>2, <2>3, FirstsAreDistinct
  <2>5. Cardinality(wrong[k]) \in Nat /\ Cardinality(Counted(k)) \in Nat
    BY <2>1, <2>4, FS_CardinalityType
  <2>6. MaxAttempts \in Nat /\ crowd[k] \in Nat
    BY SiteAssumption DEF Login!LoginAssumption, LoginTyped
  <2> QED
    BY <2>4, <2>5, <2>6 DEF FewCounted
<1> QED
  BY <1>1, <1>2, SameCardinality DEF Login!FailuresAreBounded

\* Since a success, and within the window, a name or an address has no more failures than the
\* threshold allows and attempts were past its check at once, for any number of attempts, although
\* the check and the record are two calls (web/auth.py:225).
THEOREM LockoutHolds == Spec => []FailuresAreBounded
<1> DEFINE Inv == part = "login" => LoginHolds
<1>1. Init => Inv
  BY LoginAtStart DEF Init
<1>2. Inv /\ [Next]_vars => Inv'
  <2> SUFFICES ASSUME Inv, [Next]_vars, part' = "login" PROVE LoginHolds'
    OBVIOUS
  <2>1. LoginHolds /\ [Login!Next]_loginVars
    BY StepsOfAPart
  <2> QED
    BY <2>1, LoginStays
<1>3. Inv => FailuresAreBounded
  BY LoginIsBounded DEF FailuresAreBounded
<1> QED
  BY <1>1, <1>2, <1>3, PTL DEF Spec

-----------------------------------------------------------------------------
(* Discogs details *)

Loaded == [identifiers : BOOLEAN, collection : Details!Collection \cup {None}]

DetailsTyped ==
    /\ Details!TypeOK
    /\ task \in [Editors -> {"refresh", "save", "import", None}]
    /\ copy \in [Editors -> Details!Collection \cup {None}]
    /\ base \in [Editors -> Loaded \cup {None}]
    /\ pushed \in [Editors -> SUBSET Fields] /\ late \in [Editors -> SUBSET Fields]
    /\ moved \subseteq Fields /\ behind \subseteq Details!UnderWay
    /\ typed \in [Fields -> Texts \cup {None}] /\ raced \in BOOLEAN

\* What a request has at hand, by where it is.
AtHandOf(r) ==
    /\ at[r] = "idle" => result[r] = None /\ todo[r] = {} /\ pushed[r] = {} /\ late[r] = {}
    /\ at[r] # "idle" => task[r] \in {"refresh", "save", "import"}
    /\ at[r] \in {"open", "push"} => task[r] = "save"
    /\ at[r] \in {"release", "collection"} => task[r] # "save" /\ result[r] = None
    /\ at[r] = "collection" => task[r] = "refresh"
    /\ at[r] = "store" => base[r] \in Loaded
    /\ at[r] # "idle" /\ task[r] \in {"save", "import"} => copy[r] # None
    /\ at[r] # "idle" /\ task[r] = "save" => result[r] # None
    /\ at[r] = "store" /\ task[r] = "import" => result[r] # None
    /\ at[r] # "idle" /\ task[r] # "save" => pushed[r] = {}

AtHand == \A r \in Editors : AtHandOf(r)

\* Nobody has stored since the request began, and so it has what is stored.
UpToDate(r) ==
    /\ task[r] # "import" => copy[r] = collection
    /\ at[r] = "store" => base[r] = [identifiers |-> identifiers, collection |-> collection]
    /\ late[r] \cup pushed[r] \subseteq moved
    /\ task[r] = "save" => \A f \in Fields \ pushed[r] :
                              result[r].discogs_values[f] = collection.discogs_values[f]
    /\ task[r] # "save" /\ result[r] # None =>
          \A f \in Details!Pending(Details!Stored(collection)) :
             result[r].values[f] = Details!Stored(collection).values[f]

\* What the request takes for the values on Discogs is there, but for what has changed since.
InSight(r) ==
    /\ task[r] = "save" => \A f \in pushed[r] \ late[r] :
                              result[r].discogs_values[f] = Details!Remote(site)[f]
    /\ task[r] = "refresh" /\ result[r] # None =>
          \A f \in Fields \ late[r] : result[r].discogs_values[f] = Details!Remote(site)[f]
    /\ task[r] = "import" =>
          /\ \A f \in Fields \ late[r] : copy[r].discogs_values[f] = Details!Remote(site)[f]
          /\ result[r] # None => result[r].discogs_values = copy[r].discogs_values

RequestsKnow ==
    /\ \A r \in Details!UnderWay : InSight(r)
    /\ \A r \in Details!UnderWay \ behind : UpToDate(r)

\* An edit is stored as it was typed, and is pending.
EditsPending ==
    raced \/ \A f \in Fields : typed[f] # None =>
                /\ collection # None /\ collection.values[f] = typed[f]
                /\ collection.discogs_values[f] # typed[f]

DetailsKept == DetailsTyped /\ AtHand /\ RequestsKnow /\ EditsPending /\ Details!KnowsDiscogs

LEMMA DetailsAssumed ==
  /\ Blank \in Texts /\ None \notin Texts
  /\ None \notin Details!Entries /\ None \notin Details!Collection
BY SiteAssumption DEF Details!DetailsAssumption

\* What Discogs holds of a copy, what is stored of it, and what merging the two makes.
LEMMA RemoteIsEntries ==
  ASSUME NEW there \in Details!Entries \cup {None}
  PROVE  Details!Remote(there) \in Details!Entries
BY DetailsAssumed DEF Details!Remote, Details!Entries

LEMMA StoredIsCollection ==
  ASSUME NEW c \in Details!Collection \cup {None}
  PROVE  Details!Stored(c) \in Details!Collection
BY DetailsAssumed DEF Details!Stored, Details!NoCollection, Details!Collection, Details!Entries

LEMMA MergedKeepsPending ==
  ASSUME NEW existing \in Details!Collection \cup {None}, NEW there \in Details!Entries \cup {None}
  PROVE  /\ Details!Merged(existing, there) \in Details!Collection
         /\ Details!Merged(existing, there).discogs_values = Details!Remote(there)
         /\ \A f \in Details!Pending(Details!Stored(existing)) :
               Details!Merged(existing, there).values[f] = Details!Stored(existing).values[f]
<1> DEFINE prev == Details!Stored(existing)
           remote == Details!Remote(there)
           values == [f \in Fields |-> IF f \in Details!Pending(prev) THEN prev.values[f] ELSE remote[f]]
           instance == there # None \/ prev.instance
<1>1. prev \in Details!Collection /\ remote \in Details!Entries
  BY RemoteIsEntries, StoredIsCollection
<1>2. Details!Merged(existing, there)
         = [values |-> values, discogs_values |-> remote, instance |-> instance]
  BY DEF Details!Merged
<1> HIDE DEF prev, remote
<1>3. values \in Details!Entries
  BY <1>1 DEF Details!Collection, Details!Entries
<1>4. instance \in BOOLEAN
  BY <1>1 DEF Details!Collection
<1>5. \A f \in Details!Pending(prev) : values[f] = prev.values[f]
  BY DEF Details!Pending
<1> HIDE DEF values, instance
<1> QED
  BY <1>1, <1>2, <1>3, <1>4, <1>5 DEF Details!Collection, prev, remote

\* At the start nothing is stored and there is no request.
LEMMA DetailsAtStart == Details!Init => DetailsKept
<1> SUFFICES ASSUME Details!Init PROVE DetailsKept
  OBVIOUS
<1>1. DetailsTyped
  <2>1. site \in Details!Entries \cup {None}
    BY DetailsAssumed DEF Details!Init, Details!Entries
  <2> QED
    BY <2>1 DEF Details!Init, DetailsTyped, Details!TypeOK
<1>2. AtHand /\ RequestsKnow /\ EditsPending /\ Details!KnowsDiscogs
  BY DEF Details!Init, AtHand, AtHandOf, RequestsKnow, EditsPending, Details!KnowsDiscogs, Details!UnderWay
<1> QED
  BY <1>1, <1>2 DEF DetailsKept

\* A step that leaves what a request has at hand alone, and tells it of every change on Discogs.
Untouched(q) ==
    /\ at'[q] = at[q] /\ task'[q] = task[q] /\ copy'[q] = copy[q] /\ base'[q] = base[q]
    /\ result'[q] = result[q] /\ pushed'[q] = pushed[q] /\ todo'[q] = todo[q]

Told(q) ==
    /\ late[q] \subseteq late'[q]
    /\ \A f \in Fields \ late'[q] : Details!Remote(site')[f] = Details!Remote(site)[f]

\* What the other requests know stays true, unless they fall behind.
LEMMA OthersKnow ==
  ASSUME DetailsTyped, RequestsKnow, NEW touched \in SUBSET Editors,
         \A q \in Editors \ touched : Untouched(q) /\ (at[q] # "idle" => Told(q)),
         \/ /\ UNCHANGED <<identifiers, collection>> /\ moved \subseteq moved'
            /\ behind \ touched \subseteq behind'
            /\ \A q \in Editors \ touched : late'[q] \subseteq late[q] \cup moved'
         \/ Details!UnderWay \ touched \subseteq behind',
         \A r \in touched : at'[r] # "idle" => InSight(r)' /\ (r \in behind' \/ UpToDate(r)')
  PROVE  RequestsKnow'
<1>1. ASSUME NEW q \in Editors, at'[q] # "idle" PROVE InSight(q)'
  <2>1. CASE q \in touched
    BY <1>1, <2>1
  <2>2. CASE q \notin touched
    <3>1. Untouched(q) /\ Told(q) /\ at[q] # "idle" /\ InSight(q)
      BY <1>1, <2>2 DEF RequestsKnow, Details!UnderWay, Untouched
    <3> DEFINE there == Details!Remote(site)
               thereNow == Details!Remote(site')
    <3>2. /\ task'[q] = task[q] /\ result'[q] = result[q] /\ pushed'[q] = pushed[q]
          /\ copy'[q] = copy[q] /\ pushed[q] \subseteq Fields /\ late[q] \subseteq late'[q]
          /\ \A f \in Fields \ late'[q] : thereNow[f] = there[f]
      BY <3>1 DEF Untouched, Told, DetailsTyped
    <3>3. /\ task[q] = "save" => \A f \in pushed[q] \ late[q] : result[q].discogs_values[f] = there[f]
          /\ task[q] = "refresh" /\ result[q] # None =>
                \A f \in Fields \ late[q] : result[q].discogs_values[f] = there[f]
          /\ task[q] = "import" =>
                /\ \A f \in Fields \ late[q] : copy[q].discogs_values[f] = there[f]
                /\ result[q] # None => result[q].discogs_values = copy[q].discogs_values
      BY <3>1 DEF InSight
    <3> HIDE DEF there, thereNow
    <3>4. task'[q] = "save" =>
             \A f \in pushed'[q] \ late'[q] : result'[q].discogs_values[f] = thereNow[f]
      BY <3>2, <3>3
    <3>5. task'[q] = "refresh" /\ result'[q] # None =>
             \A f \in Fields \ late'[q] : result'[q].discogs_values[f] = thereNow[f]
      BY <3>2, <3>3
    <3>6. task'[q] = "import" =>
             /\ \A f \in Fields \ late'[q] : copy'[q].discogs_values[f] = thereNow[f]
             /\ result'[q] # None => result'[q].discogs_values = copy'[q].discogs_values
      BY <3>2, <3>3
    <3> QED
      BY <3>4, <3>5, <3>6 DEF InSight, thereNow
  <2> QED
    BY <2>1, <2>2
<1>2. ASSUME NEW q \in Editors, at'[q] # "idle", q \notin behind' PROVE UpToDate(q)'
  <2>1. CASE q \in touched
    BY <1>2, <2>1
  <2>2. CASE q \notin touched
    <3>1. Untouched(q) /\ at[q] # "idle" /\ q \in Details!UnderWay
      BY <1>2, <2>2 DEF Details!UnderWay, Untouched
    <3>2. /\ UNCHANGED <<identifiers, collection>> /\ moved \subseteq moved'
          /\ late'[q] \subseteq late[q] \cup moved' /\ q \notin behind
      BY <1>2, <2>2, <3>1
    <3>3. UpToDate(q)
      BY <3>1, <3>2 DEF RequestsKnow
    <3> QED
      BY <3>1, <3>2, <3>3 DEF Untouched, UpToDate
  <2> QED
    BY <2>1, <2>2
<1> QED
  BY <1>1, <1>2 DEF RequestsKnow, Details!UnderWay

\* The step of one request that stores nothing.
LEMMA StepKnows ==
  ASSUME DetailsTyped, RequestsKnow, NEW r \in Editors,
         \A q \in Editors \ {r} : Untouched(q) /\ (at[q] # "idle" => Told(q)),
         UNCHANGED <<identifiers, collection>>, moved \subseteq moved', behind \ {r} \subseteq behind',
         \A q \in Editors \ {r} : late'[q] \subseteq late[q] \cup moved',
         at'[r] # "idle" => InSight(r)' /\ (r \in behind' \/ UpToDate(r)')
  PROVE  RequestsKnow'
<1> DEFINE touched == {r}
<1>1. touched \in SUBSET Editors /\ \A q \in touched : q = r
  OBVIOUS
<1>2. \A q \in Editors \ touched : Untouched(q) /\ (at[q] # "idle" => Told(q))
  OBVIOUS
<1>3. /\ UNCHANGED <<identifiers, collection>> /\ moved \subseteq moved'
      /\ behind \ touched \subseteq behind'
      /\ \A q \in Editors \ touched : late'[q] \subseteq late[q] \cup moved'
  OBVIOUS
<1>4. \A q \in touched : at'[q] # "idle" => InSight(q)' /\ (q \in behind' \/ UpToDate(q)')
  BY <1>1
<1> HIDE DEF touched
<1> QED
  BY <1>1, <1>2, <1>3, <1>4, OthersKnow

\* What the other requests have at hand stays what their place says.
LEMMA OthersAtHand ==
  ASSUME AtHand, NEW r \in Editors, AtHandOf(r)',
         \A q \in Editors \ {r} : Untouched(q) /\ (at[q] = "idle" => late'[q] = late[q])
  PROVE  AtHand'
BY DEF AtHand, AtHandOf, Untouched

\* The end of a request.
LEMMA EndEffect ==
  ASSUME DetailsTyped, AtHand, NEW r \in Editors, Details!End(r)
  PROVE  /\ at' \in [Editors -> {"idle", "release", "collection", "open", "push", "select", "store"}]
         /\ task' \in [Editors -> {"refresh", "save", "import", None}]
         /\ found' \in [Editors -> BOOLEAN]
         /\ copy' \in [Editors -> Details!Collection \cup {None}]
         /\ result' \in [Editors -> Details!Collection \cup {None}]
         /\ base' \in [Editors -> Loaded \cup {None}]
         /\ todo' \in [Editors -> SUBSET Fields] /\ pushed' \in [Editors -> SUBSET Fields]
         /\ late' \in [Editors -> SUBSET Fields]
         /\ at'[r] = "idle" /\ AtHand'
         /\ \A q \in Editors \ {r} : Untouched(q) /\ late'[q] = late[q]
<1> USE DEF Details!End, Details!Go, DetailsTyped, Details!TypeOK
<1>1. \A q \in Editors \ {r} : Untouched(q) /\ late'[q] = late[q]
  BY DEF Untouched
<1>2. at'[r] = "idle" /\ result'[r] = None /\ todo'[r] = {} /\ pushed'[r] = {} /\ late'[r] = {}
  OBVIOUS
<1>3. AtHand'
  BY <1>1, <1>2, OthersAtHand DEF AtHandOf
<1> QED
  BY <1>1, <1>2, <1>3

\* A refresh begins with what is stored.
LEMMA RefreshStarts ==
  ASSUME DetailsKept, NEW r \in Editors, Details!StartRefresh(r)
  PROVE  DetailsKept'
<1> USE DEF DetailsKept, DetailsTyped, Details!TypeOK, Details!StartRefresh, Details!Start,
            Details!Go, Details!row, Details!history
<1>1. \A q \in Editors \ {r} : Untouched(q) /\ late'[q] = late[q] /\ Told(q)
  BY DEF Untouched, Told
<1>2. /\ at'[r] = "release" /\ task'[r] = "refresh" /\ copy'[r] = collection /\ late'[r] = {}
      /\ pushed'[r] = {} /\ result'[r] = None
  BY DEF AtHand, AtHandOf
<1>3. DetailsTyped'
  BY DEF Details!UnderWay
<1>4. AtHand'
  BY <1>1, <1>2, OthersAtHand DEF AtHandOf
<1>5. InSight(r)' /\ UpToDate(r)'
  BY <1>2 DEF InSight, UpToDate
<1>6. RequestsKnow'
  BY <1>1, <1>5, StepKnows
<1>7. EditsPending' /\ Details!KnowsDiscogs'
  BY DEF EditsPending, Details!KnowsDiscogs
<1> QED
  BY <1>3, <1>4, <1>6, <1>7

\* A save begins with the form, laid over what is stored.
LEMMA SaveStarts ==
  ASSUME DetailsKept, NEW r \in Editors, NEW form \in [Fields -> Texts \cup {None}],
         NEW writeback \in BOOLEAN, Details!StartSave(r, form, writeback)
  PROVE  DetailsKept'
<1> DEFINE c == Details!WithForm(collection, form)
<1>1. collection \in Details!Collection
  BY DEF DetailsKept, DetailsTyped, Details!TypeOK, Details!StartSave
<1>2. c \in Details!Collection /\ c.discogs_values = collection.discogs_values
  <2>1. [g \in Fields |-> IF form[g] = None THEN collection.values[g] ELSE form[g]] \in Details!Entries
    BY <1>1 DEF Details!Collection, Details!Entries
  <2>2. c = [collection EXCEPT !.values =
               [g \in Fields |-> IF form[g] = None THEN collection.values[g] ELSE form[g]]]
    BY <1>1 DEF Details!WithForm, Details!Collection
  <2> QED
    BY <1>1, <2>1, <2>2 DEF Details!Collection
<1>3. c # None
  BY <1>2, DetailsAssumed
<1>4. Details!Pending(c) \subseteq Fields
  BY DEF Details!Pending
<1>5. /\ at[r] = "idle" /\ task' = [task EXCEPT ![r] = "save"]
      /\ copy' = [copy EXCEPT ![r] = collection] /\ result' = [result EXCEPT ![r] = c]
      /\ todo' = [todo EXCEPT ![r] = IF writeback /\ c.instance THEN Details!Pending(c) ELSE {}]
      /\ at' = [at EXCEPT ![r] = IF writeback /\ c.instance /\ Details!Pending(c) # {}
                                 THEN "open" ELSE "select"]
      /\ UNCHANGED <<identifiers, collection, site, base, found, behind, pushed, late, moved, typed,
                     raced>>
  BY DEF Details!StartSave, Details!Start, Details!Go, Details!row, Details!history
<1> HIDE DEF c
<1> USE DEF DetailsKept, DetailsTyped, Details!TypeOK
<1>6. \A q \in Editors \ {r} : Untouched(q) /\ late'[q] = late[q] /\ Told(q)
  BY <1>5 DEF Untouched, Told
<1>7. /\ at'[r] \in {"open", "select"} /\ task'[r] = "save" /\ copy'[r] = collection
      /\ late'[r] = {} /\ pushed'[r] = {} /\ result'[r] = c
  BY <1>5 DEF AtHand, AtHandOf
<1>8. DetailsTyped'
  BY <1>2, <1>4, <1>5 DEF Details!UnderWay
<1>9. AtHand'
  BY <1>1, <1>3, <1>6, <1>7, DetailsAssumed, OthersAtHand DEF AtHandOf
<1>10. InSight(r)' /\ UpToDate(r)'
  BY <1>2, <1>5, <1>7 DEF InSight, UpToDate
<1>11. RequestsKnow'
  BY <1>5, <1>6, <1>10, StepKnows
<1>12. EditsPending' /\ Details!KnowsDiscogs'
  BY <1>5 DEF EditsPending, Details!KnowsDiscogs
<1> QED
  BY <1>8, <1>9, <1>11, <1>12

\* An import begins with what Discogs has listed.
LEMMA ImportStarts ==
  ASSUME DetailsKept, NEW r \in Editors, Details!StartImport(r)
  PROVE  DetailsKept'
<1> DEFINE c == [Details!NoCollection EXCEPT !.discogs_values = site]
<1>1. site \in Details!Entries /\ Details!Remote(site) = site
  BY DEF DetailsKept, DetailsTyped, Details!TypeOK, Details!StartImport, Details!Remote
<1>2. c \in Details!Collection /\ c.discogs_values = site
  BY <1>1, DetailsAssumed DEF Details!NoCollection, Details!Collection, Details!Entries
<1>3. c # None
  BY <1>2, DetailsAssumed
<1>5. /\ at[r] = "idle" /\ task' = [task EXCEPT ![r] = "import"]
      /\ copy' = [copy EXCEPT ![r] = c]
      /\ at' = [at EXCEPT ![r] = IF identifiers THEN "select" ELSE "release"]
      /\ UNCHANGED <<identifiers, collection, site, base, found, result, todo, behind, pushed, late,
                     moved, typed, raced>>
  BY DEF Details!StartImport, Details!Start, Details!Go, Details!row, Details!history
<1> HIDE DEF c
<1> USE DEF DetailsKept, DetailsTyped, Details!TypeOK
<1>6. \A q \in Editors \ {r} : Untouched(q) /\ late'[q] = late[q] /\ Told(q)
  BY <1>5 DEF Untouched, Told
<1>7. /\ at'[r] \in {"release", "select"} /\ task'[r] = "import" /\ copy'[r] = c
      /\ late'[r] = {} /\ pushed'[r] = {} /\ result'[r] = None
  BY <1>5 DEF AtHand, AtHandOf
<1>8. DetailsTyped'
  BY <1>2, <1>5 DEF Details!UnderWay
<1>9. AtHand'
  BY <1>3, <1>6, <1>7, OthersAtHand DEF AtHandOf
<1>10. InSight(r)' /\ UpToDate(r)'
  BY <1>1, <1>2, <1>5, <1>7 DEF InSight, UpToDate
<1>11. RequestsKnow'
  BY <1>5, <1>6, <1>10, StepKnows
<1>12. EditsPending' /\ Details!KnowsDiscogs'
  BY <1>5 DEF EditsPending, Details!KnowsDiscogs
<1> QED
  BY <1>8, <1>9, <1>11, <1>12

\* What a request knows at the release and of the connector, and what ends it.
LEMMA ReleaseStays ==
  ASSUME DetailsKept, NEW r \in Editors, Details!FetchRelease(r)
  PROVE  DetailsKept'
<1> USE DEF DetailsKept, DetailsTyped, Details!TypeOK, Details!FetchRelease, Details!Go, Details!row,
            Details!history
<1>1. \A q \in Editors \ {r} : Untouched(q) /\ late'[q] = late[q] /\ Told(q)
  BY DEF Untouched, Told
<1>2. /\ at[r] = "release" /\ AtHandOf(r)
      /\ at'[r] = (IF task[r] = "import" THEN "select" ELSE "collection")
      /\ UNCHANGED <<identifiers, collection, site, task, copy, base, result, todo, behind, pushed,
                     late, moved, typed, raced>>
  BY DEF AtHand
<1>3. DetailsTyped'
  BY DEF Details!UnderWay
<1>4. AtHand'
  BY <1>1, <1>2, OthersAtHand DEF AtHandOf
<1>5. InSight(r)' /\ (r \in behind' \/ UpToDate(r)')
  BY <1>2 DEF RequestsKnow, InSight, UpToDate, Details!UnderWay
<1>6. RequestsKnow'
  BY <1>1, <1>2, <1>5, StepKnows
<1>7. EditsPending' /\ Details!KnowsDiscogs'
  BY <1>2 DEF EditsPending, Details!KnowsDiscogs
<1> QED
  BY <1>3, <1>4, <1>6, <1>7

LEMMA ConnectorStays ==
  ASSUME DetailsKept, NEW r \in Editors, Details!OpenConnector(r)
  PROVE  DetailsKept'
<1> USE DEF DetailsKept, DetailsTyped, Details!TypeOK, Details!OpenConnector, Details!Go, Details!row,
            Details!history
<1>1. \A q \in Editors \ {r} : Untouched(q) /\ late'[q] = late[q] /\ Told(q)
  BY DEF Untouched, Told
<1>2. /\ at[r] = "open" /\ at'[r] \in {"push", "select"} /\ AtHandOf(r)
      /\ UNCHANGED <<identifiers, collection, site, task, copy, base, found, result, behind, pushed,
                     late, moved, typed, raced>>
  BY DEF AtHand
<1>3. DetailsTyped'
  BY DEF Details!UnderWay
<1>4. AtHand'
  BY <1>1, <1>2, OthersAtHand DEF AtHandOf
<1>5. InSight(r)' /\ (r \in behind' \/ UpToDate(r)')
  BY <1>2 DEF RequestsKnow, InSight, UpToDate, Details!UnderWay
<1>6. RequestsKnow'
  BY <1>1, <1>2, <1>5, StepKnows
<1>7. EditsPending' /\ Details!KnowsDiscogs'
  BY <1>2 DEF EditsPending, Details!KnowsDiscogs
<1> QED
  BY <1>3, <1>4, <1>6, <1>7

LEMMA EndStays ==
  ASSUME DetailsKept, NEW r \in Editors, at[r] # "idle", Details!End(r), behind' = behind \ {r},
         UNCHANGED <<identifiers, collection, site, moved, typed, raced>>
  PROVE  DetailsKept'
<1>1. DetailsTyped /\ AtHand /\ RequestsKnow
  BY DEF DetailsKept
<1>2. AtHand' /\ at'[r] = "idle" /\ \A q \in Editors \ {r} : Untouched(q) /\ late'[q] = late[q]
  BY <1>1, EndEffect
<1>3. DetailsTyped'
  BY <1>1, <1>2, EndEffect DEF DetailsTyped, Details!TypeOK, Details!UnderWay, Untouched
<1>4. \A q \in Editors \ {r} : Told(q)
  BY <1>2 DEF Told
<1>5. RequestsKnow'
  BY <1>1, <1>2, <1>4, StepKnows
<1>6. EditsPending' /\ Details!KnowsDiscogs'
  BY DEF DetailsKept, EditsPending, Details!KnowsDiscogs
<1> QED
  BY <1>2, <1>3, <1>5, <1>6 DEF DetailsKept

\* A refresh merges what Discogs holds into what it has loaded.
LEMMA CollectionStays ==
  ASSUME DetailsKept, NEW r \in Editors, Details!FetchCollection(r)
  PROVE  DetailsKept'
<1>1. /\ at[r] = "collection" /\ AtHandOf(r) /\ r \in Details!UnderWay
      /\ UNCHANGED <<identifiers, collection, site, moved, typed, raced>>
  BY DEF DetailsKept, AtHand, Details!FetchCollection, Details!row, Details!UnderWay
<1>2. EditsPending' /\ Details!KnowsDiscogs'
  BY <1>1 DEF DetailsKept, EditsPending, Details!KnowsDiscogs
<1>3. ASSUME result' = [result EXCEPT ![r] = Details!Merged(copy[r], site)],
             late' = [late EXCEPT ![r] = {}], at' = [at EXCEPT ![r] = "select"],
             UNCHANGED <<task, copy, base, found, todo, pushed, behind>>
      PROVE  DetailsKept'
  <2> DEFINE c == Details!Merged(copy[r], site)
             before == Details!Stored(copy[r])
  <2>1. copy[r] \in Details!Collection \cup {None} /\ site \in Details!Entries \cup {None}
    BY DEF DetailsKept, DetailsTyped, Details!TypeOK
  <2>2. /\ c \in Details!Collection /\ c.discogs_values = Details!Remote(site)
        /\ \A f \in Details!Pending(before) : c.values[f] = before.values[f]
    BY <2>1, MergedKeepsPending
  <2>3. result' = [result EXCEPT ![r] = c]
    BY <1>3
  <2> HIDE DEF c
  <2> USE DEF DetailsKept, DetailsTyped, Details!TypeOK
  <2>4. \A q \in Editors \ {r} : Untouched(q) /\ late'[q] = late[q] /\ Told(q)
    BY <1>1, <1>3, <2>3 DEF Untouched, Told
  <2>5. /\ at'[r] = "select" /\ task'[r] = "refresh" /\ result'[r] = c /\ late'[r] = {}
        /\ pushed'[r] = {} /\ copy'[r] = copy[r]
    BY <1>1, <1>3, <2>3 DEF AtHandOf
  <2>6. DetailsTyped'
    BY <1>1, <1>3, <2>2, <2>3 DEF Details!UnderWay
  <2>7. AtHand'
    BY <2>4, <2>5, OthersAtHand DEF AtHandOf
  <2>8. InSight(r)'
    BY <1>1, <2>2, <2>5 DEF InSight
  <2>9. ASSUME r \notin behind PROVE UpToDate(r)'
    <3>1. copy[r] = collection
      BY <1>1, <2>5, <2>9, <1>3 DEF RequestsKnow, UpToDate
    <3> QED
      BY <1>1, <2>2, <2>5, <3>1 DEF UpToDate
  <2>10. RequestsKnow'
    BY <1>1, <1>3, <2>4, <2>8, <2>9, StepKnows
  <2> QED
    BY <1>2, <2>6, <2>7, <2>10
<1>4. ASSUME at' = [at EXCEPT ![r] = "select"],
             UNCHANGED <<task, copy, base, found, result, todo, pushed, late, behind>>
      PROVE  DetailsKept'
  <2> USE DEF DetailsKept, DetailsTyped, Details!TypeOK
  <2>1. \A q \in Editors \ {r} : Untouched(q) /\ late'[q] = late[q] /\ Told(q)
    BY <1>1, <1>4 DEF Untouched, Told
  <2>2. DetailsTyped'
    BY <1>1, <1>4 DEF Details!UnderWay
  <2>3. AtHand'
    BY <1>1, <1>4, <2>1, OthersAtHand DEF AtHandOf
  <2>4. InSight(r)' /\ (r \in behind' \/ UpToDate(r)')
    BY <1>1, <1>4 DEF RequestsKnow, InSight, UpToDate
  <2>5. RequestsKnow'
    BY <1>1, <1>4, <2>1, <2>4, StepKnows
  <2> QED
    BY <1>2, <2>2, <2>3, <2>5
<1>5. ASSUME Details!End(r), behind' = behind \ {r} PROVE DetailsKept'
  BY <1>1, <1>5, EndStays
<1> QED
  BY <1>3, <1>4, <1>5 DEF Details!FetchCollection, Details!Go

\* A write-back tells the others what it has written.
LEMMA PushStays ==
  ASSUME DetailsKept, NEW r \in Editors, NEW f \in Fields, Details!Push(r, f)
  PROVE  DetailsKept'
<1>1. /\ at[r] = "push" /\ AtHandOf(r) /\ r \in Details!UnderWay /\ f \in todo[r]
      /\ at' = [at EXCEPT ![r] = IF todo'[r] = {} THEN "select" ELSE "push"]
      /\ UNCHANGED <<identifiers, collection, task, copy, base, found, behind, typed, raced>>
  BY DEF DetailsKept, AtHand, Details!Push, Details!Go, Details!row, Details!UnderWay
<1>2. EditsPending'
  BY <1>1 DEF DetailsKept, EditsPending
<1>3. ASSUME site # None, site' = [site EXCEPT ![f] = result[r].values[f]],
             result' = [result EXCEPT ![r].discogs_values[f] = result[r].values[f]],
             todo' = [todo EXCEPT ![r] = @ \ {f}], moved' = moved \cup {f},
             pushed' = [pushed EXCEPT ![r] = @ \cup {f}], late' = Details!ChangedFor(r, f)
      PROVE  DetailsKept'
  <2> DEFINE text == result[r].values[f]
             c == [result[r] EXCEPT !.discogs_values = [@ EXCEPT ![f] = text]]
  <2>1. /\ task[r] = "save" /\ result[r] \in Details!Collection /\ text \in Texts
        /\ site \in Details!Entries
    BY <1>1, <1>3 DEF DetailsKept, DetailsTyped, Details!TypeOK, AtHandOf, Details!Collection,
                      Details!Entries
  <2>2. /\ c \in Details!Collection /\ c.discogs_values[f] = text
        /\ \A g \in Fields \ {f} : c.discogs_values[g] = result[r].discogs_values[g]
    BY <2>1 DEF Details!Collection, Details!Entries
  <2>3. result' = [result EXCEPT ![r] = c]
    BY <1>3
  <2>4. /\ site' \in Details!Entries /\ site'[f] = text /\ site' # None
        /\ \A g \in Fields \ {f} : site'[g] = site[g]
    BY <1>3, <2>1, DetailsAssumed DEF Details!Entries
  <2>5. Details!Remote(site) = site /\ Details!Remote(site') = site'
    BY <1>3, <2>4 DEF Details!Remote
  <2>6. c # None
    BY <2>2, DetailsAssumed
  <2> HIDE DEF text, c
  <2>7. late' = [q \in Editors |-> IF q = r THEN late[q] \ {f}
                                   ELSE IF q \in Details!UnderWay THEN late[q] \cup {f} ELSE late[q]]
    BY <1>3 DEF Details!ChangedFor
  <2> USE DEF DetailsKept, DetailsTyped, Details!TypeOK
  <2>8. \A q \in Editors \ {r} : /\ Untouched(q)
                                 /\ at[q] # "idle" => Told(q) /\ late'[q] = late[q] \cup {f}
                                 /\ at[q] = "idle" => late'[q] = late[q]
    <3> SUFFICES ASSUME NEW q \in Editors \ {r}
                 PROVE  /\ Untouched(q)
                        /\ at[q] # "idle" => Told(q) /\ late'[q] = late[q] \cup {f}
                        /\ at[q] = "idle" => late'[q] = late[q]
      OBVIOUS
    <3>1. Untouched(q)
      BY <1>1, <1>3, <2>3 DEF Untouched
    <3>2. late'[q] = IF at[q] # "idle" THEN late[q] \cup {f} ELSE late[q]
      BY <2>7 DEF Details!UnderWay
    <3> QED
      BY <2>4, <2>5, <3>1, <3>2 DEF Told
  <2>9. /\ at'[r] \in {"select", "push"} /\ task'[r] = "save" /\ result'[r] = c
        /\ late'[r] = late[r] \ {f} /\ pushed'[r] = pushed[r] \cup {f} /\ copy'[r] = copy[r]
    BY <1>1, <1>3, <2>1, <2>3, <2>7
  <2>10. late' \in [Editors -> SUBSET Fields]
    BY <2>7
  <2>11. DetailsTyped'
    <3>1. result' \in [Editors -> Details!Collection \cup {None}]
      BY <2>2, <2>3
    <3>2. site' \in Details!Entries \cup {None}
      BY <2>4
    <3>3. todo' \in [Editors -> SUBSET Fields] /\ pushed' \in [Editors -> SUBSET Fields]
      BY <1>3
    <3>4. at' \in [Editors -> {"idle", "release", "collection", "open", "push", "select", "store"}]
      BY <1>1
    <3>5. behind' \subseteq Details!UnderWay'
      BY <1>1 DEF Details!UnderWay
    <3> QED
      BY <1>1, <1>3, <2>10, <3>1, <3>2, <3>3, <3>4, <3>5
  <2>12. AtHand'
    <3>1. AtHandOf(r)'
      BY <1>1, <2>6, <2>9 DEF AtHandOf
    <3> QED
      BY <2>8, <3>1, OthersAtHand
  <2>13. InSight(r)'
    BY <1>1, <2>1, <2>2, <2>4, <2>5, <2>9 DEF RequestsKnow, InSight
  <2>14. ASSUME r \notin behind PROVE UpToDate(r)'
    BY <1>1, <1>3, <2>1, <2>2, <2>9, <2>14 DEF RequestsKnow, UpToDate
  <2>15. RequestsKnow'
    BY <1>1, <1>3, <2>8, <2>13, <2>14, StepKnows
  <2>16. Details!KnowsDiscogs'
    BY <1>1, <1>3, <2>4, <2>5 DEF Details!KnowsDiscogs
  <2> QED
    BY <1>2, <2>11, <2>12, <2>15, <2>16
<1>4. ASSUME todo' = [todo EXCEPT ![r] = {}], UNCHANGED <<site, result, pushed, moved, late>>
      PROVE  DetailsKept'
  <2> USE DEF DetailsKept, DetailsTyped, Details!TypeOK
  <2>1. at'[r] = "select"
    BY <1>1, <1>4
  <2>2. \A q \in Editors \ {r} : Untouched(q) /\ late'[q] = late[q] /\ Told(q)
    BY <1>1, <1>4 DEF Untouched, Told
  <2>3. DetailsTyped'
    BY <1>1, <1>4 DEF Details!UnderWay
  <2>4. AtHand'
    BY <1>1, <1>4, <2>1, <2>2, OthersAtHand DEF AtHandOf
  <2>5. InSight(r)' /\ (r \in behind' \/ UpToDate(r)')
    BY <1>1, <1>4, <2>1 DEF RequestsKnow, InSight, UpToDate
  <2>6. RequestsKnow'
    BY <1>1, <1>4, <2>2, <2>5, StepKnows
  <2>7. Details!KnowsDiscogs'
    BY <1>1, <1>4 DEF Details!KnowsDiscogs
  <2> QED
    BY <1>2, <2>3, <2>4, <2>6, <2>7
<1> QED
  BY <1>3, <1>4 DEF Details!Push

\* An import merges what Discogs has listed into what it loads.
LEMMA SelectStays ==
  ASSUME DetailsKept, NEW r \in Editors, Details!SelectExtra(r)
  PROVE  DetailsKept'
<1> DEFINE extra == [identifiers |-> identifiers, collection |-> collection]
           c == Details!Merged(collection, copy[r].discogs_values)
           before == Details!Stored(collection)
<1>1. /\ at[r] = "select" /\ AtHandOf(r) /\ r \in Details!UnderWay /\ extra \in Loaded
      /\ at' = [at EXCEPT ![r] = "store"] /\ base' = [base EXCEPT ![r] = extra]
      /\ UNCHANGED <<identifiers, collection, site, task, copy, found, todo, behind, pushed, late, moved,
                     typed, raced>>
  BY DEF DetailsKept, DetailsTyped, Details!TypeOK, AtHand, Details!SelectExtra, Details!Go, Details!row,
         Details!history, Details!UnderWay, Loaded
<1>2. ASSUME task[r] = "import"
      PROVE  /\ c \in Details!Collection /\ c # None /\ c.discogs_values = copy[r].discogs_values
             /\ \A f \in Details!Pending(before) : c.values[f] = before.values[f]
  <2>1. copy[r] \in Details!Collection /\ collection \in Details!Collection \cup {None}
    BY <1>1, <1>2 DEF DetailsKept, DetailsTyped, Details!TypeOK, AtHandOf
  <2>2. copy[r].discogs_values \in Details!Entries
    BY <2>1 DEF Details!Collection
  <2>3. Details!Remote(copy[r].discogs_values) = copy[r].discogs_values
    BY <2>2, DetailsAssumed DEF Details!Remote
  <2> QED
    BY <2>1, <2>2, <2>3, MergedKeepsPending, DetailsAssumed
<1>3. result' = IF task[r] = "import" THEN [result EXCEPT ![r] = c] ELSE result
  BY DEF Details!SelectExtra
<1>4. EditsPending' /\ Details!KnowsDiscogs'
  BY <1>1 DEF DetailsKept, EditsPending, Details!KnowsDiscogs
<1> HIDE DEF c, extra
<1> USE DEF DetailsKept, DetailsTyped, Details!TypeOK
<1>5. /\ at'[r] = "store" /\ base'[r] = extra
      /\ task[r] = "import" => result'[r] = c
      /\ task[r] # "import" => result'[r] = result[r]
  BY <1>1, <1>3
<1>6. \A q \in Editors \ {r} : Untouched(q) /\ late'[q] = late[q] /\ Told(q)
  BY <1>1, <1>3 DEF Untouched, Told
<1>7. DetailsTyped'
  <2>1. result' \in [Editors -> Details!Collection \cup {None}]
    BY <1>2, <1>3
  <2>2. behind' \subseteq Details!UnderWay'
    BY <1>1 DEF Details!UnderWay
  <2> QED
    BY <1>1, <2>1, <2>2
<1>8. AtHand'
  <2>1. AtHandOf(r)'
    BY <1>1, <1>2, <1>5 DEF AtHandOf
  <2> QED
    BY <1>6, <2>1, OthersAtHand
<1>9. InSight(r)'
  BY <1>1, <1>2, <1>5 DEF RequestsKnow, InSight
<1>10. ASSUME r \notin behind PROVE UpToDate(r)'
  <2>1. UpToDate(r)
    BY <1>1, <1>10 DEF RequestsKnow
  <2>2. base'[r] = [identifiers |-> identifiers', collection |-> collection']
    BY <1>1, <1>5 DEF extra
  <2>3. task'[r] # "save" /\ result'[r] # None =>
           \A f \in Details!Pending(before) : result'[r].values[f] = before.values[f]
    BY <1>1, <1>2, <1>5, <2>1 DEF UpToDate
  <2> QED
    BY <1>1, <1>2, <1>5, <2>1, <2>2, <2>3 DEF UpToDate
<1>11. RequestsKnow'
  BY <1>1, <1>6, <1>9, <1>10, StepKnows
<1> QED
  BY <1>4, <1>7, <1>8, <1>11

\* What is stored keeps the edits and knows Discogs, unless the copy was outdated.
LEMMA StoreStays ==
  ASSUME DetailsKept, NEW r \in Editors, Details!StoreExtra(r)
  PROVE  DetailsKept'
<1> DEFINE c == result[r]
           there == Details!Remote(site)
<1>1. /\ at[r] = "store" /\ AtHandOf(r) /\ InSight(r) /\ r \in Details!UnderWay
      /\ r \notin behind => UpToDate(r)
  BY DEF DetailsKept, AtHand, RequestsKnow, Details!StoreExtra, Details!UnderWay
<1>2. /\ identifiers' = (found[r] \/ base[r].identifiers)
      /\ collection' = IF c = None THEN base[r].collection ELSE c
      /\ moved' = IF c = None THEN moved ELSE moved \ Details!Settled(r)
      /\ typed' = IF c = None THEN typed ELSE Details!Typed(r, c)
      /\ raced' = (raced \/ r \in behind)
      /\ behind' = (behind \cup Details!UnderWay) \ {r}
      /\ site' = site /\ Details!End(r)
  BY DEF Details!StoreExtra
<1>3. /\ base[r] \in Loaded /\ c \in Details!Collection \cup {None} /\ found[r] \in BOOLEAN
      /\ copy[r] \in Details!Collection \cup {None}
  BY <1>1 DEF DetailsKept, DetailsTyped, Details!TypeOK, AtHandOf
<1>4. AtHand' /\ at'[r] = "idle" /\ \A q \in Editors \ {r} : Untouched(q) /\ late'[q] = late[q]
  BY <1>2, EndEffect DEF DetailsKept
<1>5. DetailsTyped'
  <2>1. identifiers' \in BOOLEAN /\ collection' \in Details!Collection \cup {None}
    BY <1>2, <1>3 DEF Loaded
  <2>2. typed' \in [Fields -> Texts \cup {None}]
    <3>1. CASE c = None
      BY <1>2, <3>1 DEF DetailsKept, DetailsTyped
    <3>2. CASE c # None
      <4>1. \A f \in Fields : c.values[f] \in Texts /\ typed[f] \in Texts \cup {None}
        BY <1>3, <3>2 DEF DetailsKept, DetailsTyped, Details!Collection, Details!Entries
      <4> HIDE DEF c
      <4> QED
        BY <1>2, <3>2, <4>1 DEF Details!Typed
    <3> QED
      BY <3>1, <3>2
  <2>3. raced' \in BOOLEAN /\ moved' \subseteq Fields /\ site' \in Details!Entries \cup {None}
    <3>1. raced \in BOOLEAN /\ moved \subseteq Fields /\ site \in Details!Entries \cup {None}
      BY DEF DetailsKept, DetailsTyped, Details!TypeOK
    <3> HIDE DEF c
    <3> QED
      BY <1>2, <3>1
  <2>4. behind' \subseteq Details!UnderWay'
    BY <1>2, <1>4 DEF DetailsKept, DetailsTyped, Details!UnderWay, Untouched
  <2> QED
    BY <1>2, <2>1, <2>2, <2>3, <2>4, EndEffect DEF DetailsKept, DetailsTyped, Details!TypeOK
<1>6. RequestsKnow'
  <2> DEFINE touched == {r}
  <2>1. touched \in SUBSET Editors /\ \A q \in touched : q = r
    OBVIOUS
  <2>2. \A q \in Editors \ touched : Untouched(q) /\ (at[q] # "idle" => Told(q))
    BY <1>2, <1>4 DEF Told
  <2>3. Details!UnderWay \ touched \subseteq behind'
    BY <1>2
  <2>4. \A q \in touched : at'[q] # "idle" => InSight(q)' /\ (q \in behind' \/ UpToDate(q)')
    BY <1>4, <2>1
  <2> HIDE DEF touched
  <2> QED
    BY <2>1, <2>2, <2>3, <2>4, OthersKnow DEF DetailsKept
<1>7. ASSUME ~ raced', c # None
      PROVE  \A f \in Fields :
                /\ typed'[f] # None => c.values[f] = typed'[f] /\ c.discogs_values[f] # typed'[f]
                /\ f \in moved' \/ c.discogs_values[f] = there[f]
  <2>1. /\ ~ raced /\ UpToDate(r) /\ EditsPending /\ Details!KnowsDiscogs
        /\ task[r] \in {"refresh", "save", "import"}
        /\ task[r] # "save" => pushed[r] = {}
        /\ late[r] \subseteq Fields
    BY <1>1, <1>2, <1>7 DEF DetailsKept, DetailsTyped, AtHandOf
  <2> SUFFICES ASSUME NEW f \in Fields
               PROVE  /\ typed'[f] # None => c.values[f] = typed'[f] /\ c.discogs_values[f] # typed'[f]
                      /\ f \in moved' \/ c.discogs_values[f] = there[f]
    OBVIOUS
  <2>2. typed[f] # None => /\ collection # None /\ collection.values[f] = typed[f]
                           /\ collection.discogs_values[f] # typed[f]
    BY <2>1 DEF EditsPending
  <2>3. collection = None \/ f \in moved \/ collection.discogs_values[f] = there[f]
    BY <2>1 DEF Details!KnowsDiscogs
  <2>4. typed'[f] = LET text == IF task[r] = "save" /\ copy[r].values[f] # c.values[f] THEN c.values[f]
                                                                                  ELSE typed[f]
                    IN IF text = c.discogs_values[f] THEN None ELSE text
    BY <1>2, <1>7 DEF Details!Typed
  <2>5. f \in moved' <=> f \in moved /\ f \notin Details!Settled(r)
    BY <1>2, <1>7
  <2>6. CASE task[r] = "save"
    <3>1. copy[r] = collection /\ collection # None /\ pushed[r] \subseteq moved
      BY <1>1, <2>1, <2>6 DEF UpToDate, AtHandOf
    <3>2. /\ f \notin pushed[r] => c.discogs_values[f] = collection.discogs_values[f]
          /\ f \in pushed[r] \ late[r] => c.discogs_values[f] = there[f]
      BY <1>1, <2>1, <2>6 DEF UpToDate, InSight
    <3>3. f \in Details!Settled(r) <=> f \in pushed[r] \ late[r]
      BY <2>6 DEF Details!Settled
    <3> HIDE DEF c, there
    <3> QED
      BY <2>2, <2>3, <2>4, <2>5, <2>6, <3>1, <3>2, <3>3
  <2>7. CASE task[r] # "save"
    <3>1. f \notin late[r] => c.discogs_values[f] = there[f]
      BY <1>1, <1>7, <2>1, <2>7 DEF InSight
    <3>2. late[r] \subseteq moved
      BY <2>1 DEF UpToDate
    <3>3. f \in Details!Settled(r) <=> f \notin late[r]
      BY <2>7 DEF Details!Settled
    <3>4. typed[f] # None => c.values[f] = typed[f]
      <4>1. typed[f] # None => f \in Details!Pending(Details!Stored(collection))
        BY <2>2 DEF Details!Pending, Details!Stored
      <4>2. f \in Details!Pending(Details!Stored(collection)) =>
               c.values[f] = Details!Stored(collection).values[f]
        BY <1>7, <2>1, <2>7 DEF UpToDate
      <4> QED
        BY <2>2, <4>1, <4>2 DEF Details!Stored
    <3> HIDE DEF c, there
    <3> QED
      BY <2>4, <2>5, <2>7, <3>1, <3>2, <3>3, <3>4
  <2> QED
    BY <2>1, <2>6, <2>7
<1>8. ASSUME ~ raced', c = None
      PROVE  collection' = collection /\ typed' = typed /\ moved' = moved
  <2>1. r \notin behind
    BY <1>2, <1>8
  <2>2. base[r] = [identifiers |-> identifiers, collection |-> collection]
    BY <1>1, <2>1 DEF UpToDate
  <2>3. base[r].collection = collection
    BY <2>2
  <2> HIDE DEF c
  <2> QED
    BY <1>2, <1>8, <2>3
<1>9. EditsPending'
  <2>1. CASE raced'
    BY <2>1 DEF EditsPending
  <2>2. CASE ~ raced' /\ c = None
    BY <1>2, <1>8, <2>2 DEF DetailsKept, EditsPending
  <2>3. CASE ~ raced' /\ c # None
    BY <1>2, <1>7, <2>3 DEF EditsPending
  <2> QED
    BY <2>1, <2>2, <2>3
<1>10. Details!KnowsDiscogs'
  <2>1. CASE raced'
    BY <2>1 DEF Details!KnowsDiscogs
  <2>2. CASE ~ raced' /\ c = None
    BY <1>2, <1>8, <2>2 DEF DetailsKept, Details!KnowsDiscogs
  <2>3. CASE ~ raced' /\ c # None
    BY <1>2, <1>7, <2>3 DEF Details!KnowsDiscogs
  <2> QED
    BY <2>1, <2>2, <2>3
<1> QED
  BY <1>4, <1>5, <1>6, <1>9, <1>10 DEF DetailsKept

\* An edit on Discogs is a change for everyone.
LEMMA EditStays ==
  ASSUME DetailsKept, NEW edited \in Details!Nearby(site), Details!EditOnSite(edited)
  PROVE  DetailsKept'
<1> DEFINE there == Details!Remote(site)
           thereNow == Details!Remote(site')
           changed == {f \in Fields : thereNow[f] # there[f]}
<1>1. /\ site' = edited /\ moved' = moved \cup changed
      /\ late' = [r \in Editors |-> IF r \in Details!UnderWay THEN late[r] \cup changed ELSE late[r]]
      /\ UNCHANGED <<identifiers, collection, at, task, copy, base, found, result, todo, behind, pushed,
                     typed, raced>>
  BY DEF Details!EditOnSite, Details!row, Details!local
<1>2. site' \in Details!Entries \cup {None}
  BY <1>1, DetailsAssumed DEF DetailsKept, DetailsTyped, Details!TypeOK, Details!Nearby, Details!Entries
<1> HIDE DEF there, thereNow
<1>3. changed \subseteq Fields /\ \A f \in Fields \ changed : thereNow[f] = there[f]
  OBVIOUS
<1> HIDE DEF changed
<1> USE DEF DetailsKept, DetailsTyped, Details!TypeOK
<1>4. \A q \in Editors : /\ Untouched(q) /\ (at[q] # "idle" => Told(q))
                         /\ at[q] = "idle" => late'[q] = late[q]
                         /\ late'[q] \subseteq late[q] \cup moved'
  <2> SUFFICES ASSUME NEW q \in Editors
               PROVE  /\ Untouched(q) /\ (at[q] # "idle" => Told(q))
                      /\ at[q] = "idle" => late'[q] = late[q]
                      /\ late'[q] \subseteq late[q] \cup moved'
    OBVIOUS
  <2>1. late'[q] = IF at[q] # "idle" THEN late[q] \cup changed ELSE late[q]
    BY <1>1 DEF Details!UnderWay
  <2>2. Untouched(q)
    BY <1>1 DEF Untouched
  <2>3. at[q] # "idle" => Told(q)
    BY <1>3, <2>1 DEF Told, there, thereNow
  <2> QED
    BY <1>1, <2>1, <2>2, <2>3
<1>5. DetailsTyped'
  <2>1. late' \in [Editors -> SUBSET Fields] /\ moved' \subseteq Fields
    BY <1>1, <1>3
  <2>2. behind' \subseteq Details!UnderWay'
    BY <1>1 DEF Details!UnderWay
  <2> QED
    BY <1>1, <1>2, <2>1, <2>2
<1>6. AtHand'
  BY <1>4 DEF AtHand, AtHandOf, Untouched
<1>7. RequestsKnow'
  <2> DEFINE touched == {}
  <2>1. touched \in SUBSET Editors /\ ~ \E q \in touched : TRUE
    OBVIOUS
  <2>2. \A q \in Editors \ touched : Untouched(q) /\ (at[q] # "idle" => Told(q))
    BY <1>4
  <2>3. /\ UNCHANGED <<identifiers, collection>> /\ moved \subseteq moved'
        /\ behind \ touched \subseteq behind'
        /\ \A q \in Editors \ touched : late'[q] \subseteq late[q] \cup moved'
    BY <1>1, <1>4
  <2>4. \A q \in touched : at'[q] # "idle" => InSight(q)' /\ (q \in behind' \/ UpToDate(q)')
    OBVIOUS
  <2> HIDE DEF touched
  <2> QED
    BY <2>1, <2>2, <2>3, <2>4, OthersKnow
<1>8. EditsPending' /\ Details!KnowsDiscogs'
  BY <1>1, <1>3 DEF EditsPending, Details!KnowsDiscogs, there, thereNow
<1> QED
  BY <1>5, <1>6, <1>7, <1>8

\* Every step keeps it.
LEMMA DetailsStay ==
  ASSUME DetailsKept, [Details!Next]_detailVars
  PROVE  DetailsKept'
<1>1. CASE UNCHANGED detailVars
  <2> USE <1>1 DEF detailVars
  <2>1. DetailsTyped'
    BY DEF DetailsKept, DetailsTyped, Details!TypeOK, Details!UnderWay
  <2>2. AtHand'
    BY DEF DetailsKept, AtHand, AtHandOf
  <2>3. RequestsKnow'
    BY DEF DetailsKept, RequestsKnow, InSight, UpToDate, Details!UnderWay
  <2>4. EditsPending' /\ Details!KnowsDiscogs'
    BY DEF DetailsKept, EditsPending, Details!KnowsDiscogs
  <2> QED
    BY <2>1, <2>2, <2>3, <2>4 DEF DetailsKept
<1>2. ASSUME NEW r \in Editors, NEW f \in Fields, NEW text \in Texts, NEW writeback \in BOOLEAN,
             Details!StartSave(r, [g \in Fields |-> IF g = f THEN text ELSE None], writeback)
      PROVE  DetailsKept'
  <2> DEFINE form == [g \in Fields |-> IF g = f THEN text ELSE None]
  <2>1. form \in [Fields -> Texts \cup {None}]
    OBVIOUS
  <2>2. Details!StartSave(r, form, writeback)
    BY <1>2
  <2> HIDE DEF form
  <2> QED
    BY <2>1, <2>2, SaveStarts
<1>3. ASSUME NEW r \in Editors, Details!Abandon(r) PROVE DetailsKept'
  <2>1. /\ at[r] # "idle" /\ Details!End(r) /\ behind' = behind \ {r}
        /\ UNCHANGED <<identifiers, collection, site, moved, typed, raced>>
    BY <1>3 DEF Details!Abandon, Details!UnderWay, Details!row
  <2> QED
    BY <2>1, EndStays
<1>4. CASE Details!Next
  BY <1>2, <1>3, <1>4, RefreshStarts, ImportStarts, ReleaseStays, CollectionStays, ConnectorStays,
     PushStays, SelectStays, StoreStays, EditStays DEF Details!Next
<1> QED
  BY <1>1, <1>4

LEMMA DetailsAreKept == DetailsKept => DetailsHold
BY DEF DetailsKept, DetailsTyped, EditsPending, DetailsHold, Details!EditsSurvive

\* A request that no other has stored behind stores what keeps every edit as it was typed, and
\* knows of Discogs what it has looked at or has written (web/discogs_details.py:204, :300).
THEOREM EditsAreNotLost == Spec => []DetailsHold
<1> DEFINE Inv == part = "details" => DetailsKept
<1>1. Init => Inv
  BY DetailsAtStart DEF Init
<1>2. Inv /\ [Next]_vars => Inv'
  <2> SUFFICES ASSUME Inv, [Next]_vars, part' = "details" PROVE DetailsKept'
    OBVIOUS
  <2>1. DetailsKept /\ [Details!Next]_detailVars
    BY StepsOfAPart
  <2> QED
    BY <2>1, DetailsStay
<1>3. Inv => DetailsHold
  BY DetailsAreKept DEF DetailsHold
<1> QED
  BY <1>1, <1>2, <1>3, PTL DEF Spec

-----------------------------------------------------------------------------
(* Genres and readings *)

\* No two genres of a list have the same word.
Distinct(list) == \A i, j \in DOMAIN list : list[i][1] = list[j][1] => i = j

\* A set of numbers that is not empty has a least one.
LEMMA LeastNumber ==
  ASSUME NEW S \in SUBSET Nat, S # {}
  PROVE  \E n \in S : \A m \in S : n <= m
<1> DEFINE R == OpToRel(<, Nat)
<1>1. IsWellFoundedOn(R, Nat)
  BY NatLessThanWellFounded
<1>2. \A x, y \in Nat : <<x, y>> \in R <=> x < y
  BY DEF OpToRel
<1> HIDE DEF R
<1>3. PICK x \in S : \A y \in S : ~ (<<y, x>> \in R)
  BY <1>1, WFMin
<1>4. ASSUME NEW y \in S PROVE x <= y
  <2>1. x \in Nat /\ y \in Nat /\ ~ (y < x)
    BY <1>2, <1>3
  <2> QED
    BY <2>1
<1> QED
  BY <1>4

\* A genre is added at the end, unless its word is there.
LEMMA AddGenreEffect ==
  ASSUME NEW list \in Seq(TokenColumns!Genres), NEW g \in TokenColumns!Genres
  PROVE  /\ TokenColumns!AddGenre(list, g) \in Seq(TokenColumns!Genres)
         /\ TokenColumns!WordsOf(list) \subseteq TokenColumns!WordsOf(TokenColumns!AddGenre(list, g))
         /\ Distinct(list) => Distinct(TokenColumns!AddGenre(list, g))
<1>1. CASE g[1] \in TokenColumns!WordsOf(list)
  BY <1>1 DEF TokenColumns!AddGenre
<1>2. CASE g[1] \notin TokenColumns!WordsOf(list)
  <2> DEFINE longer == Append(list, g)
  <2>1. TokenColumns!AddGenre(list, g) = longer
    BY <1>2 DEF TokenColumns!AddGenre
  <2>2. /\ longer \in Seq(TokenColumns!Genres) /\ DOMAIN longer = 1..(Len(list) + 1)
        /\ DOMAIN list = 1..Len(list) /\ Len(list) \in Nat
        /\ longer[Len(list) + 1] = g /\ \A i \in 1..Len(list) : longer[i] = list[i]
    OBVIOUS
  <2>3. \A i \in 1..Len(list) : list[i][1] # g[1]
    BY <1>2, <2>2 DEF TokenColumns!WordsOf
  <2> HIDE DEF longer
  <2>4. TokenColumns!WordsOf(list) \subseteq TokenColumns!WordsOf(longer)
    BY <2>2 DEF TokenColumns!WordsOf
  <2>5. ASSUME Distinct(list), NEW i \in DOMAIN longer, NEW j \in DOMAIN longer,
               longer[i][1] = longer[j][1]
        PROVE  i = j
    <3>1. CASE i <= Len(list) /\ j <= Len(list)
      BY <2>2, <2>5, <3>1 DEF Distinct
    <3>2. CASE ~ (i <= Len(list) /\ j <= Len(list))
      BY <2>2, <2>3, <2>5, <3>2
    <3> QED
      BY <3>1, <3>2
  <2> QED
    BY <2>1, <2>2, <2>4, <2>5 DEF Distinct
<1> QED
  BY <1>1, <1>2

\* The recursion has a solution.
LEMMA AdditionsExist ==
  ASSUME NEW list \in Seq(TokenColumns!Genres), NEW incoming \in Seq(TokenColumns!Genres)
  PROVE  \E steps : /\ steps = [n \in 0..Len(incoming) |->
                                  IF n = 0 THEN list ELSE TokenColumns!AddGenre(steps[n - 1], incoming[n])]
                    /\ TokenColumns!AddGenres(list, incoming) = steps[Len(incoming)]
<1> DEFINE Solves(s, k) == s = [n \in 0..k |-> IF n = 0 THEN list
                                               ELSE TokenColumns!AddGenre(s[n - 1], incoming[n])]
           unsolved == {k \in Nat : ~ \E s : Solves(s, k)}
<1>1. unsolved = {}
  <2> SUFFICES ASSUME unsolved # {} PROVE FALSE
    OBVIOUS
  <2>1. PICK k \in unsolved : \A m \in unsolved : k <= m
    BY LeastNumber
  <2>2. CASE k = 0
    <3>1. Solves([n \in 0..0 |-> list], 0)
      OBVIOUS
    <3> QED
      BY <2>2, <3>1
  <2>3. CASE k # 0
    <3>1. k - 1 \in Nat /\ k - 1 \notin unsolved
      <4>1. k \in Nat
        OBVIOUS
      <4> HIDE DEF unsolved
      <4>2. k - 1 \in Nat /\ ~ (k <= k - 1)
        BY <2>3, <4>1
      <4> QED
        BY <2>1, <4>2
    <3>2. PICK s : Solves(s, k - 1)
      BY <3>1
    <3> DEFINE t == [n \in 0..k |-> IF n = k THEN TokenColumns!AddGenre(s[k - 1], incoming[k]) ELSE s[n]]
    <3>3. \A n \in 0..(k - 1) : t[n] = s[n]
      BY <2>1
    <3>4. ASSUME NEW n \in 0..k
          PROVE  t[n] = IF n = 0 THEN list ELSE TokenColumns!AddGenre(t[n - 1], incoming[n])
      <4>1. CASE n = k
        <5>1. t[k - 1] = s[k - 1]
          BY <2>1, <2>3, <3>3
        <5> QED
          BY <2>3, <4>1, <5>1
      <4>2. CASE n # k
        <5>1. n \in 0..(k - 1) /\ (n # 0 => n - 1 \in 0..(k - 1))
          BY <2>1, <4>2
        <5>2. s[n] = IF n = 0 THEN list ELSE TokenColumns!AddGenre(s[n - 1], incoming[n])
          BY <3>2, <5>1
        <5> QED
          BY <3>3, <5>1, <5>2
      <4> QED
        BY <4>1, <4>2
    <3>5. t = [n \in 0..k |-> t[n]]
      OBVIOUS
    <3> HIDE DEF t
    <3>6. Solves(t, k)
      BY <3>4, <3>5
    <3> QED
      BY <2>1, <3>6
  <2> QED
    BY <2>2, <2>3
<1>2. PICK s : Solves(s, Len(incoming))
  BY <1>1
<1> QED
  BY <1>2 DEF TokenColumns!AddGenres

\* Adding genres loses no word and brings none in twice.
LEMMA AddGenresEffect ==
  ASSUME NEW list \in Seq(TokenColumns!Genres), NEW incoming \in Seq(TokenColumns!Genres),
         Distinct(list)
  PROVE  /\ TokenColumns!AddGenres(list, incoming) \in Seq(TokenColumns!Genres)
         /\ Distinct(TokenColumns!AddGenres(list, incoming))
         /\ TokenColumns!WordsOf(list)
               \subseteq TokenColumns!WordsOf(TokenColumns!AddGenres(list, incoming))
<1> DEFINE last == Len(incoming)
           words(k) == TokenColumns!WordsOf(k)
<1>1. PICK steps : /\ steps = [n \in 0..last |->
                                  IF n = 0 THEN list ELSE TokenColumns!AddGenre(steps[n - 1], incoming[n])]
                   /\ TokenColumns!AddGenres(list, incoming) = steps[last]
  BY AdditionsExist
<1> DEFINE Good(l) == /\ l \in Seq(TokenColumns!Genres) /\ Distinct(l)
                      /\ TokenColumns!WordsOf(list) \subseteq TokenColumns!WordsOf(l)
           bad == {n \in 0..last : ~ Good(steps[n])}
<1>2. last \in Nat /\ \A n \in 1..last : incoming[n] \in TokenColumns!Genres
  OBVIOUS
<1>3. Good(steps[0])
  <2>1. steps[0] = list
    BY <1>1, <1>2
  <2> QED
    BY <2>1
<1>4. ASSUME NEW n \in 1..last, Good(steps[n - 1]) PROVE Good(steps[n])
  <2>1. steps[n] = TokenColumns!AddGenre(steps[n - 1], incoming[n])
    BY <1>1, <1>2
  <2>2. /\ steps[n - 1] \in Seq(TokenColumns!Genres) /\ Distinct(steps[n - 1])
        /\ TokenColumns!WordsOf(list) \subseteq TokenColumns!WordsOf(steps[n - 1])
        /\ incoming[n] \in TokenColumns!Genres
    BY <1>2, <1>4
  <2> QED
    BY <2>1, <2>2, AddGenreEffect
<1> HIDE DEF Good
<1>5. bad = {}
  <2> SUFFICES ASSUME bad # {} PROVE FALSE
    OBVIOUS
  <2>1. bad \in SUBSET Nat
    BY <1>2
  <2>2. PICK n \in bad : \A m \in bad : n <= m
    BY <2>1, LeastNumber
  <2>3. n \in 0..last /\ ~ Good(steps[n]) /\ n # 0
    BY <1>3, <2>2
  <2>4. n \in 1..last /\ n - 1 \in 0..last /\ ~ (n <= n - 1)
    BY <1>2, <2>3
  <2>5. Good(steps[n - 1])
    BY <2>2, <2>4
  <2> QED
    BY <1>4, <2>3, <2>4, <2>5
<1>6. Good(steps[last])
  BY <1>2, <1>5
<1> QED
  BY <1>1, <1>6 DEF Good

LEMMA SanitizedEffect ==
  ASSUME NEW list \in Seq(TokenColumns!Genres), Cap \in Nat
  PROVE  /\ TokenColumns!Sanitized(list) \in Seq(TokenColumns!Genres)
         /\ Distinct(TokenColumns!Sanitized(list))
<1> DEFINE all == TokenColumns!AddGenres(<<>>, list)
           n == IF Len(all) < Cap THEN Len(all) ELSE Cap
<1>1. all \in Seq(TokenColumns!Genres) /\ Distinct(all)
  <2>1. << >> \in Seq(TokenColumns!Genres) /\ Distinct(<< >>)
    BY DEF Distinct
  <2> QED
    BY <2>1, AddGenresEffect
<1>2. TokenColumns!Sanitized(list) = SubSeq(all, 1, n)
  BY DEF TokenColumns!Sanitized
<1> HIDE DEF all
<1>3. n \in 0..Len(all)
  BY <1>1
<1> HIDE DEF n
<1>4. /\ SubSeq(all, 1, n) \in Seq(TokenColumns!Genres)
      /\ DOMAIN SubSeq(all, 1, n) \subseteq DOMAIN all
      /\ \A i \in DOMAIN SubSeq(all, 1, n) : SubSeq(all, 1, n)[i] = all[i]
  BY <1>1, <1>3
<1> QED
  BY <1>1, <1>2, <1>4 DEF Distinct

\* What is merged into a list of distinct words keeps its words.
LEMMA MergeGenresEffect ==
  ASSUME NEW existing \in Seq(TokenColumns!Genres), NEW incoming \in Seq(TokenColumns!Genres),
         Distinct(existing), Cap \in Nat
  PROVE  /\ TokenColumns!MergeGenres(existing, incoming) \in Seq(TokenColumns!Genres)
         /\ Distinct(TokenColumns!MergeGenres(existing, incoming))
         /\ TokenColumns!WordsOf(existing)
               \subseteq TokenColumns!WordsOf(TokenColumns!MergeGenres(existing, incoming))
BY SanitizedEffect, AddGenresEffect DEF TokenColumns!MergeGenres

Column == [genres : Seq(TokenColumns!Genres), parsed : [Parts -> TokenColumns!Part]]

ColumnsTyped ==
    /\ TokenColumns!TypeOK
    /\ loaded \in [Clients -> Column \cup {None}]
    /\ entered \in [Parts -> TokenColumns!Part]

\* What a request has at hand, by where it is.
ColumnsAtHand ==
    \A c \in Clients :
        /\ where[c] # "idle" => asked[c] \in TokenColumns!GenreRequests
        /\ where[c] = "store" => loaded[c] \in Column /\ Distinct(loaded[c].genres)

\* A request that is not outdated has loaded what is there.
LoadedIsThere ==
    \A c \in Clients \ outdated :
        where[c] = "store" =>
            /\ asked[c].kind \in TokenColumns!OfGenres => loaded[c].genres = genres
            /\ asked[c].kind \in TokenColumns!OfParts => loaded[c].parsed = parsed

ColumnsKept == ColumnsTyped /\ ColumnsAtHand /\ LoadedIsThere /\ TokenColumns!EntriesStay

LEMMA ColumnsAssumed ==
  /\ Lists \subseteq Seq(TokenColumns!Genres) /\ Cap \in Nat
  /\ \A r \in TokenColumns!GenreRequests :
        /\ r.kind \in {"save genres", "import genres", "re-import"} =>
              r.list \in Seq(TokenColumns!Genres)
        /\ r.kind = "correct" => r.part \in Parts /\ r.reading \in Readings
        /\ r.kind = "apply" => r.analysis \in [Parts -> Findings]
BY SiteAssumption DEF TokenColumns!ColumnsAssumption, TokenColumns!GenreRequests

\* At the start nothing is stored.
LEMMA ColumnsAtStart == TokenColumns!Init => ColumnsKept
<1> SUFFICES ASSUME TokenColumns!Init PROVE ColumnsKept
  OBVIOUS
<1> USE DEF TokenColumns!Init
<1>1. ColumnsTyped
  BY DEF ColumnsTyped, TokenColumns!TypeOK, TokenColumns!Part
<1>2. ColumnsAtHand /\ LoadedIsThere
  BY DEF ColumnsAtHand, LoadedIsThere
<1>3. TokenColumns!EntriesStay
  BY DEF TokenColumns!EntriesStay
<1> QED
  BY <1>1, <1>2, <1>3 DEF ColumnsKept

\* The end of a request, which says nothing of the others.
LEMMA FinishEffect ==
  ASSUME ColumnsTyped, ColumnsAtHand, NEW c \in Clients, TokenColumns!Finish(c)
  PROVE  /\ where' \in [Clients -> {"idle", "load", "store"}] /\ where'[c] = "idle"
         /\ asked' \in [Clients -> TokenColumns!GenreRequests \cup {None}]
         /\ loaded' \in [Clients -> Column \cup {None}]
         /\ ColumnsAtHand'
         /\ \A d \in Clients \ {c} : /\ where'[d] = where[d] /\ asked'[d] = asked[d]
                                     /\ loaded'[d] = loaded[d]
<1> USE DEF TokenColumns!Finish, TokenColumns!Move, ColumnsTyped, TokenColumns!TypeOK
<1>1. \A d \in Clients \ {c} : /\ where'[d] = where[d] /\ asked'[d] = asked[d]
                               /\ loaded'[d] = loaded[d]
  OBVIOUS
<1>2. where'[c] = "idle"
  OBVIOUS
<1>3. ColumnsAtHand'
  BY <1>1, <1>2 DEF ColumnsAtHand
<1> QED
  BY <1>1, <1>2, <1>3

LEMMA AskStays ==
  ASSUME ColumnsKept, NEW c \in Clients, NEW r \in TokenColumns!GenreRequests,
         TokenColumns!Ask(c, r)
  PROVE  ColumnsKept'
<1> USE DEF ColumnsKept, ColumnsTyped, TokenColumns!TypeOK, TokenColumns!Ask, TokenColumns!Move
<1>1. /\ where'[c] = "load" /\ asked'[c] = r
      /\ \A d \in Clients \ {c} : where'[d] = where[d] /\ asked'[d] = asked[d]
  OBVIOUS
<1>2. ColumnsTyped'
  OBVIOUS
<1>3. ColumnsAtHand' /\ LoadedIsThere'
  BY <1>1 DEF ColumnsAtHand, LoadedIsThere
<1>4. TokenColumns!EntriesStay'
  BY DEF TokenColumns!EntriesStay
<1> QED
  BY <1>2, <1>3, <1>4

LEMMA LoadStays ==
  ASSUME ColumnsKept, NEW c \in Clients, TokenColumns!Load(c)
  PROVE  ColumnsKept'
<1> DEFINE column == [genres |-> genres, parsed |-> parsed]
<1> USE DEF ColumnsKept, ColumnsTyped, TokenColumns!TypeOK, TokenColumns!Load, TokenColumns!Move
<1>1. column \in Column /\ column.genres = genres /\ column.parsed = parsed /\ Distinct(genres)
  BY DEF Column, TokenColumns!EntriesStay, Distinct
<1>2. loaded' = [loaded EXCEPT ![c] = column] /\ where[c] = "load"
  OBVIOUS
<1> HIDE DEF column
<1>3. /\ where'[c] = "store" /\ loaded'[c] = column
      /\ \A d \in Clients \ {c} : where'[d] = where[d] /\ loaded'[d] = loaded[d]
  BY <1>2
<1>4. ColumnsTyped'
  BY <1>1, <1>2
<1>5. ColumnsAtHand'
  BY <1>1, <1>2, <1>3 DEF ColumnsAtHand
<1>7. LoadedIsThere'
  <2>1. genres' = genres /\ parsed' = parsed /\ asked' = asked /\ outdated' = outdated
    OBVIOUS
  <2>2. ASSUME NEW d \in Clients \ outdated, where'[d] = "store"
        PROVE  /\ asked[d].kind \in TokenColumns!OfGenres => loaded'[d].genres = genres
               /\ asked[d].kind \in TokenColumns!OfParts => loaded'[d].parsed = parsed
    BY <1>1, <1>3, <2>2 DEF LoadedIsThere
  <2> QED
    BY <2>1, <2>2 DEF LoadedIsThere
<1>6. TokenColumns!EntriesStay'
  BY DEF TokenColumns!EntriesStay
<1> QED
  BY <1>4, <1>5, <1>6, <1>7

\* A request that ends without writing.
LEMMA FailStays ==
  ASSUME ColumnsKept, NEW c \in Clients, TokenColumns!Fail(c)
  PROVE  ColumnsKept'
<1> USE DEF ColumnsKept, TokenColumns!Fail
<1>1. ColumnsTyped'
  BY FinishEffect DEF ColumnsTyped, TokenColumns!TypeOK
<1>2. LoadedIsThere'
  BY ZenonT(60), FinishEffect DEF LoadedIsThere
<1>3. TokenColumns!EntriesStay'
  BY DEF TokenColumns!EntriesStay
<1> QED
  BY <1>1, <1>2, <1>3, FinishEffect

\* What is written is the new value or what is there.
LEMMA WrittenEffect ==
  ASSUME NEW old, NEW new, NEW there
  PROVE  /\ TokenColumns!Written(old, new, there) \in {new, there}
         /\ old = there => TokenColumns!Written(old, new, there) = new
BY DEF TokenColumns!Written

\* A write of the genres overtakes the requests that have loaded the column.
LEMMA GenresStay ==
  ASSUME ColumnsKept, NEW c \in Clients, TokenColumns!Finish(c),
         genres' \in Seq(TokenColumns!Genres), Distinct(genres'),
         chosen' \subseteq TokenColumns!WordsOf(genres'),
         outdated' \subseteq Clients,
         outdated \cup TokenColumns!Overtakes(c, TokenColumns!OfGenres) \subseteq outdated' \cup {c},
         UNCHANGED <<parsed, entered>>
  PROVE  ColumnsKept'
<1> USE DEF ColumnsKept
<1>1. ColumnsTyped'
  BY FinishEffect DEF ColumnsTyped, TokenColumns!TypeOK
<1>2. ASSUME NEW d \in Clients \ outdated', where'[d] = "store"
      PROVE  /\ asked'[d].kind \in TokenColumns!OfGenres => loaded'[d].genres = genres'
             /\ asked'[d].kind \in TokenColumns!OfParts => loaded'[d].parsed = parsed'
  <2>1. d # c
    BY <1>2, FinishEffect
  <2>2. where[d] = "store" /\ asked'[d] = asked[d] /\ loaded'[d] = loaded[d]
    BY <1>2, <2>1, FinishEffect
  <2>3. d \notin outdated /\ d \notin TokenColumns!Overtakes(c, TokenColumns!OfGenres)
    BY <1>2, <2>1
  <2>4. asked[d].kind \notin TokenColumns!OfGenres
    BY <2>1, <2>2, <2>3 DEF TokenColumns!Overtakes
  <2> QED
    BY <2>2, <2>3, <2>4 DEF LoadedIsThere
<1>3. LoadedIsThere'
  BY <1>2 DEF LoadedIsThere
<1>4. TokenColumns!EntriesStay'
  BY DEF TokenColumns!EntriesStay, Distinct
<1> QED
  BY <1>1, <1>3, <1>4, FinishEffect

LEMMA StoredGenres ==
  ASSUME ColumnsKept
  PROVE  genres \in Seq(TokenColumns!Genres) /\ Distinct(genres) /\ outdated \subseteq Clients
BY DEF ColumnsKept, ColumnsTyped, TokenColumns!TypeOK, TokenColumns!EntriesStay, Distinct

LEMMA SaveGenresStays ==
  ASSUME ColumnsKept, NEW c \in Clients, TokenColumns!SaveGenres(c)
  PROVE  ColumnsKept'
<1> DEFINE list == TokenColumns!Sanitized(asked[c].list)
<1>1. asked[c].list \in Seq(TokenColumns!Genres) /\ (c \notin outdated => loaded[c].genres = genres)
  BY ColumnsAssumed
     DEF ColumnsKept, ColumnsAtHand, LoadedIsThere, TokenColumns!SaveGenres, TokenColumns!OfGenres
<1>2. list \in Seq(TokenColumns!Genres) /\ Distinct(list)
  BY <1>1, SanitizedEffect, ColumnsAssumed
<1>3. /\ genres' = TokenColumns!Written(loaded[c].genres, list, genres)
      /\ chosen' = TokenColumns!Kept(c, TokenColumns!WordsOf(list), genres')
      /\ outdated' = (outdated \cup TokenColumns!Overtakes(c, TokenColumns!OfGenres)) \ {c}
      /\ TokenColumns!Finish(c) /\ UNCHANGED <<parsed, entered>>
  BY DEF TokenColumns!SaveGenres
<1> HIDE DEF list
<1>4. genres' \in {list, genres} /\ (c \notin outdated => genres' = list)
  BY <1>1, <1>3, WrittenEffect
<1>5. chosen' \subseteq TokenColumns!WordsOf(genres')
  BY <1>3, <1>4 DEF TokenColumns!Kept
<1>6. genres' \in Seq(TokenColumns!Genres) /\ Distinct(genres')
  BY <1>2, <1>4, StoredGenres
<1>7. outdated' \subseteq Clients
  BY <1>3, StoredGenres DEF TokenColumns!Overtakes
<1> QED
  BY <1>3, <1>5, <1>6, <1>7, GenresStay

LEMMA ImportGenresStays ==
  ASSUME ColumnsKept, NEW c \in Clients, TokenColumns!ImportGenres(c)
  PROVE  ColumnsKept'
<1> DEFINE merged == TokenColumns!MergeGenres(loaded[c].genres, asked[c].list)
<1>1. /\ asked[c].list \in Seq(TokenColumns!Genres) /\ loaded[c] \in Column
      /\ Distinct(loaded[c].genres)
      /\ c \notin outdated => loaded[c].genres = genres
  BY ColumnsAssumed
     DEF ColumnsKept, ColumnsAtHand, LoadedIsThere, TokenColumns!ImportGenres, TokenColumns!OfGenres
<1>2. loaded[c].genres \in Seq(TokenColumns!Genres)
  BY <1>1 DEF Column
<1>3. /\ merged \in Seq(TokenColumns!Genres) /\ Distinct(merged)
      /\ TokenColumns!WordsOf(loaded[c].genres) \subseteq TokenColumns!WordsOf(merged)
  BY <1>1, <1>2, MergeGenresEffect, ColumnsAssumed
<1>4. /\ genres' = TokenColumns!Written(loaded[c].genres, merged, genres)
      /\ chosen' = TokenColumns!Kept(c, chosen, genres')
      /\ outdated' = (outdated \cup TokenColumns!Overtakes(c, TokenColumns!OfGenres)) \ {c}
      /\ TokenColumns!Finish(c) /\ UNCHANGED <<parsed, entered>>
  BY DEF TokenColumns!ImportGenres
<1> HIDE DEF merged
<1>5. genres' \in {merged, genres} /\ (c \notin outdated => genres' = merged)
  BY <1>1, <1>4, WrittenEffect
<1>6. chosen' \subseteq TokenColumns!WordsOf(genres')
  <2>1. chosen \subseteq TokenColumns!WordsOf(genres)
    BY DEF ColumnsKept, TokenColumns!EntriesStay
  <2> QED
    BY <1>1, <1>3, <1>4, <1>5, <2>1 DEF TokenColumns!Kept
<1>7. genres' \in Seq(TokenColumns!Genres) /\ Distinct(genres')
  BY <1>3, <1>5, StoredGenres
<1>8. outdated' \subseteq Clients
  BY <1>4, StoredGenres DEF TokenColumns!Overtakes
<1> QED
  BY <1>4, <1>6, <1>7, <1>8, GenresStay

LEMMA ReimportStays ==
  ASSUME ColumnsKept, NEW c \in Clients, TokenColumns!Reimport(c)
  PROVE  ColumnsKept'
<1> DEFINE list == TokenColumns!Sanitized(asked[c].list)
<1>1. asked[c].list \in Seq(TokenColumns!Genres)
  BY ColumnsAssumed DEF ColumnsKept, ColumnsAtHand, TokenColumns!Reimport
<1>2. list \in Seq(TokenColumns!Genres) /\ Distinct(list)
  BY <1>1, SanitizedEffect, ColumnsAssumed
<1>3. /\ TokenColumns!Finish(c) /\ UNCHANGED <<parsed, entered>>
      /\ IF list = <<>> THEN UNCHANGED <<genres, chosen, outdated>>
         ELSE /\ genres' = list /\ chosen' = TokenColumns!WordsOf(list)
              /\ outdated' = outdated \cup TokenColumns!Overtakes(c, TokenColumns!OfGenres)
  BY DEF TokenColumns!Reimport
<1> HIDE DEF list
<1>4. CASE list = <<>>
  <2>1. UNCHANGED <<genres, chosen, outdated, parsed, entered>>
    BY <1>3, <1>4
  <2>2. ColumnsTyped'
    BY <1>3, <2>1, FinishEffect DEF ColumnsKept, ColumnsTyped, TokenColumns!TypeOK
  <2>3. LoadedIsThere'
    BY ZenonT(60), <1>3, <2>1, FinishEffect DEF ColumnsKept, LoadedIsThere
  <2>4. TokenColumns!EntriesStay'
    BY <2>1 DEF ColumnsKept, TokenColumns!EntriesStay
  <2> QED
    BY <1>3, <2>2, <2>3, <2>4, FinishEffect DEF ColumnsKept
<1>5. CASE list # <<>>
  <2>1. outdated' \subseteq Clients
    BY <1>3, <1>5, StoredGenres DEF TokenColumns!Overtakes
  <2> QED
    BY <1>2, <1>3, <1>5, <2>1, GenresStay
<1> QED
  BY <1>4, <1>5

\* A correction or an analysis overtakes the requests that have loaded the parts.
LEMMA PartsStay ==
  ASSUME ColumnsKept, NEW c \in Clients, TokenColumns!Finish(c),
         parsed' \in [Parts -> TokenColumns!Part], entered' \in [Parts -> TokenColumns!Part],
         \A p \in Parts : entered'[p] \in {None, parsed'[p]},
         outdated' = (outdated \cup TokenColumns!Overtakes(c, TokenColumns!OfParts)) \ {c},
         UNCHANGED <<genres, chosen>>
  PROVE  ColumnsKept'
<1> USE DEF ColumnsKept
<1>1. ColumnsTyped'
  BY FinishEffect DEF ColumnsTyped, TokenColumns!TypeOK, TokenColumns!Overtakes
<1>2. ASSUME NEW d \in Clients \ outdated', where'[d] = "store"
      PROVE  /\ asked'[d].kind \in TokenColumns!OfGenres => loaded'[d].genres = genres'
             /\ asked'[d].kind \in TokenColumns!OfParts => loaded'[d].parsed = parsed'
  <2>1. d # c
    BY <1>2, FinishEffect
  <2>2. where[d] = "store" /\ asked'[d] = asked[d] /\ loaded'[d] = loaded[d]
    BY <1>2, <2>1, FinishEffect
  <2>3. d \notin outdated /\ d \notin TokenColumns!Overtakes(c, TokenColumns!OfParts)
    BY <1>2, <2>1
  <2>4. asked[d].kind \notin TokenColumns!OfParts
    BY <2>1, <2>2, <2>3 DEF TokenColumns!Overtakes
  <2> QED
    BY <2>2, <2>3, <2>4 DEF LoadedIsThere
<1>3. LoadedIsThere'
  BY <1>2 DEF LoadedIsThere
<1>4. TokenColumns!EntriesStay'
  BY DEF TokenColumns!EntriesStay
<1> QED
  BY <1>1, <1>3, <1>4, FinishEffect

LEMMA StoredParts ==
  ASSUME ColumnsKept
  PROVE  /\ parsed \in [Parts -> TokenColumns!Part] /\ entered \in [Parts -> TokenColumns!Part]
         /\ \A p \in Parts : entered[p] \in {None, parsed[p]}
BY DEF ColumnsKept, ColumnsTyped, TokenColumns!TypeOK, TokenColumns!EntriesStay

LEMMA CorrectStays ==
  ASSUME ColumnsKept, NEW c \in Clients, TokenColumns!Correct(c)
  PROVE  ColumnsKept'
<1> DEFINE p0 == asked[c].part
           reading == asked[c].reading
           before == loaded[c].parsed
           corrected == [before EXCEPT ![p0] = reading]
<1>1. /\ p0 \in Parts /\ reading \in Readings /\ loaded[c] \in Column
      /\ c \notin outdated => before = parsed
  BY ColumnsAssumed
     DEF ColumnsKept, ColumnsAtHand, LoadedIsThere, TokenColumns!Correct, TokenColumns!OfParts
<1>2. before \in [Parts -> TokenColumns!Part]
  BY <1>1 DEF Column
<1>3. /\ parsed' = TokenColumns!Written(before, corrected, parsed)
      /\ entered' = IF c \in outdated THEN parsed' ELSE [entered EXCEPT ![p0] = reading]
      /\ outdated' = (outdated \cup TokenColumns!Overtakes(c, TokenColumns!OfParts)) \ {c}
      /\ TokenColumns!Finish(c) /\ UNCHANGED <<genres, chosen>>
  BY DEF TokenColumns!Correct
<1> HIDE DEF p0, reading, before
<1>4. /\ corrected \in [Parts -> TokenColumns!Part] /\ corrected[p0] = reading
      /\ \A p \in Parts \ {p0} : corrected[p] = before[p]
  BY <1>1, <1>2 DEF TokenColumns!Part
<1> HIDE DEF corrected
<1>5. parsed' \in {corrected, parsed} /\ (c \notin outdated => parsed' = corrected)
  BY <1>1, <1>3, WrittenEffect
<1>6. parsed' \in [Parts -> TokenColumns!Part]
  BY <1>4, <1>5, StoredParts
<1>7. entered' \in [Parts -> TokenColumns!Part] /\ \A p \in Parts : entered'[p] \in {None, parsed'[p]}
  <2>1. CASE c \in outdated
    BY <1>3, <1>6, <2>1
  <2>2. CASE c \notin outdated
    <3>1. entered' = [entered EXCEPT ![p0] = reading] /\ parsed' = corrected /\ before = parsed
      BY <1>1, <1>3, <1>5, <2>2
    <3> QED
      BY <1>1, <1>4, <3>1, StoredParts DEF TokenColumns!Part
  <2> QED
    BY <2>1, <2>2
<1> QED
  BY <1>3, <1>6, <1>7, PartsStay

LEMMA ApplyStays ==
  ASSUME ColumnsKept, NEW c \in Clients, TokenColumns!Apply(c)
  PROVE  ColumnsKept'
<1> DEFINE analysis == asked[c].analysis
           before == loaded[c].parsed
<1>1. /\ analysis \in [Parts -> Findings]
      /\ c \notin outdated => before = parsed
  BY ColumnsAssumed
     DEF ColumnsKept, ColumnsAtHand, LoadedIsThere, TokenColumns!Apply, TokenColumns!OfParts
<1>2. /\ parsed' = TokenColumns!Written(before, analysis, parsed)
      /\ entered' = IF c \in outdated THEN parsed' ELSE analysis
      /\ outdated' = (outdated \cup TokenColumns!Overtakes(c, TokenColumns!OfParts)) \ {c}
      /\ TokenColumns!Finish(c) /\ UNCHANGED <<genres, chosen>>
  BY DEF TokenColumns!Apply
<1> HIDE DEF analysis, before
<1>3. parsed' \in {analysis, parsed} /\ (c \notin outdated => parsed' = analysis)
  BY <1>1, <1>2, WrittenEffect
<1>4. analysis \in [Parts -> TokenColumns!Part]
  BY <1>1 DEF TokenColumns!Part
<1>5. parsed' \in [Parts -> TokenColumns!Part] /\ entered' = parsed'
  BY <1>2, <1>3, <1>4, StoredParts
<1> QED
  BY <1>2, <1>5, PartsStay

\* Every step keeps it.
LEMMA ColumnsStay ==
  ASSUME ColumnsKept, [TokenColumns!Next]_columnVars
  PROVE  ColumnsKept'
<1>1. CASE UNCHANGED columnVars
  <2> USE <1>1 DEF columnVars
  <2>1. ColumnsTyped'
    BY DEF ColumnsKept, ColumnsTyped, TokenColumns!TypeOK
  <2>2. ColumnsAtHand' /\ LoadedIsThere'
    BY DEF ColumnsKept, ColumnsAtHand, LoadedIsThere
  <2>3. TokenColumns!EntriesStay'
    BY DEF ColumnsKept, TokenColumns!EntriesStay
  <2> QED
    BY <2>1, <2>2, <2>3 DEF ColumnsKept
<1>2. CASE TokenColumns!Next
  BY <1>2, AskStays, LoadStays, SaveGenresStays, ImportGenresStays, ReimportStays, CorrectStays,
     ApplyStays, FailStays
     DEF TokenColumns!Next
<1> QED
  BY <1>1, <1>2

LEMMA ColumnsAreKept == ColumnsKept => EntriesStay
BY DEF ColumnsKept, ColumnsTyped, EntriesStay

\* What a user chose or corrected last stays, whatever is imported, saved or fails at the same
\* time, until a re-import of the collection or an analysis takes its place, but for a request
\* that loaded the column before another one wrote it; and no import brings a genre in twice
\* (web/catalogue.py:3248, :3477, :4022, web/admin.py:1096).
THEOREM ChoicesStay == Spec => []EntriesStay
<1> DEFINE Inv == part = "columns" => ColumnsKept
<1>1. Init => Inv
  BY ColumnsAtStart DEF Init
<1>2. Inv /\ [Next]_vars => Inv'
  <2> SUFFICES ASSUME Inv, [Next]_vars, part' = "columns" PROVE ColumnsKept'
    OBVIOUS
  <2>1. ColumnsKept /\ [TokenColumns!Next]_columnVars
    BY StepsOfAPart
  <2> QED
    BY <2>1, ColumnsStay
<1>3. Inv => EntriesStay
  BY ColumnsAreKept DEF EntriesStay
<1> QED
  BY <1>1, <1>2, <1>3, PTL DEF Spec
=============================================================================
