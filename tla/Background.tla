----------------------------- MODULE Background -----------------------------
(***************************************************************************)
(* The background of the login page and the dashboard (web/background.py): *)
(* one row of site_settings, which pages read through a cache of the       *)
(* process that is good for a minute, and which an admin changes by        *)
(* writing it anew from the cached copy.                                   *)
(*                                                                         *)
(* A step is what a request does from one await to the next.  Data: an     *)
(* uploaded file is named by the request that uploaded it.                 *)
(***************************************************************************)
EXTENDS FiniteSets

CONSTANTS Requests, None,
          Changes,   \* among "view", "video", "image", "width", "cover", "reset"
          Uploads    \* what an upload may consist of: sets of slots

VARIABLES
    stored,    \* the row, or None
    objects,   \* the files in the object store, <<request, slot>>
    kept,      \* _settings_cache: the setting in it, or None
    saving,    \* [at, op, slots, copy] of each request
    wanted,    \* what the changes that were saved ask for, in their order (history)
    slips      \* "misread", "late" or "overlap" (history)

backgroundVars == <<stored, objects, kept, saving, wanted, slips>>

Slots == {"image", "mp4", "webm"}
Setting == [mode : {"video", "image"}, fit : {"width", "cover"},
            image : Requests \cup {None}, mp4 : Requests \cup {None},
            webm : Requests \cup {None}]

BackgroundAssumption ==
    /\ Changes \subseteq {"view", "video", "image", "width", "cover", "reset"}
    /\ Uploads \subseteq SUBSET Slots
    /\ None \notin Setting \cup Requests

default_setting == [mode |-> "video", fit |-> "width",
                    image |-> None, mp4 |-> None, webm |-> None]
Normalised(row) == IF row = None THEN default_setting ELSE row

Init ==
    /\ stored = None /\ objects = {} /\ kept = None
    /\ saving = [r \in Requests |-> [at |-> "new", op |-> "none", slots |-> {}, copy |-> None]]
    /\ wanted = default_setting
    /\ slips = {}

-----------------------------------------------------------------------------
Posts == {r \in Requests : saving[r].at \notin {"new", "over"} /\ saving[r].op # "view"}

\* Both formats of a video come from one upload: the new one drops the other, old one.
WithFiles(setting, r, slots) ==
    [[s \in DOMAIN setting |->
         IF s \in slots THEN r
         ELSE IF s \in {"mp4", "webm"} /\ slots \cap {"mp4", "webm"} # {} THEN None
         ELSE setting[s]]
     EXCEPT !.mode = IF slots \cap {"mp4", "webm"} # {} THEN "video" ELSE "image"]

\* What a request asks for, of a setting.
Changed(setting, r) ==
    CASE saving[r].op = "upload" -> WithFiles(setting, r, saving[r].slots)
      [] saving[r].op \in {"video", "image"} -> [setting EXCEPT !.mode = saving[r].op]
      [] saving[r].op \in {"width", "cover"} -> [setting EXCEPT !.fit = saving[r].op]
      [] saving[r].op = "reset" -> default_setting

\* What a request does once it has the setting.
Onward(op) == CASE op = "view" -> "over" [] op = "upload" -> "put" [] OTHER -> "save"

\* load_setting serves the cached copy; a reset does not look at the setting.
Open(r, op, slots) ==
    /\ saving[r].at = "new"
    /\ slots # {} <=> op = "upload"
    /\ saving' = [saving EXCEPT ![r] =
          [at |-> IF op = "reset" THEN "save" ELSE IF kept # None THEN Onward(op) ELSE "select",
           op |-> op, slots |-> slots, copy |-> kept]]
    /\ slips' = slips \cup IF op # "view" /\ Posts # {} THEN {"overlap"} ELSE {}
    /\ UNCHANGED <<stored, objects, kept, wanted>>

\* A setting that cannot be read counts as the default.
Select(r) ==
    /\ saving[r].at = "select"
    /\ \/ /\ saving' = [saving EXCEPT ![r].at = "keep", ![r].copy = Normalised(stored)]
          /\ UNCHANGED slips
       \/ /\ saving' = [saving EXCEPT ![r].at = "keep", ![r].copy = default_setting]
          /\ slips' = slips \cup {"misread"}
    /\ UNCHANGED <<stored, objects, kept, wanted>>

\* What was selected is cached once the session is closed, even if it is the default of a
\* failed read, and even if it has been changed in between.
Keep(r) ==
    /\ saving[r].at = "keep"
    /\ kept' = saving[r].copy
    /\ saving' = [saving EXCEPT ![r].at = Onward(saving[r].op)]
    /\ slips' = slips \cup IF saving[r].copy # Normalised(stored) THEN {"late"} ELSE {}
    /\ UNCHANGED <<stored, objects, wanted>>

\* background_upload stores the checked files one after the other, before the setting.
Put(r) ==
    /\ saving[r].at = "put"
    /\ \/ /\ objects' = objects \cup ({r} \X saving[r].slots)
          /\ saving' = [saving EXCEPT ![r].at = "save"]
       \/ \E some \in SUBSET saving[r].slots :
             /\ objects' = objects \cup ({r} \X some)
             /\ saving' = [saving EXCEPT ![r].at = "over"]
    /\ UNCHANGED <<stored, kept, wanted, slips>>

\* A mistake of Save: the setting is saved without its files' other format being dropped.
SaveMixed(r) ==
    /\ saving[r].at = "save"
    /\ LET old == IF saving[r].op = "reset" THEN default_setting ELSE saving[r].copy
           new == Changed(old, r)
       IN stored' = [new EXCEPT !.mp4 = IF @ = None THEN old.mp4 ELSE @,
                                !.webm = IF @ = None THEN old.webm ELSE @]
    /\ wanted' = Changed(wanted, r)
    /\ saving' = [saving EXCEPT ![r].at = "forget"]
    /\ UNCHANGED <<objects, kept, slips>>

\* _save_setting, of the copy as the request has changed it.
Save(r) ==
    /\ saving[r].at = "save"
    /\ \/ /\ stored' = Changed(saving[r].copy, r)
          /\ wanted' = Changed(wanted, r)
          /\ saving' = [saving EXCEPT ![r].at = "forget"]
       \/ /\ saving' = [saving EXCEPT ![r].at = "over"]
          /\ UNCHANGED <<stored, wanted>>
    /\ UNCHANGED <<objects, kept, slips>>

\* A mistake of Forget: the process goes on with its cached copy.
ForgetNothing(r) ==
    /\ saving[r].at = "forget"
    /\ saving' = [saving EXCEPT ![r].at = "over"]
    /\ UNCHANGED <<stored, objects, kept, wanted, slips>>

\* _save_setting drops the cached copy after the commit.
Forget(r) ==
    /\ saving[r].at = "forget"
    /\ kept' = None
    /\ saving' = [saving EXCEPT ![r].at = "over"]
    /\ UNCHANGED <<stored, objects, wanted, slips>>

\* The cached copy is a minute old.
Expire ==
    /\ kept # None
    /\ kept' = None
    /\ UNCHANGED <<stored, objects, saving, wanted, slips>>

\* The process is started anew: its cache and its requests are gone.
Restart ==
    /\ kept' = None
    /\ saving' = [r \in Requests |-> IF saving[r].at = "new" THEN saving[r]
                                      ELSE [saving[r] EXCEPT !.at = "over"]]
    /\ UNCHANGED <<stored, objects, wanted, slips>>

Next ==
    \/ \E r \in Requests :
          \/ \E op \in Changes : Open(r, op, {})
          \/ \E slots \in Uploads : Open(r, "upload", slots)
          \/ Select(r) \/ Keep(r) \/ Put(r) \/ Save(r) \/ Forget(r)
    \/ Expire \/ Restart

Spec == Init /\ [][Next]_backgroundVars

-----------------------------------------------------------------------------
TypeOK ==
    /\ stored \in Setting \cup {None} /\ kept \in Setting \cup {None}
    /\ objects \subseteq Requests \X Slots
    /\ wanted \in Setting
    /\ slips \subseteq {"misread", "late", "overlap"}

\* The setting is what the admins have asked for, in the order in which they were told that
\* it is saved: each change is made to a copy that may be cached, so that a change is undone
\* by the next one if two admins work at once (background.py:636), if a page had cached a
\* setting that was changed while it was read (background.py:404), or if the setting could
\* not be read and its default was cached (background.py:401), and in no other case.
StoredAsAsked == slips = {} => Normalised(stored) = wanted

\* Pages show files that are in the object store, and "every browser shows the same
\* animation" (background.py:594): the MP4 and the WebM are from one upload, whatever
\* copies the changes are made to.
OneAnimation ==
    \A setting \in {stored, kept} \ {None} :
        /\ \A slot \in Slots : setting[slot] # None => <<setting[slot], slot>> \in objects
        /\ None \notin {setting.mp4, setting.webm} => setting.mp4 = setting.webm
=============================================================================
