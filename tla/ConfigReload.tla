----------------------------- MODULE ConfigReload -----------------------------
(***************************************************************************)
(* ServerNodeConfig: every 10 seconds a timer compares the modification    *)
(* time of server-config.json with the one it noted, and loads the file if *)
(* they differ.  The file is written while it is loaded, and the three     *)
(* fields that hold its content are assigned one after the other.          *)
(***************************************************************************)
EXTENDS Integers

CONSTANTS
  Contents,   \* what the file may contain
  Unparsable, \* those that Jackson cannot parse, a half-written file too
  Duplicated, \* those that name a service of a node twice, which toMap refuses
  MaxTime,    \* bound: the modification times of the file
  None        \* null

ASSUME ConfigAssumption ==
  /\ Unparsable \subseteq Contents
  /\ Duplicated \subseteq Contents \ Unparsable
  /\ MaxTime \in Nat
  /\ None \notin Contents

VARIABLES
  content, mtime,     \* the file; no file has the modification time 0
  clock,              \* history: the latest modification time used
  blurred,            \* history: the last write did not get a new one
  lastModified,       \* the modification time noted
  serverNodeLogs, serverNodeMap, configJson,
  loader,             \* where the timer thread is
  json,               \* the text that it has read
  first               \* it is in the branch for the first loading

fileVars   == <<content, mtime, clock, blurred>>
loadedVars == <<serverNodeLogs, serverNodeMap, configJson>>
configVars == <<fileVars, lastModified, loadedVars, loader, json, first>>

Good == (Contents \ Unparsable) \ Duplicated
LoaderStages == {"idle", "reading", "mapping", "publishing", "comparing", "noting"}

ConfigInit ==
  /\ content = None /\ mtime = 0 /\ clock = 0 /\ blurred = FALSE
  /\ lastModified = 0
  /\ serverNodeLogs = None /\ serverNodeMap = None /\ configJson = None
  /\ loader = "idle" /\ json = None /\ first = FALSE

(***************************************************************************)
(* The file.                                                               *)
(***************************************************************************)
(* Two writes may get the same modification time, or a copied file an      *)
(* older one.                                                              *)
WriteFile(c, t) ==
  /\ t \in 1..(clock + 1) /\ t <= MaxTime
  /\ content' = c /\ mtime' = t
  /\ clock' = IF t > clock THEN t ELSE clock
  /\ blurred' = (t <= clock)
  /\ UNCHANGED <<lastModified, loadedVars, loader, json, first>>

DeleteFile ==
  /\ mtime # 0
  /\ content' = None /\ mtime' = 0
  /\ UNCHANGED <<clock, blurred, lastModified, loadedVars, loader, json, first>>

(***************************************************************************)
(* The timer thread.                                                       *)
(***************************************************************************)
(* refreshConfig is over: the first loading is followed by the comparison, *)
(* that of a change by the next timeout.                                   *)
AfterRefresh ==
  /\ loader' = IF first THEN "comparing" ELSE "idle"
  /\ first' = FALSE
  /\ json' = None

(* loadConfig, called at the start and by the timer. *)
LoadConfig ==
  /\ loader = "idle"
  /\ IF lastModified = 0
     THEN lastModified' = mtime /\ first' = TRUE /\ loader' = "reading"
     ELSE loader' = "comparing" /\ UNCHANGED <<lastModified, first>>
  /\ UNCHANGED <<fileVars, loadedVars, json>>

Compare ==
  /\ loader = "comparing"
  /\ loader' = IF mtime # lastModified THEN "noting" ELSE "idle"
  /\ UNCHANGED <<fileVars, lastModified, loadedVars, json, first>>

(* The modification time is read once more, before the content. *)
Note ==
  /\ loader = "noting"
  /\ lastModified' = mtime
  /\ loader' = "reading"
  /\ UNCHANGED <<fileVars, loadedVars, json, first>>

(* The text is kept for the console before the map is made of it.          *)
ReadFilePublishing ==
  /\ loader = "reading"
  /\ IF content \in {None} \cup Unparsable
     THEN AfterRefresh /\ UNCHANGED <<serverNodeLogs, configJson>>
     ELSE /\ json' = content
          /\ serverNodeLogs' = content
          /\ configJson' = content
          /\ loader' = "mapping"
          /\ UNCHANGED first
  /\ UNCHANGED <<fileVars, lastModified, serverNodeMap>>

(* The file is read, parsed and assigned to serverNodeLogs; or there is no *)
(* file, or it is not JSON.                                                *)
ReadFile ==
  /\ loader = "reading"
  /\ IF content \in {None} \cup Unparsable
     THEN AfterRefresh /\ UNCHANGED serverNodeLogs
     ELSE /\ json' = content
          /\ serverNodeLogs' = content
          /\ loader' = "mapping"
          /\ UNCHANGED first
  /\ UNCHANGED <<fileVars, lastModified, serverNodeMap, configJson>>

MapNodes ==
  /\ loader = "mapping"
  /\ IF json \in Duplicated
     THEN AfterRefresh /\ UNCHANGED serverNodeMap
     ELSE serverNodeMap' = json /\ loader' = "publishing" /\ UNCHANGED <<json, first>>
  /\ UNCHANGED <<fileVars, lastModified, serverNodeLogs, configJson>>

(* The modification time is noted when the file has been loaded. *)
PublishThenNote ==
  /\ loader = "publishing"
  /\ configJson' = json
  /\ AfterRefresh
  /\ lastModified' = mtime
  /\ UNCHANGED <<fileVars, serverNodeLogs, serverNodeMap>>

Publish ==
  /\ loader = "publishing"
  /\ configJson' = json
  /\ AfterRefresh
  /\ UNCHANGED <<fileVars, lastModified, serverNodeLogs, serverNodeMap>>

LoaderStep == LoadConfig \/ Compare \/ Note \/ ReadFile \/ MapNodes \/ Publish

ConfigNext ==
  \/ \E c \in Contents, t \in 1..MaxTime : WriteFile(c, t)
  \/ DeleteFile
  \/ LoaderStep

(* The finally of loadConfig sets the next timeout, whatever happened. *)
ConfigFairness == WF_configVars(LoaderStep)

(***************************************************************************)
(* Properties.                                                             *)
(***************************************************************************)
(* Types.  The map, which queries use, is of a good file; and when the     *)
(* timer thread is not between two assignments, the console's JSON is what *)
(* the map was made of, and the list as well unless it is of a file with a *)
(* duplicate.                                                              *)
ConfigTypeOK ==
  /\ content \in Contents \cup {None}
  /\ mtime \in 0..MaxTime /\ clock \in 0..MaxTime /\ lastModified \in 0..MaxTime
  /\ blurred \in BOOLEAN /\ first \in BOOLEAN
  /\ loader \in LoaderStages
  /\ json \in (Contents \ Unparsable) \cup {None}
  /\ serverNodeLogs \in (Contents \ Unparsable) \cup {None}
  /\ serverNodeMap \in Good \cup {None}
  /\ configJson \in Good \cup {None}
  /\ loader \in {"mapping", "publishing"} <=> json # None
  /\ loader # "publishing" => serverNodeMap = configJson
  /\ loader # "mapping" =>
       serverNodeLogs = serverNodeMap \/ serverNodeLogs \in Duplicated

(* A good file that stays is served in the end: by the list, the map and   *)
(* the JSON, whatever the file was before and whatever failed on the way - *)
(* if its last write got a modification time of its own.                   *)
ConfigCatchesUp ==
  \A c \in Good :
    (content = c /\ ~blurred) ~>
      \/ serverNodeLogs = c /\ serverNodeMap = c /\ configJson = c
      \/ content # c \/ blurred
=============================================================================
