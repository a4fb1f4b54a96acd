---------------------------- MODULE MigrationArchive ----------------------------
(***************************************************************************)
(* Moving the state of one installation of the App to another one.  A      *)
(* running App exports its active state into an archive in a directory     *)
(* both installations share; an App that is configured with an archive     *)
(* installs its state and marks the import before the first cycle.  The    *)
(* process may end between any two of these writes, and once it monitors   *)
(* every cycle may change the state.                                       *)
(***************************************************************************)
EXTENDS Integers, FiniteSets

CONSTANTS
  Apps,
  Options,      \* operational options other than the mode
  MaxRevision,  \* bound: contents of state files ever written by cycles
  MaxTime,      \* bound: last timestamp of an export
  NoArchive     \* model value: nothing requested, nothing imported

ASSUME BoundAssumption == MaxRevision \in Nat /\ MaxTime \in Nat

Files == {"catalog.sqlite3", "state.json"}
Other(file) == CHOOSE f \in Files : f # file

\* A content is the number of the cycle that wrote it, 0 when there is no file.
Contents == 0..MaxRevision
Times == 0..MaxTime

\* The operational options; the mode of monitoring selects the state file.
Settings == [file : Files, rest : Options]

\* An archive file: its name is its timestamp, its digest everything in it.
Archive == [at : Times, file : Files, state : Contents, settings : Settings]

ASSUME NoArchiveAssumption == NoArchive \notin Archive

VARIABLES
  data,      \* state files in the data directory of each App
  marker,    \* its import marker
  settings,  \* its configuration
  request,   \* the archive it is configured to import
  pc,        \* what its process does
  archives,  \* complete archives in the shared directory
  damaged,   \* those an operator lost or damaged
  revision,  \* contents written so far
  ancestors, \* history: the contents a content was made from
  refused    \* history: the latest start of the App was refused

MAvars == <<data, marker, settings, request, pc, archives, damaged, revision,
          ancestors, refused>>

States == {"stopped", "importing", "installing", "marking", "running"}

MATypeOK ==
  /\ data \in [Apps -> [Files -> Contents]]
  /\ marker \in [Apps -> Archive \cup {NoArchive}]
  /\ settings \in [Apps -> Settings]
  /\ request \in [Apps -> Archive \cup {NoArchive}]
  /\ pc \in [Apps -> States]
  /\ archives \subseteq Archive /\ damaged \subseteq archives
  /\ revision \in Contents
  /\ ancestors \in [1..MaxRevision -> SUBSET (1..MaxRevision)]
  /\ refused \in [Apps -> BOOLEAN]

MAInit ==
  /\ data = [app \in Apps |-> [file \in Files |-> 0]]
  /\ marker = [app \in Apps |-> NoArchive]
  /\ settings \in [Apps -> Settings]
  /\ request = [app \in Apps |-> NoArchive]
  /\ pc = [app \in Apps |-> "stopped"]
  /\ archives = {} /\ damaged = {}
  /\ revision = 0 /\ ancestors = [r \in 1..MaxRevision |-> {}]
  /\ refused = [app \in Apps |-> FALSE]

-------------------------------------------------------------------------------
\* The operator edits the options of an App that does not run.
Configure(app, new, archive) ==
  /\ pc[app] = "stopped"
  /\ settings' = [settings EXCEPT ![app] = new]
  /\ request' = [request EXCEPT ![app] = archive]
  /\ refused' = [refused EXCEPT ![app] = FALSE]
  /\ UNCHANGED <<data, marker, pc, archives, damaged, revision, ancestors>>

\* The operator deletes or damages an archive.
Damage(archive) ==
  /\ damaged' = damaged \cup {archive}
  /\ UNCHANGED <<data, marker, settings, request, pc, archives, revision, ancestors, refused>>

\* run: the import comes before composition and the first cycle.
Start(app) ==
  /\ pc[app] = "stopped"
  /\ pc' = [pc EXCEPT ![app] = IF request[app] = NoArchive THEN "running" ELSE "importing"]
  /\ refused' = [refused EXCEPT ![app] = FALSE]
  /\ UNCHANGED <<data, marker, settings, request, archives, damaged, revision, ancestors>>

\* read_archive and the digest of the whole file.
Readable(archive) == archive \in archives \ damaged

Target(app) == data[app][request[app].file]

\* Mutation of Conflicts: any state of the requested mode is taken for the imported one.
ConflictsOfOtherMode(app) ==
  \/ data[app][Other(request[app].file)] # 0
  \/ marker[app] # NoArchive /\ marker[app] # request[app]

\* completed_import and the checks around it: the App has another state than
\* the requested one, or its marker names another import.
Conflicts(app) ==
  \/ data[app][Other(request[app].file)] # 0
  \/ marker[app] # NoArchive /\
       (marker[app] # request[app] \/ Target(app) # request[app].state)
  \/ marker[app] = NoArchive /\ Target(app) \notin {0, request[app].state}

Refused(app) ==
  ~Readable(request[app]) \/ request[app].settings # settings[app] \/ Conflicts(app)

Skip(app, next) ==
  /\ pc' = [pc EXCEPT ![app] = next]
  /\ UNCHANGED <<data, marker, settings, request, archives, damaged, revision, ancestors>>

RefuseImport(app) ==
  /\ pc[app] = "importing" /\ Refused(app)
  /\ refused' = [refused EXCEPT ![app] = TRUE]
  /\ Skip(app, "stopped")

\* Mutation of AcceptImport: an installed state is not recognized without marker.
AcceptMarkedImport(app) ==
  /\ pc[app] = "importing" /\ ~Refused(app)
  /\ Target(app) = 0 \/ marker[app] # NoArchive
  /\ Skip(app, IF marker[app] # NoArchive THEN "running" ELSE "installing")
  /\ UNCHANGED refused

\* Mutation of AcceptImport: the marker is written before the state is installed.
AcceptImportMarkerFirst(app) ==
  /\ pc[app] = "importing" /\ ~Refused(app)
  /\ Skip(app, IF marker[app] = NoArchive THEN "marking"
               ELSE IF Target(app) = 0 THEN "installing" ELSE "running")
  /\ UNCHANGED refused

\* What remains to be done depends on what an earlier start has done.
AcceptImport(app) ==
  /\ pc[app] = "importing" /\ ~Refused(app)
  /\ Skip(app, IF marker[app] # NoArchive THEN "running"
               ELSE IF Target(app) # 0 THEN "marking" ELSE "installing")
  /\ UNCHANGED refused

\* install_state: a complete file is linked to its name.
Install(app) ==
  /\ pc[app] = "installing"
  /\ data' = [data EXCEPT ![app][request[app].file] = request[app].state]
  /\ pc' = [pc EXCEPT ![app] = "marking"]
  /\ UNCHANGED <<marker, settings, request, archives, damaged, revision, ancestors, refused>>

\* Mutation of WriteMarker: the marker carries the time of the import.
WriteMarkerOfImportTime(app) ==
  /\ pc[app] = "marking"
  /\ marker' = [marker EXCEPT ![app] = [request[app] EXCEPT !.at = MaxTime + 1]]
  /\ pc' = [pc EXCEPT ![app] = "running"]
  /\ UNCHANGED <<data, settings, request, archives, damaged, revision, ancestors, refused>>

WriteMarker(app) ==
  /\ pc[app] = "marking"
  /\ marker' = [marker EXCEPT ![app] = request[app]]
  /\ pc' = [pc EXCEPT ![app] = "running"]
  /\ UNCHANGED <<data, settings, request, archives, damaged, revision, ancestors, refused>>

\* A cycle writes the active state.
Cycle(app) ==
  LET file == settings[app].file
      old == data[app][file]
  IN  /\ pc[app] = "running" /\ revision < MaxRevision
      /\ revision' = revision + 1
      /\ data' = [data EXCEPT ![app][file] = revision + 1]
      /\ ancestors' = [ancestors EXCEPT ![revision + 1] =
                         IF old = 0 THEN {} ELSE ancestors[old] \cup {old}]
      /\ UNCHANGED <<marker, settings, request, pc, archives, damaged, refused>>

\* Mutation of Export: an archive with the same name is replaced.
ExportReplacing(app, t) ==
  LET file == settings[app].file
  IN  /\ pc[app] = "running" /\ data[app][file] # 0
      /\ archives' = {a \in archives : a.at # t} \cup
           {[at |-> t, file |-> file, state |-> data[app][file], settings |-> settings[app]]}
      /\ damaged' = {a \in damaged : a.at # t}
      /\ UNCHANGED <<data, marker, settings, request, pc, revision, ancestors, refused>>

\* export, under the operation lock: a consistent copy of the active state, the
\* options without the import fields, and a link that fails when the name exists.
Export(app, t) ==
  LET file == settings[app].file
  IN  /\ pc[app] = "running" /\ data[app][file] # 0
      /\ \A a \in archives : a.at # t
      /\ archives' = archives \cup
           {[at |-> t, file |-> file, state |-> data[app][file], settings |-> settings[app]]}
      /\ UNCHANGED <<data, marker, settings, request, pc, damaged, revision, ancestors, refused>>

\* The process is terminated or a write fails: files stay as they are.
Stop(app) ==
  /\ pc[app] # "stopped"
  /\ Skip(app, "stopped")
  /\ UNCHANGED refused

-------------------------------------------------------------------------------
Import(app) == RefuseImport(app) \/ AcceptImport(app) \/ Install(app) \/ WriteMarker(app)

MANext ==
  \/ \E app \in Apps :
       \/ Start(app) \/ Import(app) \/ Cycle(app) \/ Stop(app)
       \/ \E new \in Settings, a \in archives \cup {NoArchive} : Configure(app, new, a)
       \/ \E t \in Times : Export(app, t)
  \/ \E a \in archives : Damage(a)

MASpec == MAInit /\ [][MANext]_MAvars

\* The App is started again after it ended, and an import is not interrupted at
\* the same point for ever.
MAFairSpec ==
  /\ MASpec
  /\ \A app \in Apps :
       /\ SF_MAvars(Start(app))
       /\ SF_MAvars(AcceptImport(app)) /\ SF_MAvars(Install(app)) /\ SF_MAvars(WriteMarker(app))

-------------------------------------------------------------------------------
(* Properties.                                                             *)

\* The history of a state file: what it contains and what that was made from.
History(app, file) ==
  IF data[app][file] = 0 THEN {}
  ELSE ancestors[data[app][file]] \cup {data[app][file]}

\* No import overwrites a state, and an archive is never replaced: only a cycle
\* changes an existing file (ADR-0028, STORY-027).
NothingOverwritten ==
  [][/\ \A app \in Apps, file \in Files :
          data[app][file] # 0 /\ data'[app][file] # data[app][file] =>
            pc[app] = "running" /\ data[app][file] \in ancestors'[data'[app][file]]
     /\ archives \subseteq archives']_MAvars

\* While an import is configured, an App that monitors continues the history of
\* exactly this archive, wherever earlier starts were cut off (import_state).
MonitorsImportedState ==
  \A app \in Apps : pc[app] = "running" /\ request[app] # NoArchive =>
    /\ request[app].state \in History(app, request[app].file)
    /\ settings[app] = request[app].settings

\* A marker is written after its state was installed, and stays true of it
\* (write_marker).
MarkerIsTrue ==
  \A app \in Apps : marker[app] # NoArchive =>
    marker[app].state \in History(app, marker[app].file)

\* The App holds another state than the one it is configured to import.
HoldsOther(app) ==
  \/ Target(app) \notin {0, request[app].state}
  \/ data[app][Other(request[app].file)] # 0

\* An import into an empty installation with the exported options gets through
\* in the end, however often the process is terminated between its writes,
\* unless the operator asks for another one, or the archive is lost
\* (import_state, completed_import).
ImportRecovers ==
  \A app \in Apps :
    pc[app] \in {"installing", "marking"} ~>
      \/ marker[app] = request[app] \/ request[app] = NoArchive
      \/ ~Readable(request[app]) \/ request[app].settings # settings[app]
      \/ HoldsOther(app)

\* Repeating the same configured import is an idempotent no-op (ADR-0028): it
\* is not refused while archive and options are unchanged.
RepeatedImportAccepted ==
  \A app \in Apps :
    refused[app] /\ Readable(request[app]) /\ request[app].settings = settings[app] =>
      marker[app] # request[app]

===============================================================================
