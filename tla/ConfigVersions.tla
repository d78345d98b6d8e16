---------------------------- MODULE ConfigVersions ----------------------------
(***************************************************************************)
(* Configuration versions, the branches based on them, and backups of the  *)
(* database they are in.  Every store call is a transaction of its own: a  *)
(* save looks at the lock in one and replaces the row in another, a branch *)
(* is created by deactivating the others in one and inserting it in        *)
(* another.  A backup copies the database file and a restore copies a      *)
(* backup over it, neither of them inside a transaction.                   *)
(*                                                                         *)
(* The branches are those of one scenario.  A version's configuration is   *)
(* the name of the update that wrote it last.                              *)
(***************************************************************************)
EXTENDS Naturals, FiniteSets

CONSTANTS
  Versions,  \* versions saved by save_version
  Updates,   \* calls of ConfigVersionStore.save by code that loaded a version
  Lockers,   \* calls of lock_version
  Creations, \* calls of create_branch; a creation is also the branch it creates
  Backups,   \* calls of create_backup; a backup is also its file
  Restores,  \* calls of restore; a restore is also the file of its safety copy
  Consoles,  \* the restores asked for at the API, which record decisions
  MaxBreaks, \* bound: calls that die or raise half-way
  None       \* no row, no file, no image, nothing chosen

Actors == Updates \cup Lockers \cup Creations \cup Backups \cup Restores
Files == Backups \cup Restores
VersionRow == [config : Versions \cup Updates, locked : BOOLEAN]
BranchRow == [base : Versions, active : BOOLEAN]
Database ==
  [version : [Versions -> VersionRow \cup {None}],
   branch : [Creations -> BranchRow \cup {None}],
   log : SUBSET (Consoles \X Files)]

ASSUME ConfigAssumption ==
  /\ Versions \cap Actors = {}
  /\ Updates \cap (Lockers \cup Creations \cup Files) = {}
  /\ Lockers \cap (Creations \cup Files) = {}
  /\ Creations \cap Files = {}
  /\ Backups \cap Restores = {}
  /\ Consoles \subseteq Restores /\ MaxBreaks \in Nat
  /\ None \notin Actors \cup Versions \cup VersionRow \cup BranchRow \cup Database

VARIABLES
  stage,    \* how far each call has come
  about,    \* the version, or for a restore the file, a call is about
  db,       \* the database file; None while it is no database
  image,    \* the version an update will write back
  file,     \* what the backup files hold; None: no file, or no database
  prior,    \* the decisions a restore has read
  saved,    \* history: versions that were committed
  sealed,   \* history: the configuration a version was locked with
  broken,   \* history: calls that died or raised
  disturbed \* history: calls another one got in the way of

vars == <<stage, about, db, image, file, prior, saved, sealed, broken, disturbed>>
copies == <<file, prior>>
rows == <<db, saved, sealed>>

TypeOK ==
  /\ stage \in [Actors -> {"idle", "read", "check", "write", "clear", "insert",
                           "copy", "safety", "replace", "record", "over"}]
  /\ about \in [Actors -> Versions \cup Files \cup {None}]
  /\ db \in Database \cup {None}
  /\ image \in [Updates -> VersionRow \cup {None}]
  /\ file \in [Files -> Database \cup {None}]
  /\ prior \in [Restores -> SUBSET (Consoles \X Files)]
  /\ saved \subseteq Versions
  /\ sealed \in [Versions -> Versions \cup Updates \cup {None}]
  /\ broken \subseteq Actors /\ disturbed \subseteq Actors

EmptyDatabase ==
  [version |-> [v \in Versions |-> None], branch |-> [c \in Creations |-> None], log |-> {}]

Init ==
  /\ stage = [a \in Actors |-> "idle"]
  /\ about = [a \in Actors |-> None]
  /\ db = EmptyDatabase
  /\ image = [u \in Updates |-> None]
  /\ file = [f \in Files |-> None]
  /\ prior = [r \in Restores |-> {}]
  /\ saved = {}
  /\ sealed = [v \in Versions |-> None]
  /\ broken = {} /\ disturbed = {}

Goes(a, from, to) == stage[a] = from /\ stage' = [stage EXCEPT ![a] = to]
Stored(v) == db # None /\ db.version[v] # None

\* A write gets in the way of copies of the file that are under way, and of
\* restores that have copied it for safety and not yet replaced it.
Copying == {f \in Files : stage[f] \in {"copy", "safety", "replace"}}
Writes(new) ==
  /\ db # None /\ db' = new
  /\ disturbed' = IF new = db THEN disturbed ELSE disturbed \cup Copying

-----------------------------------------------------------------------------
(* Versions *)

\* save_version: the id is new, so its look at the lock finds nothing.
SaveVersion(v) ==
  /\ v \notin saved
  /\ Writes([db EXCEPT !.version[v] = [config |-> v, locked |-> FALSE]])
  /\ saved' = saved \cup {v}
  /\ UNCHANGED <<stage, about, image, copies, sealed, broken>>

\* A caller loads a version to change it ...
LoadVersion(u) ==
  /\ Goes(u, "idle", "check")
  /\ \E v \in Versions :
       /\ Stored(v)
       /\ about' = [about EXCEPT ![u] = v]
       /\ image' = [image EXCEPT ![u] = [db.version[v] EXCEPT !.config = u]]
  /\ UNCHANGED <<rows, copies, broken, disturbed>>

\* Mutant: looks at the lock of the version it was given.
CheckLockOfImage(u) ==
  /\ db # None
  /\ Goes(u, "check", IF image[u].locked THEN "over" ELSE "write")
  /\ UNCHANGED <<about, rows, image, copies, broken, disturbed>>

\* ... save looks at the lock of the stored one ...
CheckLock(u) ==
  /\ db # None
  /\ Goes(u, "check", IF Stored(about[u]) /\ db.version[about[u]].locked THEN "over" ELSE "write")
  /\ UNCHANGED <<about, rows, image, copies, broken, disturbed>>

\* ... and replaces the row.
ReplaceVersion(u) ==
  /\ Goes(u, "write", "over")
  /\ Writes([db EXCEPT !.version[about[u]] = image[u]])
  /\ UNCHANGED <<about, image, copies, saved, sealed, broken>>

\* lock_version loads the version, or raises ...
FindVersion(l) ==
  /\ Goes(l, "idle", "write")
  /\ \E v \in Versions : Stored(v) /\ about' = [about EXCEPT ![l] = v]
  /\ UNCHANGED <<rows, image, copies, broken, disturbed>>

\* ... and updates the columns of the lock, of a row that is still there.
LockVersion(l) ==
  LET v == about[l] IN
  /\ Goes(l, "write", "over")
  /\ IF Stored(v)
       THEN /\ Writes([db EXCEPT !.version[v].locked = TRUE])
            /\ sealed' = IF \A u \in Updates : ~(stage[u] = "write" /\ about[u] = v)
                           THEN [sealed EXCEPT ![v] = db.version[v].config] ELSE sealed
       ELSE Writes(db) /\ UNCHANGED sealed
  /\ UNCHANGED <<about, image, copies, saved, broken>>

-----------------------------------------------------------------------------
(* Branches *)

\* create_branch: the base is there and locked, or it raises.
FindBase(c) ==
  /\ Goes(c, "idle", "clear")
  /\ \E v \in Versions :
       Stored(v) /\ db.version[v].locked /\ about' = [about EXCEPT ![c] = v]
  /\ UNCHANGED <<rows, image, copies, broken, disturbed>>

Deactivated(branches) ==
  [c \in Creations |->
     IF branches[c] = None THEN None ELSE [branches[c] EXCEPT !.active = FALSE]]

\* Mutant: the branches of the scenario stay active.
KeepActive(c) ==
  /\ Goes(c, "clear", "insert")
  /\ Writes(db)
  /\ UNCHANGED <<about, image, copies, saved, sealed, broken>>

DeactivateForScenario(c) ==
  /\ Goes(c, "clear", "insert")
  /\ Writes([db EXCEPT !.branch = Deactivated(@)])
  /\ UNCHANGED <<about, image, copies, saved, sealed, broken>>

\* Mutant: inserts a branch without its base.
InsertDetached(c) ==
  /\ Goes(c, "insert", "over")
  /\ Writes([db EXCEPT !.branch[c] = [base |-> None, active |-> TRUE]])
  /\ UNCHANGED <<about, image, copies, saved, sealed, broken>>

\* Creations whose branches are still to be inserted will not deactivate this one.
InsertBranch(c) ==
  LET branch == [base |-> about[c], active |-> TRUE] IN
  /\ Goes(c, "insert", "over")
  /\ db # None /\ db' = [db EXCEPT !.branch[c] = branch]
  /\ disturbed' = disturbed \cup Copying \cup {d \in Creations \ {c} : stage[d] = "insert"}
  /\ UNCHANGED <<about, image, copies, saved, sealed, broken>>

-----------------------------------------------------------------------------
(* Backups: a copy that a write gets in the way of is no database *)

\* create_backup opens the database file ...
StartBackup(b) ==
  /\ Goes(b, "idle", "copy")
  /\ UNCHANGED <<about, rows, image, copies, broken, disturbed>>

\* A copy has what it found, between two steps of a creation too.
Copies(f) ==
  /\ file' = [file EXCEPT ![f] = IF f \in disturbed THEN None ELSE db]
  /\ disturbed' = disturbed \cup {c \in Creations : stage[c] = "insert"}
  /\ UNCHANGED <<about, rows, image, prior, broken>>

\* ... and has copied it.
EndBackup(b) == Goes(b, "copy", "over") /\ Copies(b)

\* list_backups: every file, complete or not.
Listed ==
  {b \in Backups : stage[b] # "idle"}
    \cup {r \in Restores : about[r] # None /\ stage[r] # "safety"}

\* The API refuses a restore that is not confirmed, or of an unknown file, and
\* records that.
RefuseRestore(r) ==
  /\ r \in Consoles
  /\ Goes(r, "idle", "over")
  /\ \E f \in Files : Writes([db EXCEPT !.log = @ \cup {<<r, f>>}])
  /\ UNCHANGED <<about, image, copies, saved, sealed, broken>>

\* A restore finds the backup; one at the API first reads the decisions about it.
FindBackup(r) ==
  /\ Goes(r, "idle", "safety")
  /\ \E f \in Listed :
       /\ about' = [about EXCEPT ![r] = f]
       /\ IF r \in Consoles
            THEN db # None /\ prior' = [prior EXCEPT ![r] = {d \in db.log : d[2] = f}]
            ELSE UNCHANGED prior
  /\ UNCHANGED <<rows, image, file, broken, disturbed>>

\* restore_with_safety copies the database ...
SafetyCopy(r) == Goes(r, "safety", "replace") /\ Copies(r)

InMidst == {a \in Actors : stage[a] \notin {"idle", "over"}}

\* ... truncates it; until the copy is there every other call raises ...
Truncate(r) ==
  /\ Goes(r, "replace", "copy")
  /\ db' = None
  /\ sealed' = [v \in Versions |-> None]
  /\ disturbed' = disturbed \cup (InMidst \ {r})
  /\ UNCHANGED <<about, image, copies, saved, broken>>

\* ... and copies the backup over it; two that do so at once may leave a mixture.
CopyBack(r) ==
  /\ Goes(r, "copy", IF r \in Consoles THEN "record" ELSE "over")
  /\ db' \in {file[about[r]]} \cup (IF r \in disturbed THEN {None} ELSE {})
  /\ sealed' = [v \in Versions |-> None]
  /\ disturbed' = disturbed \cup (InMidst \ {r})
  /\ UNCHANGED <<about, image, copies, saved, broken>>

\* Mutant: the decisions it has read are forgotten.
RecordOwnDecision(r) ==
  /\ Goes(r, "record", "over")
  /\ Writes([db EXCEPT !.log = @ \cup {<<r, about[r]>>}])
  /\ UNCHANGED <<about, image, copies, saved, sealed, broken>>

\* The API records the decisions it has read again, and its own.
RecordDecisions(r) ==
  /\ Goes(r, "record", "over")
  /\ Writes([db EXCEPT !.log = @ \cup prior[r] \cup {<<r, about[r]>>}])
  /\ UNCHANGED <<about, image, copies, saved, sealed, broken>>

\* The process dies, or the store raises.
Break(a) ==
  /\ a \in InMidst /\ Cardinality(broken) < MaxBreaks
  /\ stage' = [stage EXCEPT ![a] = "over"]
  /\ broken' = broken \cup {a}
  /\ UNCHANGED <<about, rows, image, copies, disturbed>>

-----------------------------------------------------------------------------
Next ==
  \/ \E v \in Versions : SaveVersion(v)
  \/ \E u \in Updates : LoadVersion(u) \/ CheckLock(u) \/ ReplaceVersion(u)
  \/ \E l \in Lockers : FindVersion(l) \/ LockVersion(l)
  \/ \E c \in Creations : FindBase(c) \/ DeactivateForScenario(c) \/ InsertBranch(c)
  \/ \E b \in Backups : StartBackup(b) \/ EndBackup(b)
  \/ \E r \in Restores :
       RefuseRestore(r) \/ FindBackup(r) \/ SafetyCopy(r) \/ Truncate(r) \/ CopyBack(r) \/ RecordDecisions(r)
  \/ \E a \in Actors : Break(a)

Spec == Init /\ [][Next]_vars

-----------------------------------------------------------------------------
(* Properties *)

\* A version that was locked while no update had passed its look at the lock
\* stays locked, with that configuration, until the database is replaced.
LockedIsImmutable ==
  \A v \in Versions : sealed[v] # None =>
    Stored(v) /\ db.version[v] = [config |-> sealed[v], locked |-> TRUE]

\* A branch created in peace has a stored base; two branches are active only
\* if one of them was disturbed; and if there are branches one is active, unless
\* a creation is about to insert one, broke off or was disturbed.
BranchesAreSound ==
  db # None =>
    LET branches == {c \in Creations : db.branch[c] # None}
        active == {c \in branches : db.branch[c].active}
    IN /\ \A c \in branches \ disturbed : Stored(db.branch[c].base)
       /\ \A c, d \in active : c # d => {c, d} \cap disturbed # {}
       /\ branches # {} /\ active = {} =>
            \E c \in Creations : stage[c] = "insert" \/ c \in broken \cup disturbed

\* Whatever a restore replaces is in the database or in a file: a committed
\* version is lost only if a restore or a backup was disturbed.  And an API
\* restore leaves the decisions it has read in the log, those of requests that were
\* refused, and its own, as long as no other replaces the database.  What a request
\* records between its look at the log and the restore is not kept.
RestoreKeepsHistory ==
  /\ Restores \cap disturbed = {} =>
       \A v \in saved :
         Stored(v) \/ \E f \in Files : file[f] # None /\ file[f].version[v] # None
  /\ \A r \in Consoles :
       (/\ stage[r] = "over" /\ about[r] # None /\ r \notin broken
        /\ \A q \in Restores \ {r} : about[q] = None)
         => prior[r] \cup {<<r, about[r]>>} \subseteq db.log
=============================================================================
