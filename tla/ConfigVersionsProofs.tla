------------------------ MODULE ConfigVersionsProofs ------------------------
(* Theorems about ConfigVersions, for any versions and any calls. *)
EXTENDS ConfigVersions, TLAPS

-----------------------------------------------------------------------------
(* The inductive invariant, part by part *)

\* How far calls of each kind come, and what they know by then.
CallsInv ==
  /\ \A u \in Updates :
       /\ stage[u] \in {"idle", "check", "write", "over"}
       /\ stage[u] \in {"check", "write"} => about[u] \in saved /\ image[u] # None
  /\ \A l \in Lockers :
       /\ stage[l] \in {"idle", "write", "over"}
       /\ stage[l] = "write" => about[l] \in Versions
  /\ \A c \in Creations :
       /\ stage[c] \in {"idle", "clear", "insert", "over"}
       /\ stage[c] \in {"clear", "insert"} => about[c] \in Versions
  /\ \A b \in Backups :
       /\ stage[b] \in {"idle", "copy", "over"}
       /\ stage[b] # "over" => file[b] = None
  /\ \A r \in Restores :
       /\ stage[r] \in {"idle", "safety", "replace", "copy", "record", "over"}
       /\ stage[r] \in {"safety", "replace", "copy", "record"} => about[r] \in Files
       /\ stage[r] = "idle" => about[r] = None
       /\ stage[r] = "record" => r \in Consoles
       /\ stage[r] \in {"idle", "safety"} => file[r] = None

\* A database or a file has no version that was never committed.
Has(d, v) == d # None /\ d.version[v] # None
SavedInv ==
  \A v \in Versions : Has(db, v) \/ (\E f \in Files : Has(file[f], v)) => v \in saved

\* No update that has passed its look at the lock is about a sealed version.
SealedInv == \A u \in Updates : stage[u] = "write" => sealed[about[u]] = None

Active(d, c) == d.branch[c] # None /\ d.branch[c].active
Resting(d) ==
  /\ \E c \in Creations : d.branch[c] # None
  /\ \A c \in Creations : ~Active(d, c)
Troubled == \E c \in Creations : c \in broken \cup disturbed
\* What BranchesAreSound says of the database, for its copies too.
Sound(d) ==
  /\ \A c \in Creations \ disturbed : d.branch[c] # None => d.version[d.branch[c].base] # None
  /\ \A c, e \in Creations \ disturbed : Active(d, c) /\ Active(d, e) => c = e

\* Every copy is sound by itself, whatever comes after it ...
DatabaseSound ==
  db # None =>
    /\ Sound(db)
    /\ Resting(db) => Troubled \/ \E c \in Creations : stage[c] = "insert"
FilesSound ==
  \A f \in Files : file[f] # None =>
    /\ Sound(file[f])
    /\ Resting(file[f]) => Troubled
\* ... and a creation that nobody disturbs has its base, and once it has
\* deactivated the branches none is active.
CreationsReady ==
  \A c \in Creations \ disturbed :
    /\ stage[c] \in {"clear", "insert"} => Stored(about[c])
    /\ stage[c] = "insert" => \A e \in Creations : ~Active(db, e)
BranchesInv == DatabaseSound /\ FilesSound /\ CreationsReady

\* A restore that nobody disturbs has a copy of the database when it is about to
\* replace it, and finds none there when it copies the backup.
CopiesInv ==
  \A r \in Restores \ disturbed :
    /\ stage[r] = "replace" => file[r] = db
    /\ stage[r] = "copy" => db = None
\* The two parts of RestoreKeepsHistory.
VersionsKept ==
  Restores \cap disturbed = {} => \A v \in saved : Has(db, v) \/ \E f \in Files : Has(file[f], v)
DecisionsKept ==
  \A r \in Consoles \ broken :
    (stage[r] = "over" /\ about[r] # None /\ \A q \in Restores \ {r} : about[q] = None)
      => prior[r] \cup {<<r, about[r]>>} \subseteq db.log
RestoresInv == CopiesInv /\ VersionsKept /\ DecisionsKept

\* The parts rest on one another, and only together on what a step finds.
Inv == TypeOK /\ CallsInv /\ SavedInv /\ SealedInv /\ LockedIsImmutable /\ BranchesInv /\ RestoresInv

-----------------------------------------------------------------------------
(* Lemmas about the constants *)

\* A call is of one kind; nothing that is stored is None.
LEMMA Kinds ==
  /\ \A u \in Updates : u \in Actors \ (Lockers \cup Creations \cup Backups \cup Restores)
  /\ \A l \in Lockers : l \in Actors \ (Updates \cup Creations \cup Backups \cup Restores)
  /\ \A c \in Creations : c \in Actors \ (Updates \cup Lockers \cup Backups \cup Restores)
  /\ \A b \in Backups : b \in Files /\ b \in Actors \ (Updates \cup Lockers \cup Creations \cup Restores)
  /\ \A r \in Restores : r \in Files /\ r \in Actors \ (Updates \cup Lockers \cup Creations \cup Backups)
  /\ Consoles \subseteq Restores
BY ConfigAssumption DEF Actors, Files

LEMMA NothingIsNone ==
  /\ None \notin Versions /\ None \notin Actors /\ None \notin Files
  /\ None \notin VersionRow /\ None \notin BranchRow /\ None \notin Database
BY ConfigAssumption DEF Actors, Files

\* What the parts of a database are.
LEMMA Parts ==
  ASSUME NEW d \in Database
  PROVE  /\ d # None
         /\ d.version \in [Versions -> VersionRow \cup {None}]
         /\ d.branch \in [Creations -> BranchRow \cup {None}]
         /\ d.log \subseteq Consoles \X Files
BY NothingIsNone DEF Database

\* Changing a column of a row.
LEMMA LockedRow ==
  ASSUME NEW x \in VersionRow, NEW locked \in BOOLEAN
  PROVE  /\ [x EXCEPT !.locked = locked] = [config |-> x.config, locked |-> locked]
         /\ [x EXCEPT !.locked = locked] \in VersionRow
         /\ x.config \in Versions \cup Updates
BY DEF VersionRow

LEMMA InactiveRow ==
  ASSUME NEW x \in BranchRow
  PROVE  LET y == [x EXCEPT !.active = FALSE]
         IN  y \in BranchRow /\ y.base = x.base /\ ~y.active
BY DEF BranchRow

\* Replacing a part of a database.
LEMMA Replaced ==
  ASSUME NEW d \in Database
  PROVE  /\ \A x \in [Versions -> VersionRow \cup {None}] :
              LET e == [d EXCEPT !.version = x]
              IN  e \in Database /\ e.version = x /\ e.branch = d.branch /\ e.log = d.log
         /\ \A x \in [Creations -> BranchRow \cup {None}] :
              LET e == [d EXCEPT !.branch = x]
              IN  e \in Database /\ e.version = d.version /\ e.branch = x /\ e.log = d.log
         /\ \A x \in SUBSET (Consoles \X Files) :
              LET e == [d EXCEPT !.log = x]
              IN  e \in Database /\ e.version = d.version /\ e.branch = d.branch /\ e.log = x
BY NothingIsNone DEF Database

-----------------------------------------------------------------------------
(* What the calls that write leave in the database *)

LEMMA SaveWrites ==
  ASSUME TypeOK, NEW v \in Versions, SaveVersion(v)
  PROVE  /\ db \in Database \ {None} /\ db' \in Database \ {None}
         /\ [config |-> v, locked |-> FALSE] # None
         /\ \A x \in Versions :
              db'.version[x] = IF x = v THEN [config |-> v, locked |-> FALSE] ELSE db.version[x]
         /\ db'.branch = db.branch /\ db'.log = db.log
<1> DEFINE row == [config |-> v, locked |-> FALSE]
<1>1. row \in VersionRow
  BY DEF VersionRow
<1>2. db \in Database /\ db' = [db EXCEPT !.version = [db.version EXCEPT ![v] = row]]
  BY DEF TypeOK, SaveVersion, Writes
<1> HIDE DEF row
<1>3. [db.version EXCEPT ![v] = row] \in [Versions -> VersionRow \cup {None}]
  BY <1>1, <1>2, Parts
<1>4. /\ db' \in Database /\ db'.version = [db.version EXCEPT ![v] = row]
      /\ db'.branch = db.branch /\ db'.log = db.log
  BY <1>2, <1>3, Replaced
<1> QED
  BY <1>1, <1>2, <1>4, Parts, NothingIsNone DEF row

LEMMA ReplaceWrites ==
  ASSUME TypeOK, CallsInv, NEW u \in Updates, ReplaceVersion(u)
  PROVE  /\ db \in Database \ {None} /\ db' \in Database \ {None}
         /\ about[u] \in saved /\ image[u] \in VersionRow \ {None}
         /\ \A x \in Versions : db'.version[x] = IF x = about[u] THEN image[u] ELSE db.version[x]
         /\ db'.branch = db.branch /\ db'.log = db.log
<1>1. about[u] \in saved /\ image[u] \in VersionRow
  BY DEF TypeOK, CallsInv, ReplaceVersion, Goes
<1>2. db \in Database /\ db' = [db EXCEPT !.version = [db.version EXCEPT ![about[u]] = image[u]]]
  BY DEF TypeOK, ReplaceVersion, Writes
<1>3. [db.version EXCEPT ![about[u]] = image[u]] \in [Versions -> VersionRow \cup {None}]
  BY <1>1, <1>2, Parts
<1>4. /\ db' \in Database /\ db'.version = [db.version EXCEPT ![about[u]] = image[u]]
      /\ db'.branch = db.branch /\ db'.log = db.log
  BY <1>2, <1>3, Replaced
<1> QED
  BY <1>1, <1>2, <1>4, Parts, NothingIsNone DEF TypeOK

LEMMA LockWrites ==
  ASSUME TypeOK, CallsInv, NEW l \in Lockers, LockVersion(l), Stored(about[l])
  PROVE  LET v == about[l] IN
         /\ db \in Database \ {None} /\ db' \in Database \ {None}
         /\ v \in Versions /\ db.version[v].config \in Versions \cup Updates
         /\ \A x \in Versions :
              db'.version[x] = IF x = v THEN [config |-> db.version[v].config, locked |-> TRUE]
                                        ELSE db.version[x]
         /\ [config |-> db.version[v].config, locked |-> TRUE] # None
         /\ db'.branch = db.branch /\ db'.log = db.log
<1> DEFINE v == about[l]
           row == [db.version[v] EXCEPT !.locked = TRUE]
<1>1. v \in Versions /\ db \in Database /\ Writes([db EXCEPT !.version[v].locked = TRUE])
  BY DEF TypeOK, CallsInv, LockVersion, Goes, Writes
<1>2. db.version[v] \in VersionRow
  BY <1>1, Parts DEF Stored
<1>3. /\ row = [config |-> db.version[v].config, locked |-> TRUE]
      /\ row \in VersionRow /\ db.version[v].config \in Versions \cup Updates
  BY <1>2, LockedRow
<1>4. db' = [db EXCEPT !.version = [db.version EXCEPT ![v] = row]]
  BY <1>1 DEF Writes
<1> HIDE DEF row
<1>5. [db.version EXCEPT ![v] = row] \in [Versions -> VersionRow \cup {None}]
  BY <1>1, <1>3, Parts
<1>6. /\ db' \in Database /\ db'.version = [db.version EXCEPT ![v] = row]
      /\ db'.branch = db.branch /\ db'.log = db.log
  BY <1>1, <1>4, <1>5, Replaced
<1> QED
  BY <1>1, <1>3, <1>6, Parts, NothingIsNone

LEMMA DeactivateWrites ==
  ASSUME TypeOK, NEW c \in Creations, DeactivateForScenario(c)
  PROVE  /\ db \in Database \ {None} /\ db' \in Database \ {None}
         /\ db'.version = db.version /\ db'.log = db.log
         /\ \A e \in Creations :
              /\ db'.branch[e] # None <=> db.branch[e] # None
              /\ db'.branch[e] # None => db'.branch[e].base = db.branch[e].base /\ ~db'.branch[e].active
<1>1. db \in Database
  BY DEF TypeOK, DeactivateForScenario, Writes
<1>2. ASSUME NEW e \in Creations, db.branch[e] # None
      PROVE  LET y == [db.branch[e] EXCEPT !.active = FALSE]
             IN  y \in BranchRow /\ y.base = db.branch[e].base /\ ~y.active
  <2>1. db.branch[e] \in BranchRow
    BY <1>1, <1>2, Parts
  <2> QED
    BY <2>1, InactiveRow
<1>3. Deactivated(db.branch) \in [Creations -> BranchRow \cup {None}]
  BY <1>2 DEF Deactivated
<1>4. db' = [db EXCEPT !.branch = Deactivated(db.branch)]
  BY DEF DeactivateForScenario, Writes
<1>5. /\ db' \in Database /\ db'.branch = Deactivated(db.branch)
      /\ db'.version = db.version /\ db'.log = db.log
  BY <1>1, <1>3, <1>4, Replaced
<1>6. ASSUME NEW e \in Creations
      PROVE  /\ Deactivated(db.branch)[e] # None <=> db.branch[e] # None
             /\ Deactivated(db.branch)[e] # None =>
                  Deactivated(db.branch)[e].base = db.branch[e].base /\ ~Deactivated(db.branch)[e].active
  <2>1. CASE db.branch[e] = None
    BY <2>1 DEF Deactivated
  <2>2. CASE db.branch[e] # None
    <3>1. Deactivated(db.branch)[e] = [db.branch[e] EXCEPT !.active = FALSE]
      BY <2>2 DEF Deactivated
    <3> QED
      BY <1>2, <2>2, <3>1, NothingIsNone
  <2> QED
    BY <2>1, <2>2
<1> QED
  BY <1>1, <1>5, <1>6, NothingIsNone

LEMMA InsertWrites ==
  ASSUME TypeOK, CallsInv, NEW c \in Creations, InsertBranch(c)
  PROVE  /\ db \in Database \ {None} /\ db' \in Database \ {None}
         /\ about[c] \in Versions
         /\ db'.branch[c] # None /\ db'.branch[c].base = about[c] /\ db'.branch[c].active
         /\ \A e \in Creations \ {c} : db'.branch[e] = db.branch[e]
         /\ db'.version = db.version /\ db'.log = db.log
<1> DEFINE row == [base |-> about[c], active |-> TRUE]
<1>1. about[c] \in Versions /\ row \in BranchRow
  BY DEF CallsInv, InsertBranch, Goes, BranchRow
<1>2. db \in Database /\ db' = [db EXCEPT !.branch = [db.branch EXCEPT ![c] = row]]
  BY DEF TypeOK, InsertBranch
<1>3. row.base = about[c] /\ row.active /\ row # None
  BY <1>1, NothingIsNone
<1> HIDE DEF row
<1>4. [db.branch EXCEPT ![c] = row] \in [Creations -> BranchRow \cup {None}]
  BY <1>1, <1>2, Parts
<1>5. /\ db' \in Database /\ db'.branch = [db.branch EXCEPT ![c] = row]
      /\ db'.version = db.version /\ db'.log = db.log
  BY <1>2, <1>4, Replaced
<1>6. db'.branch[c] = row /\ \A e \in Creations \ {c} : db'.branch[e] = db.branch[e]
  BY <1>2, <1>5, Parts
<1> QED
  BY <1>1, <1>2, <1>3, <1>5, <1>6, NothingIsNone

LEMMA RefuseWrites ==
  ASSUME TypeOK, NEW r \in Restores, RefuseRestore(r)
  PROVE  /\ db \in Database \ {None} /\ db' \in Database \ {None}
         /\ db'.version = db.version /\ db'.branch = db.branch
         /\ db.log \subseteq db'.log
<1>1. PICK f \in Files : Writes([db EXCEPT !.log = @ \cup {<<r, f>>}])
  BY DEF RefuseRestore
<1> DEFINE log == db.log \cup {<<r, f>>}
<1>2. db \in Database /\ db' = [db EXCEPT !.log = log]
  BY <1>1 DEF TypeOK, Writes
<1>3. log \in SUBSET (Consoles \X Files)
  BY <1>2, Parts DEF RefuseRestore
<1> HIDE DEF log
<1>4. /\ db' \in Database /\ db'.log = log
      /\ db'.version = db.version /\ db'.branch = db.branch
  BY <1>2, <1>3, Replaced
<1> QED
  BY <1>2, <1>4, NothingIsNone DEF log

LEMMA RecordWrites ==
  ASSUME TypeOK, CallsInv, NEW r \in Restores, RecordDecisions(r)
  PROVE  /\ db \in Database \ {None} /\ db' \in Database \ {None}
         /\ db'.version = db.version /\ db'.branch = db.branch
         /\ db'.log = db.log \cup prior[r] \cup {<<r, about[r]>>}
<1> DEFINE log == db.log \cup prior[r] \cup {<<r, about[r]>>}
<1>1. about[r] \in Files /\ r \in Consoles
  BY DEF CallsInv, RecordDecisions, Goes
<1>2. db \in Database /\ db' = [db EXCEPT !.log = log]
  BY DEF TypeOK, RecordDecisions, Writes
<1>3. prior[r] \subseteq Consoles \X Files
  BY DEF TypeOK
<1>4. log \in SUBSET (Consoles \X Files)
  BY <1>1, <1>2, <1>3, Parts
<1> HIDE DEF log
<1>5. /\ db' \in Database /\ db'.log = log
      /\ db'.version = db.version /\ db'.branch = db.branch
  BY <1>2, <1>4, Replaced
<1> QED
  BY <1>2, <1>5, NothingIsNone DEF log

-----------------------------------------------------------------------------
(* Types *)

LEMMA TypeStep ==
  ASSUME TypeOK, CallsInv, [Next]_vars
  PROVE  TypeOK'
<1> USE Kinds, NothingIsNone
<1>1. ASSUME NEW v \in Versions, SaveVersion(v)
      PROVE  TypeOK'
  BY <1>1, SaveWrites DEF TypeOK, SaveVersion, Writes, Copying, copies, Files, Actors
<1>2. ASSUME NEW u \in Updates, LoadVersion(u)
      PROVE  TypeOK'
  <2>1. PICK v \in Versions :
          /\ Stored(v)
          /\ about' = [about EXCEPT ![u] = v]
          /\ image' = [image EXCEPT ![u] = [db.version[v] EXCEPT !.config = u]]
    BY <1>2 DEF LoadVersion
  <2>2. [db.version[v] EXCEPT !.config = u] \in VersionRow
    BY <2>1, Parts DEF TypeOK, Stored, VersionRow
  <2> QED
    BY <1>2, <2>1, <2>2 DEF TypeOK, LoadVersion, Goes, copies, rows
<1>3. ASSUME NEW u \in Updates, CheckLock(u)
      PROVE  TypeOK'
  BY <1>3 DEF TypeOK, CheckLock, Goes, copies, rows
<1>4. ASSUME NEW u \in Updates, ReplaceVersion(u)
      PROVE  TypeOK'
  BY <1>4, ReplaceWrites DEF TypeOK, ReplaceVersion, Goes, Writes, Copying, copies, Files, Actors
<1>5. ASSUME NEW l \in Lockers, FindVersion(l)
      PROVE  TypeOK'
  BY <1>5 DEF TypeOK, FindVersion, Goes, copies, rows
<1>6. ASSUME NEW l \in Lockers, LockVersion(l)
      PROVE  TypeOK'
  <2>1. CASE Stored(about[l])
    <3>1. db' \in Database /\ sealed' \in [Versions -> Versions \cup Updates \cup {None}]
      <4>1. \/ sealed' = [sealed EXCEPT ![about[l]] = db.version[about[l]].config]
            \/ sealed' = sealed
        BY <1>6, <2>1 DEF LockVersion
      <4> QED
        BY <1>6, <2>1, <4>1, LockWrites DEF TypeOK
    <3>2. disturbed' \subseteq Actors
      BY <1>6, <2>1 DEF TypeOK, LockVersion, Writes, Copying, Files, Actors
    <3> QED
      BY <1>6, <2>1, <3>1, <3>2 DEF TypeOK, LockVersion, Goes, copies
  <2>2. CASE ~Stored(about[l])
    BY <1>6, <2>2 DEF TypeOK, LockVersion, Goes, Writes, Copying, copies, Files, Actors
  <2> QED
    BY <2>1, <2>2
<1>7. ASSUME NEW c \in Creations, FindBase(c)
      PROVE  TypeOK'
  BY <1>7 DEF TypeOK, FindBase, Goes, copies, rows
<1>8. ASSUME NEW c \in Creations, DeactivateForScenario(c)
      PROVE  TypeOK'
  BY <1>8, DeactivateWrites
  DEF TypeOK, DeactivateForScenario, Goes, Writes, Copying, copies, Files, Actors
<1>9. ASSUME NEW c \in Creations, InsertBranch(c)
      PROVE  TypeOK'
  BY <1>9, InsertWrites DEF TypeOK, InsertBranch, Goes, Copying, copies, Files, Actors
<1>10. ASSUME NEW b \in Backups, StartBackup(b)
       PROVE  TypeOK'
  BY <1>10 DEF TypeOK, StartBackup, Goes, copies, rows
<1>11. ASSUME NEW b \in Backups, EndBackup(b)
       PROVE  TypeOK'
  BY <1>11 DEF TypeOK, EndBackup, Goes, Copies, rows
<1>12. ASSUME NEW r \in Restores, RefuseRestore(r)
       PROVE  TypeOK'
  BY <1>12, RefuseWrites DEF TypeOK, RefuseRestore, Goes, Writes, Copying, copies, Files, Actors
<1>13. ASSUME NEW r \in Restores, FindBackup(r)
       PROVE  TypeOK'
  <2>1. PICK f \in Listed :
          /\ about' = [about EXCEPT ![r] = f]
          /\ IF r \in Consoles
               THEN db # None /\ prior' = [prior EXCEPT ![r] = {d \in db.log : d[2] = f}]
               ELSE UNCHANGED prior
    BY <1>13 DEF FindBackup
  <2>2. f \in Files
    BY DEF Listed, Files
  <2>3. prior' \in [Restores -> SUBSET (Consoles \X Files)]
    <3>1. CASE r \in Consoles
      <4>1. db.log \subseteq Consoles \X Files
        BY <2>1, <3>1, Parts DEF TypeOK
      <4>2. {d \in db.log : d[2] = f} \in SUBSET (Consoles \X Files)
        BY <4>1
      <4> QED
        BY <2>1, <3>1, <4>2 DEF TypeOK
    <3> QED
      BY <2>1, <3>1 DEF TypeOK
  <2> QED
    BY <1>13, <2>1, <2>2, <2>3 DEF TypeOK, FindBackup, Goes, rows
<1>14. ASSUME NEW r \in Restores, SafetyCopy(r)
       PROVE  TypeOK'
  BY <1>14 DEF TypeOK, SafetyCopy, Goes, Copies, rows
<1>15. ASSUME NEW r \in Restores, Truncate(r)
       PROVE  TypeOK'
  BY <1>15 DEF TypeOK, Truncate, Goes, InMidst, copies
<1>16. ASSUME NEW r \in Restores, CopyBack(r)
       PROVE  TypeOK'
  <2>1. about[r] \in Files
    BY <1>16 DEF CallsInv, CopyBack, Goes
  <2>2. db' \in Database \cup {None}
    BY <1>16, <2>1 DEF TypeOK, CopyBack
  <2> QED
    BY <1>16, <2>2 DEF TypeOK, CopyBack, Goes, InMidst, copies
<1>17. ASSUME NEW r \in Restores, RecordDecisions(r)
       PROVE  TypeOK'
  BY <1>17, RecordWrites DEF TypeOK, RecordDecisions, Goes, Writes, Copying, copies, Files, Actors
<1>18. ASSUME NEW a \in Actors, Break(a)
       PROVE  TypeOK'
  BY <1>18 DEF TypeOK, Break, copies, rows
<1>19. CASE UNCHANGED vars
  BY <1>19 DEF TypeOK, vars
<1> QED
  BY <1>1, <1>2, <1>3, <1>4, <1>5, <1>6, <1>7, <1>8, <1>9, <1>10, <1>11, <1>12,
     <1>13, <1>14, <1>15, <1>16, <1>17, <1>18, <1>19 DEF Next

-----------------------------------------------------------------------------
(* How far the calls come *)

LEMMA CallsStep ==
  ASSUME TypeOK, CallsInv, SavedInv, [Next]_vars
  PROVE  CallsInv'
<1> USE Kinds, NothingIsNone DEF TypeOK
<1>1. ASSUME NEW v \in Versions, SaveVersion(v)
      PROVE  CallsInv'
  BY <1>1 DEF CallsInv, SaveVersion, Writes, copies
<1>2. ASSUME NEW u \in Updates, LoadVersion(u)
      PROVE  CallsInv'
  <2>1. PICK v \in Versions :
          /\ Stored(v)
          /\ about' = [about EXCEPT ![u] = v]
          /\ image' = [image EXCEPT ![u] = [db.version[v] EXCEPT !.config = u]]
    BY <1>2 DEF LoadVersion
  <2>2. v \in saved /\ [db.version[v] EXCEPT !.config = u] \in VersionRow
    BY <2>1, Parts DEF Stored, SavedInv, Has, VersionRow
  <2> QED
    BY <1>2, <2>1, <2>2 DEF CallsInv, LoadVersion, Goes, rows, copies
<1>3. ASSUME NEW u \in Updates, CheckLock(u)
      PROVE  CallsInv'
  BY <1>3 DEF CallsInv, CheckLock, Goes, rows, copies
<1>4. ASSUME NEW u \in Updates, ReplaceVersion(u)
      PROVE  CallsInv'
  BY <1>4 DEF CallsInv, ReplaceVersion, Goes, Writes, copies
<1>5. ASSUME NEW l \in Lockers, FindVersion(l)
      PROVE  CallsInv'
  BY <1>5 DEF CallsInv, FindVersion, Goes, rows, copies
<1>6. ASSUME NEW l \in Lockers, LockVersion(l)
      PROVE  CallsInv'
  BY <1>6 DEF CallsInv, LockVersion, Goes, Writes, copies
<1>7. ASSUME NEW c \in Creations, FindBase(c)
      PROVE  CallsInv'
  BY <1>7 DEF CallsInv, FindBase, Goes, rows, copies
<1>8. ASSUME NEW c \in Creations, DeactivateForScenario(c)
      PROVE  CallsInv'
  BY <1>8 DEF CallsInv, DeactivateForScenario, Goes, Writes, copies
<1>9. ASSUME NEW c \in Creations, InsertBranch(c)
      PROVE  CallsInv'
  BY <1>9 DEF CallsInv, InsertBranch, Goes, copies
<1>10. ASSUME NEW b \in Backups, StartBackup(b)
       PROVE  CallsInv'
  BY <1>10 DEF CallsInv, StartBackup, Goes, rows, copies
<1>11. ASSUME NEW b \in Backups, EndBackup(b)
       PROVE  CallsInv'
  BY <1>11 DEF CallsInv, EndBackup, Goes, Copies, rows
<1>12. ASSUME NEW r \in Restores, RefuseRestore(r)
       PROVE  CallsInv'
  BY <1>12 DEF CallsInv, RefuseRestore, Goes, Writes, copies
<1>13. ASSUME NEW r \in Restores, FindBackup(r)
       PROVE  CallsInv'
  <2>1. PICK f \in Files : about' = [about EXCEPT ![r] = f]
    BY <1>13 DEF FindBackup, Listed, Files
  <2> QED
    BY <1>13, <2>1 DEF CallsInv, FindBackup, Goes, rows
<1>14. ASSUME NEW r \in Restores, SafetyCopy(r)
       PROVE  CallsInv'
  BY <1>14 DEF CallsInv, SafetyCopy, Goes, Copies, rows
<1>15. ASSUME NEW r \in Restores, Truncate(r)
       PROVE  CallsInv'
  BY <1>15 DEF CallsInv, Truncate, Goes, copies
<1>16. ASSUME NEW r \in Restores, CopyBack(r)
       PROVE  CallsInv'
  BY <1>16 DEF CallsInv, CopyBack, Goes, copies
<1>17. ASSUME NEW r \in Restores, RecordDecisions(r)
       PROVE  CallsInv'
  BY <1>17 DEF CallsInv, RecordDecisions, Goes, Writes, copies
<1>18. ASSUME NEW a \in Actors, Break(a)
       PROVE  CallsInv'
  BY <1>18 DEF CallsInv, Break, rows, copies
<1>19. CASE UNCHANGED vars
  BY <1>19 DEF CallsInv, vars
<1> QED
  BY <1>1, <1>2, <1>3, <1>4, <1>5, <1>6, <1>7, <1>8, <1>9, <1>10, <1>11, <1>12,
     <1>13, <1>14, <1>15, <1>16, <1>17, <1>18, <1>19 DEF Next

-----------------------------------------------------------------------------
(* What is stored was committed *)

LEMMA SavedStep ==
  ASSUME TypeOK, CallsInv, SavedInv, [Next]_vars
  PROVE  SavedInv'
<1> USE Kinds, NothingIsNone DEF Has, TypeOK
<1>1. ASSUME NEW v \in Versions, SaveVersion(v)
      PROVE  SavedInv'
  <2>1. file' = file /\ saved' = saved \cup {v}
    BY <1>1 DEF SaveVersion, copies
  <2> QED
    BY <1>1, <2>1, SaveWrites, Parts DEF SavedInv
<1>2. ASSUME NEW u \in Updates, LoadVersion(u)
      PROVE  SavedInv'
  BY <1>2 DEF SavedInv, LoadVersion, Goes, rows, copies
<1>3. ASSUME NEW u \in Updates, CheckLock(u)
      PROVE  SavedInv'
  BY <1>3 DEF SavedInv, CheckLock, Goes, rows, copies
<1>4. ASSUME NEW u \in Updates, ReplaceVersion(u)
      PROVE  SavedInv'
  <2>1. file' = file /\ saved' = saved
    BY <1>4 DEF ReplaceVersion, Goes, Writes, copies
  <2> QED
    BY <1>4, <2>1, ReplaceWrites, Parts DEF SavedInv
<1>5. ASSUME NEW l \in Lockers, FindVersion(l)
      PROVE  SavedInv'
  BY <1>5 DEF SavedInv, FindVersion, Goes, rows, copies
<1>6. ASSUME NEW l \in Lockers, LockVersion(l)
      PROVE  SavedInv'
  <2>1. file' = file /\ saved' = saved
    BY <1>6 DEF LockVersion, copies
  <2>2. CASE Stored(about[l])
    BY <1>6, <2>1, <2>2, LockWrites, Parts DEF SavedInv, Stored
  <2>3. CASE ~Stored(about[l])
    BY <1>6, <2>1, <2>3 DEF SavedInv, LockVersion, Writes
  <2> QED
    BY <2>2, <2>3
<1>7. ASSUME NEW c \in Creations, FindBase(c)
      PROVE  SavedInv'
  BY <1>7 DEF SavedInv, FindBase, Goes, rows, copies
<1>8. ASSUME NEW c \in Creations, DeactivateForScenario(c)
      PROVE  SavedInv'
  <2>1. file' = file /\ saved' = saved
    BY <1>8 DEF DeactivateForScenario, Goes, Writes, copies
  <2> QED
    BY <1>8, <2>1, DeactivateWrites DEF SavedInv
<1>9. ASSUME NEW c \in Creations, InsertBranch(c)
      PROVE  SavedInv'
  <2>1. file' = file /\ saved' = saved
    BY <1>9 DEF InsertBranch, Goes, Writes, copies
  <2> QED
    BY <1>9, <2>1, InsertWrites DEF SavedInv
<1>10. ASSUME NEW b \in Backups, StartBackup(b)
       PROVE  SavedInv'
  BY <1>10 DEF SavedInv, StartBackup, Goes, rows, copies
<1>11. ASSUME NEW b \in Backups, EndBackup(b)
       PROVE  SavedInv'
  BY <1>11 DEF SavedInv, EndBackup, Goes, Copies, rows
<1>12. ASSUME NEW r \in Restores, RefuseRestore(r)
       PROVE  SavedInv'
  <2>1. file' = file /\ saved' = saved
    BY <1>12 DEF RefuseRestore, Goes, Writes, copies
  <2> QED
    BY <1>12, <2>1, RefuseWrites DEF SavedInv
<1>13. ASSUME NEW r \in Restores, FindBackup(r)
       PROVE  SavedInv'
  BY <1>13 DEF SavedInv, FindBackup, Goes, rows
<1>14. ASSUME NEW r \in Restores, SafetyCopy(r)
       PROVE  SavedInv'
  BY <1>14 DEF SavedInv, SafetyCopy, Goes, Copies, rows
<1>15. ASSUME NEW r \in Restores, Truncate(r)
       PROVE  SavedInv'
  BY <1>15 DEF SavedInv, Truncate, Goes, copies
<1>16. ASSUME NEW r \in Restores, CopyBack(r)
       PROVE  SavedInv'
  <2>1. file' = file /\ saved' = saved
    BY <1>16 DEF CopyBack, copies
  <2>2. db' = file[about[r]] \/ db' = None
    BY <1>16 DEF CopyBack
  <2>3. about[r] \in Files
    BY <1>16 DEF CallsInv, CopyBack, Goes
  <2> QED
    BY <2>1, <2>2, <2>3 DEF SavedInv
<1>17. ASSUME NEW r \in Restores, RecordDecisions(r)
       PROVE  SavedInv'
  <2>1. file' = file /\ saved' = saved
    BY <1>17 DEF RecordDecisions, Goes, Writes, copies
  <2> QED
    BY <1>17, <2>1, RecordWrites DEF SavedInv
<1>18. ASSUME NEW a \in Actors, Break(a)
       PROVE  SavedInv'
  BY <1>18 DEF SavedInv, Break, rows, copies
<1>19. CASE UNCHANGED vars
  BY <1>19 DEF SavedInv, vars
<1> QED
  BY <1>1, <1>2, <1>3, <1>4, <1>5, <1>6, <1>7, <1>8, <1>9, <1>10, <1>11, <1>12,
     <1>13, <1>14, <1>15, <1>16, <1>17, <1>18, <1>19 DEF Next

-----------------------------------------------------------------------------
(* Sealed versions *)

LEMMA SealedStep ==
  ASSUME TypeOK, CallsInv, SavedInv, SealedInv, LockedIsImmutable, [Next]_vars
  PROVE  SealedInv' /\ LockedIsImmutable'
<1> DEFINE Goal == SealedInv' /\ LockedIsImmutable'
<1> USE Kinds, NothingIsNone DEF Stored
<1>1. ASSUME NEW v \in Versions, SaveVersion(v)
      PROVE  Goal
  <2>1. sealed' = sealed /\ stage' = stage /\ about' = about /\ v \notin saved
    BY <1>1 DEF SaveVersion
  <2>2. sealed[v] = None
    BY <1>1, <2>1 DEF SavedInv, LockedIsImmutable, Has
  <2>3. LockedIsImmutable'
    BY <1>1, <2>1, <2>2, SaveWrites DEF LockedIsImmutable
  <2>4. SealedInv'
    BY <2>1 DEF SealedInv
  <2> QED
    BY <2>3, <2>4
<1>2. ASSUME NEW u \in Updates, LoadVersion(u)
      PROVE  Goal
  <2>1. sealed' = sealed /\ db' = db
    BY <1>2 DEF LoadVersion, rows
  <2>2. \A q \in Updates : stage'[q] = "write" => stage[q] = "write" /\ about'[q] = about[q]
    BY <1>2 DEF TypeOK, LoadVersion, Goes
  <2> QED
    BY <2>1, <2>2 DEF SealedInv, LockedIsImmutable
<1>3. ASSUME NEW u \in Updates, CheckLock(u)
      PROVE  Goal
  <2>1. sealed' = sealed /\ db' = db /\ about' = about
    BY <1>3 DEF CheckLock, rows
  <2>2. \A q \in Updates : stage'[q] = "write" => stage[q] = "write" \/ q = u
    BY <1>3 DEF TypeOK, CheckLock, Goes
  <2>3. ASSUME stage'[u] = "write"
        PROVE  sealed[about[u]] = None
    <3>1. ~(Stored(about[u]) /\ db.version[about[u]].locked) /\ about[u] \in Versions
      <4>1. stage[u] = "check"
        BY <1>3 DEF CheckLock, Goes
      <4>2. stage'[u] = IF Stored(about[u]) /\ db.version[about[u]].locked THEN "over" ELSE "write"
        BY <1>3 DEF TypeOK, CheckLock, Goes
      <4>3. about[u] \in Versions
        BY <4>1 DEF TypeOK, CallsInv
      <4>4. ~(Stored(about[u]) /\ db.version[about[u]].locked)
        BY <4>2, <2>3
      <4> QED
        BY <4>3, <4>4
    <3>2. ASSUME sealed[about[u]] # None
          PROVE  Stored(about[u]) /\ db.version[about[u]].locked
      <4>1. Stored(about[u]) /\ db.version[about[u]] = [config |-> sealed[about[u]], locked |-> TRUE]
        BY <3>1, <3>2 DEF LockedIsImmutable
      <4> QED
        BY <4>1
    <3> QED
      BY <3>1, <3>2, Zenon
  <2> QED
    BY <2>1, <2>2, <2>3 DEF SealedInv, LockedIsImmutable
<1>4. ASSUME NEW u \in Updates, ReplaceVersion(u)
      PROVE  Goal
  <2>1. sealed' = sealed /\ about' = about /\ sealed[about[u]] = None
    BY <1>4 DEF ReplaceVersion, Goes, SealedInv
  <2>2. \A q \in Updates : stage'[q] = "write" => stage[q] = "write"
    BY <1>4 DEF TypeOK, ReplaceVersion, Goes
  <2>3. LockedIsImmutable'
    BY <1>4, <2>1, ReplaceWrites DEF LockedIsImmutable
  <2> QED
    BY <2>1, <2>2, <2>3 DEF SealedInv
<1>5. ASSUME NEW l \in Lockers, FindVersion(l)
      PROVE  Goal
  <2>1. sealed' = sealed /\ db' = db /\ \A q \in Updates : stage'[q] = stage[q] /\ about'[q] = about[q]
    BY <1>5 DEF TypeOK, FindVersion, Goes, rows
  <2> QED
    BY <2>1 DEF SealedInv, LockedIsImmutable
<1>6. ASSUME NEW l \in Lockers, LockVersion(l)
      PROVE  Goal
  <2>1. about' = about /\ \A q \in Updates : stage'[q] = stage[q]
    BY <1>6 DEF TypeOK, LockVersion, Goes
  <2>2. CASE Stored(about[l])
    <3> DEFINE v == about[l]
    <3>1. CASE \A u \in Updates : ~(stage[u] = "write" /\ about[u] = v)
      <4>1. v \in Versions /\ sealed' = [sealed EXCEPT ![v] = db.version[v].config]
        BY <1>6, <2>2, <3>1, LockWrites DEF LockVersion
      <4>2. \A x \in Versions : sealed'[x] = IF x = v THEN db.version[v].config ELSE sealed[x]
        BY <4>1 DEF TypeOK
      <4>3. LockedIsImmutable'
        <5>1. ASSUME NEW x \in Versions, sealed'[x] # None
              PROVE  db'.version[x] # None /\ db'.version[x] = [config |-> sealed'[x], locked |-> TRUE]
          <6>1. CASE x = v
            BY <1>6, <2>2, <4>2, <6>1, LockWrites
          <6>2. CASE x # v
            BY <1>6, <2>2, <4>2, <5>1, <6>2, LockWrites DEF LockedIsImmutable
          <6> QED
            BY <6>1, <6>2
        <5> QED
          BY <1>6, <2>2, <5>1, LockWrites DEF LockedIsImmutable
      <4>4. \A u \in Updates : stage[u] = "write" => about[u] \in Versions \ {v}
        BY <3>1 DEF CallsInv, TypeOK
      <4> QED
        BY <2>1, <4>2, <4>3, <4>4 DEF SealedInv
    <3>2. CASE ~ \A u \in Updates : ~(stage[u] = "write" /\ about[u] = v)
      <4>1. sealed' = sealed
        BY <1>6, <2>2, <3>2 DEF LockVersion
      <4>2. sealed[v] = None
        BY <3>2 DEF SealedInv
      <4>3. LockedIsImmutable'
        <5>1. ASSUME NEW x \in Versions, sealed[x] # None
              PROVE  x # v /\ db'.version[x] = db.version[x]
          BY <1>6, <2>2, <4>2, <5>1, LockWrites
        <5> QED
          BY <1>6, <2>2, <4>1, <5>1, LockWrites DEF LockedIsImmutable
      <4> QED
        BY <2>1, <4>1, <4>3 DEF SealedInv
    <3> QED
      BY <3>1, <3>2
  <2>3. CASE ~Stored(about[l])
    BY <1>6, <2>1, <2>3 DEF SealedInv, LockedIsImmutable, LockVersion, Writes
  <2> QED
    BY <2>2, <2>3
<1>7. ASSUME NEW c \in Creations, FindBase(c)
      PROVE  Goal
  <2>1. sealed' = sealed /\ db' = db /\ \A q \in Updates : stage'[q] = stage[q] /\ about'[q] = about[q]
    BY <1>7 DEF TypeOK, FindBase, Goes, rows
  <2> QED
    BY <2>1 DEF SealedInv, LockedIsImmutable
<1>8. ASSUME NEW c \in Creations, DeactivateForScenario(c)
      PROVE  Goal
  <2>1. sealed' = sealed /\ about' = about /\ \A q \in Updates : stage'[q] = stage[q]
    BY <1>8 DEF TypeOK, DeactivateForScenario, Goes
  <2> QED
    BY <1>8, <2>1, DeactivateWrites DEF SealedInv, LockedIsImmutable
<1>9. ASSUME NEW c \in Creations, InsertBranch(c)
      PROVE  Goal
  <2>1. sealed' = sealed /\ about' = about /\ \A q \in Updates : stage'[q] = stage[q]
    BY <1>9 DEF TypeOK, InsertBranch, Goes
  <2> QED
    BY <1>9, <2>1, InsertWrites DEF SealedInv, LockedIsImmutable
<1>10. ASSUME NEW b \in Backups, StartBackup(b)
       PROVE  Goal
  <2>1. sealed' = sealed /\ db' = db /\ \A q \in Updates : stage'[q] = stage[q] /\ about'[q] = about[q]
    BY <1>10 DEF TypeOK, StartBackup, Goes, rows
  <2> QED
    BY <2>1 DEF SealedInv, LockedIsImmutable
<1>11. ASSUME NEW b \in Backups, EndBackup(b)
       PROVE  Goal
  <2>1. sealed' = sealed /\ db' = db /\ \A q \in Updates : stage'[q] = stage[q] /\ about'[q] = about[q]
    BY <1>11 DEF TypeOK, EndBackup, Goes, Copies, rows
  <2> QED
    BY <2>1 DEF SealedInv, LockedIsImmutable
<1>12. ASSUME NEW r \in Restores, RefuseRestore(r)
       PROVE  Goal
  <2>1. sealed' = sealed /\ about' = about /\ \A q \in Updates : stage'[q] = stage[q]
    BY <1>12 DEF TypeOK, RefuseRestore, Goes
  <2> QED
    BY <1>12, <2>1, RefuseWrites DEF SealedInv, LockedIsImmutable
<1>13. ASSUME NEW r \in Restores, FindBackup(r)
       PROVE  Goal
  <2>1. sealed' = sealed /\ db' = db /\ \A q \in Updates : stage'[q] = stage[q] /\ about'[q] = about[q]
    BY <1>13 DEF TypeOK, FindBackup, Goes, rows
  <2> QED
    BY <2>1 DEF SealedInv, LockedIsImmutable
<1>14. ASSUME NEW r \in Restores, SafetyCopy(r)
       PROVE  Goal
  <2>1. sealed' = sealed /\ db' = db /\ \A q \in Updates : stage'[q] = stage[q] /\ about'[q] = about[q]
    BY <1>14 DEF TypeOK, SafetyCopy, Goes, Copies, rows
  <2> QED
    BY <2>1 DEF SealedInv, LockedIsImmutable
<1>15. ASSUME NEW r \in Restores, Truncate(r)
       PROVE  Goal
  <2>1. sealed' = [v \in Versions |-> None] /\ about' = about
    BY <1>15 DEF Truncate
  <2>2. \A u \in Updates : stage'[u] = "write" => about[u] \in Versions
    BY <1>15 DEF TypeOK, CallsInv, Truncate, Goes
  <2> QED
    BY <2>1, <2>2 DEF SealedInv, LockedIsImmutable
<1>16. ASSUME NEW r \in Restores, CopyBack(r)
       PROVE  Goal
  <2>1. sealed' = [v \in Versions |-> None] /\ about' = about
    BY <1>16 DEF CopyBack
  <2>2. \A u \in Updates : stage'[u] = "write" => about[u] \in Versions
    BY <1>16 DEF TypeOK, CallsInv, CopyBack, Goes
  <2> QED
    BY <2>1, <2>2 DEF SealedInv, LockedIsImmutable
<1>17. ASSUME NEW r \in Restores, RecordDecisions(r)
       PROVE  Goal
  <2>1. sealed' = sealed /\ about' = about /\ \A q \in Updates : stage'[q] = stage[q]
    BY <1>17 DEF TypeOK, RecordDecisions, Goes
  <2> QED
    BY <1>17, <2>1, RecordWrites DEF SealedInv, LockedIsImmutable
<1>18. ASSUME NEW a \in Actors, Break(a)
       PROVE  Goal
  <2>1. /\ sealed' = sealed /\ db' = db /\ about' = about
        /\ \A q \in Updates : stage'[q] = "write" => stage[q] = "write"
    BY <1>18 DEF TypeOK, Break, rows
  <2> QED
    BY <2>1 DEF SealedInv, LockedIsImmutable
<1>19. CASE UNCHANGED vars
  BY <1>19 DEF SealedInv, LockedIsImmutable, vars
<1> QED
  BY <1>1, <1>2, <1>3, <1>4, <1>5, <1>6, <1>7, <1>8, <1>9, <1>10, <1>11, <1>12,
     <1>13, <1>14, <1>15, <1>16, <1>17, <1>18, <1>19 DEF Next

-----------------------------------------------------------------------------
(* What the steps keep: rows that are written, and what most steps leave alone *)

\* A call that writes rows loses neither a version nor a decision, and copies that
\* are under way notice it.
Written ==
  /\ db # None /\ db' # None
  /\ \A v \in Versions : db.version[v] # None => db'.version[v] # None
  /\ db.log \subseteq db'.log
  /\ db' = db \/ Copying \subseteq disturbed'
  /\ disturbed \subseteq disturbed'
  /\ UNCHANGED <<about, file, prior, broken>>

LEMMA SaveKeeps ==
  ASSUME TypeOK, NEW v \in Versions, SaveVersion(v)
  PROVE  Written
BY SaveWrites DEF SaveVersion, Writes, copies, Written

LEMMA ReplaceKeeps ==
  ASSUME TypeOK, CallsInv, NEW u \in Updates, ReplaceVersion(u)
  PROVE  Written
BY ReplaceWrites DEF ReplaceVersion, Writes, copies, Written

LEMMA LockKeeps ==
  ASSUME TypeOK, CallsInv, NEW l \in Lockers, LockVersion(l)
  PROVE  Written /\ db'.branch = db.branch
<1>1. CASE Stored(about[l])
  BY <1>1, LockWrites DEF LockVersion, Writes, copies, Written
<1>2. CASE ~Stored(about[l])
  BY <1>2 DEF LockVersion, Writes, copies, Written
<1> QED
  BY <1>1, <1>2

LEMMA DeactivateKeeps ==
  ASSUME TypeOK, NEW c \in Creations, DeactivateForScenario(c)
  PROVE  Written
BY DeactivateWrites DEF DeactivateForScenario, Writes, copies, Written

LEMMA InsertKeeps ==
  ASSUME TypeOK, CallsInv, NEW c \in Creations, InsertBranch(c)
  PROVE  Written
BY InsertWrites DEF InsertBranch, copies, Written

LEMMA RefuseKeeps ==
  ASSUME TypeOK, NEW r \in Restores, RefuseRestore(r)
  PROVE  Written
BY RefuseWrites DEF RefuseRestore, Writes, copies, Written

LEMMA RecordKeeps ==
  ASSUME TypeOK, CallsInv, NEW r \in Restores, RecordDecisions(r)
  PROVE  Written
BY RecordWrites DEF RecordDecisions, Writes, copies, Written

-----------------------------------------------------------------------------
(* Restores and the copies they make *)

\* A step that concerns no restore, and no file that holds a database.
Aside ==
  /\ UNCHANGED <<db, prior, saved>>
  /\ \A f \in Files : file'[f] = file[f] \/ file[f] = None
  /\ \A r \in Restores : file'[r] = file[r] /\ about'[r] = about[r]
  /\ \A r \in Restores : stage'[r] = stage[r] \/ (stage'[r] = "over" /\ r \in broken')
  /\ disturbed \subseteq disturbed' /\ broken \subseteq broken'

LEMMA AsideKeepsRestores ==
  ASSUME RestoresInv, Aside
  PROVE  RestoresInv'
<1> USE Kinds DEF RestoresInv, Aside
<1>1. CopiesInv'
  BY DEF CopiesInv
<1>2. VersionsKept'
  BY DEF VersionsKept, Has
<1>3. DecisionsKept'
  BY DEF DecisionsKept
<1> QED
  BY <1>1, <1>2, <1>3

\* A step that writes rows, of a call that is no restore, or has come to its end
\* with its decisions recorded.
LEMMA WrittenKeepsRestores ==
  ASSUME TypeOK, RestoresInv, Written,
         saved' \subseteq saved \cup {v \in Versions : db'.version[v] # None},
         \A r \in Restores :
           \/ stage'[r] = stage[r]
           \/ /\ stage'[r] = "over"
              /\ about[r] # None => prior[r] \cup {<<r, about[r]>>} \subseteq db'.log
  PROVE  RestoresInv'
<1> USE Kinds DEF RestoresInv, Written
<1>1. CopiesInv'
  BY DEF CopiesInv, Copying
<1>2. VersionsKept'
  BY DEF VersionsKept, Has, TypeOK
<1>3. DecisionsKept'
  BY DEF DecisionsKept
<1> QED
  BY <1>1, <1>2, <1>3

LEMMA RestoresStep ==
  ASSUME TypeOK, CallsInv, SavedInv, RestoresInv, [Next]_vars
  PROVE  RestoresInv'
<1> USE Kinds, NothingIsNone
<1>1. ASSUME NEW v \in Versions, SaveVersion(v)
      PROVE  RestoresInv'
  <2>1. saved' = saved \cup {v} /\ db'.version[v] # None /\ stage' = stage
    BY <1>1, SaveWrites DEF SaveVersion
  <2> QED
    BY <1>1, <2>1, SaveKeeps, WrittenKeepsRestores
<1>2. ASSUME NEW u \in Updates, LoadVersion(u)
      PROVE  RestoresInv'
  <2>1. Aside
    BY <1>2 DEF TypeOK, LoadVersion, Goes, rows, copies, Aside
  <2> QED
    BY <2>1, AsideKeepsRestores
<1>3. ASSUME NEW u \in Updates, CheckLock(u)
      PROVE  RestoresInv'
  <2>1. Aside
    BY <1>3 DEF TypeOK, CheckLock, Goes, rows, copies, Aside
  <2> QED
    BY <2>1, AsideKeepsRestores
<1>4. ASSUME NEW u \in Updates, ReplaceVersion(u)
      PROVE  RestoresInv'
  <2>1. saved' = saved /\ \A r \in Restores : stage'[r] = stage[r]
    BY <1>4 DEF TypeOK, ReplaceVersion, Goes
  <2> QED
    BY <1>4, <2>1, ReplaceKeeps, WrittenKeepsRestores
<1>5. ASSUME NEW l \in Lockers, FindVersion(l)
      PROVE  RestoresInv'
  <2>1. Aside
    BY <1>5 DEF TypeOK, FindVersion, Goes, rows, copies, Aside
  <2> QED
    BY <2>1, AsideKeepsRestores
<1>6. ASSUME NEW l \in Lockers, LockVersion(l)
      PROVE  RestoresInv'
  <2>1. saved' = saved /\ \A r \in Restores : stage'[r] = stage[r]
    BY <1>6 DEF TypeOK, LockVersion, Goes
  <2> QED
    BY <1>6, <2>1, LockKeeps, WrittenKeepsRestores
<1>7. ASSUME NEW c \in Creations, FindBase(c)
      PROVE  RestoresInv'
  <2>1. Aside
    BY <1>7 DEF TypeOK, FindBase, Goes, rows, copies, Aside
  <2> QED
    BY <2>1, AsideKeepsRestores
<1>8. ASSUME NEW c \in Creations, DeactivateForScenario(c)
      PROVE  RestoresInv'
  <2>1. saved' = saved /\ \A r \in Restores : stage'[r] = stage[r]
    BY <1>8 DEF TypeOK, DeactivateForScenario, Goes
  <2> QED
    BY <1>8, <2>1, DeactivateKeeps, WrittenKeepsRestores
<1>9. ASSUME NEW c \in Creations, InsertBranch(c)
      PROVE  RestoresInv'
  <2>1. saved' = saved /\ \A r \in Restores : stage'[r] = stage[r]
    BY <1>9 DEF TypeOK, InsertBranch, Goes
  <2> QED
    BY <1>9, <2>1, InsertKeeps, WrittenKeepsRestores
<1>10. ASSUME NEW b \in Backups, StartBackup(b)
       PROVE  RestoresInv'
  <2>1. Aside
    BY <1>10 DEF TypeOK, StartBackup, Goes, rows, copies, Aside
  <2> QED
    BY <2>1, AsideKeepsRestores
<1>11. ASSUME NEW b \in Backups, EndBackup(b)
       PROVE  RestoresInv'
  <2>1. \A f \in Files : file'[f] = file[f] \/ file[f] = None
    BY <1>11 DEF TypeOK, CallsInv, EndBackup, Goes, Copies
  <2>2. Aside
    BY <1>11, <2>1 DEF TypeOK, EndBackup, Goes, Copies, rows, Aside
  <2> QED
    BY <2>2, AsideKeepsRestores
<1>12. ASSUME NEW r \in Restores, RefuseRestore(r)
       PROVE  RestoresInv'
  <2>1. saved' = saved /\ about[r] = None
    BY <1>12 DEF CallsInv, RefuseRestore, Goes
  <2>2. \A q \in Restores : stage'[q] = stage[q] \/ (stage'[q] = "over" /\ q = r)
    BY <1>12 DEF TypeOK, RefuseRestore, Goes
  <2> QED
    BY <1>12, <2>1, <2>2, RefuseKeeps, WrittenKeepsRestores
<1>13. ASSUME NEW r \in Restores, FindBackup(r)
       PROVE  RestoresInv'
  <2>1. /\ UNCHANGED <<db, file, saved, broken, disturbed>>
        /\ about'[r] # None /\ stage'[r] = "safety"
        /\ \A q \in Restores \ {r} : stage'[q] = stage[q] /\ about'[q] = about[q] /\ prior'[q] = prior[q]
    <3>1. PICK f \in Files : about' = [about EXCEPT ![r] = f]
      BY <1>13 DEF FindBackup, Listed, Files
    <3> QED
      BY <1>13, <3>1 DEF TypeOK, FindBackup, Goes, rows
  <2>2. CopiesInv'
    BY <2>1 DEF RestoresInv, CopiesInv
  <2>3. VersionsKept'
    BY <2>1 DEF RestoresInv, VersionsKept, Has
  <2>4. DecisionsKept'
    BY <2>1 DEF RestoresInv, DecisionsKept
  <2> QED
    BY <2>2, <2>3, <2>4 DEF RestoresInv
<1>14. ASSUME NEW r \in Restores, SafetyCopy(r)
       PROVE  RestoresInv'
  <2>1. /\ UNCHANGED <<about, db, saved, prior, broken>> /\ disturbed \subseteq disturbed'
        /\ file[r] = None /\ file'[r] = IF r \in disturbed THEN None ELSE db
        /\ \A f \in Files \ {r} : file'[f] = file[f]
        /\ stage'[r] = "replace" /\ \A q \in Restores \ {r} : stage'[q] = stage[q]
    BY <1>14 DEF TypeOK, CallsInv, SafetyCopy, Goes, Copies, rows
  <2>2. CopiesInv'
    BY <2>1 DEF RestoresInv, CopiesInv
  <2>3. VersionsKept'
    BY <2>1 DEF RestoresInv, VersionsKept, Has
  <2>4. DecisionsKept'
    BY <2>1 DEF RestoresInv, DecisionsKept
  <2> QED
    BY <2>2, <2>3, <2>4 DEF RestoresInv
<1>15. ASSUME NEW r \in Restores, Truncate(r)
       PROVE  RestoresInv'
  <2>1. /\ UNCHANGED <<about, file, saved, prior, broken>> /\ db' = None
        /\ disturbed' = disturbed \cup (InMidst \ {r}) /\ about[r] # None
        /\ stage[r] = "replace" /\ stage'[r] = "copy"
        /\ \A q \in Restores \ {r} : stage'[q] = stage[q]
    BY <1>15 DEF TypeOK, CallsInv, Truncate, Goes, copies
  <2>2. CopiesInv'
    BY <2>1 DEF RestoresInv, CopiesInv, InMidst
  <2>3. VersionsKept'
    BY <2>1 DEF RestoresInv, CopiesInv, VersionsKept, Has
  <2>4. DecisionsKept'
    BY <2>1 DEF RestoresInv, DecisionsKept
  <2> QED
    BY <2>2, <2>3, <2>4 DEF RestoresInv
<1>16. ASSUME NEW r \in Restores, CopyBack(r)
       PROVE  RestoresInv'
  <2>1. /\ UNCHANGED <<about, file, saved, prior, broken>>
        /\ disturbed' = disturbed \cup (InMidst \ {r}) /\ about[r] # None
        /\ stage[r] = "copy" /\ stage'[r] = IF r \in Consoles THEN "record" ELSE "over"
        /\ \A q \in Restores \ {r} : stage'[q] = stage[q]
    BY <1>16 DEF TypeOK, CallsInv, CopyBack, Goes, copies
  <2>2. CopiesInv'
    BY <2>1 DEF RestoresInv, CopiesInv, InMidst
  <2>3. VersionsKept'
    BY <2>1 DEF RestoresInv, CopiesInv, VersionsKept, Has
  <2>4. DecisionsKept'
    BY <2>1 DEF RestoresInv, DecisionsKept
  <2> QED
    BY <2>2, <2>3, <2>4 DEF RestoresInv
<1>17. ASSUME NEW r \in Restores, RecordDecisions(r)
       PROVE  RestoresInv'
  <2>1. saved' = saved /\ prior[r] \cup {<<r, about[r]>>} \subseteq db'.log
    BY <1>17, RecordWrites DEF RecordDecisions
  <2>2. \A q \in Restores : stage'[q] = stage[q] \/ (stage'[q] = "over" /\ q = r)
    BY <1>17 DEF TypeOK, RecordDecisions, Goes
  <2> QED
    BY <1>17, <2>1, <2>2, RecordKeeps, WrittenKeepsRestores
<1>18. ASSUME NEW a \in Actors, Break(a)
       PROVE  RestoresInv'
  <2>1. Aside
    BY <1>18 DEF TypeOK, Break, rows, copies, Aside
  <2> QED
    BY <2>1, AsideKeepsRestores
<1>19. CASE UNCHANGED vars
  BY <1>19 DEF vars, RestoresInv, CopiesInv, VersionsKept, Has, DecisionsKept
<1> QED
  BY <1>1, <1>2, <1>3, <1>4, <1>5, <1>6, <1>7, <1>8, <1>9, <1>10, <1>11, <1>12,
     <1>13, <1>14, <1>15, <1>16, <1>17, <1>18, <1>19 DEF Next

-----------------------------------------------------------------------------
(* Branches and the copies of them *)

\* A branch is based on a version.
LEMMA Bases ==
  ASSUME NEW d \in Database, NEW c \in Creations, d.branch[c] # None
  PROVE  d.branch[c].base \in Versions
<1>1. d.branch[c] \in BranchRow
  BY Parts
<1> QED
  BY <1>1 DEF BranchRow

\* A step that writes no branch and concerns no creation.
LEMMA OtherRowsKeepBranches ==
  ASSUME TypeOK, CallsInv, BranchesInv, Written, db'.branch = db.branch,
         \A c \in Creations : stage'[c] = stage[c]
  PROVE  BranchesInv'
<1>1. DatabaseSound'
  <2>1. Sound(db) /\ db \in Database
    BY DEF BranchesInv, DatabaseSound, Written, TypeOK
  <2>2. Sound(db)'
    BY <2>1, Bases DEF Sound, Active, Written
  <2>3. Resting(db)' => Resting(db)
    BY DEF Resting, Active
  <2> QED
    BY <2>2, <2>3 DEF BranchesInv, DatabaseSound, Troubled, Written
<1>2. FilesSound'
  BY DEF BranchesInv, FilesSound, Sound, Resting, Active, Troubled, Written
<1>3. CreationsReady'
  <2>1. ASSUME NEW c \in Creations \ disturbed', stage'[c] \in {"clear", "insert"}
        PROVE  Stored(about[c])'
    BY <2>1 DEF BranchesInv, CreationsReady, CallsInv, Stored, Written
  <2>2. ASSUME NEW c \in Creations \ disturbed', stage'[c] = "insert", NEW e \in Creations
        PROVE  ~Active(db, e)'
    BY <2>2 DEF BranchesInv, CreationsReady, Active, Written
  <2> QED
    BY <2>1, <2>2 DEF CreationsReady
<1> QED
  BY <1>1, <1>2, <1>3 DEF BranchesInv

\* A step that leaves the database, the files and the creations that are not
\* broken alone.
Apart ==
  /\ UNCHANGED <<db, file>>
  /\ \A c \in Creations : about'[c] = about[c]
  /\ \A c \in Creations : stage'[c] = stage[c] \/ (stage'[c] = "over" /\ c \in broken')
  /\ disturbed \subseteq disturbed' /\ broken \subseteq broken'

LEMMA ApartKeepsBranches ==
  ASSUME BranchesInv, Apart
  PROVE  BranchesInv'
<1>1. DatabaseSound'
  BY DEF BranchesInv, DatabaseSound, Sound, Resting, Active, Troubled, Apart
<1>2. FilesSound'
  BY DEF BranchesInv, FilesSound, Sound, Resting, Active, Troubled, Apart
<1>3. CreationsReady'
  BY DEF BranchesInv, CreationsReady, Stored, Active, Apart
<1> QED
  BY <1>1, <1>2, <1>3 DEF BranchesInv

\* A copy has what it found, and the creations it found half-way are disturbed.
LEMMA CopiesKeepBranches ==
  ASSUME TypeOK, BranchesInv, NEW f \in Files, Copies(f),
         \A c \in Creations : stage'[c] = stage[c]
  PROVE  BranchesInv'
<1>1. /\ UNCHANGED <<about, db, broken>>
      /\ disturbed' = disturbed \cup {c \in Creations : stage[c] = "insert"}
      /\ file'[f] = None \/ file'[f] = db
      /\ \A g \in Files \ {f} : file'[g] = file[g]
  BY DEF Copies, TypeOK, rows
<1>2. DatabaseSound'
  BY <1>1 DEF BranchesInv, DatabaseSound, Sound, Resting, Active, Troubled
<1>3. FilesSound'
  <2>1. ASSUME NEW g \in Files, file'[g] # None
        PROVE  Sound(file[g])' /\ (Resting(file[g])' => Troubled')
    <3>1. CASE file'[g] = file[g]
      BY <1>1, <2>1, <3>1 DEF BranchesInv, FilesSound, Sound, Resting, Active, Troubled
    <3>2. CASE file'[g] = db
      BY <1>1, <2>1, <3>2 DEF BranchesInv, DatabaseSound, Sound, Resting, Active, Troubled
    <3> QED
      BY <1>1, <2>1, <3>1, <3>2
  <2> QED
    BY <2>1 DEF FilesSound
<1>4. CreationsReady'
  BY <1>1 DEF BranchesInv, CreationsReady, Stored, Active
<1> QED
  BY <1>2, <1>3, <1>4 DEF BranchesInv

LEMMA BranchesStep ==
  ASSUME TypeOK, CallsInv, BranchesInv, [Next]_vars
  PROVE  BranchesInv'
<1> USE Kinds, NothingIsNone
<1>1. ASSUME NEW v \in Versions, SaveVersion(v)
      PROVE  BranchesInv'
  <2>1. \A c \in Creations : stage'[c] = stage[c]
    BY <1>1 DEF TypeOK, SaveVersion, Goes
  <2>2. Written /\ db'.branch = db.branch
    BY <1>1, SaveKeeps, SaveWrites
  <2> QED
    BY <2>1, <2>2, OtherRowsKeepBranches
<1>2. ASSUME NEW u \in Updates, LoadVersion(u)
      PROVE  BranchesInv'
  <2>1. Apart
    BY <1>2 DEF TypeOK, LoadVersion, Goes, rows, copies, Apart
  <2> QED
    BY <2>1, ApartKeepsBranches
<1>3. ASSUME NEW u \in Updates, CheckLock(u)
      PROVE  BranchesInv'
  <2>1. Apart
    BY <1>3 DEF TypeOK, CheckLock, Goes, rows, copies, Apart
  <2> QED
    BY <2>1, ApartKeepsBranches
<1>4. ASSUME NEW u \in Updates, ReplaceVersion(u)
      PROVE  BranchesInv'
  <2>1. \A c \in Creations : stage'[c] = stage[c]
    BY <1>4 DEF TypeOK, ReplaceVersion, Goes
  <2>2. Written /\ db'.branch = db.branch
    BY <1>4, ReplaceKeeps, ReplaceWrites
  <2> QED
    BY <2>1, <2>2, OtherRowsKeepBranches
<1>5. ASSUME NEW l \in Lockers, FindVersion(l)
      PROVE  BranchesInv'
  <2>1. Apart
    BY <1>5 DEF TypeOK, FindVersion, Goes, rows, copies, Apart
  <2> QED
    BY <2>1, ApartKeepsBranches
<1>6. ASSUME NEW l \in Lockers, LockVersion(l)
      PROVE  BranchesInv'
  <2>1. \A c \in Creations : stage'[c] = stage[c]
    BY <1>6 DEF TypeOK, LockVersion, Goes
  <2>2. Written /\ db'.branch = db.branch
    BY <1>6, LockKeeps
  <2> QED
    BY <2>1, <2>2, OtherRowsKeepBranches
<1>7. ASSUME NEW c \in Creations, FindBase(c)
      PROVE  BranchesInv'
  <2>1. /\ UNCHANGED <<db, file, broken, disturbed>>
        /\ Stored(about'[c]) /\ stage'[c] = "clear"
        /\ \A e \in Creations \ {c} : about'[e] = about[e] /\ stage'[e] = stage[e]
    BY <1>7 DEF TypeOK, FindBase, Goes, rows, copies
  <2>2. DatabaseSound'
    <3>1. \A e \in Creations : stage[e] = "insert" => stage'[e] = "insert"
      BY <1>7, <2>1 DEF FindBase, Goes
    <3> QED
      BY <2>1, <3>1 DEF BranchesInv, DatabaseSound, Sound, Resting, Active, Troubled
  <2>3. FilesSound'
    BY <2>1 DEF BranchesInv, FilesSound, Sound, Resting, Active, Troubled
  <2>4. CreationsReady'
    BY <2>1 DEF BranchesInv, CreationsReady, Stored, Active
  <2> QED
    BY <2>2, <2>3, <2>4 DEF BranchesInv
<1>8. ASSUME NEW c \in Creations, DeactivateForScenario(c)
      PROVE  BranchesInv'
  <2>1. /\ UNCHANGED <<about, file, broken>> /\ disturbed \subseteq disturbed'
        /\ stage[c] = "clear" /\ stage'[c] = "insert"
        /\ \A e \in Creations \ {c} : stage'[e] = stage[e]
    BY <1>8 DEF TypeOK, DeactivateForScenario, Goes, Writes, copies
  <2>2. \A e \in Creations : ~Active(db, e)'
    BY <1>8, DeactivateWrites DEF Active
  <2>3. DatabaseSound'
    <3>1. Sound(db)'
      BY <1>8, <2>1, <2>2, DeactivateWrites DEF BranchesInv, DatabaseSound, Sound
    <3> QED
      BY <2>1, <3>1 DEF DatabaseSound
  <2>4. FilesSound'
    BY <2>1 DEF BranchesInv, FilesSound, Sound, Resting, Active, Troubled
  <2>5. CreationsReady'
    BY <1>8, <2>1, <2>2, DeactivateWrites DEF BranchesInv, CreationsReady, Stored
  <2> QED
    BY <2>3, <2>4, <2>5 DEF BranchesInv
<1>9. ASSUME NEW c \in Creations, InsertBranch(c)
      PROVE  BranchesInv'
  <2>1. /\ UNCHANGED <<about, file, broken>> /\ stage[c] = "insert" /\ stage'[c] = "over"
        /\ disturbed \subseteq disturbed'
        /\ \A e \in Creations \ {c} : stage'[e] = stage[e] /\ (stage[e] = "insert" => e \in disturbed')
    BY <1>9 DEF TypeOK, InsertBranch, Goes, copies
  <2>2. DatabaseSound'
    <3>1. Active(db, c)'
      BY <1>9, InsertWrites DEF Active
    <3>2. \A e \in Creations \ {c} : Active(db, e)' <=> Active(db, e)
      BY <1>9, InsertWrites DEF Active
    <3>3. c \notin disturbed => Stored(about[c]) /\ \A e \in Creations : ~Active(db, e)
      BY <2>1 DEF BranchesInv, CreationsReady
    <3>4. ASSUME NEW e \in Creations \ disturbed', db'.branch[e] # None
          PROVE  db'.version[db'.branch[e].base] # None
      <4>1. CASE e = c
        BY <1>9, <2>1, <3>3, <4>1, InsertWrites DEF Stored
      <4>2. CASE e # c
        BY <1>9, <2>1, <3>4, <4>2, InsertWrites DEF BranchesInv, DatabaseSound, Sound
      <4> QED
        BY <4>1, <4>2
    <3>5. \A e, g \in Creations \ disturbed' : Active(db, e)' /\ Active(db, g)' => e = g
      BY <1>9, <2>1, <3>2, <3>3, InsertWrites DEF BranchesInv, DatabaseSound, Sound
    <3> QED
      BY <3>1, <3>4, <3>5 DEF DatabaseSound, Sound, Resting
  <2>3. FilesSound'
    BY <2>1 DEF BranchesInv, FilesSound, Sound, Resting, Active, Troubled
  <2>4. CreationsReady'
    BY <1>9, <2>1, InsertWrites DEF BranchesInv, CreationsReady, Stored
  <2> QED
    BY <2>2, <2>3, <2>4 DEF BranchesInv
<1>10. ASSUME NEW b \in Backups, StartBackup(b)
       PROVE  BranchesInv'
  <2>1. Apart
    BY <1>10 DEF TypeOK, StartBackup, Goes, rows, copies, Apart
  <2> QED
    BY <2>1, ApartKeepsBranches
<1>11. ASSUME NEW b \in Backups, EndBackup(b)
       PROVE  BranchesInv'
  <2>1. \A c \in Creations : stage'[c] = stage[c]
    BY <1>11 DEF TypeOK, EndBackup, Goes
  <2> QED
    BY <1>11, <2>1, CopiesKeepBranches DEF EndBackup
<1>12. ASSUME NEW r \in Restores, RefuseRestore(r)
       PROVE  BranchesInv'
  <2>1. \A c \in Creations : stage'[c] = stage[c]
    BY <1>12 DEF TypeOK, RefuseRestore, Goes
  <2>2. Written /\ db'.branch = db.branch
    BY <1>12, RefuseKeeps, RefuseWrites
  <2> QED
    BY <2>1, <2>2, OtherRowsKeepBranches
<1>13. ASSUME NEW r \in Restores, FindBackup(r)
       PROVE  BranchesInv'
  <2>1. Apart
    BY <1>13 DEF TypeOK, FindBackup, Goes, rows, Apart
  <2> QED
    BY <2>1, ApartKeepsBranches
<1>14. ASSUME NEW r \in Restores, SafetyCopy(r)
       PROVE  BranchesInv'
  <2>1. \A c \in Creations : stage'[c] = stage[c]
    BY <1>14 DEF TypeOK, SafetyCopy, Goes
  <2> QED
    BY <1>14, <2>1, CopiesKeepBranches DEF SafetyCopy
<1>15. ASSUME NEW r \in Restores, Truncate(r)
       PROVE  BranchesInv'
  <2>1. /\ UNCHANGED <<file, broken>> /\ db' = None
        /\ disturbed' = disturbed \cup (InMidst \ {r})
        /\ \A c \in Creations : stage'[c] = stage[c]
    BY <1>15 DEF TypeOK, Truncate, Goes, copies
  <2>2. FilesSound'
    BY <2>1 DEF BranchesInv, FilesSound, Sound, Resting, Active, Troubled
  <2>3. CreationsReady'
    BY <2>1 DEF CreationsReady, InMidst
  <2> QED
    BY <2>1, <2>2, <2>3 DEF BranchesInv, DatabaseSound
<1>16. ASSUME NEW r \in Restores, CopyBack(r)
       PROVE  BranchesInv'
  <2>1. /\ UNCHANGED <<file, broken>>
        /\ disturbed' = disturbed \cup (InMidst \ {r}) /\ about[r] \in Files
        /\ \A c \in Creations : stage'[c] = stage[c]
    BY <1>16 DEF TypeOK, CallsInv, CopyBack, Goes, copies
  <2>2. db' = None \/ db' = file[about[r]]
    BY <1>16 DEF CopyBack
  <2>3. DatabaseSound'
    BY <2>1, <2>2 DEF BranchesInv, DatabaseSound, FilesSound, Sound, Resting, Active, Troubled
  <2>4. FilesSound'
    BY <2>1 DEF BranchesInv, FilesSound, Sound, Resting, Active, Troubled
  <2>5. CreationsReady'
    BY <2>1 DEF CreationsReady, InMidst
  <2> QED
    BY <2>3, <2>4, <2>5 DEF BranchesInv
<1>17. ASSUME NEW r \in Restores, RecordDecisions(r)
       PROVE  BranchesInv'
  <2>1. \A c \in Creations : stage'[c] = stage[c]
    BY <1>17 DEF TypeOK, RecordDecisions, Goes
  <2>2. Written /\ db'.branch = db.branch
    BY <1>17, RecordKeeps, RecordWrites
  <2> QED
    BY <2>1, <2>2, OtherRowsKeepBranches
<1>18. ASSUME NEW a \in Actors, Break(a)
       PROVE  BranchesInv'
  <2>1. Apart
    BY <1>18 DEF TypeOK, Break, rows, copies, Apart
  <2> QED
    BY <2>1, ApartKeepsBranches
<1>19. CASE UNCHANGED vars
  <2>1. Apart
    BY <1>19 DEF vars, Apart
  <2> QED
    BY <2>1, ApartKeepsBranches
<1> QED
  BY <1>1, <1>2, <1>3, <1>4, <1>5, <1>6, <1>7, <1>8, <1>9, <1>10, <1>11, <1>12,
     <1>13, <1>14, <1>15, <1>16, <1>17, <1>18, <1>19 DEF Next

-----------------------------------------------------------------------------
(* The theorems *)

LEMMA InvInit == Init => Inv
<1> SUFFICES ASSUME Init
             PROVE  Inv
  OBVIOUS
<1> USE Kinds, NothingIsNone DEF Init
<1>1. EmptyDatabase \in Database /\ EmptyDatabase # None
  BY DEF EmptyDatabase, Database
<1>2. TypeOK
  BY <1>1 DEF TypeOK
<1>3. CallsInv
  BY DEF CallsInv
<1>4. SavedInv /\ SealedInv /\ LockedIsImmutable
  BY <1>1 DEF SavedInv, SealedInv, LockedIsImmutable, EmptyDatabase, Has
<1>5. BranchesInv
  BY <1>1 DEF BranchesInv, DatabaseSound, FilesSound, CreationsReady, Sound, Resting, Active, EmptyDatabase
<1>6. RestoresInv
  BY DEF RestoresInv, CopiesInv, VersionsKept, DecisionsKept
<1> QED
  BY <1>2, <1>3, <1>4, <1>5, <1>6 DEF Inv

LEMMA InvStep == Inv /\ [Next]_vars => Inv'
BY TypeStep, CallsStep, SavedStep, SealedStep, BranchesStep, RestoresStep DEF Inv

\* Every part of the invariant holds of every behaviour.
THEOREM ConfigInvariant == Spec => []Inv
BY InvInit, InvStep, PTL DEF Spec

\* Every row, file and image is one the store and the copies can produce.
THEOREM ConfigTypes == Spec => []TypeOK
<1>1. Inv => TypeOK
  BY DEF Inv
<1> QED
  BY <1>1, ConfigInvariant, PTL

\* lock_version (config_versions.py): a version that was locked while no save was
\* between its look at the lock and its write keeps its configuration and its lock,
\* whatever saves, branches, backups and restores do, until a restore replaces the
\* database.
THEOREM LockedVersionsStay == Spec => []LockedIsImmutable
<1>1. Inv => LockedIsImmutable
  BY DEF Inv
<1> QED
  BY <1>1, ConfigInvariant, PTL

\* create_branch (config_branches.py): a branch has a stored base, two are active
\* and none is active only when a creation, a copy or a restore got in the way, and
\* that goes for a database that a restore has brought back too.
THEOREM BranchesStaySound == Spec => []BranchesAreSound
<1>1. ASSUME Inv PROVE BranchesAreSound
  <2>1. SUFFICES ASSUME db # None
                 PROVE  LET branches == {c \in Creations : db.branch[c] # None}
                            active == {c \in branches : db.branch[c].active}
                        IN /\ \A c \in branches \ disturbed : Stored(db.branch[c].base)
                           /\ \A c, d \in active : c # d => {c, d} \cap disturbed # {}
                           /\ branches # {} /\ active = {} =>
                                \E c \in Creations : stage[c] = "insert" \/ c \in broken \cup disturbed
    BY DEF BranchesAreSound
  <2>2. Sound(db) /\ (Resting(db) => Troubled \/ \E c \in Creations : stage[c] = "insert")
    BY <1>1, <2>1 DEF Inv, BranchesInv, DatabaseSound
  <2> QED
    BY <2>1, <2>2 DEF Sound, Resting, Active, Troubled, Stored
<1> QED
  BY <1>1, ConfigInvariant, PTL

\* restore_with_safety (sqlite_backup.py) and the API's restore: no committed version
\* is lost unless something got in the way of a restore or the copies it rests on, and
\* a restore that came to its end leaves the decisions recorded.
THEOREM RestoresKeepHistory == Spec => []RestoreKeepsHistory
<1>1. Inv => RestoreKeepsHistory
  BY DEF Inv, RestoresInv, VersionsKept, DecisionsKept, RestoreKeepsHistory, Has, Stored
<1> QED
  BY <1>1, ConfigInvariant, PTL
=============================================================================
