------------------------ MODULE ImprovementLoopProofs ------------------------
(* Theorems about ImprovementLoop, for every set of loops, rollbacks, humans *)
(* and proposals.                                                            *)
EXTENDS ImprovementLoop, TLAPS, SequenceTheorems

-----------------------------------------------------------------------------
(* The inductive invariant, part by part *)

\* A request that is under way is about a proposal that exists.
RequestsHaveRows ==
  \A r \in Requests :
    /\ stage[r] \in {"find", "decide"} =>
         /\ decision[r] # NoRow
         /\ row[decision[r].proposal] # NoRow
         /\ decision[r].status \in {"approved", "rejected"}
    /\ stage[r] = "decide" => hold[r] # NoRow

\* A writer stamps one version, and remembers which.
DraftsHaveWriters ==
  /\ \A i \in DOMAIN versions :
       versions[i].by # "seed" => draft[versions[i].by] = i
  /\ \A w \in Writers :
       draft[w] # 0 => draft[w] \in DOMAIN versions /\ versions[draft[w]].by = w

InHistory(w) == draft[w] # 0 /\ versions[draft[w]].stored

UndraftedStages ==
  {"idle", "adapter", "level", "skip", "shadow", "verdict", "refuse",
   "base", "stamp", "await", "approve"}

\* A version is stamped before it is inserted and inserted before its proposal
\* is marked.
DraftsHaveStages ==
  /\ \A w \in Writers :
       /\ stage[w] \in UndraftedStages => draft[w] = 0
       /\ stage[w] = "insert" => draft[w] # 0
  /\ \A p \in Loops : stage[p] = "applied" => InHistory(p)

Vetted(p) == Level(p) = "auto" /\ passed[p]

\* The stages follow the policy and the shadow run, and so does the report.
StagesFollowVerdicts ==
  \A p \in Loops :
    /\ (stage[p] \in {"base", "stamp", "insert", "applied"} \/ draft[p] # 0) => Vetted(p)
    /\ (stage[p] \in {"shadow", "verdict"} \/ passed[p]) => Level(p) # "blocked"
    /\ stage[p] \in {"skip", "refuse", "await", "approve"} => ~Vetted(p)
    /\ (stage[p] \in {"report", "completing"} \/ loopRow[p] = "completed") =>
         (Vetted(p) <=> InHistory(p)) /\ (draft[p] # 0 => InHistory(p))
    /\ (stage[p] = "completing" \/ loopRow[p] = "completed") => report[p] = Action(p)
    /\ loopRow[p] = "completed" => stage[p] = "over"

IsApplied(image) == image # NoRow /\ image.status = "applied"

\* A row says applied, or is about to be written so, once the version is stored.
AppliedImages ==
  \A p \in Loops : (IsApplied(row[p]) \/ IsApplied(hold[p])) => InHistory(p)

\* What each writer is about to save comes from a version that is stored.
BasesHaveOrigins ==
  /\ \A p \in Loops : stage[p] = "stamp" =>
       /\ base[p].version \in {0} \cup Stored
       /\ base[p].slots = Patched(SlotsOf(base[p].version), p)
  /\ \A o \in Rollbacks : stage[o] = "stamp" =>
       /\ base[o].version \in Stored
       /\ base[o].slots = versions[base[o].version].slots

HasOrigin(i) ==
  \/ versions[i].by = "seed"
  \/ /\ versions[i].by \in Loops
     /\ \E j \in {0} \cup {k \in Stored : k < i} :
          versions[i].slots = Patched(SlotsOf(j), versions[i].by)
  \/ /\ versions[i].by \in Rollbacks
     /\ versions[i].parent \in {k \in Stored : k < i}
     /\ versions[i].slots = versions[versions[i].parent].slots

Origins == BasesHaveOrigins /\ \A i \in DOMAIN versions : HasOrigin(i)

LoopInv ==
  /\ RequestsHaveRows /\ DraftsHaveWriters /\ DraftsHaveStages
  /\ StagesFollowVerdicts /\ AppliedImages /\ Origins

-----------------------------------------------------------------------------
(* What the writers do to the history *)

LEMMA StoredVersions ==
  ASSUME TypeOK
  PROVE  /\ DOMAIN versions = 1..Len(versions)
         /\ Len(versions) \in Nat
         /\ Stored \subseteq 1..Len(versions)
         /\ Latest \subseteq {0} \cup Stored
         /\ \A i \in DOMAIN versions : versions[i] \in Version
BY LenProperties, ElementOfSeq DEF TypeOK, Stored, Latest, LastOf

\* Patching keeps the slots of a prompt well formed.
LEMMA PatchedType ==
  ASSUME NEW slots \in SlotValues, NEW p \in Loops
  PROVE  Patched(slots, p) \in SlotValues
BY LoopAssumption DEF Patched, SlotValues

LEMMA SlotsType ==
  ASSUME TypeOK, NEW i \in {0} \cup Stored
  PROVE  SlotsOf(i) \in SlotValues
BY StoredVersions DEF SlotsOf, NoSlots, SlotValues, Version, Stored

\* A stamp appends one version that is not stored yet.
LEMMA StampAppends ==
  ASSUME TypeOK, NEW w \in Writers, Stamp(w)
  PROVE  /\ versions' \in Seq(Version)
         /\ DOMAIN versions' = 1..(Len(versions) + 1)
         /\ \A i \in DOMAIN versions : versions'[i] = versions[i]
         /\ versions'[Len(versions) + 1].slots = base[w].slots
         /\ versions'[Len(versions) + 1].by = w
         /\ ~versions'[Len(versions) + 1].stored
         /\ w \in Rollbacks => versions'[Len(versions) + 1].parent = base[w].version
         /\ Stored' = Stored
         /\ draft' = [draft EXCEPT ![w] = Len(versions) + 1]
<1>1. PICK i \in Latest :
        versions' = Append(versions,
          [slots |-> base[w].slots, parent |-> IF w \in Rollbacks THEN base[w].version ELSE i,
           by |-> w, stored |-> FALSE])
  BY DEF Stamp
<1> DEFINE v == [slots |-> base[w].slots,
                 parent |-> IF w \in Rollbacks THEN base[w].version ELSE i,
                 by |-> w, stored |-> FALSE]
           n == Len(versions) + 1
<1>2. v \in Version
  <2>1. i \in Nat
    BY StoredVersions
  <2>2. base[w].slots \in SlotValues /\ base[w].version \in Nat
    BY DEF TypeOK
  <2>3. QED
    BY <2>1, <2>2 DEF Version
<1>3. versions \in Seq(Version)
  BY DEF TypeOK
<1>4. /\ versions' \in Seq(Version)
      /\ Len(versions') = n
      /\ \A k \in 1..Len(versions) : versions'[k] = versions[k]
      /\ versions'[n] = v
  BY <1>1, <1>2, <1>3, AppendProperties
<1>5. DOMAIN versions' = 1..n
  BY <1>4, LenProperties
<1>6. Stored' = Stored
  BY <1>4, <1>5, StoredVersions DEF Stored
<1>7. draft' = [draft EXCEPT ![w] = n]
  BY DEF Stamp
<1>8. QED
  BY <1>4, <1>5, <1>6, <1>7, StoredVersions

\* An insert makes the writer's version visible and changes nothing else of
\* the history.
LEMMA InsertStores ==
  ASSUME TypeOK, NEW w \in Writers, Insert(w)
  PROVE  /\ versions' \in Seq(Version)
         /\ DOMAIN versions' = DOMAIN versions
         /\ \A i \in DOMAIN versions :
              /\ versions'[i].slots = versions[i].slots
              /\ versions'[i].parent = versions[i].parent
              /\ versions'[i].by = versions[i].by
              /\ versions'[i].stored = (versions[i].stored \/ i = draft[w])
         /\ Stored \subseteq Stored'
<1>1. versions' = [versions EXCEPT ![draft[w]].stored = TRUE]
  BY DEF Insert
<1>2. DOMAIN versions' = DOMAIN versions
  BY <1>1
<1>3. ASSUME NEW i \in DOMAIN versions
      PROVE  /\ versions'[i] \in Version
             /\ versions'[i].slots = versions[i].slots
             /\ versions'[i].parent = versions[i].parent
             /\ versions'[i].by = versions[i].by
             /\ versions'[i].stored = (versions[i].stored \/ i = draft[w])
  <2>1. versions[i] \in Version
    BY StoredVersions
  <2>2. versions'[i] = IF i = draft[w] THEN [versions[i] EXCEPT !.stored = TRUE]
                       ELSE versions[i]
    BY <1>1
  <2>3. QED
    BY <2>1, <2>2 DEF Version
<1>4. versions' \in Seq(Version)
  <2>1. versions' \in [1..Len(versions) -> Version]
    BY <1>1, <1>2, <1>3, StoredVersions
  <2>2. QED
    BY <2>1, SeqDef, StoredVersions
<1>5. Stored \subseteq Stored'
  BY <1>2, <1>3 DEF Stored
<1>6. QED
  BY <1>2, <1>3, <1>4, <1>5

-----------------------------------------------------------------------------
(* Type correctness *)

\* The levels of a proposal are those of the policy.
LEMMA LevelType ==
  ASSUME NEW p \in Loops
  PROVE  Level(p) \in Levels
BY DEF Level, Levels

\* Updating an image of a row gives an image of a row.
LEMMA ChangedType ==
  ASSUME NEW p \in Loops, NEW image \in Row, stage[p] \in UpdateStages
  PROVE  Changed(p, image) \in Row
BY LevelType DEF Changed, Row, UpdateStages, Statuses

\* Every step keeps the types, given that requests are about existing rows.
LEMMA TypeStep ==
  ASSUME TypeOK, RequestsHaveRows, [Next]_vars
  PROVE  TypeOK'
<1>0. /\ Len(versions) + 1 \in Nat
      /\ Latest \subseteq {0} \cup Stored
      /\ \A i \in {0} \cup Stored : i \in Nat /\ SlotsOf(i) \in SlotValues
      /\ \A i \in Stored : i \in DOMAIN versions /\ versions[i] \in Version
  <2>1. \A i \in {0} \cup Stored : SlotsOf(i) \in SlotValues
    BY SlotsType
  <2>2. \A i \in Stored : i \in DOMAIN versions /\ versions[i] \in Version /\ i \in Nat
    BY StoredVersions
  <2>3. Len(versions) + 1 \in Nat /\ Latest \subseteq {0} \cup Stored
    BY StoredVersions
  <2>4. QED
    BY <2>1, <2>2, <2>3
<1> USE DEF TypeOK
<1> USE DEF versionVars, loopVars
<1>1. ASSUME NEW p \in Loops, Loop(p)
      PROVE  TypeOK'
  <2> USE DEF Goes, Actors, Writers, Stages, UpdateStages
  <2>1. CASE \/ Trigger(p) \/ TriggerSkipped(p) \/ Raise(p) \/ End(p) \/ EndUnsaved(p)
             \/ Crash(p)
    BY <2>1 DEF Trigger, TriggerSkipped, Raise, End, EndUnsaved, Crash
  <2>2. CASE CreateProposal(p)
    <3>1. NewRow \in Row
      BY DEF NewRow, Row, Statuses, Levels
    <3>2. QED
      BY <2>2, <3>1 DEF CreateProposal
  <2>3. CASE ReadRow(p)
    BY <2>3 DEF ReadRow, Proposals
  <2>4. CASE WriteRow(p)
    <3>1. Changed(p, hold[p]) \in Row
      BY <2>4, ChangedType DEF WriteRow
    <3>2. NextStage(p) \in Stages
      BY <2>4 DEF WriteRow, NextStage
    <3>3. QED
      BY <2>4, <3>1, <3>2 DEF WriteRow
  <2>5. CASE RunShadow(p)
    BY <2>5 DEF RunShadow
  <2>6. CASE ReadBase(p)
    <3>1. PICK i \in Latest :
            base' = [base EXCEPT ![p] = [slots |-> Patched(SlotsOf(i), p), version |-> i]]
      BY <2>6 DEF ReadBase
    <3>2. i \in Nat /\ SlotsOf(i) \in SlotValues
      BY <1>0, <3>1
    <3>3. Patched(SlotsOf(i), p) \in SlotValues
      BY <3>2, PatchedType
    <3>4. QED
      BY <2>6, <3>1, <3>2, <3>3 DEF ReadBase
  <2>7. CASE Stamp(p)
    <3>1. versions' \in Seq(Version) /\ draft' = [draft EXCEPT ![p] = Len(versions) + 1]
      BY <2>7, StampAppends
    <3>2. stage' \in [Actors -> Stages]
      BY <2>7 DEF Stamp
    <3>3. UNCHANGED <<row, hold, passed, base, decision, loopRow, report>>
      BY <2>7 DEF Stamp
    <3>4. QED
      BY <1>0, <3>1, <3>2, <3>3
  <2>8. CASE Insert(p)
    BY <2>8, InsertStores DEF Insert
  <2>9. CASE Report(p)
    <3>1. Action(p) \in Reports
      BY LevelType DEF Action, Reports, Levels
    <3>2. QED
      BY <2>9, <3>1 DEF Report
  <2>10. QED
    BY <1>1, <2>1, <2>2, <2>3, <2>4, <2>5, <2>6, <2>7, <2>8, <2>9 DEF Loop, Step, Policy
<1>2. ASSUME NEW o \in Rollbacks, Rollback(o)
      PROVE  TypeOK'
  <2> USE DEF Goes, Actors, Writers, Stages, UpdateStages
  <2>1. CASE ReadPrevious(o)
    <3>1. PICK i \in LastOf(Stored \ LastOf(Stored)) :
            base' = [base EXCEPT ![o] = [slots |-> versions[i].slots, version |-> i]]
      BY <2>1 DEF ReadPrevious
    <3>2. i \in Stored
      BY <3>1 DEF LastOf
    <3>3. i \in DOMAIN versions /\ i \in Nat /\ versions[i] \in Version
      BY <1>0, <3>2
    <3>4. QED
      BY <2>1, <3>1, <3>3 DEF ReadPrevious, Version
  <2>2. CASE Stamp(o)
    <3>1. versions' \in Seq(Version) /\ draft' = [draft EXCEPT ![o] = Len(versions) + 1]
      BY <2>2, StampAppends
    <3>2. stage' \in [Actors -> Stages]
      BY <2>2 DEF Stamp
    <3>3. UNCHANGED <<row, hold, passed, base, decision, loopRow, report>>
      BY <2>2 DEF Stamp
    <3>4. QED
      BY <1>0, <3>1, <3>2, <3>3
  <2>3. CASE Insert(o)
    <3>1. versions' \in Seq(Version)
      BY <2>3, InsertStores
    <3>2. stage' = [stage EXCEPT ![o] = IF o \in Loops THEN "applied" ELSE "over"]
      BY <2>3 DEF Insert
    <3>3. QED
      BY <2>3, <3>1, <3>2 DEF Insert
  <2>4. QED
    BY <1>2, <2>1, <2>2, <2>3 DEF Rollback
<1>3. ASSUME NEW r \in Requests, Human(r)
      PROVE  TypeOK'
  <2> USE DEF Goes, Actors, Stages, Statuses
  <2>1. CASE Find(r)
    <3>1. PICK p \in Proposals, s \in {"approved", "rejected"} :
            decision' = [decision EXCEPT ![r] = [proposal |-> p, status |-> s]]
      BY <2>1 DEF Find
    <3>2. [proposal |-> p, status |-> s] \in [proposal : Proposals, status : Statuses]
      OBVIOUS
    <3>3. QED
      BY <2>1, <3>1, <3>2 DEF Find
  <2>2. CASE ReadDecided(r)
    BY <2>2 DEF ReadDecided, RequestsHaveRows
  <2>3. CASE WriteDecided(r)
    <3>1. hold[r] \in Row /\ decision[r].status \in Statuses
      BY <2>3 DEF WriteDecided, RequestsHaveRows
    <3>2. [hold[r] EXCEPT !.status = decision[r].status] \in Row
      BY <3>1 DEF Row
    <3>3. QED
      BY <2>3, <3>2 DEF WriteDecided
  <2>4. QED
    BY <1>3, <2>1, <2>2, <2>3 DEF Human
<1>4. ASSUME NEW m \in Manual, CreateByHand(m)
      PROVE  TypeOK'
  <2>1. NewRow \in Row
    BY DEF NewRow, Row, Statuses, Levels
  <2>2. QED
    BY <1>4, <2>1 DEF CreateByHand
<1>5. CASE UNCHANGED vars
  BY <1>5 DEF vars
<1>6. QED
  BY <1>1, <1>2, <1>3, <1>4, <1>5 DEF Next

\* Rows are never deleted, so a request keeps its row.
LEMMA RequestsStep ==
  ASSUME TypeOK, RequestsHaveRows, [Next]_vars
  PROVE  RequestsHaveRows'
<1> USE DEF TypeOK, RequestsHaveRows, versionVars, loopVars
<1>1. \A p \in Proposals : row[p] # NoRow => row'[p] # NoRow
  <2>1. NewRow # NoRow
    <3>1. NewRow \in Row
      BY DEF NewRow, Row, Statuses, Levels
    <3>2. QED
      BY <3>1, NoRowAssumption
  <2>2. ASSUME NEW p \in Loops, WriteRow(p)
        PROVE  row' = [row EXCEPT ![p] = Changed(p, hold[p])] /\ Changed(p, hold[p]) # NoRow
    <3>1. hold[p] \in Row
      BY <2>2 DEF WriteRow, Actors, Writers
    <3>2. Changed(p, hold[p]) \in Row
      BY <2>2, <3>1, ChangedType DEF WriteRow
    <3>3. QED
      BY <2>2, <3>2, NoRowAssumption DEF WriteRow
  <2>3. ASSUME NEW r \in Requests, WriteDecided(r)
        PROVE  /\ row' = [row EXCEPT ![decision[r].proposal] =
                                   [hold[r] EXCEPT !.status = decision[r].status]]
               /\ [hold[r] EXCEPT !.status = decision[r].status] # NoRow
    <3>1. hold[r] \in Row /\ decision[r].status \in Statuses
      BY <2>3 DEF WriteDecided, Goes, Statuses, Actors
    <3>2. [hold[r] EXCEPT !.status = decision[r].status] \in Row
      BY <3>1 DEF Row
    <3>3. QED
      BY <2>3, <3>2, NoRowAssumption DEF WriteDecided
  <2>4. QED
    BY <2>1, <2>2, <2>3 DEF Next, Loop, Step, Policy, Rollback, Human, vars, Trigger,
       TriggerSkipped, CreateProposal, ReadRow, RunShadow, ReadBase, Stamp, Insert, Report,
       Raise, End, EndUnsaved, Crash, ReadPrevious, Find, ReadDecided, CreateByHand
<1>0. \A r \in Requests : decision[r] # NoRow => decision[r].proposal \in Proposals
  OBVIOUS
<1>2. ASSUME NEW r \in Requests, Human(r)
      PROVE  RequestsHaveRows'
  <2>1. CASE Find(r)
    <3>1. PICK p \in Proposals, s \in {"approved", "rejected"} :
            /\ row[p] # NoRow
            /\ decision' = [decision EXCEPT ![r] = [proposal |-> p, status |-> s]]
      BY <2>1 DEF Find, InInbox
    <3>2. [proposal |-> p, status |-> s] # NoRow
      <4>1. [proposal |-> p, status |-> s] \in [proposal : Proposals, status : Statuses]
        BY DEF Statuses
      <4>2. QED
        BY <4>1, NoRowAssumption
    <3>3. UNCHANGED <<row, hold>> /\ stage' = [stage EXCEPT ![r] = "find"]
      BY <2>1 DEF Find, Goes
    <3>4. QED
      BY <1>0, <3>1, <3>2, <3>3 DEF Actors
  <2>2. CASE ReadDecided(r)
    BY <1>1, <1>2, <2>2 DEF ReadDecided, Goes, Actors
  <2>3. CASE WriteDecided(r)
    BY <1>1, <1>2, <2>3 DEF WriteDecided, Goes, Actors
  <2>4. QED
    BY <1>2, <2>1, <2>2, <2>3 DEF Human
<1>3. ASSUME NEW a \in Writers, Loop(a) \/ Rollback(a)
      PROVE  RequestsHaveRows'
  <2>1. \A r \in Requests : r # a
    BY LoopAssumption
  <2>2. /\ UNCHANGED decision
        /\ \A r \in Requests : stage'[r] = stage[r] /\ hold'[r] = hold[r]
    BY <1>3, <2>1 DEF Loop, Step, Policy, Rollback, Trigger, TriggerSkipped, CreateProposal,
       ReadRow, WriteRow, RunShadow, ReadBase, Stamp, Insert, Report, Raise, End, EndUnsaved, Crash,
       ReadPrevious, Goes, Actors
  <2>3. QED
    BY <1>0, <1>1, <2>2
<1>4. CASE (\E m \in Manual : CreateByHand(m)) \/ UNCHANGED vars
  BY <1>1, <1>4 DEF CreateByHand, vars
<1>5. QED
  <2>1. Loops \subseteq Writers /\ Rollbacks \subseteq Writers
    BY DEF Writers
  <2>2. ASSUME NEW p \in Loops, Loop(p) PROVE RequestsHaveRows'
    BY <1>3, <2>1, <2>2
  <2>3. ASSUME NEW o \in Rollbacks, Rollback(o) PROVE RequestsHaveRows'
    BY <1>3, <2>1, <2>3
  <2>4. CASE \E r \in Requests : Human(r)
    BY <1>2, <2>4
  <2>5. QED
    BY <1>4, <2>2, <2>3, <2>4 DEF Next

-----------------------------------------------------------------------------
(* The invariant is inductive *)

\* Only stamps and inserts touch the history.
LEMMA HistoryFrame ==
  ASSUME UNCHANGED <<versions, draft>>
  PROVE  /\ Stored' = Stored
         /\ \A i \in DOMAIN versions : HasOrigin(i) => HasOrigin(i)'
         /\ \A w : InHistory(w)' <=> InHistory(w)
BY DEF Stored, HasOrigin, InHistory, SlotsOf, Patched

LEMMA HistorySteps ==
  ASSUME [Next]_vars
  PROVE  \/ \E w \in Writers : Stamp(w) \/ Insert(w)
         \/ UNCHANGED <<versions, draft>>
BY DEF Next, Loop, Step, Policy, Rollback, Human, vars, versionVars, Trigger,
   TriggerSkipped, CreateProposal, ReadRow, WriteRow, RunShadow, ReadBase, Report, Raise,
   End, EndUnsaved, Crash, ReadPrevious, Find, ReadDecided, WriteDecided, CreateByHand, Writers

LEMMA DraftsHaveWritersStep ==
  ASSUME TypeOK, DraftsHaveWriters, DraftsHaveStages, [Next]_vars
  PROVE  DraftsHaveWriters'
<1>1. ASSUME NEW w \in Writers, Stamp(w)
      PROVE  DraftsHaveWriters'
  <2>1. draft[w] = 0
    BY <1>1 DEF Stamp, Goes, DraftsHaveStages, UndraftedStages
  <2>2. \A i \in DOMAIN versions : versions[i].by # w
    <3>1. w # "seed"
      BY LoopAssumption
    <3>2. \A i \in DOMAIN versions : i # 0
      BY StoredVersions
    <3>3. QED
      BY <2>1, <3>1, <3>2 DEF DraftsHaveWriters
  <2>3. draft \in [Writers -> Nat]
    BY DEF TypeOK
  <2>4. \A i \in DOMAIN versions : versions[i].by \in Writers \cup {"seed"}
    BY StoredVersions DEF Version
  <2> DEFINE n == Len(versions) + 1
  <2>5. /\ DOMAIN versions' = (DOMAIN versions) \cup {n} /\ n \notin DOMAIN versions /\ n # 0
        /\ \A i \in DOMAIN versions : versions'[i] = versions[i]
        /\ versions'[n].by = w
        /\ draft' = [draft EXCEPT ![w] = n]
    <3>1. DOMAIN versions' = 1..n
      BY <1>1, StampAppends
    <3>2. DOMAIN versions = 1..Len(versions) /\ Len(versions) \in Nat
      BY StoredVersions
    <3>3. QED
      BY <1>1, <3>1, <3>2, StampAppends
  <2> HIDE DEF n
  <2>6. ASSUME NEW i \in DOMAIN versions', versions'[i].by # "seed"
        PROVE  draft'[versions'[i].by] = i
    BY <2>2, <2>3, <2>4, <2>5, <2>6 DEF DraftsHaveWriters
  <2>7. ASSUME NEW u \in Writers, draft'[u] # 0
        PROVE  draft'[u] \in DOMAIN versions' /\ versions'[draft'[u]].by = u
    BY <2>3, <2>5, <2>7 DEF DraftsHaveWriters
  <2>8. QED
    BY <2>6, <2>7 DEF DraftsHaveWriters
<1>2. ASSUME NEW w \in Writers, Insert(w)
      PROVE  DraftsHaveWriters'
  <2>1. draft' = draft
    BY <1>2 DEF Insert
  <2>2. QED
    BY <1>2, <2>1, InsertStores DEF DraftsHaveWriters
<1>3. CASE UNCHANGED <<versions, draft>>
  BY <1>3 DEF DraftsHaveWriters
<1>4. QED
  BY <1>1, <1>2, <1>3, HistorySteps

\* A step takes place at one actor; the stage of every other one stays.
LEMMA DraftsHaveStagesStep ==
  ASSUME TypeOK, DraftsHaveWriters, DraftsHaveStages, [Next]_vars
  PROVE  DraftsHaveStages'
<1> USE DEF DraftsHaveStages, UndraftedStages
<1>0. stage \in [Actors -> Stages] /\ draft \in [Writers -> Nat]
  BY DEF TypeOK
<1>a. Loops \subseteq Writers /\ Rollbacks \subseteq Writers /\ Writers \subseteq Actors
      /\ Loops \cap Rollbacks = {}
  BY LoopAssumption DEF Actors, Writers
<1>1. ASSUME NEW w \in Writers, Stamp(w)
      PROVE  DraftsHaveStages'
  <2>1. stage[w] = "stamp" /\ stage' = [stage EXCEPT ![w] = "insert"]
    BY <1>1 DEF Stamp, Goes
  <2>2. draft' = [draft EXCEPT ![w] = Len(versions) + 1] /\ Len(versions) + 1 # 0
    BY <1>1, StampAppends, StoredVersions
  <2>3. \A p \in Loops : InHistory(p) /\ p # w => InHistory(p)'
    <3>1. \A i \in DOMAIN versions : versions'[i] = versions[i]
      BY <1>1, StampAppends
    <3>2. QED
      BY <1>0, <1>a, <2>2, <3>1 DEF InHistory, DraftsHaveWriters
  <2>4. QED
    BY <1>0, <1>a, <2>1, <2>2, <2>3
<1>2. ASSUME NEW w \in Writers, Insert(w)
      PROVE  DraftsHaveStages'
  <2>1. /\ stage[w] = "insert"
        /\ stage' = [stage EXCEPT ![w] = IF w \in Loops THEN "applied" ELSE "over"]
        /\ draft' = draft
    BY <1>2 DEF Insert, Goes
  <2>2. \A p \in Loops : InHistory(p) \/ p = w => InHistory(p)'
    <3>1. \A i \in DOMAIN versions :
            versions'[i].stored = (versions[i].stored \/ i = draft[w])
      BY <1>2, InsertStores
    <3>2. QED
      BY <1>0, <1>a, <2>1, <3>1 DEF InHistory, DraftsHaveWriters
  <2>3. QED
    BY <1>0, <1>a, <2>1, <2>2
<1>3. ASSUME UNCHANGED <<versions, draft>>, NEW a \in Actors, NEW s,
             stage' = [stage EXCEPT ![a] = s],
             s \notin {"insert", "applied"},
             a \in Writers /\ s \in UndraftedStages => stage[a] \in UndraftedStages
      PROVE  DraftsHaveStages'
  BY <1>0, <1>3, <1>a, HistoryFrame
<1>4. CASE UNCHANGED <<versions, draft, stage>>
  BY <1>4, HistoryFrame
<1>5. ASSUME NEW p \in Loops, Loop(p), ~Stamp(p), ~Insert(p)
      PROVE  DraftsHaveStages'
  <2>1. CASE Trigger(p) \/ TriggerSkipped(p) \/ CreateProposal(p) \/ RunShadow(p)
             \/ ReadBase(p) \/ Report(p)
    BY <1>0, <1>3, <1>a, <2>1 DEF Trigger, TriggerSkipped, CreateProposal, RunShadow,
       ReadBase, Report, Goes, versionVars
  <2>2. CASE Raise(p) \/ End(p) \/ EndUnsaved(p) \/ Crash(p)
    <3>1. /\ UNCHANGED <<versions, draft>>
          /\ \E s \in {"failing", "over", "lost", "dead"} : stage' = [stage EXCEPT ![p] = s]
      BY <2>2 DEF Raise, End, EndUnsaved, Crash, versionVars
    <3>2. PICK s \in {"failing", "over", "lost", "dead"} : stage' = [stage EXCEPT ![p] = s]
      BY <3>1
    <3>3. s \notin UndraftedStages
      BY <3>2 DEF UndraftedStages
    <3>4. QED
      BY <1>3, <1>a, <3>1, <3>2, <3>3
  <2>3. CASE ReadRow(p)
    BY <1>4, <2>3 DEF ReadRow, versionVars
  <2>4. CASE WriteRow(p)
    <3>1. /\ NextStage(p) \notin {"insert", "applied"}
          /\ NextStage(p) \in UndraftedStages => stage[p] \in UndraftedStages
      BY <2>4 DEF WriteRow, NextStage, UpdateStages
    <3>2. UNCHANGED <<versions, draft>> /\ stage' = [stage EXCEPT ![p] = NextStage(p)]
      BY <2>4 DEF WriteRow, versionVars
    <3>3. QED
      BY <1>3, <1>a, <3>1, <3>2
  <2>5. QED
    BY <1>5, <2>1, <2>2, <2>3, <2>4 DEF Loop, Step, Policy
<1>6. ASSUME NEW o \in Rollbacks, ReadPrevious(o)
      PROVE  DraftsHaveStages'
  <2>1. /\ UNCHANGED <<versions, draft>>
        /\ stage[o] = "idle" /\ stage' = [stage EXCEPT ![o] = "stamp"]
    BY <1>6 DEF ReadPrevious, Goes
  <2>2. QED
    BY <1>0, <1>a, <2>1, HistoryFrame
<1>7. ASSUME NEW r \in Requests, Human(r)
      PROVE  DraftsHaveStages'
  <2>1. r \in Actors /\ r \notin Writers
    BY LoopAssumption DEF Actors
  <2>2. QED
    BY <1>3, <1>7, <2>1 DEF Human, Find, ReadDecided, WriteDecided, Goes, versionVars
<1>8. CASE (\E m \in Manual : CreateByHand(m)) \/ UNCHANGED vars
  BY <1>4, <1>8 DEF CreateByHand, vars, versionVars
<1>9. QED
  BY <1>1, <1>2, <1>5, <1>6, <1>7, <1>8, <1>a DEF Next, Rollback

\* The stages of a loop follow what the policy and the shadow run said.
LEMMA StagesFollowVerdictsStep ==
  ASSUME TypeOK, DraftsHaveWriters, DraftsHaveStages, StagesFollowVerdicts, [Next]_vars
  PROVE  StagesFollowVerdicts'
<1> USE DEF StagesFollowVerdicts
<1>0. /\ stage \in [Actors -> Stages] /\ draft \in [Writers -> Nat]
      /\ passed \in [Loops -> BOOLEAN]
      /\ loopRow \in [Loops -> {"none", "running", "completed", "failed", "skipped"}]
      /\ report \in [Loops -> Reports]
  BY DEF TypeOK
<1>a. Loops \subseteq Writers /\ Rollbacks \subseteq Writers /\ Writers \subseteq Actors
      /\ Loops \cap Rollbacks = {} /\ Loops \cap Requests = {}
  BY LoopAssumption DEF Actors, Writers
<1>b. \A p \in Loops : Level(p) \in Levels
  BY LevelType
<1>c. \A p \in Loops : Level(p)' = Level(p)
  BY DEF Level
<1>1. ASSUME NEW w \in Writers, Stamp(w)
      PROVE  StagesFollowVerdicts'
  <2>1. /\ stage[w] = "stamp" /\ stage' = [stage EXCEPT ![w] = "insert"]
        /\ UNCHANGED <<passed, loopRow, report>>
    BY <1>1 DEF Stamp, Goes, loopVars
  <2>2. draft' = [draft EXCEPT ![w] = Len(versions) + 1]
    BY <1>1, StampAppends
  <2>3. \A p \in Loops \ {w} : InHistory(p)' <=> InHistory(p)
    <3>1. \A i \in DOMAIN versions : versions'[i] = versions[i]
      BY <1>1, StampAppends
    <3>2. QED
      BY <1>0, <1>a, <2>2, <3>1 DEF InHistory, DraftsHaveWriters
  <2>4. \A p \in Loops : p # w => draft'[p] = draft[p] /\ stage'[p] = stage[p]
    BY <1>0, <1>a, <2>1, <2>2
  <2>5. \A p \in Loops : p = w => stage'[p] = "insert"
    BY <1>0, <1>a, <2>1
  <2>6. \A p \in Loops : Action(p)' = Action(p) /\ (Vetted(p)' <=> Vetted(p))
    BY <1>c, <2>1 DEF Action, Vetted
  <2>7. ASSUME NEW p \in Loops PROVE loopRow[p] = "completed" => stage[p] # "stamp"
    OBVIOUS
  <2>8. QED
    BY <1>c, <2>1, <2>3, <2>4, <2>5, <2>6, <2>7
<1>2. ASSUME NEW w \in Writers, Insert(w)
      PROVE  StagesFollowVerdicts'
  <2>1. /\ stage[w] = "insert" /\ draft' = draft
        /\ stage' = [stage EXCEPT ![w] = IF w \in Loops THEN "applied" ELSE "over"]
        /\ UNCHANGED <<passed, loopRow, report>>
    BY <1>2 DEF Insert, Goes, loopVars
  <2>2. \A p \in Loops \ {w} : InHistory(p)' <=> InHistory(p)
    <3>1. \A i \in DOMAIN versions :
            versions'[i].stored = (versions[i].stored \/ i = draft[w])
      BY <1>2, InsertStores
    <3>2. \A p \in Loops \ {w} : draft[p] # 0 => draft[p] \in DOMAIN versions /\ draft[p] # draft[w]
      BY <1>0, <1>a, <2>1 DEF DraftsHaveWriters, DraftsHaveStages
    <3>3. \A i \in DOMAIN versions : versions[i].stored \in BOOLEAN
      BY StoredVersions DEF Version
    <3>4. QED
      BY <2>1, <3>1, <3>2, <3>3 DEF InHistory
  <2>3. \A p \in Loops : p # w => stage'[p] = stage[p]
    BY <1>0, <1>a, <2>1
  <2>4. \A p \in Loops : p = w => stage'[p] = "applied"
    BY <1>0, <1>a, <2>1
  <2>5. \A p \in Loops : Action(p)' = Action(p) /\ (Vetted(p)' <=> Vetted(p))
    BY <1>c, <2>1 DEF Action, Vetted
  <2>6. ASSUME NEW p \in Loops PROVE loopRow[p] = "completed" => stage[p] # "insert"
    OBVIOUS
  <2>7. QED
    BY <1>c, <2>1, <2>2, <2>3, <2>4, <2>5, <2>6
<1>3. ASSUME NEW p \in Loops, Loop(p), ~Stamp(p), ~Insert(p)
      PROVE  StagesFollowVerdicts'
  <2>1. UNCHANGED <<versions, draft>>
    BY <1>3 DEF Loop, Step, Policy, Trigger, TriggerSkipped, CreateProposal, ReadRow,
       WriteRow, RunShadow, ReadBase, Report, Raise, End, EndUnsaved, Crash, versionVars
  <2>2. \A q \in Loops : InHistory(q)' <=> InHistory(q)
    BY <2>1, HistoryFrame
  <2>3. draft[p] # 0 => stage[p] \notin UndraftedStages
    BY <1>a DEF DraftsHaveStages
  <2>4. CASE Trigger(p) \/ TriggerSkipped(p) \/ CreateProposal(p) \/ ReadBase(p)
    <3>1. /\ UNCHANGED <<passed, report>>
          /\ \A q \in Loops \ {p} : stage'[q] = stage[q] /\ loopRow'[q] = loopRow[q]
          /\ stage'[p] \in {"adapter", "over", "level", "stamp"}
          /\ stage'[p] = "stamp" => Vetted(p)
          /\ loopRow'[p] # "completed"
      BY <1>0, <1>a, <2>4 DEF Trigger, TriggerSkipped, CreateProposal, ReadBase, Goes, loopVars
    <3>2. \A q \in Loops : Action(q)' = Action(q) /\ (Vetted(q)' <=> Vetted(q))
      BY <1>c, <3>1 DEF Action, Vetted
    <3>3. QED
      BY <1>c, <2>1, <2>2, <3>1, <3>2
  <2>5. CASE Raise(p) \/ EndUnsaved(p) \/ Crash(p) \/ ReadRow(p)
    <3>1. /\ UNCHANGED <<passed, report, loopRow>>
          /\ \A q \in Loops \ {p} : stage'[q] = stage[q]
          /\ stage'[p] \in {"failing", "lost", "dead", stage[p]}
          /\ stage'[p] # stage[p] => loopRow[p] # "completed"
      BY <1>0, <1>a, <2>5 DEF Raise, EndUnsaved, Ending, Crash, ReadRow, Running, Trying,
         loopVars
    <3>2. \A q \in Loops : Action(q)' = Action(q) /\ (Vetted(q)' <=> Vetted(q))
      BY <1>c, <3>1 DEF Action, Vetted
    <3>3. QED
      BY <1>c, <2>1, <2>2, <3>1, <3>2
  <2>6. CASE RunShadow(p)
    BY <1>0, <1>a, <1>b, <1>c, <2>1, <2>2, <2>3, <2>6 DEF RunShadow, Goes, loopVars,
       Vetted, Action, UndraftedStages
  <2>7. CASE Report(p)
    BY <1>0, <1>a, <1>b, <1>c, <2>1, <2>2, <2>3, <2>7 DEF Report, Goes, Vetted, Action
  <2>8. CASE WriteRow(p)
    <3>1. /\ UNCHANGED <<passed, loopRow, report>>
          /\ stage' = [stage EXCEPT ![p] = NextStage(p)]
          /\ stage[p] \in UpdateStages
      BY <2>8 DEF WriteRow, loopVars
    <3>2. /\ NextStage(p) \in {"base", "stamp", "insert", "applied"} => Vetted(p)
          /\ NextStage(p) \in {"shadow", "verdict"} => Level(p) # "blocked"
          /\ NextStage(p) \in {"skip", "refuse", "await", "approve"} => ~Vetted(p)
      BY <1>b, <3>1 DEF NextStage, Vetted, Levels, UpdateStages
    <3>a. NextStage(p) # "completing"
      BY DEF NextStage
    <3>3. NextStage(p) = "report" => (Vetted(p) <=> InHistory(p))
      BY <1>0, <1>a, <2>3, <3>1
         DEF NextStage, InHistory, UndraftedStages, UpdateStages, DraftsHaveStages
    <3>4. NextStage(p) = "report" => (draft[p] # 0 => InHistory(p))
      BY <1>0, <1>a, <2>3, <3>1
         DEF NextStage, UndraftedStages, UpdateStages, DraftsHaveStages
    <3>5. loopRow[p] # "completed"
      BY <3>1 DEF UpdateStages
    <3>6. \A q \in Loops : /\ Action(q)' = Action(q) /\ (Vetted(q)' <=> Vetted(q))
                           /\ q # p => stage'[q] = stage[q]
      BY <1>0, <1>a, <1>c, <3>1 DEF Action, Vetted
    <3>7. stage'[p] = NextStage(p)
      BY <1>0, <1>a, <3>1
    <3>8. QED
      BY <1>c, <2>1, <2>2, <3>a, <3>1, <3>2, <3>3, <3>4, <3>5, <3>6, <3>7
  <2>9. CASE End(p)
    <3>1. /\ UNCHANGED <<passed, report>>
          /\ \A q \in Loops \ {p} : stage'[q] = stage[q] /\ loopRow'[q] = loopRow[q]
          /\ stage'[p] = "over"
          /\ loopRow'[p] = "completed" => stage[p] = "completing"
      BY <1>0, <1>a, <2>9 DEF End, Ending
    <3>2. \A q \in Loops : Action(q)' = Action(q) /\ (Vetted(q)' <=> Vetted(q))
      BY <1>c, <3>1 DEF Action, Vetted
    <3>3. QED
      BY <1>c, <2>1, <2>2, <3>1, <3>2
  <2>10. QED
    BY <1>3, <2>4, <2>5, <2>6, <2>7, <2>8, <2>9 DEF Loop, Step, Policy
<1>4. ASSUME UNCHANGED <<versions, draft, passed, loopRow, report>>,
             \A p \in Loops : stage'[p] = stage[p]
      PROVE  StagesFollowVerdicts'
  <2>1. \A p \in Loops : /\ InHistory(p)' <=> InHistory(p)
                         /\ Action(p)' = Action(p) /\ (Vetted(p)' <=> Vetted(p))
    BY <1>4, <1>c, HistoryFrame DEF Action, Vetted
  <2>2. QED
    BY <1>4, <1>c, <2>1
<1>5. ASSUME NEW o \in Rollbacks, ReadPrevious(o)
      PROVE  StagesFollowVerdicts'
  BY <1>0, <1>4, <1>5, <1>a DEF ReadPrevious, Goes, loopVars
<1>6. ASSUME NEW r \in Requests, Human(r)
      PROVE  StagesFollowVerdicts'
  BY <1>0, <1>4, <1>6, <1>a DEF Human, Find, ReadDecided, WriteDecided, Goes, versionVars,
     loopVars
<1>7. CASE (\E m \in Manual : CreateByHand(m)) \/ UNCHANGED vars
  BY <1>4, <1>7 DEF CreateByHand, vars, versionVars, loopVars
<1>8. QED
  BY <1>1, <1>2, <1>3, <1>5, <1>6, <1>7, <1>a DEF Next, Rollback

\* The history is only appended to, and what is in it stays as it is.
LEMMA HistoryGrows ==
  ASSUME TypeOK, DraftsHaveWriters, DraftsHaveStages, [Next]_vars
  PROVE  /\ DOMAIN versions \subseteq DOMAIN versions'
         /\ \A i \in DOMAIN versions :
              /\ versions'[i].slots = versions[i].slots
              /\ versions'[i].parent = versions[i].parent
              /\ versions'[i].by = versions[i].by
         /\ Stored \subseteq Stored'
         /\ \A w \in Writers : InHistory(w) => InHistory(w)'
<1>0. draft \in [Writers -> Nat]
  BY DEF TypeOK
<1>1. ASSUME NEW w \in Writers, Stamp(w)
      PROVE  /\ DOMAIN versions \subseteq DOMAIN versions'
             /\ \A i \in DOMAIN versions : versions'[i] = versions[i]
             /\ Stored' = Stored
             /\ \A u \in Writers : InHistory(u) => InHistory(u)'
  <2>1. draft[w] = 0
    BY <1>1 DEF Stamp, Goes, DraftsHaveStages, UndraftedStages
  <2>2. DOMAIN versions \subseteq DOMAIN versions'
    BY <1>1, StampAppends, StoredVersions
  <2>3. /\ \A i \in DOMAIN versions : versions'[i] = versions[i]
        /\ Stored' = Stored
        /\ draft' = [draft EXCEPT ![w] = Len(versions) + 1]
    BY <1>1, StampAppends
  <2>4. QED
    BY <1>0, <2>1, <2>2, <2>3 DEF InHistory, DraftsHaveWriters
<1>2. ASSUME NEW w \in Writers, Insert(w)
      PROVE  /\ DOMAIN versions' = DOMAIN versions
             /\ \A i \in DOMAIN versions :
                  /\ versions'[i].slots = versions[i].slots
                  /\ versions'[i].parent = versions[i].parent
                  /\ versions'[i].by = versions[i].by
             /\ Stored \subseteq Stored'
             /\ \A u \in Writers : InHistory(u) => InHistory(u)'
  <2>1. draft' = draft
    BY <1>2 DEF Insert
  <2>2. QED
    BY <1>0, <1>2, <2>1, InsertStores DEF InHistory, DraftsHaveWriters
<1>3. CASE UNCHANGED <<versions, draft>>
  BY <1>3, HistoryFrame
<1>4. QED
  BY <1>1, <1>2, <1>3, HistorySteps

\* An update writes "applied" only when the version is stored, or when the row
\* said so before.
LEMMA AppliedImagesStep ==
  ASSUME TypeOK, RequestsHaveRows, DraftsHaveWriters, DraftsHaveStages, AppliedImages,
         [Next]_vars
  PROVE  AppliedImages'
<1> USE DEF AppliedImages
<1>1. \A p \in Loops : InHistory(p) => InHistory(p)'
  BY HistoryGrows DEF Writers
<1>2. SUFFICES ASSUME NEW p \in Loops, IsApplied(row[p])' \/ IsApplied(hold[p])'
               PROVE  InHistory(p)
  BY <1>1
<1>0. row \in [Proposals -> Row \cup {NoRow}] /\ hold \in [Actors -> Row \cup {NoRow}]
      /\ p \in Proposals /\ p \in Actors
  BY DEF TypeOK, Proposals, Actors, Writers
<1>3. ASSUME NEW q \in Loops, WriteRow(q)
      PROVE  InHistory(p)
  <2>1. CASE q # p
    BY <1>0, <1>2, <1>3, <2>1 DEF WriteRow, IsApplied
  <2>2. CASE q = p
    <3>1. hold[p] \in Row /\ stage[p] \in UpdateStages
      BY <1>0, <1>3, <2>2 DEF WriteRow
    <3>2. IsApplied(Changed(p, hold[p])) => stage[p] = "applied" \/ IsApplied(hold[p])
      BY <3>1, NoRowAssumption DEF Changed, IsApplied, UpdateStages, Row
    <3>3. row' = [row EXCEPT ![p] = Changed(p, hold[p])] /\ hold' = [hold EXCEPT ![p] = NoRow]
      BY <1>3, <2>2 DEF WriteRow
    <3>4. QED
      BY <1>0, <1>2, <3>2, <3>3 DEF IsApplied, DraftsHaveStages
  <2>3. QED
    BY <2>1, <2>2
<1>4. ASSUME NEW r \in Requests, Human(r)
      PROVE  InHistory(p)
  <2>1. hold'[p] = hold[p]
    <3>1. r # p
      BY LoopAssumption DEF Writers
    <3>2. QED
      BY <1>0, <1>4, <3>1 DEF Human, Find, ReadDecided, WriteDecided
  <2>2. IsApplied(row[p])' => IsApplied(row[p])
    <3>1. CASE WriteDecided(r)
      <4>1. hold[r] \in Row /\ decision[r].status \in {"approved", "rejected"}
        BY <3>1, RequestsHaveRows DEF WriteDecided, Goes, RequestsHaveRows, Actors, TypeOK
      <4>2. [hold[r] EXCEPT !.status = decision[r].status].status # "applied"
        BY <4>1 DEF Row
      <4>3. row' = [row EXCEPT ![decision[r].proposal] =
                                  [hold[r] EXCEPT !.status = decision[r].status]]
        BY <3>1 DEF WriteDecided
      <4>4. QED
        BY <1>0, <4>2, <4>3 DEF IsApplied
    <3>2. CASE Find(r) \/ ReadDecided(r)
      BY <3>2 DEF Find, ReadDecided, IsApplied
    <3>3. QED
      BY <1>4, <3>1, <3>2 DEF Human
  <2>3. QED
    BY <1>2, <2>1, <2>2 DEF IsApplied
<1>5. ASSUME NEW q \in Loops, CreateProposal(q) \/ ReadRow(q)
      PROVE  InHistory(p)
  <2>1. ~IsApplied(NewRow)
    BY DEF IsApplied, NewRow
  <2>2. QED
    BY <1>0, <1>2, <1>5, <2>1 DEF CreateProposal, ReadRow, IsApplied
<1>6. ASSUME NEW m \in Manual, CreateByHand(m)
      PROVE  InHistory(p)
  <2>1. m # p
    BY LoopAssumption
  <2>2. QED
    BY <1>0, <1>2, <1>6, <2>1 DEF CreateByHand, IsApplied
<1>7. ASSUME NEW q \in Loops, Raise(q) \/ Crash(q)
      PROVE  InHistory(p)
  BY <1>0, <1>2, <1>7 DEF Raise, Crash, IsApplied
<1>8. CASE UNCHANGED <<row, hold>>
  BY <1>2, <1>8 DEF IsApplied
<1>9. \/ \E q \in Loops : WriteRow(q) \/ CreateProposal(q) \/ ReadRow(q) \/ Raise(q) \/ Crash(q)
      \/ \E r \in Requests : Human(r)
      \/ \E m \in Manual : CreateByHand(m)
      \/ UNCHANGED <<row, hold>>
  BY DEF Next, Loop, Step, Policy, Rollback, vars, Trigger, TriggerSkipped, RunShadow,
     ReadBase, ReadPrevious, Stamp, Insert, Report, End, EndUnsaved
<1>10. QED
  BY <1>3, <1>4, <1>5, <1>6, <1>7, <1>8, <1>9

\* A version is stamped from what its writer has read, and that is in the
\* history before it.
LEMMA OriginsStep ==
  ASSUME TypeOK, DraftsHaveWriters, DraftsHaveStages, Origins, [Next]_vars
  PROVE  Origins'
<1> USE DEF Origins
<1>0. /\ stage \in [Actors -> Stages]
      /\ base \in [Writers -> [slots : SlotValues, version : Nat]]
      /\ Loops \subseteq Writers /\ Rollbacks \subseteq Writers /\ Writers \subseteq Actors
      /\ Loops \cap Rollbacks = {} /\ Writers \cap Requests = {}
  BY LoopAssumption DEF TypeOK, Actors, Writers
<1>1. \A i \in {0} \cup Stored : SlotsOf(i)' = SlotsOf(i)
  BY HistoryGrows, StoredVersions DEF SlotsOf
<1>2. \A slots \in SlotValues, p \in Loops : Patched(slots, p)' = Patched(slots, p)
  BY DEF Patched
<1>3. ASSUME NEW i \in DOMAIN versions
      PROVE  HasOrigin(i)'
  <2>1. /\ HasOrigin(i) /\ Stored \subseteq DOMAIN versions
        /\ versions'[i].slots = versions[i].slots
        /\ versions'[i].parent = versions[i].parent
        /\ versions'[i].by = versions[i].by
        /\ Stored \subseteq Stored'
    BY StoredVersions, HistoryGrows
  <2>2. CASE versions[i].by = "seed"
    BY <2>1, <2>2 DEF HasOrigin
  <2>3. CASE /\ versions[i].by \in Loops
             /\ \E j \in {0} \cup {k \in Stored : k < i} :
                  versions[i].slots = Patched(SlotsOf(j), versions[i].by)
    <3>1. PICK j \in {0} \cup {k \in Stored : k < i} :
            versions[i].slots = Patched(SlotsOf(j), versions[i].by)
      BY <2>3
    <3>2. SlotsOf(j)' = SlotsOf(j)
      BY <1>1, <3>1
    <3>3. versions'[i].slots = Patched(SlotsOf(j), versions[i].by)'
      BY <2>1, <3>1, <3>2 DEF Patched
    <3>4. QED
      BY <2>1, <2>3, <3>3 DEF HasOrigin
  <2>4. CASE /\ versions[i].by \in Rollbacks
             /\ versions[i].parent \in {k \in Stored : k < i}
             /\ versions[i].slots = versions[versions[i].parent].slots
    <3>1. versions'[versions[i].parent].slots = versions[versions[i].parent].slots
      BY <2>1, <2>4, HistoryGrows
    <3>2. QED
      BY <2>1, <2>4, <3>1 DEF HasOrigin
  <2>5. QED
    BY <2>1, <2>2, <2>3, <2>4 DEF HasOrigin
<1>4. ASSUME NEW w \in Writers, Stamp(w)
      PROVE  Origins'
  <2>0. PICK n \in Nat : n = Len(versions) + 1
    BY StoredVersions
  <2>1. /\ DOMAIN versions' = (DOMAIN versions) \cup {n}
        /\ \A k \in Stored : k \in Nat /\ k < n
        /\ 0 < n
    <3>1. DOMAIN versions' = 1..n
      BY <1>4, <2>0, StampAppends
    <3>2. QED
      BY <2>0, <3>1, StoredVersions
  <2>2. /\ versions'[n].slots = base[w].slots
        /\ versions'[n].by = w
        /\ w \in Rollbacks => versions'[n].parent = base[w].version
        /\ Stored' = Stored
        /\ \A i \in DOMAIN versions : versions'[i] = versions[i]
    BY <1>4, <2>0, StampAppends
  <2>3. stage[w] = "stamp" /\ stage' = [stage EXCEPT ![w] = "insert"] /\ base' = base
    BY <1>4 DEF Stamp, Goes
  <2>4. HasOrigin(n)'
    <3>1. CASE w \in Loops
      <4>1. PICK j \in {0} \cup Stored :
              j = base[w].version /\ base[w].slots = Patched(SlotsOf(j), w)
        BY <2>3, <3>1 DEF BasesHaveOrigins
      <4>2. SlotsOf(j)' = SlotsOf(j)
        BY <1>1
      <4>3. versions'[n].slots = Patched(SlotsOf(j), versions[n].by)'
        BY <2>2, <4>1, <4>2 DEF Patched
      <4>4. j \in {0} \cup {k \in Stored' : k < n}
        BY <2>1, <2>2
      <4>5. versions'[n].by \in Loops
        BY <2>2, <3>1
      <4>6. QED
        BY <4>3, <4>4, <4>5 DEF HasOrigin
    <3>2. CASE w \in Rollbacks
      <4>1. /\ base[w].version \in Stored
            /\ base[w].slots = versions[base[w].version].slots
        BY <2>3, <3>2 DEF BasesHaveOrigins
      <4>2. /\ versions'[n].parent \in {k \in Stored' : k < n}
            /\ versions'[n].by \in Rollbacks
        BY <2>1, <2>2, <3>2, <4>1
      <4>3. base[w].version \in DOMAIN versions
        BY <4>1, StoredVersions
      <4>4. versions'[n].slots = versions'[versions'[n].parent].slots
        BY <2>2, <3>2, <4>1, <4>3
      <4>5. QED
        BY <4>2, <4>4 DEF HasOrigin
    <3>3. QED
      BY <3>1, <3>2 DEF Writers
  <2>5. BasesHaveOrigins'
    BY <1>0, <1>1, <2>2, <2>3, StoredVersions DEF BasesHaveOrigins, Patched
  <2>6. \A i \in DOMAIN versions' : HasOrigin(i)'
    BY <1>3, <2>1, <2>4
  <2>7. QED
    BY <2>5, <2>6
<1>5. ASSUME DOMAIN versions' = DOMAIN versions, BasesHaveOrigins'
      PROVE  Origins'
  BY <1>3, <1>5
<1>6. ASSUME NEW w \in Writers, Insert(w)
      PROVE  Origins'
  <2>1. stage' = [stage EXCEPT ![w] = IF w \in Loops THEN "applied" ELSE "over"] /\ base' = base
    BY <1>6 DEF Insert, Goes
  <2>2. BasesHaveOrigins'
    BY <1>0, <1>1, <2>1, HistoryGrows, StoredVersions DEF BasesHaveOrigins, Patched
  <2>3. QED
    BY <1>5, <1>6, <2>2, InsertStores
<1>7. ASSUME NEW p \in Loops, ReadBase(p)
      PROVE  Origins'
  <2>1. PICK i \in Latest :
          base' = [base EXCEPT ![p] = [slots |-> Patched(SlotsOf(i), p), version |-> i]]
    BY <1>7 DEF ReadBase
  <2>2. /\ i \in {0} \cup Stored
        /\ versions' = versions /\ Stored' = Stored
        /\ stage' = [stage EXCEPT ![p] = "stamp"]
    BY <1>7, StoredVersions DEF ReadBase, Goes, Stored
  <2>3. BasesHaveOrigins'
    BY <1>0, <1>1, <2>1, <2>2 DEF BasesHaveOrigins, Patched
  <2>4. QED
    BY <1>5, <2>2, <2>3
<1>8. ASSUME NEW o \in Rollbacks, ReadPrevious(o)
      PROVE  Origins'
  <2>1. PICK i \in LastOf(Stored \ LastOf(Stored)) :
          base' = [base EXCEPT ![o] = [slots |-> versions[i].slots, version |-> i]]
    BY <1>8 DEF ReadPrevious
  <2>2. /\ i \in Stored
        /\ versions' = versions /\ Stored' = Stored
        /\ stage' = [stage EXCEPT ![o] = "stamp"]
    BY <1>8, <2>1 DEF ReadPrevious, Goes, Stored, LastOf
  <2>3. BasesHaveOrigins'
    BY <1>0, <1>1, <2>1, <2>2 DEF BasesHaveOrigins, Patched
  <2>4. QED
    BY <1>5, <2>2, <2>3
<1>9. ASSUME UNCHANGED <<versions, base>>,
             \A w \in Writers : stage'[w] = "stamp" => stage[w] = "stamp"
      PROVE  Origins'
  <2>1. Stored' = Stored
    BY <1>9 DEF Stored
  <2>2. BasesHaveOrigins'
    BY <1>0, <1>1, <1>9, <2>1 DEF BasesHaveOrigins, Patched
  <2>3. QED
    BY <1>5, <1>9, <2>2
<1>10. ASSUME NEW p \in Loops, Loop(p), ~Stamp(p), ~Insert(p), ~ReadBase(p)
       PROVE  Origins'
  <2>1. NextStage(p) # "stamp"
    BY DEF NextStage
  <2>2. UNCHANGED <<versions, base>>
    BY <1>10 DEF Loop, Step, Policy, Trigger, TriggerSkipped, CreateProposal, ReadRow,
       WriteRow, RunShadow, Report, Raise, End, EndUnsaved, Crash, versionVars
  <2>3. \A w \in Writers : stage'[w] = "stamp" => stage[w] = "stamp"
    BY <1>0, <1>10, <2>1 DEF Loop, Step, Policy, Trigger, TriggerSkipped, CreateProposal,
       ReadRow, WriteRow, RunShadow, Report, Raise, End, EndUnsaved, Crash, Goes
  <2>4. QED
    BY <1>9, <2>2, <2>3
<1>11. ASSUME NEW r \in Requests, Human(r)
       PROVE  Origins'
  BY <1>0, <1>9, <1>11 DEF Human, Find, ReadDecided, WriteDecided, Goes, versionVars
<1>12. CASE (\E m \in Manual : CreateByHand(m)) \/ UNCHANGED vars
  BY <1>9, <1>12 DEF CreateByHand, vars, versionVars
<1>13. QED
  BY <1>0, <1>4, <1>6, <1>7, <1>8, <1>10, <1>11, <1>12 DEF Next, Rollback

-----------------------------------------------------------------------------
(* The theorems *)

LEMMA InitialTypes == Init => TypeOK
<1> SUFFICES ASSUME Init PROVE TypeOK
  OBVIOUS
<1>1. Seed \in Version
  BY DEF Seed, Version, SeedSlots, SlotValues
<1>2. versions \in Seq(Version)
  <2>1. <<>> \in Seq(Version) /\ <<Seed>> \in Seq(Version)
    BY <1>1
  <2>2. QED
    BY <2>1 DEF Init
<1>3. NoSlots \in SlotValues
  BY DEF NoSlots, SlotValues
<1>4. QED
  BY <1>2, <1>3 DEF Init, TypeOK, Stages, UpdateStages, Reports

LEMMA InitialInvariant == Init => LoopInv
<1> SUFFICES ASSUME Init PROVE LoopInv
  OBVIOUS
<1>0. Loops \subseteq Writers /\ Writers \subseteq Actors /\ Requests \subseteq Actors
      /\ Loops \subseteq Proposals /\ Rollbacks \subseteq Writers
  BY DEF Writers, Actors, Proposals
<1>1. \A i \in DOMAIN versions : versions[i].by = "seed"
  BY DEF Init, Seed
<1>2. \A w \in Writers : draft[w] = 0 /\ stage[w] = "idle"
  BY <1>0 DEF Init
<1>3. RequestsHaveRows
  BY <1>0 DEF Init, RequestsHaveRows
<1>4. DraftsHaveWriters /\ DraftsHaveStages
  BY <1>0, <1>1, <1>2 DEF DraftsHaveWriters, DraftsHaveStages
<1>5. StagesFollowVerdicts
  BY <1>0, <1>2 DEF Init, StagesFollowVerdicts
<1>6. AppliedImages
  BY <1>0 DEF Init, AppliedImages, IsApplied
<1>7. Origins
  BY <1>0, <1>1, <1>2 DEF Origins, BasesHaveOrigins, HasOrigin
<1>8. QED
  BY <1>3, <1>4, <1>5, <1>6, <1>7 DEF LoopInv

\* In every reachable state the variables have their types and the invariant
\* holds: requests are about rows, versions have one writer each, stages follow
\* verdicts and rows say "applied" of stored versions only.
THEOREM LoopInvariant == Spec => [](TypeOK /\ LoopInv)
<1>1. Init => TypeOK /\ LoopInv
  BY InitialTypes, InitialInvariant
<1>2. TypeOK /\ LoopInv /\ [Next]_vars => (TypeOK /\ LoopInv)'
  <2> SUFFICES ASSUME TypeOK, LoopInv, [Next]_vars PROVE TypeOK' /\ LoopInv'
    OBVIOUS
  <2>1. TypeOK' /\ RequestsHaveRows'
    BY TypeStep, RequestsStep DEF LoopInv
  <2>2. DraftsHaveWriters' /\ DraftsHaveStages'
    BY DraftsHaveWritersStep, DraftsHaveStagesStep DEF LoopInv
  <2>3. StagesFollowVerdicts'
    BY StagesFollowVerdictsStep DEF LoopInv
  <2>4. AppliedImages'
    BY AppliedImagesStep DEF LoopInv
  <2>5. Origins'
    BY OriginsStep DEF LoopInv
  <2>6. QED
    BY <2>1, <2>2, <2>3, <2>4, <2>5 DEF LoopInv
<1>3. QED
  BY <1>1, <1>2, PTL DEF Spec

\* Every reachable state is well typed.
THEOREM LoopTypes == Spec => []TypeOK
BY LoopInvariant, PTL

\* The versions of a loop are the one it remembers.
LEMMA OneVersionEach ==
  ASSUME TypeOK, LoopInv, NEW p \in Loops
  PROVE  /\ \A i \in VersionsBy(p) : i = draft[p] /\ draft[p] # 0
         /\ InHistory(p) <=> VersionsBy(p) \cap Stored # {}
<1>1. p \in Writers /\ p # "seed"
  BY LoopAssumption DEF Writers
<1>2. \A i \in VersionsBy(p) : i = draft[p] /\ i # 0
  BY <1>1, StoredVersions DEF VersionsBy, LoopInv, DraftsHaveWriters
<1>3. InHistory(p) => draft[p] \in VersionsBy(p) \cap Stored
  BY <1>1 DEF InHistory, VersionsBy, Stored, LoopInv, DraftsHaveWriters
<1>4. ASSUME NEW i \in VersionsBy(p) \cap Stored PROVE InHistory(p)
  BY <1>2 DEF InHistory, Stored
<1>5. QED
  BY <1>2, <1>3, <1>4

\* A proposal is marked applied only once a version with its patch is stored.
THEOREM AppliedProposalsAreInHistory == Spec => []AppliedIsInHistory
<1>1. TypeOK /\ LoopInv => AppliedIsInHistory
  BY OneVersionEach DEF AppliedIsInHistory, LoopInv, AppliedImages, IsApplied
<1>2. QED
  BY <1>1, LoopInvariant, PTL

\* No version is written, stored or not, for a proposal that the policy or the
\* shadow run of its loop has stopped.
THEOREM VettedBeforeWritten == Spec => []OnlyVettedChangePrompts
<1>1. TypeOK /\ LoopInv => OnlyVettedChangePrompts
  <2> SUFFICES ASSUME TypeOK, LoopInv, NEW p \in Loops
               PROVE  VersionsBy(p) # {} => Level(p) = "auto" /\ passed[p]
    BY DEF OnlyVettedChangePrompts
  <2>1. VersionsBy(p) # {} => draft[p] # 0
    BY OneVersionEach
  <2>2. QED
    BY <2>1 DEF LoopInv, StagesFollowVerdicts, Vetted
<1>2. QED
  BY <1>1, LoopInvariant, PTL

\* No loop writes two versions, whatever it is interrupted by.
THEOREM AppliedOnce == Spec => []AppliedAtMostOnce
<1>1. TypeOK /\ LoopInv => AppliedAtMostOnce
  BY OneVersionEach DEF AppliedAtMostOnce
<1>2. QED
  BY <1>1, LoopInvariant, PTL

\* Every stored version is an earlier stored one with one patch, or restored.
THEOREM VersionsHaveOrigins == Spec => []EveryVersionHasAnOrigin
<1>1. TypeOK /\ LoopInv => EveryVersionHasAnOrigin
  BY DEF EveryVersionHasAnOrigin, LoopInv, Origins, HasOrigin, Stored
<1>2. QED
  BY <1>1, LoopInvariant, PTL

\* A completed loop run reports an application exactly when one is stored.
THEOREM CompletedRunsTellTheTruth == Spec => []LoopTellsTheTruth
<1>1. TypeOK /\ LoopInv => LoopTellsTheTruth
  <2> SUFFICES ASSUME TypeOK, LoopInv, NEW p \in Loops, loopRow[p] = "completed"
               PROVE  report[p] = "auto_applied" <=> VersionsBy(p) \cap Stored # {}
    BY DEF LoopTellsTheTruth
  <2>1. report[p] = Action(p) /\ (Vetted(p) <=> InHistory(p))
    BY DEF LoopInv, StagesFollowVerdicts
  <2>2. Action(p) = "auto_applied" <=> Vetted(p)
    <3>1. Level(p) \in Levels /\ passed[p] \in BOOLEAN
      BY LevelType DEF TypeOK
    <3>2. QED
      BY <3>1 DEF Action, Vetted, Levels
  <2>3. QED
    BY <2>1, <2>2, OneVersionEach
<1>2. QED
  BY <1>1, LoopInvariant, PTL
=============================================================================
