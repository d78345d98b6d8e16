--------------------------- MODULE ImprovementLoop ---------------------------
(***************************************************************************)
(* How prompts change.  Each AgentLoopEngine execution runs an adapter,    *)
(* creates one prompt proposal and hands it to ScenarioPolicyService, which*)
(* blocks it, shadow-runs it, applies it or leaves it to a human.  Humans  *)
(* decide proposals through the approval inbox or the command line, and    *)
(* roll prompts back, while loops are under way: the stores share one      *)
(* SQLite file, every store call is a transaction of its own, and a status *)
(* or metadata update is two of them, a read and a write of the whole row. *)
(*                                                                         *)
(* A loop names its proposal too.  Each member of Loops, Rollbacks and     *)
(* Requests is one invocation, made at most once in a behaviour.           *)
(***************************************************************************)
EXTENDS Naturals, Sequences, FiniteSets

CONSTANTS
  Loops,     \* executions of the loop engine
  Manual,    \* proposals created from the command line; no loop processes them
  Rollbacks, \* invocations of PromptVersionStore.rollback
  Requests,  \* approve or reject requests of humans
  Channels,  \* how humans decide: "api" (through the inbox), "cli" (directly)
  PatchSlot, \* the prompt slot a proposal patches
  PatchOp,   \* the operation of its patch
  NoRow      \* no row of prompt_proposals

Proposals == Loops \cup Manual
Writers == Loops \cup Rollbacks
Actors == Writers \cup Requests

PromptSlots ==
  {"role", "goal", "constraints", "output_format", "style", "examples", "tools_policy"}
Operations == {"add", "remove", "replace", "compress", "refactor"}

ASSUME LoopAssumption ==
  /\ Loops \cap Manual = {} /\ Loops \cap Rollbacks = {}
  /\ Writers \cap Requests = {}
  /\ Channels \subseteq {"api", "cli"}
  /\ PatchSlot \in [Loops -> PromptSlots]
  /\ PatchOp \in [Loops -> Operations]
  /\ {"", "seed"} \cap Writers = {}

VARIABLES
  stage,    \* how far each invocation has come
  row,      \* prompt_proposals
  hold,     \* the row image an update has read and is about to write back
  passed,   \* what the loop's own shadow run said
  versions, \* prompt_versions ordered by created_at; stored once committed
  base,     \* the slots a writer starts from, and for a rollback their version
  draft,    \* the version a writer has stamped
  decision, \* the proposal and status a human request is about
  loopRow,  \* status of the loop run in the database
  report    \* its policy_action, in memory until the loop run is saved with it

versionVars == <<versions, base, draft>>
loopVars == <<loopRow, report>>
vars == <<stage, row, hold, passed, versionVars, decision, loopVars>>

Statuses == {"proposed", "approved", "rejected", "applied"}
Levels == {"auto", "approval", "blocked"}
UpdateStages == {"level", "skip", "refuse", "verdict", "applied", "await", "approve"}
Stages == UpdateStages \cup
  {"idle", "adapter", "shadow", "base", "stamp", "insert",
   "report", "completing", "failing", "find", "decide", "over", "lost", "dead"}
Reports == {"none", "blocked", "shadow_failed", "auto_applied", "awaiting_human_confirmation"}

Row == [status : Statuses, level : Levels \cup {"none"},
        shadow : {"none", "skipped", "passed", "failed"}, awaiting : BOOLEAN]
\* A slot holds the text of the proposal that last patched it, the text it was
\* seeded with, or nothing.
SlotValues == [PromptSlots -> Loops \cup {"", "seed"}]
Version == [slots : SlotValues, parent : Nat, by : Writers \cup {"seed"}, stored : BOOLEAN]

ASSUME NoRowAssumption ==
  NoRow \notin Row \cup [proposal : Proposals, status : Statuses]

NoSlots == [s \in PromptSlots |-> ""]
SeedSlots == [s \in PromptSlots |-> "seed"]
Seed == [slots |-> SeedSlots, parent |-> 0, by |-> "seed", stored |-> TRUE]
NewRow == [status |-> "proposed", level |-> "none", shadow |-> "none", awaiting |-> FALSE]

TypeOK ==
  /\ stage \in [Actors -> Stages]
  /\ row \in [Proposals -> Row \cup {NoRow}]
  /\ hold \in [Actors -> Row \cup {NoRow}]
  /\ passed \in [Loops -> BOOLEAN]
  /\ versions \in Seq(Version)
  /\ base \in [Writers -> [slots : SlotValues, version : Nat]]
  /\ draft \in [Writers -> Nat]
  /\ decision \in [Requests -> [proposal : Proposals, status : Statuses] \cup {NoRow}]
  /\ loopRow \in [Loops -> {"none", "running", "completed", "failed", "skipped"}]
  /\ report \in [Loops -> Reports]

Init ==
  /\ stage = [a \in Actors |-> "idle"]
  /\ row = [p \in Proposals |-> NoRow]
  /\ hold = [a \in Actors |-> NoRow]
  /\ passed = [p \in Loops |-> FALSE]
  /\ versions \in {<<>>, <<Seed>>}
  /\ base = [w \in Writers |-> [slots |-> NoSlots, version |-> 0]]
  /\ draft = [w \in Writers |-> 0]
  /\ decision = [r \in Requests |-> NoRow]
  /\ loopRow = [p \in Loops |-> "none"]
  /\ report = [p \in Loops |-> "none"]

Goes(a, from, to) == stage[a] = from /\ stage' = [stage EXCEPT ![a] = to]

-----------------------------------------------------------------------------
(* The loop up to its proposal *)

\* trigger_manual, or trigger_threshold with its threshold met.
Trigger(p) ==
  /\ Goes(p, "idle", "adapter")
  /\ loopRow' = [loopRow EXCEPT ![p] = "running"]
  /\ UNCHANGED <<row, hold, passed, versionVars, decision, report>>

\* trigger_threshold below its threshold.
TriggerSkipped(p) ==
  /\ Goes(p, "idle", "over")
  /\ loopRow' = [loopRow EXCEPT ![p] = "skipped"]
  /\ UNCHANGED <<row, hold, passed, versionVars, decision, report>>

\* The adapter has run; the factory's proposal is inserted.
CreateProposal(p) ==
  /\ Goes(p, "adapter", "level")
  /\ row' = [row EXCEPT ![p] = NewRow]
  /\ UNCHANGED <<hold, passed, versionVars, decision, loopVars>>

CreateByHand(m) ==
  /\ row[m] = NoRow
  /\ row' = [row EXCEPT ![m] = NewRow]
  /\ UNCHANGED <<stage, hold, passed, versionVars, decision, loopVars>>

-----------------------------------------------------------------------------
(* ScenarioPolicyService.process *)

\* ScenarioPolicy.evaluate
Level(p) ==
  CASE PatchOp[p] = "refactor" \/ PatchSlot[p] \in {"goal", "tools_policy"} -> "blocked"
    [] PatchOp[p] # "refactor" /\ PatchSlot[p] \in {"role", "constraints"} -> "approval"
    [] OTHER -> "auto"

\* Mutant: a status this life cycle does not use.
ChangedToCancelled(p, image) ==
  IF stage[p] = "refuse" THEN [image EXCEPT !.status = "cancelled"] ELSE image

\* What the update of each stage puts into the row image.
Changed(p, image) ==
  CASE stage[p] = "level"   -> [image EXCEPT !.level = Level(p)]
    [] stage[p] = "skip"    -> [image EXCEPT !.shadow = "skipped"]
    [] stage[p] = "refuse"  -> [image EXCEPT !.status = "rejected"]
    [] stage[p] = "verdict" -> [image EXCEPT !.shadow = IF passed[p] THEN "passed" ELSE "failed"]
    [] stage[p] = "applied" -> [image EXCEPT !.status = "applied"]
    [] stage[p] = "await"   -> [image EXCEPT !.awaiting = TRUE]
    [] stage[p] = "approve" -> [image EXCEPT !.status = "approved"]

\* Mutant: ignores what the shadow run said.
NextStageUnvetted(p) ==
  CASE stage[p] = "level"   -> IF Level(p) = "blocked" THEN "skip" ELSE "shadow"
    [] stage[p] = "skip"    -> "refuse"
    [] stage[p] = "verdict" -> IF Level(p) = "auto" THEN "base" ELSE "await"
    [] stage[p] = "await"   -> "approve"
    [] OTHER                -> "report"

\* Mutant: marks the proposal applied before its version is saved.
NextStageMarkFirst(p) ==
  CASE stage[p] = "level"   -> IF Level(p) = "blocked" THEN "skip" ELSE "shadow"
    [] stage[p] = "skip"    -> "refuse"
    [] stage[p] = "verdict" -> IF ~passed[p] THEN "refuse"
                               ELSE IF Level(p) = "auto" THEN "applied" ELSE "await"
    [] stage[p] = "applied" -> "base"
    [] stage[p] = "await"   -> "approve"
    [] OTHER                -> "report"

\* Where process goes after that update.
NextStage(p) ==
  CASE stage[p] = "level"   -> IF Level(p) = "blocked" THEN "skip" ELSE "shadow"
    [] stage[p] = "skip"    -> "refuse"
    [] stage[p] = "verdict" -> IF ~passed[p] THEN "refuse"
                               ELSE IF Level(p) = "auto" THEN "base" ELSE "await"
    [] stage[p] = "await"   -> "approve"
    [] OTHER                -> "report"

\* update_metadata and update_status read the row in one transaction ...
ReadRow(p) ==
  /\ stage[p] \in UpdateStages
  /\ hold[p] = NoRow
  /\ hold' = [hold EXCEPT ![p] = row[p]]
  /\ UNCHANGED <<stage, row, passed, versionVars, decision, loopVars>>

\* Mutant: writes back only if the row is as it was read, and does not retry.
WriteUnchangedRow(p) ==
  /\ stage[p] \in UpdateStages
  /\ hold[p] # NoRow /\ hold[p] = row[p]
  /\ row' = [row EXCEPT ![p] = Changed(p, hold[p])]
  /\ hold' = [hold EXCEPT ![p] = NoRow]
  /\ stage' = [stage EXCEPT ![p] = NextStage(p)]
  /\ UNCHANGED <<passed, versionVars, decision, loopVars>>

\* ... and write it back, all columns, in another.
WriteRow(p) ==
  /\ stage[p] \in UpdateStages
  /\ hold[p] # NoRow
  /\ row' = [row EXCEPT ![p] = Changed(p, hold[p])]
  /\ hold' = [hold EXCEPT ![p] = NoRow]
  /\ stage' = [stage EXCEPT ![p] = NextStage(p)]
  /\ UNCHANGED <<passed, versionVars, decision, loopVars>>

\* ShadowRunner.run records its result, whether the adapter supports it or not.
RunShadow(p) ==
  /\ Goes(p, "shadow", "verdict")
  /\ \E verdict \in BOOLEAN : passed' = [passed EXCEPT ![p] = verdict]
  /\ UNCHANGED <<row, hold, versionVars, decision, loopVars>>

-----------------------------------------------------------------------------
(* PromptVersionStore *)

Stored == {i \in DOMAIN versions : versions[i].stored}
LastOf(S) == {i \in S : \A j \in S : j <= i}

\* Mutant: takes the version of a writer that has not committed.
LatestStamped == {Len(versions)}

\* get_latest: the version, or 0 when there is none.
Latest == IF Stored = {} THEN {0} ELSE LastOf(Stored)
SlotsOf(i) == IF i = 0 THEN NoSlots ELSE versions[i].slots

\* _apply_auto_patch
Patched(slots, p) ==
  [slots EXCEPT ![PatchSlot[p]] = IF PatchOp[p] = "remove" THEN "" ELSE p]

\* _apply_auto_patch reads the latest version ...
ReadBase(p) ==
  /\ Goes(p, "base", "stamp")
  /\ \E i \in Latest :
       base' = [base EXCEPT ![p] = [slots |-> Patched(SlotsOf(i), p), version |-> i]]
  /\ UNCHANGED <<row, hold, passed, versions, draft, decision, loopVars>>

\* rollback reads the history and takes the last version but one.
ReadPrevious(o) ==
  /\ Goes(o, "idle", "stamp")
  /\ \E i \in LastOf(Stored \ LastOf(Stored)) :
       base' = [base EXCEPT ![o] = [slots |-> versions[i].slots, version |-> i]]
  /\ UNCHANGED <<row, hold, passed, versions, draft, decision, loopVars>>

\* ... save_version reads the latest one again, for the parent, and stamps the
\* new version with the time; versions are ordered by that stamp ...
Stamp(w) ==
  /\ Goes(w, "stamp", "insert")
  /\ \E i \in Latest :
       versions' = Append(versions,
         [slots  |-> base[w].slots,
          parent |-> IF w \in Rollbacks THEN base[w].version ELSE i,
          by     |-> w,
          stored |-> FALSE])
  /\ draft' = [draft EXCEPT ![w] = Len(versions) + 1]
  /\ UNCHANGED <<row, hold, passed, base, decision, loopVars>>

\* ... and inserts it.
Insert(w) ==
  /\ Goes(w, "insert", IF w \in Loops THEN "applied" ELSE "over")
  /\ versions' = [versions EXCEPT ![draft[w]].stored = TRUE]
  /\ UNCHANGED <<row, hold, passed, base, draft, decision, loopVars>>

-----------------------------------------------------------------------------
(* The end of a loop *)

Action(p) ==
  CASE Level(p) = "blocked"                  -> "blocked"
    [] Level(p) # "blocked" /\ ~passed[p]    -> "shadow_failed"
    [] Level(p) = "auto" /\ passed[p]        -> "auto_applied"
    [] Level(p) = "approval" /\ passed[p]    -> "awaiting_human_confirmation"

\* _process_policy notes the action; the steps behind it save the loop run, still
\* as running.
Report(p) ==
  /\ Goes(p, "report", "completing")
  /\ report' = [report EXCEPT ![p] = Action(p)]
  /\ UNCHANGED <<row, hold, passed, versionVars, decision, loopRow>>

Running(p) == stage[p] \notin {"idle", "over", "lost", "dead"}

\* The part of _execute inside its try.
Trying(p) == Running(p) /\ stage[p] \notin {"report", "failing"}

\* Mutant: processes the proposal once more.
RaiseAndRetry(p) ==
  /\ Trying(p)
  /\ row[p] # NoRow
  /\ stage' = [stage EXCEPT ![p] = "level"]
  /\ hold' = [hold EXCEPT ![p] = NoRow]
  /\ UNCHANGED <<row, passed, versionVars, decision, loopVars>>

\* Mutant: an exception does not show in the loop run.
RaiseUnnoticed(p) ==
  /\ Trying(p)
  /\ stage' = [stage EXCEPT ![p] = "completing"]
  /\ hold' = [hold EXCEPT ![p] = NoRow]
  /\ report' = [report EXCEPT ![p] = Action(p)]
  /\ UNCHANGED <<row, passed, versionVars, decision, loopRow>>

\* An adapter or a shadow run raises, or SQLite gives up waiting for its lock:
\* _execute marks the loop run failed; what was committed stays.
Raise(p) ==
  /\ Trying(p)
  /\ stage' = [stage EXCEPT ![p] = "failing"]
  /\ hold' = [hold EXCEPT ![p] = NoRow]
  /\ UNCHANGED <<row, passed, versionVars, decision, loopVars>>

Ending(p) == stage[p] \in {"completing", "failing"}

\* The last save, behind the try, ...
End(p) ==
  /\ Ending(p)
  /\ stage' = [stage EXCEPT ![p] = "over"]
  /\ loopRow' = [loopRow EXCEPT ![p] =
                    IF stage[p] = "completing" THEN "completed" ELSE "failed"]
  /\ UNCHANGED <<row, hold, passed, versionVars, decision, report>>

\* ... which nobody catches when it raises: the loop run stays "running".
EndUnsaved(p) ==
  /\ Ending(p)
  /\ stage' = [stage EXCEPT ![p] = "lost"]
  /\ UNCHANGED <<row, hold, passed, versionVars, decision, loopVars>>

\* The process of a loop dies; its loop run stays "running" for ever.
Crash(p) ==
  /\ Running(p)
  /\ stage' = [stage EXCEPT ![p] = "dead"]
  /\ hold' = [hold EXCEPT ![p] = NoRow]
  /\ UNCHANGED <<row, passed, versionVars, decision, loopVars>>

-----------------------------------------------------------------------------
(* Humans *)

\* ApprovalInbox.list_items
InInbox(p) ==
  /\ row[p] # NoRow
  /\ \/ row[p].status = "proposed"
     \/ row[p].status = "approved" /\ row[p].awaiting

\* approve_item and reject_item look the item up in the inbox; the command
\* line does not.
Find(r) ==
  /\ Goes(r, "idle", "find")
  /\ \E p \in Proposals, s \in {"approved", "rejected"} :
       /\ \/ "api" \in Channels /\ InInbox(p)
          \/ "cli" \in Channels /\ row[p] # NoRow
       /\ decision' = [decision EXCEPT ![r] = [proposal |-> p, status |-> s]]
  /\ UNCHANGED <<row, hold, passed, versionVars, loopVars>>

\* update_status, again a read ...
ReadDecided(r) ==
  /\ Goes(r, "find", "decide")
  /\ hold' = [hold EXCEPT ![r] = row[decision[r].proposal]]
  /\ UNCHANGED <<row, passed, versionVars, decision, loopVars>>

\* ... and a write of the whole row.
WriteDecided(r) ==
  /\ Goes(r, "decide", "over")
  /\ row' = [row EXCEPT ![decision[r].proposal] =
                          [hold[r] EXCEPT !.status = decision[r].status]]
  /\ hold' = [hold EXCEPT ![r] = NoRow]
  /\ decision' = [decision EXCEPT ![r] = NoRow]
  /\ UNCHANGED <<passed, versionVars, loopVars>>

-----------------------------------------------------------------------------
Policy(p) == ReadRow(p) \/ WriteRow(p) \/ RunShadow(p)

Step(p) ==
  \/ CreateProposal(p) \/ Policy(p)
  \/ ReadBase(p) \/ Stamp(p) \/ Insert(p) \/ Report(p) \/ End(p)

Loop(p) ==
  \/ Trigger(p) \/ TriggerSkipped(p) \/ Step(p)
  \/ Raise(p) \/ EndUnsaved(p) \/ Crash(p)
Rollback(o) == ReadPrevious(o) \/ Stamp(o) \/ Insert(o)
Human(r) == Find(r) \/ ReadDecided(r) \/ WriteDecided(r)

Next ==
  \/ \E p \in Loops : Loop(p)
  \/ \E o \in Rollbacks : Rollback(o)
  \/ \E r \in Requests : Human(r)
  \/ \E m \in Manual : CreateByHand(m)

Spec == Init /\ [][Next]_vars

\* A loop that has been triggered keeps running; nobody has to trigger one.
FairSpec == Spec /\ \A p \in Loops : WF_vars(Step(p))

-----------------------------------------------------------------------------
(* Properties *)

VersionsBy(w) == {i \in DOMAIN versions : versions[i].by = w}

\* A proposal is marked applied only if a version with its patch is in the
\* history, whichever updates of its row were lost.
AppliedIsInHistory ==
  \A p \in Loops : (row[p] # NoRow /\ row[p].status = "applied")
                     => VersionsBy(p) \cap Stored # {}

\* A version is written only for a proposal that the policy lets change a prompt by
\* itself and whose own shadow run passed, whatever humans and other loops write
\* into its row meanwhile.
OnlyVettedChangePrompts ==
  \A p \in Loops : VersionsBy(p) # {} => Level(p) = "auto" /\ passed[p]

\* No proposal changes a prompt twice.
AppliedAtMostOnce ==
  \A p \in Loops : \A i, j \in VersionsBy(p) : i = j

\* Every committed version is an earlier committed version with one proposal's
\* patch, or restored as it was: concurrent writers never mix half a change in.
EveryVersionHasAnOrigin ==
  \A i \in Stored :
    \/ versions[i].by = "seed"
    \/ /\ versions[i].by \in Loops
       /\ \E j \in {0} \cup {k \in Stored : k < i} :
            versions[i].slots = Patched(SlotsOf(j), versions[i].by)
    \/ /\ versions[i].by \in Rollbacks
       /\ versions[i].parent \in {k \in Stored : k < i}
       /\ versions[i].slots = versions[versions[i].parent].slots

\* A loop run that completed reports what happened to the prompt.
LoopTellsTheTruth ==
  \A p \in Loops : loopRow[p] = "completed" =>
    (report[p] = "auto_applied" <=> VersionsBy(p) \cap Stored # {})

\* A loop that was triggered is recorded as completed or failed, whatever humans do
\* to its proposal meanwhile and whichever of its steps raises.  Two ways out are
\* left to it, and both leave the loop run "running" for good, for nothing looks for
\* such rows: its process dies, or the last save itself raises.
LoopEnds ==
  \A p \in Loops :
    loopRow[p] = "running" ~>
      (loopRow[p] \in {"completed", "failed"} \/ stage[p] \in {"dead", "lost"})

\* What a human has approved or rejected is resolved: it leaves the inbox.
\* (Stated for the moments when no loop is at work.)  Refuted by proposals that
\* await human confirmation: approving them writes the status they have already,
\* and they stay in the inbox.
ResolvedItemsLeaveInbox ==
  [][\A r \in Requests : \A p \in Proposals :
       /\ stage[r] = "decide" /\ stage'[r] = "over" /\ p = decision[r].proposal
       /\ \A q \in Loops : ~Running(q)
         => InInbox(p)' = FALSE]_vars
=============================================================================
