------------------------ MODULE ExperimentLoopProofs ------------------------
(* Theorems about ExperimentLoop, for every set of ticks, commands and feedback. *)
EXTENDS ExperimentLoop, TLAPS

-----------------------------------------------------------------------------
(* The inductive invariant, part by part *)

EnterStages == {"idle", "refused", "restart", "starting", "pipeline"}
\* A tick that has recorded no experiment it knows of.
BareStages == EnterStages \cup {"create", "pending", "marking", "fail"}
UnsavedStages == BareStages \cup {"baseline", "save"}
LinkedStages == {"stamp", "stamping", "over"}
TickStages == UnsavedStages \cup LinkedStages \cup {"link", "linking", "broken"}

\* What the tick t is about to save, or has saved, agrees with the ledger.
Truthful(t) ==
  /\ result[t].experiment = "completed" <=> experiment[t]["failed"].link = "absent"
  /\ experiment[t][result[t].experiment].link # "absent"

Linked(t) == tickRow[t] # NoTick /\ LinkKept(t, tickRow[t].experiment)

\* A tick knows of an experiment once it is recorded, and of no baseline but
\* its own.
LedgerOf(t) ==
  /\ stage[t] \in TickStages
  /\ result[t].status = "checkpointed" <=> t \in baselines
  /\ t \in baselines => result[t].experiment = "completed"
  /\ stage[t] \in BareStages =>
       result[t] = Unfinished /\ experiment[t]["failed"].link = "absent"
  /\ stage[t] = "baseline" => t \notin baselines /\ result[t].experiment = "completed"
  /\ stage[t] \in {"baseline", "save"} => Truthful(t)

\* The tick t may be named by its experiment of kind k.
Nameable(t, k) == tickRow[t] # NoTick /\ result[t].experiment = k

\* The saved tick is the tick its process reports, and nothing names a tick
\* before it is saved.
SavedOf(t) ==
  /\ stage[t] \in UnsavedStages => tickRow[t] = NoTick
  /\ stage[t] \in LinkedStages \cup {"link", "linking"} => tickRow[t] # NoTick
  /\ tickRow[t] # NoTick => tickRow[t] = result[t] /\ Truthful(t)
  /\ stage[t] \in LinkedStages => LinkKept(t, result[t].experiment)
  /\ \A k \in Kinds : experiment[t][k].link = "linked" => Nameable(t, k)

TickInv == \A t \in Ticks : LedgerOf(t) /\ SavedOf(t)

FedKept(t, k) == experiment[t][k].fed \/ <<t, k, "fed">> \in overtaken

\* The row that the feedback command f will write back is that of an experiment, which
\* names no tick it may not name.
ImageOf(f, t, k) ==
  /\ stage[f] = "apply" =>
       /\ experiment[t][k].link # "absent" /\ image[f].link # "absent"
       /\ image[f].link = "linked" => Nameable(t, k)
  /\ stage[f] = "over" => FedKept(t, k)

ImageInv == \A f \in Feedback : ImageOf(f, about[f][1], about[f][2])

\* The last tick is linked, in the row and in every copy of it that a writer holds,
\* unless feedback overtook the link.
LastInv ==
  /\ loopRow.last # NoTick => Linked(loopRow.last)
  /\ \A a \in Actors : held[a].last # NoTick => Linked(held[a].last)

\* Nobody who is in the middle of writing the row has another state in mind.
CalmInv ==
  calm => /\ loopRow.state = "paused"
          /\ \A t \in Ticks : /\ stage[t] \notin {"restart", "starting"}
                              /\ stage[t] = "stamping" => held[t].state = "paused"
          /\ \A c \in Commands : stage[c] \in {"read", "write"} => command[c] = "paused"

Inv == TypeOK /\ TickInv /\ ImageInv /\ LastInv /\ CalmInv

-----------------------------------------------------------------------------
(* Lemmas *)

LEMMA Distinct ==
  /\ \A t \in Ticks : t \in Actors /\ t \in Updaters /\ t \notin Commands /\ t \notin Feedback
  /\ \A c \in Commands : c \in Actors /\ c \notin Ticks /\ c \notin Feedback
  /\ \A f \in Feedback : f \in Actors /\ f \in Updaters /\ f \notin Ticks /\ f \notin Commands
  /\ NoTick \notin Ticks /\ NoTick \notin TickRow
BY ExperimentLoopAssumption DEF Actors, Updaters

LEMMA Subjects ==
  ASSUME TypeOK, NEW f \in Feedback
  PROVE  about[f][1] \in Ticks /\ about[f][2] \in Kinds
BY DEF TypeOK

\* A row is created as it is, but for its link.
LEMMA CreatesRow ==
  ASSUME TypeOK, NEW t \in Ticks, NEW k \in Kinds, Creates(t, k)
  PROVE  /\ experiment' \in [Ticks -> [Kinds -> ExperimentRow]]
         /\ experiment'[t][k].link = "unlinked" /\ experiment'[t][k].fed = experiment[t][k].fed
         /\ \A s \in Ticks, j \in Kinds :
              s # t \/ j # k => experiment'[s][j] = experiment[s][j]
<1>1. experiment[t][k] \in ExperimentRow
  BY DEF TypeOK
<1>2. experiment' = [experiment EXCEPT ![t][k].link = "unlinked"]
  BY DEF Creates
<1>3. [experiment[t][k] EXCEPT !.link = "unlinked"] \in ExperimentRow
  BY <1>1 DEF ExperimentRow, Links
<1> QED
  BY <1>1, <1>2, <1>3 DEF TypeOK, ExperimentRow

\* A saved row replaces one row, and says which of its columns it overtakes.
Saved(u, t, k, row, column) ==
  /\ experiment' \in [Ticks -> [Kinds -> ExperimentRow]]
  /\ overtaken' \subseteq Ticks \X Kinds \X Columns
  /\ image' \in [Updaters -> ExperimentRow]
  /\ \A v \in Updaters : v # u => image'[v] = image[v]
  /\ experiment'[t][k] = row
  /\ \A s \in Ticks, j \in Kinds : s # t \/ j # k =>
       /\ experiment'[s][j] = experiment[s][j]
       /\ \A c \in Columns : <<s, j, c>> \in overtaken => <<s, j, c>> \in overtaken'
  /\ column # "link" =>
       /\ <<t, k, "link">> \in overtaken => <<t, k, "link">> \in overtaken'
       /\ row.link = experiment[t][k].link \/ <<t, k, "link">> \in overtaken'
  /\ column # "fed" =>
       /\ <<t, k, "fed">> \in overtaken => <<t, k, "fed">> \in overtaken'
       /\ row.fed = experiment[t][k].fed \/ <<t, k, "fed">> \in overtaken'

LEMMA SavesRow ==
  ASSUME TypeOK, NEW u \in Updaters, NEW t \in Ticks, NEW k \in Kinds,
         NEW row \in ExperimentRow, NEW column \in Columns, Saves(u, t, k, row, column)
  PROVE  Saved(u, t, k, row, column)
<1>1. /\ experiment' = [experiment EXCEPT ![t][k] = row]
      /\ image' = [image EXCEPT ![u] = Absent]
      /\ overtaken' = (overtaken \ {<<t, k, column>>}) \cup
           {<<t, k, c>> : c \in {d \in Columns \ {column} : row[d] # experiment[t][k][d]}}
  BY DEF Saves
<1>2. Absent \in ExperimentRow
  BY DEF Absent, ExperimentRow, Links
<1>3. /\ experiment' \in [Ticks -> [Kinds -> ExperimentRow]]
      /\ experiment'[t][k] = row
      /\ \A s \in Ticks, j \in Kinds : s # t \/ j # k => experiment'[s][j] = experiment[s][j]
  BY <1>1 DEF TypeOK
<1>4. image' \in [Updaters -> ExperimentRow] /\ \A v \in Updaters : v # u => image'[v] = image[v]
  BY <1>1, <1>2 DEF TypeOK
<1>5. overtaken' \subseteq Ticks \X Kinds \X Columns
  BY <1>1 DEF TypeOK
<1>6. \A s \in Ticks, j \in Kinds : s # t \/ j # k =>
        \A c \in Columns : <<s, j, c>> \in overtaken => <<s, j, c>> \in overtaken'
  BY <1>1
<1>7. \A c \in Columns \ {column} :
        /\ <<t, k, c>> \in overtaken => <<t, k, c>> \in overtaken'
        /\ row[c] = experiment[t][k][c] \/ <<t, k, c>> \in overtaken'
  BY <1>1
<1>8. /\ "link" \in Columns /\ row["link"] = row.link
      /\ experiment[t][k]["link"] = experiment[t][k].link
      /\ "fed" \in Columns /\ row["fed"] = row.fed
      /\ experiment[t][k]["fed"] = experiment[t][k].fed
  BY DEF Columns
<1> QED
  BY <1>3, <1>4, <1>5, <1>6, <1>7, <1>8 DEF Saved

LEMMA TypeStep ==
  ASSUME TypeOK, [Next]_vars
  PROVE  TypeOK'
<1> USE DEF Goes, Stages, RunningStages
<1>0. Stopped \in LoopRow /\ Absent \in ExperimentRow
  BY Distinct DEF Stopped, LoopRow, States, Absent, ExperimentRow, Links
<1>1. ASSUME NEW t \in Ticks, Enter(t)
      PROVE  TypeOK'
  <2>1. CASE Start(t)
    BY <2>1, Distinct DEF TypeOK, Start, ledgerVars, experimentVars, stateVars
  <2>2. CASE Trigger(t) \/ TickOnce(t)
    BY <2>2, Distinct DEF TypeOK, Trigger, TickOnce, ledgerVars, experimentVars, stateVars
  <2>3. CASE ReadLast(t)
    BY <2>3, Distinct DEF TypeOK, ReadLast, ledgerVars, experimentVars
  <2>4. CASE WriteRunning(t)
    <3>1. loopRow' \in LoopRow
      BY <2>4, Distinct DEF TypeOK, WriteRunning, LoopRow, States
    <3> QED
      BY <2>4, <3>1, <1>0, Distinct DEF TypeOK, WriteRunning, ledgerVars, experimentVars
  <2> QED
    BY <1>1, <2>1, <2>2, <2>3, <2>4 DEF Enter
<1>2. ASSUME NEW t \in Ticks, Pipeline(t)
      PROVE  TypeOK'
  BY <1>2, Distinct DEF TypeOK, Pipeline, ledgerVars, experimentVars, stateVars
<1>3. ASSUME NEW t \in Ticks, Break(t)
      PROVE  TypeOK'
  BY <1>3, <1>0, Distinct DEF TypeOK, Break
<1>4. ASSUME NEW t \in Ticks, CreateExperiment(t) \/ RecordFailed(t)
      PROVE  TypeOK'
  <2>1. /\ experiment' \in [Ticks -> [Kinds -> ExperimentRow]]
        /\ UNCHANGED <<image, about, overtaken>>
    BY <1>4, CreatesRow
    DEF TypeOK, CreateExperiment, RecordFailed, Creates, experimentVars, Kinds
  <2> QED
    BY <1>4, <2>1, Distinct DEF TypeOK, CreateExperiment, RecordFailed, stateVars
<1>5. ASSUME NEW t \in Ticks, ReadToMark(t) \/ ReadToLink(t)
      PROVE  TypeOK'
  <2>1. image' \in [Updaters -> ExperimentRow] /\ UNCHANGED <<experiment, about, overtaken>>
    BY <1>5, Distinct DEF TypeOK, ReadToMark, ReadToLink, Reads, experimentVars, TickRow, Kinds
  <2> QED
    BY <1>5, <2>1, Distinct DEF TypeOK, ReadToMark, ReadToLink, stateVars
<1>6. ASSUME NEW t \in Ticks, MarkPending(t)
      PROVE  TypeOK'
  <2>1. /\ [image[t] EXCEPT !.link = "pending"] \in ExperimentRow
        /\ "link" \in Columns /\ "completed" \in Kinds
    BY Distinct DEF TypeOK, ExperimentRow, Links, Columns, Kinds
  <2>2. [result[t] EXCEPT !.experiment = "completed"] \in TickRow
    BY DEF TypeOK, TickRow, Kinds
  <2>3. CASE /\ stage' = [stage EXCEPT ![t] = "baseline"]
             /\ Saves(t, t, "completed", [image[t] EXCEPT !.link = "pending"], "link")
             /\ result' = [result EXCEPT ![t].experiment = "completed"]
    <3>1. /\ experiment' \in [Ticks -> [Kinds -> ExperimentRow]]
          /\ overtaken' \subseteq Ticks \X Kinds \X Columns
          /\ image' \in [Updaters -> ExperimentRow]
      BY <2>1, <2>3, Distinct, SavesRow DEF Saved
    <3>2. result' \in [Ticks -> TickRow]
      BY <2>2, <2>3 DEF TypeOK
    <3> QED
      BY <1>6, <2>3, <3>1, <3>2, Distinct DEF TypeOK, MarkPending, Saves, stateVars
  <2>4. CASE /\ stage' = [stage EXCEPT ![t] = "fail"]
             /\ image' = [image EXCEPT ![t] = Absent]
             /\ UNCHANGED <<experiment, about, overtaken, result>>
    BY <1>6, <2>4, <1>0, Distinct DEF TypeOK, MarkPending, stateVars
  <2> QED
    BY <1>6, <2>3, <2>4 DEF MarkPending
<1>7. ASSUME NEW t \in Ticks, CreateBaseline(t) \/ SaveTick(t)
      PROVE  TypeOK'
  <2>1. result' \in [Ticks -> TickRow]
    BY <1>7 DEF TypeOK, CreateBaseline, SaveTick, TickRow
  <2>2. baselines' \subseteq Ticks
    BY <1>7 DEF TypeOK, CreateBaseline, SaveTick
  <2> QED
    BY <1>7, <2>1, <2>2, Distinct DEF TypeOK, CreateBaseline, SaveTick, stateVars, experimentVars
<1>8. ASSUME NEW t \in Ticks, Link(t)
      PROVE  TypeOK'
  <2>1. /\ [image[t] EXCEPT !.link = "linked"] \in ExperimentRow
        /\ "link" \in Columns /\ result[t].experiment \in Kinds
    BY Distinct DEF TypeOK, ExperimentRow, Links, Columns, Kinds, TickRow
  <2>2. /\ experiment' \in [Ticks -> [Kinds -> ExperimentRow]]
        /\ overtaken' \subseteq Ticks \X Kinds \X Columns
        /\ image' \in [Updaters -> ExperimentRow]
    BY <1>8, <2>1, Distinct, SavesRow DEF Link, Saved
  <2> QED
    BY <1>8, <2>2, Distinct DEF TypeOK, Link, Saves, stateVars
<1>9. ASSUME NEW t \in Ticks, ReadState(t) \/ Stamp(t)
      PROVE  TypeOK'
  <2>1. CASE ReadState(t)
    BY <2>1, Distinct DEF TypeOK, ReadState, ledgerVars, experimentVars
  <2>2. CASE Stamp(t)
    <3>1. loopRow' \in LoopRow
      BY <2>2, Distinct DEF TypeOK, Stamp, LoopRow
    <3> QED
      BY <2>2, <3>1, <1>0, Distinct DEF TypeOK, Stamp, ledgerVars, experimentVars
  <2> QED
    BY <1>9, <2>1, <2>2
<1>10. ASSUME NEW c \in Commands, Command(c)
      PROVE  TypeOK'
  <2>1. calm' \in BOOLEAN
    BY <1>10 DEF TypeOK, Command
  <2> QED
    BY <1>10, <2>1, Distinct DEF TypeOK, Command, ledgerVars, experimentVars
<1>11. ASSUME NEW c \in Commands, ReadRow(c)
      PROVE  TypeOK'
  BY <1>11, Distinct DEF TypeOK, ReadRow, ledgerVars, experimentVars
<1>12. ASSUME NEW c \in Commands, WriteRow(c)
      PROVE  TypeOK'
  <2>1. calm' \in BOOLEAN
    BY <1>12 DEF TypeOK, WriteRow
  <2>2. loopRow' \in LoopRow
    BY <1>12, Distinct DEF TypeOK, WriteRow, LoopRow
  <2> QED
    BY <1>12, <1>0, <2>1, <2>2, Distinct DEF TypeOK, WriteRow, ledgerVars, experimentVars, States
<1>13. ASSUME NEW f \in Feedback, ReadToApply(f)
      PROVE  TypeOK'
  <2>1. image' \in [Updaters -> ExperimentRow]
    BY <1>13, Distinct, Subjects DEF TypeOK, ReadToApply, Reads
  <2> QED
    BY <1>13, <2>1, Distinct DEF TypeOK, ReadToApply, Reads, stateVars
<1>14. ASSUME NEW f \in Feedback, SaveApplied(f)
      PROVE  TypeOK'
  <2>0. image[f] \in ExperimentRow
    BY Distinct DEF TypeOK
  <2>1. [image[f] EXCEPT !.fed = TRUE] \in ExperimentRow /\ "fed" \in Columns
    BY <2>0 DEF ExperimentRow, Columns
  <2>2. Saves(f, about[f][1], about[f][2], [image[f] EXCEPT !.fed = TRUE], "fed")
    BY <1>14 DEF SaveApplied
  <2>3. /\ experiment' \in [Ticks -> [Kinds -> ExperimentRow]]
        /\ overtaken' \subseteq Ticks \X Kinds \X Columns
        /\ image' \in [Updaters -> ExperimentRow]
    BY <2>1, <2>2, Distinct, Subjects, SavesRow DEF Saved
  <2> QED
    BY <1>14, <2>2, <2>3, Distinct DEF TypeOK, SaveApplied, Saves, stateVars
<1>15. CASE UNCHANGED vars
  BY <1>15 DEF TypeOK, vars, stateVars, ledgerVars, experimentVars
<1> QED
  BY <1>1, <1>2, <1>3, <1>4, <1>5, <1>6, <1>7, <1>8, <1>9, <1>10, <1>11, <1>12, <1>13, <1>14,
     <1>15
  DEF Next, Tick

-----------------------------------------------------------------------------
(* Rows of experiments *)

\* What a step of another than the tick t leaves of the row of its experiment of kind k.
RowStays(t, k) ==
  /\ experiment'[t][k].link = "absent" <=> experiment[t][k].link = "absent"
  /\ experiment'[t][k].link = "linked" => experiment[t][k].link = "linked" \/ Nameable(t, k)
  /\ LinkKept(t, k) => LinkKept(t, k)'

\* Applied feedback brings no row to life, and unlinks none but by overtaking the link.
LEMMA AppliedRow ==
  ASSUME TypeOK, ImageInv, NEW f \in Feedback, SaveApplied(f), NEW t \in Ticks, NEW k \in Kinds
  PROVE  /\ RowStays(t, k)
         /\ FedKept(t, k) => FedKept(t, k)'
         /\ about[f] = <<t, k>> => experiment'[t][k].fed
<1> DEFINE row == [image[f] EXCEPT !.fed = TRUE]
<1>1. image[f] \in ExperimentRow /\ "fed" \in Columns /\ "fed" # "link" /\ "link" \in Columns
  BY Distinct DEF TypeOK, Columns
<1>2. row \in ExperimentRow /\ row.link = image[f].link /\ row.fed = TRUE
  BY <1>1 DEF ExperimentRow
<1>3. Saves(f, about[f][1], about[f][2], row, "fed") /\ stage[f] = "apply"
  BY DEF SaveApplied, Goes
<1> HIDE DEF row
<1>4. about[f] = <<about[f][1], about[f][2]>>
  BY DEF TypeOK
<1>5. CASE t = about[f][1] /\ k = about[f][2]
  <2>0. f \in Updaters /\ Saves(f, t, k, row, "fed")
    BY <1>3, <1>5, Distinct
  <2>1. /\ experiment'[t][k] = row
        /\ <<t, k, "link">> \in overtaken => <<t, k, "link">> \in overtaken'
        /\ row.link = experiment[t][k].link \/ <<t, k, "link">> \in overtaken'
    <3>1. Saved(f, t, k, row, "fed")
      BY <1>1, <1>2, <2>0, SavesRow
    <3> QED
      BY <1>1, <3>1 DEF Saved
  <2>2. /\ experiment[t][k].link # "absent" /\ image[f].link # "absent"
        /\ image[f].link = "linked" => Nameable(t, k)
    BY <1>3, <1>5 DEF ImageInv, ImageOf
  <2> QED
    BY <1>2, <2>1, <2>2 DEF RowStays, LinkKept, FedKept
<1>6. CASE t # about[f][1] \/ k # about[f][2]
  <2>0. f \in Updaters /\ about[f][1] \in Ticks /\ about[f][2] \in Kinds
    BY Distinct, Subjects
  <2>1. /\ experiment'[t][k] = experiment[t][k]
        /\ \A c \in Columns : <<t, k, c>> \in overtaken => <<t, k, c>> \in overtaken'
    BY <1>1, <1>2, <1>3, <1>6, <2>0, SavesRow DEF Saved
  <2> QED
    BY <1>1, <1>4, <1>6, <2>1 DEF RowStays, LinkKept, FedKept
<1> QED
  BY <1>5, <1>6

\* What the tick u changes in the rows of its experiments.
LEMMA TickRows ==
  ASSUME TypeOK, NEW u \in Ticks, Tick(u), NEW t \in Ticks, NEW k \in Kinds
  PROVE  /\ t # u => RowStays(t, k)
         /\ FedKept(t, k) => FedKept(t, k)'
         /\ experiment[t][k].link # "absent" => experiment'[t][k].link # "absent"
<1> USE DEF RowStays, LinkKept, FedKept
<1>1. CASE CreateExperiment(u) \/ RecordFailed(u)
  <2>1. CASE UNCHANGED experimentVars
    BY <2>1 DEF experimentVars
  <2>2. ASSUME NEW j \in Kinds, Creates(u, j)
        PROVE  /\ t # u => RowStays(t, k)
               /\ FedKept(t, k) => FedKept(t, k)'
               /\ experiment[t][k].link # "absent" => experiment'[t][k].link # "absent"
    <3>1. /\ experiment'[u][j].link = "unlinked" /\ experiment'[u][j].fed = experiment[u][j].fed
          /\ t # u \/ k # j => experiment'[t][k] = experiment[t][k]
      BY <2>2, CreatesRow
    <3>2. overtaken' = overtaken
      BY <2>2 DEF Creates
    <3> QED
      BY <3>1, <3>2
  <2> QED
    BY <1>1, <2>1, <2>2 DEF CreateExperiment, RecordFailed, Kinds
<1>2. CASE MarkPending(u) \/ Link(u)
  <2>1. CASE UNCHANGED <<experiment, overtaken>>
    BY <2>1
  <2>2. ASSUME NEW j \in Kinds, NEW row \in ExperimentRow, row.link # "absent",
               Saves(u, u, j, row, "link")
        PROVE  /\ t # u => RowStays(t, k)
               /\ FedKept(t, k) => FedKept(t, k)'
               /\ experiment[t][k].link # "absent" => experiment'[t][k].link # "absent"
    <3>1. "link" \in Columns /\ "fed" \in Columns /\ "link" # "fed"
      BY DEF Columns
    <3>2. /\ experiment'[u][j] = row
          /\ t # u \/ k # j =>
               /\ experiment'[t][k] = experiment[t][k]
               /\ \A c \in Columns : <<t, k, c>> \in overtaken => <<t, k, c>> \in overtaken'
          /\ <<u, j, "fed">> \in overtaken => <<u, j, "fed">> \in overtaken'
          /\ row.fed = experiment[u][j].fed \/ <<u, j, "fed">> \in overtaken'
      <4>1. u \in Updaters
        BY Distinct
      <4>2. Saved(u, u, j, row, "link")
        BY <2>2, <3>1, <4>1, SavesRow
      <4> QED
        BY <3>1, <4>2 DEF Saved
    <3> QED
      BY <2>2, <3>1, <3>2
  <2>3. image[u] \in ExperimentRow /\ result[u].experiment \in Kinds /\ "completed" \in Kinds
    BY Distinct DEF TypeOK, TickRow, Kinds
  <2>4. /\ [image[u] EXCEPT !.link = "pending"] \in ExperimentRow
        /\ [image[u] EXCEPT !.link = "pending"].link # "absent"
        /\ [image[u] EXCEPT !.link = "linked"] \in ExperimentRow
        /\ [image[u] EXCEPT !.link = "linked"].link # "absent"
    BY <2>3 DEF ExperimentRow, Links
  <2>5. \/ Saves(u, u, "completed", [image[u] EXCEPT !.link = "pending"], "link")
        \/ Saves(u, u, result[u].experiment, [image[u] EXCEPT !.link = "linked"], "link")
        \/ UNCHANGED <<experiment, overtaken>>
    BY <1>2 DEF MarkPending, Link
  <2> HIDE DEF RowStays, LinkKept, FedKept
  <2> QED
    BY <2>1, <2>2, <2>3, <2>4, <2>5
<1>3. CASE /\ ~(CreateExperiment(u) \/ RecordFailed(u))
           /\ ~(MarkPending(u) \/ Link(u))
  <2>1. UNCHANGED <<experiment, overtaken>>
    BY <1>3
    DEF Tick, Enter, Start, Trigger, TickOnce, ReadLast, WriteRunning, Pipeline, ReadToMark,
        ReadToLink, Reads, CreateBaseline, SaveTick, ReadState, Stamp, Break, ledgerVars,
        experimentVars
  <2> QED
    BY <2>1
<1> QED
  BY <1>1, <1>2, <1>3

\* A tick moves in its own steps only; of another's row only feedback changes anything.
LEMMA OwnSteps ==
  ASSUME TypeOK, ImageInv, [Next]_vars, NEW t \in Ticks
  PROVE  \/ Tick(t)
         \/ /\ UNCHANGED <<stage[t], result[t], tickRow[t], held[t]>>
            /\ t \in baselines' <=> t \in baselines
            /\ \A k \in Kinds : RowStays(t, k)
<1>1. ASSUME NEW u \in Ticks, u # t, Tick(u)
      PROVE  /\ UNCHANGED <<stage[t], result[t], tickRow[t], held[t]>>
             /\ t \in baselines' <=> t \in baselines
             /\ \A k \in Kinds : RowStays(t, k)
  <2>1. \A k \in Kinds : RowStays(t, k)
    BY <1>1, TickRows
  <2>2. /\ UNCHANGED <<stage[t], result[t], tickRow[t], held[t]>>
        /\ t \in baselines' <=> t \in baselines
    <3>1. CASE Enter(u)
      BY <1>1, <3>1, Distinct
      DEF TypeOK, Enter, Start, Trigger, TickOnce, ReadLast, WriteRunning, Goes, ledgerVars,
          stateVars
    <3>2. CASE Pipeline(u) \/ Break(u) \/ ReadState(u) \/ Stamp(u)
      BY <1>1, <3>2, Distinct
      DEF TypeOK, Pipeline, Break, ReadState, Stamp, Goes, ledgerVars, stateVars
    <3>3. CASE CreateExperiment(u) \/ RecordFailed(u) \/ ReadToMark(u) \/ ReadToLink(u)
      BY <1>1, <3>3, Distinct
      DEF TypeOK, CreateExperiment, RecordFailed, ReadToMark, ReadToLink, Goes, stateVars
    <3>4. CASE Link(u) \/ MarkPending(u)
      BY <1>1, <3>4, Distinct DEF TypeOK, Link, MarkPending, Goes, stateVars
    <3>5. CASE CreateBaseline(u) \/ SaveTick(u)
      BY <1>1, <3>5, Distinct DEF TypeOK, CreateBaseline, SaveTick, Goes, stateVars
    <3> QED
      BY <1>1, <3>1, <3>2, <3>3, <3>4, <3>5 DEF Tick
  <2> QED
    BY <2>1, <2>2
<1>2. ASSUME NEW c \in Commands, Command(c) \/ ReadRow(c) \/ WriteRow(c)
      PROVE  /\ UNCHANGED <<stage[t], result[t], tickRow[t], held[t]>>
             /\ t \in baselines' <=> t \in baselines
             /\ \A k \in Kinds : RowStays(t, k)
  BY <1>2, Distinct
  DEF TypeOK, Command, ReadRow, WriteRow, Goes, ledgerVars, experimentVars, RowStays, LinkKept
<1>3. ASSUME NEW f \in Feedback, ReadToApply(f)
      PROVE  /\ UNCHANGED <<stage[t], result[t], tickRow[t], held[t]>>
             /\ t \in baselines' <=> t \in baselines
             /\ \A k \in Kinds : RowStays(t, k)
  BY <1>3, Distinct DEF TypeOK, ReadToApply, Reads, Goes, stateVars, RowStays, LinkKept
<1>4. ASSUME NEW f \in Feedback, SaveApplied(f)
      PROVE  /\ UNCHANGED <<stage[t], result[t], tickRow[t], held[t]>>
             /\ t \in baselines' <=> t \in baselines
             /\ \A k \in Kinds : RowStays(t, k)
  <2>1. \A k \in Kinds : RowStays(t, k)
    BY <1>4, AppliedRow
  <2> QED
    BY <1>4, <2>1, Distinct DEF TypeOK, SaveApplied, Goes, stateVars
<1>5. CASE UNCHANGED vars
  BY <1>5 DEF vars, ledgerVars, stateVars, experimentVars, RowStays, LinkKept
<1> QED
  BY <1>1, <1>2, <1>3, <1>4, <1>5 DEF Next

-----------------------------------------------------------------------------
(* Ticks and the ledger *)

\* A tick that enters, reads, breaks off, or stamps the loop, leaves the ledger
\* alone.
LEMMA QuietSteps ==
  ASSUME TypeOK, NEW t \in Ticks, LedgerOf(t), SavedOf(t),
         \/ Enter(t) \/ Pipeline(t) \/ ReadToMark(t) \/ ReadToLink(t) \/ ReadState(t)
         \/ Stamp(t) \/ Break(t)
  PROVE  LedgerOf(t)' /\ SavedOf(t)'
<1>1. UNCHANGED <<experiment, overtaken, baselines, tickRow, result>>
  BY DEF Enter, Start, Trigger, TickOnce, ReadLast, WriteRunning, Pipeline, ReadToMark,
         ReadToLink, Reads, ReadState, Stamp, Break, ledgerVars, experimentVars
<1>2. \/ stage[t] \in BareStages /\ stage'[t] \in BareStages
      \/ stage[t] \in LinkedStages /\ stage'[t] \in LinkedStages
      \/ stage[t] = "link" /\ stage'[t] = "linking"
      \/ stage'[t] = "broken"
  BY Distinct
  DEF TypeOK, Enter, Start, Trigger, TickOnce, ReadLast, WriteRunning, Pipeline, ReadToMark,
      ReadToLink, ReadState, Stamp, Break, Goes, BareStages, EnterStages, LinkedStages
<1> QED
  BY <1>1, <1>2
  DEF LedgerOf, SavedOf, Truthful, LinkKept, Nameable, TickStages, UnsavedStages, BareStages,
      EnterStages, LinkedStages

LEMMA TickStep ==
  ASSUME TypeOK, NEW t \in Ticks, LedgerOf(t), SavedOf(t), Tick(t)
  PROVE  LedgerOf(t)' /\ SavedOf(t)'
<1> USE Distinct
    DEF LedgerOf, SavedOf, Truthful, LinkKept, Nameable, TickStages, UnsavedStages, BareStages,
        EnterStages, LinkedStages, Kinds, Unfinished
<1>0. result[t] \in TickRow /\ result[t].experiment \in Kinds /\ image[t] \in ExperimentRow
  BY DEF TypeOK, TickRow
<1>1. CASE CreateExperiment(t)
  <2>1. CASE UNCHANGED experimentVars
    BY <1>1, <2>1 DEF TypeOK, CreateExperiment, Goes, experimentVars
  <2>2. CASE Creates(t, "completed") /\ stage' = [stage EXCEPT ![t] = "pending"]
    <3>1. /\ experiment'[t]["completed"].link = "unlinked"
          /\ experiment'[t]["failed"] = experiment[t]["failed"]
      BY <2>2, CreatesRow
    <3> QED
      BY <1>1, <2>2, <3>1 DEF TypeOK, CreateExperiment, Goes
  <2> QED
    BY <1>1, <2>1, <2>2 DEF CreateExperiment, Goes
<1>2. CASE MarkPending(t)
  <2>1. CASE /\ stage' = [stage EXCEPT ![t] = "baseline"]
             /\ Saves(t, t, "completed", [image[t] EXCEPT !.link = "pending"], "link")
             /\ result' = [result EXCEPT ![t].experiment = "completed"]
    <3>1. /\ result'[t].experiment = "completed"
          /\ result'[t].status = result[t].status
      BY <1>0, <2>1 DEF TypeOK, TickRow
    <3> DEFINE row == [image[t] EXCEPT !.link = "pending"]
    <3>2. row \in ExperimentRow /\ row.link = "pending" /\ "link" \in Columns
      BY <1>0 DEF ExperimentRow, Links, Columns
    <3>3. Saves(t, t, "completed", row, "link")
      BY <2>1
    <3> HIDE DEF row
    <3>4. /\ experiment'[t]["completed"] = row
          /\ experiment'[t]["failed"] = experiment[t]["failed"]
      <4>1. Saved(t, t, "completed", row, "link")
        BY <3>2, <3>3, SavesRow
      <4> QED
        BY <4>1 DEF Saved
    <3>5. /\ stage[t] = "marking" /\ stage'[t] = "baseline"
          /\ UNCHANGED <<tickRow, baselines>>
      BY <1>2, <2>1 DEF TypeOK, MarkPending, Goes
    <3> QED
      BY <3>1, <3>2, <3>4, <3>5
  <2>2. CASE stage' = [stage EXCEPT ![t] = "fail"] /\ UNCHANGED <<experiment, overtaken, result>>
    BY <1>2, <2>2 DEF TypeOK, MarkPending, Goes
  <2> QED
    BY <1>2, <2>1, <2>2 DEF MarkPending, Goes
<1>3. CASE CreateBaseline(t)
  <2>1. /\ result'[t].experiment = result[t].experiment
        /\ result'[t].status = "checkpointed" <=> t \in baselines'
    BY <1>3 DEF TypeOK, CreateBaseline, Goes, TickRow
  <2> QED
    BY <1>3, <2>1 DEF TypeOK, CreateBaseline, Goes, experimentVars
<1>4. CASE RecordFailed(t)
  <2>1. /\ experiment'[t]["failed"].link = "unlinked"
        /\ experiment'[t]["completed"] = experiment[t]["completed"]
    BY <1>4, CreatesRow DEF RecordFailed
  <2> QED
    BY <1>4, <2>1 DEF TypeOK, RecordFailed, Goes
<1>5. CASE SaveTick(t)
  BY <1>0, <1>5 DEF TypeOK, SaveTick, Goes, experimentVars
<1>6. CASE Link(t)
  <2> DEFINE row == [image[t] EXCEPT !.link = "linked"]
  <2>1. row \in ExperimentRow /\ row.link = "linked" /\ "link" \in Columns
    BY <1>0 DEF ExperimentRow, Links, Columns
  <2>2. Saves(t, t, result[t].experiment, row, "link")
    BY <1>6 DEF Link
  <2> HIDE DEF row
  <2>3. /\ experiment'[t][result[t].experiment] = row
        /\ \A k \in Kinds : k # result[t].experiment => experiment'[t][k] = experiment[t][k]
    <3>1. Saved(t, t, result[t].experiment, row, "link")
      BY <1>0, <2>1, <2>2, SavesRow
    <3> QED
      BY <1>0, <3>1 DEF Saved
  <2> QED
    BY <1>0, <1>6, <2>1, <2>3 DEF TypeOK, Link, Goes
<1> QED
  BY <1>1, <1>2, <1>3, <1>4, <1>5, <1>6, QuietSteps DEF Tick

LEMMA TickInvStep ==
  ASSUME TypeOK, TickInv, ImageInv, [Next]_vars
  PROVE  TickInv'
<1> SUFFICES ASSUME NEW t \in Ticks
             PROVE  LedgerOf(t)' /\ SavedOf(t)'
  BY DEF TickInv
<1>1. LedgerOf(t) /\ SavedOf(t)
  BY DEF TickInv
<1>2. CASE Tick(t)
  BY <1>1, <1>2, TickStep
<1>3. CASE ~Tick(t)
  <2>1. result[t].experiment \in Kinds /\ "failed" \in Kinds
    BY DEF TypeOK, TickRow, Kinds
  <2>2. /\ UNCHANGED <<stage[t], result[t], tickRow[t]>>
        /\ t \in baselines' <=> t \in baselines
        /\ \A k \in Kinds : RowStays(t, k)
    BY <1>3, OwnSteps
  <2> QED
    BY <1>1, <2>1, <2>2 DEF LedgerOf, SavedOf, Truthful, RowStays, Nameable
<1> QED
  BY <1>2, <1>3

\* A saved tick keeps its report.
LEMMA NameStays ==
  ASSUME TypeOK, TickInv, ImageInv, [Next]_vars, NEW t \in Ticks, NEW k \in Kinds,
         Nameable(t, k)
  PROVE  Nameable(t, k)'
<1>1. LedgerOf(t) /\ SavedOf(t)
  BY DEF TickInv
<1>2. CASE Tick(t)
  <2>1. stage[t] \notin UnsavedStages
    BY <1>1 DEF Nameable, SavedOf
  <2> QED
    BY <1>2, <2>1
    DEF Nameable, Tick, Enter, Start, Trigger, TickOnce, ReadLast, WriteRunning, Pipeline,
        CreateExperiment, ReadToMark, MarkPending, CreateBaseline, RecordFailed, SaveTick,
        ReadToLink, Link, ReadState, Stamp, Break, Goes, UnsavedStages, BareStages, EnterStages,
        ledgerVars
<1>3. CASE ~Tick(t)
  BY <1>3, OwnSteps DEF Nameable
<1> QED
  BY <1>2, <1>3

\* A feedback command moves in its own steps only.
LEMMA FeedbackOwn ==
  ASSUME TypeOK, [Next]_vars, NEW f \in Feedback
  PROVE  /\ UNCHANGED about
         /\ ReadToApply(f) \/ SaveApplied(f) \/ UNCHANGED <<stage[f], image[f]>>
<1>1. ASSUME NEW t \in Ticks, Tick(t)
      PROVE  UNCHANGED about /\ UNCHANGED <<stage[f], image[f]>>
  <2>1. UNCHANGED about /\ image'[f] = image[f]
    BY <1>1, Distinct
    DEF TypeOK, Tick, Enter, Start, Trigger, TickOnce, ReadLast, WriteRunning, Pipeline,
        CreateExperiment, Creates, ReadToMark, Reads, MarkPending, Saves, CreateBaseline,
        RecordFailed, SaveTick, ReadToLink, Link, ReadState, Stamp, Break, ledgerVars,
        experimentVars
  <2>2. stage'[f] = stage[f]
    BY <1>1, Distinct
    DEF TypeOK, Tick, Enter, Start, Trigger, TickOnce, ReadLast, WriteRunning, Pipeline,
        CreateExperiment, ReadToMark, MarkPending, CreateBaseline, RecordFailed, SaveTick,
        ReadToLink, Link, ReadState, Stamp, Break, Goes
  <2> QED
    BY <2>1, <2>2
<1>2. ASSUME NEW c \in Commands, Command(c) \/ ReadRow(c) \/ WriteRow(c)
      PROVE  UNCHANGED about /\ UNCHANGED <<stage[f], image[f]>>
  BY <1>2, Distinct DEF TypeOK, Command, ReadRow, WriteRow, Goes, ledgerVars, experimentVars
<1>3. ASSUME NEW g \in Feedback, ReadToApply(g) \/ SaveApplied(g)
      PROVE  /\ UNCHANGED about
             /\ g # f => UNCHANGED <<stage[f], image[f]>>
  BY <1>3, Distinct DEF TypeOK, ReadToApply, SaveApplied, Reads, Saves, Goes
<1>4. CASE UNCHANGED vars
  BY <1>4 DEF vars, ledgerVars, experimentVars
<1> QED
  BY <1>1, <1>2, <1>3, <1>4 DEF Next

\* A row that exists stays, and so does its feedback unless it is overtaken.
LEMMA RowsStay ==
  ASSUME TypeOK, ImageInv, [Next]_vars, NEW t \in Ticks, NEW k \in Kinds
  PROVE  /\ experiment[t][k].link # "absent" => experiment'[t][k].link # "absent"
         /\ FedKept(t, k) => FedKept(t, k)'
<1>1. ASSUME NEW u \in Ticks, Tick(u)
      PROVE  /\ experiment[t][k].link # "absent" => experiment'[t][k].link # "absent"
             /\ FedKept(t, k) => FedKept(t, k)'
  BY <1>1, TickRows
<1>2. ASSUME NEW f \in Feedback, SaveApplied(f)
      PROVE  /\ experiment[t][k].link # "absent" => experiment'[t][k].link # "absent"
             /\ FedKept(t, k) => FedKept(t, k)'
  BY <1>2, AppliedRow DEF RowStays
<1>3. CASE UNCHANGED <<experiment, overtaken>>
  BY <1>3 DEF FedKept
<1>4. ASSUME NEW c \in Commands, Command(c) \/ ReadRow(c) \/ WriteRow(c)
      PROVE  UNCHANGED <<experiment, overtaken>>
  BY <1>4 DEF Command, ReadRow, WriteRow, ledgerVars, experimentVars
<1>5. ASSUME NEW f \in Feedback, ReadToApply(f)
      PROVE  UNCHANGED <<experiment, overtaken>>
  BY <1>5 DEF ReadToApply, Reads
<1>6. UNCHANGED vars => UNCHANGED <<experiment, overtaken>>
  BY DEF vars, ledgerVars, experimentVars
<1> QED
  BY <1>1, <1>2, <1>3, <1>4, <1>5, <1>6 DEF Next

LEMMA ImageInvStep ==
  ASSUME TypeOK, TickInv, ImageInv, [Next]_vars
  PROVE  ImageInv'
<1> SUFFICES ASSUME NEW f \in Feedback
             PROVE  ImageOf(f, about[f][1], about[f][2])'
  BY DEF ImageInv
<1>1. PICK t \in Ticks, k \in Kinds : t = about[f][1] /\ k = about[f][2] /\ about[f] = <<t, k>>
  BY DEF TypeOK
<1>2. about' = about
  BY FeedbackOwn
<1>3. /\ experiment[t][k].link # "absent" => experiment'[t][k].link # "absent"
      /\ FedKept(t, k) => FedKept(t, k)'
      /\ Nameable(t, k) => Nameable(t, k)'
  BY RowsStay, NameStays
<1>4. ImageOf(f, t, k)
  BY <1>1 DEF ImageInv
<1>5. CASE ReadToApply(f)
  <2>1. /\ experiment[t][k].link # "absent" /\ image'[f] = experiment[t][k]
        /\ stage'[f] = "apply"
    BY <1>1, <1>5, Distinct DEF TypeOK, ReadToApply, Reads, Goes
  <2>2. experiment[t][k].link = "linked" => Nameable(t, k)
    BY DEF TickInv, SavedOf
  <2> QED
    BY <1>1, <1>2, <1>3, <2>1, <2>2 DEF ImageOf
<1>6. CASE SaveApplied(f)
  <2>1. stage'[f] = "over"
    BY <1>6, Distinct DEF TypeOK, SaveApplied, Goes
  <2>2. experiment'[t][k].fed
    BY <1>1, <1>6, AppliedRow
  <2> QED
    BY <1>1, <1>2, <2>1, <2>2 DEF ImageOf, FedKept
<1>7. CASE UNCHANGED <<stage[f], image[f]>>
  BY <1>1, <1>2, <1>3, <1>4, <1>7 DEF ImageOf
<1> QED
  BY <1>5, <1>6, <1>7, FeedbackOwn

-----------------------------------------------------------------------------
(* The row of the loop *)

\* A linked tick stays linked.
LEMMA LinkedStays ==
  ASSUME TypeOK, TickInv, ImageInv, [Next]_vars, NEW t \in Ticks, Linked(t)
  PROVE  Linked(t)'
<1>1. LedgerOf(t) /\ SavedOf(t) /\ result[t].experiment \in Kinds
  BY DEF TickInv, TypeOK, TickRow
<1>2. CASE Tick(t)
  <2>1. stage[t] \notin UnsavedStages
    BY <1>1 DEF Linked, SavedOf
  <2>2. CASE Link(t)
    <3>1. LedgerOf(t)' /\ SavedOf(t)'
      BY <1>1, <1>2, TickStep
    <3>2. stage'[t] \in LinkedStages /\ tickRow' = tickRow /\ result' = result
      BY <2>2, Distinct DEF TypeOK, Link, Goes, LinkedStages
    <3> QED
      BY <1>1, <3>1, <3>2 DEF Linked, SavedOf
  <2>3. CASE ~Link(t)
    BY <1>2, <2>1, <2>3
    DEF Linked, LinkKept, Tick, Enter, Start, Trigger, TickOnce, ReadLast, WriteRunning,
        Pipeline, CreateExperiment, ReadToMark, MarkPending, CreateBaseline, RecordFailed,
        SaveTick, ReadToLink, Reads, ReadState, Stamp, Break, Goes, UnsavedStages, BareStages,
        EnterStages, ledgerVars, experimentVars
  <2> QED
    BY <2>2, <2>3
<1>3. CASE ~Tick(t)
  BY <1>1, <1>3, OwnSteps DEF Linked, SavedOf, RowStays
<1> QED
  BY <1>2, <1>3

\* An id that is written to the row was read from it, or is that of a linked
\* tick.
LEMMA LastStep ==
  ASSUME TypeOK, TickInv, ImageInv, LastInv, [Next]_vars
  PROVE  LastInv'
<1>1. \A t \in Ticks : Linked(t) => Linked(t)'
  BY LinkedStays
<1>2. \/ loopRow'.last = loopRow.last
      \/ \E a \in Actors : loopRow'.last = held[a].last
      \/ \E t \in Ticks : Stamp(t) /\ loopRow'.last = t
  <2>1. ASSUME NEW t \in Ticks, WriteRunning(t)
        PROVE  loopRow'.last = held[t].last
    BY <2>1, Distinct DEF TypeOK, LoopRow, WriteRunning
  <2>2. ASSUME NEW c \in Commands, WriteRow(c)
        PROVE  loopRow'.last = held[c].last
    BY <2>2, Distinct DEF TypeOK, LoopRow, WriteRow
  <2>3. ASSUME NEW t \in Ticks, Stamp(t)
        PROVE  loopRow'.last = t
    BY <2>3, Distinct DEF TypeOK, LoopRow, Stamp
  <2> QED
    BY <2>1, <2>2, <2>3, Distinct
    DEF Next, Tick, Enter, Start, Trigger, TickOnce, ReadLast, Pipeline, CreateExperiment,
        ReadToMark, MarkPending, CreateBaseline, RecordFailed, SaveTick, ReadToLink, Link,
        ReadState, Break, Command, ReadRow, ReadToApply, SaveApplied, vars, stateVars
<1>3. \A a \in Actors : held'[a].last \in {held[a].last, loopRow.last, NoTick}
  <2>1. held' = held \/ \E a \in Actors, row \in {loopRow, Stopped} : held' = [held EXCEPT ![a] = row]
    BY Distinct
    DEF Next, Tick, Enter, Start, Trigger, TickOnce, ReadLast, WriteRunning, Pipeline,
        CreateExperiment, ReadToMark, MarkPending, CreateBaseline, RecordFailed, SaveTick,
        ReadToLink, Link, ReadState, Stamp, Break, Command, ReadRow, WriteRow, ReadToApply,
        SaveApplied, vars, stateVars
  <2>2. Stopped.last = NoTick
    BY DEF Stopped
  <2> QED
    BY <2>1, <2>2 DEF TypeOK
<1>4. ASSUME NEW t \in Ticks, Stamp(t)
      PROVE  Linked(t)
  BY <1>4 DEF TickInv, SavedOf, Linked, Stamp, Goes, LinkedStages
<1>5. loopRow.last \in Ticks \cup {NoTick} /\ \A a \in Actors : held[a].last \in Ticks \cup {NoTick}
  BY DEF TypeOK, LoopRow
<1>6. loopRow'.last # NoTick => Linked(loopRow.last)'
  BY <1>1, <1>2, <1>4, <1>5 DEF LastInv, Linked
<1>7. ASSUME NEW a \in Actors, held'[a].last # NoTick
      PROVE  Linked(held[a].last)'
  BY <1>1, <1>3, <1>5, <1>7 DEF LastInv, Linked
<1> QED
  BY <1>6, <1>7 DEF LastInv

\* A pause that nobody was in the middle of is undone by nobody.
LEMMA CalmStep ==
  ASSUME TypeOK, CalmInv, [Next]_vars
  PROVE  CalmInv'
<1>1. ASSUME NEW t \in Ticks, Enter(t)
      PROVE  CalmInv'
  BY <1>1, Distinct
  DEF TypeOK, CalmInv, Enter, Start, Trigger, TickOnce, ReadLast, WriteRunning, Goes,
      stateVars
<1>2. ASSUME NEW t \in Ticks, ReadState(t) \/ Stamp(t)
      PROVE  CalmInv'
  BY <1>2, Distinct DEF TypeOK, LoopRow, CalmInv, ReadState, Stamp, Goes
<1>3. ASSUME NEW t \in Ticks, Tick(t), ~Enter(t), ~ReadState(t), ~Stamp(t)
      PROVE  CalmInv'
  BY <1>3, Distinct
  DEF TypeOK, CalmInv, Tick, Pipeline, CreateExperiment, ReadToMark, MarkPending, CreateBaseline,
      RecordFailed, SaveTick, ReadToLink, Link, Break, Goes, stateVars
<1>4. ASSUME NEW c \in Commands, Command(c) \/ ReadRow(c)
      PROVE  CalmInv'
  BY <1>4, Distinct DEF TypeOK, CalmInv, Command, ReadRow, Goes
<1>5. ASSUME NEW c \in Commands, WriteRow(c), calm'
      PROVE  CalmInv'
  <2>1. command[c] = "paused"
    BY <1>5 DEF CalmInv, WriteRow, Goes
  <2>2. loopRow'.state = "paused"
    BY <1>5, <2>1, Distinct DEF TypeOK, LoopRow, WriteRow
  <2>3. CASE calm
    BY <1>5, <2>2, <2>3, Distinct DEF TypeOK, CalmInv, WriteRow, Goes
  <2>4. CASE ~calm
    <3>1. \A a \in Actors \ {c} : ~Writing(a)
      BY <1>5, <2>4 DEF WriteRow
    <3> QED
      BY <1>5, <2>2, <3>1, Distinct
      DEF TypeOK, CalmInv, WriteRow, Goes, Writing, RunningStages
  <2> QED
    BY <2>3, <2>4
<1>6. CASE UNCHANGED vars
  BY <1>6 DEF CalmInv, vars, stateVars
<1>7. CASE ~calm'
  BY <1>7 DEF CalmInv
<1>8. ASSUME NEW f \in Feedback, ReadToApply(f) \/ SaveApplied(f)
      PROVE  CalmInv'
  BY <1>8, Distinct DEF TypeOK, CalmInv, ReadToApply, SaveApplied, Goes, stateVars
<1> QED
  BY <1>1, <1>2, <1>3, <1>4, <1>5, <1>6, <1>7, <1>8 DEF Next

-----------------------------------------------------------------------------
(* Theorems *)

LEMMA Initially == Init => Inv
<1> SUFFICES ASSUME Init
             PROVE  Inv
  OBVIOUS
<1>1. TypeOK
  BY Distinct
  DEF Init, TypeOK, Stages, States, LoopRow, Stopped, Links, TickRow, Kinds, Unfinished, Absent,
      ExperimentRow
<1>2. TickInv
  BY Distinct
  DEF Init, TickInv, LedgerOf, SavedOf, TickStages, UnsavedStages, BareStages, EnterStages,
      LinkedStages, Kinds, Unfinished, Absent
<1>3. ImageInv
  BY Distinct DEF Init, ImageInv, ImageOf
<1>4. LastInv /\ CalmInv
  BY DEF Init, LastInv, CalmInv, Stopped
<1> QED
  BY <1>1, <1>2, <1>3, <1>4 DEF Inv

\* Ticks agree with the ledger, and writers of the loop state hold nothing that
\* would make it name a tick never linked or undo a calm pause.
THEOREM LoopInvariant == Spec => []Inv
<1>1. Inv /\ [Next]_vars => Inv'
  BY TypeStep, TickInvStep, ImageInvStep, LastStep, CalmStep DEF Inv
<1> QED
  BY Initially, <1>1, PTL DEF Spec

\* Every variable keeps its type.
THEOREM LoopTypes == Spec => []TypeOK
<1>1. Inv => TypeOK
  BY DEF Inv
<1> QED
  BY <1>1, LoopInvariant, PTL

\* An experiment names a tick only if that tick is saved and reports it, whatever
\* feedback writes over its row; a finished tick is named by its experiment, and applied
\* feedback stays, unless an update that had read the row before was saved over it.
THEOREM LinkedExperiments == Spec => []ExperimentsAreLinked
<1>1. Inv => ExperimentsAreLinked
  <2> SUFFICES ASSUME Inv
               PROVE  ExperimentsAreLinked
    OBVIOUS
  <2>1. \A t \in Ticks : \A k \in Kinds : experiment[t][k].link = "linked" =>
          tickRow[t] # NoTick /\ tickRow[t].experiment = k
    BY DEF Inv, TickInv, SavedOf, Nameable
  <2>2. \A t \in Ticks : stage[t] = "over" =>
          tickRow[t] # NoTick /\ LinkKept(t, tickRow[t].experiment)
    BY DEF Inv, TickInv, SavedOf, LinkedStages
  <2>3. \A f \in Feedback : stage[f] = "over" => FedKept(about[f][1], about[f][2])
    BY DEF Inv, ImageInv, ImageOf
  <2> QED
    BY <2>1, <2>2, <2>3 DEF ExperimentsAreLinked, FedKept
<1> QED
  BY <1>1, LoopInvariant, PTL

\* However the writers of loop_state overwrite each other, the last tick it names is
\* saved, and linked unless feedback read before the link was saved over it.
THEOREM LastTicks == Spec => []LastTickIsLinked
<1>1. Inv => LastTickIsLinked
  BY DEF Inv, LastInv, Linked, LastTickIsLinked
<1> QED
  BY <1>1, LoopInvariant, PTL

\* Wherever a tick failed, the saved tick tells which experiment it recorded and
\* whether it left a baseline.
THEOREM TruthfulTicks == Spec => []TicksTellTheTruth
<1>1. Inv => TicksTellTheTruth
  BY DEF Inv, TickInv, LedgerOf, SavedOf, Truthful, TicksTellTheTruth
<1> QED
  BY <1>1, LoopInvariant, PTL

\* A pause that met no other writer holds until the next start or command,
\* whatever ticks and triggers come after it.
THEOREM PausesHold == Spec => []PauseHolds
<1>1. Inv => PauseHolds
  BY DEF Inv, CalmInv, PauseHolds
<1> QED
  BY <1>1, LoopInvariant, PTL
=============================================================================
