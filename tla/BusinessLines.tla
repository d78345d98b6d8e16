----------------------------- MODULE BusinessLines -----------------------------
(***************************************************************************)
(* The registry of business lines: each process keeps the lines it has     *)
(* seen in a cache, changes them there, and then saves the whole row in    *)
(* the one database, which may fail.                                       *)
(***************************************************************************)
EXTENDS Integers, Sequences

CONSTANTS
  Processes,
  MaxLines, \* bound: business lines
  MaxSaves, \* bound: updates, the activity of a line being the number of the update
  None      \* no line

Statuses == {"active", "paused", "archived", "deleted"}

VARIABLES
  stage,  \* of each process: idle, or about to save
  line,   \* which line it is to save
  rows,   \* business_lines: the status and the last activity of each, by rowid
  cache,  \* of each process: what it holds of a line, or None
  clock,  \* history: the number of updates
  given,  \* history: the statuses that each line was to have
  behind  \* history: lines in whose cache a process does not have their row, and why
          \* it need not: another process wrote it, or its own save failed

vars == <<stage, line, rows, cache, clock, given, behind>>

TypeOK ==
  LET Row == [status : Statuses, active : 0 .. clock] IN
  /\ stage \in [Processes -> {"idle", "save"}] /\ clock \in 0 .. MaxSaves
  /\ rows \in Seq(Row) /\ Len(rows) <= MaxLines
  /\ line \in [Processes -> 0 .. Len(rows)]
  /\ cache \in [Processes -> [1 .. MaxLines -> {None} \cup Row]]
  /\ given \in Seq(SUBSET Statuses) /\ Len(given) = Len(rows)
  /\ behind \in [Processes -> SUBSET DOMAIN rows]

Init ==
  /\ stage = [p \in Processes |-> "idle"] /\ line = [p \in Processes |-> 0]
  /\ rows = <<>> /\ cache = [p \in Processes |-> [b \in 1 .. MaxLines |-> None]]
  /\ clock = 0 /\ given = <<>> /\ behind = [p \in Processes |-> {}]

-----------------------------------------------------------------------------
\* A line is active from the start; one that could not be saved is not cached.
Create(p) ==
  /\ stage[p] = "idle" /\ Len(rows) < MaxLines
  /\ LET new == [status |-> "active", active |-> clock] IN
     /\ rows' = Append(rows, new)
     /\ cache' = [cache EXCEPT ![p][Len(rows) + 1] = new]
  /\ given' = Append(given, {"active"})
  /\ UNCHANGED <<stage, line, clock, behind>>

\* The cache is asked first, and filled from the row.
Cached(p, b) == IF cache[p][b] # None THEN cache[p][b] ELSE rows[b]

Get(p, b) ==
  /\ stage[p] = "idle"
  /\ cache' = [cache EXCEPT ![p][b] = Cached(p, b)]
  /\ UNCHANGED <<stage, line, rows, clock, given, behind>>

\* The rows of a status, or of all, take the place of what the cache has of them;
\* the others stay in it as they are.
List(p, statuses) ==
  /\ stage[p] = "idle"
  /\ LET listed == {b \in DOMAIN rows : rows[b].status \in statuses} IN
     /\ cache' = [cache EXCEPT ![p] = [b \in 1 .. MaxLines |->
                    IF b \in listed THEN rows[b] ELSE cache[p][b]]]
     /\ behind' = [behind EXCEPT ![p] = @ \ listed]
  /\ UNCHANGED <<stage, line, rows, clock, given>>

\* A deletion is such an update.  The line in the cache is changed ...
UpdateStatus(p, b, status) ==
  /\ stage[p] = "idle" /\ clock < MaxSaves
  /\ stage' = [stage EXCEPT ![p] = "save"] /\ line' = [line EXCEPT ![p] = b]
  /\ clock' = clock + 1
  /\ cache' = [cache EXCEPT ![p][b] = [status |-> status, active |-> clock + 1]]
  /\ given' = [given EXCEPT ![b] = @ \cup {status}]
  /\ behind' = [behind EXCEPT ![p] = @ \cup {b}]
  /\ UNCHANGED rows

\* ... and the whole of it saved.
SaveBusinessLine(p) ==
  /\ stage[p] = "save"
  /\ stage' = [stage EXCEPT ![p] = "idle"]
  /\ rows' = [rows EXCEPT ![line[p]] = cache[p][line[p]]]
  /\ behind' = [q \in Processes |->
       IF q = p THEN behind[q] \ {line[p]} ELSE behind[q] \cup {line[p]}]
  /\ UNCHANGED <<line, cache, clock, given>>

\* The database is locked: the caller is told, and the cache keeps the change.
SaveFails(p) ==
  /\ stage[p] = "save"
  /\ stage' = [stage EXCEPT ![p] = "idle"]
  /\ UNCHANGED <<line, rows, cache, clock, given, behind>>

-----------------------------------------------------------------------------
Next ==
  \E p \in Processes :
    \/ Create(p) \/ SaveBusinessLine(p) \/ SaveFails(p)
    \/ List(p, Statuses) \/ \E status \in Statuses : List(p, {status})
    \/ \E b \in DOMAIN rows : Get(p, b) \/ \E status \in Statuses : UpdateStatus(p, b, status)

Spec == Init /\ [][Next]_vars

-----------------------------------------------------------------------------
\* What a process holds of a line is its row, unless another process has written the
\* row, or a save of its own has failed, since it last read it; then the row still
\* has a status it was to have, and the activity of that update.
CacheFollowsRows ==
  \A p \in Processes, b \in DOMAIN rows :
    /\ cache[p][b] # None /\ b \notin behind[p] => cache[p][b] = rows[b]
    /\ rows[b].status \in given[b]
=============================================================================
