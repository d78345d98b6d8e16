------------------------------ MODULE DryRunMode ------------------------------
(***************************************************************************)
(* Dry runs: within a context, tools and models of the harness are         *)
(* simulated.  The mode is the harness's, not the context's: a context     *)
(* keeps the mode it found, and puts it back when it is left.  Coroutines  *)
(* of one harness take turns at every call, so their contexts may overlap. *)
(***************************************************************************)
EXTENDS Integers, Sequences

CONSTANTS
  Coroutines,
  Tools,    \* registered as objects, and allowed by it
  Plain,    \* registered as functions, and allowed by nobody
  MaxDepth, \* bound: contexts of one coroutine
  None      \* no call yet

Modes == [enabled : BOOLEAN, tools : BOOLEAN]

VARIABLES
  configured, \* config.dry_run
  mode,       \* dry_run_enabled of the harness, dry_run of its tool registry
  provider,   \* whether the default model is the simulated one
  tools,      \* the names in the tool registry
  allowed,    \* the names its permission allows
  contexts,   \* of each coroutine: the modes its open contexts found
  call,       \* history: the last call of a tool or a model, and whether it was
              \* within a context, none being crossed
  order,      \* history: who opened the open contexts, oldest first
  crossed,    \* history: a context was not left in the reverse order of their entry
  base        \* history: the mode that was set outside all contexts

vars == <<configured, mode, provider, tools, allowed, contexts, call, order, crossed, base>>

TypeOK ==
  /\ configured \in BOOLEAN /\ provider \in BOOLEAN /\ crossed \in BOOLEAN /\ base \in BOOLEAN
  /\ mode \in Modes /\ allowed \subseteq tools /\ tools \subseteq Tools \cup Plain
  /\ contexts \in [Coroutines -> Seq(Modes)] /\ order \in Seq(Coroutines)
  /\ \A c \in Coroutines : Len(contexts[c]) <= MaxDepth

Init ==
  /\ configured \in BOOLEAN
  /\ mode = [enabled |-> configured, tools |-> configured] /\ provider = configured
  /\ tools = {} /\ allowed = {}
  /\ contexts = [c \in Coroutines |-> <<>>]
  /\ call = None /\ order = <<>> /\ crossed = FALSE /\ base = configured

-----------------------------------------------------------------------------
\* The default model becomes the simulated one, or the one of the configuration,
\* which is simulated too if that says so.
SetsDryRun(enabled) == provider' = (enabled \/ configured)

\* By a caller, within contexts or not.
SetDryRun(enabled) ==
  /\ mode' = [enabled |-> enabled, tools |-> enabled] /\ SetsDryRun(enabled)
  /\ base' = (IF order = <<>> THEN enabled ELSE base) /\ crossed' = (order # <<>>)
  /\ UNCHANGED <<configured, tools, allowed, contexts, call, order>>

Enter(c) ==
  /\ Len(contexts[c]) < MaxDepth
  /\ contexts' = [contexts EXCEPT ![c] = Append(@, mode)]
  /\ mode' = [enabled |-> TRUE, tools |-> TRUE] /\ SetsDryRun(TRUE)
  /\ order' = Append(order, c)
  /\ UNCHANGED <<configured, tools, allowed, call, crossed, base>>

\* Of the contexts of the coroutine, the last.
Exit(c) ==
  /\ contexts[c] # <<>>
  /\ LET found == contexts[c][Len(contexts[c])]
     IN mode' = found /\ SetsDryRun(found.enabled)
  /\ contexts' = [contexts EXCEPT ![c] = SubSeq(@, 1, Len(@) - 1)]
  /\ LET mine == CHOOSE i \in DOMAIN order : order[i] = c /\ \A j \in i + 1 .. Len(order) : order[j] # c
     IN /\ order' = SubSeq(order, 1, mine - 1) \o SubSeq(order, mine + 1, Len(order))
        /\ crossed' = (crossed \/ mine # Len(order))
  /\ UNCHANGED <<configured, tools, allowed, call, base>>

-----------------------------------------------------------------------------
RegisterTool(tool) ==
  /\ tools' = tools \cup {tool}
  /\ allowed' = IF tool \in Tools THEN allowed \cup {tool} ELSE allowed
  /\ UNCHANGED <<configured, mode, provider, contexts, call, order, crossed, base>>

Calls(c, outcome) ==
  /\ call' = [within |-> contexts[c] # <<>> /\ ~crossed, outcome |-> outcome]
  /\ UNCHANGED <<configured, mode, provider, tools, allowed, contexts, order, crossed, base>>

CallTool(c, tool) ==
  Calls(c, IF tool \notin tools \/ tool \notin allowed THEN "refused"
           ELSE IF mode.tools THEN "simulated" ELSE "run")

Generate(c) == Calls(c, IF provider THEN "simulated" ELSE "run")

-----------------------------------------------------------------------------
Next ==
  \/ \E enabled \in BOOLEAN : SetDryRun(enabled)
  \/ \E tool \in Tools \cup Plain : RegisterTool(tool)
  \/ \E c \in Coroutines :
       Enter(c) \/ Exit(c) \/ Generate(c) \/ \E tool \in Tools \cup Plain : CallTool(c, tool)

Spec == Init /\ [][Next]_vars

-----------------------------------------------------------------------------
\* As long as contexts are left in the reverse order of their entry, whoever opened
\* them, and nobody sets the mode within one: whoever is within a context runs
\* neither a tool nor a model, and outside all of them the mode is that which was
\* last set, for tools and models alike, and that is what the models of a harness
\* configured for dry runs always are.
DryRunHolds ==
  /\ ~crossed =>
       /\ order # <<>> => mode.enabled /\ mode.tools /\ provider
       /\ order = <<>> => mode.enabled = base /\ mode.tools = base
  /\ call # None /\ call.within => call.outcome # "run"
  /\ ~mode.enabled => provider = configured
=============================================================================
