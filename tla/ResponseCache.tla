----------------------------- MODULE ResponseCache -----------------------------
(***************************************************************************)
(* A model provider and its cache of responses, as the threads of a        *)
(* concurrent round share them.  A thread asks the cache, calls the        *)
(* transport on a miss, with retries and a timeout, and stores the         *)
(* response; nothing is locked.                                            *)
(*                                                                         *)
(* The interpreter may change threads at every call, and the hash of a key *)
(* is one: between any two operations on the entries others may happen.    *)
(* The first of the entries is the next to be evicted.                     *)
(***************************************************************************)
EXTENDS Integers, Sequences, FiniteSets, SequencesExt

CONSTANTS
  Threads,
  Prompts,     \* prompts to one model, each with its own key
  MaxSize,     \* max_size
  Ttl,         \* ttl_seconds, in ticks
  MaxRetries,  \* max_retries of the provider
  Timed,       \* whether the provider has a timeout
  MaxTime,     \* bound: ticks of the clock
  MaxAsks,     \* bound: calls of generate
  None

VARIABLES
  stage,     \* how far each thread has come
  held,      \* the call of each: its prompt, entry, keys to remove, attempts
  entries,   \* _entries: their keys and when each was created
  hits, misses,
  now,       \* the clock
  asks,      \* calls of generate so far
  mutated,   \* threads whose iteration over the entries another one disturbed
  lookups,   \* history: lookups that counted, since the counters were cleared
  answers    \* history: how old each answer from the cache was, and to what

vars == <<stage, held, entries, hits, misses, now, asks, mutated, lookups, answers>>
counters == <<hits, misses, lookups>>

Nothing == [prompt |-> None, entry |-> None, expired |-> {}, then |-> None, attempts |-> 0]
Expired(entry) == now - entry.at > Ttl
Keys(seq) == [i \in DOMAIN seq |-> seq[i].key]
Cached == {entries[i].key : i \in DOMAIN entries}
EntryOf(p) == CHOOSE entry \in ToSet(entries) : entry.key = p

\* The entries of other keys, in their order.
Without(keys) ==
  LET kept == {i \in DOMAIN entries : entries[i].key \notin keys}
      Place(k) == CHOOSE i \in kept : Cardinality({j \in kept : j < i}) = k - 1
  IN [k \in 1 .. Cardinality(kept) |-> entries[Place(k)]]

TypeOK ==
  LET Entry == [key : Prompts, at : 0 .. now] IN
  /\ stage \in [Threads -> {"idle", "scan", "pops", "lookup", "check", "call", "insert", "move",
                            "evict", "popitem", "zero", "raised"}]
  /\ held \in [Threads -> [prompt : Prompts \cup {None}, entry : Entry \cup {None},
                           expired : SUBSET Prompts, then : {"lookup", "insert", "idle", None},
                           attempts : 0 .. MaxRetries]]
  /\ entries \in Seq(Entry) /\ IsInjective(Keys(entries))
  /\ now \in 0 .. MaxTime /\ asks \in 0 .. MaxAsks
  /\ hits \in Nat /\ misses \in Nat /\ lookups \in Nat /\ mutated \subseteq Threads

Init ==
  /\ stage = [t \in Threads |-> "idle"] /\ held = [t \in Threads |-> Nothing]
  /\ entries = <<>> /\ hits = 0 /\ misses = 0 /\ now = 0 /\ asks = 0
  /\ mutated = {} /\ lookups = 0 /\ answers = {}

Goes(t, from, to) == stage[t] = from /\ stage' = [stage EXCEPT ![t] = to]

\* A change of the keys or of their order disturbs every iteration.
Entries(seq) ==
  /\ entries' = seq
  /\ mutated' = IF Keys(seq) = Keys(entries) THEN mutated
                ELSE mutated \cup {t \in Threads : stage[t] = "scan"}

-----------------------------------------------------------------------------
(* _purge_expired, which get, set and stats begin with *)

Scan(t, from, call, then) ==
  /\ Goes(t, from, "scan")
  /\ held' = [held EXCEPT ![t] = [call EXCEPT !.then = then, !.entry = None]]
  /\ mutated' = mutated \ {t}
  /\ UNCHANGED <<entries, counters, now, answers>>

\* The iterator raises when it finds itself disturbed.
EndScan(t) ==
  /\ Goes(t, "scan", IF t \in mutated THEN "raised" ELSE "pops")
  /\ held' = [held EXCEPT ![t].expired = {entry.key : entry \in {e \in ToSet(entries) : Expired(e)}}]
  /\ UNCHANGED <<entries, counters, now, asks, mutated, answers>>

\* By their keys, whatever is stored under them by now.
PurgeExpired(t) ==
  /\ Goes(t, "pops", held[t].then)
  /\ Entries(Without(held[t].expired))
  /\ held' = [held EXCEPT ![t].expired = {}]
  /\ UNCHANGED <<counters, now, asks, answers>>

-----------------------------------------------------------------------------
(* get *)

Generate(t, p) ==
  /\ asks < MaxAsks /\ asks' = asks + 1
  /\ Scan(t, "idle", [Nothing EXCEPT !.prompt = p], "lookup")

Lookup(t) ==
  LET found == held[t].prompt \in Cached IN
  /\ Goes(t, "lookup", IF found THEN "check" ELSE "call")
  /\ held' = IF found THEN [held EXCEPT ![t].entry = EntryOf(held[t].prompt)] ELSE held
  /\ misses' = IF found THEN misses ELSE misses + 1
  /\ lookups' = IF found THEN lookups ELSE lookups + 1
  /\ UNCHANGED <<entries, hits, now, asks, mutated, answers>>

DropExpired(t) ==
  /\ Goes(t, "check", "call") /\ Expired(held[t].entry)
  /\ Entries(Without({held[t].prompt}))
  /\ misses' = misses + 1 /\ lookups' = lookups + 1
  /\ UNCHANGED <<held, hits, now, asks, answers>>

\* The entry is answered if its key is still there to be moved.
Hit(t) ==
  LET p == held[t].prompt IN
  /\ stage[t] = "check" /\ ~Expired(held[t].entry)
  /\ IF p \in Cached
     THEN /\ Goes(t, "check", "idle")
          /\ Entries(Append(Without({p}), EntryOf(p)))
          /\ hits' = hits + 1 /\ lookups' = lookups + 1
          /\ answers' = answers \cup {[to |-> p, of |-> held[t].entry.key, age |-> now - held[t].entry.at]}
     ELSE /\ Goes(t, "check", "raised")
          /\ UNCHANGED <<entries, mutated, hits, lookups, answers>>
  /\ UNCHANGED <<held, misses, now, asks>>

\* Mutant: what survived the purge is not looked at again.
AnswerFound(t) ==
  LET p == held[t].prompt IN
  /\ Goes(t, "check", "idle")
  /\ Entries(IF p \in Cached THEN Append(Without({p}), EntryOf(p)) ELSE entries)
  /\ hits' = hits + 1 /\ lookups' = lookups + 1
  /\ answers' = answers \cup {[to |-> p, of |-> held[t].entry.key, age |-> now - held[t].entry.at]}
  /\ UNCHANGED <<held, misses, now, asks>>

Found(t) == DropExpired(t) \/ Hit(t)

-----------------------------------------------------------------------------
(* The transport *)

\* A timeout is not retried; what its thread still answers is not read.
CallFails(t) ==
  /\ \/ Timed /\ Goes(t, "call", "raised") /\ held' = held
     \/ /\ held[t].attempts = MaxRetries
        /\ Goes(t, "call", "raised") /\ held' = held
     \/ /\ held[t].attempts < MaxRetries
        /\ Goes(t, "call", "call") /\ held' = [held EXCEPT ![t].attempts = @ + 1]
  /\ UNCHANGED <<entries, counters, now, asks, mutated, answers>>

\* set is called with the response.
CallAnswers(t) == Scan(t, "call", held[t], "insert") /\ UNCHANGED asks

-----------------------------------------------------------------------------
(* set *)

\* An entry that is there is replaced in its place.
Insert(t) ==
  LET entry == [key |-> held[t].prompt, at |-> now] IN
  /\ Goes(t, "insert", "move")
  /\ Entries(IF entry.key \in Cached
             THEN [i \in DOMAIN entries |-> IF entries[i].key = entry.key THEN entry ELSE entries[i]]
             ELSE Append(entries, entry))
  /\ UNCHANGED <<held, counters, now, asks, answers>>

MoveToEnd(t) ==
  LET p == held[t].prompt IN
  /\ IF p \in Cached
     THEN Goes(t, "move", "evict") /\ Entries(Append(Without({p}), EntryOf(p)))
     ELSE Goes(t, "move", "raised") /\ UNCHANGED <<entries, mutated>>
  /\ UNCHANGED <<held, counters, now, asks, answers>>

MeasureSize(t) ==
  /\ Goes(t, "evict", IF Len(entries) > MaxSize THEN "popitem" ELSE "idle")
  /\ UNCHANGED <<held, entries, counters, now, asks, mutated, answers>>

Evict(t) ==
  /\ IF entries # <<>> THEN Goes(t, "popitem", "evict") /\ Entries(Tail(entries))
     ELSE Goes(t, "popitem", "raised") /\ UNCHANGED <<entries, mutated>>
  /\ UNCHANGED <<held, counters, now, asks, answers>>

-----------------------------------------------------------------------------
(* stats and clear *)

Stats(t) ==
  /\ asks < MaxAsks /\ asks' = asks + 1
  /\ Scan(t, "idle", Nothing, "idle")

Clear(t) ==
  /\ asks < MaxAsks /\ asks' = asks + 1
  /\ Goes(t, "idle", "zero")
  /\ Entries(<<>>)
  /\ UNCHANGED <<held, counters, now, answers>>

ZeroCounters(t) ==
  /\ Goes(t, "zero", "idle")
  /\ hits' = 0 /\ misses' = 0 /\ lookups' = 0
  /\ UNCHANGED <<held, entries, now, asks, mutated, answers>>

\* The task that asked fails; its thread goes on with another.
NextTask(t) ==
  /\ Goes(t, "raised", "idle")
  /\ UNCHANGED <<held, entries, counters, now, asks, mutated, answers>>

Tick ==
  /\ now < MaxTime /\ now' = now + 1
  /\ UNCHANGED <<stage, held, entries, counters, asks, mutated, answers>>

-----------------------------------------------------------------------------
Next ==
  \/ \E t \in Threads :
       \/ \E p \in Prompts : Generate(t, p)
       \/ EndScan(t) \/ PurgeExpired(t) \/ Lookup(t) \/ Found(t)
       \/ CallFails(t) \/ CallAnswers(t)
       \/ Insert(t) \/ MoveToEnd(t) \/ MeasureSize(t) \/ Evict(t)
       \/ Stats(t) \/ Clear(t) \/ ZeroCounters(t) \/ NextTask(t)
  \/ Tick

Spec == Init /\ [][Next]_vars

-----------------------------------------------------------------------------
(* Properties *)

\* However threads disturb each other, an answer from the cache is to the prompt it
\* is given for and has not expired; there are no more entries than max_size beyond
\* those of the threads that are about to evict; and every lookup that came to an
\* end was a hit or a miss, once.
CacheKeepsItsWord ==
  /\ \A a \in answers : a.of = a.to /\ a.age <= Ttl
  /\ Len(entries) <= MaxSize + Cardinality({t \in Threads : stage[t] \in {"move", "evict", "popitem"}})
  /\ hits + misses = lookups
=============================================================================
