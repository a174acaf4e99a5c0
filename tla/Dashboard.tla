-------------------------------- MODULE Dashboard --------------------------------
(***************************************************************************)
(* The network-wide numbers that every reader gets from one cache          *)
(* (app/core/cache.py, app/api/services.py).  A reader that misses awaits  *)
(* its queries, so that several compute the same answer at once and store  *)
(* it in whatever order they finish.                                       *)
(*                                                                         *)
(* A value is the number of writes the queries saw.                        *)
(***************************************************************************)
EXTENDS Integers, Sequences, FiniteSets, Functions

CONSTANTS
  Nothing,
  Readers,
  CacheKeys,
  ttl,
  max_entries,
  MaxCompute,  \* how long the queries take at most
  MaxClock,     \* bound: the clock
  MaxVersions  \* bound: writes

ASSUME CacheAssumption == ttl \in Nat \ {0} /\ max_entries \in Nat \ {0} /\ MaxCompute \in Nat

VARIABLES
  time,     \* the monotonic clock
  version,  \* the writes so far
  since,    \* history: version -> when it came to be
  entries,  \* the dict: [keys -> [at, value]], not all keys
  order,    \* its keys in the order in which they were put in
  reader,   \* [Readers -> [pc, key, value, began]]
  served    \* history: the last answer, [value, at], or Nothing

dashboardVars == <<time, version, since, entries, order, reader, served>>

IdleReader == [pc |-> "idle", key |-> Nothing, value |-> Nothing, began |-> Nothing]

DashboardInit ==
  /\ time = 0 /\ version = 0 /\ since = <<>> /\ served = Nothing
  /\ entries = <<>> /\ order = <<>>
  /\ reader = [r \in Readers |-> IdleReader]

Without(key) == /\ entries' = Restrict(entries, DOMAIN entries \ {key})
                /\ order' = SelectSeq(order, LAMBDA k : k # key)

\* An entry is only thrown away to make room.
NeverStale(e) == FALSE

Stale(e) == time - e.at >= ttl

\* The one way to fall out of the cache by being read.
get(r, key) ==
  /\ reader[r].pc = "idle"
  /\ IF key \in DOMAIN entries /\ ~Stale(entries[key])
     THEN /\ served' = [value |-> entries[key].value, at |-> time]
          /\ UNCHANGED <<entries, order, reader>>
     ELSE /\ Without(key)
          /\ reader' = [reader EXCEPT ![r] = [pc |-> "queries", key |-> key, value |-> Nothing,
                                              began |-> time]]
          /\ UNCHANGED served
  /\ UNCHANGED <<time, version, since>>

Queries(r) ==
  /\ reader[r].pc = "queries"
  /\ reader' = [reader EXCEPT ![r].pc = "computed", ![r].value = version]
  /\ UNCHANGED <<time, version, since, entries, order, served>>

Place(key) == CHOOSE i \in DOMAIN order : order[i] = key

\* Without the stale entries, and then without the first keys of the dict, until
\* there is room.
Evicted ==
  LET live     == {k \in DOMAIN entries : ~Stale(entries[k])}
      after(k) == {j \in live : Place(j) > Place(k)}
  IN  IF Cardinality(live) < max_entries THEN live
      ELSE {k \in live : Cardinality(after(k)) < max_entries - 1}

\* An entry that is there keeps its place.
set(r) ==
  LET key   == reader[r].key
      keys  == IF key \in DOMAIN entries \/ Cardinality(DOMAIN entries) < max_entries
               THEN DOMAIN entries ELSE Evicted
      entry == [at |-> time, value |-> reader[r].value]
  IN  /\ reader[r].pc = "computed"
      /\ entries' = [k \in keys \cup {key} |-> IF k = key THEN entry ELSE entries[k]]
      /\ order' = IF key \in DOMAIN entries THEN order
                  ELSE Append(SelectSeq(order, LAMBDA k : k \in keys), key)
      /\ served' = [value |-> reader[r].value, at |-> time]
      /\ reader' = [reader EXCEPT ![r] = IdleReader]
      /\ UNCHANGED <<time, version, since>>

Written ==
  /\ version < MaxVersions
  /\ version' = version + 1
  /\ since' = Append(since, time)
  /\ UNCHANGED <<time, entries, order, reader, served>>

Passes ==
  /\ time < MaxClock
  /\ \A r \in Readers : reader[r].pc # "idle" => time - reader[r].began < MaxCompute
  /\ time' = time + 1
  /\ UNCHANGED <<version, since, entries, order, reader, served>>

DashboardNext ==
  \/ \E r \in Readers : Queries(r) \/ set(r) \/ \E key \in CacheKeys : get(r, key)
  \/ Written \/ Passes

-----------------------------------------------------------------------------
(* Properties.                                                             *)

(* What a reader is served was the network's number less than ttl and one  *)
(* computation ago, however many readers computed it side by side and      *)
(* stored it one over the other.                                           *)
FreshEnough ==
  served # Nothing /\ served.value < version =>
    served.at - since[served.value + 1] < ttl + MaxCompute
=============================================================================
