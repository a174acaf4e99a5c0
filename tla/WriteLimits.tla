------------------------------- MODULE WriteLimits -------------------------------
(***************************************************************************)
(* What a write passes before it is stored: the budget of its client       *)
(* (app/core/ratelimit.py), which REST, the MCP tools and the OTLP         *)
(* receiver share, and a batch of spans, which the receiver stores one by  *)
(* one and an exporter sends again when the answer was not 200             *)
(* (app/api/otlp.py).                                                      *)
(***************************************************************************)
EXTENDS Integers, Sequences, FiniteSets, Functions

CONSTANTS
  None,
  Clients,          \* peer addresses
  limit,
  window_seconds,
  max_clients,
  MaxTime,          \* bound: the clock
  MaxWrites,        \* bound: writes that are let through
  MaxSpans,         \* bound: spans of the batch
  Exporter          \* the client that sends the batch

ASSUME LimitsAssumption ==
  /\ limit \in Nat \ {0} /\ window_seconds \in Nat \ {0} /\ max_clients \in Nat \ {0}
  /\ Exporter \in Clients /\ MaxSpans \in Nat
  /\ None \notin Nat \cup Seq(Nat)

VARIABLES
  now,       \* the monotonic clock
  buckets,   \* [keys -> [window_start, count]], not all keys
  accepted,  \* history: writes let through, [client, at]
  refused,   \* history: the last write refused, the same, or None
  cleared,   \* history: when the map was last cleared, or None
  batch,     \* spans left of the batch being stored, or None
  stored,    \* [1 .. MaxSpans -> how often it was stored]
  answered   \* whether the exporter has got its 200

limitVars == <<now, buckets, accepted, refused, cleared, batch, stored, answered>>

LimitInit ==
  /\ now = 0 /\ buckets = <<>> /\ accepted = <<>> /\ refused = None /\ cleared = None
  /\ batch = None /\ stored = [n \in 1 .. MaxSpans |-> 0] /\ answered = FALSE

Expired(b) == now - b.window_start >= window_seconds

\* The map without what has expired; if that is not enough, empty.
Swept ==
  LET live == {k \in DOMAIN buckets : ~Expired(buckets[k])}
  IN  IF Cardinality(live) >= max_clients THEN <<>> ELSE Restrict(buckets, live)

\* A budget for each transport.
KeyOfTransport(c, transport) == <<c, transport>>

\* One key, whatever the transport.
client_key(c, transport) == <<c>>

\* The write is counted, or refused.
check(c, transport, allowed) ==
  LET key   == client_key(c, transport)
      fresh == key \notin DOMAIN buckets \/ Expired(buckets[key])
      full  == Cardinality(DOMAIN buckets) >= max_clients
      room  == IF full THEN Swept ELSE buckets
      put(map, b) == [k \in DOMAIN map \cup {key} |-> IF k = key THEN b ELSE map[k]]
  IN  /\ allowed <=> fresh \/ buckets[key].count < limit
      /\ buckets' =
           IF fresh THEN put(room, [window_start |-> now, count |-> 1])
           ELSE IF allowed THEN [buckets EXCEPT ![key].count = @ + 1]
           ELSE buckets
      /\ cleared' = IF fresh /\ full /\ room = <<>> THEN now ELSE cleared
      /\ accepted' = IF allowed THEN Append(accepted, [client |-> c, at |-> now]) ELSE accepted
      /\ refused' = IF allowed THEN refused ELSE [client |-> c, at |-> now]

Bounded == Len(accepted) < MaxWrites

\* A report over REST or by a tool of the MCP server.
Write(c) ==
  /\ Bounded
  /\ \E transport \in {"rest", "mcp"}, allowed \in BOOLEAN : check(c, transport, allowed)
  /\ UNCHANGED <<now, batch, stored, answered>>

\* The exporter sends its batch, also again after an answer that was not 200.
ingest_traces ==
  /\ Bounded /\ batch = None /\ ~answered
  /\ \E allowed \in BOOLEAN :
       /\ check(Exporter, "rest", allowed)
       /\ batch' = IF allowed THEN [n \in 1 .. MaxSpans |-> n] ELSE None
  /\ UNCHANGED <<now, stored, answered>>

\* A session for each span, and nothing undone when a later one fails.
record_observation ==
  /\ batch \notin {None, <<>>}
  /\ \/ /\ stored' = [stored EXCEPT ![Head(batch)] = @ + 1]
        /\ batch' = Tail(batch)
     \/ /\ batch' = None
        /\ UNCHANGED stored
  /\ UNCHANGED <<now, buckets, accepted, refused, cleared, answered>>

\* 200 although a span was left out.
AnsweredHalfway == batch # None

Complete == batch = <<>>

\* The answer, which may be lost on its way.
Responded ==
  /\ Complete
  /\ batch' = None
  /\ answered' \in BOOLEAN
  /\ UNCHANGED <<now, buckets, accepted, refused, cleared, stored>>

Tick ==
  /\ now < MaxTime
  /\ now' = now + 1
  /\ UNCHANGED <<buckets, accepted, refused, cleared, batch, stored, answered>>

LimitNext ==
  \/ \E c \in Clients : Write(c)
  \/ ingest_traces \/ record_observation \/ Responded \/ Tick

-----------------------------------------------------------------------------
(* Properties.                                                             *)

AcceptedWithin(c, from, to) ==
  {i \in DOMAIN accepted : accepted[i].client = c /\ accepted[i].at \in from .. to}

(* In no window_seconds a client gets twice its limit through, on whatever *)
(* transports, unless the map was cleared meanwhile; and no client is      *)
(* refused because of what others sent: it had its limit itself, in the    *)
(* window_seconds before.                                                  *)
BudgetKept ==
  /\ \A c \in Clients, t \in 0 .. now :
       LET to == t + window_seconds - 1
       IN  \/ cleared # None /\ cleared >= t
           \/ Cardinality(AcceptedWithin(c, t, to)) <= 2 * limit - 1
  /\ refused # None =>
       Cardinality(AcceptedWithin(refused.client, refused.at - window_seconds + 1, refused.at))
         >= limit

(* An exporter that got its 200 has every span stored, and a span is       *)
(* stored more often than once only if a try before it was not answered.   *)
AnsweredMeansStored ==
  /\ answered => \A n \in 1 .. MaxSpans : stored[n] >= 1
  /\ \A n \in 1 .. MaxSpans :
       stored[n] <= Cardinality({i \in DOMAIN accepted : accepted[i].client = Exporter})
=============================================================================
