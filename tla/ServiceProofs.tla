------------------------------ MODULE ServiceProofs -----------------------------
(***************************************************************************)
(* The service beside its evidence: the budgets of writes, the dashboard's *)
(* cache, the tokens of private teams, and request sessions with their     *)
(* catalogue, for any clients, limits, readers, keys, teams, tokens,       *)
(* sessions, fingerprints and reporters.  Each part of Edge has its        *)
(* inductive invariant; the theorems are about EdgeSpec, whose steps are   *)
(* steps of one part and stutters of the others.  Catalogue is a           *)
(* specification of its own (Spec).                                        *)
(***************************************************************************)
EXTENDS Edge, Catalogue, FiniteSetTheorems, TLAPS

LEMMA PartsStep ==
  ASSUME [EdgeNext]_edgeVars
  PROVE  [LimitNext]_limitVars /\ [DashboardNext]_dashboardVars /\ [TeamNext]_teamVars
  BY DEF EdgeNext, edgeVars

-----------------------------------------------------------------------------
(* Private teams.  Between a rotation's counts and its update, rows come   *)
(* under its new token only by a report or by another rotation's update,   *)
(* and each of them marks it as raced.                                     *)

RowOK(x) ==
  /\ x = [id |-> x.id, table |-> x.table, team |-> x.team, token |-> x.token]
  /\ x.table \in Tables

Rotating == [pc : Tables \cup {"update", "done"}, team : Teams, old : Tokens, new : Tokens,
             raced : BOOLEAN]

TeamsTyped ==
  /\ \A x \in rows : RowOK(x)
  /\ held \in [Teams -> SUBSET Tokens]
  /\ rotation \in Seq(Rotating)

\* What a rotation that nobody raced has counted is still so.
CountsStand ==
  \A i \in DOMAIN rotation :
    ~rotation[i].raced =>
      /\ rotation[i].pc \in {"outcomes", "update"} =>
           ~Taken(rotation[i].new, "observations")
      /\ rotation[i].pc = "update" => ~Taken(rotation[i].new, "outcomes")

TeamInv == TeamsTyped /\ CountsStand /\ MergedOnlyByRace

LEMMA TeamInitially == TeamInit => TeamInv
  BY DEF TeamInit, TeamInv, TeamsTyped, CountsStand, MergedOnlyByRace

LEMMA RacedTyped ==
  ASSUME TeamsTyped, NEW token, NEW but
  PROVE  /\ Raced(token, but) \in Seq(Rotating)
         /\ DOMAIN Raced(token, but) = DOMAIN rotation
         /\ \A i \in DOMAIN rotation :
              LET r == Raced(token, but)[i]
              IN  /\ r.pc = rotation[i].pc /\ r.new = rotation[i].new
                  /\ rotation[i].raced => r.raced
                  /\ i # but /\ r.pc # "done" /\ r.new = token => r.raced
                  /\ r \in Rotating
  <1>1. \A i \in DOMAIN rotation : rotation[i] \in Rotating
    BY DEF TeamsTyped
  <1>2. \A i \in DOMAIN rotation : Raced(token, but)[i] \in Rotating
    BY <1>1 DEF Raced, Rotating
  <1>3. DOMAIN rotation = 1 .. Len(rotation) /\ Len(rotation) \in Nat
    BY DEF TeamsTyped
  <1> QED
    BY <1>1, <1>2, <1>3 DEF Raced, Rotating

\* A step that takes nothing under a token away from being counted.
LEMMA TeamStep ==
  ASSUME TeamInv, [TeamNext]_teamVars
  PROVE  TeamInv'
  <1> USE DEF TeamInv
  <1>1. ASSUME NEW t \in Teams, NEW token \in Tokens, NEW table \in Tables, Report(t, token, table)
        PROVE  TeamInv'
    <2>1. PICK id : rows' = rows \cup {[id |-> id, table |-> table, team |-> t, token |-> token]}
      BY <1>1 DEF Report
    <2>2. rotation' = Raced(token, 0) /\ UNCHANGED <<held, merged>>
      BY <1>1 DEF Report
    <2>3. TeamsTyped'
      BY <2>1, <2>2, RacedTyped DEF TeamsTyped, RowOK
    <2>4. \A other : other # token => Under(other)' = Under(other)
      BY <2>1 DEF Under
    <2>5. CountsStand'
      BY <2>2, <2>4, RacedTyped DEF CountsStand, Taken, TeamsTyped
    <2> QED
      BY <2>2, <2>3, <2>5 DEF MergedOnlyByRace
  <1>2. ASSUME NEW t \in Teams, NEW token \in Tokens, delete_team(t, token)
        PROVE  TeamInv'
    BY <1>2 DEF delete_team, TeamsTyped, CountsStand, MergedOnlyByRace, Taken, Under
  <1>3. ASSUME NEW t \in Teams, NEW old \in Tokens, NEW new \in Tokens, RotateBegins(t, old, new)
        PROVE  TeamInv'
    <2> DEFINE r == [pc |-> "observations", team |-> t, old |-> old, new |-> new, raced |-> FALSE]
    <2>1. r \in Rotating
      BY DEF Rotating, Tables
    <2>2. rotation' = Append(rotation, r) /\ UNCHANGED <<rows, held, merged>>
      BY <1>3 DEF RotateBegins
    <2>3. TeamsTyped'
      BY <2>1, <2>2 DEF TeamsTyped, RowOK
    <2>4. CountsStand'
      BY <2>2 DEF TeamsTyped, CountsStand, Taken, Under
    <2> QED
      BY <2>2, <2>3, <2>4 DEF MergedOnlyByRace
  <1>4. ASSUME NEW i \in DOMAIN rotation, Counted(i)
        PROVE  TeamInv'
    <2>1. rotation[i] \in Rotating
      BY DEF TeamsTyped
    <2>2. TeamsTyped'
      BY <1>4, <2>1 DEF Counted, TeamsTyped, Rotating, Tables, RowOK
    <2>3. CountsStand'
      BY <1>4, <2>1 DEF Counted, TeamsTyped, CountsStand, Taken, Under, Tables, Rotating
    <2> QED
      BY <1>4, <2>2, <2>3 DEF Counted, MergedOnlyByRace
  <1>5. ASSUME NEW i \in DOMAIN rotation, Moved(i)
        PROVE  TeamInv'
    <2> DEFINE x == rotation[i]
               r == Raced(x.new, i)
    <2>1. x \in Rotating /\ x.pc = "update"
      BY <1>5 DEF TeamsTyped, Moved
    <2>2. rows' = Replace(x.old, x.new) /\ rotation' = [Raced(x.new, i) EXCEPT ![i].pc = "done"]
      BY <1>5 DEF Moved
    <2>3. \A y \in rows' : RowOK(y) /\ (y.token = x.new \/ y \in rows)
      BY <2>2 DEF Replace, TeamsTyped, RowOK
    <2>4. TeamsTyped'
      <3>1. held' \in [Teams -> SUBSET Tokens]
        BY <1>5, <2>1 DEF Moved, TeamsTyped, Rotating
      <3>2. rotation' \in Seq(Rotating)
        <4>1. [r[i] EXCEPT !.pc = "done"] \in Rotating
          BY RacedTyped DEF Rotating
        <4> QED
          BY <2>2, <4>1, RacedTyped
      <3> QED
        BY <2>3, <3>1, <3>2 DEF TeamsTyped
    <2>5. CountsStand'
      <3>1. DOMAIN rotation' = DOMAIN rotation /\ rotation'[i].pc = "done"
        BY <2>2, RacedTyped DEF Rotating
      <3>2. \A j \in DOMAIN rotation : j # i => rotation'[j] = r[j]
        BY <2>2, RacedTyped
      <3>3. \A token, table : token # x.new /\ ~Taken(token, table) => ~Taken(token, table)'
        BY <2>3 DEF Taken, Under
      <3>4. ASSUME NEW j \in DOMAIN rotation, j # i, ~r[j].raced, r[j].pc \in {"outcomes", "update"}
            PROVE  r[j].new # x.new /\ r[j].new = rotation[j].new /\ r[j].pc = rotation[j].pc
                   /\ ~rotation[j].raced
        BY <3>4, RacedTyped
      <3> QED
        BY <3>1, <3>2, <3>3, <3>4 DEF CountsStand
    <2>6. ASSUME ~x.raced
          PROVE  Under(x.new) = {}
      BY <2>1, <2>6 DEF CountsStand, Taken, Under, TeamsTyped, RowOK, Tables
    <2>7. MergedOnlyByRace'
      BY <1>5, <2>6 DEF Moved, MergedOnlyByRace
    <2> QED
      BY <2>4, <2>5, <2>7
  <1>6. CASE UNCHANGED teamVars
    BY <1>6 DEF teamVars, TeamsTyped, CountsStand, MergedOnlyByRace, Taken, Under, RowOK
  <1> QED
    BY <1>1, <1>2, <1>3, <1>4, <1>5, <1>6 DEF TeamNext

(* A rotation does not put one team's rows beside another's, unless        *)
(* something was stored under the new token while it was under way.        *)
THEOREM TeamsStayApart == EdgeSpec => []MergedOnlyByRace
  <1>1. EdgeInit => TeamInv
    BY TeamInitially DEF EdgeInit
  <1>2. TeamInv /\ [EdgeNext]_edgeVars => TeamInv'
    BY PartsStep, TeamStep
  <1>3. TeamInv => MergedOnlyByRace
    BY DEF TeamInv
  <1> QED
    BY <1>1, <1>2, <1>3, PTL DEF EdgeSpec

-----------------------------------------------------------------------------
(* The dashboard's cache.  A value is as old as the computation that made  *)
(* it when it is stored, and no older than ttl more when it is read.       *)

Process == [pc : {"idle", "queries", "computed"}, key : CacheKeys \cup {Nothing},
            value : Nat \cup {Nothing}, began : Nat \cup {Nothing}]

DashboardTyped ==
  /\ time \in Nat /\ version \in Nat
  /\ since \in Seq(Nat) /\ Len(since) = version
  /\ reader \in [Readers -> Process]

HistoryInPast == \A i \in 1 .. version : since[i] <= time

\* Nothing was written after the value and before the time.
AsOf(value, from) == value \in 0 .. version /\ (value < version => since[value + 1] >= from)

ReadersInTime ==
  \A r \in Readers :
    /\ reader[r].pc # "idle" =>
         reader[r].began \in Nat /\ reader[r].began <= time /\ time <= reader[r].began + MaxCompute
    /\ reader[r].pc = "computed" => AsOf(reader[r].value, reader[r].began)

EntriesFresh ==
  \A k \in DOMAIN entries :
    entries[k].at \in 0 .. time /\ AsOf(entries[k].value, entries[k].at - MaxCompute)

ServedFresh ==
  served # Nothing =>
    served.at \in 0 .. time /\ AsOf(served.value, served.at - (ttl + MaxCompute) + 1)

DashboardInv ==
  DashboardTyped /\ HistoryInPast /\ ReadersInTime /\ EntriesFresh /\ ServedFresh

LEMMA DashboardInitially == DashboardInit => DashboardInv
  BY CacheAssumption
     DEF DashboardInit, DashboardInv, DashboardTyped, HistoryInPast, ReadersInTime, EntriesFresh,
         ServedFresh, Process, IdleReader

LEMMA AsOfEarlier ==
  ASSUME DashboardTyped, NEW value, NEW from \in Int, NEW to \in Int, to <= from,
         AsOf(value, from)
  PROVE  AsOf(value, to)
  BY DEF AsOf, DashboardTyped

LEMMA DashboardStep ==
  ASSUME DashboardInv, [DashboardNext]_dashboardVars
  PROVE  DashboardInv'
  <1> USE CacheAssumption DEF DashboardInv
  <1>1. ASSUME NEW r \in Readers, NEW key \in CacheKeys, get(r, key)
        PROVE  DashboardInv'
    <2>1. CASE key \in DOMAIN entries /\ ~Stale(entries[key])
      <3>1. served' = [value |-> entries[key].value, at |-> time]
            /\ UNCHANGED <<time, version, since, entries, order, reader>>
        BY <1>1, <2>1 DEF get
      <3>2. time - entries[key].at < ttl /\ entries[key].at \in 0 .. time
        BY <2>1 DEF Stale, EntriesFresh, DashboardTyped
      <3>3. ServedFresh'
        <4>1. AsOf(entries[key].value, entries[key].at - MaxCompute)
          BY <2>1 DEF EntriesFresh
        <4>2. time - (ttl + MaxCompute) + 1 <= entries[key].at - MaxCompute
          BY <3>2 DEF DashboardTyped
        <4>3. time - (ttl + MaxCompute) + 1 \in Int /\ entries[key].at - MaxCompute \in Int
          BY <3>2 DEF DashboardTyped
        <4>4. AsOf(entries[key].value, time - (ttl + MaxCompute) + 1)
          BY <4>1, <4>2, <4>3, AsOfEarlier
        <4> QED
          BY <3>1, <4>4 DEF ServedFresh, AsOf, DashboardTyped
      <3> QED
        BY <3>1, <3>3 DEF DashboardTyped, HistoryInPast, ReadersInTime, EntriesFresh, AsOf
    <2>2. CASE ~(key \in DOMAIN entries /\ ~Stale(entries[key]))
      <3>1. /\ entries' = Restrict(entries, DOMAIN entries \ {key})
            /\ reader' = [reader EXCEPT ![r] = [pc |-> "queries", key |-> key, value |-> Nothing,
                                                began |-> time]]
            /\ UNCHANGED <<time, version, since, served>>
        BY <1>1, <2>2 DEF get, Without
      <3>2. EntriesFresh'
        BY <3>1 DEF EntriesFresh, Restrict, AsOf
      <3>3. DashboardTyped' /\ ReadersInTime'
        BY <3>1 DEF DashboardTyped, ReadersInTime, Process, AsOf
      <3> QED
        BY <3>1, <3>2, <3>3 DEF HistoryInPast, ServedFresh, AsOf
    <2> QED
      BY <2>1, <2>2
  <1>2. ASSUME NEW r \in Readers, Queries(r)
        PROVE  DashboardInv'
    <2>1. DashboardTyped' /\ ReadersInTime'
      <3>1. reader[r].pc = "queries"
            /\ reader' = [reader EXCEPT ![r].pc = "computed", ![r].value = version]
            /\ UNCHANGED <<time, version, since>>
        BY <1>2 DEF Queries
      <3>2. reader'[r].pc = "computed" /\ reader'[r].value = version
            /\ reader'[r].began = reader[r].began /\ reader'[r] \in Process
            /\ \A q \in Readers \ {r} : reader'[q] = reader[q]
        BY <3>1 DEF DashboardTyped, Process
      <3>3. DashboardTyped'
        BY <3>1, <3>2 DEF DashboardTyped
      <3> QED
        BY <3>1, <3>2, <3>3 DEF DashboardTyped, ReadersInTime, AsOf
    <2> QED
      BY <1>2, <2>1 DEF Queries, HistoryInPast, EntriesFresh, ServedFresh, AsOf
  <1>3. ASSUME NEW r \in Readers, set(r)
        PROVE  DashboardInv'
    <2> DEFINE key   == reader[r].key
               entry == [at |-> time, value |-> reader[r].value]
    <2>1. /\ reader[r].pc = "computed"
          /\ served' = [value |-> reader[r].value, at |-> time]
          /\ reader' = [reader EXCEPT ![r] = IdleReader]
          /\ UNCHANGED <<time, version, since>>
      BY <1>3 DEF set
    <2>2. PICK keys \in SUBSET DOMAIN entries :
            entries' = [k \in keys \cup {key} |-> IF k = key THEN entry ELSE entries[k]]
      BY <1>3 DEF set, Evicted
    <2>3. AsOf(reader[r].value, time - MaxCompute)
      BY <2>1 DEF ReadersInTime, AsOf, DashboardTyped
    <2>4. EntriesFresh'
      BY <2>1, <2>2, <2>3 DEF EntriesFresh, AsOf, DashboardTyped
    <2>5. ServedFresh'
      BY <2>1, <2>3 DEF ServedFresh, AsOf, DashboardTyped
    <2>6. DashboardTyped' /\ ReadersInTime'
      BY <2>1 DEF DashboardTyped, ReadersInTime, Process, IdleReader, AsOf
    <2> QED
      BY <2>1, <2>4, <2>5, <2>6 DEF HistoryInPast
  <1>4. CASE Written
    <2>1. version' = version + 1 /\ since' = Append(since, time)
          /\ UNCHANGED <<time, entries, reader, served>>
      BY <1>4 DEF Written
    <2>2. DashboardTyped'
      BY <2>1 DEF DashboardTyped
    <2>3. since'[version + 1] = time /\ \A i \in 1 .. version : since'[i] = since[i]
      BY <2>1 DEF DashboardTyped
    <2>4. HistoryInPast'
      BY <2>1, <2>3 DEF HistoryInPast, DashboardTyped
    <2>5. ASSUME NEW value, NEW from \in Int, from <= time, AsOf(value, from)
          PROVE  AsOf(value, from)'
      BY <2>1, <2>3, <2>5 DEF AsOf, DashboardTyped
    <2>6. ReadersInTime'
      BY <2>1, <2>5 DEF ReadersInTime, DashboardTyped
    <2>7. EntriesFresh'
      <3>1. \A k \in DOMAIN entries :
              entries[k].at - MaxCompute \in Int /\ entries[k].at - MaxCompute <= time
        BY DEF EntriesFresh, DashboardTyped
      <3> QED
        BY <2>1, <2>5, <3>1 DEF EntriesFresh, DashboardTyped
    <2>8. ServedFresh'
      BY <2>1, <2>5 DEF ServedFresh, DashboardTyped
    <2> QED
      BY <2>2, <2>4, <2>6, <2>7, <2>8
  <1>5. CASE Passes
    BY <1>5 DEF Passes, DashboardTyped, HistoryInPast, ReadersInTime, EntriesFresh, ServedFresh, AsOf,
                Process
  <1>6. CASE UNCHANGED dashboardVars
    BY <1>6 DEF dashboardVars, DashboardTyped, HistoryInPast, ReadersInTime, EntriesFresh,
                ServedFresh, AsOf
  <1> QED
    BY <1>1, <1>2, <1>3, <1>4, <1>5, <1>6 DEF DashboardNext

(* A reader is served what the network's number was less than ttl and one  *)
(* computation ago, whoever computed it and in whatever order it was       *)
(* stored.                                                                 *)
THEOREM CacheIsFresh == EdgeSpec => []FreshEnough
  <1>1. EdgeInit => DashboardInv
    BY DashboardInitially DEF EdgeInit
  <1>2. DashboardInv /\ [EdgeNext]_edgeVars => DashboardInv'
    BY PartsStep, DashboardStep
  <1>3. DashboardInv => FreshEnough
    BY CacheAssumption DEF DashboardInv, ServedFresh, AsOf, FreshEnough, DashboardTyped
  <1> QED
    BY <1>1, <1>2, <1>3, PTL DEF EdgeSpec

-----------------------------------------------------------------------------
(* The budget of a client.  Its fixed windows begin window_seconds apart   *)
(* or more, unless the map is cleared; so a stretch of window_seconds      *)
(* holds the beginning of one of them at most, and what the window before  *)
(* that let through in it lacks at least its first write.                  *)

Since(c, from) == {i \in DOMAIN accepted : accepted[i].client = c /\ accepted[i].at >= from}

NotCleared(from) == cleared = None \/ cleared < from

Bucket == [window_start : Nat, count : Nat]

LimitTyped ==
  /\ now \in Nat
  /\ accepted \in Seq([client : Clients, at : Nat])
  /\ \A i \in DOMAIN accepted : accepted[i].at \in 0 .. now
  /\ DOMAIN buckets \subseteq {<<c>> : c \in Clients}
  /\ \A k \in DOMAIN buckets :
       /\ buckets[k] \in Bucket
       /\ buckets[k].window_start <= now /\ buckets[k].count \in 1 .. limit
  /\ cleared = None \/ cleared \in 0 .. now

\* What a window has let through is in its count, all of it after the window's first.
WindowCounts ==
  \A c \in Clients, t \in Nat : <<c>> \in DOMAIN buckets =>
    LET b == buckets[<<c>>]
    IN  IF t <= b.window_start THEN Cardinality(Since(c, t)) >= b.count
        ELSE Cardinality(Since(c, t)) <= b.count - 1

\* The window before it had begun earlier.
WindowsApart ==
  \A c \in Clients, t \in Nat : <<c>> \in DOMAIN buckets =>
    LET b == buckets[<<c>>]
    IN  b.window_start - window_seconds < t /\ t <= b.window_start /\ NotCleared(t) =>
          Cardinality(Since(c, t)) <= limit - 1 + b.count

\* So had the last one of a client that has none.
Forgotten ==
  \A c \in Clients, t \in Nat :
    <<c>> \notin DOMAIN buckets /\ now - window_seconds < t /\ NotCleared(t) =>
      Cardinality(Since(c, t)) <= limit - 1

EveryStretch ==
  \A c \in Clients, t \in Nat :
    NotCleared(t) => Cardinality(AcceptedWithin(c, t, t + window_seconds - 1)) <= 2 * limit - 1

RefusedRightly ==
  refused # None =>
    /\ refused.client \in Clients /\ refused.at \in 0 .. now
    /\ Cardinality(AcceptedWithin(refused.client, refused.at - window_seconds + 1, refused.at)) >= limit

BudgetInv ==
  LimitTyped /\ WindowCounts /\ WindowsApart /\ Forgotten /\ EveryStretch /\ RefusedRightly

LEMMA IndicesFinite ==
  ASSUME NEW S, NEW s \in Seq(S), NEW T \in SUBSET DOMAIN s
  PROVE  IsFiniteSet(T) /\ Cardinality(T) \in Nat
  <1>1. DOMAIN s = 1 .. Len(s) /\ Len(s) \in Nat
    OBVIOUS
  <1>2. IsFiniteSet(DOMAIN s)
    BY <1>1, FS_Interval
  <1> QED
    BY <1>2, FS_Subset, FS_CardinalityType

LEMMA CountsAreNat ==
  ASSUME LimitTyped, NEW c, NEW from, NEW to
  PROVE  /\ IsFiniteSet(Since(c, from)) /\ Cardinality(Since(c, from)) \in Nat
         /\ IsFiniteSet(AcceptedWithin(c, from, to)) /\ Cardinality(AcceptedWithin(c, from, to)) \in Nat
  <1>1. Since(c, from) \in SUBSET DOMAIN accepted /\ AcceptedWithin(c, from, to) \in SUBSET DOMAIN accepted
    BY DEF Since, AcceptedWithin
  <1> QED
    BY <1>1, IndicesFinite DEF LimitTyped

LEMMA LaterAreFewer ==
  ASSUME LimitTyped, NEW c, NEW from \in Nat, NEW to \in Nat, from <= to
  PROVE  Cardinality(Since(c, to)) <= Cardinality(Since(c, from))
  <1>1. Since(c, to) \in SUBSET Since(c, from)
    BY DEF Since, LimitTyped
  <1>2. IsFiniteSet(Since(c, from))
    BY CountsAreNat
  <1> QED
    BY <1>1, <1>2, FS_Subset

LEMMA NoneYet ==
  ASSUME LimitTyped, NEW c, NEW t \in Nat, t > now
  PROVE  Cardinality(Since(c, t)) = 0
  <1>1. Since(c, t) = {}
    BY DEF Since, LimitTyped
  <1> QED
    BY <1>1, FS_EmptySet

\* What the next write adds to the sets that are counted.
LEMMA OneMore ==
  ASSUME LimitTyped, NEW c \in Clients, accepted' = Append(accepted, [client |-> c, at |-> now]),
         NEW d \in Clients, NEW t \in Nat
  PROVE  Cardinality(Since(d, t)') =
           IF d = c /\ t <= now THEN Cardinality(Since(d, t)) + 1 ELSE Cardinality(Since(d, t))
  <1> DEFINE n == Len(accepted) + 1
  <1>1. DOMAIN accepted' = DOMAIN accepted \cup {n} /\ n \notin DOMAIN accepted
        /\ accepted'[n] = [client |-> c, at |-> now]
        /\ \A i \in DOMAIN accepted : accepted'[i] = accepted[i]
    BY DEF LimitTyped
  <1>2. Since(d, t)' = IF d = c /\ t <= now THEN Since(d, t) \cup {n} ELSE Since(d, t)
    <2>1. CASE d = c /\ t <= now
      BY <1>1, <2>1 DEF Since, LimitTyped
    <2>2. CASE ~(d = c /\ t <= now)
      BY <1>1, <2>2 DEF Since, LimitTyped
    <2> QED
      BY <2>1, <2>2
  <1>3. n \notin Since(d, t)
    BY <1>1 DEF Since
  <1>4. IsFiniteSet(Since(d, t))
    BY CountsAreNat
  <1>5. Cardinality(Since(d, t) \cup {n}) = Cardinality(Since(d, t)) + 1
    BY <1>3, <1>4, FS_AddElement
  <1> QED
    BY <1>2, <1>5

LEMMA StretchGrows ==
  ASSUME LimitTyped, NEW c \in Clients, accepted' = Append(accepted, [client |-> c, at |-> now]),
         NEW d \in Clients, NEW from \in Int, NEW to \in Int
  PROVE  /\ Cardinality(AcceptedWithin(d, from, to)) <= Cardinality(AcceptedWithin(d, from, to)')
         /\ d # c \/ now \notin from .. to => AcceptedWithin(d, from, to)' = AcceptedWithin(d, from, to)
         /\ from \in Nat => Cardinality(AcceptedWithin(d, from, to)') <= Cardinality(Since(d, from)')
  <1> DEFINE n == Len(accepted) + 1
  <1>1. DOMAIN accepted' = DOMAIN accepted \cup {n} /\ n \notin DOMAIN accepted
        /\ accepted'[n] = [client |-> c, at |-> now]
        /\ \A i \in DOMAIN accepted : accepted'[i] = accepted[i]
    BY DEF LimitTyped
  <1>2. accepted' \in Seq([client : Clients, at : Nat])
    BY DEF LimitTyped
  <1>3. /\ AcceptedWithin(d, from, to) \in SUBSET AcceptedWithin(d, from, to)'
        /\ AcceptedWithin(d, from, to)' \in SUBSET DOMAIN accepted'
        /\ Since(d, from)' \in SUBSET DOMAIN accepted'
        /\ AcceptedWithin(d, from, to)' \in SUBSET Since(d, from)'
    BY <1>1, <1>2 DEF AcceptedWithin, Since
  <1>4. d # c \/ now \notin from .. to => AcceptedWithin(d, from, to)' = AcceptedWithin(d, from, to)
    BY <1>1 DEF AcceptedWithin
  <1>5. IsFiniteSet(AcceptedWithin(d, from, to)') /\ IsFiniteSet(Since(d, from)')
    BY <1>2, <1>3, IndicesFinite
  <1> QED
    BY <1>3, <1>4, <1>5, FS_Subset

LEMMA BudgetInitially == LimitInit => BudgetInv
  <1> SUFFICES ASSUME LimitInit PROVE BudgetInv
    OBVIOUS
  <1>1. LimitTyped
    BY DEF LimitInit, LimitTyped
  <1>2. \A c, from, to : Since(c, from) = {} /\ AcceptedWithin(c, from, to) = {}
    BY DEF LimitInit, Since, AcceptedWithin
  <1>3. Cardinality({}) = 0 /\ DOMAIN buckets = {} /\ refused = None
    BY FS_EmptySet DEF LimitInit
  <1>4. WindowCounts /\ WindowsApart /\ RefusedRightly
    BY <1>3 DEF WindowCounts, WindowsApart, RefusedRightly
  <1>5. 0 <= limit - 1 /\ 0 <= 2 * limit - 1
    BY LimitsAssumption
  <1>6. Forgotten
    BY <1>2, <1>3, <1>5 DEF Forgotten
  <1>7. EveryStretch
    BY <1>2, <1>3, <1>5 DEF EveryStretch
  <1> QED
    BY <1>1, <1>4, <1>6, <1>7 DEF BudgetInv

\* A write that is refused.
LEMMA BudgetRefuses ==
  ASSUME BudgetInv, NEW c \in Clients, NEW transport, check(c, transport, FALSE), now' = now
  PROVE  BudgetInv'
  <1> DEFINE b == buckets[<<c>>]
  <1>1. /\ <<c>> \in DOMAIN buckets /\ ~Expired(b) /\ ~(b.count < limit)
        /\ UNCHANGED <<buckets, accepted, cleared>>
        /\ refused' = [client |-> c, at |-> now]
    BY DEF check, client_key
  <1>2. b.window_start \in Nat /\ b.window_start <= now /\ now - window_seconds < b.window_start
        /\ b.count \in Nat /\ b.count >= limit
    BY <1>1, LimitsAssumption DEF BudgetInv, LimitTyped, Bucket, Expired
  <1>3. Cardinality(Since(c, b.window_start)) >= limit
    <2>1. Cardinality(Since(c, b.window_start)) >= b.count
      BY <1>1, <1>2 DEF BudgetInv, WindowCounts
    <2>2. Cardinality(Since(c, b.window_start)) \in Nat
      BY CountsAreNat DEF BudgetInv
    <2> QED
      BY <1>2, <2>1, <2>2, LimitsAssumption
  <1>4. Since(c, b.window_start) \in SUBSET AcceptedWithin(c, now - window_seconds + 1, now)
    BY <1>2, LimitsAssumption DEF Since, AcceptedWithin, BudgetInv, LimitTyped
  <1>5. Cardinality(AcceptedWithin(c, now - window_seconds + 1, now)) >= limit
    <2>1. IsFiniteSet(AcceptedWithin(c, now - window_seconds + 1, now))
      BY CountsAreNat DEF BudgetInv
    <2>2. Cardinality(Since(c, b.window_start)) <= Cardinality(AcceptedWithin(c, now - window_seconds + 1, now))
      BY <1>4, <2>1, FS_Subset
    <2>3. /\ Cardinality(Since(c, b.window_start)) \in Nat
          /\ Cardinality(AcceptedWithin(c, now - window_seconds + 1, now)) \in Nat
      BY CountsAreNat DEF BudgetInv
    <2> QED
      BY <1>3, <2>2, <2>3, LimitsAssumption
  <1>6. RefusedRightly'
    BY <1>1, <1>5 DEF RefusedRightly, AcceptedWithin, BudgetInv, LimitTyped
  <1>7. LimitTyped'
    BY <1>1 DEF BudgetInv, LimitTyped
  <1> QED
    BY <1>1, <1>6, <1>7
       DEF BudgetInv, WindowCounts, WindowsApart, Forgotten, EveryStretch, Since, AcceptedWithin,
           NotCleared

\* A write that is let through leaves the last refusal justified.
LEMMA StillRefusedRightly ==
  ASSUME BudgetInv, NEW c \in Clients, accepted' = Append(accepted, [client |-> c, at |-> now]),
         refused' = refused, now' = now
  PROVE  RefusedRightly'
  <1> SUFFICES ASSUME refused # None
               PROVE  Cardinality(AcceptedWithin(refused.client, refused.at - window_seconds + 1,
                                                 refused.at)') >= limit
    BY DEF BudgetInv, RefusedRightly, AcceptedWithin
  <1> DEFINE from == refused.at - window_seconds + 1
  <1>1. refused.client \in Clients /\ refused.at \in Int /\ from \in Int
        /\ Cardinality(AcceptedWithin(refused.client, from, refused.at)) >= limit
    BY LimitsAssumption DEF BudgetInv, RefusedRightly, LimitTyped
  <1>2. Cardinality(AcceptedWithin(refused.client, from, refused.at))
          <= Cardinality(AcceptedWithin(refused.client, from, refused.at)')
    BY <1>1, StretchGrows DEF BudgetInv
  <1>3. accepted' \in Seq([client : Clients, at : Nat])
        /\ AcceptedWithin(refused.client, from, refused.at)' \in SUBSET DOMAIN accepted'
    BY DEF BudgetInv, LimitTyped, AcceptedWithin
  <1>4. Cardinality(AcceptedWithin(refused.client, from, refused.at)') \in Nat
    BY <1>3, IndicesFinite
  <1> QED
    BY <1>1, <1>2, <1>4, CountsAreNat, LimitsAssumption DEF BudgetInv

\* A write that goes into the window its client has.
LEMMA BudgetCounts ==
  ASSUME BudgetInv, NEW c \in Clients, NEW transport, check(c, transport, TRUE), now' = now,
         <<c>> \in DOMAIN buckets, ~Expired(buckets[<<c>>])
  PROVE  BudgetInv'
  <1> DEFINE b == buckets[<<c>>]
  <1>1. /\ b.count < limit
        /\ buckets' = [buckets EXCEPT ![<<c>>].count = @ + 1]
        /\ accepted' = Append(accepted, [client |-> c, at |-> now])
        /\ UNCHANGED <<cleared, refused>>
    BY DEF check, client_key
  <1>2. /\ b.window_start \in Nat /\ b.window_start <= now /\ now - window_seconds < b.window_start
        /\ b.count \in 1 .. (limit - 1) /\ b \in Bucket
    BY <1>1, LimitsAssumption DEF BudgetInv, LimitTyped, Bucket, Expired
  <1>3. /\ DOMAIN buckets' = DOMAIN buckets
        /\ buckets'[<<c>>] = [b EXCEPT !.count = b.count + 1]
        /\ \A d \in Clients : d # c /\ <<d>> \in DOMAIN buckets => buckets'[<<d>>] = buckets[<<d>>]
    BY <1>1
  <1>4. LimitTyped'
    <2>1. accepted' \in Seq([client : Clients, at : Nat]) /\ \A i \in DOMAIN accepted' : accepted'[i].at \in 0 .. now
      BY <1>1 DEF BudgetInv, LimitTyped
    <2>2. buckets'[<<c>>] \in Bucket /\ buckets'[<<c>>].window_start = b.window_start
          /\ buckets'[<<c>>].count \in 1 .. limit
      BY <1>2, <1>3, LimitsAssumption DEF Bucket
    <2>3. \A k \in DOMAIN buckets : k # <<c>> => buckets'[k] = buckets[k]
      BY <1>1
    <2> QED
      BY <1>1, <1>2, <1>3, <2>1, <2>2, <2>3 DEF BudgetInv, LimitTyped
  <1>5. buckets'[<<c>>].window_start = b.window_start /\ buckets'[<<c>>].count = b.count + 1
    BY <1>2, <1>3 DEF Bucket
  <1>6. ASSUME NEW d \in Clients, NEW t \in Nat
        PROVE  /\ Cardinality(Since(d, t)) \in Nat
               /\ Cardinality(Since(d, t)') = Cardinality(Since(d, t)) + (IF d = c /\ t <= now THEN 1 ELSE 0)
    <2>1. Cardinality(Since(d, t)) \in Nat
      BY CountsAreNat DEF BudgetInv
    <2>2. Cardinality(Since(d, t)') =
            IF d = c /\ t <= now THEN Cardinality(Since(d, t)) + 1 ELSE Cardinality(Since(d, t))
      BY <1>1, OneMore DEF BudgetInv
    <2> QED
      BY <2>1, <2>2
  <1>7. now \in Nat /\ now' = now /\ limit \in Nat \ {0} /\ window_seconds \in Nat \ {0}
    BY LimitsAssumption DEF BudgetInv, LimitTyped
  <1>8. WindowCounts'
    <2>1. ASSUME NEW d \in Clients, NEW t \in Nat, <<d>> \in DOMAIN buckets
          PROVE  IF t <= buckets'[<<d>>].window_start
                 THEN Cardinality(Since(d, t)') >= buckets'[<<d>>].count
                 ELSE Cardinality(Since(d, t)') <= buckets'[<<d>>].count - 1
      <3>1. IF t <= buckets[<<d>>].window_start
            THEN Cardinality(Since(d, t)) >= buckets[<<d>>].count
            ELSE Cardinality(Since(d, t)) <= buckets[<<d>>].count - 1
        BY <2>1 DEF BudgetInv, WindowCounts
      <3>2. CASE d = c
        BY <1>2, <1>5, <1>6, <1>7, <3>1, <3>2
      <3>3. CASE d # c
        BY <1>3, <1>6, <2>1, <3>1, <3>3
      <3> QED
        BY <3>2, <3>3
    <2> QED
      BY <1>3, <2>1 DEF WindowCounts
  <1>9. WindowsApart'
    <2>1. ASSUME NEW d \in Clients, NEW t \in Nat, <<d>> \in DOMAIN buckets,
                 buckets'[<<d>>].window_start - window_seconds < t, t <= buckets'[<<d>>].window_start,
                 NotCleared(t)
          PROVE  Cardinality(Since(d, t)') <= limit - 1 + buckets'[<<d>>].count
      <3>1. buckets'[<<d>>].window_start = buckets[<<d>>].window_start
        BY <1>3, <1>5, <2>1
      <3>2. Cardinality(Since(d, t)) <= limit - 1 + buckets[<<d>>].count
        BY <2>1, <3>1 DEF BudgetInv, WindowsApart
      <3>3. CASE d = c
        BY <1>2, <1>5, <1>6, <1>7, <3>2, <3>3
      <3>4. CASE d # c
        BY <1>3, <1>6, <2>1, <3>2, <3>4
      <3> QED
        BY <3>3, <3>4
    <2> QED
      BY <1>1, <1>3, <2>1 DEF WindowsApart, NotCleared
  <1>10. Forgotten'
    <2>1. ASSUME NEW d \in Clients, NEW t \in Nat, <<d>> \notin DOMAIN buckets, now - window_seconds < t,
                 NotCleared(t)
          PROVE  Cardinality(Since(d, t)') <= limit - 1
      <3>1. d # c
        BY <2>1
      <3> QED
        BY <1>6, <2>1, <3>1 DEF BudgetInv, Forgotten
    <2> QED
      BY <1>1, <1>3, <1>7, <2>1 DEF Forgotten, NotCleared
  <1>11. EveryStretch'
    <2>1. ASSUME NEW d \in Clients, NEW t \in Nat, NotCleared(t)
          PROVE  Cardinality(AcceptedWithin(d, t, t + window_seconds - 1)') <= 2 * limit - 1
      <3> DEFINE to == t + window_seconds - 1
      <3>1. to \in Int
        BY <1>7
      <3>2. CASE d # c \/ now \notin t .. to
        <4>1. AcceptedWithin(d, t, to)' = AcceptedWithin(d, t, to)
          BY <1>1, <3>1, <3>2, StretchGrows DEF BudgetInv
        <4> QED
          BY <2>1, <4>1 DEF BudgetInv, EveryStretch
      <3>3. CASE d = c /\ now \in t .. to
        <4>1. Cardinality(AcceptedWithin(d, t, to)') <= Cardinality(Since(d, t)')
          BY <1>1, <3>1, StretchGrows DEF BudgetInv
        <4>2. Cardinality(Since(c, t)) <= limit - 1 + b.count
          <5>1. CASE t <= b.window_start
            <6>1. b.window_start - window_seconds < t
              BY <1>2, <1>7, <3>3
            <6> QED
              BY <2>1, <5>1, <6>1 DEF BudgetInv, WindowsApart
          <5>2. CASE t > b.window_start
            <6>1. Cardinality(Since(c, t)) <= b.count - 1
              BY <1>2, <5>2 DEF BudgetInv, WindowCounts
            <6> QED
              BY <1>2, <1>6, <1>7, <6>1
          <5> QED
            BY <1>2, <5>1, <5>2
        <4>3. Cardinality(Since(d, t)') <= limit - 1 + b.count + 1
          BY <1>2, <1>6, <1>7, <3>3, <4>2
        <4>4. Cardinality(AcceptedWithin(d, t, to)') \in Nat
          <5>1. accepted' \in Seq([client : Clients, at : Nat])
            BY <1>4 DEF LimitTyped
          <5>2. AcceptedWithin(d, t, to)' \in SUBSET DOMAIN accepted'
            BY DEF AcceptedWithin
          <5> QED
            BY <5>1, <5>2, IndicesFinite
        <4> QED
          BY <1>2, <1>6, <1>7, <4>1, <4>3, <4>4
      <3> QED
        BY <3>2, <3>3
    <2> QED
      BY <1>1, <2>1 DEF EveryStretch, NotCleared
  <1>12. RefusedRightly'
    BY <1>1, StillRefusedRightly
  <1> QED
    BY <1>4, <1>8, <1>9, <1>10, <1>11, <1>12 DEF BudgetInv

\* A write that opens a window for its client, and the room that is made for it.
LEMMA BudgetOpens ==
  ASSUME BudgetInv, NEW c \in Clients, NEW transport, check(c, transport, TRUE), now' = now,
         <<c>> \notin DOMAIN buckets \/ Expired(buckets[<<c>>])
  PROVE  BudgetInv'
  <1> DEFINE fresh == [window_start |-> now, count |-> 1]
  <1>1. /\ accepted' = Append(accepted, [client |-> c, at |-> now])
        /\ refused' = refused
    BY DEF check
  <1>2. now \in Nat /\ now' = now /\ limit \in Nat \ {0} /\ window_seconds \in Nat \ {0}
    BY LimitsAssumption DEF BudgetInv, LimitTyped
  <1>3. PICK kept \in SUBSET DOMAIN buckets :
          /\ buckets' = [k \in kept \cup {<<c>>} |-> IF k = <<c>> THEN fresh ELSE buckets[k]]
          /\ \/ cleared' = now
             \/ cleared' = cleared /\ \A k \in DOMAIN buckets \ kept : Expired(buckets[k])
    <2> DEFINE key  == <<c>>
               full == Cardinality(DOMAIN buckets) >= max_clients
               live == {k \in DOMAIN buckets : ~Expired(buckets[k])}
               room == IF full THEN Swept ELSE buckets
    <2>1. buckets' = [k \in DOMAIN room \cup {key} |-> IF k = key THEN fresh ELSE room[k]]
          /\ cleared' = IF full /\ room = <<>> THEN now ELSE cleared
      BY DEF check, client_key
    <2>2. CASE ~full
      BY <2>1, <2>2
    <2>3. CASE full /\ room = <<>>
      <3>1. DOMAIN room = {} /\ cleared' = now
        BY <2>1, <2>3
      <3> QED
        BY <2>1, <3>1
    <2>4. CASE full /\ room # <<>>
      <3>1. room = Restrict(buckets, live) /\ cleared' = cleared
        BY <2>1, <2>4 DEF Swept
      <3>2. DOMAIN room = live /\ \A k \in live : room[k] = buckets[k]
        BY <3>1 DEF Restrict
      <3> QED
        BY <2>1, <3>1, <3>2
    <2> QED
      BY <2>2, <2>3, <2>4
  <1>4. /\ DOMAIN buckets' = kept \cup {<<c>>}
        /\ buckets'[<<c>>] = fresh
        /\ \A d \in Clients : d # c /\ <<d>> \in kept => buckets'[<<d>>] = buckets[<<d>>]
    BY <1>3
  <1>5. LimitTyped'
    <2>1. accepted' \in Seq([client : Clients, at : Nat]) /\ \A i \in DOMAIN accepted' : accepted'[i].at \in 0 .. now
      BY <1>1 DEF BudgetInv, LimitTyped
    <2>2. cleared' = None \/ cleared' \in 0 .. now
      BY <1>2, <1>3 DEF BudgetInv, LimitTyped
    <2>3. \A k \in DOMAIN buckets' : k = <<c>> \/ (k \in DOMAIN buckets /\ buckets'[k] = buckets[k])
      BY <1>3, <1>4
    <2> QED
      BY <1>2, <1>4, <2>1, <2>2, <2>3 DEF BudgetInv, LimitTyped, Bucket
  <1>6. ASSUME NEW d \in Clients, NEW t \in Nat
        PROVE  /\ Cardinality(Since(d, t)) \in Nat
               /\ Cardinality(Since(d, t)') = Cardinality(Since(d, t)) + (IF d = c /\ t <= now THEN 1 ELSE 0)
    <2>1. Cardinality(Since(d, t)) \in Nat
      BY CountsAreNat DEF BudgetInv
    <2>2. Cardinality(Since(d, t)') =
            IF d = c /\ t <= now THEN Cardinality(Since(d, t)) + 1 ELSE Cardinality(Since(d, t))
      BY <1>1, OneMore DEF BudgetInv
    <2> QED
      BY <2>1, <2>2
  <1>7. ASSUME NEW t \in Nat, NotCleared(t)'
        PROVE  NotCleared(t) /\ (t <= now => cleared' = cleared)
    BY <1>2, <1>3, <1>7, LimitsAssumption DEF NotCleared, BudgetInv, LimitTyped
  <1>8. ASSUME NEW d \in Clients, NEW t \in Nat, now - window_seconds < t, NotCleared(t),
               <<d>> \in DOMAIN buckets => Expired(buckets[<<d>>])
        PROVE  Cardinality(Since(d, t)) <= limit - 1
    <2>1. CASE <<d>> \notin DOMAIN buckets
      BY <1>8, <2>1 DEF BudgetInv, Forgotten
    <2>2. CASE <<d>> \in DOMAIN buckets
      <3> DEFINE b == buckets[<<d>>]
      <3>1. b.window_start \in Nat /\ b.count \in 1 .. limit /\ now - b.window_start >= window_seconds
        BY <1>8, <2>2 DEF BudgetInv, LimitTyped, Bucket, Expired
      <3>2. ~(t <= b.window_start)
        BY <1>2, <1>8, <3>1
      <3>3. Cardinality(Since(d, t)) <= b.count - 1
        BY <2>2, <3>2 DEF BudgetInv, WindowCounts
      <3> QED
        BY <1>2, <1>6, <3>1, <3>3
    <2> QED
      BY <2>1, <2>2
  <1>9. ASSUME NEW t \in Nat, t > now, NEW d \in Clients
        PROVE  Cardinality(Since(d, t)) = 0 /\ Cardinality(Since(d, t)') = 0
    BY <1>2, <1>6, <1>9, NoneYet DEF BudgetInv
  <1>10. WindowCounts'
    <2>1. ASSUME NEW d \in Clients, NEW t \in Nat, <<d>> \in DOMAIN buckets'
          PROVE  IF t <= buckets'[<<d>>].window_start
                 THEN Cardinality(Since(d, t)') >= buckets'[<<d>>].count
                 ELSE Cardinality(Since(d, t)') <= buckets'[<<d>>].count - 1
      <3>1. CASE d = c
        BY <1>2, <1>4, <1>6, <1>9, <3>1
      <3>2. CASE d # c
        <4>1. <<d>> \in DOMAIN buckets /\ buckets'[<<d>>] = buckets[<<d>>]
          BY <1>4, <2>1, <3>2
        <4>2. IF t <= buckets[<<d>>].window_start
              THEN Cardinality(Since(d, t)) >= buckets[<<d>>].count
              ELSE Cardinality(Since(d, t)) <= buckets[<<d>>].count - 1
          BY <4>1 DEF BudgetInv, WindowCounts
        <4> QED
          BY <1>6, <3>2, <4>1, <4>2
      <3> QED
        BY <3>1, <3>2
    <2> QED
      BY <2>1 DEF WindowCounts
  <1>11. WindowsApart'
    <2>1. ASSUME NEW d \in Clients, NEW t \in Nat, <<d>> \in DOMAIN buckets',
                 buckets'[<<d>>].window_start - window_seconds < t, t <= buckets'[<<d>>].window_start,
                 NotCleared(t)'
          PROVE  Cardinality(Since(d, t)') <= limit - 1 + buckets'[<<d>>].count
      <3>1. CASE d = c
        <4>1. Cardinality(Since(c, t)) <= limit - 1
          BY <1>2, <1>4, <1>7, <1>8, <2>1, <3>1
        <4> QED
          BY <1>2, <1>4, <1>6, <3>1, <4>1
      <3>2. CASE d # c
        <4>1. <<d>> \in DOMAIN buckets /\ buckets'[<<d>>] = buckets[<<d>>]
          BY <1>4, <2>1, <3>2
        <4>2. Cardinality(Since(d, t)) <= limit - 1 + buckets[<<d>>].count
          BY <1>7, <2>1, <4>1 DEF BudgetInv, WindowsApart
        <4> QED
          BY <1>6, <3>2, <4>1, <4>2
      <3> QED
        BY <3>1, <3>2
    <2> QED
      BY <2>1 DEF WindowsApart
  <1>12. Forgotten'
    <2>1. ASSUME NEW d \in Clients, NEW t \in Nat, <<d>> \notin DOMAIN buckets',
                 now - window_seconds < t, NotCleared(t)'
          PROVE  Cardinality(Since(d, t)') <= limit - 1
      <3>1. d # c
        BY <1>4, <2>1
      <3>2. CASE t > now
        BY <1>2, <1>9, <3>2
      <3>3. CASE t <= now
        <4>1. cleared' # now
          <5>1. cleared' = None \/ cleared' < t
            BY <2>1 DEF NotCleared
          <5> QED
            BY <1>2, <3>3, <5>1, LimitsAssumption
        <4>2. <<d>> \in DOMAIN buckets => Expired(buckets[<<d>>])
          BY <1>3, <1>4, <2>1, <4>1
        <4> QED
          BY <1>6, <1>7, <1>8, <2>1, <3>1, <4>2
      <3> QED
        BY <1>2, <3>2, <3>3
    <2> QED
      BY <1>2, <2>1 DEF Forgotten
  <1>13. EveryStretch'
    <2>1. ASSUME NEW d \in Clients, NEW t \in Nat, NotCleared(t)'
          PROVE  Cardinality(AcceptedWithin(d, t, t + window_seconds - 1)') <= 2 * limit - 1
      <3> DEFINE to == t + window_seconds - 1
      <3>1. to \in Int
        BY <1>2
      <3>2. CASE d # c \/ now \notin t .. to
        <4>1. AcceptedWithin(d, t, to)' = AcceptedWithin(d, t, to)
          BY <1>1, <3>1, <3>2, StretchGrows DEF BudgetInv
        <4> QED
          BY <1>7, <2>1, <4>1 DEF BudgetInv, EveryStretch
      <3>3. CASE d = c /\ now \in t .. to
        <4>1. Cardinality(AcceptedWithin(d, t, to)') <= Cardinality(Since(d, t)')
          BY <1>1, <3>1, StretchGrows DEF BudgetInv
        <4>2. Cardinality(Since(c, t)) <= limit - 1
          <5>1. now - window_seconds < t
            BY <1>2, <3>3
          <5> QED
            BY <1>7, <1>8, <2>1, <5>1
        <4>3. Cardinality(AcceptedWithin(d, t, to)') \in Nat
          <5>1. accepted' \in Seq([client : Clients, at : Nat])
            BY <1>5 DEF LimitTyped
          <5>2. AcceptedWithin(d, t, to)' \in SUBSET DOMAIN accepted'
            BY DEF AcceptedWithin
          <5> QED
            BY <5>1, <5>2, IndicesFinite
        <4> QED
          BY <1>2, <1>6, <3>3, <4>1, <4>2, <4>3
      <3> QED
        BY <3>2, <3>3
    <2> QED
      BY <2>1 DEF EveryStretch
  <1>14. RefusedRightly'
    BY <1>1, <1>2, StillRefusedRightly
  <1> QED
    BY <1>5, <1>10, <1>11, <1>12, <1>13, <1>14 DEF BudgetInv

LEMMA BudgetStep ==
  ASSUME BudgetInv, [LimitNext]_limitVars
  PROVE  BudgetInv'
  <1>1. ASSUME NEW c \in Clients, NEW transport, NEW allowed \in BOOLEAN, check(c, transport, allowed),
               now' = now
        PROVE  BudgetInv'
    <2>1. CASE ~allowed
      BY <1>1, <2>1, BudgetRefuses
    <2>2. CASE allowed /\ <<c>> \in DOMAIN buckets /\ ~Expired(buckets[<<c>>])
      BY <1>1, <2>2, BudgetCounts
    <2>3. CASE allowed /\ (<<c>> \notin DOMAIN buckets \/ Expired(buckets[<<c>>]))
      BY <1>1, <2>3, BudgetOpens
    <2> QED
      BY <2>1, <2>2, <2>3
  <1>2. ASSUME UNCHANGED <<buckets, accepted, refused, cleared>>, now' \in {now, now + 1}
        PROVE  BudgetInv'
    <2>1. now \in Nat /\ now' \in Nat /\ now <= now' /\ window_seconds \in Nat \ {0}
      BY <1>2, LimitsAssumption DEF BudgetInv, LimitTyped
    <2>2. LimitTyped'
      <3>1. 0 .. now \subseteq 0 .. now'
        BY <2>1
      <3>2. \A k \in DOMAIN buckets : buckets[k].window_start <= now'
        BY <2>1 DEF BudgetInv, LimitTyped, Bucket
      <3> QED
        BY <1>2, <2>1, <3>1, <3>2 DEF BudgetInv, LimitTyped
    <2>3. Forgotten'
      <3>1. SUFFICES ASSUME NEW c \in Clients, NEW t \in Nat, <<c>> \notin DOMAIN buckets,
                            now' - window_seconds < t, NotCleared(t)
                     PROVE  Cardinality(Since(c, t)) <= limit - 1
        BY <1>2 DEF Forgotten, Since, NotCleared
      <3>2. now - window_seconds < t
        <4>1. PICK m \in Nat : m = now'
          BY <2>1
        <4>2. now <= m /\ m - window_seconds < t /\ now \in Nat /\ window_seconds \in Nat
          BY <2>1, <3>1, <4>1
        <4> QED
          BY ONLY <4>2, m \in Nat, t \in Nat
      <3> QED
        BY <3>1, <3>2 DEF BudgetInv, Forgotten
    <2>4. RefusedRightly'
      <3>1. 0 .. now \subseteq 0 .. now'
        BY <2>1
      <3> QED
        BY <1>2, <3>1 DEF BudgetInv, RefusedRightly, AcceptedWithin
    <2> QED
      BY <1>2, <2>2, <2>3, <2>4
         DEF BudgetInv, WindowCounts, WindowsApart, EveryStretch, Since, NotCleared, AcceptedWithin
  <1>3. ASSUME NEW c \in Clients, Write(c)
        PROVE  BudgetInv'
    BY <1>1, <1>3 DEF Write
  <1>4. CASE ingest_traces
    BY <1>1, <1>4, LimitsAssumption DEF ingest_traces
  <1>5. CASE record_observation \/ Responded \/ Tick \/ UNCHANGED limitVars
    BY <1>2, <1>5 DEF record_observation, Responded, Tick, limitVars
  <1> QED
    BY <1>3, <1>4, <1>5 DEF LimitNext

(* In no stretch of window_seconds a client gets twice its limit through,  *)
(* unless the map was cleared meanwhile, and a client is refused only if   *)
(* it had its limit itself.                                                *)
THEOREM BudgetsHold == EdgeSpec => []BudgetKept
  <1>1. EdgeInit => BudgetInv
    BY BudgetInitially DEF EdgeInit
  <1>2. BudgetInv /\ [EdgeNext]_edgeVars => BudgetInv'
    BY PartsStep, BudgetStep
  <1>3. BudgetInv => BudgetKept
    <2> SUFFICES ASSUME BudgetInv PROVE BudgetKept
      OBVIOUS
    <2>1. ASSUME NEW c \in Clients, NEW t \in 0 .. now
          PROVE  \/ cleared # None /\ cleared >= t
                 \/ Cardinality(AcceptedWithin(c, t, t + window_seconds - 1)) <= 2 * limit - 1
      <3>1. t \in Nat /\ (cleared = None \/ cleared \in Nat)
        BY <2>1 DEF BudgetInv, LimitTyped
      <3> QED
        BY <3>1 DEF BudgetInv, EveryStretch, NotCleared
    <2> QED
      BY <2>1 DEF BudgetKept, BudgetInv, RefusedRightly
  <1> QED
    BY <1>1, <1>2, <1>3, PTL DEF EdgeSpec

-----------------------------------------------------------------------------
(* A batch of spans.  Every try has been through the exporter's budget, so *)
(* the exporter's accepted writes bound how often a span was stored; those *)
(* the batch at hand has left were stored by the tries before it.          *)

Tries == Cardinality(Since(Exporter, 0))

\* The batch has its first spans behind it.
Behind(k) ==
  /\ batch \in Seq(Nat) /\ Len(batch) = MaxSpans - k
  /\ \A j \in 1 .. Len(batch) : batch[j] = k + j
  /\ \A n \in 1 .. MaxSpans : IF n <= k THEN stored[n] >= 1 ELSE stored[n] <= Tries - 1

BatchInv ==
  /\ BudgetInv
  /\ stored \in [1 .. MaxSpans -> Nat]
  /\ \A n \in 1 .. MaxSpans : stored[n] <= Tries
  /\ batch = None \/ \E k \in 0 .. MaxSpans : Behind(k)
  /\ answered => \A n \in 1 .. MaxSpans : stored[n] >= 1

LEMMA TriesGrow ==
  ASSUME BudgetInv, NEW c \in Clients, NEW transport, NEW allowed \in BOOLEAN,
         check(c, transport, allowed)
  PROVE  /\ Tries \in Nat
         /\ Tries' = Tries + (IF allowed /\ c = Exporter THEN 1 ELSE 0)
  <1>1. Tries \in Nat
    BY CountsAreNat DEF Tries, BudgetInv
  <1>2. CASE ~allowed
    BY <1>1, <1>2 DEF check, Tries, Since
  <1>3. CASE allowed
    <2>1. accepted' = Append(accepted, [client |-> c, at |-> now])
      BY <1>3 DEF check
    <2>2. 0 <= now /\ Exporter \in Clients
      BY LimitsAssumption DEF BudgetInv, LimitTyped
    <2> QED
      BY <1>1, <1>3, <2>1, <2>2, OneMore DEF BudgetInv, Tries
  <1> QED
    BY <1>2, <1>3

LEMMA BatchInitially == LimitInit => BatchInv
  <1> SUFFICES ASSUME LimitInit PROVE BatchInv
    OBVIOUS
  <1>1. BudgetInv
    BY BudgetInitially
  <1>2. Tries \in Nat
    BY <1>1, CountsAreNat DEF Tries, BudgetInv
  <1> QED
    BY <1>1, <1>2 DEF LimitInit, BatchInv

LEMMA BatchStep ==
  ASSUME BatchInv, [LimitNext]_limitVars
  PROVE  BatchInv'
  <1>1. BudgetInv'
    BY BudgetStep DEF BatchInv
  <1>2. Tries \in Nat /\ MaxSpans \in Nat
    BY CountsAreNat, LimitsAssumption DEF Tries, BudgetInv, BatchInv
  <1>3. ASSUME NEW c \in Clients, Write(c)
        PROVE  BatchInv'
    <2>1. Tries' \in Nat /\ Tries <= Tries'
      BY <1>3, TriesGrow DEF Write, BatchInv
    <2>2. \A k : Behind(k) => Behind(k)'
      BY <1>2, <1>3, <2>1 DEF Write, Behind, BatchInv
    <2> QED
      BY <1>1, <1>2, <1>3, <2>1, <2>2 DEF Write, BatchInv
  <1>4. CASE ingest_traces
    <2>1. PICK allowed \in BOOLEAN :
            /\ check(Exporter, "rest", allowed)
            /\ batch' = IF allowed THEN [n \in 1 .. MaxSpans |-> n] ELSE None
      BY <1>4 DEF ingest_traces
    <2>2. Exporter \in Clients
      BY LimitsAssumption
    <2>3. Tries' = Tries + (IF allowed THEN 1 ELSE 0)
      BY <2>1, <2>2, TriesGrow DEF BatchInv
    <2>4. stored' = stored /\ answered' = answered
      BY <1>4 DEF ingest_traces
    <2>5. allowed => Behind(0)'
      <3> SUFFICES ASSUME allowed PROVE Behind(0)'
        OBVIOUS
      <3>1. batch' = [n \in 1 .. MaxSpans |-> n]
        BY <2>1
      <3>2. batch' \in Seq(Nat) /\ Len(batch') = MaxSpans
        BY <1>2, <3>1
      <3>3. \A n \in 1 .. MaxSpans : stored'[n] <= Tries' - 1
        BY <1>2, <2>3, <2>4 DEF BatchInv
      <3> QED
        BY <1>2, <3>1, <3>2, <3>3 DEF Behind
    <2> QED
      BY <1>1, <1>2, <2>1, <2>3, <2>4, <2>5 DEF BatchInv
  <1>5. CASE record_observation
    <2>1. PICK k \in 0 .. MaxSpans : Behind(k)
      BY <1>5 DEF record_observation, BatchInv
    <2>2. Tries' = Tries /\ answered' = answered
      BY <1>5 DEF record_observation, Tries, Since
    <2>3. CASE batch' = None /\ stored' = stored
      BY <1>1, <2>2, <2>3 DEF BatchInv
    <2>4. CASE stored' = [stored EXCEPT ![Head(batch)] = @ + 1] /\ batch' = Tail(batch)
      <3>1. batch # <<>>
        BY <1>5 DEF record_observation
      <3>2. Len(batch) > 0 /\ k < MaxSpans /\ Head(batch) = k + 1
        BY <1>2, <2>1, <3>1 DEF Behind
      <3> DEFINE m == k + 1
      <3>a. k \in Nat /\ m \in 1 .. MaxSpans
        BY <1>2, <2>1, <3>2
      <3>b. Head(batch) = m
        BY <3>2
      <3>c. stored \in [1 .. MaxSpans -> Nat]
        BY DEF BatchInv
      <3> HIDE DEF m
      <3>3. stored' = [stored EXCEPT ![m] = stored[m] + 1]
        BY <2>4, <3>b
      <3>4. stored[m] <= Tries - 1
        BY <1>2, <2>1, <3>a DEF Behind, m
      <3>5. stored' \in [1 .. MaxSpans -> Nat] /\ stored'[m] = stored[m] + 1
            /\ \A n \in 1 .. MaxSpans : n # m => stored'[n] = stored[n]
        <4>1. stored[m] + 1 \in Nat
          BY <3>a, <3>c
        <4>2. \A n \in 1 .. MaxSpans : stored'[n] = IF n = m THEN stored[m] + 1 ELSE stored[n]
          BY <3>3, <3>c
        <4>3. stored' \in [1 .. MaxSpans -> Nat]
          BY <3>3, <3>c, <4>1
        <4> QED
          BY <3>a, <4>2, <4>3
      <3>6. \A n \in 1 .. MaxSpans : stored'[n] <= Tries /\ stored'[n] >= stored[n]
        <4>1. SUFFICES ASSUME NEW n \in 1 .. MaxSpans
                       PROVE  stored'[n] <= Tries /\ stored'[n] >= stored[n]
          OBVIOUS
        <4>2. stored[n] \in Nat /\ stored[n] <= Tries /\ Tries \in Nat
          BY <1>2, <3>c DEF BatchInv
        <4>3. CASE n = m
          BY <3>4, <3>5, <4>2, <4>3
        <4>4. CASE n # m
          BY <3>5, <4>2, <4>4
        <4> QED
          BY <4>3, <4>4
      <3>7. Behind(m)'
        <4>1. Tail(batch) \in Seq(Nat) /\ Len(Tail(batch)) = MaxSpans - m
              /\ \A j \in 1 .. Len(Tail(batch)) : Tail(batch)[j] = m + j
          BY <1>2, <2>1, <3>1, <3>2 DEF Behind, m
        <4>2. ASSUME NEW n \in 1 .. MaxSpans
              PROVE  IF n <= m THEN stored'[n] >= 1 ELSE stored'[n] <= Tries - 1
          <5>1. IF n <= k THEN stored[n] >= 1 ELSE stored[n] <= Tries - 1
            BY <2>1 DEF Behind
          <5>2. stored[n] \in Nat /\ stored[m] \in Nat
            BY <3>a, <3>c
          <5>3. CASE n <= k
            BY <1>2, <3>a, <3>6, <5>1, <5>2, <5>3, <3>5 DEF m
          <5>4. CASE n = m
            BY <1>2, <3>a, <3>5, <5>2, <5>4
          <5>5. CASE n > m
            BY <1>2, <3>a, <3>5, <5>1, <5>2, <5>5 DEF m
          <5> QED
            BY <3>a, <5>3, <5>4, <5>5 DEF m
        <4> QED
          BY <2>2, <2>4, <4>1, <4>2 DEF Behind
      <3> QED
        <4>1. m \in 0 .. MaxSpans
          BY <3>a, <1>2
        <4>2. answered' => \A n \in 1 .. MaxSpans : stored'[n] >= 1
          BY <1>2, <2>2, <3>5, <3>6, <3>c DEF BatchInv
        <4> QED
          BY <1>1, <2>2, <3>5, <3>6, <3>7, <4>1, <4>2 DEF BatchInv
    <2> QED
      BY <1>5, <2>3, <2>4 DEF record_observation
  <1>6. CASE Responded
    <2>0. batch # None
      <3>1. <<>> \in Seq(Nat)
        OBVIOUS
      <3> QED
        BY <1>6, <3>1, LimitsAssumption DEF Responded, Complete
    <2>1. PICK k \in 0 .. MaxSpans : Behind(k)
      BY <2>0 DEF BatchInv
    <2>2. k = MaxSpans
      BY <1>2, <1>6, <2>1 DEF Responded, Complete, Behind
    <2>3. Tries' = Tries /\ stored' = stored /\ batch' = None
      BY <1>6 DEF Responded, Tries, Since
    <2> QED
      BY <1>1, <2>1, <2>2, <2>3 DEF BatchInv, Behind
  <1>7. CASE Tick \/ UNCHANGED limitVars
    <2>1. accepted' = accepted /\ batch' = batch /\ stored' = stored /\ answered' = answered
      BY <1>7 DEF Tick, limitVars
    <2>2. Tries' = Tries
      BY <2>1 DEF Tries, Since
    <2>3. \A k : Behind(k) => Behind(k)'
      BY <2>1, <2>2 DEF Behind
    <2> QED
      BY <1>1, <2>1, <2>2, <2>3 DEF BatchInv
  <1> QED
    BY <1>3, <1>4, <1>5, <1>6, <1>7 DEF LimitNext

(* An exporter that got its 200 has every span stored, and no span is      *)
(* stored more often than the exporter was let through.                    *)
THEOREM AnswersAreTrue == EdgeSpec => []AnsweredMeansStored
  <1>1. EdgeInit => BatchInv
    BY BatchInitially DEF EdgeInit
  <1>2. BatchInv /\ [EdgeNext]_edgeVars => BatchInv'
    BY PartsStep, BatchStep
  <1>3. BatchInv => AnsweredMeansStored
    <2> SUFFICES ASSUME BatchInv PROVE AnsweredMeansStored
      OBVIOUS
    <2>1. Since(Exporter, 0) = {i \in DOMAIN accepted : accepted[i].client = Exporter}
      BY DEF Since, BatchInv, BudgetInv, LimitTyped
    <2> QED
      BY <2>1 DEF BatchInv, AnsweredMeansStored, Tries
  <1> QED
    BY <1>1, <1>2, <1>3, PTL DEF EdgeSpec
-----------------------------------------------------------------------------
(* Request sessions and the catalogue, for any sessions, fingerprints and  *)
(* reporters.  IInv is inductive part by part: every part holds after a    *)
(* step if all of them held before it.                                     *)

USE CatalogueAssumption

-----------------------------------------------------------------------------
(* What the operators of the model return.                                 *)

LEMMA IdleIsRequest ==
  /\ Idle \in Request
  /\ \A pc \in PCs : [Idle EXCEPT !.pc = pc] \in Request
  BY DEF Idle, Request, PCs, Sources

LEMMA WithCounts ==
  ASSUME NEW K, NEW counts, Counts(counts, K), NEW k \in K, NEW n \in Nat
  PROVE  Counts(With(counts, k, n), K)
  BY DEF Counts, With

LEMMA NoCountsCounts == ASSUME NEW K PROVE Counts(NoCounts, K)
  BY DEF Counts, NoCounts

LEMMA TotalIsNat ==
  ASSUME NEW tally \in [Fingerprints -> [Sources -> Nat]], NEW f \in Fingerprints
  PROVE  Total(tally, f) \in Nat
  BY DEF Total, Sources

(* A request's step changes the memory of that request alone.              *)
LEMMA OwnMemory ==
  ASSUME TypeOK, NEW q \in Sessions, NEW s, SessionOK(s),
         session' = [session EXCEPT ![q] = s]
  PROVE  /\ session' \in [Sessions -> Request]
         /\ session'[q] = s
         /\ \A p \in Sessions : p # q => session'[p] = session[p]
         /\ \A p \in Sessions : SessionOK(session'[p])
  BY DEF TypeOK, SessionOK

LEMMA MemoryStepType ==
  ASSUME TypeOK, NEW q \in Sessions, NEW s, SessionOK(s),
         session' = [session EXCEPT ![q] = s],
         lock' \in Sessions \cup {NoOne}, requests' \in Nat,
         UNCHANGED <<tables, tool, purges, history>>
  PROVE  TypeOK'
  <1>1. session' \in [Sessions -> Request] /\ \A p \in Sessions : SessionOK(session'[p])
    BY OwnMemory
  <1> QED
    BY <1>1 DEF TypeOK, tables, history, Counts, SessionOK, Request

-----------------------------------------------------------------------------
(* Every variable keeps its type.                                          *)

LEMMA TypeInit == Init => TypeOK
  <1> SUFFICES ASSUME Init PROVE TypeOK
    OBVIOUS
  <1>1. SessionOK(Idle)
    BY IdleIsRequest DEF SessionOK, Idle
  <1> QED
    BY <1>1, IdleIsRequest, NoCountsCounts
    DEF Init, TypeOK, NoRead, NoCounts, Counts, Sources, Counters

LEMMA AfterTouchType ==
  ASSUME NEW r
  PROVE  /\ AfterTouch(r) \in PCs
         /\ AfterTouch(r) \notin {"touch", "insert", "reselect"}
         /\ AfterTouch(r) = "sign" => r # Unsigned
  BY DEF AfterTouch, PCs

LEMMA SelectType ==
  ASSUME TypeOK, NEW q \in Sessions, NEW n \in Nat, session[q].fingerprint # NoFingerprint
  PROVE  SessionOK([session[q] EXCEPT !.pc = AfterTouch(session[q].reporter),
                                      !.seen = n, !.known = TRUE])
  <1> DEFINE s == [session[q] EXCEPT !.pc = AfterTouch(session[q].reporter),
                                     !.seen = n, !.known = TRUE]
  <1>1. session[q] \in Request
    BY DEF TypeOK
  <1>2. s \in Request
    BY <1>1, AfterTouchType DEF Request
  <1>3. s.pc = AfterTouch(session[q].reporter) /\ s.reporter = session[q].reporter
    BY <1>1 DEF Request
  <1> QED
    BY <1>2, <1>3, AfterTouchType DEF SessionOK

LEMMA MoveType ==
  ASSUME TypeOK, NEW q \in Sessions, NEW pc \in PCs,
         pc \in {"insert", "reselect"} => session[q].fingerprint # NoFingerprint,
         pc # "touch", pc = "sign" => session[q].reporter # Unsigned
  PROVE  SessionOK([session[q] EXCEPT !.pc = pc])
  <1>1. session[q] \in Request
    BY DEF TypeOK
  <1> QED
    BY <1>1 DEF SessionOK, Request

LEMMA EndType ==
  ASSUME NEW pc \in {"idle", "answered", "failed"}
  PROVE  SessionOK([Idle EXCEPT !.pc = pc]) /\ SessionOK(Idle)
  <1>1. pc \in PCs
    BY DEF PCs
  <1>2. [Idle EXCEPT !.pc = pc].pc = pc
    BY DEF Idle
  <1> QED
    BY <1>1, <1>2, IdleIsRequest DEF SessionOK, Idle

LEMMA StartReportType ==
  ASSUME TypeOK, NEW q \in Sessions, StartReport(q) PROVE TypeOK'
  <1>1. PICK f \in Fingerprints \cup {NoFingerprint}, r \in Reporters \cup {Unsigned},
             s \in Sources :
          session' = [session EXCEPT ![q] =
            [@ EXCEPT !.pc = IF f = NoFingerprint THEN AfterTouch(r) ELSE "touch",
                      !.fingerprint = f, !.reporter = r, !.source = s]]
    BY Zenon DEF StartReport
  <1> DEFINE pc == IF f = NoFingerprint THEN AfterTouch(r) ELSE "touch"
             new == [session[q] EXCEPT !.pc = pc, !.fingerprint = f,
                                       !.reporter = r, !.source = s]
  <1>2. session[q] \in Request
    BY DEF TypeOK
  <1>3. pc \in PCs
    BY AfterTouchType DEF PCs
  <1>4. new \in Request
    BY <1>2, <1>3 DEF Request
  <1>5. new.pc = pc /\ new.fingerprint = f /\ new.reporter = r
    BY <1>2 DEF Request
  <1>6. SessionOK(new)
    BY <1>4, <1>5, AfterTouchType DEF SessionOK
  <1>7. session' = [session EXCEPT ![q] = new]
    BY <1>1
  <1>8. lock' \in Sessions \cup {NoOne} /\ requests' \in Nat
    BY DEF StartReport, TypeOK
  <1> QED
    BY <1>6, <1>7, <1>8, MemoryStepType DEF StartReport

LEMMA TouchSelectType ==
  ASSUME TypeOK, NEW q \in Sessions, TouchSelect(q) PROVE TypeOK'
  <1> DEFINE f == session[q].fingerprint
  <1>1. f # NoFingerprint
    BY DEF TypeOK, SessionOK, TouchSelect
  <1>2. CASE f \in DOMAIN catalogue
    <2>1. catalogue[f] \in Nat
      BY <1>2 DEF TypeOK, Counts
    <2> QED
      BY <1>1, <1>2, <2>1, SelectType, MemoryStepType, ZenonT(30) DEF TouchSelect, TypeOK
  <1>3. CASE f \notin DOMAIN catalogue
    BY <1>1, <1>3, MoveType, MemoryStepType DEF TouchSelect, TypeOK, PCs
  <1> QED
    BY <1>2, <1>3

LEMMA TouchInsertType ==
  ASSUME TypeOK, NEW q \in Sessions, TouchInsert(q) PROVE TypeOK'
  <1>1. session[q].fingerprint # NoFingerprint
    BY DEF TypeOK, SessionOK, TouchInsert
  <1>2. SessionOK([session[q] EXCEPT !.pc = AfterTouch(session[q].reporter)])
    BY AfterTouchType, MoveType
  <1>3. SessionOK([session[q] EXCEPT !.pc = "reselect"])
    BY <1>1, MoveType DEF PCs
  <1> QED
    BY <1>2, <1>3, MemoryStepType DEF TouchInsert, TypeOK

LEMMA TouchReselectType ==
  ASSUME TypeOK, NEW q \in Sessions, TouchReselect(q) PROVE TypeOK'
  <1> DEFINE f == session[q].fingerprint
             n == IF f \in DOMAIN catalogue THEN catalogue[f] ELSE 0
  <1>1. f # NoFingerprint
    BY DEF TypeOK, SessionOK, TouchReselect
  <1>2. n \in Nat
    BY DEF TypeOK, Counts
  <1>3. session' = [session EXCEPT ![q] =
          [session[q] EXCEPT !.pc = AfterTouch(session[q].reporter),
                             !.seen = n, !.known = TRUE]]
    BY DEF TouchReselect
  <1> QED
    BY <1>1, <1>2, <1>3, SelectType, MemoryStepType, ZenonT(30) DEF TouchReselect, TypeOK

LEMMA NoteVerifiedReporterType ==
  ASSUME TypeOK, NEW q \in Sessions, NoteVerifiedReporter(q) PROVE TypeOK'
  <1> DEFINE r == session[q].reporter
             n == IF r \in DOMAIN reporterKeys THEN reporterKeys[r] ELSE 0
             s == [session[q] EXCEPT !.pc = "commit", !.signedSeen = n]
  <1>1. session[q] \in Request
    BY DEF TypeOK
  <1>2. n \in Nat
    BY DEF TypeOK, Counts
  <1>3. s \in Request /\ s.pc = "commit"
    BY <1>1, <1>2 DEF Request, PCs
  <1>4. SessionOK(s)
    BY <1>3 DEF SessionOK
  <1> QED
    BY <1>4, MemoryStepType DEF NoteVerifiedReporter, TypeOK

LEMMA CommitType ==
  ASSUME TypeOK, NEW q \in Sessions, Commit(q) PROVE TypeOK'
  <1> DEFINE s == session[q]
             f == s.fingerprint
             r == s.reporter
  <1>1. s \in Request
    BY DEF TypeOK
  <1>2. /\ session' \in [Sessions -> Request]
        /\ \A p \in Sessions : SessionOK(session'[p])
    BY EndType, OwnMemory DEF Commit
  <1>3. /\ raw' \in [Fingerprints -> [Sources -> Nat]]
        /\ Counts(catalogue', Fingerprints)
        /\ reported' \in [Fingerprints -> Nat]
        /\ firsts' \in [Fingerprints -> Nat]
    <2>1. CASE f = NoFingerprint
      BY <2>1 DEF Commit, TypeOK
    <2>2. CASE f # NoFingerprint
      <3>1. f \in Fingerprints /\ s.source \in Sources /\ s.seen + 1 \in Nat
        BY <1>1, <2>2 DEF Request
      <3>2. Counts(catalogue', Fingerprints)
        <4>1. catalogue' \in {catalogue, With(catalogue, f, s.seen + 1)}
          BY <2>2 DEF Commit
        <4>2. Counts(catalogue, Fingerprints)
          BY DEF TypeOK
        <4>3. Counts(With(catalogue, f, s.seen + 1), Fingerprints)
          BY <3>1, <4>2, WithCounts
        <4> QED
          BY <4>1, <4>2, <4>3
      <3>3. raw' = [raw EXCEPT ![f] = [raw[f] EXCEPT ![s.source] = @ + 1]]
        BY <2>2 DEF Commit
      <3>4. [raw[f] EXCEPT ![s.source] = @ + 1] \in [Sources -> Nat]
        BY <3>1 DEF TypeOK
      <3>5. raw' \in [Fingerprints -> [Sources -> Nat]]
        BY <3>1, <3>3, <3>4 DEF TypeOK
      <3>6. reported' \in [Fingerprints -> Nat]
        <4>1. reported' = [reported EXCEPT ![f] = @ + 1]
          BY <2>2 DEF Commit
        <4> QED
          BY <3>1, <4>1 DEF TypeOK
      <3>7. firsts' \in [Fingerprints -> Nat]
        <4>1. (IF s.known THEN 0 ELSE 1) \in Nat
          OBVIOUS
        <4>2. firsts' = [firsts EXCEPT ![f] = @ + IF s.known THEN 0 ELSE 1]
          BY <2>2 DEF Commit
        <4> QED
          BY <3>1, <4>1, <4>2 DEF TypeOK
      <3> QED
        BY <3>2, <3>5, <3>6, <3>7
    <2> QED
      BY <2>1, <2>2
  <1>4. Counts(reporterKeys', Reporters) /\ signed' \in [Reporters -> Nat]
    <2>1. CASE r = Unsigned
      BY <2>1 DEF Commit, TypeOK
    <2>2. CASE r # Unsigned
      <3>1. r \in Reporters /\ s.signedSeen + 1 \in Nat
        BY <1>1, <2>2 DEF Request
      <3>2. /\ reporterKeys' = With(reporterKeys, r, s.signedSeen + 1)
            /\ signed' = [signed EXCEPT ![r] = @ + 1]
        BY <2>2 DEF Commit
      <3>3. Counts(reporterKeys, Reporters) /\ signed \in [Reporters -> Nat]
        BY DEF TypeOK
      <3>4. Counts(reporterKeys', Reporters)
        BY <3>1, <3>2, <3>3, WithCounts
      <3>5. signed' \in [Reporters -> Nat]
        BY <3>1, <3>2, <3>3
      <3> QED
        BY <3>4, <3>5
    <2> QED
      BY <2>1, <2>2
  <1> QED
    BY <1>2, <1>3, <1>4 DEF Commit, TypeOK

LEMMA EndingType ==
  ASSUME TypeOK, NEW q \in Sessions,
         CommitFails(q) \/ LockTimeout(q) \/ CounterTimeout(q) \/ Finish(q)
  PROVE  TypeOK'
  <1>1. CASE CommitFails(q)
    BY <1>1, EndType, MemoryStepType DEF CommitFails, TypeOK
  <1>2. CASE LockTimeout(q)
    BY <1>2, EndType, MemoryStepType DEF LockTimeout, TypeOK
  <1>3. CASE CounterTimeout(q)
    BY <1>3, EndType, MemoryStepType DEF CounterTimeout, TypeOK
  <1>4. CASE Finish(q)
    BY <1>4, EndType, MemoryStepType DEF Finish, TypeOK
  <1> QED
    BY <1>1, <1>2, <1>3, <1>4

LEMMA StartQueryType ==
  ASSUME TypeOK, NEW q \in Sessions, StartQuery(q) PROVE TypeOK'
  <1>1. PICK f \in Fingerprints :
          session' = [session EXCEPT ![q] =
            [@ EXCEPT !.pc = "count", !.fingerprint = f,
                      !.known = Total(raw, f) + Total(archived, f) > 0]]
    BY Zenon DEF StartQuery
  <1> DEFINE known == Total(raw, f) + Total(archived, f) > 0
             new == [session[q] EXCEPT !.pc = "count", !.fingerprint = f, !.known = known]
  <1>2. session[q] \in Request
    BY DEF TypeOK
  <1>3. new \in Request /\ new.pc = "count"
    <2>1. known \in BOOLEAN
      OBVIOUS
    <2> HIDE DEF known
    <2> QED
      BY <1>2, <2>1 DEF Request, PCs
  <1>4. SessionOK(new)
    BY <1>3 DEF SessionOK
  <1>5. session' = [session EXCEPT ![q] = new]
    BY <1>1
  <1>6. lock' \in Sessions \cup {NoOne} /\ requests' \in Nat
    BY DEF StartQuery, TypeOK
  <1> QED
    BY <1>4, <1>5, <1>6, MemoryStepType DEF StartQuery

LEMMA BumpCountersType ==
  ASSUME TypeOK, NEW q \in Sessions, BumpCounters(q) PROVE TypeOK'
  <1>1. /\ session' \in [Sessions -> Request]
        /\ \A p \in Sessions : SessionOK(session'[p])
    BY EndType, OwnMemory DEF BumpCounters
  <1>2. counters' \in [Counters -> Nat]
    BY DEF BumpCounters, TypeOK
  <1>3. counted' \in Nat
    BY DEF BumpCounters, TypeOK
  <1> QED
    BY <1>1, <1>2, <1>3 DEF BumpCounters, TypeOK

LEMMA RestartType == ASSUME TypeOK, Restart PROVE TypeOK'
  <1>1. /\ session' \in [Sessions -> Request]
        /\ \A p \in Sessions : SessionOK(session'[p])
    BY EndType, IdleIsRequest DEF Restart
  <1> QED
    BY <1>1 DEF Restart, TypeOK, tables, history

LEMMA OtherWritersType ==
  ASSUME TypeOK,
         (\E f \in Fingerprints : Archive(f)) \/ Purge \/ RebuildRead \/ RebuildWrite
  PROVE  TypeOK'
  <1>1. ASSUME NEW f \in Fingerprints, Archive(f) PROVE TypeOK'
    <2>1. /\ raw' \in [Fingerprints -> [Sources -> Nat]]
          /\ archived' \in [Fingerprints -> [Sources -> Nat]]
      BY <1>1 DEF Archive, TypeOK
    <2> QED
      BY <1>1, <2>1 DEF Archive, TypeOK, history
  <1>2. CASE Purge
    <2>1. /\ raw' \in [Fingerprints -> [Sources -> Nat]]
          /\ archived' \in [Fingerprints -> [Sources -> Nat]]
      BY <1>2 DEF Purge, TypeOK
    <2>2. Counts(catalogue', Fingerprints)
      BY <1>2 DEF Purge, TypeOK, Counts
    <2>3. dropped' \in [Fingerprints -> Nat]
      BY <1>2 DEF Purge, TypeOK
    <2>4. tool' = [pc |-> "purged", counts |-> NoRead.counts] /\ Counts(NoRead.counts, Fingerprints)
      BY <1>2 DEF Purge, NoRead, Counts
    <2>5. purges' \in Nat
      BY <1>2 DEF Purge, TypeOK
    <2>6. /\ tool' = [pc |-> tool'.pc, counts |-> tool'.counts]
          /\ tool'.pc = "purged" /\ Counts(tool'.counts, Fingerprints)
      BY <2>4
    <2> QED
      BY <1>2, <2>1, <2>2, <2>3, <2>5, <2>6 DEF Purge, TypeOK
  <1>3. CASE RebuildRead
    <2>1. Counts([f \in {g \in Fingerprints : Total(raw, g) > 0} |-> Total(raw, f)], Fingerprints)
      BY TotalIsNat DEF TypeOK, Counts
    <2> QED
      BY <1>3, <2>1 DEF RebuildRead, TypeOK, tables, history
  <1>4. CASE RebuildWrite
    <2>1. Counts(catalogue', Fingerprints)
      BY <1>4 DEF RebuildWrite, TypeOK, Counts
    <2>2. tool' = [pc |-> "idle", counts |-> NoRead.counts] /\ Counts(NoRead.counts, Fingerprints)
      BY <1>4 DEF RebuildWrite, NoRead, Counts
    <2>3. /\ tool' = [pc |-> tool'.pc, counts |-> tool'.counts]
          /\ tool'.pc = "idle" /\ Counts(tool'.counts, Fingerprints)
      BY <2>2
    <2> QED
      BY <1>4, <2>1, <2>3 DEF RebuildWrite, TypeOK, history
  <1> QED
    BY <1>1, <1>2, <1>3, <1>4

LEMMA TypeStep == TypeOK /\ [Next]_vars => TypeOK'
  <1> SUFFICES ASSUME TypeOK, [Next]_vars PROVE TypeOK'
    OBVIOUS
  <1>1. CASE UNCHANGED vars
    BY <1>1 DEF TypeOK, vars, tables, history, Counts, SessionOK, Request
  <1>2. ASSUME NEW q \in Sessions, ReportStep(q) PROVE TypeOK'
    BY <1>2, TouchSelectType, TouchInsertType, TouchReselectType,
       NoteVerifiedReporterType, CommitType, EndingType DEF ReportStep
  <1>3. ASSUME NEW q \in Sessions,
               StartReport(q) \/ StartQuery(q) \/ QueryStep(q) \/ Finish(q)
        PROVE  TypeOK'
    BY <1>3, StartReportType, StartQueryType, BumpCountersType, EndingType DEF QueryStep
  <1> QED
    BY <1>1, <1>2, <1>3, RestartType, OtherWritersType DEF Next

(* Whatever requests, scripts and restarts do, every variable keeps its    *)
(* type.                                                                   *)
THEOREM TypeCorrect == Spec => []TypeOK
  BY TypeInit, TypeStep, PTL DEF Spec

-----------------------------------------------------------------------------
(* What requests remember, and the write lock.                             *)

(* History only grows, and a catalogue row does not go without a trace.    *)
HistoryGrows ==
  /\ \A f \in Fingerprints :
       /\ reported'[f] >= reported[f] /\ dropped'[f] >= dropped[f]
       /\ f \in DOMAIN catalogue => f \in DOMAIN catalogue' \/ dropped'[f] > 0
  /\ \A r \in Reporters : signed'[r] >= signed[r]

LEMMA CommitGrows ==
  ASSUME TypeOK, NEW q \in Sessions, Commit(q) PROVE HistoryGrows
  <1> DEFINE s == session[q]
             f == s.fingerprint
             r == s.reporter
  <1>1. s \in Request
    BY DEF TypeOK
  <1>2. dropped' = dropped /\ dropped \in [Fingerprints -> Nat]
    BY DEF Commit, TypeOK
  <1>3. \A g \in Fingerprints : reported'[g] >= reported[g]
    <2>1. reported' = reported \/ reported' = [reported EXCEPT ![f] = @ + 1]
      BY DEF Commit
    <2>2. reported \in [Fingerprints -> Nat]
      BY DEF TypeOK
    <2> QED
      BY <2>1, <2>2
  <1>4. \A p \in Reporters : signed'[p] >= signed[p]
    <2>1. signed' = signed \/ signed' = [signed EXCEPT ![r] = @ + 1]
      BY DEF Commit
    <2> QED
      BY <2>1 DEF TypeOK
  <1>5. DOMAIN catalogue \subseteq DOMAIN catalogue'
    <2>1. catalogue' = catalogue \/ catalogue' = With(catalogue, f, s.seen + 1)
      BY DEF Commit
    <2>2. DOMAIN With(catalogue, f, s.seen + 1) = DOMAIN catalogue \cup {f}
      BY DEF With
    <2> QED
      BY <2>1, <2>2
  <1> QED
    BY <1>2, <1>3, <1>4, <1>5 DEF HistoryGrows

LEMMA OtherwiseGrows ==
  ASSUME TypeOK, UNCHANGED <<reported, signed>>,
         \/ UNCHANGED <<catalogue, dropped>>
         \/ Purge
         \/ RebuildWrite
  PROVE  HistoryGrows
  <1>1. CASE UNCHANGED <<catalogue, dropped>>
    BY <1>1 DEF TypeOK, HistoryGrows
  <1>2. CASE Purge
    <2>1. \A f \in Fingerprints :
            dropped'[f] = dropped[f] + IF f \in Orphans(raw') THEN 1 ELSE 0
      BY <1>2 DEF Purge
    <2>2. \A f \in DOMAIN catalogue : f \in DOMAIN catalogue' \/ f \in Orphans(raw')
      BY <1>2 DEF Purge
    <2> QED
      BY <2>1, <2>2 DEF TypeOK, HistoryGrows
  <1>3. CASE RebuildWrite
    BY <1>3 DEF RebuildWrite, TypeOK, HistoryGrows, history
  <1> QED
    BY <1>1, <1>2, <1>3

LEMMA StepGrows == TypeOK /\ [Next]_vars => HistoryGrows
  <1> SUFFICES ASSUME TypeOK, [Next]_vars PROVE HistoryGrows
    OBVIOUS
  <1>1. CASE UNCHANGED vars
    BY <1>1, OtherwiseGrows DEF vars, tables, history
  <1>2. ASSUME NEW q \in Sessions, ReportStep(q) PROVE HistoryGrows
    BY <1>2, CommitGrows, OtherwiseGrows
    DEF ReportStep, TouchSelect, TouchInsert, TouchReselect, NoteVerifiedReporter,
        CommitFails, LockTimeout, tables, history
  <1>3. ASSUME NEW q \in Sessions,
               StartReport(q) \/ StartQuery(q) \/ QueryStep(q) \/ Finish(q)
        PROVE  HistoryGrows
    BY <1>3, OtherwiseGrows, ZenonT(30)
    DEF StartReport, StartQuery, QueryStep, BumpCounters, CounterTimeout, Finish,
        tables, history
  <1>4. CASE Restart
    BY <1>4, OtherwiseGrows DEF Restart, tables, history
  <1>5. ASSUME NEW f \in Fingerprints, Archive(f) PROVE HistoryGrows
    BY <1>5, OtherwiseGrows DEF Archive, history
  <1>6. CASE Purge \/ RebuildRead \/ RebuildWrite
    BY <1>6, OtherwiseGrows DEF Purge, RebuildRead, RebuildWrite, tables, history
  <1> QED
    BY <1>1, <1>2, <1>3, <1>4, <1>5, <1>6 DEF Next

(* What a request remembers.                                               *)
Remembers(s) == FreshBeforeReading(s) /\ SeenWithinReports(s) /\ LostOnlyToPurge(s)

(* A request that does not move remembers as before.                       *)
LEMMA RememberedStays ==
  ASSUME TypeOK, TypeOK', HistoryGrows, NEW q \in Sessions,
         session'[q] = session[q], Remembers(session[q])
  PROVE  Remembers(session[q])'
  <1> DEFINE s == session[q]
  <1>1. s \in Request
    BY DEF TypeOK
  <1>2. FreshBeforeReading(session[q])'
    BY DEF Remembers, FreshBeforeReading
  <1>3. SeenWithinReports(session[q])'
    <2>1. s.fingerprint # NoFingerprint => s.seen <= reported'[s.fingerprint]
      BY <1>1 DEF Remembers, SeenWithinReports, HistoryGrows, TypeOK, Request
    <2>2. s.reporter # Unsigned => s.signedSeen <= signed'[s.reporter]
      BY <1>1 DEF Remembers, SeenWithinReports, HistoryGrows, TypeOK, Request
    <2>3. Creating(s) => s.seen = 0
      BY DEF Remembers, SeenWithinReports
    <2> QED
      BY <2>1, <2>2, <2>3 DEF SeenWithinReports, Creating
  <1>4. LostOnlyToPurge(session[q])'
    BY <1>1 DEF Remembers, LostOnlyToPurge, HistoryGrows, TypeOK, Request
  <1> QED
    BY <1>2, <1>3, <1>4 DEF Remembers

(* Nothing is remembered when a request is over.                           *)
Over == {Idle, [Idle EXCEPT !.pc = "answered"], [Idle EXCEPT !.pc = "failed"]}

LEMMA OverRemembers ==
  ASSUME TypeOK', NEW q \in Sessions, session'[q] \in Over
  PROVE  Remembers(session[q])' /\ ~Creating(session'[q])
  BY DEF Over, Remembers, FreshBeforeReading, SeenWithinReports, LostOnlyToPurge,
         Creating, Idle

(* The step of a request: its own memory changes, and it takes, keeps or   *)
(* gives back the lock.                                                    *)
LEMMA MemoryStep ==
  ASSUME TypeOK, TypeOK', HistoryGrows, SessionsRemember, LockIsInserter,
         NEW q \in Sessions, catalogue' = catalogue \/ lock' = NoOne,
         \A p \in Sessions : p # q => session'[p] = session[p],
         Remembers(session[q])',
         Creating(session'[q]) => session'[q].fingerprint \notin DOMAIN catalogue,
         \/ lock' = lock /\ (Creating(session'[q]) <=> Creating(session[q]))
         \/ lock \in {NoOne, q} /\ lock' = IF Creating(session'[q]) THEN q ELSE NoOne
  PROVE  SessionsRemember' /\ LockIsInserter'
  <1>1. \A p \in Sessions : Remembers(session[p])'
    BY RememberedStays DEF SessionsRemember, Remembers
  <1>2. LockIsInserter'
    BY DEF LockIsInserter, TypeOK
  <1> QED
    BY <1>1, <1>2 DEF SessionsRemember, Remembers

LEMMA StartReportMemory ==
  ASSUME TypeOK, TypeOK', HistoryGrows, SessionsRemember, LockIsInserter,
         NEW q \in Sessions, StartReport(q)
  PROVE  SessionsRemember' /\ LockIsInserter'
  <1> DEFINE s == session[q]
  <1>1. /\ s \in Request /\ s.pc = "idle"
        /\ s.seen = 0 /\ s.signedSeen = 0 /\ ~s.known
    BY DEF TypeOK, StartReport, SessionsRemember, FreshBeforeReading
  <1>2. PICK f \in Fingerprints \cup {NoFingerprint}, r \in Reporters \cup {Unsigned},
             o \in Sources :
          session' = [session EXCEPT ![q] =
            [s EXCEPT !.pc = IF f = NoFingerprint THEN AfterTouch(r) ELSE "touch",
                      !.fingerprint = f, !.reporter = r, !.source = o]]
    BY Zenon DEF StartReport
  <1>3. \A p \in Sessions : p # q => session'[p] = session[p]
    BY <1>2 DEF TypeOK
  <1>4. /\ session'[q].fingerprint = f /\ session'[q].reporter = r
        /\ session'[q].pc = IF f = NoFingerprint THEN AfterTouch(r) ELSE "touch"
        /\ session'[q].seen = 0 /\ session'[q].signedSeen = 0 /\ ~session'[q].known
    BY <1>1, <1>2 DEF TypeOK, Request
  <1>5. reported' \in [Fingerprints -> Nat] /\ signed' \in [Reporters -> Nat]
    BY DEF TypeOK
  <1>6. Remembers(session[q])'
    BY <1>4, <1>5
    DEF Remembers, FreshBeforeReading, SeenWithinReports, LostOnlyToPurge, Creating
  <1>7. ~Creating(session[q]) /\ ~Creating(session'[q])
    BY <1>1, <1>4 DEF Creating
  <1> QED
    BY <1>3, <1>6, <1>7, MemoryStep DEF StartReport, tables

LEMMA TouchSelectMemory ==
  ASSUME TypeOK, TypeOK', HistoryGrows, SessionsRemember, LockIsInserter,
         CountWithinReports, NEW q \in Sessions, TouchSelect(q)
  PROVE  SessionsRemember' /\ LockIsInserter'
  <1> DEFINE s == session[q]
             f == s.fingerprint
  <1>1. /\ s \in Request /\ s.pc = "touch"
        /\ s.seen = 0 /\ s.signedSeen = 0 /\ ~s.known
    BY DEF TypeOK, TouchSelect, SessionsRemember, FreshBeforeReading
  <1>2. \A p \in Sessions : p # q => session'[p] = session[p]
    BY DEF TouchSelect, TypeOK
  <1>3. reported' \in [Fingerprints -> Nat] /\ signed' \in [Reporters -> Nat]
    BY DEF TypeOK
  <1>4. Remembers(session[q])' /\ ~Creating(session'[q])
    <2>1. CASE f \in DOMAIN catalogue
      <3>0. session'[q] = [s EXCEPT !.pc = AfterTouch(s.reporter),
                                    !.seen = catalogue[f], !.known = TRUE]
        BY <2>1 DEF TouchSelect, TypeOK
      <3>1. /\ session'[q].pc = AfterTouch(s.reporter)
            /\ session'[q].seen = catalogue[f] /\ session'[q].known
            /\ session'[q].fingerprint = f /\ session'[q].reporter = s.reporter
            /\ session'[q].signedSeen = 0
        BY <1>1, <3>0 DEF Request
      <3>2. catalogue[f] \in 1 .. reported[f] /\ reported' = reported
        BY <2>1 DEF CountWithinReports, TouchSelect, history
      <3> QED
        BY <1>1, <1>3, <3>1, <3>2, AfterTouchType
        DEF Remembers, FreshBeforeReading, SeenWithinReports, LostOnlyToPurge,
            Creating, AfterTouch, Request, TypeOK
    <2>2. CASE f \notin DOMAIN catalogue
      <3>0. session'[q] = [s EXCEPT !.pc = "insert"]
        BY <2>2 DEF TouchSelect, TypeOK
      <3>1. /\ session'[q].pc = "insert" /\ session'[q].seen = 0 /\ ~session'[q].known
            /\ session'[q].fingerprint = f /\ session'[q].reporter = s.reporter
            /\ session'[q].signedSeen = 0
        BY <1>1, <3>0 DEF Request
      <3> QED
        BY <1>1, <1>3, <3>1
        DEF Remembers, FreshBeforeReading, SeenWithinReports, LostOnlyToPurge,
            Creating, Request
    <2> QED
      BY <2>1, <2>2
  <1>5. ~Creating(session[q])
    BY <1>1 DEF Creating
  <1> QED
    BY <1>2, <1>4, <1>5, MemoryStep DEF TouchSelect, tables

LEMMA TouchInsertMemory ==
  ASSUME TypeOK, TypeOK', HistoryGrows, SessionsRemember, LockIsInserter,
         NEW q \in Sessions, TouchInsert(q)
  PROVE  SessionsRemember' /\ LockIsInserter'
  <1> DEFINE s == session[q]
             f == s.fingerprint
  <1>1. /\ s \in Request /\ s.pc = "insert" /\ f \in Fingerprints
        /\ s.seen = 0 /\ s.signedSeen = 0 /\ ~s.known
    BY DEF TypeOK, SessionOK, Request, TouchInsert, SessionsRemember, FreshBeforeReading
  <1>2. \A p \in Sessions : p # q => session'[p] = session[p]
    BY DEF TouchInsert, TypeOK
  <1>3. /\ reported' \in [Fingerprints -> Nat] /\ signed' \in [Reporters -> Nat]
        /\ catalogue' = catalogue
    BY DEF TypeOK, TouchInsert, tables
  <1>4. /\ session'[q].fingerprint = f /\ session'[q].reporter = s.reporter
        /\ session'[q].seen = 0 /\ session'[q].signedSeen = 0 /\ ~session'[q].known
    BY <1>1 DEF TouchInsert, TypeOK, Request
  <1>5. ~Creating(session[q]) /\ lock # q
    BY <1>1 DEF Creating, LockIsInserter
  <1>6. CASE f \notin DOMAIN catalogue
    <2>1. session'[q].pc = AfterTouch(s.reporter) /\ lock' = q
      BY <1>1, <1>6 DEF TouchInsert, TypeOK, Request
    <2>2. Creating(session'[q])
      BY <1>1, <1>4, <2>1 DEF Creating, AfterTouch
    <2>3. Remembers(session[q])'
      BY <1>1, <1>3, <1>4, <2>1
      DEF Remembers, FreshBeforeReading, SeenWithinReports, LostOnlyToPurge,
          AfterTouch, Request
    <2> QED
      BY <1>2, <1>3, <1>4, <1>6, <2>1, <2>2, <2>3, MemoryStep DEF TouchInsert, CanWrite
  <1>7. CASE f \in DOMAIN catalogue
    <2>1. session'[q].pc = "reselect" /\ lock' = lock
      BY <1>1, <1>7 DEF TouchInsert, TypeOK, Request
    <2>2. ~Creating(session'[q])
      BY <2>1 DEF Creating
    <2>3. Remembers(session[q])'
      BY <1>1, <1>3, <1>4, <1>7, <2>1
      DEF Remembers, FreshBeforeReading, SeenWithinReports, LostOnlyToPurge,
          Creating, Request
    <2> QED
      BY <1>2, <1>3, <1>5, <2>1, <2>2, <2>3, MemoryStep
  <1> QED
    BY <1>6, <1>7

LEMMA TouchReselectMemory ==
  ASSUME TypeOK, TypeOK', HistoryGrows, SessionsRemember, LockIsInserter,
         CountWithinReports, NEW q \in Sessions, TouchReselect(q)
  PROVE  SessionsRemember' /\ LockIsInserter'
  <1> DEFINE s == session[q]
             f == s.fingerprint
             n == IF f \in DOMAIN catalogue THEN catalogue[f] ELSE 0
  <1>1. /\ s \in Request /\ s.pc = "reselect" /\ f \in Fingerprints
        /\ s.signedSeen = 0
    BY DEF TypeOK, SessionOK, Request, TouchReselect, SessionsRemember, FreshBeforeReading
  <1>2. \A p \in Sessions : p # q => session'[p] = session[p]
    BY DEF TouchReselect, TypeOK
  <1>3. /\ reported' \in [Fingerprints -> Nat] /\ signed' \in [Reporters -> Nat]
        /\ reported' = reported /\ dropped' = dropped
    BY DEF TypeOK, TouchReselect, history
  <1>4. /\ session'[q].fingerprint = f /\ session'[q].reporter = s.reporter
        /\ session'[q].seen = n /\ session'[q].signedSeen = 0 /\ session'[q].known
        /\ session'[q].pc = AfterTouch(s.reporter)
    BY <1>1 DEF TouchReselect, TypeOK, Request
  <1>5. n \in 0 .. reported[f] /\ (n = 0 => dropped[f] > 0)
    <2>1. CASE f \in DOMAIN catalogue
      BY <2>1 DEF CountWithinReports
    <2>2. CASE f \notin DOMAIN catalogue
      BY <1>1, <2>2 DEF SessionsRemember, LostOnlyToPurge, TypeOK
    <2> QED
      BY <2>1, <2>2
  <1>6. ~Creating(session'[q]) /\ ~Creating(session[q])
    BY <1>1, <1>4 DEF Creating
  <1>7. Remembers(session[q])'
    <2> HIDE DEF n
    <2> QED
      BY <1>1, <1>3, <1>4, <1>5, <1>6, AfterTouchType
      DEF Remembers, FreshBeforeReading, SeenWithinReports, LostOnlyToPurge,
          AfterTouch, Request
  <1> QED
    BY <1>2, <1>6, <1>7, MemoryStep DEF TouchReselect, tables

LEMMA NoteVerifiedReporterMemory ==
  ASSUME TypeOK, TypeOK', HistoryGrows, SessionsRemember, LockIsInserter,
         VerifiedRemembered, NEW q \in Sessions, NoteVerifiedReporter(q)
  PROVE  SessionsRemember' /\ LockIsInserter'
  <1> DEFINE s == session[q]
             r == s.reporter
             n == IF r \in DOMAIN reporterKeys THEN reporterKeys[r] ELSE 0
  <1>1. s \in Request /\ s.pc = "sign" /\ r \in Reporters
    BY DEF TypeOK, SessionOK, Request, NoteVerifiedReporter
  <1>2. \A p \in Sessions : p # q => session'[p] = session[p]
    BY DEF NoteVerifiedReporter, TypeOK
  <1>3. /\ reported' = reported /\ dropped' = dropped /\ signed' = signed
        /\ catalogue' = catalogue /\ lock' = lock
        /\ reported \in [Fingerprints -> Nat] /\ signed \in [Reporters -> Nat]
    BY DEF NoteVerifiedReporter, history, tables, TypeOK
  <1>4. session'[q] = [s EXCEPT !.pc = "commit", !.signedSeen = n]
    BY DEF NoteVerifiedReporter, TypeOK
  <1>5. /\ session'[q].pc = "commit" /\ session'[q].signedSeen = n
        /\ session'[q].fingerprint = s.fingerprint /\ session'[q].reporter = r
        /\ session'[q].seen = s.seen /\ session'[q].known = s.known
    BY <1>1, <1>4 DEF Request
  <1>6. n \in 0 .. signed[r]
    BY <1>1, <1>3 DEF VerifiedRemembered
  <1>7. Creating(session'[q]) <=> Creating(session[q])
    BY <1>1, <1>5 DEF Creating
  <1>8. Remembers(session[q])'
    <2>1. FreshBeforeReading(session[q])'
      BY <1>5 DEF FreshBeforeReading
    <2>2. SeenWithinReports(session[q])'
      <3> HIDE DEF n
      <3> QED
        BY <1>3, <1>5, <1>6, <1>7 DEF SessionsRemember, SeenWithinReports, Creating
    <2>3. LostOnlyToPurge(session[q])'
      BY <1>1, <1>3, <1>5 DEF SessionsRemember, LostOnlyToPurge
    <2> QED
      BY <2>1, <2>2, <2>3 DEF Remembers
  <1>9. Creating(session'[q]) => session'[q].fingerprint \notin DOMAIN catalogue
    BY <1>5, <1>7 DEF LockIsInserter
  <1> QED
    BY <1>2, <1>3, <1>7, <1>8, <1>9, MemoryStep

LEMMA StartQueryMemory ==
  ASSUME TypeOK, TypeOK', HistoryGrows, SessionsRemember, LockIsInserter,
         NEW q \in Sessions, StartQuery(q)
  PROVE  SessionsRemember' /\ LockIsInserter'
  <1> DEFINE s == session[q]
  <1>1. /\ s \in Request /\ s.pc = "idle"
        /\ s.seen = 0 /\ s.signedSeen = 0 /\ ~s.known
    BY DEF TypeOK, StartQuery, SessionsRemember, FreshBeforeReading
  <1>2. PICK f \in Fingerprints :
          session' = [session EXCEPT ![q] =
            [s EXCEPT !.pc = "count", !.fingerprint = f,
                      !.known = Total(raw, f) + Total(archived, f) > 0]]
    BY Zenon DEF StartQuery
  <1>3. \A p \in Sessions : p # q => session'[p] = session[p]
    BY <1>2 DEF TypeOK
  <1>4. /\ session'[q].fingerprint = f /\ session'[q].reporter = s.reporter
        /\ session'[q].pc = "count" /\ session'[q].seen = 0 /\ session'[q].signedSeen = 0
    BY <1>1, <1>2 DEF TypeOK, Request
  <1>5. reported' \in [Fingerprints -> Nat] /\ signed' \in [Reporters -> Nat]
    BY DEF TypeOK
  <1>6. Remembers(session[q])'
    BY <1>1, <1>4, <1>5
    DEF Remembers, FreshBeforeReading, SeenWithinReports, LostOnlyToPurge, Creating, Request
  <1>7. ~Creating(session[q]) /\ ~Creating(session'[q])
    BY <1>1, <1>4 DEF Creating
  <1> QED
    BY <1>3, <1>6, <1>7, MemoryStep DEF StartQuery, tables

(* The steps with which a request ends.                                    *)
LEMMA EndMemory ==
  ASSUME TypeOK, TypeOK', HistoryGrows, SessionsRemember, LockIsInserter,
         NEW q \in Sessions,
         \/ Commit(q) \/ CommitFails(q) \/ LockTimeout(q)
         \/ BumpCounters(q) \/ CounterTimeout(q) \/ Finish(q)
  PROVE  SessionsRemember' /\ LockIsInserter'
  <1> SUFFICES ASSUME NEW s \in Over, session' = [session EXCEPT ![q] = s],
                      catalogue' = catalogue \/ lock' = NoOne,
                      \/ lock' = lock /\ ~Creating(session[q])
                      \/ lock \in {NoOne, q} /\ lock' = NoOne
               PROVE  SessionsRemember' /\ LockIsInserter'
    <2>1. CASE Commit(q) \/ CommitFails(q)
      BY <2>1 DEF Over, Commit, CommitFails, CanWrite
    <2>2. CASE LockTimeout(q)
      BY <2>2 DEF Over, LockTimeout, CanWrite, LockIsInserter, tables
    <2>3. CASE BumpCounters(q) \/ CounterTimeout(q)
      BY <2>3 DEF Over, BumpCounters, CounterTimeout, Creating, tables
    <2>4. CASE Finish(q)
      BY <2>4 DEF Over, Finish, Creating, tables
    <2> QED
      BY <2>1, <2>2, <2>3, <2>4
  <1>1. session'[q] \in Over
    BY DEF TypeOK
  <1>2. \A p \in Sessions : p # q => session'[p] = session[p]
    BY DEF TypeOK
  <1>3. Remembers(session[q])' /\ ~Creating(session'[q])
    BY <1>1, OverRemembers
  <1> QED
    BY <1>2, <1>3, MemoryStep

LEMMA RestartMemory ==
  ASSUME TypeOK, TypeOK', Restart PROVE SessionsRemember' /\ LockIsInserter'
  <1>1. ASSUME NEW q \in Sessions
        PROVE  Remembers(session[q])' /\ ~Creating(session'[q])
    BY OverRemembers DEF Restart, Over
  <1> QED
    BY <1>1 DEF Restart, SessionsRemember, Remembers, LockIsInserter

LEMMA OtherWritersMemory ==
  ASSUME TypeOK, TypeOK', HistoryGrows, SessionsRemember, LockIsInserter,
         session' = session, lock' = lock, lock = NoOne \/ catalogue' = catalogue
  PROVE  SessionsRemember' /\ LockIsInserter'
  <1>1. \A q \in Sessions : Remembers(session[q])'
    BY RememberedStays DEF SessionsRemember, Remembers
  <1> QED
    BY <1>1 DEF SessionsRemember, Remembers, LockIsInserter

-----------------------------------------------------------------------------
(* The tables and their history.                                           *)

TablesAgree ==
  /\ RebuildWithinReports /\ CountWithinReports /\ FirstSightOnce
  /\ CataloguedUnlessPurged /\ VerifiedRemembered /\ CountersExact

LEMMA TablesStay ==
  ASSUME TablesAgree, UNCHANGED <<tables, tool, history>> PROVE TablesAgree'
  BY DEF TablesAgree, RebuildWithinReports, CountWithinReports, FirstSightOnce,
         CataloguedUnlessPurged, VerifiedRemembered, CountersExact, Total, tables, history

(* The commit of a request that is not of a failure leaves the catalogue   *)
(* and its history alone; the commit of another counts the failure.        *)
LEMMA CommitEffect ==
  ASSUME TypeOK, SessionsRemember, LockIsInserter, NEW q \in Sessions, Commit(q),
         session[q].fingerprint # NoFingerprint
  PROVE  LET s == session[q]
             f == s.fingerprint
         IN  /\ f \in Fingerprints /\ dropped' = dropped /\ tool' = tool
             /\ \A g \in Fingerprints :
                  /\ reported'[g] = reported[g] + IF g = f THEN 1 ELSE 0
                  /\ Total(raw', g) = Total(raw, g) + IF g = f THEN 1 ELSE 0
                  /\ firsts'[g] = firsts[g] + IF g = f /\ ~s.known THEN 1 ELSE 0
             /\ \/ s.known /\ s.seen = 0 /\ catalogue' = catalogue /\ dropped[f] > 0
                \/ /\ DOMAIN catalogue' = DOMAIN catalogue \cup {f}
                   /\ catalogue'[f] = s.seen + 1 /\ s.seen \in 0 .. reported[f]
                   /\ \A g \in DOMAIN catalogue \ {f} : catalogue'[g] = catalogue[g]
             /\ ~s.known => f \notin DOMAIN catalogue
  <1> DEFINE s == session[q]
             f == s.fingerprint
  <1>1. s \in Request /\ s.pc = "commit" /\ f \in Fingerprints
    BY DEF TypeOK, Request, Commit
  <1>2. /\ raw' = [raw EXCEPT ![f][s.source] = @ + 1]
        /\ reported' = [reported EXCEPT ![f] = @ + 1]
        /\ catalogue' = IF s.known /\ s.seen = 0 THEN catalogue
                        ELSE With(catalogue, f, s.seen + 1)
        /\ firsts' = [firsts EXCEPT ![f] = @ + IF s.known THEN 0 ELSE 1]
        /\ dropped' = dropped /\ tool' = tool
    BY DEF Commit
  <1>3. ASSUME NEW g \in Fingerprints
        PROVE  /\ reported'[g] = reported[g] + IF g = f THEN 1 ELSE 0
               /\ firsts'[g] = firsts[g] + IF g = f /\ ~s.known THEN 1 ELSE 0
    <2>1. reported \in [Fingerprints -> Nat] /\ firsts \in [Fingerprints -> Nat]
      BY DEF TypeOK
    <2> QED
      BY <1>1, <1>2, <2>1
  <1>4. ASSUME NEW g \in Fingerprints
        PROVE  Total(raw', g) = Total(raw, g) + IF g = f THEN 1 ELSE 0
    <2>1. raw \in [Fingerprints -> [Sources -> Nat]] /\ s.source \in Sources
      BY <1>1 DEF TypeOK, Request
    <2>2. raw'[g] = IF g = f THEN [raw[g] EXCEPT ![s.source] = @ + 1] ELSE raw[g]
      BY <1>1, <1>2, <2>1
    <2>3. raw[g] \in [Sources -> Nat]
      BY <2>1
    <2> QED
      BY <2>1, <2>2, <2>3 DEF Total, Sources
  <1>5. s.seen \in 0 .. reported[f]
    BY <1>1 DEF SessionsRemember, SeenWithinReports, TypeOK, Request
  <1>6. s.known /\ s.seen = 0 => dropped[f] > 0
    BY <1>1 DEF SessionsRemember, LostOnlyToPurge
  <1>7. ~(s.known /\ s.seen = 0) =>
          /\ DOMAIN catalogue' = DOMAIN catalogue \cup {f}
          /\ catalogue'[f] = s.seen + 1
          /\ \A g \in DOMAIN catalogue \ {f} : catalogue'[g] = catalogue[g]
    <2> HIDE DEF s, f
    <2> QED
      BY <1>2 DEF With
  <1>8. ~s.known => f \notin DOMAIN catalogue
    BY <1>1 DEF LockIsInserter, Creating
  <1> QED
    BY <1>1, <1>2, <1>3, <1>4, <1>5, <1>6, <1>7, <1>8

LEMMA CommitTables ==
  ASSUME TypeOK, TypeOK', SessionsRemember, LockIsInserter, TablesAgree,
         NEW q \in Sessions, Commit(q)
  PROVE  TablesAgree'
  <1> DEFINE s == session[q]
             f == s.fingerprint
             r == s.reporter
  <1>1. CountersExact'
    BY DEF Commit, TablesAgree, CountersExact
  <1>2. VerifiedRemembered'
    <2>1. CASE r = Unsigned
      BY <2>1 DEF Commit, TablesAgree, VerifiedRemembered
    <2>2. CASE r # Unsigned
      <3>1. r \in Reporters /\ s.signedSeen \in 0 .. signed[r]
        BY <2>2 DEF TypeOK, Request, SessionsRemember, SeenWithinReports
      <3>2. /\ reporterKeys' = With(reporterKeys, r, s.signedSeen + 1)
            /\ signed' = [signed EXCEPT ![r] = @ + 1]
        BY <2>2 DEF Commit
      <3>3. signed \in [Reporters -> Nat] /\ Counts(reporterKeys, Reporters)
        BY DEF TypeOK
      <3>4. /\ DOMAIN reporterKeys' = DOMAIN reporterKeys \cup {r}
            /\ reporterKeys'[r] = s.signedSeen + 1
            /\ \A p \in DOMAIN reporterKeys \ {r} : reporterKeys'[p] = reporterKeys[p]
        <4> HIDE DEF s, r
        <4> QED
          BY <3>2 DEF With
      <3>5. \A p \in Reporters : signed'[p] = signed[p] + IF p = r THEN 1 ELSE 0
        BY <3>1, <3>2, <3>3
      <3>6. /\ DOMAIN reporterKeys = {p \in Reporters : signed[p] > 0}
            /\ \A p \in DOMAIN reporterKeys : reporterKeys[p] \in 1 .. signed[p]
        BY DEF TablesAgree, VerifiedRemembered
      <3> HIDE DEF s, r
      <3>7. DOMAIN reporterKeys' = {p \in Reporters : signed'[p] > 0}
        BY <3>1, <3>3, <3>4, <3>5, <3>6
      <3>8. ASSUME NEW p \in DOMAIN reporterKeys'
            PROVE  reporterKeys'[p] \in 1 .. signed'[p]
        BY <3>1, <3>3, <3>4, <3>5, <3>6, <3>8
      <3> QED
        BY <3>7, <3>8 DEF VerifiedRemembered
    <2> QED
      BY <2>1, <2>2
  <1>3. CASE f = NoFingerprint
    <2>1. UNCHANGED <<raw, catalogue, reported, firsts, dropped, tool>>
      BY <1>3 DEF Commit
    <2> QED
      BY <1>1, <1>2, <2>1
      DEF TablesAgree, RebuildWithinReports, CountWithinReports, FirstSightOnce,
          CataloguedUnlessPurged, Total
  <1>4. CASE f # NoFingerprint
    <2> DEFINE ReportCounted ==
          /\ f \in Fingerprints /\ dropped' = dropped /\ tool' = tool
          /\ \A g \in Fingerprints :
               /\ reported'[g] = reported[g] + IF g = f THEN 1 ELSE 0
               /\ Total(raw', g) = Total(raw, g) + IF g = f THEN 1 ELSE 0
               /\ firsts'[g] = firsts[g] + IF g = f /\ ~s.known THEN 1 ELSE 0
          /\ \/ s.known /\ s.seen = 0 /\ catalogue' = catalogue /\ dropped[f] > 0
             \/ /\ DOMAIN catalogue' = DOMAIN catalogue \cup {f}
                /\ catalogue'[f] = s.seen + 1 /\ s.seen \in 0 .. reported[f]
                /\ \A g \in DOMAIN catalogue \ {f} : catalogue'[g] = catalogue[g]
          /\ ~s.known => f \notin DOMAIN catalogue
    <2>1. ReportCounted
      BY <1>4, CommitEffect
    <2>2. /\ reported \in [Fingerprints -> Nat] /\ firsts \in [Fingerprints -> Nat]
          /\ dropped \in [Fingerprints -> Nat]
          /\ DOMAIN catalogue \subseteq Fingerprints
          /\ DOMAIN tool.counts \subseteq Fingerprints
          /\ \A g \in Fingerprints : Total(raw, g) \in Nat
      BY TotalIsNat DEF TypeOK, Counts
    <2>3. RebuildWithinReports'
      BY <2>1, <2>2 DEF TablesAgree, RebuildWithinReports
    <2>4. CountWithinReports'
      BY <2>1, <2>2 DEF TablesAgree, CountWithinReports
    <2>5. FirstSightOnce'
      BY <2>1, <2>2 DEF TablesAgree, FirstSightOnce
    <2>6. CataloguedUnlessPurged'
      BY <2>1, <2>2 DEF TablesAgree, CataloguedUnlessPurged
    <2> QED
      BY <1>1, <1>2, <2>3, <2>4, <2>5, <2>6 DEF TablesAgree
  <1> QED
    BY <1>3, <1>4

LEMMA BumpCountersTables ==
  ASSUME TypeOK, TablesAgree, NEW q \in Sessions, BumpCounters(q) PROVE TablesAgree'
  <1>1. CountersExact'
    BY DEF BumpCounters, TypeOK, TablesAgree, CountersExact, Counters
  <1> QED
    BY <1>1 DEF BumpCounters, TablesAgree, RebuildWithinReports, CountWithinReports,
                FirstSightOnce, CataloguedUnlessPurged, VerifiedRemembered, Total

LEMMA ArchiveTables ==
  ASSUME TypeOK, TablesAgree, NEW f \in Fingerprints, Archive(f) PROVE TablesAgree'
  <1>1. \A g \in Fingerprints :
          Total(raw', g) = IF g = f THEN 0 ELSE Total(raw, g)
    BY DEF Archive, TypeOK, Total, Sources
  <1>2. UNCHANGED <<catalogue, reporterKeys, counters, tool, history>>
    BY DEF Archive
  <1>3. reported \in [Fingerprints -> Nat]
    BY DEF TypeOK
  <1>4. RebuildWithinReports' /\ CataloguedUnlessPurged'
    BY <1>1, <1>2, <1>3
    DEF TablesAgree, RebuildWithinReports, CataloguedUnlessPurged, history
  <1> QED
    BY <1>2, <1>4
    DEF TablesAgree, CountWithinReports, FirstSightOnce, VerifiedRemembered,
        CountersExact, history

LEMMA PurgeTables == ASSUME TypeOK, TablesAgree, Purge PROVE TablesAgree'
  <1>1. \A g \in Fingerprints :
          Total(raw', g) \in Nat /\ Total(raw', g) <= Total(raw, g)
    BY DEF Purge, TypeOK, Total, Sources
  <1>2. /\ DOMAIN catalogue' = DOMAIN catalogue \ Orphans(raw')
        /\ \A g \in DOMAIN catalogue' : catalogue'[g] = catalogue[g]
        /\ \A g \in Fingerprints :
             dropped'[g] = dropped[g] + IF g \in Orphans(raw') THEN 1 ELSE 0
        /\ tool' = [pc |-> "purged", counts |-> NoRead.counts]
        /\ UNCHANGED <<reporterKeys, counters, reported, signed, firsts, counted>>
    BY DEF Purge, NoRead
  <1>3. Orphans(raw') = {g \in DOMAIN catalogue : Total(raw', g) = 0}
    BY DEF Orphans
  <1>4. /\ reported \in [Fingerprints -> Nat] /\ firsts \in [Fingerprints -> Nat]
        /\ dropped \in [Fingerprints -> Nat] /\ DOMAIN catalogue \subseteq Fingerprints
        /\ \A g \in Fingerprints : Total(raw, g) \in Nat
    BY TotalIsNat DEF TypeOK, Counts
  <1>5. RebuildWithinReports'
    BY <1>1, <1>2, <1>4 DEF TablesAgree, RebuildWithinReports, NoRead
  <1>6. CountWithinReports'
    BY <1>2, <1>4 DEF TablesAgree, CountWithinReports
  <1>7. FirstSightOnce'
    BY <1>2, <1>3, <1>4 DEF TablesAgree, FirstSightOnce
  <1>8. CataloguedUnlessPurged'
    BY <1>1, <1>2, <1>3, <1>4 DEF TablesAgree, CataloguedUnlessPurged
  <1> QED
    BY <1>2, <1>5, <1>6, <1>7, <1>8 DEF TablesAgree, VerifiedRemembered, CountersExact

LEMMA RebuildTables ==
  ASSUME TypeOK, TablesAgree, RebuildRead \/ RebuildWrite PROVE TablesAgree'
  <1>1. /\ reported \in [Fingerprints -> Nat] /\ DOMAIN catalogue \subseteq Fingerprints
        /\ DOMAIN tool.counts \subseteq Fingerprints
        /\ \A g \in Fingerprints : Total(raw, g) \in Nat
    BY TotalIsNat DEF TypeOK, Counts
  <1>2. CASE RebuildRead
    <2>1. RebuildWithinReports'
      BY <1>1, <1>2 DEF RebuildRead, TablesAgree, RebuildWithinReports, tables, history, Total
    <2> QED
      BY <1>2, <2>1
      DEF RebuildRead, TablesAgree, CountWithinReports, FirstSightOnce,
          CataloguedUnlessPurged, VerifiedRemembered, CountersExact, tables, history, Total
  <1>3. CASE RebuildWrite
    <2>1. CountWithinReports'
      BY <1>1, <1>3 DEF RebuildWrite, TablesAgree, CountWithinReports,
                        RebuildWithinReports, history
    <2>2. RebuildWithinReports'
      BY <1>1, <1>3 DEF RebuildWrite, TablesAgree, RebuildWithinReports, NoRead, history, Total
    <2>3. FirstSightOnce' /\ CataloguedUnlessPurged'
      BY <1>3, TotalIsNat
      DEF RebuildWrite, TablesAgree, FirstSightOnce, CataloguedUnlessPurged,
          TypeOK, history, Total
    <2> QED
      BY <1>3, <2>1, <2>2, <2>3
      DEF RebuildWrite, TablesAgree, VerifiedRemembered, CountersExact, history
  <1> QED
    BY <1>2, <1>3

-----------------------------------------------------------------------------
(* The inductive invariant, and what follows.                              *)

LEMMA InitIInv == Init => IInv
  <1> SUFFICES ASSUME Init PROVE IInv
    OBVIOUS
  <1>1. TypeOK
    BY TypeInit
  <1>2. LockIsInserter
    BY DEF Init, LockIsInserter, Creating, Idle
  <1>3. SessionsRemember
    BY DEF Init, SessionsRemember, FreshBeforeReading, SeenWithinReports,
           LostOnlyToPurge, Creating, Idle
  <1>4. TablesAgree
    BY DEF Init, TablesAgree, RebuildWithinReports, CountWithinReports, FirstSightOnce,
           CataloguedUnlessPurged, VerifiedRemembered, CountersExact, Total, Sources,
           Counters, NoRead, NoCounts
  <1> QED
    BY <1>1, <1>2, <1>3, <1>4 DEF IInv, TablesAgree

LEMMA MemoryIsKept ==
  IInv /\ [Next]_vars => SessionsRemember' /\ LockIsInserter'
  <1> SUFFICES ASSUME IInv, [Next]_vars PROVE SessionsRemember' /\ LockIsInserter'
    OBVIOUS
  <1>1. /\ TypeOK /\ TypeOK' /\ HistoryGrows /\ SessionsRemember /\ LockIsInserter
        /\ CountWithinReports /\ VerifiedRemembered
    BY TypeStep, StepGrows DEF IInv
  <1>2. CASE UNCHANGED vars
    BY <1>1, <1>2, OtherWritersMemory DEF vars, tables
  <1>3. ASSUME NEW q \in Sessions, ReportStep(q)
        PROVE  SessionsRemember' /\ LockIsInserter'
    BY <1>1, <1>3, TouchSelectMemory, TouchInsertMemory, TouchReselectMemory,
       NoteVerifiedReporterMemory, EndMemory DEF ReportStep
  <1>4. ASSUME NEW q \in Sessions,
               StartReport(q) \/ StartQuery(q) \/ QueryStep(q) \/ Finish(q)
        PROVE  SessionsRemember' /\ LockIsInserter'
    BY <1>1, <1>4, StartReportMemory, StartQueryMemory, EndMemory DEF QueryStep
  <1>5. CASE Restart
    BY <1>1, <1>5, RestartMemory
  <1>6. ASSUME NEW f \in Fingerprints, Archive(f)
        PROVE  SessionsRemember' /\ LockIsInserter'
    BY <1>1, <1>6, OtherWritersMemory DEF Archive
  <1>7. CASE Purge \/ RebuildRead \/ RebuildWrite
    BY <1>1, <1>7, OtherWritersMemory DEF Purge, RebuildRead, RebuildWrite, tables
  <1> QED
    BY <1>2, <1>3, <1>4, <1>5, <1>6, <1>7 DEF Next

LEMMA TablesAreKept == IInv /\ [Next]_vars => TablesAgree'
  <1> SUFFICES ASSUME IInv, [Next]_vars PROVE TablesAgree'
    OBVIOUS
  <1>1. /\ TypeOK /\ TypeOK' /\ SessionsRemember /\ LockIsInserter /\ TablesAgree
    BY TypeStep DEF IInv, TablesAgree
  <1>2. CASE UNCHANGED vars
    BY <1>1, <1>2, TablesStay DEF vars
  <1>3. ASSUME NEW q \in Sessions, ReportStep(q) PROVE TablesAgree'
    BY <1>1, <1>3, CommitTables, TablesStay
    DEF ReportStep, TouchSelect, TouchInsert, TouchReselect, NoteVerifiedReporter,
        CommitFails, LockTimeout
  <1>4. ASSUME NEW q \in Sessions,
               StartReport(q) \/ StartQuery(q) \/ QueryStep(q) \/ Finish(q)
        PROVE  TablesAgree'
    BY <1>1, <1>4, BumpCountersTables, TablesStay, ZenonT(30)
    DEF StartReport, StartQuery, QueryStep, CounterTimeout, Finish
  <1>5. CASE Restart
    BY <1>1, <1>5, TablesStay DEF Restart
  <1>6. ASSUME NEW f \in Fingerprints, Archive(f) PROVE TablesAgree'
    BY <1>1, <1>6, ArchiveTables
  <1>7. CASE Purge \/ RebuildRead \/ RebuildWrite
    BY <1>1, <1>7, PurgeTables, RebuildTables
  <1> QED
    BY <1>2, <1>3, <1>4, <1>5, <1>6, <1>7 DEF Next

(* Every part of the inductive invariant holds, with any number of         *)
(* requests and of runs of the pruner, of the purge and of the rebuild.    *)
THEOREM CatalogueTruthful == Spec => []IInv
  <1>1. Init => IInv
    BY InitIInv
  <1>2. IInv /\ [Next]_vars => IInv'
    BY TypeStep, MemoryIsKept, TablesAreKept DEF IInv, TablesAgree
  <1> QED
    BY <1>1, <1>2, PTL DEF Spec

(* Two agents are never both told that they saw a failure first.           *)
THEOREM OneFirstSight == Spec => []FirstSightOnce
  <1>1. IInv => FirstSightOnce
    BY DEF IInv
  <1> QED
    BY <1>1, CatalogueTruthful, PTL

(* A count in the catalogue is one that so many reports had earned, and a  *)
(* failure with a raw row is in it, unless a purge took it.                *)
THEOREM CatalogueFollowsReports ==
  Spec => [](CountWithinReports /\ CataloguedUnlessPurged)
  <1>1. IInv => CountWithinReports /\ CataloguedUnlessPurged
    BY DEF IInv
  <1> QED
    BY <1>1, CatalogueTruthful, PTL

(* An open transaction is that of the request that creates a row, and such *)
(* a request has it.                                                       *)
THEOREM LockHolderCreates == Spec => []LockIsInserter
  <1>1. IInv => LockIsInserter
    BY DEF IInv
  <1> QED
    BY <1>1, CatalogueTruthful, PTL

(* Signed reporters are remembered from their first committed report on,   *)
(* and the counters add up to the queries that were counted.               *)
THEOREM CountsAreExact == Spec => [](VerifiedRemembered /\ CountersExact)
  <1>1. IInv => VerifiedRemembered /\ CountersExact
    BY DEF IInv
  <1> QED
    BY <1>1, CatalogueTruthful, PTL

=============================================================================
