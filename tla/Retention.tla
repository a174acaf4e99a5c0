------------------------------ MODULE Retention ------------------------------
(***************************************************************************)
(* The evidence store of the service and the process that keeps it small   *)
(* (app/core/retention.py over the tables of app/db/models.py).            *)
(*                                                                         *)
(* A report is one row of `observations` or `recovery_outcomes`, committed *)
(* by one request.  A pruner (scripts/prune.py, started by a timer) folds  *)
(* the rows older than its cutoff into one row per hour bucket of          *)
(* `hourly_stats` and `hourly_recovery_stats`, and deletes them.  The      *)
(* pruner is a separate process: its SELECTs run before its only           *)
(* transaction (the SQLite driver opens a transaction at the first DELETE, *)
(* INSERT or UPDATE), so requests, and other pruners, may commit between.  *)
(*                                                                         *)
(* Time is an hour and a minute of that hour; a row carries the time it    *)
(* was created.  Abstracted: everything in a row that no property tells    *)
(* apart (latency, error text, the read/write flag), and the scope columns *)
(* of an observation, which are one value: `subject` is the fingerprint of *)
(* a failure and the scope of a success.                                   *)
(***************************************************************************)
EXTENDS Integers, FiniteSets, Functions

CONSTANTS
  Fingerprints,              \* failure signatures
  Scopes,                    \* (service, operation, version, schema) of a success
  Actions,                   \* recovery actions
  Reporters,                 \* reporter hashes
  Anonymous,                 \* the NULL reporter hash
  Sources,                   \* source labels a live row can carry
  MinutesPerHour,
  Cap,                       \* max_reporter_weight_per_hour
  RetentionChoices,          \* retention_hours, and what --hours may override it with
  PrivateRetention,          \* private_retention_days, in hours
  AdoptionMinObservations,
  AdoptionMinSpan,           \* adoption_min_span_seconds, in minutes
  Pruners,                   \* pruner processes
  MaxHour,                   \* bound: the clock stops here
  MaxObservations,           \* bound: rows ever stored, per table
  MaxOutcomes,
  MaxPrivate

ASSUME TimeAssumption ==
  /\ MinutesPerHour \in Nat \ {0}
  /\ MaxHour \in Nat
  /\ RetentionChoices \subseteq Nat
  /\ PrivateRetention \in Nat

ASSUME EvidenceAssumption ==
  /\ Cap \in Nat \ {0}
  /\ Anonymous \notin Reporters
  /\ IsFiniteSet(Reporters)
  /\ Fingerprints \cap Scopes = {}
  /\ Sources \subseteq {"agent", "first_party", "demo_agent", "synthetic"}
  /\ AdoptionMinObservations \in Nat
  /\ AdoptionMinSpan \in Nat

ASSUME BoundAssumption ==
  MaxObservations \in Nat /\ MaxOutcomes \in Nat /\ MaxPrivate \in Nat

VARIABLES
  clock,             \* [hour, minute]
  observations,      \* the raw tables: sets of rows
  outcomes,
  privateRows,       \* private_observations and private_recovery_outcomes
  hourlyStats,       \* the archives: functions from the keys that have a row
  hourlyRecovery,
  pruner,            \* what each pruner process holds in memory
  reportedObservations,   \* history: every row ever committed
  reportedOutcomes,
  horizon            \* history: the latest cutoff hour a prune committed

archives == <<hourlyStats, hourlyRecovery>>
history == <<reportedObservations, reportedOutcomes, horizon>>
vars == <<clock, observations, outcomes, privateRows, archives, pruner, history>>

-----------------------------------------------------------------------------
(* Rows and keys.                                                          *)

Hours == 0 .. MaxHour
Minutes == 0 .. MinutesPerHour - 1
Time == [hour : {h \in Int : h <= MaxHour}, minute : Minutes]
Voices == Reporters \cup {Anonymous}
Subjects == Fingerprints \cup Scopes
ArchiveSources == Sources \cup {"agent_sparse"}

(* Rows that agree in everything else are told apart by `id`, their number *)
(* among the rows like them: the tables are bags.                          *)
Observation == [id : Nat, hour : Hours, minute : Minutes,
                subject : Subjects, reporter : Voices, source : Sources]
Outcome == [id : Nat, hour : Hours, minute : Minutes, fingerprint : Fingerprints,
            action : Actions, successful : BOOLEAN, reporter : Voices, source : Sources]
PrivateRow == [id : Nat, hour : Hours, minute : Minutes]

StatKey == [hour : Hours, subject : Subjects, source : ArchiveSources]
RecoveryKey == [hour : Hours, fingerprint : Fingerprints,
                action : Actions, source : Sources]

HourlyStat == [count : Nat, reporters : Nat]
HourlyRecoveryStat == [attempts : Nat, successes : Nat, effAttempts : Nat,
                       effSuccesses : Nat, reporters : Nat]

Before(row, t) ==
  \/ row.hour < t.hour
  \/ row.hour = t.hour /\ row.minute < t.minute

(* Fault: a whole hour too many is kept.                                   *)
ExpiredAnHourLate(rows, t) == {r \in rows : r.hour + 1 < t.hour}

Expired(rows, t) == {r \in rows : Before(r, t)}

Identified(rows) == {r.reporter : r \in rows} \ {Anonymous}

-----------------------------------------------------------------------------
(* The adoption threshold, judged on raw `agent` rows only.                *)

Instant(row) == row.hour * MinutesPerHour + row.minute

MeetsThreshold(rows) ==
  /\ Cardinality(rows) >= AdoptionMinObservations
  /\ \E first, last \in rows : Instant(last) - Instant(first) >= AdoptionMinSpan

EstablishedReporters(rows) ==
  {r \in Reporters :
     MeetsThreshold({o \in rows : o.source = "agent" /\ o.reporter = r})}

ArchiveSourceUnjudged(o, established) == o.source

ArchiveSource(o, established) ==
  IF o.source # "agent" THEN o.source
  ELSE IF o.reporter \in established THEN "agent" ELSE "agent_sparse"

-----------------------------------------------------------------------------
(* Folding rows into hour buckets.                                         *)

StatKeyOf(o, established) ==
  [hour |-> o.hour, subject |-> o.subject, source |-> ArchiveSource(o, established)]

RecoveryKeyOf(o) ==
  [hour |-> o.hour, fingerprint |-> o.fingerprint,
   action |-> o.action, source |-> o.source]

CapAttempts(attempts) == IF attempts <= Cap THEN attempts ELSE Cap

CapSuccesses(attempts, successes) ==
  IF attempts <= Cap THEN successes ELSE (successes * Cap) \div attempts

Worked(rows) == {r \in rows : r.successful}
By(rows, voice) == {r \in rows : r.reporter = voice}

(* The sum over all reporters of one capped contribution each, counted as  *)
(* <<reporter, n>> pairs; all anonymous rows are one voice.                *)
EffectiveAttempts(rows) ==
  Cardinality({c \in Voices \X (1 .. Cardinality(rows)) :
                 c[2] <= CapAttempts(Cardinality(By(rows, c[1])))})

EffectiveSuccesses(rows) ==
  Cardinality({c \in Voices \X (1 .. Cardinality(rows)) :
                 c[2] <= CapSuccesses(Cardinality(By(rows, c[1])),
                                      Cardinality(Worked(By(rows, c[1]))))})

StatOf(rows) ==
  [count |-> Cardinality(rows), reporters |-> Cardinality(Identified(rows))]

(* Faults: one cap for the whole bucket, and NULL counted as a reporter.   *)
RecoveryStatCappedOnce(rows) ==
  [attempts     |-> Cardinality(rows),
   successes    |-> Cardinality(Worked(rows)),
   effAttempts  |-> CapAttempts(Cardinality(rows)),
   effSuccesses |-> CapSuccesses(Cardinality(rows), Cardinality(Worked(rows))),
   reporters    |-> Cardinality(Identified(rows))]

RecoveryStatOf(rows) ==
  [attempts     |-> Cardinality(rows),
   successes    |-> Cardinality(Worked(rows)),
   effAttempts  |-> EffectiveAttempts(rows),
   effSuccesses |-> EffectiveSuccesses(rows),
   reporters    |-> Cardinality(Identified(rows))]

StatRows(k, rows, established) == {o \in rows : StatKeyOf(o, established) = k}
RecoveryRows(k, rows) == {o \in rows : RecoveryKeyOf(o) = k}

FoldObservations(rows, established) ==
  [k \in {StatKeyOf(o, established) : o \in rows} |->
     StatOf(StatRows(k, rows, established))]

FoldOutcomes(rows) ==
  [k \in {RecoveryKeyOf(o) : o \in rows} |-> RecoveryStatOf(RecoveryRows(k, rows))]

-----------------------------------------------------------------------------
(* Merging a fold into an archive.  `found` holds the archive rows that    *)
(* were read for the keys of the fold: such a row is overwritten with what *)
(* was read plus what was folded.  A key with no row found is inserted; if *)
(* another pruner inserted one meanwhile, there are two rows with the same *)
(* key, and every reader sums them.                                        *)

Larger(a, b) == IF a >= b THEN a ELSE b

TopUpStat(row, values) ==
  [count     |-> row.count + values.count,
   reporters |-> Larger(row.reporters, values.reporters)]

TopUpRecovery(row, values) ==
  [attempts     |-> row.attempts + values.attempts,
   successes    |-> row.successes + values.successes,
   effAttempts  |-> row.effAttempts + values.effAttempts,
   effSuccesses |-> row.effSuccesses + values.effSuccesses,
   reporters    |-> Larger(row.reporters, values.reporters)]

Lookup(archive, fold) == [k \in DOMAIN archive \cap DOMAIN fold |-> archive[k]]

Merge(archive, found, fold, TopUp(_, _)) ==
  [k \in DOMAIN archive \cup DOMAIN fold |->
     IF k \notin DOMAIN fold THEN archive[k]
     ELSE IF k \in DOMAIN found THEN TopUp(found[k], fold[k])
     ELSE IF k \in DOMAIN archive THEN TopUp(archive[k], fold[k])
     ELSE fold[k]]

-----------------------------------------------------------------------------
(* Requests.                                                               *)

NoFold == [k \in {} |-> 0]

IdlePruner ==
  [pc |-> "idle", dry |-> FALSE, cutoff |-> [hour |-> 0, minute |-> 0],
   stats |-> NoFold, statsFound |-> NoFold,
   recovery |-> NoFold, recoveryFound |-> NoFold]

Init ==
  /\ clock = [hour |-> 0, minute |-> 0]
  /\ observations = {}
  /\ outcomes = {}
  /\ privateRows = {}
  /\ hourlyStats = NoFold
  /\ hourlyRecovery = NoFold
  /\ pruner = [p \in Pruners |-> IdlePruner]
  /\ reportedObservations = {}
  /\ reportedOutcomes = {}
  /\ horizon = 0

(* Time passes, up to the last minute of MaxHour.                          *)
Tick ==
  /\ \/ /\ clock.minute + 1 < MinutesPerHour
        /\ clock' = [clock EXCEPT !.minute = @ + 1]
     \/ /\ clock.minute + 1 = MinutesPerHour
        /\ clock.hour < MaxHour
        /\ clock' = [hour |-> clock.hour + 1, minute |-> 0]
  /\ UNCHANGED <<observations, outcomes, privateRows, archives, pruner, history>>

RecordObservation ==
  /\ Cardinality(reportedObservations) < MaxObservations
  /\ \E s \in Subjects, v \in Voices, src \in Sources, id \in 0 .. MaxObservations - 1 :
       LET Row(n) == [id |-> n, hour |-> clock.hour, minute |-> clock.minute,
                      subject |-> s, reporter |-> v, source |-> src]
       IN  /\ Row(id) \notin reportedObservations
           /\ \A n \in 0 .. id - 1 : Row(n) \in reportedObservations
           /\ observations' = observations \cup {Row(id)}
           /\ reportedObservations' = reportedObservations \cup {Row(id)}
  /\ UNCHANGED <<clock, outcomes, privateRows, archives, pruner,
                 reportedOutcomes, horizon>>

RecordRecoveryOutcome ==
  /\ Cardinality(reportedOutcomes) < MaxOutcomes
  /\ \E f \in Fingerprints, a \in Actions, ok \in BOOLEAN, v \in Voices,
        src \in Sources, id \in 0 .. MaxOutcomes - 1 :
       LET Row(n) == [id |-> n, hour |-> clock.hour, minute |-> clock.minute,
                      fingerprint |-> f, action |-> a, successful |-> ok,
                      reporter |-> v, source |-> src]
       IN  /\ Row(id) \notin reportedOutcomes
           /\ \A n \in 0 .. id - 1 : Row(n) \in reportedOutcomes
           /\ outcomes' = outcomes \cup {Row(id)}
           /\ reportedOutcomes' = reportedOutcomes \cup {Row(id)}
  /\ UNCHANGED <<clock, observations, privateRows, archives, pruner,
                 reportedObservations, horizon>>

(* A team's row goes to the private tables and to nothing else.            *)
RecordPrivate ==
  /\ \E i \in 1 .. MaxPrivate :
       /\ \A r \in privateRows : r.id < i
       /\ privateRows' = privateRows \cup
            {[id |-> i, hour |-> clock.hour, minute |-> clock.minute]}
  /\ UNCHANGED <<clock, observations, outcomes, archives, pruner, history>>

-----------------------------------------------------------------------------
(* A pruning run: two reads, then one transaction.                         *)

Cutoff(hours) == [hour |-> clock.hour - hours, minute |-> 0]

PrivateCutoff == [hour |-> clock.hour - PrivateRetention, minute |-> clock.minute]

(* The cutoff is fixed, the established reporters are judged on the raw    *)
(* rows, and the expired observations are grouped.                         *)
ReadObservations(cutoff, dry) ==
  LET fold == FoldObservations(Expired(observations, cutoff),
                               EstablishedReporters(observations))
  IN  [pc |-> "outcomes", dry |-> dry, cutoff |-> cutoff,
       stats |-> fold, statsFound |-> Lookup(hourlyStats, fold),
       recovery |-> NoFold, recoveryFound |-> NoFold]

PruneObservations(p) ==
  /\ pruner[p].pc = "idle"
  /\ \E hours \in RetentionChoices, dry \in BOOLEAN :
       pruner' = [pruner EXCEPT ![p] = ReadObservations(Cutoff(hours), dry)]
  /\ UNCHANGED <<clock, observations, outcomes, privateRows, archives, history>>

(* The expired outcomes are grouped by reporter, capped and folded.        *)
ReadOutcomes(run) ==
  LET fold == FoldOutcomes(Expired(outcomes, run.cutoff))
  IN  [pc |-> "commit", dry |-> run.dry, cutoff |-> run.cutoff,
       stats |-> run.stats, statsFound |-> run.statsFound,
       recovery |-> fold, recoveryFound |-> Lookup(hourlyRecovery, fold)]

PruneOutcomes(p) ==
  /\ pruner[p].pc = "outcomes"
  /\ pruner' = [pruner EXCEPT ![p] = ReadOutcomes(pruner[p])]
  /\ UNCHANGED <<clock, observations, outcomes, privateRows, archives, history>>

(* The transaction: the expired rows are deleted and the folds written.    *)
PruneCommit(p) ==
  LET run == pruner[p] IN
  /\ run.pc = "commit"
  /\ ~run.dry
  /\ observations' = observations \ Expired(observations, run.cutoff)
  /\ outcomes' = outcomes \ Expired(outcomes, run.cutoff)
  /\ privateRows' = privateRows \ Expired(privateRows, PrivateCutoff)
  /\ hourlyStats' = Merge(hourlyStats, run.statsFound, run.stats, TopUpStat)
  /\ hourlyRecovery' = Merge(hourlyRecovery, run.recoveryFound, run.recovery, TopUpRecovery)
  /\ horizon' = Larger(horizon, run.cutoff.hour)
  /\ pruner' = [pruner EXCEPT ![p] = IdlePruner]
  /\ UNCHANGED <<clock, reportedObservations, reportedOutcomes>>

(* Fault: a dry run writes the archives.                                   *)
PruneRollbackFlushed(p) ==
  /\ pruner[p].pc = "commit"
  /\ pruner[p].dry
  /\ hourlyRecovery' = Merge(hourlyRecovery, pruner[p].recoveryFound,
                             pruner[p].recovery, TopUpRecovery)
  /\ pruner' = [pruner EXCEPT ![p] = IdlePruner]
  /\ UNCHANGED <<clock, observations, outcomes, privateRows, hourlyStats, history>>

(* A dry run ends in a rollback.                                           *)
PruneRollback(p) ==
  /\ pruner[p].pc = "commit"
  /\ pruner[p].dry
  /\ pruner' = [pruner EXCEPT ![p] = IdlePruner]
  /\ UNCHANGED <<clock, observations, outcomes, privateRows, archives, history>>

(* Fault: the deletions are a transaction of their own.                    *)
PruneCrashAfterDelete(p) ==
  /\ pruner[p].pc # "idle"
  /\ pruner[p].pc = "commit" =>
       outcomes' = outcomes \ Expired(outcomes, pruner[p].cutoff)
  /\ pruner[p].pc # "commit" => UNCHANGED outcomes
  /\ pruner' = [pruner EXCEPT ![p] = IdlePruner]
  /\ UNCHANGED <<clock, observations, privateRows, archives, history>>

(* The process is killed, or the database is locked: nothing was written.  *)
PruneCrash(p) ==
  /\ pruner[p].pc # "idle"
  /\ pruner' = [pruner EXCEPT ![p] = IdlePruner]
  /\ UNCHANGED <<clock, observations, outcomes, privateRows, archives, history>>

Next ==
  \/ Tick
  \/ RecordObservation
  \/ RecordRecoveryOutcome
  \/ RecordPrivate
  \/ \E p \in Pruners :
       \/ PruneObservations(p)
       \/ PruneOutcomes(p)
       \/ PruneCommit(p)
       \/ PruneRollback(p)
       \/ PruneCrash(p)

Spec == Init /\ [][Next]_vars

(* The timer starts a real run every hour for ever; a run that is started  *)
(* goes on, and is not killed every single time.                           *)
Fairness ==
  \A p \in Pruners : /\ SF_vars(PruneObservations(p) /\ ~pruner'[p].dry)
                     /\ SF_vars(PruneOutcomes(p) /\ ~pruner[p].dry)
                     /\ SF_vars(PruneCommit(p))
                     /\ WF_vars(PruneOutcomes(p) \/ PruneRollback(p))

FairSpec == Spec /\ Fairness

-----------------------------------------------------------------------------
(* Properties.                                                             *)

PartialFunction(f, K, V) ==
  /\ f = [k \in DOMAIN f |-> f[k]]
  /\ DOMAIN f \subseteq K
  /\ \A k \in DOMAIN f : f[k] \in V

PrunerOK(run) ==
  /\ run.pc \in {"idle", "outcomes", "commit"}
  /\ run.dry \in BOOLEAN
  /\ run.cutoff \in Time
  /\ PartialFunction(run.stats, StatKey, HourlyStat)
  /\ PartialFunction(run.statsFound, StatKey, HourlyStat)
  /\ PartialFunction(run.recovery, RecoveryKey, HourlyRecoveryStat)
  /\ PartialFunction(run.recoveryFound, RecoveryKey, HourlyRecoveryStat)

(* Type invariant: every table, archive and pruner holds well-formed data. *)
TypeOK ==
  /\ clock \in [hour : Hours, minute : Minutes]
  /\ observations \subseteq Observation
  /\ outcomes \subseteq Outcome
  /\ privateRows \subseteq PrivateRow
  /\ PartialFunction(hourlyStats, StatKey, HourlyStat)
  /\ PartialFunction(hourlyRecovery, RecoveryKey, HourlyRecoveryStat)
  /\ pruner = [p \in Pruners |-> pruner[p]]
  /\ \A p \in Pruners : PrunerOK(pruner[p])
  /\ reportedObservations \subseteq Observation
  /\ reportedOutcomes \subseteq Outcome
  /\ horizon \in Hours

(* Recovery evidence is neither lost nor counted twice nor weighed anew by *)
(* pruning: an hour bucket is wholly live, or wholly archived with exactly *)
(* the numbers all its reports fold to -- whatever requests, crashes and   *)
(* dry runs came between the pruner's reads and its commit.                *)
EvidenceConserved ==
  \A k \in RecoveryKey :
    LET all == RecoveryRows(k, reportedOutcomes)
        live == RecoveryRows(k, outcomes)
    IN  IF k \in DOMAIN hourlyRecovery
        THEN live = {} /\ all # {} /\ hourlyRecovery[k] = RecoveryStatOf(all)
        ELSE live = all

(* "Raw + aggregates" is a total: for every hour and subject the raw rows  *)
(* and the archive rows of every source add up to what was reported, and a *)
(* source other than `agent` keeps its own label.                          *)
Archived(h, s, sources) ==
  LET keys == {k \in DOMAIN hourlyStats :
                 k.hour = h /\ k.subject = s /\ k.source \in sources}
  IN  SumFunction([k \in keys |-> hourlyStats[k].count])

ObservationsConserved ==
  \A h \in Hours, s \in Subjects, src \in Sources :
    LET Here(rows) == {o \in rows : o.hour = h /\ o.subject = s /\ o.source = src}
        labels == IF src = "agent" THEN {"agent", "agent_sparse"} ELSE {src}
    IN  Cardinality(Here(observations)) + Archived(h, s, labels)
          = Cardinality(Here(reportedObservations))

(* One reporter's evidence for one action in one hour never outruns the    *)
(* cap, live and archived parts added together: "six at 03:10 and six at   *)
(* 03:40" are five before the prune and five after it.                     *)
CapNeverOutrun ==
  \A k \in RecoveryKey :
    LET archived == IF k \in DOMAIN hourlyRecovery
                    THEN hourlyRecovery[k].effAttempts ELSE 0
        voices == {o.reporter : o \in RecoveryRows(k, reportedOutcomes)}
    IN  archived + EffectiveAttempts(RecoveryRows(k, outcomes))
          <= Cap * Cardinality(voices)

(* The live windows read raw rows only, and pruning can never change them: *)
(* every row younger than the shortest retention is still raw.             *)
Age(row) == (clock.hour * MinutesPerHour + clock.minute) - Instant(row)

Young(row) ==
  \A hours \in RetentionChoices : Age(row) <= hours * MinutesPerHour

LiveWindowIntact ==
  /\ \A o \in reportedObservations : Young(o) => o \in observations
  /\ \A o \in reportedOutcomes : Young(o) => o \in outcomes

(* The `agent` label of an archived hour is earned: it counts no more rows *)
(* than were reported by identified reporters that, over everything they   *)
(* ever reported, meet the adoption threshold.                             *)
AdoptionEarned ==
  \A h \in Hours, s \in Subjects :
    Archived(h, s, {"agent"}) <=
      Cardinality({o \in reportedObservations :
                     /\ o.hour = h /\ o.subject = s /\ o.source = "agent"
                     /\ o.reporter \in EstablishedReporters(reportedObservations)})

(* The archive of observations says of an hour what its rows said: how     *)
(* many there were, and which of them were adopted.                        *)
ArchiveEarned == ObservationsConserved /\ AdoptionEarned

(* The lifetime numbers a query answers with, raw rows and archive rows    *)
(* added, only ever grow by one report at a time.                          *)
LifetimeEvidence(f, a) ==
  LET live == {o \in outcomes : o.fingerprint = f /\ o.action = a}
      old == {k \in DOMAIN hourlyRecovery : k.fingerprint = f /\ k.action = a}
  IN  [attempts  |-> Cardinality(live)
                       + SumFunction([k \in old |-> hourlyRecovery[k].attempts]),
       successes |-> Cardinality(Worked(live))
                       + SumFunction([k \in old |-> hourlyRecovery[k].successes])]

LifetimeCount(s) ==
  LET old == {k \in DOMAIN hourlyStats : k.subject = s}
  IN  Cardinality({o \in observations : o.subject = s})
        + SumFunction([k \in old |-> hourlyStats[k].count])

Ledger == INSTANCE EvidenceLedger WITH
  evidence <- [f \in Fingerprints |-> [a \in Actions |-> LifetimeEvidence(f, a)]],
  seen <- [s \in Subjects |-> LifetimeCount(s)]

ImplementsLedger == Ledger!Spec

(* Every expired row is eventually folded away: no sequence of crashes and *)
(* dry runs leaves an old row raw for ever.                                *)
Stale(row) == \A hours \in RetentionChoices : Before(row, Cutoff(hours))

StaleRowsFolded ==
  (\E o \in outcomes \cup observations : Stale(o))
    ~> (\A o \in outcomes \cup observations : ~Stale(o))

-----------------------------------------------------------------------------
(* The inductive invariant behind the theorems of RetentionProofs, for one *)
(* pruner: the tables are exactly what the history and the horizon say,    *)
(* and what a pruner holds in memory is still true of them.                *)

OnePruner == \A p, q \in Pruners : p = q

FromHorizon(rows) == {o \in rows : o.hour >= horizon}
BelowHorizon(rows) == {o \in rows : o.hour < horizon}

TablesFollowHorizon ==
  /\ IsFiniteSet(reportedObservations)
  /\ IsFiniteSet(reportedOutcomes)
  /\ observations = FromHorizon(reportedObservations)
  /\ outcomes = FromHorizon(reportedOutcomes)
  /\ hourlyRecovery = FoldOutcomes(BelowHorizon(reportedOutcomes))

HorizonIsOld ==
  horizon = 0 \/ \E hours \in RetentionChoices : horizon <= clock.hour - hours

PrunersAreCurrent ==
  \A p \in Pruners : LET run == pruner[p] IN
    run.pc # "idle" =>
      /\ run.cutoff.minute = 0
      /\ \E hours \in RetentionChoices : run.cutoff.hour <= clock.hour - hours
      /\ run.pc = "commit" =>
           /\ run.recovery = FoldOutcomes(Expired(outcomes, run.cutoff))
           /\ DOMAIN run.recoveryFound = {}

(* What the proofs carry from step to step; TLC checks it too.             *)
IInv == TypeOK /\ TablesFollowHorizon /\ HorizonIsOld /\ PrunersAreCurrent

(* The archive of observations is a fold as well, but every hour was       *)
(* labelled by the reporters that were established when it was archived:   *)
(* some of those that are established by everything reported until now.    *)
Label(o, judged) == StatKeyOf(o, judged[o.hour])

FoldJudged(rows, judged) ==
  [k \in {Label(o, judged) : o \in rows} |->
     StatOf({o \in rows : Label(o, judged) = k})]

StatsFollowHorizon ==
  \E judged \in [Hours -> SUBSET EstablishedReporters(reportedObservations)] :
    hourlyStats = FoldJudged(BelowHorizon(reportedObservations), judged)

FoldsAreCurrent ==
  \A p \in Pruners : LET run == pruner[p] IN
    run.pc # "idle" =>
      /\ DOMAIN run.statsFound = {}
      /\ \E established \in SUBSET EstablishedReporters(reportedObservations) :
           run.stats = FoldObservations(Expired(observations, run.cutoff), established)

StatsInv == StatsFollowHorizon /\ FoldsAreCurrent

=============================================================================
