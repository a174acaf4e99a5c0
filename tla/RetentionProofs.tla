-------------------------- MODULE RetentionProofs --------------------------
(***************************************************************************)
(* The evidence, for every value of the constants: Retention and its       *)
(* readers, and what Recommendation makes of what is kept.                 *)
(*                                                                         *)
(* Those theorems about Retention that need it assume that one pruner runs *)
(* at a time.  About Recommendation the invariant says of every record     *)
(* kept that what it counts capped is everything, or a reporter's full     *)
(* hour at least; that is why attempts above the explorers' floor, which   *)
(* they count uncapped, are above the network's.                           *)
(***************************************************************************)
EXTENDS EvidenceReads, Recommendation, Sums

-----------------------------------------------------------------------------
(* Folds are well typed.                                                   *)

LEMMA VoicesFinite == IsFiniteSet(Voices)
  BY EvidenceAssumption, FS_AddElement DEF Voices

LEMMA IdentifiedFinite ==
  ASSUME NEW rows, \A r \in rows : r.reporter \in Voices
  PROVE  Cardinality(Identified(rows)) \in Nat
  <1>1. Identified(rows) \in SUBSET Voices
    BY DEF Identified
  <1>2. IsFiniteSet(Identified(rows))
    BY <1>1, VoicesFinite, FS_Subset
  <1> QED
    BY <1>2, FS_CardinalityType

LEMMA EffectiveFinite ==
  ASSUME NEW rows, IsFiniteSet(rows)
  PROVE  /\ EffectiveAttempts(rows) \in Nat
         /\ EffectiveSuccesses(rows) \in Nat
  <1> DEFINE Pairs == Voices \X (1 .. Cardinality(rows))
  <1>1. Cardinality(rows) \in Nat
    BY FS_CardinalityType
  <1>2. IsFiniteSet(1 .. Cardinality(rows))
    BY <1>1, FS_Interval
  <1>3. IsFiniteSet(Pairs)
    BY <1>2, VoicesFinite, FS_Product
  <1>4. \A T \in SUBSET Pairs : Cardinality(T) \in Nat
    BY <1>3, FS_Subset, FS_CardinalityType
  <1> QED
    BY <1>4 DEF EffectiveAttempts, EffectiveSuccesses

LEMMA StatType ==
  ASSUME NEW rows, IsFiniteSet(rows), \A r \in rows : r.reporter \in Voices
  PROVE  StatOf(rows) \in HourlyStat
  BY IdentifiedFinite, FS_CardinalityType DEF StatOf, HourlyStat

LEMMA RecoveryStatType ==
  ASSUME NEW rows, IsFiniteSet(rows), \A r \in rows : r.reporter \in Voices
  PROVE  RecoveryStatOf(rows) \in HourlyRecoveryStat
  <1>1. Worked(rows) \in SUBSET rows
    BY DEF Worked
  <1>2. Cardinality(Worked(rows)) \in Nat
    BY <1>1, FS_Subset, FS_CardinalityType
  <1> QED
    BY <1>2, IdentifiedFinite, EffectiveFinite, FS_CardinalityType
    DEF RecoveryStatOf, HourlyRecoveryStat

LEMMA FoldObservationsType ==
  ASSUME NEW rows, rows \subseteq Observation, IsFiniteSet(rows), NEW established
  PROVE  PartialFunction(FoldObservations(rows, established), StatKey, HourlyStat)
  <1>1. \A o \in rows : StatKeyOf(o, established) \in StatKey
    BY DEF StatKeyOf, StatKey, ArchiveSource, ArchiveSources, Observation
  <1>2. ASSUME NEW k PROVE StatOf(StatRows(k, rows, established)) \in HourlyStat
    <2>1. StatRows(k, rows, established) \in SUBSET rows
      BY DEF StatRows
    <2>2. IsFiniteSet(StatRows(k, rows, established))
      BY <2>1, FS_Subset
    <2> QED
      BY <2>1, <2>2, StatType DEF Observation
  <1> QED
    BY <1>1, <1>2 DEF FoldObservations, PartialFunction

LEMMA FoldOutcomesType ==
  ASSUME NEW rows, rows \subseteq Outcome, IsFiniteSet(rows)
  PROVE  PartialFunction(FoldOutcomes(rows), RecoveryKey, HourlyRecoveryStat)
  <1>1. \A o \in rows : RecoveryKeyOf(o) \in RecoveryKey
    BY DEF RecoveryKeyOf, RecoveryKey, Outcome
  <1>2. ASSUME NEW k PROVE RecoveryStatOf(RecoveryRows(k, rows)) \in HourlyRecoveryStat
    <2>1. RecoveryRows(k, rows) \in SUBSET rows
      BY DEF RecoveryRows
    <2>2. IsFiniteSet(RecoveryRows(k, rows))
      BY <2>1, FS_Subset
    <2> QED
      BY <2>1, <2>2, RecoveryStatType DEF Outcome
  <1> QED
    BY <1>1, <1>2 DEF FoldOutcomes, PartialFunction

LEMMA LookupType ==
  ASSUME NEW archive, NEW fold, NEW K, NEW V, PartialFunction(archive, K, V)
  PROVE  PartialFunction(Lookup(archive, fold), K, V)
  BY DEF Lookup, PartialFunction

LEMMA MergeStatsType ==
  ASSUME NEW archive, PartialFunction(archive, StatKey, HourlyStat),
         NEW found, PartialFunction(found, StatKey, HourlyStat),
         NEW fold, PartialFunction(fold, StatKey, HourlyStat)
  PROVE  PartialFunction(Merge(archive, found, fold, TopUpStat), StatKey, HourlyStat)
  <1>1. \A row, values \in HourlyStat : TopUpStat(row, values) \in HourlyStat
    BY DEF TopUpStat, HourlyStat, Larger
  <1> QED
    BY <1>1 DEF Merge, PartialFunction

LEMMA MergeRecoveryType ==
  ASSUME NEW archive, PartialFunction(archive, RecoveryKey, HourlyRecoveryStat),
         NEW found, PartialFunction(found, RecoveryKey, HourlyRecoveryStat),
         NEW fold, PartialFunction(fold, RecoveryKey, HourlyRecoveryStat)
  PROVE  PartialFunction(Merge(archive, found, fold, TopUpRecovery),
                         RecoveryKey, HourlyRecoveryStat)
  <1>1. \A row, values \in HourlyRecoveryStat :
          TopUpRecovery(row, values) \in HourlyRecoveryStat
    BY DEF TopUpRecovery, HourlyRecoveryStat, Larger
  <1> QED
    BY <1>1 DEF Merge, PartialFunction

LEMMA NoFoldType ==
  ASSUME NEW K, NEW V
  PROVE  PartialFunction(NoFold, K, V) /\ DOMAIN NoFold = {}
  BY DEF NoFold, PartialFunction

LEMMA IdlePrunerOK == PrunerOK(IdlePruner)
  BY NoFoldType, TimeAssumption DEF PrunerOK, IdlePruner, Time, Minutes

-----------------------------------------------------------------------------
(* Type correctness, for any number of pruners.                            *)

FiniteTables == IsFiniteSet(observations) /\ IsFiniteSet(outcomes)

PrunersOK ==
  /\ pruner = [p \in Pruners |-> pruner[p]]
  /\ \A p \in Pruners : PrunerOK(pruner[p])

LEMMA ExpiredSubset ==
  ASSUME NEW rows, NEW t
  PROVE  Expired(rows, t) \in SUBSET rows
  BY DEF Expired

LEMMA CutoffType ==
  ASSUME clock \in [hour : Hours, minute : Minutes], NEW hours \in RetentionChoices
  PROVE  Cutoff(hours) \in Time
  BY TimeAssumption DEF Cutoff, Time, Hours, Minutes

LEMMA TickType == TypeOK /\ FiniteTables /\ Tick => (TypeOK /\ FiniteTables)'
  <1> SUFFICES ASSUME TypeOK, FiniteTables, Tick PROVE (TypeOK /\ FiniteTables)'
    OBVIOUS
  <1>1. clock' \in [hour : Hours, minute : Minutes]
    BY TimeAssumption DEF TypeOK, Tick, Hours, Minutes
  <1> QED
    BY <1>1 DEF TypeOK, FiniteTables, Tick, archives, history

LEMMA RecordObservationType ==
  TypeOK /\ FiniteTables /\ RecordObservation => (TypeOK /\ FiniteTables)'
  <1> SUFFICES ASSUME TypeOK, FiniteTables, RecordObservation
               PROVE  (TypeOK /\ FiniteTables)'
    OBVIOUS
  <1>1. PICK row \in Observation :
          /\ observations' = observations \cup {row}
          /\ reportedObservations' = reportedObservations \cup {row}
    BY BoundAssumption DEF RecordObservation, TypeOK, Observation
  <1>2. IsFiniteSet(observations')
    BY <1>1, FS_AddElement DEF FiniteTables
  <1> QED
    BY <1>1, <1>2 DEF TypeOK, FiniteTables, RecordObservation, archives, history

LEMMA RecordRecoveryOutcomeType ==
  TypeOK /\ FiniteTables /\ RecordRecoveryOutcome => (TypeOK /\ FiniteTables)'
  <1> SUFFICES ASSUME TypeOK, FiniteTables, RecordRecoveryOutcome
               PROVE  (TypeOK /\ FiniteTables)'
    OBVIOUS
  <1>1. PICK row \in Outcome :
          /\ outcomes' = outcomes \cup {row}
          /\ reportedOutcomes' = reportedOutcomes \cup {row}
    BY BoundAssumption DEF RecordRecoveryOutcome, TypeOK, Outcome
  <1>2. IsFiniteSet(outcomes')
    BY <1>1, FS_AddElement DEF FiniteTables
  <1> QED
    BY <1>1, <1>2 DEF TypeOK, FiniteTables, RecordRecoveryOutcome, archives, history

LEMMA RecordPrivateType ==
  TypeOK /\ FiniteTables /\ RecordPrivate => (TypeOK /\ FiniteTables)'
  <1> SUFFICES ASSUME TypeOK, FiniteTables, RecordPrivate
               PROVE  (TypeOK /\ FiniteTables)'
    OBVIOUS
  <1>1. privateRows' \subseteq PrivateRow
    BY BoundAssumption DEF RecordPrivate, TypeOK, PrivateRow
  <1> QED
    BY <1>1 DEF TypeOK, FiniteTables, RecordPrivate, archives, history

LEMMA PruneObservationsType ==
  ASSUME TypeOK, FiniteTables, NEW p \in Pruners, PruneObservations(p)
  PROVE  (TypeOK /\ FiniteTables)'
  <1>1. PICK hours \in RetentionChoices, dry \in BOOLEAN :
          pruner' = [pruner EXCEPT ![p] = ReadObservations(Cutoff(hours), dry)]
    BY DEF PruneObservations
  <1> DEFINE fold == FoldObservations(Expired(observations, Cutoff(hours)),
                                      EstablishedReporters(observations))
  <1>2. IsFiniteSet(Expired(observations, Cutoff(hours)))
    BY ExpiredSubset, FS_Subset DEF FiniteTables
  <1>3. PartialFunction(fold, StatKey, HourlyStat)
    BY <1>2, ExpiredSubset, FoldObservationsType DEF TypeOK
  <1>4. PartialFunction(Lookup(hourlyStats, fold), StatKey, HourlyStat)
    BY LookupType DEF TypeOK
  <1>5. Cutoff(hours) \in Time
    BY CutoffType DEF TypeOK
  <1>6. PrunerOK(ReadObservations(Cutoff(hours), dry))
    BY <1>3, <1>4, <1>5, NoFoldType DEF PrunerOK, ReadObservations
  <1>7. PrunersOK'
    BY <1>1, <1>6 DEF TypeOK, PrunersOK
  <1> QED
    BY <1>7 DEF TypeOK, PrunersOK, FiniteTables, PruneObservations, archives, history

LEMMA PruneOutcomesType ==
  ASSUME TypeOK, FiniteTables, NEW p \in Pruners, PruneOutcomes(p)
  PROVE  (TypeOK /\ FiniteTables)'
  <1> DEFINE fold == FoldOutcomes(Expired(outcomes, pruner[p].cutoff))
  <1>1. IsFiniteSet(Expired(outcomes, pruner[p].cutoff))
    BY ExpiredSubset, FS_Subset DEF FiniteTables
  <1>2. PartialFunction(fold, RecoveryKey, HourlyRecoveryStat)
    BY <1>1, ExpiredSubset, FoldOutcomesType DEF TypeOK
  <1>3. PartialFunction(Lookup(hourlyRecovery, fold), RecoveryKey, HourlyRecoveryStat)
    BY LookupType DEF TypeOK
  <1>4. PrunerOK(ReadOutcomes(pruner[p]))
    BY <1>2, <1>3 DEF TypeOK, PrunerOK, ReadOutcomes
  <1>5. PrunersOK'
    BY <1>4 DEF TypeOK, PrunersOK, PruneOutcomes
  <1> QED
    BY <1>5 DEF TypeOK, PrunersOK, FiniteTables, PruneOutcomes, archives, history

LEMMA PruneCommitType ==
  ASSUME TypeOK, FiniteTables, NEW p \in Pruners, PruneCommit(p)
  PROVE  (TypeOK /\ FiniteTables)'
  <1>1. PartialFunction(hourlyStats', StatKey, HourlyStat)
    BY MergeStatsType DEF TypeOK, PrunerOK, PruneCommit
  <1>2. PartialFunction(hourlyRecovery', RecoveryKey, HourlyRecoveryStat)
    BY MergeRecoveryType DEF TypeOK, PrunerOK, PruneCommit
  <1>3. /\ observations' \in SUBSET observations
        /\ outcomes' \in SUBSET outcomes
        /\ privateRows' \in SUBSET privateRows
    BY DEF PruneCommit
  <1>4. FiniteTables'
    BY <1>3, FS_Subset DEF FiniteTables
  <1>5. PrunersOK'
    BY IdlePrunerOK DEF TypeOK, PrunersOK, PruneCommit
  <1>6. horizon' \in Hours
    <2>1. pruner[p].cutoff.hour \in Int /\ pruner[p].cutoff.hour <= MaxHour
      BY DEF TypeOK, PrunerOK, Time, Hours, PruneCommit
    <2> QED
      BY <2>1, TimeAssumption DEF TypeOK, Hours, Larger, PruneCommit
  <1> QED
    BY <1>1, <1>2, <1>3, <1>4, <1>5, <1>6
    DEF TypeOK, PrunersOK, PruneCommit

LEMMA PrunerStopsType ==
  ASSUME TypeOK, FiniteTables, NEW p \in Pruners, PruneRollback(p) \/ PruneCrash(p)
  PROVE  (TypeOK /\ FiniteTables)'
  <1>1. PrunersOK'
    BY IdlePrunerOK DEF TypeOK, PrunersOK, PruneRollback, PruneCrash
  <1> QED
    BY <1>1 DEF TypeOK, PrunersOK, FiniteTables, PruneRollback, PruneCrash,
                archives, history

LEMMA InitType == Init => TypeOK /\ FiniteTables
  <1> SUFFICES ASSUME Init PROVE TypeOK /\ FiniteTables
    OBVIOUS
  <1>1. FiniteTables
    BY FS_EmptySet DEF Init, FiniteTables
  <1>2. clock \in [hour : Hours, minute : Minutes] /\ horizon \in Hours
    BY TimeAssumption DEF Init, Hours, Minutes
  <1>3. PartialFunction(hourlyStats, StatKey, HourlyStat)
    BY NoFoldType DEF Init
  <1>4. PartialFunction(hourlyRecovery, RecoveryKey, HourlyRecoveryStat)
    BY NoFoldType DEF Init
  <1>5. PrunersOK
    BY IdlePrunerOK DEF Init, PrunersOK
  <1> QED
    BY <1>1, <1>2, <1>3, <1>4, <1>5 DEF Init, TypeOK, PrunersOK

(* Every table, archive and pruner holds well-formed data, whatever number *)
(* of pruners run at the same time.                                        *)
THEOREM TypeCorrect == Spec => []TypeOK
  <1>1. TypeOK /\ FiniteTables /\ [Next]_vars => (TypeOK /\ FiniteTables)'
    <2> SUFFICES ASSUME TypeOK, FiniteTables, [Next]_vars
                 PROVE  (TypeOK /\ FiniteTables)'
      OBVIOUS
    <2>1. CASE Tick
      BY <2>1, TickType
    <2>2. CASE RecordObservation
      BY <2>2, RecordObservationType
    <2>3. CASE RecordRecoveryOutcome
      BY <2>3, RecordRecoveryOutcomeType
    <2>4. CASE RecordPrivate
      BY <2>4, RecordPrivateType
    <2>5. ASSUME NEW p \in Pruners, PruneObservations(p)
          PROVE  (TypeOK /\ FiniteTables)'
      BY <2>5, PruneObservationsType
    <2>6. ASSUME NEW p \in Pruners, PruneOutcomes(p)
          PROVE  (TypeOK /\ FiniteTables)'
      BY <2>6, PruneOutcomesType
    <2>7. ASSUME NEW p \in Pruners, PruneCommit(p)
          PROVE  (TypeOK /\ FiniteTables)'
      BY <2>7, PruneCommitType
    <2>8. ASSUME NEW p \in Pruners, PruneRollback(p) \/ PruneCrash(p)
          PROVE  (TypeOK /\ FiniteTables)'
      BY <2>8, PrunerStopsType
    <2>9. CASE UNCHANGED vars
      BY <2>9 DEF vars, archives, history, TypeOK, FiniteTables
    <2> QED
      BY <2>1, <2>2, <2>3, <2>4, <2>5, <2>6, <2>7, <2>8, <2>9 DEF Next
  <1> QED
    BY InitType, <1>1, PTL DEF Spec

-----------------------------------------------------------------------------
(* Folds of disjoint hours.                                                *)

LEMMA FoldUnion ==
  ASSUME NEW A, NEW B, \A a \in A, b \in B : RecoveryKeyOf(a) # RecoveryKeyOf(b),
         NEW found, DOMAIN found = {}
  PROVE  Merge(FoldOutcomes(A), found, FoldOutcomes(B), TopUpRecovery)
           = FoldOutcomes(A \cup B)
  <1> DEFINE KA == {RecoveryKeyOf(o) : o \in A}
             KB == {RecoveryKeyOf(o) : o \in B}
  <1>1. /\ DOMAIN FoldOutcomes(A) = KA
        /\ DOMAIN FoldOutcomes(B) = KB
    BY DEF FoldOutcomes
  <1>2. KA \cup KB = {RecoveryKeyOf(o) : o \in A \cup B}
    OBVIOUS
  <1>3. ASSUME NEW k \in KA
        PROVE  /\ k \notin KB
               /\ FoldOutcomes(A)[k] = RecoveryStatOf(RecoveryRows(k, A \cup B))
    <2>1. RecoveryRows(k, A \cup B) = RecoveryRows(k, A)
      BY DEF RecoveryRows
    <2> QED
      BY <2>1 DEF FoldOutcomes
  <1>4. ASSUME NEW k \in KB
        PROVE  /\ k \notin KA
               /\ FoldOutcomes(B)[k] = RecoveryStatOf(RecoveryRows(k, A \cup B))
    <2>1. RecoveryRows(k, A \cup B) = RecoveryRows(k, B)
      BY DEF RecoveryRows
    <2> QED
      BY <2>1 DEF FoldOutcomes
  <1>5. FoldOutcomes(A \cup B)
          = [k \in KA \cup KB |-> RecoveryStatOf(RecoveryRows(k, A \cup B))]
    BY <1>2 DEF FoldOutcomes
  <1>6. Merge(FoldOutcomes(A), found, FoldOutcomes(B), TopUpRecovery)
          = [k \in KA \cup KB |-> IF k \notin KB THEN FoldOutcomes(A)[k]
                                  ELSE FoldOutcomes(B)[k]]
    <2>1. Merge(FoldOutcomes(A), found, FoldOutcomes(B), TopUpRecovery)
            = [k \in KA \cup KB |->
                 IF k \notin KB THEN FoldOutcomes(A)[k]
                 ELSE IF k \in DOMAIN found
                      THEN TopUpRecovery(found[k], FoldOutcomes(B)[k])
                 ELSE IF k \in KA
                      THEN TopUpRecovery(FoldOutcomes(A)[k], FoldOutcomes(B)[k])
                 ELSE FoldOutcomes(B)[k]]
      BY <1>1 DEF Merge
    <2> HIDE DEF KA, KB
    <2> QED
      BY <2>1, <1>4
  <1> HIDE DEF KA, KB
  <1> QED
    BY <1>3, <1>4, <1>5, <1>6

LEMMA NothingFound ==
  ASSUME NEW A, NEW B, \A a \in A, b \in B : RecoveryKeyOf(a) # RecoveryKeyOf(b)
  PROVE  DOMAIN Lookup(FoldOutcomes(A), FoldOutcomes(B)) = {}
  BY DEF Lookup, FoldOutcomes

(* A cutoff on the hour never cuts an hour in two.                         *)
LEMMA WholeHours ==
  ASSUME NEW t \in Time, t.minute = 0, NEW row,
         row.hour \in Hours, row.minute \in Minutes
  PROVE  Before(row, t) <=> row.hour < t.hour
  BY TimeAssumption DEF Before, Time, Hours, Minutes

-----------------------------------------------------------------------------
(* With one pruner, the tables are what the history and the horizon say.   *)

LEMMA TablesFinite == IInv => FiniteTables
  <1> SUFFICES ASSUME IInv PROVE FiniteTables
    OBVIOUS
  <1>1. /\ observations \in SUBSET reportedObservations
        /\ outcomes \in SUBSET reportedOutcomes
    BY DEF IInv, TablesFollowHorizon, FromHorizon
  <1> QED
    BY <1>1, FS_Subset DEF IInv, TablesFollowHorizon, FiniteTables

LEMMA HorizonPassed ==
  ASSUME IInv
  PROVE  /\ horizon <= clock.hour
         /\ \A p \in Pruners : pruner[p].pc # "idle" => pruner[p].cutoff.hour <= clock.hour
  BY TimeAssumption
  DEF IInv, TypeOK, PrunerOK, Time, Hours, Minutes, HorizonIsOld, PrunersAreCurrent

(* A row that is being reported is newer than every cutoff in use.         *)
LEMMA NewRowIsYoung ==
  ASSUME IInv, NEW row, row.hour = clock.hour, row.minute = clock.minute
  PROVE  /\ row.hour >= horizon
         /\ ~(row.hour < horizon)
         /\ \A p \in Pruners :
              pruner[p].pc # "idle" => ~Before(row, pruner[p].cutoff)
  <1>1. /\ row.hour \in Hours
        /\ row.minute \in Minutes
    BY DEF IInv, TypeOK
  <1>2. row.hour >= horizon /\ ~(row.hour < horizon)
    BY <1>1, HorizonPassed DEF IInv, TypeOK, Hours
  <1>3. ASSUME NEW p \in Pruners, pruner[p].pc # "idle"
        PROVE  ~Before(row, pruner[p].cutoff)
    <2>1. /\ pruner[p].cutoff \in Time
          /\ pruner[p].cutoff.minute = 0
      BY <1>3 DEF IInv, TypeOK, PrunerOK, PrunersAreCurrent
    <2>2. pruner[p].cutoff.hour <= clock.hour
      BY <1>3, HorizonPassed
    <2> QED
      BY <1>1, <2>1, <2>2, WholeHours DEF Hours, Time
  <1> QED
    BY <1>2, <1>3

LEMMA InitInv == Init => TablesFollowHorizon /\ HorizonIsOld /\ PrunersAreCurrent
  <1> SUFFICES ASSUME Init
               PROVE  TablesFollowHorizon /\ HorizonIsOld /\ PrunersAreCurrent
    OBVIOUS
  <1>1. FoldOutcomes(BelowHorizon(reportedOutcomes)) = NoFold
    BY DEF Init, FoldOutcomes, BelowHorizon, NoFold
  <1>2. TablesFollowHorizon
    BY <1>1, FS_EmptySet DEF Init, TablesFollowHorizon, FromHorizon
  <1>3. HorizonIsOld /\ PrunersAreCurrent
    BY DEF Init, HorizonIsOld, PrunersAreCurrent, IdlePruner
  <1> QED
    BY <1>2, <1>3

LEMMA TickInv == IInv /\ Tick => IInv'
  <1> SUFFICES ASSUME IInv, Tick PROVE IInv'
    OBVIOUS
  <1>1. TypeOK'
    BY TablesFinite, TickType DEF IInv
  <1>2. TablesFollowHorizon'
    BY DEF IInv, TablesFollowHorizon, FromHorizon, BelowHorizon, Tick, archives, history
  <1>3. clock'.hour >= clock.hour /\ clock.hour \in Int /\ clock'.hour \in Int
    BY DEF IInv, TypeOK, Tick, Hours
  <1>4. \A c \in Int, hours \in RetentionChoices :
          c <= clock.hour - hours => c <= clock'.hour - hours
    BY <1>3, TimeAssumption
  <1>5. HorizonIsOld'
    BY <1>4 DEF IInv, TypeOK, Hours, HorizonIsOld, Tick, history
  <1>6. PrunersAreCurrent'
    BY <1>4 DEF IInv, TypeOK, PrunerOK, Time, PrunersAreCurrent, Tick
  <1> QED
    BY <1>1, <1>2, <1>5, <1>6 DEF IInv

LEMMA RecordObservationInv == IInv /\ RecordObservation => IInv'
  <1> SUFFICES ASSUME IInv, RecordObservation PROVE IInv'
    OBVIOUS
  <1>1. TypeOK'
    BY TablesFinite, RecordObservationType DEF IInv
  <1>2. PICK row :
          /\ row.hour = clock.hour
          /\ row.minute = clock.minute
          /\ observations' = observations \cup {row}
          /\ reportedObservations' = reportedObservations \cup {row}
    BY DEF RecordObservation
  <1>3. row.hour >= horizon
    BY <1>2, NewRowIsYoung
  <1>4. UNCHANGED <<clock, outcomes, hourlyRecovery, pruner, reportedOutcomes, horizon>>
    BY DEF RecordObservation, archives, history
  <1>5. TablesFollowHorizon'
    BY <1>2, <1>3, <1>4, FS_AddElement
    DEF IInv, TablesFollowHorizon, FromHorizon, BelowHorizon
  <1> QED
    BY <1>1, <1>4, <1>5 DEF IInv, HorizonIsOld, PrunersAreCurrent

LEMMA RecordRecoveryOutcomeInv == IInv /\ RecordRecoveryOutcome => IInv'
  <1> SUFFICES ASSUME IInv, RecordRecoveryOutcome PROVE IInv'
    OBVIOUS
  <1>1. TypeOK'
    BY TablesFinite, RecordRecoveryOutcomeType DEF IInv
  <1>2. PICK row :
          /\ row.hour = clock.hour
          /\ row.minute = clock.minute
          /\ outcomes' = outcomes \cup {row}
          /\ reportedOutcomes' = reportedOutcomes \cup {row}
    BY DEF RecordRecoveryOutcome
  <1>3. /\ row.hour >= horizon
        /\ ~(row.hour < horizon)
        /\ \A p \in Pruners :
             pruner[p].pc # "idle" => ~Before(row, pruner[p].cutoff)
    BY <1>2, NewRowIsYoung
  <1>4. UNCHANGED <<clock, observations, hourlyRecovery, pruner,
                    reportedObservations, horizon>>
    BY DEF RecordRecoveryOutcome, archives, history
  <1>5. TablesFollowHorizon'
    <2>1. BelowHorizon(reportedOutcomes)' = BelowHorizon(reportedOutcomes)
      BY <1>2, <1>3, <1>4 DEF BelowHorizon
    <2>2. FromHorizon(reportedOutcomes)' = FromHorizon(reportedOutcomes) \cup {row}
      BY <1>2, <1>3, <1>4 DEF FromHorizon
    <2>3. FromHorizon(reportedObservations)' = FromHorizon(reportedObservations)
      BY <1>4 DEF FromHorizon
    <2>4. IsFiniteSet(reportedOutcomes')
      BY <1>2, FS_AddElement DEF IInv, TablesFollowHorizon
    <2> QED
      BY <1>2, <1>4, <2>1, <2>2, <2>3, <2>4
      DEF IInv, TablesFollowHorizon, FoldOutcomes
  <1>6. PrunersAreCurrent'
    <2>1. ASSUME NEW p \in Pruners, pruner[p].pc # "idle"
          PROVE  Expired(outcomes', pruner[p].cutoff) = Expired(outcomes, pruner[p].cutoff)
      BY <1>2, <1>3, <2>1 DEF Expired
    <2> QED
      BY <1>4, <2>1 DEF IInv, PrunersAreCurrent
  <1> QED
    BY <1>1, <1>4, <1>5, <1>6 DEF IInv, HorizonIsOld

LEMMA RecordPrivateInv == IInv /\ RecordPrivate => IInv'
  <1> SUFFICES ASSUME IInv, RecordPrivate PROVE IInv'
    OBVIOUS
  <1>1. TypeOK'
    BY TablesFinite, RecordPrivateType DEF IInv
  <1> QED
    BY <1>1 DEF IInv, RecordPrivate, archives, history, TablesFollowHorizon,
                FromHorizon, BelowHorizon, HorizonIsOld, PrunersAreCurrent

LEMMA PruneObservationsInv ==
  ASSUME IInv, NEW p \in Pruners, PruneObservations(p)
  PROVE  IInv'
  <1>1. TypeOK'
    BY TablesFinite, PruneObservationsType DEF IInv
  <1>2. UNCHANGED <<clock, observations, outcomes, hourlyRecovery,
                    reportedObservations, reportedOutcomes, horizon>>
    BY DEF PruneObservations, archives, history
  <1>3. /\ pruner'[p].pc = "outcomes"
        /\ \E hours \in RetentionChoices : pruner'[p].cutoff = Cutoff(hours)
        /\ \A q \in Pruners : q # p => pruner'[q] = pruner[q]
    BY DEF PruneObservations, ReadObservations, IInv, TypeOK
  <1>4. PrunersAreCurrent'
    <2> SUFFICES ASSUME NEW q \in Pruners, q = p,
                        NEW hours \in RetentionChoices,
                        pruner'[p].cutoff = Cutoff(hours)
                 PROVE  /\ pruner'[p].cutoff.minute = 0
                        /\ pruner'[p].cutoff.hour <= clock.hour - hours
      BY <1>2, <1>3 DEF IInv, PrunersAreCurrent
    <2> QED
      BY TimeAssumption DEF Cutoff, IInv, TypeOK, Hours
  <1> QED
    BY <1>1, <1>2, <1>4
    DEF IInv, TablesFollowHorizon, FromHorizon, BelowHorizon, HorizonIsOld

(* An outcome that is still raw has its key in no archive row.             *)
LEMMA RawKeysNotArchived ==
  ASSUME IInv, NEW rows \in SUBSET outcomes
  PROVE  \A a \in BelowHorizon(reportedOutcomes), b \in rows :
           RecoveryKeyOf(a) # RecoveryKeyOf(b)
  BY DEF IInv, TypeOK, Outcome, Hours, TablesFollowHorizon,
         BelowHorizon, FromHorizon, RecoveryKeyOf

LEMMA PruneOutcomesInv ==
  ASSUME IInv, NEW p \in Pruners, PruneOutcomes(p)
  PROVE  IInv'
  <1>1. TypeOK'
    BY TablesFinite, PruneOutcomesType DEF IInv
  <1>2. UNCHANGED <<clock, observations, outcomes, hourlyRecovery,
                    reportedObservations, reportedOutcomes, horizon>>
    BY DEF PruneOutcomes, archives, history
  <1> DEFINE rows == Expired(outcomes, pruner[p].cutoff)
  <1>3. /\ pruner'[p].cutoff = pruner[p].cutoff
        /\ pruner'[p].recovery = FoldOutcomes(rows)
        /\ pruner'[p].recoveryFound = Lookup(hourlyRecovery, FoldOutcomes(rows))
        /\ \A q \in Pruners : q # p => pruner'[q] = pruner[q]
    BY DEF PruneOutcomes, ReadOutcomes, IInv, TypeOK
  <1>4. DOMAIN Lookup(hourlyRecovery, FoldOutcomes(rows)) = {}
    <2>1. rows \in SUBSET outcomes
      BY ExpiredSubset
    <2> QED
      BY <2>1, RawKeysNotArchived, NothingFound DEF IInv, TablesFollowHorizon
  <1>5. PrunersAreCurrent'
    BY <1>2, <1>3, <1>4 DEF IInv, PrunersAreCurrent, PruneOutcomes
  <1> QED
    BY <1>1, <1>2, <1>5
    DEF IInv, TablesFollowHorizon, FromHorizon, BelowHorizon, HorizonIsOld

(* The commit moves the horizon up to the cutoff, and everything with it.  *)
LEMMA PruneCommitInv ==
  ASSUME OnePruner, IInv, NEW p \in Pruners, PruneCommit(p)
  PROVE  IInv'
  <1>1. TypeOK'
    BY TablesFinite, PruneCommitType DEF IInv
  <1> DEFINE cutoff == pruner[p].cutoff
  <1>2. /\ cutoff \in Time
        /\ cutoff.minute = 0
        /\ cutoff.hour \in Int
        /\ \E hours \in RetentionChoices : cutoff.hour <= clock.hour - hours
        /\ pruner[p].recovery = FoldOutcomes(Expired(outcomes, cutoff))
        /\ DOMAIN pruner[p].recoveryFound = {}
    BY DEF PruneCommit, IInv, TypeOK, PrunerOK, PrunersAreCurrent, Time
  <1>3. /\ horizon \in Int
        /\ horizon' \in Int
        /\ horizon' = Larger(horizon, cutoff.hour)
    BY <1>2 DEF IInv, TypeOK, Hours, PruneCommit, Larger
  <1>4. /\ observations' = observations \ Expired(observations, cutoff)
        /\ outcomes' = outcomes \ Expired(outcomes, cutoff)
        /\ hourlyRecovery' = Merge(hourlyRecovery, pruner[p].recoveryFound,
                                   pruner[p].recovery, TopUpRecovery)
        /\ UNCHANGED <<clock, reportedObservations, reportedOutcomes>>
    BY DEF PruneCommit
  <1> HIDE DEF cutoff
  <1>5. /\ Expired(observations, cutoff) = {o \in observations : o.hour < cutoff.hour}
        /\ Expired(outcomes, cutoff) = {o \in outcomes : o.hour < cutoff.hour}
    BY <1>2, WholeHours DEF Expired, IInv, TypeOK, Observation, Outcome
  <1>6. /\ \A o \in reportedObservations : o.hour \in Int
        /\ \A o \in reportedOutcomes : o.hour \in Int
    BY DEF IInv, TypeOK, Observation, Outcome, Hours
  <1>7. observations' = FromHorizon(reportedObservations)'
    BY <1>2, <1>3, <1>4, <1>5, <1>6
    DEF IInv, TablesFollowHorizon, FromHorizon, Larger
  <1>8. outcomes' = FromHorizon(reportedOutcomes)'
    BY <1>2, <1>3, <1>4, <1>5, <1>6
    DEF IInv, TablesFollowHorizon, FromHorizon, Larger
  <1>9. hourlyRecovery' = FoldOutcomes(BelowHorizon(reportedOutcomes)')
    <2> DEFINE old == BelowHorizon(reportedOutcomes)
               new == Expired(outcomes, cutoff)
    <2>1. BelowHorizon(reportedOutcomes)' = old \cup new
      BY <1>2, <1>3, <1>4, <1>5, <1>6
      DEF IInv, TablesFollowHorizon, FromHorizon, BelowHorizon, Larger
    <2>2. \A a \in old, b \in new : RecoveryKeyOf(a) # RecoveryKeyOf(b)
      BY RawKeysNotArchived, ExpiredSubset
    <2>3. hourlyRecovery = FoldOutcomes(old)
      BY DEF IInv, TablesFollowHorizon
    <2> HIDE DEF old, new
    <2>4. Merge(FoldOutcomes(old), pruner[p].recoveryFound, FoldOutcomes(new), TopUpRecovery)
            = FoldOutcomes(old \cup new)
      BY <1>2, <2>2, FoldUnion
    <2>5. pruner[p].recovery = FoldOutcomes(new)
      BY <1>2 DEF new
    <2> QED
      BY <1>4, <2>1, <2>3, <2>4, <2>5
  <1>10. TablesFollowHorizon'
    <2>1. FoldOutcomes(BelowHorizon(reportedOutcomes))'
            = FoldOutcomes(BelowHorizon(reportedOutcomes)')
      BY DEF FoldOutcomes
    <2> QED
      BY <1>4, <1>7, <1>8, <1>9, <2>1 DEF IInv, TablesFollowHorizon
  <1>11. HorizonIsOld'
    BY <1>2, <1>3, <1>4 DEF IInv, HorizonIsOld, Larger
  <1>12. PrunersAreCurrent'
    <2>1. \A q \in Pruners : pruner'[q].pc = "idle"
      BY DEF OnePruner, PruneCommit, IdlePruner, IInv, TypeOK
    <2> QED
      BY <2>1 DEF PrunersAreCurrent
  <1> QED
    BY <1>1, <1>10, <1>11, <1>12 DEF IInv

LEMMA PrunerStopsInv ==
  ASSUME IInv, NEW p \in Pruners, PruneRollback(p) \/ PruneCrash(p)
  PROVE  IInv'
  <1>1. TypeOK'
    BY TablesFinite, PrunerStopsType DEF IInv
  <1>2. UNCHANGED <<clock, observations, outcomes, hourlyRecovery,
                    reportedObservations, reportedOutcomes, horizon>>
    BY DEF PruneRollback, PruneCrash, archives, history
  <1>3. \A q \in Pruners : pruner'[q] = pruner[q] \/ pruner'[q].pc = "idle"
    BY DEF PruneRollback, PruneCrash, IdlePruner, IInv, TypeOK
  <1>4. PrunersAreCurrent'
    BY <1>2, <1>3 DEF IInv, PrunersAreCurrent
  <1> QED
    BY <1>1, <1>2, <1>4
    DEF IInv, TablesFollowHorizon, FromHorizon, BelowHorizon, HorizonIsOld

(* With one pruner at a time the tables follow the horizon: the raw tables *)
(* hold the reports from the horizon on, the recovery archive the fold of  *)
(* those before it, and what the pruner read is still true at its commit.  *)
THEOREM TablesTruthful ==
  ASSUME OnePruner
  PROVE  Spec => []IInv
  <1>1. Init => IInv
    BY InitType, InitInv DEF IInv
  <1>2. IInv /\ [Next]_vars => IInv'
    <2> SUFFICES ASSUME IInv, [Next]_vars PROVE IInv'
      OBVIOUS
    <2>1. CASE Tick
      BY <2>1, TickInv
    <2>2. CASE RecordObservation
      BY <2>2, RecordObservationInv
    <2>3. CASE RecordRecoveryOutcome
      BY <2>3, RecordRecoveryOutcomeInv
    <2>4. CASE RecordPrivate
      BY <2>4, RecordPrivateInv
    <2>5. ASSUME NEW p \in Pruners, PruneObservations(p) PROVE IInv'
      BY <2>5, PruneObservationsInv
    <2>6. ASSUME NEW p \in Pruners, PruneOutcomes(p) PROVE IInv'
      BY <2>6, PruneOutcomesInv
    <2>7. ASSUME NEW p \in Pruners, PruneCommit(p) PROVE IInv'
      BY <2>7, OnePruner, PruneCommitInv
    <2>8. ASSUME NEW p \in Pruners, PruneRollback(p) \/ PruneCrash(p) PROVE IInv'
      BY <2>8, PrunerStopsInv
    <2>9. CASE UNCHANGED vars
      BY <2>9 DEF vars, archives, history, IInv, TypeOK, TablesFollowHorizon,
                  FromHorizon, BelowHorizon, HorizonIsOld, PrunersAreCurrent
    <2> QED
      BY <2>1, <2>2, <2>3, <2>4, <2>5, <2>6, <2>7, <2>8, <2>9 DEF Next
  <1> QED
    BY <1>1, <1>2, PTL DEF Spec

-----------------------------------------------------------------------------
(* What follows for the evidence.                                          *)

LEMMA ConservedByInv == IInv => EvidenceConserved
  <1> SUFFICES ASSUME IInv, NEW k \in RecoveryKey
               PROVE  LET all == RecoveryRows(k, reportedOutcomes)
                          live == RecoveryRows(k, outcomes)
                      IN  IF k \in DOMAIN hourlyRecovery
                          THEN /\ live = {}
                               /\ all # {}
                               /\ hourlyRecovery[k] = RecoveryStatOf(all)
                          ELSE live = all
    BY DEF EvidenceConserved
  <1> DEFINE old == BelowHorizon(reportedOutcomes)
  <1>1. /\ hourlyRecovery = FoldOutcomes(old)
        /\ outcomes = FromHorizon(reportedOutcomes)
        /\ \A o \in reportedOutcomes : o.hour \in Int
        /\ horizon \in Int
    BY DEF IInv, TypeOK, Outcome, Hours, TablesFollowHorizon
  <1>2. DOMAIN hourlyRecovery = {RecoveryKeyOf(o) : o \in old}
    BY <1>1 DEF FoldOutcomes
  <1>3. CASE k \in DOMAIN hourlyRecovery
    <2>1. PICK row \in old : RecoveryKeyOf(row) = k
      BY <1>2, <1>3
    <2>2. k.hour = row.hour /\ row.hour < horizon
      BY <2>1 DEF RecoveryKeyOf, BelowHorizon
    <2>3. RecoveryRows(k, outcomes) = {}
      BY <1>1, <2>1, <2>2 DEF RecoveryRows, RecoveryKeyOf, FromHorizon, BelowHorizon
    <2>4. RecoveryRows(k, reportedOutcomes) = RecoveryRows(k, old)
      BY <1>1, <2>2 DEF RecoveryRows, RecoveryKeyOf, BelowHorizon
    <2>5. hourlyRecovery[k] = RecoveryStatOf(RecoveryRows(k, old))
      BY <1>1, <1>2, <1>3 DEF FoldOutcomes
    <2>6. row \in RecoveryRows(k, reportedOutcomes)
      BY <2>1 DEF RecoveryRows, BelowHorizon
    <2> QED
      BY <1>3, <2>3, <2>4, <2>5, <2>6
  <1>4. CASE k \notin DOMAIN hourlyRecovery
    <2>1. RecoveryRows(k, outcomes) = RecoveryRows(k, reportedOutcomes)
      BY <1>1, <1>2, <1>4 DEF RecoveryRows, FromHorizon, BelowHorizon
    <2> QED
      BY <1>4, <2>1
  <1> QED
    BY <1>3, <1>4

(* Recovery evidence is neither lost, nor counted twice, nor weighed anew  *)
(* by pruning, whatever the sizes, the cap and the retention chosen.       *)
THEOREM EvidenceIsConserved ==
  ASSUME OnePruner
  PROVE  Spec => []EvidenceConserved
  BY TablesTruthful, ConservedByInv, PTL

(* However many rows a reporter sends, each voice weighs at most Cap.      *)
LEMMA EffectiveBound ==
  ASSUME NEW rows, IsFiniteSet(rows), \A r \in rows : r.reporter \in Voices
  PROVE  EffectiveAttempts(rows) <= Cap * Cardinality({r.reporter : r \in rows})
  <1> DEFINE heard == {r.reporter : r \in rows}
             pairs == {c \in Voices \X (1 .. Cardinality(rows)) :
                         c[2] <= CapAttempts(Cardinality(By(rows, c[1])))}
  <1>1. Cap \in Nat /\ IsFiniteSet(1 .. Cap) /\ Cardinality(1 .. Cap) = Cap
    BY EvidenceAssumption, FS_Interval
  <1>2. IsFiniteSet(heard)
    <2>1. heard \in SUBSET Voices
      OBVIOUS
    <2> QED
      BY <2>1, VoicesFinite, FS_Subset
  <1>3. IsFiniteSet(heard \X (1 .. Cap))
        /\ Cardinality(heard \X (1 .. Cap)) = Cardinality(heard) * Cap
    BY <1>1, <1>2, FS_Product
  <1>4. pairs \in SUBSET (heard \X (1 .. Cap))
    <2> SUFFICES ASSUME NEW c \in pairs
                 PROVE  c \in heard \X (1 .. Cap)
      OBVIOUS
    <2>1. /\ c \in Voices \X (1 .. Cardinality(rows))
          /\ c[2] \in Int /\ c[2] >= 1
          /\ c[2] <= CapAttempts(Cardinality(By(rows, c[1])))
      BY FS_CardinalityType
    <2>2. By(rows, c[1]) \in SUBSET rows
      BY DEF By
    <2>3. /\ IsFiniteSet(By(rows, c[1]))
          /\ Cardinality(By(rows, c[1])) \in Nat
      BY <2>2, FS_Subset, FS_CardinalityType
    <2>4. c[2] <= Cardinality(By(rows, c[1])) /\ c[2] <= Cap
      BY <1>1, <2>1, <2>3 DEF CapAttempts
    <2>5. By(rows, c[1]) # {}
      BY <2>1, <2>3, <2>4, FS_EmptySet
    <2>6. c[1] \in heard
      BY <2>5 DEF By
    <2> QED
      BY <1>1, <2>1, <2>4, <2>6
  <1>5. Cardinality(pairs) <= Cardinality(heard) * Cap
    BY <1>3, <1>4, FS_Subset
  <1>6. Cardinality(heard) \in Nat
    BY <1>2, FS_CardinalityType
  <1> QED
    BY <1>1, <1>5, <1>6 DEF EffectiveAttempts

LEMMA NothingEffective == EffectiveAttempts({}) = 0
  <1>1. 1 .. Cardinality({}) = {}
    BY FS_EmptySet
  <1>2. {c \in Voices \X (1 .. Cardinality({})) :
           c[2] <= CapAttempts(Cardinality(By({}, c[1])))} = {}
    BY <1>1
  <1> QED
    BY <1>2, FS_EmptySet DEF EffectiveAttempts

(* One reporter's evidence for one action in one hour never outruns the    *)
(* cap, live and archived parts added together.                            *)
THEOREM CapHolds ==
  ASSUME OnePruner
  PROVE  Spec => []CapNeverOutrun
  <1>1. IInv => CapNeverOutrun
    <2> SUFFICES ASSUME IInv, NEW k \in RecoveryKey
                 PROVE  LET archived == IF k \in DOMAIN hourlyRecovery
                                        THEN hourlyRecovery[k].effAttempts ELSE 0
                            voices == {o.reporter : o \in RecoveryRows(k, reportedOutcomes)}
                        IN  archived + EffectiveAttempts(RecoveryRows(k, outcomes))
                              <= Cap * Cardinality(voices)
      BY DEF CapNeverOutrun
    <2> DEFINE all == RecoveryRows(k, reportedOutcomes)
               live == RecoveryRows(k, outcomes)
    <2>1. /\ IsFiniteSet(all)
          /\ \A r \in all : r.reporter \in Voices
      <3>1. all \in SUBSET reportedOutcomes
        BY DEF RecoveryRows
      <3> QED
        BY <3>1, FS_Subset DEF IInv, TypeOK, Outcome, TablesFollowHorizon
    <2> HIDE DEF all
    <2>2. EffectiveAttempts(all) <= Cap * Cardinality({r.reporter : r \in all})
      BY <2>1, EffectiveBound
    <2>3. EffectiveAttempts(all) \in Nat
      BY <2>1, EffectiveFinite
    <2>4. IF k \in DOMAIN hourlyRecovery
          THEN live = {} /\ hourlyRecovery[k] = RecoveryStatOf(all)
          ELSE live = all
      BY ConservedByInv DEF EvidenceConserved, all
    <2>5. CASE k \in DOMAIN hourlyRecovery
      <3>1. hourlyRecovery[k].effAttempts = EffectiveAttempts(all)
        BY <2>4, <2>5 DEF RecoveryStatOf
      <3>2. EffectiveAttempts(live) = 0
        BY <2>4, <2>5, NothingEffective
      <3> HIDE DEF live
      <3> QED
        BY <2>2, <2>3, <2>5, <3>1, <3>2 DEF all, live
    <2>6. CASE k \notin DOMAIN hourlyRecovery
      <3>1. EffectiveAttempts(live) = EffectiveAttempts(all)
        BY <2>4, <2>6
      <3> HIDE DEF live
      <3> QED
        BY <2>2, <2>3, <2>6, <3>1 DEF all, live
    <2> QED
      BY <2>5, <2>6
  <1> QED
    BY <1>1, TablesTruthful, PTL

(* Pruning never reaches into the live windows: a row younger than every   *)
(* retention that can be chosen is still raw.                              *)
THEOREM LiveWindowHolds ==
  ASSUME OnePruner
  PROVE  Spec => []LiveWindowIntact
  <1>1. ASSUME IInv, NEW row, row.hour \in Hours, row.minute \in Minutes, Young(row)
        PROVE  row.hour >= horizon
    <2>1. CASE horizon = 0
      BY <1>1, <2>1 DEF Hours
    <2>2. ASSUME NEW hours \in RetentionChoices, horizon <= clock.hour - hours,
                 ~(row.hour >= horizon)
          PROVE  FALSE
      <3> DEFINE M == MinutesPerHour
                 gap == clock.hour - hours - row.hour
      <3>1. /\ M \in Nat /\ M >= 1 /\ hours \in Nat
            /\ row.hour \in Int /\ row.minute \in Int
            /\ row.minute >= 0 /\ row.minute < M
            /\ clock.hour \in Int /\ clock.minute \in Int /\ clock.minute >= 0
            /\ horizon \in Int
        BY <1>1, TimeAssumption DEF IInv, TypeOK, Hours, Minutes
      <3>2. gap \in Int /\ gap >= 1
        BY <2>2, <3>1
      <3>3. (clock.hour * M + clock.minute) - (row.hour * M + row.minute) <= hours * M
        BY <1>1 DEF Young, Age, Instant
      <3>4. gap * M = clock.hour * M - hours * M - row.hour * M
        BY <3>1
      <3>5. gap * M >= M
        BY <3>1, <3>2
      <3> QED
        BY <3>1, <3>3, <3>4, <3>5
    <2> QED
      BY <1>1, <2>1, <2>2 DEF IInv, HorizonIsOld
  <1>2. IInv => LiveWindowIntact
    <2> SUFFICES ASSUME IInv PROVE LiveWindowIntact
      OBVIOUS
    <2>1. \A o \in reportedObservations : Young(o) => o \in observations
      BY <1>1 DEF IInv, TypeOK, Observation, TablesFollowHorizon, FromHorizon
    <2>2. \A o \in reportedOutcomes : Young(o) => o \in outcomes
      BY <1>1 DEF IInv, TypeOK, Outcome, TablesFollowHorizon, FromHorizon
    <2> QED
      BY <2>1, <2>2 DEF LiveWindowIntact
  <1> QED
    BY <1>2, TablesTruthful, PTL

-----------------------------------------------------------------------------
(* The archive of observations: a fold in which every hour was labelled by *)
(* the reporters that were established when it was archived.               *)

LEMMA LabelIs ==
  ASSUME NEW o, NEW judged
  PROVE  /\ Label(o, judged).hour = o.hour
         /\ Label(o, judged).subject = o.subject
         /\ Label(o, judged).source = ArchiveSource(o, judged[o.hour])
  BY DEF Label, StatKeyOf

(* Who was established stays so, whatever more is reported.                *)
LEMMA EstablishedStays ==
  ASSUME NEW few, NEW many, few \subseteq many, IsFiniteSet(many)
  PROVE  EstablishedReporters(few) \subseteq EstablishedReporters(many)
  <1> SUFFICES ASSUME NEW r \in EstablishedReporters(few)
               PROVE  r \in EstablishedReporters(many)
    OBVIOUS
  <1>1. PICK A : A = {o \in few : o.source = "agent" /\ o.reporter = r}
    OBVIOUS
  <1>2. PICK B : B = {o \in many : o.source = "agent" /\ o.reporter = r}
    OBVIOUS
  <1>3. A \subseteq B /\ B \subseteq many
    BY <1>1, <1>2
  <1>4. IsFiniteSet(B)
    BY <1>3, FS_Subset
  <1>5. /\ IsFiniteSet(A)
        /\ Cardinality(A) <= Cardinality(B)
        /\ Cardinality(A) \in Nat /\ Cardinality(B) \in Nat
    BY <1>3, <1>4, FS_Subset, FS_CardinalityType
  <1>6. r \in Reporters /\ MeetsThreshold(A)
    BY <1>1 DEF EstablishedReporters
  <1>7. MeetsThreshold(B)
    <2>1. Cardinality(A) >= AdoptionMinObservations
      BY <1>6 DEF MeetsThreshold
    <2>2. Cardinality(B) >= AdoptionMinObservations
      BY <1>5, <2>1, EvidenceAssumption
    <2>3. \E first, last \in A : Instant(last) - Instant(first) >= AdoptionMinSpan
      BY <1>6 DEF MeetsThreshold
    <2>4. \E first, last \in B : Instant(last) - Instant(first) >= AdoptionMinSpan
      BY <1>3, <2>3
    <2> QED
      BY <2>2, <2>4 DEF MeetsThreshold
  <1> QED
    BY <1>2, <1>6, <1>7 DEF EstablishedReporters

MergeStats(archive, found, fold) == Merge(archive, found, fold, TopUpStat)

(* Two lots of rows from different hours, each labelled by its own judges, *)
(* and one judgement of every hour that agrees with both.                  *)
Apart(A, judged, B, established, both) ==
  /\ \A a \in A : both[a.hour] = judged[a.hour]
  /\ \A b \in B : both[b.hour] = established
  /\ \A a \in A, b \in B : a.hour # b.hour

(* Hours archived at different times do not touch each other's rows.       *)
LEMMA FoldJudgedUnion ==
  ASSUME NEW A, NEW judged, NEW B, NEW established, NEW both,
         Apart(A, judged, B, established, both), NEW found, DOMAIN found = {}
  PROVE  MergeStats(FoldJudged(A, judged), found, FoldObservations(B, established))
           = FoldJudged(A \cup B, both)
  <1> DEFINE KA == {Label(o, judged) : o \in A}
             KB == {StatKeyOf(o, established) : o \in B}
             K == {Label(o, both) : o \in A \cup B}
  <1>1. /\ DOMAIN FoldJudged(A, judged) = KA
        /\ DOMAIN FoldObservations(B, established) = KB
        /\ DOMAIN FoldJudged(A \cup B, both) = K
    BY DEF FoldJudged, FoldObservations
  <1>2. /\ \A a \in A : Label(a, both) = Label(a, judged)
        /\ \A b \in B : Label(b, both) = StatKeyOf(b, established)
    BY DEF Label, Apart
  <1>3. K = KA \cup KB
    BY <1>2
  <1>4. \A a \in A, b \in B : Label(a, both) # Label(b, both)
    BY LabelIs DEF Apart
  <1>5. ASSUME NEW k \in KA
        PROVE  /\ k \notin KB
               /\ FoldJudged(A, judged)[k] = FoldJudged(A \cup B, both)[k]
    <2>1. k \notin KB
      BY <1>2, <1>4
    <2>2. {o \in A \cup B : Label(o, both) = k} = {o \in A : Label(o, judged) = k}
      BY <1>2, <2>1
    <2> QED
      BY <1>3, <2>1, <2>2 DEF FoldJudged
  <1>6. ASSUME NEW k \in KB
        PROVE  FoldObservations(B, established)[k] = FoldJudged(A \cup B, both)[k]
    <2>1. k \notin KA
      BY <1>5
    <2>2. {o \in A \cup B : Label(o, both) = k} = StatRows(k, B, established)
      BY <1>2, <2>1 DEF StatRows
    <2> QED
      BY <1>3, <2>2 DEF FoldJudged, FoldObservations
  <1>7. FoldJudged(A \cup B, both) = [k \in KA \cup KB |-> FoldJudged(A \cup B, both)[k]]
    BY <1>3 DEF FoldJudged
  <1>8. MergeStats(FoldJudged(A, judged), found, FoldObservations(B, established))
          = [k \in KA \cup KB |-> IF k \notin KB THEN FoldJudged(A, judged)[k]
                                  ELSE FoldObservations(B, established)[k]]
    <2>1. MergeStats(FoldJudged(A, judged), found, FoldObservations(B, established))
            = [k \in KA \cup KB |->
                 IF k \notin KB THEN FoldJudged(A, judged)[k]
                 ELSE IF k \in DOMAIN found
                      THEN TopUpStat(found[k], FoldObservations(B, established)[k])
                 ELSE IF k \in KA
                      THEN TopUpStat(FoldJudged(A, judged)[k],
                                     FoldObservations(B, established)[k])
                 ELSE FoldObservations(B, established)[k]]
      BY <1>1 DEF MergeStats, Merge
    <2> HIDE DEF KA, KB
    <2> QED
      BY <2>1, <1>5
  <1> HIDE DEF KA, KB
  <1> QED
    BY <1>5, <1>6, <1>7, <1>8

LEMMA EstablishedMonotone ==
  ASSUME IInv
  PROVE  EstablishedReporters(observations) \subseteq EstablishedReporters(reportedObservations)
  <1>1. observations \subseteq reportedObservations /\ IsFiniteSet(reportedObservations)
    BY DEF IInv, TablesFollowHorizon, FromHorizon
  <1> QED
    BY <1>1, EstablishedStays

LEMMA InitStats == Init => StatsInv
  <1> SUFFICES ASSUME Init PROVE StatsInv
    OBVIOUS
  <1>1. PICK judged : judged = [h \in Hours |-> {}]
    OBVIOUS
  <1>2. judged \in [Hours -> SUBSET EstablishedReporters(reportedObservations)]
    BY <1>1
  <1>3. FoldJudged(BelowHorizon(reportedObservations), judged) = NoFold
    BY DEF Init, FoldJudged, BelowHorizon, NoFold
  <1>4. StatsFollowHorizon
    BY <1>2, <1>3 DEF Init, StatsFollowHorizon
  <1>5. FoldsAreCurrent
    BY DEF Init, FoldsAreCurrent, IdlePruner
  <1> QED
    BY <1>4, <1>5 DEF StatsInv

LEMMA RecordObservationStats == IInv /\ StatsInv /\ RecordObservation => StatsInv'
  <1> SUFFICES ASSUME IInv, StatsInv, RecordObservation PROVE StatsInv'
    OBVIOUS
  <1>1. PICK row :
          /\ row.hour = clock.hour
          /\ row.minute = clock.minute
          /\ observations' = observations \cup {row}
          /\ reportedObservations' = reportedObservations \cup {row}
    BY DEF RecordObservation
  <1>2. /\ row.hour >= horizon
        /\ ~(row.hour < horizon)
        /\ \A p \in Pruners :
             pruner[p].pc # "idle" => ~Before(row, pruner[p].cutoff)
    BY <1>1, NewRowIsYoung
  <1>3. UNCHANGED <<hourlyStats, pruner, horizon>>
    BY DEF RecordObservation, archives, history
  <1>4. BelowHorizon(reportedObservations)' = BelowHorizon(reportedObservations)
    BY <1>1, <1>2, <1>3 DEF BelowHorizon
  <1>5. EstablishedReporters(reportedObservations)
          \subseteq EstablishedReporters(reportedObservations')
    <2>1. IsFiniteSet(reportedObservations')
      BY <1>1, FS_AddElement DEF IInv, TablesFollowHorizon
    <2>2. reportedObservations \subseteq reportedObservations'
      BY <1>1
    <2> QED
      BY <2>1, <2>2, EstablishedStays
  <1>6. StatsFollowHorizon'
    <2>1. PICK judged \in [Hours -> SUBSET EstablishedReporters(reportedObservations)] :
            hourlyStats = FoldJudged(BelowHorizon(reportedObservations), judged)
      BY DEF StatsInv, StatsFollowHorizon
    <2>2. judged \in [Hours -> SUBSET EstablishedReporters(reportedObservations')]
      BY <1>5
    <2>3. hourlyStats' = FoldJudged(BelowHorizon(reportedObservations)', judged)
      BY <1>3, <1>4, <2>1
    <2> QED
      BY <2>2, <2>3 DEF StatsFollowHorizon, FoldJudged, EstablishedReporters
  <1>7. FoldsAreCurrent'
    <2>1. ASSUME NEW p \in Pruners, pruner[p].pc # "idle"
          PROVE  Expired(observations', pruner[p].cutoff)
                   = Expired(observations, pruner[p].cutoff)
      BY <1>1, <1>2, <2>1 DEF Expired
    <2>2. ASSUME NEW p \in Pruners, pruner[p].pc # "idle"
          PROVE  /\ DOMAIN pruner[p].statsFound = {}
                 /\ \E established \in SUBSET EstablishedReporters(reportedObservations') :
                      pruner[p].stats
                        = FoldObservations(Expired(observations', pruner[p].cutoff), established)
      BY <1>5, <2>1, <2>2 DEF StatsInv, FoldsAreCurrent
    <2>3. EstablishedReporters(reportedObservations)' = EstablishedReporters(reportedObservations')
      BY DEF EstablishedReporters
    <2> SUFFICES ASSUME NEW p \in Pruners, pruner'[p].pc # "idle"
                 PROVE  /\ DOMAIN pruner'[p].statsFound = {}
                        /\ \E established \in SUBSET EstablishedReporters(reportedObservations') :
                             pruner'[p].stats
                               = FoldObservations(Expired(observations', pruner'[p].cutoff),
                                                  established)
      BY <2>3 DEF FoldsAreCurrent
    <2> QED
      BY <1>3, <2>2
  <1> QED
    BY <1>6, <1>7 DEF StatsInv

LEMMA StatsStay ==
  ASSUME StatsFollowHorizon, UNCHANGED <<hourlyStats, reportedObservations, horizon>>
  PROVE  StatsFollowHorizon'
  <1>1. BelowHorizon(reportedObservations)' = BelowHorizon(reportedObservations)
    BY DEF BelowHorizon
  <1>2. EstablishedReporters(reportedObservations)' = EstablishedReporters(reportedObservations)
    BY DEF EstablishedReporters
  <1>3. PICK judged \in [Hours -> SUBSET EstablishedReporters(reportedObservations)] :
          hourlyStats = FoldJudged(BelowHorizon(reportedObservations), judged)
    BY DEF StatsFollowHorizon
  <1>4. hourlyStats' = FoldJudged(BelowHorizon(reportedObservations)', judged)
    BY <1>1, <1>3
  <1>5. FoldJudged(BelowHorizon(reportedObservations), judged)'
          = FoldJudged(BelowHorizon(reportedObservations)', judged)
    BY DEF FoldJudged
  <1> QED
    BY <1>2, <1>3, <1>4, <1>5 DEF StatsFollowHorizon

LEMMA QuietStats ==
  ASSUME IInv, StatsInv,
         UNCHANGED <<hourlyStats, observations, reportedObservations, horizon>>,
         \A p \in Pruners : pruner'[p] = pruner[p] \/ pruner'[p].pc = "idle"
  PROVE  StatsInv'
  <1>1. StatsFollowHorizon'
    BY StatsStay DEF StatsInv
  <1>2. FoldsAreCurrent'
    BY DEF StatsInv, FoldsAreCurrent
  <1> QED
    BY <1>1, <1>2 DEF StatsInv

(* An observation that is still raw has its hour in no archive row.        *)
LEMMA RawHoursNotArchived ==
  ASSUME IInv, NEW rows \in SUBSET observations
  PROVE  \A a \in BelowHorizon(reportedObservations), b \in rows : a.hour # b.hour
  BY DEF IInv, TypeOK, Observation, Hours, TablesFollowHorizon, BelowHorizon, FromHorizon

LEMMA PruneObservationsStats ==
  ASSUME IInv, StatsInv, NEW p \in Pruners, PruneObservations(p)
  PROVE  StatsInv'
  <1>1. UNCHANGED <<observations, hourlyStats, reportedObservations, horizon>>
    BY DEF PruneObservations, archives, history
  <1>2. PICK hours \in RetentionChoices, dry \in BOOLEAN :
          pruner' = [pruner EXCEPT ![p] = ReadObservations(Cutoff(hours), dry)]
    BY DEF PruneObservations
  <1>3. PICK rows \in SUBSET observations : rows = Expired(observations, Cutoff(hours))
    BY ExpiredSubset
  <1>4. PICK established \in SUBSET EstablishedReporters(reportedObservations) :
          established = EstablishedReporters(observations)
    BY EstablishedMonotone
  <1>5. /\ pruner'[p].cutoff = Cutoff(hours)
        /\ pruner'[p].stats = FoldObservations(rows, established)
        /\ pruner'[p].statsFound = Lookup(hourlyStats, FoldObservations(rows, established))
        /\ \A q \in Pruners : q # p => pruner'[q] = pruner[q]
    BY <1>2, <1>3, <1>4 DEF ReadObservations, IInv, TypeOK
  <1>6. DOMAIN Lookup(hourlyStats, FoldObservations(rows, established)) = {}
    <2>1. PICK judged : hourlyStats = FoldJudged(BelowHorizon(reportedObservations), judged)
      BY DEF StatsInv, StatsFollowHorizon
    <2>2. \A a \in BelowHorizon(reportedObservations), b \in rows :
            Label(a, judged) # StatKeyOf(b, established)
      BY RawHoursNotArchived DEF Label, StatKeyOf
    <2>3. /\ DOMAIN hourlyStats
               = {Label(a, judged) : a \in BelowHorizon(reportedObservations)}
          /\ DOMAIN FoldObservations(rows, established)
               = {StatKeyOf(b, established) : b \in rows}
      BY <2>1 DEF FoldJudged, FoldObservations
    <2>4. DOMAIN hourlyStats \cap DOMAIN FoldObservations(rows, established) = {}
      BY <2>2, <2>3
    <2> QED
      BY <2>4 DEF Lookup
  <1>7. StatsFollowHorizon'
    BY <1>1, StatsStay DEF StatsInv
  <1>8. FoldsAreCurrent'
    <2>1. ASSUME NEW q \in Pruners, pruner'[q].pc # "idle"
          PROVE  /\ DOMAIN pruner'[q].statsFound = {}
                 /\ \E judges \in SUBSET EstablishedReporters(reportedObservations) :
                      pruner'[q].stats
                        = FoldObservations(Expired(observations, pruner'[q].cutoff), judges)
      <3>1. CASE q = p
        BY <1>3, <1>5, <1>6, <3>1
      <3>2. CASE q # p
        BY <1>5, <2>1, <3>2 DEF StatsInv, FoldsAreCurrent
      <3> QED
        BY <3>1, <3>2
    <2> QED
      BY <1>1, <2>1 DEF FoldsAreCurrent
  <1> QED
    BY <1>7, <1>8 DEF StatsInv

LEMMA PruneOutcomesStats ==
  ASSUME IInv, StatsInv, NEW p \in Pruners, PruneOutcomes(p)
  PROVE  StatsInv'
  <1>1. UNCHANGED <<observations, hourlyStats, reportedObservations, horizon>>
    BY DEF PruneOutcomes, archives, history
  <1>2. /\ pruner'[p].cutoff = pruner[p].cutoff
        /\ pruner'[p].stats = pruner[p].stats
        /\ pruner'[p].statsFound = pruner[p].statsFound
        /\ pruner[p].pc # "idle"
        /\ \A q \in Pruners : q # p => pruner'[q] = pruner[q]
    BY DEF PruneOutcomes, ReadOutcomes, IInv, TypeOK
  <1>3. StatsFollowHorizon'
    BY <1>1, StatsStay DEF StatsInv
  <1>4. FoldsAreCurrent'
    <2>1. ASSUME NEW q \in Pruners, pruner'[q].pc # "idle"
          PROVE  /\ DOMAIN pruner'[q].statsFound = {}
                 /\ \E judges \in SUBSET EstablishedReporters(reportedObservations) :
                      pruner'[q].stats
                        = FoldObservations(Expired(observations, pruner'[q].cutoff), judges)
      BY <1>2, <2>1 DEF StatsInv, FoldsAreCurrent
    <2> QED
      BY <1>1, <2>1 DEF FoldsAreCurrent
  <1> QED
    BY <1>3, <1>4 DEF StatsInv

LEMMA PruneCommitStats ==
  ASSUME OnePruner, IInv, StatsInv, NEW p \in Pruners, PruneCommit(p)
  PROVE  StatsInv'
  <1>1. PICK cutoff : cutoff = pruner[p].cutoff
    OBVIOUS
  <1>2. /\ cutoff \in Time
        /\ cutoff.minute = 0
        /\ cutoff.hour \in Int
    BY <1>1 DEF PruneCommit, IInv, TypeOK, PrunerOK, PrunersAreCurrent, Time
  <1>3. /\ horizon \in Int
        /\ horizon' = Larger(horizon, cutoff.hour)
    BY <1>1, <1>2 DEF IInv, TypeOK, Hours, PruneCommit
  <1>4. PICK fresh \in SUBSET observations : fresh = Expired(observations, cutoff)
    BY ExpiredSubset
  <1>5. fresh = {o \in observations : o.hour < cutoff.hour}
    BY <1>2, <1>4, WholeHours DEF Expired, IInv, TypeOK, Observation
  <1>6. /\ hourlyStats' = Merge(hourlyStats, pruner[p].statsFound,
                                pruner[p].stats, TopUpStat)
        /\ UNCHANGED reportedObservations
    BY DEF PruneCommit
  <1>7. PICK established \in SUBSET EstablishedReporters(reportedObservations) :
          pruner[p].stats = FoldObservations(fresh, established)
    BY <1>1, <1>4 DEF StatsInv, FoldsAreCurrent, PruneCommit
  <1>8. DOMAIN pruner[p].statsFound = {}
    BY DEF StatsInv, FoldsAreCurrent, PruneCommit
  <1>9. PICK judged \in [Hours -> SUBSET EstablishedReporters(reportedObservations)] :
          hourlyStats = FoldJudged(BelowHorizon(reportedObservations), judged)
    BY DEF StatsInv, StatsFollowHorizon
  <1>10. PICK old : old = BelowHorizon(reportedObservations)
    OBVIOUS
  <1>11. \A o \in reportedObservations : o.hour \in Hours /\ o.hour \in Int
    BY DEF IInv, TypeOK, Observation, Hours
  <1>12. BelowHorizon(reportedObservations)' = old \cup fresh
    BY <1>2, <1>3, <1>5, <1>6, <1>10, <1>11
    DEF IInv, TablesFollowHorizon, FromHorizon, BelowHorizon, Larger
  <1>13. PICK both : both = [h \in Hours |-> IF h < horizon THEN judged[h] ELSE established]
    OBVIOUS
  <1>14. /\ \A a \in old : both[a.hour] = judged[a.hour]
         /\ \A b \in fresh : both[b.hour] = established
    BY <1>3, <1>5, <1>10, <1>11, <1>13 DEF IInv, TablesFollowHorizon, FromHorizon, BelowHorizon
  <1>15. \A a \in old, b \in fresh : a.hour # b.hour
    BY <1>10, RawHoursNotArchived
  <1>16. hourlyStats' = FoldJudged(old \cup fresh, both)
    <2>1. PICK found : found = pruner[p].statsFound
      OBVIOUS
    <2>2. Apart(old, judged, fresh, established, both) /\ DOMAIN found = {}
      BY <1>8, <1>14, <1>15, <2>1 DEF Apart
    <2>3. MergeStats(FoldJudged(old, judged), found, FoldObservations(fresh, established))
            = FoldJudged(old \cup fresh, both)
      BY ONLY <2>2, FoldJudgedUnion
    <2> QED
      BY <1>6, <1>7, <1>9, <1>10, <2>1, <2>3 DEF MergeStats
  <1>17. both \in [Hours -> SUBSET EstablishedReporters(reportedObservations)]
    BY <1>13
  <1>18. StatsFollowHorizon'
    <2>1. EstablishedReporters(reportedObservations)' = EstablishedReporters(reportedObservations)
      BY <1>6 DEF EstablishedReporters
    <2>2. \E all \in [Hours -> SUBSET EstablishedReporters(reportedObservations)'] :
            hourlyStats' = FoldJudged(BelowHorizon(reportedObservations)', all)
      BY <1>12, <1>16, <1>17, <2>1
    <2> QED
      BY <2>2 DEF StatsFollowHorizon, FoldJudged
  <1>19. FoldsAreCurrent'
    <2>1. \A q \in Pruners : pruner'[q].pc = "idle"
      BY DEF OnePruner, PruneCommit, IdlePruner, IInv, TypeOK
    <2> QED
      BY <2>1 DEF FoldsAreCurrent
  <1> QED
    BY <1>18, <1>19 DEF StatsInv

LEMMA StatsSteps ==
  ASSUME OnePruner
  PROVE  IInv /\ StatsInv /\ [Next]_vars => StatsInv'
  <1> SUFFICES ASSUME IInv, StatsInv, [Next]_vars PROVE StatsInv'
    OBVIOUS
  <1>1. CASE Tick
    BY <1>1, QuietStats DEF Tick, archives, history
  <1>2. CASE RecordObservation
    BY <1>2, RecordObservationStats
  <1>3. CASE RecordRecoveryOutcome
    BY <1>3, QuietStats DEF RecordRecoveryOutcome, archives, history
  <1>4. CASE RecordPrivate
    BY <1>4, QuietStats DEF RecordPrivate, archives, history
  <1>5. ASSUME NEW p \in Pruners, PruneObservations(p) PROVE StatsInv'
    BY <1>5, PruneObservationsStats
  <1>6. ASSUME NEW p \in Pruners, PruneOutcomes(p) PROVE StatsInv'
    BY <1>6, PruneOutcomesStats
  <1>7. ASSUME NEW p \in Pruners, PruneCommit(p) PROVE StatsInv'
    BY <1>7, OnePruner, PruneCommitStats
  <1>8. ASSUME NEW p \in Pruners, PruneRollback(p) \/ PruneCrash(p) PROVE StatsInv'
    <2>1. \A q \in Pruners : pruner'[q] = pruner[q] \/ pruner'[q].pc = "idle"
      BY <1>8 DEF PruneRollback, PruneCrash, IdlePruner, IInv, TypeOK
    <2> QED
      BY <1>8, <2>1, QuietStats DEF PruneRollback, PruneCrash, archives, history
  <1>9. CASE UNCHANGED vars
    BY <1>9, QuietStats DEF vars, archives, history
  <1> QED
    BY <1>1, <1>2, <1>3, <1>4, <1>5, <1>6, <1>7, <1>8, <1>9 DEF Next

(* With one pruner at a time the archive of observations is, like the      *)
(* tables, what the history and the horizon say.                           *)
THEOREM StatsTruthful ==
  ASSUME OnePruner
  PROVE  Spec => [](IInv /\ StatsInv)
  <1>1. Init => StatsInv
    BY InitStats
  <1>2. IInv /\ StatsInv /\ [Next]_vars => StatsInv'
    BY OnePruner, StatsSteps
  <1>3. Spec => []IInv
    BY OnePruner, TablesTruthful
  <1> QED
    BY <1>1, <1>2, <1>3, PTL DEF Spec

-----------------------------------------------------------------------------
(* What the archives add up to.                                            *)

LEMMA StatsAddUp ==
  ASSUME NEW rows, IsFiniteSet(rows), NEW judged, NEW archive,
         archive = FoldJudged(rows, judged), NEW keys \in SUBSET (DOMAIN archive)
  PROVE  SumFunction([k \in keys |-> archive[k].count])
           = Cardinality({o \in rows : Label(o, judged) \in keys})
  <1>1. PICK key : key = [o \in rows |-> Label(o, judged)]
    OBVIOUS
  <1>2. DOMAIN archive = {key[o] : o \in rows}
    BY <1>1 DEF FoldJudged
  <1>3. IsFiniteSet(keys)
    <2>1. IsFiniteSet({key[o] : o \in rows})
      <3>1. key \in Surjection(rows, {key[o] : o \in rows})
        BY <1>1 DEF Surjection
      <3> QED
        BY <3>1, FS_Surjection
    <2> QED
      BY <1>2, <2>1, FS_Subset
  <1>4. ASSUME NEW k \in keys
        PROVE  archive[k].count = Cardinality({o \in rows : key[o] = k})
    <2>1. {o \in rows : key[o] = k} = {o \in rows : Label(o, judged) = k}
      BY <1>1
    <2>2. archive[k] = StatOf({o \in rows : Label(o, judged) = k})
      BY DEF FoldJudged
    <2> QED
      BY <2>1, <2>2 DEF StatOf
  <1>5. [k \in keys |-> archive[k].count]
          = [k \in keys |-> Cardinality({o \in rows : key[o] = k})]
    BY <1>4
  <1>6. {o \in rows : key[o] \in keys} = {o \in rows : Label(o, judged) \in keys}
    BY <1>1
  <1>7. SumFunction([k \in keys |-> Cardinality({o \in rows : key[o] = k})])
          = Cardinality({o \in rows : key[o] \in keys})
    BY <1>3, CountByKey
  <1> QED
    BY <1>5, <1>6, <1>7

(* The archive rows of some keys count the rows that they were made from.  *)
AddsUp(archive, keys, rows) ==
  /\ SumFunction([k \in keys |-> archive[k].attempts])
       = Cardinality({o \in rows : RecoveryKeyOf(o) \in keys})
  /\ SumFunction([k \in keys |-> archive[k].successes])
       = Cardinality({o \in Worked(rows) : RecoveryKeyOf(o) \in keys})

LEMMA OutcomesAddUp ==
  ASSUME NEW rows, IsFiniteSet(rows), NEW archive, archive = FoldOutcomes(rows),
         NEW keys \in SUBSET (DOMAIN archive)
  PROVE  AddsUp(archive, keys, rows)
  <1>1. PICK key : key = [o \in rows |-> RecoveryKeyOf(o)]
    OBVIOUS
  <1>2. DOMAIN archive = {key[o] : o \in rows}
    BY <1>1 DEF FoldOutcomes
  <1>3. IsFiniteSet(keys)
    <2>1. IsFiniteSet({key[o] : o \in rows})
      <3>1. key \in Surjection(rows, {key[o] : o \in rows})
        BY <1>1 DEF Surjection
      <3> QED
        BY <3>1, FS_Surjection
    <2> QED
      BY <1>2, <2>1, FS_Subset
  <1>4. PICK good \in SUBSET rows : good = Worked(rows)
    BY DEF Worked
  <1>5. IsFiniteSet(good)
    BY FS_Subset
  <1>6. ASSUME NEW k \in keys
        PROVE  /\ archive[k].attempts = Cardinality({o \in rows : key[o] = k})
               /\ archive[k].successes = Cardinality({o \in good : key[o] = k})
    <2>1. RecoveryRows(k, rows) = {o \in rows : key[o] = k}
      BY <1>1 DEF RecoveryRows
    <2>2. Worked(RecoveryRows(k, rows)) = {o \in good : key[o] = k}
      BY <1>1, <1>4 DEF RecoveryRows, Worked
    <2>3. archive[k] = RecoveryStatOf(RecoveryRows(k, rows))
      BY DEF FoldOutcomes
    <2> QED
      BY <2>1, <2>2, <2>3 DEF RecoveryStatOf
  <1>7. /\ [k \in keys |-> archive[k].attempts]
             = [k \in keys |-> Cardinality({o \in rows : key[o] = k})]
        /\ [k \in keys |-> archive[k].successes]
             = [k \in keys |-> Cardinality({o \in good : key[o] = k})]
    BY <1>6
  <1>8. /\ {o \in rows : key[o] \in keys} = {o \in rows : RecoveryKeyOf(o) \in keys}
        /\ {o \in good : key[o] \in keys} = {o \in good : RecoveryKeyOf(o) \in keys}
    BY <1>1
  <1>9. SumFunction([k \in keys |-> Cardinality({o \in rows : key[o] = k})])
          = Cardinality({o \in rows : key[o] \in keys})
    BY <1>3, CountByKey
  <1>10. SumFunction([k \in keys |-> Cardinality({o \in good : key[o] = k})])
          = Cardinality({o \in good : key[o] \in keys})
    BY <1>3, <1>5, CountByKey
  <1> QED
    BY <1>4, <1>7, <1>8, <1>9, <1>10 DEF AddsUp

(* The rows of a table and the rows archived are all the rows there were.  *)
LEMMA RawAndArchived ==
  ASSUME NEW rows, IsFiniteSet(rows), \A o \in rows : o.hour \in Int, horizon \in Int,
         NEW some \in SUBSET rows
  PROVE  /\ Cardinality(FromHorizon(rows) \cap some) \in Nat
         /\ Cardinality(BelowHorizon(rows) \cap some) \in Nat
         /\ Cardinality(some) \in Nat
         /\ Cardinality(FromHorizon(rows) \cap some) + Cardinality(BelowHorizon(rows) \cap some)
              = Cardinality(some)
  <1>1. PICK A : A = FromHorizon(rows) \cap some
    OBVIOUS
  <1>2. PICK B : B = BelowHorizon(rows) \cap some
    OBVIOUS
  <1>3. A \cup B = some /\ A \cap B = {}
    BY <1>1, <1>2 DEF FromHorizon, BelowHorizon
  <1>4. IsFiniteSet(some)
    BY FS_Subset
  <1>5. A \in SUBSET some /\ B \in SUBSET some
    BY <1>3
  <1>6. IsFiniteSet(A) /\ IsFiniteSet(B)
    BY <1>4, <1>5, FS_Subset
  <1>7. Cardinality(A \cup B) = Cardinality(A) + Cardinality(B)
    BY <1>3, <1>6, DisjointUnion
  <1> QED
    BY <1>1, <1>2, <1>3, <1>4, <1>6, <1>7, FS_CardinalityType

LEMMA ArchivedIs ==
  ASSUME IInv, NEW judged, hourlyStats = FoldJudged(BelowHorizon(reportedObservations), judged),
         NEW h, NEW s, NEW sources
  PROVE  Archived(h, s, sources)
           = Cardinality({o \in BelowHorizon(reportedObservations) :
                            /\ o.hour = h /\ o.subject = s
                            /\ ArchiveSource(o, judged[o.hour]) \in sources})
  <1>1. PICK rows \in SUBSET reportedObservations : rows = BelowHorizon(reportedObservations)
    BY DEF BelowHorizon
  <1>2. IsFiniteSet(rows)
    BY FS_Subset DEF IInv, TablesFollowHorizon
  <1>3. PICK keys \in SUBSET (DOMAIN hourlyStats) :
          keys = {k \in DOMAIN hourlyStats :
                    k.hour = h /\ k.subject = s /\ k.source \in sources}
    OBVIOUS
  <1>4. hourlyStats = FoldJudged(rows, judged)
    BY <1>1
  <1>5. SumFunction([k \in keys |-> hourlyStats[k].count])
          = Cardinality({o \in rows : Label(o, judged) \in keys})
    BY <1>2, <1>4, StatsAddUp
  <1>6. \A o \in rows : Label(o, judged) \in DOMAIN hourlyStats
    BY <1>4 DEF FoldJudged
  <1>7. \A o \in rows :
          Label(o, judged) \in keys
            <=> /\ o.hour = h /\ o.subject = s
                /\ ArchiveSource(o, judged[o.hour]) \in sources
    BY <1>3, <1>6, LabelIs
  <1>8. {o \in rows : Label(o, judged) \in keys}
          = {o \in rows : /\ o.hour = h /\ o.subject = s
                          /\ ArchiveSource(o, judged[o.hour]) \in sources}
    BY <1>7
  <1>9. Archived(h, s, sources) = SumFunction([k \in keys |-> hourlyStats[k].count])
    BY <1>3 DEF Archived
  <1> QED
    BY <1>1, <1>5, <1>8, <1>9

LEMMA RowsKnown ==
  ASSUME IInv
  PROVE  /\ IsFiniteSet(reportedObservations) /\ IsFiniteSet(reportedOutcomes)
         /\ \A o \in reportedObservations : o.hour \in Int /\ o.hour \in Hours
         /\ \A o \in reportedOutcomes : o.hour \in Int /\ o.hour \in Hours
         /\ horizon \in Int
         /\ observations = FromHorizon(reportedObservations)
         /\ outcomes = FromHorizon(reportedOutcomes)
  BY DEF IInv, TypeOK, Observation, Outcome, Hours, TablesFollowHorizon

LEMMA ConservedObservations == IInv /\ StatsInv => ObservationsConserved
  <1> DEFINE Of(src) == IF src = "agent" THEN {"agent", "agent_sparse"} ELSE {src}
             Here(rows, h, s, src) ==
               {o \in rows : o.hour = h /\ o.subject = s /\ o.source = src}
             Sound(h, s, src) ==
               Cardinality(Here(observations, h, s, src)) + Archived(h, s, Of(src))
                 = Cardinality(Here(reportedObservations, h, s, src))
  <1> SUFFICES ASSUME IInv, StatsInv, NEW h \in Hours, NEW s \in Subjects, NEW src \in Sources
               PROVE  Sound(h, s, src)
    BY Zenon DEF ObservationsConserved
  <1> DEFINE labels == IF src = "agent" THEN {"agent", "agent_sparse"} ELSE {src}
  <1>1. PICK judged : hourlyStats = FoldJudged(BelowHorizon(reportedObservations), judged)
    BY DEF StatsInv, StatsFollowHorizon
  <1>2. PICK here \in SUBSET reportedObservations :
          here = {o \in reportedObservations : o.hour = h /\ o.subject = s /\ o.source = src}
    OBVIOUS
  <1>3. {o \in observations : o.hour = h /\ o.subject = s /\ o.source = src}
          = FromHorizon(reportedObservations) \cap here
    BY <1>2, RowsKnown DEF FromHorizon
  <1>4. Archived(h, s, labels) = Cardinality(BelowHorizon(reportedObservations) \cap here)
    <2>1. "agent_sparse" \notin Sources
      BY EvidenceAssumption
    <2>2. \A o \in reportedObservations : o.source \in Sources
      BY DEF IInv, TypeOK, Observation
    <2>3. \A o \in reportedObservations :
            ArchiveSource(o, judged[o.hour]) \in labels <=> o.source = src
      BY <2>1, <2>2 DEF ArchiveSource
    <2>4. {o \in BelowHorizon(reportedObservations) :
             /\ o.hour = h /\ o.subject = s
             /\ ArchiveSource(o, judged[o.hour]) \in labels}
            = BelowHorizon(reportedObservations) \cap here
      BY <1>2, <2>3 DEF BelowHorizon
    <2> HIDE DEF labels
    <2> QED
      BY <1>1, <2>4, ArchivedIs
  <1>5. Cardinality(FromHorizon(reportedObservations) \cap here)
          + Cardinality(BelowHorizon(reportedObservations) \cap here) = Cardinality(here)
    BY RowsKnown, RawAndArchived
  <1> QED
    BY <1>2, <1>3, <1>4, <1>5

LEMMA EarnedAdoption == IInv /\ StatsInv => AdoptionEarned
  <1> SUFFICES ASSUME IInv, StatsInv, NEW h \in Hours, NEW s \in Subjects
               PROVE  Archived(h, s, {"agent"}) <=
                        Cardinality({o \in reportedObservations :
                          /\ o.hour = h /\ o.subject = s /\ o.source = "agent"
                          /\ o.reporter \in EstablishedReporters(reportedObservations)})
    BY DEF AdoptionEarned
  <1>1. PICK judged \in [Hours -> SUBSET EstablishedReporters(reportedObservations)] :
          hourlyStats = FoldJudged(BelowHorizon(reportedObservations), judged)
    BY DEF StatsInv, StatsFollowHorizon
  <1>2. PICK some \in SUBSET reportedObservations :
          some = {o \in BelowHorizon(reportedObservations) :
                    /\ o.hour = h /\ o.subject = s
                    /\ ArchiveSource(o, judged[o.hour]) \in {"agent"}}
    BY DEF BelowHorizon
  <1>3. PICK earned \in SUBSET reportedObservations :
          earned = {o \in reportedObservations :
                      /\ o.hour = h /\ o.subject = s /\ o.source = "agent"
                      /\ o.reporter \in EstablishedReporters(reportedObservations)}
    OBVIOUS
  <1>4. some \subseteq earned
    <2> SUFFICES ASSUME NEW o \in some PROVE o \in earned
      OBVIOUS
    <2>1. /\ o \in reportedObservations /\ o.hour = h /\ o.subject = s
          /\ ArchiveSource(o, judged[o.hour]) = "agent"
      BY <1>2
    <2>2. o.source = "agent" /\ o.reporter \in judged[o.hour]
      BY <2>1 DEF ArchiveSource
    <2>3. judged[o.hour] \in SUBSET EstablishedReporters(reportedObservations)
      BY <2>1, RowsKnown
    <2> QED
      BY <1>3, <2>1, <2>2, <2>3
  <1>5. Cardinality(some) <= Cardinality(earned)
    <2>1. IsFiniteSet(earned)
      BY RowsKnown, FS_Subset
    <2> QED
      BY <1>4, <2>1, FS_Subset
  <1>6. Archived(h, s, {"agent"}) = Cardinality(some)
    BY <1>1, <1>2, ArchivedIs
  <1> QED
    BY <1>3, <1>5, <1>6

(* The archive of observations says of every hour what its rows said: how  *)
(* many of each source there were, and which of them an established        *)
(* reporter had sent.                                                      *)
THEOREM ArchiveIsEarned ==
  ASSUME OnePruner
  PROVE  Spec => []ArchiveEarned
  <1>1. IInv /\ StatsInv => ArchiveEarned
    BY ConservedObservations, EarnedAdoption DEF ArchiveEarned
  <1> QED
    BY <1>1, StatsTruthful, PTL

-----------------------------------------------------------------------------
(* The ledger: lifetime counts that only grow, one report at a time.       *)

OutcomesOf(rows, f, a) == {o \in rows : o.fingerprint = f /\ o.action = a}
ObservationsOf(rows, s) == {o \in rows : o.subject = s}

LEMMA LifetimeCountIs ==
  ASSUME IInv, StatsInv, NEW s
  PROVE  LifetimeCount(s) = Cardinality(ObservationsOf(reportedObservations, s))
  <1>1. PICK judged : hourlyStats = FoldJudged(BelowHorizon(reportedObservations), judged)
    BY DEF StatsInv, StatsFollowHorizon
  <1>2. PICK some \in SUBSET reportedObservations :
          some = ObservationsOf(reportedObservations, s)
    BY DEF ObservationsOf
  <1>3. PICK rows \in SUBSET reportedObservations : rows = BelowHorizon(reportedObservations)
    BY DEF BelowHorizon
  <1>4. IsFiniteSet(rows) /\ hourlyStats = FoldJudged(rows, judged)
    BY <1>1, <1>3, RowsKnown, FS_Subset
  <1>5. PICK keys \in SUBSET (DOMAIN hourlyStats) :
          keys = {k \in DOMAIN hourlyStats : k.subject = s}
    OBVIOUS
  <1>6. SumFunction([k \in keys |-> hourlyStats[k].count])
          = Cardinality({o \in rows : Label(o, judged) \in keys})
    BY <1>4, StatsAddUp
  <1>7. \A o \in rows : Label(o, judged) \in DOMAIN hourlyStats
    BY <1>4 DEF FoldJudged
  <1>8. {o \in rows : Label(o, judged) \in keys} = rows \cap some
    BY <1>2, <1>5, <1>7, LabelIs DEF ObservationsOf
  <1>9. {o \in observations : o.subject = s} = FromHorizon(reportedObservations) \cap some
    BY <1>2, RowsKnown DEF FromHorizon, ObservationsOf
  <1>10. Cardinality(FromHorizon(reportedObservations) \cap some)
           + Cardinality(rows \cap some) = Cardinality(some)
    BY <1>3, RowsKnown, RawAndArchived
  <1>11. LifetimeCount(s) = Cardinality({o \in observations : o.subject = s})
                              + SumFunction([k \in keys |-> hourlyStats[k].count])
    BY <1>5 DEF LifetimeCount
  <1> QED
    BY <1>2, <1>6, <1>8, <1>9, <1>10, <1>11

LEMMA LifetimeEvidenceIs ==
  ASSUME IInv, NEW f, NEW a
  PROVE  LifetimeEvidence(f, a)
           = [attempts  |-> Cardinality(OutcomesOf(reportedOutcomes, f, a)),
              successes |-> Cardinality(Worked(OutcomesOf(reportedOutcomes, f, a)))]
  <1>1. PICK some \in SUBSET reportedOutcomes : some = OutcomesOf(reportedOutcomes, f, a)
    BY DEF OutcomesOf
  <1>2. PICK good \in SUBSET reportedOutcomes : good = Worked(some)
    BY DEF Worked
  <1>3. PICK rows \in SUBSET reportedOutcomes : rows = BelowHorizon(reportedOutcomes)
    BY DEF BelowHorizon
  <1>4. IsFiniteSet(rows) /\ hourlyRecovery = FoldOutcomes(rows)
    BY <1>3, RowsKnown, FS_Subset DEF IInv, TablesFollowHorizon
  <1>5. PICK keys \in SUBSET (DOMAIN hourlyRecovery) :
          keys = {k \in DOMAIN hourlyRecovery : k.fingerprint = f /\ k.action = a}
    OBVIOUS
  <1>6. /\ SumFunction([k \in keys |-> hourlyRecovery[k].attempts])
             = Cardinality({o \in rows : RecoveryKeyOf(o) \in keys})
        /\ SumFunction([k \in keys |-> hourlyRecovery[k].successes])
             = Cardinality({o \in Worked(rows) : RecoveryKeyOf(o) \in keys})
    <2>1. AddsUp(hourlyRecovery, keys, rows)
      BY <1>4, OutcomesAddUp
    <2> QED
      BY <2>1 DEF AddsUp
  <1>7. \A o \in rows : RecoveryKeyOf(o) \in keys <=> o.fingerprint = f /\ o.action = a
    BY <1>4, <1>5 DEF FoldOutcomes, RecoveryKeyOf
  <1>8. {o \in rows : RecoveryKeyOf(o) \in keys} = rows \cap some
    BY <1>1, <1>7 DEF OutcomesOf
  <1>9. {o \in Worked(rows) : RecoveryKeyOf(o) \in keys} = rows \cap good
    BY <1>1, <1>2, <1>7 DEF OutcomesOf, Worked
  <1>10. PICK live : live = {o \in outcomes : o.fingerprint = f /\ o.action = a}
    OBVIOUS
  <1>11. /\ live = FromHorizon(reportedOutcomes) \cap some
         /\ Worked(live) = FromHorizon(reportedOutcomes) \cap good
    BY <1>1, <1>2, <1>10, RowsKnown DEF FromHorizon, OutcomesOf, Worked
  <1>12. /\ Cardinality(FromHorizon(reportedOutcomes) \cap some)
              + Cardinality(rows \cap some) = Cardinality(some)
         /\ Cardinality(FromHorizon(reportedOutcomes) \cap good)
              + Cardinality(rows \cap good) = Cardinality(good)
    BY <1>3, RowsKnown, RawAndArchived
  <1>13. LifetimeEvidence(f, a)
           = [attempts  |-> Cardinality(live)
                              + SumFunction([k \in keys |-> hourlyRecovery[k].attempts]),
              successes |-> Cardinality(Worked(live))
                              + SumFunction([k \in keys |-> hourlyRecovery[k].successes])]
    BY <1>5, <1>10 DEF LifetimeEvidence
  <1> QED
    BY <1>1, <1>2, <1>6, <1>8, <1>9, <1>11, <1>12, <1>13

EvidenceOf(rows) ==
  [f \in Fingerprints |-> [a \in Actions |->
     [attempts  |-> Cardinality(OutcomesOf(rows, f, a)),
      successes |-> Cardinality(Worked(OutcomesOf(rows, f, a)))]]]

SeenOf(rows) == [s \in Subjects |-> Cardinality(ObservationsOf(rows, s))]

(* The numbers a query adds up are counts of everything ever reported.     *)
LedgerTold ==
  /\ [f \in Fingerprints |-> [a \in Actions |-> LifetimeEvidence(f, a)]]
       = EvidenceOf(reportedOutcomes)
  /\ [s \in Subjects |-> LifetimeCount(s)] = SeenOf(reportedObservations)

LEMMA LedgerIsTold == IInv /\ StatsInv => LedgerTold
  <1> SUFFICES ASSUME IInv, StatsInv PROVE LedgerTold
    OBVIOUS
  <1>1. [f \in Fingerprints |-> [a \in Actions |-> LifetimeEvidence(f, a)]]
          = EvidenceOf(reportedOutcomes)
    BY LifetimeEvidenceIs DEF EvidenceOf
  <1>2. [s \in Subjects |-> LifetimeCount(s)] = SeenOf(reportedObservations)
    BY LifetimeCountIs DEF SeenOf
  <1> QED
    BY <1>1, <1>2 DEF LedgerTold

LEMMA OneMore ==
  ASSUME NEW rows, IsFiniteSet(rows), NEW row, row \notin rows
  PROVE  /\ Cardinality(rows) \in Nat
         /\ Cardinality(rows \cup {row}) = Cardinality(rows) + 1
  BY FS_AddElement, FS_CardinalityType

(* A report of an outcome is one more attempt of its action on its         *)
(* failure, a success of it if it worked, and nothing to any other.        *)
LEMMA EvidenceGrows ==
  ASSUME NEW rows, IsFiniteSet(rows), NEW row, row \notin rows,
         row.fingerprint \in Fingerprints, row.action \in Actions, row.successful \in BOOLEAN
  PROVE  EvidenceOf(rows \cup {row})
           = [EvidenceOf(rows) EXCEPT ![row.fingerprint][row.action] =
                [attempts  |-> @.attempts + 1,
                 successes |-> @.successes + IF row.successful THEN 1 ELSE 0]]
  <1> DEFINE now(f, a) == [attempts  |-> Cardinality(OutcomesOf(rows, f, a)),
                           successes |-> Cardinality(Worked(OutcomesOf(rows, f, a)))]
             next(f, a) ==
               [attempts  |-> Cardinality(OutcomesOf(rows \cup {row}, f, a)),
                successes |-> Cardinality(Worked(OutcomesOf(rows \cup {row}, f, a)))]
  <1>1. ASSUME NEW f, NEW a, ~(f = row.fingerprint /\ a = row.action)
        PROVE  next(f, a) = now(f, a)
    <2>1. OutcomesOf(rows \cup {row}, f, a) = OutcomesOf(rows, f, a)
      BY <1>1 DEF OutcomesOf
    <2> QED
      BY <2>1
  <1>2. next(row.fingerprint, row.action)
          = [attempts  |-> now(row.fingerprint, row.action).attempts + 1,
             successes |-> now(row.fingerprint, row.action).successes
                             + IF row.successful THEN 1 ELSE 0]
    <2>1. PICK here \in SUBSET rows : here = OutcomesOf(rows, row.fingerprint, row.action)
      BY DEF OutcomesOf
    <2>2. PICK good \in SUBSET rows : good = Worked(here)
      BY DEF Worked
    <2>3. /\ OutcomesOf(rows \cup {row}, row.fingerprint, row.action) = here \cup {row}
          /\ Worked(here \cup {row}) = IF row.successful THEN good \cup {row} ELSE good
      BY <2>1, <2>2 DEF OutcomesOf, Worked
    <2>4. /\ IsFiniteSet(here) /\ IsFiniteSet(good)
          /\ row \notin here /\ row \notin good
      BY FS_Subset
    <2>5. /\ Cardinality(here \cup {row}) = Cardinality(here) + 1
          /\ Cardinality(good \cup {row}) = Cardinality(good) + 1
          /\ Cardinality(good) \in Nat
      BY <2>4, OneMore
    <2>6. Cardinality(Worked(here \cup {row}))
            = Cardinality(good) + IF row.successful THEN 1 ELSE 0
      <3>1. CASE row.successful
        BY <2>3, <2>5, <3>1
      <3>2. CASE ~row.successful
        BY <2>3, <2>5, <3>2
      <3> QED
        BY <3>1, <3>2
    <2> QED
      BY <2>1, <2>2, <2>3, <2>5, <2>6
  <1>3. /\ EvidenceOf(rows) = [f \in Fingerprints |-> [a \in Actions |-> now(f, a)]]
        /\ EvidenceOf(rows \cup {row})
             = [f \in Fingerprints |-> [a \in Actions |-> next(f, a)]]
    BY DEF EvidenceOf
  <1> HIDE DEF now, next
  <1>4. PICK more :
          more = [attempts  |-> now(row.fingerprint, row.action).attempts + 1,
                  successes |-> now(row.fingerprint, row.action).successes
                                  + IF row.successful THEN 1 ELSE 0]
    OBVIOUS
  <1>5. [EvidenceOf(rows) EXCEPT ![row.fingerprint][row.action] =
           [attempts  |-> @.attempts + 1,
            successes |-> @.successes + IF row.successful THEN 1 ELSE 0]]
          = [EvidenceOf(rows) EXCEPT ![row.fingerprint][row.action] = more]
    <2>1. EvidenceOf(rows)[row.fingerprint][row.action] = now(row.fingerprint, row.action)
      BY <1>3
    <2> QED
      BY <1>4, <2>1, Zenon
  <1>6. [EvidenceOf(rows) EXCEPT ![row.fingerprint][row.action] = more]
          = [f \in Fingerprints |-> [a \in Actions |->
               IF f = row.fingerprint /\ a = row.action THEN more ELSE now(f, a)]]
    <2>1. [EvidenceOf(rows)[row.fingerprint] EXCEPT ![row.action] = more]
            = [a \in Actions |-> IF a = row.action THEN more ELSE now(row.fingerprint, a)]
      BY <1>3
    <2>2. [EvidenceOf(rows) EXCEPT ![row.fingerprint] =
             [EvidenceOf(rows)[row.fingerprint] EXCEPT ![row.action] = more]]
            = [f \in Fingerprints |-> [a \in Actions |->
                 IF f = row.fingerprint /\ a = row.action THEN more ELSE now(f, a)]]
      <3>1. PICK inner :
              inner = [EvidenceOf(rows)[row.fingerprint] EXCEPT ![row.action] = more]
        OBVIOUS
      <3>2. [EvidenceOf(rows) EXCEPT ![row.fingerprint] = inner]
              = [f \in Fingerprints |->
                   IF f = row.fingerprint THEN inner ELSE [a \in Actions |-> now(f, a)]]
        BY <1>3
      <3>3. \A f : (IF f = row.fingerprint THEN inner ELSE [a \in Actions |-> now(f, a)])
              = [a \in Actions |->
                   IF f = row.fingerprint /\ a = row.action THEN more ELSE now(f, a)]
        BY <2>1, <3>1
      <3> QED
        BY <3>1, <3>2, <3>3
    <2>3. [EvidenceOf(rows) EXCEPT ![row.fingerprint] =
             [EvidenceOf(rows)[row.fingerprint] EXCEPT ![row.action] = more]]
            = [EvidenceOf(rows) EXCEPT ![row.fingerprint][row.action] = more]
      BY Zenon
    <2> QED
      BY <2>2, <2>3
  <1>7. \A f, a : next(f, a) = IF f = row.fingerprint /\ a = row.action THEN more ELSE now(f, a)
    BY <1>1, <1>2, <1>4
  <1> QED
    BY <1>3, <1>5, <1>6, <1>7

LEMMA SeenGrows ==
  ASSUME NEW rows, IsFiniteSet(rows), NEW row, row \notin rows, row.subject \in Subjects
  PROVE  SeenOf(rows \cup {row}) = [SeenOf(rows) EXCEPT ![row.subject] = @ + 1]
  <1>1. ASSUME NEW s, s # row.subject
        PROVE  ObservationsOf(rows \cup {row}, s) = ObservationsOf(rows, s)
    BY <1>1 DEF ObservationsOf
  <1>2. Cardinality(ObservationsOf(rows \cup {row}, row.subject))
          = Cardinality(ObservationsOf(rows, row.subject)) + 1
    <2>1. PICK here \in SUBSET rows : here = ObservationsOf(rows, row.subject)
      BY DEF ObservationsOf
    <2>2. ObservationsOf(rows \cup {row}, row.subject) = here \cup {row}
      BY <2>1 DEF ObservationsOf
    <2>3. IsFiniteSet(here) /\ row \notin here
      BY FS_Subset
    <2>4. Cardinality(here \cup {row}) = Cardinality(here) + 1
      BY <2>3, OneMore
    <2> QED
      BY <2>1, <2>2, <2>4
  <1> QED
    BY <1>1, <1>2 DEF SeenOf

LEMMA LedgerStarts == Init /\ LedgerTold => Ledger!Init
  <1> SUFFICES ASSUME Init, LedgerTold PROVE Ledger!Init
    OBVIOUS
  <1>1. /\ \A f, a : OutcomesOf({}, f, a) = {}
        /\ \A s : ObservationsOf({}, s) = {}
        /\ Worked({}) = {}
        /\ Cardinality({}) = 0
    BY FS_EmptySet DEF OutcomesOf, ObservationsOf, Worked
  <1>2. EvidenceOf({}) = [f \in Fingerprints |-> [a \in Actions |->
                            [attempts |-> 0, successes |-> 0]]]
    BY <1>1 DEF EvidenceOf
  <1>3. SeenOf({}) = [s \in Subjects |-> 0]
    BY <1>1 DEF SeenOf
  <1> QED
    BY <1>2, <1>3 DEF Init, LedgerTold, Ledger!Init

LEMMA LedgerSteps ==
  ASSUME IInv, LedgerTold, LedgerTold', [Next]_vars
  PROVE  [Ledger!Next]_<<[f \in Fingerprints |-> [a \in Actions |-> LifetimeEvidence(f, a)]],
                         [s \in Subjects |-> LifetimeCount(s)]>>
  <1> DEFINE evidence == [f \in Fingerprints |-> [a \in Actions |-> LifetimeEvidence(f, a)]]
             seen == [s \in Subjects |-> LifetimeCount(s)]
  <1>1. evidence = EvidenceOf(reportedOutcomes) /\ seen = SeenOf(reportedObservations)
    BY DEF LedgerTold
  <1>2. evidence' = EvidenceOf(reportedOutcomes') /\ seen' = SeenOf(reportedObservations')
    BY DEF LedgerTold, EvidenceOf, SeenOf, OutcomesOf, ObservationsOf, Worked
  <1>3. CASE RecordRecoveryOutcome
    <2>1. PICK row :
            /\ row.fingerprint \in Fingerprints /\ row.action \in Actions
            /\ row.successful \in BOOLEAN
            /\ row \notin reportedOutcomes
            /\ reportedOutcomes' = reportedOutcomes \cup {row}
      BY <1>3 DEF RecordRecoveryOutcome
    <2>2. UNCHANGED reportedObservations
      BY <1>3 DEF RecordRecoveryOutcome
    <2>3. evidence' = [evidence EXCEPT ![row.fingerprint][row.action] =
            [attempts  |-> @.attempts + 1,
             successes |-> @.successes + IF row.successful THEN 1 ELSE 0]]
      <3>1. PICK rows : rows = reportedOutcomes
        OBVIOUS
      <3>2. IsFiniteSet(rows) /\ row \notin rows
        BY <2>1, <3>1, RowsKnown
      <3>3. EvidenceOf(rows \cup {row})
              = [EvidenceOf(rows) EXCEPT ![row.fingerprint][row.action] =
                   [attempts  |-> @.attempts + 1,
                    successes |-> @.successes + IF row.successful THEN 1 ELSE 0]]
        BY ONLY <2>1, <3>2, EvidenceGrows
      <3> QED
        BY <1>1, <1>2, <2>1, <3>1, <3>3
    <2>4. seen' = seen
      BY <1>1, <1>2, <2>2
    <2>5. Ledger!Outcome(row.fingerprint, row.action, row.successful)
      BY <2>3, <2>4 DEF Ledger!Outcome
    <2> QED
      BY <2>1, <2>5 DEF Ledger!Next
  <1>4. CASE RecordObservation
    <2>1. PICK row :
            /\ row.subject \in Subjects
            /\ row \notin reportedObservations
            /\ reportedObservations' = reportedObservations \cup {row}
      BY <1>4 DEF RecordObservation
    <2>2. UNCHANGED reportedOutcomes
      BY <1>4 DEF RecordObservation
    <2>3. seen' = [seen EXCEPT ![row.subject] = @ + 1]
      <3>1. PICK rows : rows = reportedObservations
        OBVIOUS
      <3>2. IsFiniteSet(rows) /\ row \notin rows
        BY <2>1, <3>1, RowsKnown
      <3>3. SeenOf(rows \cup {row}) = [SeenOf(rows) EXCEPT ![row.subject] = @ + 1]
        BY ONLY <2>1, <3>2, SeenGrows
      <3> QED
        BY <1>1, <1>2, <2>1, <3>1, <3>3
    <2>4. evidence' = evidence
      BY <1>1, <1>2, <2>2
    <2>5. Ledger!Observe(row.subject)
      BY <2>3, <2>4 DEF Ledger!Observe
    <2> QED
      BY <2>1, <2>5 DEF Ledger!Next
  <1>5. CASE ~RecordRecoveryOutcome /\ ~RecordObservation
    <2>1. UNCHANGED <<reportedObservations, reportedOutcomes>>
      BY <1>5 DEF Next, Tick, RecordPrivate, PruneObservations, PruneOutcomes, PruneCommit,
                  PruneRollback, PruneCrash, vars, archives, history
    <2>2. evidence' = evidence /\ seen' = seen
      BY <1>1, <1>2, <2>1
    <2> QED
      BY <2>2
  <1> QED
    BY <1>3, <1>4, <1>5

(* Pruning, crashing and starting again are invisible in the lifetime      *)
(* numbers that a query answers with: they begin at nothing and change by  *)
(* exactly one report at a time.                                           *)
THEOREM LedgerKept ==
  ASSUME OnePruner
  PROVE  Spec => ImplementsLedger
  <1>1. IInv /\ StatsInv => LedgerTold
    BY LedgerIsTold
  <1>2. Init /\ LedgerTold => Ledger!Init
    BY LedgerStarts
  <1>3. IInv /\ LedgerTold /\ LedgerTold' /\ [Next]_vars
          => [Ledger!Next]_<<[f \in Fingerprints |-> [a \in Actions |-> LifetimeEvidence(f, a)]],
                             [s \in Subjects |-> LifetimeCount(s)]>>
    BY LedgerSteps
  <1>4. Spec => [](IInv /\ StatsInv)
    BY OnePruner, StatsTruthful
  <1> QED
    BY <1>1, <1>2, <1>3, <1>4, PTL DEF Spec, ImplementsLedger, Ledger!Spec

-----------------------------------------------------------------------------
(* Readers beside the pruner.                                              *)

(* A reader writes nothing: what was proved of the tables holds beside it. *)
THEOREM TablesGoOn == ReadsSpec => Spec
  <1>1. ReadsInit => Init
    BY DEF ReadsInit
  <1>2. [ReadsNext]_readVars => [Next]_vars
    BY DEF ReadsNext, readVars
  <1> QED
    BY <1>1, <1>2, PTL DEF ReadsSpec, Spec

LEMMA ArchivedTotalIs ==
  ASSUME IInv, StatsInv, NEW f
  PROVE  ArchivedTotal(f)
           = Cardinality(ObservationsAbout(BelowHorizon(reportedObservations), f))
  <1>1. PICK judged : hourlyStats = FoldJudged(BelowHorizon(reportedObservations), judged)
    BY DEF StatsInv, StatsFollowHorizon
  <1>2. PICK rows \in SUBSET reportedObservations : rows = BelowHorizon(reportedObservations)
    BY DEF BelowHorizon
  <1>3. IsFiniteSet(rows) /\ hourlyStats = FoldJudged(rows, judged)
    BY <1>1, <1>2, RowsKnown, FS_Subset
  <1>4. PICK keys \in SUBSET (DOMAIN hourlyStats) :
          keys = {k \in DOMAIN hourlyStats : k.subject = f}
    OBVIOUS
  <1>5. SumFunction([k \in keys |-> hourlyStats[k].count])
          = Cardinality({o \in rows : Label(o, judged) \in keys})
    BY <1>3, StatsAddUp
  <1>6. \A o \in rows : Label(o, judged) \in DOMAIN hourlyStats
    BY <1>3 DEF FoldJudged
  <1>7. {o \in rows : Label(o, judged) \in keys} = ObservationsAbout(rows, f)
    BY <1>4, <1>6, LabelIs DEF ObservationsAbout
  <1>8. ArchivedTotal(f) = SumFunction([k \in keys |-> hourlyStats[k].count])
    BY <1>4 DEF ArchivedTotal
  <1> QED
    BY <1>2, <1>5, <1>7, <1>8

LEMMA ArchivedAttemptsIs ==
  ASSUME IInv, NEW f
  PROVE  ArchivedAttempts(f) = Cardinality(OutcomesAbout(BelowHorizon(reportedOutcomes), f))
  <1>1. PICK rows \in SUBSET reportedOutcomes : rows = BelowHorizon(reportedOutcomes)
    BY DEF BelowHorizon
  <1>2. PICK archive : archive = hourlyRecovery
    OBVIOUS
  <1>3. IsFiniteSet(rows) /\ archive = FoldOutcomes(rows)
    BY <1>1, <1>2, RowsKnown, FS_Subset DEF IInv, TablesFollowHorizon
  <1>4. PICK keys \in SUBSET (DOMAIN archive) :
          keys = {k \in DOMAIN archive : k.fingerprint = f}
    OBVIOUS
  <1>5. AddsUp(archive, keys, rows)
    BY <1>3, OutcomesAddUp
  <1>6. {o \in rows : RecoveryKeyOf(o) \in keys} = OutcomesAbout(rows, f)
    BY <1>3, <1>4 DEF FoldOutcomes, RecoveryKeyOf, OutcomesAbout
  <1>7. ArchivedAttempts(f) = SumFunction([k \in keys |-> archive[k].attempts])
    BY <1>2, <1>4 DEF ArchivedAttempts
  <1> QED
    BY <1>1, <1>5, <1>6, <1>7 DEF AddsUp

(* Rows are only ever added, and the horizon only moves on.                *)
LEMMA ArchiveGrows ==
  ASSUME IInv, [Next]_vars
  PROVE  /\ BelowHorizon(reportedObservations) \subseteq BelowHorizon(reportedObservations)'
         /\ BelowHorizon(reportedOutcomes) \subseteq BelowHorizon(reportedOutcomes)'
  <1>1. /\ reportedObservations \subseteq reportedObservations'
        /\ reportedOutcomes \subseteq reportedOutcomes'
    <2>1. CASE RecordObservation
      BY <2>1 DEF RecordObservation
    <2>2. CASE RecordRecoveryOutcome
      BY <2>2 DEF RecordRecoveryOutcome
    <2>3. CASE UNCHANGED <<reportedObservations, reportedOutcomes>>
      BY <2>3
    <2> QED
      BY <2>1, <2>2, <2>3
      DEF Next, Tick, RecordPrivate, PruneObservations, PruneOutcomes, PruneCommit,
          PruneRollback, PruneCrash, vars, archives, history
  <1>2. horizon \in Int /\ horizon' \in Int /\ horizon' >= horizon
    <2>1. \A p \in Pruners : pruner[p].cutoff.hour \in Int
      BY DEF IInv, TypeOK, PrunerOK, Time
    <2>2. ASSUME NEW p \in Pruners, PruneCommit(p)
          PROVE  horizon' \in Int /\ horizon' >= horizon
      BY <2>1, <2>2, RowsKnown DEF PruneCommit, Larger
    <2>3. CASE UNCHANGED horizon
      BY <2>3, RowsKnown
    <2> QED
      BY <2>2, <2>3, RowsKnown
      DEF Next, Tick, RecordObservation, RecordRecoveryOutcome, RecordPrivate,
          PruneObservations, PruneOutcomes, PruneRollback, PruneCrash,
          vars, archives, history
  <1> QED
    BY <1>1, <1>2, RowsKnown DEF BelowHorizon

LEMMA FoundGrows ==
  ASSUME NEW few, NEW many, few \subseteq many, IsFiniteSet(many), NEW f
  PROVE  /\ Cardinality(ObservationsAbout(few, f)) <= Cardinality(ObservationsAbout(many, f))
         /\ Cardinality(OutcomesAbout(few, f)) <= Cardinality(OutcomesAbout(many, f))
         /\ Cardinality(ObservationsAbout(few, f)) \in Nat
         /\ Cardinality(ObservationsAbout(many, f)) \in Nat
         /\ Cardinality(OutcomesAbout(few, f)) \in Nat
         /\ Cardinality(OutcomesAbout(many, f)) \in Nat
  <1>1. /\ ObservationsAbout(few, f) \in SUBSET ObservationsAbout(many, f)
        /\ OutcomesAbout(few, f) \in SUBSET OutcomesAbout(many, f)
        /\ ObservationsAbout(many, f) \in SUBSET many
        /\ OutcomesAbout(many, f) \in SUBSET many
    BY DEF ObservationsAbout, OutcomesAbout
  <1>2. IsFiniteSet(ObservationsAbout(many, f)) /\ IsFiniteSet(OutcomesAbout(many, f))
    BY <1>1, FS_Subset
  <1>3. IsFiniteSet(ObservationsAbout(few, f)) /\ IsFiniteSet(OutcomesAbout(few, f))
    BY <1>1, <1>2, FS_Subset
  <1> QED
    BY <1>1, <1>2, <1>3, FS_Subset, FS_CardinalityType

LEMMA ReadersStart == ReadsInit => ReadersInv
  <1> SUFFICES ASSUME ReadsInit PROVE ReadersInv
    OBVIOUS
  <1>1. reader \in [Readers -> ReaderState]
    BY DEF ReadsInit, IdleReader, ReaderState
  <1>2. \A r \in Readers : reader[r].floor = 0 /\ reader[r].count = 0 /\ reader[r].pc = "idle"
    BY DEF ReadsInit, IdleReader
  <1>3. Cardinality({}) = 0
    BY FS_EmptySet
  <1> QED
    BY <1>1, <1>2, <1>3 DEF ReadersInv, Covered

LEMMA CoveredStays ==
  ASSUME NEW read \in ReaderState, NEW few, NEW many, few \subseteq many, IsFiniteSet(many),
         NEW less, NEW more, less \subseteq more, IsFiniteSet(more), Covered(read, few, less)
  PROVE  Covered(read, many, more)
  <1>1. read.count \in Nat /\ read.floor \in Nat
    BY DEF ReaderState
  <1>2. CASE read.pc = "stats"
    <2>1. /\ Cardinality(ObservationsAbout(few, read.fingerprint))
               <= Cardinality(ObservationsAbout(many, read.fingerprint))
          /\ Cardinality(ObservationsAbout(few, read.fingerprint)) \in Nat
          /\ Cardinality(ObservationsAbout(many, read.fingerprint)) \in Nat
      BY FoundGrows
    <2> QED
      BY <1>1, <1>2, <2>1 DEF Covered
  <1>3. CASE read.pc \in {"recent", "archived"}
    <2>1. /\ Cardinality(OutcomesAbout(less, read.fingerprint))
               <= Cardinality(OutcomesAbout(more, read.fingerprint))
          /\ Cardinality(OutcomesAbout(less, read.fingerprint)) \in Nat
          /\ Cardinality(OutcomesAbout(more, read.fingerprint)) \in Nat
      BY FoundGrows
    <2> QED
      BY <1>1, <1>3, <2>1 DEF Covered
  <1>4. CASE read.pc \notin {"stats", "recent", "archived"}
    BY <1>4 DEF Covered
  <1> QED
    BY <1>2, <1>3, <1>4

LEMMA StoreStep ==
  ASSUME IInv, IInv', [Next]_vars, ReadersInv, UNCHANGED reader
  PROVE  ReadersInv'
  <1>1. PICK few : few = BelowHorizon(reportedObservations)
    OBVIOUS
  <1>2. PICK less : less = BelowHorizon(reportedOutcomes)
    OBVIOUS
  <1>3. PICK many : many = BelowHorizon(reportedObservations)'
    OBVIOUS
  <1>4. PICK more : more = BelowHorizon(reportedOutcomes)'
    OBVIOUS
  <1>5. few \subseteq many /\ less \subseteq more
    BY <1>1, <1>2, <1>3, <1>4, ArchiveGrows
  <1>6. IsFiniteSet(many) /\ IsFiniteSet(more)
    <2>1. many \in SUBSET (reportedObservations') /\ more \in SUBSET (reportedOutcomes')
      BY <1>3, <1>4 DEF BelowHorizon
    <2>2. IsFiniteSet(reportedObservations') /\ IsFiniteSet(reportedOutcomes')
      BY DEF IInv, TablesFollowHorizon
    <2> QED
      BY <2>1, <2>2, FS_Subset
  <1>7. ASSUME NEW r \in Readers
        PROVE  Covered(reader[r], many, more)
    <2>1. PICK read \in ReaderState : read = reader[r]
      BY DEF ReadersInv
    <2>2. Covered(read, few, less)
      BY <1>1, <1>2, <2>1 DEF ReadersInv
    <2>3. Covered(read, many, more)
      BY ONLY read \in ReaderState, <1>5, <1>6, <2>2, CoveredStays
    <2> QED
      BY <2>1, <2>3
  <1>8. reader' \in [Readers -> ReaderState]
    BY DEF ReadersInv
  <1>9. \A r \in Readers :
          Covered(reader[r], BelowHorizon(reportedObservations), BelowHorizon(reportedOutcomes))'
    BY <1>3, <1>4, <1>7 DEF Covered, ObservationsAbout, OutcomesAbout
  <1> QED
    BY <1>8, <1>9 DEF ReadersInv

LEMMA ReaderMoves ==
  ASSUME ReadersInv, UNCHANGED vars, NEW r \in Readers, NEW next \in ReaderState,
         reader' = [reader EXCEPT ![r] = next],
         Covered(next, BelowHorizon(reportedObservations), BelowHorizon(reportedOutcomes))
  PROVE  ReadersInv'
  <1>1. PICK few : few = BelowHorizon(reportedObservations)
    OBVIOUS
  <1>2. PICK less : less = BelowHorizon(reportedOutcomes)
    OBVIOUS
  <1>3. /\ BelowHorizon(reportedObservations)' = few
        /\ BelowHorizon(reportedOutcomes)' = less
    BY <1>1, <1>2 DEF vars, history, BelowHorizon
  <1>4. reader' \in [Readers -> ReaderState]
    BY DEF ReadersInv
  <1>5. ASSUME NEW q \in Readers
        PROVE  Covered(reader'[q], few, less)
    BY <1>1, <1>2 DEF ReadersInv
  <1>6. \A q \in Readers :
          Covered(reader[q], BelowHorizon(reportedObservations), BelowHorizon(reportedOutcomes))'
    BY <1>3, <1>5 DEF Covered, ObservationsAbout, OutcomesAbout
  <1> QED
    BY <1>4, <1>6 DEF ReadersInv

LEMMA AboutFinite ==
  ASSUME IInv, NEW f
  PROVE  /\ Cardinality(ObservationsAbout(BelowHorizon(reportedObservations), f)) \in Nat
         /\ Cardinality(OutcomesAbout(BelowHorizon(reportedOutcomes), f)) \in Nat
         /\ Cardinality(ObservationsAbout(reportedObservations, f)) \in Nat
         /\ Cardinality(OutcomesAbout(reportedOutcomes, f)) \in Nat
         /\ RawTotal(f) \in Nat /\ LiveAttempts(f) \in Nat
         /\ RawTotal(f) + Cardinality(ObservationsAbout(BelowHorizon(reportedObservations), f))
              = Cardinality(ObservationsAbout(reportedObservations, f))
         /\ LiveAttempts(f) + Cardinality(OutcomesAbout(BelowHorizon(reportedOutcomes), f))
              = Cardinality(OutcomesAbout(reportedOutcomes, f))
  <1>1. PICK some \in SUBSET reportedObservations :
          some = ObservationsAbout(reportedObservations, f)
    BY DEF ObservationsAbout
  <1>2. PICK told \in SUBSET reportedOutcomes : told = OutcomesAbout(reportedOutcomes, f)
    BY DEF OutcomesAbout
  <1>3. /\ ObservationsAbout(BelowHorizon(reportedObservations), f)
             = BelowHorizon(reportedObservations) \cap some
        /\ OutcomesAbout(BelowHorizon(reportedOutcomes), f)
             = BelowHorizon(reportedOutcomes) \cap told
    BY <1>1, <1>2 DEF ObservationsAbout, OutcomesAbout, BelowHorizon
  <1>4. /\ {o \in observations : o.subject = f} = FromHorizon(reportedObservations) \cap some
        /\ {o \in outcomes : o.fingerprint = f} = FromHorizon(reportedOutcomes) \cap told
    BY <1>1, <1>2, RowsKnown DEF ObservationsAbout, OutcomesAbout, FromHorizon
  <1>5. /\ Cardinality(FromHorizon(reportedObservations) \cap some) \in Nat
        /\ Cardinality(BelowHorizon(reportedObservations) \cap some) \in Nat
        /\ Cardinality(some) \in Nat
        /\ Cardinality(FromHorizon(reportedObservations) \cap some)
             + Cardinality(BelowHorizon(reportedObservations) \cap some) = Cardinality(some)
    BY RowsKnown, RawAndArchived
  <1>6. /\ Cardinality(FromHorizon(reportedOutcomes) \cap told) \in Nat
        /\ Cardinality(BelowHorizon(reportedOutcomes) \cap told) \in Nat
        /\ Cardinality(told) \in Nat
        /\ Cardinality(FromHorizon(reportedOutcomes) \cap told)
             + Cardinality(BelowHorizon(reportedOutcomes) \cap told) = Cardinality(told)
    BY RowsKnown, RawAndArchived
  <1> QED
    BY <1>1, <1>2, <1>3, <1>4, <1>5, <1>6 DEF RawTotal, LiveAttempts

LEMMA StatsReadStep ==
  ASSUME IInv, StatsInv, ReadersInv, UNCHANGED vars, NEW r \in Readers, StatsRead(r)
  PROVE  ReadersInv'
  <1>1. reader[r] \in ReaderState
        /\ Covered(reader[r], BelowHorizon(reportedObservations), BelowHorizon(reportedOutcomes))
    BY DEF ReadersInv
  <1>2. ASSUME NEW f \in Fingerprints, reader[r].pc = "idle",
               reader' = [reader EXCEPT ![r] =
                 [@ EXCEPT !.pc = "stats", !.fingerprint = f, !.count = RawTotal(f),
                           !.floor = Cardinality({o \in reportedObservations : o.subject = f})]]
        PROVE  ReadersInv'
    <2>1. PICK next : next = [reader[r] EXCEPT !.pc = "stats", !.fingerprint = f,
                                !.count = RawTotal(f),
                                !.floor = Cardinality(ObservationsAbout(reportedObservations, f))]
      OBVIOUS
    <2>2. /\ next \in ReaderState
          /\ next.pc = "stats" /\ next.fingerprint = f /\ next.count = RawTotal(f)
          /\ next.floor = Cardinality(ObservationsAbout(reportedObservations, f))
      BY <1>1, <2>1, AboutFinite DEF ReaderState
    <2>3. Covered(next, BelowHorizon(reportedObservations), BelowHorizon(reportedOutcomes))
      BY <2>2, AboutFinite DEF Covered
    <2>4. reader' = [reader EXCEPT ![r] = next]
      BY <1>2, <2>1 DEF ObservationsAbout
    <2> QED
      BY <2>2, <2>3, <2>4, ReaderMoves
  <1>3. ASSUME reader[r].pc = "stats",
               reader' = [reader EXCEPT ![r] =
                 [@ EXCEPT !.pc = "answered",
                           !.count = reader[r].count + ArchivedTotal(reader[r].fingerprint)]]
        PROVE  ReadersInv'
    <2>1. PICK f : f = reader[r].fingerprint
      OBVIOUS
    <2>2. PICK next : next = [reader[r] EXCEPT !.pc = "answered",
                                !.count = reader[r].count + ArchivedTotal(reader[r].fingerprint)]
      OBVIOUS
    <2>3. PICK old \in Nat : /\ old = ArchivedTotal(f)
                             /\ old = Cardinality(ObservationsAbout(
                                        BelowHorizon(reportedObservations), f))
      BY AboutFinite, ArchivedTotalIs
    <2>4. /\ next \in ReaderState
          /\ next.pc = "answered" /\ next.count = reader[r].count + old
          /\ next.floor = reader[r].floor
      <3>1. reader[r].count \in Nat /\ reader[r].count + old \in Nat
        BY <1>1 DEF ReaderState
      <3>2. next = [reader[r] EXCEPT !.pc = "answered", !.count = reader[r].count + old]
        BY <2>1, <2>2, <2>3
      <3> QED
        BY <1>1, <3>1, <3>2 DEF ReaderState
    <2>5. Covered(next, BelowHorizon(reportedObservations), BelowHorizon(reportedOutcomes))
      <3>1. reader[r].floor <= reader[r].count + old
        BY <1>1, <1>3, <2>1, <2>3 DEF Covered
      <3>2. reader[r].floor \in Nat /\ reader[r].count \in Nat
        BY <1>1 DEF ReaderState
      <3> QED
        BY <2>4, <3>1, <3>2, FS_EmptySet DEF Covered
    <2>6. reader' = [reader EXCEPT ![r] = next]
      BY <1>3, <2>2
    <2> QED
      BY <2>4, <2>5, <2>6, ReaderMoves
  <1> QED
    BY <1>2, <1>3, Zenon DEF StatsRead

LEMMA EvidenceReadStep ==
  ASSUME IInv, StatsInv, ReadersInv, UNCHANGED vars, NEW r \in Readers, EvidenceRead(r)
  PROVE  ReadersInv'
  <1>1. reader[r] \in ReaderState
        /\ Covered(reader[r], BelowHorizon(reportedObservations), BelowHorizon(reportedOutcomes))
    BY DEF ReadersInv
  <1>2. ASSUME NEW f \in Fingerprints, reader[r].pc = "idle",
               reader' = [reader EXCEPT ![r] =
                 [@ EXCEPT !.pc = "recent", !.fingerprint = f, !.count = LiveAttempts(f),
                           !.floor = Cardinality({o \in reportedOutcomes : o.fingerprint = f})]]
        PROVE  ReadersInv'
    <2>1. PICK next : next = [reader[r] EXCEPT !.pc = "recent", !.fingerprint = f,
                                !.count = LiveAttempts(f),
                                !.floor = Cardinality(OutcomesAbout(reportedOutcomes, f))]
      OBVIOUS
    <2>2. /\ next \in ReaderState
          /\ next.pc = "recent" /\ next.fingerprint = f /\ next.count = LiveAttempts(f)
          /\ next.floor = Cardinality(OutcomesAbout(reportedOutcomes, f))
      BY <1>1, <2>1, AboutFinite DEF ReaderState
    <2>3. Covered(next, BelowHorizon(reportedObservations), BelowHorizon(reportedOutcomes))
      BY <2>2, AboutFinite DEF Covered
    <2>4. reader' = [reader EXCEPT ![r] = next]
      BY <1>2, <2>1 DEF OutcomesAbout
    <2> QED
      BY <2>2, <2>3, <2>4, ReaderMoves
  <1>3. ASSUME reader[r].pc = "recent",
               reader' = [reader EXCEPT ![r] =
                 [@ EXCEPT !.pc = "archived", !.recent =
                   Cardinality({o \in Recent(outcomes) : o.fingerprint = reader[r].fingerprint})]]
        PROVE  ReadersInv'
    <2>1. PICK some : some = {o \in Recent(outcomes) : o.fingerprint = reader[r].fingerprint}
      OBVIOUS
    <2>2. Cardinality(some) \in Nat
      <3>1. some \in SUBSET reportedOutcomes
        BY <2>1, RowsKnown DEF Recent, FromHorizon
      <3> QED
        BY <3>1, RowsKnown, FS_Subset, FS_CardinalityType
    <2>3. PICK next : next = [reader[r] EXCEPT !.pc = "archived", !.recent = Cardinality(some)]
      OBVIOUS
    <2>4. /\ next \in ReaderState
          /\ next.pc = "archived" /\ next.fingerprint = reader[r].fingerprint
          /\ next.count = reader[r].count /\ next.floor = reader[r].floor
      BY <1>1, <2>2, <2>3 DEF ReaderState
    <2>5. Covered(next, BelowHorizon(reportedObservations), BelowHorizon(reportedOutcomes))
      BY <1>1, <1>3, <2>4 DEF Covered
    <2>6. reader' = [reader EXCEPT ![r] = next]
      BY <1>3, <2>1, <2>3
    <2> QED
      BY <2>4, <2>5, <2>6, ReaderMoves
  <1>4. ASSUME reader[r].pc = "archived",
               reader' = [reader EXCEPT ![r] =
                 [@ EXCEPT !.pc = "answered",
                           !.count = reader[r].count + ArchivedAttempts(reader[r].fingerprint)]]
        PROVE  ReadersInv'
    <2>1. PICK f : f = reader[r].fingerprint
      OBVIOUS
    <2>2. PICK next : next = [reader[r] EXCEPT !.pc = "answered",
                    !.count = reader[r].count + ArchivedAttempts(reader[r].fingerprint)]
      OBVIOUS
    <2>3. PICK old \in Nat :
            /\ old = ArchivedAttempts(f)
            /\ old = Cardinality(OutcomesAbout(BelowHorizon(reportedOutcomes), f))
      BY AboutFinite, ArchivedAttemptsIs
    <2>4. /\ next \in ReaderState
          /\ next.pc = "answered" /\ next.count = reader[r].count + old
          /\ next.floor = reader[r].floor
      <3>1. reader[r].count \in Nat /\ reader[r].count + old \in Nat
        BY <1>1 DEF ReaderState
      <3>2. next = [reader[r] EXCEPT !.pc = "answered", !.count = reader[r].count + old]
        BY <2>1, <2>2, <2>3
      <3> QED
        BY <1>1, <3>1, <3>2 DEF ReaderState
    <2>5. Covered(next, BelowHorizon(reportedObservations), BelowHorizon(reportedOutcomes))
      <3>1. reader[r].floor <= reader[r].count + old
        BY <1>1, <1>4, <2>1, <2>3 DEF Covered
      <3>2. reader[r].floor \in Nat /\ reader[r].count \in Nat
        BY <1>1 DEF ReaderState
      <3> QED
        BY <2>4, <3>1, <3>2, FS_EmptySet DEF Covered
    <2>6. reader' = [reader EXCEPT ![r] = next]
      BY <1>4, <2>2
    <2> QED
      BY <2>4, <2>5, <2>6, ReaderMoves
  <1> QED
    BY <1>2, <1>3, <1>4, Zenon DEF EvidenceRead

LEMMA ReturnStep ==
  ASSUME IInv, StatsInv, ReadersInv, UNCHANGED vars, NEW r \in Readers, Return(r)
  PROVE  ReadersInv'
  <1>1. PICK next : next = IdleReader
    OBVIOUS
  <1>2. next \in ReaderState /\ next.pc = "idle" /\ next.count = 0 /\ next.floor = 0
    BY <1>1 DEF IdleReader, ReaderState
  <1>3. Covered(next, BelowHorizon(reportedObservations), BelowHorizon(reportedOutcomes))
    BY <1>2, FS_EmptySet DEF Covered
  <1>4. reader' = [reader EXCEPT ![r] = next]
    BY <1>1 DEF Return
  <1> QED
    BY <1>2, <1>3, <1>4, ReaderMoves

(* No answer is short of what had been reported when its reader began,     *)
(* however many reports, prunes and crashes commit between its SELECTs:    *)
(* rows only move from the raw table to the archive, and the raw table is  *)
(* read first.                                                             *)
THEOREM NothingIsMissed ==
  ASSUME OnePruner
  PROVE  ReadsSpec => []ReadsMissNothing
  <1>1. ReadsInit => ReadersInv
    BY ReadersStart
  <1>2. IInv /\ StatsInv /\ IInv' /\ ReadersInv /\ [ReadsNext]_readVars => ReadersInv'
    <2> SUFFICES ASSUME IInv, StatsInv, IInv', ReadersInv, [ReadsNext]_readVars
                 PROVE  ReadersInv'
      OBVIOUS
    <2>1. CASE Next /\ UNCHANGED reader
      BY <2>1, StoreStep
    <2>2. ASSUME NEW r \in Readers, StatsRead(r) \/ EvidenceRead(r) \/ Return(r),
                 UNCHANGED vars
          PROVE  ReadersInv'
      BY <2>2, StatsReadStep, EvidenceReadStep, ReturnStep
    <2>3. CASE UNCHANGED readVars
      BY <2>3, StoreStep DEF readVars
    <2> QED
      BY <2>1, <2>2, <2>3 DEF ReadsNext
  <1>3. ReadersInv => ReadsMissNothing
    <2> SUFFICES ASSUME ReadersInv, NEW r \in Readers, reader[r].pc = "answered"
                 PROVE  reader[r].count >= reader[r].floor
      BY DEF ReadsMissNothing
    <2>1. /\ reader[r].count \in Nat /\ reader[r].floor \in Nat
          /\ reader[r].floor <= reader[r].count + Cardinality({})
      BY DEF ReadersInv, ReaderState, Covered
    <2> QED
      BY <2>1, FS_EmptySet
  <1>4. Spec => [](IInv /\ StatsInv)
    BY OnePruner, StatsTruthful
  <1>5. ReadsSpec => Spec
    BY TablesGoOn
  <1> QED
    BY <1>1, <1>2, <1>3, <1>4, <1>5, PTL DEF ReadsSpec

-----------------------------------------------------------------------------
(* Pruning and the answers: capped evidence, grouped two ways.             *)

(* A share of a count is at most the share's size.                         *)
LEMMA ShareBounded ==
  ASSUME NEW s \in Nat, NEW n \in Nat, NEW m \in Nat, n > 0, s <= n
  PROVE  (s * m) \div n \in Nat /\ (s * m) \div n <= m
  <1>1. PICK q \in Int : q = (s * m) \div n
    OBVIOUS
  <1>2. PICK t \in Nat : t = s * m
    OBVIOUS
  <1>3. t <= n * m
    BY <1>2
  <1>4. q = t \div n
    BY <1>1, <1>2
  <1>5. q * n <= t /\ t < (q + 1) * n
    BY <1>4
  <1>6. q >= 0
    <2>1. SUFFICES ASSUME q + 1 <= 0
                   PROVE  FALSE
      OBVIOUS
    <2>2. (q + 1) * n <= 0
      BY <2>1
    <2> QED
      BY <1>5, <2>2
  <1>7. q <= m
    <2>1. SUFFICES ASSUME q >= m + 1
                   PROVE  FALSE
      OBVIOUS
    <2>2. q * n >= (m + 1) * n
      BY <2>1
    <2>3. (m + 1) * n = n * m + n
      OBVIOUS
    <2>4. q * n \in Int /\ n * m \in Int
      OBVIOUS
    <2> QED
      BY <1>3, <1>5, <2>2, <2>3, <2>4
  <1> QED
    BY <1>1, <1>6, <1>7

(* What one voice's rows weigh, and what rows weigh.                       *)
Measures == {"attempts", "successes"}

Weight(rows, what) ==
  IF what = "attempts" THEN CapAttempts(Cardinality(rows))
  ELSE CapSuccesses(Cardinality(rows), Cardinality(Worked(rows)))

Weights(rows, what) ==
  IF what = "attempts" THEN EffectiveAttempts(rows) ELSE EffectiveSuccesses(rows)

LEMMA WeightIs ==
  ASSUME NEW rows, IsFiniteSet(rows), NEW what \in Measures
  PROVE  Weight(rows, what) \in Nat /\ Weight(rows, what) <= Cardinality(rows)
  <1>1. PICK n \in Nat : n = Cardinality(rows)
    BY FS_CardinalityType
  <1>2. PICK s \in Nat : s = Cardinality(Worked(rows)) /\ s <= n
    <2>1. Worked(rows) \in SUBSET rows
      BY DEF Worked
    <2> QED
      BY <1>1, <2>1, SubsetsAre
  <1>3. PICK m \in Nat : m = Cap /\ m > 0
    BY EvidenceAssumption
  <1>4. CapAttempts(n) \in Nat /\ CapAttempts(n) <= n
    BY <1>3 DEF CapAttempts
  <1>5. CapSuccesses(n, s) \in Nat /\ CapSuccesses(n, s) <= n
    <2>1. CASE n <= m
      BY <1>2, <1>3, <2>1 DEF CapSuccesses
    <2>2. CASE n > m
      <3>1. (s * m) \div n \in Nat /\ (s * m) \div n <= m
        BY <1>2, <2>2, ShareBounded
      <3>2. CapSuccesses(n, s) = (s * m) \div n
        BY <1>3, <2>2 DEF CapSuccesses
      <3> QED
        BY <2>2, <3>1, <3>2
    <2> QED
      BY <2>1, <2>2
  <1> QED
    BY <1>1, <1>2, <1>4, <1>5 DEF Weight

LEMMA NoWeight ==
  ASSUME NEW what
  PROVE  Weight({}, what) = 0
  <1>1. Cardinality({}) = 0 /\ Worked({}) = {}
    BY FS_EmptySet DEF Worked
  <1>2. Cap \in Nat
    BY EvidenceAssumption
  <1> QED
    BY <1>1, <1>2 DEF Weight, CapAttempts, CapSuccesses

(* The weight of rows is the sum of what each voice's rows weigh.          *)
LEMMA WeightsAre ==
  ASSUME NEW rows, IsFiniteSet(rows), NEW what \in Measures
  PROVE  /\ [v \in Voices |-> Weight(By(rows, v), what)] \in [Voices -> Nat]
         /\ Weights(rows, what) = SumFunction([v \in Voices |-> Weight(By(rows, v), what)])
         /\ Weights(rows, what) \in Nat
  <1>1. PICK n \in Nat : n = Cardinality(rows)
    BY FS_CardinalityType
  <1>2. PICK w : w = [v \in Voices |-> Weight(By(rows, v), what)]
    OBVIOUS
  <1>3. ASSUME NEW v \in Voices
        PROVE  w[v] \in Nat /\ w[v] <= n
    <2>1. By(rows, v) \in SUBSET rows
      BY DEF By
    <2>2. PICK few : few = By(rows, v)
      OBVIOUS
    <2>3. IsFiniteSet(few) /\ Cardinality(few) \in Nat /\ Cardinality(few) <= n
      BY <1>1, <2>1, <2>2, SubsetsAre
    <2>4. Weight(few, what) \in Nat /\ Weight(few, what) <= Cardinality(few)
      BY <2>3, WeightIs
    <2> QED
      BY <1>1, <1>2, <2>2, <2>3, <2>4
  <1>4. w \in [Voices -> Nat]
    BY <1>2, <1>3
  <1>5. Cardinality({c \in Voices \X (1 .. n) : c[2] <= w[c[1]]}) = SumFunction(w)
    BY <1>3, <1>4, VoicesFinite, PairsCounted
  <1>6. {c \in Voices \X (1 .. n) : c[2] <= w[c[1]]}
          = {c \in Voices \X (1 .. n) : c[2] <= Weight(By(rows, c[1]), what)}
    BY <1>2
  <1>7. Weights(rows, what)
          = Cardinality({c \in Voices \X (1 .. n) : c[2] <= Weight(By(rows, c[1]), what)})
    <2>1. CASE what = "attempts"
      BY <1>1, <2>1 DEF Weights, Weight, EffectiveAttempts
    <2>2. CASE what # "attempts"
      BY <1>1, <2>2 DEF Weights, Weight, EffectiveSuccesses
    <2> QED
      BY <2>1, <2>2
  <1>8. SumFunction(w) \in Nat
    BY <1>4, VoicesFinite, SumSteps
  <1> QED
    BY <1>2, <1>4, <1>5, <1>6, <1>7, <1>8

(* Capping apart never takes away attempts, and changes nothing where no   *)
(* voice is heard on both sides.                                           *)
NoCommonVoice(A, B) == \A x \in A, y \in B : x.reporter # y.reporter

AddsTo(what, both, a, b, apart) ==
  /\ a \in Nat /\ b \in Nat /\ both \in Nat
  /\ what = "attempts" => both <= a + b
  /\ apart => both = a + b

LEMMA WeightAdds ==
  ASSUME NEW A, IsFiniteSet(A), NEW B, IsFiniteSet(B), A \cap B = {}, NEW what \in Measures
  PROVE  AddsTo(what, Weight(A \cup B, what), Weight(A, what), Weight(B, what), A = {} \/ B = {})
  <1>1. PICK C : C = A \cup B
    OBVIOUS
  <1>2. IsFiniteSet(C) /\ Cardinality(C) = Cardinality(A) + Cardinality(B)
    BY <1>1, DisjointUnion
  <1>3. Weight(A, what) \in Nat /\ Weight(B, what) \in Nat /\ Weight(C, what) \in Nat
    BY <1>2, WeightIs
  <1>4. what = "attempts" => Weight(C, what) <= Weight(A, what) + Weight(B, what)
    <2>1. Cardinality(A) \in Nat /\ Cardinality(B) \in Nat /\ Cap \in Nat
      BY FS_CardinalityType, EvidenceAssumption
    <2> QED
      BY <1>2, <2>1 DEF Weight, CapAttempts
  <1>5. A = {} \/ B = {} => Weight(C, what) = Weight(A, what) + Weight(B, what)
    <2>1. CASE A = {}
      <3>1. C = B /\ Weight(A, what) = 0
        BY <1>1, <2>1, NoWeight
      <3> QED
        BY <1>3, <3>1
    <2>2. CASE B = {}
      <3>1. C = A /\ Weight(B, what) = 0
        BY <1>1, <2>2, NoWeight
      <3> QED
        BY <1>3, <3>1
    <2> QED
      BY <2>1, <2>2
  <1> QED
    BY <1>1, <1>3, <1>4, <1>5 DEF AddsTo

LEMMA WeightsAdd ==
  ASSUME NEW A, IsFiniteSet(A), NEW B, IsFiniteSet(B), A \cap B = {}, NEW what \in Measures
  PROVE  AddsTo(what, Weights(A \cup B, what), Weights(A, what), Weights(B, what),
                NoCommonVoice(A, B))
  <1>1. PICK C : C = A \cup B
    OBVIOUS
  <1>2. IsFiniteSet(C)
    BY <1>1, FS_Union
  <1>3. PICK wa, wb, wc : /\ wa = [v \in Voices |-> Weight(By(A, v), what)]
                          /\ wb = [v \in Voices |-> Weight(By(B, v), what)]
                          /\ wc = [v \in Voices |-> Weight(By(C, v), what)]
    OBVIOUS
  <1>4. /\ wa \in [Voices -> Nat] /\ Weights(A, what) = SumFunction(wa) /\ Weights(A, what) \in Nat
        /\ wb \in [Voices -> Nat] /\ Weights(B, what) = SumFunction(wb) /\ Weights(B, what) \in Nat
        /\ wc \in [Voices -> Nat] /\ Weights(C, what) = SumFunction(wc) /\ Weights(C, what) \in Nat
    BY <1>2, <1>3, WeightsAre
  <1>5. ASSUME NEW v \in Voices
        PROVE  AddsTo(what, wc[v], wa[v], wb[v], By(A, v) = {} \/ By(B, v) = {})
    <2>1. PICK a, b : a = By(A, v) /\ b = By(B, v)
      OBVIOUS
    <2>2. By(C, v) = a \cup b /\ a \cap b = {} /\ a \in SUBSET A /\ b \in SUBSET B
      BY <1>1, <2>1 DEF By
    <2>3. IsFiniteSet(a) /\ IsFiniteSet(b)
      BY <2>2, FS_Subset
    <2>4. AddsTo(what, Weight(a \cup b, what), Weight(a, what), Weight(b, what), a = {} \/ b = {})
      BY <2>2, <2>3, WeightAdds
    <2> QED
      BY <1>3, <2>1, <2>2, <2>4
  <1>6. what = "attempts" => Weights(C, what) <= Weights(A, what) + Weights(B, what)
    <2>1. SUFFICES ASSUME what = "attempts"
                   PROVE  SumFunction(wc) <= SumFunction(wa) + SumFunction(wb)
      BY <1>4
    <2>2. \A v \in Voices : wc[v] <= wa[v] + wb[v]
      BY <1>5, <2>1 DEF AddsTo
    <2> QED
      BY <1>4, <2>2, VoicesFinite, SumAtMostBoth
  <1>7. NoCommonVoice(A, B) => Weights(C, what) = Weights(A, what) + Weights(B, what)
    <2>1. SUFFICES ASSUME NoCommonVoice(A, B)
                   PROVE  SumFunction(wc) = SumFunction(wa) + SumFunction(wb)
      BY <1>4
    <2>2. \A v \in Voices : By(A, v) = {} \/ By(B, v) = {}
      BY <2>1 DEF NoCommonVoice, By
    <2>3. \A v \in Voices : wc[v] = wa[v] + wb[v]
      BY <1>5, <2>2 DEF AddsTo
    <2> QED
      BY <1>4, <2>3, VoicesFinite, SumOfSums
  <1> QED
    BY <1>1, <1>4, <1>6, <1>7 DEF AddsTo

LEMMA NoWeights ==
  ASSUME NEW what \in Measures
  PROVE  Weights({}, what) = 0
  <1>1. PICK w : w = [v \in Voices |-> Weight(By({}, v), what)]
    OBVIOUS
  <1>2. \A v : By({}, v) = {}
    BY DEF By
  <1>3. \A v \in Voices : w[v] <= 0
    BY <1>1, <1>2, NoWeight
  <1>4. IsFiniteSet({})
    BY FS_EmptySet
  <1>5. w \in [Voices -> Nat] /\ Weights({}, what) = SumFunction(w) /\ Weights({}, what) \in Nat
    BY <1>1, <1>4, WeightsAre
  <1>6. SumFunction(w) <= 0 * Cardinality(Voices)
    <2>1. 0 \in Nat
      OBVIOUS
    <2> QED
      BY <1>3, <1>5, <2>1, VoicesFinite, SumBounded
  <1>7. Cardinality(Voices) \in Nat
    BY VoicesFinite, FS_CardinalityType
  <1> QED
    BY <1>5, <1>6, <1>7

(* Hour by hour.                                                           *)
HourlyWeights(rows, what) == [h \in Hours |-> Weights(InHour(rows, h), what)]
Capped(rows, what) == SumFunction(HourlyWeights(rows, what))

NoCommonHourAndVoice(A, B) ==
  \A x \in A, y \in B : ~(x.hour = y.hour /\ x.reporter = y.reporter)

LEMMA HoursFinite == IsFiniteSet(Hours)
  BY TimeAssumption, FS_Interval DEF Hours

LEMMA HourlyAre ==
  ASSUME NEW rows, IsFiniteSet(rows), NEW what \in Measures
  PROVE  /\ HourlyWeights(rows, what) \in [Hours -> Nat]
         /\ Capped(rows, what) \in Nat
  <1>1. ASSUME NEW h \in Hours
        PROVE  Weights(InHour(rows, h), what) \in Nat
    <2>1. PICK few \in SUBSET rows : few = InHour(rows, h)
      BY DEF InHour
    <2>2. IsFiniteSet(few)
      BY FS_Subset
    <2> QED
      BY <2>1, <2>2, WeightsAre
  <1>2. HourlyWeights(rows, what) \in [Hours -> Nat]
    BY <1>1 DEF HourlyWeights
  <1>3. PICK w : w = HourlyWeights(rows, what)
    OBVIOUS
  <1>4. SumFunction(w) \in Nat
    BY <1>2, <1>3, HoursFinite, SumSteps
  <1> QED
    BY <1>2, <1>3, <1>4 DEF Capped

LEMMA CappedAdds ==
  ASSUME NEW A, IsFiniteSet(A), NEW B, IsFiniteSet(B), A \cap B = {}, NEW what \in Measures
  PROVE  AddsTo(what, Capped(A \cup B, what), Capped(A, what), Capped(B, what),
                NoCommonHourAndVoice(A, B))
  <1>1. PICK C : C = A \cup B
    OBVIOUS
  <1>2. IsFiniteSet(C)
    BY <1>1, FS_Union
  <1>3. PICK wa, wb, wc : /\ wa = HourlyWeights(A, what)
                          /\ wb = HourlyWeights(B, what)
                          /\ wc = HourlyWeights(C, what)
    OBVIOUS
  <1>4. /\ wa \in [Hours -> Nat] /\ Capped(A, what) = SumFunction(wa) /\ Capped(A, what) \in Nat
        /\ wb \in [Hours -> Nat] /\ Capped(B, what) = SumFunction(wb) /\ Capped(B, what) \in Nat
        /\ wc \in [Hours -> Nat] /\ Capped(C, what) = SumFunction(wc) /\ Capped(C, what) \in Nat
    BY <1>2, <1>3, HourlyAre DEF Capped
  <1>5. ASSUME NEW h \in Hours
        PROVE  AddsTo(what, wc[h], wa[h], wb[h], NoCommonVoice(InHour(A, h), InHour(B, h)))
    <2>1. PICK a, b : a = InHour(A, h) /\ b = InHour(B, h)
      OBVIOUS
    <2>2. InHour(C, h) = a \cup b /\ a \cap b = {} /\ a \in SUBSET A /\ b \in SUBSET B
      BY <1>1, <2>1 DEF InHour
    <2>3. IsFiniteSet(a) /\ IsFiniteSet(b)
      BY <2>2, FS_Subset
    <2>4. AddsTo(what, Weights(a \cup b, what), Weights(a, what), Weights(b, what), NoCommonVoice(a, b))
      BY <2>2, <2>3, WeightsAdd
    <2> QED
      BY <1>3, <2>1, <2>2, <2>4 DEF HourlyWeights
  <1>6. what = "attempts" => Capped(C, what) <= Capped(A, what) + Capped(B, what)
    <2>1. SUFFICES ASSUME what = "attempts"
                   PROVE  SumFunction(wc) <= SumFunction(wa) + SumFunction(wb)
      BY <1>4
    <2>2. \A h \in Hours : wc[h] <= wa[h] + wb[h]
      BY <1>5, <2>1 DEF AddsTo
    <2> QED
      BY <1>4, <2>2, HoursFinite, SumAtMostBoth
  <1>7. NoCommonHourAndVoice(A, B) => Capped(C, what) = Capped(A, what) + Capped(B, what)
    <2>1. SUFFICES ASSUME NoCommonHourAndVoice(A, B)
                   PROVE  SumFunction(wc) = SumFunction(wa) + SumFunction(wb)
      BY <1>4
    <2>2. \A h \in Hours : NoCommonVoice(InHour(A, h), InHour(B, h))
      BY <2>1 DEF NoCommonHourAndVoice, NoCommonVoice, InHour
    <2>3. \A h \in Hours : wc[h] = wa[h] + wb[h]
      BY <1>5, <2>2 DEF AddsTo
    <2> QED
      BY <1>4, <2>3, HoursFinite, SumOfSums
  <1> QED
    BY <1>1, <1>4, <1>6, <1>7 DEF AddsTo

LEMMA CappedOfHour ==
  ASSUME NEW rows, IsFiniteSet(rows), NEW h \in Hours, \A o \in rows : o.hour = h,
         NEW what \in Measures
  PROVE  Capped(rows, what) = Weights(rows, what)
  <1>1. PICK w : w = HourlyWeights(rows, what)
    OBVIOUS
  <1>2. w \in [Hours -> Nat] /\ Capped(rows, what) = SumFunction(w)
    BY <1>1, HourlyAre DEF Capped
  <1>3. InHour(rows, h) = rows /\ \A g \in Hours : g # h => InHour(rows, g) = {}
    BY DEF InHour
  <1>4. w[h] = Weights(rows, what) /\ \A g \in Hours : g # h => w[g] = 0
    BY <1>1, <1>3, NoWeights DEF HourlyWeights
  <1>5. SumFunction(w) = w[h]
    BY <1>2, <1>4, HoursFinite, SumOnlyAt
  <1> QED
    BY <1>2, <1>4, <1>5

(* Archiving weighs the rows of each source apart.                         *)
OneSource(rows) ==
  \A x, y \in rows : x.hour = y.hour /\ x.reporter = y.reporter => x.source = y.source

Keys(rows) == {RecoveryKeyOf(o) : o \in rows}
KeyWeights(rows, what) == [k \in Keys(rows) |-> Weights(RecoveryRows(k, rows), what)]

KeepsWeight(what, capped, archived, apart) ==
  /\ what = "attempts" => capped <= archived
  /\ apart => capped = archived

LEMMA KeysFinite ==
  ASSUME NEW rows, IsFiniteSet(rows)
  PROVE  IsFiniteSet(Keys(rows))
  <1>1. [o \in rows |-> RecoveryKeyOf(o)] \in Surjection(rows, Keys(rows))
    BY DEF Surjection, Keys
  <1> QED
    BY <1>1, FS_Surjection

LEMMA KeyWeightsAre ==
  ASSUME NEW rows, IsFiniteSet(rows), NEW what \in Measures
  PROVE  KeyWeights(rows, what) \in [Keys(rows) -> Nat]
  <1>1. ASSUME NEW k \in Keys(rows)
        PROVE  Weights(RecoveryRows(k, rows), what) \in Nat
    <2>1. PICK few \in SUBSET rows : few = RecoveryRows(k, rows)
      BY DEF RecoveryRows
    <2>2. IsFiniteSet(few)
      BY FS_Subset
    <2> QED
      BY <2>1, <2>2, WeightsAre
  <1> QED
    BY <1>1 DEF KeyWeights

LEMMA CappedByKeys ==
  ASSUME NEW rows, IsFiniteSet(rows), NEW f, NEW a,
         \A o \in rows : o.fingerprint = f /\ o.action = a /\ o.hour \in Hours,
         NEW what \in Measures
  PROVE  KeepsWeight(what, Capped(rows, what), SumFunction(KeyWeights(rows, what)), OneSource(rows))
  <1>1. PICK K : K = Keys(rows)
    OBVIOUS
  <1>2. PICK w : w = KeyWeights(rows, what)
    OBVIOUS
  <1>3. IsFiniteSet(K) /\ w \in [K -> Nat]
    BY <1>1, <1>2, KeysFinite, KeyWeightsAre
  <1> DEFINE Of(S) == {o \in rows : RecoveryKeyOf(o) \in S}
             F == {S \in SUBSET K : KeepsWeight(what, Capped(Of(S), what),
                                                SumFunction(PartOf(w, S)), OneSource(rows))}
  <1>4. {} \in F
    <2>1. Of({}) = {}
      OBVIOUS
    <2>2. Capped({}, what) = 0
      <3>1. 0 \in Hours /\ IsFiniteSet({})
        BY TimeAssumption, FS_EmptySet DEF Hours
      <3>2. Capped({}, what) = Weights({}, what)
        BY <3>1, CappedOfHour
      <3> QED
        BY <3>2, NoWeights
    <2>3. SumFunction(PartOf(w, {})) = 0
      BY <1>3, PartialSums
    <2> QED
      BY <2>1, <2>2, <2>3 DEF KeepsWeight
  <1>5. ASSUME NEW S \in SUBSET K, S # {}, \A x \in S : S \ {x} \in F
        PROVE  S \in F
    <2>1. PICK x \in S : x \in K
      BY <1>5
    <2>2. PICK rest \in SUBSET K : rest = S \ {x}
      OBVIOUS
    <2>3. PICK A \in SUBSET rows : A = Of(rest)
      OBVIOUS
    <2>4. PICK B \in SUBSET rows : B = RecoveryRows(x, rows)
      BY DEF RecoveryRows
    <2>5. Of(S) = A \cup B /\ A \cap B = {}
      BY <2>1, <2>2, <2>3, <2>4 DEF RecoveryRows
    <2>6. IsFiniteSet(A) /\ IsFiniteSet(B)
      BY FS_Subset
    <2>7. AddsTo(what, Capped(A \cup B, what), Capped(A, what), Capped(B, what),
                 NoCommonHourAndVoice(A, B))
      BY <2>5, <2>6, CappedAdds
    <2>8. Capped(B, what) = w[x]
      <3>1. PICK o \in rows : RecoveryKeyOf(o) = x
        BY <1>1, <2>1 DEF Keys
      <3>2. x.hour \in Hours /\ \A q \in B : q.hour = x.hour
        BY <2>4, <3>1 DEF RecoveryRows, RecoveryKeyOf
      <3>3. Capped(B, what) = Weights(B, what)
        BY <2>6, <3>2, CappedOfHour
      <3>4. w[x] = Weights(B, what)
        BY <1>1, <1>2, <2>1, <2>4 DEF KeyWeights
      <3> QED
        BY <3>3, <3>4
    <2>9. SumFunction(PartOf(w, S)) = w[x] + SumFunction(PartOf(w, rest))
      BY <1>3, <2>1, <2>2, PartStep
    <2>10. SumFunction(PartOf(w, rest)) \in Nat /\ w[x] \in Nat
      BY <1>3, <2>1, PartNat
    <2>11. KeepsWeight(what, Capped(A, what), SumFunction(PartOf(w, rest)), OneSource(rows))
      BY <1>5, <2>1, <2>2, <2>3
    <2>12. OneSource(rows) => NoCommonHourAndVoice(A, B)
      <3>1. SUFFICES ASSUME OneSource(rows), NEW p \in A, NEW q \in B,
                            p.hour = q.hour, p.reporter = q.reporter
                     PROVE  FALSE
        BY DEF NoCommonHourAndVoice
      <3>2. p.source = q.source /\ p.fingerprint = q.fingerprint /\ p.action = q.action
        BY <3>1 DEF OneSource
      <3>3. RecoveryKeyOf(p) = RecoveryKeyOf(q)
        BY <3>1, <3>2 DEF RecoveryKeyOf
      <3>4. RecoveryKeyOf(q) = x /\ RecoveryKeyOf(p) \in rest
        BY <2>3, <2>4 DEF RecoveryRows
      <3> QED
        BY <2>2, <3>3, <3>4
    <2>13. KeepsWeight(what, Capped(A \cup B, what), SumFunction(PartOf(w, S)), OneSource(rows))
      BY <2>7, <2>8, <2>9, <2>10, <2>11, <2>12 DEF AddsTo, KeepsWeight
    <2> QED
      BY <2>5, <2>13
  <1>6. K \in F
    <2> HIDE DEF F
    <2>1. \A S \in SUBSET K : S \in F
      BY <1>3, <1>4, <1>5, SetInduction
    <2> QED
      BY <2>1
  <1>7. Of(K) = rows /\ PartOf(w, K) = w
    BY <1>1, <1>3, PartialSums DEF Keys
  <1> QED
    BY <1>2, <1>6, <1>7

(* What is answered of an action, from any tables.                         *)
AboutAction(rows, f, a) == {o \in rows : o.fingerprint = f /\ o.action = a}

ArchivedWeights(archive, f, a, what) ==
  [k \in {k \in DOMAIN archive : k.fingerprint = f /\ k.action = a} |->
     IF what = "attempts" THEN archive[k].effAttempts ELSE archive[k].effSuccesses]

Answered(rows, archive, f, a, what) ==
  Capped(AboutAction(rows, f, a), what) + SumFunction(ArchivedWeights(archive, f, a, what))

LEMMA KeyWeightsAdd ==
  ASSUME NEW A, IsFiniteSet(A), NEW B, IsFiniteSet(B), NEW what \in Measures,
         \A x \in A, y \in B : RecoveryKeyOf(x) # RecoveryKeyOf(y)
  PROVE  SumFunction(KeyWeights(A \cup B, what))
           = SumFunction(KeyWeights(A, what)) + SumFunction(KeyWeights(B, what))
  <1>1. PICK C : C = A \cup B
    OBVIOUS
  <1>2. IsFiniteSet(C)
    BY <1>1, FS_Union
  <1>3. PICK w : w = KeyWeights(C, what)
    OBVIOUS
  <1>4. IsFiniteSet(Keys(C)) /\ w \in [Keys(C) -> Nat]
    BY <1>2, <1>3, KeysFinite, KeyWeightsAre
  <1>5. Keys(C) = Keys(A) \cup Keys(B) /\ Keys(A) \cap Keys(B) = {}
    BY <1>1 DEF Keys
  <1>6. \A k \in Keys(A) : RecoveryRows(k, C) = RecoveryRows(k, A)
    BY <1>1 DEF Keys, RecoveryRows
  <1>7. \A k \in Keys(B) : RecoveryRows(k, C) = RecoveryRows(k, B)
    BY <1>1 DEF Keys, RecoveryRows
  <1>8. PartOf(w, Keys(A)) = KeyWeights(A, what)
    BY <1>3, <1>5, <1>6 DEF PartOf, KeyWeights
  <1>9. PartOf(w, Keys(B)) = KeyWeights(B, what)
    BY <1>3, <1>5, <1>7 DEF PartOf, KeyWeights
  <1>10. PartOf(w, Keys(A) \cup Keys(B)) = w
    BY <1>4, <1>5 DEF PartOf
  <1>11. PICK ka \in SUBSET Keys(C), kb \in SUBSET Keys(C) : ka = Keys(A) /\ kb = Keys(B)
    BY <1>5
  <1>12. SumFunction(PartOf(w, ka \cup kb)) = SumFunction(PartOf(w, ka)) + SumFunction(PartOf(w, kb))
    BY <1>4, <1>5, <1>11, SumOfParts
  <1> QED
    BY <1>1, <1>3, <1>8, <1>9, <1>10, <1>11, <1>12

LEMMA ArchivedWeightsAre ==
  ASSUME NEW rows, NEW f, NEW a, NEW what \in Measures
  PROVE  ArchivedWeights(FoldOutcomes(rows), f, a, what)
           = KeyWeights(AboutAction(rows, f, a), what)
  <1>1. PICK some : some = AboutAction(rows, f, a)
    OBVIOUS
  <1>2. PICK archive : archive = FoldOutcomes(rows)
    OBVIOUS
  <1>3. {k \in DOMAIN archive : k.fingerprint = f /\ k.action = a} = Keys(some)
    BY <1>1, <1>2 DEF FoldOutcomes, Keys, AboutAction, RecoveryKeyOf
  <1>4. ASSUME NEW k \in Keys(some)
        PROVE  (IF what = "attempts" THEN archive[k].effAttempts ELSE archive[k].effSuccesses)
                 = Weights(RecoveryRows(k, some), what)
    <2>1. k.fingerprint = f /\ k.action = a /\ k \in DOMAIN archive
      BY <1>3
    <2>2. RecoveryRows(k, some) = RecoveryRows(k, rows)
      BY <1>1, <2>1 DEF RecoveryRows, AboutAction, RecoveryKeyOf
    <2>3. archive[k] = RecoveryStatOf(RecoveryRows(k, rows))
      BY <1>2, <2>1 DEF FoldOutcomes
    <2> QED
      BY <2>2, <2>3 DEF RecoveryStatOf, Weights
  <1> QED
    BY <1>1, <1>2, <1>3, <1>4 DEF ArchivedWeights, KeyWeights

(* Rows that move from the table to the archive, by whole hours.           *)
Moves(live, moved, old) ==
  /\ IsFiniteSet(live) /\ IsFiniteSet(moved) /\ IsFiniteSet(old)
  /\ \A o \in live \cup moved \cup old : o.hour \in Hours
  /\ \A x \in live, y \in moved : x.hour # y.hour
  /\ \A x \in old, y \in moved : x.hour # y.hour

LEMMA MovingKeeps ==
  ASSUME NEW live, NEW moved, NEW old, Moves(live, moved, old), NEW f, NEW a, NEW what \in Measures
  PROVE  KeepsWeight(what, Answered(live \cup moved, FoldOutcomes(old), f, a, what),
                     Answered(live, FoldOutcomes(old \cup moved), f, a, what),
                     OneSource(AboutAction(live \cup moved, f, a)))
  <1>1. PICK L, M, O : L = AboutAction(live, f, a) /\ M = AboutAction(moved, f, a)
                       /\ O = AboutAction(old, f, a)
    OBVIOUS
  <1>2. L \in SUBSET live /\ M \in SUBSET moved /\ O \in SUBSET old
    BY <1>1 DEF AboutAction
  <1>3. IsFiniteSet(L) /\ IsFiniteSet(M) /\ IsFiniteSet(O)
    BY <1>2, FS_Subset DEF Moves
  <1>4. /\ AboutAction(live \cup moved, f, a) = L \cup M
        /\ AboutAction(old \cup moved, f, a) = O \cup M
    BY <1>1 DEF AboutAction
  <1>5. L \cap M = {} /\ NoCommonHourAndVoice(L, M)
    BY <1>2 DEF Moves, NoCommonHourAndVoice
  <1>6. \A x \in O, y \in M : RecoveryKeyOf(x) # RecoveryKeyOf(y)
    BY <1>2 DEF Moves, RecoveryKeyOf
  <1>7. AddsTo(what, Capped(L \cup M, what), Capped(L, what), Capped(M, what),
               NoCommonHourAndVoice(L, M))
    BY <1>3, <1>5, CappedAdds
  <1>8. Capped(L \cup M, what) = Capped(L, what) + Capped(M, what)
    BY <1>5, <1>7 DEF AddsTo
  <1>9. SumFunction(KeyWeights(O \cup M, what))
          = SumFunction(KeyWeights(O, what)) + SumFunction(KeyWeights(M, what))
    BY <1>3, <1>6, KeyWeightsAdd
  <1>10. KeepsWeight(what, Capped(M, what), SumFunction(KeyWeights(M, what)), OneSource(M))
    <2>1. \A o \in M : o.fingerprint = f /\ o.action = a /\ o.hour \in Hours
      BY <1>1, <1>2 DEF AboutAction, Moves
    <2> QED
      BY <1>3, <2>1, CappedByKeys
  <1>11. Capped(L, what) \in Nat /\ Capped(M, what) \in Nat
    BY <1>3, HourlyAre
  <1>12. SumFunction(KeyWeights(O, what)) \in Nat /\ SumFunction(KeyWeights(M, what)) \in Nat
    <2>1. PICK v, w : v = KeyWeights(O, what) /\ w = KeyWeights(M, what)
      OBVIOUS
    <2>2. IsFiniteSet(Keys(O)) /\ IsFiniteSet(Keys(M))
          /\ v \in [Keys(O) -> Nat] /\ w \in [Keys(M) -> Nat]
      BY <1>3, <2>1, KeysFinite, KeyWeightsAre
    <2>3. SumFunction(v) \in Nat /\ SumFunction(w) \in Nat
      BY <2>2, SumSteps
    <2> QED
      BY <2>1, <2>3
  <1>13. /\ Answered(live \cup moved, FoldOutcomes(old), f, a, what)
              = Capped(L \cup M, what) + SumFunction(KeyWeights(O, what))
         /\ Answered(live, FoldOutcomes(old \cup moved), f, a, what)
              = Capped(L, what) + SumFunction(KeyWeights(O \cup M, what))
    <2>1. ArchivedWeights(FoldOutcomes(old), f, a, what) = KeyWeights(O, what)
      BY <1>1, ArchivedWeightsAre
    <2>2. ArchivedWeights(FoldOutcomes(old \cup moved), f, a, what) = KeyWeights(O \cup M, what)
      <3>1. PICK rows : rows = old \cup moved
        OBVIOUS
      <3>2. ArchivedWeights(FoldOutcomes(rows), f, a, what)
              = KeyWeights(AboutAction(rows, f, a), what)
        BY ArchivedWeightsAre
      <3> QED
        BY <1>4, <3>1, <3>2
    <2> QED
      BY <1>1, <1>4, <2>1, <2>2, Zenon DEF Answered
  <1>14. OneSource(L \cup M) => OneSource(M)
    BY DEF OneSource
  <1>15. PICK l \in Nat, m \in Nat, o \in Nat, n \in Nat :
           /\ l = Capped(L, what) /\ m = Capped(M, what)
           /\ o = SumFunction(KeyWeights(O, what)) /\ n = SumFunction(KeyWeights(M, what))
    BY <1>11, <1>12
  <1>16. /\ Answered(live \cup moved, FoldOutcomes(old), f, a, what) = (l + m) + o
         /\ Answered(live, FoldOutcomes(old \cup moved), f, a, what) = l + (o + n)
    BY <1>8, <1>9, <1>13, <1>15, Zenon
  <1>17. KeepsWeight(what, m, n, OneSource(M))
    BY <1>10, <1>15
  <1>18. what = "attempts" => (l + m) + o <= l + (o + n)
    BY <1>17 DEF KeepsWeight
  <1>19. OneSource(L \cup M) => (l + m) + o = l + (o + n)
    BY <1>14, <1>17 DEF KeepsWeight
  <1> QED
    BY <1>4, <1>16, <1>18, <1>19 DEF KeepsWeight

(* What a committing prune moves.                                          *)
LEMMA CommitMoves ==
  ASSUME OnePruner, IInv, NEW p \in Pruners, PruneCommit(p)
  PROVE  \E live, moved, old :
           /\ Moves(live, moved, old)
           /\ outcomes = live \cup moved /\ outcomes' = live
           /\ hourlyRecovery = FoldOutcomes(old)
           /\ hourlyRecovery' = FoldOutcomes(old \cup moved)
  <1>1. IInv'
    BY PruneCommitInv
  <1>2. reportedOutcomes' = reportedOutcomes
    BY DEF PruneCommit
  <1>3. horizon \in Int /\ horizon' \in Int /\ horizon <= horizon'
    <2>1. pruner[p].cutoff.hour \in Int
      BY DEF IInv, TypeOK, PrunerOK, Time
    <2> QED
      BY <2>1, RowsKnown DEF PruneCommit, Larger
  <1>4. PICK rows : rows = reportedOutcomes /\ IsFiniteSet(rows)
                    /\ \A o \in rows : o.hour \in Int /\ o.hour \in Hours
    BY RowsKnown
  <1>5. PICK live \in SUBSET rows : live = {o \in rows : o.hour >= horizon'}
    OBVIOUS
  <1>6. PICK moved \in SUBSET rows : moved = {o \in rows : o.hour >= horizon /\ o.hour < horizon'}
    OBVIOUS
  <1>7. PICK old \in SUBSET rows : old = {o \in rows : o.hour < horizon}
    OBVIOUS
  <1>8. outcomes = live \cup moved
    <2>1. outcomes = {o \in rows : o.hour >= horizon}
      BY <1>4 DEF IInv, TablesFollowHorizon, FromHorizon
    <2> QED
      BY <1>3, <1>4, <1>5, <1>6, <2>1
  <1>9. outcomes' = live
    BY <1>1, <1>2, <1>4, <1>5 DEF IInv, TablesFollowHorizon, FromHorizon
  <1>10. hourlyRecovery = FoldOutcomes(old)
    BY <1>4, <1>7 DEF IInv, TablesFollowHorizon, BelowHorizon
  <1>11. hourlyRecovery' = FoldOutcomes(old \cup moved)
    <2>1. old \cup moved = {o \in rows : o.hour < horizon'}
      BY <1>3, <1>4, <1>6, <1>7
    <2>2. BelowHorizon(reportedOutcomes)' = old \cup moved
      BY <1>2, <1>4, <2>1 DEF BelowHorizon
    <2>3. hourlyRecovery' = FoldOutcomes(BelowHorizon(reportedOutcomes)')
      BY <1>1 DEF IInv, TablesFollowHorizon, FoldOutcomes
    <2> QED
      BY <2>2, <2>3
  <1>12. Moves(live, moved, old)
    <2>1. IsFiniteSet(live) /\ IsFiniteSet(moved) /\ IsFiniteSet(old)
      BY <1>4, FS_Subset
    <2>2. \A o \in live \cup moved \cup old : o.hour \in Hours
      BY <1>4
    <2>3. \A x \in live, y \in moved : x.hour # y.hour
      BY <1>3, <1>4, <1>5, <1>6
    <2>4. \A x \in old, y \in moved : x.hour # y.hour
      BY <1>3, <1>4, <1>6, <1>7
    <2> QED
      BY <2>1, <2>2, <2>3, <2>4 DEF Moves
  <1> QED
    BY <1>8, <1>9, <1>10, <1>11, <1>12

(* The answer of a reader, said of the tables it is read from.             *)
AnswerFrom(rows, archive, f, a) ==
  [attempts  |-> Answered(rows, archive, f, a, "attempts"),
   successes |-> Answered(rows, archive, f, a, "successes")]

LEMMA AnswerIs ==
  ASSUME NEW f, NEW a
  PROVE  /\ CappedEvidence({f}, a) = AnswerFrom(outcomes, hourlyRecovery, f, a)
         /\ CappedEvidence({f}, a)' = AnswerFrom(outcomes', hourlyRecovery', f, a)
         /\ OneSourcePerVoice(f, a) = OneSource(AboutAction(outcomes, f, a))
  <1>1. "successes" # "attempts"
    OBVIOUS
  <1>2. /\ LiveRows({f}, a) = AboutAction(outcomes, f, a)
        /\ LiveRows({f}, a)' = AboutAction(outcomes', f, a)
    BY DEF LiveRows, AboutAction
  <1>3. /\ ArchivedKeys({f}, a)
             = {k \in DOMAIN hourlyRecovery : k.fingerprint = f /\ k.action = a}
        /\ ArchivedKeys({f}, a)'
             = {k \in DOMAIN hourlyRecovery' : k.fingerprint = f /\ k.action = a}
    BY DEF ArchivedKeys
  <1>4. CappedEvidence({f}, a) = AnswerFrom(outcomes, hourlyRecovery, f, a)
    BY <1>1, <1>2, <1>3
    DEF CappedEvidence, AnswerFrom, Answered, Capped, HourlyWeights, Weights, ArchivedWeights
  <1>5. CappedEvidence({f}, a)' = AnswerFrom(outcomes', hourlyRecovery', f, a)
    BY <1>1, <1>2, <1>3
    DEF CappedEvidence, AnswerFrom, Answered, Capped, HourlyWeights, Weights, ArchivedWeights
  <1>6. OneSourcePerVoice(f, a) = OneSource(AboutAction(outcomes, f, a))
    BY <1>2 DEF OneSourcePerVoice, OneSource
  <1> QED
    BY <1>4, <1>5, <1>6

LEMMA CommitKeepsEvidence ==
  ASSUME OnePruner, IInv, NEW p \in Pruners, PruneCommit(p), NEW f, NEW a
  PROVE  /\ CappedEvidence({f}, a).attempts <= CappedEvidence({f}, a)'.attempts
         /\ OneSourcePerVoice(f, a) => CappedEvidence({f}, a)' = CappedEvidence({f}, a)
  <1>1. PICK live, moved, old :
          /\ Moves(live, moved, old)
          /\ outcomes = live \cup moved /\ outcomes' = live
          /\ hourlyRecovery = FoldOutcomes(old)
          /\ hourlyRecovery' = FoldOutcomes(old \cup moved)
    BY CommitMoves
  <1>2. PICK now, then : /\ now = AnswerFrom(live \cup moved, FoldOutcomes(old), f, a)
                         /\ then = AnswerFrom(live, FoldOutcomes(old \cup moved), f, a)
    OBVIOUS
  <1>3. CappedEvidence({f}, a) = now /\ CappedEvidence({f}, a)' = then
    BY <1>1, <1>2, AnswerIs
  <1>4. OneSourcePerVoice(f, a) = OneSource(AboutAction(live \cup moved, f, a))
    BY <1>1, AnswerIs
  <1>5. ASSUME NEW what \in Measures
        PROVE  KeepsWeight(what, Answered(live \cup moved, FoldOutcomes(old), f, a, what),
                           Answered(live, FoldOutcomes(old \cup moved), f, a, what),
                           OneSource(AboutAction(live \cup moved, f, a)))
    BY <1>1, MovingKeeps
  <1>6. "attempts" \in Measures /\ "successes" \in Measures
    BY DEF Measures
  <1>7. now.attempts <= then.attempts
    BY <1>2, <1>5, <1>6 DEF KeepsWeight, AnswerFrom
  <1>8. OneSourcePerVoice(f, a) => now = then
    BY <1>2, <1>4, <1>5, <1>6 DEF KeepsWeight, AnswerFrom
  <1> QED
    BY <1>3, <1>7, <1>8

(* Whose reports an answer counts.                                         *)
LEMMA IdentifiedGrows ==
  ASSUME NEW many, IsFiniteSet(many), NEW few \in SUBSET many
  PROVE  /\ Cardinality(Identified(few)) \in Nat
         /\ Cardinality(Identified(many)) \in Nat
         /\ Cardinality(Identified(few)) <= Cardinality(Identified(many))
  <1>1. PICK heard : heard = {r.reporter : r \in many}
    OBVIOUS
  <1>2. IsFiniteSet(heard)
    <2>1. [r \in many |-> r.reporter] \in Surjection(many, heard)
      BY <1>1 DEF Surjection
    <2> QED
      BY <2>1, FS_Surjection
  <1>3. PICK A, B : A = Identified(few) /\ B = Identified(many)
    OBVIOUS
  <1>4. A \subseteq B /\ A \subseteq heard /\ B \subseteq heard
    BY <1>1, <1>3 DEF Identified
  <1>5. IsFiniteSet(B) /\ Cardinality(A) \in Nat /\ Cardinality(B) \in Nat
    BY <1>2, <1>4, SubsetsAre
  <1>6. Cardinality(A) <= Cardinality(B)
    BY <1>5, <1>4, FS_Subset
  <1> QED
    BY <1>3, <1>5, <1>6

LEMMA MaxIsGreatest ==
  ASSUME NEW S, IsFiniteSet(S), S \subseteq Nat, S # {}
  PROVE  Max(S) \in S /\ \A m \in S : Max(S) >= m
  <1>1. S \subseteq Int
    OBVIOUS
  <1>2. \E n \in S : \A m \in S : n >= m
    BY <1>1, GreatestExists
  <1> QED
    BY <1>2, Zenon DEF Max

LEMMA MaxAtMost ==
  ASSUME NEW S, IsFiniteSet(S), S \subseteq Nat, S # {},
         NEW T, IsFiniteSet(T), T \subseteq Nat, T # {},
         \A x \in S : \E y \in T : x <= y
  PROVE  Max(S) <= Max(T)
  <1>1. PICK m \in S : m = Max(S)
    BY MaxIsGreatest
  <1>2. PICK n \in T : n = Max(T) /\ \A y \in T : n >= y
    BY MaxIsGreatest
  <1>3. PICK y \in T : m <= y
    BY <1>1
  <1>4. m \in Nat /\ n \in Nat /\ y \in Nat /\ n >= y
    BY <1>2
  <1> QED
    BY <1>1, <1>2, <1>3, <1>4

AmongActions(rows, keys, a) == {o \in rows : o.fingerprint \in keys /\ o.action = a}
KeysAmong(archive, keys, a) == {k \in DOMAIN archive : k.fingerprint \in keys /\ k.action = a}

AuthorCounts(rows, archive, keys, a) ==
  {Cardinality(Identified(AmongActions(rows, keys, a)))}
    \cup {archive[k].reporters : k \in KeysAmong(archive, keys, a)}

LEMMA AuthorCountsAre ==
  ASSUME NEW rows, IsFiniteSet(rows), NEW old, IsFiniteSet(old), NEW keys, NEW a
  PROVE  /\ IsFiniteSet(AuthorCounts(rows, FoldOutcomes(old), keys, a))
         /\ AuthorCounts(rows, FoldOutcomes(old), keys, a) \subseteq Nat
         /\ AuthorCounts(rows, FoldOutcomes(old), keys, a) # {}
  <1>1. PICK archive : archive = FoldOutcomes(old)
    OBVIOUS
  <1>2. PICK some \in SUBSET rows : some = AmongActions(rows, keys, a)
    BY DEF AmongActions
  <1>3. Cardinality(Identified(some)) \in Nat
    BY IdentifiedGrows
  <1>4. PICK K : K = KeysAmong(archive, keys, a)
    OBVIOUS
  <1>5. DOMAIN archive = Keys(old) /\ K \in SUBSET Keys(old)
    BY <1>1, <1>4 DEF FoldOutcomes, Keys, KeysAmong
  <1>6. IsFiniteSet(K)
    BY <1>5, KeysFinite, FS_Subset
  <1>7. ASSUME NEW k \in K
        PROVE  archive[k].reporters \in Nat
    <2>1. PICK few \in SUBSET old : few = RecoveryRows(k, old)
      BY DEF RecoveryRows
    <2>2. archive[k] = RecoveryStatOf(few)
      BY <1>1, <1>5, <2>1 DEF FoldOutcomes, Keys
    <2>3. Cardinality(Identified(few)) \in Nat
      BY IdentifiedGrows
    <2> QED
      BY <2>2, <2>3 DEF RecoveryStatOf
  <1>8. PICK counts : counts = {archive[k].reporters : k \in K}
    OBVIOUS
  <1>9. IsFiniteSet(counts)
    <2>1. [k \in K |-> archive[k].reporters] \in Surjection(K, counts)
      BY <1>8 DEF Surjection
    <2> QED
      BY <1>6, <2>1, FS_Surjection
  <1>10. counts \subseteq Nat
    BY <1>7, <1>8
  <1>11. PICK one : one = {Cardinality(Identified(some))}
    OBVIOUS
  <1>12. IsFiniteSet(one) /\ one \subseteq Nat /\ one # {}
    BY <1>3, <1>11, FS_Singleton
  <1>13. IsFiniteSet(one \cup counts) /\ one \cup counts \subseteq Nat /\ one \cup counts # {}
    BY <1>9, <1>10, <1>12, FS_Union
  <1>14. AuthorCounts(rows, FoldOutcomes(old), keys, a) = one \cup counts
    BY <1>1, <1>2, <1>4, <1>8, <1>11 DEF AuthorCounts
  <1> QED
    BY <1>13, <1>14

LEMMA MovingAddsNoAuthors ==
  ASSUME NEW live, NEW moved, NEW old, Moves(live, moved, old), NEW keys, NEW a
  PROVE  Max(AuthorCounts(live, FoldOutcomes(old \cup moved), keys, a))
           <= Max(AuthorCounts(live \cup moved, FoldOutcomes(old), keys, a))
  <1>1. PICK rows, all : rows = live \cup moved /\ all = old \cup moved
    OBVIOUS
  <1>2. IsFiniteSet(rows) /\ IsFiniteSet(all) /\ IsFiniteSet(live) /\ IsFiniteSet(old)
    BY <1>1, FS_Union DEF Moves
  <1>3. PICK S, T : /\ S = AuthorCounts(live, FoldOutcomes(all), keys, a)
                    /\ T = AuthorCounts(rows, FoldOutcomes(old), keys, a)
    OBVIOUS
  <1>4. /\ IsFiniteSet(S) /\ S \subseteq Nat /\ S # {}
        /\ IsFiniteSet(T) /\ T \subseteq Nat /\ T # {}
    BY <1>2, <1>3, AuthorCountsAre
  <1>5. PICK some \in SUBSET rows : some = AmongActions(rows, keys, a)
    BY DEF AmongActions
  <1>6. IsFiniteSet(some) /\ Cardinality(Identified(some)) \in T
    BY <1>2, <1>3, <1>5, FS_Subset DEF AuthorCounts
  <1>7. ASSUME NEW few \in SUBSET some
        PROVE  Cardinality(Identified(few)) <= Cardinality(Identified(some))
    BY <1>6, IdentifiedGrows
  <1>8. ASSUME NEW n \in S
        PROVE  \E m \in T : n <= m
    <2>1. CASE n = Cardinality(Identified(AmongActions(live, keys, a)))
      <3>1. AmongActions(live, keys, a) \in SUBSET some
        BY <1>1, <1>5 DEF AmongActions
      <3> QED
        BY <1>6, <1>7, <2>1, <3>1
    <2>2. ASSUME NEW k \in KeysAmong(FoldOutcomes(all), keys, a),
                 n = FoldOutcomes(all)[k].reporters
          PROVE  \E m \in T : n <= m
      <3>1. k \in Keys(all) /\ k.fingerprint \in keys /\ k.action = a
        BY DEF KeysAmong, FoldOutcomes, Keys
      <3>2. n = Cardinality(Identified(RecoveryRows(k, all)))
        BY <2>2, <3>1 DEF FoldOutcomes, Keys, RecoveryStatOf
      <3>3. PICK o \in all : RecoveryKeyOf(o) = k
        BY <3>1 DEF Keys
      <3>4. CASE o \in old
        <4>1. RecoveryRows(k, all) = RecoveryRows(k, old)
          BY <1>1, <3>3, <3>4 DEF Moves, RecoveryRows, RecoveryKeyOf
        <4>2. k \in KeysAmong(FoldOutcomes(old), keys, a)
          BY <3>1, <3>3, <3>4 DEF KeysAmong, FoldOutcomes
        <4>3. FoldOutcomes(old)[k].reporters = Cardinality(Identified(RecoveryRows(k, old)))
          BY <3>3, <3>4 DEF FoldOutcomes, RecoveryStatOf
        <4>4. n \in T
          BY <1>3, <3>2, <4>1, <4>2, <4>3 DEF AuthorCounts
        <4> QED
          BY <1>4, <4>4
      <3>5. CASE o \in moved
        <4>1. RecoveryRows(k, all) \in SUBSET some
          BY <1>1, <1>5, <3>1, <3>3, <3>5
          DEF Moves, RecoveryRows, RecoveryKeyOf, AmongActions
        <4> QED
          BY <1>6, <1>7, <3>2, <4>1
      <3> QED
        BY <1>1, <3>3, <3>4, <3>5
    <2> QED
      BY <1>3, <1>8, <2>1, <2>2 DEF AuthorCounts
  <1>9. Max(S) <= Max(T)
    BY <1>4, <1>8, MaxAtMost
  <1> QED
    BY <1>1, <1>3, <1>9

LEMMA ReportersFrom ==
  ASSUME NEW keys, NEW a
  PROVE  /\ UniqueReporters(keys, a) = Max(AuthorCounts(outcomes, hourlyRecovery, keys, a))
         /\ UniqueReporters(keys, a)' = Max(AuthorCounts(outcomes', hourlyRecovery', keys, a))
  BY DEF UniqueReporters, AuthorCounts, LiveRows, AmongActions, ArchivedKeys, KeysAmong

LEMMA CommitAddsNoReporters ==
  ASSUME OnePruner, IInv, NEW p \in Pruners, PruneCommit(p), NEW keys, NEW a
  PROVE  UniqueReporters(keys, a)' <= UniqueReporters(keys, a)
  <1>1. PICK live, moved, old :
          /\ Moves(live, moved, old)
          /\ outcomes = live \cup moved /\ outcomes' = live
          /\ hourlyRecovery = FoldOutcomes(old)
          /\ hourlyRecovery' = FoldOutcomes(old \cup moved)
    BY CommitMoves
  <1> QED
    BY <1>1, ReportersFrom, MovingAddsNoAuthors

(* Neither the evidence nor its authors look better after a prune: capped  *)
(* evidence is never lost by archiving, is what it was wherever no voice   *)
(* used two sources for one action in one hour, and is never credited to   *)
(* more reporters than before.                                             *)
THEOREM AnswersKeptByPruning ==
  ASSUME OnePruner
  PROVE  ReadsSpec => PruningKeepsAnswers
  <1>1. ASSUME IInv, Pruning, NEW f \in Fingerprints, NEW a \in Actions
        PROVE  /\ CappedEvidence({f}, a).attempts <= CappedEvidence({f}, a)'.attempts
               /\ OneSourcePerVoice(f, a) => CappedEvidence({f}, a)' = CappedEvidence({f}, a)
    BY <1>1, OnePruner, CommitKeepsEvidence DEF Pruning
  <1>2. ASSUME IInv, Pruning, NEW keys \in SUBSET Fingerprints, NEW a \in Actions
        PROVE  UniqueReporters(keys, a)' <= UniqueReporters(keys, a)
    BY <1>2, OnePruner, CommitAddsNoReporters DEF Pruning
  <1>3. IInv =>
          [Pruning =>
             \A f \in Fingerprints, a \in Actions :
               /\ CappedEvidence({f}, a).attempts <= CappedEvidence({f}, a)'.attempts
               /\ OneSourcePerVoice(f, a) =>
                    CappedEvidence({f}, a)' = CappedEvidence({f}, a)]_readVars
    BY <1>1
  <1>4. IInv =>
          [Pruning =>
             \A keys \in SUBSET Fingerprints, a \in Actions :
               UniqueReporters(keys, a)' <= UniqueReporters(keys, a)]_readVars
    BY <1>2
  <1>5. Spec => []IInv
    BY OnePruner, TablesTruthful
  <1>6. ReadsSpec => Spec
    BY TablesGoOn
  <1>7. ReadsSpec => PruningKeepsEvidence
    BY <1>3, <1>5, <1>6, PTL DEF PruningKeepsEvidence
  <1>8. ReadsSpec => PruningAddsNoReporters
    BY <1>4, <1>5, <1>6, PTL DEF PruningAddsNoReporters
  <1> QED
    BY <1>7, <1>8 DEF PruningKeepsAnswers

-----------------------------------------------------------------------------
(* Recommendation: what is counted of a reporter's hour.                   *)

LEMMA WorkedOf ==
  ASSUME NEW rows, IsFiniteSet(rows)
  PROVE  /\ IsFiniteSet(Successful(rows))
         /\ Cardinality(Successful(rows)) \in Nat /\ Cardinality(rows) \in Nat
         /\ Cardinality(Successful(rows)) <= Cardinality(rows)
  <1>1. Successful(rows) \in SUBSET rows
    BY DEF Successful
  <1> QED
    BY <1>1, SubsetsAre, FS_CardinalityType

(* What one reporter's hour counts for.                                    *)
CapsRight(c) ==
  /\ CellAttempts(c) \in Nat /\ CellSuccesses(c) \in Nat
  /\ CellSuccesses(c) <= CellAttempts(c)
  /\ CellAttempts(c) <= Cardinality(c)
  /\ CellAttempts(c) = Cardinality(c) \/ CellAttempts(c) = max_reporter_weight_per_hour

LEMMA CapOfCell ==
  ASSUME NEW c, IsFiniteSet(c)
  PROVE  CapsRight(c)
  <1>1. PICK n \in Nat, s \in Nat : n = Cardinality(c) /\ s = Cardinality(Successful(c)) /\ s <= n
    BY WorkedOf
  <1>2. PICK m \in Nat : m = max_reporter_weight_per_hour
    BY FloorAssumption
  <1>3. CellAttempts(c) = IF n <= m THEN n ELSE m
    BY <1>1, <1>2 DEF CellAttempts
  <1>4. CellSuccesses(c) = IF n <= m THEN s ELSE (s * m) \div n
    BY <1>1, <1>2 DEF CellSuccesses
  <1>5. CASE n <= m
    BY <1>1, <1>2, <1>3, <1>4, <1>5 DEF CapsRight
  <1>6. CASE n > m
    <2>1. (s * m) \div n \in Nat /\ (s * m) \div n <= m
      BY <1>1, <1>6, ShareBounded
    <2>2. CellAttempts(c) = m /\ CellSuccesses(c) = (s * m) \div n
      BY <1>3, <1>4, <1>6
    <2> QED
      BY <1>1, <1>2, <1>6, <2>1, <2>2 DEF CapsRight
  <1> QED
    BY <1>5, <1>6

(* The cells are a partition of the rows.                                  *)
LEMMA CellsAre ==
  ASSUME NEW rows, IsFiniteSet(rows)
  PROVE  /\ IsFiniteSet(Cells(rows))
         /\ \A c \in Cells(rows) : IsFiniteSet(c)
         /\ SumFunction([c \in Cells(rows) |-> Cardinality(c)]) = Cardinality(rows)
  <1> DEFINE cell == [x \in rows |-> {y \in rows : y.hour = x.hour /\ y.reporter = x.reporter}]
  <1>1. IsFiniteSet(Cells(rows))
    <2>1. cell \in Surjection(rows, Cells(rows))
      BY DEF Surjection, Cells
    <2> QED
      BY <2>1, FS_Surjection
  <1>2. ASSUME NEW c \in Cells(rows)
        PROVE  IsFiniteSet(c)
    <2>1. c \subseteq rows
      BY DEF Cells
    <2> QED
      BY <2>1, FS_Subset
  <1>3. ASSUME NEW c \in Cells(rows)
        PROVE  {o \in rows : cell[o] = c} = c
    BY DEF Cells
  <1>4. {o \in rows : cell[o] \in Cells(rows)} = rows
    BY DEF Cells
  <1> HIDE DEF cell
  <1>5. [c \in Cells(rows) |-> Cardinality({o \in rows : cell[o] = c})]
          = [c \in Cells(rows) |-> Cardinality(c)]
    BY <1>3
  <1>6. SumFunction([c \in Cells(rows) |-> Cardinality({o \in rows : cell[o] = c})])
          = Cardinality({o \in rows : cell[o] \in Cells(rows)})
    BY <1>1, CountByKey
  <1> QED
    BY <1>1, <1>2, <1>4, <1>5, <1>6

(* What the hours of all reporters count for.                              *)
CappedRight(rows) ==
  /\ CappedAttempts(rows) \in Nat /\ CappedSuccesses(rows) \in Nat
  /\ CappedSuccesses(rows) <= CappedAttempts(rows)
  /\ CappedAttempts(rows) <= Cardinality(rows)
  /\ \/ CappedAttempts(rows) = Cardinality(rows)
     \/ CappedAttempts(rows) >= max_reporter_weight_per_hour

LEMMA CapOfRows ==
  ASSUME NEW rows, IsFiniteSet(rows)
  PROVE  CappedRight(rows)
  <1>1. PICK K : K = Cells(rows) /\ IsFiniteSet(K)
    BY CellsAre
  <1>2. PICK a, s, n : /\ a = [c \in K |-> CellAttempts(c)]
                       /\ s = [c \in K |-> CellSuccesses(c)]
                       /\ n = [c \in K |-> Cardinality(c)]
    OBVIOUS
  <1>3. \A c \in K : CapsRight(c) /\ Cardinality(c) \in Nat
    <2>1. \A c \in K : IsFiniteSet(c)
      BY <1>1, CellsAre
    <2> QED
      BY <2>1, CapOfCell, FS_CardinalityType
  <1>4. a \in [K -> Nat] /\ s \in [K -> Nat] /\ n \in [K -> Nat]
    BY <1>2, <1>3 DEF CapsRight
  <1>5. SumFunction(a) \in Nat /\ SumFunction(s) \in Nat /\ SumFunction(n) \in Nat
    BY <1>1, <1>4, SumSteps
  <1>6. SumFunction(s) <= SumFunction(a)
    <2>1. \A c \in K : s[c] <= a[c]
      BY <1>2, <1>3 DEF CapsRight
    <2> QED
      BY <1>1, <1>4, <2>1, SumAtMost
  <1>7. SumFunction(a) <= SumFunction(n)
    <2>1. \A c \in K : a[c] <= n[c]
      BY <1>2, <1>3 DEF CapsRight
    <2> QED
      BY <1>1, <1>4, <2>1, SumAtMost
  <1>8. SumFunction(n) = Cardinality(rows)
    BY <1>1, <1>2, CellsAre
  <1>9. CASE \A c \in K : CellAttempts(c) = Cardinality(c)
    <2>1. a = n
      BY <1>2, <1>9
    <2> QED
      BY <1>1, <1>2, <1>5, <1>6, <1>8, <2>1 DEF CappedRight, CappedAttempts, CappedSuccesses
  <1>10. CASE \E c \in K : CellAttempts(c) # Cardinality(c)
    <2>1. PICK c \in K : CellAttempts(c) = max_reporter_weight_per_hour
      BY <1>3, <1>10 DEF CapsRight
    <2>2. PICK others : others = PartOf(a, K \ {c})
      OBVIOUS
    <2>3. SumFunction(a) = a[c] + SumFunction(others) /\ SumFunction(others) \in Nat
      <3>1. SumFunction(PartOf(a, K)) = a[c] + SumFunction(PartOf(a, K \ {c}))
        BY <1>1, <1>4, PartStep
      <3>2. SumFunction(PartOf(a, K \ {c})) \in Nat
        BY <1>1, <1>4, PartNat
      <3>3. PartOf(a, K) = a
        BY <1>4 DEF PartOf
      <3> QED
        BY <2>2, <3>1, <3>2, <3>3
    <2>4. a[c] = max_reporter_weight_per_hour /\ a[c] \in Nat
      BY <1>2, <1>4, <2>1
    <2>5. SumFunction(a) >= max_reporter_weight_per_hour
      BY <2>3, <2>4
    <2> QED
      BY <1>1, <1>2, <1>5, <1>6, <1>7, <1>8, <2>5 DEF CappedRight, CappedAttempts, CappedSuccesses
  <1> QED
    BY <1>9, <1>10

-----------------------------------------------------------------------------
(* The choice of an explorer.                                              *)

(* Rates are compared by cross products, and those carry over a third.     *)
LEMMA RatesCompare ==
  ASSUME NEW sx \in Nat, NEW nx \in Nat, NEW sy \in Nat, NEW ny \in Nat, NEW sz \in Nat, NEW nz \in Nat,
         nx > 0, ny > 0, nz > 0, sx * nz <= sz * nx, sz * ny <= sy * nz
  PROVE  /\ sx * ny <= sy * nx
         /\ sx * ny = sy * nx => sx * nz = sz * nx /\ sz * ny = sy * nz
  <1>1. PICK a \in Nat, b \in Nat, c \in Nat, d \in Nat :
          a = sx * nz /\ b = sz * nx /\ c = sz * ny /\ d = sy * nz
    OBVIOUS
  <1>2. a <= b /\ c <= d
    BY <1>1
  <1>3. PICK u \in Nat, v \in Nat : u = sx * ny /\ v = sy * nx
    OBVIOUS
  <1>4. u * nz = a * ny
    BY <1>1, <1>3
  <1>5. b * ny = c * nx
    BY <1>1
  <1>6. d * nx = v * nz
    BY <1>1, <1>3
  <1>7. a * ny <= b * ny /\ c * nx <= d * nx
    BY <1>2
  <1>8. u * nz <= v * nz
    BY <1>4, <1>5, <1>6, <1>7
  <1>9. u <= v
    <2>1. SUFFICES ASSUME u >= v + 1
                   PROVE  FALSE
      OBVIOUS
    <2>2. u * nz >= (v + 1) * nz
      BY <2>1
    <2>3. (v + 1) * nz = v * nz + nz
      OBVIOUS
    <2> QED
      BY <1>8, <2>2, <2>3
  <1>10. ASSUME u = v
         PROVE  a = b /\ c = d
    <2>1. a * ny = b * ny /\ c * nx = d * nx
      BY <1>4, <1>5, <1>6, <1>7, <1>10
    <2>2. ASSUME a < b
          PROVE  FALSE
      <3>1. (a + 1) * ny <= b * ny
        BY <2>2
      <3>2. (a + 1) * ny = a * ny + ny
        OBVIOUS
      <3> QED
        BY <2>1, <3>1, <3>2
    <2>3. ASSUME c < d
          PROVE  FALSE
      <3>1. (c + 1) * nx <= d * nx
        BY <2>3
      <3>2. (c + 1) * nx = c * nx + nx
        OBVIOUS
      <3> QED
        BY <2>1, <3>1, <3>2
    <2> QED
      BY <1>2, <2>2, <2>3
  <1> QED
    BY <1>1, <1>3, <1>9, <1>10

Tally == [attempts : Nat, successes : Nat]

LEMMA PromisingIs ==
  ASSUME NEW a \in Tally, NEW b \in Tally
  PROVE  /\ Promising(a, b) <=>
              \/ a.successes * AtLeastOne(b.attempts) > b.successes * AtLeastOne(a.attempts)
              \/ /\ a.successes * AtLeastOne(b.attempts) = b.successes * AtLeastOne(a.attempts)
                 /\ a.attempts < b.attempts
         /\ Promising(a, b) => ~Promising(b, a)
  BY DEF Promising, Tally, AtLeastOne

LEMMA PromisingIsWeak ==
  ASSUME NEW x \in Tally, NEW y \in Tally, NEW z \in Tally, Promising(x, y)
  PROVE  Promising(x, z) \/ Promising(z, y)
  <1>1. SUFFICES ASSUME ~Promising(x, z), ~Promising(z, y)
                 PROVE  FALSE
    OBVIOUS
  <1>2. PICK sx \in Nat, nx \in Nat, mx \in Nat :
          sx = x.successes /\ nx = x.attempts /\ mx = AtLeastOne(nx) /\ mx > 0
    BY DEF Tally, AtLeastOne
  <1>3. PICK sy \in Nat, ny \in Nat, my \in Nat :
          sy = y.successes /\ ny = y.attempts /\ my = AtLeastOne(ny) /\ my > 0
    BY DEF Tally, AtLeastOne
  <1>4. PICK sz \in Nat, nz \in Nat, mz \in Nat :
          sz = z.successes /\ nz = z.attempts /\ mz = AtLeastOne(nz) /\ mz > 0
    BY DEF Tally, AtLeastOne
  <1>5. sx * mz <= sz * mx /\ (sx * mz = sz * mx => nx >= nz)
    <2>1. ~(sx * mz > sz * mx \/ (sx * mz = sz * mx /\ nx < nz))
      BY <1>1, <1>2, <1>4, PromisingIs
    <2>2. sx * mz \in Nat /\ sz * mx \in Nat
      OBVIOUS
    <2> QED
      BY <2>1, <2>2
  <1>6. sz * my <= sy * mz /\ (sz * my = sy * mz => nz >= ny)
    <2>1. ~(sz * my > sy * mz \/ (sz * my = sy * mz /\ nz < ny))
      BY <1>1, <1>3, <1>4, PromisingIs
    <2>2. sz * my \in Nat /\ sy * mz \in Nat
      OBVIOUS
    <2> QED
      BY <2>1, <2>2
  <1>7. sx * my > sy * mx \/ (sx * my = sy * mx /\ nx < ny)
    BY <1>2, <1>3, PromisingIs
  <1>8. /\ sx * my <= sy * mx
        /\ sx * my = sy * mx => sx * mz = sz * mx /\ sz * my = sy * mz
    <2>1. mx > 0 /\ my > 0 /\ mz > 0 /\ sx * mz <= sz * mx /\ sz * my <= sy * mz
      BY <1>2, <1>3, <1>4, <1>5, <1>6
    <2> QED
      BY ONLY <2>1, sx \in Nat, sy \in Nat, sz \in Nat, mx \in Nat, my \in Nat, mz \in Nat, RatesCompare
  <1>9. sx * my \in Nat /\ sy * mx \in Nat
    OBVIOUS
  <1>10. sx * my = sy * mx /\ nx < ny
    BY <1>7, <1>8, <1>9
  <1>11. nx >= nz /\ nz >= ny
    BY <1>5, <1>6, <1>8, <1>10
  <1> QED
    BY <1>10, <1>11

(* Of the positions below the floor one is the most promising: the first   *)
(* of those that none is more promising than.                              *)
Tallied(I, cands, shown) ==
  IsFiniteSet(I) /\ I \subseteq Nat /\ \A i \in I : shown[cands[i]] \in Tally

LEMMA MostPromisingIs ==
  ASSUME NEW I, NEW cands, NEW shown, Tallied(I, cands, shown), I # {}
  PROVE  MostPromising(I, cands, shown) \in I
  <1> DEFINE t(i) == shown[cands[i]]
  <1>1. PICK R : R = {p \in I \X I : Promising(t(p[1]), t(p[2]))}
    OBVIOUS
  <1>2. \A i, j \in I : <<i, j>> \in R <=> Promising(t(i), t(j))
    BY <1>1
  <1>3. \A i \in I : t(i) \in Tally
    BY DEF Tallied
  <1> HIDE DEF t
  <1>4. WeakOrder(R, I)
    <2>1. ASSUME NEW i \in I, NEW j \in I, <<i, j>> \in R
          PROVE  <<j, i>> \notin R
      BY <1>2, <1>3, <2>1, PromisingIs
    <2>2. ASSUME NEW i \in I, NEW j \in I, NEW k \in I, <<i, j>> \in R
          PROVE  <<i, k>> \in R \/ <<k, j>> \in R
      BY <1>2, <1>3, <2>2, PromisingIsWeak
    <2> QED
      BY <2>1, <2>2 DEF WeakOrder
  <1>5. PICK T : T = {i \in I : \A j \in I : <<j, i>> \notin R}
    OBVIOUS
  <1>6. T # {} /\ T \subseteq Int /\ IsFiniteSet(T)
    <2>1. T # {}
      BY <1>4, <1>5, Unbeaten DEF Tallied
    <2>2. T \in SUBSET I
      BY <1>5
    <2>3. IsFiniteSet(I) /\ I \subseteq Int
      BY DEF Tallied
    <2>4. IsFiniteSet(T)
      BY <2>2, <2>3, FS_Subset
    <2> QED
      BY <2>1, <2>2, <2>3, <2>4
  <1>7. PICK i \in T : \A j \in T : i <= j
    BY <1>6, LeastExists
  <1>8. ASSUME NEW j \in I \ {i}, j < i
        PROVE  Promising(t(i), t(j))
    <2>1. i \in Nat /\ j \in Nat /\ ~(i <= j)
      BY <1>5, <1>8 DEF Tallied
    <2>2. j \notin T
      BY <1>7, <2>1
    <2>3. PICK k \in I : <<k, j>> \in R
      BY <1>5, <2>2
    <2>4. <<k, i>> \notin R
      BY <1>5
    <2>5. <<i, j>> \in R
      BY <1>4, <1>5, <2>3, <2>4 DEF WeakOrder
    <2> QED
      BY <1>2, <1>5, <2>5
  <1>9. i \in I /\ \A j \in I \ {i} : ~Promising(t(j), t(i)) /\ (j < i => Promising(t(i), t(j)))
    BY <1>2, <1>5, <1>8
  <1> QED
    BY <1>9 DEF MostPromising, t

(* An explorer that has nothing to try has tried everything to the floor.  *)
Showing(cands, shown) ==
  /\ cands \in Seq(Recoveries)
  /\ \A i \in DOMAIN cands : cands[i] \in DOMAIN shown => shown[cands[i]] \in Tally

LEMMA ExploreIs ==
  ASSUME NEW cands, NEW shown, Showing(cands, shown)
  PROVE  /\ explore(cands, shown) \in Recoveries \cup {None}
         /\ explore(cands, shown) = None =>
              \A i \in DOMAIN cands : /\ cands[i] \in DOMAIN shown
                                      /\ shown[cands[i]].attempts >= EXPLORE_UNTIL_ATTEMPTS
  <1>1. PICK n \in Nat : DOMAIN cands = 1 .. n
    BY DEF Showing
  <1>2. \A i \in DOMAIN cands : cands[i] \in Recoveries
    BY DEF Showing
  <1>3. None \notin Recoveries
    BY ParticipantsAssumption
  <1>4. IsFiniteSet(1 .. n)
    BY FS_Interval
  <1>5. CASE NotTried(cands, shown) # {}
    <2>1. PICK U : U = NotTried(cands, shown) /\ U \subseteq DOMAIN cands
      BY DEF NotTried
    <2>2. IsFiniteSet(U) /\ U \subseteq Int
      BY <1>1, <1>4, <2>1, FS_Subset
    <2>3. EarliestOf(U) \in U
      <3>1. \E i \in U : \A j \in U : i <= j
        BY <1>5, <2>1, <2>2, LeastExists
      <3> QED
        BY <3>1 DEF EarliestOf
    <2>4. explore(cands, shown) = cands[EarliestOf(U)]
      BY <1>5, <2>1 DEF explore
    <2> QED
      BY <1>2, <1>3, <2>1, <2>3, <2>4
  <1>6. CASE NotTried(cands, shown) = {}
    <2>1. \A i \in DOMAIN cands : cands[i] \in DOMAIN shown /\ shown[cands[i]] \in Tally
      BY <1>6 DEF NotTried, Showing
    <2>2. PICK U : U = BelowFloor(cands, shown) /\ U \subseteq DOMAIN cands
      BY DEF BelowFloor
    <2>3. CASE U = {}
      <3>1. \A i \in DOMAIN cands : ~(shown[cands[i]].attempts < EXPLORE_UNTIL_ATTEMPTS)
        BY <2>2, <2>3 DEF BelowFloor
      <3>2. EXPLORE_UNTIL_ATTEMPTS \in Nat
        BY FloorAssumption
      <3>3. \A i \in DOMAIN cands : shown[cands[i]].attempts >= EXPLORE_UNTIL_ATTEMPTS
        BY <2>1, <3>1, <3>2 DEF Tally
      <3>4. explore(cands, shown) = None
        BY <1>6, <2>2, <2>3 DEF explore
      <3> QED
        BY <2>1, <3>3, <3>4
    <2>4. CASE U # {}
      <3>1. Tallied(U, cands, shown)
        <4>1. IsFiniteSet(U) /\ U \subseteq Nat
          BY <1>1, <1>4, <2>2, FS_Subset
        <4> QED
          BY <2>1, <2>2, <4>1 DEF Tallied
      <3>2. MostPromising(U, cands, shown) \in U
        BY <2>4, <3>1, MostPromisingIs
      <3>3. explore(cands, shown) = cands[MostPromising(U, cands, shown)]
        BY <1>6, <2>2, <2>4 DEF explore
      <3> QED
        BY <1>2, <1>3, <2>2, <3>2, <3>3
    <2> QED
      BY <2>3, <2>4
  <1> QED
    BY <1>5, <1>6

-----------------------------------------------------------------------------
(* The Wilson bound.                                                       *)

(* The bound as a function of successes and failures: more of the one      *)
(* raises it, more of the other does not.                                  *)
WilsonOf(s, f) == wilson_lower_bound[s + f][s]

Counted == 0 .. MaxAttempts * Cardinality(Failures)

LEMMA WilsonSteps ==
  ASSUME NEW s \in Nat, NEW f \in Nat
  PROVE  /\ s + f \in Counted => WilsonOf(s, f) \in Nat
         /\ (s + 1) + f \in Counted => WilsonOf(s, f) < WilsonOf(s + 1, f)
         /\ s + (f + 1) \in Counted => WilsonOf(s, f + 1) <= WilsonOf(s, f)
  <1>1. PICK n \in Nat : n = s + f
    OBVIOUS
  <1>2. s \in 0 .. n /\ n + 1 = (s + 1) + f /\ n + 1 = s + (f + 1)
    BY <1>1
  <1>3. PICK top \in Nat : top = MaxAttempts * Cardinality(Failures)
    <2>1. MaxAttempts \in Nat /\ Cardinality(Failures) \in Nat
      BY FloorAssumption, ParticipantsAssumption, FS_CardinalityType
    <2> QED
      BY <2>1
  <1>4. Counted = 0 .. top
    BY <1>3 DEF Counted
  <1>5. n + 1 \in Counted => n \in Counted
    BY <1>4
  <1>6. \A k \in Counted : k \in DOMAIN wilson_lower_bound
    BY WilsonAssumption DEF Counted
  <1>7. ASSUME n \in Counted
        PROVE  wilson_lower_bound[n][s] \in Nat
    BY <1>2, <1>6, <1>7, WilsonAssumption
  <1>8. ASSUME n + 1 \in Counted
        PROVE  /\ wilson_lower_bound[n][s] < wilson_lower_bound[n + 1][s + 1]
               /\ wilson_lower_bound[n + 1][s] <= wilson_lower_bound[n][s]
    BY <1>2, <1>5, <1>6, <1>8, WilsonAssumption
  <1> QED
    BY <1>1, <1>2, <1>7, <1>8 DEF WilsonOf

LEMMA FewerFailures ==
  ASSUME NEW s \in Nat, NEW f \in Nat, NEW k \in Nat, s + (f + k) \in Counted
  PROVE  WilsonOf(s, f + k) <= WilsonOf(s, f)
  <1> DEFINE N == {n \in Nat : s + (f + n) \in Counted => WilsonOf(s, f + n) <= WilsonOf(s, f)}
  <1>0. PICK top \in Nat : Counted = 0 .. top
    <2>1. MaxAttempts \in Nat /\ Cardinality(Failures) \in Nat
      BY FloorAssumption, ParticipantsAssumption, FS_CardinalityType
    <2> QED
      BY <2>1 DEF Counted
  <1>1. 0 \in N
    <2>1. f + 0 = f
      OBVIOUS
    <2> QED
      BY <2>1, WilsonSteps
  <1>2. ASSUME NEW n \in Nat, n \in N
        PROVE  n + 1 \in N
    <2>1. SUFFICES ASSUME s + (f + (n + 1)) \in Counted
                   PROVE  WilsonOf(s, f + (n + 1)) <= WilsonOf(s, f)
      OBVIOUS
    <2>2. PICK g \in Nat : g = f + n /\ f + (n + 1) = g + 1
      OBVIOUS
    <2>3. s + (g + 1) \in Counted /\ s + g \in Counted /\ s + f \in Counted
      BY <1>0, <2>1, <2>2
    <2>4. WilsonOf(s, g + 1) <= WilsonOf(s, g)
      BY <2>3, WilsonSteps
    <2>5. WilsonOf(s, g) <= WilsonOf(s, f)
      BY <1>2, <2>2, <2>3
    <2>6. WilsonOf(s, g + 1) \in Nat /\ WilsonOf(s, g) \in Nat /\ WilsonOf(s, f) \in Nat
      BY <2>3, WilsonSteps
    <2> QED
      BY <2>2, <2>4, <2>5, <2>6
  <1>3. k \in N
    <2> HIDE DEF N
    <2> QED
      BY <1>1, <1>2, NatSet
  <1> QED
    BY <1>3

LEMMA MoreSuccesses ==
  ASSUME NEW s \in Nat, NEW f \in Nat, NEW k \in Nat, (s + (k + 1)) + f \in Counted
  PROVE  WilsonOf(s, f) < WilsonOf(s + (k + 1), f)
  <1> DEFINE N == {n \in Nat : (s + (n + 1)) + f \in Counted => WilsonOf(s, f) < WilsonOf(s + (n + 1), f)}
  <1>0. PICK top \in Nat : Counted = 0 .. top
    <2>1. MaxAttempts \in Nat /\ Cardinality(Failures) \in Nat
      BY FloorAssumption, ParticipantsAssumption, FS_CardinalityType
    <2> QED
      BY <2>1 DEF Counted
  <1>1. 0 \in N
    <2>1. s + (0 + 1) = s + 1
      OBVIOUS
    <2> QED
      BY <2>1, WilsonSteps
  <1>2. ASSUME NEW n \in Nat, n \in N
        PROVE  n + 1 \in N
    <2>1. SUFFICES ASSUME (s + ((n + 1) + 1)) + f \in Counted
                   PROVE  WilsonOf(s, f) < WilsonOf(s + ((n + 1) + 1), f)
      OBVIOUS
    <2>2. PICK g \in Nat : g = s + (n + 1) /\ s + ((n + 1) + 1) = g + 1
      OBVIOUS
    <2>3. (g + 1) + f \in Counted /\ g + f \in Counted /\ s + f \in Counted
      BY <1>0, <2>1, <2>2
    <2>4. WilsonOf(g, f) < WilsonOf(g + 1, f)
      BY <2>3, WilsonSteps
    <2>5. WilsonOf(s, f) < WilsonOf(g, f)
      BY <1>2, <2>2, <2>3
    <2>6. WilsonOf(g + 1, f) \in Nat /\ WilsonOf(g, f) \in Nat /\ WilsonOf(s, f) \in Nat
      BY <2>3, WilsonSteps
    <2> QED
      BY <2>2, <2>4, <2>5, <2>6
  <1>3. k \in N
    <2> HIDE DEF N
    <2> QED
      BY <1>1, <1>2, NatSet
  <1> QED
    BY <1>3

LEMMA WilsonRises ==
  ASSUME NEW n \in Counted, NEW s \in 0 .. n, NEW m \in Counted, NEW t \in 0 .. m,
         t > s, m - t <= n - s
  PROVE  /\ wilson_lower_bound[n][s] \in Nat /\ wilson_lower_bound[m][t] \in Nat
         /\ wilson_lower_bound[n][s] < wilson_lower_bound[m][t]
  <1>0. PICK top \in Nat : Counted = 0 .. top
    <2>1. MaxAttempts \in Nat /\ Cardinality(Failures) \in Nat
      BY FloorAssumption, ParticipantsAssumption, FS_CardinalityType
    <2> QED
      BY <2>1 DEF Counted
  <1>1. PICK f \in Nat, g \in Nat, k \in Nat, j \in Nat :
          f = n - s /\ g = m - t /\ f = g + k /\ t = s + (j + 1)
    <2>1. n - s \in Nat /\ m - t \in Nat /\ (n - s) - (m - t) \in Nat /\ (t - s) - 1 \in Nat
      BY <1>0
    <2>2. n - s = (m - t) + ((n - s) - (m - t)) /\ t = s + (((t - s) - 1) + 1)
      BY <1>0
    <2> QED
      BY <2>1, <2>2
  <1>2. s \in Nat /\ t \in Nat /\ n = s + f /\ m = t + g
    BY <1>0, <1>1
  <1>3. s + (g + k) \in Counted /\ (s + (j + 1)) + g \in Counted /\ s + g \in Counted
    BY <1>0, <1>1, <1>2
  <1>4. WilsonOf(s, f) <= WilsonOf(s, g)
    BY <1>1, <1>2, <1>3, FewerFailures
  <1>5. WilsonOf(s, g) < WilsonOf(t, g)
    BY <1>1, <1>2, <1>3, MoreSuccesses
  <1>6. WilsonOf(s, f) \in Nat /\ WilsonOf(s, g) \in Nat /\ WilsonOf(t, g) \in Nat
    BY <1>1, <1>2, <1>3, WilsonSteps
  <1> QED
    BY <1>2, <1>4, <1>5, <1>6 DEF WilsonOf

-----------------------------------------------------------------------------
(* The invariant, and what it says of the evidence.                        *)

Rows == [fingerprint : Failures, action : Recoveries, reporter : Hashes, hour : HourNames,
         worked : BOOLEAN, copy : 1 .. MaxAttempts]

KeptRecord == [attempts : Nat, successes : Nat, eff_a : Nat, eff_s : Nat, reporters : Nat]

RecommendTypeOK ==
  /\ liveRows \in SUBSET Rows /\ IsFiniteSet(liveRows)
  /\ archivedRows \in [Failures \X Recoveries -> KeptRecord]
  /\ gaveUp \in SUBSET Failures

AttemptsAt(f, a) == Cardinality(RowsOf({f}, a)) + archivedRows[<<f, a>>].attempts

KeptRight(k) ==
  /\ k.eff_s <= k.eff_a /\ k.eff_a <= k.attempts
  /\ k.eff_a = k.attempts \/ k.eff_a >= max_reporter_weight_per_hour

FewAttempts(f, a) == KeptRight(archivedRows[<<f, a>>]) /\ AttemptsAt(f, a) <= MaxAttempts

GivenUp(f) == \A a \in ToSet(candidates) : AttemptsAt(f, a) >= min_recovery_attempts

RecommendInv ==
  /\ RecommendTypeOK
  /\ \A f \in Failures, a \in Recoveries : FewAttempts(f, a)
  /\ \A f \in gaveUp : GivenUp(f)

(* Rows at a time are few, and what is kept of each is a record.           *)
LEMMA RowsAre ==
  ASSUME RecommendTypeOK, NEW F, NEW a
  PROVE  /\ IsFiniteSet(RowsOf(F, a)) /\ RowsOf(F, a) \in SUBSET liveRows
         /\ Cardinality(RowsOf(F, a)) \in Nat
         /\ CappedRight(RowsOf(F, a))
  <1>1. IsFiniteSet(liveRows) /\ RowsOf(F, a) \in SUBSET liveRows
    BY DEF RecommendTypeOK, RowsOf
  <1>2. IsFiniteSet(RowsOf(F, a)) /\ Cardinality(RowsOf(F, a)) \in Nat
    BY <1>1, SubsetsAre
  <1> QED
    BY <1>1, <1>2, CapOfRows

LEMMA KeptAre ==
  ASSUME RecommendTypeOK, NEW f \in Failures, NEW a \in Recoveries
  PROVE  /\ archivedRows[<<f, a>>] \in KeptRecord
         /\ archivedRows[<<f, a>>].attempts \in Nat
         /\ archivedRows[<<f, a>>].successes \in Nat
         /\ archivedRows[<<f, a>>].eff_a \in Nat
         /\ archivedRows[<<f, a>>].eff_s \in Nat
         /\ archivedRows[<<f, a>>].reporters \in Nat
  BY DEF RecommendTypeOK, KeptRecord

(* The sums of one fingerprint's record are its fields.                    *)
LEMMA KeptOfOne ==
  ASSUME RecommendTypeOK, NEW f \in Failures, NEW a \in Recoveries
  PROVE  /\ KeptAttempts({f}, a) = archivedRows[<<f, a>>].attempts
         /\ KeptEffAttempts({f}, a) = archivedRows[<<f, a>>].eff_a
  <1>1. PICK n \in Nat, m \in Nat : n = archivedRows[<<f, a>>].attempts /\ m = archivedRows[<<f, a>>].eff_a
    BY KeptAre
  <1>2. [g \in {f} |-> archivedRows[<<g, a>>].attempts] = [g \in {f} |-> n]
    BY <1>1
  <1>3. [g \in {f} |-> archivedRows[<<g, a>>].eff_a] = [g \in {f} |-> m]
    BY <1>1
  <1>4. SumFunction([g \in {f} |-> n]) = n /\ SumFunction([g \in {f} |-> m]) = m
    BY SumOfOne
  <1> QED
    BY <1>1, <1>2, <1>3, <1>4 DEF KeptAttempts, KeptEffAttempts

(* Pooled or not, the sums are numbers.                                    *)
LEMMA KeptSums ==
  ASSUME RecommendTypeOK, NEW F \in SUBSET Failures, NEW a \in Recoveries
  PROVE  /\ IsFiniteSet(F)
         /\ KeptAttempts(F, a) \in Nat /\ KeptSuccesses(F, a) \in Nat
         /\ KeptEffAttempts(F, a) \in Nat /\ KeptEffSuccesses(F, a) \in Nat
  <1>1. IsFiniteSet(F)
    BY ParticipantsAssumption, FS_Subset
  <1>2. \A f \in F : /\ archivedRows[<<f, a>>].attempts \in Nat
                     /\ archivedRows[<<f, a>>].successes \in Nat
                     /\ archivedRows[<<f, a>>].eff_a \in Nat
                     /\ archivedRows[<<f, a>>].eff_s \in Nat
    BY KeptAre
  <1>3. KeptAttempts(F, a) \in Nat
    <2>1. PICK w : w = [f \in F |-> archivedRows[<<f, a>>].attempts]
      OBVIOUS
    <2>2. w \in [F -> Nat]
      BY <1>2, <2>1
    <2> QED
      BY <1>1, <2>1, <2>2, SumSteps DEF KeptAttempts
  <1>4. KeptSuccesses(F, a) \in Nat
    <2>1. PICK w : w = [f \in F |-> archivedRows[<<f, a>>].successes]
      OBVIOUS
    <2>2. w \in [F -> Nat]
      BY <1>2, <2>1
    <2> QED
      BY <1>1, <2>1, <2>2, SumSteps DEF KeptSuccesses
  <1>5. KeptEffAttempts(F, a) \in Nat
    <2>1. PICK w : w = [f \in F |-> archivedRows[<<f, a>>].eff_a]
      OBVIOUS
    <2>2. w \in [F -> Nat]
      BY <1>2, <2>1
    <2> QED
      BY <1>1, <2>1, <2>2, SumSteps DEF KeptEffAttempts
  <1>6. KeptEffSuccesses(F, a) \in Nat
    <2>1. PICK w : w = [f \in F |-> archivedRows[<<f, a>>].eff_s]
      OBVIOUS
    <2>2. w \in [F -> Nat]
      BY <1>2, <2>1
    <2> QED
      BY <1>1, <2>1, <2>2, SumSteps DEF KeptEffSuccesses
  <1> QED
    BY <1>1, <1>3, <1>4, <1>5, <1>6

(* The fields of what is known of an action.                               *)
LEMMA EvidenceIs ==
  ASSUME NEW F, NEW a
  PROVE  /\ Evidence(F, a).action = a
         /\ Evidence(F, a).attempts = Cardinality(RowsOf(F, a)) + KeptAttempts(F, a)
         /\ Evidence(F, a).successes = Cardinality(Successful(RowsOf(F, a))) + KeptSuccesses(F, a)
  BY DEF Evidence

LEMMA CappedEvidenceIs ==
  ASSUME NEW F, NEW a
  PROVE  /\ Evidence(F, a).capped_attempts = CappedAttempts(RowsOf(F, a)) + KeptEffAttempts(F, a)
         /\ Evidence(F, a).capped_successes = CappedSuccesses(RowsOf(F, a)) + KeptEffSuccesses(F, a)
  BY DEF Evidence

LEMMA ReportersKnown ==
  ASSUME NEW F, NEW a
  PROVE  Evidence(F, a).unique_reporters =
           Max({Cardinality(ReportersOf(RowsOf(F, a)))} \cup {archivedRows[<<f, a>>].reporters : f \in F})
  BY DEF Evidence

LEMMA MaxIs ==
  ASSUME NEW S, IsFiniteSet(S), S \subseteq Nat, S # {}
  PROVE  Max(S) \in Nat
  BY MaxIsGreatest

LEMMA EvidenceNumbers ==
  ASSUME RecommendTypeOK, NEW F \in SUBSET Failures, NEW a \in Recoveries
  PROVE  /\ Evidence(F, a).attempts \in Nat
         /\ Evidence(F, a).successes \in Nat
         /\ Evidence(F, a).capped_attempts \in Nat
         /\ Evidence(F, a).capped_successes \in Nat
         /\ Evidence(F, a).unique_reporters \in Nat
  <1>1. PICK R : R = RowsOf(F, a) /\ IsFiniteSet(R) /\ CappedRight(R)
    BY RowsAre
  <1>2. Cardinality(R) \in Nat /\ Cardinality(Successful(R)) \in Nat
    BY <1>1, WorkedOf
  <1>3. PICK p \in Nat, q \in Nat, r \in Nat, s \in Nat :
          /\ p = KeptAttempts(F, a) /\ q = KeptSuccesses(F, a)
          /\ r = KeptEffAttempts(F, a) /\ s = KeptEffSuccesses(F, a)
    BY KeptSums
  <1>4. Evidence(F, a).unique_reporters \in Nat
    <2>1. PICK who : who = ReportersOf(R)
      OBVIOUS
    <2>2. IsFiniteSet(who)
      <3>1. [x \in R |-> x.reporter] \in Surjection(R, who)
        BY <2>1 DEF Surjection, ReportersOf
      <3> QED
        BY <1>1, <3>1, FS_Surjection
    <2>3. PICK counts : counts = {archivedRows[<<f, a>>].reporters : f \in F}
      OBVIOUS
    <2>4. IsFiniteSet(counts)
      <3>1. [f \in F |-> archivedRows[<<f, a>>].reporters] \in Surjection(F, counts)
        BY <2>3 DEF Surjection
      <3> QED
        BY <3>1, KeptSums, FS_Surjection
    <2>5. counts \subseteq Nat
      BY <2>3, KeptAre
    <2>6. Cardinality(who) \in Nat
      BY <2>2, FS_CardinalityType
    <2>7. PICK S : S = {Cardinality(who)} \cup counts
      OBVIOUS
    <2>8. IsFiniteSet(S) /\ S \subseteq Nat /\ S # {}
      <3>1. IsFiniteSet({Cardinality(who)})
        BY FS_Singleton
      <3>2. IsFiniteSet(S)
        BY <2>4, <2>7, <3>1, FS_Union
      <3> QED
        BY <2>5, <2>6, <2>7, <3>2
    <2>9. Evidence(F, a).unique_reporters = Max(S)
      BY <1>1, <2>1, <2>3, <2>7, ReportersKnown, Zenon
    <2> QED
      BY <2>8, <2>9, MaxIs
  <1>5. Evidence(F, a).attempts = Cardinality(R) + p
    BY <1>1, <1>3, EvidenceIs, Zenon
  <1>6. Evidence(F, a).successes = Cardinality(Successful(R)) + q
    BY <1>1, <1>3, EvidenceIs, Zenon
  <1>7. Evidence(F, a).capped_attempts = CappedAttempts(R) + r
    BY <1>1, <1>3, CappedEvidenceIs, Zenon
  <1>8. Evidence(F, a).capped_successes = CappedSuccesses(R) + s
    BY <1>1, <1>3, CappedEvidenceIs, Zenon
  <1>9. CappedAttempts(R) \in Nat /\ CappedSuccesses(R) \in Nat
    BY <1>1 DEF CappedRight
  <1> QED
    BY <1>2, <1>3, <1>4, <1>5, <1>6, <1>7, <1>8, <1>9

(* The tally an explorer is shown.                                         *)
LEMMA TriedAre ==
  ASSUME RecommendTypeOK, NEW F
  PROVE  Tried(F) \in SUBSET Recoveries /\ IsFiniteSet(Tried(F))
  <1>1. Tried(F) \in SUBSET Recoveries
    BY DEF Tried, RecommendTypeOK, Rows
  <1> QED
    BY <1>1, FS_Subset, ParticipantsAssumption

LEMMA ShownIs ==
  ASSUME RecommendTypeOK, NEW f \in Failures
  PROVE  /\ \A a \in DOMAIN Shown(f) : a \in Recoveries /\ Shown(f)[a] \in Tally
         /\ \A a \in DOMAIN Shown(f) : Shown(f)[a].attempts = AttemptsAt(f, a)
  <1>1. PICK E : E = recovery_actions({f})
    OBVIOUS
  <1>2. DOMAIN Shown(f) = {e.action : e \in E}
    BY <1>1 DEF Shown
  <1>3. ASSUME NEW a \in DOMAIN Shown(f)
        PROVE  a \in Recoveries /\ Shown(f)[a] \in Tally /\ Shown(f)[a].attempts = AttemptsAt(f, a)
    <2>1. \A e \in E : \E b \in Recoveries : e = Evidence({f}, b)
      BY <1>1, TriedAre DEF recovery_actions
    <2>2. PICK d \in E : d.action = a
      BY <1>2
    <2>3. PICK e : e = CHOOSE c \in E : c.action = a
      OBVIOUS
    <2>4. e \in E /\ e.action = a
      BY <2>2, <2>3, Zenon
    <2>5. PICK b \in Recoveries : e = Evidence({f}, b)
      BY <2>1, <2>4
    <2>6. b = a
      BY <2>4, <2>5, EvidenceIs
    <2>7. Shown(f)[a] = [attempts |-> e.attempts, successes |-> e.successes]
      BY <1>1, <1>2, <2>3 DEF Shown
    <2>8. e.attempts \in Nat /\ e.successes \in Nat
      BY <2>5, EvidenceNumbers
    <2>9. e.attempts = AttemptsAt(f, a)
      <3>1. e.attempts = Cardinality(RowsOf({f}, a)) + KeptAttempts({f}, a)
        BY <2>5, <2>6, EvidenceIs, Zenon
      <3> QED
        BY <2>5, <2>6, <3>1, KeptOfOne DEF AttemptsAt
    <2> QED
      BY <2>5, <2>6, <2>7, <2>8, <2>9 DEF Tally
  <1> QED
    BY <1>3

LEMMA ExploredOut ==
  ASSUME RecommendTypeOK, NEW f \in Failures, explore(candidates, Shown(f)) = None
  PROVE  GivenUp(f)
  <1>1. PICK shown : shown = Shown(f)
    OBVIOUS
  <1>2. candidates \in Seq(Recoveries)
    BY ParticipantsAssumption
  <1>3. Showing(candidates, shown)
    BY <1>1, <1>2, ShownIs DEF Showing
  <1>4. ASSUME NEW i \in DOMAIN candidates
        PROVE  AttemptsAt(f, candidates[i]) >= min_recovery_attempts
    <2>1. /\ candidates[i] \in DOMAIN shown
          /\ shown[candidates[i]].attempts >= EXPLORE_UNTIL_ATTEMPTS
      BY <1>1, <1>3, ExploreIs
    <2>2. EXPLORE_UNTIL_ATTEMPTS = min_recovery_attempts
      BY FloorAssumption
    <2> QED
      BY <1>1, <2>1, <2>2, ShownIs
  <1> QED
    BY <1>4 DEF GivenUp, ToSet

(* Attempts enough are enough when they are capped.                        *)
LEMMA CapsAboveFloor ==
  ASSUME RecommendInv, NEW f \in Failures, NEW a \in Recoveries,
         AttemptsAt(f, a) >= min_recovery_attempts
  PROVE  Evidence({f}, a).capped_attempts >= min_recovery_attempts
  <1>1. RecommendTypeOK /\ KeptRight(archivedRows[<<f, a>>])
    BY DEF RecommendInv, FewAttempts
  <1>2. PICK n \in Nat, c \in Nat : /\ n = Cardinality(RowsOf({f}, a))
                                    /\ c = CappedAttempts(RowsOf({f}, a))
                                    /\ c = n \/ c >= max_reporter_weight_per_hour
    BY <1>1, RowsAre DEF CappedRight
  <1>3. PICK m \in Nat, k \in Nat : /\ m = archivedRows[<<f, a>>].attempts /\ k = archivedRows[<<f, a>>].eff_a
                                    /\ k = m \/ k >= max_reporter_weight_per_hour
    BY <1>1, KeptAre DEF KeptRight
  <1>4. Evidence({f}, a).capped_attempts = c + k
    <2>1. Evidence({f}, a).capped_attempts = CappedAttempts(RowsOf({f}, a)) + KeptEffAttempts({f}, a)
      BY CappedEvidenceIs, Zenon
    <2> QED
      BY <1>1, <1>2, <1>3, <2>1, KeptOfOne
  <1>5. n + m >= min_recovery_attempts
    BY <1>2, <1>3 DEF AttemptsAt
  <1> QED
    BY <1>2, <1>3, <1>4, <1>5, FloorAssumption

LEMMA InvGivesRule ==
  ASSUME RecommendInv
  PROVE  ExplorersRule
  <1>1. SUFFICES ASSUME NEW f \in Failures,
                        f \in gaveUp \/ explore(candidates, Shown(f)) = None,
                        NEW a \in ToSet(candidates)
                 PROVE  Evidence({f}, a).capped_attempts >= min_recovery_attempts
    BY DEF ExplorersRule
  <1>2. RecommendTypeOK
    BY DEF RecommendInv
  <1>3. GivenUp(f)
    BY <1>1, <1>2, ExploredOut DEF RecommendInv
  <1>4. a \in Recoveries
    BY ParticipantsAssumption DEF ToSet
  <1> QED
    BY <1>3, <1>4, CapsAboveFloor DEF GivenUp

(* The attempts of several fingerprints together are those of each.        *)
LEMMA PooledBounds ==
  ASSUME RecommendInv, NEW F \in SUBSET Failures, NEW a \in Recoveries
  PROVE  /\ Evidence(F, a).capped_attempts \in Counted
         /\ Evidence(F, a).capped_successes <= Evidence(F, a).capped_attempts
  <1>1. RecommendTypeOK /\ IsFiniteSet(F)
    BY KeptSums DEF RecommendInv
  <1>2. PICK R : R = RowsOf(F, a) /\ IsFiniteSet(R) /\ CappedRight(R) /\ Cardinality(R) \in Nat
    BY <1>1, RowsAre
  <1>3. PICK at, ea, es : /\ at = [f \in F |-> archivedRows[<<f, a>>].attempts]
                          /\ ea = [f \in F |-> archivedRows[<<f, a>>].eff_a]
                          /\ es = [f \in F |-> archivedRows[<<f, a>>].eff_s]
    OBVIOUS
  <1>4. at \in [F -> Nat] /\ ea \in [F -> Nat] /\ es \in [F -> Nat]
    BY <1>1, <1>3, KeptAre
  <1>5. \A f \in F : /\ es[f] <= ea[f] /\ ea[f] <= at[f]
                     /\ Cardinality(RowsOf({f}, a)) + at[f] <= MaxAttempts
    BY <1>3 DEF RecommendInv, FewAttempts, KeptRight, AttemptsAt
  <1>6. SumFunction(es) <= SumFunction(ea)
    BY <1>1, <1>4, <1>5, SumAtMost
  <1>7. SumFunction(ea) <= SumFunction(at)
    BY <1>1, <1>4, <1>5, SumAtMost
  <1>8. SumFunction(es) \in Nat /\ SumFunction(ea) \in Nat /\ SumFunction(at) \in Nat
    BY <1>1, <1>4, SumSteps
  <1>9. PICK counts : counts = [f \in F |-> Cardinality(RowsOf({f}, a))]
    OBVIOUS
  <1>10. counts \in [F -> Nat]
    BY <1>1, <1>9, RowsAre
  <1>11. SumFunction(counts) = Cardinality(R)
    <2>1. PICK key : key = [x \in R |-> x.fingerprint]
      OBVIOUS
    <2>2. \A f \in F : {o \in R : key[o] = f} = RowsOf({f}, a)
      BY <1>2, <2>1 DEF RowsOf
    <2>3. {o \in R : key[o] \in F} = R
      BY <1>2, <2>1 DEF RowsOf
    <2>4. SumFunction([f \in F |-> Cardinality({o \in R : key[o] = f})])
            = Cardinality({o \in R : key[o] \in F})
      BY <1>1, <1>2, CountByKey
    <2>5. [f \in F |-> Cardinality({o \in R : key[o] = f})] = counts
      BY <1>9, <2>2
    <2> QED
      BY <2>3, <2>4, <2>5
  <1>12. PICK all : all = [f \in F |-> counts[f] + at[f]]
    OBVIOUS
  <1>13. all \in [F -> Nat] /\ \A f \in F : all[f] = counts[f] + at[f]
    BY <1>4, <1>10, <1>12
  <1>14. SumFunction(all) = SumFunction(counts) + SumFunction(at)
    BY ONLY <1>1, <1>4, <1>10, <1>13, SumOfSums
  <1>15. MaxAttempts \in Nat
    BY FloorAssumption
  <1>16. \A f \in F : all[f] <= MaxAttempts
    BY <1>5, <1>9, <1>13
  <1>17. SumFunction(all) <= MaxAttempts * Cardinality(F)
    BY <1>1, <1>13, <1>15, <1>16, SumBounded
  <1>18. PICK size \in Nat, part \in Nat :
           size = Cardinality(Failures) /\ part = Cardinality(F) /\ part <= size
    BY ParticipantsAssumption, FS_Subset, FS_CardinalityType
  <1>19. MaxAttempts * part <= MaxAttempts * size /\ MaxAttempts * size \in Nat /\ MaxAttempts * part \in Nat
    BY <1>15, <1>18
  <1>20. Cardinality(R) + SumFunction(at) <= MaxAttempts * size
    BY <1>2, <1>8, <1>11, <1>14, <1>17, <1>18, <1>19
  <1>21. Evidence(F, a).capped_attempts = CappedAttempts(R) + SumFunction(ea)
    BY <1>2, <1>3, CappedEvidenceIs, Zenon DEF KeptEffAttempts
  <1>22. Evidence(F, a).capped_successes = CappedSuccesses(R) + SumFunction(es)
    BY <1>2, <1>3, CappedEvidenceIs, Zenon DEF KeptEffSuccesses
  <1>23. /\ CappedAttempts(R) \in Nat /\ CappedSuccesses(R) \in Nat
         /\ CappedSuccesses(R) <= CappedAttempts(R) /\ CappedAttempts(R) <= Cardinality(R)
    BY <1>2 DEF CappedRight
  <1>24. Evidence(F, a).capped_attempts \in 0 .. MaxAttempts * size
    BY <1>2, <1>7, <1>8, <1>19, <1>20, <1>21, <1>23
  <1> QED
    BY <1>6, <1>8, <1>18, <1>21, <1>22, <1>23, <1>24 DEF Counted

-----------------------------------------------------------------------------
(* The score.                                                              *)

(* Evidence the score is defined for.                                      *)
Rated(e) ==
  /\ e.capped_attempts \in Counted
  /\ e.capped_successes \in 0 .. e.capped_attempts
  /\ e.unique_reporters \in Nat

LEMMA CountedAre == Counted \subseteq Nat
  <1>1. MaxAttempts \in Nat /\ Cardinality(Failures) \in Nat
    BY FloorAssumption, ParticipantsAssumption, FS_CardinalityType
  <1> QED
    BY <1>1 DEF Counted

LEMMA RatedIs ==
  ASSUME NEW e, Rated(e)
  PROVE  \E n \in Counted : \E s \in 0 .. n :
           n \in Nat /\ s \in Nat /\ n = e.capped_attempts /\ s = e.capped_successes
  <1>1. PICK n \in Counted : n = e.capped_attempts
    BY DEF Rated
  <1>2. PICK s \in 0 .. n : s = e.capped_successes
    BY <1>1 DEF Rated
  <1>3. n \in Nat
    BY CountedAre
  <1>4. s \in Nat
    BY <1>3
  <1> QED
    BY <1>1, <1>2, <1>3, <1>4

LEMMA RatedAre ==
  ASSUME RecommendInv, NEW F \in SUBSET Failures, NEW e \in recovery_actions(F)
  PROVE  Rated(e) /\ e.action \in Recoveries
  <1>1. RecommendTypeOK
    BY DEF RecommendInv
  <1>2. PICK a \in Recoveries : e = Evidence(F, a)
    BY <1>1, TriedAre DEF recovery_actions
  <1>3. PICK n, s, u : n = e.capped_attempts /\ s = e.capped_successes /\ u = e.unique_reporters
    OBVIOUS
  <1>4. n \in Nat /\ s \in Nat /\ u \in Nat
    BY <1>1, <1>2, <1>3, EvidenceNumbers
  <1>5. n \in Counted /\ s <= n
    BY <1>2, <1>3, PooledBounds
  <1>6. e.action = a
    BY <1>2, EvidenceIs
  <1> QED
    BY <1>3, <1>4, <1>5, <1>6 DEF Rated

LEMMA DiversityIs ==
  ASSUME NEW c, NEW d, c.unique_reporters \in Nat, d.unique_reporters \in Nat
  PROVE  /\ diversity_percent(c) \in Nat \ {0} /\ diversity_percent(d) \in Nat \ {0}
         /\ d.unique_reporters >= c.unique_reporters => diversity_percent(d) >= diversity_percent(c)
  BY FloorAssumption DEF diversity_percent

LEMMA ScoreIs ==
  ASSUME NEW e, Rated(e)
  PROVE  evidence_score(e) \in Nat
  <1>1. PICK n \in Counted : \E k \in 0 .. n :
          n \in Nat /\ k \in Nat /\ n = e.capped_attempts /\ k = e.capped_successes
    BY RatedIs
  <1>4. PICK s \in 0 .. n : s \in Nat /\ s = e.capped_successes
    BY <1>1
  <1>2. wilson_lower_bound[n][s] \in Nat
    BY <1>1, <1>4, WilsonAssumption DEF Counted
  <1>3. diversity_percent(e) \in Nat
    BY DiversityIs DEF Rated
  <1> QED
    BY <1>1, <1>2, <1>3, <1>4 DEF evidence_score

(* More successes, no more failures and no fewer reporters score higher.   *)
LEMMA ScoreRises ==
  ASSUME NEW c, Rated(c), NEW d, Rated(d),
         d.capped_successes > c.capped_successes,
         d.capped_attempts - d.capped_successes <= c.capped_attempts - c.capped_successes,
         d.unique_reporters >= c.unique_reporters
  PROVE  evidence_score(c) < evidence_score(d)
  <1>1. PICK n \in Counted : \E k \in 0 .. n :
          n \in Nat /\ k \in Nat /\ n = c.capped_attempts /\ k = c.capped_successes
    BY RatedIs
  <1>8. PICK s \in 0 .. n : s \in Nat /\ s = c.capped_successes
    BY <1>1
  <1>2. PICK m \in Counted : \E k \in 0 .. m :
          m \in Nat /\ k \in Nat /\ m = d.capped_attempts /\ k = d.capped_successes
    BY RatedIs
  <1>9. PICK t \in 0 .. m : t \in Nat /\ t = d.capped_successes
    BY <1>2
  <1>3. t > s /\ m - t <= n - s
    BY <1>1, <1>2, <1>8, <1>9
  <1>4. /\ wilson_lower_bound[n][s] \in Nat /\ wilson_lower_bound[m][t] \in Nat
        /\ wilson_lower_bound[n][s] < wilson_lower_bound[m][t]
    BY <1>1, <1>2, <1>3, <1>8, <1>9, WilsonRises
  <1>5. PICK p \in Nat, q \in Nat : /\ p = diversity_percent(c) /\ q = diversity_percent(d)
                                    /\ q >= p /\ p > 0
    <2>1. /\ diversity_percent(c) \in Nat \ {0} /\ diversity_percent(d) \in Nat \ {0}
          /\ diversity_percent(d) >= diversity_percent(c)
      BY DiversityIs DEF Rated
    <2> QED
      BY <2>1
  <1>6. PICK x \in Nat, y \in Nat : x = wilson_lower_bound[n][s] /\ y = wilson_lower_bound[m][t] /\ x < y
    BY <1>4
  <1>7. x * p < y * q
    <2>1. x * p + p <= y * p
      <3>1. (x + 1) * p <= y * p
        BY <1>6
      <3> QED
        BY <3>1
    <2>2. y * p <= y * q
      BY <1>5
    <2>3. x * p \in Nat /\ y * p \in Nat /\ y * q \in Nat
      OBVIOUS
    <2> QED
      BY <1>5, <2>1, <2>2, <2>3
  <1> QED
    BY <1>1, <1>2, <1>5, <1>6, <1>7, <1>8, <1>9 DEF evidence_score

NotBehind(d, e) ==
  \/ evidence_score(d) < evidence_score(e)
  \/ evidence_score(d) = evidence_score(e) /\ d.capped_attempts <= e.capped_attempts

LEMMA BestIs ==
  ASSUME NEW S, IsFiniteSet(S), S # {}, \A e \in S : Rated(e)
  PROVE  Best(S) \in S /\ \A d \in S : NotBehind(d, Best(S))
  <1>1. PICK score : score = [e \in S |-> evidence_score(e)]
    OBVIOUS
  <1>2. PICK size : size = [e \in S |-> e.capped_attempts]
    OBVIOUS
  <1>3. \A e \in S : score[e] \in Nat /\ size[e] \in Nat
    <2>1. \A e \in S : evidence_score(e) \in Nat
      BY ScoreIs
    <2>2. \A e \in S : e.capped_attempts \in Nat
      BY CountedAre DEF Rated
    <2> QED
      BY <1>1, <1>2, <2>1, <2>2
  <1>4. PICK R : R = {p \in S \X S : \/ score[p[1]] > score[p[2]]
                                     \/ score[p[1]] = score[p[2]] /\ size[p[1]] > size[p[2]]}
    OBVIOUS
  <1>5. \A x, y \in S : <<x, y>> \in R <=> \/ score[x] > score[y]
                                           \/ score[x] = score[y] /\ size[x] > size[y]
    BY <1>4
  <1>6. WeakOrder(R, S)
    <2>1. \A x, y \in S : <<x, y>> \in R => <<y, x>> \notin R
      BY <1>3, <1>5
    <2>2. \A x, y, z \in S : <<x, y>> \in R => <<x, z>> \in R \/ <<z, y>> \in R
      BY <1>3, <1>5
    <2> QED
      BY <2>1, <2>2 DEF WeakOrder
  <1>7. PICK e \in S : \A d \in S : <<d, e>> \notin R
    BY <1>6, Unbeaten
  <1>8. \A d \in S : NotBehind(d, e)
    <2>1. ASSUME NEW d \in S
          PROVE  score[d] < score[e] \/ (score[d] = score[e] /\ size[d] <= size[e])
      <3>1. ~(score[d] > score[e] \/ (score[d] = score[e] /\ size[d] > size[e]))
        BY <1>5, <1>7
      <3>2. score[d] \in Nat /\ score[e] \in Nat /\ size[d] \in Nat /\ size[e] \in Nat
        BY <1>3
      <3> QED
        BY <3>1, <3>2
    <2> QED
      BY <1>1, <1>2, <2>1 DEF NotBehind
  <1> QED
    BY <1>8, Zenon DEF Best, NotBehind

(* What is recommended of what is known.                                   *)
LEMMA RecommendIs ==
  ASSUME RecommendInv, NEW F \in SUBSET Failures, NEW eligible,
         eligible = Eligible(recovery_actions(F)), eligible # {}
  PROVE  /\ recommend(recovery_actions(F)) = Best(eligible)
         /\ Best(eligible) \in eligible
         /\ eligible \in SUBSET recovery_actions(F)
         /\ \A d \in eligible : NotBehind(d, Best(eligible))
  <1>1. eligible \in SUBSET recovery_actions(F)
    BY DEF Eligible
  <1>2. IsFiniteSet(recovery_actions(F))
    <2>1. IsFiniteSet(Tried(F))
      BY TriedAre DEF RecommendInv
    <2>2. [a \in Tried(F) |-> Evidence(F, a)] \in Surjection(Tried(F), recovery_actions(F))
      BY DEF Surjection, recovery_actions
    <2> QED
      BY <2>1, <2>2, FS_Surjection
  <1>3. IsFiniteSet(eligible)
    BY <1>1, <1>2, FS_Subset
  <1>4. \A e \in eligible : Rated(e)
    BY <1>1, RatedAre
  <1>5. recommend(recovery_actions(F)) = Best(eligible)
    BY DEF recommend
  <1>6. Best(eligible) \in eligible /\ \A d \in eligible : NotBehind(d, Best(eligible))
    BY <1>3, <1>4, BestIs
  <1> QED
    BY <1>1, <1>5, <1>6

LEMMA InvGivesNotDominated ==
  ASSUME RecommendInv
  PROVE  NotDominated
  <1>1. SUFFICES ASSUME NEW F \in {{f} : f \in Failures} \cup {Failures},
                        NEW eligible, eligible = Eligible(recovery_actions(F)),
                        NEW c, c = recommend(recovery_actions(F)),
                        NEW d \in eligible,
                        d.capped_successes > c.capped_successes,
                        d.capped_attempts - d.capped_successes <= c.capped_attempts - c.capped_successes,
                        d.unique_reporters >= c.unique_reporters
                 PROVE  FALSE
    BY Zenon DEF NotDominated
  <1>2. F \in SUBSET Failures /\ eligible # {}
    BY <1>1
  <1>3. /\ c = Best(eligible) /\ c \in eligible /\ eligible \in SUBSET recovery_actions(F)
        /\ NotBehind(d, c)
    BY <1>1, <1>2, RecommendIs
  <1>4. Rated(c) /\ Rated(d)
    BY <1>2, <1>3, RatedAre
  <1>5. evidence_score(c) < evidence_score(d)
    BY <1>1, <1>4, ScoreRises
  <1>6. evidence_score(c) \in Nat /\ evidence_score(d) \in Nat
    BY <1>4, ScoreIs
  <1> QED
    BY <1>3, <1>5, <1>6 DEF NotBehind

-----------------------------------------------------------------------------
(* What the participants do.                                               *)

(* What the network answers names an action, or says skip, or nothing.     *)
LEMMA RecommendedIs ==
  ASSUME RecommendInv, NEW F \in SUBSET Failures
  PROVE  \/ recommend(recovery_actions(F)) = None
         \/ recommend(recovery_actions(F)).action \in Recoveries \cup {"skip"}
  <1>1. PICK E : E = recovery_actions(F)
    OBVIOUS
  <1>2. PICK eligible : eligible = Eligible(E)
    OBVIOUS
  <1>3. CASE eligible = {}
    <2>1. recommend(E) = futility(E)
      BY <1>2, <1>3 DEF recommend
    <2>2. futility(E) = None \/ futility(E).action = "skip"
      BY DEF futility
    <2> QED
      BY <1>1, <2>1, <2>2
  <1>4. CASE eligible # {}
    <2>1. recommend(E) = Best(eligible) /\ Best(eligible) \in recovery_actions(F)
      BY <1>1, <1>2, <1>4, RecommendIs
    <2>2. recommend(E).action \in Recoveries
      BY <2>1, RatedAre
    <2> QED
      BY <1>1, <2>2
  <1> QED
    BY <1>3, <1>4

LEMMA ChosenActionIs ==
  ASSUME RecommendInv, NEW f \in Failures
  PROVE  ChosenAction(f) \in Recoveries \cup {None, "skip"}
  <1>1. PICK own : own = recommend(recovery_actions({f}))
    OBVIOUS
  <1>2. own = None \/ own.action \in Recoveries \cup {"skip"}
    <2>1. {f} \in SUBSET Failures
      OBVIOUS
    <2> QED
      BY <1>1, <2>1, RecommendedIs
  <1>3. PICK pooled : pooled = recommend(recovery_actions({f} \cup same_shape_fingerprints(f)))
    OBVIOUS
  <1>4. pooled = None \/ pooled.action \in Recoveries \cup {"skip"}
    <2>1. {f} \cup same_shape_fingerprints(f) \in SUBSET Failures
      BY DEF same_shape_fingerprints
    <2> QED
      BY <1>3, <2>1, RecommendedIs
  <1>5. Chosen(f) \in {own, None, pooled}
    BY <1>1, <1>3 DEF Chosen
  <1>6. PICK chosen : chosen = Chosen(f)
    OBVIOUS
  <1>7. chosen = None \/ chosen.action \in Recoveries \cup {"skip"}
    BY <1>2, <1>4, <1>5, <1>6
  <1>8. ChosenAction(f) = IF chosen = None THEN None ELSE chosen.action
    BY <1>6 DEF ChosenAction
  <1> QED
    BY <1>7, <1>8

(* What a participant tries is an action, or it skips; an explorer skips   *)
(* when it has explored everything.                                        *)
LEMMA TriesIs ==
  ASSUME RecommendInv, NEW p \in Personas, NEW f \in p.meets
  PROVE  /\ Tries(p, f) \in Recoveries \cup {"skip"}
         /\ Tries(p, f) = "skip" /\ p.role = "explorer" => explore(candidates, Shown(f)) = None
  <1>1. f \in Failures /\ "retry" \in Recoveries /\ None \notin Recoveries /\ "skip" \notin Recoveries
    BY ParticipantsAssumption
  <1>2. PICK explored : explored = explore(candidates, Shown(f))
    OBVIOUS
  <1>3. explored \in Recoveries \cup {None}
    <2>1. candidates \in Seq(Recoveries)
      BY ParticipantsAssumption
    <2>2. PICK shown : shown = Shown(f)
      OBVIOUS
    <2>3. Showing(candidates, shown)
      <3>1. RecommendTypeOK
        BY DEF RecommendInv
      <3> QED
        BY <1>1, <2>1, <2>2, <3>1, ShownIs DEF Showing
    <2> QED
      BY <1>2, <2>2, <2>3, ExploreIs
  <1>4. PICK advice : advice = ChosenAction(f)
    OBVIOUS
  <1>5. advice \in Recoveries \cup {None, "skip"}
    BY <1>1, <1>4, ChosenActionIs
  <1>6. Tries(p, f) = IF p.role = "blind" THEN "retry"
                      ELSE IF advice \notin {None, "skip"} THEN advice
                      ELSE IF p.role = "explorer" /\ explored # None THEN explored
                      ELSE IF advice = "skip" THEN "skip"
                      ELSE "retry"
    BY <1>2, <1>4 DEF Tries
  <1>7. Tries(p, f) \in Recoveries \cup {"skip"}
    BY <1>1, <1>3, <1>5, <1>6
  <1>8. Tries(p, f) = "skip" /\ p.role = "explorer" => explored = None
    BY <1>1, <1>3, <1>5, <1>6
  <1> QED
    BY <1>2, <1>7, <1>8

-----------------------------------------------------------------------------
(* The steps.                                                              *)

LEMMA RecommendInitInv == RecommendInit => RecommendInv
  <1> SUFFICES ASSUME RecommendInit
               PROVE  RecommendInv
    OBVIOUS
  <1> USE DEF RecommendInit
  <1>1. IsFiniteSet(liveRows)
    BY FS_EmptySet
  <1>2. RecommendTypeOK
    BY <1>1 DEF RecommendTypeOK, KeptRecord
  <1>3. ASSUME NEW f \in Failures, NEW a \in Recoveries
        PROVE  FewAttempts(f, a)
    <2>1. RowsOf({f}, a) = {}
      BY DEF RowsOf
    <2>2. Cardinality(RowsOf({f}, a)) = 0
      BY <2>1, FS_EmptySet
    <2>3. archivedRows[<<f, a>>] = [attempts |-> 0, successes |-> 0, eff_a |-> 0, eff_s |-> 0, reporters |-> 0]
      OBVIOUS
    <2> QED
      BY <2>2, <2>3, FloorAssumption DEF FewAttempts, KeptRight, AttemptsAt
  <1> QED
    BY <1>2, <1>3 DEF RecommendInv

NewRow(f, a, r, ok, n) ==
  [fingerprint |-> f, action |-> a, reporter |-> r, hour |-> "now", worked |-> ok, copy |-> n]

(* Below the bound there is a copy that is not there yet.                  *)
LEMMA CopyLeft ==
  ASSUME RecommendTypeOK, NEW f \in Failures, NEW a \in Recoveries, NEW r, NEW ok,
         AttemptsAt(f, a) < MaxAttempts
  PROVE  \E n \in 1 .. MaxAttempts : NewRow(f, a, r, ok, n) \notin liveRows
  <1>1. SUFFICES ASSUME \A n \in 1 .. MaxAttempts : NewRow(f, a, r, ok, n) \in liveRows
                 PROVE  FALSE
    OBVIOUS
  <1>2. PICK R : R = RowsOf({f}, a) /\ IsFiniteSet(R) /\ Cardinality(R) \in Nat
    BY RowsAre
  <1>3. PICK copies : copies = [n \in 1 .. MaxAttempts |-> NewRow(f, a, r, ok, n)]
    OBVIOUS
  <1>4. \A n \in 1 .. MaxAttempts : NewRow(f, a, r, ok, n) \in R
    BY <1>1, <1>2 DEF RowsOf, NewRow
  <1>5. \A n, m \in 1 .. MaxAttempts : NewRow(f, a, r, ok, n) = NewRow(f, a, r, ok, m) => n = m
    BY DEF NewRow
  <1>6. copies \in Injection(1 .. MaxAttempts, R)
    <2>1. copies \in [1 .. MaxAttempts -> R]
      BY <1>3, <1>4
    <2>2. \A n, m \in 1 .. MaxAttempts : copies[n] = copies[m] => n = m
      BY <1>3, <1>5
    <2> QED
      BY <2>1, <2>2 DEF Injection, IsInjective
  <1>7. Cardinality(1 .. MaxAttempts) <= Cardinality(R)
    BY <1>2, <1>6, FS_Injection
  <1>8. MaxAttempts \in Nat /\ Cardinality(1 .. MaxAttempts) = MaxAttempts
    <2>1. MaxAttempts \in Nat /\ MaxAttempts >= 1
      BY FloorAssumption
    <2> QED
      BY <2>1, FS_Interval
  <1>9. archivedRows[<<f, a>>].attempts \in Nat
    BY KeptAre
  <1> QED
    BY <1>2, <1>7, <1>8, <1>9 DEF AttemptsAt

LEMMA RecoverKeepsInv ==
  ASSUME RecommendInv, NEW p \in Personas, NEW f \in p.meets, Recover(p, f)
  PROVE  RecommendInv'
  <1>1. f \in Failures /\ p.reporter \in Hashes
    BY ParticipantsAssumption
  <1>2. PICK a \in {Tries(p, f)} : /\ a # "skip"
                                   /\ Evidence({f}, a).attempts < MaxAttempts
                                   /\ \E ok \in Outcomes(a) : Reported(f, a, p.reporter, ok)
    BY Zenon DEF Recover
  <1>3. a \in Recoveries
    BY <1>2, TriesIs
  <1>4. RecommendTypeOK
    BY DEF RecommendInv
  <1>5. AttemptsAt(f, a) < MaxAttempts
    <2>1. Evidence({f}, a).attempts = Cardinality(RowsOf({f}, a)) + KeptAttempts({f}, a)
      BY EvidenceIs, Zenon
    <2> QED
      BY <1>1, <1>2, <1>3, <1>4, <2>1, KeptOfOne DEF AttemptsAt
  <1>6. PICK r \in Hashes : r = p.reporter
    BY <1>1
  <1>7. PICK ok \in BOOLEAN : Reported(f, a, r, ok)
    BY <1>2, <1>6 DEF Outcomes
  <1>8. PICK n : n = CHOOSE m \in 1 .. MaxAttempts : NewRow(f, a, r, ok, m) \notin liveRows
    OBVIOUS
  <1>9. n \in 1 .. MaxAttempts /\ NewRow(f, a, r, ok, n) \notin liveRows
    <2>1. \E m \in 1 .. MaxAttempts : NewRow(f, a, r, ok, m) \notin liveRows
      BY <1>1, <1>3, <1>4, <1>5, CopyLeft
    <2> QED
      BY <1>8, <2>1, Zenon
  <1>10. PICK row : row = NewRow(f, a, r, ok, n)
    OBVIOUS
  <1>11. liveRows' = liveRows \cup {row}
    BY <1>7, <1>8, <1>10 DEF Reported, NewRow
  <1>12. row \notin liveRows
    BY <1>9, <1>10
  <1>13. row \in Rows /\ row.fingerprint = f /\ row.action = a
    BY <1>1, <1>3, <1>9, <1>10 DEF NewRow, Rows, HourNames
  <1>14. archivedRows' = archivedRows /\ gaveUp' = gaveUp
    BY DEF Recover
  <1>15. RecommendTypeOK'
    <2>1. liveRows' \in SUBSET Rows
      BY <1>4, <1>11, <1>13 DEF RecommendTypeOK
    <2>2. IsFiniteSet(liveRows')
      BY <1>4, <1>11, FS_AddElement DEF RecommendTypeOK
    <2> QED
      BY <1>4, <1>14, <2>1, <2>2 DEF RecommendTypeOK
  <1>16. ASSUME NEW g \in Failures, NEW b \in Recoveries
         PROVE  /\ AttemptsAt(g, b)' >= AttemptsAt(g, b)
                /\ AttemptsAt(g, b)' <= MaxAttempts
    <2>1. PICK R : R = RowsOf({g}, b) /\ IsFiniteSet(R) /\ Cardinality(R) \in Nat
      BY <1>4, RowsAre
    <2>2. PICK k \in Nat : k = archivedRows[<<g, b>>].attempts
      BY <1>4, KeptAre
    <2>3. Cardinality(R) + k <= MaxAttempts /\ MaxAttempts \in Nat
      BY <2>1, <2>2, FloorAssumption DEF RecommendInv, FewAttempts, AttemptsAt
    <2>4. AttemptsAt(g, b)' = Cardinality(RowsOf({g}, b)') + k
      BY <1>14, <2>2 DEF AttemptsAt
    <2>5. CASE g = f /\ b = a
      <3>1. RowsOf({g}, b)' = R \cup {row} /\ row \notin R
        BY <1>11, <1>12, <1>13, <2>1, <2>5 DEF RowsOf
      <3>2. Cardinality(RowsOf({g}, b)') = Cardinality(R) + 1
        BY <2>1, <3>1, FS_AddElement
      <3>3. Cardinality(R) + k < MaxAttempts
        BY <1>5, <2>1, <2>2, <2>5 DEF AttemptsAt
      <3> QED
        BY <2>1, <2>2, <2>3, <2>4, <3>2, <3>3 DEF AttemptsAt
    <2>6. CASE ~(g = f /\ b = a)
      <3>1. RowsOf({g}, b)' = R
        BY <1>11, <1>13, <2>1, <2>6 DEF RowsOf
      <3> QED
        BY <2>1, <2>2, <2>3, <2>4, <3>1 DEF AttemptsAt
    <2> QED
      BY <2>5, <2>6
  <1>17. ASSUME NEW g \in Failures, NEW b \in Recoveries
         PROVE  FewAttempts(g, b)'
    <2>1. KeptRight(archivedRows[<<g, b>>])
      BY DEF RecommendInv, FewAttempts
    <2>2. KeptRight(archivedRows'[<<g, b>>])
      BY <1>14, <2>1
    <2> QED
      BY <1>16, <2>2 DEF FewAttempts
  <1>18. ASSUME NEW g \in gaveUp'
         PROVE  GivenUp(g)'
    <2>1. g \in Failures /\ GivenUp(g)
      BY <1>4, <1>14 DEF RecommendInv, RecommendTypeOK
    <2>2. ASSUME NEW b \in ToSet(candidates)
          PROVE  AttemptsAt(g, b)' >= min_recovery_attempts
      <3>1. b \in Recoveries
        BY ParticipantsAssumption DEF ToSet
      <3>2. AttemptsAt(g, b) >= min_recovery_attempts
        BY <2>1 DEF GivenUp
      <3>3. AttemptsAt(g, b) \in Nat
        <4>1. Cardinality(RowsOf({g}, b)) \in Nat
          BY <1>4, RowsAre
        <4>2. archivedRows[<<g, b>>].attempts \in Nat
          BY <1>4, <2>1, <3>1, KeptAre
        <4> QED
          BY <4>1, <4>2 DEF AttemptsAt
      <3>4. AttemptsAt(g, b)' \in Nat
        <4>1. Cardinality(RowsOf({g}, b)') \in Nat
          <5>1. RowsOf({g}, b)' \in SUBSET liveRows' /\ IsFiniteSet(liveRows')
            BY <1>15 DEF RowsOf, RecommendTypeOK
          <5> QED
            BY <5>1, SubsetsAre
        <4>2. archivedRows'[<<g, b>>].attempts \in Nat
          BY <1>4, <1>14, <2>1, <3>1, KeptAre
        <4> QED
          BY <4>1, <4>2 DEF AttemptsAt
      <3>5. AttemptsAt(g, b)' >= AttemptsAt(g, b)
        BY <1>16, <2>1, <3>1
      <3> QED
        BY <3>2, <3>3, <3>4, <3>5, FloorAssumption
    <2> QED
      BY <2>2 DEF GivenUp
  <1> QED
    BY <1>15, <1>17, <1>18 DEF RecommendInv

LEMMA SkipKeepsInv ==
  ASSUME RecommendInv, NEW p \in Personas, NEW f \in p.meets, Skip(p, f)
  PROVE  RecommendInv'
  <1>1. f \in Failures
    BY ParticipantsAssumption
  <1>2. liveRows' = liveRows /\ archivedRows' = archivedRows
    BY DEF Skip
  <1>3. p.role = "explorer" => GivenUp(f)
    BY <1>1, TriesIs, ExploredOut DEF Skip, RecommendInv
  <1>4. gaveUp' = gaveUp \/ (gaveUp' = gaveUp \cup {f} /\ GivenUp(f))
    BY <1>3 DEF Skip
  <1>5. RecommendTypeOK'
    BY <1>1, <1>2, <1>4 DEF RecommendInv, RecommendTypeOK
  <1>6. \A g, b : AttemptsAt(g, b)' = AttemptsAt(g, b)
    BY <1>2 DEF AttemptsAt, RowsOf
  <1>7. ASSUME NEW g \in Failures, NEW b \in Recoveries
        PROVE  FewAttempts(g, b)'
    <2>1. KeptRight(archivedRows[<<g, b>>]) /\ AttemptsAt(g, b) <= MaxAttempts
      BY DEF RecommendInv, FewAttempts
    <2>2. KeptRight(archivedRows'[<<g, b>>]) /\ AttemptsAt(g, b)' <= MaxAttempts
      BY <1>2, <1>6, <2>1
    <2> QED
      BY <2>2 DEF FewAttempts
  <1>8. \A g \in gaveUp' : GivenUp(g)'
    BY <1>4, <1>6 DEF RecommendInv, GivenUp
  <1> QED
    BY <1>5, <1>7, <1>8 DEF RecommendInv

(* When the hour passes a row becomes an old one, and no two the same.     *)
Older(y) == [y EXCEPT !.hour = "before"]

LEMMA OlderIs ==
  ASSUME NEW y \in Rows
  PROVE  /\ Older(y) \in Rows
         /\ Older(y).fingerprint = y.fingerprint
         /\ Older(y).action = y.action
  BY DEF Older, Rows, HourNames

LEMMA OlderDiffer ==
  ASSUME NEW y \in Rows, NEW z \in Rows, y.hour = z.hour, Older(y) = Older(z)
  PROVE  y = z
  <1>1. /\ Older(y).fingerprint = y.fingerprint /\ Older(z).fingerprint = z.fingerprint
        /\ Older(y).action = y.action /\ Older(z).action = z.action
        /\ Older(y).reporter = y.reporter /\ Older(z).reporter = z.reporter
        /\ Older(y).copy = y.copy /\ Older(z).copy = z.copy
    BY DEF Older, Rows
  <1>2. Older(y).worked = y.worked /\ Older(z).worked = z.worked
    BY DEF Older, Rows
  <1> QED
    BY <1>1, <1>2 DEF Rows

LEMMA HourPassesKeepsInv ==
  ASSUME RecommendInv, HourPasses
  PROVE  RecommendInv'
  <1>1. RecommendTypeOK
    BY DEF RecommendInv
  <1>2. liveRows \in SUBSET Rows /\ IsFiniteSet(liveRows)
    BY <1>1 DEF RecommendTypeOK
  <1>3. PICK current : current = {z \in liveRows : z.hour = "now"}
    OBVIOUS
  <1>4. liveRows' = {Older(y) : y \in current}
    BY <1>3 DEF HourPasses, Older
  <1>5. gaveUp' = gaveUp
    BY DEF HourPasses
  <1>6. current \in SUBSET Rows /\ IsFiniteSet(current)
    BY <1>2, <1>3, FS_Subset
  <1>7. liveRows' \in SUBSET Rows
    BY <1>4, <1>6, OlderIs
  <1>8. IsFiniteSet(liveRows')
    <2>1. [y \in current |-> Older(y)] \in Surjection(current, liveRows')
      BY <1>4 DEF Surjection
    <2> QED
      BY <1>6, <2>1, FS_Surjection
  <1> DEFINE Aged(f, a) == {y \in liveRows : y.fingerprint = f /\ y.action = a /\ y.hour = "before"}
             Fresh(f, a) == {y \in liveRows : y.fingerprint = f /\ y.action = a /\ y.hour = "now"}
  <1>9. ASSUME NEW f \in Failures, NEW a \in Recoveries
        PROVE  archivedRows'[<<f, a>>] = ArchivedWith(archivedRows[<<f, a>>], Aged(f, a))
    <2>1. PICK x : x = <<f, a>>
      OBVIOUS
    <2>4. x \in Failures \X Recoveries /\ x[1] = f /\ x[2] = a
      BY <2>1
    <2>2. x \in DOMAIN archivedRows
      BY <1>1, <2>4 DEF RecommendTypeOK
    <2>3. archivedRows'[x] = ArchivedWith(archivedRows[x],
            {y \in liveRows : y.fingerprint = x[1] /\ y.action = x[2] /\ y.hour = "before"})
      BY <2>2 DEF HourPasses
    <2> QED
      BY <2>1, <2>3, <2>4
  <1>10. ASSUME NEW f, NEW a
         PROVE  /\ IsFiniteSet(Aged(f, a)) /\ IsFiniteSet(Fresh(f, a))
                /\ Cardinality(Aged(f, a)) \in Nat /\ Cardinality(Fresh(f, a)) \in Nat
                /\ CappedRight(Aged(f, a))
    <2>1. Aged(f, a) \in SUBSET liveRows /\ Fresh(f, a) \in SUBSET liveRows
      OBVIOUS
    <2> HIDE DEF Aged, Fresh
    <2> QED
      BY <1>2, <2>1, SubsetsAre, CapOfRows
  <1>11. ASSUME NEW f \in Failures, NEW a \in Recoveries
         PROVE  /\ archivedRows'[<<f, a>>] \in KeptRecord
                /\ KeptRight(archivedRows'[<<f, a>>])
                /\ archivedRows'[<<f, a>>].attempts = archivedRows[<<f, a>>].attempts + Cardinality(Aged(f, a))
    <2>1. PICK old \in KeptRecord : old = archivedRows[<<f, a>>] /\ KeptRight(old)
      BY <1>1, KeptAre DEF RecommendInv, FewAttempts
    <2>2. PICK rows : /\ rows = Aged(f, a) /\ IsFiniteSet(rows)
                      /\ Cardinality(rows) \in Nat /\ CappedRight(rows)
      <3> HIDE DEF Aged, Fresh
      <3> QED
        BY <1>10
    <2>3. PICK new : new = ArchivedWith(old, rows)
      OBVIOUS
    <2>4. Cardinality(Successful(rows)) \in Nat
      BY <2>2, WorkedOf
    <2>5. Max({old.reporters, Cardinality(ReportersOf(rows))}) \in Nat
      <3>1. IsFiniteSet(ReportersOf(rows))
        <4>1. [x \in rows |-> x.reporter] \in Surjection(rows, ReportersOf(rows))
          BY DEF Surjection, ReportersOf
        <4> QED
          BY <2>2, <4>1, FS_Surjection
      <3>2. PICK k \in Nat, m \in Nat : k = old.reporters /\ m = Cardinality(ReportersOf(rows))
        BY <2>1, <3>1, FS_CardinalityType DEF KeptRecord
      <3>3. IsFiniteSet({k, m})
        <4>1. IsFiniteSet({k}) /\ IsFiniteSet({m}) /\ {k, m} = {k} \cup {m}
          BY FS_Singleton
        <4> QED
          BY <4>1, FS_Union
      <3>4. {k, m} \subseteq Nat /\ {k, m} # {}
        OBVIOUS
      <3> QED
        BY <3>2, <3>3, <3>4, MaxIs
    <2>6. /\ old.attempts \in Nat /\ old.successes \in Nat /\ old.eff_a \in Nat /\ old.eff_s \in Nat
      BY DEF KeptRecord
    <2>7. /\ CappedAttempts(rows) \in Nat /\ CappedSuccesses(rows) \in Nat
          /\ CappedSuccesses(rows) <= CappedAttempts(rows)
          /\ CappedAttempts(rows) <= Cardinality(rows)
          /\ \/ CappedAttempts(rows) = Cardinality(rows)
             \/ CappedAttempts(rows) >= max_reporter_weight_per_hour
      BY <2>2 DEF CappedRight
    <2>8. new \in KeptRecord
      BY <2>2, <2>3, <2>4, <2>5, <2>6, <2>7 DEF ArchivedWith, KeptRecord
    <2>9. /\ new.attempts = old.attempts + Cardinality(rows)
          /\ new.eff_a = old.eff_a + CappedAttempts(rows)
          /\ new.eff_s = old.eff_s + CappedSuccesses(rows)
      BY <2>3 DEF ArchivedWith
    <2>10. KeptRight(new)
      <3>1. max_reporter_weight_per_hour \in Nat
        BY FloorAssumption
      <3>2. /\ old.eff_s <= old.eff_a /\ old.eff_a <= old.attempts
            /\ old.eff_a = old.attempts \/ old.eff_a >= max_reporter_weight_per_hour
        BY <2>1 DEF KeptRight
      <3> QED
        BY <2>2, <2>6, <2>7, <2>9, <3>1, <3>2 DEF KeptRight
    <2>11. archivedRows'[<<f, a>>] = new
      BY <1>9, <2>1, <2>2, <2>3
    <2> QED
      BY <2>1, <2>2, <2>8, <2>9, <2>10, <2>11
  <1>12. RecommendTypeOK'
    <2>1. DOMAIN archivedRows' = Failures \X Recoveries
      BY <1>1 DEF HourPasses, RecommendTypeOK
    <2>2. ASSUME NEW x \in Failures \X Recoveries
          PROVE  archivedRows'[x] \in KeptRecord
      <3>1. PICK f \in Failures, a \in Recoveries : x = <<f, a>>
        OBVIOUS
      <3> QED
        BY <1>11, <3>1
    <2>3. archivedRows' \in [Failures \X Recoveries -> KeptRecord]
      <3>1. archivedRows' = [x \in Failures \X Recoveries |-> archivedRows'[x]]
        BY <1>1 DEF HourPasses, RecommendTypeOK
      <3> QED
        BY <2>2, <3>1
    <2> QED
      BY <1>1, <1>5, <1>7, <1>8, <2>3 DEF RecommendTypeOK
  <1>13. ASSUME NEW f \in Failures, NEW a \in Recoveries
         PROVE  AttemptsAt(f, a)' = AttemptsAt(f, a)
    <2>1. PICK old, new : old = Aged(f, a) /\ new = Fresh(f, a)
      OBVIOUS
    <2>2. /\ IsFiniteSet(old) /\ IsFiniteSet(new)
          /\ Cardinality(old) \in Nat /\ Cardinality(new) \in Nat
      <3> HIDE DEF Aged, Fresh
      <3> QED
        BY <1>10, <2>1
    <2>3. RowsOf({f}, a) = old \cup new /\ old \cap new = {}
      BY <1>2, <2>1 DEF RowsOf, Rows, HourNames
    <2>4. Cardinality(RowsOf({f}, a)) = Cardinality(old) + Cardinality(new)
      BY <2>2, <2>3, DisjointUnion
    <2>5. PICK later : later = RowsOf({f}, a)'
      OBVIOUS
    <2>6. later = {Older(y) : y \in new}
      <3>1. ASSUME NEW x
            PROVE  x \in later <=> x \in liveRows' /\ x.fingerprint = f /\ x.action = a
        BY <2>5 DEF RowsOf
      <3>2. ASSUME NEW x \in later
            PROVE  \E y \in new : x = Older(y)
        <4>1. PICK y \in current : x = Older(y)
          BY <1>4, <3>1
        <4>2. y.fingerprint = f /\ y.action = a
          BY <1>6, <3>1, <4>1, OlderIs
        <4> QED
          BY <1>3, <2>1, <4>1, <4>2
      <3>3. ASSUME NEW y \in new
            PROVE  Older(y) \in later
        <4>1. y \in current /\ y.fingerprint = f /\ y.action = a
          BY <1>3, <2>1
        <4>2. Older(y) \in liveRows' /\ Older(y).fingerprint = f /\ Older(y).action = a
          BY <1>4, <1>6, <4>1, OlderIs
        <4> QED
          BY <3>1, <4>2
      <3> QED
        BY <3>2, <3>3
    <2>7. [y \in new |-> Older(y)] \in Bijection(new, later)
      <3>1. \A y, z \in new : Older(y) = Older(z) => y = z
        <4>1. \A y \in new : y \in Rows /\ y.hour = "now"
          BY <1>2, <2>1
        <4> QED
          BY <4>1, OlderDiffer
      <3>2. PICK to : to = [y \in new |-> Older(y)]
        OBVIOUS
      <3>3. to \in [new -> later] /\ \A y, z \in new : to[y] = to[z] => y = z
        BY <2>6, <3>1, <3>2
      <3>4. \A x \in later : \E y \in new : to[y] = x
        BY <2>6, <3>2
      <3> QED
        BY <3>2, <3>3, <3>4 DEF Bijection, Injection, Surjection, IsInjective
    <2>8. Cardinality(later) = Cardinality(new)
      <3>1. ExistsBijection(new, later)
        BY <2>7 DEF ExistsBijection
      <3> QED
        BY <2>2, <3>1, FS_Bijection
    <2>9. archivedRows'[<<f, a>>].attempts = archivedRows[<<f, a>>].attempts + Cardinality(old)
      BY <1>11, <2>1
    <2>10. archivedRows[<<f, a>>].attempts \in Nat
      BY <1>1, KeptAre
    <2>11. AttemptsAt(f, a)' = Cardinality(later) + archivedRows'[<<f, a>>].attempts
      BY <2>5 DEF AttemptsAt
    <2>12. AttemptsAt(f, a) = Cardinality(RowsOf({f}, a)) + archivedRows[<<f, a>>].attempts
      BY DEF AttemptsAt
    <2> QED
      BY <2>2, <2>4, <2>8, <2>9, <2>10, <2>11, <2>12
  <1>14. ASSUME NEW f \in Failures, NEW a \in Recoveries
         PROVE  FewAttempts(f, a)'
    <2>1. AttemptsAt(f, a)' <= MaxAttempts
      BY <1>13 DEF RecommendInv, FewAttempts
    <2>2. KeptRight(archivedRows'[<<f, a>>])
      BY <1>11
    <2> QED
      BY <2>1, <2>2 DEF FewAttempts
  <1>15. ASSUME NEW f \in gaveUp'
         PROVE  GivenUp(f)'
    <2>1. f \in Failures /\ GivenUp(f)
      BY <1>1, <1>5 DEF RecommendInv, RecommendTypeOK
    <2>2. ASSUME NEW a \in ToSet(candidates)
          PROVE  AttemptsAt(f, a)' >= min_recovery_attempts
      <3>1. a \in Recoveries
        BY ParticipantsAssumption DEF ToSet
      <3> QED
        BY <1>13, <2>1, <3>1 DEF GivenUp
    <2> QED
      BY <2>2 DEF GivenUp
  <1> QED
    BY <1>12, <1>14, <1>15 DEF RecommendInv

LEMMA RecommendInvInductive ==
  RecommendInv /\ [RecommendNext]_recommendVars => RecommendInv'
  <1> SUFFICES ASSUME RecommendInv, [RecommendNext]_recommendVars
               PROVE  RecommendInv'
    OBVIOUS
  <1>1. ASSUME NEW p \in Personas, NEW f \in p.meets, Recover(p, f)
        PROVE  RecommendInv'
    BY <1>1, RecoverKeepsInv
  <1>2. ASSUME NEW p \in Personas, NEW f \in p.meets, Skip(p, f)
        PROVE  RecommendInv'
    BY <1>2, SkipKeepsInv
  <1>3. CASE HourPasses
    BY <1>3, HourPassesKeepsInv
  <1>4. CASE UNCHANGED recommendVars
    <2>1. liveRows' = liveRows /\ archivedRows' = archivedRows /\ gaveUp' = gaveUp
      BY <1>4 DEF recommendVars
    <2>2. RecommendTypeOK'
      BY <2>1 DEF RecommendInv, RecommendTypeOK
    <2>3. \A g, b : AttemptsAt(g, b)' = AttemptsAt(g, b)
      BY <2>1 DEF AttemptsAt, RowsOf
    <2>4. ASSUME NEW g \in Failures, NEW b \in Recoveries
          PROVE  FewAttempts(g, b)'
      <3>1. KeptRight(archivedRows[<<g, b>>]) /\ AttemptsAt(g, b) <= MaxAttempts
        BY DEF RecommendInv, FewAttempts
      <3>2. KeptRight(archivedRows'[<<g, b>>]) /\ AttemptsAt(g, b)' <= MaxAttempts
        BY <2>1, <2>3, <3>1
      <3> QED
        BY <3>2 DEF FewAttempts
    <2>5. \A g \in gaveUp' : GivenUp(g)'
      BY <2>1, <2>3 DEF RecommendInv, GivenUp
    <2> QED
      BY <2>2, <2>4, <2>5 DEF RecommendInv
  <1> QED
    BY <1>1, <1>2, <1>3, <1>4, Zenon DEF RecommendNext

(* Rows, records and what was given up are well formed; no record counts   *)
(* more capped than reported, or less than a full hour where it counts     *)
(* less; and what was given up stays above the floor while rows age and    *)
(* are archived.                                                           *)
THEOREM RecommendInvariant == RecommendSpec => []RecommendInv
  BY RecommendInitInv, RecommendInvInductive, PTL DEF RecommendSpec

(* When an explorer finds nothing left to try, and when it has given a     *)
(* failure up, the network can rule on every candidate, although it counts *)
(* capped by reporter and hour what the explorer counts as reported.       *)
THEOREM ExplorersRuleHolds == RecommendSpec => []ExplorersRule
  BY RecommendInvariant, InvGivesRule, PTL

(* recommend answers with no action that another eligible one beats on     *)
(* failures, successes and reporters, for one operation or several pooled. *)
THEOREM NothingDominates == RecommendSpec => []NotDominated
  BY RecommendInvariant, InvGivesNotDominated, PTL
================================================================================
