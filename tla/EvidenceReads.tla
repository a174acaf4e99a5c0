---------------------------- MODULE EvidenceReads ----------------------------
(***************************************************************************)
(* Readers of the evidence store (fingerprint_stats and recovery_actions   *)
(* of app/core/intelligence.py) beside the pruner.  A reader issues        *)
(* several SELECTs with no transaction around them, so a request or a      *)
(* prune may commit between two of them; and what it computes from raw     *)
(* rows need not be what it computes from the archive of the same rows.    *)
(***************************************************************************)
EXTENDS Retention, FiniteSetsExt

CONSTANTS
  Readers,
  DecayWindow       \* decay_window_seconds, in hours

ASSUME ReadsAssumption == DecayWindow \in Nat

VARIABLE reader     \* what each reader has read so far

readVars == <<vars, reader>>

-----------------------------------------------------------------------------
(* The answer of recovery_actions for one action over one or several       *)
(* pooled fingerprints, were all its SELECTs to see the same state.  Raw   *)
(* rows are grouped by action, hour and reporter -- not by source and not  *)
(* by fingerprint -- and each group is capped.                             *)

LiveRows(keys, a) == {o \in outcomes : o.fingerprint \in keys /\ o.action = a}

ArchivedKeys(keys, a) ==
  {k \in DOMAIN hourlyRecovery : k.fingerprint \in keys /\ k.action = a}

InHour(rows, h) == {o \in rows : o.hour = h}

CappedEvidence(keys, a) ==
  LET live == LiveRows(keys, a)
      old == ArchivedKeys(keys, a)
  IN  [attempts  |-> SumFunction([h \in Hours |-> EffectiveAttempts(InHour(live, h))])
                       + SumFunction([k \in old |-> hourlyRecovery[k].effAttempts]),
       successes |-> SumFunction([h \in Hours |-> EffectiveSuccesses(InHour(live, h))])
                       + SumFunction([k \in old |-> hourlyRecovery[k].effSuccesses])]

(* Identities do not survive archiving: the largest archived bucket stands *)
(* in for all of them.                                                     *)
UniqueReporters(keys, a) ==
  Max({Cardinality(Identified(LiveRows(keys, a)))}
        \cup {hourlyRecovery[k].reporters : k \in ArchivedKeys(keys, a)})

-----------------------------------------------------------------------------
(* A reader's SELECTs, one at a time.  `floor` is history: the number of   *)
(* matching rows reported when the reader began.                           *)

IdleReader == [pc |-> "idle", fingerprint |-> Anonymous, count |-> 0,
               recent |-> 0, floor |-> 0]

RawTotal(f) == Cardinality({o \in observations : o.subject = f})

ArchivedTotal(f) ==
  LET old == {k \in DOMAIN hourlyStats : k.subject = f}
  IN  SumFunction([k \in old |-> hourlyStats[k].count])

LiveAttempts(f) == Cardinality({o \in outcomes : o.fingerprint = f})

ArchivedAttempts(f) ==
  LET old == {k \in DOMAIN hourlyRecovery : k.fingerprint = f}
  IN  SumFunction([k \in old |-> hourlyRecovery[k].attempts])

Recent(rows) == {o \in rows : Age(o) <= DecayWindow * MinutesPerHour}

(* Fault: the archive is read before the raw rows.                         *)
StatsReadArchiveFirst(r) ==
  \/ /\ reader[r].pc = "idle"
     /\ \E f \in Fingerprints :
          reader' = [reader EXCEPT ![r] =
            [@ EXCEPT !.pc = "stats", !.fingerprint = f, !.count = ArchivedTotal(f),
                      !.floor = Cardinality({o \in reportedObservations : o.subject = f})]]
  \/ /\ reader[r].pc = "stats"
     /\ reader' = [reader EXCEPT ![r] =
          [@ EXCEPT !.pc = "answered",
                    !.count = reader[r].count + RawTotal(reader[r].fingerprint)]]

StatsRead(r) ==
  \/ /\ reader[r].pc = "idle"
     /\ \E f \in Fingerprints :
          reader' = [reader EXCEPT ![r] =
            [@ EXCEPT !.pc = "stats", !.fingerprint = f, !.count = RawTotal(f),
                      !.floor = Cardinality({o \in reportedObservations : o.subject = f})]]
  \/ /\ reader[r].pc = "stats"
     /\ reader' = [reader EXCEPT ![r] =
          [@ EXCEPT !.pc = "answered",
                    !.count = reader[r].count + ArchivedTotal(reader[r].fingerprint)]]

EvidenceRead(r) ==
  \/ /\ reader[r].pc = "idle"
     /\ \E f \in Fingerprints :
          reader' = [reader EXCEPT ![r] =
            [@ EXCEPT !.pc = "recent", !.fingerprint = f, !.count = LiveAttempts(f),
                      !.floor = Cardinality({o \in reportedOutcomes : o.fingerprint = f})]]
  \/ /\ reader[r].pc = "recent"
     /\ reader' = [reader EXCEPT ![r] =
          [@ EXCEPT !.pc = "archived", !.recent =
             Cardinality({o \in Recent(outcomes) : o.fingerprint = reader[r].fingerprint})]]
  \/ /\ reader[r].pc = "archived"
     /\ reader' = [reader EXCEPT ![r] =
          [@ EXCEPT !.pc = "answered",
                    !.count = reader[r].count + ArchivedAttempts(reader[r].fingerprint)]]

Return(r) ==
  /\ reader[r].pc = "answered"
  /\ reader' = [reader EXCEPT ![r] = IdleReader]

ReadsInit == Init /\ reader = [r \in Readers |-> IdleReader]

ReadsNext ==
  \/ Next /\ UNCHANGED reader
  \/ \E r \in Readers :
       /\ StatsRead(r) \/ EvidenceRead(r) \/ Return(r)
       /\ UNCHANGED vars

ReadsSpec == ReadsInit /\ [][ReadsNext]_readVars

-----------------------------------------------------------------------------
(* Properties.                                                             *)

(* Because rows only move from the raw table to the archive, and the raw   *)
(* table is read first, no answer is short of what had been reported when  *)
(* the reader began, whatever the pruner commits between its SELECTs.      *)
ReadsMissNothing ==
  \A r \in Readers : reader[r].pc = "answered" => reader[r].count >= reader[r].floor

(* A prune never removes evidence from an answer, and where no voice used  *)
(* two sources for one action in one hour it leaves the capped evidence of *)
(* a fingerprint exactly as it was.                                        *)
OneSourcePerVoice(f, a) ==
  \A o, q \in LiveRows({f}, a) :
    o.hour = q.hour /\ o.reporter = q.reporter => o.source = q.source

Pruning == \E p \in Pruners : PruneCommit(p)

PruningKeepsEvidence ==
  [][Pruning =>
       \A f \in Fingerprints, a \in Actions :
         /\ CappedEvidence({f}, a).attempts <= CappedEvidence({f}, a)'.attempts
         /\ OneSourcePerVoice(f, a) =>
              CappedEvidence({f}, a)' = CappedEvidence({f}, a)]_readVars

(* Archiving forgets identities, so it can only make a recommendation look *)
(* less diverse, never more.                                               *)
PruningAddsNoReporters ==
  [][Pruning =>
       \A keys \in SUBSET Fingerprints, a \in Actions :
         UniqueReporters(keys, a)' <= UniqueReporters(keys, a)]_readVars

(* Neither the evidence nor its authors look better after a prune.         *)
PruningKeepsAnswers == PruningKeepsEvidence /\ PruningAddsNoReporters

-----------------------------------------------------------------------------
(* The inductive invariant behind ReadsMissNothing, beside those of        *)
(* Retention: what a reader has counted in the raw table, and what has     *)
(* been archived by now, are together no less than what it must find.      *)

ReaderState ==
  [pc : {"idle", "stats", "recent", "archived", "answered"},
   fingerprint : Fingerprints \cup {Anonymous}, count : Nat, recent : Nat, floor : Nat]

ObservationsAbout(rows, f) == {o \in rows : o.subject = f}
OutcomesAbout(rows, f) == {o \in rows : o.fingerprint = f}

Covered(read, oldObservations, oldOutcomes) ==
  LET found == IF read.pc = "stats"
               THEN ObservationsAbout(oldObservations, read.fingerprint)
               ELSE IF read.pc \in {"recent", "archived"}
               THEN OutcomesAbout(oldOutcomes, read.fingerprint)
               ELSE {}
  IN  read.floor <= read.count + Cardinality(found)

ReadersInv ==
  /\ reader \in [Readers -> ReaderState]
  /\ \A r \in Readers :
       Covered(reader[r], BelowHorizon(reportedObservations), BelowHorizon(reportedOutcomes))

=============================================================================
