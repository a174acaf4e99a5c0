----------------------------- MODULE Recommendation -----------------------------
(***************************************************************************)
(* What the network recommends for a failure (app.core.intelligence:       *)
(* recovery_actions, recommend, futility; app.core.service:                *)
(* query_intelligence), composed with the personas that ask it and report  *)
(* to it (failecho_fleet.Run.recover_provider).                            *)
(*                                                                         *)
(* Failures are the fingerprints of one service-level class and code,     *)
(* under the names of several operations.  The live rows cover two hours,  *)
(* which is also the decay window: when an hour has passed, the older of   *)
(* the two is archived (module Retention) and leaves the window.  The      *)
(* Wilson bound is a table.  What a persona tries works always, never or   *)
(* sometimes.                                                              *)
(***************************************************************************)
EXTENDS FleetPlans, Integers, FiniteSets, FiniteSetsExt

CONSTANTS
  Failures,              \* fingerprints
  Recoveries,            \* actions
  Hashes,                \* reporters
  Personas,              \* [reporter, role, meets]; role: "blind", "asker" or "explorer"
  candidates,            \* what an explorer of this class of failure tries, in order
  Works, Flaky,          \* the actions that always, and sometimes, work
  min_recovery_attempts,
  min_success_percent,
  max_reporter_weight_per_hour,
  min_unique_reporters,
  low_diversity_percent,
  wilson_lower_bound,    \* [attempts][successes]
  MaxAttempts            \* bound: attempts of an action at a fingerprint

\* The bound rises with a success more, whether it was a failure or not been
\* tried, and does not rise with a failure more.
ASSUME WilsonAssumption ==
  /\ 0 .. MaxAttempts * Cardinality(Failures) \subseteq DOMAIN wilson_lower_bound
  /\ \A n \in DOMAIN wilson_lower_bound : \A s \in 0 .. n :
       /\ wilson_lower_bound[n][s] \in Nat
       /\ s > 0 => wilson_lower_bound[n][s - 1] < wilson_lower_bound[n][s]
       /\ n + 1 \in DOMAIN wilson_lower_bound =>
            /\ wilson_lower_bound[n][s] < wilson_lower_bound[n + 1][s + 1]
            /\ wilson_lower_bound[n + 1][s] <= wilson_lower_bound[n][s]

ASSUME FloorAssumption ==
  /\ min_recovery_attempts \in Nat \ {0}
  /\ EXPLORE_UNTIL_ATTEMPTS = min_recovery_attempts
  /\ max_reporter_weight_per_hour \in Nat /\ max_reporter_weight_per_hour >= min_recovery_attempts
  /\ MaxAttempts \in Nat /\ MaxAttempts >= min_recovery_attempts
  /\ min_success_percent \in Nat /\ min_unique_reporters \in Nat
  /\ low_diversity_percent \in 1 .. 100

ASSUME ParticipantsAssumption ==
  /\ IsFiniteSet(Failures) /\ IsFiniteSet(Recoveries)
  /\ "retry" \in Recoveries /\ None \notin Recoveries /\ "skip" \notin Recoveries
  /\ candidates \in Seq(Recoveries)
  /\ \A p \in Personas : p.reporter \in Hashes /\ p.meets \subseteq Failures

HourNames == {"now", "before"}

VARIABLES
  liveRows,      \* [fingerprint, action, reporter, hour, worked, copy]; copy tells equals apart
  archivedRows,  \* [Failures, Recoveries -> [attempts, successes, eff_a, eff_s, reporters]]
  gaveUp         \* history: fingerprints an explorer has skipped

recommendVars == <<liveRows, archivedRows, gaveUp>>

RecommendInit ==
  /\ liveRows = {}
  /\ archivedRows = [x \in Failures \X Recoveries |->
                       [attempts |-> 0, successes |-> 0, eff_a |-> 0, eff_s |-> 0, reporters |-> 0]]
  /\ gaveUp = {}

-----------------------------------------------------------------------------
(* recovery_actions: one fingerprint's evidence, or that of several pooled. *)

Successful(rows) == {x \in rows : x.worked}

CellAttempts(rows) ==
  LET n == Cardinality(rows)
  IN  IF n <= max_reporter_weight_per_hour THEN n ELSE max_reporter_weight_per_hour

CellSuccesses(rows) ==
  LET n == Cardinality(rows)
      s == Cardinality(Successful(rows))
  IN  IF n <= max_reporter_weight_per_hour THEN s ELSE (s * max_reporter_weight_per_hour) \div n

\* The rows by hour and reporter.
Cells(rows) == {{y \in rows : y.hour = x.hour /\ y.reporter = x.reporter} : x \in rows}

CappedAttempts(rows)  == SumFunction([c \in Cells(rows) |-> CellAttempts(c)])
CappedSuccesses(rows) == SumFunction([c \in Cells(rows) |-> CellSuccesses(c)])

ReportersOf(rows) == {x.reporter : x \in rows}

\* An action's live rows at some fingerprints, and the sums of what is archived.
RowsOf(F, a) == {x \in liveRows : x.fingerprint \in F /\ x.action = a}

KeptAttempts(F, a)     == SumFunction([f \in F |-> archivedRows[<<f, a>>].attempts])
KeptSuccesses(F, a)    == SumFunction([f \in F |-> archivedRows[<<f, a>>].successes])
KeptEffAttempts(F, a)  == SumFunction([f \in F |-> archivedRows[<<f, a>>].eff_a])
KeptEffSuccesses(F, a) == SumFunction([f \in F |-> archivedRows[<<f, a>>].eff_s])

\* RecoveryAction.
Evidence(F, a) ==
  LET rows == RowsOf(F, a)
  IN  [action    |-> a,
       attempts  |-> Cardinality(rows) + KeptAttempts(F, a),
       successes |-> Cardinality(Successful(rows)) + KeptSuccesses(F, a),
       capped_attempts  |-> CappedAttempts(rows) + KeptEffAttempts(F, a),
       capped_successes |-> CappedSuccesses(rows) + KeptEffSuccesses(F, a),
       recent_attempts  |-> Cardinality(rows),
       recent_successes |-> Cardinality(Successful(rows)),
       reporter_hashes  |-> ReportersOf(rows),
       unique_reporters |-> Max({Cardinality(ReportersOf(rows))}
                                 \cup {archivedRows[<<f, a>>].reporters : f \in F})]

Tried(F) == {x.action : x \in {y \in liveRows : y.fingerprint \in F}}
              \cup {a \in Recoveries : \E f \in F : archivedRows[<<f, a>>].attempts > 0}

recovery_actions(F) == {Evidence(F, a) : a \in Tried(F)}

-----------------------------------------------------------------------------
(* recommend and futility.                                                 *)

diversity_percent(e) ==
  IF e.unique_reporters >= min_unique_reporters THEN 100 ELSE low_diversity_percent

evidence_score(e) ==
  wilson_lower_bound[e.capped_attempts][e.capped_successes] * diversity_percent(e)

Eligible(E) ==
  {e \in E : /\ e.capped_attempts >= min_recovery_attempts
             /\ e.capped_successes * 100 >= min_success_percent * e.capped_attempts}

\* The scores in ascending order.
FirstOfSorted(S) == CHOOSE e \in S : \A d \in S : evidence_score(e) <= evidence_score(d)

Best(S) ==
  CHOOSE e \in S : \A d \in S :
    \/ evidence_score(d) < evidence_score(e)
    \/ evidence_score(d) = evidence_score(e) /\ d.capped_attempts <= e.capped_attempts

\* None, or the action "skip".  Recent attempts are scaled by the lifetime's cap ratio.
futility(E) ==
  LET recent    == {e \in E : e.recent_attempts > 0}
      attempts  == SumFunction([e \in recent |-> e.recent_attempts])
      successes == SumFunction([e \in recent |-> e.recent_successes])
      lifetime  == SumFunction([e \in recent |-> e.attempts])
      capped    == SumFunction([e \in recent |-> e.capped_attempts])
      hashes    == UNION {e.reporter_hashes : e \in recent}
  IN  IF recent = {} THEN None
      ELSE IF successes > 0 \/ (attempts * capped) \div lifetime < min_recovery_attempts THEN None
      ELSE [action           |-> "skip",
            reporter_hashes  |-> hashes,
            unique_reporters |-> Max({Cardinality(hashes)} \cup
                                     {e.unique_reporters : e \in recent})]

recommend(E) ==
  LET eligible == Eligible(E) IN IF eligible = {} THEN futility(E) ELSE Best(eligible)

\* The same class and code under other operations of the service.
same_shape_fingerprints(f) == Failures \ {f}

\* query_intelligence: this operation's, else the service's.
Chosen(f) ==
  LET own   == recommend(recovery_actions({f}))
      shape == same_shape_fingerprints(f)
  IN  IF own # None THEN own
      ELSE IF shape = {} THEN None
      ELSE recommend(recovery_actions({f} \cup shape))

ChosenAction(f) == LET chosen == Chosen(f) IN IF chosen = None THEN None ELSE chosen.action

-----------------------------------------------------------------------------
(* The personas.                                                           *)

\* What the answer shows an explorer: this operation's own evidence, uncapped.
Shown(f) ==
  LET E == recovery_actions({f})
  IN  [a \in {e.action : e \in E} |->
         LET e == CHOOSE e \in E : e.action = a
         IN  [attempts |-> e.attempts, successes |-> e.successes]]

\* Explorers honour a skip at once.
TriesAdvisedFirst(p, f) ==
  LET explored == explore(candidates, Shown(f))
  IN  IF p.role = "blind" THEN "retry"
      ELSE IF ChosenAction(f) # None THEN ChosenAction(f)
      ELSE IF p.role = "explorer" /\ explored # None THEN explored
      ELSE "retry"

\* A blind persona, and an asker the network has nothing for, retries once.
Tries(p, f) ==
  LET explored == explore(candidates, Shown(f))
      after(advice) == IF advice \notin {None, "skip"} THEN advice
                       ELSE IF p.role = "explorer" /\ explored # None THEN explored
                       ELSE IF advice = "skip" THEN "skip"
                       ELSE "retry"
  IN  IF p.role = "blind" THEN "retry" ELSE after(ChosenAction(f))

Reported(f, a, r, ok) ==
  LET row(n) == [fingerprint |-> f, action |-> a, reporter |-> r, hour |-> "now",
                 worked |-> ok, copy |-> n]
  IN  liveRows' = liveRows \cup {row(CHOOSE n \in 1 .. MaxAttempts : row(n) \notin liveRows)}

Outcomes(a) == IF a \in Works THEN {TRUE} ELSE IF a \in Flaky THEN BOOLEAN ELSE {FALSE}

Recover(p, f) ==
  /\ \E a \in {Tries(p, f)} :
       /\ a # "skip"
       /\ Evidence({f}, a).attempts < MaxAttempts
       /\ \E ok \in Outcomes(a) : Reported(f, a, p.reporter, ok)
  /\ UNCHANGED <<archivedRows, gaveUp>>

Skip(p, f) ==
  /\ Tries(p, f) = "skip"
  /\ gaveUp' = IF p.role = "explorer" THEN gaveUp \cup {f} ELSE gaveUp
  /\ UNCHANGED <<liveRows, archivedRows>>

\* The older hour's rows are archived, capped and without identities.
ArchivedWith(old, rows) ==
  [attempts  |-> old.attempts + Cardinality(rows),
   successes |-> old.successes + Cardinality(Successful(rows)),
   eff_a     |-> old.eff_a + CappedAttempts(rows),
   eff_s     |-> old.eff_s + CappedSuccesses(rows),
   reporters |-> Max({old.reporters, Cardinality(ReportersOf(rows))})]

HourPasses ==
  /\ archivedRows' = [x \in DOMAIN archivedRows |->
       ArchivedWith(archivedRows[x],
         {y \in liveRows : y.fingerprint = x[1] /\ y.action = x[2] /\ y.hour = "before"})]
  /\ liveRows' = {[y EXCEPT !.hour = "before"] : y \in {z \in liveRows : z.hour = "now"}}
  /\ UNCHANGED gaveUp

RecommendNext ==
  \/ \E p \in Personas : \E f \in p.meets : Recover(p, f) \/ Skip(p, f)
  \/ HourPasses

\* The scheduler gives every persona its turn, and the failure meets it every time.
ExplorersGoOn ==
  \A p \in Personas : \A f \in p.meets : p.role = "explorer" => WF_recommendVars(Recover(p, f))

RecommendSpec == RecommendInit /\ [][RecommendNext]_recommendVars /\ ExplorersGoOn

-----------------------------------------------------------------------------
(* Properties.                                                             *)

(* The fleet counts attempts as reported, the network as capped: when an   *)
(* explorer finds nothing left to try, the network can rule on every       *)
(* action, whoever reported it and in whatever hours; and an explorer      *)
(* gives a failure up only then, though the network says skip before.      *)
ExplorersRule ==
  \A f \in Failures :
    f \in gaveUp \/ explore(candidates, Shown(f)) = None
    => \A a \in ToSet(candidates) : Evidence({f}, a).capped_attempts >= min_recovery_attempts

(* The recommended action is not one that another eligible action beats on *)
(* everything the evidence has: fewer failures, more successes, and no     *)
(* fewer reporters; for one operation and for those of the service pooled. *)
NotDominated ==
  \A F \in {{f} : f \in Failures} \cup {Failures} :
    LET E == recovery_actions(F)
        c == recommend(E)
        eligible == Eligible(E)
    IN  eligible # {} =>
          ~\E d \in eligible :
             /\ d.capped_successes > c.capped_successes
             /\ d.capped_attempts - d.capped_successes <= c.capped_attempts - c.capped_successes
             /\ d.unique_reporters >= c.unique_reporters

(* Explorers pay so that askers inherit: when some action works, the       *)
(* network comes to recommend an action, although the blind and the askers *)
(* keep failing and the network says skip meanwhile.                       *)
EventuallyAdvised ==
  \A p \in Personas : \A f \in p.meets :
    p.role = "explorer" => <>(ChosenAction(f) \notin {None, "skip"})
=============================================================================
