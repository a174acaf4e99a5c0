-------------------------------- MODULE Scoreboard -------------------------------
(***************************************************************************)
(* The fleet's scoreboard (failecho_fleet/__init__.py, write_report): what *)
(* the page says of the runs with FailEcho against those without, computed *)
(* anew from every run on file.  Whoever reads it draws conclusions about  *)
(* the product, so the table must treat its two sides alike, mark a winner *)
(* only where there is one, and score the agent, not the harness.          *)
(*                                                                         *)
(* Abstracted: a run is one of a few kinds, and what is filed is how many  *)
(* of each; a run has at most one failure; a quantity of a run (tokens,    *)
(* seconds, calls) is one number; a share is a pair of numbers.            *)
(***************************************************************************)
EXTENDS Integers, FiniteSets, Functions

CONSTANTS
  RunKinds,              \* records: see OneRun
  MIN_RUNS_FOR_A_WINNER,
  FAIR_ORDER_SINCE,      \* an hour
  MCP_RULES_SINCE,       \* an hour
  PROVIDER_CONTROL_SINCE, \* an hour
  MaxFiled               \* bound: runs on file

\* What a run is filed as: at the hour "at", on the "arm" (its cohort's first
\* half), with or without asking.  "answer" is what the agent said: "text", or
\* "silence", or "harness" if it was the harness that spoke, and "cap" if the run
\* never started.  "grade" is what its answer would be graded: "none" where the
\* task is not one that can be, "malformed", right or wrong, "unchecked" with no truth.
\* "provider": it asks a model, and its failure, if it has one, is the model's.
RunRecords ==
  [at : Nat, cost : Nat, attempts : Nat,
   arm : {"real", "test", "build", "opencode", "wrapped", "team", "explore"},
   answer : {"text", "silence", "harness", "cap"},
   grade : {"none", "malformed", "right", "wrong", "unchecked"},
   advice : {"none", "fix", "skip"},
   asks : BOOLEAN, oom : BOOLEAN, completed : BOOLEAN, recovered : BOOLEAN,
   skipped : BOOLEAN, provider : BOOLEAN]

\* Only who asks is advised; without advice the two sides can do the same.
Unadvised(r) == r.advice = "none" /\ ~r.skipped
Flip(r) == [r EXCEPT !.asks = ~@]

ASSUME ScoreboardAssumption ==
  /\ IsFiniteSet(RunKinds) /\ RunKinds \subseteq RunRecords
  /\ \A r \in RunKinds : (r.asks \/ Unadvised(r)) /\ (Unadvised(r) => Flip(r) \in RunKinds)
  /\ MIN_RUNS_FOR_A_WINNER \in Nat \ {0}

VARIABLE filed  \* [RunKinds -> how many are on file]

ScoreboardInit == filed = [r \in RunKinds |-> 0]

\* How many runs are of the kinds in S, what they cost and how often they tried.
Number(f, S)   == SumFunction([r \in S |-> f[r]])
Spent(f, S)    == SumFunction([r \in S |-> r.cost * f[r]])
Attempts(f, S) == SumFunction([r \in S |-> r.attempts * f[r]])

-----------------------------------------------------------------------------
(* Which runs count, and as what.                                          *)

_is_run(r) == r.answer # "cap"

\* The guest's kernel killed it before it had a result.
_lost_to_guest_memory(r) == r.oom /\ ~r.completed

\* Lost runs leave the asking side only.
CountedIfBlind(f) ==
  {r \in RunKinds : f[r] > 0 /\ _is_run(r) /\ ~(_lost_to_guest_memory(r) /\ r.asks)}

Counted(f) == {r \in RunKinds : f[r] > 0 /\ _is_run(r) /\ ~_lost_to_guest_memory(r)}

\* An empty answer is no finished work, where an answer is what is asked for.
_scored(r) == r.completed /\ ~(r.answer = "silence" /\ r.arm \notin {"build", "opencode"})

\* Nothing is graded where the harness spoke.
Graded(r) == r.answer \notin {"harness", "cap"} /\ r.grade # "none"
Checkable(r) == Graded(r) /\ r.grade \in {"right", "wrong"}

Side(f, arm, asks) == {r \in Counted(f) : r.arm = arm /\ r.asks = asks}

\* Of some kinds, those that ...
Done(S)       == {r \in S : _scored(r)}
Failing(S)    == {r \in S : r.attempts > 0}
Recovered(S)  == {r \in S : r.recovered}
Skipping(S)   == {r \in S : r.skipped}
GradedIn(S)   == {r \in S : Graded(r)}
CheckedIn(S)  == {r \in S : Checkable(r)}
WellFormed(S) == {r \in S : r.grade # "malformed"}
Correct(S)    == {r \in S : r.grade = "right"}
From(S, hour) == {r \in S : r.at >= hour}

\* The numbers of one side of an arm: shares as <<numerator, denominator>>.
Costs(f, S) ==
  LET n(T)    == Number(f, T)
      failed  == Failing(S)
      graded  == GradedIn(S)
      checked == CheckedIn(S)
      recent  == From(S, MCP_RULES_SINCE)
  IN  [runs      |-> n(S),
       completed |-> <<n(Done(S)), n(S)>>,
       perDone   |-> <<Spent(f, S), n(Done(S))>>,
       perRun    |-> <<Spent(f, S), n(S)>>,
       attempts  |-> <<Attempts(f, failed), n(failed)>>,
       skipped   |-> n(Skipping(failed)),
       valid     |-> <<n(WellFormed(graded)), n(graded)>>,
       correct   |-> <<n(Correct(checked)), n(checked)>>,
       since     |-> n(recent),
       doneSince |-> <<n(Done(recent)), n(recent)>>]

-----------------------------------------------------------------------------
(* The two sides next to each other.                                       *)

\* Within two per cent is a tie, and so is a side that has no number.
_better(ask, blind, lower) ==
  LET x == ask[1] * blind[2]
      y == blind[1] * ask[2]
      most == IF x > y THEN x ELSE y
      gap  == IF x > y THEN x - y ELSE y - x
  IN  IF ask[2] = 0 \/ blind[2] = 0 \/ most = 0 \/ gap * 50 < most THEN "tie"
      ELSE IF (x < y) = lower THEN "ask" ELSE "blind"

\* A row, with what it says of each side, and the runs it is about if they are not
\* all of the side's.
MetricRow(metric, ask, blind, better, sample) ==
  [metric |-> metric, ask |-> ask, blind |-> blind, better |-> better, sample |-> sample]

Compared(metric, ask, blind, lower, sample) ==
  MetricRow(metric, ask, blind, _better(ask, blind, lower), sample)

\* The rows of an arm, each with its own.
Rows(arm, a, b) ==
  LET all == <<a.runs, b.runs>>
      completed == Compared("completed", a.completed, b.completed, FALSE, all)
      perDone   == Compared("tokens_per_completed_task", a.perDone, b.perDone, TRUE, all)
      perRun    == Compared("seconds_per_run", a.perRun, b.perRun, TRUE, all)
      attempts  == Compared("attempts_per_failure", a.attempts, b.attempts, TRUE, all)
      skips     == Compared("skipped", <<a.skipped, 1>>, <<b.skipped, 1>>, FALSE, all)
      since     == Compared("completed_since_the_rules", a.doneSince, b.doneSince, FALSE, <<a.since, b.since>>)
      correct   == Compared("correct", a.correct, b.correct, FALSE, <<a.correct[2], b.correct[2]>>)
      valid     == Compared("valid", a.valid, b.valid, FALSE, <<a.valid[2], b.valid[2]>>)
      graded    == a.valid[2] + b.valid[2] > 0
  IN  (CASE arm = "test"     -> {perRun, attempts, skips}
         [] arm = "opencode" -> {completed, perDone, perRun, since}
         [] arm = "wrapped"  -> {completed, perDone, perRun}
         [] OTHER            -> {completed, perDone, perRun, attempts, skips})
      \cup (IF arm = "opencode" \/ graded THEN {correct, valid} ELSE {})

\* No winner on a table of too few runs, nor in a row of too few.
TooFew(sample) == sample[1] < MIN_RUNS_FOR_A_WINNER \/ sample[2] < MIN_RUNS_FOR_A_WINNER

_no_winner_on_too_few_runs(rows, a, b) ==
  {IF TooFew(<<a.runs, b.runs>>) \/ TooFew(row.sample) THEN [row EXCEPT !.better = "tie"] ELSE row
     : row \in rows}

Versus(f, arm) ==
  LET a == Costs(f, Side(f, arm, TRUE))
      b == Costs(f, Side(f, arm, FALSE))
  IN  IF a.runs = 0 \/ b.runs = 0 THEN {}
      ELSE _no_winner_on_too_few_runs(Rows(arm, a, b), a, b)

-----------------------------------------------------------------------------
(* What the advice is worth: once a call has failed, what became of the    *)
(* second attempt, with advice, without, and on the other side; and, where *)
(* askers were told to skip, what the others' retries yielded.             *)

Fair(f) == {r \in Counted(f) : r.at >= FAIR_ORDER_SINCE /\ r.arm # "explore" /\ r.attempts > 0}

SkippedRuns(f) == {r \in Fair(f) : r.asks /\ r.skipped}

Advice(f) ==
  LET retried   == {r \in Fair(f) \ SkippedRuns(f) : r.attempts >= 2}
      n(T)      == Number(f, T)
      ok(T)     == Number(f, Recovered(T))
      advised   == {r \in retried : r.asks /\ r.advice # "none"}
      unadvised == {r \in retried : r.asks /\ r.advice = "none"}
      blind     == {r \in retried : ~r.asks}
      where     == {r \in blind : \E s \in SkippedRuns(f) : s.at = r.at}
  IN  [skipped |-> n(SkippedRuns(f)), advised |-> <<ok(advised), n(advised)>>,
       unadvised |-> <<ok(unadvised), n(unadvised)>>, blind |-> <<ok(blind), n(blind)>>,
       where |-> <<ok(where), n(where)>>]

-----------------------------------------------------------------------------
(* The other tables.                                                       *)

\* A cohort's sums over its failures.
Cohort(f, arm, asks) ==
  LET S == Side(f, arm, asks)
      chat == {r \in Failing(S) : r.provider}
  IN  [runs |-> Number(f, S), failures |-> Number(f, Failing(S)), attempts |-> Attempts(f, S),
       recovered |-> Number(f, Recovered(Failing(S))), skipped |-> Number(f, Skipping(Failing(S))),
       provider  |-> <<Number(f, Recovered(chat)), Number(f, chat)>>]

\* What the real services answered, since the twins take turns.
RealTarget(f, asks) ==
  LET S == {r \in Side(f, "real", asks) : r.at >= FAIR_ORDER_SINCE /\ r.attempts > 0 /\ ~r.provider}
  IN  [failures |-> Number(f, S), attempts |-> Attempts(f, S),
       recovered |-> Number(f, Recovered(S)), skipped |-> Number(f, Skipping(S))]

\* The personas that a model drives, testers left in, since the blind retry once.
ByProvider(f, asks) ==
  LET S == {r \in Side(f, "real", asks) \cup Side(f, "test", asks) :
              r.provider /\ r.at >= PROVIDER_CONTROL_SINCE}
  IN  [runs |-> Number(f, S), completed |-> <<Number(f, Done(S)), Number(f, S)>>,
       met  |-> <<Number(f, Failing(S)), 1>>,
       recovered |-> <<Number(f, Recovered(Failing(S))), Number(f, Failing(S))>>,
       perDone   |-> <<Spent(f, S), Number(f, Done(S))>>,
       perRun    |-> <<Spent(f, S), Number(f, S)>>]

\* What the providers' failures cost each side, without a word on the rows' samples.
ProviderRows(f) ==
  LET a == ByProvider(f, TRUE)
      b == ByProvider(f, FALSE)
      all == <<a.runs, b.runs>>
  IN  IF a.runs = 0 \/ b.runs = 0 THEN {}
      ELSE _no_winner_on_too_few_runs(
             {Compared("completed", a.completed, b.completed, FALSE, all),
              MetricRow("failures_met", a.met, b.met, "tie", all),
              Compared("recovered", a.recovered, b.recovered, FALSE, all),
              Compared("tokens_per_completed_task", a.perDone, b.perDone, TRUE, all),
              Compared("seconds_per_run", a.perRun, b.perRun, TRUE, all)}, a, b)

\* Half a day: what the askers' failures were advised of, and what each side completed.
Half(f, at, asks) ==
  LET S == {r \in Side(f, "real", asks) : r.at = at}
  IN  [runs |-> Number(f, S), completed |-> Number(f, Done(S)),
       advised |-> IF asks THEN Number(f, {r \in Failing(S) : r.advice # "none"}) ELSE 0]

-----------------------------------------------------------------------------
\* A run is filed; the page is written again.
write_report(r) ==
  /\ Number(filed, RunKinds) < MaxFiled
  /\ filed' = [filed EXCEPT ![r] = @ + 1]

ScoreboardNext == \E r \in RunKinds : write_report(r)

-----------------------------------------------------------------------------
(* Properties.                                                             *)

OnFile == {r \in RunKinds : filed[r] > 0}
Arms == {r.arm : r \in OnFile}

Mirrored(row) ==
  [row EXCEPT !.ask = row.blind, !.blind = row.ask, !.sample = <<row.sample[2], row.sample[1]>>,
              !.better = IF @ = "ask" THEN "blind" ELSE IF @ = "blind" THEN "ask" ELSE @]

(* If the same runs had happened on the other side, the table would say    *)
(* the same of the other side, and so would the lines on what a retry      *)
(* without advice is worth, the cohorts, the real services, the providers  *)
(* and the half days: nothing is counted for one of the sides only.        *)
SidesAlike ==
  LET flipped == [r \in RunKinds |-> IF Unadvised(r) THEN filed[Flip(r)] ELSE 0]
  IN  OnFile # {} /\ (\A r \in OnFile : Unadvised(r)) =>
        /\ \A arm \in Arms : Versus(flipped, arm) = {Mirrored(row) : row \in Versus(filed, arm)}
        /\ Advice(flipped) = [Advice(filed) EXCEPT !.unadvised = Advice(filed).blind,
                                                  !.blind = Advice(filed).unadvised]
        /\ ProviderRows(flipped) = {Mirrored(row) : row \in ProviderRows(filed)}
        /\ \A asks \in BOOLEAN :
             /\ \A arm \in Arms : Cohort(flipped, arm, asks) = Cohort(filed, arm, ~asks)
             /\ RealTarget(flipped, asks) = RealTarget(filed, ~asks)
             /\ \A r \in OnFile : Half(flipped, r.at, asks) = Half(filed, r.at, ~asks)
=============================================================================
