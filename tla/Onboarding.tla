------------------------------- MODULE Onboarding --------------------------------
(***************************************************************************)
(* The onboarding test (failecho_fleet/onboard.py): a timer starts a run   *)
(* that gives one model, in a throwaway VM, the sentence a user would      *)
(* paste, and files what it did.  Everything a run knows of the runs       *)
(* before it is in onboard-state.json, read when it starts and written     *)
(* when it ends: whose turn it is, the calls of the day, and the providers *)
(* that said their daily quota is gone.                                    *)
(*                                                                         *)
(* Abstracted: models, scenes and projects are numbered from 0; an answer  *)
(* of the provider is one of a few kinds.                                  *)
(***************************************************************************)
EXTENDS Naturals, Sequences, FiniteSets

CONSTANTS
  ProviderOf,      \* <<the provider of each model>>, MODELS
  Scenes,          \* how many SCENARIOS there are
  Projects,        \* how many PROJECTS there are
  MAX_MODEL_CALLS, \* 14
  MAX_ATTEMPTS,    \* 4
  DAILY_CAP,       \* this test's calls of a provider and day
  daily_cap,       \* the provider's own tier, shared with the fleet
  AnswerKinds,     \* what a provider may answer
  MaxUncounted     \* bound: runs of a day whose calls nobody counts

ASSUME OnboardAssumption ==
  /\ ProviderOf # <<>> /\ Scenes \in Nat \ {0} /\ Projects \in Nat \ {0}
  /\ MAX_MODEL_CALLS \in Nat \ {0} /\ MAX_ATTEMPTS \in Nat \ {0} /\ DAILY_CAP \in Nat \ {0}
  /\ AnswerKinds \subseteq {"tools", "text", "limit", "quota", "failure"}

VARIABLES
  saved,     \* onboard-state.json: [next, today, calls, dead]
  test,      \* the run: [pc, state, idx, n, round, attempt, calls, dead]
  tier,      \* what the fleet's state file says: [Providers -> calls today]
  met,       \* history: the <<model, scene, project>> of the runs on file
  made,      \* history: [Providers -> calls this test really made today]
  uncounted, \* history: runs of today that were killed, or began yesterday
  walls      \* history: providers that said today that their quota is gone

onboardVars == <<saved, test, tier, met, made, uncounted, walls>>

Providers == {ProviderOf[i] : i \in DOMAIN ProviderOf}
Count == Len(ProviderOf)
ModelProvider(idx) == ProviderOf[idx + 1]
NoCalls == [p \in Providers |-> 0]

FreshFile == [next |-> 0, today |-> TRUE, calls |-> NoCalls, dead |-> {}]
NoTest == [pc |-> "idle", state |-> FreshFile, idx |-> 0, n |-> 0, round |-> 1,
           attempt |-> 1, calls |-> 0, dead |-> FALSE]

OnboardInit ==
  /\ saved = FreshFile /\ test = NoTest /\ tier = NoCalls
  /\ met = {} /\ made = NoCalls /\ uncounted = 0 /\ walls = {}

\* The model turns fastest, then the scene, then the project.
rotation(n) == <<n % Count, (n \div Count) % Scenes, (n \div (Count * Scenes)) % Projects>>

\* The first turn from n on whose provider is not out of quota; n + Count if none.
NextAlive(n, dead) ==
  LET alive == {k \in 0 .. Count - 1 : ModelProvider((n + k) % Count) \notin dead}
  IN  IF alive = {} THEN n + Count
      ELSE n + (CHOOSE k \in alive : \A j \in alive : k <= j)

\* What the file says today: yesterday's calls do not count.
Loaded == IF saved.today THEN saved ELSE [saved EXCEPT !.today = TRUE, !.calls = NoCalls]

\* The cap alone, and a run beyond it.
OverCapByOne(state, p) == state.calls[p] > DAILY_CAP

OverCap(state, p) ==
  \/ state.calls[p] >= DAILY_CAP
  \/ tier[p] + state.calls[p] >= daily_cap

\* A run starts.  Providers out of quota are passed over; one whose cap is
\* reached costs the model its turn.
Starts ==
  /\ test.pc = "idle"
  /\ LET turn == NextAlive(Loaded.next, Loaded.dead)
         idx  == turn % Count
         all  == turn = Loaded.next + Count /\ Loaded.dead # {}
     IN  IF all \/ OverCap(Loaded, ModelProvider(idx))
         THEN /\ saved' = [Loaded EXCEPT !.next = IF all THEN turn ELSE idx + 1]
              /\ UNCHANGED test
         ELSE /\ test' = [NoTest EXCEPT !.pc = "call", !.state = Loaded, !.idx = idx, !.n = turn]
              /\ UNCHANGED saved
  /\ UNCHANGED <<tier, met, made, uncounted, walls>>

Mine == ModelProvider(test.idx)

\* What is left of an error's body for the handler: the log line has read it.
BodyLeft(kind) == "nothing"

\* One call of the model.  A rate limit is waited out, a few times; the wall of
\* a day would be remembered, were it seen.
Calls(kind) ==
  /\ test.pc = "call"
  /\ made' = [made EXCEPT ![Mine] = @ + 1]
  /\ walls' = IF kind = "quota" THEN walls \cup {Mine} ELSE walls
  /\ LET called == [test EXCEPT !.calls = @ + 1]
         wall   == kind = "quota" /\ BodyLeft(kind) = "per day"
     IN  test' = CASE kind = "tools" /\ test.round < MAX_MODEL_CALLS
                        -> [called EXCEPT !.round = @ + 1, !.attempt = 1]
                   [] kind \in {"limit", "quota"} /\ ~wall /\ test.attempt < MAX_ATTEMPTS
                        -> [called EXCEPT !.attempt = @ + 1]
                   [] OTHER -> [called EXCEPT !.pc = "file", !.dead = wall]
  /\ UNCHANGED <<saved, tier, met, uncounted>>

\* The VM fails: the run is filed with its calls so far.
SandboxFails ==
  /\ test.pc = "call"
  /\ test' = [test EXCEPT !.pc = "file"]
  /\ UNCHANGED <<saved, tier, met, made, uncounted, walls>>

\* The record, the calls and the next turn, in one write.
Files ==
  /\ test.pc = "file"
  /\ saved' = [test.state EXCEPT !.calls[Mine] = @ + test.calls, !.next = test.idx + 1,
                                 !.dead = IF test.dead THEN @ \cup {Mine} ELSE @ \ {Mine}]
  /\ met' = met \cup {<<test.idx, rotation(test.n)[2], rotation(test.n)[3]>>}
  /\ test' = NoTest
  /\ UNCHANGED <<tier, made, uncounted, walls>>

\* The unit's start timeout, or a stop: nothing is filed.
TestKilled ==
  /\ test.pc # "idle" /\ uncounted < MaxUncounted
  /\ test' = NoTest /\ uncounted' = uncounted + 1
  /\ UNCHANGED <<saved, tier, met, made, walls>>

\* A run that is going on files its calls under the day it began.
Midnight ==
  /\ saved' = [saved EXCEPT !.today = FALSE]
  /\ test' = [test EXCEPT !.state.today = FALSE]
  /\ tier' = NoCalls /\ made' = NoCalls
  /\ uncounted' = IF test.pc = "idle" THEN 0 ELSE 1
  /\ UNCHANGED <<met, walls>>

\* The fleet's own calls; it does not ask for this test's.
FleetCalls(p) ==
  /\ tier[p] < daily_cap
  /\ tier' = [tier EXCEPT ![p] = @ + 1]
  /\ UNCHANGED <<saved, test, met, made, uncounted, walls>>

\* QUOTA_PROBE_SECONDS after a mark.
ProbeDue(p) ==
  /\ p \in walls /\ test.pc = "idle"
  /\ walls' = walls \ {p}
  /\ saved' = [saved EXCEPT !.dead = @ \ {p}]
  /\ UNCHANGED <<test, tier, met, made, uncounted>>

OnboardNext ==
  \/ Starts \/ SandboxFails \/ Files \/ TestKilled \/ Midnight
  \/ \E kind \in AnswerKinds : Calls(kind)
  \/ \E p \in Providers : FleetCalls(p) \/ ProbeDue(p)

\* The timer starts runs, runs go on, and days pass.
OnboardFairness ==
  /\ WF_onboardVars(Starts) /\ WF_onboardVars(Files) /\ WF_onboardVars(Midnight)
  /\ WF_onboardVars(\E kind \in AnswerKinds : Calls(kind))

-----------------------------------------------------------------------------
(* Properties.                                                             *)

RunCalls == MAX_MODEL_CALLS * MAX_ATTEMPTS

(* The calls of a day stay within the cap, the run that began below it,    *)
(* and the runs whose calls nobody counted: the killed ones, and one that  *)
(* began before midnight.  And what is on file is never more than was      *)
(* really called, so that a turn is only lost to a cap that is reached.    *)
OnboardWithinCap ==
  \A p \in Providers :
    /\ made[p] <= DAILY_CAP - 1 + RunCalls * (1 + uncounted)
    /\ saved.today => saved.calls[p] <= made[p]

(* rotation's docstring (onboard.py:106-108): every model meets every      *)
(* scene on every project, whatever the counts.                            *)
EveryModelMeetsEveryScene ==
  <>(met = (0 .. Count - 1) \X (0 .. Scenes - 1) \X (0 .. Projects - 1))
=============================================================================
