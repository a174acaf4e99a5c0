------------------------------- MODULE FleetRun -------------------------------
(***************************************************************************)
(* One run of one persona (failecho_fleet.Run): the model loop, the tool   *)
(* calls, what is done when a provider or a tool fails, and the ledger row *)
(* the run leaves behind for the scheduler (module Fleet) and the          *)
(* scoreboard.  A builder's tools run in a VM (failecho_fleet.builder).    *)
(* The scheduler knows of a run what it bills, so that the two are checked *)
(* side by side, one of them at a time.                                    *)
(*                                                                         *)
(* The network, the providers and the tools answer anything: an asker gets *)
(* any member of Advices, a call fails with any member of Exceptions.  A   *)
(* tool call is one step, with the question and the second attempt in it;  *)
(* so is the recovery of a provider, after the step in which it failed.    *)
(* The roles are "plain", "explorer" and "local"; team personas recover    *)
(* tools like the local ones and have no provider.                         *)
(***************************************************************************)
EXTENDS Fleet, Integers

CONSTANTS
  EXPLORE_UNTIL_ATTEMPTS,
  Personas,    \* [path, asks, role, provider]; path: "decorator", "wrapped", "builder", "cron";
               \* provider: [models, alt_models]
  Exceptions,  \* [error, quota, reset]
  Advices,     \* [action, evidence]; the answer that never came has action None, no evidence
  Turns,       \* bound of the loop over the model's answers (6, a builder's 10)
  MaxCalls     \* bound: tool calls in one answer, calls of a cron run

ASSUME ExceptionsAssumption ==
  \A e \in Exceptions : e.quota \in BOOLEAN /\ (e.quota => e.error = "rate_limit")
ASSUME NoneAssumption == None \notin {"answered", "exhausted", "failed"}
ASSUME RunPersonasAssumption == \A p \in Personas : p.provider.models # <<>>
ASSUME RunBoundsAssumption == Turns \in Nat \ {0} /\ MaxCalls \in Nat \ {0}

INSTANCE FleetPlans

VARIABLES
  looked_at,                \* the scheduler or a run
  persona, pc,
  turn,                     \* answers of the model dealt with
  attempt,                  \* a builder's attempts at this answer
  wanted,                   \* tool calls left to make
  failure,                  \* the exception recover_provider was given
  model, tools, tried,      \* state["model"], state["tools"], a builder's tried
  tool_calls, model_calls, failures, provider_dead_today,
  consecutive, last_skip, model_retries_after_skip, build,
  answer,                   \* last_skip: the call just made was skipped; the model loop reads it
  chats,                    \* history: requests to a provider
  walls,                    \* history: the models that met the daily wall
  outcomes                  \* history: the recovery outcomes reported, and of which failure

loop    == <<pc, turn, attempt, wanted, failure>>
request == <<model, tools, tried>>
skips   == <<last_skip, model_retries_after_skip>>
runVars == <<persona, loop, request, tool_calls, model_calls, failures, provider_dead_today,
          consecutive, skips, build, answer, chats, walls, outcomes>>

models == persona.provider.models
alt_models == persona.provider.alt_models

-----------------------------------------------------------------------------
RunInit ==
  /\ persona \in Personas
  /\ IF persona.path = "cron" THEN pc = "tools" /\ wanted = MaxCalls
                              ELSE pc = "chat"  /\ wanted = 0
  /\ turn = 0 /\ attempt = 0 /\ failure = None
  /\ model \in ToSet(models) /\ tools = TRUE /\ tried = {}
  /\ tool_calls = 0 /\ model_calls = 0 /\ failures = <<>> /\ provider_dead_today = FALSE
  /\ consecutive = [m \in ToSet(models) \cup ToSet(alt_models) |-> 0]
  /\ last_skip = FALSE /\ model_retries_after_skip = 0
  /\ build = [venv_ready |-> FALSE, last_ok |-> FALSE]
  /\ answer = None
  /\ chats = 0 /\ walls = {} /\ outcomes = <<>>

Rec(op) ==
  [op |-> op, action |-> None, attempts |-> 1, recovered |-> FALSE, skipped |-> FALSE]

\* self.failures[-1] changes.
Amended(rec) == [failures EXCEPT ![Len(failures)] = rec]

\* The network is told how a second attempt ended.
Told(op, action, ok) ==
  outcomes' = Append(outcomes, [of |-> Len(failures'), op |-> op, action |-> action, ok |-> ok])

Meet(walled) == walls' = walls \cup (IF walled THEN {model} ELSE {})

\* The answer is the end, or asks for tools; a request without tools gets no calls.
Answered ==
  \/ /\ pc' = "done" /\ answer' = "answered"
     /\ UNCHANGED <<turn, wanted>>
  \/ /\ tools'
     /\ wanted' \in 1 .. MaxCalls
     /\ pc' = "tools"
     /\ UNCHANGED <<turn, answer>>

Stop(text) == pc' = "done" /\ answer' = text /\ UNCHANGED <<turn, wanted>>

-----------------------------------------------------------------------------
(* The model loop of run_model.                                            *)

Chat ==
  /\ pc = "chat" /\ persona.path # "builder"
  /\ model_calls' = model_calls + 1 /\ chats' = chats + 1
  /\ UNCHANGED tools
  /\ \/ Answered /\ UNCHANGED <<failure, failures, consecutive, walls>>
     \/ \E e \in Exceptions :
          /\ pc' = "recover" /\ failure' = e
          /\ consecutive' = [consecutive EXCEPT ![model] = @ + 1]
          /\ failures' = Append(failures, Rec("chat"))
          /\ Meet(e.quota)
          /\ UNCHANGED <<turn, wanted, answer>>
  /\ UNCHANGED <<persona, attempt, model, tried, tool_calls, provider_dead_today, skips, build, outcomes>>

\* The wrapper asks for the "wrapped" path, not the loop.
Asking == persona.asks /\ persona.path # "wrapped"

\* What the network's answer comes to, for an explorer even past a skip.
AdvisedAction(advice) ==
  IF advice.action \in KNOWN_ACTIONS \ {"skip"} THEN advice.action
  ELSE IF persona.role = "explorer"
       THEN explore(Candidates(PROVIDER_ACTIONS, failure.error), advice.evidence)
       ELSE None

\* What is answered to a question; who does not ask has no answer.
Answers == IF Asking THEN Advices ELSE {[action |-> None, evidence |-> <<>>]}

SkipAdvised(advice) == AdvisedAction(advice) = None /\ advice.action = "skip"

Plan == local_plan(failure, consecutive[model])

\* None: the careful plan is to stop.
ChosenAction(advice) ==
  IF AdvisedAction(advice) # None THEN AdvisedAction(advice)
  ELSE IF persona.role # "local" THEN "retry"
  ELSE IF Plan = <<>> THEN None ELSE Head(Plan)

\* The models of a list that are not in a set, by position; the code takes the first.
Others(ms, M) == {i \in DOMAIN ms : ms[i] \notin M}
FirstOf(positions) == alt_models[CHOOSE i \in positions : \A j \in positions : i <= j]

Alternatives == Others(alt_models, {model})

ProviderFailed ==
  /\ Stop("failed")
  /\ failure' = None
  /\ UNCHANGED <<persona, attempt, tried, tool_calls, skips, build>>

SkipProvider ==
  /\ pc = "recover"
  /\ \E advice \in Answers :
       /\ SkipAdvised(advice)
       /\ provider_dead_today' = (provider_dead_today \/ failure.quota)
  /\ failures' = Amended([Last(failures) EXCEPT !.skipped = TRUE])
  /\ ProviderFailed
  /\ UNCHANGED <<model, tools, model_calls, consecutive, chats, walls, outcomes>>

NothingRetryable ==
  /\ pc = "recover"
  /\ \E advice \in Answers : ~SkipAdvised(advice) /\ ChosenAction(advice) = None
  /\ failures' = Amended([Last(failures) EXCEPT !.skipped = TRUE])
  /\ ProviderFailed
  /\ UNCHANGED <<model, tools, model_calls, provider_dead_today, consecutive, chats, walls,
                 outcomes>>

NothingToSwitchTo ==
  /\ pc = "recover"
  /\ \E advice \in Answers : ~SkipAdvised(advice) /\ ChosenAction(advice) = "switch_model"
  /\ Alternatives = {}
  /\ provider_dead_today' = (provider_dead_today \/ failure.quota)
  /\ ProviderFailed
  /\ UNCHANGED <<model, tools, model_calls, failures, consecutive, chats, walls, outcomes>>

\* The second attempt, which works ...
Recovered(action) ==
  /\ failures' = Amended([Last(failures) EXCEPT !.action = action, !.attempts = @ + 1,
                                                !.recovered = TRUE])
  /\ Told("chat", action, TRUE)
  /\ consecutive' = [consecutive EXCEPT ![model'] = 0]
  /\ Answered
  /\ failure' = None
  /\ UNCHANGED <<persona, attempt, tried, tool_calls, provider_dead_today, skips, build, walls>>

\* Any failed switch marks the provider.
FailedAgainMarking(action, again) ==
  /\ failures' = Amended([Last(failures) EXCEPT !.action = action, !.attempts = @ + 1])
  /\ Told("chat", action, FALSE)
  /\ provider_dead_today' = (provider_dead_today \/ action = "switch_model")
  /\ walls' = walls \cup (IF again.quota THEN {model'} ELSE {})
  /\ ProviderFailed
  /\ UNCHANGED consecutive

\* ... or fails with another exception.
FailedAgain(action, again) ==
  /\ failures' = Amended([Last(failures) EXCEPT !.action = action, !.attempts = @ + 1])
  /\ Told("chat", action, FALSE)
  /\ provider_dead_today' = \/ provider_dead_today
                            \/ action = "switch_model" /\ (failure.quota \/ again.quota)
  /\ walls' = walls \cup (IF again.quota THEN {model'} ELSE {})
  /\ ProviderFailed
  /\ UNCHANGED consecutive

RetryProvider ==
  /\ pc = "recover"
  /\ \E advice \in Answers :
       LET action == ChosenAction(advice)
       IN  /\ ~SkipAdvised(advice) /\ action # None
           /\ action = "switch_model" => Alternatives # {}
           /\ model' = IF action = "switch_model" THEN FirstOf(Alternatives) ELSE model
           /\ tools' = (tools /\ action # "retry_without_tool_choice")
           /\ Recovered(action) \/ \E again \in Exceptions : FailedAgain(action, again)
  /\ model_calls' = model_calls + 1 /\ chats' = chats + 1

-----------------------------------------------------------------------------
(* A builder's loop: the minute is waited out, the day is not.             *)

BuilderChat ==
  /\ pc = "chat" /\ persona.path = "builder"
  /\ model_calls' = model_calls + 1 /\ chats' = chats + 1
  /\ attempt' = 0
  /\ UNCHANGED request
  /\ Answered
  /\ UNCHANGED <<persona, failure, tool_calls, failures, provider_dead_today,
                 consecutive, skips, build, walls, outcomes>>

\* Models the builder has switched away from are not tried again.
Untried == Others(alt_models, tried \cup {model})

BuilderLimited ==
  /\ pc = "chat" /\ persona.path = "builder" /\ attempt < 3
  /\ model_calls' = model_calls + 1 /\ chats' = chats + 1
  /\ attempt' = attempt + 1
  /\ \E e \in Exceptions :
       /\ e.error = "rate_limit"
       /\ Meet(e.quota)
       /\ tried' = IF e.quota THEN tried \cup {model} ELSE tried
       /\ model' = IF e.quota /\ Untried # {} THEN FirstOf(Untried) ELSE model
       /\ provider_dead_today' = (provider_dead_today \/ (e.quota /\ Untried = {}))
  /\ UNCHANGED <<persona, pc, turn, wanted, failure, tools, tool_calls, failures, consecutive,
                 skips, build, answer, outcomes>>

BuilderFailed ==
  /\ pc = "chat" /\ persona.path = "builder"
  /\ model_calls' = model_calls + 1 /\ chats' = chats + 1
  /\ \E e \in Exceptions :
       /\ e.error = "rate_limit" => attempt = 3
       /\ Meet(e.quota)
  /\ failures' = Append(failures, [Rec("chat") EXCEPT !.attempts = attempt + 1])
  /\ Stop("failed")
  /\ UNCHANGED <<persona, attempt, failure, request, tool_calls, provider_dead_today, consecutive,
                 skips, build, outcomes>>

-----------------------------------------------------------------------------
(* Tool calls.                                                             *)

\* After the last call of an answer the model is asked again, while the budget lasts.
CallMade ==
  /\ wanted' = wanted - 1
  /\ IF wanted > 1 THEN UNCHANGED <<pc, turn, answer>>
     ELSE /\ turn' = turn + 1
          /\ IF persona.path = "cron" THEN pc' = "done" /\ answer' = "answered"
             ELSE IF turn + 1 < Turns THEN pc' = "chat" /\ UNCHANGED answer
             ELSE pc' = "done" /\ answer' = "exhausted"

\* The model calls what the network has just said to skip; a builder's loop does not look.
SkipSeen ==
  IF persona.path \in {"builder", "cron"}
  THEN UNCHANGED model_retries_after_skip
  ELSE \E same \in BOOLEAN :
         model_retries_after_skip' =
           model_retries_after_skip + (IF last_skip /\ same THEN 1 ELSE 0)

\* The calls are counted by Run.call, a builder's own by its loop.
ToolReturns ==
  /\ tool_calls' = tool_calls + 1
  /\ last_skip' = FALSE
  /\ UNCHANGED <<failures, outcomes>>

\* A name the persona does not have; only a builder counts it.
UnknownTool ==
  /\ persona.path # "cron"
  /\ tool_calls' = IF persona.path = "builder" THEN tool_calls + 1 ELSE tool_calls
  /\ last_skip' = FALSE
  /\ UNCHANGED <<failures, outcomes>>

\* A host that is not on the list is refused, and counted twice.
DocRefused ==
  /\ persona.path = "builder"
  /\ tool_calls' = tool_calls + 2
  /\ UNCHANGED <<last_skip, failures, outcomes>>

ToolPlan(e) == SelectSeq(local_plan(e, 0), LAMBDA a : a # "switch_model")

\* Without advice, or with one the loop does not know.
OwnAction(e) ==
  IF persona.role = "local" THEN IF ToolPlan(e) = <<>> THEN None ELSE Head(ToolPlan(e))
  ELSE IF e.error \in DOMAIN DefaultAction THEN DefaultAction[e.error] ELSE None

ToolAction(e, advice) ==
  LET explored == explore(Candidates(TOOL_ACTIONS, e.error), advice.evidence)
  IN  IF advice.action \in KNOWN_ACTIONS THEN advice.action
      ELSE IF advice.action = None /\ persona.asks /\ persona.role = "explorer" /\ explored # None
      THEN explored
      ELSE OwnAction(e)

\* Only a retry that works is reported.
ToolRetriedQuietly(action) ==
  \E ok \in BOOLEAN :
    /\ tool_calls' = tool_calls + 2
    /\ failures' = Append(failures, [Rec("tool") EXCEPT !.action = action, !.attempts = 2,
                                                        !.recovered = ok])
    /\ IF ok THEN Told("tool", action, ok) ELSE UNCHANGED outcomes
    /\ last_skip' = FALSE

ToolRetried(action) ==
  \E ok \in BOOLEAN :
    /\ tool_calls' = tool_calls + 2
    /\ failures' = Append(failures, [Rec("tool") EXCEPT !.action = action, !.attempts = 2,
                                                        !.recovered = ok])
    /\ Told("tool", action, ok)
    /\ last_skip' = FALSE

ToolGivenUp(action) ==
  /\ tool_calls' = tool_calls + 1
  /\ failures' = Append(failures, [Rec("tool") EXCEPT !.skipped = (action = "skip")])
  /\ last_skip' = (action = "skip")
  /\ UNCHANGED outcomes

ToolFails ==
  \E e \in Exceptions, advice \in Answers :
    LET action == IF persona.path = "wrapped" THEN None ELSE ToolAction(e, advice)
    IN  /\ IF action \in {None, "skip"} THEN ToolGivenUp(action) ELSE ToolRetried(action)

Call ==
  /\ pc = "tools"
  /\ CallMade
  /\ SkipSeen
  /\ ToolReturns \/ UnknownTool \/ DocRefused \/ ToolFails
  /\ UNCHANGED <<persona, attempt, failure, request, model_calls, provider_dead_today, consecutive,
                 build, chats, walls>>

-----------------------------------------------------------------------------
(* A builder's VM.                                                         *)

\* The failed command is the world's or the program's own, and counted as one of them.
_account(ok) == [build EXCEPT !.last_ok = ok]

\* run_python, the packages it wants first: the venv may fail, at the first use.
RunsProgram ==
  \/ ~build.venv_ready /\ UNCHANGED build
  \/ \E ok \in BOOLEAN : build' = [_account(ok) EXCEPT !.venv_ready = TRUE]

ResolvesDeps == \E ok \in BOOLEAN : build' = _account(ok)

\* A sandbox that did not boot answers every call with an error.
VMTool ==
  /\ pc = "tools" /\ persona.path = "builder"
  /\ CallMade
  /\ tool_calls' = tool_calls + 1
  /\ RunsProgram \/ ResolvesDeps \/ UNCHANGED build
  /\ UNCHANGED <<persona, attempt, failure, request, model_calls, failures, provider_dead_today,
                 consecutive, skips, chats, walls, outcomes>>

RunNext ==
  \/ Chat \/ SkipProvider \/ NothingRetryable \/ NothingToSwitchTo \/ RetryProvider
  \/ BuilderChat \/ BuilderLimited \/ BuilderFailed
  \/ Call \/ VMTool

-----------------------------------------------------------------------------
(* The scheduler, or one run that it started.                              *)

AllInit ==
  /\ looked_at \in {"scheduler", "run"} /\ Init /\ RunInit
  /\ looked_at = "scheduler" => persona = CHOOSE p \in Personas : TRUE

AllNext ==
  /\ \/ looked_at = "scheduler" /\ Next    /\ UNCHANGED runVars
     \/ looked_at = "run"       /\ RunNext /\ UNCHANGED vars
  /\ UNCHANGED looked_at

AllSpec == AllInit /\ [][AllNext]_<<looked_at, vars, runVars>>

-----------------------------------------------------------------------------
(* Properties.                                                             *)

(* The scheduler checks a cap before a run and bills model_calls after it  *)
(* (module Fleet, RunCalls): a run bills every request it made to its      *)
(* provider, its retries and a builder's waits included, and one run       *)
(* cannot make more than the loops allow.                                  *)
CostBounded ==
  /\ model_calls = chats
  /\ model_calls <= (IF persona.path = "builder" THEN 4 ELSE 2) * Turns

(* A provider that is marked is skipped by every persona for hours: the    *)
(* mark needs a daily wall that this run met, and a builder's needs every  *)
(* alternative of the provider to have met it; a persona other than a      *)
(* builder did not finish its task on a provider it marked.                *)
DeadMeansWalled ==
  provider_dead_today =>
    /\ walls # {}
    /\ IF persona.path = "builder" THEN ToSet(alt_models) \subseteq walls
                                   ELSE answer = "failed"

(* A run that got to an answer, or ran out of turns, got past every        *)
(* failure of its provider; only the last failure of a run that failed is  *)
(* one that it did not get past.                                           *)
AnsweredMeansServed ==
  \A i \in 1 .. Len(failures) :
    failures[i].op = "chat" /\ ~failures[i].recovered
    => i = Len(failures) /\ (pc = "recover" \/ answer = "failed")

(* What the network learns from the run is what the ledger says of it: one *)
(* outcome for every failure that was tried again, in the order of the     *)
(* failures, under the action that was tried, and none for a failure that  *)
(* was skipped or given up.                                                *)
OutcomesMatchLedger ==
  /\ {o.of : o \in ToSet(outcomes)} = {i \in DOMAIN failures : failures[i].action # None}
  /\ \A j, k \in DOMAIN outcomes : j < k => outcomes[j].of < outcomes[k].of
  /\ \A o \in ToSet(outcomes) :
       LET f == failures[o.of]
       IN  /\ o.op = f.op /\ o.action = f.action /\ o.ok = f.recovered
           /\ f.attempts = 2 /\ ~f.skipped

(* The row of the ledger says what the run was.                            *)
LedgerTruthful == CostBounded /\ AnsweredMeansServed /\ OutcomesMatchLedger
=============================================================================
