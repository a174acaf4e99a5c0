------------------------------ MODULE OperatorAgent ------------------------------
(***************************************************************************)
(* The operator's own agent (failecho_agent/__init__.py): a timer gives a  *)
(* model a task, every tool call is reported with the operator's token,    *)
(* and at its end the run reads its first failure back to see whether it   *)
(* was stored as first-party.  The day's runs are counted in state.json,   *)
(* which is truncated and then written.                                    *)
(*                                                                         *)
(* Abstracted: a failure is its fingerprint; what a tool is asked and what *)
(* it answers is left out.  Production labels a report by whether it knows *)
(* the token, and the operator may change either side between two runs.    *)
(***************************************************************************)
EXTENDS Naturals, Sequences, FiniteSets

CONSTANTS
  Fingerprints,
  Models,              \* how many models of how many providers are tried
  MAX_RUNS_PER_DAY,
  MAX_CALLS_OF_MODEL,  \* MAX_MODEL_CALLS
  MAX_TOOL_CALLS,
  MaxTears,            \* bound: kills between the truncation and the write
  MaxAgentRuns         \* bound: runs

ASSUME AgentAssumption ==
  /\ Models \in Nat \ {0} /\ MAX_RUNS_PER_DAY \in Nat \ {0}
  /\ MAX_CALLS_OF_MODEL \in Nat /\ MAX_TOOL_CALLS \in Nat

VARIABLES
  slots,    \* state.json: the runs of its date, or Unreadable
  agent,    \* the run: [pc, model, models, tools, failures, retries, before, exit]
  known,    \* does production know the token the agent has?
  evidence, \* [Fingerprints -> the sources production has for it]
  outbox,   \* reports of the run still to be sent
  ran,      \* history: runs that began today
  tears,    \* history: torn writes
  allRuns   \* history: runs

agentVars == <<slots, agent, known, evidence, outbox, ran, tears, allRuns>>

Unreadable == MAX_RUNS_PER_DAY + 1

NoAgent == [pc |-> "off", model |-> 1, models |-> 0, tools |-> 0, failures |-> <<>>,
            retries |-> FALSE, before |-> {}, exit |-> 0]

AgentInit ==
  /\ slots = 0 /\ agent = NoAgent /\ known = TRUE
  /\ evidence = [f \in Fingerprints |-> {}]
  /\ outbox = <<>> /\ ran = 0 /\ tears = 0 /\ allRuns = 0

Used == IF slots = Unreadable THEN 0 ELSE slots

\* The file is opened for writing, which empties it.
TakesSlot ==
  /\ agent.pc = "off" /\ allRuns < MaxAgentRuns
  /\ Used < MAX_RUNS_PER_DAY
  /\ slots' = Unreadable
  /\ agent' = [NoAgent EXCEPT !.pc = "slot", !.before = {f \in Fingerprints : "first_party" \in evidence[f]},
                              !.exit = Used + 1]
  /\ allRuns' = allRuns + 1
  /\ UNCHANGED <<known, evidence, outbox, ran, tears>>

_take_run_slot ==
  /\ agent.pc = "slot"
  /\ slots' = agent.exit
  /\ ran' = ran + 1
  /\ agent' = [agent EXCEPT !.pc = "loop", !.exit = 0]
  /\ UNCHANGED <<known, evidence, outbox, tears, allRuns>>

\* A kill right there.
Torn ==
  /\ agent.pc = "slot" /\ tears < MaxTears
  /\ agent' = NoAgent /\ tears' = tears + 1
  /\ UNCHANGED <<slots, known, evidence, outbox, ran, allRuns>>

FailsAt(f) == [agent EXCEPT !.failures = IF @ = <<>> THEN <<f>> ELSE @]
Report(f) == outbox' = Append(outbox, f)

\* The model is called, unless its calls are spent, and asks for a tool or ends.
_loop ==
  /\ agent.pc = "loop"
  /\ IF agent.models < MAX_CALLS_OF_MODEL
     THEN \E next \in {"tool", "flush"} :
            agent' = [agent EXCEPT !.models = @ + 1, !.pc = next]
     ELSE agent' = [agent EXCEPT !.pc = "flush"]
  /\ UNCHANGED <<slots, known, evidence, outbox, ran, tears, allRuns>>

\* The call fails: the next model takes over, with what has been said so far.  A
\* call that got no answer at all is reported, but not among the run's failures.
ModelFails(f) ==
  /\ agent.pc = "loop" /\ agent.models < MAX_CALLS_OF_MODEL
  /\ \E listed \in BOOLEAN :
       agent' = [(IF listed THEN FailsAt(f) ELSE agent) EXCEPT
                   !.models = @ + 1, !.model = IF @ < Models THEN @ + 1 ELSE @,
                   !.pc = IF agent.model < Models THEN "loop" ELSE "flush"]
  /\ Report(f)
  /\ UNCHANGED <<slots, known, evidence, ran, tears, allRuns>>

\* The tools the model asked for, in turn; beyond the budget they are refused.
ToolAnswers ==
  /\ agent.pc = "tool"
  /\ \E next \in {"tool", "loop"} :
       IF agent.tools >= MAX_TOOL_CALLS THEN agent' = [agent EXCEPT !.pc = "loop"]
       ELSE agent' = [agent EXCEPT !.pc = next, !.tools = @ + 1]
  /\ UNCHANGED <<slots, known, evidence, outbox, ran, tears, allRuns>>

\* A tool fails, and the advice or the rules say to try again or not to; the
\* second try is not held against the budget.
ToolFails(f) ==
  /\ agent.pc = "tool" /\ agent.tools < MAX_TOOL_CALLS
  /\ Report(f)
  /\ \E again \in BOOLEAN :
       agent' = [FailsAt(f) EXCEPT !.tools = IF again THEN @ + 2 ELSE @ + 1, !.pc = "loop",
                                 !.retries = @ \/ again]
  /\ UNCHANGED <<slots, known, evidence, ran, tears, allRuns>>

Source == IF known THEN "first_party" ELSE "agent"

\* The client sends a report, or gives it up.
Sends ==
  /\ outbox # <<>>
  /\ \/ evidence' = [evidence EXCEPT ![Head(outbox)] = @ \cup {Source}]
     \/ UNCHANGED evidence
  /\ outbox' = Tail(outbox)
  /\ UNCHANGED <<slots, agent, known, ran, tears, allRuns>>

\* The client is waited for, but not for long.
flush ==
  /\ agent.pc = "flush"
  /\ agent' = [agent EXCEPT !.pc = "verify"]
  /\ UNCHANGED <<slots, known, evidence, outbox, ran, tears, allRuns>>

\* Whatever there is of it.
VerifiedByAnything(f) == evidence[f] # {}

\* Is anything of it first-party?
Verified(f) == "first_party" \in evidence[f]

\* Reads its first failure back; if it cannot, that is a failed check too.
verify_first_party ==
  /\ agent.pc = "verify"
  /\ \E read \in BOOLEAN :
       agent' = [agent EXCEPT !.pc = "end",
                              !.exit = IF agent.failures = <<>> \/ (read /\ Verified(agent.failures[1]))
                                       THEN 0 ELSE 3]
  /\ UNCHANGED <<slots, known, evidence, outbox, ran, tears, allRuns>>

\* The process ends, and its queue with it.
AgentEnds ==
  /\ agent.pc = "end"
  /\ agent' = NoAgent /\ outbox' = <<>>
  /\ UNCHANGED <<slots, known, evidence, ran, tears, allRuns>>

\* Between two runs: another token, older evidence pruned, another day.
TokenChanges ==
  /\ agent.pc = "off"
  /\ known' = ~known
  /\ UNCHANGED <<slots, agent, evidence, outbox, ran, tears, allRuns>>

Pruned(f) ==
  /\ agent.pc = "off" /\ evidence[f] # {}
  /\ evidence' = [evidence EXCEPT ![f] = {}]
  /\ UNCHANGED <<slots, agent, known, outbox, ran, tears, allRuns>>

NextDay ==
  /\ agent.pc = "off" /\ ran > 0
  /\ slots' = 0 /\ ran' = 0
  /\ UNCHANGED <<agent, known, evidence, outbox, tears, allRuns>>

AgentNext ==
  \/ TakesSlot \/ _take_run_slot \/ Torn \/ _loop \/ ToolAnswers \/ Sends \/ flush
  \/ verify_first_party \/ AgentEnds \/ TokenChanges \/ NextDay
  \/ \E f \in Fingerprints : ModelFails(f) \/ ToolFails(f) \/ Pruned(f)

-----------------------------------------------------------------------------
(* Properties.                                                             *)

(* A run that failed at something and ends well was labelled, or what it   *)
(* failed at first had first-party evidence before it.                     *)
LabelChecked ==
  agent.pc = "end" /\ agent.failures # <<>> /\ agent.exit = 0
    => known \/ agent.failures[1] \in agent.before
=============================================================================
