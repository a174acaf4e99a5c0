--------------------------------- MODULE Clients ---------------------------------
(***************************************************************************)
(* The older clients (client/), and the watched functions of the reporting *)
(* client (failecho_autoreport): a tool is called, how it ended is         *)
(* reported, and after a failure the network is asked what others did.     *)
(* What the agent makes of it is its own: it tries again, through the same *)
(* client, and reports how that went.                                      *)
(*                                                                         *)
(* Abstracted: there is one tool, and one way for it to fail; a request    *)
(* gets there and is answered, gets there and its answer is lost, or does  *)
(* not get there.                                                          *)
(***************************************************************************)
EXTENDS Naturals, FiniteSets

CONSTANTS
  Ways,        \* how the calls are made
  MaxToolCalls \* bound: the calls of the tool

\* FailEcho's observe_tool_call, and the same with the client switched off; the
\* Pydantic AI toolset; run_with_failure_intelligence over an MCP session, as the
\* live agent uses it; the plain Client, which the agent calls itself, and that with
\* fail_soft=False; a function decorated with watch.
ASSUME ClientsAssumption ==
  /\ Ways \subseteq {"failecho", "disabled", "toolset", "auto", "client", "hard_client", "watch"}
  /\ MaxToolCalls \in Nat

VARIABLES
  toolCall, \* the call: [pc, way, n, failed, report, decision, retry]
  network,  \* the failures, successes and recoveries the network holds
  caller    \* what the agent was given of its last call: [n, got, line]

clientVars == <<toolCall, network, caller>>

\* An answer of the network to a watched call: what it recommends and with which
\* qualifications, whether agents tried something here or on the service's other
\* operations, and the same of the caller's own team.
NetworkAnswers ==
  [action : {"none", "skip", "fix"}, marks : SUBSET {"decaying", "pooled"}, tried : BOOLEAN,
   pooled : BOOLEAN, team : [action : {"none", "skip", "fix"}, tried : BOOLEAN]]

NoAnswer == [action |-> "none", marks |-> {}, tried |-> FALSE, pooled |-> FALSE,
             team |-> [action |-> "none", tried |-> FALSE]]

Line(whose, says, marks) == [whose |-> whose, says |-> says, marks |-> marks]

NoLine == Line("nobody", "nothing", {})

UNKNOWN == [known |-> FALSE, fingerprint |-> FALSE, recommendation |-> FALSE]

\* "report" is the history of the failure's report, "retry" whether the call is another
\* try of one whose fingerprint the agent was told.
NoToolCall == [pc |-> "idle", way |-> "failecho", n |-> 0, failed |-> FALSE,
               report |-> "untried", decision |-> UNKNOWN, retry |-> FALSE, answer |-> NoAnswer]

ClientInit ==
  /\ toolCall = NoToolCall
  /\ network = [failures |-> 0, successes |-> 0, recoveries |-> 0]
  /\ caller = [n |-> 0, got |-> "nothing", line |-> NoLine]

Reach == {"answered", "unanswered", "down"}

Stores(kind, reach) ==
  network' = IF reach = "down" THEN network ELSE [network EXCEPT ![kind] = @ + 1]

\* Fault: the request's exception goes up to the one who made it.
RaisesAlways(way) == way # "disabled"

\* Only where nothing is there to swallow it.
Raises(way) == way \in {"auto", "hard_client"}

Fails(reach) == reach # "answered" /\ Raises(toolCall.way)

Hands(got) == caller' = [n |-> toolCall.n, got |-> got, line |-> NoLine]

-----------------------------------------------------------------------------
CallsTool(way) ==
  /\ toolCall.pc = "idle" /\ toolCall.n < MaxToolCalls
  /\ toolCall' = [toolCall EXCEPT !.pc = "calling", !.way = way, !.n = @ + 1]
  /\ UNCHANGED <<network, caller>>

observe_tool_call(failed) ==
  /\ toolCall.pc = "calling"
  /\ toolCall' = [toolCall EXCEPT !.failed = failed,
                                  !.pc = IF failed THEN "report_failure" ELSE "report_success"]
  /\ UNCHANGED <<network, caller>>

\* A client that is switched off sends nothing; nor is a success sent that sampling
\* leaves out.
report_success(reach, sampled) ==
  /\ toolCall.pc = "report_success"
  /\ LET sent == sampled /\ toolCall.way # "disabled"
     IN  /\ IF sent THEN Stores("successes", reach) ELSE UNCHANGED network
         /\ Hands(IF sent /\ Fails(reach) THEN "network_error" ELSE "result")
  /\ toolCall' = [toolCall EXCEPT !.pc = "done"]

\* An agent with the plain client goes on without the network if its report was not
\* answered.
report_failure(reach) ==
  /\ toolCall.pc = "report_failure" /\ toolCall.way \notin {"disabled", "watch"}
  /\ Stores("failures", reach)
  /\ LET ends == Fails(reach) \/ (toolCall.way = "client" /\ reach # "answered")
     IN  /\ toolCall' = [toolCall EXCEPT !.pc = IF ends THEN "done" ELSE "query",
                                         !.report = IF reach = "down" THEN "lost" ELSE "stored"]
         /\ IF ends THEN Hands(IF Fails(reach) THEN "network_error" ELSE "error")
            ELSE UNCHANGED caller

\* What the network says of the failure: it knows one it holds.
Answers ==
  {[known |-> network.failures > 0, fingerprint |-> TRUE, recommendation |-> recommended] :
     recommended \in {FALSE, network.failures > 0}}

query(reach, answer) ==
  /\ toolCall.pc = "query"
  /\ toolCall' = [toolCall EXCEPT !.pc = "done",
                                  !.decision = IF reach = "answered" THEN answer ELSE UNKNOWN]
  /\ Hands(IF Fails(reach) THEN "network_error" ELSE "error")
  /\ UNCHANGED network

SwitchedOff ==
  /\ toolCall.pc = "report_failure" /\ toolCall.way = "disabled"
  /\ toolCall' = [toolCall EXCEPT !.pc = "done"] /\ Hands("error")
  /\ UNCHANGED network

-----------------------------------------------------------------------------
(* A watched function: its report is queued, or dropped, and it raises     *)
(* what it raised, with a line of advice if that is switched on.           *)

record_failure(queued, advise) ==
  /\ toolCall.pc = "report_failure" /\ toolCall.way = "watch"
  /\ Stores("failures", IF queued THEN "answered" ELSE "down")
  /\ toolCall' = [toolCall EXCEPT !.pc = IF advise THEN "advice" ELSE "done",
                                  !.report = IF queued THEN "stored" ELSE "lost"]
  /\ IF advise THEN UNCHANGED caller ELSE Hands("error")

\* The team's recommendation, or else what its agents tried.
_team_line(team, tried_only) ==
  IF team.action # "none" /\ ~tried_only
  THEN Line("team", IF team.action = "skip" THEN "skip" ELSE "try", {})
  ELSE IF team.tried /\ tried_only THEN Line("team", "tried", {}) ELSE NoLine

advice_text(answer) ==
  CASE answer.action = "skip"         -> Line("network", "skip", {})
    [] answer.action = "fix"          -> Line("network", "try", answer.marks)
    [] OTHER ->
         LET team == _team_line(answer.team, FALSE)
         IN  IF team # NoLine THEN team
             ELSE IF answer.tried THEN Line("network", "tried", {})
             ELSE IF answer.pooled THEN Line("network", "tried", {"pooled"})
             ELSE _team_line(answer.team, TRUE)

\* An answer that cannot be had is none.
_attach_advice(answer) ==
  /\ toolCall.pc = "advice"
  /\ toolCall' = [toolCall EXCEPT !.pc = "done", !.answer = answer]
  /\ caller' = [n |-> toolCall.n, got |-> "error", line |-> advice_text(answer)]
  /\ UNCHANGED network

-----------------------------------------------------------------------------
(* The agent's side.                                                       *)

\* By what was recommended, or by its own playbook; the toolset's caller is only
\* handed the tool's error.
TriesAgain ==
  /\ toolCall.pc = "done" /\ caller.got = "error"
  /\ ~toolCall.retry /\ toolCall.way # "toolset" /\ toolCall.n < MaxToolCalls
  /\ toolCall' = [NoToolCall EXCEPT !.pc = "calling", !.way = toolCall.way, !.n = toolCall.n + 1,
                                    !.retry = toolCall.decision.fingerprint]
  /\ UNCHANGED <<network, caller>>

\* An outcome without a fingerprint is refused.
report_recovery(reach) ==
  /\ toolCall.pc = "done" /\ toolCall.retry /\ caller.got \in {"result", "error"}
  /\ Stores("recoveries", reach)
  /\ IF Fails(reach) THEN Hands("network_error") ELSE UNCHANGED caller
  /\ toolCall' = [toolCall EXCEPT !.retry = FALSE]

AgentMovesOn ==
  /\ toolCall.pc = "done" /\ (~toolCall.retry \/ caller.got = "network_error")
  /\ toolCall' = [NoToolCall EXCEPT !.n = toolCall.n]
  /\ UNCHANGED <<network, caller>>

ClientNext ==
  \/ \E way \in Ways : CallsTool(way)
  \/ \E failed \in BOOLEAN : observe_tool_call(failed)
  \/ \E reach \in Reach, sampled \in BOOLEAN : report_success(reach, sampled)
  \/ \E reach \in Reach : report_failure(reach) \/ report_recovery(reach)
  \/ \E reach \in Reach, answer \in Answers : query(reach, answer)
  \/ \E queued, advise \in BOOLEAN : record_failure(queued, advise)
  \/ toolCall.pc = "advice" /\ \E answer \in NetworkAnswers : _attach_advice(answer)
  \/ SwitchedOff \/ TriesAgain \/ AgentMovesOn

-----------------------------------------------------------------------------
(* Properties.                                                             *)

(* Whatever becomes of its reports, a call ends for the agent as it ended  *)
(* for the tool; only a client that says it raises gives it the network's  *)
(* trouble instead.                                                        *)
CallerUndisturbed ==
  toolCall.pc = "done" =>
    /\ caller.n = toolCall.n
    /\ caller.got \in {IF toolCall.failed THEN "error" ELSE "result", "network_error"}
    /\ caller.got = "network_error" => toolCall.way \in {"auto", "hard_client"}

(* The line put on an exception says what the answer says, and whose       *)
(* experience it is: the network's advice before the team's, with all its  *)
(* qualifications, and advice before what was only tried; silence only if  *)
(* nobody has tried anything; "skip" only if that was somebody's verdict.  *)
AdviceHonest ==
  toolCall.pc = "done" /\ toolCall.way = "watch" /\ caller.n = toolCall.n =>
    LET a == toolCall.answer
        line == caller.line
        advised(x) == x.action # "none"
    IN  /\ line # NoLine => caller.got = "error"
        /\ line = NoLine <=> ~advised(a) /\ ~advised(a.team) /\ ~a.tried /\ ~a.pooled /\ ~a.team.tried
        /\ line.whose = "team" => ~advised(a) /\ (advised(a.team) \/ ~(a.tried \/ a.pooled))
        /\ line.whose = "network" => advised(a) \/ ~advised(a.team)
        /\ line.says = "tried" => ~advised(a) /\ ~advised(a.team)
        /\ line.says = "skip" => "skip" = (IF line.whose = "network" THEN a ELSE a.team).action
        /\ line.says = "try" /\ line.whose = "network" => line.marks = a.marks
        /\ line.says = "tried" /\ line.whose = "network" /\ ~a.tried => "pooled" \in line.marks

(* An agent gets what its tool gave, and with it what the network says.    *)
CallerServed == CallerUndisturbed /\ AdviceHonest
=============================================================================
