---------------------------- MODULE AdapterProofs ----------------------------
(***************************************************************************)
(* The adapters on the agent's machine, for any sessions, tools, classes   *)
(* of failure and pages, and however many hooks run abreast.               *)
(*                                                                         *)
(* The three that see only how calls end share a history: the pairs of a   *)
(* call and a failure that their rule makes a recovery are pairs of the    *)
(* same shape in the right order, what they were told the network knows,   *)
(* and what they sent is among the pairs.  Each of them adds an invariant  *)
(* about where it keeps the failures it may still credit: the hook in a    *)
(* file and in the memory of the hooks that loaded it, the plugin in a map *)
(* and in the calls that wait for a report, the proxy in a map and on its  *)
(* chain of requests, which ends them in the order of the calls.           *)
(***************************************************************************)
EXTENDS AdapterKinds, FiniteSetTheorems, SequenceTheorems, TLAPS

-----------------------------------------------------------------------------
(* The watched page.                                                       *)

\* What a step sends of a page that speaks of the account.
LEMMA HandledIs ==
  ASSUME NEW op, NEW page, NEW words \in Words, NEW answer, _handle(op, page, words, answer)
  PROVE  /\ step'.op = op /\ step'.page = page /\ step'.raised = words
         /\ "account" \in Text(page) => step'.sent = "nothing" /\ step'.advice = "none"
  <1>1. CASE "account" \in Text(page)
    <2>1. classify_exception(page, words) \in ACCOUNT_SIDE
      BY <1>1 DEF classify_exception, ACCOUNT_SIDE
    <2>2. step' = [op |-> op, page |-> page, raised |-> words, sent |-> "nothing", advice |-> "none"]
      BY <2>1 DEF _handle, Drops, Takes
    <2> QED
      BY <2>2
  <1>2. CASE "account" \notin Text(page)
    <2>1. step'.op = op /\ step'.page = page /\ step'.raised = words
      BY DEF _handle, Drops, Reports, Takes
    <2> QED
      BY <1>2, <2>1
  <1> QED
    BY <1>1, <1>2

LEMMA SucceededIs ==
  ASSUME NEW op, NEW page \in Pages, NEW answer, _succeeded(op, page, answer),
         "account" \in Text(page), op \in SENSITIVE_STEPS, page.status < 400
  PROVE  step'.sent = "nothing" /\ step'.advice = "none"
  <1>1. ~(page.status >= 400)
    <2>1. page.status \in Statuses
      BY DEF Pages
    <2>2. page.status \in Nat
      BY <2>1, PageAssumption
    <2> QED
      BY <2>2
  <1>2. classify_exception(page, "other") \in ACCOUNT_SIDE
    BY DEF classify_exception, ACCOUNT_SIDE
  <1>3. step' = [op |-> op, page |-> page, raised |-> "nothing", sent |-> "nothing", advice |-> "none"]
    BY <1>1, <1>2 DEF _succeeded, Drops, Takes
  <1> QED
    BY <1>3

LEMMA ReturnedIs ==
  ASSUME NEW op, NEW page, NEW answer, _succeeded(op, page, answer)
  PROVE  step'.op = op /\ step'.page = page /\ step'.raised = "nothing"
  BY DEF _succeeded, _silent_failure, Drops, Reports, Takes

\* Of a page that speaks of the account's own trouble nothing is sent (classify_exception
\* looks at the account before the overlay, and _succeeded reads a page at the till).
THEOREM AccountIsKept ==
  Spec => []AccountStaysHome
  <1>1. Init => AccountStaysHome
    BY DEF Init, PageInit, AccountStaysHome
  <1>2. AccountStaysHome /\ [Next]_vars => AccountStaysHome'
    <2> SUFFICES ASSUME AccountStaysHome, [Next]_vars, step' # NoStep
                 PROVE  LET silent == step'.raised = "nothing"
                        IN  /\ "account" \in Text(step'.page)
                            /\ silent => step'.op \in SENSITIVE_STEPS /\ step'.page.status < 400
                            => step'.sent = "nothing" /\ step'.advice = "none"
      BY DEF AccountStaysHome
    <2>1. CASE step' = step
      BY <2>1 DEF AccountStaysHome
    <2>2. CASE PageNext
      <3>1. PICK op \in Steps, page \in Pages, answer \in NetworkActions \cup {"none"} :
              \/ \E words \in Words : _handle(op, page, words, answer)
              \/ _succeeded(op, page, answer)
        BY <2>2 DEF PageNext, AgentGoesOn
      <3>2. CASE \E words \in Words : _handle(op, page, words, answer)
        BY <3>2, HandledIs
      <3>3. CASE _succeeded(op, page, answer)
        BY <3>3, SucceededIs, ReturnedIs
      <3> QED
        BY <3>1, <3>2, <3>3
    <2> QED
      BY <2>1, <2>2 DEF Next, ToolAdapter, Caller, callerVars, pageVars, vars
  <1> QED
    BY <1>1, <1>2, PTL DEF Spec

-----------------------------------------------------------------------------
(* The older clients.                                                      *)

\* The line says what the answer says.
Says(line, a) ==
  LET advised(x) == x.action # "none"
  IN  /\ line = NoLine <=> ~advised(a) /\ ~advised(a.team) /\ ~a.tried /\ ~a.pooled /\ ~a.team.tried
      /\ line.whose = "team" => ~advised(a) /\ (advised(a.team) \/ ~(a.tried \/ a.pooled))
      /\ line.whose = "network" => advised(a) \/ ~advised(a.team)
      /\ line.says = "tried" => ~advised(a) /\ ~advised(a.team)
      /\ line.says = "skip" => "skip" = (IF line.whose = "network" THEN a ELSE a.team).action
      /\ line.says = "try" /\ line.whose = "network" => line.marks = a.marks
      /\ line.says = "tried" /\ line.whose = "network" /\ ~a.tried => "pooled" \in line.marks

LEMMA AdviceSays ==
  ASSUME NEW a \in NetworkAnswers
  PROVE  Says(advice_text(a), a)
  <1>1. /\ a.action \in {"none", "skip", "fix"} /\ a.team.action \in {"none", "skip", "fix"}
        /\ a.tried \in BOOLEAN /\ a.pooled \in BOOLEAN /\ a.team.tried \in BOOLEAN
    BY DEF NetworkAnswers
  <1>2. \A whose, says, marks :
          /\ Line(whose, says, marks).whose = whose
          /\ Line(whose, says, marks).says = says
          /\ Line(whose, says, marks).marks = marks
          /\ Line(whose, says, marks) = NoLine =>
               whose = "nobody" /\ says = "nothing" /\ marks = {}
    BY DEF Line, NoLine
  <1>3. NoLine.whose = "nobody" /\ NoLine.says = "nothing" /\ NoLine.marks = {}
    BY DEF Line, NoLine
  <1>4. CASE a.action = "skip"
    BY <1>1, <1>2, <1>3, <1>4 DEF advice_text, Says
  <1>5. CASE a.action = "fix"
    BY <1>1, <1>2, <1>3, <1>5 DEF advice_text, Says
  <1>6. CASE a.action = "none" /\ a.team.action # "none"
    BY <1>1, <1>2, <1>3, <1>6 DEF advice_text, _team_line, Says
  <1>7. CASE a.action = "none" /\ a.team.action = "none" /\ (a.tried \/ a.pooled)
    BY <1>1, <1>2, <1>3, <1>7 DEF advice_text, _team_line, Says
  <1>8. CASE a.action = "none" /\ a.team.action = "none" /\ ~a.tried /\ ~a.pooled
    BY <1>1, <1>2, <1>3, <1>8 DEF advice_text, _team_line, Says
  <1> QED
    BY <1>1, <1>4, <1>5, <1>6, <1>7, <1>8

ToolCalls ==
  [pc : {"idle", "calling", "report_success", "report_failure", "query", "advice", "done"},
   way : Ways \cup {"failecho"}, n : Nat, failed : BOOLEAN,
   report : {"untried", "lost", "stored"}, decision : {UNKNOWN} \cup
     [known : BOOLEAN, fingerprint : BOOLEAN, recommendation : BOOLEAN],
   retry : BOOLEAN, answer : NetworkAnswers]

\* What is reported of a call is how it ended, and an answer is only had at its end.
ServedInv ==
  /\ toolCall \in ToolCalls
  /\ toolCall.pc = "report_success" => ~toolCall.failed
  /\ toolCall.pc \in {"report_failure", "query", "advice"} => toolCall.failed
  /\ toolCall.pc = "query" => toolCall.way # "watch"
  /\ toolCall.pc = "advice" => toolCall.way = "watch"
  /\ toolCall.pc # "done" \/ toolCall.way # "watch" => toolCall.answer = NoAnswer
  /\ CallerUndisturbed
  /\ toolCall.pc = "done" /\ caller.line # NoLine => caller.got = "error"
  /\ toolCall.pc = "done" /\ toolCall.way = "watch" => Says(caller.line, toolCall.answer)

LEMMA NoAnswerIs ==
  NoAnswer \in NetworkAnswers /\ Says(NoLine, NoAnswer)
  <1>1. NoAnswer \in NetworkAnswers
    BY DEF NoAnswer, NetworkAnswers
  <1>2. /\ NoAnswer.action = "none" /\ NoAnswer.team.action = "none" /\ NoAnswer.tried = FALSE
        /\ NoAnswer.pooled = FALSE /\ NoAnswer.team.tried = FALSE
    BY DEF NoAnswer
  <1>3. advice_text(NoAnswer) = NoLine
    BY <1>2 DEF advice_text, _team_line
  <1> QED
    BY <1>1, <1>3, AdviceSays

LEMMA NoToolCallIs ==
  /\ NoToolCall \in ToolCalls /\ NoToolCall.pc = "idle" /\ NoToolCall.answer = NoAnswer
  /\ UNKNOWN \in [known : BOOLEAN, fingerprint : BOOLEAN, recommendation : BOOLEAN]
  BY NoAnswerIs DEF NoToolCall, ToolCalls, UNKNOWN

\* A call that has not ended yet.
LEMMA UnderWay ==
  ASSUME toolCall' \in ToolCalls, toolCall'.pc \in {"idle", "calling", "report_success",
                                                    "report_failure", "query", "advice"},
         toolCall'.answer = NoAnswer,
         toolCall'.pc = "report_success" => ~toolCall'.failed,
         toolCall'.pc \in {"report_failure", "query", "advice"} => toolCall'.failed,
         toolCall'.pc = "query" => toolCall'.way # "watch",
         toolCall'.pc = "advice" => toolCall'.way = "watch"
  PROVE  ServedInv'
  BY DEF ServedInv, CallerUndisturbed

\* A call that ends without a line.
LEMMA EndsServed ==
  ASSUME ServedInv, NEW got, Hands(got), toolCall' \in ToolCalls, toolCall'.pc = "done",
         toolCall'.n = toolCall.n, toolCall'.way = toolCall.way, toolCall'.answer = NoAnswer,
         toolCall'.failed = toolCall.failed,
         \/ got = IF toolCall.failed THEN "error" ELSE "result"
         \/ got = "network_error" /\ toolCall.way \in {"auto", "hard_client"}
  PROVE  ServedInv'
  <1>1. caller'.n = toolCall.n /\ caller'.got = got /\ caller'.line = NoLine
    BY DEF Hands
  <1>2. CallerUndisturbed'
    BY <1>1 DEF CallerUndisturbed
  <1> QED
    BY <1>1, <1>2, NoAnswerIs DEF ServedInv

LEMMA ServedStep ==
  ASSUME ServedInv, [ClientNext]_clientVars
  PROVE  ServedInv'
  <1>1. /\ toolCall \in ToolCalls /\ toolCall.n \in Nat /\ toolCall.failed \in BOOLEAN
        /\ toolCall.retry \in BOOLEAN
    BY DEF ServedInv, ToolCalls
  <1>2. CASE UNCHANGED clientVars
    BY <1>2 DEF ServedInv, CallerUndisturbed, clientVars
  <1>3. ASSUME NEW way \in Ways, CallsTool(way) PROVE ServedInv'
    <2>1. /\ toolCall' = [toolCall EXCEPT !.pc = "calling", !.way = way, !.n = @ + 1]
          /\ toolCall.answer = NoAnswer
      BY <1>3 DEF CallsTool, ServedInv
    <2>2. toolCall.n + 1 \in Nat /\ way \in Ways \cup {"failecho"}
      BY <1>1
    <2>3. PICK m \in Nat : m = toolCall.n + 1
      BY <2>2
    <2>4. toolCall' = [toolCall EXCEPT !.pc = "calling", !.way = way, !.n = m]
      BY <1>1, <2>1, <2>3 DEF ToolCalls
    <2>5. /\ toolCall' \in ToolCalls /\ toolCall'.pc = "calling" /\ toolCall'.answer = NoAnswer
      BY <1>1, <2>1, <2>2, <2>4 DEF ToolCalls
    <2> QED
      BY <2>5, UnderWay
  <1>4. ASSUME NEW failed \in BOOLEAN, observe_tool_call(failed) PROVE ServedInv'
    <2>1. /\ toolCall' = [toolCall EXCEPT !.failed = failed,
                            !.pc = IF failed THEN "report_failure" ELSE "report_success"]
          /\ toolCall.answer = NoAnswer
      BY <1>4 DEF observe_tool_call, ServedInv
    <2>2. /\ toolCall' \in ToolCalls /\ toolCall'.failed = failed /\ toolCall'.answer = NoAnswer
          /\ toolCall'.pc = IF failed THEN "report_failure" ELSE "report_success"
      BY <1>1, <2>1 DEF ToolCalls
    <2> QED
      BY <2>2, UnderWay
  <1>5. ASSUME NEW reach \in Reach, NEW sampled \in BOOLEAN, report_success(reach, sampled)
        PROVE  ServedInv'
    <2>1. /\ toolCall.pc = "report_success" /\ toolCall' = [toolCall EXCEPT !.pc = "done"]
          /\ toolCall.answer = NoAnswer /\ ~toolCall.failed
      BY <1>5 DEF report_success, ServedInv
    <2>2. Hands("result") \/ (Hands("network_error") /\ toolCall.way \in {"auto", "hard_client"})
      BY <1>5 DEF report_success, Fails, Raises
    <2>3. /\ toolCall' \in ToolCalls /\ toolCall'.pc = "done" /\ toolCall'.n = toolCall.n
          /\ toolCall'.way = toolCall.way /\ toolCall'.answer = NoAnswer
          /\ toolCall'.failed = toolCall.failed
      BY <1>1, <2>1 DEF ToolCalls
    <2> QED
      BY <2>1, <2>2, <2>3, EndsServed
  <1>6. ASSUME NEW reach \in Reach, report_failure(reach) PROVE ServedInv'
    <2> DEFINE ends == Fails(reach) \/ (toolCall.way = "client" /\ reach # "answered")
    <2>1. /\ toolCall.pc = "report_failure" /\ toolCall.way # "watch" /\ toolCall.failed
          /\ toolCall' = [toolCall EXCEPT !.pc = IF ends THEN "done" ELSE "query",
                                          !.report = IF reach = "down" THEN "lost" ELSE "stored"]
          /\ toolCall.answer = NoAnswer
      BY <1>6 DEF report_failure, ServedInv
    <2>2. /\ toolCall' \in ToolCalls /\ toolCall'.n = toolCall.n
          /\ toolCall'.pc = IF ends THEN "done" ELSE "query"
          /\ toolCall'.way = toolCall.way /\ toolCall'.answer = NoAnswer
          /\ toolCall'.failed = toolCall.failed
      BY <1>1, <2>1 DEF ToolCalls
    <2>3. CASE ends
      <3>1. Hands("error") \/ (Hands("network_error") /\ toolCall.way \in {"auto", "hard_client"})
        BY <1>6, <2>3 DEF report_failure, Fails, Raises
      <3> QED
        BY <2>1, <2>2, <2>3, <3>1, EndsServed
    <2>4. CASE ~ends
      BY <2>1, <2>2, <2>4, UnderWay
    <2> QED
      BY <2>3, <2>4
  <1>7. ASSUME NEW reach \in Reach, NEW answer \in Answers, query(reach, answer) PROVE ServedInv'
    <2>1. /\ toolCall.pc = "query" /\ toolCall.failed /\ toolCall.answer = NoAnswer
          /\ toolCall' = [toolCall EXCEPT !.pc = "done",
                            !.decision = IF reach = "answered" THEN answer ELSE UNKNOWN]
      BY <1>7 DEF query, ServedInv
    <2>2. Hands("error") \/ (Hands("network_error") /\ toolCall.way \in {"auto", "hard_client"})
      BY <1>7 DEF query, Fails, Raises
    <2>3. answer \in [known : BOOLEAN, fingerprint : BOOLEAN, recommendation : BOOLEAN]
      <3>1. (network.failures > 0) \in BOOLEAN
        OBVIOUS
      <3>2. PICK held \in BOOLEAN : held = (network.failures > 0)
        BY <3>1
      <3>3. PICK recommended \in {FALSE, held} :
              answer = [known |-> held, fingerprint |-> TRUE, recommendation |-> recommended]
        BY <3>2 DEF Answers
      <3> QED
        BY <3>3
    <2>4. /\ toolCall' \in ToolCalls /\ toolCall'.pc = "done" /\ toolCall'.n = toolCall.n
          /\ toolCall'.way = toolCall.way /\ toolCall'.answer = NoAnswer
          /\ toolCall'.failed = toolCall.failed
      BY <1>1, <2>1, <2>3 DEF ToolCalls
    <2> QED
      BY <2>1, <2>2, <2>4, EndsServed
  <1>8. ASSUME NEW queued \in BOOLEAN, NEW advise \in BOOLEAN, record_failure(queued, advise)
        PROVE  ServedInv'
    <2>1. /\ toolCall.pc = "report_failure" /\ toolCall.failed /\ toolCall.answer = NoAnswer
          /\ toolCall' = [toolCall EXCEPT !.pc = IF advise THEN "advice" ELSE "done",
                                          !.report = IF queued THEN "stored" ELSE "lost"]
          /\ ~advise => Hands("error")
          /\ toolCall.way = "watch"
      BY <1>8 DEF record_failure, ServedInv
    <2>2. /\ toolCall' \in ToolCalls /\ toolCall'.n = toolCall.n
          /\ toolCall'.pc = IF advise THEN "advice" ELSE "done"
          /\ toolCall'.way = toolCall.way /\ toolCall'.answer = NoAnswer
          /\ toolCall'.failed = toolCall.failed
      BY <1>1, <2>1 DEF ToolCalls
    <2>3. CASE advise
      BY <2>1, <2>2, <2>3, UnderWay
    <2>4. CASE ~advise
      BY <2>1, <2>2, <2>4, EndsServed
    <2> QED
      BY <2>3, <2>4
  <1>9. ASSUME toolCall.pc = "advice", NEW answer \in NetworkAnswers, _attach_advice(answer)
        PROVE  ServedInv'
    <2>1. /\ toolCall.failed /\ toolCall' = [toolCall EXCEPT !.pc = "done", !.answer = answer]
          /\ caller' = [n |-> toolCall.n, got |-> "error", line |-> advice_text(answer)]
      BY <1>9 DEF _attach_advice, ServedInv
    <2>2. /\ toolCall' \in ToolCalls /\ toolCall'.n = toolCall.n /\ toolCall'.pc = "done"
          /\ toolCall'.way = toolCall.way /\ toolCall'.answer = answer
          /\ toolCall'.failed = toolCall.failed
      BY <1>1, <2>1 DEF ToolCalls
    <2>3. caller'.n = toolCall.n /\ caller'.got = "error" /\ caller'.line = advice_text(answer)
      BY <2>1
    <2>4. Says(advice_text(answer), answer)
      BY AdviceSays
    <2>5. toolCall.way = "watch"
      BY <1>9 DEF ServedInv
    <2> QED
      BY <2>1, <2>2, <2>3, <2>4, <2>5 DEF ServedInv, CallerUndisturbed
  <1>10. ASSUME SwitchedOff PROVE ServedInv'
    <2>1. /\ toolCall.failed /\ toolCall' = [toolCall EXCEPT !.pc = "done"] /\ Hands("error")
          /\ toolCall.answer = NoAnswer
      BY <1>10 DEF SwitchedOff, ServedInv
    <2>2. /\ toolCall' \in ToolCalls /\ toolCall'.pc = "done" /\ toolCall'.n = toolCall.n
          /\ toolCall'.way = toolCall.way /\ toolCall'.answer = NoAnswer
          /\ toolCall'.failed = toolCall.failed
      BY <1>1, <2>1 DEF ToolCalls
    <2> QED
      BY <2>1, <2>2, EndsServed
  <1>11. ASSUME TriesAgain PROVE ServedInv'
    <2>1. toolCall' = [NoToolCall EXCEPT !.pc = "calling", !.way = toolCall.way,
                         !.n = toolCall.n + 1, !.retry = toolCall.decision.fingerprint]
      BY <1>11 DEF TriesAgain
    <2>2. toolCall.decision.fingerprint \in BOOLEAN
      BY <1>1, NoToolCallIs DEF ToolCalls
    <2> DEFINE next == [pc |-> "calling", way |-> toolCall.way, n |-> toolCall.n + 1,
                        failed |-> FALSE, report |-> "untried", decision |-> UNKNOWN,
                        retry |-> toolCall.decision.fingerprint, answer |-> NoAnswer]
    <2>4. toolCall' = next
      BY <2>1 DEF NoToolCall
    <2>5. toolCall.n + 1 \in Nat /\ toolCall.way \in Ways \cup {"failecho"}
      BY <1>1 DEF ToolCalls
    <2>6. next \in ToolCalls
      BY <2>2, <2>5, NoAnswerIs DEF ToolCalls
    <2>3. toolCall' \in ToolCalls /\ toolCall'.pc = "calling" /\ toolCall'.answer = NoAnswer
      BY <2>4, <2>6
    <2> QED
      BY <2>3, UnderWay
  <1>12. ASSUME NEW reach \in Reach, report_recovery(reach) PROVE ServedInv'
    <2>1. toolCall.pc = "done" /\ toolCall' = [toolCall EXCEPT !.retry = FALSE]
      BY <1>12 DEF report_recovery
    <2>2. /\ toolCall' \in ToolCalls /\ toolCall'.pc = "done" /\ toolCall'.n = toolCall.n
          /\ toolCall'.way = toolCall.way /\ toolCall'.answer = toolCall.answer
          /\ toolCall'.failed = toolCall.failed
      BY <1>1, <2>1 DEF ToolCalls
    <2>3. CASE Fails(reach)
      <3>1. Hands("network_error") /\ toolCall.way \in {"auto", "hard_client"}
        BY <1>12, <2>3 DEF report_recovery, Fails, Raises
      <3>2. toolCall.answer = NoAnswer
        BY <3>1 DEF ServedInv
      <3> QED
        BY <2>2, <3>1, <3>2, EndsServed
    <2>4. CASE caller' = caller
      BY <2>1, <2>2, <2>4 DEF ServedInv, CallerUndisturbed
    <2> QED
      BY <1>12, <2>3, <2>4 DEF report_recovery
  <1>13. ASSUME AgentMovesOn PROVE ServedInv'
    <2>1. toolCall' = [NoToolCall EXCEPT !.n = toolCall.n]
      BY <1>13 DEF AgentMovesOn
    <2>2. toolCall' \in ToolCalls /\ toolCall'.pc = "idle" /\ toolCall'.answer = NoAnswer
      BY <1>1, <2>1, NoToolCallIs DEF ToolCalls
    <2> QED
      BY <2>2, UnderWay
  <1> QED
    BY <1>2, <1>3, <1>4, <1>5, <1>6, <1>7, <1>8, <1>9, <1>10, <1>11, <1>12, <1>13 DEF ClientNext

\* A call ends for the agent as it did for the tool, whatever becomes of its reports,
\* and the line on an exception says what the answer says (advice_text).
THEOREM CallersAreServed ==
  Spec => []CallerServed
  <1>1. Init => ServedInv
    <2> SUFFICES ASSUME ClientInit PROVE ServedInv
      BY DEF Init
    <2>1. toolCall = NoToolCall
      BY DEF ClientInit
    <2> QED
      BY <2>1, NoToolCallIs DEF ServedInv, CallerUndisturbed
  <1>2. ServedInv /\ [Next]_vars => ServedInv'
    <2> SUFFICES ASSUME ServedInv, [Next]_vars PROVE ServedInv'
      OBVIOUS
    <2>1. [ClientNext]_clientVars
      BY DEF Next, ToolAdapter, Caller, callerVars, clientVars, vars
    <2> QED
      BY <2>1, ServedStep
  <1>3. ServedInv => CallerServed
    BY DEF ServedInv, CallerServed, AdviceHonest, Says
  <1> QED
    BY <1>1, <1>2, <1>3, PTL DEF Spec

-----------------------------------------------------------------------------
(* The three adapters: what their history says, whichever of them it is.   *)

\* The calls that have ended, and what is on record of them.
Past == 1 .. Len(ended)

KindShapes == IF kind = "npm" THEN ProcessShapes ELSE Shapes

Entries == [shape : KindShapes, verdict : Failures \cup {"ok"}]

EndedTyped == ended \in Seq(Entries) /\ Len(ended) <= MaxCalls

\* Call c may be another try of f.
Repeats(c, f) ==
  /\ Verdict(f) \in Failures /\ c # f
  /\ Shape(f).session = Shape(c).session /\ Shape(f).tool = Shape(c).tool

PairsEarned ==
  /\ earned \subseteq Past \X Past /\ sent \subseteq earned
  /\ \A c, f \in Past : <<c, f>> \in earned => Repeats(c, f)

ToldKnown == \A f \in told : f \in Past /\ Verdict(f) \in Failures /\ Fingerprint(f) \in known

\* The proxy may have sent another fingerprint of the tool for a failure that it
\* will not be told of any more.
IsSent(o) ==
  /\ <<o.call, o.failure>> \in sent
  /\ o.fingerprint \in known /\ o.fingerprint[1] = Shape(o.failure).tool
  /\ o.fingerprint = Fingerprint(o.failure) \/ (kind = "npm" /\ o.failure \notin told)

OutcomesSent == \A o \in outcomes : IsSent(o)

\* Where one process sees all calls, a failure is taken up once.
OutcomesSingle ==
  kind # "claude" => \A o, p \in outcomes : o.failure = p.failure => o = p

EarnedSingle ==
  kind # "claude" => \A c, d, f \in Past : <<c, f>> \in earned /\ <<d, f>> \in earned => c = d

History ==
  EndedTyped /\ PairsEarned /\ ToldKnown /\ OutcomesSent /\ OutcomesSingle /\ EarnedSingle

LEMMA HistoryMeans ==
  ASSUME History
  PROVE  OutcomesEarned /\ (kind # "claude" => \A f \in Calls : Cardinality(Credited(f)) <= 1)
  <1>1. ASSUME NEW o \in outcomes
        PROVE  /\ <<o.call, o.failure>> \in earned /\ Verdict(o.failure) \in Failures
               /\ Shape(o.failure).session = Shape(o.call).session
               /\ Shape(o.failure).tool = Shape(o.call).tool
               /\ o.failure \in told => o.fingerprint = Fingerprint(o.failure)
               /\ o.fingerprint[1] = Shape(o.failure).tool
               /\ o.fingerprint \in known
    <2>1. /\ <<o.call, o.failure>> \in sent /\ o.fingerprint \in known
          /\ o.fingerprint[1] = Shape(o.failure).tool
          /\ o.failure \in told => o.fingerprint = Fingerprint(o.failure)
      BY DEF History, OutcomesSent, IsSent
    <2>2. <<o.call, o.failure>> \in earned /\ o.call \in Past /\ o.failure \in Past
      BY <2>1 DEF History, PairsEarned
    <2>3. Repeats(o.call, o.failure)
      BY <2>2 DEF History, PairsEarned
    <2> QED
      BY <2>1, <2>2, <2>3 DEF Repeats
  <1>2. ASSUME kind # "claude", NEW f \in Calls
        PROVE  Cardinality(Credited(f)) <= 1
    <2>1. \A o, p \in Credited(f) : o = p
      BY <1>2 DEF History, OutcomesSingle, Credited
    <2>2. CASE Credited(f) = {}
      BY <2>2, FS_EmptySet
    <2>3. CASE Credited(f) # {}
      <3>1. PICK o : Credited(f) = {o}
        BY <2>1, <2>3
      <3>2. Cardinality({o}) = 1
        BY FS_Singleton
      <3> QED
        BY <3>1, <3>2
    <2> QED
      BY <2>2, <2>3
  <1> QED
    BY <1>1, <1>2 DEF OutcomesEarned

\* A call ends: what was on record stays.
LEMMA EndsIs ==
  ASSUME EndedTyped, NEW c, NEW s \in KindShapes, NEW v \in Failures \cup {"ok"}, Ends(c, s, v)
  PROVE  /\ c = Len(ended) + 1 /\ Len(ended) \in Nat /\ c \in Calls /\ c \in Nat
         /\ c \notin Past /\ Past' = Past \cup {c} /\ kind' = kind
         /\ ended'[c].shape = s /\ ended'[c].verdict = v
         /\ \A d \in Past : ended'[d] = ended[d] /\ d < c
         /\ EndedTyped'
  <1>1. c = Len(ended) + 1 /\ c \in Calls /\ kind' = kind
        /\ ended' = Append(ended, [shape |-> s, verdict |-> v])
    BY DEF Ends
  <1>2. ended \in Seq(Entries) /\ [shape |-> s, verdict |-> v] \in Entries
    BY DEF EndedTyped, Entries
  <1>3. /\ Len(ended) \in Nat /\ ended' \in Seq(Entries) /\ Len(ended') = Len(ended) + 1
        /\ ended'[c] = [shape |-> s, verdict |-> v]
        /\ \A d \in 1 .. Len(ended) : ended'[d] = ended[d]
    BY <1>1, <1>2, AppendProperties, LenProperties
  <1>4. Entries' = Entries
    BY <1>1 DEF Entries, KindShapes
  <1>5. Len(ended') <= MaxCalls
    BY <1>1, <1>3, CallsAssumption DEF Calls
  <1>6. /\ c \notin Past /\ Past' = Past \cup {c} /\ \A d \in Past : d < c
    BY <1>1, <1>3 DEF Past
  <1> QED
    BY <1>1, <1>3, <1>4, <1>5, <1>6 DEF EndedTyped, Past

LEMMA EndsKeeps ==
  ASSUME History, NEW c, NEW s \in KindShapes, NEW v \in Failures \cup {"ok"}, Ends(c, s, v),
         UNCHANGED <<known, outcomes, told, sent>>,
         \/ earned' = earned
         \/ \E f \in Past : /\ earned' = earned \cup {<<c, f>>} /\ Verdict(f) \in Failures
                            /\ Shape(f).session = s.session /\ Shape(f).tool = s.tool
                            /\ kind # "claude" => \A d \in Past : <<d, f>> \notin earned
  PROVE  History'
  <1>1. /\ c \notin Past /\ Past' = Past \cup {c} /\ kind' = kind
        /\ ended'[c].shape = s /\ \A d \in Past : ended'[d] = ended[d]
        /\ EndedTyped'
    BY EndsIs DEF History
  <1>2. PairsEarned'
    <2>1. earned' \subseteq Past' \X Past' /\ sent' \subseteq earned'
      BY <1>1 DEF History, PairsEarned
    <2>2. ASSUME NEW d \in Past', NEW g \in Past', <<d, g>> \in earned'
          PROVE  Repeats(d, g)'
      <3>1. CASE <<d, g>> \in earned
        <4>1. d \in Past /\ g \in Past /\ Repeats(d, g)
          BY <3>1 DEF History, PairsEarned
        <4> QED
          BY <1>1, <4>1 DEF Repeats, Verdict, Shape
      <3>2. CASE <<d, g>> \notin earned
        <4>1. /\ d = c /\ g \in Past /\ Verdict(g) \in Failures
              /\ Shape(g).session = s.session /\ Shape(g).tool = s.tool
          BY <2>2, <3>2
        <4> QED
          BY <1>1, <4>1 DEF Repeats, Verdict, Shape
      <3> QED
        BY <3>1, <3>2
    <2> QED
      BY <2>1, <2>2 DEF PairsEarned
  <1>3. ToldKnown'
    BY <1>1 DEF History, ToldKnown, Verdict, Shape, Fingerprint, FingerprintIf
  <1>4. OutcomesSent'
    <2> SUFFICES ASSUME NEW o \in outcomes
                 PROVE  IsSent(o)'
      BY DEF OutcomesSent
    <2>1. /\ <<o.call, o.failure>> \in sent
          /\ o.fingerprint \in known /\ o.fingerprint[1] = Shape(o.failure).tool
          /\ o.fingerprint = Fingerprint(o.failure) \/ (kind = "npm" /\ o.failure \notin told)
      BY DEF History, OutcomesSent, IsSent
    <2>2. o.failure \in Past
      BY <2>1 DEF History, PairsEarned
    <2>3. ended'[o.failure] = ended[o.failure]
      BY <1>1, <2>2
    <2> QED
      BY <1>1, <2>1, <2>3 DEF IsSent, Verdict, Shape, Fingerprint, FingerprintIf
  <1>5. OutcomesSingle'
    BY <1>1 DEF History, OutcomesSingle
  <1>6. EarnedSingle'
    <2> SUFFICES ASSUME kind # "claude", NEW d \in Past', NEW e \in Past', NEW f \in Past',
                        <<d, f>> \in earned', <<e, f>> \in earned'
                 PROVE  d = e
      BY <1>1 DEF EarnedSingle
    <2>1. CASE earned' = earned
      BY <2>1 DEF History, EarnedSingle, PairsEarned
    <2>2. CASE earned' # earned
      <3>1. PICK g \in Past : /\ earned' = earned \cup {<<c, g>>}
                              /\ \A h \in Past : <<h, g>> \notin earned
        BY <2>2
      <3>2. earned \subseteq Past \X Past
        BY DEF History, PairsEarned
      <3>3. CASE f = g
        BY <3>1, <3>2, <3>3
      <3>4. CASE f # g
        BY <3>1, <3>2, <3>4 DEF History, EarnedSingle
      <3> QED
        BY <3>3, <3>4
    <2> QED
      BY <2>1, <2>2
  <1> QED
    BY <1>1, <1>2, <1>3, <1>4, <1>5, <1>6 DEF History

\* A call is taken for another try after it has ended.
LEMMA EarnsKeeps ==
  ASSUME History, UNCHANGED <<agentVars, known, outcomes, told, sent>>,
         \/ earned' = earned
         \/ \E c, f \in Past : /\ earned' = earned \cup {<<c, f>>} /\ Repeats(c, f)
                               /\ kind = "claude"
  PROVE  History'
  <1>1. kind' = kind /\ ended' = ended
    BY DEF agentVars
  <1>2. Past' = Past /\ Entries' = Entries
    BY <1>1 DEF Past, Entries, KindShapes
  <1>3. \A c, f : Repeats(c, f)' <=> Repeats(c, f)
    BY <1>1 DEF Repeats, Verdict, Shape
  <1>4. PairsEarned'
    BY <1>2, <1>3 DEF History, PairsEarned
  <1>5. EndedTyped' /\ ToldKnown' /\ OutcomesSent' /\ OutcomesSingle'
    BY <1>1, <1>2 DEF History, EndedTyped, ToldKnown, OutcomesSent, IsSent, OutcomesSingle, Verdict,
                      Shape, Fingerprint, FingerprintIf
  <1>6. EarnedSingle'
    BY <1>1, <1>2 DEF History, EarnedSingle
  <1> QED
    BY <1>4, <1>5, <1>6 DEF History

\* A report of a failure, whether or not it gets there and is answered.
LEMMA ReportKeeps ==
  ASSUME History, NEW c \in Past, NEW answered, PostReport(c, answered), Verdict(c) \in Failures,
         UNCHANGED <<agentVars, earned, sent>>,
         told' = told \/ (told' = told \cup {c} /\ answered = TRUE),
         kind = "npm" => \A o \in outcomes : o.failure # c
  PROVE  /\ History' /\ known \subseteq known'
         /\ answered = TRUE => Fingerprint(c) \in known'
  <1>1. kind' = kind /\ ended' = ended
    BY DEF agentVars
  <1>2. Past' = Past /\ Entries' = Entries
    BY <1>1 DEF Past, Entries, KindShapes
  <1>3. \A d, f : Repeats(d, f)' <=> Repeats(d, f)
    BY <1>1 DEF Repeats, Verdict, Shape
  <1>4. /\ known \subseteq known' /\ outcomes' = outcomes
        /\ answered = TRUE => Fingerprint(c) \in known'
    BY DEF PostReport
  <1>5. PairsEarned' /\ EndedTyped' /\ OutcomesSingle' /\ EarnedSingle'
    BY <1>1, <1>2, <1>3, <1>4
       DEF History, PairsEarned, EndedTyped, OutcomesSingle, EarnedSingle
  <1>6. ToldKnown'
    BY <1>1, <1>2, <1>4 DEF History, ToldKnown, Verdict, Shape, Fingerprint, FingerprintIf
  <1>7. OutcomesSent'
    <2> SUFFICES ASSUME NEW o \in outcomes
                 PROVE  IsSent(o)'
      BY <1>4 DEF OutcomesSent
    <2>1. IsSent(o)
      BY DEF History, OutcomesSent
    <2> QED
      BY <1>1, <1>4, <2>1 DEF IsSent, Shape, Verdict, Fingerprint, FingerprintIf
  <1> QED
    BY <1>4, <1>5, <1>6, <1>7 DEF History

\* The outcome of a failure whose fingerprint the network has been asked about.
LEMMA OutcomeKeeps ==
  ASSUME History, NEW c, NEW f, <<c, f>> \in earned, NEW fingerprint \in known, NEW answered,
         PostOutcome(c, f, fingerprint, answered), UNCHANGED <<agentVars, told, earned>>,
         sent' = sent \cup {<<c, f>>}, fingerprint[1] = Shape(f).tool,
         fingerprint = Fingerprint(f) \/ (kind = "npm" /\ f \notin told),
         kind # "claude" => <<c, f>> \notin sent
  PROVE  History' /\ known' = known
  <1> DEFINE new == [call |-> c, failure |-> f, fingerprint |-> fingerprint]
  <1>1. kind' = kind /\ ended' = ended
    BY DEF agentVars
  <1>2. Past' = Past /\ Entries' = Entries
    BY <1>1 DEF Past, Entries, KindShapes
  <1>3. \A d, g : Repeats(d, g)' <=> Repeats(d, g)
    BY <1>1 DEF Repeats, Verdict, Shape
  <1>4. known' = known /\ (outcomes' = outcomes \/ outcomes' = outcomes \cup {new})
    BY DEF PostOutcome
  <1>5. PairsEarned' /\ EndedTyped' /\ EarnedSingle' /\ ToldKnown'
    BY <1>1, <1>2, <1>3, <1>4 DEF History, PairsEarned, EndedTyped, EarnedSingle, ToldKnown, Verdict,
                                  Shape, Fingerprint, FingerprintIf
  <1>6. new.call = c /\ new.failure = f /\ new.fingerprint = fingerprint
    OBVIOUS
  <1> HIDE DEF new
  <1>7. OutcomesSent'
    <2> SUFFICES ASSUME NEW o \in outcomes'
                 PROVE  IsSent(o)'
      <3>1. \A o \in outcomes' : IsSent(o)'
        OBVIOUS
      <3> QED
        BY <3>1 DEF OutcomesSent
    <2>1. CASE o \in outcomes
      <3>1. IsSent(o)
        BY <2>1 DEF History, OutcomesSent
      <3> QED
        BY <1>1, <1>4, <3>1 DEF IsSent, Shape, Verdict, Fingerprint, FingerprintIf
    <2>2. CASE o = new
      <3>1. o.call = c /\ o.failure = f /\ o.fingerprint = fingerprint
        BY <1>6, <2>2
      <3> QED
        BY <1>1, <1>4, <3>1 DEF IsSent, Shape, Verdict, Fingerprint, FingerprintIf
    <2> QED
      BY <1>4, <2>1, <2>2
  <1>8. OutcomesSingle'
    <2> SUFFICES ASSUME kind # "claude", NEW o \in outcomes', NEW p \in outcomes',
                        o.failure = p.failure
                 PROVE  o = p
      BY <1>1 DEF OutcomesSingle
    <2>1. \A q \in outcomes : q.failure # f
      <3>1. SUFFICES ASSUME NEW q \in outcomes, q.failure = f
                     PROVE  FALSE
        OBVIOUS
      <3>2. <<q.call, f>> \in sent /\ <<q.call, f>> \in earned
        BY <3>1 DEF History, OutcomesSent, IsSent, PairsEarned
      <3>3. q.call \in Past /\ f \in Past /\ c \in Past
        BY <3>2 DEF History, PairsEarned
      <3>4. q.call = c
        BY <3>2, <3>3 DEF History, EarnedSingle
      <3> QED
        BY <3>2, <3>4
    <2>2. CASE o \in outcomes /\ p \in outcomes
      BY <2>2 DEF History, OutcomesSingle
    <2>3. CASE o = new \/ p = new
      BY <1>4, <1>6, <2>1, <2>3
    <2> QED
      BY <1>4, <2>2, <2>3
  <1> QED
    BY <1>4, <1>5, <1>7, <1>8 DEF History

\* A step that leaves the record alone.
LEMMA HistoryStays ==
  ASSUME History, UNCHANGED <<agentVars, historyVars>>
  PROVE  History'
  BY EarnsKeeps DEF agentVars, historyVars

-----------------------------------------------------------------------------
(* The Claude Code hook.                                                   *)

FailurePCs == {"load", "query", "observe", "retried", "write", "rename"}
SuccessPCs == {"succeeded", "reload", "worked", "clear"}

Hooks == [pc : {"none", "done"} \cup FailurePCs \cup SuccessPCs,
          previous : Calls \cup {None}, down : BOOLEAN]

HooksTyped ==
  /\ hook \in [Calls -> Hooks]
  /\ pending \in [Keys -> Calls \cup {None}] /\ tmp \in [Keys -> Calls \cup {None}]
  /\ \A c \in Calls : hook[c].pc = "none" <=> c \notin Past
  /\ \A c \in Past : /\ hook[c].pc \in FailurePCs => Verdict(c) \in Failures
                     /\ hook[c].pc \in SuccessPCs => Verdict(c) = "ok"

\* The hook of the failure f has written it to the file of k, or another has since.
Saved(f, k) == f \in told /\ Key(f) = k /\ hook[f].pc \in {"rename", "done"}

\* A failure is in the file, or in the one beside it, and once out of both never
\* comes back.
KeyHolds(k) ==
  /\ tmp[k] # None => Saved(tmp[k], k)
  /\ pending[k] # None => Saved(pending[k], k) /\ tmp[k] # pending[k]

FilesHold == \A k \in Keys : KeyHolds(k)

\* What call c has loaded.
LoadedWell(c) ==
  LET f == hook[c].previous
  IN  /\ \A g \in Calls : <<c, g>> \in earned <=> f = g
      /\ hook[c].pc \in {"none", "load", "succeeded", "reload"} => f = None
      /\ f # None => Saved(f, Key(c)) /\ tmp[Key(c)] # f
      /\ f # None /\ hook[c].pc = "done" /\ Verdict(c) = "ok" => pending[Key(c)] # f

\* Hooks that could see the same file content ran at the same time.
Overlap(c, d) == {c, d} \in together \/ hook[c].pc = "done"

RanTogether ==
  /\ \A c, d \in Past : c < d => Overlap(c, d)
  /\ \A c, d \in Past : /\ c < d /\ Verdict(c) = "ok"
                        /\ hook[c].previous = hook[d].previous /\ hook[c].previous # None
                        => {c, d} \in together
  /\ \A c, f \in Past : hook[c].previous = f /\ c < f => {c, f} \in together

SentWell(c) ==
  LET f == hook[c].previous
  IN  f # None => \/ <<c, f>> \in sent \/ hook[c].down
                  \/ hook[c].pc \in {"query", "observe", "retried", "worked"}

ClaudeInv ==
  /\ HooksTyped /\ FilesHold /\ RanTogether
  /\ \A c \in Calls : LoadedWell(c) /\ SentWell(c)

\* Of the hooks, that of c moves.
HookGoes(c, pc, previous, down) ==
  /\ hook' \in [Calls -> Hooks] /\ \A d \in Calls : d # c => hook'[d] = hook[d]
  /\ hook'[c].pc = pc /\ hook'[c].previous = previous /\ hook'[c].down = down

LEMMA GoesIs ==
  ASSUME HooksTyped, NEW c \in Calls, NEW pc \in {"none", "done"} \cup FailurePCs \cup SuccessPCs,
         NEW previous \in Calls \cup {None}, NEW down \in BOOLEAN
  PROVE  /\ hook[c].previous \in Calls \cup {None} /\ hook[c].down \in BOOLEAN
         /\ hook' = [hook EXCEPT ![c].pc = pc]
              => HookGoes(c, pc, hook[c].previous, hook[c].down)
         /\ hook' = [hook EXCEPT ![c].pc = pc, ![c].down = down]
              => HookGoes(c, pc, hook[c].previous, down)
         /\ hook' = [hook EXCEPT ![c].pc = pc, ![c].previous = previous]
              => HookGoes(c, pc, previous, hook[c].down)
  BY DEF HooksTyped, Hooks, HookGoes

\* What stays true of the calls that have ended while hook c moves.
LEMMA GoesKeeps ==
  ASSUME HooksTyped, RanTogether, NEW c \in Past, Past \subseteq Calls, NEW pc, NEW previous, NEW down,
         HookGoes(c, pc, previous, down), UNCHANGED <<agentVars, together>>, told \subseteq told',
         hook[c].pc # "done", hook[c].pc = "rename" => pc = "done",
         pc # "none", pc \in FailurePCs => Verdict(c) \in Failures,
         pc \in SuccessPCs => Verdict(c) = "ok",
         pending' \in [Keys -> Calls \cup {None}], tmp' \in [Keys -> Calls \cup {None}]
  PROVE  /\ HooksTyped' /\ Past' = Past
         /\ \A d : Key(d)' = Key(d) /\ Verdict(d)' = Verdict(d)
         /\ \A f \in Calls, k \in Keys : Saved(f, k) => Saved(f, k)'
         /\ \A f \in Calls, k \in Keys : Saved(f, k) => f # c \/ hook[c].pc = "rename"
         /\ \A d, e \in Past : d < e => Overlap(d, e)'
  <1>1. kind' = kind /\ ended' = ended
    BY DEF agentVars
  <1>2. Past' = Past /\ \A d : Key(d)' = Key(d) /\ Verdict(d)' = Verdict(d)
    BY <1>1 DEF Past, Key, Verdict, Shape
  <1>3. HooksTyped'
    BY <1>2 DEF HooksTyped, HookGoes
  <1>4. \A f \in Calls, k \in Keys : Saved(f, k) => Saved(f, k)'
    BY <1>2 DEF Saved, HookGoes
  <1>5. \A f \in Calls, k \in Keys : Saved(f, k) => f # c \/ hook[c].pc = "rename"
    BY DEF Saved
  <1>6. \A d, e \in Past : d < e => Overlap(d, e)'
    BY DEF RanTogether, Overlap, HookGoes
  <1> QED
    BY <1>2, <1>3, <1>4, <1>5, <1>6

LEMMA PastAreCalls ==
  ASSUME EndedTyped
  PROVE  /\ Past \subseteq Calls /\ None \notin Calls /\ None \notin Past
         /\ \A c \in Past : ended[c] \in Entries
         /\ kind = "claude" => \A c \in Past : Key(c) \in Keys
         /\ \A c \in Past : Verdict(c) \in Failures \cup {"ok"}
         /\ "ok" \notin Failures
  <1>1. Len(ended) \in Nat /\ \A c \in Past : ended[c] \in Entries
    BY LenProperties DEF EndedTyped, Past
  <1>2. Past \subseteq Calls /\ None \notin Calls
    BY <1>1, CallsAssumption DEF EndedTyped, Past, Calls
  <1>3. ASSUME kind = "claude", NEW c \in Past
        PROVE  Key(c) \in Keys
    <2>1. ended[c].shape \in Shapes
      BY <1>1, <1>3 DEF Entries, KindShapes
    <2> QED
      BY <2>1 DEF Shapes, Key, Shape, Keys
  <1>4. \A c \in Past : Verdict(c) \in Failures \cup {"ok"}
    BY <1>1 DEF Entries, Verdict
  <1>5. "ok" \notin Failures
    BY ClassesAssumption DEF Failures
  <1> QED
    BY <1>1, <1>2, <1>3, <1>4, <1>5

\* A step that neither loads, nor saves, nor clears the file.
LEMMA MovesOn ==
  ASSUME History, ClaudeInv, kind = "claude", NEW c \in Past, NEW pc, NEW down,
         HookGoes(c, pc, hook[c].previous, down),
         UNCHANGED <<agentVars, together, earned, pending, tmp>>,
         told \subseteq told', sent \subseteq sent',
         hook[c].pc \notin {"done", "rename"}, pc # "none",
         pc \in FailurePCs => Verdict(c) \in Failures, pc \in SuccessPCs => Verdict(c) = "ok",
         pc \in {"load", "succeeded", "reload"} => hook[c].previous = None,
         pc = "done" => Verdict(c) \in Failures,
         hook[c].previous # None => \/ <<c, hook[c].previous>> \in sent' \/ down
                                    \/ pc \in {"query", "observe", "retried", "worked"},
         hook[c].down => down
  PROVE  ClaudeInv'
  <1>1. /\ HooksTyped /\ FilesHold /\ RanTogether /\ Past \subseteq Calls /\ None \notin Calls
        /\ \A d \in Calls : LoadedWell(d) /\ SentWell(d)
        /\ \A d \in Past : Key(d) \in Keys
        /\ "ok" \notin Failures
    BY PastAreCalls DEF ClaudeInv, History
  <1>2. pending' \in [Keys -> Calls \cup {None}] /\ tmp' \in [Keys -> Calls \cup {None}]
    BY <1>1 DEF HooksTyped
  <1>3. /\ HooksTyped' /\ Past' = Past
        /\ \A d : Key(d)' = Key(d) /\ Verdict(d)' = Verdict(d)
        /\ \A f \in Calls, k \in Keys : Saved(f, k) => Saved(f, k)'
        /\ \A d, e \in Past : d < e => Overlap(d, e)'
    BY <1>1, <1>2, GoesKeeps
  <1>4. \A d \in Calls : hook'[d].previous = hook[d].previous
    BY DEF HookGoes
  <1>5. FilesHold'
    BY <1>1, <1>2, <1>3 DEF FilesHold, KeyHolds, HooksTyped
  <1>6. RanTogether'
    BY <1>1, <1>3, <1>4 DEF RanTogether
  <1>7. ASSUME NEW d \in Calls
        PROVE  LoadedWell(d)' /\ SentWell(d)'
    <2>1. hook[d].previous \in Calls \cup {None}
      BY <1>1 DEF HooksTyped, Hooks
    <2>2. CASE hook[d].previous = None
      <3>1. hook'[d].previous = None
        BY <1>4, <2>2
      <3> QED
        BY <1>1, <2>2, <3>1 DEF LoadedWell, SentWell
    <2>3. CASE hook[d].previous # None
      <3>1. PICK f \in Calls : f = hook[d].previous
        BY <2>1, <2>3
      <3>2. hook'[d].previous = f
        BY <1>4, <3>1
      <3>3. d \in Past
        BY <1>1, <2>3 DEF HooksTyped, LoadedWell
      <3>4. Saved(f, Key(d))'
        BY <1>1, <1>3, <2>3, <3>1, <3>3 DEF LoadedWell
      <3>5. CASE d # c
        <4>1. hook'[d] = hook[d]
          BY <3>5 DEF HookGoes
        <4>2. LoadedWell(d)'
          BY <1>1, <1>3, <2>3, <3>1, <3>4, <4>1 DEF LoadedWell
        <4>3. SentWell(d)'
          BY <1>1, <2>3, <3>1, <4>1 DEF SentWell
        <4> QED
          BY <4>2, <4>3
      <3>6. CASE d = c
        <4>1. hook'[c].pc = pc /\ hook'[c].down = down
          BY DEF HookGoes
        <4>2. LoadedWell(d)'
          BY <1>1, <1>3, <2>3, <3>1, <3>2, <3>4, <3>6, <4>1 DEF LoadedWell
        <4>3. SentWell(d)'
          BY <2>3, <3>1, <3>2, <3>6, <4>1 DEF SentWell
        <4> QED
          BY <4>2, <4>3
      <3> QED
        BY <3>5, <3>6
    <2> QED
      BY <2>2, <2>3
  <1> QED
    BY <1>3, <1>5, <1>6, <1>7 DEF ClaudeInv

\* A hook reads the file.
LEMMA LoadsWell ==
  ASSUME History, ClaudeInv, kind = "claude", NEW c \in Past,
         NEW previous \in {pending[Key(c)], None}, NEW pc \in {"query", "worked"},
         HookGoes(c, pc, previous, hook[c].down), hook[c].pc \in {"load", "reload"},
         pc = "query" => hook[c].pc = "load", pc = "worked" => hook[c].pc = "reload",
         earned' = IF previous = None THEN earned ELSE earned \cup {<<c, previous>>},
         UNCHANGED <<agentVars, together, pending, tmp, known, outcomes, told, sent>>
  PROVE  ClaudeInv' /\ History'
  <1>1. /\ HooksTyped /\ FilesHold /\ RanTogether /\ Past \subseteq Calls /\ None \notin Calls
        /\ \A d \in Calls : LoadedWell(d) /\ SentWell(d)
        /\ \A d \in Past : Key(d) \in Keys
        /\ "ok" \notin Failures
    BY PastAreCalls DEF ClaudeInv, History
  <1>2. pending' \in [Keys -> Calls \cup {None}] /\ tmp' \in [Keys -> Calls \cup {None}]
    BY <1>1 DEF HooksTyped
  <1>a. /\ pc \in FailurePCs => Verdict(c) \in Failures
        /\ pc \in SuccessPCs => Verdict(c) = "ok"
        /\ pc # "none"
    BY <1>1 DEF HooksTyped, FailurePCs, SuccessPCs
  <1>3. /\ HooksTyped' /\ Past' = Past
        /\ \A d : Key(d)' = Key(d) /\ Verdict(d)' = Verdict(d)
        /\ \A f \in Calls, k \in Keys : Saved(f, k) => Saved(f, k)'
        /\ \A d, e \in Past : d < e => Overlap(d, e)'
    BY <1>1, <1>2, <1>a, GoesKeeps
  <1>4. /\ \A d \in Calls : d # c => hook'[d] = hook[d]
        /\ hook'[c].previous = previous /\ hook'[c].pc = pc
    BY DEF HookGoes
  <1>5. FilesHold'
    BY <1>1, <1>2, <1>3 DEF FilesHold, KeyHolds, HooksTyped
  <1>6. previous # None =>
          /\ previous \in Calls /\ Saved(previous, Key(c)) /\ tmp[Key(c)] # previous
          /\ previous \in Past /\ previous # c /\ Verdict(previous) \in Failures
          /\ Key(previous) = Key(c)
    BY <1>1 DEF FilesHold, KeyHolds, HooksTyped, Saved, History, ToldKnown
  <1>7. \A g \in Calls : <<c, g>> \notin earned
    BY <1>1 DEF LoadedWell
  <1>8. RanTogether'
    <2>1. ASSUME NEW d \in Past, NEW e \in Past, d < e, Verdict(d) = "ok",
                 hook'[d].previous = hook'[e].previous, hook'[d].previous # None
          PROVE  {d, e} \in together
      <3>1. CASE d # c /\ e # c
        BY <1>1, <1>4, <2>1, <3>1 DEF RanTogether
      <3>2. CASE d = c
        BY <1>1, <2>1, <3>2 DEF RanTogether, Overlap
      <3>3. CASE e = c /\ d # c
        <4>1. hook[d].previous = previous /\ previous # None
          BY <1>1, <1>4, <2>1, <3>3
        <4>2. Key(d) = Key(c)
          BY <1>1, <1>6, <4>1 DEF LoadedWell, Saved
        <4>3. previous = pending[Key(d)]
          BY <4>1, <4>2
        <4>4. hook[d].pc # "done"
          BY <1>1, <2>1, <4>1, <4>3 DEF LoadedWell
        <4> QED
          BY <1>1, <2>1, <3>3, <4>4 DEF RanTogether, Overlap
      <3> QED
        BY <3>1, <3>2, <3>3
    <2>2. ASSUME NEW d \in Past, NEW f \in Past, hook'[d].previous = f, d < f
          PROVE  {d, f} \in together
      <3>1. CASE d # c
        BY <1>1, <1>4, <2>2, <3>1 DEF RanTogether
      <3>2. CASE d = c
        BY <1>1, <2>2, <3>2 DEF RanTogether, Overlap
      <3> QED
        BY <3>1, <3>2
    <2> QED
      BY <1>3, <2>1, <2>2 DEF RanTogether
  <1>9. ASSUME NEW d \in Calls
        PROVE  LoadedWell(d)' /\ SentWell(d)'
    <2>1. CASE d = c
      <3>1. LoadedWell(d)'
        <4>1. \A g \in Calls : <<c, g>> \in earned' <=> previous = g
          BY <1>1, <1>6, <1>7
        <4>2. previous # None => Saved(previous, Key(c))'
          BY <1>1, <1>3, <1>6
        <4>3. /\ pc \notin {"none", "load", "succeeded", "reload", "done"}
              /\ tmp' = tmp /\ Key(c)' = Key(c)
          BY <1>3
        <4> QED
          BY <1>4, <1>6, <2>1, <4>1, <4>2, <4>3 DEF LoadedWell
      <3>2. SentWell(d)'
        BY <1>4, <2>1 DEF SentWell
      <3> QED
        BY <3>1, <3>2
    <2>2. CASE d # c
      <3>1. hook'[d] = hook[d] /\ hook[d].previous \in Calls \cup {None}
        BY <1>1, <1>4, <2>2 DEF HooksTyped, Hooks
      <3>2. \A g \in Calls : <<d, g>> \in earned' <=> <<d, g>> \in earned
        BY <2>2
      <3>3. CASE hook[d].previous = None
        BY <1>1, <3>1, <3>2, <3>3 DEF LoadedWell, SentWell
      <3>4. CASE hook[d].previous # None
        <4>1. PICK f \in Calls : f = hook[d].previous
          BY <3>1, <3>4
        <4>2. d \in Past
          BY <1>1, <3>4 DEF HooksTyped, LoadedWell
        <4>3. Saved(f, Key(d))'
          BY <1>1, <1>3, <3>4, <4>1, <4>2 DEF LoadedWell
        <4>4. LoadedWell(d)'
          BY <1>1, <1>3, <3>1, <3>2, <3>4, <4>1, <4>3 DEF LoadedWell
        <4>5. SentWell(d)'
          BY <1>1, <3>1, <3>4, <4>1 DEF SentWell
        <4> QED
          BY <4>4, <4>5
      <3> QED
        BY <3>3, <3>4
    <2> QED
      BY <2>1, <2>2
  <1>10. previous # None => Repeats(c, previous)
    <2> SUFFICES ASSUME previous # None PROVE Repeats(c, previous)
      OBVIOUS
    <2>1. Verdict(previous) \in Failures /\ previous # c /\ Key(previous) = Key(c)
      BY <1>6
    <2>2. /\ Shape(previous).session = Shape(c).session
          /\ Shape(previous).tool = Shape(c).tool
      BY <2>1 DEF Key
    <2> QED
      BY <2>1, <2>2 DEF Repeats
  <1>11. History'
    BY <1>6, <1>10, EarnsKeeps
  <1> QED
    BY <1>3, <1>5, <1>8, <1>9, <1>11 DEF ClaudeInv

\* The files change: what hook c wrote or moved there, or nothing any more.
LEMMA FilesChange ==
  ASSUME History, ClaudeInv, kind = "claude", NEW c \in Past, NEW pc,
         HookGoes(c, pc, hook[c].previous, hook[c].down),
         UNCHANGED <<agentVars, historyVars, together>>,
         hook[c].pc \notin {"done", "none", "query", "observe", "retried", "worked"},
         pc \in {"rename", "done"}, hook[c].pc = "rename" => pc = "done",
         pc \in FailurePCs => Verdict(c) \in Failures,
         pending' \in [Keys -> Calls \cup {None}], tmp' \in [Keys -> Calls \cup {None}],
         FilesHold',
         \A d \in Past : LET f == hook[d].previous
                         IN  f # None /\ tmp[Key(d)] # f =>
                             /\ tmp'[Key(d)] # f
                             /\ pending'[Key(d)] = f => pending[Key(d)] = f,
         hook[c].previous # None /\ Verdict(c) = "ok" => pending'[Key(c)] # hook[c].previous
  PROVE  ClaudeInv'
  <1>1. /\ HooksTyped /\ FilesHold /\ RanTogether /\ Past \subseteq Calls /\ None \notin Calls
        /\ \A d \in Calls : LoadedWell(d) /\ SentWell(d)
        /\ \A d \in Past : Key(d) \in Keys
        /\ "ok" \notin Failures
    BY PastAreCalls DEF ClaudeInv, History
  <1>2. told' = told /\ earned' = earned /\ sent' = sent
    BY DEF historyVars
  <1>3. /\ HooksTyped' /\ Past' = Past
        /\ \A d : Key(d)' = Key(d) /\ Verdict(d)' = Verdict(d)
        /\ \A f \in Calls, k \in Keys : Saved(f, k) => Saved(f, k)'
        /\ \A d, e \in Past : d < e => Overlap(d, e)'
    <2>1. pc # "none" /\ (pc \in SuccessPCs => Verdict(c) = "ok")
      BY DEF SuccessPCs
    <2> QED
      BY <1>1, <1>2, <2>1, GoesKeeps
  <1>4. \A d \in Calls : hook'[d].previous = hook[d].previous
    BY DEF HookGoes
  <1>5. /\ \A d \in Calls : d # c => hook'[d] = hook[d]
        /\ hook'[c].pc = pc /\ hook'[c].down = hook[c].down
    BY DEF HookGoes
  <1>6. RanTogether'
    BY <1>1, <1>3, <1>4 DEF RanTogether
  <1>7. ASSUME NEW d \in Calls
        PROVE  LoadedWell(d)' /\ SentWell(d)'
    <2>1. hook[d].previous \in Calls \cup {None}
      BY <1>1 DEF HooksTyped, Hooks
    <2>2. CASE hook[d].previous = None
      <3>1. hook'[d].previous = None
        BY <1>4, <2>2
      <3> QED
        <4>1. \A g \in Calls : <<d, g>> \in earned' <=> None = g
          BY <1>1, <1>2, <2>2 DEF LoadedWell
        <4>2. LoadedWell(d)'
          BY <3>1, <4>1 DEF LoadedWell
        <4>3. SentWell(d)'
          BY <3>1 DEF SentWell
        <4> QED
          BY <4>2, <4>3
    <2>3. CASE hook[d].previous # None
      <3>1. PICK f \in Calls : f = hook[d].previous
        BY <2>1, <2>3
      <3>2. hook'[d].previous = f
        BY <1>4, <3>1
      <3>3. d \in Past
        BY <1>1, <2>3 DEF HooksTyped, LoadedWell
      <3>4. Saved(f, Key(d))' /\ tmp[Key(d)] # f
        BY <1>1, <1>3, <2>3, <3>1, <3>3 DEF LoadedWell
      <3>5. tmp'[Key(d)] # f /\ (pending'[Key(d)] = f => pending[Key(d)] = f)
        BY <2>3, <3>1, <3>3, <3>4
      <3>6. \A g \in Calls : <<d, g>> \in earned' <=> f = g
        BY <1>1, <1>2, <3>1 DEF LoadedWell
      <3>7. hook'[d].pc \notin {"none", "load", "succeeded", "reload"}
        BY <1>1, <1>5, <2>3 DEF LoadedWell
      <3>8. hook'[d].pc = "done" /\ Verdict(d) = "ok" => pending'[Key(d)] # f
        <4>1. CASE d = c
          BY <2>3, <3>1, <4>1
        <4>2. CASE d # c
          BY <1>1, <1>5, <2>3, <3>1, <3>5, <4>2 DEF LoadedWell
        <4> QED
          BY <4>1, <4>2
      <3>9. LoadedWell(d)'
        BY <1>3, <3>2, <3>4, <3>5, <3>6, <3>7, <3>8 DEF LoadedWell
      <3>10. SentWell(d)'
        BY <1>1, <1>2, <1>5, <2>3, <3>1, <3>2 DEF SentWell
      <3> QED
        BY <3>9, <3>10
    <2> QED
      BY <2>2, <2>3
  <1> QED
    BY <1>3, <1>6, <1>7 DEF ClaudeInv

LEMMA ClaudeStarts ==
  ASSUME History, ClaudeInv, kind = "claude", NEW c \in Calls, HookStarts(c)
  PROVE  ClaudeInv' /\ History'
  <1>1. /\ HooksTyped /\ FilesHold /\ RanTogether /\ Past \subseteq Calls /\ None \notin Calls
        /\ \A d \in Calls : LoadedWell(d) /\ SentWell(d)
        /\ \A d \in Past : Key(d) \in Keys
        /\ "ok" \notin Failures /\ EndedTyped
    BY PastAreCalls DEF ClaudeInv, History
  <1>2. PICK s \in Shapes, v \in Failures \cup {"ok"} :
          /\ Ends(c, s, v)
          /\ hook' = [hook EXCEPT ![c].pc = IF v = "ok" THEN "succeeded" ELSE "load"]
    BY DEF HookStarts
  <1>3. /\ together' = together \cup {{c, d} : d \in Alive}
        /\ UNCHANGED <<historyVars, pending, tmp>>
    BY DEF HookStarts
  <1>4. s \in KindShapes
    BY DEF KindShapes
  <1>5. /\ c \notin Past /\ Past' = Past \cup {c} /\ kind' = kind
        /\ ended'[c].verdict = v
        /\ \A d \in Past : ended'[d] = ended[d] /\ d < c
        /\ c \in Nat
    BY <1>1, <1>2, <1>4, EndsIs
  <1>6. History'
    BY <1>2, <1>3, <1>4, EndsKeeps DEF historyVars
  <1>7. hook[c].previous = None /\ hook[c].pc = "none"
    BY <1>1, <1>5 DEF HooksTyped, LoadedWell
  <1>8. PICK pc \in {"succeeded", "load"} :
          /\ pc = (IF v = "ok" THEN "succeeded" ELSE "load")
          /\ HookGoes(c, pc, None, hook[c].down)
    BY <1>1, <1>2, <1>7, GoesIs DEF FailurePCs, SuccessPCs
  <1>9. /\ hook' \in [Calls -> Hooks] /\ \A d \in Calls : d # c => hook'[d] = hook[d]
        /\ hook'[c].previous = None /\ hook'[c].pc = pc
    BY <1>8 DEF HookGoes
  <1>10. \A d \in Past : Key(d)' = Key(d) /\ Verdict(d)' = Verdict(d)
    BY <1>5 DEF Key, Verdict, Shape
  <1>11. HooksTyped'
    <2>1. \A d \in Calls : hook'[d].pc = "none" <=> d \notin Past'
      BY <1>1, <1>5, <1>9 DEF HooksTyped
    <2>2. ASSUME NEW d \in Past'
          PROVE  /\ hook'[d].pc \in FailurePCs => Verdict(d)' \in Failures
                 /\ hook'[d].pc \in SuccessPCs => Verdict(d)' = "ok"
      <3>1. CASE d = c
        BY <1>5, <1>8, <1>9, <3>1 DEF FailurePCs, SuccessPCs, Verdict
      <3>2. CASE d # c
        BY <1>1, <1>5, <1>9, <1>10, <3>2 DEF HooksTyped
      <3> QED
        BY <3>1, <3>2
    <2> QED
      BY <1>1, <1>3, <1>9, <2>1, <2>2 DEF HooksTyped
  <1>12. \A f \in Calls, k \in Keys : Saved(f, k) => Saved(f, k)' /\ f \in Past
    <2>1. ASSUME NEW f \in Calls, NEW k \in Keys, Saved(f, k)
          PROVE  Saved(f, k)' /\ f \in Past
      <3>1. f \in told /\ f \in Past
        BY <2>1 DEF Saved, History, ToldKnown
      <3> QED
        BY <1>3, <1>5, <1>9, <1>10, <2>1, <3>1 DEF Saved, historyVars
    <2> QED
      BY <2>1
  <1>13. FilesHold'
    BY <1>1, <1>3, <1>12 DEF FilesHold, KeyHolds, HooksTyped
  <1>14. earned' = earned /\ sent' = sent /\ earned \subseteq Past \X Past
    BY <1>3 DEF historyVars, History, PairsEarned
  <1>15. RanTogether'
    <2>1. ASSUME NEW d \in Past', NEW e \in Past', d < e
          PROVE  Overlap(d, e)'
      <3>1. d \in Past
        BY <1>1, <1>5, <2>1 DEF Calls
      <3>2. hook'[d] = hook[d]
        BY <1>1, <1>5, <1>9, <3>1
      <3>3. CASE e \in Past
        BY <1>1, <1>3, <2>1, <3>1, <3>2, <3>3 DEF RanTogether, Overlap
      <3>4. CASE e = c
        <4>1. hook[d].pc # "none"
          BY <1>1, <3>1 DEF HooksTyped
        <4>2. hook[d].pc = "done" \/ d \in Alive
          BY <1>1, <3>1, <4>1 DEF Alive
        <4>3. {d, c} = {c, d}
          OBVIOUS
        <4> QED
          BY <1>3, <3>2, <3>4, <4>2, <4>3 DEF Overlap
      <3> QED
        BY <1>5, <3>3, <3>4
    <2>2. ASSUME NEW d \in Past', NEW e \in Past', d < e, Verdict(d)' = "ok",
                 hook'[d].previous = hook'[e].previous, hook'[d].previous # None
          PROVE  {d, e} \in together'
      <3>1. d \in Past /\ e \in Past
        BY <1>5, <1>9, <2>2
      <3>2. hook'[d] = hook[d] /\ hook'[e] = hook[e]
        BY <1>1, <1>5, <1>9, <3>1
      <3> QED
        BY <1>1, <1>3, <1>10, <2>2, <3>1, <3>2 DEF RanTogether
    <2>3. ASSUME NEW d \in Past', NEW f \in Past', hook'[d].previous = f, d < f
          PROVE  {d, f} \in together'
      <3>1. d \in Past
        BY <1>1, <1>5, <1>9, <2>3
      <3>2. hook[d].previous = f
        BY <1>1, <1>5, <1>9, <2>3, <3>1
      <3>3. f \in Past
        BY <1>1, <1>5, <1>12, <3>1, <3>2 DEF LoadedWell
      <3> QED
        BY <1>1, <1>3, <2>3, <3>1, <3>2, <3>3 DEF RanTogether
    <2> QED
      BY <2>1, <2>2, <2>3 DEF RanTogether
  <1>16. ASSUME NEW d \in Calls
         PROVE  LoadedWell(d)' /\ SentWell(d)'
    <2>1. CASE hook[d].previous = None
      <3>1. hook'[d].previous = None
        BY <1>9, <2>1
      <3>2. \A g \in Calls : <<d, g>> \in earned' <=> None = g
        BY <1>1, <1>14, <2>1 DEF LoadedWell
      <3>3. LoadedWell(d)'
        BY <3>1, <3>2 DEF LoadedWell
      <3>4. SentWell(d)'
        BY <3>1 DEF SentWell
      <3> QED
        BY <3>3, <3>4
    <2>2. CASE hook[d].previous # None
      <3>1. PICK f \in Calls : f = hook[d].previous
        BY <1>1, <2>2 DEF HooksTyped, Hooks
      <3>2. d \in Past /\ d # c
        BY <1>1, <1>7, <2>2 DEF HooksTyped, LoadedWell
      <3>3. hook'[d] = hook[d] /\ Key(d)' = Key(d) /\ Verdict(d)' = Verdict(d)
        BY <1>9, <1>10, <3>2
      <3>4. Saved(f, Key(d))'
        BY <1>1, <1>12, <2>2, <3>1, <3>2, <3>3 DEF LoadedWell
      <3>5. LoadedWell(d)'
        BY <1>1, <1>3, <1>14, <2>2, <3>1, <3>3, <3>4 DEF LoadedWell
      <3>6. SentWell(d)'
        BY <1>1, <1>14, <3>1, <3>3 DEF SentWell
      <3> QED
        BY <3>5, <3>6
    <2> QED
      BY <2>1, <2>2
  <1> QED
    BY <1>6, <1>11, <1>13, <1>15, <1>16 DEF ClaudeInv

\* A report or a question goes out, or nothing because an earlier one had failed.
LEMMA ClaudePosts ==
  ASSUME History, ClaudeInv, kind = "claude", NEW c \in Past, NEW next, post(c, next),
         UNCHANGED <<agentVars, together, pending, tmp>>,
         \/ hook[c].pc = "query" /\ next = "observe"
         \/ hook[c].pc = "observe" /\ next = "retried"
         \/ hook[c].pc = "succeeded" /\ next = "reload"
  PROVE  ClaudeInv' /\ History'
  <1>1. /\ HooksTyped /\ EndedTyped /\ c \in Calls /\ "ok" \notin Failures
        /\ LoadedWell(c) /\ SentWell(c)
    BY PastAreCalls DEF ClaudeInv, History
  <1>2. /\ next \in FailurePCs => Verdict(c) \in Failures
        /\ next \in SuccessPCs => Verdict(c) = "ok"
        /\ hook[c].pc \notin {"done", "rename"} /\ next # "none" /\ next # "done"
        /\ next \in {"load", "succeeded", "reload"} => hook[c].previous = None
        /\ next \in {"none", "done"} \cup FailurePCs \cup SuccessPCs
        /\ hook[c].previous # None => next \in {"query", "observe", "retried", "worked"}
    BY <1>1 DEF HooksTyped, FailurePCs, SuccessPCs, LoadedWell
  <1>3. CASE hook[c].down
    <2>1. hook' = [hook EXCEPT ![c].pc = next] /\ UNCHANGED historyVars
      BY <1>3 DEF post
    <2>2. HookGoes(c, next, hook[c].previous, hook[c].down)
      BY <1>1, <1>2, <2>1, GoesIs
    <2>3. told' = told /\ earned' = earned /\ sent' = sent
      BY <2>1 DEF historyVars
    <2> QED
      BY <1>2, <2>1, <2>2, <2>3, MovesOn, HistoryStays
  <1>4. CASE ~hook[c].down
    <2>1. PICK answered \in BOOLEAN :
            /\ IF Verdict(c) = "ok" THEN UNCHANGED <<known, outcomes>> ELSE PostReport(c, answered)
            /\ told' = IF answered /\ Verdict(c) # "ok" THEN told \cup {c} ELSE told
            /\ AfterPost(c, answered, next)
            /\ UNCHANGED <<earned, sent>>
      BY <1>4 DEF post
    <2>2. PICK down \in BOOLEAN : down = ~answered
      OBVIOUS
    <2>3. HookGoes(c, next, hook[c].previous, down)
      BY <1>1, <1>2, <2>1, <2>2, GoesIs DEF AfterPost
    <2>4. told \subseteq told' /\ sent \subseteq sent'
      BY <2>1
    <2>5. ClaudeInv'
      BY <1>2, <1>4, <2>1, <2>3, <2>4, MovesOn
    <2>6. History'
      <3>1. CASE Verdict(c) = "ok"
        BY <2>1, <3>1, EarnsKeeps
      <3>2. CASE Verdict(c) # "ok"
        <4>1. Verdict(c) \in Failures
          BY <1>1, <3>2, PastAreCalls
        <4>2. told' = told \/ (told' = told \cup {c} /\ answered = TRUE)
          BY <2>1
        <4> QED
          BY <2>1, <3>2, <4>1, <4>2, ReportKeeps
      <3> QED
        BY <3>1, <3>2
    <2> QED
      BY <2>5, <2>6
  <1> QED
    BY <1>3, <1>4

\* The outcome of what was loaded goes out, if anything was.
LEMMA ClaudeSends ==
  ASSUME History, ClaudeInv, kind = "claude", NEW c \in Past, NEW next, SendOutcome(c, next),
         UNCHANGED <<agentVars, together, pending, tmp>>,
         \/ hook[c].pc = "retried" /\ next = "write"
         \/ hook[c].pc = "worked" /\ next = "clear"
  PROVE  ClaudeInv' /\ History'
  <1>1. /\ HooksTyped /\ EndedTyped /\ c \in Calls /\ LoadedWell(c) /\ SentWell(c)
        /\ None \notin Calls
    BY PastAreCalls DEF ClaudeInv, History
  <1>2. /\ next \in FailurePCs => Verdict(c) \in Failures
        /\ next \in SuccessPCs => Verdict(c) = "ok"
        /\ hook[c].pc \notin {"done", "rename"} /\ next # "none" /\ next # "done"
        /\ next \notin {"load", "succeeded", "reload"}
        /\ next \in {"none", "done"} \cup FailurePCs \cup SuccessPCs
    BY <1>1 DEF HooksTyped, FailurePCs, SuccessPCs
  <1>3. PICK f : f = hook[c].previous
    OBVIOUS
  <1>4. CASE f = None \/ hook[c].down
    <2>1. hook' = [hook EXCEPT ![c].pc = next] /\ UNCHANGED historyVars
      BY <1>3, <1>4 DEF SendOutcome
    <2>2. HookGoes(c, next, hook[c].previous, hook[c].down)
      BY <1>1, <1>2, <2>1, GoesIs
    <2>3. told' = told /\ earned' = earned /\ sent' = sent
      BY <2>1 DEF historyVars
    <2> QED
      BY <1>2, <1>3, <1>4, <2>1, <2>2, <2>3, MovesOn, HistoryStays
  <1>5. CASE f # None /\ ~hook[c].down
    <2>1. PICK answered \in BOOLEAN : /\ PostOutcome(c, f, Fingerprint(f), answered)
                                      /\ AfterPost(c, answered, next)
      BY <1>3, <1>5 DEF SendOutcome
    <2>2. sent' = sent \cup {<<c, f>>} /\ UNCHANGED <<told, earned>>
      BY <1>3, <1>5 DEF SendOutcome
    <2>3. PICK down \in BOOLEAN : down = ~answered
      OBVIOUS
    <2>4. HookGoes(c, next, hook[c].previous, down)
      BY <1>1, <1>2, <2>1, <2>3, GoesIs DEF AfterPost
    <2>5. ClaudeInv'
      BY <1>2, <1>3, <1>5, <2>2, <2>4, MovesOn
    <2>6. f \in Calls /\ <<c, f>> \in earned /\ f \in told
      BY <1>1, <1>3, <1>5 DEF LoadedWell, HooksTyped, Hooks, Saved
    <2>7. Fingerprint(f) \in known /\ Fingerprint(f)[1] = Shape(f).tool
      BY <2>6 DEF History, ToldKnown, Fingerprint, FingerprintIf
    <2>8. History'
      BY <2>1, <2>2, <2>6, <2>7, OutcomeKeeps
    <2> QED
      BY <2>5, <2>8
  <1> QED
    BY <1>4, <1>5

\* A failure that the network told its fingerprint of is saved.
LEMMA ClaudeSaves ==
  ASSUME History, ClaudeInv, kind = "claude", NEW c \in Past, Save(c), UNCHANGED historyVars,
         UNCHANGED <<agentVars, together>>
  PROVE  ClaudeInv' /\ History'
  <1>1. /\ HooksTyped /\ FilesHold /\ EndedTyped /\ c \in Calls /\ LoadedWell(c) /\ SentWell(c)
        /\ None \notin Calls /\ Key(c) \in Keys /\ Past \subseteq Calls /\ "ok" \notin Failures
        /\ \A d \in Calls : LoadedWell(d)
        /\ \A d \in Past : Key(d) \in Keys
    BY PastAreCalls DEF ClaudeInv, History
  <1>2. told' = told /\ earned' = earned /\ sent' = sent
    BY DEF historyVars
  <1>3. History'
    BY HistoryStays
  <1>4. CASE hook[c].pc = "write" /\ c \notin told
    <2>1. hook' = [hook EXCEPT ![c].pc = "done"] /\ UNCHANGED <<tmp, pending>>
      BY <1>4 DEF Save
    <2>2. HookGoes(c, "done", hook[c].previous, hook[c].down)
      BY <1>1, <2>1, GoesIs
    <2>3. Verdict(c) \in Failures
      BY <1>1, <1>4 DEF HooksTyped, FailurePCs
    <2>4. hook[c].previous # None => <<c, hook[c].previous>> \in sent \/ hook[c].down
      BY <1>1, <1>4 DEF SentWell
    <2>5. "done" \notin FailurePCs \cup SuccessPCs
      BY DEF FailurePCs, SuccessPCs
    <2> QED
      BY <1>2, <1>3, <1>4, <2>1, <2>2, <2>3, <2>4, <2>5, MovesOn
  <1>5. CASE hook[c].pc = "write" /\ c \in told
    <2>1. /\ hook' = [hook EXCEPT ![c].pc = "rename"] /\ tmp' = [tmp EXCEPT ![Key(c)] = c]
          /\ UNCHANGED pending
      BY <1>5 DEF Save
    <2>2. HookGoes(c, "rename", hook[c].previous, hook[c].down)
      BY <1>1, <2>1, GoesIs DEF FailurePCs
    <2>3. Verdict(c) \in Failures
      BY <1>1, <1>5 DEF HooksTyped, FailurePCs
    <2>4. /\ pending' \in [Keys -> Calls \cup {None}] /\ tmp' \in [Keys -> Calls \cup {None}]
          /\ \A k \in Keys : tmp'[k] = IF k = Key(c) THEN c ELSE tmp[k]
      BY <1>1, <2>1 DEF HooksTyped
    <2>5. /\ \A f \in Calls, k \in Keys : Saved(f, k) => Saved(f, k)' /\ f # c
          /\ Saved(c, Key(c))'
      <3>1. \A d : Key(d)' = Key(d)
        BY DEF agentVars, Key, Shape
      <3> QED
        BY <1>1, <1>2, <1>5, <2>2, <3>1 DEF Saved, HookGoes
    <2>6. FilesHold'
      <3> SUFFICES ASSUME NEW k \in Keys
                   PROVE  KeyHolds(k)'
        BY DEF FilesHold
      <3>1. pending'[k] = pending[k]
        BY <2>1
      <3>2. PICK f, g : f = pending[k] /\ g = tmp[k]
        OBVIOUS
      <3>3. /\ g # None => g \in Calls /\ Saved(g, k)
            /\ f # None => f \in Calls /\ Saved(f, k) /\ g # f
        BY <1>1, <3>2 DEF FilesHold, KeyHolds, HooksTyped
      <3>4. CASE k = Key(c)
        <4>1. tmp'[k] = c
          BY <2>4, <3>4
        <4>2. f # None => Saved(f, k)' /\ f # c
          BY <2>5, <3>3
        <4>3. Saved(c, k)'
          <5>1. Key(c)' = Key(c)
            BY DEF agentVars, Key, Shape
          <5> QED
            BY <2>5, <3>4, <5>1 DEF Saved
        <4> QED
          BY <3>1, <3>2, <4>1, <4>2, <4>3 DEF KeyHolds, Saved
      <3>5. CASE k # Key(c)
        <4>1. tmp'[k] = g
          BY <2>4, <3>2, <3>5
        <4>2. /\ g # None => Saved(g, k)'
              /\ f # None => Saved(f, k)'
          BY <2>5, <3>3
        <4> QED
          BY <3>1, <3>2, <3>3, <4>1, <4>2 DEF KeyHolds, Saved
      <3> QED
        BY <3>4, <3>5
    <2>7. ASSUME NEW d \in Past, NEW f, f = hook[d].previous, f # None, tmp[Key(d)] # f
          PROVE  tmp'[Key(d)] # f /\ (pending'[Key(d)] = f => pending[Key(d)] = f)
      <3>1. f \in Calls /\ Saved(f, Key(d))
        BY <1>1, <2>7 DEF LoadedWell, HooksTyped, Hooks
      <3>2. f # c
        BY <1>1, <2>5, <3>1
      <3> QED
        BY <1>1, <2>1, <2>4, <2>7, <3>2
    <2> QED
      BY <1>1, <1>3, <1>5, <2>2, <2>3, <2>4, <2>6, <2>7, FilesChange
  <1>6. CASE hook[c].pc = "rename"
    <2>1. /\ pending' = IF tmp[Key(c)] = None THEN pending
                        ELSE [pending EXCEPT ![Key(c)] = tmp[Key(c)]]
          /\ tmp' = [tmp EXCEPT ![Key(c)] = None]
          /\ hook' = [hook EXCEPT ![c].pc = "done"]
      BY <1>6 DEF Save
    <2>2. HookGoes(c, "done", hook[c].previous, hook[c].down)
      BY <1>1, <2>1, GoesIs
    <2>3. Verdict(c) \in Failures
      BY <1>1, <1>6 DEF HooksTyped, FailurePCs
    <2>4. /\ pending' \in [Keys -> Calls \cup {None}] /\ tmp' \in [Keys -> Calls \cup {None}]
          /\ \A k \in Keys : tmp'[k] = IF k = Key(c) THEN None ELSE tmp[k]
          /\ \A k \in Keys : pending'[k] = IF k = Key(c) /\ tmp[k] # None THEN tmp[k] ELSE pending[k]
      BY <1>1, <2>1 DEF HooksTyped
    <2>5. \A f \in Calls, k \in Keys : Saved(f, k) => Saved(f, k)'
      <3>1. \A d : Key(d)' = Key(d)
        BY DEF agentVars, Key, Shape
      <3> QED
        BY <1>1, <1>2, <2>2, <3>1 DEF Saved, HookGoes
    <2>6. FilesHold'
      BY <1>1, <2>4, <2>5 DEF FilesHold, KeyHolds, HooksTyped
    <2>7. ASSUME NEW d \in Past, NEW f, f = hook[d].previous, f # None, tmp[Key(d)] # f
          PROVE  tmp'[Key(d)] # f /\ (pending'[Key(d)] = f => pending[Key(d)] = f)
      BY <1>1, <2>4, <2>7
    <2>8. "done" \notin FailurePCs
      BY DEF FailurePCs
    <2> QED
      BY <1>1, <1>3, <1>6, <2>2, <2>3, <2>4, <2>6, <2>7, <2>8, FilesChange
  <1> QED
    BY <1>4, <1>5, <1>6 DEF Save

LEMMA ClaudeClears ==
  ASSUME History, ClaudeInv, kind = "claude", NEW c \in Past, hook[c].pc = "clear",
         ClearPending(c), hook' = [hook EXCEPT ![c].pc = "done"], UNCHANGED historyVars,
         UNCHANGED <<agentVars, tmp, together>>
  PROVE  ClaudeInv' /\ History'
  <1>1. /\ HooksTyped /\ FilesHold /\ EndedTyped /\ c \in Calls
        /\ None \notin Calls /\ Key(c) \in Keys /\ Past \subseteq Calls
        /\ \A d \in Past : Key(d) \in Keys
    BY PastAreCalls DEF ClaudeInv, History
  <1>2. History'
    BY HistoryStays
  <1>3. HookGoes(c, "done", hook[c].previous, hook[c].down)
    BY <1>1, GoesIs
  <1>4. /\ pending' \in [Keys -> Calls \cup {None}] /\ tmp' \in [Keys -> Calls \cup {None}]
        /\ \A k \in Keys : pending'[k] \in {pending[k], None}
        /\ hook[c].previous # None => pending'[Key(c)] = None
    BY <1>1 DEF HooksTyped, ClearPending
  <1>5. \A f \in Calls, k \in Keys : Saved(f, k) => Saved(f, k)'
    <2>1. told' = told /\ \A d : Key(d)' = Key(d)
      BY DEF historyVars, agentVars, Key, Shape
    <2> QED
      BY <1>1, <1>3, <2>1 DEF Saved, HookGoes
  <1>6. FilesHold'
    BY <1>1, <1>4, <1>5 DEF FilesHold, KeyHolds, HooksTyped
  <1>7. ASSUME NEW d \in Past, NEW f, f = hook[d].previous, f # None, tmp[Key(d)] # f
        PROVE  tmp'[Key(d)] # f /\ (pending'[Key(d)] = f => pending[Key(d)] = f)
    BY <1>1, <1>4, <1>7
  <1>8. "done" \notin FailurePCs
    BY DEF FailurePCs
  <1>9. hook[c].previous # None => pending'[Key(c)] # hook[c].previous
    BY <1>4
  <1> QED
    BY <1>1, <1>2, <1>3, <1>4, <1>6, <1>7, <1>8, <1>9, FilesChange

LEMMA ClaudeStep ==
  ASSUME History, ClaudeInv, kind = "claude", ClaudeNext
  PROVE  ClaudeInv' /\ History'
  <1>1. PICK c \in Calls : HookStarts(c) \/ on_failure(c) \/ on_success(c)
    BY DEF ClaudeNext
  <1>2. CASE HookStarts(c)
    BY <1>2, ClaudeStarts
  <1>3. ASSUME on_failure(c) \/ on_success(c)
        PROVE  c \in Past /\ HooksTyped /\ UNCHANGED <<agentVars, together>>
    <2>1. hook[c].pc # "none"
      BY <1>3 DEF on_failure, on_success, Save
    <2> QED
      BY <1>3, <2>1 DEF ClaudeInv, HooksTyped, on_failure, on_success
  <1>4. CASE on_failure(c)
    <2>1. CASE hook[c].pc = "load" /\ Load(c, "query") /\ UNCHANGED <<pending, tmp>>
      <3>1. PICK previous \in {pending[Key(c)], None} :
              /\ hook' = [hook EXCEPT ![c].pc = "query", ![c].previous = previous]
              /\ earned' = IF previous = None THEN earned ELSE earned \cup {<<c, previous>>}
        BY <2>1 DEF Load
      <3>2. UNCHANGED <<known, outcomes, told, sent>>
        BY <2>1 DEF Load
      <3>3. previous \in Calls \cup {None}
        BY <1>3, <1>4, PastAreCalls DEF HooksTyped, History
      <3>4. HookGoes(c, "query", previous, hook[c].down)
        BY <1>3, <1>4, <3>1, <3>3, GoesIs DEF FailurePCs
      <3> QED
        BY <1>3, <1>4, <2>1, <3>1, <3>2, <3>4, LoadsWell
    <2>2. CASE /\ \/ hook[c].pc = "query" /\ post(c, "observe")
                  \/ hook[c].pc = "observe" /\ post(c, "retried")
               /\ UNCHANGED <<pending, tmp>>
      BY <1>3, <1>4, <2>2, ClaudePosts
    <2>3. CASE hook[c].pc = "retried" /\ SendOutcome(c, "write") /\ UNCHANGED <<pending, tmp>>
      BY <1>3, <1>4, <2>3, ClaudeSends
    <2>4. CASE Save(c) /\ UNCHANGED historyVars
      BY <1>3, <1>4, <2>4, ClaudeSaves
    <2> QED
      BY <1>4, <2>1, <2>2, <2>3, <2>4 DEF on_failure
  <1>5. CASE on_success(c)
    <2>0. tmp' = tmp
      BY <1>5 DEF on_success
    <2>1. CASE hook[c].pc = "reload" /\ Load(c, "worked") /\ UNCHANGED pending
      <3>1. PICK previous \in {pending[Key(c)], None} :
              /\ hook' = [hook EXCEPT ![c].pc = "worked", ![c].previous = previous]
              /\ earned' = IF previous = None THEN earned ELSE earned \cup {<<c, previous>>}
        BY <2>1 DEF Load
      <3>2. UNCHANGED <<known, outcomes, told, sent>>
        BY <2>1 DEF Load
      <3>3. previous \in Calls \cup {None}
        BY <1>3, <1>5, PastAreCalls DEF HooksTyped, History
      <3>4. HookGoes(c, "worked", previous, hook[c].down)
        BY <1>3, <1>5, <3>1, <3>3, GoesIs DEF SuccessPCs
      <3> QED
        BY <1>3, <1>5, <2>0, <2>1, <3>1, <3>2, <3>4, LoadsWell
    <2>2. CASE hook[c].pc = "succeeded" /\ post(c, "reload") /\ UNCHANGED pending
      BY <1>3, <1>5, <2>0, <2>2, ClaudePosts
    <2>3. CASE hook[c].pc = "worked" /\ SendOutcome(c, "clear") /\ UNCHANGED pending
      BY <1>3, <1>5, <2>0, <2>3, ClaudeSends
    <2>4. CASE /\ hook[c].pc = "clear" /\ ClearPending(c)
               /\ hook' = [hook EXCEPT ![c].pc = "done"] /\ UNCHANGED historyVars
      BY <1>3, <1>5, <2>0, <2>4, ClaudeClears
    <2> QED
      BY <1>5, <2>1, <2>2, <2>3, <2>4 DEF on_success
  <1> QED
    BY <1>1, <1>2, <1>4, <1>5

LEMMA ClaudeMeans ==
  ASSUME History, ClaudeInv, kind = "claude"
  PROVE  /\ ClaudeCreditsOnce
         /\ \A x \in earned : ClaudeSettled(x[1]) /\ ~hook[x[1]].down => x \in sent
  <1>1. /\ HooksTyped /\ RanTogether /\ EndedTyped /\ None \notin Calls /\ Past \subseteq Calls
        /\ \A d \in Calls : LoadedWell(d) /\ SentWell(d)
        /\ \A c \in Past : c \in Nat
    BY PastAreCalls DEF ClaudeInv, History, Calls
  <1>2. ASSUME NEW f \in Calls, NEW o \in Credited(f)
        PROVE  /\ o.call \in Past /\ f \in Past /\ Verdict(o.call) = "ok"
               /\ hook[o.call].previous = f /\ f # None
    <2>1. /\ o.failure = f /\ Verdict(o.call) = "ok" /\ <<o.call, o.failure>> \in sent
      BY <1>2 DEF Credited, History, OutcomesSent, IsSent
    <2>2. <<o.call, f>> \in earned /\ o.call \in Past /\ f \in Past
      BY <2>1 DEF History, PairsEarned
    <2> QED
      BY <1>1, <2>1, <2>2 DEF LoadedWell
  <1>3. ASSUME NEW f \in Calls, NEW o \in Credited(f), NEW p \in Credited(f), o.call # p.call
        PROVE  {o.call, p.call} \in together
    <2>1. PICK c \in Past : c = o.call
      BY <1>2
    <2>2. PICK d \in Past : d = p.call
      BY <1>2
    <2>3. /\ Verdict(c) = "ok" /\ Verdict(d) = "ok" /\ hook[c].previous = f
          /\ hook[d].previous = f /\ f # None
      BY <1>2, <2>1, <2>2
    <2>4. c < d \/ d < c
      BY <1>1, <1>3, <2>1, <2>2
    <2>5. {c, d} \in together
      <3>1. {c, d} = {d, c}
        OBVIOUS
      <3> QED
        BY <1>1, <2>3, <2>4, <3>1 DEF RanTogether
    <2> QED
      BY <2>1, <2>2, <2>5
  <1>4. ASSUME NEW f \in Calls, NEW o \in Credited(f), o.call < f
        PROVE  {o.call, f} \in together
    BY <1>1, <1>2, <1>4 DEF RanTogether
  <1>5. ASSUME NEW x \in earned, ClaudeSettled(x[1]), ~hook[x[1]].down
        PROVE  x \in sent
    <2>1. PICK c \in Past, f \in Past : x = <<c, f>>
      BY <1>5 DEF History, PairsEarned
    <2>2. hook[c].previous = f /\ f # None /\ hook[c].pc = "done" /\ ~hook[c].down
      BY <1>1, <1>5, <2>1 DEF LoadedWell, ClaudeSettled
    <2> QED
      BY <1>1, <2>1, <2>2 DEF SentWell
  <1> QED
    BY <1>3, <1>4, <1>5 DEF ClaudeCreditsOnce

LEMMA ClaudeBegins ==
  ASSUME ClaudeInit, ended = <<>>, earned = {}
  PROVE  ClaudeInv
  <1>1. Past = {}
    BY DEF Past
  <1>2. \A c \in Calls : hook[c] = [pc |-> "none", previous |-> None, down |-> FALSE]
    BY DEF ClaudeInit
  <1>3. \A c \in Calls : hook[c].pc = "none" /\ hook[c].previous = None
    BY <1>2
  <1>4. HooksTyped
    BY <1>1, <1>3 DEF ClaudeInit, HooksTyped, Hooks
  <1>5. FilesHold
    BY DEF ClaudeInit, FilesHold, KeyHolds
  <1>6. None \notin Calls
    BY CallsAssumption DEF Calls
  <1>7. \A c \in Calls : LoadedWell(c) /\ SentWell(c)
    BY <1>3, <1>6 DEF LoadedWell, SentWell
  <1>8. RanTogether
    BY <1>1 DEF RanTogether
  <1> QED
    BY <1>4, <1>5, <1>7, <1>8 DEF ClaudeInv

-----------------------------------------------------------------------------
(* The OpenCode plugin.                                                    *)

OpenTyped ==
  /\ lastFailure \in [OpenKeys -> Calls \cup {None}]
  /\ report \in [Calls -> {"none", "sent", "fingerprint", "null"}]
  /\ awaiting \in [Calls -> Calls \cup {None}]

ReportedWell(f) ==
  /\ report[f] # "none" => f \in Past /\ Verdict(f) \in Failures
  /\ report[f] = "fingerprint" <=> f \in told

\* A failure that may still be taken up was not.
LastWell(k) ==
  LET f == lastFailure[k]
  IN  f # None => /\ f \in Past /\ report[f] # "none" /\ OpenKey(Shape(f)) = k
                  /\ \A c \in Past : <<c, f>> \notin earned

\* A call that took one up waits for its report, has sent the outcome, or cannot.
AwaitsWell(c) ==
  /\ awaiting[c] # None => c \in Past /\ <<c, awaiting[c]>> \in earned \ sent
  /\ \A f \in Past : <<c, f>> \in earned =>
       awaiting[c] = f \/ <<c, f>> \in sent \/ report[f] = "null"

OpenInv ==
  /\ OpenTyped
  /\ \A k \in OpenKeys : LastWell(k)
  /\ \A c \in Calls : ReportedWell(c) /\ AwaitsWell(c)

LEMMA OpenStarts ==
  ASSUME History, OpenInv, kind = "opencode", NEW c \in Calls, NEW s \in Shapes,
         NEW v \in Failures \cup {"ok"}, Ends(c, s, v)
  PROVE  /\ EndedTyped /\ Past \subseteq Calls /\ None \notin Calls /\ "ok" \notin Failures
         /\ s \in KindShapes /\ OpenKey(s) \in OpenKeys /\ earned \subseteq Past \X Past
         /\ c \notin Past /\ Past' = Past \cup {c} /\ kind' = kind
         /\ Shape(c)' = s /\ Verdict(c)' = v
         /\ \A d \in Past : Shape(d)' = Shape(d) /\ Verdict(d)' = Verdict(d)
         /\ OpenTyped /\ \A k \in OpenKeys : LastWell(k)
         /\ \A d \in Calls : ReportedWell(d) /\ AwaitsWell(d)
         /\ awaiting[c] = None
  <1>1. /\ EndedTyped /\ OpenTyped /\ \A k \in OpenKeys : LastWell(k)
        /\ \A d \in Calls : ReportedWell(d) /\ AwaitsWell(d)
        /\ earned \subseteq Past \X Past
    BY DEF History, PairsEarned, OpenInv
  <1>2. s \in KindShapes
    BY DEF KindShapes
  <1>3. OpenKey(s) \in OpenKeys
    BY DEF Shapes, OpenKey, OpenKeys
  <1>4. /\ c \notin Past /\ Past' = Past \cup {c} /\ kind' = kind
        /\ ended'[c].shape = s /\ ended'[c].verdict = v
        /\ \A d \in Past : ended'[d] = ended[d]
    BY <1>1, <1>2, EndsIs
  <1>5. awaiting[c] = None
    BY <1>1, <1>4 DEF AwaitsWell
  <1> QED
    BY <1>1, <1>2, <1>3, <1>4, <1>5, PastAreCalls DEF Shape, Verdict

LEMMA OpenFails ==
  ASSUME History, OpenInv, kind = "opencode", NEW c \in Calls, NEW s \in Shapes,
         NEW class \in Failures, ToolFailed(c, s, class)
  PROVE  OpenInv' /\ History'
  <1>1. /\ Ends(c, s, class) /\ report' = [report EXCEPT ![c] = "sent"]
        /\ lastFailure' = IF class \in Transient THEN [lastFailure EXCEPT ![OpenKey(s)] = c]
                                                 ELSE lastFailure
        /\ awaiting' = awaiting /\ UNCHANGED historyVars
    BY DEF ToolFailed
  <1>2. /\ Past \subseteq Calls /\ None \notin Calls
        /\ s \in KindShapes /\ OpenKey(s) \in OpenKeys /\ earned \subseteq Past \X Past
        /\ c \notin Past /\ Past' = Past \cup {c}
        /\ Shape(c)' = s /\ Verdict(c)' = class
        /\ \A d \in Past : Shape(d)' = Shape(d) /\ Verdict(d)' = Verdict(d)
        /\ OpenTyped /\ \A k \in OpenKeys : LastWell(k)
        /\ \A d \in Calls : ReportedWell(d) /\ AwaitsWell(d)
        /\ awaiting[c] = None
    BY <1>1, OpenStarts
  <1>3. UNCHANGED <<known, outcomes, told, sent, earned>>
    BY <1>1 DEF historyVars
  <1>4. History'
    BY <1>1, <1>2, <1>3, EndsKeeps
  <1>5. /\ OpenTyped' /\ report'[c] = "sent" /\ \A d \in Calls : d # c => report'[d] = report[d]
        /\ \A k \in OpenKeys : \/ lastFailure'[k] = lastFailure[k]
                               \/ lastFailure'[k] = c /\ k = OpenKey(s)
    BY <1>1, <1>2 DEF OpenTyped
  <1>6. c \notin told
    BY <1>2 DEF History, ToldKnown
  <1>7. ASSUME NEW d \in Calls
        PROVE  ReportedWell(d)' /\ AwaitsWell(d)'
    <2>1. ReportedWell(d)'
      BY <1>2, <1>3, <1>5, <1>6 DEF ReportedWell
    <2>2. AwaitsWell(d)'
      BY <1>1, <1>2, <1>3, <1>5 DEF AwaitsWell
    <2> QED
      BY <2>1, <2>2
  <1>8. ASSUME NEW k \in OpenKeys
        PROVE  LastWell(k)'
    <2>1. CASE lastFailure'[k] = c /\ k = OpenKey(s)
      <3>1. \A d \in Past' : <<d, c>> \notin earned'
        BY <1>2, <1>3
      <3> QED
        BY <1>2, <1>5, <2>1, <3>1 DEF LastWell, OpenKey
    <2>2. CASE lastFailure'[k] = lastFailure[k]
      <3>1. PICK f : f = lastFailure[k] /\ f = lastFailure'[k]
        BY <2>2
      <3>2. CASE f # None
        <4>1. /\ f \in Past /\ f # c /\ report[f] # "none" /\ OpenKey(Shape(f)) = k
              /\ \A d \in Past : <<d, f>> \notin earned
          BY <1>2, <3>1, <3>2 DEF LastWell
        <4>2. Shape(f)' = Shape(f) /\ report'[f] # "none"
          BY <1>2, <1>5, <4>1
        <4>3. \A d \in Past' : <<d, f>> \notin earned'
          BY <1>2, <1>3, <4>1
        <4> QED
          BY <1>2, <3>1, <4>1, <4>2, <4>3 DEF LastWell, OpenKey, Shape
      <3> QED
        BY <3>1, <3>2 DEF LastWell
    <2> QED
      BY <1>5, <2>1, <2>2
  <1> QED
    BY <1>4, <1>5, <1>7, <1>8 DEF OpenInv

LEMMA OpenWorks ==
  ASSUME History, OpenInv, kind = "opencode", NEW c \in Calls, NEW s \in Shapes, ToolWorked(c, s)
  PROVE  OpenInv' /\ History'
  <1>1. /\ Ends(c, s, "ok") /\ report' = report /\ UNCHANGED <<known, outcomes, told, sent>>
    BY DEF ToolWorked
  <1>2. /\ Past \subseteq Calls /\ None \notin Calls
        /\ s \in KindShapes /\ OpenKey(s) \in OpenKeys /\ earned \subseteq Past \X Past
        /\ c \notin Past /\ Past' = Past \cup {c}
        /\ Shape(c)' = s /\ Verdict(c)' = "ok"
        /\ \A d \in Past : Shape(d)' = Shape(d) /\ Verdict(d)' = Verdict(d)
        /\ OpenTyped /\ \A k \in OpenKeys : LastWell(k)
        /\ \A d \in Calls : ReportedWell(d) /\ AwaitsWell(d)
        /\ awaiting[c] = None /\ sent \subseteq earned
    BY <1>1, OpenStarts DEF History, PairsEarned
  <1>3. PICK f : f = lastFailure[OpenKey(s)]
    OBVIOUS
  <1>4. \/ /\ f # None /\ lastFailure' = [lastFailure EXCEPT ![OpenKey(s)] = None]
           /\ awaiting' = [awaiting EXCEPT ![c] = f] /\ earned' = earned \cup {<<c, f>>}
        \/ UNCHANGED <<lastFailure, awaiting, earned>>
    BY <1>3 DEF ToolWorked, TakenUp
  <1>5. f # None => /\ f \in Past /\ f \in Calls /\ report[f] # "none" /\ OpenKey(Shape(f)) = OpenKey(s)
                    /\ \A d \in Past : <<d, f>> \notin earned
                    /\ Verdict(f) \in Failures
                    /\ Shape(f).session = s.session /\ Shape(f).tool = s.tool
    BY <1>2, <1>3 DEF LastWell, ReportedWell, OpenKey
  <1>6. History'
    BY <1>1, <1>2, <1>4, <1>5, EndsKeeps
  <1>7. /\ OpenTyped'
        /\ \A k \in OpenKeys : lastFailure'[k] \in {lastFailure[k], None}
        /\ \A d \in Calls : d # c => awaiting'[d] = awaiting[d]
    BY <1>1, <1>2, <1>4, <1>5 DEF OpenTyped
  <1>8. ASSUME NEW d \in Calls
        PROVE  ReportedWell(d)' /\ AwaitsWell(d)'
    <2>1. ReportedWell(d)'
      BY <1>1, <1>2 DEF ReportedWell
    <2>2. CASE d # c
      <3>1. \A g : <<d, g>> \in earned' <=> <<d, g>> \in earned
        BY <1>4, <2>2
      <3>2. AwaitsWell(d)'
        BY <1>1, <1>2, <1>7, <2>2, <3>1 DEF AwaitsWell
      <3> QED
        BY <2>1, <3>2
    <2>3. CASE d = c
      <3>1. \A g : <<c, g>> \notin earned /\ <<c, g>> \notin sent
        BY <1>2
      <3>2. CASE UNCHANGED <<lastFailure, awaiting, earned>>
        BY <1>2, <2>1, <2>3, <3>1, <3>2 DEF AwaitsWell
      <3>3. CASE /\ f # None /\ awaiting' = [awaiting EXCEPT ![c] = f]
                 /\ earned' = earned \cup {<<c, f>>}
        <4>1. awaiting'[c] = f /\ \A g : <<c, g>> \in earned' <=> g = f
          BY <1>2, <3>1, <3>3 DEF OpenTyped
        <4>2. AwaitsWell(d)'
          BY <1>1, <1>2, <2>3, <3>1, <3>3, <4>1 DEF AwaitsWell
        <4> QED
          BY <2>1, <4>2
      <3> QED
        BY <1>4, <3>2, <3>3
    <2> QED
      BY <2>2, <2>3
  <1>9. ASSUME NEW k \in OpenKeys
        PROVE  LastWell(k)'
    <2>1. CASE lastFailure'[k] = None
      BY <2>1 DEF LastWell
    <2>2. CASE lastFailure'[k] # None
      <3>1. PICK g : g = lastFailure[k] /\ g = lastFailure'[k] /\ g # None
        BY <1>7, <2>2
      <3>2. /\ g \in Past /\ report[g] # "none" /\ OpenKey(Shape(g)) = k
            /\ \A d \in Past : <<d, g>> \notin earned
        BY <1>2, <3>1 DEF LastWell
      <3>3. \A d \in Past' : <<d, g>> \notin earned'
        <4>1. CASE UNCHANGED <<lastFailure, awaiting, earned>>
          BY <1>2, <3>2, <4>1
        <4>2. CASE /\ lastFailure' = [lastFailure EXCEPT ![OpenKey(s)] = None]
                   /\ earned' = earned \cup {<<c, f>>}
          <5>1. k # OpenKey(s)
            BY <1>2, <3>1, <4>2 DEF OpenTyped
          <5>2. g # f
            BY <1>2, <1>3, <1>5, <3>1, <3>2, <5>1
          <5> QED
            BY <1>2, <3>2, <4>2, <5>2
        <4> QED
          BY <1>4, <4>1, <4>2
      <3>4. Shape(g)' = Shape(g)
        BY <1>2, <3>2
      <3> QED
        BY <1>1, <1>2, <3>1, <3>2, <3>3, <3>4 DEF LastWell, OpenKey, Shape
    <2> QED
      BY <2>1, <2>2
  <1> QED
    BY <1>6, <1>7, <1>8, <1>9 DEF OpenInv

LEMMA OpenReports ==
  ASSUME History, OpenInv, kind = "opencode", NEW c \in Calls, ReportEnds(c)
  PROVE  OpenInv' /\ History'
  <1>1. /\ OpenTyped /\ \A k \in OpenKeys : LastWell(k)
        /\ \A d \in Calls : ReportedWell(d) /\ AwaitsWell(d)
    BY DEF OpenInv
  <1>2. PICK answered \in BOOLEAN :
          /\ PostReport(c, answered)
          /\ report' = [report EXCEPT ![c] = IF answered THEN "fingerprint" ELSE "null"]
          /\ told' = IF answered THEN told \cup {c} ELSE told
    BY DEF ReportEnds
  <1>3. /\ report[c] = "sent"
        /\ UNCHANGED <<agentVars, earned, sent, lastFailure, awaiting, kind, ended>>
    BY DEF ReportEnds, agentVars
  <1>4. c \in Past /\ Verdict(c) \in Failures
    BY <1>1, <1>3 DEF ReportedWell
  <1>5. History'
    BY <1>2, <1>3, <1>4, ReportKeeps
  <1>6. Past' = Past /\ \A d \in Past : Shape(d)' = Shape(d) /\ Verdict(d)' = Verdict(d)
    BY <1>3 DEF Past, Shape, Verdict
  <1>7. /\ OpenTyped' /\ report'[c] = IF answered THEN "fingerprint" ELSE "null"
        /\ \A d \in Calls : d # c => report'[d] = report[d]
    BY <1>1, <1>2, <1>3 DEF OpenTyped
  <1>8. c \notin told
    BY <1>1, <1>3 DEF ReportedWell
  <1>9. ASSUME NEW d \in Calls
        PROVE  ReportedWell(d)' /\ AwaitsWell(d)'
    <2>1. ReportedWell(d)'
      BY <1>1, <1>2, <1>4, <1>6, <1>7, <1>8 DEF ReportedWell
    <2>2. \A f \in Past : f \in Calls /\ (report[f] = "null" => report'[f] = "null")
      BY <1>3, <1>7, PastAreCalls DEF History
    <2>3. AwaitsWell(d)'
      BY <1>1, <1>3, <1>6, <2>2 DEF AwaitsWell
    <2> QED
      BY <2>1, <2>3
  <1>10. ASSUME NEW k \in OpenKeys
         PROVE  LastWell(k)'
    <2>1. PICK f : f = lastFailure[k] /\ f = lastFailure'[k]
      BY <1>3
    <2>2. CASE f # None
      <3>1. /\ f \in Past /\ report[f] # "none" /\ OpenKey(Shape(f)) = k
            /\ \A d \in Past : <<d, f>> \notin earned
        BY <1>1, <2>1, <2>2 DEF LastWell
      <3>2. f \in Calls
        BY <3>1, PastAreCalls DEF History
      <3>3. report'[f] # "none" /\ Shape(f)' = Shape(f)
        BY <1>6, <1>7, <3>1, <3>2
      <3> QED
        BY <1>3, <1>6, <2>1, <3>1, <3>3 DEF LastWell, OpenKey
    <2> QED
      BY <2>1, <2>2 DEF LastWell
  <1> QED
    BY <1>5, <1>7, <1>9, <1>10 DEF OpenInv

LEMMA OpenAnswers ==
  ASSUME History, OpenInv, kind = "opencode", NEW c \in Calls, FingerprintThere(c)
  PROVE  OpenInv' /\ History'
  <1>1. /\ OpenTyped /\ \A k \in OpenKeys : LastWell(k)
        /\ \A d \in Calls : ReportedWell(d) /\ AwaitsWell(d)
    BY DEF OpenInv
  <1>2. PICK f : f = awaiting[c]
    OBVIOUS
  <1>3. /\ f # None /\ report[f] \in {"fingerprint", "null"}
        /\ awaiting' = [awaiting EXCEPT ![c] = None]
        /\ UNCHANGED <<agentVars, told, earned, lastFailure, report, kind, ended>>
    BY <1>2 DEF FingerprintThere, agentVars
  <1>4. /\ c \in Past /\ <<c, f>> \in earned /\ <<c, f>> \notin sent /\ f \in Past /\ f \in Calls
    BY <1>1, <1>2, <1>3, PastAreCalls DEF AwaitsWell, History, PairsEarned
  <1>5. /\ History'
        /\ (sent' = sent /\ report[f] = "null") \/ sent' = sent \cup {<<c, f>>}
    <2>1. CASE report[f] = "null"
      <3>1. UNCHANGED <<known, outcomes, sent>>
        BY <1>2, <2>1 DEF FingerprintThere
      <3> QED
        BY <1>3, <2>1, <3>1, HistoryStays DEF historyVars
    <2>2. CASE report[f] # "null"
      <3>1. PICK answered \in BOOLEAN : PostOutcome(c, f, Fingerprint(f), answered)
        BY <1>2, <2>2 DEF FingerprintThere
      <3>2. sent' = sent \cup {<<c, f>>}
        BY <1>2, <2>2 DEF FingerprintThere
      <3>3. f \in told
        BY <1>1, <1>3, <1>4, <2>2 DEF ReportedWell
      <3>4. Fingerprint(f) \in known /\ Fingerprint(f)[1] = Shape(f).tool
        BY <3>3 DEF History, ToldKnown, Fingerprint, FingerprintIf
      <3>5. PICK fingerprint \in known : fingerprint = Fingerprint(f)
        BY <3>4
      <3> QED
        BY <1>3, <1>4, <3>1, <3>2, <3>4, <3>5, OutcomeKeeps
    <2> QED
      BY <2>1, <2>2
  <1>6. Past' = Past /\ \A d \in Past : Shape(d)' = Shape(d) /\ Verdict(d)' = Verdict(d)
    BY <1>3 DEF Past, Shape, Verdict
  <1>7. /\ OpenTyped' /\ awaiting'[c] = None
        /\ \A d \in Calls : d # c => awaiting'[d] = awaiting[d]
    BY <1>1, <1>3 DEF OpenTyped
  <1>8. ASSUME NEW d \in Calls
        PROVE  ReportedWell(d)' /\ AwaitsWell(d)'
    <2>1. ReportedWell(d)'
      BY <1>1, <1>3, <1>6 DEF ReportedWell
    <2>2. CASE d # c
      <3>1. \A g : <<d, g>> \in sent' <=> <<d, g>> \in sent
        BY <1>5, <2>2
      <3> QED
        BY <1>1, <1>3, <1>6, <1>7, <2>1, <2>2, <3>1 DEF AwaitsWell
    <2>3. CASE d = c
      <3>1. \A g \in Past : <<c, g>> \in earned =>
              <<c, g>> \in sent' \/ report[g] = "null"
        BY <1>1, <1>2, <1>5 DEF AwaitsWell
      <3> QED
        BY <1>3, <1>6, <1>7, <2>1, <2>3, <3>1 DEF AwaitsWell
    <2> QED
      BY <2>2, <2>3
  <1>9. ASSUME NEW k \in OpenKeys
        PROVE  LastWell(k)'
    <2>1. PICK g : g = lastFailure[k] /\ g = lastFailure'[k]
      BY <1>3
    <2>2. CASE g # None
      <3>1. /\ g \in Past /\ report[g] # "none" /\ OpenKey(Shape(g)) = k
            /\ \A d \in Past : <<d, g>> \notin earned
        BY <1>1, <2>1, <2>2 DEF LastWell
      <3> QED
        BY <1>3, <1>6, <2>1, <3>1 DEF LastWell, OpenKey
    <2> QED
      BY <2>1, <2>2 DEF LastWell
  <1> QED
    BY <1>5, <1>7, <1>8, <1>9 DEF OpenInv

LEMMA OpenStep ==
  ASSUME History, OpenInv, kind = "opencode", OpenNext
  PROVE  OpenInv' /\ History'
  <1>1. PICK c \in Calls :
          \/ ReportEnds(c) \/ FingerprintThere(c)
          \/ \E s \in Shapes : ToolWorked(c, s) \/ \E class \in Failures : ToolFailed(c, s, class)
    BY DEF OpenNext
  <1> QED
    BY <1>1, OpenReports, OpenAnswers, OpenWorks, OpenFails

LEMMA OpenMeans ==
  ASSUME History, OpenInv
  PROVE  \A x \in earned : OpenSettled(x[1]) /\ x[2] \in told => x \in sent
  <1> SUFFICES ASSUME NEW x \in earned, OpenSettled(x[1]), x[2] \in told
               PROVE  x \in sent
    OBVIOUS
  <1>1. PICK c \in Past, f \in Past : x = <<c, f>>
    BY DEF History, PairsEarned
  <1>2. c \in Calls /\ f \in Calls /\ None \notin Calls
    BY <1>1, PastAreCalls DEF History
  <1>3. awaiting[c] = None /\ f \in told
    BY <1>1 DEF OpenSettled
  <1>4. report[f] = "fingerprint"
    BY <1>2, <1>3 DEF OpenInv, ReportedWell
  <1>5. AwaitsWell(c)
    BY <1>2 DEF OpenInv
  <1> QED
    BY <1>1, <1>2, <1>3, <1>4, <1>5 DEF AwaitsWell

LEMMA OpenBegins ==
  ASSUME OpenInit, ended = <<>>, earned = {}, told = {}
  PROVE  OpenInv
  <1>1. Past = {}
    BY DEF Past
  <1>2. /\ OpenTyped /\ \A k \in OpenKeys : lastFailure[k] = None
        /\ \A c \in Calls : report[c] = "none" /\ awaiting[c] = None
    BY DEF OpenInit, OpenTyped
  <1> QED
    BY <1>1, <1>2 DEF OpenInv, LastWell, ReportedWell, AwaitsWell

-----------------------------------------------------------------------------
(* The proxy of the npm package.                                           *)

Tasks == [what : {"observe", "outcome"}, call : Calls, failure : Calls \cup {None}]

Told == Tools \X (Failures \cup {"any"})

Held == (Tools \X Failures) \cup {None}

NpmTyped ==
  /\ fingerprints \in [Told -> Held] /\ DOMAIN retryable \subseteq ProcessShapes
  /\ chain \in Seq(Tasks) /\ inflight \in Nat
  /\ phase \in {"open", "closing", "finishing", "exited"}

\* A fingerprint is the network's, and kept under its own tool and class.
OwnWell(t, v) ==
  /\ fingerprints[<<t, v>>] \in {None, <<t, v>>}
  /\ fingerprints[<<t, v>>] # None => fingerprints[<<t, v>>] \in known

AnyWell(t) ==
  fingerprints[<<t, "any">>] # None =>
    fingerprints[<<t, "any">>] \in known /\ fingerprints[<<t, "any">>][1] = t

ToldWell == \A f \in told : fingerprints[Fingerprint(f)] = Fingerprint(f)

FingerprintsWell ==
  (\A t \in Tools : AnyWell(t)) /\ (\A t \in Tools, v \in Failures : OwnWell(t, v)) /\ ToldWell

\* A failure that may still be taken up was not.
RetryableWell(s) ==
  LET f == retryable[s]
  IN  /\ f \in Past /\ Shape(f) = s /\ Verdict(f) \in Failures
      /\ \A c \in Past : <<c, f>> \notin earned

\* What the chain has still to do, and in which order.
TaskWell(i) ==
  /\ chain[i].call \in Past
  /\ chain[i].what = "outcome" =>
       /\ <<chain[i].call, chain[i].failure>> \in earned
       /\ <<chain[i].call, chain[i].failure>> \notin sent
       /\ chain[i].failure < chain[i].call

InOrder(i, j) ==
  i < j /\ (chain[i].what = "outcome" \/ chain[j].what = "observe") =>
    chain[i].call < chain[j].call

ChainWell ==
  \A i \in 1 .. Len(chain) : TaskWell(i) /\ \A j \in 1 .. Len(chain) : InOrder(i, j)

IsOutcome(i, c, f) == chain[i].what = "outcome" /\ chain[i].call = c /\ chain[i].failure = f
Observes(i, f) == chain[i].what = "observe" /\ chain[i].call = f

\* The outcome of a call is still to be sent, or the report of its failure is done with.
PairWell(c, f) ==
  <<c, f>> \in earned =>
    \/ \E i \in 1 .. Len(chain) : IsOutcome(i, c, f)
    \/ /\ \A i \in 1 .. Len(chain) : ~Observes(i, f)
       /\ <<c, f>> \in sent \/ f \notin told \/ phase = "exited"

ProcessEnds ==
  /\ phase \in {"finishing", "exited"} /\ remote => inflight = 0
  /\ phase = "exited" => holding = {}

NpmInv ==
  /\ NpmTyped /\ FingerprintsWell /\ ChainWell /\ ProcessEnds
  /\ \A s \in DOMAIN retryable : RetryableWell(s)
  /\ \A c, f \in Past : PairWell(c, f)

\* What NpmInv says of the chain holds whatever happens elsewhere.
LEMMA ChainStays ==
  ASSUME NpmInv, History,
         UNCHANGED <<chain, earned, sent, told, known, kind, ended, retryable, fingerprints>>,
         phase' = "exited" \/ phase # "exited"
  PROVE  /\ FingerprintsWell' /\ ChainWell' /\ \A s \in DOMAIN retryable' : RetryableWell(s)'
         /\ \A c, f \in Past' : PairWell(c, f)'
  <1>1. Past' = Past /\ \A d : Shape(d)' = Shape(d) /\ Verdict(d)' = Verdict(d)
                              /\ Fingerprint(d)' = Fingerprint(d)
    BY DEF Past, Shape, Verdict, Fingerprint, FingerprintIf
  <1>2. FingerprintsWell'
    <2>1. ASSUME NEW t \in Tools
          PROVE  AnyWell(t)'
      <3>1. AnyWell(t)
        BY DEF NpmInv, FingerprintsWell
      <3> QED
        BY <3>1 DEF AnyWell
    <2>2. ASSUME NEW t \in Tools, NEW v \in Failures
          PROVE  OwnWell(t, v)'
      <3>1. OwnWell(t, v)
        BY DEF NpmInv, FingerprintsWell
      <3> QED
        BY <3>1 DEF OwnWell
    <2>3. ToldWell'
      BY <1>1 DEF NpmInv, FingerprintsWell, ToldWell
    <2> QED
      BY <2>1, <2>2, <2>3 DEF FingerprintsWell
  <1>3. ChainWell'
    BY <1>1 DEF NpmInv, ChainWell, TaskWell, InOrder
  <1>4. ASSUME NEW s \in DOMAIN retryable'
        PROVE  RetryableWell(s)'
    BY <1>1 DEF NpmInv, RetryableWell
  <1>5. ASSUME NEW c \in Past', NEW f \in Past'
        PROVE  PairWell(c, f)'
    BY <1>1 DEF NpmInv, PairWell, IsOutcome, Observes
  <1> QED
    BY <1>2, <1>3, <1>4, <1>5

\* The map of failures only loses entries, but for the one that is put there.
LEMMA RetryableIs ==
  ASSUME NEW s, NEW c, NEW v,
         retryable' = IF v \in Transient THEN Put(Bounded(Others(s)), s, c) ELSE Others(s)
  PROVE  \A x \in DOMAIN retryable' :
           \/ x = s /\ retryable'[x] = c /\ v \in Transient
           \/ x # s /\ x \in DOMAIN retryable /\ retryable'[x] = retryable[x]
  <1>1. DOMAIN Others(s) = DOMAIN retryable \ {s}
        /\ \A x \in DOMAIN Others(s) : Others(s)[x] = retryable[x]
    BY DEF Others
  <1>2. PICK map : map = Others(s)
    OBVIOUS
  <1>3. DOMAIN Bounded(map) \subseteq DOMAIN map /\ \A x \in DOMAIN Bounded(map) : Bounded(map)[x] = map[x]
    BY DEF Bounded
  <1>4. PICK kept : kept = Bounded(map)
    OBVIOUS
  <1>5. \A x \in DOMAIN Put(kept, s, c) :
          \/ x = s /\ Put(kept, s, c)[x] = c
          \/ x # s /\ x \in DOMAIN kept /\ Put(kept, s, c)[x] = kept[x]
    BY DEF Put
  <1>6. CASE v \in Transient
    <2>1. retryable' = Put(kept, s, c)
      BY <1>2, <1>4, <1>6
    <2> QED
      BY <1>1, <1>2, <1>3, <1>4, <1>5, <1>6, <2>1
  <1>7. CASE v \notin Transient
    BY <1>1, <1>7
  <1> QED
    BY <1>6, <1>7

LEMMA ChainGrows ==
  ASSUME chain \in Seq(Tasks), NEW tasks \in Seq(Tasks), chain' = chain \o tasks
  PROVE  /\ chain' \in Seq(Tasks) /\ Len(chain) \in Nat /\ Len(chain') = Len(chain) + Len(tasks)
         /\ \A i \in 1 .. Len(chain) : chain'[i] = chain[i]
         /\ \A i \in 1 .. Len(chain') : i > Len(chain) => chain'[i] = tasks[i - Len(chain)]
  <1>1. Len(chain) \in Nat /\ Len(tasks) \in Nat
    BY LenProperties
  <1> QED
    BY <1>1, ConcatProperties

\* A call of the proxy that has ended.
LEMMA PastIs ==
  ASSUME EndedTyped, NEW d \in Past
  PROVE  /\ d \in Calls /\ d \in Nat
         /\ Verdict(d) \in Failures \cup {"ok"}
         /\ kind = "npm" => Shape(d).tool \in Tools
  <1>1. ended[d] \in Entries
    BY ElementOfSeq DEF EndedTyped, Past
  <1>2. Verdict(d) \in Failures \cup {"ok"} /\ Shape(d) \in KindShapes
    BY <1>1 DEF Entries, Verdict, Shape
  <1>3. kind = "npm" => Shape(d).tool \in Tools
    BY <1>2 DEF KindShapes, ProcessShapes
  <1>4. d \in Calls /\ d \in Nat
    BY PastAreCalls DEF Past, Calls
  <1> QED
    BY <1>2, <1>3, <1>4

\* An answer comes: one or two tasks more on the chain.
LEMMA NpmEnds ==
  ASSUME History, NpmInv, kind = "npm", NEW c \in Calls, FromServer(c)
  PROVE  NpmInv' /\ History'
  <1>1. PICK s \in ProcessShapes, v \in Failures \cup {"ok"} :
          /\ phase \in {"open", "closing"} /\ inflight > 0
          /\ inflight' = inflight - 1 /\ Ends(c, s, v) /\ Inferred(c, s, v)
          /\ UNCHANGED <<known, outcomes, told, sent, fingerprints, remote, phase>>
    BY DEF FromServer
  <1>2. /\ NpmTyped /\ FingerprintsWell /\ ChainWell /\ ProcessEnds
        /\ \A x \in DOMAIN retryable : RetryableWell(x)
        /\ \A d, g \in Past : PairWell(d, g)
        /\ EndedTyped /\ earned \subseteq Past \X Past /\ sent \subseteq earned
    BY DEF NpmInv, History, PairsEarned
  <1>3. s \in KindShapes
    BY DEF KindShapes
  <1>4. /\ c \in Nat /\ c \notin Past /\ Past' = Past \cup {c} /\ kind' = kind
        /\ ended'[c].shape = s /\ ended'[c].verdict = v
        /\ \A d \in Past : ended'[d] = ended[d] /\ d < c /\ d \in Nat /\ d \in Calls
    BY <1>1, <1>2, <1>3, EndsIs, PastIs
  <1>5. /\ Shape(c)' = s /\ Verdict(c)' = v
        /\ \A d \in Past : /\ Shape(d)' = Shape(d) /\ Verdict(d)' = Verdict(d)
                           /\ Fingerprint(d)' = Fingerprint(d)
    BY <1>4 DEF Shape, Verdict, Fingerprint, FingerprintIf
  <1> DEFINE observed == [what |-> "observe", call |-> c, failure |-> None]
             outcome  == [what |-> "outcome", call |-> c, failure |-> retryable[s]]
             Taken    == s \in DOMAIN retryable /\ chain' = chain \o <<observed, outcome>>
                         /\ earned' = earned \cup {<<c, retryable[s]>>}
             Untaken  == chain' = chain \o <<observed>> /\ earned' = earned
  <1>6. /\ Taken \/ Untaken
        /\ retryable' = IF v \in Transient THEN Put(Bounded(Others(s)), s, c) ELSE Others(s)
    BY <1>1 DEF Inferred, Enqueue
  <1>7. PICK f : f = retryable[s]
    OBVIOUS
  <1>8. s \in DOMAIN retryable => /\ f \in Past /\ Shape(f) = s /\ Verdict(f) \in Failures
                                  /\ \A d \in Past : <<d, f>> \notin earned
    BY <1>2, <1>7 DEF RetryableWell
  <1>9. History'
    BY <1>1, <1>3, <1>4, <1>6, <1>7, <1>8, EndsKeeps
  <1>10. /\ observed.what = "observe" /\ observed.call = c
         /\ outcome.what = "outcome" /\ outcome.call = c /\ outcome.failure = f
         /\ observed \in Tasks /\ (f \in Past => outcome \in Tasks)
    BY <1>4, <1>7 DEF Tasks
  <1>11. PICK n : n = Len(chain) /\ n \in Nat
    BY <1>2, LenProperties DEF NpmTyped
  <1> HIDE DEF observed, outcome
  <1>12. /\ chain' \in Seq(Tasks) /\ Len(chain') \in Nat /\ n < Len(chain')
         /\ \A i \in 1 .. n : i \in 1 .. Len(chain') /\ chain'[i] = chain[i]
         /\ \A i \in 1 .. Len(chain') :
              \/ i \in 1 .. n
              \/ i = n + 1 /\ chain'[i] = observed
              \/ i = n + 2 /\ chain'[i] = outcome /\ Taken
         /\ Taken => n + 2 \in 1 .. Len(chain') /\ chain'[n + 2] = outcome
    <2>1. CASE Taken
      <3>1. f \in Past
        BY <1>8, <2>1
      <3>2. PICK tasks : tasks = <<observed, outcome>>
        OBVIOUS
      <3>3. /\ tasks \in Seq(Tasks) /\ Len(tasks) = 2
            /\ tasks[1] = observed /\ tasks[2] = outcome
        BY <1>10, <3>1, <3>2
      <3>4. chain' = chain \o tasks /\ chain \in Seq(Tasks)
        BY <1>2, <2>1, <3>2 DEF NpmTyped
      <3>5. /\ chain' \in Seq(Tasks) /\ Len(chain') = n + 2
            /\ \A i \in 1 .. n : chain'[i] = chain[i]
            /\ \A i \in 1 .. Len(chain') : i > n => chain'[i] = tasks[i - n]
        BY <1>11, <3>3, <3>4, ChainGrows
      <3>6. chain'[n + 1] = observed /\ chain'[n + 2] = outcome
        <4>1. n + 1 \in 1 .. Len(chain') /\ n + 2 \in 1 .. Len(chain')
          BY <1>11, <3>5
        <4>2. (n + 1) - n = 1 /\ (n + 2) - n = 2
          BY <1>11
        <4>3. chain'[n + 1] = tasks[(n + 1) - n] /\ chain'[n + 2] = tasks[(n + 2) - n]
          BY <1>11, <3>5, <4>1
        <4> QED
          BY <3>3, <4>2, <4>3
      <3> QED
        BY <1>11, <2>1, <3>5, <3>6
    <2>2. CASE Untaken /\ ~Taken
      <3>2. PICK tasks : tasks = <<observed>>
        OBVIOUS
      <3>3. tasks \in Seq(Tasks) /\ Len(tasks) = 1 /\ tasks[1] = observed
        BY <1>10, <3>2
      <3>4. chain' = chain \o tasks /\ chain \in Seq(Tasks)
        BY <1>2, <2>2, <3>2 DEF NpmTyped
      <3>5. /\ chain' \in Seq(Tasks) /\ Len(chain') = n + 1
            /\ \A i \in 1 .. n : chain'[i] = chain[i]
            /\ \A i \in 1 .. Len(chain') : i > n => chain'[i] = tasks[i - n]
        BY <1>11, <3>3, <3>4, ChainGrows
      <3>6. chain'[n + 1] = observed
        <4>1. n + 1 \in 1 .. Len(chain') /\ (n + 1) - n = 1
          BY <1>11, <3>5
        <4> QED
          BY <1>11, <3>3, <3>5, <4>1
      <3> QED
        BY <1>11, <2>2, <3>5, <3>6
    <2> QED
      BY <1>6, <2>1, <2>2
  <1>13. ChainWell'
    <2>1. ASSUME NEW i \in 1 .. Len(chain')
          PROVE  TaskWell(i)'
      <3>1. CASE i \in 1 .. n
        <4>1. TaskWell(i) /\ chain'[i] = chain[i]
          BY <1>2, <1>11, <1>12, <3>1 DEF ChainWell
        <4> QED
          BY <1>1, <1>4, <1>6, <4>1 DEF TaskWell
      <3>2. CASE i = n + 1 /\ chain'[i] = observed
        BY <1>4, <1>10, <3>2 DEF TaskWell
      <3>3. CASE i = n + 2 /\ chain'[i] = outcome /\ Taken
        <4>1. <<c, f>> \in earned' /\ <<c, f>> \notin sent' /\ f < c
          BY <1>1, <1>2, <1>4, <1>7, <1>8, <3>3
        <4> QED
          BY <1>4, <1>10, <3>3, <4>1 DEF TaskWell
      <3> QED
        BY <1>12, <3>1, <3>2, <3>3
    <2>2. ASSUME NEW i \in 1 .. Len(chain'), NEW j \in 1 .. Len(chain')
          PROVE  InOrder(i, j)'
      <3>1. CASE i \in 1 .. n /\ j \in 1 .. n
        <4>1. InOrder(i, j) /\ chain'[i] = chain[i] /\ chain'[j] = chain[j]
          BY <1>2, <1>11, <1>12, <3>1 DEF ChainWell
        <4> QED
          BY <4>1 DEF InOrder
      <3>2. CASE i \in 1 .. n /\ j \notin 1 .. n
        <4>1. chain'[i].call < c
          <5>1. TaskWell(i) /\ chain'[i] = chain[i]
            BY <1>2, <1>11, <1>12, <3>2 DEF ChainWell
          <5> QED
            BY <1>4, <5>1 DEF TaskWell
        <4>2. chain'[j].call = c
          BY <1>10, <1>12, <3>2
        <4> QED
          BY <4>1, <4>2 DEF InOrder
      <3>3. CASE i \notin 1 .. n
        <4>1. i < j => i = n + 1 /\ chain'[i] = observed /\ j = n + 2 /\ chain'[j] = outcome
          BY <1>11, <1>12, <3>3
        <4> QED
          BY <1>10, <4>1 DEF InOrder
      <3> QED
        BY <3>1, <3>2, <3>3
    <2> QED
      BY <2>1, <2>2 DEF ChainWell
  <1>14. ASSUME NEW d \in Past', NEW g \in Past'
         PROVE  PairWell(d, g)'
    <2>1. CASE <<d, g>> \in earned
      <3>1. PairWell(d, g) /\ g \in Past /\ g # c
        BY <1>2, <1>4, <2>1
      <3>2. ASSUME NEW i \in 1 .. Len(chain), IsOutcome(i, d, g)
            PROVE  i \in 1 .. Len(chain') /\ IsOutcome(i, d, g)'
        <4>1. i \in 1 .. Len(chain') /\ chain'[i] = chain[i]
          BY <1>11, <1>12, <3>2
        <4> QED
          BY <3>2, <4>1 DEF IsOutcome
      <3>3. ASSUME \A i \in 1 .. Len(chain) : ~Observes(i, g), NEW i \in 1 .. Len(chain')
            PROVE  ~Observes(i, g)'
        <4>1. CASE i \in 1 .. n
          BY <1>11, <1>12, <3>3, <4>1 DEF Observes
        <4>2. CASE i \notin 1 .. n
          BY <1>10, <1>12, <3>1, <4>2 DEF Observes
        <4> QED
          BY <4>1, <4>2
      <3>4. CASE \E i \in 1 .. Len(chain) : IsOutcome(i, d, g)
        BY <3>2, <3>4 DEF PairWell
      <3>5. CASE /\ \A i \in 1 .. Len(chain) : ~Observes(i, g)
                 /\ <<d, g>> \in sent \/ g \notin told \/ phase = "exited"
        BY <1>1, <3>3, <3>5 DEF PairWell
      <3> QED
        BY <2>1, <3>1, <3>4, <3>5 DEF PairWell
    <2>2. CASE <<d, g>> \notin earned /\ <<d, g>> \in earned'
      <3>1. Taken /\ d = c /\ g = f
        BY <1>6, <1>7, <2>2
      <3>2. IsOutcome(n + 2, d, g)' /\ n + 2 \in 1 .. Len(chain')
        BY <1>10, <1>12, <3>1 DEF IsOutcome
      <3> QED
        BY <3>2 DEF PairWell
    <2>3. CASE <<d, g>> \notin earned'
      BY <2>3 DEF PairWell
    <2> QED
      BY <2>1, <2>2, <2>3
  <1>15. ASSUME NEW x \in DOMAIN retryable'
         PROVE  RetryableWell(x)' /\ x \in ProcessShapes
    <2>1. \/ x = s /\ retryable'[x] = c /\ v \in Transient
          \/ x # s /\ x \in DOMAIN retryable /\ retryable'[x] = retryable[x]
      BY <1>6, RetryableIs
    <2>2. CASE x = s /\ retryable'[x] = c /\ v \in Transient
      <3>1. v \in Failures
        BY <2>2 DEF Failures
      <3>2. \A d \in Past' : <<d, c>> \notin earned'
        BY <1>2, <1>4, <1>6, <1>7, <1>8
      <3> QED
        BY <1>4, <1>5, <2>2, <3>1, <3>2 DEF RetryableWell
    <2>3. CASE x # s /\ x \in DOMAIN retryable /\ retryable'[x] = retryable[x]
      <3>1. PICK g : g = retryable[x] /\ g = retryable'[x]
        BY <2>3
      <3>2. /\ g \in Past /\ Shape(g) = x /\ Verdict(g) \in Failures
            /\ \A d \in Past : <<d, g>> \notin earned
        BY <1>2, <2>3, <3>1 DEF RetryableWell
      <3>3. \A d \in Past' : <<d, g>> \notin earned'
        BY <1>2, <1>4, <1>6, <1>7, <1>8, <2>3, <3>2
      <3>4. Shape(g)' = x /\ Verdict(g)' \in Failures /\ g \in Past'
        BY <1>4, <1>5, <3>2
      <3>5. x \in ProcessShapes
        BY <1>2, <2>3 DEF NpmTyped
      <3> QED
        BY <3>1, <3>3, <3>4, <3>5 DEF RetryableWell
    <2> QED
      BY <2>1, <2>2, <2>3
  <1>16. FingerprintsWell'
    <2>1. ASSUME NEW t \in Tools
          PROVE  AnyWell(t)'
      BY <1>1, <1>2 DEF FingerprintsWell, AnyWell
    <2>2. ASSUME NEW t \in Tools, NEW w \in Failures
          PROVE  OwnWell(t, w)'
      <3>1. OwnWell(t, w)
        BY <1>2 DEF FingerprintsWell
      <3> QED
        BY <1>1, <3>1 DEF OwnWell
    <2>3. ToldWell'
      <3>1. \A g \in told : g \in Past
        BY DEF History, ToldKnown
      <3> QED
        BY <1>1, <1>2, <1>5, <3>1 DEF FingerprintsWell, ToldWell
    <2> QED
      BY <2>1, <2>2, <2>3 DEF FingerprintsWell
  <1>17. NpmTyped'
    BY <1>1, <1>2, <1>12, <1>15 DEF NpmTyped
  <1>18. ProcessEnds'
    BY <1>1 DEF ProcessEnds
  <1> QED
    BY <1>9, <1>13, <1>14, <1>15, <1>16, <1>17, <1>18 DEF NpmInv

LEMMA ChainShrinks ==
  ASSUME chain \in Seq(Tasks), chain # <<>>, chain' = Tail(chain)
  PROVE  /\ chain' \in Seq(Tasks) /\ Head(chain) = chain[1]
         /\ Len(chain) \in Nat /\ 1 \in 1 .. Len(chain) /\ chain[1] \in Tasks
         /\ \A i \in 1 .. Len(chain') : i \in Nat /\ i + 1 \in 1 .. Len(chain) /\ chain'[i] = chain[i + 1]
         /\ \A i \in 1 .. Len(chain) : i # 1 => i - 1 \in 1 .. Len(chain') /\ chain'[i - 1] = chain[i]
  <1>1. /\ Len(chain) \in Nat /\ Len(chain) # 0 /\ Head(chain) = chain[1]
        /\ chain' \in Seq(Tasks) /\ Len(chain') = Len(chain) - 1
        /\ \A i \in 1 .. Len(chain') : chain'[i] = chain[i + 1]
    BY HeadTailProperties, LenProperties, EmptySeq
  <1>2. 1 \in 1 .. Len(chain)
    BY <1>1
  <1>3. chain[1] \in Tasks
    BY <1>2, ElementOfSeq
  <1>4. \A i \in 1 .. Len(chain) : i # 1 => i - 1 \in 1 .. Len(chain') /\ chain'[i - 1] = chain[i]
    <2>1. ASSUME NEW i \in 1 .. Len(chain), i # 1
          PROVE  i - 1 \in 1 .. Len(chain') /\ chain'[i - 1] = chain[i]
      <3>1. i - 1 \in 1 .. Len(chain') /\ (i - 1) + 1 = i
        BY <1>1, <2>1
      <3> QED
        BY <1>1, <3>1
    <2> QED
      BY <2>1
  <1> QED
    BY <1>1, <1>2, <1>3, <1>4

\* The report of call c, the first of the chain.
LEMMA NpmObserves ==
  ASSUME History, NpmInv, kind = "npm", NEW c \in Past, SendObserved(c),
         UNCHANGED <<agentVars, earned>>, \A o \in outcomes : o.failure # c
  PROVE  /\ History' /\ FingerprintsWell' /\ fingerprints' \in [Told -> Held]
         /\ told' \subseteq told \cup {c} /\ sent' = sent
  <1>0. /\ EndedTyped /\ fingerprints \in [Told -> Held] /\ ToldWell
        /\ \A t \in Tools : AnyWell(t)
        /\ \A t \in Tools, v \in Failures : OwnWell(t, v)
        /\ ToldKnown
    BY DEF History, NpmInv, NpmTyped, FingerprintsWell
  <1>1. sent' = sent /\ kind' = kind /\ ended' = ended
    BY DEF SendObserved, agentVars
  <1>2. \A d : Fingerprint(d)' = Fingerprint(d)
    BY <1>1 DEF Fingerprint, FingerprintIf, Shape, Verdict
  <1>3. CASE Verdict(c) = "ok"
    <2>1. UNCHANGED <<fingerprints, told, known, outcomes>>
      BY <1>3 DEF SendObserved
    <2>2. ASSUME NEW t \in Tools
          PROVE  AnyWell(t)'
      BY <1>0, <2>1 DEF AnyWell
    <2>3. ASSUME NEW t \in Tools, NEW v \in Failures
          PROVE  OwnWell(t, v)'
      <3>1. OwnWell(t, v)
        BY <1>0
      <3> QED
        BY <2>1, <3>1 DEF OwnWell
    <2>4. ToldWell'
      BY <1>0, <1>2, <2>1 DEF ToldWell
    <2>5. History'
      BY <1>1, <2>1, HistoryStays DEF historyVars
    <2> QED
      BY <1>0, <1>1, <2>1, <2>2, <2>3, <2>4, <2>5 DEF FingerprintsWell
  <1>4. CASE Verdict(c) # "ok"
    <2>1. PICK answered \in BOOLEAN :
            /\ PostReport(c, answered)
            /\ IF answered THEN Remembered(c) /\ told' = told \cup {c}
                           ELSE UNCHANGED <<fingerprints, told>>
      BY <1>4 DEF SendObserved
    <2>2. Verdict(c) \in Failures /\ Shape(c).tool \in Tools
      BY <1>0, <1>4, PastIs
    <2>3. /\ History' /\ known \subseteq known'
          /\ answered = TRUE => Fingerprint(c) \in known'
      BY <1>1, <2>1, <2>2, ReportKeeps
    <2>4. CASE answered = FALSE
      <3>1. UNCHANGED <<fingerprints, told>>
        BY <2>1, <2>4
      <3>2. ASSUME NEW t \in Tools
            PROVE  AnyWell(t)'
        BY <1>0, <2>3, <3>1 DEF AnyWell
      <3>3. ASSUME NEW t \in Tools, NEW v \in Failures
            PROVE  OwnWell(t, v)'
        <4>1. OwnWell(t, v)
          BY <1>0
        <4> QED
          BY <2>3, <3>1, <4>1 DEF OwnWell
      <3>4. ToldWell'
        BY <1>0, <1>2, <3>1 DEF ToldWell
      <3> QED
        BY <1>0, <1>1, <2>3, <3>1, <3>2, <3>3, <3>4 DEF FingerprintsWell
    <2>5. CASE answered = TRUE
      <3>1. Remembered(c) /\ told' = told \cup {c}
        BY <2>1, <2>5
      <3>2. PICK tool \in Tools, verdict \in Failures :
              /\ tool = Shape(c).tool /\ verdict = Verdict(c)
              /\ Fingerprint(c) = <<tool, verdict>>
        BY <2>2 DEF Fingerprint, FingerprintIf
      <3>3. "any" \notin Failures
        BY ClassesAssumption DEF Failures
      <3>4. <<tool, "any">> \in Told /\ <<tool, verdict>> \in Told /\ <<tool, verdict>> \in Held
            /\ <<tool, "any">> # <<tool, verdict>>
        BY <3>2, <3>3 DEF Told, Held
      <3>5. fingerprints' = [fingerprints EXCEPT ![<<tool, "any">>] = <<tool, verdict>>,
                                                 ![<<tool, verdict>>] = <<tool, verdict>>]
        BY <3>1, <3>2, Zenon DEF Remembered
      <3>6. PICK once : once = [fingerprints EXCEPT ![<<tool, "any">>] = <<tool, verdict>>]
        OBVIOUS
      <3>7. /\ once \in [Told -> Held] /\ once[<<tool, "any">>] = <<tool, verdict>>
            /\ \A k \in Told : k # <<tool, "any">> => once[k] = fingerprints[k]
        BY <1>0, <3>4, <3>6
      <3>8. fingerprints' = [once EXCEPT ![<<tool, verdict>>] = <<tool, verdict>>]
        BY <3>5, <3>6, Zenon
      <3>9. /\ fingerprints' \in [Told -> Held]
            /\ fingerprints'[<<tool, "any">>] = <<tool, verdict>>
            /\ fingerprints'[<<tool, verdict>>] = <<tool, verdict>>
            /\ \A k \in Told : k \notin {<<tool, "any">>, <<tool, verdict>>} =>
                 fingerprints'[k] = fingerprints[k]
        BY <3>4, <3>7, <3>8
      <3>10. <<tool, verdict>> \in known'
        BY <2>3, <2>5, <3>2
      <3>11. ASSUME NEW t \in Tools
             PROVE  AnyWell(t)'
        <4>1. CASE t = tool
          BY <3>9, <3>10, <4>1 DEF AnyWell
        <4>2. CASE t # tool
          <5>1. fingerprints'[<<t, "any">>] = fingerprints[<<t, "any">>]
            <6>1. <<t, "any">> \in Told /\ <<t, "any">> \notin {<<tool, "any">>, <<tool, verdict>>}
              BY <4>2 DEF Told
            <6> QED
              BY <3>9, <6>1
          <5>2. AnyWell(t)
            BY <1>0
          <5> QED
            BY <2>3, <5>1, <5>2 DEF AnyWell
        <4> QED
          BY <4>1, <4>2
      <3>12. ASSUME NEW t \in Tools, NEW v \in Failures
             PROVE  OwnWell(t, v)'
        <4>1. CASE <<t, v>> = <<tool, verdict>>
          BY <3>9, <3>10, <4>1 DEF OwnWell
        <4>2. CASE <<t, v>> # <<tool, verdict>>
          <5>1. fingerprints'[<<t, v>>] = fingerprints[<<t, v>>]
            <6>1. <<t, v>> \in Told /\ <<t, v>> \notin {<<tool, "any">>, <<tool, verdict>>}
              BY <3>3, <4>2 DEF Told
            <6> QED
              BY <3>9, <6>1
          <5>2. OwnWell(t, v)
            BY <1>0
          <5> QED
            BY <2>3, <5>1, <5>2 DEF OwnWell
        <4> QED
          BY <4>1, <4>2
      <3>13. ToldWell'
        <4> SUFFICES ASSUME NEW f \in told'
                     PROVE  fingerprints'[Fingerprint(f)] = Fingerprint(f)
          BY <1>2 DEF ToldWell
        <4>1. CASE Fingerprint(f) = <<tool, verdict>>
          BY <3>9, <4>1
        <4>2. CASE Fingerprint(f) # <<tool, verdict>>
          <5>1. f \in told
            BY <3>1, <3>2, <4>2
          <5>2. f \in Past /\ Verdict(f) \in Failures
            BY <1>0, <5>1 DEF ToldKnown
          <5>3. Shape(f).tool \in Tools
            BY <1>0, <5>2, PastIs
          <5>4. Fingerprint(f) \in Told /\ Fingerprint(f) \notin {<<tool, "any">>, <<tool, verdict>>}
            BY <3>3, <4>2, <5>2, <5>3 DEF Told, Fingerprint, FingerprintIf
          <5>5. fingerprints[Fingerprint(f)] = Fingerprint(f)
            BY <1>0, <5>1 DEF ToldWell
          <5> QED
            BY <3>9, <5>4, <5>5
        <4> QED
          BY <4>1, <4>2
      <3> QED
        BY <1>1, <2>3, <3>1, <3>9, <3>11, <3>12, <3>13 DEF FingerprintsWell
    <2> QED
      BY <2>4, <2>5
  <1> QED
    BY <1>3, <1>4

\* The outcome of a call that was taken for another try of f, the first of the chain.
LEMMA NpmRecovers ==
  ASSUME History, NpmInv, kind = "npm", NEW c \in Past, NEW f \in Past, SendRecovered(c, f),
         UNCHANGED <<agentVars, earned>>, <<c, f>> \in earned, <<c, f>> \notin sent
  PROVE  /\ History' /\ FingerprintsWell' /\ fingerprints' = fingerprints
         /\ told' = told /\ sent' \subseteq sent \cup {<<c, f>>} /\ sent \subseteq sent'
         /\ <<c, f>> \in sent' \/ f \notin told
  <1>0. /\ EndedTyped /\ fingerprints \in [Told -> Held] /\ ToldWell
        /\ \A t \in Tools : AnyWell(t)
        /\ \A t \in Tools, v \in Failures : OwnWell(t, v)
        /\ ToldKnown
    BY DEF History, NpmInv, NpmTyped, FingerprintsWell
  <1>1. /\ kind' = kind /\ ended' = ended /\ UNCHANGED <<fingerprints, told>>
    BY DEF SendRecovered, agentVars
  <1>2. \A d : Fingerprint(d)' = Fingerprint(d)
    BY <1>1 DEF Fingerprint, FingerprintIf, Shape, Verdict
  <1>3. Repeats(c, f)
    BY DEF History, PairsEarned
  <1>4. PICK tool \in Tools, verdict \in Failures :
          /\ tool = Shape(f).tool /\ verdict = Verdict(f)
          /\ Fingerprint(f) = <<tool, verdict>>
    BY <1>0, <1>3, PastIs DEF Repeats, Fingerprint, FingerprintIf
  <1>5. PICK own, any :
          /\ own = fingerprints[<<tool, verdict>>] /\ any = fingerprints[<<tool, "any">>]
    OBVIOUS
  <1>6. FingerprintFor(f) = IF own # None THEN own ELSE any
    BY <1>4, <1>5 DEF FingerprintFor
  <1>7. own \in {None, <<tool, verdict>>} /\ (own # None => own \in known)
    BY <1>0, <1>5 DEF OwnWell
  <1>8. any # None => any \in known /\ any[1] = tool
    BY <1>0, <1>5 DEF AnyWell
  <1>9. f \in told => own = <<tool, verdict>> /\ own # None
    <2>1. f \in told => own = <<tool, verdict>>
      BY <1>0, <1>4, <1>5 DEF ToldWell
    <2>2. <<tool, verdict>> # None
      BY FingerprintsAssumption DEF Failures
    <2> QED
      BY <2>1, <2>2
  <1>10. CASE FingerprintFor(f) = None
    <2>1. UNCHANGED <<known, outcomes, sent>>
      BY <1>10 DEF SendRecovered
    <2>2. History'
      BY <1>1, <2>1, HistoryStays DEF historyVars
    <2>3. f \notin told
      BY <1>6, <1>9, <1>10
    <2> QED
      BY <1>1, <2>1, <2>2, <2>3, <1>2, <1>0
         DEF FingerprintsWell, ToldWell, AnyWell, OwnWell
  <1>11. CASE FingerprintFor(f) # None
    <2>1. PICK fingerprint : fingerprint = FingerprintFor(f)
      OBVIOUS
    <2>2. PICK answered \in BOOLEAN : PostOutcome(c, f, fingerprint, answered)
      BY <1>11, <2>1 DEF SendRecovered
    <2>3. sent' = sent \cup {<<c, f>>}
      BY <1>11 DEF SendRecovered
    <2>4. /\ fingerprint \in known /\ fingerprint[1] = Shape(f).tool
          /\ fingerprint = Fingerprint(f) \/ f \notin told
      BY <1>4, <1>6, <1>7, <1>8, <1>9, <1>11, <2>1
    <2>5. History' /\ known' = known
      BY <1>1, <2>2, <2>3, <2>4, OutcomeKeeps
    <2> QED
      BY <1>0, <1>1, <1>2, <2>3, <2>5 DEF FingerprintsWell, ToldWell, AnyWell, OwnWell
  <1> QED
    BY <1>10, <1>11

LEMMA NpmGoesOn ==
  ASSUME History, NpmInv, kind = "npm", ChainGoesOn
  PROVE  NpmInv' /\ History'
  <1>1. /\ NpmTyped /\ FingerprintsWell /\ ChainWell /\ ProcessEnds
        /\ \A s \in DOMAIN retryable : RetryableWell(s)
        /\ \A c, f \in Past : PairWell(c, f)
        /\ EndedTyped /\ earned \subseteq Past \X Past
        /\ \A d \in Past : d \in Nat
    BY PastIs DEF NpmInv, History, PairsEarned
  <1>2. /\ chain # <<>> /\ chain' = Tail(chain)
        /\ UNCHANGED <<agentVars, earned, retryable, holding, remote, inflight, phase, kind, ended>>
    BY DEF ChainGoesOn, agentVars
  <1>3. /\ chain' \in Seq(Tasks) /\ Head(chain) = chain[1]
        /\ Len(chain) \in Nat /\ 1 \in 1 .. Len(chain) /\ chain[1] \in Tasks
        /\ \A i \in 1 .. Len(chain') : i \in Nat /\ i + 1 \in 1 .. Len(chain) /\ chain'[i] = chain[i + 1]
        /\ \A i \in 1 .. Len(chain) : i # 1 => i - 1 \in 1 .. Len(chain') /\ chain'[i - 1] = chain[i]
    BY <1>1, <1>2, ChainShrinks DEF NpmTyped
  <1>4. PICK task : task = chain[1]
    OBVIOUS
  <1>5. PICK c, f : c = task.call /\ f = task.failure
    OBVIOUS
  <1>6. task.what \in {"observe", "outcome"} /\ c \in Past /\ Head(chain) = task
    BY <1>1, <1>3, <1>4, <1>5 DEF Tasks, ChainWell, TaskWell
  <1>7. task.what = "outcome" =>
          <<c, f>> \in earned /\ <<c, f>> \notin sent /\ f < c /\ f \in Past
    BY <1>1, <1>3, <1>4, <1>5 DEF ChainWell, TaskWell
  <1>8. \A i \in 1 .. Len(chain') : TaskWell(i + 1) /\ InOrder(1, i + 1)
    BY <1>1, <1>3 DEF ChainWell
  <1>9. /\ History' /\ FingerprintsWell' /\ fingerprints' \in [Told -> Held]
        /\ sent \subseteq sent'
        /\ task.what = "observe" => sent' = sent /\ told' \subseteq told \cup {c}
        /\ task.what = "outcome" => /\ told' = told /\ sent' \subseteq sent \cup {<<c, f>>}
                                    /\ <<c, f>> \in sent' \/ f \notin told
    <2>1. CASE task.what = "observe"
      <3>1. SendObserved(c)
        BY <1>5, <1>6, <2>1, Zenon DEF ChainGoesOn
      <3>2. ASSUME NEW o \in outcomes, o.failure = c
            PROVE  FALSE
        <4>1. PICK d : d = o.call
          OBVIOUS
        <4>2. <<d, c>> \in sent /\ <<d, c>> \in earned /\ d \in Past
          BY <3>2, <4>1 DEF History, OutcomesSent, IsSent, PairsEarned
        <4>3. \A i \in 1 .. Len(chain) : ~IsOutcome(i, d, c)
          BY <1>1, <4>2 DEF ChainWell, TaskWell, IsOutcome
        <4>4. ~Observes(1, c)
          BY <1>1, <1>3, <1>6, <4>2, <4>3 DEF PairWell
        <4> QED
          BY <1>4, <1>5, <2>1, <4>4 DEF Observes
      <3>3. /\ History' /\ FingerprintsWell' /\ fingerprints' \in [Told -> Held]
            /\ told' \subseteq told \cup {c} /\ sent' = sent
        BY <1>2, <1>6, <3>1, <3>2, NpmObserves
      <3> QED
        BY <2>1, <3>3
    <2>2. CASE task.what = "outcome"
      <3>1. SendRecovered(c, f)
        <4>1. task.what # "observe"
          BY <2>2
        <4> QED
          BY <1>5, <1>6, <4>1, Zenon DEF ChainGoesOn
      <3>2. /\ History' /\ FingerprintsWell' /\ fingerprints' = fingerprints
            /\ told' = told /\ sent' \subseteq sent \cup {<<c, f>>} /\ sent \subseteq sent'
            /\ <<c, f>> \in sent' \/ f \notin told
        BY <1>2, <1>6, <1>7, <2>2, <3>1, NpmRecovers
      <3>3. fingerprints' \in [Told -> Held]
        BY <1>1, <3>2 DEF NpmTyped
      <3> QED
        BY <2>2, <3>2, <3>3
    <2> QED
      BY <1>6, <2>1, <2>2
  <1>10. Past' = Past /\ \A d : Shape(d)' = Shape(d) /\ Verdict(d)' = Verdict(d)
    BY <1>2 DEF Past, Shape, Verdict
  <1>11. ChainWell'
    <2>1. ASSUME NEW i \in 1 .. Len(chain')
          PROVE  TaskWell(i)'
      <3>1. PICK t : t = chain[i + 1] /\ t = chain'[i]
        BY <1>3
      <3>2. /\ t.call \in Past
            /\ t.what = "outcome" => /\ <<t.call, t.failure>> \in earned
                                     /\ <<t.call, t.failure>> \notin sent
                                     /\ t.failure < t.call
        BY <1>8, <3>1 DEF TaskWell
      <3>3. task.what = "outcome" => c < t.call
        <4>1. 1 < i + 1
          BY <1>3
        <4> QED
          BY <1>4, <1>5, <1>8, <3>1, <4>1 DEF InOrder
      <3>4. t.what = "outcome" => <<t.call, t.failure>> \notin sent'
        <4>1. task.what = "outcome" => c # t.call
          BY <1>1, <1>6, <3>2, <3>3
        <4> QED
          BY <1>6, <1>9, <3>2, <4>1
      <3> QED
        BY <1>2, <1>10, <3>1, <3>2, <3>4 DEF TaskWell
    <2>2. ASSUME NEW i \in 1 .. Len(chain'), NEW j \in 1 .. Len(chain')
          PROVE  InOrder(i, j)'
      <3>1. InOrder(i + 1, j + 1)
        BY <1>1, <1>3 DEF ChainWell
      <3>2. chain'[i] = chain[i + 1] /\ chain'[j] = chain[j + 1] /\ (i < j => i + 1 < j + 1)
        BY <1>3
      <3> QED
        BY <3>1, <3>2 DEF InOrder
    <2> QED
      BY <2>1, <2>2 DEF ChainWell
  <1>12. ASSUME NEW d \in Past', NEW g \in Past'
         PROVE  PairWell(d, g)'
    <2> SUFFICES ASSUME <<d, g>> \in earned
                 PROVE  PairWell(d, g)'
      BY <1>2 DEF PairWell
    <2>1. PairWell(d, g) /\ d \in Past /\ g \in Past
      BY <1>1, <1>10
    <2>2. CASE \E i \in 1 .. Len(chain) : i # 1 /\ IsOutcome(i, d, g)
      <3>1. PICK i \in 1 .. Len(chain) : i # 1 /\ IsOutcome(i, d, g)
        BY <2>2
      <3>2. i - 1 \in 1 .. Len(chain') /\ chain'[i - 1] = chain[i]
        BY <1>3, <3>1
      <3>3. IsOutcome(i - 1, d, g)'
        BY <3>1, <3>2 DEF IsOutcome
      <3> QED
        BY <3>2, <3>3 DEF PairWell
    <2>3. CASE IsOutcome(1, d, g)
      <3>1. task.what = "outcome" /\ d = c /\ g = f
        BY <1>4, <1>5, <2>3 DEF IsOutcome
      <3>2. ASSUME NEW i \in 1 .. Len(chain')
            PROVE  ~Observes(i, g)'
        <4>1. PICK t : t = chain[i + 1] /\ t = chain'[i]
          BY <1>3
        <4>2. 1 < i + 1
          BY <1>3
        <4>3. t.what = "observe" => c < t.call
          BY <1>4, <1>5, <1>8, <4>1, <4>2 DEF InOrder
        <4>4. t.call \in Nat /\ c \in Nat /\ f \in Nat /\ f < c
          BY <1>1, <1>6, <1>7, <1>8, <3>1, <4>1 DEF TaskWell
        <4>5. t.what = "observe" => t.call # f
          BY <4>3, <4>4
        <4> QED
          BY <3>1, <4>1, <4>5 DEF Observes
      <3>3. <<d, g>> \in sent' \/ g \notin told'
        BY <1>9, <3>1
      <3> QED
        BY <3>2, <3>3 DEF PairWell
    <2>4. CASE \A i \in 1 .. Len(chain) : ~IsOutcome(i, d, g)
      <3>1. /\ \A i \in 1 .. Len(chain) : ~Observes(i, g)
            /\ <<d, g>> \in sent \/ g \notin told \/ phase = "exited"
        BY <2>1, <2>4 DEF PairWell
      <3>2. ASSUME NEW i \in 1 .. Len(chain')
            PROVE  ~Observes(i, g)'
        <4>1. i + 1 \in 1 .. Len(chain) /\ chain'[i] = chain[i + 1]
          BY <1>3
        <4>2. ~Observes(i + 1, g)
          BY <3>1, <4>1
        <4> QED
          BY <4>1, <4>2 DEF Observes
      <3>3. task.what = "observe" => g # c
        BY <1>3, <1>4, <1>5, <3>1 DEF Observes
      <3>4. <<d, g>> \in sent' \/ g \notin told' \/ phase' = "exited"
        BY <1>2, <1>6, <1>9, <3>1, <3>3
      <3> QED
        BY <3>2, <3>4 DEF PairWell
    <2> QED
      BY <2>2, <2>3, <2>4
  <1>13. ASSUME NEW s \in DOMAIN retryable'
         PROVE  RetryableWell(s)'
    <2>1. RetryableWell(s)
      BY <1>1, <1>2
    <2> QED
      BY <1>2, <1>10, <2>1 DEF RetryableWell
  <1>14. NpmTyped' /\ ProcessEnds'
    BY <1>1, <1>2, <1>3, <1>9 DEF NpmTyped, ProcessEnds
  <1> QED
    BY <1>9, <1>11, <1>12, <1>13, <1>14 DEF NpmInv

LEMMA NpmStep ==
  ASSUME History, NpmInv, kind = "npm", NpmNext
  PROVE  NpmInv' /\ History'
  <1>1. NpmTyped /\ ProcessEnds /\ EndedTyped
    BY DEF NpmInv, History
  <1>2. CASE \E c \in Calls : FromServer(c)
    BY <1>2, NpmEnds
  <1>3. CASE ChainGoesOn
    BY <1>3, NpmGoesOn
  <1>4. ASSUME UNCHANGED <<adapterVars, chain, fingerprints, retryable>>,
               phase' = "exited" \/ phase # "exited",
               phase' \in {"open", "closing", "finishing", "exited"}, inflight' \in Nat, ProcessEnds'
        PROVE  NpmInv' /\ History'
    <2>1. History' /\ UNCHANGED <<kind, ended, known, told, earned, sent>>
      BY <1>4, HistoryStays DEF adapterVars, agentVars, historyVars
    <2>2. NpmTyped'
      BY <1>1, <1>4 DEF NpmTyped
    <2> QED
      BY <1>4, <2>1, <2>2, ChainStays DEF NpmInv
  <1>5. CASE Write
    <2>1. /\ UNCHANGED <<adapterVars, chain, fingerprints, retryable>>
          /\ phase' = phase /\ phase = "open" /\ inflight' \in Nat
      BY <1>1, <1>5 DEF Write, NpmTyped
    <2>2. ProcessEnds'
      BY <2>1 DEF ProcessEnds
    <2> QED
      BY <1>4, <2>1, <2>2
  <1>6. CASE ClientEnds
    <2>1. /\ UNCHANGED <<adapterVars, chain, fingerprints, retryable>>
          /\ phase' = "closing" /\ phase = "open" /\ inflight' \in Nat
      BY <1>1, <1>6 DEF ClientEnds, NpmTyped
    <2>2. ProcessEnds'
      BY <2>1 DEF ProcessEnds
    <2> QED
      BY <1>4, <2>1, <2>2
  <1>7. CASE ServerEnds
    <2>1. /\ UNCHANGED <<adapterVars, chain, fingerprints, retryable>>
          /\ phase' = "finishing" /\ phase # "exited" /\ inflight' \in Nat
      BY <1>1, <1>7 DEF ServerEnds, NpmTyped, maybeEnd
    <2>2. ProcessEnds'
      BY <1>7 DEF ServerEnds, ProcessEnds, maybeEnd
    <2> QED
      BY <1>4, <2>1, <2>2
  <1>8. CASE \E c \in Calls : AdviceThere(c)
    <2>1. /\ UNCHANGED <<adapterVars, chain, fingerprints, retryable, remote>>
          /\ phase' = phase /\ inflight' = inflight /\ holding' \subseteq holding /\ holding # {}
      BY <1>8 DEF AdviceThere
    <2>2. ProcessEnds' /\ phase # "exited" /\ inflight' \in Nat
      BY <1>1, <2>1 DEF ProcessEnds, NpmTyped
    <2> QED
      BY <1>1, <1>4, <2>1, <2>2 DEF NpmTyped
  <1>9. CASE finish
    <2>1. /\ UNCHANGED <<adapterVars, fingerprints, retryable, holding, remote, inflight>>
          /\ chain' = <<>> /\ phase' = "exited" /\ phase = "finishing" /\ holding = {}
      BY <1>9 DEF finish
    <2>2. History' /\ UNCHANGED <<kind, ended, known, told, earned, sent>>
      BY <2>1, HistoryStays DEF adapterVars, agentVars, historyVars
    <2>3. Past' = Past /\ \A d : /\ Shape(d)' = Shape(d) /\ Verdict(d)' = Verdict(d)
                                 /\ Fingerprint(d)' = Fingerprint(d)
      BY <2>2 DEF Past, Shape, Verdict, Fingerprint, FingerprintIf
    <2>4. Len(chain') = 0 /\ chain' \in Seq(Tasks)
      BY <2>1
    <2>5. ChainWell' /\ \A c, f \in Past' : PairWell(c, f)'
      BY <2>1, <2>4 DEF ChainWell, PairWell
    <2>6. ASSUME NEW s \in DOMAIN retryable'
          PROVE  RetryableWell(s)'
      BY <2>1, <2>2, <2>3 DEF NpmInv, RetryableWell
    <2>7. FingerprintsWell'
      <3>1. ASSUME NEW t \in Tools
            PROVE  AnyWell(t)'
        <4>1. AnyWell(t)
          BY DEF NpmInv, FingerprintsWell
        <4> QED
          BY <2>1, <2>2, <4>1 DEF AnyWell
      <3>2. ASSUME NEW t \in Tools, NEW v \in Failures
            PROVE  OwnWell(t, v)'
        <4>1. OwnWell(t, v)
          BY DEF NpmInv, FingerprintsWell
        <4> QED
          BY <2>1, <2>2, <4>1 DEF OwnWell
      <3>3. ToldWell'
        BY <2>1, <2>2, <2>3 DEF NpmInv, FingerprintsWell, ToldWell
      <3> QED
        BY <3>1, <3>2, <3>3 DEF FingerprintsWell
    <2>8. NpmTyped' /\ ProcessEnds'
      BY <1>1, <2>1, <2>4 DEF NpmTyped, ProcessEnds
    <2> QED
      BY <2>2, <2>5, <2>6, <2>7, <2>8 DEF NpmInv
  <1> QED
    BY <1>2, <1>3, <1>5, <1>6, <1>7, <1>8, <1>9 DEF NpmNext

LEMMA NpmMeans ==
  ASSUME History, NpmInv
  PROVE  /\ \A x \in earned : NpmSettled(x[1]) /\ x[2] \in told => x \in sent
         /\ AnsweredBeforeDone
  <1>1. ASSUME NEW x \in earned, NpmSettled(x[1]), x[2] \in told
        PROVE  x \in sent
    <2>1. PICK c \in Past, f \in Past : x = <<c, f>>
      BY <1>1 DEF History, PairsEarned
    <2>2. PairWell(c, f)
      BY DEF NpmInv
    <2>3. chain = <<>> /\ phase # "exited" /\ Len(chain) = 0
      BY <1>1 DEF NpmSettled
    <2>4. f \in told
      BY <1>1, <2>1
    <2> QED
      BY <1>1, <2>1, <2>2, <2>3, <2>4 DEF PairWell
  <1>2. AnsweredBeforeDone
    BY DEF NpmInv, ProcessEnds, AnsweredBeforeDone
  <1> QED
    BY <1>1, <1>2

LEMMA NpmBegins ==
  ASSUME NpmInit, ended = <<>>, earned = {}, told = {}
  PROVE  NpmInv
  <1>1. Past = {}
    BY DEF Past
  <1>2. /\ chain \in Seq(Tasks) /\ Len(chain) = 0
        /\ DOMAIN retryable = {} /\ holding = {} /\ inflight = 0 /\ phase = "open"
    BY DEF NpmInit
  <1>3. fingerprints \in [Told -> Held] /\ \A k \in Told : fingerprints[k] = None
    BY DEF NpmInit, Told, Held
  <1>4. NpmTyped
    BY <1>2, <1>3 DEF NpmTyped
  <1>5. FingerprintsWell
    <2>1. ASSUME NEW t \in Tools
          PROVE  AnyWell(t)
      BY <1>3 DEF AnyWell, Told
    <2>2. ASSUME NEW t \in Tools, NEW v \in Failures
          PROVE  OwnWell(t, v)
      BY <1>3 DEF OwnWell, Told
    <2> QED
      BY <2>1, <2>2 DEF FingerprintsWell, ToldWell
  <1>6. ChainWell /\ ProcessEnds /\ \A s \in DOMAIN retryable : RetryableWell(s)
    BY <1>2 DEF ChainWell, ProcessEnds
  <1> QED
    BY <1>1, <1>4, <1>5, <1>6 DEF NpmInv

-----------------------------------------------------------------------------
(* Whichever adapter it is.                                                *)

AdapterInv ==
  /\ History
  /\ kind = "claude" => ClaudeInv
  /\ kind = "opencode" => OpenInv
  /\ kind = "npm" => NpmInv
  /\ kind # "npm" => phase = "open"
  /\ kind \in {"client", "page"} => earned = {}
  /\ kind \in {"claude", "opencode", "npm", "client", "page"}

LEMMA AdapterBegins == Init => AdapterInv
  <1> SUFFICES ASSUME Init
               PROVE  AdapterInv
    OBVIOUS
  <1>1. /\ ended = <<>> /\ known = {} /\ outcomes = {} /\ told = {} /\ earned = {} /\ sent = {}
        /\ ClaudeInit /\ OpenInit /\ NpmInit
    BY DEF Init, AgentInit
  <1>2. phase = "open"
    BY <1>1 DEF NpmInit
  <1>3. History
    <2>1. ended \in Seq(Entries) /\ Len(ended) = 0
      BY <1>1
    <2> QED
      BY <1>1, <2>1, CallsAssumption
         DEF History, EndedTyped, PairsEarned, ToldKnown, OutcomesSent, OutcomesSingle, EarnedSingle
  <1>4. ClaudeInv /\ OpenInv /\ NpmInv
    BY <1>1, ClaudeBegins, OpenBegins, NpmBegins
  <1> QED
    BY <1>1, <1>2, <1>3, <1>4 DEF Init, AdapterInv

\* No step, or one that is none of the adapter's.
LEMMA AdapterStays ==
  ASSUME AdapterInv, UNCHANGED toolVars
  PROVE  AdapterInv'
  <1>1. /\ History' /\ UNCHANGED <<kind, ended, known, outcomes, told, earned, sent>>
    BY HistoryStays DEF AdapterInv, toolVars, adapterVars, agentVars, historyVars
  <1>2. Past' = Past /\ \A d : /\ Shape(d)' = Shape(d) /\ Verdict(d)' = Verdict(d)
                               /\ Key(d)' = Key(d) /\ Fingerprint(d)' = Fingerprint(d)
    BY <1>1 DEF Past, Shape, Verdict, Key, Fingerprint, FingerprintIf
  <1>3. ASSUME kind = "claude"
        PROVE  ClaudeInv'
    <2>1. UNCHANGED <<hook, pending, tmp, together>> /\ ClaudeInv
      BY <1>3 DEF AdapterInv, toolVars, claudeVars
    <2>2. HooksTyped'
      BY <1>2, <2>1 DEF ClaudeInv, HooksTyped
    <2>3. FilesHold'
      BY <1>1, <1>2, <2>1 DEF ClaudeInv, FilesHold, KeyHolds, Saved
    <2>4. ASSUME NEW c \in Calls
          PROVE  LoadedWell(c)' /\ SentWell(c)'
      BY <1>1, <1>2, <2>1 DEF ClaudeInv, LoadedWell, SentWell, Saved
    <2>5. RanTogether'
      BY <1>1, <1>2, <2>1 DEF ClaudeInv, RanTogether, Overlap
    <2> QED
      BY <2>2, <2>3, <2>4, <2>5 DEF ClaudeInv
  <1>4. ASSUME kind = "opencode"
        PROVE  OpenInv'
    <2>1. UNCHANGED <<lastFailure, report, awaiting>> /\ OpenInv
      BY <1>4 DEF AdapterInv, toolVars, openVars
    <2> QED
      BY <1>1, <1>2, <2>1 DEF OpenInv, OpenTyped, LastWell, ReportedWell, AwaitsWell, OpenKey
  <1>5. ASSUME kind = "npm"
        PROVE  NpmInv'
    <2>1. UNCHANGED <<chain, fingerprints, retryable, holding, remote, inflight, phase>> /\ NpmInv
      BY <1>5 DEF AdapterInv, toolVars, npmVars
    <2>2. /\ FingerprintsWell' /\ ChainWell' /\ \A s \in DOMAIN retryable' : RetryableWell(s)'
          /\ \A c, f \in Past' : PairWell(c, f)'
      BY <1>1, <2>1, ChainStays DEF AdapterInv
    <2>3. NpmTyped' /\ ProcessEnds'
      BY <2>1 DEF NpmInv, NpmTyped, ProcessEnds
    <2> QED
      BY <2>2, <2>3 DEF NpmInv
  <1>6. phase' = phase
    BY DEF toolVars, npmVars
  <1> QED
    BY <1>1, <1>3, <1>4, <1>5, <1>6 DEF AdapterInv

LEMMA AdapterStep ==
  ASSUME AdapterInv, [Next]_vars
  PROVE  AdapterInv'
  <1>1. CASE UNCHANGED vars
    BY <1>1, AdapterStays DEF vars
  <1>2. CASE Caller
    BY <1>2, AdapterStays DEF Caller
  <1>3. CASE kind = "claude" /\ ClaudeNext /\ UNCHANGED <<openVars, npmVars>>
    <2>1. ClaudeInv' /\ History'
      BY <1>3, ClaudeStep DEF AdapterInv
    <2>2. kind' = kind /\ phase' = phase
      BY <1>3 DEF npmVars, ClaudeNext, HookStarts, Ends, on_failure, on_success, agentVars
    <2> QED
      BY <1>3, <2>1, <2>2 DEF AdapterInv
  <1>4. CASE kind = "opencode" /\ OpenNext /\ UNCHANGED <<claudeVars, npmVars>>
    <2>1. OpenInv' /\ History'
      BY <1>4, OpenStep DEF AdapterInv
    <2>2. kind' = kind /\ phase' = phase
      BY <1>4 DEF npmVars, OpenNext, ToolFailed, ToolWorked, ReportEnds, FingerprintThere, Ends, agentVars
    <2> QED
      BY <1>4, <2>1, <2>2 DEF AdapterInv
  <1>5. CASE kind = "npm" /\ NpmNext /\ UNCHANGED <<claudeVars, openVars>>
    <2>1. NpmInv' /\ History'
      BY <1>5, NpmStep DEF AdapterInv
    <2>2. kind' = kind
      BY <1>5 DEF NpmNext, FromServer, AdviceThere, ChainGoesOn, Write, ClientEnds, ServerEnds, finish,
                  Ends, agentVars, adapterVars
    <2> QED
      BY <1>5, <2>1, <2>2 DEF AdapterInv
  <1> QED
    BY <1>1, <1>2, <1>3, <1>4, <1>5 DEF Next, ToolAdapter

LEMMA AdapterMeans == AdapterInv => CreditEarned /\ NothingLostToTiming
  <1> SUFFICES ASSUME AdapterInv
               PROVE  CreditEarned /\ NothingLostToTiming
    OBVIOUS
  <1>1. History
    BY DEF AdapterInv
  <1>2. CreditEarned
    BY <1>1, HistoryMeans, ClaudeMeans DEF AdapterInv, CreditEarned, CreditedOnce
  <1>3. NoRecoveryLostToTiming
    <2> SUFFICES ASSUME NEW x \in earned, Settled(x[1]), x[2] \in told, ~hook[x[1]].down
                 PROVE  x \in sent
      BY DEF NoRecoveryLostToTiming
    <2>1. CASE kind = "claude"
      <3>1. ClaudeSettled(x[1])
        BY <2>1 DEF Settled
      <3> QED
        BY <1>1, <2>1, <3>1, ClaudeMeans DEF AdapterInv
    <2>2. CASE kind = "opencode"
      <3>1. OpenSettled(x[1])
        BY <2>2 DEF Settled
      <3> QED
        BY <1>1, <2>2, <3>1, OpenMeans DEF AdapterInv
    <2>3. CASE kind = "npm"
      <3>1. NpmSettled(x[1])
        BY <2>3 DEF Settled
      <3> QED
        BY <1>1, <2>3, <3>1, NpmMeans DEF AdapterInv
    <2> QED
      BY <2>1, <2>2, <2>3 DEF AdapterInv
  <1>4. AnsweredBeforeDone
    BY <1>1, NpmMeans DEF AdapterInv, AnsweredBeforeDone
  <1> QED
    BY <1>2, <1>3, <1>4 DEF NothingLostToTiming

(* Whatever calls end when, and whatever requests and answers are lost: an *)
(* outcome is about a failure of its own session and tool, carries that    *)
(* failure's fingerprint where the adapter was told it, and one call is    *)
(* credited with a recovery, or for the hook (failecho_hook.py) calls that *)
(* ran together.                                                           *)
THEOREM CreditIsEarned == Spec => []CreditEarned
  <1>1. AdapterInv /\ [Next]_vars => AdapterInv'
    BY AdapterStep
  <1> QED
    BY <1>1, AdapterBegins, AdapterMeans, PTL DEF Spec

(* A call that an adapter took for another try, and is done with, has had  *)
(* its outcome sent if the failure's fingerprint ever became known, in     *)
(* whatever order the answers came; and the proxy (proxy.js) that exits    *)
(* holds no answer back from its client.                                   *)
THEOREM NothingIsLost == Spec => []NothingLostToTiming
  <1>1. AdapterInv /\ [Next]_vars => AdapterInv'
    BY AdapterStep
  <1> QED
    BY <1>1, AdapterBegins, AdapterMeans, PTL DEF Spec

=============================================================================
