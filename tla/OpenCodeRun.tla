------------------------------ MODULE OpenCodeRun --------------------------------
(***************************************************************************)
(* One OpenCode run in a fresh VM (failecho_fleet/opencode.py and          *)
(* guest_init.py): a shell script runs OpenCode under a clock of its own,  *)
(* then prints what it left.  Around that clock are the guest's, which     *)
(* kills the script, and the host's, which stops listening.  What comes    *)
(* back is the end of what was printed, read event by event.               *)
(*                                                                         *)
(* Abstracted: durations are taken from a few seconds each; an event is    *)
(* what the reading looks at; the result is right or wrong.                *)
(***************************************************************************)
EXTENDS Integers, Sequences, FiniteSets

CONSTANTS
  OPENCODE_TIMEOUT, \* seconds asked of the sandbox
  MAX_TIMEOUT,      \* seconds the guest allows
  OUTPUT_CAP,       \* how much of the output comes back, in events
  WorkTimes,        \* when OpenCode may exit by itself
  CollectTimes,     \* how long printing what it left may take
  OcEvents,         \* bound: the events there are
  MaxOcEvents       \* bound: events of a run

\* "kind" is the event's; a tool event has the tool's name, the state it ended in, and
\* whether its output has an HTTP error or FailEcho's line in it.
OneEvent(e) ==
  /\ e.kind \in {"tool", "step", "text", "error"}
  /\ e.tool \in {"bash", "edit", "failecho"} /\ e.state \in {"fine", "error", "exit"}
  /\ {e.http, e.advice} \subseteq BOOLEAN

ASSUME OpenCodeAssumption ==
  /\ OPENCODE_TIMEOUT \in Nat /\ MAX_TIMEOUT \in Nat /\ OUTPUT_CAP \in Nat \ {0}
  /\ 50 <= OPENCODE_TIMEOUT /\ OPENCODE_TIMEOUT <= MAX_TIMEOUT
  /\ WorkTimes \subseteq Nat /\ CollectTimes \subseteq Nat
  /\ \A e \in OcEvents : OneEvent(e)

VARIABLES
  oc,     \* the run: [pc, at, took, printed, result, marked, oom], in seconds
  ocEntry \* what run_opencode made of it, or "none"

ocVars == <<oc, ocEntry>>

OpenCodeInit ==
  /\ oc = [pc |-> "working", at |-> 0, took |-> 0, printed |-> <<>>, result |-> "none", marked |-> FALSE, oom |-> FALSE]
  /\ ocEntry = "none"

TimeoutInside == IF OPENCODE_TIMEOUT - 20 > 30 THEN OPENCODE_TIMEOUT - 20 ELSE 30
TimeoutBare   == OPENCODE_TIMEOUT
KILL_AFTER == 10
PAUSE == 3

\* The clock inside leaves the script time to print what OpenCode left.
InnerClock == TimeoutInside
GuestClock == IF OPENCODE_TIMEOUT < MAX_TIMEOUT THEN OPENCODE_TIMEOUT ELSE MAX_TIMEOUT

Prints(e) ==
  /\ oc.pc = "working" /\ Len(oc.printed) < MaxOcEvents
  /\ oc' = [oc EXCEPT !.printed = Append(@, e)]
  /\ UNCHANGED ocEntry

WritesResult(right) ==
  /\ oc.pc = "working" /\ oc.result = "none"
  /\ oc' = [oc EXCEPT !.result = IF right THEN "right" ELSE "wrong"]
  /\ UNCHANGED ocEntry

\* By itself, by the inner clock's TERM, by its KILL when it ignores that, or by the
\* guest's kernel for memory.
OpenCodeExits(at, oom) ==
  /\ oc.pc = "working"
  /\ at \in {t \in WorkTimes : t <= InnerClock} \cup {InnerClock, InnerClock + KILL_AFTER}
  /\ oc' = [oc EXCEPT !.pc = "left", !.at = at, !.oom = oom]
  /\ UNCHANGED ocEntry

\* The script waits for the proxy's last reports and prints the rest, unless the
\* guest's clock kills it first: what was printed by then is the answer.
Collected(seconds) ==
  /\ oc.pc = "left"
  /\ LET over == oc.at + PAUSE + seconds
     IN  oc' = [oc EXCEPT !.pc = "answered", !.took = seconds, !.marked = over <= GuestClock]
  /\ UNCHANGED ocEntry

-----------------------------------------------------------------------------
(* The reading.                                                            *)

\* The last of what was printed; the marks come after the events.
Kept == IF Len(oc.printed) <= OUTPUT_CAP THEN oc.printed
        ELSE SubSeq(oc.printed, Len(oc.printed) - OUTPUT_CAP + 1, Len(oc.printed))

NumberOf(kept, S) == Cardinality({i \in DOMAIN kept : kept[i] \in S})

\* An error state, an exit status, or, of a network tool, an HTTP error in what it said.
_tool_failed(e) == e.state # "fine" \/ (e.tool = "bash" /\ e.http)

ToolEvents   == {e \in OcEvents : e.kind = "tool"}
AskEvents    == {e \in ToolEvents : e.tool = "failecho"}
FailedEvents == {e \in ToolEvents \ AskEvents : _tool_failed(e)}
AdviceEvents == {e \in ToolEvents : e.advice}
StepEvents   == {e \in OcEvents : e.kind = "step"}
ErrorEvents  == {e \in OcEvents : e.kind = "error"}

_walk(kept) ==
  [tool_calls     |-> NumberOf(kept, ToolEvents),
   failecho_calls |-> NumberOf(kept, AskEvents),
   tool_failures  |-> NumberOf(kept, FailedEvents),
   advice_seen    |-> NumberOf(kept, AdviceEvents),
   steps          |-> NumberOf(kept, StepEvents)]

\* What the fleet's run takes over from it.  Behind the proxy no tool asks; an ask is
\* then an output that carried the advice.
Account(counts, failed, completed, proxied) ==
  [model_calls |-> counts.steps, tool_calls |-> counts.tool_calls,
   asks        |-> IF proxied THEN counts.advice_seen ELSE counts.failecho_calls,
   failures    |-> IF failed /\ ~completed THEN 1 ELSE 0]

\* Without the mark there is no result to check; what OpenCode said on its way out is
\* an error only of a run that did not complete.
run_opencode(said, proxied) ==
  /\ oc.pc = "answered"
  /\ LET completed == oc.marked /\ oc.result = "right"
         failed    == NumberOf(Kept, ErrorEvents) > 0 \/ (oc.marked /\ said /\ ~completed)
     IN  ocEntry' = [completed |-> completed, oom |-> oc.marked /\ oc.oom, seen |-> _walk(Kept),
                     account |-> Account(_walk(Kept), failed, completed, proxied)]
  /\ oc' = [oc EXCEPT !.pc = "read"]

\* The VM did not boot, or died: an entry with an error and nothing else.
SandboxLost ==
  /\ oc.pc \in {"working", "left"}
  /\ oc' = [oc EXCEPT !.pc = "lost"]
  /\ ocEntry' = [completed |-> FALSE, oom |-> FALSE, seen |-> _walk(<<>>),
                 account |-> Account(_walk(<<>>), TRUE, FALSE, FALSE)]

OpenCodeNext ==
  \/ \E e \in OcEvents : Prints(e)
  \/ \E right \in BOOLEAN : WritesResult(right)
  \/ \E at \in WorkTimes \cup {InnerClock, InnerClock + KILL_AFTER}, oom \in BOOLEAN : OpenCodeExits(at, oom)
  \/ \E seconds \in CollectTimes : Collected(seconds)
  \/ \E said, proxied \in BOOLEAN : run_opencode(said, proxied)
  \/ SandboxLost

-----------------------------------------------------------------------------
(* What OpenCode left is read, however it ended: a right result that was   *)
(* written is a completed run, also of one that had to be killed, as long  *)
(* as printing took no more than the seconds the clocks leave for it; and  *)
(* what is counted is what was printed, or less of it if that was cut.     *)
ResultSeen ==
  oc.pc = "read" =>
    LET steps == NumberOf(oc.printed, StepEvents)
        calls == NumberOf(oc.printed, ToolEvents)
    IN  /\ oc.took <= 20 - KILL_AFTER - PAUSE => ocEntry.completed = (oc.result = "right")
        /\ ocEntry.completed => oc.result = "right"
        /\ ocEntry.account.tool_calls <= calls /\ ocEntry.account.model_calls <= steps
        /\ Len(oc.printed) <= OUTPUT_CAP => ocEntry.account.model_calls = steps /\ ocEntry.account.tool_calls = calls
        /\ ocEntry.seen.tool_failures + ocEntry.seen.failecho_calls <= calls
=============================================================================
