----------------------------- MODULE OpenCodePlugin -----------------------------
(***************************************************************************)
(* The OpenCode plugin (opencode-plugin/plugin/failecho.js): callbacks in  *)
(* one process; the agent's sessions in it are not told apart, so that a   *)
(* session is here a process.  A failure is remembered while its report is *)
(* still on the way, and a recovery waits for the answer of that report.   *)
(***************************************************************************)
EXTENDS Adapters

VARIABLES
  lastFailure,  \* session and tool -> a failure, or None
  report,       \* [Calls -> "none", "sent", or how the failure's report ended:
                \* "fingerprint", "null"]
  awaiting      \* [Calls -> the failure whose report the call's outcome waits for, or None]

openVars == <<lastFailure, report, awaiting>>

OpenKeys == Sessions \X Tools
OpenKey(s) == <<s.session, s.tool>>

OpenInit ==
  /\ lastFailure = [k \in OpenKeys |-> None]
  /\ report = [c \in Calls |-> "none"]
  /\ awaiting = [c \in Calls |-> None]

\* A failure; only one worth another try is remembered.
ToolFailed(c, s, class) ==
  /\ Ends(c, s, class)
  /\ report' = [report EXCEPT ![c] = "sent"]
  /\ lastFailure' = IF class \in Transient THEN [lastFailure EXCEPT ![OpenKey(s)] = c]
                                           ELSE lastFailure
  /\ UNCHANGED <<historyVars, awaiting>>

\* The outcome is only sent if the fingerprint is there.
TakenUpIfKnown(c, f) ==
  awaiting' = IF report[f] = "sent" THEN awaiting ELSE [awaiting EXCEPT ![c] = f]

TakenUp(c, f) == awaiting' = [awaiting EXCEPT ![c] = f]

\* A success takes up the failure before it, unless that is too old.
ToolWorked(c, s) ==
  /\ Ends(c, s, "ok")
  /\ LET f == lastFailure[OpenKey(s)]
     IN  \/ /\ f # None
            /\ lastFailure' = [lastFailure EXCEPT ![OpenKey(s)] = None]
            /\ TakenUp(c, f)
            /\ earned' = earned \cup {<<c, f>>}
         \/ UNCHANGED <<lastFailure, awaiting, earned>>
  /\ UNCHANGED <<known, outcomes, told, sent, report>>

\* The report of a failure is answered, or is not within its time.
ReportEnds(c) ==
  /\ report[c] = "sent"
  /\ \E answered \in BOOLEAN :
       /\ PostReport(c, answered)
       /\ report' = [report EXCEPT ![c] = IF answered THEN "fingerprint" ELSE "null"]
       /\ told' = IF answered THEN told \cup {c} ELSE told
  /\ UNCHANGED <<agentVars, earned, sent, lastFailure, awaiting>>

\* previous.fingerprint.then
FingerprintThere(c) ==
  LET f == awaiting[c]
  IN  /\ f # None /\ report[f] \in {"fingerprint", "null"}
      /\ awaiting' = [awaiting EXCEPT ![c] = None]
      /\ IF report[f] = "null" THEN UNCHANGED <<known, outcomes, sent>>
         ELSE /\ \E answered \in BOOLEAN : PostOutcome(c, f, Fingerprint(f), answered)
              /\ sent' = sent \cup {<<c, f>>}
      /\ UNCHANGED <<agentVars, told, earned, lastFailure, report>>

OpenNext ==
  \E c \in Calls :
    \/ ReportEnds(c) \/ FingerprintThere(c)
    \/ \E s \in Shapes : ToolWorked(c, s) \/ \E class \in Failures : ToolFailed(c, s, class)

OpenSettled(c) ==
  /\ awaiting[c] = None
  /\ \A f \in Calls : report[f] # "sent"
=============================================================================
