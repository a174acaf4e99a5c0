-------------------------------- MODULE Adapters --------------------------------
(***************************************************************************)
(* What the adapters share that sit between an agent and its tools without *)
(* the agent's doing anything: the Claude Code hook (module ClaudeHook),   *)
(* the OpenCode plugin (OpenCodePlugin) and the MCP proxy of the npm       *)
(* package (NpmProxy).  Each sees how a tool call ended, reports it, and   *)
(* when a call looks like another try of one that failed, reports whether  *)
(* that recovery worked.                                                   *)
(*                                                                         *)
(* An adapter sees a call when it has ended, and calls are numbered in     *)
(* that order.  A call has a shape: the session it belongs to, the tool,   *)
(* and for the proxy a digest of its arguments.  A failure has a class;    *)
(* tool and class are its fingerprint, which an adapter only knows when    *)
(* the network has told it.  A request to the network may get there or     *)
(* not, and its answer be lost.                                            *)
(***************************************************************************)
EXTENDS Naturals, Sequences, FiniteSets, SequencesExt

CONSTANTS
  None,
  MaxCalls,  \* bound: the calls the agents make
  Sessions,
  Tools,
  Transient, \* classes of failure worth another try
  Lasting    \* the other classes

ASSUME CallsAssumption == MaxCalls \in Nat /\ None \notin 1 .. MaxCalls
ASSUME ClassesAssumption == \A class \in Transient \cup Lasting : class \notin {"ok", "any"}
ASSUME FingerprintsAssumption == None \notin Tools \X (Transient \cup Lasting)

Calls == 1 .. MaxCalls
Shapes == [session : Sessions, tool : Tools]
Failures == Transient \cup Lasting

VARIABLES
  kind,     \* the adapter: "claude", "opencode" or "npm"
  ended,    \* the calls that ended: a sequence of [shape, verdict]
  known,    \* history: the fingerprints the network has received
  outcomes, \* history: what it was told of recoveries: [call, failure, fingerprint]
  told,     \* history: the calls whose fingerprint the network told the adapter
  earned,   \* history: <<call, failure>>, the call being taken for another try
  sent      \* history: those of them that were sent to the network

agentVars == <<kind, ended>>
historyVars == <<known, outcomes, told, earned, sent>>
adapterVars == <<agentVars, historyVars>>

AgentInit ==
  /\ ended = <<>> /\ known = {} /\ outcomes = {}
  /\ told = {} /\ earned = {} /\ sent = {}

Shape(c) == ended[c].shape
Verdict(c) == ended[c].verdict
FingerprintIf(shape, verdict) == <<shape.tool, verdict>>
Fingerprint(c) == FingerprintIf(Shape(c), Verdict(c))

\* Call c ends.
Ends(c, shape, verdict) ==
  /\ c = Len(ended) + 1 /\ c \in Calls
  /\ ended' = Append(ended, [shape |-> shape, verdict |-> verdict])
  /\ UNCHANGED kind

\* A request is answered, gets there without an answer coming back, or does not get there.
PostReport(c, answered) ==
  /\ known' \in IF answered THEN {known \cup {Fingerprint(c)}}
                            ELSE {known, known \cup {Fingerprint(c)}}
  /\ UNCHANGED outcomes

PostOutcome(c, f, fingerprint, answered) ==
  LET there == outcomes \cup {[call |-> c, failure |-> f, fingerprint |-> fingerprint]}
  IN  /\ outcomes' \in IF answered THEN {there} ELSE {outcomes, there}
      /\ UNCHANGED known

-----------------------------------------------------------------------------
(* Properties.                                                             *)

(* An outcome is about a failure of the same tool in the same session, and *)
(* its fingerprint is the failure's own if the adapter was told it, and    *)
(* in any case one of that tool's which the network knows.                 *)
OutcomesEarned ==
  \A o \in outcomes :
    /\ <<o.call, o.failure>> \in earned /\ Verdict(o.failure) \in Failures
    /\ Shape(o.failure).session = Shape(o.call).session
    /\ Shape(o.failure).tool = Shape(o.call).tool
    /\ o.failure \in told => o.fingerprint = Fingerprint(o.failure)
    /\ o.fingerprint[1] = Shape(o.failure).tool
    /\ o.fingerprint \in known

Credited(f) == {o \in outcomes : o.failure = f /\ Verdict(o.call) = "ok"}
=============================================================================
