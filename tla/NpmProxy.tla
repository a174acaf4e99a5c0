-------------------------------- MODULE NpmProxy --------------------------------
(***************************************************************************)
(* The MCP proxy of the npm package (npm-relay/bin/proxy.js): a process    *)
(* with one event loop, where module McpProxy has threads; each session    *)
(* has its own.  What is to be reported is queued on a chain of promises   *)
(* and sent in order, and an answer that failed is held until the          *)
(* network's advice is there.  The server is a child process, or a remote  *)
(* one behind HttpUpstream, which looks like a child that ends when        *)
(* nothing is in flight any more.                                          *)
(***************************************************************************)
EXTENDS Adapters

CONSTANTS
  Arguments,     \* digests of a call's arguments
  MaxRetryable   \* the bound of the map of failures

VARIABLES
  chain,         \* the promises: [what, call, failure]
  fingerprints,  \* a tool, or a tool and a class -> the fingerprint told last
  retryable,     \* the map: a shape -> its last failure, if worth another try
  holding,       \* calls whose answer is held for advice
  remote,        \* whether the server is a remote one
  inflight,      \* requests sent and not answered
  phase          \* "open", "closing" (no more from the client), "finishing"
                 \* (the server has ended), "exited"

npmVars == <<chain, fingerprints, retryable, holding, remote, inflight, phase>>

\* The calls of a process are of one session.
ProcessShapes == [session : {"own"}, tool : Tools, args : Arguments]

NpmInit ==
  /\ chain = <<>>
  /\ fingerprints = [k \in Tools \X (Failures \cup {"any"}) |-> None]
  /\ retryable = [s \in {} |-> 0]
  /\ holding = {}
  /\ remote \in BOOLEAN
  /\ inflight = 0
  /\ phase = "open"

\* The client writes a request, as many at once as the calls are few.
Write ==
  /\ phase = "open" /\ inflight + Len(ended) < MaxCalls
  /\ inflight' = inflight + 1
  /\ UNCHANGED <<adapterVars, chain, fingerprints, retryable, holding, remote, phase>>

ClientEnds ==
  /\ phase = "open"
  /\ phase' = "closing"
  /\ UNCHANGED <<adapterVars, chain, fingerprints, retryable, holding, remote, inflight>>

\* A remote server ends when the client has and everything is answered.
maybeEnd == phase = "closing" /\ inflight = 0

\* A child process may end whenever it likes.
ServerEnds ==
  /\ IF remote THEN maybeEnd ELSE phase \in {"open", "closing"}
  /\ phase' = "finishing"
  /\ UNCHANGED <<adapterVars, chain, fingerprints, retryable, holding, remote, inflight>>

\* Held answers are waited for, longer than any advice takes; reports for two seconds.
finish ==
  /\ phase = "finishing"
  /\ holding = {}
  /\ phase' = "exited"
  /\ chain' = <<>>
  /\ UNCHANGED <<adapterVars, fingerprints, retryable, holding, remote, inflight>>

Enqueue(tasks) == chain' = chain \o tasks

Others(s) == [x \in DOMAIN retryable \ {s} |-> retryable[x]]

\* A full map loses its first entry, the call that ended first.
Bounded(map) ==
  IF Cardinality(DOMAIN map) < MaxRetryable THEN map
  ELSE [x \in {y \in DOMAIN map : \E z \in DOMAIN map : map[z] < map[y]} |-> map[x]]

Put(map, s, c) == [x \in DOMAIN map \cup {s} |-> IF x = s THEN c ELSE map[x]]

\* observe, then infer.
Inferred(c, s, verdict) ==
  LET observed == [what |-> "observe", call |-> c, failure |-> None]
  IN  /\ retryable' = IF verdict \in Transient THEN Put(Bounded(Others(s)), s, c) ELSE Others(s)
      /\ \/ /\ s \in DOMAIN retryable
            /\ LET f == retryable[s]
               IN  /\ Enqueue(<<observed, [what |-> "outcome", call |-> c, failure |-> f]>>)
                   /\ earned' = earned \cup {<<c, f>>}
         \/ /\ Enqueue(<<observed>>)
            /\ UNCHANGED earned

FromServer(c) ==
  \E s \in ProcessShapes, v \in Failures \cup {"ok"} :
    /\ phase \in {"open", "closing"} /\ inflight > 0
    /\ inflight' = inflight - 1
    /\ Ends(c, s, v)
    /\ Inferred(c, s, v)
    /\ holding' = IF v = "ok" THEN holding ELSE holding \cup {c}
    /\ UNCHANGED <<known, outcomes, told, sent, fingerprints, remote, phase>>

\* Advice, or three seconds without any.
AdviceThere(c) ==
  /\ c \in holding
  /\ holding' = holding \ {c}
  /\ UNCHANGED <<adapterVars, chain, fingerprints, retryable, remote, inflight, phase>>

\* The fingerprint of the operation, whatever its last failure was.
FingerprintOfTool(f) == fingerprints[<<Shape(f).tool, "any">>]

\* The failure's class may have been told before; else the last of the operation.
FingerprintFor(f) ==
  LET own == fingerprints[<<Shape(f).tool, Verdict(f)>>]
  IN  IF own # None THEN own ELSE fingerprints[<<Shape(f).tool, "any">>]

Remembered(c) ==
  fingerprints' =
    [fingerprints EXCEPT ![<<Shape(c).tool, "any">>] = Fingerprint(c),
                         ![<<Shape(c).tool, Verdict(c)>>] = Fingerprint(c)]

SendObserved(c) ==
  /\ IF Verdict(c) = "ok" THEN UNCHANGED <<fingerprints, told, known, outcomes>>
     ELSE \E answered \in BOOLEAN :
            /\ PostReport(c, answered)
            /\ IF answered THEN Remembered(c) /\ told' = told \cup {c}
                           ELSE UNCHANGED <<fingerprints, told>>
  /\ UNCHANGED sent

SendRecovered(c, f) ==
  /\ IF FingerprintFor(f) = None THEN UNCHANGED <<known, outcomes, sent>>
     ELSE /\ \E answered \in BOOLEAN : PostOutcome(c, f, FingerprintFor(f), answered)
          /\ sent' = sent \cup {<<c, f>>}
  /\ UNCHANGED <<fingerprints, told>>

\* The next of the chain; one that fails does not break it.
ChainGoesOn ==
  /\ chain # <<>>
  /\ chain' = Tail(chain)
  /\ LET task == Head(chain)
     IN  IF task.what = "observe" THEN SendObserved(task.call)
                                  ELSE SendRecovered(task.call, task.failure)
  /\ UNCHANGED <<agentVars, earned, retryable, holding, remote, inflight, phase>>

NpmNext ==
  \/ \E c \in Calls : FromServer(c) \/ AdviceThere(c)
  \/ ChainGoesOn \/ Write \/ ClientEnds \/ ServerEnds \/ finish

NpmSettled(c) == chain = <<>> /\ phase # "exited"

-----------------------------------------------------------------------------
(* Properties.                                                             *)

(* When the proxy exits the client has every answer: none is still held    *)
(* for advice, and none is missing that a remote server owed.              *)
AnsweredBeforeDone ==
  phase = "exited" => holding = {} /\ (remote => inflight = 0)
=============================================================================
