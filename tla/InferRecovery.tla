--------------------------- MODULE InferRecovery ---------------------------
(***************************************************************************)
(* Zero-code reporting (failecho_autoreport/auto.py): every HTTP call of   *)
(* the program is reported when it ends, and a call to a URL whose last    *)
(* call failed for a transient reason is reported as a recovery of that    *)
(* failure as well.  The failures that may still be recovered from are in  *)
(* _pending, which the program's threads share without a lock; an          *)
(* exception in here is swallowed, with the report it interrupts.          *)
(*                                                                         *)
(* The reports go on the queue of AutoReport in the order of the log here; *)
(* what becomes of them there is AutoReport's, so that the two are checked *)
(* side by side, one of them at a time.                                    *)
(*                                                                         *)
(* Abstracted: the route a URL is reported under (one service and          *)
(* operation), its error class and code, and the libraries that are        *)
(* patched.                                                                *)
(***************************************************************************)
EXTENDS AutoReport

CONSTANTS
  Paths,       \* host and path of a URL
  Rests,       \* its port and query string
  Window,      \* INFER_WINDOW, in ticks
  BackoffGap,  \* BACKOFF_GAP, in ticks
  MaxPending,  \* MAX_PENDING
  MaxHttpCalls, \* bound: calls the program makes
  MaxClock     \* bound: the last tick

ASSUME InferAssumption ==
  /\ BackoffGap \in Nat \ {0} /\ Window \in Nat /\ Window >= BackoffGap
  /\ MaxPending \in Nat \ {0}
  /\ MaxHttpCalls \in Nat /\ MaxClock \in Nat

VARIABLES
  part,      \* which of the two is looked at
  clock,
  _pending,  \* [key] when a call failed, and which
  watched,   \* what each thread is doing
  log,       \* the reports, in the order they are queued
  calls      \* history: the calls the program has begun, in order

inferVars == <<clock, _pending, watched, log, calls>>

-----------------------------------------------------------------------------
Urls == [path : Paths, rest : Rests]

(* "ok", a transient failure, or a failure that is no candidate.           *)
Results == {"ok", "transient", "other"}

NoFailure == 0

Idle == [pc |-> "idle", call |-> 0, result |-> "ok", now |-> 0,
         previous |-> NoFailure, gap |-> 0, size |-> 0]

(* _url_key: neither port nor query.                                       *)
UrlKey(u) == u.path

KeyOf(t) == UrlKey(calls[watched[t].call].url)

Goto(t, pc) == watched' = [watched EXCEPT ![t].pc = pc]

Drop(keys) == [k \in DOMAIN _pending \ keys |-> _pending[k]]

InferInit ==
  /\ clock = 0
  /\ _pending = [k \in {} |-> 0]
  /\ watched = [t \in Threads |-> Idle]
  /\ log = <<>>
  /\ calls = <<>>

Tick ==
  /\ clock < MaxClock
  /\ clock' = clock + 1
  /\ UNCHANGED <<_pending, watched, log, calls>>

StartCall(t) ==
  /\ watched[t].pc = "idle" /\ Len(calls) < MaxHttpCalls
  /\ \E u \in Urls : calls' = Append(calls, [url |-> u, started |-> clock, ended |-> -1])
  /\ watched' = [watched EXCEPT ![t] = [Idle EXCEPT !.pc = "calling", !.call = Len(calls) + 1]]
  /\ UNCHANGED <<clock, _pending, log>>

(* The clock is read as the call ends.                                     *)
EndCall(t) ==
  /\ watched[t].pc = "calling"
  /\ \E r \in Results :
       watched' = [watched EXCEPT ![t] = [@ EXCEPT !.pc = "infer", !.result = r, !.now = clock]]
  /\ calls' = [calls EXCEPT ![watched[t].call].ended = clock]
  /\ UNCHANGED <<clock, _pending, log>>

-----------------------------------------------------------------------------
(* _infer_outcome.                                                         *)

Previous(t) ==
  LET failed == _pending[KeyOf(t)] IN
  IF KeyOf(t) \in DOMAIN _pending /\ watched[t].now - failed.when <= Window
  THEN [call |-> failed.call, gap |-> watched[t].now - failed.when]
  ELSE [call |-> NoFailure, gap |-> 0]

HoldPrevious(t) ==
  watched' = [watched EXCEPT ![t] = [@ EXCEPT !.pc = "file", !.previous = Previous(t).call,
                                            !.gap = Previous(t).gap]]

(* Fault: the pending failure is read, and stays.                          *)
PopPendingKept(t) ==
  /\ watched[t].pc = "infer"
  /\ HoldPrevious(t)
  /\ UNCHANGED <<clock, _pending, log, calls>>

(* The previous failure of this URL, taken out of _pending; one that is    *)
(* older than the window is forgotten.                                     *)
PopPending(t) ==
  /\ watched[t].pc = "infer"
  /\ HoldPrevious(t)
  /\ _pending' = Drop({KeyOf(t)})
  /\ UNCHANGED <<clock, log, calls>>

Action(gap) == IF gap >= BackoffGap THEN "backoff" ELSE "retry"

(* recovered(...), where there is a failure to recover from.               *)
FileOutcome(t) ==
  LET previous == watched[t].previous IN
  /\ watched[t].pc = "file"
  /\ log' = IF previous = NoFailure THEN log
            ELSE Append(log, [kind |-> "outcome", call |-> watched[t].call,
                              failure |-> previous,
                              action |-> Action(watched[t].gap),
                              successful |-> watched[t].result = "ok"])
  /\ Goto(t, IF watched[t].result = "transient" THEN "remember" ELSE "record")
  /\ UNCHANGED <<clock, _pending, calls>>

HasRoom == Cardinality(DOMAIN _pending) < MaxPending

(* Is there room?  If not, min() walks over the keys.                      *)
CheckRoom(t) ==
  /\ watched[t].pc = "remember"
  /\ watched' = [watched EXCEPT ![t] = [@ EXCEPT !.pc = IF HasRoom THEN "store" ELSE "scan",
                                               !.size = Cardinality(DOMAIN _pending)]]
  /\ UNCHANGED <<clock, _pending, log, calls>>

Oldest(k) == \A j \in DOMAIN _pending : _pending[k].when <= _pending[j].when

(* The walk ends: it raises if the size has changed under it.              *)
ScanOldest(t) ==
  /\ watched[t].pc = "scan"
  /\ \/ /\ Cardinality(DOMAIN _pending) = watched[t].size
        /\ \E k \in DOMAIN _pending : /\ Oldest(k)
                                     /\ watched' = [watched EXCEPT ![t] = [@ EXCEPT !.pc = "evict",
                                                     !.previous = _pending[k].call]]
     \/ /\ Cardinality(DOMAIN _pending) # watched[t].size
        /\ Goto(t, "idle")
  /\ UNCHANGED <<clock, _pending, log, calls>>

(* del _pending[oldest]: raises if the key has gone meanwhile.             *)
Evict(t) ==
  LET k == UrlKey(calls[watched[t].previous].url) IN
  /\ watched[t].pc = "evict"
  /\ _pending' = Drop({k})
  /\ Goto(t, IF k \in DOMAIN _pending THEN "store" ELSE "idle")
  /\ UNCHANGED <<clock, log, calls>>

Store(t) ==
  /\ watched[t].pc = "store"
  /\ _pending' = [k \in DOMAIN _pending \cup {KeyOf(t)} |->
       IF k = KeyOf(t) THEN [when |-> watched[t].now, call |-> watched[t].call] ELSE _pending[k]]
  /\ Goto(t, "record")
  /\ UNCHANGED <<clock, log, calls>>

(* record_failure or record_success.                                       *)
Record(t) ==
  /\ watched[t].pc = "record"
  /\ log' = Append(log, [kind |-> "call", call |-> watched[t].call,
                         failed |-> watched[t].result # "ok"])
  /\ Goto(t, "idle")
  /\ UNCHANGED <<clock, _pending, calls>>

InferNext ==
  \/ Tick
  \/ \E t \in Threads : \/ StartCall(t) \/ EndCall(t) \/ PopPending(t) \/ FileOutcome(t)
                        \/ CheckRoom(t) \/ ScanOldest(t) \/ Evict(t) \/ Store(t) \/ Record(t)

-----------------------------------------------------------------------------
(* The client, or the patched libraries that report through it.            *)

reportingVars == <<part, vars, inferVars>>

ReportingInit == part \in {"client", "watcher"} /\ Init /\ InferInit

ReportingNext ==
  /\ \/ part = "client"  /\ Next      /\ UNCHANGED inferVars
     \/ part = "watcher" /\ InferNext /\ UNCHANGED vars
  /\ UNCHANGED part

ReportingSpec == ReportingInit /\ [][ReportingNext]_reportingVars

(* A thread inside the client goes on, and a request ends by its timeout.  *)
ClientFairSpec ==
  /\ ReportingInit /\ part = "client" /\ [][ReportingNext]_reportingVars
  /\ \A t \in Threads : WF_vars(EnsureWorker(t) \/ FlushReturn(t))
  /\ \A w \in Workers : WF_vars(WorkerStep(w))

-----------------------------------------------------------------------------
(* Properties.                                                             *)

Logged(kind) == {i \in DOMAIN log : log[i].kind = kind}
Outcomes == {log[i] : i \in Logged("outcome")}

(* Popping is one step: a failure is recovered from, or not, once, however *)
(* many threads call its URL.                                              *)
OneOutcomePerFailure ==
  \A i, j \in Logged("outcome") : log[i].failure = log[j].failure => i = j

(* An outcome is about a failure of its own key that ended inside the      *)
(* window, and a bare retry never waited as long as a backoff.             *)
OutcomeInsideWindow ==
  \A o \in Outcomes :
    LET gap == calls[o.call].started - calls[o.failure].ended IN
    /\ calls[o.call].url.path = calls[o.failure].url.path
    /\ calls[o.call].ended - calls[o.failure].ended <= Window
    /\ o.action = "retry" => gap < BackoffGap

(* What is inferred is one outcome, of a failure that it can be about.     *)
RecoveryInferredOnce == OneOutcomePerFailure /\ OutcomeInsideWindow
=============================================================================
