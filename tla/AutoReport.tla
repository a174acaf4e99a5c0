----------------------------- MODULE AutoReport -----------------------------
(***************************************************************************)
(* The reporting client inside somebody else's program (class FailEcho of  *)
(* failecho_autoreport/__init__.py).  The program's threads put reports on *)
(* a bounded queue; one daemon thread drains it, ends when the queue has   *)
(* been empty for a while, and is started anew by the next report.         *)
(*                                                                         *)
(* A fingerprint is what the server answers to a failure, a function of    *)
(* its operation and shape: the model writes the shape for it.             *)
(*                                                                         *)
(* Abstracted: the request's other fields, signing, advice (a read of the  *)
(* server that stores nothing) and the wrappers, which call record_failure *)
(* or record_success once for each call they watch.                        *)
(***************************************************************************)
EXTENDS Integers, Sequences, FiniteSets, Functions

CONSTANTS
  Threads,     \* threads of the program
  Workers,     \* thread identities the client may start
  Operations,
  Shapes,      \* (error_type, error_code) of a failure
  NoShape,     \* an outcome that names no shape; an operation with no failure
  NoWorker,
  MaxQueue,    \* MAX_QUEUE
  MaxReports   \* bound: reports the program makes

ASSUME AutoReportAssumption ==
  /\ IsFiniteSet(Threads)
  /\ NoShape \notin Shapes
  /\ NoWorker \notin Workers
  /\ MaxQueue \in Nat \ {0}
  /\ MaxReports \in Nat

VARIABLES
  queue,         \* _queue
  unfinished,    \* _queue.unfinished_tasks
  worker,        \* _worker
  thread,        \* what each drain thread is doing
  caller,        \* what each thread of the program is doing in the client
  fingerprints,  \* _fingerprints
  counts,        \* queued, dropped, sent, failed, unmatched
  server,        \* history: the requests that reached the server, in order
  reports,       \* history: the reports the program made, in order
  lost           \* history: reports whose fingerprint the client never got

vars == <<queue, unfinished, worker, thread, caller, fingerprints, counts,
          server, reports, lost>>

-----------------------------------------------------------------------------
(* meant: the shape of the failure the program had in mind.                *)
NoReport == [kind |-> "none"]

IsAlive(w) == thread[w].pc \in {"getting", "posting", "answered", "ending"}

Bump(c) == counts' = [counts EXCEPT ![c] = @ + 1]

Init ==
  /\ queue = <<>>
  /\ unfinished = 0
  /\ worker = NoWorker
  /\ thread = [w \in Workers |-> [pc |-> "unborn", report |-> NoReport]]
  /\ caller = [t \in Threads |-> [pc |-> "idle", mark |-> 0]]
  /\ fingerprints = [latest |-> [o \in Operations |-> NoShape],
                     exact |-> [o \in Operations |-> {}]]
  /\ counts = [c \in {"queued", "dropped", "sent", "failed", "unmatched"} |-> 0]
  /\ server = <<>>
  /\ reports = <<>>
  /\ lost = {}

-----------------------------------------------------------------------------
(* The program's threads.                                                  *)

(* The operation's failure that the program saw last.                      *)
LatestFailure(o) ==
  LET failures == {i \in 1 .. Len(reports) :
                     reports[i].kind = "failure" /\ reports[i].operation = o}
  IN IF failures = {} THEN NoShape
     ELSE reports[CHOOSE i \in failures : \A j \in failures : j <= i].shape

(* record_failure, record_success, recovered with or without a shape.      *)
NewReports ==
  LET make(k, o, s, m) == [id |-> Len(reports) + 1, kind |-> k, operation |-> o,
                           shape |-> s, meant |-> m]
  IN    {make("failure", o, s, s) : o \in Operations, s \in Shapes}
   \cup {make("success", o, NoShape, NoShape) : o \in Operations}
   \cup {make("outcome", o, s, s) : o \in Operations, s \in Shapes}
   \cup {make("outcome", o, NoShape, LatestFailure(o)) : o \in Operations}

(* The put of _submit: a full queue drops the report.                      *)
Submit(t) ==
  /\ caller[t].pc = "idle" /\ Len(reports) < MaxReports
  /\ \E r \in NewReports :
       /\ reports' = Append(reports, r)
       /\ \/ /\ Len(queue) < MaxQueue
             /\ queue' = Append(queue, r)
             /\ unfinished' = unfinished + 1
             /\ caller' = [caller EXCEPT ![t].pc = "ensure"]
             /\ UNCHANGED <<counts, lost>>
          \/ /\ Len(queue) >= MaxQueue
             /\ Bump("dropped")
             /\ lost' = lost \cup {r.id}
             /\ UNCHANGED <<queue, unfinished, caller>>
  /\ UNCHANGED <<worker, thread, fingerprints, server>>

StartWorker ==
  \E w \in Workers :
    /\ thread[w].pc = "unborn"
    /\ worker' = w
    /\ thread' = [thread EXCEPT ![w].pc = "getting"]

(* The rest of _submit, with _ensure_worker, which holds the lock.         *)
EnsureWorker(t) ==
  /\ caller[t].pc = "ensure"
  /\ caller' = [caller EXCEPT ![t].pc = "idle"]
  /\ Bump("queued")
  /\ \/ worker # NoWorker /\ IsAlive(worker) /\ UNCHANGED <<worker, thread>>
     \/ ~(worker # NoWorker /\ IsAlive(worker)) /\ StartWorker
  /\ UNCHANGED <<queue, unfinished, fingerprints, server, reports, lost>>

FlushStart(t) ==
  /\ caller[t].pc = "idle"
  /\ caller' = [caller EXCEPT ![t] = [pc |-> "flushing", mark |-> Len(reports)]]
  /\ UNCHANGED <<queue, unfinished, worker, thread, fingerprints, counts,
                 server, reports, lost>>

(* Fault: an empty queue is taken for a drained one.                       *)
AllDoneWhenEmpty == queue = <<>>

AllDone == unfinished = 0

(* flush polls, and gives up at its deadline.                              *)
FlushReturn(t) ==
  /\ caller[t].pc = "flushing"
  /\ \/ AllDone /\ caller' = [caller EXCEPT ![t].pc = "drained"]
     \/ ~AllDone /\ caller' = [caller EXCEPT ![t] = [pc |-> "idle", mark |-> 0]]
  /\ UNCHANGED <<queue, unfinished, worker, thread, fingerprints, counts,
                 server, reports, lost>>

(* The program goes on after a flush that returned True.                   *)
FlushSeen(t) ==
  /\ caller[t].pc = "drained"
  /\ caller' = [caller EXCEPT ![t] = [pc |-> "idle", mark |-> 0]]
  /\ UNCHANGED <<queue, unfinished, worker, thread, fingerprints, counts,
                 server, reports, lost>>

-----------------------------------------------------------------------------
(* The worker: _drain.                                                     *)

Get(w) ==
  /\ thread[w].pc = "getting" /\ queue # <<>>
  /\ thread' = [thread EXCEPT ![w] = [pc |-> "posting", report |-> Head(queue)]]
  /\ queue' = Tail(queue)
  /\ UNCHANGED <<unfinished, worker, caller, fingerprints, counts, server,
                 reports, lost>>

(* queue.Empty: the thread will end, but is alive until it has.            *)
GiveUp(w) ==
  /\ thread[w].pc = "getting" /\ queue = <<>>
  /\ thread' = [thread EXCEPT ![w].pc = "ending"]
  /\ UNCHANGED <<queue, unfinished, worker, caller, fingerprints, counts,
                 server, reports, lost>>

End(w) ==
  /\ thread[w].pc = "ending"
  /\ thread' = [thread EXCEPT ![w].pc = "dead"]
  /\ UNCHANGED <<queue, unfinished, worker, caller, fingerprints, counts,
                 server, reports, lost>>

(* Fault: the shape an outcome names is not looked at.                     *)
FingerprintOfLatest(r) == fingerprints.latest[r.operation]

(* _fingerprint_for: the exact shape if it has been reported, else the     *)
(* operation's latest failure.                                             *)
FingerprintFor(r) ==
  IF r.shape \in fingerprints.exact[r.operation] THEN r.shape
  ELSE fingerprints.latest[r.operation]

Target(r) == CASE r.kind = "failure" -> r.shape
               [] r.kind = "outcome" -> FingerprintFor(r)
               [] OTHER              -> NoShape

Matched(r) == r.kind = "outcome" => FingerprintFor(r) # NoShape

(* The end of one turn of _drain's loop; task_done is in a finally.        *)
TaskDone(w, c) ==
  /\ thread' = [thread EXCEPT ![w] = [pc |-> "getting", report |-> NoReport]]
  /\ unfinished' = unfinished - 1
  /\ Bump(c)
  /\ UNCHANGED <<queue, worker, caller, reports>>

(* The request arrives.                                                    *)
Deliver(w) ==
  LET r == thread[w].report IN
  /\ thread[w].pc = "posting" /\ Matched(r)
  /\ server' = Append(server, [report |-> r, fingerprint |-> Target(r)])
  /\ thread' = [thread EXCEPT ![w].pc = "answered"]
  /\ UNCHANGED <<queue, unfinished, worker, caller, fingerprints, counts,
                 reports, lost>>

(* Its answer arrives, with a fingerprint if it was a failure's.           *)
Answer(w) ==
  LET r == thread[w].report IN
  /\ thread[w].pc = "answered"
  /\ fingerprints' = IF r.kind = "failure"
                     THEN [latest |-> [fingerprints.latest EXCEPT ![r.operation] = r.shape],
                           exact |-> [fingerprints.exact EXCEPT ![r.operation] = @ \cup {r.shape}]]
                     ELSE fingerprints
  /\ TaskDone(w, "sent")
  /\ UNCHANGED <<server, lost>>

(* Its answer arrives and cannot be read: still a report that was sent.    *)
AnswerUnreadable(w) ==
  /\ thread[w].pc = "answered" /\ thread[w].report.kind = "failure"
  /\ lost' = lost \cup {thread[w].report.id}
  /\ TaskDone(w, "sent")
  /\ UNCHANGED <<server, fingerprints>>

(* The request is refused, or times out before or after it has arrived.    *)
PostFails(w) ==
  /\ thread[w].pc \in {"posting", "answered"} /\ Matched(thread[w].report)
  /\ lost' = lost \cup {thread[w].report.id}
  /\ TaskDone(w, "failed")
  /\ UNCHANGED <<server, fingerprints>>

(* _NoFingerprint.                                                         *)
Unmatched(w) ==
  /\ thread[w].pc = "posting" /\ ~Matched(thread[w].report)
  /\ TaskDone(w, "unmatched")
  /\ UNCHANGED <<server, fingerprints, lost>>

ThreadStep(t) == Submit(t) \/ EnsureWorker(t) \/ FlushStart(t) \/ FlushReturn(t) \/ FlushSeen(t)
WorkerStep(w) == \/ Get(w) \/ GiveUp(w) \/ End(w) \/ Deliver(w) \/ Answer(w)
                 \/ AnswerUnreadable(w) \/ PostFails(w) \/ Unmatched(w)

Next == (\E t \in Threads : ThreadStep(t)) \/ (\E w \in Workers : WorkerStep(w))

-----------------------------------------------------------------------------
(* Properties.                                                             *)

(* Reports that were put on the queue and are not done.                    *)
Pending == Range(queue) \cup {thread[w].report : w \in {x \in Workers : thread[x].report # NoReport}}

(* _ensure_worker never lets two threads drain the queue: what reaches the *)
(* server arrives in the order the program reported it, and nothing twice. *)
SentInOrder ==
  \A i, j \in DOMAIN server : i < j => server[i].report.id < server[j].report.id

(* The counters a summary prints: every report that was queued has been    *)
(* sent, has failed, has found no failure, or is still to be done.         *)
EveryReportAccounted ==
  /\ unfinished = Cardinality(Pending)
  /\ counts.queued + Cardinality({t \in Threads : caller[t].pc = "ensure"})
       = counts.sent + counts.failed + counts.unmatched + unfinished

(* A flush that returns True has seen every report made before it tried,   *)
(* the one the worker has in flight included.                              *)
FlushMeansTried ==
  \A t \in Threads : caller[t].pc = "drained" =>
    \A r \in Pending : r.id > caller[t].mark

(* An outcome that reaches the server names a failure of its operation     *)
(* that reached it before: never one that has not happened yet.            *)
OutcomeAfterFailure ==
  \A i \in DOMAIN server : server[i].report.kind = "outcome" =>
    \E j \in 1 .. i - 1 : /\ server[j].report.kind = "failure"
                          /\ server[j].report.operation = server[i].report.operation
                          /\ server[j].fingerprint = server[i].fingerprint

(* The shape an outcome means was reported before it.                      *)
Reported(r) ==
  \E i \in 1 .. r.id - 1 : /\ reports[i].kind = "failure"
                           /\ reports[i].operation = r.operation
                           /\ reports[i].shape = r.meant

NothingLost(r) ==
  \A i \in 1 .. r.id - 1 : reports[i].operation = r.operation => i \notin lost

(* "One worker draining in order is what makes that safe": as long as no   *)
(* failure of the operation was lost on its way, an outcome is put on the  *)
(* failure the program meant, although it is resolved only when it is sent.*)
OutcomeOnItsFailure ==
  \A i \in DOMAIN server :
    LET r == server[i].report IN
    (r.kind = "outcome" /\ Reported(r) /\ NothingLost(r))
      => server[i].fingerprint = r.meant

(* The counters and a flush agree about what is still to be done.          *)
QueueAccounted == EveryReportAccounted /\ FlushMeansTried

(* What reaches the server is in order, and its outcomes are on failures   *)
(* that it has, and on the right ones.                                     *)
OutcomesOnTheirFailures == SentInOrder /\ OutcomeAfterFailure /\ OutcomeOnItsFailure

(* Said by the module's docstring: a queue "drained by a daemon thread".   *)
NothingStranded == (queue # <<>>) ~> (queue = <<>>)
=============================================================================
