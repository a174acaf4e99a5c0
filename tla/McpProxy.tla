------------------------------ MODULE McpProxy ------------------------------
(***************************************************************************)
(* The proxy between an MCP client and an MCP server (failecho_mcp/        *)
(* proxy.py): one thread forwards the client's requests, the main thread   *)
(* forwards what the server answers, and a failed tools/call is held by a  *)
(* thread of its own until the network's advice is there.  The server is a *)
(* subprocess or a remote one (HttpUpstream), where every request is       *)
(* POSTed on a thread of its own and the answers are queued.               *)
(*                                                                         *)
(* Abstracted: the text of messages (what a line is about and whether it   *)
(* failed is all that is left of it), batches and notifications, which     *)
(* pass untouched, and the seconds of INFER_WINDOW (a failure may be too   *)
(* old at any time).  The handshake is over, so the name reports are filed *)
(* under is known; the session id of a remote server is left out.          *)
(* With advice switched off a failed answer goes the way of a good one.    *)
(***************************************************************************)
EXTENDS Integers, Sequences, FiniteSets

CONSTANTS
  MaxCalls,      \* bound: the tools/call requests the client makes, ...
  MaxPosts,      \* ... and to a remote server
  Breaking,      \* bound: the requests whose stream may break after the answer
  Shapes,        \* tool and hash of the arguments
  FirstShape,    \* bound: that of the first request; the shapes are all alike
  MaxRetryable   \* bound of _retryable

ASSUME ProxyAssumption == 
  /\ MaxCalls \in Nat /\ MaxPosts \in Nat /\ Breaking \subseteq 1 .. MaxCalls
  /\ MaxRetryable \in Nat \ {0} /\ FirstShape \in Shapes

VARIABLES
  kind,       \* "stdio" or "http"
  client,     \* "open", "eof" (no more requests), "gone" (reads nothing either)
  signalled,  \* SIGTERM or SIGINT has come
  reader,     \* the thread of _from_client
  pending,    \* _pending
  request,    \* what has become of each request, upstream
  finish,     \* the threads of HttpUpstream.close, by who closed
  ended,      \* the subprocess has closed its stdout
  out,        \* _out, or the pipe: indices of emitted, and End
  retryable,  \* _retryable: a shape -> [at, id], at being the report's place in log
  main,       \* the main thread: _from_server, then the end of run
  advising,   \* the advice threads that have not written, by request
  written,    \* how often each emitted message was written to the client
  log,        \* what was handed to the reporting client, in order
  emitted,    \* history: all messages of the server
  owed,       \* history: the requests forwarded when the upstream was first closed
  late        \* history: a timeout of the shutdown has struck

clientVars   == <<kind, client, signalled>>
upstreamVars == <<request, finish, ended>>
reportVars   == <<retryable, log>>
vars == <<clientVars, reader, pending, upstreamVars, out, main, advising, written,
          reportVars, emitted, owed, late>>

-----------------------------------------------------------------------------
(* The client numbers its requests.                                        *)
Calls == 1 .. MaxCalls

End == 0
Closers == {"eof", "signal"}

(* A result, an error worth another try, or any other error.               *)
Verdicts == {"ok", "transient", "fatal"}

Running == main # "exited"

(* A message comes out of the server.                                      *)
Emit(id, verdict) ==
  /\ emitted' = Append(emitted, [id |-> id, verdict |-> verdict])
  /\ written' = Append(written, 0)
  /\ out' = Append(out, Len(emitted) + 1)

EmitNothing == UNCHANGED <<emitted, written, out>>

Init ==
  /\ kind \in {"stdio", "http"}
  /\ client = "open" /\ signalled = FALSE
  /\ reader = [pc |-> "reading", id |-> 0]
  /\ pending = {}
  /\ request = [id \in Calls |-> [pc |-> "unsent", shape |-> "none"]]
  /\ finish = [k \in Closers |-> "none"]
  /\ ended = FALSE
  /\ out = <<>> /\ emitted = <<>> /\ written = <<>>
  /\ retryable = [s \in {} |-> 0] /\ log = <<>>
  /\ main = "reading"
  /\ advising = [id \in {} |-> 0]
  /\ owed = {} /\ late = FALSE

-----------------------------------------------------------------------------
(* The client stops asking, or goes away altogether.                       *)

ClientStops ==
  /\ Running /\ client # "gone"
  /\ client' \in {"eof", "gone"} \ {client}
  /\ UNCHANGED <<kind, signalled, reader, pending, upstreamVars, out, main,
                 advising, written, reportVars, emitted, owed, late>>

-----------------------------------------------------------------------------
(* _from_client.                                                           *)

(* A line is read, and noted before it is forwarded.                       *)
NoteRequest ==
  /\ Running /\ reader.pc = "reading" /\ client = "open"
  /\ kind = "http" => reader.id < MaxPosts
  /\ \E id \in {reader.id + 1} \cap Calls, s \in Shapes :
       /\ id = 1 => s = FirstShape
       /\ reader' = [pc |-> "writing", id |-> id]
       /\ request' = [request EXCEPT ![id].shape = s]
       /\ pending' = pending \cup {id}
  /\ UNCHANGED <<clientVars, finish, ended, out, main, advising, written,
                 reportVars, emitted, owed, late>>

(* It is written to the pipe, or counted as in flight and POSTed on its own*)
(* thread; a pipe that is broken ends the loop.                            *)
ForwardRequest ==
  /\ Running /\ reader.pc = "writing"
  /\ IF kind = "stdio" /\ ended
     THEN reader' = [reader EXCEPT !.pc = "closing"] /\ UNCHANGED request
     ELSE /\ reader' = [reader EXCEPT !.pc = "reading"]
          /\ request' = [request EXCEPT ![reader.id].pc = "asked"]
  /\ UNCHANGED <<clientVars, pending, finish, ended, out, main, advising,
                 written, reportVars, emitted, owed, late>>

ReadEof ==
  /\ Running /\ reader.pc = "reading" /\ client # "open"
  /\ reader' = [reader EXCEPT !.pc = "closing"]
  /\ UNCHANGED <<clientVars, pending, upstreamVars, out, main, advising, written,
                 reportVars, emitted, owed, late>>

Forwarded == {id \in Calls : request[id].pc # "unsent"}

Closed == \E k \in Closers : finish[k] # "none"

(* HttpUpstream.close starts a thread, each time it is called.             *)
StartFinish(k) ==
  IF kind = "http"
  THEN /\ finish' = [finish EXCEPT ![k] = "waiting"]
       /\ owed' = IF Closed THEN owed ELSE Forwarded
  ELSE UNCHANGED <<finish, owed>>

(* Fault: the loop ends, and the upstream is not closed.                   *)
UpstreamLeftOpen ==
  /\ Running /\ reader.pc = "closing"
  /\ reader' = [reader EXCEPT !.pc = "ended"]
  /\ UNCHANGED <<clientVars, pending, upstreamVars, out, main, advising, written,
                 reportVars, emitted, owed, late>>

CloseUpstream ==
  /\ Running /\ reader.pc = "closing"
  /\ reader' = [reader EXCEPT !.pc = "ended"]
  /\ StartFinish("eof")
  /\ UNCHANGED <<clientVars, pending, request, ended, out, main, advising,
                 written, reportVars, emitted, late>>

(* The signal handler passes it on: to the subprocess, or as a close.      *)
Signal ==
  /\ Running /\ ~signalled
  /\ signalled' = TRUE
  /\ StartFinish("signal")
  /\ UNCHANGED <<kind, client, reader, pending, request, ended, out, main,
                 advising, written, reportVars, emitted, late>>

-----------------------------------------------------------------------------
(* HttpUpstream.                                                           *)

Become(id, pc) == request' = [request EXCEPT ![id].pc = pc]

HttpRest == UNCHANGED <<clientVars, reader, pending, ended, main, advising, reportVars,
                        owed, late>>

(* The answer to a POST, with which its thread ends: a message; an HTTP    *)
(* error, or no connection, which becomes a message too; ...               *)
PostAnswered(id) ==
  /\ Running /\ kind = "http" /\ request[id].pc = "asked"
  /\ \E v \in Verdicts : Emit(id, v)
  /\ Become(id, "done") \/ (id \in Breaking /\ Become(id, "cut"))
  /\ UNCHANGED finish /\ HttpRest

(* ... a body that is empty or is not JSON; ...                            *)
PostUnreadable(id) ==
  /\ Running /\ kind = "http" /\ request[id].pc = "asked"
  /\ Become(id, "done")
  /\ EmitNothing
  /\ UNCHANGED finish /\ HttpRest

(* ... or a stream that breaks after it has answered: an error follows.    *)
PostCut(id) ==
  /\ Running /\ request[id].pc = "cut"
  /\ Emit(id, "transient")
  /\ Become(id, "done")
  /\ UNCHANGED finish /\ HttpRest

InFlight == {id \in Calls : request[id].pc \in {"asked", "cut"}}

(* close: the calls in flight finish, or ten minutes pass; the session is  *)
(* deleted, and the queue ended.                                           *)
Finish(k) ==
  /\ Running /\ finish[k] = "waiting"
  /\ finish' = [finish EXCEPT ![k] = "done"]
  /\ late' = (late \/ InFlight # {})
  /\ out' = Append(out, End)
  /\ UNCHANGED <<clientVars, reader, pending, request, ended, main, advising,
                 written, reportVars, emitted, owed>>

-----------------------------------------------------------------------------
(* A subprocess, of which no more is assumed than that it ends when its    *)
(* stdin does or a signal comes, and that it may end before.               *)

ServerAnswers(id) ==
  /\ Running /\ kind = "stdio" /\ ~ended /\ request[id].pc = "asked"
  /\ \E v \in Verdicts : Emit(id, v)
  /\ Become(id, "done")
  /\ UNCHANGED finish /\ HttpRest

ServerEnds ==
  /\ Running /\ kind = "stdio" /\ ~ended
  /\ ended' = TRUE
  /\ out' = Append(out, End)
  /\ UNCHANGED <<clientVars, reader, pending, request, finish, main, advising,
                 written, reportVars, emitted, owed, late>>

-----------------------------------------------------------------------------
(* _inspect and _infer, for the message n of a call that is pending.       *)

Verdict(n) == emitted[n].verdict

Call(id, verdict) == [kind |-> "call", id |-> id, verdict |-> verdict, failure |-> id]

Outcome(id, verdict, failure) ==
  [kind |-> "outcome", id |-> id, verdict |-> verdict, failure |-> failure]

Forget(s) == [x \in DOMAIN retryable \ {s} |-> retryable[x]]

(* The oldest makes room.                                                  *)
Bounded(map) ==
  IF Cardinality(DOMAIN map) < MaxRetryable THEN map
  ELSE [x \in {y \in DOMAIN map : \E z \in DOMAIN map : map[z].at < map[y].at} |-> map[x]]

Remember(map, s, id) ==
  [x \in DOMAIN map \cup {s} |-> IF x = s THEN [at |-> Len(log) + 1, id |-> id] ELSE map[x]]

(* The call is recorded, and an outcome if a failure of its shape is held. *)
Records(id, verdict) == log' = Append(log, Call(id, verdict))

RecordsBoth(id, verdict) ==
  LET s == request[id].shape IN
  /\ s \in DOMAIN retryable
  /\ log' = Append(Append(log, Call(id, verdict)), Outcome(id, verdict, retryable[s].id))

(* Fault: the failure is looked up, and stays.                             *)
InferKept(id, verdict) ==
  LET s == request[id].shape IN
  /\ retryable' = IF verdict = "transient" /\ s \notin DOMAIN retryable
                  THEN Remember(Bounded(retryable), s, id) ELSE retryable
  /\ Records(id, verdict) \/ RecordsBoth(id, verdict)

(* The call is recorded; then the outcome, if its last failure was         *)
(* transient and is not too old; then the call is remembered.              *)
Infer(id, verdict) ==
  LET s == request[id].shape IN
  /\ retryable' = IF verdict = "transient" THEN Remember(Bounded(Forget(s)), s, id) ELSE Forget(s)
  /\ Records(id, verdict) \/ RecordsBoth(id, verdict)

(* Fault: the entry is read, and stays.                                    *)
PopPendingKept(id) == UNCHANGED pending

PopPending(id) == pending' = pending \ {id}

Hold(n) == advising' = [id \in DOMAIN advising \cup {emitted[n].id} |->
             IF id = emitted[n].id THEN n ELSE advising[id]]

Write(n) == written' = IF client = "gone" THEN written ELSE [written EXCEPT ![n] = @ + 1]

(* A line goes to the client; if there is none the loop ends.              *)
ToClient(n) == Write(n) /\ main' = IF client = "gone" THEN "joining" ELSE main

(* Fault: a held line is forwarded as well.                                *)
InspectForwarded(n) ==
  LET id == emitted[n].id IN
  /\ PopPending(id)
  /\ Infer(id, Verdict(n))
  /\ ToClient(n)
  /\ IF Verdict(n) = "ok" THEN UNCHANGED advising ELSE Hold(n)

(* The answer of a tools/call: one that failed is left to an advice thread.*)
Inspect(n) ==
  LET id == emitted[n].id IN
  /\ PopPending(id)
  /\ Infer(id, Verdict(n))
  /\ IF Verdict(n) = "ok" THEN ToClient(n) /\ UNCHANGED advising
     ELSE Hold(n) /\ UNCHANGED <<main, written>>

-----------------------------------------------------------------------------
(* _from_server, and the rest of run.                                      *)

MainRest == UNCHANGED <<clientVars, reader, upstreamVars, emitted, owed>>

(* A line is taken from the server, or the end.                            *)
MainReads ==
  /\ main = "reading" /\ out # <<>>
  /\ out' = Tail(out)
  /\ LET n == Head(out) IN
     \/ /\ n = End
        /\ main' = "joining"
        /\ UNCHANGED <<pending, advising, written, reportVars>>
     \/ /\ n # End /\ emitted[n].id \notin pending
        /\ ToClient(n)
        /\ UNCHANGED <<pending, advising, reportVars>>
     \/ /\ n # End /\ emitted[n].id \in pending
        /\ Inspect(n)
  /\ UNCHANGED late /\ MainRest

(* proc.wait, which for a remote server returns at once.                   *)
ServerOver == kind = "http" \/ ended

(* The advice threads are joined, each for a second more than advice may   *)
(* take; then what was reported is flushed, and the process ends.          *)
JoinAdvice ==
  /\ main = "joining" /\ ServerOver
  /\ late' = (late \/ DOMAIN advising # {})
  /\ main' = "exited"
  /\ UNCHANGED <<pending, out, advising, written, reportVars>> /\ MainRest

-----------------------------------------------------------------------------
(* _advise_and_write: the answer is there, or is not, and the line goes out*)
(* in either case.                                                         *)

AdviceWrites(id) ==
  /\ Running /\ id \in DOMAIN advising
  /\ Write(advising[id])
  /\ advising' = [i \in DOMAIN advising \ {id} |-> advising[i]]
  /\ UNCHANGED <<clientVars, reader, pending, upstreamVars, out, main, reportVars,
                 emitted, owed, late>>

ReaderStep == NoteRequest \/ ForwardRequest \/ ReadEof \/ CloseUpstream
PostStep(id) == PostAnswered(id) \/ PostUnreadable(id) \/ PostCut(id)
MainStep == MainReads \/ JoinAdvice

Next ==
  \/ ClientStops \/ Signal \/ ReaderStep \/ MainStep \/ ServerEnds
  \/ \E id \in Calls : PostStep(id) \/ ServerAnswers(id) \/ AdviceWrites(id)
  \/ \E k \in Closers : Finish(k)

Spec == Init /\ [][Next]_vars

(* Every thread goes on; a POST and a question for advice end by their     *)
(* timeouts, and a subprocess ends when its stdin has, or by the signal.   *)
(* Nothing makes the client ask or stop.                                   *)
Fairness ==
  /\ WF_vars(ForwardRequest \/ ReadEof \/ CloseUpstream)
  /\ WF_vars(MainStep)
  /\ \A id \in Calls : WF_vars(PostStep(id)) /\ WF_vars(AdviceWrites(id))
  /\ \A k \in Closers : WF_vars(Finish(k))
  /\ WF_vars((reader.pc = "ended" \/ signalled) /\ ServerEnds)

FairSpec == Spec /\ Fairness

-----------------------------------------------------------------------------
(* Properties.                                                             *)

(* Whatever threads it passes through, a message of the server is in one   *)
(* place, or has been written once, as long as there is a client to write  *)
(* it to: none is dropped, doubled, or held and forwarded.                 *)
Places(n) ==
  Cardinality({i \in DOMAIN out : out[i] = n})
    + Cardinality({id \in DOMAIN advising : advising[id] = n})
    + written[n]

EveryMessageOnce ==
  \A n \in DOMAIN emitted : IF client = "gone" THEN Places(n) <= 1 ELSE Places(n) = 1

(* A call is reported once, by the first answer there was to it, before    *)
(* that answer can reach the client, and however many answers follow.      *)
FirstAnswer(id, n) == emitted[n].id = id /\ \A m \in 1 .. n - 1 : emitted[m].id # id

Reports(id) == {i \in DOMAIN log : log[i].kind = "call" /\ log[i].id = id}

ReportedByFirstAnswer ==
  \A id \in Calls, n \in DOMAIN emitted :
    FirstAnswer(id, n) =>
      /\ Cardinality(Reports(id)) <= 1
      /\ \A i \in Reports(id) : log[i].verdict = Verdict(n)
      /\ written[n] > 0 \/ id \in DOMAIN advising => Reports(id) # {}

(* An outcome stands behind the report of its call, and that of the        *)
(* transient failure it is about, with no other answer to such a call in   *)
(* between; and no failure has two.                                        *)
OutcomesFollowFailures ==
  \A i \in DOMAIN log : log[i].kind = "outcome" =>
    /\ i - 1 \in Reports(log[i].id)
    /\ \E j \in Reports(log[i].failure) :
         /\ j < i - 1 /\ log[j].verdict = "transient"
         /\ request[log[j].id].shape = request[log[i].id].shape
         /\ \A k \in j + 1 .. i - 2 : 
              log[k].kind = "call" => request[log[k].id].shape # request[log[i].id].shape

(* A shutdown, by the client or by a signal, loses no answer: unless a     *)
(* timeout struck, what was forwarded to a remote server before it began   *)
(* has been answered in full and written when the proxy ends.              *)
AnsweredBeforeExit ==
  (kind = "http" /\ main = "exited" /\ client # "gone" /\ ~late) =>
    \A id \in owed : /\ request[id].pc = "done"
                     /\ \A n \in DOMAIN emitted : emitted[n].id = id => written[n] = 1

(* No message is lost or doubled, on its way or at the end.                *)
AnswersKept == EveryMessageOnce /\ AnsweredBeforeExit

(* What is reported is one call for each call, and outcomes of failures.   *)
CallsReportedOnce == ReportedByFirstAnswer /\ OutcomesFollowFailures

(* The proxy does not outlive its client, nor a signal.                    *)
ProxyEnds == (client # "open" \/ signalled) ~> main = "exited"
=============================================================================
