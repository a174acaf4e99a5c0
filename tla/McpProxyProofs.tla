---------------------------- MODULE McpProxyProofs ----------------------------
(***************************************************************************)
(* The MCP proxy (failecho_mcp/proxy.py), for any number of calls, shapes  *)
(* and failures it can remember: no message of the server is lost, doubled *)
(* or held and forwarded, and each call is reported once.                  *)
(*                                                                         *)
(* That a message is in one place follows from where the messages of one   *)
(* call are: as long as it is pending, all of them are still in the queue, *)
(* in the order in which the server wrote them, so that the one that is    *)
(* read first is its first answer, and what is held for it is the only     *)
(* message held.  A shutdown loses none because nothing of what is owed is *)
(* behind the end of the queue.                                            *)
(***************************************************************************)
EXTENDS McpProxy, FiniteSetTheorems, SequenceTheorems, TLAPS

-----------------------------------------------------------------------------
(* The types.                                                              *)

Readers == [pc : {"reading", "writing", "closing", "ended"}, id : 0 .. MaxCalls]

Requests == [pc : {"unsent", "asked", "cut", "done"}, shape : Shapes \cup {"none"}]

Messages == [id : Calls, verdict : Verdicts]

Entries == [kind : {"call", "outcome"}, id : Calls, verdict : Verdicts, failure : Calls]

Typed ==
  /\ kind \in {"stdio", "http"} /\ main \in {"reading", "joining", "exited"}
  /\ reader \in Readers /\ request \in [Calls -> Requests]
  /\ emitted \in Seq(Messages) /\ out \in Seq(Nat)
  /\ written \in Seq(Nat) /\ Len(written) = Len(emitted)
  /\ log \in Seq(Entries) /\ late \in BOOLEAN
  /\ finish \in [Closers -> {"none", "waiting", "done"}]

-----------------------------------------------------------------------------
(* Where the messages are.                                                 *)

\* A request is noted, then forwarded, then answered.
RequestWell(id) ==
  /\ request[id].pc # "unsent" => id <= reader.id
  /\ reader.pc = "writing" /\ id = reader.id => request[id].pc = "unsent"
  /\ id \in pending => id <= reader.id

\* What has been read of the messages: none of a call that is pending.
MessageWell(n) ==
  /\ emitted[n].id <= reader.id /\ written[n] \in {0, 1}
  /\ client # "gone" => \/ \E i \in 1 .. Len(out) : out[i] = n
                        \/ \E id \in DOMAIN advising : advising[id] = n
                        \/ written[n] = 1
  /\ emitted[n].id \in pending => \E i \in 1 .. Len(out) : out[i] = n

OutWell(i) ==
  out[i] # End => /\ out[i] \in 1 .. Len(emitted) /\ written[out[i]] = 0
                  /\ \A id \in DOMAIN advising : advising[id] # out[i]

InOrder(i, j) == i < j /\ out[i] # End /\ out[j] # End => out[i] < out[j]

\* A message that is held is the only one of its call.
AdvisingWell(id) ==
  /\ id \in Calls /\ id \notin pending
  /\ advising[id] \in 1 .. Len(emitted) /\ emitted[advising[id]].id = id
  /\ written[advising[id]] = 0

FlowInv ==
  /\ \A id \in Calls : RequestWell(id)
  /\ \A n \in 1 .. Len(emitted) : MessageWell(n)
  /\ \A i \in 1 .. Len(out) : OutWell(i)
  /\ \A i \in 1 .. Len(out) : \A j \in 1 .. Len(out) : InOrder(i, j)
  /\ \A id \in DOMAIN advising : AdvisingWell(id)
  /\ pending \subseteq Calls

-----------------------------------------------------------------------------
(* What is reported.                                                       *)

\* A call that was asked is pending, or reported by its first answer.
CallWell(id) ==
  /\ id <= reader.id => (id \in pending <=> Reports(id) = {})
  /\ \A i, j \in Reports(id) : i = j
  /\ \A i \in Reports(id) :
       \E n \in 1 .. Len(emitted) : FirstAnswer(id, n) /\ log[i].verdict = Verdict(n)

ShapeAt(i) == request[log[i].id].shape

\* What an outcome at place i may be about: the call at j, nothing of its shape between.
Before(j, i, s) ==
  /\ log[j].kind = "call" /\ log[j].verdict = "transient" /\ ShapeAt(j) = s
  /\ \A k \in j + 1 .. i : log[k].kind = "call" => ShapeAt(k) # s

EntryWell(i) ==
  /\ log[i].id <= reader.id
  /\ log[i].kind = "outcome" =>
       /\ i - 1 \in 1 .. Len(log) /\ log[i - 1].kind = "call" /\ log[i - 1].id = log[i].id
       /\ \E j \in 1 .. Len(log) :
            j < i - 1 /\ log[j].id = log[i].failure /\ Before(j, i - 2, ShapeAt(i))

RetryableWell(s) ==
  /\ retryable[s].at \in 1 .. Len(log) /\ retryable[s].id = log[retryable[s].at].id
  /\ Before(retryable[s].at, Len(log), s)

ReportInv ==
  /\ \A id \in Calls : CallWell(id)
  /\ \A i \in 1 .. Len(log) : EntryWell(i)
  /\ \A s \in DOMAIN retryable : RetryableWell(s)

-----------------------------------------------------------------------------
(* The shutdown of a remote server.                                        *)

Over == main # "reading" \/ \E i \in 1 .. Len(out) : out[i] = End

\* Behind the end of the queue there is nothing of what is owed.
EndsIt ==
  /\ Over => Closed /\ \A id \in owed : request[id].pc = "done"
  /\ \A i \in 1 .. Len(out) : \A j \in 1 .. Len(out) :
       i < j /\ out[i] = End /\ out[j] # End => emitted[out[j]].id \notin owed
  /\ main # "reading" => \A j \in 1 .. Len(out) : out[j] # End => emitted[out[j]].id \notin owed
  /\ main = "exited" => DOMAIN advising = {}

ShutInv ==
  /\ owed \subseteq Calls /\ \A id \in owed : request[id].pc # "unsent"
  /\ kind = "http" /\ ~late /\ client # "gone" => EndsIt

ProxyInv == Typed /\ FlowInv /\ ReportInv /\ ShutInv

-----------------------------------------------------------------------------
(* Steps that leave the messages and the reports alone.                    *)

LEMMA CallsAre ==
  \A id \in Calls : id \in Nat /\ id # 0
  BY ProxyAssumption DEF Calls

LEMMA BecomeIs ==
  ASSUME request \in [Calls -> Requests], NEW id \in Calls,
         NEW pc \in {"unsent", "asked", "cut", "done"}, request' = [request EXCEPT ![id].pc = pc]
  PROVE  /\ request' \in [Calls -> Requests]
         /\ request'[id].pc = pc /\ request'[id].shape = request[id].shape
         /\ \A d \in Calls : d # id => request'[d] = request[d]
  <1>1. PICK r \in Requests : r = request[id]
    OBVIOUS
  <1>2. PICK q : q = [r EXCEPT !.pc = pc]
    OBVIOUS
  <1>3. q \in Requests /\ q.pc = pc /\ q.shape = r.shape
    BY <1>1, <1>2 DEF Requests
  <1>4. request' = [request EXCEPT ![id] = q]
    BY <1>1, <1>2, Zenon
  <1> QED
    BY <1>1, <1>3, <1>4

LEMMA ReaderIs ==
  ASSUME reader \in Readers, NEW pc \in {"reading", "writing", "closing", "ended"},
         reader' = [reader EXCEPT !.pc = pc]
  PROVE  reader' \in Readers /\ reader'.id = reader.id /\ reader'.pc = pc
  BY DEF Readers

LEMMA LogIs ==
  ASSUME Typed
  PROVE  /\ Len(log) \in Nat /\ DOMAIN log = 1 .. Len(log)
         /\ \A i \in 1 .. Len(log) : log[i].id \in Calls
  <1>1. log \in Seq(Entries) /\ Len(log) \in Nat /\ DOMAIN log = 1 .. Len(log)
    BY LenProperties DEF Typed
  <1>2. \A i \in 1 .. Len(log) : log[i] \in Entries
    BY <1>1, ElementOfSeq
  <1>3. \A e \in Entries : e.id \in Calls
    BY DEF Entries
  <1> QED
    BY <1>1, <1>2, <1>3

LEMMA EmittedIs ==
  ASSUME Typed
  PROVE  /\ Len(emitted) \in Nat /\ DOMAIN emitted = 1 .. Len(emitted)
         /\ Len(out) \in Nat /\ DOMAIN out = 1 .. Len(out)
         /\ written \in [1 .. Len(emitted) -> Nat]
         /\ \A i \in 1 .. Len(out) : out[i] \in Nat
         /\ \A n \in 1 .. Len(emitted) : emitted[n].id \in Calls /\ emitted[n].verdict \in Verdicts
  <1>1. /\ emitted \in Seq(Messages) /\ Len(emitted) \in Nat /\ DOMAIN emitted = 1 .. Len(emitted)
        /\ out \in Seq(Nat) /\ Len(out) \in Nat /\ DOMAIN out = 1 .. Len(out)
        /\ written \in Seq(Nat) /\ Len(written) = Len(emitted)
    BY LenProperties DEF Typed
  <1>2. written \in [1 .. Len(written) -> Nat]
    BY <1>1, LenProperties
  <1>3. \A n \in 1 .. Len(emitted) : emitted[n] \in Messages
    BY <1>1, ElementOfSeq
  <1>4. \A m \in Messages : m.id \in Calls /\ m.verdict \in Verdicts
    BY DEF Messages
  <1> QED
    BY <1>1, <1>2, <1>3, <1>4, ElementOfSeq

\* What was recorded stays as it is when a call or a message is new.
LEMMA EntriesStay ==
  ASSUME Typed, ReportInv, UNCHANGED <<log, retryable>>,
         reader.id \in Nat, reader'.id \in Nat, reader.id <= reader'.id,
         \A i \in 1 .. Len(log) : ShapeAt(i)' = ShapeAt(i)
  PROVE  /\ \A i \in 1 .. Len(log') : EntryWell(i)'
         /\ \A s \in DOMAIN retryable' : RetryableWell(s)'
  <1>1. \A i \in 1 .. Len(log) : log[i].id \in Calls /\ log[i].id \in Nat
    BY LogIs, CallsAre
  <1>3. Len(log) \in Nat
    BY LogIs
  <1>5. ASSUME NEW j \in 1 .. Len(log), NEW i \in Int, i <= Len(log), NEW s, Before(j, i, s)
        PROVE  Before(j, i, s)'
    <2>1. \A k \in j + 1 .. i : k \in 1 .. Len(log)
      BY <1>3, <1>5
    <2> QED
      BY <1>5, <2>1 DEF Before
  <1>6. ASSUME NEW i \in 1 .. Len(log)
        PROVE  EntryWell(i)'
    <2>1. EntryWell(i)
      BY DEF ReportInv
    <2>2. ASSUME NEW j \in 1 .. Len(log), Before(j, i - 2, ShapeAt(i))
          PROVE  Before(j, i - 2, ShapeAt(i))'
      <3>1. PICK s : s = ShapeAt(i) /\ s = ShapeAt(i)'
        OBVIOUS
      <3>2. i - 2 \in Int /\ i - 2 <= Len(log)
        BY <1>3
      <3>3. Before(j, i - 2, s)'
        BY <1>5, <2>2, <3>1, <3>2
      <3> QED
        BY <3>1, <3>3 DEF Before
    <2>3. log[i].id <= reader'.id
      BY <1>1, <2>1 DEF EntryWell
    <2> QED
      BY <2>1, <2>2, <2>3 DEF EntryWell
  <1>7. ASSUME NEW s \in DOMAIN retryable
        PROVE  RetryableWell(s)'
    <2>1. RetryableWell(s)
      BY DEF ReportInv
    <2>2. PICK at : at = retryable[s].at
      OBVIOUS
    <2>3. PICK i : i = Len(log) /\ i \in Int
      BY <1>3
    <2>4. at \in 1 .. Len(log) /\ Before(at, i, s)
      BY <2>1, <2>2, <2>3 DEF RetryableWell
    <2>5. Before(at, i, s)'
      BY <1>5, <2>3, <2>4
    <2> QED
      BY <2>1, <2>2, <2>3, <2>5 DEF RetryableWell, Before
  <1> QED
    BY <1>6, <1>7

\* What is reported does not depend on the messages that are still to come.
LEMMA ReportStays ==
  ASSUME Typed, ReportInv, UNCHANGED <<log, retryable, pending>>, reader'.id = reader.id,
         \A id \in Calls : request'[id].shape = request[id].shape,
         \A n \in 1 .. Len(emitted) : n \in 1 .. Len(emitted') /\ emitted'[n] = emitted[n]
  PROVE  ReportInv'
  <1>1. reader.id \in Nat
    BY ProxyAssumption DEF Typed, Readers
  <1>2. \A i \in 1 .. Len(log) : ShapeAt(i)' = ShapeAt(i)
    BY LogIs DEF ShapeAt
  <1>3. /\ \A i \in 1 .. Len(log') : EntryWell(i)'
        /\ \A s \in DOMAIN retryable' : RetryableWell(s)'
    BY <1>1, <1>2, EntriesStay
  <1>4. ASSUME NEW id \in Calls
        PROVE  CallWell(id)'
    <2>1. Reports(id)' = Reports(id)
      BY DEF Reports
    <2>2. \A n \in 1 .. Len(emitted) : FirstAnswer(id, n) => FirstAnswer(id, n)' /\ Verdict(n)' = Verdict(n)
      <3>1. ASSUME NEW n \in 1 .. Len(emitted), FirstAnswer(id, n)
            PROVE  FirstAnswer(id, n)'
        <4>1. \A m \in 1 .. n - 1 : m \in 1 .. Len(emitted)
          BY EmittedIs
        <4> QED
          BY <3>1, <4>1 DEF FirstAnswer
      <3> QED
        BY <3>1 DEF Verdict
    <2>3. CallWell(id)
      BY DEF ReportInv
    <2> QED
      BY <2>1, <2>2, <2>3 DEF CallWell
  <1> QED
    BY <1>3, <1>4 DEF ReportInv

LEMMA FlowStays ==
  ASSUME Typed, FlowInv, UNCHANGED <<out, advising, written, emitted, pending>>,
         reader'.id = reader.id, client' # "gone" => client # "gone",
         \A id \in Calls : RequestWell(id)'
  PROVE  FlowInv'
  <1>1. ASSUME NEW n \in 1 .. Len(emitted)
        PROVE  MessageWell(n)'
    <2>1. MessageWell(n)
      BY DEF FlowInv
    <2> QED
      BY <2>1 DEF MessageWell
  <1>2. \A i \in 1 .. Len(out) : OutWell(i)' /\ \A j \in 1 .. Len(out) : InOrder(i, j)'
    BY DEF FlowInv, OutWell, InOrder
  <1>3. ASSUME NEW id \in DOMAIN advising
        PROVE  AdvisingWell(id)'
    <2>1. AdvisingWell(id)
      BY DEF FlowInv
    <2> QED
      BY <2>1 DEF AdvisingWell
  <1> QED
    BY <1>1, <1>2, <1>3 DEF FlowInv

LEMMA ShutStays ==
  ASSUME Typed, ShutInv, UNCHANGED <<kind, out, main, advising, emitted, late>>,
         client' # "gone" => client # "gone", Closed => Closed',
         \/ owed' = owed
         \/ ~Closed /\ owed' \subseteq Calls /\ \A id \in owed' : request'[id].pc # "unsent",
         \A id \in Calls : /\ request[id].pc = "done" => request'[id].pc = "done"
                           /\ request[id].pc # "unsent" => request'[id].pc # "unsent"
  PROVE  ShutInv'
  <1>1. owed' \subseteq Calls /\ \A id \in owed' : request'[id].pc # "unsent"
    BY DEF ShutInv
  <1>2. ASSUME kind = "http", ~late, client # "gone"
        PROVE  EndsIt'
    <2>1. EndsIt /\ owed \subseteq Calls
      BY <1>2 DEF ShutInv
    <2>2. Over' <=> Over
      BY DEF Over
    <2>3. CASE Over
      BY <2>1, <2>2, <2>3 DEF EndsIt
    <2>4. CASE ~Over
      BY <2>2, <2>4 DEF EndsIt, Over
    <2> QED
      BY <2>3, <2>4
  <1> QED
    BY <1>1, <1>2 DEF ShutInv

\* A step of the client, of the reading thread or of a POST without an answer.
LEMMA QuietStep ==
  ASSUME ProxyInv,
         \/ ClientStops \/ ForwardRequest \/ ReadEof \/ CloseUpstream \/ Signal
         \/ \E id \in Calls : PostUnreadable(id)
  PROVE  ProxyInv'
  <1>1. Typed /\ FlowInv /\ ReportInv /\ ShutInv
    BY DEF ProxyInv
  <1>2. /\ reader \in Readers /\ request \in [Calls -> Requests]
        /\ finish \in [Closers -> {"none", "waiting", "done"}]
        /\ reader.id \in Nat
        /\ \A id \in Calls : RequestWell(id)
    BY <1>1, ProxyAssumption DEF Typed, FlowInv, Readers
  <1>3. ASSUME Typed', UNCHANGED <<kind, out, main, advising, written, emitted, pending, log, retryable, late>>,
               client' # "gone" => client # "gone", Closed => Closed', reader'.id = reader.id,
               \/ owed' = owed
               \/ ~Closed /\ owed' \subseteq Calls /\ \A id \in owed' : request'[id].pc # "unsent",
               \A id \in Calls : /\ request'[id].shape = request[id].shape
                                 /\ request[id].pc = "done" => request'[id].pc = "done"
                                 /\ request[id].pc # "unsent" => request'[id].pc # "unsent"
                                 /\ RequestWell(id)'
        PROVE  ProxyInv'
    <2>1. FlowInv' /\ ShutInv'
      BY <1>1, <1>3, FlowStays, ShutStays
    <2>2. ReportInv'
      BY <1>1, <1>3, ReportStays
    <2> QED
      BY <1>3, <2>1, <2>2 DEF ProxyInv
  <1>4. CASE ClientStops
    <2>1. /\ client # "gone"
          /\ UNCHANGED <<kind, reader, pending, request, finish, ended, out, main, advising, written,
                         log, retryable, emitted, owed, late>>
      BY <1>4 DEF ClientStops, upstreamVars, reportVars
    <2>2. Typed'
      BY <1>1, <2>1 DEF Typed
    <2>3. Closed' <=> Closed
      BY <2>1 DEF Closed
    <2>4. \A id \in Calls : RequestWell(id)'
      BY <1>2, <2>1 DEF RequestWell
    <2> QED
      BY <1>3, <2>1, <2>2, <2>3, <2>4
  <1>5. CASE ForwardRequest
    <2>1. /\ reader.pc = "writing"
          /\ UNCHANGED <<kind, client, pending, finish, out, main, advising, written,
                         log, retryable, emitted, owed, late>>
          /\ \/ reader' = [reader EXCEPT !.pc = "closing"] /\ request' = request
             \/ /\ reader' = [reader EXCEPT !.pc = "reading"]
                /\ request' = [request EXCEPT ![reader.id].pc = "asked"]
      BY <1>5 DEF ForwardRequest, clientVars, reportVars
    <2>2. Closed' <=> Closed
      BY <2>1 DEF Closed
    <2>3. reader' \in Readers /\ reader'.id = reader.id /\ reader'.pc # "writing"
      BY <1>2, <2>1, ReaderIs
    <2>4. CASE request' = request
      <3>1. Typed'
        BY <1>1, <2>1, <2>3, <2>4 DEF Typed
      <3>2. \A id \in Calls : RequestWell(id)'
        BY <1>2, <2>1, <2>3, <2>4 DEF RequestWell
      <3> QED
        BY <1>3, <2>1, <2>2, <2>3, <2>4, <3>1, <3>2
    <2>5. CASE request' = [request EXCEPT ![reader.id].pc = "asked"]
      <3>1. PICK d : d = reader.id /\ d \in Nat
        BY <1>2
      <3>2. CASE d \in Calls
        <4>1. request' = [request EXCEPT ![d].pc = "asked"]
          BY <2>5, <3>1
        <4>2. /\ request' \in [Calls -> Requests]
              /\ request'[d].pc = "asked" /\ request'[d].shape = request[d].shape
              /\ \A id \in Calls : id # d => request'[id] = request[id]
          BY <1>2, <3>2, <4>1, BecomeIs
        <4>3. request[d].pc = "unsent"
          BY <1>2, <2>1, <3>1, <3>2 DEF RequestWell
        <4>4. Typed'
          BY <1>1, <2>1, <2>3, <4>2 DEF Typed
        <4>5. \A id \in Calls : RequestWell(id)'
          BY <1>2, <2>1, <2>3, <3>1, <4>2 DEF RequestWell
        <4> QED
          BY <1>3, <2>1, <2>2, <2>3, <4>2, <4>3, <4>4, <4>5
      <3>3. CASE d \notin Calls
        <4>1. request' = request
          BY <1>2, <2>5, <3>1, <3>3
        <4> QED
          BY <2>4, <4>1
      <3> QED
        BY <3>2, <3>3
    <2> QED
      BY <2>1, <2>4, <2>5
  <1>6. CASE ReadEof \/ CloseUpstream
    <2>1. /\ UNCHANGED <<kind, client, pending, request, out, main, advising, written,
                         log, retryable, emitted, late>>
          /\ \/ reader' = [reader EXCEPT !.pc = "closing"] /\ UNCHANGED <<finish, owed>>
             \/ reader' = [reader EXCEPT !.pc = "ended"] /\ StartFinish("eof")
      BY <1>6 DEF ReadEof, CloseUpstream, clientVars, upstreamVars, reportVars
    <2>2. reader' \in Readers /\ reader'.id = reader.id /\ reader'.pc # "writing"
      BY <1>2, <2>1, ReaderIs
    <2>3. /\ finish' \in [Closers -> {"none", "waiting", "done"}] /\ (Closed => Closed')
          /\ \/ owed' = owed
             \/ ~Closed /\ owed' = Forwarded
      BY <1>2, <2>1 DEF StartFinish, Closed, Closers
    <2>4. Typed'
      BY <1>1, <2>1, <2>2, <2>3 DEF Typed
    <2>5. \A id \in Calls : RequestWell(id)'
      BY <1>2, <2>1, <2>2 DEF RequestWell
    <2> QED
      BY <1>3, <2>1, <2>2, <2>3, <2>4, <2>5 DEF Forwarded
  <1>7. CASE Signal
    <2>1. /\ UNCHANGED <<kind, client, reader, pending, request, out, main, advising, written,
                         log, retryable, emitted, late>>
          /\ StartFinish("signal")
      BY <1>7 DEF Signal, reportVars
    <2>3. /\ finish' \in [Closers -> {"none", "waiting", "done"}] /\ (Closed => Closed')
          /\ \/ owed' = owed
             \/ ~Closed /\ owed' = Forwarded
      BY <1>2, <2>1 DEF StartFinish, Closed, Closers
    <2>4. Typed'
      BY <1>1, <2>1, <2>3 DEF Typed
    <2>5. \A id \in Calls : RequestWell(id)'
      BY <1>2, <2>1 DEF RequestWell
    <2> QED
      BY <1>3, <2>1, <2>3, <2>4, <2>5 DEF Forwarded
  <1>8. CASE \E id \in Calls : PostUnreadable(id)
    <2>1. PICK d \in Calls : PostUnreadable(d)
      BY <1>8
    <2>2. /\ UNCHANGED <<kind, client, reader, pending, finish, out, main, advising, written,
                         log, retryable, emitted, owed, late>>
          /\ request[d].pc = "asked" /\ request' = [request EXCEPT ![d].pc = "done"]
      BY <2>1 DEF PostUnreadable, HttpRest, EmitNothing, Become, clientVars, reportVars
    <2>3. /\ request' \in [Calls -> Requests]
          /\ request'[d].pc = "done" /\ request'[d].shape = request[d].shape
          /\ \A id \in Calls : id # d => request'[id] = request[id]
      BY <1>2, <2>2, BecomeIs
    <2>4. Typed'
      BY <1>1, <2>2, <2>3 DEF Typed
    <2>5. \A id \in Calls : RequestWell(id)'
      BY <1>2, <2>2, <2>3 DEF RequestWell
    <2>6. Closed' <=> Closed
      BY <2>2 DEF Closed
    <2> QED
      BY <1>3, <2>2, <2>3, <2>4, <2>5, <2>6
  <1> QED
    BY <1>4, <1>5, <1>6, <1>7, <1>8

\* A request is read: its call is new.
LEMMA NoteStep ==
  ASSUME ProxyInv, NoteRequest
  PROVE  ProxyInv'
  <1>1. Typed /\ FlowInv /\ ReportInv /\ ShutInv
    BY DEF ProxyInv
  <1>2. PICK d \in Calls, s \in Shapes :
          /\ d = reader.id + 1 /\ reader' = [pc |-> "writing", id |-> d]
          /\ request' = [request EXCEPT ![d].shape = s] /\ pending' = pending \cup {d}
    BY DEF NoteRequest
  <1>3. /\ UNCHANGED <<kind, client, finish, out, main, advising, written,
                       log, retryable, emitted, owed, late>>
    BY DEF NoteRequest, clientVars, reportVars
  <1>4. /\ request \in [Calls -> Requests] /\ reader \in Readers /\ reader.id \in Nat
        /\ \A id \in Calls : RequestWell(id) /\ id \in Nat
    BY <1>1, CallsAre, ProxyAssumption DEF Typed, FlowInv, Readers
  <1>5. /\ reader' \in Readers /\ reader'.id = d /\ reader'.pc = "writing"
        /\ d \in Nat /\ reader.id < d /\ reader.id <= d
    BY <1>2, <1>4, ProxyAssumption DEF Readers, Calls
  <1>6. /\ request' \in [Calls -> Requests] /\ request'[d].pc = request[d].pc
        /\ \A id \in Calls : id # d => request'[id] = request[id]
    <2>1. PICK r \in Requests : r = request[d]
      BY <1>4
    <2>2. PICK q : q = [r EXCEPT !.shape = s]
      OBVIOUS
    <2>3. q \in Requests /\ q.pc = r.pc
      BY <2>1, <2>2 DEF Requests
    <2>4. request' = [request EXCEPT ![d] = q]
      BY <1>2, <2>1, <2>2, Zenon
    <2> QED
      BY <1>4, <2>1, <2>3, <2>4
  <1>7. Typed'
    BY <1>1, <1>3, <1>5, <1>6 DEF Typed
  <1>8. request[d].pc = "unsent" /\ d \notin pending
    BY <1>4, <1>5 DEF RequestWell
  <1>9. FlowInv'
    <2>1. ASSUME NEW id \in Calls
          PROVE  RequestWell(id)'
      BY <1>2, <1>4, <1>5, <1>6, <1>8 DEF RequestWell
    <2>2. \A n \in 1 .. Len(emitted) : emitted[n].id \in Nat /\ emitted[n].id <= reader.id /\ emitted[n].id # d
      <3>1. ASSUME NEW n \in 1 .. Len(emitted)
            PROVE  emitted[n].id \in Nat /\ emitted[n].id <= reader.id
        <4>1. MessageWell(n) /\ emitted[n].id \in Calls
          BY <1>1, EmittedIs DEF FlowInv
        <4> QED
          BY <1>4, <4>1 DEF MessageWell
      <3> QED
        BY <1>4, <1>5, <3>1
    <2>3. ASSUME NEW n \in 1 .. Len(emitted)
          PROVE  MessageWell(n)'
      <3>1. MessageWell(n)
        BY <1>1 DEF FlowInv
      <3>2. emitted[n].id <= d
        BY <1>4, <1>5, <2>2
      <3> QED
        BY <1>2, <1>3, <1>5, <2>2, <3>1, <3>2 DEF MessageWell
    <2>4. \A i \in 1 .. Len(out) : OutWell(i)' /\ \A j \in 1 .. Len(out) : InOrder(i, j)'
      BY <1>1, <1>3 DEF FlowInv, OutWell, InOrder
    <2>5. ASSUME NEW id \in DOMAIN advising
          PROVE  AdvisingWell(id)'
      <3>1. AdvisingWell(id)
        BY <1>1 DEF FlowInv
      <3>2. id # d
        BY <2>2, <3>1 DEF AdvisingWell
      <3> QED
        BY <1>2, <1>3, <3>1, <3>2 DEF AdvisingWell
    <2> QED
      BY <1>1, <1>2, <1>3, <2>1, <2>3, <2>4, <2>5 DEF FlowInv
  <1>10. ReportInv'
    <2>1. \A i \in 1 .. Len(log) : EntryWell(i) /\ log[i].id \in Calls
      BY <1>1, LogIs DEF ReportInv
    <2>2. \A i \in 1 .. Len(log) : log[i].id # d
      BY <1>4, <1>5, <2>1 DEF EntryWell
    <2>3. \A i \in 1 .. Len(log) : ShapeAt(i)' = ShapeAt(i)
      BY <1>3, <1>6, <2>1, <2>2 DEF ShapeAt
    <2>4. /\ \A i \in 1 .. Len(log') : EntryWell(i)'
          /\ \A x \in DOMAIN retryable' : RetryableWell(x)'
      BY <1>1, <1>3, <1>4, <1>5, <2>3, EntriesStay
    <2>5. ASSUME NEW id \in Calls
          PROVE  CallWell(id)'
      <3>1. Reports(id)' = Reports(id) /\ \A n : FirstAnswer(id, n)' <=> FirstAnswer(id, n)
        BY <1>3 DEF Reports, FirstAnswer
      <3>2. CallWell(id)
        BY <1>1 DEF ReportInv
      <3>3. id = d => Reports(id) = {}
        BY <2>2, LogIs, <1>1 DEF Reports
      <3>4. id <= d => id <= reader.id \/ id = d
        BY <1>2, <1>4
      <3> QED
        BY <1>2, <1>3, <1>5, <3>1, <3>2, <3>3, <3>4 DEF CallWell, Verdict
    <2> QED
      BY <2>4, <2>5 DEF ReportInv
  <1>11. ShutInv'
    <2>1. Closed' <=> Closed
      BY <1>3 DEF Closed
    <2> QED
      BY <1>1, <1>3, <1>6, <2>1, ShutStays
  <1> QED
    BY <1>7, <1>9, <1>10, <1>11 DEF ProxyInv

\* A message comes.
LEMMA EmitStep ==
  ASSUME ProxyInv, NEW d \in Calls, PostAnswered(d) \/ PostCut(d) \/ ServerAnswers(d)
  PROVE  ProxyInv'
  <1>1. Typed /\ FlowInv /\ ReportInv /\ ShutInv
    BY DEF ProxyInv
  <1>2. PICK v \in Verdicts, pc \in {"cut", "done"} :
          /\ Emit(d, v) /\ request' = [request EXCEPT ![d].pc = pc]
          /\ request[d].pc \in {"asked", "cut"}
    <2>1. CASE PostAnswered(d)
      BY <2>1 DEF PostAnswered, Become
    <2>2. CASE PostCut(d)
      BY <2>2 DEF PostCut, Become, Verdicts
    <2>3. CASE ServerAnswers(d)
      BY <2>3 DEF ServerAnswers, Become
    <2> QED
      BY <2>1, <2>2, <2>3
  <1>3. UNCHANGED <<kind, client, reader, pending, finish, main, advising, log, retryable, owed, late>>
    BY DEF PostAnswered, PostCut, ServerAnswers, HttpRest, clientVars, reportVars
  <1>4. /\ request' \in [Calls -> Requests]
        /\ request'[d].pc = pc /\ request'[d].shape = request[d].shape
        /\ \A id \in Calls : id # d => request'[id] = request[id]
    BY <1>1, <1>2, BecomeIs DEF Typed
  <1>5. PICK m : m = Len(emitted) /\ m \in Nat
    BY <1>1, EmittedIs
  <1>6. PICK o : o = Len(out) /\ o \in Nat
    BY <1>1, EmittedIs
  <1>7. /\ emitted' \in Seq(Messages) /\ Len(emitted') = m + 1
        /\ \A n \in 1 .. m : emitted'[n] = emitted[n]
        /\ emitted'[m + 1].id = d
    <2>1. PICK e : e = [id |-> d, verdict |-> v]
      OBVIOUS
    <2>2. e \in Messages /\ e.id = d
      BY <2>1 DEF Messages
    <2>3. emitted' = Append(emitted, e) /\ emitted \in Seq(Messages)
      BY <1>1, <1>2, <2>1 DEF Emit, Typed
    <2> QED
      BY <1>5, <2>2, <2>3, AppendProperties
  <1>8. /\ written' \in Seq(Nat) /\ Len(written') = m + 1
        /\ \A n \in 1 .. m : written'[n] = written[n]
        /\ written'[m + 1] = 0
    <2>1. written' = Append(written, 0) /\ written \in Seq(Nat) /\ Len(written) = m
      BY <1>1, <1>2, <1>5 DEF Emit, Typed
    <2> QED
      BY <1>5, <2>1, AppendProperties
  <1>9. /\ out' \in Seq(Nat) /\ Len(out') = o + 1
        /\ \A i \in 1 .. o : out'[i] = out[i]
        /\ out'[o + 1] = m + 1
    <2>1. out' = Append(out, m + 1) /\ out \in Seq(Nat) /\ m + 1 \in Nat
      BY <1>1, <1>2, <1>5 DEF Emit, Typed
    <2> QED
      BY <1>6, <2>1, AppendProperties
  <1>10. Typed'
    BY <1>1, <1>3, <1>4, <1>7, <1>8, <1>9 DEF Typed
  <1>11. FlowInv'
    <2>1. ASSUME NEW id \in Calls
          PROVE  RequestWell(id)'
      BY <1>1, <1>2, <1>3, <1>4 DEF FlowInv, RequestWell
    <2>2. ASSUME NEW n \in 1 .. Len(emitted')
          PROVE  MessageWell(n)'
      <3>1. CASE n \in 1 .. m
        <4>1. MessageWell(n)
          BY <1>1, <1>5, <3>1 DEF FlowInv
        <4>2. \A i \in 1 .. Len(out) : i \in 1 .. Len(out') /\ out'[i] = out[i]
          BY <1>6, <1>9
        <4> QED
          BY <1>3, <1>7, <1>8, <3>1, <4>1, <4>2 DEF MessageWell
      <3>2. CASE n = m + 1
        <4>1. d <= reader.id
          BY <1>1, <1>2 DEF FlowInv, RequestWell
        <4>2. o + 1 \in 1 .. Len(out') /\ out'[o + 1] = n
          BY <1>6, <1>9, <3>2
        <4> QED
          BY <1>3, <1>7, <1>8, <3>2, <4>1, <4>2 DEF MessageWell
      <3> QED
        BY <1>5, <1>7, <3>1, <3>2
    <2>3. ASSUME NEW i \in 1 .. Len(out')
          PROVE  OutWell(i)'
      <3>1. CASE i \in 1 .. o
        <4>1. OutWell(i) /\ out'[i] = out[i]
          BY <1>1, <1>6, <1>9, <3>1 DEF FlowInv
        <4> QED
          BY <1>3, <1>5, <1>7, <1>8, <4>1 DEF OutWell
      <3>2. CASE i = o + 1
        <4>1. \A id \in DOMAIN advising : advising[id] \in 1 .. m
          BY <1>1, <1>5 DEF FlowInv, AdvisingWell
        <4>2. \A id \in DOMAIN advising : advising[id] # m + 1
          BY <1>5, <4>1
        <4> QED
          BY <1>3, <1>5, <1>7, <1>8, <1>9, <3>2, <4>2 DEF OutWell
      <3> QED
        BY <1>6, <1>9, <3>1, <3>2
    <2>4. ASSUME NEW i \in 1 .. Len(out'), NEW j \in 1 .. Len(out')
          PROVE  InOrder(i, j)'
      <3>1. CASE i \in 1 .. o /\ j \in 1 .. o
        <4>1. InOrder(i, j) /\ out'[i] = out[i] /\ out'[j] = out[j]
          BY <1>1, <1>6, <1>9, <3>1 DEF FlowInv
        <4> QED
          BY <4>1 DEF InOrder
      <3>2. CASE i \in 1 .. o /\ j = o + 1
        <4>1. OutWell(i) /\ out'[i] = out[i]
          BY <1>1, <1>6, <1>9, <3>2 DEF FlowInv
        <4>2. out'[i] # End => out'[i] < m + 1
          BY <1>5, <4>1 DEF OutWell
        <4> QED
          BY <1>9, <3>2, <4>2 DEF InOrder
      <3>3. CASE i = o + 1
        BY <1>6, <1>9, <3>3 DEF InOrder
      <3> QED
        BY <1>6, <1>9, <3>1, <3>2, <3>3
    <2>5. ASSUME NEW id \in DOMAIN advising
          PROVE  AdvisingWell(id)'
      <3>1. AdvisingWell(id)
        BY <1>1 DEF FlowInv
      <3>2. advising[id] \in 1 .. m /\ advising[id] \in 1 .. m + 1
        BY <1>5, <3>1 DEF AdvisingWell
      <3> QED
        BY <1>3, <1>7, <1>8, <3>1, <3>2 DEF AdvisingWell
    <2> QED
      BY <1>1, <1>3, <2>1, <2>2, <2>3, <2>4, <2>5 DEF FlowInv
  <1>12. ReportInv'
    <2>1. \A n \in 1 .. Len(emitted) : n \in 1 .. Len(emitted') /\ emitted'[n] = emitted[n]
      BY <1>5, <1>7
    <2>2. \A id \in Calls : request'[id].shape = request[id].shape
      BY <1>4
    <2> QED
      BY <1>1, <1>3, <2>1, <2>2, ReportStays
  <1>13. ShutInv'
    <2>1. owed' \subseteq Calls /\ \A id \in owed' : request'[id].pc # "unsent"
      BY <1>1, <1>2, <1>3, <1>4 DEF ShutInv
    <2>2. ASSUME kind = "http", ~late, client # "gone"
          PROVE  EndsIt'
      <3>1. EndsIt /\ owed \subseteq Calls
        BY <1>1, <2>2 DEF ShutInv
      <3>2. Closed' <=> Closed
        BY <1>3 DEF Closed
      <3>3. m + 1 # End
        BY <1>5 DEF End
      <3>4. Over' => Over
        <4>1. \A i \in 1 .. Len(out') : out'[i] = End => i \in 1 .. o
          BY <1>6, <1>9, <3>3
        <4> QED
          BY <1>3, <1>6, <1>9, <4>1 DEF Over
      <3>5. CASE ~Over
        <4>1. main = "reading" /\ \A i \in 1 .. Len(out') : out'[i] # End
          BY <1>3, <3>4, <3>5 DEF Over
        <4> QED
          BY <1>3, <3>4, <3>5, <4>1 DEF EndsIt
      <3>6. CASE Over
        <4>1. d \notin owed
          BY <1>2, <3>1, <3>6 DEF EndsIt
        <4>2. Closed' /\ \A id \in owed' : request'[id].pc = "done"
          BY <1>3, <1>4, <3>1, <3>2, <3>6, <4>1 DEF EndsIt
        <4>3. ASSUME NEW j \in 1 .. Len(out'), out'[j] # End,
                     main # "reading" \/ \E i \in 1 .. Len(out') : i < j /\ out'[i] = End
              PROVE  emitted'[out'[j]].id \notin owed
          <5>1. CASE j = o + 1
            BY <1>7, <1>9, <4>1, <5>1
          <5>2. CASE j \in 1 .. o
            <6>1. OutWell(j) /\ out'[j] = out[j]
              BY <1>1, <1>6, <1>9, <5>2 DEF FlowInv
            <6>2. out[j] \in 1 .. m /\ emitted'[out'[j]] = emitted[out[j]]
              BY <1>5, <1>7, <4>3, <6>1 DEF OutWell
            <6>3. main # "reading" \/ \E i \in 1 .. o : i < j /\ out[i] = End
              <7>1. ASSUME NEW i \in 1 .. Len(out'), i < j, out'[i] = End
                    PROVE  i \in 1 .. o /\ out[i] = End
                <8>1. i \in 1 .. o
                  BY <1>6, <1>9, <5>2, <7>1
                <8> QED
                  BY <1>9, <7>1, <8>1
              <7> QED
                BY <4>3, <7>1
            <6>4. emitted[out[j]].id \notin owed
              BY <1>6, <3>1, <4>3, <5>2, <6>1, <6>3 DEF EndsIt
            <6> QED
              BY <6>2, <6>4
          <5> QED
            BY <1>6, <1>9, <5>1, <5>2
        <4> QED
          BY <1>3, <3>1, <4>2, <4>3 DEF EndsIt
      <3> QED
        BY <3>5, <3>6
    <2> QED
      BY <1>3, <2>1, <2>2 DEF ShutInv
  <1> QED
    BY <1>10, <1>11, <1>12, <1>13 DEF ProxyInv

\* The end of the queue, which a remote server's comes to when all are answered.
LEMMA EndStep ==
  ASSUME ProxyInv, ServerEnds \/ \E k \in Closers : Finish(k)
  PROVE  ProxyInv'
  <1>1. Typed /\ FlowInv /\ ReportInv /\ ShutInv
    BY DEF ProxyInv
  <1>2. UNCHANGED <<kind, client, reader, pending, request, main, advising, written, log, retryable,
                    emitted, owed>> /\ out' = Append(out, End)
    BY DEF ServerEnds, Finish, clientVars, reportVars
  <1>3. \/ kind = "stdio" /\ finish' = finish /\ late' = late
        \/ \E k \in Closers : /\ finish[k] = "waiting" /\ finish' = [finish EXCEPT ![k] = "done"]
                              /\ late' = (late \/ InFlight # {})
    BY DEF ServerEnds, Finish
  <1>4. /\ finish' \in [Closers -> {"none", "waiting", "done"}] /\ late' \in BOOLEAN
        /\ kind = "http" => Closed'
    BY <1>1, <1>3 DEF Typed, Closed
  <1>5. PICK o : o = Len(out) /\ o \in Nat
    BY <1>1, EmittedIs
  <1>6. /\ out' \in Seq(Nat) /\ Len(out') = o + 1
        /\ \A i \in 1 .. o : out'[i] = out[i]
        /\ out'[o + 1] = End
    <2>1. End \in Nat /\ out \in Seq(Nat)
      BY <1>1 DEF End, Typed
    <2> QED
      BY <1>2, <1>5, <2>1, AppendProperties
  <1>7. Typed'
    BY <1>1, <1>2, <1>4, <1>6 DEF Typed
  <1>8. FlowInv'
    <2>1. \A id \in Calls : RequestWell(id)'
      BY <1>1, <1>2 DEF FlowInv, RequestWell
    <2>2. ASSUME NEW n \in 1 .. Len(emitted)
          PROVE  MessageWell(n)'
      <3>1. MessageWell(n)
        BY <1>1 DEF FlowInv
      <3>2. \A i \in 1 .. Len(out) : i \in 1 .. Len(out') /\ out'[i] = out[i]
        <4>1. \A i \in 1 .. o : i \in 1 .. o + 1
          BY <1>5
        <4> QED
          BY <1>5, <1>6, <4>1
      <3> QED
        BY <1>2, <3>1, <3>2 DEF MessageWell
    <2>3. ASSUME NEW i \in 1 .. Len(out')
          PROVE  OutWell(i)' /\ \A j \in 1 .. Len(out') : InOrder(i, j)'
      <3>1. CASE i \in 1 .. o
        <4>1. OutWell(i) /\ \A j \in 1 .. o : InOrder(i, j)
          BY <1>1, <1>5, <3>1 DEF FlowInv
        <4>2. OutWell(i)'
          BY <1>2, <1>6, <3>1, <4>1 DEF OutWell
        <4>3. ASSUME NEW j \in 1 .. Len(out')
              PROVE  InOrder(i, j)'
          <5>1. CASE j \in 1 .. o
            BY <1>6, <3>1, <4>1, <5>1 DEF InOrder
          <5>2. CASE j = o + 1
            BY <1>6, <5>2 DEF InOrder
          <5> QED
            BY <1>5, <1>6, <5>1, <5>2
        <4> QED
          BY <4>2, <4>3
      <3>2. CASE i = o + 1
        BY <1>6, <3>2 DEF OutWell, InOrder
      <3> QED
        BY <1>5, <1>6, <3>1, <3>2
    <2>4. ASSUME NEW id \in DOMAIN advising
          PROVE  AdvisingWell(id)'
      <3>1. AdvisingWell(id)
        BY <1>1 DEF FlowInv
      <3> QED
        BY <1>2, <3>1 DEF AdvisingWell
    <2> QED
      BY <1>1, <1>2, <2>1, <2>2, <2>3, <2>4 DEF FlowInv
  <1>9. ReportInv'
    BY <1>1, <1>2, ReportStays
  <1>10. ShutInv'
    <2>1. owed' \subseteq Calls /\ \A id \in owed' : request'[id].pc # "unsent"
      BY <1>1, <1>2 DEF ShutInv
    <2>2. ASSUME kind = "http", ~late', client # "gone"
          PROVE  EndsIt'
      <3>1. ~late /\ InFlight = {} /\ Closed'
        BY <1>3, <1>4, <2>2
      <3>2. EndsIt
        BY <1>1, <2>2, <3>1 DEF ShutInv
      <3>3. \A id \in owed' : request'[id].pc = "done"
        <4>1. \A id \in Calls : request[id] \in Requests
          BY <1>1 DEF Typed
        <4>2. \A id \in Calls : request[id].pc \in {"unsent", "asked", "cut", "done"}
          BY <4>1 DEF Requests
        <4> QED
          BY <1>2, <2>1, <3>1, <4>2 DEF InFlight
      <3>4. ASSUME NEW j \in 1 .. Len(out'), out'[j] # End,
                   main # "reading" \/ \E i \in 1 .. Len(out') : i < j /\ out'[i] = End
            PROVE  emitted[out'[j]].id \notin owed
        <4>1. j \in 1 .. o /\ out'[j] = out[j]
          BY <1>5, <1>6, <3>4
        <4>2. ASSUME NEW i \in 1 .. Len(out'), i < j, out'[i] = End
              PROVE  i \in 1 .. o /\ out[i] = End
          <5>1. i \in 1 .. o
            BY <1>5, <1>6, <4>1, <4>2
          <5> QED
            BY <1>6, <4>2, <5>1
        <4>3. main # "reading" \/ \E i \in 1 .. o : i < j /\ out[i] = End
          BY <3>4, <4>2
        <4> QED
          BY <1>5, <3>2, <3>4, <4>1, <4>3 DEF EndsIt
      <3> QED
        BY <1>2, <3>1, <3>2, <3>3, <3>4 DEF EndsIt
    <2> QED
      BY <1>2, <2>1, <2>2 DEF ShutInv
  <1> QED
    BY <1>7, <1>8, <1>9, <1>10 DEF ProxyInv

LEMMA JoinStep ==
  ASSUME ProxyInv, JoinAdvice
  PROVE  ProxyInv'
  <1>1. Typed /\ FlowInv /\ ReportInv /\ ShutInv
    BY DEF ProxyInv
  <1>2. /\ main = "joining" /\ main' = "exited" /\ late' = (late \/ DOMAIN advising # {})
        /\ UNCHANGED <<kind, client, reader, pending, request, finish, out, advising, written, log,
                       retryable, emitted, owed>>
    BY DEF JoinAdvice, MainRest, clientVars, upstreamVars, reportVars
  <1>3. Typed'
    BY <1>1, <1>2 DEF Typed
  <1>4. FlowInv'
    <2>1. \A id \in Calls : RequestWell(id)'
      BY <1>1, <1>2 DEF FlowInv, RequestWell
    <2> QED
      BY <1>1, <1>2, <2>1, FlowStays
  <1>5. ReportInv'
    BY <1>1, <1>2, ReportStays
  <1>6. ShutInv'
    <2>1. ASSUME kind = "http", ~late', client # "gone"
          PROVE  EndsIt'
      <3>1. ~late /\ DOMAIN advising = {}
        BY <1>2, <2>1
      <3>2. EndsIt
        BY <1>1, <2>1, <3>1 DEF ShutInv
      <3>3. Over /\ Over' /\ (Closed => Closed')
        BY <1>2 DEF Over, Closed
      <3> QED
        BY <1>2, <3>1, <3>2, <3>3 DEF EndsIt
    <2> QED
      BY <1>1, <1>2, <2>1 DEF ShutInv
  <1> QED
    BY <1>3, <1>4, <1>5, <1>6 DEF ProxyInv

\* An answer that was held goes out.
LEMMA AdviceStep ==
  ASSUME ProxyInv, NEW d \in Calls, AdviceWrites(d)
  PROVE  ProxyInv'
  <1>1. Typed /\ FlowInv /\ ReportInv /\ ShutInv
    BY DEF ProxyInv
  <1>2. PICK n : n = advising[d]
    OBVIOUS
  <1>3. /\ d \in DOMAIN advising /\ main # "exited"
        /\ written' = IF client = "gone" THEN written ELSE [written EXCEPT ![n] = @ + 1]
        /\ advising' = [i \in DOMAIN advising \ {d} |-> advising[i]]
        /\ UNCHANGED <<kind, client, reader, pending, request, finish, out, main, log, retryable,
                       emitted, owed, late>>
    BY <1>2 DEF AdviceWrites, Write, Running, clientVars, upstreamVars, reportVars
  <1>4. /\ n \in 1 .. Len(emitted) /\ emitted[n].id = d /\ written[n] = 0 /\ d \notin pending
    BY <1>1, <1>2, <1>3 DEF FlowInv, AdvisingWell
  <1>5. /\ written \in [1 .. Len(emitted) -> Nat] /\ written' \in [1 .. Len(emitted) -> Nat]
        /\ \A m \in 1 .. Len(emitted) : m # n => written'[m] = written[m]
        /\ client # "gone" => written'[n] = 1
        /\ written'[n] \in {0, 1}
    BY <1>1, <1>3, <1>4, EmittedIs
  <1>6. /\ DOMAIN advising' \subseteq DOMAIN advising /\ d \notin DOMAIN advising'
        /\ \A id \in DOMAIN advising : id # d => id \in DOMAIN advising'
        /\ \A id \in DOMAIN advising' : advising'[id] = advising[id]
    BY <1>3
  <1>7. Typed'
    <2>1. written' \in Seq(Nat) /\ Len(written') = Len(emitted)
      <3>1. Len(emitted) \in Nat
        BY <1>1, EmittedIs
      <3>2. written \in Seq(Nat) /\ Len(written) = Len(emitted)
        BY <1>1 DEF Typed
      <3> QED
        BY <1>3, <1>4, <3>1, <3>2, ExceptSeq
    <2> QED
      BY <1>1, <1>3, <2>1 DEF Typed
  <1>8. FlowInv'
    <2>1. \A id \in Calls : RequestWell(id)'
      BY <1>1, <1>3 DEF FlowInv, RequestWell
    <2>2. ASSUME NEW m \in 1 .. Len(emitted)
          PROVE  MessageWell(m)'
      <3>1. MessageWell(m)
        BY <1>1 DEF FlowInv
      <3>2. CASE m = n
        BY <1>3, <1>4, <1>5, <3>1, <3>2 DEF MessageWell
      <3>3. CASE m # n
        <4>1. \A id \in DOMAIN advising : advising[id] = m => id \in DOMAIN advising' /\ advising'[id] = m
          BY <1>2, <1>6, <3>3
        <4> QED
          BY <1>3, <1>5, <3>1, <3>3, <4>1 DEF MessageWell
      <3> QED
        BY <3>2, <3>3
    <2>3. ASSUME NEW i \in 1 .. Len(out)
          PROVE  OutWell(i)' /\ \A j \in 1 .. Len(out) : InOrder(i, j)'
      <3>1. OutWell(i) /\ \A j \in 1 .. Len(out) : InOrder(i, j)
        BY <1>1 DEF FlowInv
      <3>2. OutWell(i)'
        BY <1>2, <1>3, <1>5, <1>6, <3>1 DEF OutWell
      <3> QED
        BY <1>3, <3>1, <3>2 DEF InOrder
    <2>4. ASSUME NEW id \in DOMAIN advising'
          PROVE  AdvisingWell(id)'
      <3>1. AdvisingWell(id) /\ id # d
        BY <1>1, <1>6 DEF FlowInv
      <3>2. advising[id] # n
        BY <1>4, <3>1 DEF AdvisingWell
      <3> QED
        BY <1>3, <1>5, <1>6, <3>1, <3>2 DEF AdvisingWell
    <2> QED
      BY <1>1, <1>3, <2>1, <2>2, <2>3, <2>4 DEF FlowInv
  <1>9. ReportInv'
    BY <1>1, <1>3, ReportStays
  <1>10. ShutInv'
    <2>1. Over' <=> Over
      BY <1>3 DEF Over
    <2>2. Closed' <=> Closed
      BY <1>3 DEF Closed
    <2>3. EndsIt => EndsIt'
      BY <1>3, <2>1, <2>2 DEF EndsIt
    <2> QED
      BY <1>1, <1>3, <2>3 DEF ShutInv
  <1> QED
    BY <1>7, <1>8, <1>9, <1>10 DEF ProxyInv

-----------------------------------------------------------------------------
(* The main thread reads a message.                                        *)

\* The first of the queue is taken.
Takes(n) == out # <<>> /\ out' = Tail(out) /\ n = Head(out)

LEMMA TakenIs ==
  ASSUME Typed, NEW n, Takes(n)
  PROVE  /\ out' \in Seq(Nat) /\ 1 \in 1 .. Len(out) /\ n = out[1] /\ n \in Nat
         /\ \A i \in 1 .. Len(out') : /\ i \in Nat /\ i + 1 \in 1 .. Len(out) /\ 1 < i + 1
                                      /\ out'[i] = out[i + 1]
         /\ \A i \in 1 .. Len(out) : i # 1 => i - 1 \in 1 .. Len(out') /\ out'[i - 1] = out[i]
  <1>0. out \in Seq(Nat) /\ out # <<>> /\ out' = Tail(out) /\ n = Head(out)
    BY DEF Typed, Takes
  <1>1. /\ Len(out) \in Nat /\ Len(out) # 0 /\ Head(out) = out[1]
        /\ out' \in Seq(Nat) /\ Len(out') = Len(out) - 1
        /\ \A i \in 1 .. Len(out') : out'[i] = out[i + 1]
    BY <1>0, HeadTailProperties, LenProperties, EmptySeq
  <1>2. 1 \in 1 .. Len(out)
    BY <1>1
  <1>3. n \in Nat
    BY <1>0, <1>1, <1>2, ElementOfSeq
  <1>4. ASSUME NEW i \in 1 .. Len(out), i # 1
        PROVE  i - 1 \in 1 .. Len(out') /\ out'[i - 1] = out[i]
    <2>1. i - 1 \in 1 .. Len(out') /\ (i - 1) + 1 = i
      BY <1>1, <1>4
    <2> QED
      BY <1>1, <2>1
  <1> QED
    BY <1>0, <1>1, <1>2, <1>3, <1>4

\* It is written, or held, or dropped if there is nobody to write it to.
LEMMA FlowReads ==
  ASSUME Typed, FlowInv, NEW n, Takes(n), UNCHANGED <<client, reader, request, emitted>>,
         pending' \subseteq pending,
         \A m \in 1 .. Len(emitted) : m # n => written'[m] = written[m],
         \A d \in DOMAIN advising : d \in DOMAIN advising' /\ advising'[d] = advising[d],
         \A d \in DOMAIN advising' :
           \/ d \in DOMAIN advising
           \/ n # End /\ d = emitted[n].id /\ advising'[d] = n /\ written'[n] = 0,
         n # End =>
           /\ emitted[n].id \notin pending' /\ written'[n] \in {0, 1}
           /\ client # "gone" => \/ written'[n] = 1
                                 \/ emitted[n].id \in DOMAIN advising' /\ advising'[emitted[n].id] = n
  PROVE  FlowInv'
  <1>1. /\ 1 \in 1 .. Len(out) /\ n = out[1]
        /\ \A i \in 1 .. Len(out') : i + 1 \in 1 .. Len(out) /\ 1 < i + 1 /\ out'[i] = out[i + 1]
        /\ \A i \in 1 .. Len(out) : i # 1 => i - 1 \in 1 .. Len(out') /\ out'[i - 1] = out[i]
    BY TakenIs
  <1>2. n # End => n \in 1 .. Len(emitted) /\ written[n] = 0 /\ \A d \in DOMAIN advising : advising[d] # n
    BY <1>1 DEF FlowInv, OutWell
  <1>3. ASSUME NEW id \in Calls
        PROVE  RequestWell(id)'
    <2>1. RequestWell(id)
      BY DEF FlowInv
    <2> QED
      BY <2>1 DEF RequestWell
  <1>4. ASSUME NEW m \in 1 .. Len(emitted)
        PROVE  MessageWell(m)'
    <2>1. MessageWell(m)
      BY DEF FlowInv
    <2>2. CASE m = n
      <3>1. n # End
        BY <2>2 DEF End
      <3> QED
        BY <2>1, <2>2, <3>1 DEF MessageWell
    <2>3. CASE m # n
      <3>1. (\E i \in 1 .. Len(out) : out[i] = m) => \E i \in 1 .. Len(out') : out'[i] = m
        BY <1>1, <2>3
      <3>2. (\E d \in DOMAIN advising : advising[d] = m) => \E d \in DOMAIN advising' : advising'[d] = m
        OBVIOUS
      <3> QED
        BY <2>1, <2>3, <3>1, <3>2 DEF MessageWell
    <2> QED
      BY <2>2, <2>3
  <1>5. ASSUME NEW i \in 1 .. Len(out')
        PROVE  OutWell(i)' /\ \A j \in 1 .. Len(out') : InOrder(i, j)'
    <2>1. PICK o : o = out'[i] /\ o = out[i + 1]
      BY <1>1
    <2>2. CASE o = End
      BY <2>1, <2>2 DEF OutWell, InOrder
    <2>3. CASE o # End
      <3>1. OutWell(i + 1) /\ InOrder(1, i + 1)
        BY <1>1 DEF FlowInv
      <3>2. /\ o \in 1 .. Len(emitted) /\ written[o] = 0
            /\ \A d \in DOMAIN advising : advising[d] # o
        BY <2>1, <2>3, <3>1 DEF OutWell
      <3>3. o # n
        <4>1. n # End => n < o
          BY <1>1, <2>1, <2>3, <3>1 DEF InOrder
        <4>2. o \in Nat
          BY <3>2
        <4> QED
          BY <2>3, <4>1, <4>2
      <3>4. OutWell(i)'
        BY <2>1, <3>2, <3>3 DEF OutWell
      <3>5. ASSUME NEW j \in 1 .. Len(out')
            PROVE  InOrder(i, j)'
        <4>1. InOrder(i + 1, j + 1)
          BY <1>1 DEF FlowInv
        <4>2. out'[i] = out[i + 1] /\ out'[j] = out[j + 1] /\ (i < j => i + 1 < j + 1)
          BY <1>1
        <4> QED
          BY <4>1, <4>2 DEF InOrder
      <3> QED
        BY <3>4, <3>5
    <2> QED
      BY <2>2, <2>3
  <1>6. ASSUME NEW d \in DOMAIN advising'
        PROVE  AdvisingWell(d)'
    <2>1. CASE d \in DOMAIN advising
      <3>1. AdvisingWell(d) /\ advising'[d] = advising[d]
        BY <2>1 DEF FlowInv
      <3>2. advising[d] # n
        <4>1. advising[d] # End
          BY <3>1 DEF AdvisingWell, End
        <4> QED
          BY <1>2, <2>1, <4>1
      <3> QED
        BY <3>1, <3>2 DEF AdvisingWell
    <2>2. CASE n # End /\ d = emitted[n].id /\ advising'[d] = n /\ written'[n] = 0
      <3>1. d \in Calls
        BY <1>2, <2>2, EmittedIs
      <3> QED
        BY <1>2, <2>2, <3>1 DEF AdvisingWell
    <2> QED
      BY <2>1, <2>2
  <1> QED
    BY <1>3, <1>4, <1>5, <1>6 DEF FlowInv

LEMMA ShutReads ==
  ASSUME Typed, ShutInv, NEW n, Takes(n), main = "reading",
         UNCHANGED <<kind, client, request, emitted, owed, late, finish>>,
         main' = main \/ (main' = "joining" /\ (client = "gone" \/ n = End))
  PROVE  ShutInv'
  <1>1. /\ 1 \in 1 .. Len(out) /\ n = out[1]
        /\ \A i \in 1 .. Len(out') : /\ i \in Nat /\ i + 1 \in 1 .. Len(out) /\ 1 < i + 1
                                     /\ out'[i] = out[i + 1]
    BY TakenIs
  <1>2. ASSUME kind = "http", ~late, client # "gone"
        PROVE  EndsIt'
    <2>1. EndsIt
      BY <1>2 DEF ShutInv
    <2>2. Closed' <=> Closed
      BY DEF Closed
    <2>3. Over' => Over
      BY <1>1, <1>2 DEF Over
    <2>4. ASSUME NEW j \in 1 .. Len(out'), out'[j] # End,
                 main' # "reading" \/ \E i \in 1 .. Len(out') : i < j /\ out'[i] = End
          PROVE  emitted[out'[j]].id \notin owed
      <3>1. PICK i \in 1 .. Len(out) : i < j + 1 /\ out[i] = End
        <4>1. CASE main' # "reading"
          <5>1. out[1] = End /\ 1 < j + 1
            BY <1>1, <1>2, <4>1
          <5> QED
            BY <1>1, <5>1
        <4>2. ASSUME NEW i \in 1 .. Len(out'), i < j, out'[i] = End
              PROVE  i + 1 \in 1 .. Len(out) /\ i + 1 < j + 1 /\ out[i + 1] = End
          BY <1>1, <4>2
        <4> QED
          BY <2>4, <4>1, <4>2
      <3>2. j + 1 \in 1 .. Len(out) /\ out'[j] = out[j + 1]
        BY <1>1
      <3> QED
        BY <2>1, <2>4, <3>1, <3>2 DEF EndsIt
    <2>5. main' # "exited"
      OBVIOUS
    <2> QED
      BY <2>1, <2>2, <2>3, <2>4, <2>5 DEF EndsIt
  <1> QED
    BY <1>2 DEF ShutInv

\* A map is what _retryable becomes.
Remembers(map, s, d, verdict) ==
  map = IF verdict = "transient" THEN Remember(Bounded(Forget(s)), s, d) ELSE Forget(s)

\* The map only loses entries, but for the one that is put there.
LEMMA RemembersIs ==
  ASSUME NEW s, NEW d, NEW verdict, NEW q, Remembers(q, s, d, verdict)
  PROVE  \A x \in DOMAIN q :
           \/ /\ x = s /\ verdict = "transient"
              /\ q[x].at = Len(log) + 1 /\ q[x].id = d
           \/ x # s /\ x \in DOMAIN retryable /\ q[x] = retryable[x]
  <1>1. DOMAIN Forget(s) = DOMAIN retryable \ {s}
        /\ \A x \in DOMAIN Forget(s) : Forget(s)[x] = retryable[x]
    BY DEF Forget
  <1>2. PICK map : map = Forget(s)
    OBVIOUS
  <1>3. DOMAIN Bounded(map) \subseteq DOMAIN map /\ \A x \in DOMAIN Bounded(map) : Bounded(map)[x] = map[x]
    BY DEF Bounded
  <1>4. PICK kept : kept = Bounded(map)
    OBVIOUS
  <1>5. \A x \in DOMAIN Remember(kept, s, d) :
          \/ /\ x = s /\ Remember(kept, s, d)[x].at = Len(log) + 1
             /\ Remember(kept, s, d)[x].id = d
          \/ x # s /\ x \in DOMAIN kept /\ Remember(kept, s, d)[x] = kept[x]
    BY DEF Remember
  <1>6. CASE verdict = "transient"
    <2>1. q = Remember(kept, s, d)
      BY <1>2, <1>4, <1>6 DEF Remembers
    <2> QED
      BY <1>1, <1>2, <1>3, <1>4, <1>5, <1>6, <2>1
  <1>7. CASE verdict # "transient"
    BY <1>1, <1>7 DEF Remembers
  <1> QED
    BY <1>6, <1>7

\* The call stands behind what was recorded; an outcome, if there is one, behind the call.
LEMMA RecordsAre ==
  ASSUME Typed, ReportInv, NEW d \in Calls, NEW verdict \in Verdicts, NEW s, s = request[d].shape,
         Records(d, verdict) \/ RecordsBoth(d, verdict)
  PROVE  /\ log' \in Seq(Entries) /\ Len(log) \in Nat
         /\ Len(log') = Len(log) + 1 \/ Len(log') = Len(log) + 2
         /\ \A i \in 1 .. Len(log) : log'[i] = log[i]
         /\ LET e == log'[Len(log) + 1]
            IN  e.kind = "call" /\ e.id = d /\ e.verdict = verdict
         /\ Len(log') = Len(log) + 2 =>
              LET e == log'[Len(log) + 2]
              IN  /\ s \in DOMAIN retryable
                  /\ e.kind = "outcome" /\ e.id = d /\ e.failure = retryable[s].id
  <1>1. log \in Seq(Entries) /\ Len(log) \in Nat
    BY LogIs DEF Typed
  <1>2. PICK c : c = Call(d, verdict)
    OBVIOUS
  <1>3. c \in Entries /\ c.kind = "call" /\ c.id = d /\ c.verdict = verdict
    BY <1>2 DEF Call, Entries
  <1>4. PICK once : once = Append(log, c)
    OBVIOUS
  <1>5. /\ once \in Seq(Entries) /\ Len(once) = Len(log) + 1
        /\ \A i \in 1 .. Len(log) : once[i] = log[i]
        /\ once[Len(log) + 1] = c
    BY <1>1, <1>3, <1>4, AppendProperties
  <1>6. CASE Records(d, verdict)
    <2>1. log' = once
      BY <1>2, <1>4, <1>6 DEF Records
    <2> QED
      BY <1>1, <1>3, <1>5, <2>1
  <1>7. CASE RecordsBoth(d, verdict)
    <2>1. s \in DOMAIN retryable
      BY <1>7 DEF RecordsBoth
    <2>2. PICK f : f = retryable[s].id
      OBVIOUS
    <2>3. PICK o : o = Outcome(d, verdict, f)
      OBVIOUS
    <2>4. log' = Append(once, o)
      BY <1>2, <1>4, <1>7, <2>2, <2>3 DEF RecordsBoth
    <2>5. f \in Calls
      <3>1. RetryableWell(s)
        BY <2>1 DEF ReportInv
      <3> QED
        BY <2>2, <3>1, LogIs DEF RetryableWell
    <2>6. o \in Entries /\ o.kind = "outcome" /\ o.id = d /\ o.failure = f
      BY <2>3, <2>5 DEF Outcome, Entries
    <2>7. /\ log' \in Seq(Entries) /\ Len(log') = Len(once) + 1
          /\ \A i \in 1 .. Len(once) : log'[i] = once[i]
          /\ log'[Len(once) + 1] = o
      BY <1>5, <2>4, <2>6, AppendProperties
    <2>8. Len(log') = Len(log) + 2 /\ log'[Len(log) + 2] = o
      <3>1. Len(once) + 1 = Len(log) + 2
        BY <1>1, <1>5
      <3> QED
        BY <2>7, <3>1
    <2>9. \A i \in 1 .. Len(log) : log'[i] = log[i]
      <3>1. \A i \in 1 .. Len(log) : i \in 1 .. Len(once)
        BY <1>1, <1>5
      <3> QED
        BY <1>5, <2>7, <3>1
    <2>10. log'[Len(log) + 1] = c
      <3>1. Len(log) + 1 \in 1 .. Len(once)
        BY <1>1, <1>5
      <3> QED
        BY <1>5, <2>7, <3>1
    <2> QED
      BY <1>1, <1>3, <2>1, <2>2, <2>6, <2>7, <2>8, <2>9, <2>10
  <1> QED
    BY <1>6, <1>7

LEMMA ReportInspects ==
  ASSUME Typed, FlowInv, ReportInv, NEW n, Takes(n), n # End, NEW d, d = emitted[n].id,
         d \in pending, pending' = pending \ {d}, Infer(d, Verdict(n)),
         UNCHANGED <<reader, request, emitted>>
  PROVE  ReportInv' /\ log' \in Seq(Entries)
  <1>1. /\ 1 \in 1 .. Len(out) /\ n = out[1] /\ OutWell(1) /\ n \in 1 .. Len(emitted)
    BY TakenIs DEF FlowInv, OutWell
  <1>2. d \in Calls /\ Verdict(n) \in Verdicts
    BY <1>1, EmittedIs DEF Verdict
  <1>3. PICK s : s = request[d].shape
    OBVIOUS
  <1>4. PICK verdict \in Verdicts : verdict = Verdict(n) /\ verdict = Verdict(n)'
    BY <1>2 DEF Verdict
  <1>5. /\ retryable' = IF verdict = "transient" THEN Remember(Bounded(Forget(s)), s, d) ELSE Forget(s)
        /\ Records(d, verdict) \/ RecordsBoth(d, verdict)
    BY <1>3, <1>4 DEF Infer
  <1>6. PICK l : l = Len(log) /\ l \in Nat
    BY LogIs
  <1>7. /\ log' \in Seq(Entries)
        /\ Len(log') = l + 1 \/ Len(log') = l + 2
        /\ \A i \in 1 .. l : log'[i] = log[i]
        /\ log'[l + 1].kind = "call" /\ log'[l + 1].id = d /\ log'[l + 1].verdict = verdict
        /\ Len(log') = l + 2 =>
             /\ s \in DOMAIN retryable /\ log'[l + 2].kind = "outcome"
             /\ log'[l + 2].id = d /\ log'[l + 2].failure = retryable[s].id
    BY <1>2, <1>3, <1>5, <1>6, RecordsAre
  <1>8. DOMAIN log = 1 .. l /\ DOMAIN log' = 1 .. Len(log')
    BY <1>6, <1>7, LogIs, LenProperties
  <1>9. /\ \A i \in 1 .. l : log[i].id \in Calls /\ ShapeAt(i)' = ShapeAt(i)
        /\ ShapeAt(l + 1)' = s /\ (Len(log') = l + 2 => ShapeAt(l + 2)' = s)
    BY <1>3, <1>6, <1>7, LogIs DEF ShapeAt
  <1>10. ASSUME NEW j \in 1 .. l, NEW i \in Int, i <= l, NEW x, Before(j, i, x)
         PROVE  Before(j, i, x)'
    <2>1. \A k \in j + 1 .. i : k \in 1 .. l
      BY <1>6, <1>10
    <2> QED
      BY <1>7, <1>9, <1>10, <2>1 DEF Before
  <1>11. ASSUME NEW x \in DOMAIN retryable
         PROVE  /\ retryable[x].at \in 1 .. l /\ retryable[x].id = log[retryable[x].at].id
                /\ Before(retryable[x].at, l, x)
    BY <1>6 DEF ReportInv, RetryableWell
  <1>12. ASSUME NEW id \in Calls
         PROVE  CallWell(id)'
    <2>1. CallWell(id) /\ CallWell(d)
      BY <1>2 DEF ReportInv
    <2>2. \A i \in 1 .. Len(log') : i \in 1 .. l \/ i = l + 1 \/ (i = l + 2 /\ Len(log') = l + 2)
      BY <1>6, <1>7
    <2>3. CASE id # d
      <3>1. Reports(id)' = Reports(id)
        <4>1. \A i \in 1 .. l : i \in 1 .. Len(log')
          BY <1>6, <1>7
        <4>2. \A i \in DOMAIN log' :
                log'[i].kind = "call" /\ log'[i].id = id => i \in 1 .. l
          BY <1>7, <1>8, <2>2, <2>3
        <4> QED
          BY <1>7, <1>8, <4>1, <4>2 DEF Reports
      <3>2. \A i \in Reports(id) : log'[i] = log[i]
        BY <1>7, <1>8 DEF Reports
      <3>3. \A m : (FirstAnswer(id, m)' <=> FirstAnswer(id, m)) /\ Verdict(m)' = Verdict(m)
        BY DEF FirstAnswer, Verdict
      <3> QED
        BY <2>1, <2>3, <3>1, <3>2, <3>3 DEF CallWell
    <2>4. CASE id = d
      <3>1. d <= reader.id
        BY <1>2 DEF FlowInv, RequestWell
      <3>2. Reports(d) = {}
        BY <2>1, <3>1 DEF CallWell
      <3>3. Reports(d)' = {l + 1}
        <4>1. l + 1 \in 1 .. Len(log')
          BY <1>6, <1>7
        <4>2. ASSUME NEW i \in 1 .. Len(log'), log'[i].kind = "call", log'[i].id = d
              PROVE  i = l + 1
          <5>1. i \notin 1 .. l
            <6>1. i \in 1 .. l => i \in Reports(d)
              BY <1>7, <1>8, <4>2 DEF Reports
            <6> QED
              BY <3>2, <6>1
          <5> QED
            BY <1>7, <2>2, <4>2, <5>1
        <4> QED
          BY <1>7, <1>8, <4>1, <4>2 DEF Reports
      <3>4. FirstAnswer(d, n)
        <4>1. ASSUME NEW m \in 1 .. n - 1
              PROVE  emitted[m].id # d
          <5>1. m \in 1 .. Len(emitted) /\ m < n /\ m \in Nat
            BY <1>1, <4>1, EmittedIs
          <5>2. SUFFICES ASSUME emitted[m].id = d
                         PROVE  FALSE
            OBVIOUS
          <5>3. PICK i \in 1 .. Len(out) : out[i] = m
            BY <5>1, <5>2 DEF FlowInv, MessageWell
          <5>4. i # 1
            BY <1>1, <5>1, <5>3
          <5>5. InOrder(1, i) /\ 1 < i
            BY <1>1, <5>4 DEF FlowInv
          <5>6. n < m
            BY <1>1, <5>1, <5>3, <5>5 DEF InOrder, End
          <5> QED
            BY <1>1, <5>1, <5>6
        <4> QED
          BY <4>1 DEF FirstAnswer
      <3>5. FirstAnswer(d, n)' /\ log'[l + 1].verdict = Verdict(n)'
        BY <1>4, <1>7, <3>4 DEF FirstAnswer
      <3> QED
        BY <1>1, <2>4, <3>3, <3>5 DEF CallWell
    <2> QED
      BY <2>3, <2>4
  <1>13. ASSUME NEW i \in 1 .. Len(log')
         PROVE  EntryWell(i)'
    <2>1. CASE i \in 1 .. l
      <3>1. EntryWell(i) /\ log'[i] = log[i] /\ ShapeAt(i)' = ShapeAt(i)
        BY <1>6, <1>7, <1>9, <2>1 DEF ReportInv
      <3>2. ASSUME log[i].kind = "outcome"
            PROVE  /\ i - 1 \in 1 .. Len(log') /\ log'[i - 1].kind = "call" /\ log'[i - 1].id = log'[i].id
                   /\ \E j \in 1 .. Len(log') :
                        j < i - 1 /\ log'[j].id = log'[i].failure /\ Before(j, i - 2, ShapeAt(i))'
        <4>1. /\ i - 1 \in 1 .. l /\ log[i - 1].kind = "call" /\ log[i - 1].id = log[i].id
          BY <1>6, <3>1, <3>2 DEF EntryWell
        <4>2. PICK j \in 1 .. l : j < i - 1 /\ log[j].id = log[i].failure /\ Before(j, i - 2, ShapeAt(i))
          BY <1>6, <3>1, <3>2 DEF EntryWell
        <4>3. PICK x : x = ShapeAt(i) /\ x = ShapeAt(i)'
          BY <3>1
        <4>4. Before(j, i - 2, x)'
          <5>1. i - 2 \in Int /\ i - 2 <= l
            BY <1>6, <2>1
          <5> QED
            BY <1>10, <4>2, <4>3, <5>1
        <4>5. Before(j, i - 2, ShapeAt(i))'
          BY <4>3, <4>4 DEF Before
        <4>6. i - 1 \in 1 .. Len(log') /\ j \in 1 .. Len(log')
          BY <1>6, <1>7, <4>1
        <4>7. log'[i - 1] = log[i - 1] /\ log'[j] = log[j]
          BY <1>7, <4>1
        <4> QED
          BY <3>1, <4>1, <4>2, <4>5, <4>6, <4>7
      <3> QED
        BY <3>1, <3>2 DEF EntryWell
    <2>2. CASE i = l + 1
      <3>1. d <= reader.id
        BY <1>2 DEF FlowInv, RequestWell
      <3> QED
        BY <1>7, <2>2, <3>1 DEF EntryWell
    <2>3. CASE i = l + 2 /\ Len(log') = l + 2
      <3>1. d <= reader.id
        BY <1>2 DEF FlowInv, RequestWell
      <3>2. PICK at \in 1 .. l : at = retryable[s].at /\ retryable[s].id = log[at].id /\ Before(at, l, s)
        BY <1>7, <1>11, <2>3
      <3>3. i - 1 = l + 1 /\ i - 2 = l /\ l \in Int /\ at < i - 1 /\ i - 1 \in 1 .. Len(log')
            /\ at \in 1 .. Len(log')
        BY <1>6, <2>3, <3>2
      <3>4. Before(at, l, s)'
        BY <1>10, <3>2, <3>3
      <3>5. Before(at, i - 2, ShapeAt(i))'
        BY <1>9, <2>3, <3>3, <3>4 DEF Before
      <3>6. log'[at].id = log'[i].failure
        BY <1>7, <2>3, <3>2
      <3> QED
        BY <1>7, <2>3, <3>1, <3>3, <3>5, <3>6 DEF EntryWell
    <2> QED
      BY <1>6, <1>7, <2>1, <2>2, <2>3
  <1>14. ASSUME NEW x \in DOMAIN retryable'
         PROVE  RetryableWell(x)'
    <2>1. \A k \in 1 .. Len(log') : k \in 1 .. l \/ k = l + 1 \/ (k = l + 2 /\ Len(log') = l + 2)
      BY <1>6, <1>7
    <2>2. CASE /\ x = s /\ verdict = "transient" /\ retryable'[x].at = l + 1 /\ retryable'[x].id = d
      <3>1. l + 1 \in 1 .. Len(log')
        BY <1>6, <1>7
      <3>2. \A k \in l + 2 .. Len(log') : log'[k].kind # "call"
        <4>1. \A k \in l + 2 .. Len(log') : k = l + 2 /\ Len(log') = l + 2
          BY <1>6, <1>7
        <4> QED
          BY <1>7, <4>1
      <3>3. (l + 1) + 1 = l + 2
        BY <1>6
      <3>4. Before(l + 1, Len(log), s)'
        BY <1>7, <1>9, <2>2, <3>2, <3>3 DEF Before
      <3> QED
        BY <1>7, <2>2, <3>1, <3>4 DEF RetryableWell, Before
    <2>3. CASE x # s /\ x \in DOMAIN retryable /\ retryable'[x] = retryable[x]
      <3>1. PICK at \in 1 .. l : at = retryable[x].at /\ retryable[x].id = log[at].id /\ Before(at, l, x)
        BY <1>11, <2>3
      <3>2. Before(at, l, x)'
        BY <1>6, <1>10, <3>1
      <3>3. \A k \in at + 1 .. Len(log') :
              k \in at + 1 .. l \/ k = l + 1 \/ (k = l + 2 /\ Len(log') = l + 2)
        BY <1>6, <1>7
      <3>4. Before(at, Len(log), x)'
        BY <1>7, <1>9, <2>3, <3>2, <3>3 DEF Before
      <3>5. at \in 1 .. Len(log') /\ log'[at] = log[at]
        BY <1>6, <1>7
      <3> QED
        BY <2>3, <3>1, <3>4, <3>5 DEF RetryableWell, Before
    <2>4. \/ /\ x = s /\ verdict = "transient"
             /\ retryable'[x].at = Len(log) + 1 /\ retryable'[x].id = d
          \/ x # s /\ x \in DOMAIN retryable /\ retryable'[x] = retryable[x]
      <3>1. PICK q : q = retryable'
        OBVIOUS
      <3>2. Remembers(q, s, d, verdict)
        BY <1>5, <3>1 DEF Remembers
      <3>3. \A y \in DOMAIN q :
              \/ /\ y = s /\ verdict = "transient"
                 /\ q[y].at = Len(log) + 1 /\ q[y].id = d
              \/ y # s /\ y \in DOMAIN retryable /\ q[y] = retryable[y]
        BY <3>2, RemembersIs
      <3> QED
        BY <3>1, <3>3
    <2> QED
      BY <1>6, <2>2, <2>3, <2>4
  <1> QED
    BY <1>7, <1>12, <1>13, <1>14 DEF ReportInv

LEMMA WriteIs ==
  ASSUME Typed, NEW n \in 1 .. Len(emitted), written[n] = 0, Write(n)
  PROVE  /\ written' \in Seq(Nat) /\ Len(written') = Len(emitted)
         /\ \A m \in 1 .. Len(emitted) : m # n => written'[m] = written[m]
         /\ written'[n] \in {0, 1}
         /\ client # "gone" => written'[n] = 1
  <1>1. /\ written \in Seq(Nat) /\ Len(written) = Len(emitted) /\ Len(emitted) \in Nat
        /\ written \in [1 .. Len(emitted) -> Nat]
    BY EmittedIs DEF Typed
  <1>2. CASE client = "gone"
    BY <1>1, <1>2 DEF Write
  <1>3. CASE client # "gone"
    <2>1. written' = [written EXCEPT ![n] = 1]
      BY <1>1, <1>3 DEF Write
    <2> QED
      BY <1>1, <2>1, ExceptSeq
  <1> QED
    BY <1>2, <1>3

LEMMA ReadStep ==
  ASSUME ProxyInv, MainReads
  PROVE  ProxyInv'
  <1>1. Typed /\ FlowInv /\ ReportInv /\ ShutInv
    BY DEF ProxyInv
  <1>2. PICK n : Takes(n)
    BY DEF MainReads, Takes
  <1>3. /\ main = "reading"
        /\ UNCHANGED <<kind, client, reader, request, finish, emitted, owed, late>>
    BY DEF MainReads, MainRest, clientVars, upstreamVars
  <1>4. /\ out' \in Seq(Nat) /\ n \in Nat
        /\ n # End => n \in 1 .. Len(emitted) /\ written[n] = 0
                      /\ \A d \in DOMAIN advising : advising[d] # n
    BY <1>1, <1>2, TakenIs DEF FlowInv, OutWell
  <1>5. ASSUME main' = main \/ (main' = "joining" /\ (client = "gone" \/ n = End)), FlowInv', ReportInv',
               written' \in Seq(Nat), Len(written') = Len(emitted), log' \in Seq(Entries)
        PROVE  ProxyInv'
    <2>1. Typed'
      BY <1>1, <1>3, <1>4, <1>5 DEF Typed
    <2>2. ShutInv'
      BY <1>1, <1>2, <1>3, <1>5, ShutReads
    <2> QED
      BY <1>5, <2>1, <2>2 DEF ProxyInv
  <1>6. written \in Seq(Nat) /\ Len(written) = Len(emitted) /\ log \in Seq(Entries)
    BY <1>1 DEF Typed
  <1>7. CASE n = End /\ main' = "joining" /\ UNCHANGED <<pending, advising, written, reportVars>>
    <2>1. UNCHANGED <<pending, advising, written, log, retryable>>
      BY <1>7 DEF reportVars
    <2>2. FlowInv'
      BY <1>1, <1>2, <1>3, <1>7, <2>1, FlowReads
    <2>3. ReportInv'
      BY <1>1, <1>3, <2>1, ReportStays
    <2> QED
      BY <1>5, <1>6, <1>7, <2>1, <2>2, <2>3
  <1>8. CASE n # End /\ emitted[n].id \notin pending /\ ToClient(n)
             /\ UNCHANGED <<pending, advising, reportVars>>
    <2>1. UNCHANGED <<pending, advising, log, retryable>> /\ Write(n)
          /\ main' = IF client = "gone" THEN "joining" ELSE main
      BY <1>8 DEF reportVars, ToClient
    <2>2. /\ written' \in Seq(Nat) /\ Len(written') = Len(emitted)
          /\ \A m \in 1 .. Len(emitted) : m # n => written'[m] = written[m]
          /\ written'[n] \in {0, 1}
          /\ client # "gone" => written'[n] = 1
      BY <1>1, <1>4, <1>8, <2>1, WriteIs
    <2>3. FlowInv'
      BY <1>1, <1>2, <1>3, <1>8, <2>1, <2>2, FlowReads
    <2>4. ReportInv'
      BY <1>1, <1>3, <2>1, ReportStays
    <2> QED
      BY <1>5, <1>6, <2>1, <2>2, <2>3, <2>4
  <1>9. CASE n # End /\ emitted[n].id \in pending /\ Inspect(n)
    <2>1. PICK d : d = emitted[n].id
      OBVIOUS
    <2>2. /\ pending' = pending \ {d} /\ Infer(d, Verdict(n)) /\ d \in pending
          /\ \/ ToClient(n) /\ UNCHANGED advising
             \/ Hold(n) /\ UNCHANGED <<main, written>>
      BY <1>9, <2>1 DEF Inspect, PopPending
    <2>3. ReportInv' /\ log' \in Seq(Entries)
      BY <1>1, <1>2, <1>3, <1>9, <2>1, <2>2, ReportInspects
    <2>4. CASE ToClient(n) /\ UNCHANGED advising
      <3>1. Write(n) /\ main' = IF client = "gone" THEN "joining" ELSE main
        BY <2>4 DEF ToClient
      <3>2. /\ written' \in Seq(Nat) /\ Len(written') = Len(emitted)
            /\ \A m \in 1 .. Len(emitted) : m # n => written'[m] = written[m]
            /\ written'[n] \in {0, 1}
            /\ client # "gone" => written'[n] = 1
        BY <1>1, <1>4, <1>9, <3>1, WriteIs
      <3>3. FlowInv'
        BY <1>1, <1>2, <1>3, <1>9, <2>1, <2>2, <2>4, <3>2, FlowReads
      <3> QED
        BY <1>5, <2>3, <3>1, <3>2, <3>3
    <2>5. CASE Hold(n) /\ UNCHANGED <<main, written>>
      <3>1. d \notin DOMAIN advising
        BY <1>1, <2>2 DEF FlowInv, AdvisingWell
      <3>2. advising' = [id \in DOMAIN advising \cup {d} |-> IF id = d THEN n ELSE advising[id]]
        BY <2>1, <2>5 DEF Hold
      <3>3. /\ \A id \in DOMAIN advising : id \in DOMAIN advising' /\ advising'[id] = advising[id]
            /\ \A id \in DOMAIN advising' : id \in DOMAIN advising \/ id = d
            /\ d \in DOMAIN advising' /\ advising'[d] = n
        BY <3>1, <3>2
      <3>4. FlowInv'
        BY <1>1, <1>2, <1>3, <1>4, <1>9, <2>1, <2>2, <2>5, <3>3, FlowReads
      <3> QED
        BY <1>5, <1>6, <2>3, <2>5, <3>4
    <2> QED
      BY <2>2, <2>4, <2>5
  <1> QED
    BY <1>2, <1>7, <1>8, <1>9 DEF MainReads, Takes

-----------------------------------------------------------------------------
(* What it means.                                                          *)

LEMMA ProxyBegins == Init => ProxyInv
  <1> SUFFICES ASSUME Init
               PROVE  ProxyInv
    OBVIOUS
  <1>1. /\ kind \in {"stdio", "http"} /\ client = "open" /\ pending = {}
        /\ reader = [pc |-> "reading", id |-> 0]
        /\ request = [id \in Calls |-> [pc |-> "unsent", shape |-> "none"]]
        /\ finish = [k \in Closers |-> "none"]
        /\ out = <<>> /\ emitted = <<>> /\ written = <<>> /\ log = <<>>
        /\ DOMAIN retryable = {} /\ DOMAIN advising = {}
        /\ main = "reading" /\ owed = {} /\ late = FALSE
    BY DEF Init
  <1>2. reader \in Readers /\ reader.pc = "reading" /\ reader.id = 0
    BY <1>1, ProxyAssumption DEF Readers
  <1>3. request \in [Calls -> Requests] /\ \A id \in Calls : request[id].pc = "unsent"
    BY <1>1 DEF Requests
  <1>4. /\ Len(out) = 0 /\ Len(emitted) = 0 /\ Len(written) = 0 /\ Len(log) = 0 /\ DOMAIN log = {}
        /\ out \in Seq(Nat) /\ written \in Seq(Nat) /\ emitted \in Seq(Messages)
        /\ log \in Seq(Entries)
    BY <1>1
  <1>5. Typed
    BY <1>1, <1>2, <1>3, <1>4 DEF Typed
  <1>6. FlowInv
    BY <1>1, <1>2, <1>3, <1>4 DEF FlowInv, RequestWell
  <1>7. ASSUME NEW id \in Calls
        PROVE  CallWell(id)
    <2>1. Reports(id) = {}
      BY <1>4 DEF Reports
    <2>2. ~(id <= reader.id)
      BY <1>2, CallsAre, ProxyAssumption DEF Calls
    <2> QED
      BY <2>1, <2>2 DEF CallWell
  <1>8. ReportInv
    BY <1>1, <1>4, <1>7 DEF ReportInv
  <1>9. ShutInv
    <2>1. ~Over
      BY <1>1, <1>4 DEF Over
    <2> QED
      BY <1>1, <1>4, <2>1 DEF ShutInv, EndsIt
  <1> QED
    BY <1>5, <1>6, <1>8, <1>9 DEF ProxyInv

LEMMA ProxyStep ==
  ASSUME ProxyInv, [Next]_vars
  PROVE  ProxyInv'
  <1>1. CASE UNCHANGED vars
    <2>1. UNCHANGED <<kind, client, reader, pending, request, finish, out, main, advising, written,
                      log, retryable, emitted, owed, late>>
      BY <1>1 DEF vars, clientVars, upstreamVars, reportVars
    <2>2. Typed /\ FlowInv /\ ReportInv /\ ShutInv
      BY DEF ProxyInv
    <2>3. Typed' /\ \A id \in Calls : RequestWell(id)'
      BY <2>1, <2>2 DEF Typed, FlowInv, RequestWell
    <2>4. Closed' <=> Closed
      BY <2>1 DEF Closed
    <2>5. FlowInv'
      BY <2>1, <2>2, <2>3, FlowStays
    <2>6. ReportInv'
      BY <2>1, <2>2, ReportStays
    <2>7. ShutInv'
      BY <2>1, <2>2, <2>4, ShutStays
    <2> QED
      BY <2>3, <2>5, <2>6, <2>7 DEF ProxyInv
  <1>2. CASE Next
    BY <1>2, QuietStep, NoteStep, EmitStep, EndStep, JoinStep, AdviceStep, ReadStep
       DEF Next, ReaderStep, PostStep, MainStep
  <1> QED
    BY <1>1, <1>2

\* A set of at most one element is empty or a singleton.
LEMMA AtMostOne ==
  ASSUME NEW S, \A x \in S : \A y \in S : x = y
  PROVE  \/ S = {} /\ Cardinality(S) = 0
         \/ S # {} /\ Cardinality(S) = 1
  <1>1. CASE S = {}
    BY <1>1, FS_EmptySet
  <1>2. CASE S # {}
    <2>1. PICK x \in S : TRUE
      BY <1>2
    <2>2. S = {x}
      BY <2>1
    <2>3. Cardinality({x}) = 1
      BY FS_Singleton
    <2> QED
      BY <1>2, <2>2, <2>3
  <1> QED
    BY <1>1, <1>2

\* A message is queued in one place, or held in one, or written, and not in two of them.
LEMMA OnceMeans ==
  ASSUME Typed, FlowInv
  PROVE  EveryMessageOnce
  <1> SUFFICES ASSUME NEW n \in 1 .. Len(emitted)
               PROVE  IF client = "gone" THEN Places(n) <= 1 ELSE Places(n) = 1
    BY EmittedIs DEF EveryMessageOnce
  <1>1. /\ MessageWell(n) /\ n \in Nat /\ n # End /\ written[n] \in {0, 1}
        /\ DOMAIN out = 1 .. Len(out) /\ Len(out) \in Nat
    BY EmittedIs DEF FlowInv, MessageWell, End
  <1>2. PICK Q : Q = {i \in DOMAIN out : out[i] = n}
    OBVIOUS
  <1>3. PICK A : A = {id \in DOMAIN advising : advising[id] = n}
    OBVIOUS
  <1>4. \/ Q = {} /\ Cardinality(Q) = 0
        \/ Q # {} /\ Cardinality(Q) = 1
    <2>1. \A i \in Q : i \in 1 .. Len(out) /\ out[i] = n
      BY <1>1, <1>2
    <2>2. ASSUME NEW i \in Q, NEW j \in Q
          PROVE  ~(i < j)
      <3>1. i \in 1 .. Len(out) /\ j \in 1 .. Len(out) /\ out[i] = n /\ out[j] = n /\ InOrder(i, j)
        BY <2>1 DEF FlowInv
      <3> QED
        BY <1>1, <3>1 DEF InOrder
    <2>3. \A i \in Q : \A j \in Q : i = j
      <3>1. SUFFICES ASSUME NEW i \in Q, NEW j \in Q
                     PROVE  i = j
        OBVIOUS
      <3>2. ~(i < j) /\ ~(j < i)
        BY <2>2
      <3> QED
        BY <1>1, <2>1, <3>2
    <2> QED
      BY <2>3, AtMostOne
  <1>5. \/ A = {} /\ Cardinality(A) = 0
        \/ A # {} /\ Cardinality(A) = 1
    <2>1. \A id \in A : id = emitted[n].id
      BY <1>3 DEF FlowInv, AdvisingWell
    <2> QED
      BY <2>1, AtMostOne
  <1>6. Q # {} => A = {} /\ written[n] = 0
    BY <1>1, <1>2, <1>3 DEF FlowInv, OutWell
  <1>7. A # {} => written[n] = 0
    BY <1>3 DEF FlowInv, AdvisingWell
  <1>8. client # "gone" => Q # {} \/ A # {} \/ written[n] = 1
    BY <1>1, <1>2, <1>3 DEF MessageWell
  <1>9. Places(n) = Cardinality(Q) + Cardinality(A) + written[n]
    BY <1>2, <1>3 DEF Places
  <1> QED
    BY <1>1, <1>4, <1>5, <1>6, <1>7, <1>8, <1>9

\* When the process ends nothing of what is owed is queued or held, so all of it is written.
LEMMA ExitMeans ==
  ASSUME Typed, FlowInv, ShutInv
  PROVE  AnsweredBeforeExit
  <1> SUFFICES ASSUME kind = "http", main = "exited", client # "gone", ~late, NEW id \in owed
               PROVE  /\ request[id].pc = "done"
                      /\ \A n \in DOMAIN emitted : emitted[n].id = id => written[n] = 1
    BY DEF AnsweredBeforeExit
  <1>1. EndsIt /\ Over
    BY DEF ShutInv, Over
  <1>2. ASSUME NEW n \in DOMAIN emitted, emitted[n].id = id
        PROVE  written[n] = 1
    <2>1. n \in 1 .. Len(emitted) /\ n # End /\ MessageWell(n)
      BY EmittedIs DEF FlowInv, End
    <2>2. ~ \E i \in 1 .. Len(out) : out[i] = n
      BY <1>1, <1>2, <2>1 DEF EndsIt
    <2>3. DOMAIN advising = {}
      BY <1>1 DEF EndsIt
    <2> QED
      BY <2>1, <2>2, <2>3 DEF MessageWell
  <1> QED
    BY <1>1, <1>2 DEF EndsIt

\* The first answer to a call is one; what is not pending any more has been reported.
LEMMA FirstMeans ==
  ASSUME Typed, FlowInv, ReportInv
  PROVE  ReportedByFirstAnswer
  <1> SUFFICES ASSUME NEW id \in Calls, NEW n \in 1 .. Len(emitted), FirstAnswer(id, n)
               PROVE  /\ Cardinality(Reports(id)) <= 1
                      /\ \A i \in Reports(id) : log[i].verdict = Verdict(n)
                      /\ written[n] > 0 \/ id \in DOMAIN advising => Reports(id) # {}
    BY EmittedIs DEF ReportedByFirstAnswer
  <1>1. CallWell(id) /\ MessageWell(n) /\ emitted[n].id = id
    BY DEF FlowInv, ReportInv, FirstAnswer
  <1>2. Cardinality(Reports(id)) <= 1
    <2>1. \/ Cardinality(Reports(id)) = 0
          \/ Cardinality(Reports(id)) = 1
      BY <1>1, AtMostOne DEF CallWell
    <2> QED
      BY <2>1
  <1>3. ASSUME NEW i \in Reports(id)
        PROVE  log[i].verdict = Verdict(n)
    <2>1. PICK m \in 1 .. Len(emitted) : FirstAnswer(id, m) /\ log[i].verdict = Verdict(m)
      BY <1>1 DEF CallWell
    <2>2. m \in Nat /\ n \in Nat /\ 1 <= m /\ 1 <= n
      BY EmittedIs
    <2>3. ~(m < n)
      <3>1. m < n => m \in 1 .. n - 1
        BY <2>2
      <3> QED
        BY <2>1, <3>1 DEF FirstAnswer
    <2>4. ~(n < m)
      <3>1. n < m => n \in 1 .. m - 1
        BY <2>2
      <3> QED
        BY <1>1, <2>1, <3>1 DEF FirstAnswer
    <2>5. m = n
      BY <2>2, <2>3, <2>4
    <2> QED
      BY <2>1, <2>5
  <1>4. ASSUME written[n] > 0 \/ id \in DOMAIN advising, Reports(id) = {}
        PROVE  FALSE
    <2>1. id \in pending
      BY <1>1, <1>4 DEF CallWell, MessageWell
    <2>2. id \notin DOMAIN advising
      BY <2>1 DEF FlowInv, AdvisingWell
    <2>3. PICK i \in 1 .. Len(out) : out[i] = n
      BY <1>1, <2>1 DEF MessageWell
    <2>4. n # End /\ OutWell(i)
      BY EmittedIs DEF FlowInv, End
    <2>5. written[n] = 0
      BY <2>3, <2>4 DEF OutWell
    <2> QED
      BY <1>4, <2>2, <2>5
  <1> QED
    BY <1>2, <1>3, <1>4

\* An outcome is right behind its call, and behind the failure it is about.
LEMMA OutcomesMean ==
  ASSUME Typed, ReportInv
  PROVE  OutcomesFollowFailures
  <1> SUFFICES ASSUME NEW i \in 1 .. Len(log), log[i].kind = "outcome"
               PROVE  /\ i - 1 \in Reports(log[i].id)
                      /\ \E j \in Reports(log[i].failure) :
                           /\ j < i - 1 /\ log[j].verdict = "transient"
                           /\ request[log[j].id].shape = request[log[i].id].shape
                           /\ \A k \in j + 1 .. i - 2 :
                                log[k].kind = "call" =>
                                  request[log[k].id].shape # request[log[i].id].shape
    BY LogIs DEF OutcomesFollowFailures
  <1>1. /\ i - 1 \in 1 .. Len(log) /\ log[i - 1].kind = "call" /\ log[i - 1].id = log[i].id
        /\ \E j \in 1 .. Len(log) :
             j < i - 1 /\ log[j].id = log[i].failure /\ Before(j, i - 2, ShapeAt(i))
    BY DEF ReportInv, EntryWell
  <1>2. i - 1 \in Reports(log[i].id)
    BY <1>1, LogIs DEF Reports
  <1>3. PICK j \in 1 .. Len(log) :
          j < i - 1 /\ log[j].id = log[i].failure /\ Before(j, i - 2, ShapeAt(i))
    BY <1>1
  <1>4. j \in Reports(log[i].failure)
    BY <1>3, LogIs DEF Reports, Before
  <1>5. /\ log[j].verdict = "transient"
        /\ request[log[j].id].shape = request[log[i].id].shape
        /\ \A k \in j + 1 .. i - 2 :
             log[k].kind = "call" => request[log[k].id].shape # request[log[i].id].shape
    BY <1>3 DEF Before, ShapeAt
  <1> QED
    BY <1>2, <1>3, <1>4, <1>5

LEMMA ProxyKeeps == Spec => []ProxyInv
  BY ProxyBegins, ProxyStep, PTL DEF Spec

\* Whatever the reader, the main thread, the threads of the POSTs and of the
\* advice do in whatever order, _from_server and _advise_and_write write every
\* message of the server to the client once, as long as it reads; and a remote
\* server's answers to what was forwarded are written before run returns,
\* unless one of the timeouts of HttpUpstream.close or of the join strikes.
THEOREM ProxyKeepsAnswers == Spec => []AnswersKept
  <1>1. ProxyInv => AnswersKept
    BY OnceMeans, ExitMeans DEF ProxyInv, AnswersKept
  <1> QED
    BY <1>1, ProxyKeeps, PTL

\* _inspect reports each tools/call once, with its first answer and before that
\* reaches the client, and _infer an outcome only right behind its call and
\* about a transient failure that no later call of that shape has followed.
THEOREM ProxyReportsOnce == Spec => []CallsReportedOnce
  <1>1. ProxyInv => CallsReportedOnce
    BY FirstMeans, OutcomesMean DEF ProxyInv, CallsReportedOnce
  <1> QED
    BY <1>1, ProxyKeeps, PTL

=============================================================================
