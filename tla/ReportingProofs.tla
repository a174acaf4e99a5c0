-------------------------- MODULE ReportingProofs --------------------------
(***************************************************************************)
(* The reporting client and zero-code reporting, for any threads of the    *)
(* program, any operations, shapes and URLs, and a queue of any length.    *)
(*                                                                         *)
(* The client: the properties speak of what the server has; the invariant  *)
(* speaks of the ids that are still waiting, on the queue or with the one  *)
(* live worker.  The worker has the least of them, every report below it   *)
(* has been answered or lost, and what the client remembers of an          *)
(* operation is the last of its failures that is neither waiting nor lost. *)
(*                                                                         *)
(* Zero-code reporting: a failure that a later call may recover from is in *)
(* one place at most, in _pending, with the thread that popped it, or as   *)
(* an outcome in the log; and every thread has a call of its own.          *)
(***************************************************************************)
EXTENDS InferRecovery, FiniteSetTheorems, SequenceTheorems, TLAPS

IsSeq(s) == \E S : s \in Seq(S)

LEMMA AppendIs ==
  ASSUME NEW s, IsSeq(s), NEW x
  PROVE  /\ IsSeq(Append(s, x)) /\ Len(s) \in Nat /\ DOMAIN s = 1 .. Len(s)
         /\ Len(Append(s, x)) = Len(s) + 1 /\ DOMAIN Append(s, x) = 1 .. Len(s) + 1
         /\ \A i \in 1 .. Len(s) : Append(s, x)[i] = s[i]
         /\ Append(s, x)[Len(s) + 1] = x
  <1>1. PICK S : s \in Seq(S)
    BY DEF IsSeq
  <1> DEFINE T == S \cup {x}
  <1>2. s \in Seq(T) /\ x \in T
    BY <1>1
  <1> HIDE DEF T
  <1>3. /\ Append(s, x) \in Seq(T) /\ Len(Append(s, x)) = Len(s) + 1
        /\ \A i \in 1 .. Len(s) : Append(s, x)[i] = s[i]
        /\ Append(s, x)[Len(s) + 1] = x
    BY <1>2, AppendProperties
  <1>4. IsSeq(Append(s, x))
    BY <1>3 DEF IsSeq
  <1> QED
    BY <1>2, <1>3, <1>4

LEMMA HeadTailIs ==
  ASSUME NEW s, IsSeq(s), s # <<>>
  PROVE  /\ IsSeq(Tail(s)) /\ Len(s) \in Nat /\ Len(s) >= 1 /\ Head(s) = s[1]
         /\ Len(Tail(s)) = Len(s) - 1
         /\ \A i \in 1 .. Len(s) - 1 : Tail(s)[i] = s[i + 1]
  <1>1. PICK S : s \in Seq(S)
    BY DEF IsSeq
  <1>2. /\ Tail(s) \in Seq(S) /\ Len(Tail(s)) = Len(s) - 1
        /\ \A i \in 1 .. Len(Tail(s)) : Tail(s)[i] = s[i + 1]
    BY <1>1, HeadTailProperties
  <1>3. Len(s) \in Nat /\ Len(s) >= 1 /\ Head(s) = s[1]
    BY <1>1, EmptySeq
  <1> QED
    BY <1>2, <1>3 DEF IsSeq

-----------------------------------------------------------------------------
(* The client: what is waiting, and what is remembered.                    *)

Report == [id : Nat, kind : {"failure", "success", "outcome"}, operation : Operations,
           shape : Shapes \cup {NoShape}, meant : Shapes \cup {NoShape}]

Busy == {w \in Workers : thread[w].report # NoReport}

\* The reports on the queue and with a worker.
Waiting == {queue[i].id : i \in 1 .. Len(queue)} \cup {thread[w].report.id : w \in Busy}

Types ==
  /\ IsSeq(queue) /\ IsSeq(server) /\ IsSeq(reports)
  /\ worker \in Workers \cup {NoWorker}
  /\ thread \in [Workers -> [pc : {"unborn", "getting", "posting", "answered", "ending", "dead"},
                             report : Report \cup {NoReport}]]
  /\ caller \in [Threads -> [pc : {"idle", "ensure", "flushing", "drained"}, mark : Nat]]
  /\ counts \in [{"queued", "dropped", "sent", "failed", "unmatched"} -> Nat]
  /\ fingerprints \in [latest : [Operations -> Shapes \cup {NoShape}],
                       exact : [Operations -> SUBSET Shapes]]

\* Report i of R is a failure of the operation.
Failed(R, i, o) == R[i].kind = "failure" /\ R[i].operation = o

\* s is the shape of the operation's last failure in R before report n.
LatestAt(R, o, n, s) ==
  \/ s = NoShape /\ \A i \in 1 .. n - 1 : ~Failed(R, i, o)
  \/ \E i \in 1 .. n - 1 : /\ Failed(R, i, o) /\ R[i].shape = s
                           /\ \A j \in i + 1 .. n - 1 : ~Failed(R, j, o)

\* Report n, which has the reports of R before it.
MadeAfter(R, n, r) ==
  /\ r \in Report /\ r.id = n
  /\ r.kind = "failure" => r.shape # NoShape
  /\ r.kind = "outcome" /\ r.shape = NoShape => LatestAt(R, r.operation, n, r.meant)
  /\ r.kind = "outcome" /\ r.shape # NoShape => r.meant = r.shape

Made ==
  /\ \A i \in 1 .. Len(reports) : MadeAfter(reports, i, reports[i])
  /\ \A o \in Operations : \E s \in Shapes \cup {NoShape} :
       LatestAt(reports, o, Len(reports) + 1, s)

Known(r) == r.id \in 1 .. Len(reports) /\ r = reports[r.id]

\* One worker is alive, and has the report that was put before those on the queue.
InOrder ==
  /\ \A w \in Workers : IsAlive(w) => w = worker
  /\ \A w \in Workers : w \in Busy <=> thread[w].pc \in {"posting", "answered"}
  /\ \A i \in 1 .. Len(queue) : Known(queue[i])
  /\ \A i, j \in 1 .. Len(queue) : i < j => queue[i].id < queue[j].id
  /\ \A w \in Busy : /\ Known(thread[w].report)
                     /\ \A i \in 1 .. Len(queue) : thread[w].report.id < queue[i].id

\* The server has nothing that waits, but the report that is being answered.
Sent ==
  /\ \A i \in 1 .. Len(server) : Known(server[i].report)
  /\ \A i, j \in 1 .. Len(server) : i < j => server[i].report.id < server[j].report.id
  /\ \A i \in 1 .. Len(server), n \in Waiting :
       \/ server[i].report.id < n
       \/ \E w \in Workers : /\ thread[w].pc = "answered"
                             /\ server[i].report = thread[w].report
  /\ \A w \in Workers : thread[w].pc = "answered" /\ thread[w].report.kind = "failure" =>
       \E i \in 1 .. Len(server) : /\ server[i].report = thread[w].report
                                   /\ server[i].fingerprint = thread[w].report.shape

Counted ==
  /\ IsFiniteSet(Waiting) /\ unfinished = Cardinality(Waiting)
  /\ counts.queued + Cardinality({t \in Threads : caller[t].pc = "ensure"})
       = counts.sent + counts.failed + counts.unmatched + unfinished
  /\ \A t \in Threads :
       /\ caller[t].mark <= Len(reports)
       /\ caller[t].pc = "drained" => \A n \in Waiting : n > caller[t].mark

\* A shape that is remembered is one the server has.
Remembered ==
  \A o \in Operations :
    /\ fingerprints.latest[o] = NoShape \/ fingerprints.latest[o] \in fingerprints.exact[o]
    /\ \A f \in fingerprints.exact[o] :
         \E j \in 1 .. Len(server) : /\ server[j].report.kind = "failure"
                                     /\ server[j].report.operation = o
                                     /\ server[j].fingerprint = f

\* Nothing is forgotten that is neither waiting nor lost.
Gone(i) == i \in lost \/ i \in Waiting

UpToDate ==
  /\ \A o \in Operations, i \in 1 .. Len(reports) :
       Failed(reports, i, o) => Gone(i) \/ reports[i].shape \in fingerprints.exact[o]
  /\ \A o \in Operations :
       \/ /\ fingerprints.latest[o] = NoShape
          /\ \A i \in 1 .. Len(reports) : Failed(reports, i, o) => Gone(i)
       \/ \E k \in 1 .. Len(reports) :
            /\ Failed(reports, k, o) /\ reports[k].shape = fingerprints.latest[o]
            /\ \A n \in Waiting : k < n
            /\ \A i \in k + 1 .. Len(reports) : Failed(reports, i, o) => Gone(i)

\* What was reported after a report that waits is itself waiting, or lost.
Behind == \A n \in Waiting : \A i \in n + 1 .. Len(reports) : Gone(i)

\* The same as OutcomeAfterFailure and OutcomeOnItsFailure, by index.
RightlyTold ==
  \A i \in 1 .. Len(server) : server[i].report.kind = "outcome" =>
    /\ \E j \in 1 .. i - 1 : /\ server[j].report.kind = "failure"
                             /\ server[j].report.operation = server[i].report.operation
                             /\ server[j].fingerprint = server[i].fingerprint
    /\ Reported(server[i].report) /\ NothingLost(server[i].report)
       => server[i].fingerprint = server[i].report.meant

ClientInv ==
  /\ Types /\ Made /\ InOrder /\ Sent /\ Counted
  /\ Remembered /\ UpToDate /\ Behind /\ RightlyTold

-----------------------------------------------------------------------------
(* What the program reports.                                               *)

LEMMA LatestKept ==
  ASSUME NEW R, IsSeq(R), NEW r, NEW o, NEW n \in 1 .. Len(R) + 1, NEW s, LatestAt(R, o, n, s)
  PROVE  LatestAt(Append(R, r), o, n, s)
  <1> DEFINE Q == Append(R, r)
  <1>1. Len(R) \in Nat /\ \A i \in 1 .. Len(R) : Q[i] = R[i]
    BY AppendIs
  <1> HIDE DEF Q
  <1>2. \A i \in 1 .. n - 1 : Q[i] = R[i]
    BY <1>1
  <1>3. CASE s = NoShape /\ \A i \in 1 .. n - 1 : ~Failed(R, i, o)
    BY <1>2, <1>3 DEF LatestAt, Failed, Q
  <1>4. CASE \E i \in 1 .. n - 1 : /\ Failed(R, i, o) /\ R[i].shape = s
                                   /\ \A j \in i + 1 .. n - 1 : ~Failed(R, j, o)
    <2>1. PICK i \in 1 .. n - 1 : /\ Failed(R, i, o) /\ R[i].shape = s
                                  /\ \A j \in i + 1 .. n - 1 : ~Failed(R, j, o)
      BY <1>4
    <2>2. \A j \in i + 1 .. n - 1 : j \in 1 .. n - 1
      BY <1>1
    <2>3. \A j \in i + 1 .. n - 1 : ~Failed(Q, j, o)
      BY <1>2, <2>1, <2>2 DEF Failed
    <2>4. Failed(Q, i, o) /\ Q[i].shape = s
      BY <1>2, <2>1 DEF Failed
    <2> QED
      BY <2>3, <2>4 DEF LatestAt, Q
  <1> QED
    BY <1>3, <1>4 DEF LatestAt

\* The last failure after one more report.
LEMMA LatestNext ==
  ASSUME NEW R, IsSeq(R), NEW r, NEW o, NEW s, LatestAt(R, o, Len(R) + 1, s)
  PROVE  LatestAt(Append(R, r), o, Len(R) + 2,
                  IF r.kind = "failure" /\ r.operation = o THEN r.shape ELSE s)
  <1> DEFINE Q == Append(R, r)
             n == Len(R) + 1
  <1>1. /\ Len(R) \in Nat /\ Q[n] = r /\ n \in Nat /\ Len(R) + 2 = n + 1
    BY AppendIs
  <1>2. LatestAt(Q, o, n, s)
    BY <1>1, LatestKept
  <1> HIDE DEF Q, n
  <1>3. (n + 1) - 1 = n /\ n >= 1 /\ n \in 1 .. n
    BY <1>1 DEF n
  <1>4. CASE r.kind = "failure" /\ r.operation = o
    <2>1. Failed(Q, n, o) /\ Q[n].shape = r.shape
      BY <1>1, <1>4 DEF Failed
    <2>2. \A j \in n + 1 .. (n + 1) - 1 : FALSE
      BY <1>1
    <2>3. LatestAt(Q, o, n + 1, r.shape)
      BY <1>3, <2>1, <2>2 DEF LatestAt
    <2> QED
      BY <1>1, <1>4, <2>3 DEF Q
  <1>5. CASE ~(r.kind = "failure" /\ r.operation = o)
    <2>1. ~Failed(Q, n, o)
      BY <1>1, <1>5 DEF Failed
    <2>2. LatestAt(Q, o, n + 1, s)
      <3>1. CASE s = NoShape /\ \A i \in 1 .. n - 1 : ~Failed(Q, i, o)
        <4>1. \A i \in 1 .. (n + 1) - 1 : i = n \/ i \in 1 .. n - 1
          BY <1>1
        <4> QED
          BY <2>1, <3>1, <4>1 DEF LatestAt
      <3>2. CASE \E i \in 1 .. n - 1 : /\ Failed(Q, i, o) /\ Q[i].shape = s
                                       /\ \A j \in i + 1 .. n - 1 : ~Failed(Q, j, o)
        <4>1. PICK i \in 1 .. n - 1 : /\ Failed(Q, i, o) /\ Q[i].shape = s
                                      /\ \A j \in i + 1 .. n - 1 : ~Failed(Q, j, o)
          BY <3>2
        <4>2. /\ i \in 1 .. (n + 1) - 1
              /\ \A j \in i + 1 .. (n + 1) - 1 : j = n \/ j \in i + 1 .. n - 1
          BY <1>1
        <4>3. \A j \in i + 1 .. (n + 1) - 1 : ~Failed(Q, j, o)
          BY <2>1, <4>1, <4>2
        <4> QED
          BY <4>1, <4>2, <4>3 DEF LatestAt
      <3> QED
        BY <1>2, <3>1, <3>2 DEF LatestAt
    <2> QED
      BY <1>1, <1>5, <2>2 DEF Q
  <1> QED
    BY <1>4, <1>5

\* LatestFailure is the shape of the last one.
LEMMA LatestFailureIs ==
  ASSUME Types, Made, NEW o \in Operations
  PROVE  /\ LatestFailure(o) \in Shapes \cup {NoShape}
         /\ LatestAt(reports, o, Len(reports) + 1, LatestFailure(o))
  <1> DEFINE n == Len(reports)
             F == {i \in 1 .. n : reports[i].kind = "failure" /\ reports[i].operation = o}
  <1>1. n \in Nat
    BY AppendIs DEF Types
  <1>2. PICK s \in Shapes \cup {NoShape} : LatestAt(reports, o, n + 1, s)
    BY DEF Made
  <1>3. CASE \A i \in 1 .. n : ~Failed(reports, i, o)
    <2>1. LatestFailure(o) = NoShape
      BY <1>3 DEF LatestFailure, Failed
    <2>2. \A i \in 1 .. (n + 1) - 1 : ~Failed(reports, i, o)
      BY <1>1, <1>3
    <2> QED
      BY <2>1, <2>2 DEF LatestAt
  <1>4. CASE ~\A i \in 1 .. n : ~Failed(reports, i, o)
    <2>1. (n + 1) - 1 = n
      BY <1>1
    <2>2. PICK i \in 1 .. n : /\ Failed(reports, i, o) /\ reports[i].shape = s
                              /\ \A j \in i + 1 .. n : ~Failed(reports, j, o)
      BY <1>2, <1>4, <2>1 DEF LatestAt
    <2>3. i \in F
      BY <2>2 DEF Failed
    <2>4. \A j \in F : j <= i
      <3> SUFFICES ASSUME NEW j \in F, ~(j <= i) PROVE FALSE
        OBVIOUS
      <3>1. j \in i + 1 .. n
        BY <1>1, <2>2
      <3> QED
        BY <2>2, <3>1 DEF Failed
    <2>5. \A k \in F : (\A j \in F : j <= k) => k = i
      BY <1>1, <2>3, <2>4
    <2>6. (CHOOSE k \in F : \A j \in F : j <= k) = i
      BY <2>3, <2>4, <2>5
    <2>7. LatestFailure(o) = reports[i].shape
      BY <2>3, <2>6 DEF LatestFailure
    <2> QED
      BY <1>2, <2>2, <2>7
  <1> QED
    BY <1>3, <1>4

LEMMA NewReportIs ==
  ASSUME Types, Made, NEW r \in NewReports
  PROVE  MadeAfter(reports, Len(reports) + 1, r)
  <1> DEFINE n == Len(reports) + 1
  <1>1. n \in Nat
    BY AppendIs DEF Types
  <1>2. CASE \E o \in Operations, s \in Shapes :
               r = [id |-> n, kind |-> "failure", operation |-> o, shape |-> s, meant |-> s]
    BY <1>1, <1>2, AutoReportAssumption DEF MadeAfter, Report
  <1>3. CASE \E o \in Operations :
               r = [id |-> n, kind |-> "success", operation |-> o,
                    shape |-> NoShape, meant |-> NoShape]
    BY <1>1, <1>3 DEF MadeAfter, Report
  <1>4. CASE \E o \in Operations, s \in Shapes :
               r = [id |-> n, kind |-> "outcome", operation |-> o, shape |-> s, meant |-> s]
    BY <1>1, <1>4, AutoReportAssumption DEF MadeAfter, Report
  <1>5. CASE \E o \in Operations :
               r = [id |-> n, kind |-> "outcome", operation |-> o,
                    shape |-> NoShape, meant |-> LatestFailure(o)]
    <2>1. PICK o \in Operations :
               r = [id |-> n, kind |-> "outcome", operation |-> o,
                    shape |-> NoShape, meant |-> LatestFailure(o)]
      BY <1>5
    <2>2. /\ LatestFailure(o) \in Shapes \cup {NoShape}
          /\ LatestAt(reports, o, n, LatestFailure(o))
      BY LatestFailureIs
    <2> DEFINE m == LatestFailure(o)
    <2> HIDE DEF m, n
    <2>3. m \in Shapes \cup {NoShape} /\ LatestAt(reports, o, n, m) /\
          r = [id |-> n, kind |-> "outcome", operation |-> o, shape |-> NoShape, meant |-> m]
      BY <2>1, <2>2 DEF m, n
    <2> QED
      BY <1>1, <2>3 DEF MadeAfter, Report, n
  <1> QED
    BY <1>2, <1>3, <1>4, <1>5 DEF NewReports

-----------------------------------------------------------------------------
(* What is waiting, and what a step that does not touch it keeps.          *)

LEMMA WaitingIs ==
  ASSUME Types, InOrder
  PROVE  /\ Len(reports) \in Nat /\ Len(queue) \in Nat /\ Len(server) \in Nat
         /\ Waiting \subseteq 1 .. Len(reports) /\ IsFiniteSet(Waiting)
         /\ \A w, v \in Busy : w = v
         /\ \A w \in Busy : /\ thread[w].report \in Report
                            /\ thread[w].report.id \in Waiting
                            /\ \A n \in Waiting : n >= thread[w].report.id
  <1>1. Len(reports) \in Nat /\ Len(queue) \in Nat /\ Len(server) \in Nat
    BY AppendIs DEF Types
  <1>2. Waiting \subseteq 1 .. Len(reports)
    BY DEF Waiting, InOrder, Known
  <1>3. IsFiniteSet(Waiting)
    <2>1. IsFiniteSet(1 .. Len(reports))
      BY <1>1, FS_Interval
    <2> QED
      BY <1>2, <2>1, FS_Subset
  <1>4. \A w, v \in Busy : w = v
    BY DEF InOrder, IsAlive, Busy
  <1>5. \A w \in Busy : thread[w].report \in Report /\ thread[w].report.id \in Waiting
    BY DEF Types, Busy, Waiting
  <1>6. ASSUME NEW w \in Busy, NEW n \in Waiting PROVE n >= thread[w].report.id
    <2>1. n \in Nat /\ thread[w].report.id \in Nat
      BY <1>2, <1>5
    <2>2. CASE \E i \in 1 .. Len(queue) : n = queue[i].id
      BY <2>1, <2>2 DEF InOrder
    <2>3. CASE \E v \in Busy : n = thread[v].report.id
      BY <1>4, <2>1, <2>3
    <2> QED
      BY <2>2, <2>3 DEF Waiting
  <1> QED
    BY <1>1, <1>2, <1>3, <1>4, <1>5, <1>6

\* The program's reports stay, and one may be added.
Grown == \/ reports' = reports
         \/ \E r : reports' = Append(reports, r)

LEMMA GrownIs ==
  ASSUME IsSeq(reports), Grown
  PROVE  /\ IsSeq(reports') /\ Len(reports) \in Nat /\ Len(reports') \in Nat
         /\ Len(reports') = Len(reports) \/ Len(reports') = Len(reports) + 1
         /\ reports' # reports => Len(reports') = Len(reports) + 1
         /\ \A i \in 1 .. Len(reports) : i \in 1 .. Len(reports') /\ reports'[i] = reports[i]
  <1>1. CASE reports' = reports
    BY <1>1, AppendIs
  <1>2. CASE reports' # reports
    <2>1. PICK r : reports' = Append(reports, r)
      BY <1>2 DEF Grown
    <2> QED
      BY <2>1, AppendIs
  <1> QED
    BY <1>1, <1>2

LEMMA RightlyKept ==
  ASSUME IsSeq(reports), Grown, Sent, RightlyTold, server' = server, lost \subseteq lost'
  PROVE  RightlyTold'
  <1> SUFFICES ASSUME NEW i \in 1 .. Len(server), server[i].report.kind = "outcome",
                      Reported(server[i].report)', NothingLost(server[i].report)'
               PROVE  server[i].fingerprint = server[i].report.meant
    BY DEF RightlyTold
  <1> DEFINE r == server[i].report
  <1>1. /\ Len(reports) \in Nat /\ \A k \in 1 .. Len(reports) : reports'[k] = reports[k]
        /\ Known(r)
    BY GrownIs DEF Sent
  <1>2. r.id \in 1 .. Len(reports)
    BY <1>1 DEF Known
  <1>3. \A k \in 1 .. r.id - 1 : reports'[k] = reports[k]
    BY <1>1, <1>2
  <1>4. Reported(r)
    BY <1>3 DEF Reported
  <1>5. NothingLost(r)
    BY <1>3 DEF NothingLost
  <1> QED
    BY <1>4, <1>5 DEF RightlyTold

LEMMA RememberedKept ==
  ASSUME Remembered, IsSeq(server), fingerprints' = fingerprints, NEW x,
         server' = server \/ server' = Append(server, x)
  PROVE  Remembered'
  <1>1. \A j \in 1 .. Len(server) : j \in 1 .. Len(server') /\ server'[j] = server[j]
    BY AppendIs
  <1> QED
    BY <1>1 DEF Remembered

LEMMA UpToDateKept ==
  ASSUME UpToDate, IsSeq(reports), Grown, fingerprints' = fingerprints,
         \A m \in {Len(reports) + 1} : reports' # reports => Gone(m)',
         \A i \in 1 .. Len(reports) : reports[i].kind = "failure" /\ Gone(i) => Gone(i)',
         \A n \in Waiting' : n \in Waiting \/ n = Len(reports) + 1
  PROVE  UpToDate'
  <1>1. /\ Len(reports) \in Nat /\ Len(reports') \in Nat
        /\ Len(reports') = Len(reports) \/ Len(reports') = Len(reports) + 1
        /\ reports' # reports => Len(reports') = Len(reports) + 1
        /\ \A i \in 1 .. Len(reports) : i \in 1 .. Len(reports') /\ reports'[i] = reports[i]
    BY GrownIs
  <1>2. \A i \in 1 .. Len(reports') :
          \/ i \in 1 .. Len(reports) /\ reports'[i] = reports[i]
          \/ i = Len(reports) + 1 /\ Gone(i)'
    <2>1. CASE reports' = reports
      BY <2>1
    <2>2. CASE reports' # reports
      <3>1. \A i \in 1 .. Len(reports') : i \in 1 .. Len(reports) \/ i = Len(reports) + 1
        BY <1>1, <2>2
      <3> QED
        BY <1>1, <2>2, <3>1
    <2> QED
      BY <2>1, <2>2
  <1>3. ASSUME NEW o \in Operations, NEW i \in 1 .. Len(reports'), Failed(reports', i, o)
        PROVE  /\ Gone(i)' \/ reports'[i].shape \in fingerprints'.exact[o]
               /\ i \in 1 .. Len(reports) /\ Gone(i) => Gone(i)'
               /\ i \in 1 .. Len(reports) => Failed(reports, i, o)
               /\ i \notin 1 .. Len(reports) => Gone(i)'
    BY <1>2, <1>3 DEF UpToDate, Failed
  <1>4. ASSUME NEW o \in Operations
        PROVE  \/ /\ fingerprints'.latest[o] = NoShape
                  /\ \A i \in 1 .. Len(reports') : Failed(reports', i, o) => Gone(i)'
               \/ \E k \in 1 .. Len(reports') :
                    /\ Failed(reports', k, o) /\ reports'[k].shape = fingerprints'.latest[o]
                    /\ \A n \in Waiting' : k < n
                    /\ \A i \in k + 1 .. Len(reports') : Failed(reports', i, o) => Gone(i)'
    <2>1. CASE /\ fingerprints.latest[o] = NoShape
               /\ \A i \in 1 .. Len(reports) : Failed(reports, i, o) => Gone(i)
      BY <1>3, <2>1
    <2>2. CASE \E k \in 1 .. Len(reports) :
                 /\ Failed(reports, k, o) /\ reports[k].shape = fingerprints.latest[o]
                 /\ \A n \in Waiting : k < n
                 /\ \A i \in k + 1 .. Len(reports) : Failed(reports, i, o) => Gone(i)
      <3>1. PICK k \in 1 .. Len(reports) :
                 /\ Failed(reports, k, o) /\ reports[k].shape = fingerprints.latest[o]
                 /\ \A n \in Waiting : k < n
                 /\ \A i \in k + 1 .. Len(reports) : Failed(reports, i, o) => Gone(i)
        BY <2>2
      <3>2. /\ k \in 1 .. Len(reports') /\ Failed(reports', k, o)
            /\ reports'[k].shape = fingerprints'.latest[o]
        BY <1>1, <3>1 DEF Failed
      <3>3. \A n \in Waiting' : k < n
        BY <1>1, <3>1
      <3>4. ASSUME NEW i \in k + 1 .. Len(reports'), Failed(reports', i, o) PROVE Gone(i)'
        <4>1. i \in 1 .. Len(reports')
          BY <1>1
        <4>2. CASE i \in 1 .. Len(reports)
          <5>1. i \in k + 1 .. Len(reports)
            BY <1>1, <4>2
          <5> QED
            BY <1>3, <3>1, <3>4, <4>1, <4>2, <5>1
        <4> QED
          BY <1>3, <3>4, <4>1, <4>2
      <3> QED
        BY <3>2, <3>3, <3>4
    <2> QED
      BY <2>1, <2>2 DEF UpToDate
  <1> QED
    BY <1>3, <1>4 DEF UpToDate

LEMMA BehindKept ==
  ASSUME Behind, IsSeq(reports), Grown, Waiting \subseteq 1 .. Len(reports),
         \A m \in {Len(reports) + 1} : reports' # reports => Gone(m)',
         \A i \in 1 .. Len(reports) : Gone(i) => Gone(i)',
         \A n \in Waiting' : n \in Waiting \/ n = Len(reports) + 1
  PROVE  Behind'
  <1>1. /\ Len(reports) \in Nat /\ Len(reports') \in Nat
        /\ Len(reports') = Len(reports) \/ Len(reports') = Len(reports) + 1
        /\ reports' # reports => Len(reports') = Len(reports) + 1
    BY GrownIs
  <1>2. ASSUME NEW n \in Waiting', NEW i \in n + 1 .. Len(reports') PROVE Gone(i)'
    <2>1. CASE n = Len(reports) + 1
      BY <1>1, <2>1
    <2>2. CASE n \in Waiting
      <3>1. n \in 1 .. Len(reports)
        BY <2>2
      <3>2. CASE i \in 1 .. Len(reports)
        <4>1. i \in n + 1 .. Len(reports)
          BY <1>1, <3>1, <3>2
        <4> QED
          BY <2>2, <3>2, <4>1 DEF Behind
      <3>3. CASE i \notin 1 .. Len(reports)
        <4>1. i = Len(reports) + 1 /\ Len(reports') # Len(reports)
          BY <1>1, <3>1, <3>3
        <4> QED
          BY <4>1
      <3> QED
        BY <3>2, <3>3
    <2> QED
      BY <2>1, <2>2
  <1> QED
    BY <1>2 DEF Behind

LEMMA SentKept ==
  ASSUME IsSeq(reports), Grown, Sent, server' = server,
         \A n \in Waiting' : n \in Waiting \/ n = Len(reports) + 1,
         \A w \in Workers : thread[w].pc = "answered" \/ thread'[w].pc = "answered"
                            => thread'[w] = thread[w]
  PROVE  Sent'
  <1>1. /\ Len(reports) \in Nat
        /\ \A i \in 1 .. Len(reports) : i \in 1 .. Len(reports') /\ reports'[i] = reports[i]
    BY GrownIs
  <1>2. \A i \in 1 .. Len(server) : Known(server[i].report) /\ Known(server[i].report)'
    BY <1>1 DEF Sent, Known
  <1>3. ASSUME NEW i \in 1 .. Len(server), NEW n \in Waiting'
        PROVE  \/ server[i].report.id < n
               \/ \E w \in Workers : /\ thread'[w].pc = "answered"
                                     /\ server[i].report = thread'[w].report
    <2>1. CASE n \in Waiting
      BY <2>1 DEF Sent
    <2>2. CASE n = Len(reports) + 1
      <3>1. server[i].report.id \in 1 .. Len(reports)
        BY <1>2 DEF Known
      <3>2. CASE n \in Waiting
        BY <3>2, <2>1
      <3> QED
        BY <1>1, <2>2, <3>1
    <2> QED
      BY <2>1, <2>2
  <1>4. \A w \in Workers : thread'[w].pc = "answered" /\ thread'[w].report.kind = "failure" =>
          \E i \in 1 .. Len(server) : /\ server[i].report = thread'[w].report
                                      /\ server[i].fingerprint = thread'[w].report.shape
    BY DEF Sent
  <1> QED
    BY <1>2, <1>3, <1>4 DEF Sent

-----------------------------------------------------------------------------
(* The program's threads.                                                  *)

Ensuring == {t \in Threads : caller[t].pc = "ensure"}

\* A report is made: what does not depend on what becomes of it.
LEMMA MadeOneMore ==
  ASSUME Types, Made, InOrder, NEW r \in NewReports, reports' = Append(reports, r)
  PROVE  /\ Made'
         /\ \A x : Known(x) => Known(x)'
         /\ r.id = Len(reports) + 1 /\ Known(r)' /\ r \in Report
  <1>1. MadeAfter(reports, Len(reports) + 1, r)
    BY NewReportIs
  <1> DEFINE n == Len(reports) + 1
  <1>2. /\ IsSeq(reports) /\ n \in Nat /\ Len(reports) \in Nat
        /\ Len(reports') = n /\ reports'[n] = r
        /\ \A i \in 1 .. Len(reports) : reports'[i] = reports[i]
    BY AppendIs DEF Types
  <1>3. \A i \in 1 .. n : i = n \/ i \in 1 .. Len(reports)
    BY <1>2
  <1>4. ASSUME NEW i \in 1 .. n, NEW x, MadeAfter(reports, i, x) PROVE MadeAfter(reports', i, x)
    BY <1>2, <1>4, LatestKept DEF MadeAfter
  <1>5. \A i \in 1 .. Len(reports') : MadeAfter(reports', i, reports'[i])
    <2> SUFFICES ASSUME NEW i \in 1 .. n PROVE MadeAfter(reports', i, reports'[i])
      BY <1>2
    <2>1. CASE i = n
      BY <1>1, <1>2, <1>4, <2>1
    <2>2. CASE i \in 1 .. Len(reports)
      <3>1. MadeAfter(reports, i, reports[i])
        BY <2>2 DEF Made
      <3> QED
        BY <1>2, <1>4, <2>2, <3>1
    <2> QED
      BY <1>3, <2>1, <2>2
  <1>6. \A o \in Operations : \E s \in Shapes \cup {NoShape} :
          LatestAt(reports', o, Len(reports') + 1, s)
    <2> SUFFICES ASSUME NEW o \in Operations
                 PROVE  \E s \in Shapes \cup {NoShape} : LatestAt(reports', o, Len(reports') + 1, s)
      OBVIOUS
    <2>1. PICK s \in Shapes \cup {NoShape} : LatestAt(reports, o, Len(reports) + 1, s)
      BY DEF Made
    <2> DEFINE q == IF r.kind = "failure" /\ r.operation = o THEN r.shape ELSE s
    <2>2. LatestAt(Append(reports, r), o, Len(reports) + 2, q)
      BY <1>2, <2>1, LatestNext
    <2>3. q \in Shapes \cup {NoShape}
      BY <1>1 DEF MadeAfter, Report
    <2>4. Len(reports') + 1 = Len(reports) + 2
      BY <1>2
    <2> HIDE DEF q
    <2> QED
      BY <2>2, <2>3, <2>4
  <1>7. Made'
    BY <1>5, <1>6 DEF Made
  <1>8. \A x : Known(x) => Known(x)'
    BY <1>2, <1>3 DEF Known
  <1>9. r.id = n /\ Known(r)' /\ r \in Report
    BY <1>1, <1>2 DEF Known, MadeAfter
  <1> QED
    BY <1>7, <1>8, <1>9

LEMMA SubmitStep ==
  ASSUME ClientInv, NEW t \in Threads, Submit(t)
  PROVE  ClientInv'
  <1>1. PICK r \in NewReports :
          /\ reports' = Append(reports, r)
          /\ \/ /\ queue' = Append(queue, r)
                /\ unfinished' = unfinished + 1
                /\ caller' = [caller EXCEPT ![t].pc = "ensure"]
                /\ counts' = counts /\ lost' = lost
             \/ /\ Bump("dropped")
                /\ lost' = lost \cup {r.id}
                /\ queue' = queue /\ unfinished' = unfinished /\ caller' = caller
    BY Zenon DEF Submit
  <1>2. /\ caller[t].pc = "idle" /\ worker' = worker /\ thread' = thread
        /\ fingerprints' = fingerprints /\ server' = server
    BY DEF Submit
  <1> DEFINE n == Len(reports) + 1
  <1>3. /\ Types /\ Made /\ InOrder /\ Sent /\ Counted /\ Remembered /\ UpToDate /\ Behind
        /\ RightlyTold
    BY DEF ClientInv
  <1>4. /\ Made' /\ (\A x : Known(x) => Known(x)')
        /\ r.id = n /\ Known(r)' /\ r \in Report
    BY <1>1, <1>3, MadeOneMore
  <1>5. /\ IsSeq(queue) /\ IsSeq(reports) /\ IsSeq(server) /\ n \in Nat /\ Len(queue) \in Nat
        /\ Waiting \subseteq 1 .. Len(reports) /\ IsFiniteSet(Waiting) /\ Len(reports) \in Nat
        /\ Len(reports') = n /\ IsSeq(reports') /\ Grown
    BY <1>1, <1>3, WaitingIs, AppendIs DEF Types, Grown
  <1>6. Busy' = Busy /\ (\A w \in Workers : IsAlive(w)' <=> IsAlive(w))
    BY <1>2 DEF Busy, IsAlive
  <1>7. lost \subseteq lost'
    BY <1>1
  <1>8. Remembered' /\ RightlyTold'
    BY <1>2, <1>3, <1>5, <1>7, RememberedKept, RightlyKept
  <1>9. \A t_1 \in Threads : caller[t_1].mark <= Len(reports')
    BY <1>3, <1>5 DEF Counted, Types
  <1>10. CASE /\ queue' = Append(queue, r)
              /\ unfinished' = unfinished + 1
              /\ caller' = [caller EXCEPT ![t].pc = "ensure"]
              /\ counts' = counts /\ lost' = lost
    <2>1. /\ IsSeq(queue') /\ Len(queue') = Len(queue) + 1 /\ queue'[Len(queue) + 1] = r
          /\ \A i \in 1 .. Len(queue) : queue'[i] = queue[i]
      BY <1>5, <1>10, AppendIs
    <2>2. \A i \in 1 .. Len(queue') : i = Len(queue) + 1 \/ i \in 1 .. Len(queue)
      BY <1>5, <2>1
    <2>3. Waiting' = Waiting \cup {n}
      <3>1. {queue'[i].id : i \in 1 .. Len(queue')} = {queue[i].id : i \in 1 .. Len(queue)} \cup {n}
        <4>1. Len(queue) + 1 \in 1 .. Len(queue') /\ \A i \in 1 .. Len(queue) : i \in 1 .. Len(queue')
          BY <1>5, <2>1
        <4> QED
          BY <1>4, <2>1, <2>2, <4>1
      <3> QED
        BY <1>2, <1>6, <3>1 DEF Waiting
    <2>4. Types'
      <3>1. caller' \in [Threads -> [pc : {"idle", "ensure", "flushing", "drained"}, mark : Nat]]
        BY <1>3, <1>10 DEF Types
      <3> QED
        BY <1>2, <1>3, <1>5, <1>10, <2>1, <3>1 DEF Types
    <2>5. InOrder'
      <3>1. \A i \in 1 .. Len(queue') : Known(queue[i])'
        <4> SUFFICES ASSUME NEW i \in 1 .. Len(queue') PROVE Known(queue[i])'
          OBVIOUS
        <4>1. CASE i = Len(queue) + 1
          BY <1>4, <2>1, <4>1 DEF Known
        <4>2. CASE i \in 1 .. Len(queue)
          <5>1. Known(queue[i]) /\ queue'[i] = queue[i]
            BY <1>3, <2>1, <4>2 DEF InOrder
          <5> QED
            BY <1>4, <5>1 DEF Known
        <4> QED
          BY <2>2, <4>1, <4>2
      <3>2. \A i \in 1 .. Len(queue) : queue[i].id \in 1 .. Len(reports)
        BY <1>3 DEF InOrder, Known
      <3>3. \A i, j \in 1 .. Len(queue') : i < j => queue'[i].id < queue'[j].id
        <4> SUFFICES ASSUME NEW i \in 1 .. Len(queue'), NEW j \in 1 .. Len(queue'), i < j
                     PROVE  queue'[i].id < queue'[j].id
          OBVIOUS
        <4>1. i \in 1 .. Len(queue)
          BY <1>5, <2>1
        <4>2. CASE j \in 1 .. Len(queue)
          BY <1>3, <2>1, <4>1, <4>2 DEF InOrder
        <4>3. CASE j = Len(queue) + 1
          <5>1. queue'[i].id \in 1 .. Len(reports) /\ queue'[j].id = Len(reports) + 1
            BY <1>4, <2>1, <3>2, <4>1, <4>3
          <5> QED
            BY <1>5, <5>1
        <4> QED
          BY <2>2, <4>2, <4>3
      <3>4. ASSUME NEW w \in Busy
            PROVE  /\ Known(thread[w].report)'
                   /\ \A i \in 1 .. Len(queue') : thread[w].report.id < queue'[i].id
        <4>1. Known(thread[w].report) /\ thread[w].report.id \in 1 .. Len(reports)
          BY <1>3 DEF InOrder, Known
        <4>2. Known(thread[w].report)'
          BY <1>2, <1>4, <4>1
        <4>3. ASSUME NEW i \in 1 .. Len(queue') PROVE thread[w].report.id < queue'[i].id
          BY <1>3, <1>4, <1>5, <2>1, <2>2, <4>1 DEF InOrder
        <4> QED
          BY <4>2, <4>3
      <3> QED
        BY <1>2, <1>3, <1>6, <3>1, <3>3, <3>4 DEF InOrder
    <2>6. Sent'
      BY <1>2, <1>3, <1>5, <2>3, SentKept
    <2>7. UpToDate' /\ Behind'
      <3>1. \A i : Gone(i) => Gone(i)'
        BY <1>10, <2>3 DEF Gone
      <3>2. \A m \in {Len(reports) + 1} : Gone(m)'
        BY <2>3 DEF Gone
      <3> QED
        BY <1>2, <1>3, <1>5, <2>3, <3>1, <3>2, UpToDateKept, BehindKept
    <2>8. Counted'
      <3>1. n \notin Waiting
        BY <1>5
      <3>2. IsFiniteSet(Waiting') /\ Cardinality(Waiting') = Cardinality(Waiting) + 1
        BY <1>5, <2>3, <3>1, FS_AddElement
      <3>3. Ensuring' = Ensuring \cup {t} /\ t \notin Ensuring /\ IsFiniteSet(Ensuring)
        <4>1. IsFiniteSet(Ensuring)
          BY AutoReportAssumption, FS_Subset DEF Ensuring
        <4> QED
          BY <1>2, <1>3, <1>10, <4>1 DEF Ensuring, Types
      <3>4. Cardinality(Ensuring') = Cardinality(Ensuring) + 1
        BY <3>3, FS_AddElement
      <3>5. /\ Cardinality(Ensuring) \in Nat /\ Cardinality(Waiting) \in Nat
            /\ unfinished = Cardinality(Waiting)
            /\ counts.queued + Cardinality(Ensuring)
                 = counts.sent + counts.failed + counts.unmatched + unfinished
            /\ counts.queued \in Nat /\ counts.sent \in Nat /\ counts.failed \in Nat
            /\ counts.unmatched \in Nat
        BY <1>3, <1>5, <3>3, FS_CardinalityType DEF Counted, Ensuring, Types
      <3>6. /\ unfinished' = Cardinality(Waiting')
            /\ counts'.queued + Cardinality(Ensuring')
                 = counts'.sent + counts'.failed + counts'.unmatched + unfinished'
        <4>1. counts' = counts /\ unfinished' = unfinished + 1
          BY <1>10
        <4> QED
          BY <3>2, <3>4, <3>5, <4>1
      <3>7. ASSUME NEW t_1 \in Threads
            PROVE  /\ caller'[t_1].mark <= Len(reports')
                   /\ caller'[t_1].pc = "drained" => \A m \in Waiting' : m > caller'[t_1].mark
        <4>1. /\ caller'[t_1].mark = caller[t_1].mark
              /\ caller'[t_1].pc = "drained" => caller[t_1].pc = "drained"
          BY <1>3, <1>10 DEF Types
        <4>2. caller[t_1].mark \in Nat /\ caller[t_1].mark <= Len(reports)
          BY <1>3 DEF Types, Counted
        <4> QED
          BY <1>3, <1>5, <1>9, <2>3, <4>1, <4>2 DEF Counted
      <3> QED
        BY <3>2, <3>6, <3>7 DEF Counted, Ensuring
    <2> QED
      BY <1>4, <1>8, <2>4, <2>5, <2>6, <2>7, <2>8 DEF ClientInv
  <1>11. CASE /\ Bump("dropped")
              /\ lost' = lost \cup {r.id}
              /\ queue' = queue /\ unfinished' = unfinished /\ caller' = caller
    <2>1. Waiting' = Waiting
      BY <1>2, <1>6, <1>11 DEF Waiting
    <2>2. /\ counts' \in [{"queued", "dropped", "sent", "failed", "unmatched"} -> Nat]
          /\ counts'.queued = counts.queued /\ counts'.sent = counts.sent
          /\ counts'.failed = counts.failed /\ counts'.unmatched = counts.unmatched
      BY <1>3, <1>11 DEF Bump, Types
    <2>3. Types'
      BY <1>2, <1>3, <1>5, <1>11, <2>2 DEF Types
    <2>4. InOrder'
      BY <1>2, <1>3, <1>4, <1>6, <1>11 DEF InOrder
    <2>5. Sent'
      BY <1>2, <1>3, <1>5, <2>1, SentKept
    <2>6. UpToDate' /\ Behind'
      <3>1. \A i : Gone(i) => Gone(i)'
        BY <1>11, <2>1 DEF Gone
      <3>2. \A m \in {Len(reports) + 1} : Gone(m)'
        BY <1>4, <1>11 DEF Gone
      <3> QED
        BY <1>2, <1>3, <1>5, <2>1, <3>1, <3>2, UpToDateKept, BehindKept
    <2>7. Counted'
      BY <1>3, <1>9, <1>11, <2>1, <2>2 DEF Counted
    <2> QED
      BY <1>4, <1>8, <2>3, <2>4, <2>5, <2>6, <2>7 DEF ClientInv
  <1> QED
    BY <1>1, <1>10, <1>11

\* A step that moves no report.
LEMMA NothingMoves ==
  ASSUME ClientInv, queue' = queue, server' = server, reports' = reports, lost' = lost,
         fingerprints' = fingerprints, Types',
         \A w \in Workers :
           \/ thread'[w] = thread[w]
           \/ /\ thread'[w].report = thread[w].report
              /\ thread[w].pc \notin {"posting", "answered"}
              /\ thread'[w].pc \notin {"posting", "answered"},
         \A w \in Workers : IsAlive(w)' => w = worker',
         unfinished' = unfinished,
         counts'.queued + Cardinality(Ensuring')
           = counts'.sent + counts'.failed + counts'.unmatched + unfinished,
         \A t \in Threads : /\ caller'[t].mark <= Len(reports)
                            /\ caller'[t].pc = "drained" =>
                                 \A n \in Waiting : n > caller'[t].mark
  PROVE  ClientInv'
  <1>1. /\ Types /\ Made /\ InOrder /\ Sent /\ Counted /\ Remembered /\ UpToDate /\ Behind
        /\ RightlyTold
    BY DEF ClientInv
  <1>2. Busy' = Busy /\ \A w \in Busy : thread'[w] = thread[w]
    BY <1>1 DEF Busy, InOrder
  <1>3. Waiting' = Waiting
    BY <1>2 DEF Waiting
  <1>4. Made' /\ IsSeq(reports) /\ IsSeq(server) /\ Grown
    BY <1>1 DEF Made, Types, Grown
  <1>5. InOrder'
    <2>1. \A w \in Workers : w \in Busy' <=> thread'[w].pc \in {"posting", "answered"}
      BY <1>1, <1>2 DEF InOrder
    <2>2. \A w \in Busy' : /\ Known(thread[w].report)'
                           /\ \A i \in 1 .. Len(queue) : thread'[w].report.id < queue[i].id
      BY <1>1, <1>2 DEF InOrder, Known
    <2> QED
      BY <1>1, <2>1, <2>2 DEF InOrder, Known
  <1>6. Sent'
    BY <1>1, <1>3, <1>4, SentKept
  <1>7. Remembered' /\ RightlyTold'
    BY <1>1, <1>4, RememberedKept, RightlyKept
  <1>8. UpToDate' /\ Behind'
    BY <1>1, <1>3, <1>4, UpToDateKept, BehindKept, WaitingIs DEF Gone
  <1>9. Counted'
    BY <1>1, <1>3 DEF Counted, Ensuring
  <1> QED
    BY <1>4, <1>5, <1>6, <1>7, <1>8, <1>9 DEF ClientInv

\* The numbers of Counted.
LEMMA CountedIs ==
  ASSUME Types, InOrder, Counted
  PROVE  /\ IsFiniteSet(Ensuring) /\ Cardinality(Ensuring) \in Nat
         /\ Cardinality(Waiting) \in Nat /\ unfinished = Cardinality(Waiting)
         /\ counts.queued \in Nat /\ counts.sent \in Nat /\ counts.failed \in Nat
         /\ counts.unmatched \in Nat
         /\ counts.queued + Cardinality(Ensuring)
              = counts.sent + counts.failed + counts.unmatched + unfinished
         /\ \A t \in Threads : caller[t].mark \in Nat /\ caller[t].mark <= Len(reports)
  <1>1. IsFiniteSet(Ensuring)
    BY AutoReportAssumption, FS_Subset DEF Ensuring
  <1> QED
    BY <1>1, WaitingIs, FS_CardinalityType DEF Types, Counted, Ensuring

LEMMA EnsureStep ==
  ASSUME ClientInv, NEW t \in Threads, EnsureWorker(t)
  PROVE  ClientInv'
  <1>1. /\ caller[t].pc = "ensure" /\ caller' = [caller EXCEPT ![t].pc = "idle"]
        /\ Bump("queued")
        /\ queue' = queue /\ unfinished' = unfinished /\ fingerprints' = fingerprints
        /\ server' = server /\ reports' = reports /\ lost' = lost
    BY DEF EnsureWorker
  <1>2. /\ Types /\ Made /\ InOrder /\ Counted
    BY DEF ClientInv
  <1>3. \/ worker' = worker /\ thread' = thread
        \/ /\ worker = NoWorker \/ ~IsAlive(worker)
           /\ \E v \in Workers : /\ thread[v].pc = "unborn" /\ worker' = v
                                 /\ thread' = [thread EXCEPT ![v].pc = "getting"]
    BY DEF EnsureWorker, StartWorker
  <1>4. /\ worker' \in Workers \cup {NoWorker}
        /\ thread' \in [Workers -> [pc : {"unborn", "getting", "posting", "answered", "ending", "dead"},
                                    report : Report \cup {NoReport}]]
        /\ \A w \in Workers :
             \/ thread'[w] = thread[w]
             \/ /\ thread'[w].report = thread[w].report
                /\ thread[w].pc \notin {"posting", "answered"}
                /\ thread'[w].pc \notin {"posting", "answered"}
        /\ \A w \in Workers : IsAlive(w)' => w = worker'
    <2>1. CASE worker' = worker /\ thread' = thread
      BY <1>2, <2>1 DEF Types, InOrder, IsAlive
    <2>2. CASE /\ worker = NoWorker \/ ~IsAlive(worker)
               /\ \E v \in Workers : /\ thread[v].pc = "unborn" /\ worker' = v
                                     /\ thread' = [thread EXCEPT ![v].pc = "getting"]
      <3>1. PICK v \in Workers : /\ thread[v].pc = "unborn" /\ worker' = v
                                 /\ thread' = [thread EXCEPT ![v].pc = "getting"]
        BY <2>2
      <3>2. thread' \in [Workers -> [pc : {"unborn", "getting", "posting", "answered", "ending", "dead"},
                                     report : Report \cup {NoReport}]]
        BY <1>2, <3>1 DEF Types
      <3>3. /\ thread'[v].pc = "getting" /\ thread'[v].report = thread[v].report
            /\ \A w \in Workers : w # v => thread'[w] = thread[w]
        BY <1>2, <3>1 DEF Types
      <3>4. \A w \in Workers : ~IsAlive(w)
        BY <1>2, <2>2, AutoReportAssumption DEF InOrder
      <3> QED
        BY <3>1, <3>2, <3>3, <3>4 DEF IsAlive
    <2> QED
      BY <1>3, <2>1, <2>2
  <1>5. /\ counts' \in [{"queued", "dropped", "sent", "failed", "unmatched"} -> Nat]
        /\ counts'.queued = counts.queued + 1 /\ counts'.sent = counts.sent
        /\ counts'.failed = counts.failed /\ counts'.unmatched = counts.unmatched
    BY <1>1, <1>2 DEF Bump, Types
  <1>6. /\ caller' \in [Threads -> [pc : {"idle", "ensure", "flushing", "drained"}, mark : Nat]]
        /\ \A s \in Threads : /\ caller'[s].mark = caller[s].mark
                              /\ caller'[s].pc = "drained" => caller[s].pc = "drained"
        /\ Ensuring' = Ensuring \ {t} /\ t \in Ensuring
    BY <1>1, <1>2 DEF Types, Ensuring
  <1>7. Types'
    BY <1>1, <1>2, <1>4, <1>5, <1>6 DEF Types
  <1>8. counts'.queued + Cardinality(Ensuring')
           = counts'.sent + counts'.failed + counts'.unmatched + unfinished
    <2>1. Cardinality(Ensuring') = Cardinality(Ensuring) - 1
      BY <1>2, <1>6, CountedIs, FS_RemoveElement
    <2>2. /\ Cardinality(Ensuring) \in Nat
          /\ unfinished \in Nat /\ counts.queued \in Nat /\ counts.sent \in Nat
          /\ counts.failed \in Nat /\ counts.unmatched \in Nat
          /\ counts.queued + Cardinality(Ensuring)
               = counts.sent + counts.failed + counts.unmatched + unfinished
      BY <1>2, CountedIs
    <2> QED
      BY <1>5, <2>1, <2>2
  <1>9. \A s \in Threads : /\ caller'[s].mark <= Len(reports)
                           /\ caller'[s].pc = "drained" =>
                                \A n \in Waiting : n > caller'[s].mark
    BY <1>2, <1>6 DEF Counted
  <1> QED
    BY <1>1, <1>4, <1>7, <1>8, <1>9, NothingMoves

LEMMA FlushStep ==
  ASSUME ClientInv, NEW t \in Threads, FlushStart(t) \/ FlushReturn(t) \/ FlushSeen(t)
  PROVE  ClientInv'
  <1>1. /\ queue' = queue /\ unfinished' = unfinished /\ fingerprints' = fingerprints
        /\ server' = server /\ reports' = reports /\ lost' = lost
        /\ worker' = worker /\ thread' = thread /\ counts' = counts
    BY DEF FlushStart, FlushReturn, FlushSeen
  <1>2. /\ Types /\ Made /\ InOrder /\ Counted
    BY DEF ClientInv
  <1>3. Len(reports) \in Nat /\ Waiting \subseteq 1 .. Len(reports) /\ IsFiniteSet(Waiting)
    BY <1>2, WaitingIs
  <1>4. /\ caller[t].pc # "ensure"
        /\ \/ caller' = [caller EXCEPT ![t] = [pc |-> "flushing", mark |-> Len(reports)]]
           \/ caller' = [caller EXCEPT ![t] = [pc |-> "idle", mark |-> 0]]
           \/ AllDone /\ caller' = [caller EXCEPT ![t].pc = "drained"]
    BY DEF FlushStart, FlushReturn, FlushSeen
  <1>5. /\ caller' \in [Threads -> [pc : {"idle", "ensure", "flushing", "drained"}, mark : Nat]]
        /\ \A s \in Threads : s # t => caller'[s] = caller[s]
        /\ caller'[t].pc \in {"idle", "flushing", "drained"}
        /\ caller'[t].pc = "drained" => AllDone
        /\ caller'[t].mark \in {0, Len(reports), caller[t].mark}
    <2>1. CASE caller' = [caller EXCEPT ![t] = [pc |-> "flushing", mark |-> Len(reports)]]
      BY <1>2, <1>3, <2>1 DEF Types
    <2>2. CASE caller' = [caller EXCEPT ![t] = [pc |-> "idle", mark |-> 0]]
      BY <1>2, <2>2 DEF Types
    <2>3. CASE AllDone /\ caller' = [caller EXCEPT ![t].pc = "drained"]
      BY <1>2, <2>3 DEF Types
    <2> QED
      BY <1>4, <2>1, <2>2, <2>3
  <1>6. Ensuring' = Ensuring
    BY <1>4, <1>5 DEF Ensuring
  <1>7. AllDone => Waiting = {}
    BY <1>2, <1>3, FS_EmptySet DEF AllDone, Counted
  <1>8. \A s \in Threads : /\ caller'[s].mark <= Len(reports)
                           /\ caller'[s].pc = "drained" =>
                                \A n \in Waiting : n > caller'[s].mark
    <2> SUFFICES ASSUME NEW s \in Threads
                 PROVE  /\ caller'[s].mark <= Len(reports)
                        /\ caller'[s].pc = "drained" =>
                             \A n \in Waiting : n > caller'[s].mark
      OBVIOUS
    <2>1. CASE s = t
      BY <1>2, <1>3, <1>5, <1>7, <2>1 DEF Counted
    <2>2. CASE s # t
      BY <1>2, <1>5, <2>2 DEF Counted
    <2> QED
      BY <2>1, <2>2
  <1>9. Types'
    BY <1>1, <1>2, <1>5 DEF Types
  <1>10. /\ \A w \in Workers : IsAlive(w)' => w = worker'
         /\ counts'.queued + Cardinality(Ensuring')
              = counts'.sent + counts'.failed + counts'.unmatched + unfinished
    BY <1>1, <1>2, <1>6 DEF InOrder, IsAlive, Counted, Ensuring
  <1> QED
    BY <1>1, <1>8, <1>9, <1>10, NothingMoves

-----------------------------------------------------------------------------
(* The worker.                                                             *)

LEMMA EndingStep ==
  ASSUME ClientInv, NEW v \in Workers, GiveUp(v) \/ End(v)
  PROVE  ClientInv'
  <1>1. /\ queue' = queue /\ unfinished' = unfinished /\ fingerprints' = fingerprints
        /\ server' = server /\ reports' = reports /\ lost' = lost
        /\ worker' = worker /\ caller' = caller /\ counts' = counts
    BY DEF GiveUp, End
  <1>2. /\ thread[v].pc \in {"getting", "ending"}
        /\ \/ thread' = [thread EXCEPT ![v].pc = "ending"]
           \/ thread' = [thread EXCEPT ![v].pc = "dead"]
    BY DEF GiveUp, End
  <1>3. /\ Types /\ Made /\ InOrder /\ Counted
    BY DEF ClientInv
  <1>4. thread' \in [Workers -> [pc : {"unborn", "getting", "posting", "answered", "ending", "dead"},
                                 report : Report \cup {NoReport}]]
    BY <1>2, <1>3 DEF Types
  <1>5. /\ thread'[v].pc \in {"ending", "dead"} /\ thread'[v].report = thread[v].report
        /\ \A w \in Workers : w # v => thread'[w] = thread[w]
    BY <1>2, <1>3 DEF Types
  <1>6. \A w \in Workers : IsAlive(w)' => w = worker'
    <2>1. IsAlive(v)
      BY <1>2 DEF IsAlive
    <2> QED
      BY <1>1, <1>3, <1>5, <2>1 DEF InOrder, IsAlive
  <1>7. Types'
    BY <1>1, <1>3, <1>4 DEF Types
  <1>8. /\ \A w \in Workers :
             \/ thread'[w] = thread[w]
             \/ /\ thread'[w].report = thread[w].report
                /\ thread[w].pc \notin {"posting", "answered"}
                /\ thread'[w].pc \notin {"posting", "answered"}
        /\ counts'.queued + Cardinality(Ensuring')
             = counts'.sent + counts'.failed + counts'.unmatched + unfinished
    BY <1>1, <1>2, <1>3, <1>5 DEF Counted, Ensuring
  <1>9. \A s \in Threads : /\ caller'[s].mark <= Len(reports)
                           /\ caller'[s].pc = "drained" =>
                                \A n \in Waiting : n > caller'[s].mark
    BY <1>1, <1>3 DEF Counted
  <1> QED
    BY <1>1, <1>6, <1>7, <1>8, <1>9, NothingMoves

\* The queue's first report goes to the worker.
LEMMA GetStep ==
  ASSUME ClientInv, NEW v \in Workers, Get(v)
  PROVE  ClientInv'
  <1>1. /\ thread[v].pc = "getting" /\ queue # <<>>
        /\ thread' = [thread EXCEPT ![v] = [pc |-> "posting", report |-> Head(queue)]]
        /\ queue' = Tail(queue)
        /\ unfinished' = unfinished /\ fingerprints' = fingerprints
        /\ server' = server /\ reports' = reports /\ lost' = lost
        /\ worker' = worker /\ caller' = caller /\ counts' = counts
    BY DEF Get
  <1>2. /\ Types /\ Made /\ InOrder /\ Sent /\ Counted /\ Remembered /\ UpToDate /\ Behind
        /\ RightlyTold
    BY DEF ClientInv
  <1>3. /\ IsSeq(queue') /\ Len(queue) \in Nat /\ Len(queue) >= 1 /\ Head(queue) = queue[1]
        /\ Len(queue') = Len(queue) - 1
        /\ \A i \in 1 .. Len(queue') : i + 1 \in 1 .. Len(queue) /\ queue'[i] = queue[i + 1]
    BY <1>1, <1>2, HeadTailIs DEF Types
  <1>4. 1 \in 1 .. Len(queue) /\ Known(queue[1])
    BY <1>2, <1>3 DEF InOrder
  <1>5. queue[1] \in Report
    BY <1>2, <1>4 DEF Known, Made, MadeAfter
  <1>6. /\ thread' \in [Workers -> [pc : {"unborn", "getting", "posting", "answered", "ending", "dead"},
                                    report : Report \cup {NoReport}]]
        /\ thread'[v].pc = "posting" /\ thread'[v].report = queue[1]
        /\ \A w \in Workers : w # v => thread'[w] = thread[w]
    BY <1>1, <1>2, <1>3, <1>5 DEF Types
  <1>7. \A w \in Workers : w # v => ~IsAlive(w) /\ ~IsAlive(w)'
    BY <1>1, <1>2, <1>6 DEF InOrder, IsAlive
  <1>8. Busy = {} /\ Busy' = {v}
    <2>1. \A w \in Workers : w # v => w \notin Busy
      BY <1>2, <1>7 DEF InOrder, IsAlive
    <2>2. v \notin Busy
      BY <1>1, <1>2 DEF InOrder
    <2>3. queue[1] # NoReport
      BY <1>5 DEF Report, NoReport
    <2> QED
      BY <1>6, <2>1, <2>2, <2>3 DEF Busy
  <1>9. Waiting' = Waiting
    <2>1. \A i \in 1 .. Len(queue) : i = 1 \/ (i - 1 \in 1 .. Len(queue') /\ queue'[i - 1] = queue[i])
      BY <1>3
    <2>2. {queue'[i].id : i \in 1 .. Len(queue')} \cup {queue[1].id} = {queue[i].id : i \in 1 .. Len(queue)}
      BY <1>3, <1>4, <2>1
    <2>3. {thread'[w].report.id : w \in Busy'} = {queue[1].id}
      BY <1>6, <1>8
    <2>4. {thread[w].report.id : w \in Busy} = {}
      BY <1>8
    <2> QED
      BY <2>2, <2>3, <2>4 DEF Waiting
  <1>10. Types'
    BY <1>1, <1>2, <1>3, <1>6 DEF Types
  <1>11. InOrder'
    <2>1. \A w \in Workers : IsAlive(w)' => w = worker'
      BY <1>1, <1>2, <1>7 DEF InOrder, IsAlive
    <2>2. \A w \in Workers : w \in Busy' <=> thread'[w].pc \in {"posting", "answered"}
      BY <1>6, <1>7, <1>8 DEF IsAlive
    <2>3. \A i \in 1 .. Len(queue') : Known(queue[i])'
      BY <1>1, <1>2, <1>3 DEF InOrder, Known
    <2>4. \A i, j \in 1 .. Len(queue') : i < j => queue'[i].id < queue'[j].id
      BY <1>2, <1>3 DEF InOrder
    <2>5. \A w \in Busy' : /\ Known(thread[w].report)'
                           /\ \A i \in 1 .. Len(queue') : thread'[w].report.id < queue'[i].id
      BY <1>1, <1>2, <1>3, <1>4, <1>6, <1>8 DEF InOrder, Known
    <2> QED
      BY <2>1, <2>2, <2>3, <2>4, <2>5 DEF InOrder
  <1>12. Made' /\ IsSeq(reports) /\ IsSeq(server) /\ Grown /\ Waiting \subseteq 1 .. Len(reports)
    BY <1>1, <1>2, WaitingIs DEF Made, Types, Grown
  <1>13. Sent'
    <2>1. \A w \in Workers : thread[w].pc # "answered" /\ thread'[w].pc # "answered"
      BY <1>1, <1>6, <1>7 DEF IsAlive
    <2> QED
      BY <1>1, <1>2, <1>9, <1>12, <2>1, SentKept
  <1>14. Remembered' /\ RightlyTold' /\ UpToDate' /\ Behind'
    BY <1>1, <1>2, <1>9, <1>12, RememberedKept, RightlyKept, UpToDateKept, BehindKept DEF Gone
  <1>15. Counted'
    BY <1>1, <1>2, <1>9 DEF Counted
  <1> QED
    BY <1>10, <1>11, <1>12, <1>13, <1>14, <1>15 DEF ClientInv

\* What the client remembers of the failures before a report that is being sent.
LEMMA OnItsFailure ==
  ASSUME ClientInv, NEW v \in Busy, thread[v].report.kind = "outcome",
         Reported(thread[v].report), NothingLost(thread[v].report)
  PROVE  FingerprintFor(thread[v].report) = thread[v].report.meant
  <1> DEFINE r == thread[v].report
             o == r.operation
             m == r.id
  <1>1. /\ Types /\ Made /\ InOrder /\ UpToDate
    BY DEF ClientInv
  <1>2. /\ Len(reports) \in Nat /\ Waiting \subseteq 1 .. Len(reports)
        /\ r \in Report /\ m \in Waiting /\ \A n \in Waiting : n >= m
    BY <1>1, WaitingIs
  <1>3. m \in 1 .. Len(reports) /\ r = reports[m]
    BY <1>1 DEF InOrder, Known
  <1>4. MadeAfter(reports, m, r)
    BY <1>1, <1>3 DEF Made
  <1>5. o \in Operations
    BY <1>2 DEF Report
  <1>6. r.kind = "outcome" /\ Reported(r) /\ NothingLost(r)
    OBVIOUS
  <1> HIDE DEF r
  <1>7. \A i \in 1 .. m - 1 : i \in 1 .. Len(reports) /\ i \notin Waiting
    BY <1>2, <1>3
  <1>8. \A i \in 1 .. m - 1 : Failed(reports, i, o) => ~Gone(i)
    BY <1>6, <1>7 DEF Gone, NothingLost, Failed
  <1>9. PICK i \in 1 .. m - 1 : Failed(reports, i, o) /\ reports[i].shape = r.meant
    BY <1>6 DEF Reported, Failed
  <1>10. CASE r.shape # NoShape
    <2>1. r.meant = r.shape
      BY <1>4, <1>6, <1>10 DEF MadeAfter
    <2>2. r.shape \in fingerprints.exact[o]
      BY <1>1, <1>5, <1>7, <1>8, <1>9, <2>1 DEF UpToDate
    <2> QED
      BY <2>1, <2>2 DEF FingerprintFor, r
  <1>11. CASE r.shape = NoShape
    <2>1. FingerprintFor(r) = fingerprints.latest[o]
      <3>1. fingerprints.exact[o] \subseteq Shapes
        BY <1>1, <1>5 DEF Types
      <3> QED
        BY <1>11, <3>1, AutoReportAssumption DEF FingerprintFor
    <2>2. PICK j \in 1 .. m - 1 : /\ Failed(reports, j, o) /\ reports[j].shape = r.meant
                                  /\ \A l \in j + 1 .. m - 1 : ~Failed(reports, l, o)
      BY <1>4, <1>6, <1>9, <1>11 DEF MadeAfter, LatestAt
    <2>3. PICK k \in 1 .. Len(reports) :
            /\ Failed(reports, k, o) /\ reports[k].shape = fingerprints.latest[o]
            /\ \A n \in Waiting : k < n
            /\ \A l \in k + 1 .. Len(reports) : Failed(reports, l, o) => Gone(l)
      BY <1>1, <1>5, <1>7, <1>8, <1>9 DEF UpToDate
    <2>4. k < m
      BY <1>2, <2>3
    <2>5. j = k
      <3>1. CASE j < k
        <4>1. k \in j + 1 .. m - 1
          BY <1>3, <2>4, <3>1
        <4> QED
          BY <2>2, <2>3, <4>1
      <3>2. CASE k < j
        <4>1. j \in k + 1 .. Len(reports)
          BY <1>3, <3>2
        <4> QED
          BY <1>8, <2>2, <2>3, <4>1
      <3> QED
        BY <1>3, <3>1, <3>2
    <2> QED
      BY <2>1, <2>2, <2>3, <2>5 DEF r
  <1> QED
    BY <1>10, <1>11

LEMMA DeliverStep ==
  ASSUME ClientInv, NEW v \in Workers, Deliver(v)
  PROVE  ClientInv'
  <1> DEFINE r == thread[v].report
             entry == [report |-> r, fingerprint |-> Target(r)]
  <1>1. /\ thread[v].pc = "posting" /\ Matched(r)
        /\ thread' = [thread EXCEPT ![v].pc = "answered"]
        /\ server' = Append(server, entry)
        /\ queue' = queue /\ unfinished' = unfinished /\ fingerprints' = fingerprints
        /\ reports' = reports /\ lost' = lost
        /\ worker' = worker /\ caller' = caller /\ counts' = counts
    BY DEF Deliver
  <1>2. /\ Types /\ Made /\ InOrder /\ Sent /\ Counted /\ Remembered /\ UpToDate /\ Behind
        /\ RightlyTold
    BY DEF ClientInv
  <1>3. /\ thread' \in [Workers -> [pc : {"unborn", "getting", "posting", "answered", "ending", "dead"},
                                    report : Report \cup {NoReport}]]
        /\ thread'[v].pc = "answered" /\ thread'[v].report = r
        /\ \A w \in Workers : w # v => thread'[w] = thread[w]
    BY <1>1, <1>2 DEF Types
  <1>4. v \in Busy /\ Busy' = Busy /\ \A w \in Workers : thread'[w].report = thread[w].report
    BY <1>1, <1>2, <1>3 DEF InOrder, Busy
  <1>5. /\ Len(reports) \in Nat /\ Waiting \subseteq 1 .. Len(reports)
        /\ r \in Report /\ r.id \in Waiting /\ Known(r)
        /\ \A w \in Busy : w = v
        /\ \A n \in Waiting : n >= r.id
    BY <1>2, <1>4, WaitingIs DEF InOrder
  <1>6. Waiting' = Waiting
    BY <1>1, <1>4 DEF Waiting
  <1>7. \A w \in Workers : thread[w].pc # "answered"
    BY <1>1, <1>2, <1>5 DEF InOrder
  <1>8. /\ IsSeq(server) /\ IsSeq(server') /\ Len(server) \in Nat /\ Len(server') = Len(server) + 1
        /\ server'[Len(server) + 1] = entry
        /\ \A i \in 1 .. Len(server) : i \in 1 .. Len(server') /\ server'[i] = server[i]
        /\ \A i \in 1 .. Len(server') : i = Len(server) + 1 \/ i \in 1 .. Len(server)
    BY <1>1, <1>2, AppendIs DEF Types
  <1>9. /\ entry.report = r /\ entry.fingerprint = Target(r)
    OBVIOUS
  <1>10. Types'
    BY <1>1, <1>2, <1>3, <1>8 DEF Types
  <1>11. InOrder'
    <2>1. \A w \in Workers : IsAlive(w)' <=> IsAlive(w)
      BY <1>1, <1>3 DEF IsAlive
    <2>2. \A w \in Workers : w \in Busy' <=> thread'[w].pc \in {"posting", "answered"}
      BY <1>1, <1>2, <1>3, <1>4 DEF InOrder
    <2>3. \A w \in Busy : /\ Known(thread[w].report)'
                          /\ \A i \in 1 .. Len(queue) : thread'[w].report.id < queue[i].id
      <3> SUFFICES ASSUME NEW w \in Busy
                   PROVE  /\ Known(thread[w].report)'
                          /\ \A i \in 1 .. Len(queue) : thread'[w].report.id < queue[i].id
        OBVIOUS
      <3>1. /\ Known(thread[w].report) /\ thread'[w].report = thread[w].report
            /\ \A i \in 1 .. Len(queue) : thread[w].report.id < queue[i].id
        BY <1>2, <1>4 DEF InOrder, Busy
      <3> QED
        BY <1>1, <3>1 DEF Known
    <2> QED
      BY <1>1, <1>2, <1>4, <2>1, <2>2, <2>3 DEF InOrder, Known
  <1> HIDE DEF entry
  <1>12. Made' /\ IsSeq(reports) /\ Grown
    BY <1>1, <1>2 DEF Made, Types, Grown
  <1>13. \A i \in 1 .. Len(server) : server[i].report.id < r.id
    BY <1>2, <1>5, <1>7 DEF Sent
  <1>14. Sent'
    <2>1. \A i \in 1 .. Len(server') : Known(server[i].report)'
      BY <1>1, <1>2, <1>5, <1>8, <1>9 DEF Sent, Known
    <2>2. \A i, j \in 1 .. Len(server') : i < j => server'[i].report.id < server'[j].report.id
      <3> SUFFICES ASSUME NEW i \in 1 .. Len(server'), NEW j \in 1 .. Len(server'), i < j
                   PROVE  server'[i].report.id < server'[j].report.id
        OBVIOUS
      <3>1. i \in 1 .. Len(server)
        BY <1>8
      <3> QED
        BY <1>2, <1>8, <1>9, <1>13, <3>1 DEF Sent
    <2>3. \A i \in 1 .. Len(server'), n \in Waiting :
            \/ server'[i].report.id < n
            \/ \E w \in Workers : /\ thread'[w].pc = "answered"
                                  /\ server'[i].report = thread'[w].report
      BY <1>2, <1>3, <1>7, <1>8, <1>9 DEF Sent
    <2>4. \A w \in Workers : thread'[w].pc = "answered" /\ thread'[w].report.kind = "failure" =>
            \E i \in 1 .. Len(server') : /\ server'[i].report = thread'[w].report
                                         /\ server'[i].fingerprint = thread'[w].report.shape
      <3> SUFFICES ASSUME NEW w \in Workers, thread'[w].pc = "answered",
                          thread'[w].report.kind = "failure"
                   PROVE  \E i \in 1 .. Len(server') :
                            /\ server'[i].report = thread'[w].report
                            /\ server'[i].fingerprint = thread'[w].report.shape
        OBVIOUS
      <3>1. w = v
        BY <1>3, <1>7
      <3>2. entry.fingerprint = r.shape
        BY <1>3, <1>9, <3>1 DEF Target
      <3>3. Len(server) + 1 \in 1 .. Len(server')
        BY <1>8
      <3> QED
        BY <1>3, <1>8, <1>9, <3>1, <3>2, <3>3
    <2> QED
      BY <1>6, <2>1, <2>2, <2>3, <2>4 DEF Sent
  <1>15. Remembered' /\ UpToDate' /\ Behind'
    <2>1. Remembered'
      BY <1>1, <1>2, <1>8, RememberedKept
    <2> QED
      BY <1>1, <1>2, <1>5, <1>6, <1>12, <2>1, UpToDateKept, BehindKept DEF Gone
  <1>16. RightlyTold'
    <2>1. ASSUME NEW i \in 1 .. Len(server), server[i].report.kind = "outcome"
          PROVE  /\ \E j \in 1 .. i - 1 : /\ server'[j].report.kind = "failure"
                                          /\ server'[j].report.operation = server[i].report.operation
                                          /\ server'[j].fingerprint = server[i].fingerprint
                 /\ Reported(server[i].report) /\ NothingLost(server[i].report)
                    => server[i].fingerprint = server[i].report.meant
      <3>1. \A j \in 1 .. i - 1 : j \in 1 .. Len(server)
        BY <1>8
      <3> QED
        BY <1>2, <1>8, <2>1, <3>1 DEF RightlyTold
    <2>2. ASSUME r.kind = "outcome"
          PROVE  /\ \E j \in 1 .. Len(server) : /\ server'[j].report.kind = "failure"
                                                /\ server'[j].report.operation = r.operation
                                                /\ server'[j].fingerprint = entry.fingerprint
                 /\ Reported(r) /\ NothingLost(r) => entry.fingerprint = r.meant
      <3>1. entry.fingerprint = FingerprintFor(r) /\ FingerprintFor(r) # NoShape
        BY <1>1, <1>9, <2>2 DEF Target, Matched
      <3>2. r.operation \in Operations
        BY <1>5 DEF Report
      <3>3. FingerprintFor(r) \in fingerprints.exact[r.operation]
        BY <1>2, <3>1, <3>2 DEF FingerprintFor, Remembered
      <3>4. \E j \in 1 .. Len(server) : /\ server[j].report.kind = "failure"
                                        /\ server[j].report.operation = r.operation
                                        /\ server[j].fingerprint = FingerprintFor(r)
        BY <1>2, <3>2, <3>3 DEF Remembered
      <3>5. Reported(r) /\ NothingLost(r) => FingerprintFor(r) = r.meant
        BY <1>4, <2>2, OnItsFailure
      <3> QED
        BY <1>8, <3>1, <3>4, <3>5
    <2> SUFFICES ASSUME NEW i \in 1 .. Len(server'), server'[i].report.kind = "outcome"
                 PROVE  /\ \E j \in 1 .. i - 1 :
                             /\ server'[j].report.kind = "failure"
                             /\ server'[j].report.operation = server'[i].report.operation
                             /\ server'[j].fingerprint = server'[i].fingerprint
                        /\ Reported(server[i].report)' /\ NothingLost(server[i].report)'
                           => server'[i].fingerprint = server'[i].report.meant
      BY DEF RightlyTold
    <2>3. CASE i \in 1 .. Len(server)
      <3>1. server'[i] = server[i]
        BY <1>8, <2>3
      <3>2. Reported(server[i].report)' <=> Reported(server[i].report)
        BY <1>1, <3>1 DEF Reported
      <3>3. NothingLost(server[i].report)' <=> NothingLost(server[i].report)
        BY <1>1, <3>1 DEF NothingLost
      <3> QED
        BY <2>1, <2>3, <3>1, <3>2, <3>3
    <2>4. CASE i = Len(server) + 1
      <3>1. server'[i].report = r /\ server'[i].fingerprint = entry.fingerprint
        BY <1>8, <1>9, <2>4
      <3>2. Reported(server[i].report)' <=> Reported(r)
        BY <1>1, <3>1 DEF Reported
      <3>3. NothingLost(server[i].report)' <=> NothingLost(r)
        BY <1>1, <3>1 DEF NothingLost
      <3>4. i - 1 = Len(server)
        BY <1>8, <2>4
      <3> QED
        BY <2>2, <3>1, <3>2, <3>3, <3>4
    <2> QED
      BY <1>8, <2>3, <2>4
  <1>17. Counted'
    BY <1>1, <1>2, <1>6 DEF Counted
  <1> QED
    BY <1>10, <1>11, <1>12, <1>14, <1>15, <1>16, <1>17 DEF ClientInv

\* The end of one turn of the worker's loop, for what the answer leaves alone.
LEMMA TaskDoneKeeps ==
  ASSUME ClientInv, NEW v \in Workers, thread[v].pc \in {"posting", "answered"},
         NEW c \in {"sent", "failed", "unmatched"}, TaskDone(v, c), server' = server,
         fingerprints' \in [latest : [Operations -> Shapes \cup {NoShape}],
                            exact : [Operations -> SUBSET Shapes]]
  PROVE  /\ Types' /\ Made' /\ InOrder' /\ Sent' /\ Counted'
         /\ Waiting' = Waiting \ {thread[v].report.id}
         /\ reports' = reports /\ IsSeq(reports) /\ Grown
  <1> DEFINE m == thread[v].report.id
  <1>1. /\ thread' = [thread EXCEPT ![v] = [pc |-> "getting", report |-> NoReport]]
        /\ unfinished' = unfinished - 1
        /\ counts' = [counts EXCEPT ![c] = @ + 1]
        /\ queue' = queue /\ worker' = worker /\ caller' = caller /\ reports' = reports
    BY DEF TaskDone, Bump
  <1>2. /\ Types /\ Made /\ InOrder /\ Sent /\ Counted
    BY DEF ClientInv
  <1>3. /\ thread' \in [Workers -> [pc : {"unborn", "getting", "posting", "answered", "ending", "dead"},
                                    report : Report \cup {NoReport}]]
        /\ thread'[v].pc = "getting" /\ thread'[v].report = NoReport
        /\ \A w \in Workers : w # v => thread'[w] = thread[w]
    BY <1>1, <1>2 DEF Types
  <1>4. v \in Busy
    BY <1>2 DEF InOrder
  <1>5. /\ Len(reports) \in Nat /\ Waiting \subseteq 1 .. Len(reports) /\ IsFiniteSet(Waiting)
        /\ m \in Waiting /\ \A w \in Busy : w = v
        /\ \A n \in Waiting : n >= m
    BY <1>2, <1>4, WaitingIs
  <1> HIDE DEF m
  <1>6. Busy' = {} /\ Busy = {v}
    BY <1>3, <1>4, <1>5 DEF Busy
  <1>7. Waiting' = Waiting \ {m}
    <2>1. Waiting = {queue[i].id : i \in 1 .. Len(queue)} \cup {m}
      BY <1>6 DEF Waiting, m
    <2>2. Waiting' = {queue[i].id : i \in 1 .. Len(queue)}
      BY <1>1, <1>6 DEF Waiting
    <2>3. m \notin {queue[i].id : i \in 1 .. Len(queue)}
      <3>1. \A i \in 1 .. Len(queue) : m < queue[i].id /\ queue[i].id \in Nat
        BY <1>2, <1>4 DEF InOrder, Known, m
      <3>2. m \in Nat
        <4>1. m \in 1 .. Len(reports) /\ Len(reports) \in Nat
          BY <1>5
        <4> QED
          BY <4>1
      <3> QED
        BY <3>1, <3>2
    <2> QED
      BY <2>1, <2>2, <2>3
  <1>8. /\ counts' \in [{"queued", "dropped", "sent", "failed", "unmatched"} -> Nat]
        /\ counts'.queued = counts.queued
        /\ counts'.sent + counts'.failed + counts'.unmatched
             = counts.sent + counts.failed + counts.unmatched + 1
    <2> DEFINE all == {"queued", "dropped", "sent", "failed", "unmatched"}
    <2>1. counts \in [all -> Nat]
      BY <1>2 DEF Types
    <2>2. c \in all /\ c # "queued"
      OBVIOUS
    <2>3. /\ counts.queued \in Nat /\ counts.sent \in Nat /\ counts.failed \in Nat
          /\ counts.unmatched \in Nat
      BY <2>1
    <2>4. counts' = [counts EXCEPT ![c] = counts[c] + 1]
      BY <1>1
    <2>5. counts' \in [all -> Nat]
      <3>1. counts[c] + 1 \in Nat
        BY <2>1, <2>2
      <3> HIDE DEF all
      <3> QED
        BY <2>1, <2>2, <2>4, <3>1
    <2>6. \A k \in all : counts'[k] = IF k = c THEN counts[k] + 1 ELSE counts[k]
      BY <2>1, <2>4
    <2>7. /\ counts'.sent = IF c = "sent" THEN counts.sent + 1 ELSE counts.sent
          /\ counts'.failed = IF c = "failed" THEN counts.failed + 1 ELSE counts.failed
          /\ counts'.unmatched = IF c = "unmatched" THEN counts.unmatched + 1 ELSE counts.unmatched
          /\ counts'.queued = counts.queued
      BY <2>6
    <2> QED
      BY <2>3, <2>5, <2>7
  <1>9. Types'
    BY <1>1, <1>2, <1>3, <1>8 DEF Types
  <1>10. Made' /\ IsSeq(reports) /\ Grown
    BY <1>1, <1>2 DEF Made, Types, Grown
  <1>11. InOrder'
    <2>1. \A w \in Workers : IsAlive(w)' => w = worker'
      BY <1>1, <1>2, <1>3 DEF InOrder, IsAlive
    <2>2. \A w \in Workers : w \in Busy' <=> thread'[w].pc \in {"posting", "answered"}
      BY <1>2, <1>3, <1>6 DEF InOrder
    <2> QED
      BY <1>1, <1>2, <1>6, <2>1, <2>2 DEF InOrder, Known
  <1>12. Sent'
    <2>1. \A w \in Workers : thread'[w].pc # "answered"
      BY <1>2, <1>3, <1>6 DEF InOrder
    <2>2. ASSUME NEW i \in 1 .. Len(server), NEW n \in Waiting' PROVE server[i].report.id < n
      <3>1. n \in Waiting /\ n # m /\ m \in Nat /\ n \in Nat /\ n > m
        BY <1>5, <1>7
      <3>2. CASE server[i].report.id < n
        BY <3>2
      <3>3. CASE \E w \in Workers : thread[w].pc = "answered" /\ server[i].report = thread[w].report
        <4>1. server[i].report = thread[v].report
          BY <1>2, <1>6, <3>3 DEF InOrder
        <4>2. server[i].report.id = m
          BY <4>1 DEF m
        <4> QED
          BY <3>1, <4>2
      <3> QED
        BY <1>2, <3>1, <3>2, <3>3 DEF Sent
    <2> QED
      BY <1>1, <1>2, <2>1, <2>2 DEF Sent, Known
  <1>13. Counted'
    <2>1. IsFiniteSet(Waiting') /\ Cardinality(Waiting') = Cardinality(Waiting) - 1
      <3>1. Cardinality(Waiting \ {m}) = Cardinality(Waiting) - 1 /\ IsFiniteSet(Waiting \ {m})
        BY <1>5, FS_RemoveElement
      <3> QED
        BY <1>7, <3>1
    <2>2. /\ Cardinality(Ensuring) \in Nat /\ Ensuring' = Ensuring
          /\ unfinished = Cardinality(Waiting)
          /\ unfinished \in Nat /\ counts.queued \in Nat /\ counts.sent \in Nat
          /\ counts.failed \in Nat /\ counts.unmatched \in Nat
          /\ counts.queued + Cardinality(Ensuring)
               = counts.sent + counts.failed + counts.unmatched + unfinished
      BY <1>1, <1>2, CountedIs DEF Ensuring
    <2>3. /\ unfinished' = Cardinality(Waiting')
          /\ counts'.queued + Cardinality(Ensuring')
               = counts'.sent + counts'.failed + counts'.unmatched + unfinished'
      <3>1. unfinished' = unfinished - 1 /\ Cardinality(Ensuring') = Cardinality(Ensuring)
        BY <1>1, <2>2
      <3>2. /\ counts'.sent \in Nat /\ counts'.failed \in Nat /\ counts'.unmatched \in Nat
        BY <1>8
      <3> QED
        BY <1>8, <2>1, <2>2, <3>1, <3>2
    <2>4. \A t \in Threads :
            /\ caller'[t].mark <= Len(reports')
            /\ caller'[t].pc = "drained" => \A n \in Waiting' : n > caller'[t].mark
      BY <1>1, <1>2, <1>7 DEF Counted
    <2> QED
      BY <2>1, <2>3, <2>4 DEF Counted, Ensuring
  <1> QED
    BY <1>1, <1>7, <1>9, <1>10, <1>11, <1>12, <1>13 DEF m

LEMMA BehindDone ==
  ASSUME Types, InOrder, Behind, NEW v \in Busy, reports' = reports,
         Waiting' = Waiting \ {thread[v].report.id}, lost \subseteq lost'
  PROVE  Behind'
  <1> DEFINE m == thread[v].report.id
  <1>1. /\ Len(reports) \in Nat /\ Waiting \subseteq 1 .. Len(reports)
        /\ m \in Waiting /\ \A n \in Waiting : n >= m
    BY WaitingIs
  <1> HIDE DEF m
  <1>2. ASSUME NEW n \in Waiting', NEW i \in n + 1 .. Len(reports) PROVE Gone(i)'
    <2>1. n \in Waiting /\ n \in Nat /\ m \in Nat /\ n > m
      <3>1. n \in Waiting /\ n # m
        BY DEF m
      <3>2. n \in Nat /\ m \in Nat /\ n >= m
        BY <1>1, <3>1
      <3> QED
        BY <3>1, <3>2
    <2>2. i # m
      BY <1>1, <2>1
    <2>3. Gone(i)
      BY <2>1 DEF Behind
    <2> QED
      BY <2>2, <2>3 DEF Gone, m
  <1> QED
    BY <1>2 DEF Behind

\* The answer to a failure is what the client remembers of its operation.
LEMMA AnswerStep ==
  ASSUME ClientInv, NEW v \in Workers, Answer(v)
  PROVE  ClientInv'
  <1> DEFINE r == thread[v].report
             m == r.id
             o == r.operation
  <1>1. /\ thread[v].pc = "answered" /\ TaskDone(v, "sent") /\ server' = server /\ lost' = lost
        /\ r.kind # "failure" => fingerprints' = fingerprints
        /\ r.kind = "failure" => fingerprints' =
             [latest |-> [fingerprints.latest EXCEPT ![o] = r.shape],
              exact |-> [fingerprints.exact EXCEPT ![o] = @ \cup {r.shape}]]
    BY DEF Answer
  <1>2. /\ Types /\ Made /\ InOrder /\ Sent /\ Counted /\ Remembered /\ UpToDate /\ Behind
        /\ RightlyTold
    BY DEF ClientInv
  <1>3. v \in Busy
    BY <1>1, <1>2 DEF InOrder
  <1>4. /\ Len(reports) \in Nat /\ Waiting \subseteq 1 .. Len(reports)
        /\ r \in Report /\ m \in Waiting /\ \A n \in Waiting : n >= m
        /\ m \in 1 .. Len(reports) /\ r = reports[m]
    BY <1>2, <1>3, WaitingIs DEF InOrder, Known
  <1>5. o \in Operations /\ (r.kind = "failure" => r.shape \in Shapes)
    <2>1. r.kind = "failure" => r.shape # NoShape
      BY <1>2, <1>4 DEF Made, MadeAfter
    <2> QED
      BY <1>4, <2>1 DEF Report
  <1> HIDE DEF r
  <1>6. fingerprints' \in [latest : [Operations -> Shapes \cup {NoShape}],
                           exact : [Operations -> SUBSET Shapes]]
    <2>1. CASE r.kind # "failure"
      BY <1>1, <1>2, <2>1 DEF Types
    <2>2. CASE r.kind = "failure"
      BY <1>1, <1>2, <1>5, <2>2 DEF Types
    <2> QED
      BY <2>1, <2>2
  <1>7. /\ Types' /\ Made' /\ InOrder' /\ Sent' /\ Counted'
        /\ Waiting' = Waiting \ {m}
        /\ reports' = reports /\ IsSeq(reports) /\ Grown
    BY <1>1, <1>6, TaskDoneKeeps DEF r
  <1>8. Behind' /\ RightlyTold'
    BY <1>1, <1>2, <1>3, <1>7, BehindDone, RightlyKept DEF r
  <1>9. CASE r.kind # "failure"
    <2>1. Remembered'
      BY <1>1, <1>2, <1>9, RememberedKept DEF Types
    <2>2. \A i \in 1 .. Len(reports) : reports[i].kind = "failure" /\ Gone(i) => Gone(i)'
      BY <1>1, <1>4, <1>7, <1>9 DEF Gone
    <2>3. UpToDate'
      BY <1>1, <1>2, <1>7, <1>9, <2>2, UpToDateKept
    <2> QED
      BY <1>7, <1>8, <2>1, <2>3 DEF ClientInv
  <1>10. CASE r.kind = "failure"
    <2>1. /\ fingerprints'.latest[o] = r.shape
          /\ fingerprints'.exact[o] = fingerprints.exact[o] \cup {r.shape}
          /\ \A p \in Operations : p # o => /\ fingerprints'.latest[p] = fingerprints.latest[p]
                                            /\ fingerprints'.exact[p] = fingerprints.exact[p]
      BY <1>1, <1>2, <1>5, <1>10 DEF Types
    <2>2. Remembered'
      <3>1. \E i \in 1 .. Len(server) : server[i].report = r /\ server[i].fingerprint = r.shape
        BY <1>1, <1>2, <1>10 DEF Sent, r
      <3>2. ASSUME NEW p \in Operations, NEW f \in fingerprints'.exact[p]
            PROVE  \E j \in 1 .. Len(server) : /\ server[j].report.kind = "failure"
                                               /\ server[j].report.operation = p
                                               /\ server[j].fingerprint = f
        <4>1. CASE p = o /\ f = r.shape
          BY <1>10, <3>1, <4>1
        <4>2. CASE f \in fingerprints.exact[p]
          BY <1>2, <4>2 DEF Remembered
        <4> QED
          BY <2>1, <4>1, <4>2
      <3>3. \A p \in Operations :
              fingerprints'.latest[p] = NoShape \/ fingerprints'.latest[p] \in fingerprints'.exact[p]
        BY <1>2, <2>1 DEF Remembered
      <3> QED
        BY <1>1, <3>2, <3>3 DEF Remembered
    <2>3. \A i \in 1 .. Len(reports) : Gone(i) /\ i # m => Gone(i)'
      BY <1>1, <1>7 DEF Gone
    <2>4. \A p \in Operations, i \in 1 .. Len(reports) :
            Failed(reports, i, p) => Gone(i)' \/ reports[i].shape \in fingerprints'.exact[p]
      <3> SUFFICES ASSUME NEW p \in Operations, NEW i \in 1 .. Len(reports), Failed(reports, i, p)
                   PROVE  Gone(i)' \/ reports[i].shape \in fingerprints'.exact[p]
        OBVIOUS
      <3>1. CASE i = m
        <4>1. p = o
          BY <1>4, <3>1 DEF Failed
        <4> QED
          BY <1>4, <2>1, <3>1, <4>1
      <3>2. CASE i # m
        <4>1. Gone(i) \/ reports[i].shape \in fingerprints.exact[p]
          BY <1>2 DEF UpToDate
        <4> QED
          BY <2>1, <2>3, <3>2, <4>1
      <3> QED
        BY <3>1, <3>2
    <2>5. ASSUME NEW p \in Operations
          PROVE  \/ /\ fingerprints'.latest[p] = NoShape
                    /\ \A i \in 1 .. Len(reports) : Failed(reports, i, p) => Gone(i)'
                 \/ \E k \in 1 .. Len(reports) :
                      /\ Failed(reports, k, p) /\ reports[k].shape = fingerprints'.latest[p]
                      /\ \A n \in Waiting' : k < n
                      /\ \A i \in k + 1 .. Len(reports) : Failed(reports, i, p) => Gone(i)'
      <3>1. CASE p = o
        <4>1. Failed(reports, m, p) /\ reports[m].shape = fingerprints'.latest[p]
          BY <1>4, <1>10, <2>1, <3>1 DEF Failed
        <4>2. \A n \in Waiting' : m < n
          BY <1>4, <1>7
        <4>3. \A i \in m + 1 .. Len(reports) : Gone(i)'
          <5>1. \A i \in m + 1 .. Len(reports) : Gone(i) /\ i # m /\ i \in 1 .. Len(reports)
            BY <1>2, <1>4 DEF Behind
          <5> QED
            BY <2>3, <5>1
        <4> QED
          BY <1>4, <4>1, <4>2, <4>3
      <3>2. CASE p # o
        <4>1. \A i \in 1 .. Len(reports) : Failed(reports, i, p) /\ Gone(i) => Gone(i)'
          BY <1>4, <2>3, <3>2 DEF Failed
        <4>2. CASE /\ fingerprints.latest[p] = NoShape
                   /\ \A i \in 1 .. Len(reports) : Failed(reports, i, p) => Gone(i)
          BY <2>1, <3>2, <4>1, <4>2
        <4>3. CASE \E k \in 1 .. Len(reports) :
                     /\ Failed(reports, k, p) /\ reports[k].shape = fingerprints.latest[p]
                     /\ \A n \in Waiting : k < n
                     /\ \A i \in k + 1 .. Len(reports) : Failed(reports, i, p) => Gone(i)
          <5>1. PICK k \in 1 .. Len(reports) :
                     /\ Failed(reports, k, p) /\ reports[k].shape = fingerprints.latest[p]
                     /\ \A n \in Waiting : k < n
                     /\ \A i \in k + 1 .. Len(reports) : Failed(reports, i, p) => Gone(i)
            BY <4>3
          <5>2. \A i \in k + 1 .. Len(reports) : i \in 1 .. Len(reports)
            BY <1>4
          <5>3. \A i \in k + 1 .. Len(reports) : Failed(reports, i, p) => Gone(i)'
            BY <4>1, <5>1, <5>2
          <5>4. reports[k].shape = fingerprints'.latest[p] /\ \A n \in Waiting' : k < n
            BY <1>7, <2>1, <3>2, <5>1
          <5> QED
            BY <5>1, <5>3, <5>4
        <4> QED
          BY <1>2, <4>2, <4>3 DEF UpToDate
      <3> QED
        BY <3>1, <3>2
    <2>6. UpToDate'
      BY <1>7, <2>4, <2>5 DEF UpToDate
    <2> QED
      BY <1>7, <1>8, <2>2, <2>6 DEF ClientInv
  <1> QED
    BY <1>9, <1>10

\* A request that is not answered, or whose answer cannot be read, or that is
\* not made.
LEMMA NotAnsweredStep ==
  ASSUME ClientInv, NEW v \in Workers, AnswerUnreadable(v) \/ PostFails(v) \/ Unmatched(v)
  PROVE  ClientInv'
  <1> DEFINE r == thread[v].report
             m == r.id
  <1>1. /\ thread[v].pc \in {"posting", "answered"}
        /\ server' = server /\ fingerprints' = fingerprints
        /\ \E c \in {"sent", "failed", "unmatched"} : TaskDone(v, c)
        /\ lost \subseteq lost'
        /\ r.kind = "failure" => m \in lost'
    BY DEF AnswerUnreadable, PostFails, Unmatched, Matched
  <1>2. /\ Types /\ Made /\ InOrder /\ Sent /\ Counted /\ Remembered /\ UpToDate /\ Behind
        /\ RightlyTold
    BY DEF ClientInv
  <1>3. v \in Busy
    BY <1>1, <1>2 DEF InOrder
  <1>4. m \in 1 .. Len(reports) /\ r = reports[m]
    BY <1>2, <1>3 DEF InOrder, Known
  <1>5. /\ Types' /\ Made' /\ InOrder' /\ Sent' /\ Counted'
        /\ Waiting' = Waiting \ {m}
        /\ reports' = reports /\ IsSeq(reports) /\ Grown
    <2>1. PICK c \in {"sent", "failed", "unmatched"} : TaskDone(v, c)
      BY <1>1
    <2>2. fingerprints' \in [latest : [Operations -> Shapes \cup {NoShape}],
                             exact : [Operations -> SUBSET Shapes]]
      BY <1>1, <1>2 DEF Types
    <2> QED
      BY <1>1, <2>1, <2>2, TaskDoneKeeps
  <1>6. Behind' /\ RightlyTold'
    BY <1>1, <1>2, <1>3, <1>5, BehindDone, RightlyKept
  <1>7. Remembered'
    BY <1>1, <1>2, RememberedKept DEF Types
  <1>8. \A i \in 1 .. Len(reports) : reports[i].kind = "failure" /\ Gone(i) => Gone(i)'
    BY <1>1, <1>4, <1>5 DEF Gone
  <1>9. UpToDate'
    BY <1>1, <1>2, <1>5, <1>8, UpToDateKept
  <1> QED
    BY <1>5, <1>6, <1>7, <1>9 DEF ClientInv

LEMMA ClientInit ==
  ASSUME Init
  PROVE  ClientInv
  <1>1. /\ queue = <<>> /\ server = <<>> /\ reports = <<>> /\ lost = {} /\ unfinished = 0
        /\ worker = NoWorker
        /\ thread = [w \in Workers |-> [pc |-> "unborn", report |-> NoReport]]
        /\ caller = [t \in Threads |-> [pc |-> "idle", mark |-> 0]]
        /\ counts = [c \in {"queued", "dropped", "sent", "failed", "unmatched"} |-> 0]
        /\ fingerprints = [latest |-> [o \in Operations |-> NoShape],
                           exact |-> [o \in Operations |-> {}]]
    BY DEF Init
  <1>2. /\ IsSeq(queue) /\ IsSeq(server) /\ IsSeq(reports)
        /\ Len(queue) = 0 /\ Len(server) = 0 /\ Len(reports) = 0
    <2>1. IsSeq(<<>>) /\ Len(<<>>) = 0
      <3>1. <<>> \in Seq({})
        OBVIOUS
      <3> QED
        BY <3>1 DEF IsSeq
    <2> QED
      BY <1>1, <2>1
  <1>3. Types
    BY <1>1, <1>2 DEF Types
  <1>4. Busy = {} /\ Waiting = {}
    <2>1. Busy = {}
      BY <1>1 DEF Busy
    <2> QED
      BY <1>2, <2>1 DEF Waiting
  <1>5. Made
    <2>1. ASSUME NEW o \in Operations PROVE LatestAt(reports, o, Len(reports) + 1, NoShape)
      <3>1. \A i \in 1 .. (Len(reports) + 1) - 1 : FALSE
        BY <1>2
      <3> QED
        BY <3>1 DEF LatestAt
    <2> QED
      BY <1>2, <2>1 DEF Made
  <1>6. InOrder /\ Sent
    BY <1>1, <1>2, <1>4 DEF InOrder, Sent, IsAlive
  <1>7. Counted
    <2>1. {t \in Threads : caller[t].pc = "ensure"} = {}
      BY <1>1
    <2>2. Cardinality({}) = 0 /\ IsFiniteSet({})
      BY FS_EmptySet
    <2>3. /\ counts.queued = 0 /\ counts.sent = 0 /\ counts.failed = 0 /\ counts.unmatched = 0
      BY <1>1
    <2>4. \A t \in Threads : caller[t].mark = 0
      BY <1>1
    <2> QED
      <3>1. Cardinality({t \in Threads : caller[t].pc = "ensure"}) = 0
        BY <2>1, <2>2
      <3>2. IsFiniteSet(Waiting) /\ unfinished = Cardinality(Waiting) /\ unfinished = 0
        BY <1>1, <1>4, <2>2
      <3>3. \A t \in Threads : caller[t].mark <= Len(reports)
        BY <1>2, <2>4
      <3>4. \A n \in Waiting : FALSE
        BY <1>4
      <3> QED
        BY <2>3, <3>1, <3>2, <3>3, <3>4 DEF Counted
  <1>8. Remembered /\ UpToDate /\ Behind /\ RightlyTold
    <2>1. \A o \in Operations : fingerprints.latest[o] = NoShape /\ fingerprints.exact[o] = {}
      BY <1>1
    <2> QED
      BY <1>2, <1>4, <2>1 DEF Remembered, UpToDate, Behind, RightlyTold
  <1> QED
    BY <1>3, <1>5, <1>6, <1>7, <1>8 DEF ClientInv

LEMMA ClientStep ==
  ASSUME ClientInv, [Next]_vars
  PROVE  ClientInv'
  <1>1. CASE UNCHANGED vars
    <2>1. /\ queue' = queue /\ unfinished' = unfinished /\ worker' = worker /\ thread' = thread
          /\ caller' = caller /\ fingerprints' = fingerprints /\ counts' = counts
          /\ server' = server /\ reports' = reports /\ lost' = lost
      BY <1>1 DEF vars
    <2>2. Types' /\ Made' /\ Remembered' /\ (Waiting' = Waiting) /\ (Busy' = Busy)
      BY <2>1 DEF ClientInv, Types, Made, Remembered, Waiting, Busy
    <2>3. InOrder' /\ Sent'
      BY <2>1, <2>2 DEF ClientInv, InOrder, IsAlive, Known, Sent
    <2>4. Counted'
      BY <2>1, <2>2 DEF ClientInv, Counted
    <2>5. UpToDate' /\ Behind'
      BY <2>1, <2>2 DEF ClientInv, UpToDate, Behind, Gone
    <2>6. RightlyTold'
      BY <2>1 DEF ClientInv, RightlyTold, Reported, NothingLost
    <2> QED
      BY <2>2, <2>3, <2>4, <2>5, <2>6 DEF ClientInv
  <1>2. CASE \E t \in Threads : ThreadStep(t)
    <2>1. PICK t \in Threads : ThreadStep(t)
      BY <1>2
    <2> QED
      BY <2>1, SubmitStep, EnsureStep, FlushStep DEF ThreadStep
  <1>3. CASE \E w \in Workers : WorkerStep(w)
    <2>1. PICK w \in Workers : WorkerStep(w)
      BY <1>3
    <2> QED
      BY <2>1, GetStep, EndingStep, DeliverStep, AnswerStep, NotAnsweredStep DEF WorkerStep
  <1> QED
    BY <1>1, <1>2, <1>3 DEF Next

LEMMA ClientAlways ==
  ReportingSpec => []ClientInv
  <1>1. ReportingInit => ClientInv
    BY ClientInit DEF ReportingInit
  <1>2. ClientInv /\ [ReportingNext]_reportingVars => ClientInv'
    <2> SUFFICES ASSUME ClientInv, [ReportingNext]_reportingVars
                 PROVE  ClientInv'
      OBVIOUS
    <2>1. [Next]_vars
      BY DEF ReportingNext, reportingVars
    <2> QED
      BY <2>1, ClientStep
  <1> QED
    BY <1>1, <1>2, PTL DEF ReportingSpec

-----------------------------------------------------------------------------
(* The client: what the properties say of it.                              *)

\* A pending report is the one of its id.
LEMMA PendingIs ==
  ASSUME Types, InOrder
  PROVE  /\ \A r \in Pending : r.id \in Waiting /\ r = reports[r.id]
         /\ Cardinality(Pending) = Cardinality(Waiting)
  <1> DEFINE f == [i \in Waiting |-> reports[i]]
  <1>1. Len(queue) \in Nat /\ DOMAIN queue = 1 .. Len(queue)
    BY AppendIs DEF Types
  <1>2. Pending = {queue[i] : i \in 1 .. Len(queue)} \cup {thread[w].report : w \in Busy}
    BY <1>1 DEF Pending, Busy, Range
  <1>3. \A r \in Pending : r.id \in Waiting /\ r = reports[r.id]
    BY <1>2 DEF Waiting, InOrder, Known
  <1>4. \A i \in Waiting : reports[i] \in Pending /\ reports[i].id = i
    <2>1. ASSUME NEW i \in Waiting PROVE \E r \in Pending : r.id = i /\ r = reports[i]
      BY <1>2 DEF Waiting, InOrder, Known
    <2> QED
      BY <2>1
  <1>5. f \in Bijection(Waiting, Pending)
    <2>1. f \in [Waiting -> Pending]
      BY <1>4
    <2>2. \A i, j \in Waiting : f[i] = f[j] => i = j
      BY <1>4
    <2>3. \A r \in Pending : \E i \in Waiting : f[i] = r
      BY <1>3
    <2> QED
      BY <2>1, <2>2, <2>3 DEF Bijection, Injection, Surjection, IsInjective
  <1>6. IsFiniteSet(Waiting)
    BY WaitingIs
  <1> QED
    BY <1>3, <1>5, <1>6, FS_Bijection DEF ExistsBijection

\* What every queued report has come to, and what a flush that returned True has
\* seen: _submit counts after its put, _drain after its request, and
\* unfinished_tasks counts the one in flight.
THEOREM ReportsAreAccounted ==
  ReportingSpec => []QueueAccounted
  <1>1. ClientInv => QueueAccounted
    <2> SUFFICES ASSUME ClientInv PROVE QueueAccounted
      OBVIOUS
    <2>1. Types /\ InOrder /\ Counted
      BY DEF ClientInv
    <2>2. EveryReportAccounted
      BY <2>1, PendingIs DEF Counted, EveryReportAccounted
    <2>3. FlushMeansTried
      BY <2>1, PendingIs DEF Counted, FlushMeansTried
    <2> QED
      BY <2>2, <2>3 DEF QueueAccounted
  <1> QED
    BY <1>1, ClientAlways, PTL

\* What reaches the server is in the program's order, and an outcome is put on a
\* failure that is there before it: on the one the program meant, as long as none
\* of the operation's was lost (_fingerprint_for looks when it sends).
THEOREM OutcomesAreOnTheirFailures ==
  ReportingSpec => []OutcomesOnTheirFailures
  <1>1. ClientInv => OutcomesOnTheirFailures
    <2> SUFFICES ASSUME ClientInv PROVE OutcomesOnTheirFailures
      OBVIOUS
    <2>1. DOMAIN server = 1 .. Len(server)
      BY AppendIs DEF ClientInv, Types
    <2>2. SentInOrder
      BY <2>1 DEF ClientInv, Sent, SentInOrder
    <2>3. OutcomeAfterFailure
      BY <2>1 DEF ClientInv, RightlyTold, OutcomeAfterFailure
    <2>4. OutcomeOnItsFailure
      BY <2>1 DEF ClientInv, RightlyTold, OutcomeOnItsFailure
    <2> QED
      BY <2>2, <2>3, <2>4 DEF OutcomesOnTheirFailures
  <1> QED
    BY <1>1, ClientAlways, PTL

-----------------------------------------------------------------------------
(* Zero-code reporting: where a failure may be.                            *)

Watcher == [pc : {"idle", "calling", "infer", "file", "remember", "scan",
                  "evict", "store", "record"},
            call : Nat, result : Results, now : Nat, previous : Nat,
            gap : Int, size : Nat]

WatchTypes ==
  /\ clock \in Nat
  /\ IsSeq(calls) /\ IsSeq(log)
  /\ \A c \in 1 .. Len(calls) :
       /\ calls[c] \in [url : Urls, started : Nat, ended : Int]
       /\ calls[c].started <= clock
  /\ watched \in [Threads -> Watcher]
  /\ IsFiniteSet(DOMAIN _pending)

Ended(c) == c \in 1 .. Len(calls) /\ calls[c].ended >= calls[c].started

\* Every thread has a call of its own; it ends when it leaves "calling".
OwnCalls ==
  /\ \A t \in Threads : watched[t].pc # "idle" => watched[t].call \in 1 .. Len(calls)
  /\ \A t, u \in Threads :
       t # u /\ watched[t].pc # "idle" /\ watched[u].pc # "idle"
         => watched[t].call # watched[u].call
  /\ \A t \in Threads : watched[t].pc = "calling" => calls[watched[t].call].ended = -1
  /\ \A t \in Threads : watched[t].pc \notin {"idle", "calling"} =>
       Ended(watched[t].call) /\ calls[watched[t].call].ended = watched[t].now

\* The three places of a failure that may be recovered from.
Pended(f) == \E k \in DOMAIN _pending : _pending[k].call = f

HeldBy(t, f) == watched[t].pc = "file" /\ watched[t].previous = f /\ f # NoFailure

FiledAt(i, f) == log[i].kind = "outcome" /\ log[i].failure = f

Filed(f) == \E i \in 1 .. Len(log) : FiledAt(i, f)

\* It is at one of them, once; and not before its call is stored.
AtOnePlace ==
  /\ \A f : Pended(f) => ~Filed(f)
  /\ \A t \in Threads : \A f : HeldBy(t, f) =>
       ~Pended(f) /\ ~Filed(f) /\ \A u \in Threads : HeldBy(u, f) => u = t
  /\ \A f : \A i, j \in 1 .. Len(log) : FiledAt(i, f) /\ FiledAt(j, f) => i = j
  /\ \A t \in Threads :
       watched[t].pc \in {"infer", "file", "remember", "scan", "evict", "store"} =>
         /\ ~Pended(watched[t].call) /\ ~Filed(watched[t].call)
         /\ \A u \in Threads : ~HeldBy(u, watched[t].call)

\* What is known of it there.
Recoverable(c, f) ==
  /\ Ended(c) /\ Ended(f)
  /\ calls[c].url.path = calls[f].url.path
  /\ calls[c].ended - calls[f].ended <= Window

WellKept ==
  /\ \A k \in DOMAIN _pending : LET f == _pending[k].call IN
       Ended(f) /\ calls[f].url.path = k /\ calls[f].ended = _pending[k].when
  /\ \A t \in Threads : LET f == watched[t].previous IN
       HeldBy(t, f) => /\ Recoverable(watched[t].call, f)
                       /\ watched[t].gap = watched[t].now - calls[f].ended
  /\ \A i \in 1 .. Len(log) : LET o == log[i] IN
       o.kind = "outcome" => /\ Recoverable(o.call, o.failure)
                             /\ o.action = "retry" =>
                                  calls[o.call].ended - calls[o.failure].ended < BackoffGap

WatchInv == WatchTypes /\ OwnCalls /\ AtOnePlace /\ WellKept

-----------------------------------------------------------------------------
(* Zero-code reporting: what a step leaves as it is.                       *)

Unstored == {"infer", "file", "remember", "scan", "evict", "store"}

LEMMA MovesOn ==
  ASSUME WatchInv, NEW t \in Threads, NEW x \in Watcher,
         watched' = [watched EXCEPT ![t] = x], calls' = calls,
         watched[t].pc \notin {"idle", "calling"}, x.pc # "calling",
         x.call = watched[t].call, x.now = watched[t].now
  PROVE  /\ watched' \in [Threads -> Watcher] /\ OwnCalls'
         /\ watched'[t] = x /\ \A u \in Threads \ {t} : watched'[u] = watched[u]
  <1>1. watched \in [Threads -> Watcher]
    BY DEF WatchInv, WatchTypes
  <1>2. /\ watched' \in [Threads -> Watcher]
        /\ watched'[t] = x /\ \A u \in Threads \ {t} : watched'[u] = watched[u]
    BY <1>1
  <1>3. \A u \in Threads : /\ watched'[u].call = watched[u].call
                           /\ watched'[u].now = watched[u].now
                           /\ watched'[u].pc # "idle" => watched[u].pc # "idle"
                           /\ watched'[u].pc = "calling" <=> watched[u].pc = "calling"
    BY <1>2
  <1>4. OwnCalls'
    BY <1>3 DEF WatchInv, OwnCalls, Ended
  <1> QED
    BY <1>2, <1>4

LEMMA PlacesKept ==
  ASSUME AtOnePlace,
         \A f : Pended(f)' => Pended(f),
         \A f : Filed(f)' => Filed(f),
         \A f : \A i \in 1 .. Len(log') : FiledAt(i, f)' => i \in 1 .. Len(log) /\ FiledAt(i, f),
         \A u \in Threads : \A f : HeldBy(u, f)' => HeldBy(u, f),
         \A u \in Threads : watched'[u].pc \in Unstored =>
           watched[u].pc \in Unstored /\ watched'[u].call = watched[u].call
  PROVE  AtOnePlace'
  <1>1. \A f : Pended(f)' => ~Filed(f)'
    BY DEF AtOnePlace
  <1>2. \A u \in Threads : \A f : HeldBy(u, f)' =>
          ~Pended(f)' /\ ~Filed(f)' /\ \A v \in Threads : HeldBy(v, f)' => v = u
    BY DEF AtOnePlace
  <1>3. \A f : \A i, j \in 1 .. Len(log') : FiledAt(i, f)' /\ FiledAt(j, f)' => i = j
    BY DEF AtOnePlace
  <1>4. ASSUME NEW u \in Threads, watched'[u].pc \in Unstored, NEW c, c = watched'[u].call
        PROVE  ~Pended(c)' /\ ~Filed(c)' /\ \A v \in Threads : ~HeldBy(v, c)'
    <2>1. watched[u].pc \in Unstored /\ c = watched[u].call
      BY <1>4
    <2>2. ~Pended(c) /\ ~Filed(c) /\ \A v \in Threads : ~HeldBy(v, c)
      BY <2>1 DEF AtOnePlace, Unstored
    <2> QED
      BY <2>2
  <1> QED
    BY <1>1, <1>2, <1>3, <1>4 DEF AtOnePlace, Unstored

LEMMA KeptWell ==
  ASSUME WellKept,
         \A c : Ended(c) => Ended(c)' /\ calls'[c] = calls[c],
         \A k \in DOMAIN _pending' : k \in DOMAIN _pending /\ _pending'[k] = _pending[k],
         \A u \in Threads : \A f : HeldBy(u, f)' => HeldBy(u, f) /\ watched'[u] = watched[u],
         \A i \in 1 .. Len(log') :
           log'[i].kind = "outcome" => i \in 1 .. Len(log) /\ log'[i] = log[i]
  PROVE  WellKept'
  <1>1. \A c, f : Recoverable(c, f) => Recoverable(c, f)'
    BY DEF Recoverable
  <1>2. ASSUME NEW k \in DOMAIN _pending', NEW f, f = _pending'[k].call
        PROVE  Ended(f)' /\ calls'[f].url.path = k /\ calls'[f].ended = _pending'[k].when
    BY <1>2 DEF WellKept
  <1>3. ASSUME NEW u \in Threads, NEW f, f = watched'[u].previous, HeldBy(u, f)'
        PROVE  /\ Recoverable(watched[u].call, f)'
               /\ watched'[u].gap = watched'[u].now - calls'[f].ended
    <2>1. /\ HeldBy(u, f) /\ watched'[u] = watched[u]
      BY <1>3
    <2>2. /\ Recoverable(watched[u].call, f) /\ watched[u].gap = watched[u].now - calls[f].ended
      BY <1>3, <2>1 DEF WellKept
    <2>3. calls'[f] = calls[f]
      BY <2>2 DEF Recoverable
    <2> QED
      BY <1>1, <2>1, <2>2, <2>3 DEF Recoverable, Ended
  <1>4. ASSUME NEW i \in 1 .. Len(log'), NEW o, o = log'[i], o.kind = "outcome"
        PROVE  /\ Recoverable(o.call, o.failure)'
               /\ o.action = "retry" =>
                    calls'[o.call].ended - calls'[o.failure].ended < BackoffGap
    <2>1. /\ Recoverable(o.call, o.failure)
          /\ o.action = "retry" => calls[o.call].ended - calls[o.failure].ended < BackoffGap
      BY <1>4 DEF WellKept
    <2>2. calls'[o.call] = calls[o.call] /\ calls'[o.failure] = calls[o.failure]
      BY <2>1 DEF Recoverable
    <2> QED
      BY <1>1, <2>1, <2>2 DEF Recoverable, Ended
  <1> QED
    BY <1>2, <1>3, <1>4 DEF WellKept

-----------------------------------------------------------------------------
(* Zero-code reporting: the steps.                                         *)

LEMMA TickStep ==
  ASSUME WatchInv, _pending' = _pending, watched' = watched, log' = log, calls' = calls,
         clock' \in Nat, clock' >= clock
  PROVE  WatchInv'
  <1>1. WatchTypes'
    <2>1. \A c \in 1 .. Len(calls) :
            /\ calls[c] \in [url : Urls, started : Nat, ended : Int]
            /\ calls[c].started <= clock /\ calls[c].started \in Nat /\ clock \in Nat
      BY DEF WatchInv, WatchTypes
    <2>2. \A c \in 1 .. Len(calls) : calls[c].started <= clock'
      BY <2>1
    <2> QED
      BY <2>1, <2>2 DEF WatchInv, WatchTypes
  <1>2. OwnCalls'
    BY DEF WatchInv, OwnCalls, Ended
  <1>3. AtOnePlace'
    BY DEF WatchInv, AtOnePlace, Pended, Filed, FiledAt, HeldBy
  <1>4. WellKept'
    BY DEF WatchInv, WellKept, Recoverable, Ended, HeldBy
  <1> QED
    BY <1>1, <1>2, <1>3, <1>4 DEF WatchInv

LEMMA StartStep ==
  ASSUME WatchInv, NEW t \in Threads, StartCall(t)
  PROVE  WatchInv'
  <1>1. PICK u \in Urls : calls' = Append(calls, [url |-> u, started |-> clock, ended |-> -1])
    BY Zenon DEF StartCall
  <1>2. /\ watched[t].pc = "idle"
        /\ watched' = [watched EXCEPT ![t] = [Idle EXCEPT !.pc = "calling", !.call = Len(calls) + 1]]
        /\ clock' = clock /\ _pending' = _pending /\ log' = log
    BY DEF StartCall
  <1>3. WatchTypes /\ OwnCalls /\ AtOnePlace /\ WellKept
    BY DEF WatchInv
  <1> DEFINE new == [url |-> u, started |-> clock, ended |-> -1]
             n == Len(calls) + 1
  <1>4. /\ IsSeq(calls') /\ Len(calls) \in Nat /\ Len(calls') = n
        /\ \A c \in 1 .. Len(calls) : calls'[c] = calls[c]
        /\ calls'[n] = new
    BY <1>1, <1>3, AppendIs DEF WatchTypes
  <1>5. /\ new \in [url : Urls, started : Nat, ended : Int] /\ new.started <= clock
        /\ new.ended = -1
    BY <1>3 DEF WatchTypes
  <1> HIDE DEF new
  <1>6. /\ watched' \in [Threads -> Watcher]
        /\ watched'[t].pc = "calling" /\ watched'[t].call = n
        /\ \A v \in Threads \ {t} : watched'[v] = watched[v]
    <2>1. [Idle EXCEPT !.pc = "calling", !.call = n] \in Watcher
      <3>1. Idle \in Watcher
        BY DEF Idle, Watcher, Results, NoFailure
      <3>2. n \in Nat
        BY <1>4
      <3> HIDE DEF n
      <3> QED
        BY <3>1, <3>2 DEF Watcher
    <2> QED
      BY <1>2, <1>3, <2>1 DEF WatchTypes, Watcher, Idle
  <1>7. \A c \in 1 .. n : c = n \/ c \in 1 .. Len(calls)
    BY <1>4
  <1> HIDE DEF n
  <1>8. WatchTypes'
    BY <1>2, <1>3, <1>4, <1>5, <1>6, <1>7 DEF WatchTypes
  <1>9. n \in 1 .. n /\ n \notin 1 .. Len(calls) /\ 1 .. Len(calls) \subseteq 1 .. n
    BY <1>4 DEF n
  <1>10. \A c : Ended(c) => Ended(c)' /\ calls'[c] = calls[c]
    BY <1>4, <1>9 DEF Ended
  <1>11. OwnCalls'
    BY <1>3, <1>4, <1>5, <1>6, <1>9, <1>10 DEF OwnCalls, Ended
  <1>12. \A v \in Threads : \A f : HeldBy(v, f)' => HeldBy(v, f) /\ watched'[v] = watched[v]
    BY <1>6 DEF HeldBy
  <1>13. AtOnePlace'
    <2>1. \A v \in Threads : watched'[v].pc \in Unstored =>
            watched[v].pc \in Unstored /\ watched'[v].call = watched[v].call
      BY <1>6 DEF Unstored
    <2>2. /\ \A f : Pended(f)' => Pended(f)
          /\ \A f : Filed(f)' => Filed(f)
          /\ \A f : \A i \in 1 .. Len(log') : FiledAt(i, f)' => i \in 1 .. Len(log) /\ FiledAt(i, f)
      BY <1>2 DEF Pended, Filed, FiledAt
    <2> QED
      BY <1>3, <1>12, <2>1, <2>2, PlacesKept
  <1>14. WellKept'
    BY <1>2, <1>3, <1>10, <1>12, KeptWell
  <1> QED
    BY <1>8, <1>11, <1>13, <1>14 DEF WatchInv

LEMMA EndStep ==
  ASSUME WatchInv, NEW t \in Threads, EndCall(t)
  PROVE  WatchInv'
  <1>1. PICK r \in Results :
          watched' = [watched EXCEPT ![t] = [@ EXCEPT !.pc = "infer", !.result = r, !.now = clock]]
    BY Zenon DEF EndCall
  <1>16. PICK c : c = watched[t].call
    OBVIOUS
  <1>2. /\ watched[t].pc = "calling"
        /\ calls' = [calls EXCEPT ![c].ended = clock]
        /\ clock' = clock /\ _pending' = _pending /\ log' = log
    BY <1>16 DEF EndCall
  <1>3. WatchTypes /\ OwnCalls /\ AtOnePlace /\ WellKept
    BY DEF WatchInv
  <1>4. /\ c \in 1 .. Len(calls) /\ calls[c].ended = -1
        /\ \A u \in Threads : u # t /\ watched[u].pc # "idle" => watched[u].call # c
    BY <1>2, <1>3, <1>16 DEF OwnCalls
  <1>5. /\ watched \in [Threads -> Watcher] /\ watched' \in [Threads -> Watcher]
        /\ watched'[t].pc = "infer" /\ watched'[t].call = c /\ watched'[t].now = clock
        /\ \A v \in Threads \ {t} : watched'[v] = watched[v]
    BY <1>1, <1>3, <1>16 DEF WatchTypes, Watcher
  <1>6. /\ IsSeq(calls') /\ Len(calls') = Len(calls)
        /\ \A d \in 1 .. Len(calls) : d # c => calls'[d] = calls[d]
        /\ calls'[c] = [calls[c] EXCEPT !.ended = clock]
    <2>1. PICK S : calls \in Seq(S)
      BY <1>3 DEF WatchTypes, IsSeq
    <2> DEFINE T == S \cup {[calls[c] EXCEPT !.ended = clock]}
    <2>2. calls \in Seq(T) /\ [calls[c] EXCEPT !.ended = clock] \in T
      BY <2>1
    <2> HIDE DEF T
    <2>3. calls' \in Seq(T) /\ Len(calls') = Len(calls)
      BY <1>2, <1>4, <2>2
    <2> QED
      BY <1>2, <1>4, <2>2, <2>3 DEF IsSeq
  <1>7. /\ calls'[c] \in [url : Urls, started : Nat, ended : Int]
        /\ calls'[c].started <= clock /\ calls'[c].ended = clock /\ clock \in Nat
    <2>1. /\ calls[c] \in [url : Urls, started : Nat, ended : Int] /\ clock \in Nat
          /\ calls[c].started <= clock
      BY <1>3, <1>4 DEF WatchTypes
    <2> QED
      BY <1>6, <2>1
  <1>8. WatchTypes'
    <2>1. \A d \in 1 .. Len(calls') :
            /\ calls'[d] \in [url : Urls, started : Nat, ended : Int]
            /\ calls'[d].started <= clock
      BY <1>3, <1>6, <1>7 DEF WatchTypes
    <2> QED
      BY <1>2, <1>3, <1>5, <1>6, <2>1 DEF WatchTypes
  <1>9. \A d : Ended(d) => Ended(d)' /\ calls'[d] = calls[d] /\ d # c
    <2>1. ~Ended(c)
      <3>1. calls[c].started \in Nat
        BY <1>3, <1>4 DEF WatchTypes
      <3> QED
        BY <1>4, <3>1 DEF Ended
    <2> QED
      BY <1>6, <2>1 DEF Ended
  <1>10. Ended(c)'
    BY <1>4, <1>6, <1>7 DEF Ended
  <1>11. OwnCalls'
    <2>1. ASSUME NEW u \in Threads, watched'[u].pc = "calling"
          PROVE  calls'[watched'[u].call].ended = -1
      <3>1. u # t /\ watched'[u] = watched[u]
        BY <1>5, <2>1
      <3>2. watched[u].call # c /\ watched[u].call \in 1 .. Len(calls)
        BY <1>3, <1>4, <2>1, <3>1 DEF OwnCalls
      <3> QED
        BY <1>3, <1>6, <2>1, <3>1, <3>2 DEF OwnCalls
    <2>2. ASSUME NEW u \in Threads, NEW d, d = watched'[u].call,
                 watched'[u].pc \notin {"idle", "calling"}
          PROVE  Ended(d)' /\ calls'[d].ended = watched'[u].now
      <3>1. CASE u = t
        BY <1>5, <1>7, <1>10, <2>2, <3>1
      <3>2. CASE u # t
        BY <1>3, <1>5, <1>9, <2>2, <3>2 DEF OwnCalls
      <3> QED
        BY <3>1, <3>2
    <2>3. \A u \in Threads : /\ watched'[u].call = watched[u].call
                             /\ watched'[u].pc # "idle" => watched[u].pc # "idle"
      BY <1>2, <1>5, <1>16
    <2> QED
      BY <1>3, <1>6, <2>1, <2>2, <2>3 DEF OwnCalls
  <1>12. \A v \in Threads : \A f : HeldBy(v, f)' => HeldBy(v, f) /\ watched'[v] = watched[v]
    BY <1>5 DEF HeldBy
  <1>13. WellKept'
    BY <1>2, <1>3, <1>9, <1>12, KeptWell
  <1>14. /\ \A f : Pended(f)' => Pended(f)
         /\ \A f : Filed(f)' => Filed(f)
         /\ \A f : \A i \in 1 .. Len(log') : FiledAt(i, f)' => i \in 1 .. Len(log) /\ FiledAt(i, f)
    BY <1>2 DEF Pended, Filed, FiledAt
  <1>15. AtOnePlace'
    <2>1. ~Pended(c)' /\ ~Filed(c)' /\ \A v \in Threads : ~HeldBy(v, c)'
      <3>1. ~Pended(c)
        BY <1>3, <1>9 DEF Pended, WellKept
      <3>2. ~Filed(c)
        BY <1>3, <1>9 DEF Filed, FiledAt, WellKept, Recoverable
      <3>3. \A v \in Threads : ~HeldBy(v, c)
        BY <1>3, <1>9 DEF HeldBy, WellKept, Recoverable
      <3> QED
        BY <1>12, <1>14, <3>1, <3>2, <3>3
    <2>2. \A v \in Threads : watched'[v].pc \in Unstored =>
            \/ watched'[v].call = c
            \/ watched[v].pc \in Unstored /\ watched'[v].call = watched[v].call
      BY <1>5
    <2>3. ASSUME NEW u \in Threads, watched'[u].pc \in Unstored, NEW d, d = watched'[u].call
          PROVE  ~Pended(d)' /\ ~Filed(d)' /\ \A v \in Threads : ~HeldBy(v, d)'
      <3>1. CASE d = c
        BY <2>1, <3>1
      <3>2. CASE watched[u].pc \in Unstored /\ d = watched[u].call
        BY <1>3, <1>12, <1>14, <3>2 DEF AtOnePlace, Unstored
      <3> QED
        BY <2>2, <2>3, <3>1, <3>2
    <2>4. \A f : Pended(f)' => ~Filed(f)'
      BY <1>3, <1>14 DEF AtOnePlace
    <2>5. \A u \in Threads : \A f : HeldBy(u, f)' =>
            ~Pended(f)' /\ ~Filed(f)' /\ \A v \in Threads : HeldBy(v, f)' => v = u
      BY <1>3, <1>12, <1>14 DEF AtOnePlace
    <2>6. \A f : \A i, j \in 1 .. Len(log') : FiledAt(i, f)' /\ FiledAt(j, f)' => i = j
      BY <1>3, <1>14 DEF AtOnePlace
    <2> QED
      BY <2>3, <2>4, <2>5, <2>6 DEF AtOnePlace, Unstored
  <1> QED
    BY <1>8, <1>11, <1>13, <1>15 DEF WatchInv

\* A thread goes on; what is pending only gets less, and no outcome is filed.
LEMMA QuietStep ==
  ASSUME WatchInv, NEW t \in Threads, NEW x \in Watcher,
         watched' = [watched EXCEPT ![t] = x], calls' = calls, clock' = clock,
         watched[t].pc \notin {"idle", "calling"}, x.pc \notin {"calling", "file"},
         x.call = watched[t].call, x.now = watched[t].now,
         x.pc \in Unstored => watched[t].pc \in Unstored,
         \A k \in DOMAIN _pending' : k \in DOMAIN _pending /\ _pending'[k] = _pending[k],
         IsSeq(log'),
         \A i \in 1 .. Len(log') :
           log'[i].kind = "outcome" => i \in 1 .. Len(log) /\ log'[i] = log[i]
  PROVE  WatchInv'
  <1>1. WatchTypes /\ OwnCalls /\ AtOnePlace /\ WellKept
    BY DEF WatchInv
  <1>2. /\ watched' \in [Threads -> Watcher] /\ OwnCalls'
        /\ watched'[t] = x /\ \A u \in Threads \ {t} : watched'[u] = watched[u]
    BY MovesOn
  <1>3. IsFiniteSet(DOMAIN _pending')
    <2>1. DOMAIN _pending' \subseteq DOMAIN _pending
      OBVIOUS
    <2> QED
      BY <1>1, <2>1, FS_Subset DEF WatchTypes
  <1>4. WatchTypes'
    BY <1>1, <1>2, <1>3 DEF WatchTypes
  <1>5. \A u \in Threads : \A f : HeldBy(u, f)' => HeldBy(u, f) /\ watched'[u] = watched[u]
    BY <1>2 DEF HeldBy
  <1>6. WellKept'
    <2>1. \A c : Ended(c) => Ended(c)' /\ calls'[c] = calls[c]
      BY DEF Ended
    <2> QED
      BY <1>1, <1>5, <2>1, KeptWell
  <1>7. AtOnePlace'
    <2>1. \A u \in Threads : watched'[u].pc \in Unstored =>
            watched[u].pc \in Unstored /\ watched'[u].call = watched[u].call
      BY <1>2
    <2>2. \A f : Pended(f)' => Pended(f)
      BY DEF Pended
    <2>3. \A f : \A i \in 1 .. Len(log') : FiledAt(i, f)' => i \in 1 .. Len(log) /\ FiledAt(i, f)
      BY DEF FiledAt
    <2>4. \A f : Filed(f)' => Filed(f)
      BY <2>3 DEF Filed
    <2> QED
      BY <1>1, <1>5, <2>1, <2>2, <2>3, <2>4, PlacesKept
  <1> QED
    BY <1>1, <1>2, <1>4, <1>6, <1>7 DEF WatchInv

LEMMA RoomStep ==
  ASSUME WatchInv, NEW t \in Threads,
         CheckRoom(t) \/ ScanOldest(t) \/ Evict(t) \/ Record(t)
  PROVE  WatchInv'
  <1>1. WatchTypes /\ WellKept /\ watched[t] \in Watcher
    BY DEF WatchInv, WatchTypes
  <1>2. /\ clock' = clock /\ calls' = calls
        /\ watched[t].pc \in {"remember", "scan", "evict", "record"}
        /\ IsSeq(log)
    <2>1. CASE CheckRoom(t)
      BY <1>1, <2>1, Zenon DEF CheckRoom, WatchTypes
    <2>2. CASE ScanOldest(t)
      BY <1>1, <2>2, Zenon DEF ScanOldest, WatchTypes
    <2>3. CASE Evict(t)
      BY <1>1, <2>3, Zenon DEF Evict, WatchTypes
    <2>4. CASE Record(t)
      BY <1>1, <2>4, Zenon DEF Record, WatchTypes
    <2> QED
      BY <2>1, <2>2, <2>3, <2>4
  <1>3. CASE CheckRoom(t)
    <2>1. Cardinality(DOMAIN _pending) \in Nat
      BY <1>1, FS_CardinalityType DEF WatchTypes
    <2> DEFINE x == [watched[t] EXCEPT !.pc = IF HasRoom THEN "store" ELSE "scan",
                                       !.size = Cardinality(DOMAIN _pending)]
    <2>2. /\ x \in Watcher /\ x.pc \in {"store", "scan"}
          /\ x.call = watched[t].call /\ x.now = watched[t].now
      BY <1>1, <2>1 DEF Watcher
    <2>3. /\ watched' = [watched EXCEPT ![t] = x] /\ _pending' = _pending /\ log' = log
          /\ watched[t].pc = "remember"
      BY <1>3 DEF CheckRoom
    <2> HIDE DEF x
    <2> QED
      BY <1>2, <2>2, <2>3, QuietStep DEF Unstored
  <1>4. CASE ScanOldest(t)
    <2>1. /\ _pending' = _pending /\ log' = log /\ watched[t].pc = "scan"
      BY <1>4, Zenon DEF ScanOldest
    <2>2. PICK x \in Watcher : /\ watched' = [watched EXCEPT ![t] = x] /\ x.pc \in {"evict", "idle"}
                               /\ x.call = watched[t].call /\ x.now = watched[t].now
      <3>1. CASE \E k \in DOMAIN _pending :
                   watched' = [watched EXCEPT ![t] = [@ EXCEPT !.pc = "evict",
                                                               !.previous = _pending[k].call]]
        <4>1. PICK k \in DOMAIN _pending :
                   watched' = [watched EXCEPT ![t] = [@ EXCEPT !.pc = "evict",
                                                               !.previous = _pending[k].call]]
          BY <3>1, Zenon
        <4>2. _pending[k].call \in Nat
          <5>1. _pending[k].call \in 1 .. Len(calls) /\ Len(calls) \in Nat
            BY <1>1, AppendIs DEF WellKept, Ended, WatchTypes
          <5> QED
            BY <5>1
        <4> DEFINE x == [watched[t] EXCEPT !.pc = "evict", !.previous = _pending[k].call]
        <4>3. /\ x \in Watcher /\ x.pc = "evict"
              /\ x.call = watched[t].call /\ x.now = watched[t].now
          BY <1>1, <4>2 DEF Watcher
        <4>4. watched' = [watched EXCEPT ![t] = x]
          BY <4>1
        <4> HIDE DEF x
        <4> QED
          BY <4>3, <4>4
      <3>2. CASE Goto(t, "idle")
        <4> DEFINE x == [watched[t] EXCEPT !.pc = "idle"]
        <4>1. /\ x \in Watcher /\ x.pc = "idle"
              /\ x.call = watched[t].call /\ x.now = watched[t].now
          BY <1>1 DEF Watcher
        <4>2. watched' = [watched EXCEPT ![t] = x]
          BY <3>2 DEF Goto
        <4> HIDE DEF x
        <4> QED
          BY <4>1, <4>2
      <3> QED
        BY <1>4, <3>1, <3>2, Zenon DEF ScanOldest
    <2> QED
      BY <1>2, <2>1, <2>2, QuietStep DEF Unstored
  <1>5. CASE Evict(t)
    <2> DEFINE k == UrlKey(calls[watched[t].previous].url)
               x == [watched[t] EXCEPT !.pc = IF k \in DOMAIN _pending THEN "store" ELSE "idle"]
    <2>1. /\ x \in Watcher /\ x.pc \in {"store", "idle"}
          /\ x.call = watched[t].call /\ x.now = watched[t].now
      BY <1>1 DEF Watcher
    <2>2. /\ watched' = [watched EXCEPT ![t] = x] /\ log' = log /\ watched[t].pc = "evict"
          /\ \A j \in DOMAIN _pending' : j \in DOMAIN _pending /\ _pending'[j] = _pending[j]
      BY <1>5 DEF Evict, Drop, Goto
    <2> HIDE DEF x, k
    <2> QED
      BY <1>2, <2>1, <2>2, QuietStep DEF Unstored
  <1>6. CASE Record(t)
    <2> DEFINE x == [watched[t] EXCEPT !.pc = "idle"]
               e == [kind |-> "call", call |-> watched[t].call, failed |-> watched[t].result # "ok"]
    <2>1. /\ x \in Watcher /\ x.pc = "idle"
          /\ x.call = watched[t].call /\ x.now = watched[t].now
      BY <1>1 DEF Watcher
    <2>2. /\ watched' = [watched EXCEPT ![t] = x] /\ log' = Append(log, e) /\ _pending' = _pending
      BY <1>6 DEF Record, Goto
    <2>3. e.kind = "call"
      OBVIOUS
    <2> HIDE DEF x, e
    <2>4. /\ IsSeq(log') /\ Len(log) \in Nat /\ Len(log') = Len(log) + 1
          /\ \A i \in 1 .. Len(log) : log'[i] = log[i]
          /\ log'[Len(log) + 1] = e
      BY <1>2, <2>2, AppendIs
    <2>5. \A i \in 1 .. Len(log') :
            log'[i].kind = "outcome" => i \in 1 .. Len(log) /\ log'[i] = log[i]
      BY <2>3, <2>4
    <2> QED
      BY <1>2, <2>1, <2>2, <2>4, <2>5, QuietStep DEF Unstored
  <1> QED
    BY <1>3, <1>4, <1>5, <1>6

LEMMA PreviousIs ==
  ASSUME WatchInv, NEW t \in Threads, watched[t].pc = "infer"
  PROVE  /\ Previous(t).call \in Nat /\ Previous(t).gap \in Int
         /\ Previous(t).call # NoFailure =>
              /\ KeyOf(t) \in DOMAIN _pending
              /\ Previous(t).call = _pending[KeyOf(t)].call
              /\ Previous(t).gap = watched[t].now - _pending[KeyOf(t)].when
              /\ Previous(t).gap <= Window
  <1>1. CASE KeyOf(t) \in DOMAIN _pending /\ watched[t].now - _pending[KeyOf(t)].when <= Window
    <2> DEFINE f == _pending[KeyOf(t)]
    <2>1. /\ f.call \in 1 .. Len(calls) /\ Len(calls) \in Nat /\ f.when = calls[f.call].ended
          /\ calls[f.call] \in [url : Urls, started : Nat, ended : Int]
          /\ watched[t] \in Watcher
      BY <1>1, AppendIs DEF WatchInv, WellKept, WatchTypes, Ended
    <2>2. f.when \in Int /\ f.call \in Nat /\ watched[t].now \in Int
      BY <2>1 DEF Watcher
    <2>3. Previous(t) = [call |-> f.call, gap |-> watched[t].now - f.when]
      BY <1>1 DEF Previous
    <2> HIDE DEF f
    <2>4. Previous(t).call = f.call /\ Previous(t).gap = watched[t].now - f.when
      BY <2>3
    <2>5. watched[t].now - f.when \in Int
      BY <2>2
    <2> QED
      BY <1>1, <2>2, <2>4, <2>5 DEF f
  <1>2. CASE ~(KeyOf(t) \in DOMAIN _pending /\ watched[t].now - _pending[KeyOf(t)].when <= Window)
    <2>1. Previous(t) = [call |-> NoFailure, gap |-> 0]
      BY <1>2 DEF Previous
    <2> QED
      BY <2>1 DEF NoFailure
  <1> QED
    BY <1>1, <1>2

LEMMA PopStep ==
  ASSUME WatchInv, NEW t \in Threads, PopPending(t)
  PROVE  WatchInv'
  <1>1. PICK p, g, k : p = Previous(t).call /\ g = Previous(t).gap /\ k = KeyOf(t)
    OBVIOUS
  <1>2. /\ watched[t].pc = "infer" /\ calls' = calls /\ clock' = clock /\ log' = log
        /\ watched' = [watched EXCEPT ![t] = [@ EXCEPT !.pc = "file", !.previous = p, !.gap = g]]
        /\ _pending' = [j \in DOMAIN _pending \ {k} |-> _pending[j]]
    BY <1>1 DEF PopPending, HoldPrevious, Drop
  <1>3. WatchTypes /\ OwnCalls /\ AtOnePlace /\ WellKept /\ watched[t] \in Watcher
    BY DEF WatchInv, WatchTypes
  <1>4. /\ p \in Nat /\ g \in Int
        /\ p # NoFailure => /\ k \in DOMAIN _pending /\ p = _pending[k].call
                            /\ g = watched[t].now - _pending[k].when /\ g <= Window
    BY <1>1, <1>2, PreviousIs
  <1>5. PICK x : x = [watched[t] EXCEPT !.pc = "file", !.previous = p, !.gap = g]
    OBVIOUS
  <1>6. /\ x \in Watcher /\ x.pc = "file" /\ x.previous = p /\ x.gap = g
        /\ x.call = watched[t].call /\ x.now = watched[t].now
    BY <1>3, <1>4, <1>5 DEF Watcher
  <1>7. /\ watched' \in [Threads -> Watcher] /\ OwnCalls'
        /\ watched'[t] = x /\ \A u \in Threads \ {t} : watched'[u] = watched[u]
    <2>1. watched' = [watched EXCEPT ![t] = x]
      BY <1>2, <1>5
    <2> QED
      BY <1>2, <1>6, <2>1, MovesOn
  <1>8. \A j \in DOMAIN _pending' : j # k /\ j \in DOMAIN _pending /\ _pending'[j] = _pending[j]
    BY <1>2
  <1>9. WatchTypes'
    <2>1. IsFiniteSet(DOMAIN _pending')
      <3>1. DOMAIN _pending' \subseteq DOMAIN _pending
        BY <1>8
      <3> QED
        BY <1>3, <3>1, FS_Subset DEF WatchTypes
    <2> QED
      BY <1>2, <1>3, <1>7, <2>1 DEF WatchTypes
  <1>10. \A u \in Threads : \A f : HeldBy(u, f)' =>
           \/ u # t /\ HeldBy(u, f) /\ watched'[u] = watched[u]
           \/ u = t /\ f = p /\ p # NoFailure
    BY <1>6, <1>7 DEF HeldBy
  <1>11. p # NoFailure => Pended(p)
    BY <1>4 DEF Pended
  <1>12. \A f : Pended(f)' => Pended(f) /\ f # p
    <2>1. ASSUME NEW j \in DOMAIN _pending', NEW f, f = _pending'[j].call
          PROVE  Pended(f) /\ f # p
      <3>1. j # k /\ j \in DOMAIN _pending /\ f = _pending[j].call
        BY <1>8, <2>1
      <3>2. Pended(f)
        BY <3>1 DEF Pended
      <3>3. calls[f].url.path = j /\ Ended(f)
        BY <1>3, <3>1 DEF WellKept
      <3>4. ASSUME f = p PROVE FALSE
        <4>1. p # NoFailure
          <5>1. f \in 1 .. Len(calls)
            BY <3>3 DEF Ended
          <5> QED
            BY <3>4, <5>1 DEF NoFailure
        <4>2. k \in DOMAIN _pending /\ p = _pending[k].call
          BY <1>4, <4>1
        <4>3. calls[p].url.path = k
          BY <1>3, <4>2 DEF WellKept
        <4> QED
          BY <3>1, <3>3, <3>4, <4>3
      <3> QED
        BY <3>2, <3>4
    <2> QED
      BY <2>1 DEF Pended
  <1>13. /\ \A f : Filed(f)' <=> Filed(f)
         /\ \A f : \A i \in 1 .. Len(log) : FiledAt(i, f)' <=> FiledAt(i, f)
    BY <1>2 DEF Filed, FiledAt
  <1>14. AtOnePlace'
    <2>1. \A f : Pended(f)' => ~Filed(f)'
      BY <1>3, <1>12, <1>13 DEF AtOnePlace
    <2>2. ASSUME NEW u \in Threads, NEW f, HeldBy(u, f)'
          PROVE  ~Pended(f)' /\ ~Filed(f)' /\ \A v \in Threads : HeldBy(v, f)' => v = u
      <3>1. CASE u = t /\ f = p /\ p # NoFailure
        <4>1. Pended(p) /\ ~Filed(p) /\ \A v \in Threads : ~HeldBy(v, p)
          BY <1>3, <1>11, <3>1 DEF AtOnePlace
        <4> QED
          BY <1>10, <1>12, <1>13, <3>1, <4>1
      <3>2. CASE u # t /\ HeldBy(u, f)
        <4>1. ~Pended(f) /\ ~Filed(f) /\ \A v \in Threads : HeldBy(v, f) => v = u
          BY <1>3, <3>2 DEF AtOnePlace
        <4>2. ~(f = p /\ p # NoFailure)
          BY <1>11, <4>1
        <4> QED
          BY <1>10, <1>12, <1>13, <4>1, <4>2
      <3> QED
        BY <1>10, <2>2, <3>1, <3>2
    <2>3. \A f : \A i, j \in 1 .. Len(log') : FiledAt(i, f)' /\ FiledAt(j, f)' => i = j
      BY <1>2, <1>3, <1>13 DEF AtOnePlace
    <2>4. ASSUME NEW u \in Threads, watched'[u].pc \in Unstored, NEW c, c = watched'[u].call
          PROVE  ~Pended(c)' /\ ~Filed(c)' /\ \A v \in Threads : ~HeldBy(v, c)'
      <3>1. watched[u].pc \in Unstored /\ c = watched[u].call
        BY <1>2, <1>6, <1>7, <2>4 DEF Unstored
      <3>2. ~Pended(c) /\ ~Filed(c) /\ \A v \in Threads : ~HeldBy(v, c)
        BY <1>3, <3>1 DEF AtOnePlace, Unstored
      <3> QED
        BY <1>10, <1>11, <1>12, <1>13, <3>2
    <2> QED
      BY <2>1, <2>2, <2>3, <2>4 DEF AtOnePlace, Unstored
  <1>15. WellKept'
    <2>1. /\ \A c, f : Recoverable(c, f)' <=> Recoverable(c, f)
          /\ \A c : Ended(c)' <=> Ended(c)
      BY <1>2 DEF Recoverable, Ended
    <2>2. ASSUME NEW j \in DOMAIN _pending', NEW f, f = _pending'[j].call
          PROVE  Ended(f)' /\ calls'[f].url.path = j /\ calls'[f].ended = _pending'[j].when
      BY <1>2, <1>3, <1>8, <2>1, <2>2 DEF WellKept
    <2>3. ASSUME NEW u \in Threads, NEW f, f = watched'[u].previous, HeldBy(u, f)'
          PROVE  /\ Recoverable(watched[u].call, f)
                 /\ watched'[u].gap = watched'[u].now - calls[f].ended
                 /\ watched'[u].call = watched[u].call
      <3>1. CASE u # t /\ HeldBy(u, f) /\ watched'[u] = watched[u]
        BY <1>3, <2>3, <3>1 DEF WellKept
      <3>2. CASE u = t /\ f = p /\ p # NoFailure
        <4>1. /\ k \in DOMAIN _pending /\ f = _pending[k].call
              /\ g = watched[t].now - _pending[k].when /\ g <= Window
          BY <1>4, <3>2
        <4>2. Ended(f) /\ calls[f].url.path = k /\ calls[f].ended = _pending[k].when
          BY <1>3, <4>1 DEF WellKept
        <4>3. Ended(watched[t].call) /\ calls[watched[t].call].ended = watched[t].now
          BY <1>2, <1>3 DEF OwnCalls
        <4>4. k = calls[watched[t].call].url.path
          BY <1>1 DEF KeyOf, UrlKey
        <4>5. Recoverable(watched[t].call, f)
          <5>1. calls[watched[t].call].ended - calls[f].ended <= Window
            BY <4>1, <4>2, <4>3
          <5>2. calls[watched[t].call].url.path = calls[f].url.path
            BY <4>2, <4>4
          <5> QED
            BY <4>2, <4>3, <5>1, <5>2 DEF Recoverable
        <4> QED
          BY <1>6, <1>7, <3>2, <4>1, <4>2, <4>5
      <3> QED
        BY <1>10, <2>3, <3>1, <3>2
    <2>4. ASSUME NEW u \in Threads, NEW f, f = watched'[u].previous, HeldBy(u, f)'
          PROVE  /\ Recoverable(watched[u].call, f)'
                 /\ watched'[u].gap = watched'[u].now - calls'[f].ended
      BY <1>2, <2>1, <2>3, <2>4
    <2>5. ASSUME NEW i \in 1 .. Len(log'), NEW o, o = log'[i], o.kind = "outcome"
          PROVE  /\ Recoverable(o.call, o.failure)'
                 /\ o.action = "retry" =>
                      calls'[o.call].ended - calls'[o.failure].ended < BackoffGap
      BY <1>2, <1>3, <2>1, <2>5 DEF WellKept
    <2> QED
      BY <2>2, <2>4, <2>5 DEF WellKept
  <1> QED
    BY <1>7, <1>9, <1>14, <1>15 DEF WatchInv

\* A thread that holds no failure files nothing; one that does, files it.
LEMMA FileStep ==
  ASSUME WatchInv, NEW t \in Threads, FileOutcome(t)
  PROVE  WatchInv'
  <1>1. WatchTypes /\ OwnCalls /\ AtOnePlace /\ WellKept /\ watched[t] \in Watcher
    BY DEF WatchInv, WatchTypes
  <1>2. PICK x, p : /\ x = [watched[t] EXCEPT !.pc = IF watched[t].result = "transient"
                                                     THEN "remember" ELSE "record"]
                    /\ p = watched[t].previous
    OBVIOUS
  <1>3. /\ x \in Watcher /\ x.pc \in {"remember", "record"}
        /\ x.call = watched[t].call /\ x.now = watched[t].now
    BY <1>1, <1>2 DEF Watcher
  <1>4. /\ watched[t].pc = "file" /\ watched' = [watched EXCEPT ![t] = x]
        /\ calls' = calls /\ clock' = clock /\ _pending' = _pending
    BY <1>2 DEF FileOutcome, Goto
  <1>5. CASE p = NoFailure
    <2>1. log' = log
      BY <1>2, <1>5 DEF FileOutcome
    <2> QED
      BY <1>1, <1>3, <1>4, <2>1, QuietStep DEF WatchTypes, Unstored
  <1>6. CASE p # NoFailure
    <2>1. PICK c, e : /\ c = watched[t].call
                      /\ e = [kind |-> "outcome", call |-> c, failure |-> p,
                              action |-> Action(watched[t].gap),
                              successful |-> watched[t].result = "ok"]
      OBVIOUS
    <2>2. log' = Append(log, e)
      BY <1>2, <1>6, <2>1 DEF FileOutcome
    <2>3. /\ e.kind = "outcome" /\ e.call = c /\ e.failure = p
          /\ e.action = Action(watched[t].gap)
      BY <2>1
    <2>4. PICK n : n = Len(log) + 1
      OBVIOUS
    <2>5. /\ IsSeq(log') /\ Len(log) \in Nat /\ Len(log') = n
          /\ \A i \in 1 .. Len(log) : log'[i] = log[i]
          /\ log'[n] = e
          /\ \A i \in 1 .. n : i = n \/ i \in 1 .. Len(log)
          /\ n \in 1 .. n /\ n \notin 1 .. Len(log)
      BY <1>1, <2>2, <2>4, AppendIs DEF WatchTypes
    <2>6. /\ watched' \in [Threads -> Watcher] /\ OwnCalls'
          /\ watched'[t] = x /\ \A u \in Threads \ {t} : watched'[u] = watched[u]
      BY <1>3, <1>4, MovesOn
    <2>7. WatchTypes'
      BY <1>1, <1>4, <2>5, <2>6 DEF WatchTypes
    <2>8. HeldBy(t, p)
      BY <1>2, <1>4, <1>6 DEF HeldBy
    <2>9. ~Pended(p) /\ ~Filed(p) /\ \A u \in Threads : HeldBy(u, p) => u = t
      BY <1>1, <2>8 DEF AtOnePlace
    <2>10. \A u \in Threads : \A f : HeldBy(u, f)' =>
             u # t /\ HeldBy(u, f) /\ watched'[u] = watched[u] /\ f # p
      BY <1>3, <2>6, <2>9 DEF HeldBy
    <2>11. \A f : Pended(f)' <=> Pended(f)
      BY <1>4 DEF Pended
    <2>12. \A f : \A i \in 1 .. n : FiledAt(i, f)' =>
             \/ i \in 1 .. Len(log) /\ FiledAt(i, f)
             \/ i = n /\ f = p
      BY <2>3, <2>5 DEF FiledAt
    <2>13. \A f : Filed(f)' => Filed(f) \/ f = p
      BY <2>5, <2>12 DEF Filed
    <2>14. AtOnePlace'
      <3>1. \A f : Pended(f)' => ~Filed(f)'
        BY <1>1, <2>9, <2>11, <2>13 DEF AtOnePlace
      <3>2. \A u \in Threads : \A f : HeldBy(u, f)' =>
              ~Pended(f)' /\ ~Filed(f)' /\ \A v \in Threads : HeldBy(v, f)' => v = u
        BY <1>1, <2>10, <2>11, <2>13 DEF AtOnePlace
      <3>3. ASSUME NEW f, NEW i \in 1 .. n, NEW j \in 1 .. n, FiledAt(i, f)', FiledAt(j, f)'
            PROVE  i = j
        <4>1. CASE f = p
          <5>1. \A m \in 1 .. Len(log) : ~FiledAt(m, f)
            BY <2>9, <4>1 DEF Filed
          <5> QED
            BY <2>12, <3>3, <5>1
        <4>2. CASE f # p
          BY <1>1, <2>12, <3>3, <4>2 DEF AtOnePlace
        <4> QED
          BY <4>1, <4>2
      <3>4. ASSUME NEW u \in Threads, watched'[u].pc \in Unstored, NEW d, d = watched'[u].call
            PROVE  ~Pended(d)' /\ ~Filed(d)' /\ \A v \in Threads : ~HeldBy(v, d)'
        <4>1. watched[u].pc \in Unstored /\ d = watched[u].call
          BY <1>3, <1>4, <2>6, <3>4 DEF Unstored
        <4>2. ~Pended(d) /\ ~Filed(d) /\ \A v \in Threads : ~HeldBy(v, d)
          BY <1>1, <4>1 DEF AtOnePlace, Unstored
        <4> QED
          BY <2>8, <2>10, <2>11, <2>13, <4>2
      <3> QED
        BY <2>5, <3>1, <3>2, <3>3, <3>4 DEF AtOnePlace, Unstored
    <2>15. WellKept'
      <3>1. /\ \A d, f : Recoverable(d, f)' <=> Recoverable(d, f)
            /\ \A d : Ended(d)' <=> Ended(d)
        BY <1>4 DEF Recoverable, Ended
      <3>2. ASSUME NEW j \in DOMAIN _pending', NEW f, f = _pending'[j].call
            PROVE  Ended(f)' /\ calls'[f].url.path = j /\ calls'[f].ended = _pending'[j].when
        BY <1>1, <1>4, <3>1, <3>2 DEF WellKept
      <3>3. ASSUME NEW u \in Threads, NEW f, f = watched'[u].previous, HeldBy(u, f)'
            PROVE  /\ Recoverable(watched[u].call, f)'
                   /\ watched'[u].gap = watched'[u].now - calls'[f].ended
        <4>1. HeldBy(u, f) /\ watched'[u] = watched[u]
          BY <2>10, <3>3
        <4>2. /\ Recoverable(watched[u].call, f)
              /\ watched[u].gap = watched[u].now - calls[f].ended
          BY <1>1, <3>3, <4>1 DEF WellKept
        <4> QED
          BY <1>4, <3>1, <4>1, <4>2
      <3>4. ASSUME NEW i \in 1 .. Len(log'), NEW o, o = log'[i], o.kind = "outcome"
            PROVE  /\ Recoverable(o.call, o.failure)'
                   /\ o.action = "retry" =>
                        calls'[o.call].ended - calls'[o.failure].ended < BackoffGap
        <4>1. CASE i \in 1 .. Len(log)
          <5>1. o = log[i]
            BY <2>5, <3>4, <4>1
          <5> QED
            BY <1>1, <1>4, <3>1, <3>4, <4>1, <5>1 DEF WellKept
        <4>2. CASE i = n
          <5>1. /\ Recoverable(c, p)
                /\ watched[t].gap = watched[t].now - calls[p].ended
            BY <1>1, <1>2, <2>1, <2>8 DEF WellKept
          <5>2. calls[c].ended = watched[t].now
            BY <1>1, <1>4, <2>1 DEF OwnCalls
          <5>3. e.action = "retry" => watched[t].gap < BackoffGap
            <6>1. watched[t].gap \in Int /\ BackoffGap \in Int
              BY <1>1, InferAssumption DEF Watcher
            <6> QED
              BY <2>3, <6>1 DEF Action
          <5>4. e.action = "retry" => calls[c].ended - calls[p].ended < BackoffGap
            BY <5>1, <5>2, <5>3
          <5>5. o = e
            BY <2>5, <3>4, <4>2
          <5> QED
            BY <1>4, <2>3, <3>1, <5>1, <5>4, <5>5
        <4> QED
          BY <2>5, <4>1, <4>2
      <3> QED
        BY <3>2, <3>3, <3>4 DEF WellKept
    <2> QED
      BY <2>6, <2>7, <2>14, <2>15 DEF WatchInv
  <1> QED
    BY <1>5, <1>6

LEMMA StoreStep ==
  ASSUME WatchInv, NEW t \in Threads, Store(t)
  PROVE  WatchInv'
  <1>1. WatchTypes /\ OwnCalls /\ AtOnePlace /\ WellKept /\ watched[t] \in Watcher
    BY DEF WatchInv, WatchTypes
  <1>2. PICK x, c, k : /\ x = [watched[t] EXCEPT !.pc = "record"]
                       /\ c = watched[t].call /\ k = KeyOf(t)
    OBVIOUS
  <1>3. /\ x \in Watcher /\ x.pc = "record"
        /\ x.call = watched[t].call /\ x.now = watched[t].now
    BY <1>1, <1>2 DEF Watcher
  <1>4. /\ watched[t].pc = "store" /\ watched' = [watched EXCEPT ![t] = x]
        /\ calls' = calls /\ clock' = clock /\ log' = log
        /\ DOMAIN _pending' = DOMAIN _pending \cup {k}
        /\ _pending'[k].call = c /\ _pending'[k].when = watched[t].now
        /\ \A j \in DOMAIN _pending \ {k} : _pending'[j] = _pending[j]
    BY <1>2 DEF Store, Goto
  <1>5. /\ watched' \in [Threads -> Watcher] /\ OwnCalls'
        /\ watched'[t] = x /\ \A u \in Threads \ {t} : watched'[u] = watched[u]
    BY <1>3, <1>4, MovesOn
  <1>6. WatchTypes'
    <2>1. IsFiniteSet(DOMAIN _pending')
      BY <1>1, <1>4, FS_AddElement DEF WatchTypes
    <2> QED
      BY <1>1, <1>4, <1>5, <2>1 DEF WatchTypes
  <1>7. \A f : Pended(f)' => Pended(f) \/ f = c
    BY <1>4 DEF Pended
  <1>8. ~Pended(c) /\ ~Filed(c) /\ \A u \in Threads : ~HeldBy(u, c)
    BY <1>1, <1>2, <1>4 DEF AtOnePlace
  <1>9. \A u \in Threads : \A f : HeldBy(u, f)' =>
          u # t /\ HeldBy(u, f) /\ watched'[u] = watched[u] /\ f # c
    BY <1>3, <1>5, <1>8 DEF HeldBy
  <1>10. /\ \A f : Filed(f)' <=> Filed(f)
         /\ \A f : \A i \in 1 .. Len(log) : FiledAt(i, f)' <=> FiledAt(i, f)
    BY <1>4 DEF Filed, FiledAt
  <1>11. AtOnePlace'
    <2>1. \A f : Pended(f)' => ~Filed(f)'
      BY <1>1, <1>7, <1>8, <1>10 DEF AtOnePlace
    <2>2. \A u \in Threads : \A f : HeldBy(u, f)' =>
            ~Pended(f)' /\ ~Filed(f)' /\ \A v \in Threads : HeldBy(v, f)' => v = u
      BY <1>1, <1>7, <1>9, <1>10 DEF AtOnePlace
    <2>3. \A f : \A i, j \in 1 .. Len(log') : FiledAt(i, f)' /\ FiledAt(j, f)' => i = j
      BY <1>1, <1>4, <1>10 DEF AtOnePlace
    <2>4. ASSUME NEW u \in Threads, watched'[u].pc \in Unstored, NEW d, d = watched'[u].call
          PROVE  ~Pended(d)' /\ ~Filed(d)' /\ \A v \in Threads : ~HeldBy(v, d)'
      <3>1. u # t /\ watched[u].pc \in Unstored /\ d = watched[u].call
        BY <1>3, <1>5, <2>4 DEF Unstored
      <3>2. ~Pended(d) /\ ~Filed(d) /\ \A v \in Threads : ~HeldBy(v, d)
        BY <1>1, <3>1 DEF AtOnePlace, Unstored
      <3>3. d # c
        BY <1>1, <1>2, <1>4, <3>1 DEF OwnCalls, Unstored
      <3> QED
        BY <1>7, <1>9, <1>10, <3>2, <3>3
    <2> QED
      BY <2>1, <2>2, <2>3, <2>4 DEF AtOnePlace, Unstored
  <1>12. WellKept'
    <2>1. /\ \A d, f : Recoverable(d, f)' <=> Recoverable(d, f)
          /\ \A d : Ended(d)' <=> Ended(d)
      BY <1>4 DEF Recoverable, Ended
    <2>2. ASSUME NEW j \in DOMAIN _pending', NEW f, f = _pending'[j].call
          PROVE  Ended(f)' /\ calls'[f].url.path = j /\ calls'[f].ended = _pending'[j].when
      <3>1. CASE j = k
        <4>1. Ended(c) /\ calls[c].ended = watched[t].now
          BY <1>1, <1>2, <1>4 DEF OwnCalls
        <4>2. calls[c].url.path = k
          BY <1>2 DEF KeyOf, UrlKey
        <4> QED
          BY <1>4, <2>1, <2>2, <3>1, <4>1, <4>2
      <3>2. CASE j \in DOMAIN _pending \ {k}
        BY <1>1, <1>4, <2>1, <2>2, <3>2 DEF WellKept
      <3> QED
        BY <1>4, <3>1, <3>2
    <2>3. ASSUME NEW u \in Threads, NEW f, f = watched'[u].previous, HeldBy(u, f)'
          PROVE  /\ Recoverable(watched[u].call, f)'
                 /\ watched'[u].gap = watched'[u].now - calls'[f].ended
      <3>1. HeldBy(u, f) /\ watched'[u] = watched[u]
        BY <1>9, <2>3
      <3>2. /\ Recoverable(watched[u].call, f)
            /\ watched[u].gap = watched[u].now - calls[f].ended
        BY <1>1, <2>3, <3>1 DEF WellKept
      <3> QED
        BY <1>4, <2>1, <3>1, <3>2
    <2>4. ASSUME NEW i \in 1 .. Len(log'), NEW o, o = log'[i], o.kind = "outcome"
          PROVE  /\ Recoverable(o.call, o.failure)'
                 /\ o.action = "retry" =>
                      calls'[o.call].ended - calls'[o.failure].ended < BackoffGap
      BY <1>1, <1>4, <2>1, <2>4 DEF WellKept
    <2> QED
      BY <2>2, <2>3, <2>4 DEF WellKept
  <1> QED
    BY <1>5, <1>6, <1>11, <1>12 DEF WatchInv

LEMMA WatchInit ==
  ASSUME InferInit
  PROVE  WatchInv
  <1>1. /\ clock = 0 /\ _pending = [k \in {} |-> 0] /\ log = <<>> /\ calls = <<>>
        /\ watched = [t \in Threads |-> Idle]
    BY DEF InferInit
  <1>2. IsSeq(<<>>) /\ Len(<<>>) = 0
    <2>1. <<>> \in Seq({})
      OBVIOUS
    <2> QED
      BY <2>1 DEF IsSeq
  <1>3. Idle \in Watcher /\ Idle.pc = "idle"
    BY DEF Idle, Watcher, Results, NoFailure
  <1>4. DOMAIN _pending = {} /\ IsFiniteSet({})
    BY <1>1, FS_EmptySet
  <1>5. WatchTypes
    BY <1>1, <1>2, <1>3, <1>4 DEF WatchTypes
  <1>6. \A t \in Threads : watched[t].pc = "idle"
    BY <1>1, <1>3
  <1>7. OwnCalls
    BY <1>6 DEF OwnCalls
  <1>8. AtOnePlace /\ WellKept
    BY <1>1, <1>2, <1>4, <1>6 DEF AtOnePlace, WellKept, Pended, Filed, HeldBy
  <1> QED
    BY <1>5, <1>7, <1>8 DEF WatchInv

\* A failure that a later call recovers from is told of once, whatever threads call
\* its URL (_infer_outcome pops it in one step), and the outcome is about a failure
\* of the same key inside the window, a bare retry only before a backoff's gap.
THEOREM RecoveryIsInferredOnce ==
  ReportingSpec => []RecoveryInferredOnce
  <1>1. ReportingInit => WatchInv
    BY WatchInit DEF ReportingInit
  <1>2. WatchInv /\ [ReportingNext]_reportingVars => WatchInv'
    <2> SUFFICES ASSUME WatchInv, [ReportingNext]_reportingVars
                 PROVE  WatchInv'
      OBVIOUS
    <2>1. CASE UNCHANGED inferVars
      <3>1. clock \in Nat
        BY DEF WatchInv, WatchTypes
      <3> QED
        BY <2>1, <3>1, TickStep DEF inferVars
    <2>2. CASE InferNext
      <3>1. CASE Tick
        <4>1. clock \in Nat
          BY DEF WatchInv, WatchTypes
        <4> QED
          BY <3>1, <4>1, TickStep DEF Tick
      <3>2. ASSUME NEW t \in Threads,
                   \/ StartCall(t) \/ EndCall(t) \/ PopPending(t) \/ FileOutcome(t)
                   \/ CheckRoom(t) \/ ScanOldest(t) \/ Evict(t) \/ Store(t) \/ Record(t)
            PROVE  WatchInv'
        BY <3>2, StartStep, EndStep, PopStep, FileStep, RoomStep, StoreStep
      <3> QED
        BY <2>2, <3>1, <3>2 DEF InferNext
    <2> QED
      BY <2>1, <2>2 DEF ReportingNext, reportingVars
  <1>3. WatchInv => RecoveryInferredOnce
    <2> SUFFICES ASSUME WatchInv PROVE RecoveryInferredOnce
      OBVIOUS
    <2>1. DOMAIN log = 1 .. Len(log)
      BY AppendIs DEF WatchInv, WatchTypes
    <2>2. OneOutcomePerFailure
      BY <2>1 DEF WatchInv, AtOnePlace, FiledAt, OneOutcomePerFailure, Logged
    <2>3. OutcomeInsideWindow
      <3> SUFFICES ASSUME NEW i \in 1 .. Len(log), log[i].kind = "outcome",
                          NEW o, o = log[i]
                   PROVE  /\ calls[o.call].url.path = calls[o.failure].url.path
                          /\ calls[o.call].ended - calls[o.failure].ended <= Window
                          /\ o.action = "retry" =>
                               calls[o.call].started - calls[o.failure].ended < BackoffGap
        BY <2>1 DEF OutcomeInsideWindow, Outcomes, Logged
      <3>1. /\ Recoverable(o.call, o.failure)
            /\ o.action = "retry" => calls[o.call].ended - calls[o.failure].ended < BackoffGap
        BY DEF WatchInv, WellKept
      <3>2. /\ o.call \in 1 .. Len(calls) /\ o.failure \in 1 .. Len(calls)
            /\ calls[o.call].started <= calls[o.call].ended
        BY <3>1 DEF Recoverable, Ended, WatchInv, WatchTypes
      <3>3. /\ calls[o.call].started \in Int /\ calls[o.call].ended \in Int
            /\ calls[o.failure].ended \in Int /\ BackoffGap \in Int
        BY <3>2, InferAssumption DEF WatchInv, WatchTypes
      <3>4. o.action = "retry" => calls[o.call].started - calls[o.failure].ended < BackoffGap
        <4>1. PICK a, b, f : /\ a = calls[o.call].started /\ b = calls[o.call].ended
                             /\ f = calls[o.failure].ended
          OBVIOUS
        <4>2. a \in Int /\ b \in Int /\ f \in Int /\ BackoffGap \in Int /\ a <= b
          BY <3>2, <3>3, <4>1
        <4>3. b - f < BackoffGap => a - f < BackoffGap
          BY <4>2
        <4> QED
          BY <3>1, <4>1, <4>3
      <3> QED
        BY <3>1, <3>4 DEF Recoverable
    <2> QED
      BY <2>2, <2>3 DEF RecoveryInferredOnce
  <1> QED
    BY <1>1, <1>2, <1>3, PTL DEF ReportingSpec

=============================================================================
