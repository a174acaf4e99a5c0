------------------------------- MODULE JobsProofs -------------------------------
(***************************************************************************)
(* The operator's jobs, for any runs, commands, limits, providers, hosts   *)
(* and connections.  A step of Spec is one of one job and a stutter of all *)
(* the others, so each job is proved about by itself, with an inductive    *)
(* invariant of its own.                                                   *)
(***************************************************************************)
EXTENDS Jobs, Sums, FiniteSetTheorems, SequenceTheorems, TLAPS

LEMMA MachineStep ==
  ASSUME [Next]_vars
  PROVE  /\ [MirrorNext]_mirrorVars /\ [SandboxNext]_sandboxVars
         /\ [CanaryNext]_canaryVars /\ [FenceNext]_fenceVars
  <1>1. CASE Machine
    BY <1>1 DEF Machine, Mirroring, Sandboxed, Installing, Fencing
  <1>2. CASE UNCHANGED machineVars
    BY <1>2 DEF machineVars
  <1> QED
    BY <1>1, <1>2 DEF Next, vars, Tests, Lab

LEMMA LabStep ==
  ASSUME [Next]_vars
  PROVE  [OpenCodeNext]_ocVars /\ [GradingNext]_gradingVars
  <1>1. CASE Lab
    BY <1>1 DEF Lab, Checking, Scoring, Coding
  <1>2. CASE UNCHANGED labVars
    BY <1>2 DEF labVars
  <1> QED
    BY <1>1, <1>2 DEF Next, vars, Tests, Machine

LEMMA TestsStep ==
  ASSUME [Next]_vars
  PROVE  [OnboardNext]_onboardVars /\ [SetupNext]_setupVars /\ [AgentNext]_agentVars
  <1>1. CASE Tests
    BY <1>1 DEF Tests, Onboards, SettingUp, Operating
  <1>2. CASE UNCHANGED testVars
    BY <1>2 DEF testVars
  <1> QED
    BY <1>1, <1>2 DEF Next, vars, Machine, Lab

-----------------------------------------------------------------------------
(* The sandbox.  Whoever holds the lock is between its start and its end,  *)
(* and nobody else is; the VM that is up is its own.  What the guest still *)
(* has to read are the last commands asked, and what it is doing is the    *)
(* one before them, so no answer is mistaken for that of another command.  *)

Busy == {"locked", "files", "up", "waiting"}
Guests == [up : BOOLEAN, queue : Seq(Nat), doing : Nat, wedged : BOOLEAN]

SandboxTyped ==
  /\ ticks \in Nat /\ flock \in Runs \cup {Nobody} /\ overdue \in BOOLEAN
  /\ disk \in [DOMAIN disk -> Nat] /\ DOMAIN disk \subseteq Runs
  /\ run \in [Runs -> Busy \cup {"new", "over"}]
  /\ asked \in [Runs -> Nat]
  /\ guest \in [Runs -> Guests]
  /\ answers \in [Runs -> Seq(Nat)]

\* Nothing that a sweep would take, beside a run's own files.
NothingOld(r) ==
  \A x \in DOMAIN disk \ {r} : disk[x] + ORPHAN_AGE > disk[r]

LockHeld ==
  /\ \A r \in Runs :
       /\ run[r] \in Busy <=> flock = r
       /\ guest[r].up => run[r] \in {"up", "waiting"}
       /\ run[r] \in {"files", "up", "waiting"} => r \in DOMAIN disk
       /\ run[r] = "files" => NothingOld(r)
  /\ ~overdue

\* A run at pc that has asked n commands and got the answers a; its VM still has
\* to read q, and does d.
Talking(pc, n, q, d, a) ==
  LET begun == n - Len(q)
  IN  /\ n = Len(a) + (IF pc = "waiting" THEN 1 ELSE 0)
      /\ begun >= 0
      /\ \A j \in 1 .. Len(q) : q[j] = begun + j
      /\ d # 0 => d = begun
      /\ \A i \in 1 .. Len(a) : a[i] = i => IF d # 0 THEN i < begun ELSE i <= begun

OwnAnswers(a) == \A i \in 1 .. Len(a) : a[i] \in {0, i}

Talk(r) ==
  /\ run[r] \in {"new", "locked", "files"} => asked[r] = 0 /\ answers[r] = <<>>
  /\ OwnAnswers(answers[r])
  /\ IF guest[r].up
     THEN Talking(run[r], asked[r], guest[r].queue, guest[r].doing, answers[r])
     ELSE guest[r] = NoVM

SandboxInv == SandboxTyped /\ LockHeld /\ \A r \in Runs : Talk(r)

LEMMA SandboxInitially == SandboxInit => SandboxInv
  <1> SUFFICES ASSUME SandboxInit PROVE SandboxInv
    OBVIOUS
  <1>1. NoVM \in Guests /\ ~NoVM.up /\ NoVM.doing = 0
    BY DEF NoVM, Guests
  <1>2. SandboxTyped
    <2>1. <<>> \in Seq(Nat) /\ DOMAIN <<>> = {}
      OBVIOUS
    <2>2. disk \in [DOMAIN disk -> Nat]
      BY <2>1 DEF SandboxInit
    <2> QED
      BY <1>1, <2>1, <2>2 DEF SandboxInit, SandboxTyped, Busy
  <1>3. LockHeld
    BY <1>1, SandboxAssumption DEF SandboxInit, LockHeld, Busy
  <1>4. \A r \in Runs : Talk(r)
    BY <1>1 DEF SandboxInit, Talk, OwnAnswers
  <1> QED
    BY <1>2, <1>3, <1>4 DEF SandboxInv

\* A step of one run leaves the others their part.
LEMMA TalkOfOthers ==
  ASSUME SandboxInv, NEW r \in Runs,
         run' = [run EXCEPT ![r] = run'[r]] \/ run' = run,
         asked' = [asked EXCEPT ![r] = asked'[r]] \/ asked' = asked,
         guest' = [guest EXCEPT ![r] = guest'[r]] \/ guest' = guest,
         answers' = [answers EXCEPT ![r] = answers'[r]] \/ answers' = answers
  PROVE  \A s \in Runs \ {r} : Talk(s)'
  <1> SUFFICES ASSUME NEW s \in Runs \ {r} PROVE Talk(s)'
    OBVIOUS
  <1>1. run'[s] = run[s]
    BY DEF SandboxInv, SandboxTyped
  <1>2. asked'[s] = asked[s]
    BY DEF SandboxInv, SandboxTyped
  <1>3. guest'[s] = guest[s]
    BY DEF SandboxInv, SandboxTyped
  <1>4. answers'[s] = answers[s]
    BY DEF SandboxInv, SandboxTyped
  <1> QED
    BY <1>1, <1>2, <1>3, <1>4 DEF Talk, SandboxInv

\* The VM is gone, or was never there.
LEMMA TalkEnds ==
  ASSUME SandboxInv, NEW r \in Runs, guest'[r] = NoVM, answers'[r] = answers[r],
         run'[r] \notin {"new", "locked", "files"}
  PROVE  Talk(r)'
  <1>1. ~NoVM.up
    BY DEF NoVM
  <1> QED
    BY <1>1 DEF Talk, SandboxInv

\* What a queue of commands becomes by one more, and by one less.
LEMMA QueueGrows ==
  ASSUME NEW q \in Seq(Nat), NEW m \in Nat
  PROVE  /\ Append(q, m) \in Seq(Nat) /\ Len(Append(q, m)) = Len(q) + 1
         /\ DOMAIN Append(q, m) = 1 .. Len(q) + 1
         /\ \A j \in 1 .. Len(q) : Append(q, m)[j] = q[j]
         /\ Append(q, m)[Len(q) + 1] = m
         /\ DOMAIN q = 1 .. Len(q) /\ Len(q) \in Nat
  OBVIOUS

LEMMA QueueShrinks ==
  ASSUME NEW q \in Seq(Nat), q # <<>>
  PROVE  /\ Tail(q) \in Seq(Nat) /\ Len(Tail(q)) = Len(q) - 1 /\ Head(q) = q[1] /\ Head(q) \in Nat
         /\ DOMAIN q = 1 .. Len(q) /\ Len(q) \in Nat \ {0}
         /\ DOMAIN Tail(q) = 1 .. Len(q) - 1
         /\ \A j \in 1 .. Len(q) - 1 : Tail(q)[j] = q[j + 1]
  OBVIOUS

\* The queue holds the last commands asked, in their order.
LEMMA LastOnesGrow ==
  ASSUME NEW q \in Seq(Nat), NEW n \in Nat, \A j \in 1 .. Len(q) : q[j] = n - Len(q) + j
  PROVE  \A j \in 1 .. Len(Append(q, n + 1)) :
           Append(q, n + 1)[j] = (n + 1) - Len(Append(q, n + 1)) + j
  <1> DEFINE p == Append(q, n + 1)
             l == Len(q)
  <1>1. l \in Nat /\ Len(p) = l + 1 /\ (\A j \in 1 .. l : p[j] = q[j]) /\ p[l + 1] = n + 1
    BY QueueGrows
  <1> HIDE DEF p
  <1> SUFFICES ASSUME NEW j \in 1 .. Len(p) PROVE p[j] = (n + 1) - Len(p) + j
    BY DEF p
  <1>2. CASE j = l + 1
    BY <1>1, <1>2
  <1>3. CASE j \in 1 .. l
    <2>1. p[j] = q[j] /\ q[j] = n - l + j
      BY <1>1, <1>3
    <2> HIDE DEF l
    <2> QED
      BY <1>1, <2>1, <1>3
  <1> QED
    BY <1>1, <1>2, <1>3

LEMMA LastOnesShrink ==
  ASSUME NEW q \in Seq(Nat), q # <<>>, NEW n \in Nat, \A j \in 1 .. Len(q) : q[j] = n - Len(q) + j
  PROVE  /\ \A j \in 1 .. Len(Tail(q)) : Tail(q)[j] = n - Len(Tail(q)) + j
         /\ Head(q) = n - Len(Tail(q))
  <1> DEFINE p == Tail(q)
             l == Len(q)
  <1>1. l \in Nat \ {0} /\ Len(p) = l - 1 /\ (\A j \in 1 .. l - 1 : p[j] = q[j + 1]) /\ Head(q) = q[1]
    BY QueueShrinks
  <1>2. \A j \in 1 .. l : q[j] = n - l + j
    OBVIOUS
  <1> HIDE DEF p, l
  <1>3. Head(q) = n - Len(p)
    BY <1>1, <1>2
  <1>4. ASSUME NEW j \in 1 .. Len(p) PROVE p[j] = n - Len(p) + j
    <2>1. j \in Nat /\ j + 1 \in 1 .. l
      BY <1>1
    <2>2. p[j] = q[j + 1] /\ q[j + 1] = n - l + (j + 1)
      BY <1>1, <1>2, <2>1
    <2> QED
      BY <1>1, <2>1, <2>2
  <1> QED
    BY <1>3, <1>4 DEF p

\* A command is asked.
LEMMA TalkAsked ==
  ASSUME NEW n \in Nat, NEW q \in Seq(Nat), NEW d, NEW a \in Seq(Nat), Talking("up", n, q, d, a)
  PROVE  Talking("waiting", n + 1, Append(q, n + 1), d, a)
  <1> DEFINE p == Append(q, n + 1)
  <1>1. Len(p) = Len(q) + 1 /\ Len(q) \in Nat /\ Len(a) \in Nat
    BY QueueGrows
  <1>2. \A j \in 1 .. Len(p) : p[j] = (n + 1) - Len(p) + j
    BY LastOnesGrow DEF Talking
  <1> HIDE DEF p
  <1>3. (n + 1) - Len(p) = n - Len(q)
    BY <1>1
  <1>4. Talking("waiting", n + 1, p, d, a)
    BY <1>1, <1>2, <1>3 DEF Talking
  <1> QED
    BY <1>4 DEF p

\* The guest reads one.
LEMMA TalkRead ==
  ASSUME NEW pc, NEW n \in Nat, NEW q \in Seq(Nat), q # <<>>, NEW a \in Seq(Nat), Talking(pc, n, q, 0, a)
  PROVE  Talking(pc, n, Tail(q), Head(q), a)
  <1> DEFINE p == Tail(q)
  <1>1. Len(p) = Len(q) - 1 /\ Len(q) \in Nat \ {0} /\ Len(a) \in Nat
    BY QueueShrinks
  <1>2. /\ \A j \in 1 .. Len(p) : p[j] = n - Len(p) + j
        /\ Head(q) = n - Len(p)
    BY LastOnesShrink DEF Talking
  <1>3. /\ n = Len(a) + (IF pc = "waiting" THEN 1 ELSE 0) /\ n - Len(q) >= 0
        /\ \A i \in 1 .. Len(a) : a[i] = i => i <= n - Len(q)
    BY DEF Talking
  <1> HIDE DEF p
  <1>4. n - Len(p) = n - Len(q) + 1
    BY <1>1
  <1>5. ASSUME NEW i \in 1 .. Len(a), a[i] = i
        PROVE  i < n - Len(p)
    <2>1. i <= n - Len(q)
      BY <1>3, <1>5
    <2>2. i \in Nat /\ n - Len(q) \in Int
      BY <1>1
    <2> QED
      BY <1>4, <2>1, <2>2
  <1>6. Talking(pc, n, p, Head(q), a)
    BY <1>1, <1>2, <1>3, <1>4, <1>5 DEF Talking
  <1> QED
    BY <1>6 DEF p

\* What the guest does is over, and its run takes the answer or has given up.
LEMMA TalkOver ==
  ASSUME NEW pc, NEW n \in Nat, NEW q \in Seq(Nat), NEW d \in Nat \ {0}, NEW a \in Seq(Nat),
         Talking(pc, n, q, d, a)
  PROVE  /\ Talking(pc, n, q, 0, a)
         /\ pc = "waiting" /\ n = d => Talking("up", n, q, 0, Append(a, n))
  <1>1. Len(a) \in Nat /\ Len(q) \in Nat
    OBVIOUS
  <1>2. Talking(pc, n, q, 0, a)
    BY <1>1 DEF Talking
  <1>3. ASSUME pc = "waiting", n = d
        PROVE  Talking("up", n, q, 0, Append(a, n))
    <2>1. n = Len(a) + 1 /\ n - Len(q) = n
      BY <1>1, <1>3 DEF Talking
    <2>2. Len(Append(a, n)) = n
      BY <1>1, <2>1, QueueGrows
    <2> QED
      BY <1>1, <1>2, <2>1, <2>2 DEF Talking
  <1> QED
    BY <1>2, <1>3

\* The run gives up on an answer.
LEMMA TalkGivenUp ==
  ASSUME NEW n \in Nat, NEW q \in Seq(Nat), NEW d \in Nat, NEW a \in Seq(Nat),
         Talking("waiting", n, q, d, a)
  PROVE  Talking("up", n, q, d, Append(a, 0))
  <1> DEFINE b == Append(a, 0)
  <1>1. /\ Len(a) \in Nat /\ Len(b) = Len(a) + 1
        /\ \A i \in 1 .. Len(a) : b[i] = a[i]
        /\ b[Len(a) + 1] = 0
    BY QueueGrows
  <1> HIDE DEF b
  <1>2. ASSUME NEW i \in 1 .. Len(b), b[i] = i
        PROVE  i \in 1 .. Len(a) /\ a[i] = i
    <2>1. i \in Nat \ {0} /\ i <= Len(a) + 1
      BY <1>1
    <2>2. i # Len(a) + 1
      BY <1>1, <1>2, <2>1
    <2>3. i \in 1 .. Len(a)
      BY <1>1, <2>1, <2>2
    <2>4. b[i] = a[i]
      BY <1>1, <2>3
    <2> QED
      BY <1>2, <2>3, <2>4
  <1>3. Talking("up", n, q, d, b)
    BY <1>1, <1>2 DEF Talking
  <1> QED
    BY <1>3 DEF b

LEMMA OwnAnswersGrow ==
  ASSUME NEW a \in Seq(Nat), OwnAnswers(a), NEW m \in {0, Len(a) + 1}
  PROVE  OwnAnswers(Append(a, m))
  <1> DEFINE b == Append(a, m)
  <1>1. /\ Len(a) \in Nat /\ m \in Nat
    OBVIOUS
  <1>2. /\ Len(b) = Len(a) + 1 /\ b[Len(a) + 1] = m
        /\ \A i \in 1 .. Len(a) : b[i] = a[i]
    BY <1>1, QueueGrows
  <1> HIDE DEF b
  <1>3. OwnAnswers(b)
    BY <1>1, <1>2 DEF OwnAnswers
  <1> QED
    BY <1>3 DEF b

LEMMA SandboxStep ==
  ASSUME SandboxInv, [SandboxNext]_sandboxVars
  PROVE  SandboxInv'
  <1> USE SandboxAssumption DEF SandboxInv
  <1>1. ASSUME NEW r \in Runs, Locked(r)
        PROVE  SandboxInv'
    <2>1. SandboxTyped'
      BY <1>1 DEF Locked, IsAt, MovesTo, SandboxTyped, Busy
    <2>2. LockHeld'
      BY <1>1 DEF Locked, IsAt, MovesTo, SandboxTyped, Busy, LockHeld, NothingOld
    <2>3. Talk(r)'
      BY <1>1 DEF Locked, IsAt, MovesTo, SandboxTyped, LockHeld, Talk, Talking
    <2> QED
      BY <1>1, <2>1, <2>2, <2>3, TalkOfOthers DEF Locked, MovesTo, SandboxTyped
  <1>2. ASSUME NEW r \in Runs, Sweeps(r)
        PROVE  SandboxInv'
    <2>1. SandboxTyped'
      BY <1>2 DEF Sweeps, IsAt, MovesTo, SandboxTyped, Busy
    <2>2. LockHeld'
      BY <1>2 DEF Sweeps, IsAt, MovesTo, SandboxTyped, Busy, LockHeld, NothingOld, Old
    <2>3. Talk(r)'
      BY <1>2 DEF Sweeps, IsAt, MovesTo, SandboxTyped, LockHeld, Talk, Talking
    <2> QED
      BY <1>2, <2>1, <2>2, <2>3, TalkOfOthers DEF Sweeps, MovesTo, SandboxTyped
  <1>3. ASSUME NEW r \in Runs, Booted(r)
        PROVE  SandboxInv'
    <2>1. SandboxTyped'
      BY <1>3 DEF Booted, IsAt, MovesTo, SandboxTyped, Busy, Guests
    <2>2. LockHeld'
      BY <1>3 DEF Booted, IsAt, MovesTo, SandboxTyped, Busy, LockHeld, NothingOld
    <2>3. Talk(r)'
      BY <1>3 DEF Booted, IsAt, MovesTo, SandboxTyped, LockHeld, Talk, Talking, OwnAnswers, NoVM
    <2> QED
      BY <1>3, <2>1, <2>2, <2>3, TalkOfOthers DEF Booted, MovesTo, SandboxTyped
  <1>4. ASSUME NEW r \in Runs, BootFails(r)
        PROVE  SandboxInv'
    <2>1. SandboxTyped'
      BY <1>4 DEF BootFails, IsAt, MovesTo, SandboxTyped, Busy
    <2>2. LockHeld'
      BY <1>4 DEF BootFails, IsAt, MovesTo, SandboxTyped, Busy, LockHeld, NothingOld
    <2>3. Talk(r)'
      BY <1>4, TalkEnds DEF BootFails, IsAt, MovesTo, SandboxTyped, LockHeld, Talk, Talking
    <2> QED
      BY <1>4, <2>1, <2>2, <2>3, TalkOfOthers DEF BootFails, MovesTo, SandboxTyped
  <1>5. ASSUME NEW r \in Runs, close(r)
        PROVE  SandboxInv'
    <2>1. SandboxTyped'
      BY <1>5 DEF close, MovesTo, Removed, SandboxTyped, Busy, Guests, NoVM
    <2>2. LockHeld'
      BY <1>5 DEF close, MovesTo, Removed, SandboxTyped, Busy, LockHeld, NothingOld, NoVM
    <2>3. Talk(r)'
      BY <1>5, TalkEnds DEF close, MovesTo, SandboxTyped
    <2> QED
      BY <1>5, <2>1, <2>2, <2>3, TalkOfOthers DEF close, MovesTo, SandboxTyped
  <1>6. ASSUME NEW r \in Runs, RunKilled(r)
        PROVE  SandboxInv'
    <2>1. SandboxTyped'
      BY <1>6 DEF RunKilled, MovesTo, SandboxTyped, Busy, Guests, NoVM
    <2>2. LockHeld'
      BY <1>6 DEF RunKilled, MovesTo, SandboxTyped, Busy, LockHeld, NothingOld, NoVM
    <2>3. Talk(r)'
      BY <1>6, TalkEnds DEF RunKilled, MovesTo, SandboxTyped
    <2> QED
      BY <1>6, <2>1, <2>2, <2>3, TalkOfOthers DEF RunKilled, MovesTo, SandboxTyped
  <1>7. ASSUME NEW r \in Runs, Dies(r)
        PROVE  SandboxInv'
    <2>1. SandboxTyped'
      BY <1>7 DEF Dies, SandboxTyped, Busy, Guests, NoVM
    <2>2. LockHeld'
      BY <1>7 DEF Dies, SandboxTyped, Busy, LockHeld, NothingOld, NoVM
    <2>3. Talk(r)'
      BY <1>7, TalkEnds DEF Dies, LockHeld, SandboxTyped
    <2> QED
      BY <1>7, <2>1, <2>2, <2>3, TalkOfOthers DEF Dies, SandboxTyped
  <1>8. ASSUME NEW r \in Runs, Ask(r)
        PROVE  SandboxInv'
    <2>1. guest'[r] = [guest[r] EXCEPT !.queue = Append(@, asked[r] + 1)] /\ guest[r] \in Guests
      BY <1>8 DEF Ask, SandboxTyped
    <2>2. SandboxTyped'
      <3>1. asked[r] + 1 \in Nat /\ guest[r].queue \in Seq(Nat)
        BY <2>1 DEF SandboxTyped, Guests
      <3>2. Append(guest[r].queue, asked[r] + 1) \in Seq(Nat)
        BY <3>1, QueueGrows
      <3>3. guest'[r] \in Guests
        BY <2>1, <3>2 DEF Guests
      <3> QED
        BY <1>8, <3>1, <3>3 DEF Ask, MovesTo, SandboxTyped, Busy
    <2>3. LockHeld'
      BY <1>8 DEF Ask, IsAt, MovesTo, SandboxTyped, Busy, Guests, LockHeld, NothingOld
    <2>4. Talk(r)'
      <3>1. run[r] = "up" /\ run'[r] = "waiting" /\ guest[r].up
            /\ asked'[r] = asked[r] + 1 /\ answers' = answers
        BY <1>8 DEF Ask, IsAt, MovesTo, SandboxTyped
      <3>2. asked[r] \in Nat /\ guest[r].queue \in Seq(Nat) /\ answers[r] \in Seq(Nat)
        BY DEF SandboxTyped, Guests
      <3>3. /\ guest'[r].up /\ guest'[r].doing = guest[r].doing
            /\ guest'[r].queue = Append(guest[r].queue, asked[r] + 1)
        BY <2>1, <3>1 DEF Guests
      <3>4. Talking("up", asked[r], guest[r].queue, guest[r].doing, answers[r])
        BY <3>1 DEF Talk
      <3>5. Talking("waiting", asked[r] + 1, guest'[r].queue, guest'[r].doing, answers[r])
        BY <3>2, <3>3, <3>4, TalkAsked
      <3> QED
        BY <3>1, <3>3, <3>5 DEF Talk
    <2> QED
      BY <1>8, <2>2, <2>3, <2>4, TalkOfOthers DEF Ask, MovesTo, SandboxTyped
  <1>9. ASSUME NEW r \in Runs, GuestReads(r)
        PROVE  SandboxInv'
    <2>1. guest'[r] = [guest[r] EXCEPT !.doing = Head(guest[r].queue), !.queue = Tail(@)] /\ guest[r] \in Guests
      BY <1>9 DEF GuestReads, SandboxTyped
    <2>2. Head(guest[r].queue) \in Nat /\ Tail(guest[r].queue) \in Seq(Nat)
      BY <1>9 DEF GuestReads, SandboxTyped, Guests
    <2>3. SandboxTyped'
      BY <1>9, <2>1, <2>2 DEF GuestReads, SandboxTyped, Guests
    <2>4. LockHeld'
      BY <1>9, <2>1 DEF GuestReads, SandboxTyped, Guests, LockHeld, NothingOld
    <2>5. Talk(r)'
      <3>1. /\ run' = run /\ asked' = asked /\ answers' = answers
            /\ guest[r].up /\ guest[r].doing = 0 /\ guest[r].queue # <<>>
        BY <1>9 DEF GuestReads
      <3>2. asked[r] \in Nat /\ guest[r].queue \in Seq(Nat) /\ answers[r] \in Seq(Nat)
        BY DEF SandboxTyped, Guests
      <3>3. /\ guest'[r].up /\ guest'[r].doing = Head(guest[r].queue)
            /\ guest'[r].queue = Tail(guest[r].queue)
        BY <2>1, <3>1 DEF Guests
      <3>4. Talking(run[r], asked[r], guest[r].queue, 0, answers[r])
        BY <3>1 DEF Talk
      <3>5. Talking(run[r], asked[r], guest'[r].queue, guest'[r].doing, answers[r])
        BY <3>1, <3>2, <3>3, <3>4, TalkRead
      <3> QED
        BY <3>1, <3>3, <3>5 DEF Talk
    <2>6. guest' = [guest EXCEPT ![r] = guest'[r]]
      BY <1>9, <2>1 DEF GuestReads, SandboxTyped
    <2> QED
      BY <1>9, <2>3, <2>4, <2>5, <2>6, TalkOfOthers DEF GuestReads
  <1>10. ASSUME NEW r \in Runs, Answered(r)
        PROVE  SandboxInv'
    <2>1. /\ guest'[r] = [guest[r] EXCEPT !.doing = 0, !.wedged = FALSE]
          /\ guest[r] \in Guests /\ guest[r].up /\ guest[r].doing # 0
      BY <1>10 DEF Answered, SandboxTyped
    <2>2. /\ guest'[r] \in Guests /\ guest'[r].up /\ guest'[r].doing = 0
          /\ guest'[r].queue = guest[r].queue
      <3> DEFINE g == guest[r]
                 h == guest'[r]
      <3>1. g \in Guests /\ g.up /\ h = [[g EXCEPT !.doing = 0] EXCEPT !.wedged = FALSE]
        BY <2>1
      <3> HIDE DEF g, h
      <3>2. h \in Guests /\ h.up /\ h.doing = 0 /\ h.queue = g.queue
        BY <3>1 DEF Guests
      <3> QED
        BY <3>2 DEF g, h
    <2>b. guest' = [guest EXCEPT ![r] = guest'[r]]
      BY <1>10, <2>1 DEF Answered, SandboxTyped
    <2>3. asked[r] \in Nat /\ guest[r].queue \in Seq(Nat) /\ answers[r] \in Seq(Nat)
      BY <2>1 DEF SandboxTyped, Guests
    <2>4. /\ Talking(run[r], asked[r], guest[r].queue, 0, answers[r])
          /\ Reads(r, guest[r].doing) =>
               Talking("up", asked[r], guest[r].queue, 0, Append(answers[r], asked[r]))
      <3>1. Talking(run[r], asked[r], guest[r].queue, guest[r].doing, answers[r])
        BY <2>1 DEF Talk
      <3>2. guest[r].doing \in Nat \ {0}
        BY <2>1 DEF Guests
      <3> QED
        BY <2>3, <3>1, <3>2, TalkOver DEF Reads, IsAt
    <2>5. CASE Reads(r, guest[r].doing)
      <3>1. answers' = [answers EXCEPT ![r] = Append(answers[r], asked[r])] /\ run' = [run EXCEPT ![r] = "up"]
        BY <1>10, <2>5 DEF Answered, MovesTo, Reads
      <3>2. Append(answers[r], asked[r]) \in Seq(Nat)
        BY <2>3, QueueGrows
      <3>3. SandboxTyped'
        BY <1>10, <2>2, <3>1, <3>2 DEF Answered, SandboxTyped, Busy
      <3>4. LockHeld'
        BY <1>10, <2>1, <2>2, <2>5, <3>1 DEF Answered, SandboxTyped, Reads, IsAt, Busy, LockHeld, NothingOld
      <3>5. Talk(r)'
        <4>1. asked[r] = Len(answers[r]) + 1
          BY <2>1, <2>5 DEF Talk, Talking, Reads, IsAt
        <4>2. OwnAnswers(Append(answers[r], asked[r]))
          BY <2>3, <4>1, OwnAnswersGrow DEF Talk
        <4> QED
          BY <1>10, <2>2, <2>4, <2>5, <3>1, <4>2 DEF Answered, Talk, SandboxTyped
      <3> QED
        BY <1>10, <2>b, <3>1, <3>3, <3>4, <3>5, TalkOfOthers DEF Answered, SandboxTyped
    <2>6. CASE ~Reads(r, guest[r].doing)
      <3>1. answers' = answers /\ run' = run
        BY <1>10, <2>6 DEF Answered
      <3>2. SandboxTyped'
        BY <1>10, <2>2, <3>1 DEF Answered, SandboxTyped
      <3>3. LockHeld'
        BY <1>10, <2>1, <2>2, <3>1 DEF Answered, SandboxTyped, LockHeld, NothingOld
      <3>4. Talk(r)'
        BY <1>10, <2>1, <2>2, <2>4, <3>1 DEF Answered, Talk
      <3> QED
        BY <1>10, <2>b, <3>1, <3>2, <3>3, <3>4, TalkOfOthers DEF Answered, SandboxTyped
    <2> QED
      BY <2>5, <2>6
  <1>11. ASSUME NEW r \in Runs, Wedged(r)
        PROVE  SandboxInv'
    <2>1. guest'[r] = [guest[r] EXCEPT !.wedged = TRUE] /\ guest[r] \in Guests /\ guest[r].up
      BY <1>11 DEF Wedged, SandboxTyped
    <2>2. /\ guest'[r] \in Guests /\ guest'[r].up /\ guest'[r].doing = guest[r].doing
          /\ guest'[r].queue = guest[r].queue
      BY <2>1 DEF Guests
    <2>3. SandboxTyped'
      BY <1>11, <2>2 DEF Wedged, SandboxTyped
    <2>4. LockHeld'
      BY <1>11, <2>1, <2>2 DEF Wedged, SandboxTyped, LockHeld, NothingOld
    <2>5. Talk(r)'
      BY <1>11, <2>1, <2>2 DEF Wedged, Talk
    <2> QED
      BY <1>11, <2>3, <2>4, <2>5, TalkOfOthers DEF Wedged, SandboxTyped
  <1>12. ASSUME NEW r \in Runs, GivesUp(r)
        PROVE  SandboxInv'
    <2>1. /\ answers' = [answers EXCEPT ![r] = Append(answers[r], 0)] /\ run' = [run EXCEPT ![r] = "up"]
          /\ run[r] = "waiting" /\ UNCHANGED <<ticks, flock, disk, asked, guest, overdue>>
      BY <1>12 DEF GivesUp, MovesTo, IsAt
    <2>2. asked[r] \in Nat /\ answers[r] \in Seq(Nat) /\ Append(answers[r], 0) \in Seq(Nat)
      BY QueueGrows DEF SandboxTyped
    <2>3. SandboxTyped'
      BY <2>1, <2>2 DEF SandboxTyped, Busy
    <2>4. LockHeld'
      BY <2>1 DEF SandboxTyped, Busy, LockHeld, NothingOld
    <2>5. Talk(r)'
      <3>1. guest[r].up
        BY <1>12 DEF GivesUp, Talk, NoVM
      <3>2. guest[r].queue \in Seq(Nat) /\ guest[r].doing \in Nat
        BY DEF SandboxTyped, Guests
      <3>3. Talking("up", asked[r], guest[r].queue, guest[r].doing, Append(answers[r], 0))
        BY <2>1, <2>2, <3>1, <3>2, TalkGivenUp DEF Talk
      <3>4. OwnAnswers(Append(answers[r], 0))
        BY <2>2, OwnAnswersGrow DEF Talk
      <3> QED
        BY <2>1, <3>1, <3>3, <3>4 DEF Talk, SandboxTyped
    <2> QED
      BY <2>1, <2>3, <2>4, <2>5, TalkOfOthers DEF SandboxTyped
  <1>20. CASE Ticks
    BY <1>20 DEF Ticks, SandboxTyped, LockHeld, NothingOld, Talk
  <1>21. CASE UNCHANGED sandboxVars
    BY <1>21 DEF sandboxVars, SandboxTyped, LockHeld, NothingOld, Talk
  <1> QED
    BY <1>1, <1>2, <1>3, <1>4, <1>5, <1>6, <1>7, <1>8, <1>9, <1>10, <1>11, <1>12,
       <1>20, <1>21 DEF SandboxNext

(* One VM at a time, with its own files and no leftover beside it, and     *)
(* each answer that of its own command, for any runs, however they end.    *)
THEOREM SandboxIsOnes == Spec => []OneSandbox
  <1>1. Init => SandboxInv
    BY SandboxInitially DEF Init
  <1>2. SandboxInv /\ [Next]_vars => SandboxInv'
    BY MachineStep, SandboxStep
  <1>3. SandboxInv => OneSandbox
    <2> SUFFICES ASSUME SandboxInv PROVE OneSandbox
      OBVIOUS
    <2>1. Alone
      BY SandboxAssumption DEF SandboxInv, SandboxTyped, LockHeld, Alone, Busy
    <2>2. AnswerIsOwn
      <3> SUFFICES ASSUME NEW r \in Runs
                   PROVE  /\ \A i \in DOMAIN answers[r] : answers[r][i] \in {0, i}
                          /\ guest[r].doing # 0 =>
                               \A i \in DOMAIN answers[r] : answers[r][i] = i => i < guest[r].doing
        BY DEF AnswerIsOwn
      <3>1. DOMAIN answers[r] = 1 .. Len(answers[r])
        BY DEF SandboxInv, SandboxTyped
      <3>2. OwnAnswers(answers[r])
        BY DEF SandboxInv, Talk
      <3>3. ASSUME guest[r].doing # 0, NEW i \in 1 .. Len(answers[r]), answers[r][i] = i
            PROVE  i < guest[r].doing
        <4>1. guest[r].up
          BY <3>3 DEF SandboxInv, Talk, NoVM
        <4> QED
          BY <3>3, <4>1 DEF SandboxInv, Talk, Talking
      <3> QED
        BY <3>1, <3>2, <3>3 DEF OwnAnswers
    <2> QED
      BY <2>1, <2>2 DEF OneSandbox
  <1> QED
    BY <1>1, <1>2, <1>3, PTL DEF Spec

-----------------------------------------------------------------------------
(* The mirror.  What a pass has still to send was sent by passes that were *)
(* cut, one row more often by each of them; what its cursor has passed is  *)
(* in production, and the cursor on file is one that a pass had.           *)

Ids == 1 .. MaxLabRows
Cursors == [Kinds -> Nat] \cup {<<>>}
Passes == [pc : {"idle", "fetch", "rows", "final", "done"}, kind : Kinds,
           cursor : Cursors, budget : Nat, batch : Seq(Nat),
           stopped : BOOLEAN, sent : [Kinds -> Nat]]

MirrorTyped ==
  /\ lab \in [Kinds -> Seq(BOOLEAN)] /\ \A k \in Kinds : Len(lab[k]) <= MaxLabRows
  /\ file = <<>> \/ file \in [Kinds -> Nat]
  /\ pass \in Passes /\ (pass.pc # "idle" => pass.cursor \in [Kinds -> Nat])
  /\ firstCursor \in [Kinds -> Nat] /\ arrived \in [Kinds -> [Ids -> Nat]] /\ cuts \in Nat

StoredUpTo(c) ==
  \A k \in Kinds :
    /\ c[k] <= Len(lab[k])
    /\ \A i \in Ids : i > firstCursor[k] /\ i <= c[k] /\ lab[k][i] = TRUE => arrived[k][i] >= 1

CutBeyond(c) == \A k \in Kinds, i \in Ids : i > c[k] => arrived[k][i] <= cuts

StoredRightly ==
  \A k \in Kinds, i \in Ids :
    /\ arrived[k][i] > 0 => i <= Len(lab[k]) /\ lab[k][i] = TRUE
    /\ arrived[k][i] <= 1 + cuts

\* The batch is what follows the cursor, and within the budget.
BatchFollows ==
  /\ pass.pc # "rows" => pass.batch = <<>>
  /\ \A j \in 1 .. Len(pass.batch) : pass.batch[j] = pass.cursor[pass.kind] + j
  /\ pass.cursor[pass.kind] + Len(pass.batch) <= Len(lab[pass.kind])
  /\ Len(pass.batch) <= pass.budget

\* What was kept for the outcomes is spent on outcomes.
ShareKept ==
  /\ pass.kind = "observations" => pass.sent["outcomes"] = 0 /\ pass.pc \in {"fetch", "rows"}
  /\ pass.kind = "outcomes" => pass.budget + pass.sent["outcomes"] >= Reserve

MirrorInv ==
  /\ MirrorTyped /\ StoredRightly
  /\ file # <<>> => StoredUpTo(file)
  /\ pass.pc = "idle" => IF file = <<>> THEN \A k \in Kinds, i \in Ids : arrived[k][i] <= cuts
                         ELSE CutBeyond(file)
  /\ pass.pc # "idle" => /\ StoredUpTo(pass.cursor) /\ CutBeyond(pass.cursor)
                         /\ BatchFollows /\ ShareKept
  /\ pass.pc = "done" => file = pass.cursor

LEMMA ReserveIsNat == Reserve \in Nat \ {0} /\ Reserve <= max_rows
  BY MirrorAssumption DEF Reserve

LEMMA NoPassTyped ==
  /\ NoPass \in Passes /\ NoPass.pc = "idle" /\ NoPass.kind = "observations"
  /\ NoPass.batch = <<>> /\ NoPass.sent["outcomes"] = 0
  <1>1. AllOf(0) \in [Kinds -> Nat] /\ AllOf(0)["outcomes"] = 0
    BY DEF AllOf, Kinds
  <1>2. <<>> \in Seq(Nat)
    OBVIOUS
  <1>3. "observations" \in Kinds
    BY DEF Kinds
  <1> QED
    BY <1>1, <1>2, <1>3 DEF NoPass, Passes, Cursors

LEMMA CursorsAreNotEmpty == \A c \in [Kinds -> Nat] : c # <<>>
  <1>1. "observations" \in Kinds /\ DOMAIN <<>> = {}
    BY DEF Kinds
  <1> QED
    BY <1>1

LEMMA MirrorInitially == MirrorInit => MirrorInv
  <1> SUFFICES ASSUME MirrorInit PROVE MirrorInv
    OBVIOUS
  <1>1. lab = [k \in Kinds |-> <<>>] /\ firstCursor = [k \in Kinds |-> 0]
        /\ arrived = [k \in Kinds |-> [i \in Ids |-> 0]]
    BY DEF MirrorInit, AllOf, Ids
  <1>2. lab \in [Kinds -> Seq(BOOLEAN)] /\ \A k \in Kinds : Len(lab[k]) = 0
    BY <1>1
  <1> QED
    BY <1>1, <1>2, NoPassTyped, MirrorAssumption
    DEF MirrorInit, MirrorInv, MirrorTyped, StoredRightly

LEMMA MirrorFacts ==
  ASSUME MirrorInv
  PROVE  /\ pass.kind \in Kinds /\ pass.batch \in Seq(Nat) /\ pass.budget \in Nat /\ Len(pass.batch) \in Nat
         /\ pass.sent \in [Kinds -> Nat] /\ cuts \in Nat
         /\ "observations" \in Kinds /\ "outcomes" \in Kinds
         /\ \A k \in Kinds : Len(lab[k]) \in Nat /\ firstCursor[k] \in Nat /\ Len(lab[k]) <= MaxLabRows
         /\ \A k \in Kinds, i \in Ids : arrived[k][i] \in Nat /\ i \in Nat /\ i <= MaxLabRows
         /\ MaxLabRows \in Nat
         /\ pass.pc # "idle" => \A k \in Kinds : pass.cursor[k] \in Nat
  <1>1. MirrorTyped
    BY DEF MirrorInv
  <1>2. /\ pass.kind \in Kinds /\ pass.batch \in Seq(Nat) /\ pass.budget \in Nat
        /\ pass.sent \in [Kinds -> Nat]
    <2>1. pass \in Passes
      BY <1>1 DEF MirrorTyped
    <2>2. pass.kind \in Kinds
      BY <2>1 DEF Passes
    <2>3. pass.batch \in Seq(Nat)
      BY <2>1 DEF Passes
    <2>4. pass.budget \in Nat
      BY <2>1 DEF Passes
    <2>5. pass.sent \in [Kinds -> Nat]
      BY <2>1 DEF Passes
    <2> QED
      BY <2>2, <2>3, <2>4, <2>5
  <1>3. \A k \in Kinds : Len(lab[k]) \in Nat /\ firstCursor[k] \in Nat /\ Len(lab[k]) <= MaxLabRows
    BY <1>1 DEF MirrorTyped
  <1>4. \A k \in Kinds, i \in Ids : arrived[k][i] \in Nat
    BY <1>1 DEF MirrorTyped
  <1>5. pass.pc # "idle" => \A k \in Kinds : pass.cursor[k] \in Nat
    BY <1>1 DEF MirrorTyped
  <1>6. Len(pass.batch) \in Nat
    BY <1>2
  <1> QED
    BY <1>1, <1>2, <1>3, <1>4, <1>5, <1>6, MirrorAssumption DEF MirrorTyped, Kinds, Ids

\* The row at hand follows the cursor, and the rest of the batch follows it.
LEMMA RowFollows ==
  ASSUME MirrorInv, AtRow
  PROVE  /\ Row = pass.cursor[pass.kind] + 1 /\ Row \in Ids /\ Row <= Len(lab[pass.kind])
         /\ Tail(pass.batch) \in Seq(Nat) /\ Len(Tail(pass.batch)) = Len(pass.batch) - 1
         /\ \A j \in 1 .. Len(Tail(pass.batch)) : Tail(pass.batch)[j] = Row + j
         /\ Row + Len(Tail(pass.batch)) <= Len(lab[pass.kind])
         /\ pass.budget >= 1 /\ pass.cursor \in [Kinds -> Nat]
  <1> DEFINE q == pass.batch
             from == pass.cursor[pass.kind]
             top == Len(lab[pass.kind])
  <1>1. /\ q \in Seq(Nat) /\ q # <<>> /\ from \in Nat /\ top \in Nat /\ top <= MaxLabRows
        /\ pass.budget \in Nat /\ MaxLabRows \in Nat
    BY MirrorFacts DEF AtRow
  <1>2. /\ \A j \in 1 .. Len(q) : q[j] = from + j
        /\ from + Len(q) <= top /\ Len(q) <= pass.budget
    BY DEF MirrorInv, BatchFollows, AtRow
  <1>3. pass.cursor \in [Kinds -> Nat]
    BY DEF MirrorInv, MirrorTyped, AtRow
  <1> HIDE DEF q, from, top
  <1>4. /\ Tail(q) \in Seq(Nat) /\ Len(Tail(q)) = Len(q) - 1 /\ Head(q) = q[1]
        /\ Len(q) \in Nat \ {0}
        /\ \A j \in 1 .. Len(q) - 1 : Tail(q)[j] = q[j + 1]
    BY <1>1, QueueShrinks
  <1>5. Head(q) = from + 1
    BY <1>2, <1>4
  <1>6. ASSUME NEW j \in 1 .. Len(Tail(q)) PROVE Tail(q)[j] = Head(q) + j
    <2>1. j \in Nat /\ j + 1 \in 1 .. Len(q)
      BY <1>4
    <2>2. Tail(q)[j] = q[j + 1] /\ q[j + 1] = from + (j + 1)
      BY <1>2, <1>4, <2>1
    <2>3. from + (j + 1) = (from + 1) + j
      BY <1>1, <2>1
    <2> QED
      BY <1>5, <2>2, <2>3
  <1>7. Head(q) \in Ids /\ Head(q) <= top /\ Head(q) + Len(Tail(q)) <= top /\ pass.budget >= 1
    BY <1>1, <1>2, <1>4, <1>5 DEF Ids
  <1> QED
    BY <1>3, <1>4, <1>5, <1>6, <1>7 DEF Row, q, from, top

\* The cursor passes the row: it has arrived if it may, and no other one has.
LEMMA RowPassed ==
  ASSUME MirrorInv, AtRow, NEW stores \in BOOLEAN, Crosses = TRUE => stores, stores => Crosses = TRUE,
         UNCHANGED <<lab, file, firstCursor, passes, cuts>>,
         pass'.pc = "rows", pass'.kind = pass.kind, pass'.batch = Tail(pass.batch), pass' \in Passes,
         pass'.cursor = [pass.cursor EXCEPT ![pass.kind] = Row],
         pass'.budget = pass.budget - (IF stores THEN 1 ELSE 0),
         IF stores THEN pass'.sent = [pass.sent EXCEPT ![pass.kind] = @ + 1] ELSE pass'.sent = pass.sent,
         arrived' = IF stores THEN StoredOnceMore ELSE arrived
  PROVE  MirrorInv'
  <1> DEFINE k0 == pass.kind
             c == pass.cursor
             d == [pass.cursor EXCEPT ![pass.kind] = Row]
  <1>1. /\ k0 \in Kinds /\ Row = c[k0] + 1 /\ Row \in Ids /\ Row \in Nat /\ Row <= Len(lab[k0])
        /\ c \in [Kinds -> Nat]
    BY RowFollows, MirrorFacts
  <1>2. /\ d \in [Kinds -> Nat] /\ d[k0] = Row
        /\ \A k \in Kinds : k # k0 => d[k] = c[k]
    BY <1>1
  <1>3. /\ StoredUpTo(c) /\ CutBeyond(c)
    BY DEF MirrorInv, AtRow
  <1>4. \A k \in Kinds, i \in Ids :
          arrived'[k][i] = arrived[k][i] + (IF stores /\ k = k0 /\ i = Row THEN 1 ELSE 0)
    <2>1. CASE stores
      <3>1. arrived' = [arrived EXCEPT ![k0][Row] = @ + 1]
        BY <2>1 DEF StoredOnceMore
      <3>2. arrived \in [Kinds -> [Ids -> Nat]]
        BY DEF MirrorInv, MirrorTyped
      <3>3. arrived' = [arrived EXCEPT ![k0] = [arrived[k0] EXCEPT ![Row] = arrived[k0][Row] + 1]]
        BY <3>1
      <3>4. \A i \in Ids : arrived'[k0][i] = IF i = Row THEN arrived[k0][Row] + 1 ELSE arrived[k0][i]
        BY <1>1, <3>2, <3>3
      <3>5. \A k \in Kinds : k # k0 => arrived'[k] = arrived[k]
        BY <3>2, <3>3
      <3>6. \A k \in Kinds, i \in Ids : arrived[k][i] \in Nat
        BY <3>2
      <3> HIDE DEF k0
      <3> QED
        BY <2>1, <3>4, <3>5, <3>6
    <2>2. CASE ~stores
      BY <2>2, MirrorFacts
    <2> QED
      BY <2>1, <2>2
  <1>5. arrived' \in [Kinds -> [Ids -> Nat]]
    <2>0. arrived \in [Kinds -> [Ids -> Nat]]
      BY DEF MirrorInv, MirrorTyped
    <2>1. arrived[k0] \in [Ids -> Nat] /\ arrived[k0][Row] + 1 \in Nat
      BY <1>1, <2>0
    <2>2. [arrived[k0] EXCEPT ![Row] = arrived[k0][Row] + 1] \in [Ids -> Nat]
      BY <1>1, <2>1
    <2> QED
      BY <2>0, <2>2 DEF StoredOnceMore
  <1>6. MirrorTyped'
    BY <1>2, <1>5 DEF MirrorInv, MirrorTyped
  <1>7. Crosses <=> lab[k0][Row]
    BY DEF Crosses
  <1>8. ASSUME NEW k \in Kinds, NEW i \in Ids
        PROVE  /\ arrived'[k][i] > 0 => i <= Len(lab[k]) /\ lab[k][i] = TRUE
               /\ arrived'[k][i] <= 1 + cuts
               /\ i > firstCursor[k] /\ i <= d[k] /\ lab[k][i] = TRUE => arrived'[k][i] >= 1
               /\ i > d[k] => arrived'[k][i] <= cuts
               /\ arrived'[k][i] >= arrived[k][i]
    <2>1. /\ arrived[k][i] \in Nat /\ cuts \in Nat /\ i \in Nat /\ firstCursor[k] \in Nat /\ c[k] \in Nat
          /\ Len(lab[k]) \in Nat /\ d[k] \in Nat
      BY <1>1, <1>2, MirrorFacts
    <2>2. /\ arrived[k][i] > 0 => i <= Len(lab[k]) /\ lab[k][i] = TRUE
          /\ arrived[k][i] <= 1 + cuts
          /\ i > firstCursor[k] /\ i <= c[k] /\ lab[k][i] = TRUE => arrived[k][i] >= 1
          /\ i > c[k] => arrived[k][i] <= cuts
      BY <1>3 DEF MirrorInv, StoredRightly, StoredUpTo, CutBeyond
    <2>3. CASE k = k0 /\ i = Row
      <3>1. stores <=> lab[k][i] = TRUE
        BY <1>7, <2>3 DEF Crosses
      <3>2. arrived'[k][i] = arrived[k][i] + (IF stores THEN 1 ELSE 0)
        BY <1>4, <2>3
      <3>3. arrived[k][i] <= cuts /\ i <= Len(lab[k]) /\ i <= d[k]
        BY <1>1, <1>2, <2>1, <2>2, <2>3
      <3> HIDE DEF c, d, k0
      <3>4. CASE stores
        BY <2>1, <2>2, <3>1, <3>2, <3>3, <3>4
      <3>5. CASE ~stores
        BY <2>1, <2>2, <3>1, <3>2, <3>3, <3>5
      <3> QED
        BY <3>4, <3>5
    <2>4. CASE ~(k = k0 /\ i = Row)
      <3>1. arrived'[k][i] = arrived[k][i]
        BY <1>4, <2>1, <2>4
      <3>2. (i <= d[k] => i <= c[k]) /\ (i > d[k] => i > c[k])
        BY <1>1, <1>2, <2>1, <2>4
      <3> HIDE DEF c, d, k0
      <3> QED
        BY <2>1, <2>2, <3>1, <3>2
    <2> QED
      BY <2>3, <2>4
  <1>9. /\ StoredUpTo(pass.cursor)' /\ CutBeyond(pass.cursor)' /\ StoredRightly'
        /\ file # <<>> => StoredUpTo(file)'
    <2>1. pass'.cursor = d
      OBVIOUS
    <2>2. \A k \in Kinds : d[k] <= Len(lab[k])
      BY <1>1, <1>2, <1>3 DEF StoredUpTo
    <2>3. StoredUpTo(pass.cursor)'
      BY <1>8, <2>1, <2>2 DEF StoredUpTo
    <2>4. CutBeyond(pass.cursor)'
      BY <1>8, <2>1 DEF CutBeyond
    <2>5. StoredRightly'
      BY <1>8 DEF StoredRightly
    <2>6. ASSUME file # <<>> PROVE StoredUpTo(file)'
      <3>1. \A k \in Kinds, i \in Ids : arrived[k][i] \in Nat /\ arrived'[k][i] \in Nat
        BY <1>5, MirrorFacts
      <3>2. StoredUpTo(file)
        BY <2>6 DEF MirrorInv
      <3>3. ASSUME NEW k \in Kinds, NEW i \in Ids,
                   i > firstCursor[k], i <= file[k], lab[k][i] = TRUE
            PROVE  arrived'[k][i] >= 1
        <4>1. arrived[k][i] >= 1
          BY <3>2, <3>3 DEF StoredUpTo
        <4>2. arrived'[k][i] >= arrived[k][i]
          BY <1>8
        <4> QED
          BY <3>1, <4>1, <4>2
      <3> QED
        BY <3>2, <3>3 DEF StoredUpTo
    <2> QED
      BY <2>3, <2>4, <2>5, <2>6
  <1>10. BatchFollows'
    <2>1. pass'.cursor[pass'.kind] = Row
      BY <1>2
    <2>2. pass.budget \in Nat /\ Len(pass.batch) \in Nat /\ Len(pass.batch) <= pass.budget
      BY MirrorFacts DEF MirrorInv, BatchFollows, AtRow
    <2>3. Len(pass'.batch) <= pass'.budget
      BY <2>2, RowFollows
    <2> QED
      BY <2>1, <2>3, RowFollows DEF BatchFollows
  <1>11. ShareKept'
    <2>1. ShareKept /\ pass.sent \in [Kinds -> Nat] /\ pass.budget \in Nat /\ Reserve \in Nat
      BY MirrorFacts, ReserveIsNat DEF MirrorInv, AtRow
    <2>2. CASE k0 = "observations"
      BY <2>1, <2>2, MirrorFacts DEF ShareKept
    <2>3. CASE k0 = "outcomes"
      <3>1. pass'.budget + pass'.sent["outcomes"] = pass.budget + pass.sent["outcomes"]
        <4>1. pass.sent["outcomes"] \in Nat /\ "outcomes" \in Kinds
          BY <2>1 DEF Kinds
        <4>2. CASE stores
          BY <2>1, <2>3, <4>1, <4>2
        <4>3. CASE ~stores
          BY <2>1, <2>3, <4>1, <4>3
        <4> QED
          BY <4>2, <4>3
      <3> QED
        BY <2>1, <2>3, <3>1 DEF ShareKept
    <2> QED
      BY <1>1, <2>2, <2>3 DEF Kinds
  <1> QED
    BY <1>6, <1>9, <1>10, <1>11 DEF MirrorInv

\* Fields of the pass when it passes a row.
LEMMA PastFields ==
  ASSUME pass \in Passes
  PROVE  /\ Past.pc = pass.pc /\ Past.kind = pass.kind /\ Past.batch = Tail(pass.batch)
         /\ Past.cursor = [pass.cursor EXCEPT ![pass.kind] = Row]
         /\ Past.budget = pass.budget /\ Past.stopped = pass.stopped /\ Past.sent = pass.sent
         /\ Past = [pc |-> pass.pc, kind |-> pass.kind,
                    cursor |-> [pass.cursor EXCEPT ![pass.kind] = Row],
                    budget |-> pass.budget, batch |-> Tail(pass.batch),
                    stopped |-> pass.stopped, sent |-> pass.sent]
  <1> DEFINE c == [pass.cursor EXCEPT ![pass.kind] = Row]
             q == Tail(pass.batch)
  <1>1. Past = [pass EXCEPT !.batch = q, !.cursor = c]
    BY DEF Past
  <1> HIDE DEF c, q
  <1>2. Past = [pc |-> pass.pc, kind |-> pass.kind, cursor |-> c, budget |-> pass.budget,
                batch |-> q, stopped |-> pass.stopped, sent |-> pass.sent]
    BY <1>1 DEF Passes
  <1> QED
    BY <1>2 DEF c, q

LEMMA LabStoresStep ==
  ASSUME MirrorInv, NEW kind \in Kinds, NEW crosses \in BOOLEAN, LabStores(kind, crosses)
  PROVE  MirrorInv'
  <1>1. /\ lab \in [Kinds -> Seq(BOOLEAN)] /\ Len(lab[kind]) < MaxLabRows
        /\ lab' = [lab EXCEPT ![kind] = Append(lab[kind], crosses)]
        /\ UNCHANGED <<file, pass, firstCursor, arrived, passes, cuts>>
    BY DEF LabStores, MirrorInv, MirrorTyped
  <1>2. /\ Append(lab[kind], crosses) \in Seq(BOOLEAN)
        /\ Len(Append(lab[kind], crosses)) = Len(lab[kind]) + 1
        /\ \A i \in 1 .. Len(lab[kind]) : Append(lab[kind], crosses)[i] = lab[kind][i]
    BY <1>1
  <1>3. lab' \in [Kinds -> Seq(BOOLEAN)]
    BY <1>1, <1>2
  <1>4. ASSUME NEW k \in Kinds
        PROVE  /\ Len(lab[k]) <= Len(lab'[k]) /\ Len(lab'[k]) <= MaxLabRows
               /\ \A i \in 1 .. Len(lab[k]) : lab'[k][i] = lab[k][i]
               /\ Len(lab[k]) \in Nat /\ Len(lab'[k]) \in Nat
    BY <1>1, <1>2, MirrorFacts
  <1>5. MirrorTyped'
    BY <1>1, <1>3, <1>4 DEF MirrorInv, MirrorTyped
  <1>6. \A i \in Ids : i \in Nat \ {0}
    BY DEF Ids
  <1>7. \A k \in Kinds, i \in Ids : i <= Len(lab[k]) => lab'[k][i] = lab[k][i]
    BY <1>4, <1>6
  <1>8. ASSUME NEW c \in [Kinds -> Nat], StoredUpTo(c)
        PROVE  \A k \in Kinds :
                 /\ c[k] <= Len(lab'[k])
                 /\ \A i \in Ids : i > firstCursor'[k] /\ i <= c[k] /\ lab'[k][i] = TRUE => arrived'[k][i] >= 1
    <2> SUFFICES ASSUME NEW k \in Kinds
                 PROVE  /\ c[k] <= Len(lab'[k])
                        /\ \A i \in Ids : i > firstCursor'[k] /\ i <= c[k] /\ lab'[k][i] = TRUE => arrived'[k][i] >= 1
      OBVIOUS
    <2>1. c[k] \in Nat /\ c[k] <= Len(lab[k])
      BY <1>8 DEF StoredUpTo
    <2>2. \A i \in Ids : i <= c[k] => i <= Len(lab[k])
      BY <1>4, <1>6, <2>1
    <2>3. c[k] <= Len(lab'[k])
      BY <1>4, <2>1
    <2>4. ASSUME NEW i \in Ids, i > firstCursor[k], i <= c[k], lab'[k][i] = TRUE
          PROVE  arrived[k][i] >= 1
      <3>1. lab[k][i] = TRUE
        BY <1>7, <2>2, <2>4
      <3> QED
        BY <1>8, <2>4, <3>1 DEF StoredUpTo
    <2> QED
      BY <1>1, <2>3, <2>4
  <1>9. StoredRightly'
    <2> SUFFICES ASSUME NEW k \in Kinds, NEW i \in Ids
                 PROVE  /\ arrived[k][i] > 0 => i <= Len(lab'[k]) /\ lab'[k][i] = TRUE
                        /\ arrived[k][i] <= 1 + cuts
      BY <1>1 DEF StoredRightly
    <2>1. /\ arrived[k][i] > 0 => i <= Len(lab[k]) /\ lab[k][i] = TRUE
          /\ arrived[k][i] <= 1 + cuts
      BY DEF MirrorInv, StoredRightly
    <2> QED
      BY <1>4, <1>6, <1>7, <2>1
  <1>10. file # <<>> => StoredUpTo(file)'
    BY <1>1, <1>8 DEF MirrorInv, MirrorTyped, StoredUpTo
  <1>11. pass.pc # "idle" => StoredUpTo(pass.cursor)' /\ BatchFollows' /\ ShareKept'
    <2> SUFFICES ASSUME pass.pc # "idle" PROVE StoredUpTo(pass.cursor)' /\ BatchFollows' /\ ShareKept'
      OBVIOUS
    <2>1. StoredUpTo(pass.cursor)'
      BY <1>1, <1>8 DEF MirrorInv, MirrorTyped, StoredUpTo
    <2>2. ShareKept'
      BY <1>1 DEF MirrorInv, ShareKept
    <2>3. BatchFollows'
      <3>1. /\ pass.cursor[pass.kind] \in Nat /\ Len(pass.batch) \in Nat /\ pass.kind \in Kinds
            /\ pass.cursor[pass.kind] + Len(pass.batch) <= Len(lab[pass.kind])
        BY MirrorFacts DEF MirrorInv, BatchFollows
      <3>2. pass.cursor[pass.kind] + Len(pass.batch) <= Len(lab'[pass.kind])
        BY <1>4, <3>1
      <3> QED
        BY <1>1, <3>2 DEF MirrorInv, BatchFollows
    <2> QED
      BY <2>1, <2>2, <2>3
  <1> QED
    BY <1>1, <1>5, <1>9, <1>10, <1>11 DEF MirrorInv, CutBeyond

LEMMA BeginsStep ==
  ASSUME MirrorInv, Begins
  PROVE  MirrorInv'
  <1>1. PICK cursor \in [Kinds -> 0 .. MaxLabRows] :
          /\ IF file = <<>> THEN start_cursor(cursor) ELSE cursor = file
          /\ firstCursor' = IF file = <<>> THEN cursor ELSE firstCursor
          /\ pass' = [NoPass EXCEPT !.pc = "fetch", !.cursor = cursor, !.budget = max_rows - Reserve]
    BY Zenon DEF Begins
  <1>2. pass.pc = "idle" /\ UNCHANGED <<lab, file, arrived, cuts>>
    BY DEF Begins
  <1>3. cursor \in [Kinds -> Nat]
    BY <1>1, MirrorAssumption
  <1>4. /\ pass'.pc = "fetch" /\ pass'.kind = "observations" /\ pass'.cursor = cursor
        /\ pass'.batch = <<>> /\ pass'.sent["outcomes"] = 0 /\ pass'.budget = max_rows - Reserve
        /\ pass' \in Passes
    <2>1. max_rows - Reserve \in Nat
      BY ReserveIsNat, MirrorAssumption
    <2> QED
      BY <1>1, <1>3, <2>1, NoPassTyped DEF Passes, Cursors
  <1>5. MirrorTyped'
    BY <1>1, <1>2, <1>3, <1>4 DEF MirrorInv, MirrorTyped
  <1>6. StoredRightly'
    BY <1>2 DEF MirrorInv, StoredRightly
  <1>7. file' # <<>> => StoredUpTo(file)'
    BY <1>1, <1>2 DEF MirrorInv, StoredUpTo
  <1>8. StoredUpTo(pass.cursor)' /\ CutBeyond(pass.cursor)'
    <2>1. CASE file = <<>>
      <3>1. \A k \in Kinds : cursor[k] <= Len(lab[k]) /\ cursor[k] \in Nat
        BY <1>1, <1>3, <2>1, MirrorFacts DEF start_cursor
      <3>2. \A i \in Ids : i \in Nat
        BY DEF Ids
      <3>3. StoredUpTo(pass.cursor)'
        BY <1>1, <1>2, <1>4, <2>1, <3>1, <3>2 DEF StoredUpTo
      <3>4. CutBeyond(pass.cursor)'
        BY <1>2, <2>1 DEF MirrorInv, CutBeyond
      <3> QED
        BY <3>3, <3>4
    <2>2. CASE file # <<>>
      BY <1>1, <1>2, <1>4, <2>2 DEF MirrorInv, StoredUpTo, CutBeyond
    <2> QED
      BY <2>1, <2>2
  <1>9. BatchFollows' /\ ShareKept'
    <2>1. pass'.cursor[pass'.kind] \in Nat /\ pass'.cursor[pass'.kind] <= Len(lab'[pass'.kind])
          /\ pass'.budget \in Nat
      BY <1>3, <1>4, <1>8 DEF StoredUpTo, Kinds, Passes
    <2>2. BatchFollows'
      <3>1. Len(<<>>) = 0
        OBVIOUS
      <3> QED
        BY <1>4, <2>1, <3>1 DEF BatchFollows
    <2> QED
      BY <1>4, <2>2 DEF ShareKept
  <1> QED
    BY <1>2, <1>4, <1>5, <1>6, <1>7, <1>8, <1>9 DEF MirrorInv

\* What a pass fetches follows its cursor and fits its budget.
LEMMA PendingFollows ==
  ASSUME MirrorInv, pass.pc = "fetch"
  PROVE  LET rows == Pending(pass.kind)
         IN  /\ rows \in Seq(Nat) /\ Len(rows) \in Nat /\ Len(rows) <= pass.budget
             /\ \A j \in 1 .. Len(rows) : rows[j] = pass.cursor[pass.kind] + j
             /\ pass.cursor[pass.kind] + Len(rows) <= Len(lab[pass.kind])
  <1> DEFINE from == pass.cursor[pass.kind]
             limit == IF pass.budget < BatchRows THEN pass.budget ELSE BatchRows
             top == Len(lab[pass.kind])
             to == IF from + limit < top THEN from + limit ELSE top
             rows == [i \in 1 .. (to - from) |-> from + i]
  <1>1. from \in Nat /\ top \in Nat /\ from <= top /\ pass.budget \in Nat
    BY MirrorFacts DEF MirrorInv, StoredUpTo
  <1>2. limit \in Nat /\ limit <= pass.budget
    BY <1>1, MirrorAssumption
  <1> HIDE DEF limit, top, from
  <1>3. to - from \in Nat /\ to - from <= limit /\ to <= top /\ to \in Nat
    BY <1>1, <1>2
  <1> HIDE DEF to
  <1>4. rows \in Seq(Nat) /\ Len(rows) = to - from
    BY <1>1, <1>3
  <1>5. \A j \in 1 .. (to - from) : rows[j] = from + j
    OBVIOUS
  <1> HIDE DEF rows
  <1>6. Pending(pass.kind) = rows
    BY DEF Pending, rows, to, from, limit, top
  <1>7. Len(rows) <= pass.budget /\ from + Len(rows) <= top
    BY <1>1, <1>2, <1>3, <1>4
  <1> QED
    BY <1>3, <1>4, <1>5, <1>6, <1>7 DEF from, top

LEMMA FetchedStep ==
  ASSUME MirrorInv, Fetched
  PROVE  MirrorInv'
  <1> DEFINE rows == IF pass.stopped \/ pass.budget = 0 THEN <<>> ELSE Pending(pass.kind)
  <1>1. /\ pass.pc = "fetch" /\ UNCHANGED <<lab, file, firstCursor, arrived, cuts>>
        /\ pass \in Passes /\ StoredUpTo(pass.cursor) /\ CutBeyond(pass.cursor)
        /\ BatchFollows /\ ShareKept /\ pass.cursor \in [Kinds -> Nat]
    BY DEF Fetched, MirrorInv, MirrorTyped
  <1>2. pass' = IF rows # <<>> THEN [pass EXCEPT !.pc = "rows", !.batch = rows]
                ELSE IF pass.kind = "observations"
                THEN [pass EXCEPT !.kind = "outcomes", !.budget = @ + Reserve]
                ELSE [pass EXCEPT !.pc = "final"]
    BY DEF Fetched
  <1>3. /\ pass.batch = <<>> /\ pass.budget \in Nat /\ pass.sent["outcomes"] \in Nat
        /\ Reserve \in Nat
    BY <1>1, MirrorFacts, ReserveIsNat DEF BatchFollows
  <1>4. rows # <<>> => rows = Pending(pass.kind)
    OBVIOUS
  <1> HIDE DEF rows
  <1>5. CASE rows # <<>>
    <2>1. pass' = [pass EXCEPT !.pc = "rows", !.batch = rows]
      BY <1>2, <1>5
    <2>2. rows \in Seq(Nat)
      BY <1>1, <1>4, <1>5, PendingFollows
    <2>3. /\ pass' \in Passes /\ pass'.pc = "rows" /\ pass'.batch = rows /\ pass'.kind = pass.kind
          /\ pass'.cursor = pass.cursor /\ pass'.budget = pass.budget /\ pass'.sent = pass.sent
      BY <1>1, <2>1, <2>2 DEF Passes
    <2>4. BatchFollows'
      BY <1>1, <1>4, <1>5, <2>3, PendingFollows DEF BatchFollows
    <2>5. ShareKept'
      BY <1>1, <2>3 DEF ShareKept
    <2> QED
      BY <1>1, <2>3, <2>4, <2>5
      DEF MirrorInv, MirrorTyped, StoredRightly, StoredUpTo, CutBeyond
  <1>6. CASE rows = <<>> /\ pass.kind = "observations"
    <2>1. pass' = [pass EXCEPT !.kind = "outcomes", !.budget = pass.budget + Reserve]
      BY <1>2, <1>6
    <2>2. /\ pass' \in Passes /\ pass'.pc = "fetch" /\ pass'.batch = <<>> /\ pass'.kind = "outcomes"
          /\ pass'.cursor = pass.cursor /\ pass'.budget = pass.budget + Reserve /\ pass'.sent = pass.sent
      <3>1. "outcomes" \in Kinds /\ pass.budget + Reserve \in Nat
        BY <1>3 DEF Kinds
      <3> QED
        BY <1>1, <1>3, <2>1, <3>1 DEF Passes
    <2>3. BatchFollows'
      <3>1. pass.cursor["outcomes"] \in Nat /\ pass.cursor["outcomes"] <= Len(lab["outcomes"])
        BY <1>1 DEF StoredUpTo, Kinds
      <3>2. Len(<<>>) = 0
        OBVIOUS
      <3> QED
        BY <1>1, <1>3, <2>2, <3>1, <3>2 DEF BatchFollows
    <2>4. ShareKept'
      BY <1>1, <1>3, <1>6, <2>2 DEF ShareKept
    <2> QED
      BY <1>1, <2>2, <2>3, <2>4
      DEF MirrorInv, MirrorTyped, StoredRightly, StoredUpTo, CutBeyond
  <1>7. CASE rows = <<>> /\ pass.kind # "observations"
    <2>1. pass' = [pass EXCEPT !.pc = "final"]
      BY <1>2, <1>7
    <2>2. /\ pass' \in Passes /\ pass'.pc = "final" /\ pass'.batch = <<>> /\ pass'.kind = pass.kind
          /\ pass'.cursor = pass.cursor /\ pass'.budget = pass.budget /\ pass'.sent = pass.sent
      BY <1>1, <1>3, <2>1 DEF Passes
    <2>3. BatchFollows' /\ ShareKept'
      BY <1>1, <1>3, <1>7, <2>2 DEF BatchFollows, ShareKept
    <2> QED
      BY <1>1, <2>2, <2>3
      DEF MirrorInv, MirrorTyped, StoredRightly, StoredUpTo, CutBeyond
  <1> QED
    BY <1>5, <1>6, <1>7

LEMMA RowStep ==
  ASSUME MirrorInv, Skipped \/ Accepted
  PROVE  MirrorInv'
  <1>1. AtRow /\ pass \in Passes /\ pass.pc = "rows"
    BY DEF Skipped, Accepted, AtRow, MirrorInv, MirrorTyped
  <1>2. /\ pass.kind \in Kinds /\ pass.budget \in Nat /\ pass.budget >= 1 /\ Tail(pass.batch) \in Seq(Nat)
        /\ pass.sent \in [Kinds -> Nat] /\ Row \in Nat /\ pass.cursor \in [Kinds -> Nat]
    BY <1>1, MirrorFacts, RowFollows
  <1>3. [pass.cursor EXCEPT ![pass.kind] = Row] \in [Kinds -> Nat]
    BY <1>2
  <1>4. Past \in Passes
    BY <1>1, <1>2, <1>3, PastFields DEF Passes, Cursors
  <1>5. CASE Skipped
    <2>1. /\ ~Crosses /\ pass' = Past
          /\ UNCHANGED <<lab, file, firstCursor, arrived, passes, cuts>>
      BY <1>5 DEF Skipped
    <2>2. /\ pass'.pc = "rows" /\ pass'.kind = pass.kind /\ pass'.batch = Tail(pass.batch)
          /\ pass'.cursor = [pass.cursor EXCEPT ![pass.kind] = Row]
          /\ pass'.budget = pass.budget /\ pass'.sent = pass.sent /\ pass' \in Passes
      BY <1>1, <1>4, <2>1, PastFields
    <2>3. FALSE \in BOOLEAN /\ (Crosses = TRUE => FALSE) /\ pass'.budget = pass.budget - 0
      BY <1>2, <2>1, <2>2
    <2> QED
      BY <1>1, <2>1, <2>2, <2>3, RowPassed
  <1>6. CASE Accepted
    <2>1. /\ Crosses /\ arrived' = StoredOnceMore /\ UNCHANGED <<lab, file, firstCursor, passes, cuts>>
          /\ pass' = [Past EXCEPT !.budget = @ - 1, !.sent[pass.kind] = @ + 1]
      BY <1>6 DEF Accepted
    <2>2. Crosses = TRUE
      <3>1. Crosses \in BOOLEAN
        BY <1>1, <1>2, RowFollows DEF Crosses, MirrorInv, MirrorTyped
      <3> QED
        BY <2>1, <3>1
    <2> DEFINE more == [pass.sent EXCEPT ![pass.kind] = @ + 1]
    <2>3. more \in [Kinds -> Nat]
      BY <1>2
    <2>4. pass' = [Past EXCEPT !.budget = Past.budget - 1, !.sent = more]
      BY <2>1, PastFields, <1>1
    <2> HIDE DEF more
    <2>5. /\ pass'.budget = pass.budget - 1 /\ pass'.sent = more /\ pass'.pc = Past.pc
          /\ pass'.kind = Past.kind /\ pass'.batch = Past.batch /\ pass'.cursor = Past.cursor
          /\ pass' \in Passes
      <3>1. Past.budget = pass.budget /\ pass.budget - 1 \in Nat
        BY <1>1, <1>2, PastFields
      <3> QED
        BY <1>4, <2>3, <2>4, <3>1 DEF Passes
    <2> QED
      BY <1>1, <2>1, <2>2, <2>5, PastFields, RowPassed DEF more
  <1> QED
    BY <1>5, <1>6

LEMMA RefusedStep ==
  ASSUME MirrorInv, Refused
  PROVE  MirrorInv'
  <1>1. /\ AtRow /\ pass \in Passes /\ pass.pc = "rows" /\ pass' = [pass EXCEPT !.batch = <<>>, !.stopped = TRUE]
        /\ UNCHANGED <<lab, file, firstCursor, arrived, passes, cuts>>
    BY DEF Refused, AtRow, MirrorInv, MirrorTyped
  <1>2. <<>> \in Seq(Nat) /\ Len(<<>>) = 0
    OBVIOUS
  <1>3. /\ pass' \in Passes /\ pass'.pc = "rows" /\ pass'.batch = <<>> /\ pass'.kind = pass.kind
        /\ pass'.cursor = pass.cursor /\ pass'.budget = pass.budget /\ pass'.sent = pass.sent
    BY <1>1, <1>2 DEF Passes
  <1>4. pass.cursor \in [Kinds -> Nat] /\ StoredUpTo(pass.cursor) /\ CutBeyond(pass.cursor) /\ ShareKept
    BY <1>1 DEF MirrorInv, MirrorTyped
  <1>5. BatchFollows'
    <2>1. /\ pass.cursor[pass.kind] \in Nat /\ pass.cursor[pass.kind] <= Len(lab[pass.kind])
          /\ pass.budget \in Nat
      BY <1>4, MirrorFacts DEF StoredUpTo
    <2> QED
      BY <1>1, <1>2, <1>3, <2>1 DEF BatchFollows
  <1> QED
    BY <1>1, <1>3, <1>4, <1>5
    DEF MirrorInv, MirrorTyped, StoredRightly, StoredUpTo, CutBeyond, ShareKept

LEMMA SavedStep ==
  ASSUME MirrorInv, save_state
  PROVE  MirrorInv'
  <1>1. /\ pass \in Passes /\ pass.pc \in {"rows", "final"} /\ pass.batch = <<>>
        /\ file' = pass.cursor /\ UNCHANGED <<lab, firstCursor, arrived, cuts>>
        /\ pass' = [pass EXCEPT !.pc = IF @ = "rows" THEN "fetch" ELSE "done"]
    BY DEF save_state, MirrorInv, MirrorTyped, BatchFollows
  <1>2. /\ pass.cursor \in [Kinds -> Nat] /\ StoredUpTo(pass.cursor) /\ CutBeyond(pass.cursor)
        /\ BatchFollows /\ ShareKept
    BY <1>1 DEF MirrorInv, MirrorTyped
  <1>3. /\ pass' \in Passes /\ pass'.pc = (IF pass.pc = "rows" THEN "fetch" ELSE "done")
        /\ pass'.batch = <<>> /\ pass'.kind = pass.kind
        /\ pass'.cursor = pass.cursor /\ pass'.budget = pass.budget /\ pass'.sent = pass.sent
    BY <1>1 DEF Passes
  <1>4. BatchFollows' /\ ShareKept'
    BY <1>1, <1>2, <1>3 DEF BatchFollows, ShareKept
  <1> QED
    BY <1>1, <1>2, <1>3, <1>4
    DEF MirrorInv, MirrorTyped, StoredRightly, StoredUpTo, CutBeyond

LEMMA PassEndsStep ==
  ASSUME MirrorInv, PassEnds
  PROVE  MirrorInv'
  <1>1. /\ pass.pc = "done" /\ pass' = NoPass /\ UNCHANGED <<lab, file, firstCursor, arrived, cuts>>
        /\ pass.cursor \in [Kinds -> Nat]
    BY DEF PassEnds, MirrorInv, MirrorTyped
  <1>2. file # <<>> /\ CutBeyond(file)
    BY <1>1, CursorsAreNotEmpty DEF MirrorInv
  <1> QED
    BY <1>1, <1>2, NoPassTyped DEF MirrorInv, MirrorTyped, StoredRightly, StoredUpTo, CutBeyond

LEMMA CutStep ==
  ASSUME MirrorInv, Cut
  PROVE  MirrorInv'
  <1>1. /\ pass.pc # "idle" /\ pass' = NoPass /\ cuts' = cuts + 1
        /\ UNCHANGED <<lab, file, firstCursor>>
        /\ arrived' = arrived \/ (AtRow /\ Crosses /\ arrived' = StoredOnceMore)
    BY DEF Cut
  <1>2. StoredRightly /\ CutBeyond(pass.cursor)
    BY <1>1 DEF MirrorInv
  <1>3. arrived \in [Kinds -> [Ids -> Nat]] /\ cuts \in Nat
    BY DEF MirrorInv, MirrorTyped
  <1>4. ASSUME AtRow, Crosses, arrived' = StoredOnceMore
        PROVE  /\ arrived' \in [Kinds -> [Ids -> Nat]]
               /\ \A k \in Kinds, i \in Ids :
                    \/ arrived'[k][i] = arrived[k][i]
                    \/ /\ arrived'[k][i] = arrived[k][i] + 1
                       /\ i <= Len(lab[k]) /\ lab[k][i] = TRUE /\ arrived[k][i] <= cuts
    <2> DEFINE k0 == pass.kind
               r0 == Row
    <2>1. /\ k0 \in Kinds /\ r0 \in Ids /\ r0 <= Len(lab[k0]) /\ r0 = pass.cursor[k0] + 1
          /\ pass.cursor[k0] \in Nat /\ r0 \in Nat
      BY <1>1, <1>4, MirrorFacts, RowFollows
    <2>2. arrived[k0][r0] <= cuts
      BY <1>2, <2>1 DEF CutBeyond
    <2>3. lab[k0][r0] = TRUE
      <3>1. lab[k0] \in Seq(BOOLEAN) /\ Len(lab[k0]) \in Nat
        BY <2>1 DEF MirrorInv, MirrorTyped
      <3>2. r0 \in 1 .. Len(lab[k0])
        BY <2>1, <3>1
      <3>3. lab[k0][r0] \in BOOLEAN
        BY <3>1, <3>2
      <3> QED
        BY <1>4, <3>3 DEF Crosses
    <2>4. arrived' = [arrived EXCEPT ![k0] = [arrived[k0] EXCEPT ![r0] = arrived[k0][r0] + 1]]
      BY <1>4 DEF StoredOnceMore
    <2> HIDE DEF k0, r0
    <2>5. [arrived[k0] EXCEPT ![r0] = arrived[k0][r0] + 1] \in [Ids -> Nat]
      BY <1>3, <2>1
    <2>6. arrived' \in [Kinds -> [Ids -> Nat]]
      BY <1>3, <2>4, <2>5
    <2>7. \A i \in Ids : arrived'[k0][i] = IF i = r0 THEN arrived[k0][r0] + 1 ELSE arrived[k0][i]
      BY <1>3, <2>1, <2>4
    <2>8. \A k \in Kinds : k # k0 => arrived'[k] = arrived[k]
      BY <1>3, <2>4
    <2> QED
      BY <2>1, <2>2, <2>3, <2>6, <2>7, <2>8
  <1>5. /\ arrived' \in [Kinds -> [Ids -> Nat]]
        /\ \A k \in Kinds, i \in Ids :
             \/ arrived'[k][i] = arrived[k][i]
             \/ /\ arrived'[k][i] = arrived[k][i] + 1
                /\ i <= Len(lab[k]) /\ lab[k][i] = TRUE /\ arrived[k][i] <= cuts
    BY <1>1, <1>3, <1>4
  <1>6. ASSUME NEW k \in Kinds, NEW i \in Ids
        PROVE  /\ arrived'[k][i] > 0 => i <= Len(lab[k]) /\ lab[k][i] = TRUE
               /\ arrived'[k][i] <= cuts'
               /\ arrived[k][i] >= 1 => arrived'[k][i] >= 1
    <2>1. arrived[k][i] \in Nat
      BY <1>3
    <2>2. /\ arrived[k][i] > 0 => i <= Len(lab[k]) /\ lab[k][i] = TRUE
          /\ arrived[k][i] <= 1 + cuts
      BY <1>2 DEF StoredRightly
    <2>3. cuts \in Nat /\ cuts' = cuts + 1
      BY <1>1, <1>3
    <2>4. CASE arrived'[k][i] = arrived[k][i]
      BY <2>1, <2>2, <2>3, <2>4
    <2>5. CASE /\ arrived'[k][i] = arrived[k][i] + 1
               /\ i <= Len(lab[k]) /\ lab[k][i] = TRUE /\ arrived[k][i] <= cuts
      BY <2>1, <2>3, <2>5
    <2> QED
      BY <1>5, <2>4, <2>5
  <1>7. cuts' \in Nat /\ \A k \in Kinds, i \in Ids : arrived'[k][i] \in Nat
    BY <1>1, <1>3, <1>5
  <1>8. StoredRightly'
    <2> SUFFICES ASSUME NEW k \in Kinds, NEW i \in Ids
                 PROVE  /\ arrived'[k][i] > 0 => i <= Len(lab[k]) /\ lab[k][i] = TRUE
                        /\ arrived'[k][i] <= 1 + cuts'
      BY <1>1 DEF StoredRightly
    <2>1. arrived'[k][i] \in Nat /\ arrived'[k][i] <= cuts' /\ cuts' \in Nat
      BY <1>6, <1>7
    <2>2. arrived'[k][i] <= 1 + cuts'
      BY <2>1
    <2>3. arrived'[k][i] > 0 => i <= Len(lab[k]) /\ lab[k][i] = TRUE
      BY <1>6
    <2> QED
      BY <2>2, <2>3
  <1>9. file' # <<>> => StoredUpTo(file)' /\ CutBeyond(file)'
    BY <1>1, <1>6 DEF MirrorInv, StoredUpTo, CutBeyond
  <1> QED
    BY <1>1, <1>5, <1>6, <1>7, <1>8, <1>9, NoPassTyped DEF MirrorInv, MirrorTyped

LEMMA MirrorStep ==
  ASSUME MirrorInv, [MirrorNext]_mirrorVars
  PROVE  MirrorInv'
  <1>1. CASE UNCHANGED mirrorVars
    BY <1>1 DEF mirrorVars, MirrorInv, MirrorTyped, StoredRightly, StoredUpTo, CutBeyond,
                BatchFollows, ShareKept
  <1> QED
    BY <1>1, LabStoresStep, BeginsStep, FetchedStep, RowStep, RefusedStep, SavedStep, PassEndsStep,
       CutStep DEF MirrorNext

(* Whatever passes are cut and whenever: what the saved cursor has passed  *)
(* is in production, nothing is there that may not cross, and no row more  *)
(* often than once and once for each cut; and a pass leaves the outcomes   *)
(* their share of the budget.                                              *)
THEOREM MirrorsOnce == Spec => []MirroredOnce
  <1>1. Init => MirrorInv
    BY MirrorInitially DEF Init
  <1>2. MirrorInv /\ [Next]_vars => MirrorInv'
    BY MachineStep, MirrorStep
  <1>3. MirrorInv => MirroredOnce
    <2> SUFFICES ASSUME MirrorInv PROVE MirroredOnce
      OBVIOUS
    <2>1. ASSUME NEW k \in Kinds, NEW i \in Ids
          PROVE  /\ file # <<>> /\ i > firstCursor[k] /\ i <= file[k] /\ lab[k][i] => arrived[k][i] >= 1
                 /\ arrived[k][i] > 0 => lab[k][i]
                 /\ arrived[k][i] <= 1 + cuts
      <3>1. i \in Nat \ {0} /\ lab[k] \in Seq(BOOLEAN) /\ Len(lab[k]) \in Nat
        BY DEF Ids, MirrorInv, MirrorTyped
      <3>2. i <= Len(lab[k]) => lab[k][i] \in BOOLEAN
        BY <3>1
      <3>3. ASSUME file # <<>>, i > firstCursor[k], i <= file[k], lab[k][i]
            PROVE  arrived[k][i] >= 1
        <4>1. file[k] <= Len(lab[k]) /\ file[k] \in Nat /\ StoredUpTo(file)
          BY <3>3 DEF MirrorInv, MirrorTyped, StoredUpTo
        <4>2. lab[k][i] = TRUE
          BY <3>1, <3>2, <3>3, <4>1
        <4> QED
          BY <3>3, <4>1, <4>2 DEF StoredUpTo
      <3>4. /\ arrived[k][i] > 0 => lab[k][i]
            /\ arrived[k][i] <= 1 + cuts
        BY DEF MirrorInv, StoredRightly
      <3> QED
        BY <3>3, <3>4
    <2>2. ASSUME pass.pc = "final"
          PROVE  pass.sent["outcomes"] >= Reserve \/ pass.budget > 0
      <3>1. pass.kind = "outcomes"
        BY <2>2, MirrorFacts DEF MirrorInv, ShareKept, Kinds
      <3>2. pass.budget + pass.sent["outcomes"] >= Reserve
        BY <2>2, <3>1 DEF MirrorInv, ShareKept
      <3>3. pass.budget \in Nat /\ pass.sent["outcomes"] \in Nat /\ Reserve \in Nat
        BY MirrorFacts, ReserveIsNat
      <3> QED
        BY <3>2, <3>3
    <2> QED
      BY <2>1, <2>2 DEF MirroredOnce, Ids
  <1> QED
    BY <1>1, <1>2, <1>3, PTL DEF Spec

-----------------------------------------------------------------------------
(* The onboarding test.  What is on file of today is the base of the run   *)
(* that is going on; its own calls, and those of the runs that nobody      *)
(* counts, are all that can lie between that and what was really called.   *)

OnDisk(s) ==
  /\ s = [next |-> s.next, today |-> s.today, calls |-> s.calls, dead |-> s.dead]
  /\ s.today \in BOOLEAN /\ s.calls \in [Providers -> Nat]

Tested(t) ==
  /\ t = [pc |-> t.pc, state |-> t.state, idx |-> t.idx, n |-> t.n, round |-> t.round,
          attempt |-> t.attempt, calls |-> t.calls, dead |-> t.dead]
  /\ t.pc \in {"idle", "call", "file"}
  /\ t.round \in 1 .. MAX_MODEL_CALLS /\ t.attempt \in 1 .. MAX_ATTEMPTS /\ t.calls \in Nat

OnboardTyped ==
  /\ OnDisk(saved) /\ Tested(test) /\ OnDisk(test.state)
  /\ made \in [Providers -> Nat] /\ uncounted \in Nat

\* No run makes more calls than its rounds and their attempts.
RunEnds ==
  /\ test.pc = "call" => test.calls <= (test.round - 1) * MAX_ATTEMPTS + (test.attempt - 1)
  /\ test.calls <= RunCalls

Testing == test.pc # "idle"
OnBooks(p) == IF saved.today THEN saved.calls[p] ELSE 0
OwnCalls(p) == IF Testing /\ Mine = p THEN test.calls ELSE 0

\* What a run read is what is on file; one that began yesterday files nothing of today.
RunKnows ==
  Testing =>
    IF test.state.today
    THEN \A p \in Providers :
           /\ test.state.calls[p] = OnBooks(p)
           /\ Mine = p => OnBooks(p) <= DAILY_CAP - 1
    ELSE ~saved.today /\ uncounted >= 1

\* The runs of today that are over and on no file.
Lost == IF Testing /\ ~test.state.today THEN uncounted - 1 ELSE uncounted

DayAdds ==
  \A p \in Providers :
    /\ OnBooks(p) <= DAILY_CAP - 1 + RunCalls
    /\ made[p] <= OnBooks(p) + OwnCalls(p) + RunCalls * Lost
    /\ OnBooks(p) + (IF test.state.today THEN OwnCalls(p) ELSE 0) <= made[p]

OnboardInv == OnboardTyped /\ RunEnds /\ RunKnows /\ DayAdds

LEMMA RunsAdd ==
  /\ RunCalls \in Nat \ {0}
  /\ \A u \in Nat : RunCalls * u \in Nat /\ RunCalls * (u + 1) = RunCalls * u + RunCalls
  /\ RunCalls * 0 = 0
  <1>1. \A m, a \in Nat \ {0} : m * a \in Nat \ {0}
    BY SMT
  <1>2. RunCalls \in Nat \ {0}
    BY <1>1, OnboardAssumption DEF RunCalls
  <1>3. \A r, u \in Nat : r * u \in Nat /\ r * (u + 1) = r * u + r /\ r * 0 = 0
    BY SMT
  <1> QED
    BY <1>2, <1>3

\* A round has MAX_ATTEMPTS attempts, and a run MAX_MODEL_CALLS rounds.
LEMMA AttemptsAdd ==
  ASSUME NEW r \in 1 .. MAX_MODEL_CALLS, NEW a \in 1 .. MAX_ATTEMPTS, NEW c \in Nat,
         c <= (r - 1) * MAX_ATTEMPTS + (a - 1)
  PROVE  /\ c + 1 <= RunCalls
         /\ c + 1 <= (r - 1) * MAX_ATTEMPTS + ((a + 1) - 1)
         /\ c + 1 <= ((r + 1) - 1) * MAX_ATTEMPTS + (1 - 1)
  <1>1. /\ MAX_ATTEMPTS \in Nat \ {0} /\ MAX_MODEL_CALLS \in Nat \ {0}
        /\ r \in Nat /\ a \in Nat /\ 1 <= r /\ r <= MAX_MODEL_CALLS /\ 1 <= a /\ a <= MAX_ATTEMPTS
    BY OnboardAssumption
  <1>2. \A x \in Int, y \in Nat : (x + 1) * y = x * y + y /\ x * y \in Int
    BY SMT
  <1>3. \A x, z, y \in Nat : x <= z => x * y <= z * y
    BY SMT
  <1>4. (r - 1) * MAX_ATTEMPTS \in Int /\ r * MAX_ATTEMPTS = (r - 1) * MAX_ATTEMPTS + MAX_ATTEMPTS
    <2>1. r - 1 \in Int /\ (r - 1) + 1 = r
      BY <1>1
    <2> QED
      BY <1>1, <1>2, <2>1
  <1>5. r * MAX_ATTEMPTS <= RunCalls /\ r * MAX_ATTEMPTS \in Int /\ RunCalls \in Nat
    BY <1>1, <1>2, <1>3, RunsAdd DEF RunCalls
  <1>6. ((r + 1) - 1) = r
    BY <1>1
  <1>7. \A x, y \in Int : c <= x + (a - 1) /\ y = x + MAX_ATTEMPTS => c + 1 <= y /\ c + 1 <= x + ((a + 1) - 1)
    BY <1>1
  <1> QED
    BY <1>1, <1>4, <1>5, <1>6, <1>7

LEMMA OnboardInitially == OnboardInit => OnboardInv
  <1> SUFFICES ASSUME OnboardInit PROVE OnboardInv
    OBVIOUS
  <1> USE DEF OnboardInit
  <1>1. OnboardTyped
    <2>1. NoCalls \in [Providers -> Nat] /\ OnDisk(FreshFile)
      BY DEF OnDisk, FreshFile, NoCalls
    <2>2. Tested(NoTest) /\ NoTest.state = FreshFile
      BY OnboardAssumption DEF Tested, NoTest
    <2> QED
      BY <2>1, <2>2 DEF OnboardTyped
  <1>2. RunEnds /\ RunKnows
    BY RunsAdd DEF RunEnds, RunKnows, Testing, NoTest
  <1>3. DayAdds
    <2>1. DAILY_CAP \in Nat \ {0}
      BY OnboardAssumption
    <2>2. Lost = 0
      BY DEF Lost, Testing, NoTest
    <2> QED
      BY <2>1, <2>2, RunsAdd DEF DayAdds, OnBooks, OwnCalls, Testing, NoTest, NoCalls, FreshFile
  <1> QED
    BY <1>1, <1>2, <1>3 DEF OnboardInv

LEMMA LoadedIsOnDisk ==
  ASSUME OnDisk(saved)
  PROVE  /\ OnDisk(Loaded) /\ Loaded.today
         /\ \A p \in Providers : Loaded.calls[p] = OnBooks(p)
         /\ \A n : LET f == [Loaded EXCEPT !.next = n]
                  IN  OnDisk(f) /\ f.today /\ f.calls = Loaded.calls
  <1>1. OnDisk(Loaded) /\ Loaded.today
    BY DEF OnDisk, Loaded, NoCalls
  <1>2. \A p \in Providers : Loaded.calls[p] = OnBooks(p)
    BY DEF OnDisk, Loaded, NoCalls, OnBooks
  <1>3. ASSUME NEW n, NEW f, f = [Loaded EXCEPT !.next = n]
        PROVE  OnDisk(f) /\ f.today /\ f.calls = Loaded.calls
    <2>1. f = [next |-> n, today |-> Loaded.today, calls |-> Loaded.calls, dead |-> Loaded.dead]
      BY <1>1, <1>3 DEF OnDisk
    <2> QED
      BY <1>1, <2>1 DEF OnDisk
  <1> QED
    BY <1>1, <1>2, <1>3

\* A start: the run knows what is on file, or the turn is passed.
LEMMA StartsKeeps ==
  ASSUME OnboardInv, Starts
  PROVE  OnboardInv'
  <1> USE DEF OnboardInv
  <1> DEFINE idx == NextAlive(Loaded.next, Loaded.dead) % Count
  <1>1. /\ OnDisk(Loaded) /\ Loaded.today
        /\ \A p \in Providers : Loaded.calls[p] = OnBooks(p)
    BY LoadedIsOnDisk DEF OnboardTyped
  <1>2. ~Testing /\ UNCHANGED <<made, uncounted>> /\ DAILY_CAP \in Nat /\ RunCalls \in Nat
    BY OnboardAssumption, RunsAdd DEF Starts, Testing
  <1>3. \/ (\E n : saved' = [Loaded EXCEPT !.next = n]) /\ UNCHANGED test
        \/ /\ test' = [NoTest EXCEPT !.pc = "call", !.state = Loaded, !.idx = idx,
                                     !.n = NextAlive(Loaded.next, Loaded.dead)]
           /\ UNCHANGED saved
           /\ ~OverCap(Loaded, ModelProvider(idx))
    BY DEF Starts
  <1> HIDE DEF idx
  <1>4. CASE (\E n : saved' = [Loaded EXCEPT !.next = n]) /\ UNCHANGED test
    <2>1. OnDisk(saved') /\ saved'.today /\ saved'.calls = Loaded.calls
      BY <1>4, LoadedIsOnDisk DEF OnboardTyped
    <2>2. \A p \in Providers : OnBooks(p)' = OnBooks(p)
      BY <1>1, <2>1 DEF OnBooks
    <2>3. OnboardTyped'
      BY <1>2, <1>4, <2>1 DEF OnboardTyped
    <2>4. RunEnds' /\ RunKnows'
      BY <1>2, <1>4 DEF RunEnds, RunKnows, Testing
    <2>5. DayAdds'
      BY <1>2, <1>4, <2>2 DEF DayAdds, OwnCalls, Testing, Lost
    <2> QED
      BY <2>3, <2>4, <2>5
  <1>5. CASE /\ test' = [NoTest EXCEPT !.pc = "call", !.state = Loaded, !.idx = idx,
                                      !.n = NextAlive(Loaded.next, Loaded.dead)]
             /\ UNCHANGED saved
             /\ ~OverCap(Loaded, ModelProvider(idx))
    <2>1. /\ test'.pc = "call" /\ test'.state = Loaded /\ test'.idx = idx
          /\ test'.round = 1 /\ test'.attempt = 1 /\ test'.calls = 0
          /\ Tested(test')
      <3>1. test' = [pc |-> "call", state |-> Loaded, idx |-> idx,
                     n |-> NextAlive(Loaded.next, Loaded.dead), round |-> 1,
                     attempt |-> 1, calls |-> 0, dead |-> FALSE]
        BY <1>5 DEF NoTest
      <3> QED
        BY <3>1, OnboardAssumption DEF Tested
    <2>2. \A p \in Providers : OnBooks(p)' = OnBooks(p) /\ OnBooks(p) \in Nat
      BY <1>5 DEF OnBooks, OnboardTyped, OnDisk
    <2>3. OnboardTyped'
      BY <1>1, <1>2, <1>5, <2>1 DEF OnboardTyped
    <2>4. RunEnds'
      BY <1>2, <2>1, OnboardAssumption DEF RunEnds
    <2>5. RunKnows'
      <3>1. Mine' = ModelProvider(idx)
        BY <2>1 DEF Mine, ModelProvider
      <3>2. ASSUME NEW p \in Providers, Mine' = p
            PROVE  OnBooks(p) <= DAILY_CAP - 1
        <4>1. ~(Loaded.calls[p] >= DAILY_CAP)
          BY <1>5, <3>1, <3>2 DEF OverCap
        <4> QED
          BY <1>1, <1>2, <2>2, <4>1
      <3> QED
        BY <1>1, <2>1, <2>2, <3>2 DEF RunKnows
    <2>6. DayAdds'
      <3>1. Lost' = Lost
        BY <1>1, <1>2, <2>1 DEF Lost, Testing
      <3>2. \A p \in Providers : OwnCalls(p) = 0 /\ OwnCalls(p)' = 0
        BY <1>2, <2>1 DEF OwnCalls
      <3> QED
        BY <1>2, <2>2, <3>1, <3>2 DEF DayAdds
    <2> QED
      BY <2>3, <2>4, <2>5, <2>6
  <1> QED
    BY <1>3, <1>4, <1>5

LEMMA TestedFields ==
  ASSUME NEW t, NEW pc \in {"idle", "call", "file"}, NEW state, NEW idx, NEW n,
         NEW round \in 1 .. MAX_MODEL_CALLS, NEW attempt \in 1 .. MAX_ATTEMPTS, NEW calls \in Nat, NEW dead,
         t = [pc |-> pc, state |-> state, idx |-> idx, n |-> n, round |-> round,
              attempt |-> attempt, calls |-> calls, dead |-> dead]
  PROVE  /\ Tested(t) /\ t.pc = pc /\ t.state = state /\ t.idx = idx
         /\ t.round = round /\ t.attempt = attempt /\ t.calls = calls
  BY DEF Tested

\* One more of one provider.
LEMMA CallsOfOne ==
  ASSUME NEW f \in [Providers -> Nat], NEW p, NEW m \in Nat, NEW g, g = [f EXCEPT ![p] = @ + m]
  PROVE  /\ g \in [Providers -> Nat]
         /\ \A q \in Providers : g[q] = f[q] + (IF q = p THEN m ELSE 0)
  <1>1. \A q \in Providers : g[q] = f[q] + (IF q = p THEN m ELSE 0) /\ f[q] \in Nat
    OBVIOUS
  <1>2. g = [q \in Providers |-> g[q]]
    OBVIOUS
  <1>3. \A q \in Providers : g[q] \in Nat
    BY <1>1
  <1> QED
    BY <1>1, <1>2, <1>3

\* A call: of the same run, on the same provider, within its rounds.
LEMMA CallsKeeps ==
  ASSUME OnboardInv, NEW kind, Calls(kind)
  PROVE  OnboardInv'
  <1> USE DEF OnboardInv
  <1> DEFINE called == [test EXCEPT !.calls = @ + 1]
             wall   == kind = "quota" /\ BodyLeft(kind) = "per day"
  <1>1. /\ test.pc = "call" /\ Testing /\ UNCHANGED <<saved, uncounted>>
        /\ made' = [made EXCEPT ![Mine] = @ + 1]
        /\ DAILY_CAP \in Nat /\ RunCalls \in Nat
    <2>1. test.pc = "call" /\ saved' = saved /\ uncounted' = uncounted
      BY Zenon DEF Calls
    <2>2. made' = [made EXCEPT ![Mine] = @ + 1]
      BY Zenon DEF Calls
    <2> QED
      BY <2>1, <2>2, OnboardAssumption, RunsAdd DEF Testing
  <1>2. /\ test.calls \in Nat /\ test.round \in 1 .. MAX_MODEL_CALLS
        /\ test.attempt \in 1 .. MAX_ATTEMPTS
        /\ MAX_MODEL_CALLS \in Nat /\ MAX_ATTEMPTS \in Nat
    BY OnboardAssumption DEF OnboardTyped, Tested
  <1>3. called = [pc |-> test.pc, state |-> test.state, idx |-> test.idx, n |-> test.n,
                  round |-> test.round, attempt |-> test.attempt, calls |-> test.calls + 1,
                  dead |-> test.dead]
    BY DEF OnboardTyped, Tested
  <1>4. \/ /\ test.round < MAX_MODEL_CALLS
           /\ test' = [called EXCEPT !.round = @ + 1, !.attempt = 1]
        \/ test.attempt < MAX_ATTEMPTS /\ test' = [called EXCEPT !.attempt = @ + 1]
        \/ test' = [called EXCEPT !.pc = "file", !.dead = wall]
    <2>1. test' = CASE kind = "tools" /\ test.round < MAX_MODEL_CALLS
                        -> [called EXCEPT !.round = @ + 1, !.attempt = 1]
                   [] kind \in {"limit", "quota"} /\ ~wall /\ test.attempt < MAX_ATTEMPTS
                        -> [called EXCEPT !.attempt = @ + 1]
                   [] OTHER -> [called EXCEPT !.pc = "file", !.dead = wall]
      BY Zenon DEF Calls
    <2> HIDE DEF called, wall
    <2> QED
      BY <2>1, Zenon
  <1> HIDE DEF called, wall
  <1>5. /\ Tested(test') /\ Testing' /\ test'.state = test.state /\ test'.idx = test.idx
        /\ test'.calls = test.calls + 1
        /\ \/ test'.round = test.round + 1 /\ test'.attempt = 1
           \/ test'.round = test.round /\ test'.attempt = test.attempt + 1
           \/ test'.pc = "file"
    <2>1. CASE /\ test.round < MAX_MODEL_CALLS
               /\ test' = [called EXCEPT !.round = @ + 1, !.attempt = 1]
      <3>1. test' = [pc |-> "call", state |-> test.state, idx |-> test.idx, n |-> test.n,
                     round |-> test.round + 1, attempt |-> 1, calls |-> test.calls + 1,
                     dead |-> test.dead]
        BY <1>1, <1>3, <2>1
      <3>2. test.round + 1 \in 1 .. MAX_MODEL_CALLS /\ 1 \in 1 .. MAX_ATTEMPTS
        BY <1>2, <2>1
      <3> QED
        BY <1>2, <3>1, <3>2, TestedFields DEF Testing
    <2>2. CASE test.attempt < MAX_ATTEMPTS /\ test' = [called EXCEPT !.attempt = @ + 1]
      <3>1. test' = [pc |-> "call", state |-> test.state, idx |-> test.idx, n |-> test.n,
                     round |-> test.round, attempt |-> test.attempt + 1, calls |-> test.calls + 1,
                     dead |-> test.dead]
        BY <1>1, <1>3, <2>2
      <3>2. test.attempt + 1 \in 1 .. MAX_ATTEMPTS
        BY <1>2, <2>2
      <3> QED
        BY <1>2, <3>1, <3>2, TestedFields DEF Testing
    <2>3. CASE test' = [called EXCEPT !.pc = "file", !.dead = wall]
      <3>1. test' = [pc |-> "file", state |-> test.state, idx |-> test.idx, n |-> test.n,
                     round |-> test.round, attempt |-> test.attempt, calls |-> test.calls + 1,
                     dead |-> wall]
        BY <1>3, <2>3
      <3> QED
        BY <1>2, <3>1, TestedFields DEF Testing
    <2> QED
      BY <1>4, <2>1, <2>2, <2>3
  <1>6. \A p \in Providers : OnBooks(p)' = OnBooks(p) /\ OnBooks(p) \in Nat
    BY <1>1 DEF OnBooks, OnboardTyped, OnDisk
  <1>7. Mine' = Mine
    BY <1>5 DEF Mine, ModelProvider
  <1>8. OnboardTyped'
    <2>1. made' \in [Providers -> Nat]
      BY <1>1, CallsOfOne DEF OnboardTyped
    <2> QED
      BY <1>1, <1>5, <2>1 DEF OnboardTyped
  <1>9. RunEnds'
    BY <1>1, <1>2, <1>5, AttemptsAdd DEF RunEnds
  <1>10. RunKnows'
    BY <1>1, <1>5, <1>6, <1>7 DEF RunKnows
  <1>11. DayAdds'
    <2>1. Lost' = Lost /\ Lost \in Int
      BY <1>1, <1>5 DEF Lost, OnboardTyped
    <2>2. RunCalls * Lost \in Int
      BY <1>1, <2>1
    <2>3. ASSUME NEW p \in Providers
          PROVE  /\ OwnCalls(p)' - OwnCalls(p) = made'[p] - made[p]
                 /\ OwnCalls(p) \in Nat /\ OwnCalls(p)' \in Nat /\ made[p] \in Nat /\ made'[p] \in Nat
      BY <1>1, <1>2, <1>5, <1>7 DEF OwnCalls, OnboardTyped
    <2>4. ASSUME NEW p \in Providers, ~test.state.today
          PROVE  OnBooks(p) <= made'[p]
      <3>1. OnBooks(p) = 0
        BY <1>1, <2>4 DEF RunKnows, OnBooks
      <3> QED
        BY <2>3, <3>1
    <2> QED
      BY <1>1, <1>5, <1>6, <2>1, <2>2, <2>3, <2>4 DEF DayAdds
  <1> QED
    BY <1>8, <1>9, <1>10, <1>11

LEMMA SandboxFailsKeeps ==
  ASSUME OnboardInv, SandboxFails
  PROVE  OnboardInv'
  <1> USE DEF OnboardInv
  <1>1. /\ Tested(test') /\ Testing /\ Testing' /\ test'.pc = "file" /\ test'.state = test.state
        /\ test'.idx = test.idx /\ test'.calls = test.calls
        /\ UNCHANGED <<saved, made, uncounted>>
    BY DEF SandboxFails, Tested, Testing, OnboardTyped
  <1>2. Mine' = Mine
    BY <1>1 DEF Mine, ModelProvider
  <1>3. OnboardTyped'
    BY <1>1 DEF OnboardTyped
  <1>4. RunEnds' /\ RunKnows'
    BY <1>1, <1>2 DEF RunEnds, RunKnows, OnBooks
  <1>5. DayAdds'
    BY <1>1, <1>2 DEF DayAdds, OnBooks, OwnCalls, Lost
  <1> QED
    BY <1>3, <1>4, <1>5

\* The run is filed: its calls are on the books of the day it began.
LEMMA FilesKeeps ==
  ASSUME OnboardInv, Files
  PROVE  OnboardInv'
  <1> USE DEF OnboardInv
  <1> DEFINE old == test.state
             new == [old.calls EXCEPT ![Mine] = @ + test.calls]
  <1>1. /\ Testing /\ UNCHANGED <<made, uncounted>> /\ test' = NoTest
        /\ DAILY_CAP \in Nat /\ RunCalls \in Nat
        /\ test.calls \in Nat /\ test.calls <= RunCalls
    BY OnboardAssumption, RunsAdd DEF Files, Testing, RunEnds, OnboardTyped, Tested
  <1>2. OnDisk(old) /\ old.calls \in [Providers -> Nat]
    BY DEF OnboardTyped, OnDisk
  <1>3. saved' = [next |-> test.idx + 1, today |-> old.today, calls |-> new,
                  dead |-> IF test.dead THEN old.dead \cup {Mine} ELSE old.dead \ {Mine}]
    BY <1>2 DEF Files, OnDisk
  <1>4. \A p \in Providers : new[p] = old.calls[p] + OwnCalls(p) /\ OwnCalls(p) \in Nat
    BY <1>1, <1>2 DEF OwnCalls
  <1>5. new \in [Providers -> Nat]
    <2> DEFINE was == old.calls
               more == test.calls
    <2>1. more \in Nat /\ was \in [Providers -> Nat]
      BY <1>1, <1>2
    <2>2. new = [was EXCEPT ![Mine] = @ + more]
      OBVIOUS
    <2> HIDE DEF was, more, new
    <2> QED
      BY <2>1, <2>2, CallsOfOne
  <1> HIDE DEF new
  <1>6. OnDisk(saved') /\ saved'.today = old.today /\ saved'.calls = new
    BY <1>2, <1>3, <1>5 DEF OnDisk
  <1>7. ~Testing' /\ Tested(NoTest) /\ NoTest.state = FreshFile /\ OnDisk(FreshFile) /\ NoTest.calls = 0
        /\ NoTest.pc = "idle"
    BY <1>1, OnboardAssumption DEF Testing, Tested, NoTest, FreshFile, OnDisk, NoCalls
  <1>8. OnboardTyped' /\ RunEnds' /\ RunKnows'
    BY <1>1, <1>6, <1>7 DEF OnboardTyped, RunEnds, RunKnows
  <1>9. DayAdds'
    <2>1. Lost' = uncounted /\ uncounted \in Nat
      BY <1>1, <1>7 DEF Lost, OnboardTyped
    <2>2. \A p \in Providers : OwnCalls(p)' = 0 /\ made'[p] = made[p] /\ made[p] \in Nat
      BY <1>1, <1>7 DEF OwnCalls, OnboardTyped
    <2>3. CASE old.today
      <3>1. ASSUME NEW p \in Providers
            PROVE  /\ OnBooks(p)' = OnBooks(p) + OwnCalls(p) /\ OnBooks(p) \in Nat
                   /\ Mine = p => OnBooks(p) <= DAILY_CAP - 1
                   /\ OwnCalls(p) \in Nat /\ OwnCalls(p) <= RunCalls
                   /\ Mine # p => OwnCalls(p) = 0
        BY <1>1, <1>2, <1>4, <1>6, <2>3 DEF OnBooks, RunKnows, OwnCalls
      <3>2. Lost = uncounted /\ RunCalls * uncounted \in Nat
        BY <2>1, <2>3, RunsAdd DEF Lost
      <3> QED
        BY <1>1, <2>1, <2>2, <2>3, <3>1, <3>2 DEF DayAdds
    <2>4. CASE ~old.today
      <3>1. /\ uncounted - 1 \in Nat /\ Lost = uncounted - 1 /\ uncounted = (uncounted - 1) + 1
            /\ \A p \in Providers : OnBooks(p) = 0 /\ OnBooks(p)' = 0
        BY <1>1, <1>6, <2>1, <2>4 DEF RunKnows, OnBooks, Lost
      <3>2. /\ RunCalls * uncounted = RunCalls * (uncounted - 1) + RunCalls
            /\ RunCalls * (uncounted - 1) \in Nat /\ RunCalls * uncounted \in Nat
        <4> DEFINE u == uncounted - 1
        <4>1. u \in Nat /\ uncounted = u + 1
          BY <3>1
        <4> HIDE DEF u
        <4>2. RunCalls * u \in Nat /\ RunCalls * (u + 1) = RunCalls * u + RunCalls
          BY <4>1, RunsAdd
        <4>3. RunCalls * uncounted = RunCalls * u + RunCalls /\ RunCalls * u \in Nat
          BY <4>1, <4>2
        <4> QED
          BY <4>3, <2>1, RunsAdd DEF u
      <3>3. \A p \in Providers : OwnCalls(p) <= RunCalls /\ OwnCalls(p) \in Nat
        BY <1>1 DEF OwnCalls
      <3> QED
        BY <1>1, <2>1, <2>2, <2>4, <3>1, <3>2, <3>3 DEF DayAdds
    <2> QED
      BY <2>3, <2>4, <1>2 DEF OnDisk
  <1> QED
    BY <1>8, <1>9

LEMMA KilledKeeps ==
  ASSUME OnboardInv, TestKilled
  PROVE  OnboardInv'
  <1> USE DEF OnboardInv
  <1>1. /\ Testing /\ UNCHANGED <<saved, made>> /\ test' = NoTest /\ uncounted' = uncounted + 1
        /\ uncounted \in Nat /\ DAILY_CAP \in Nat /\ RunCalls \in Nat
        /\ test.calls \in Nat /\ test.calls <= RunCalls
    BY OnboardAssumption, RunsAdd DEF TestKilled, Testing, RunEnds, OnboardTyped, Tested
  <1>2. ~Testing' /\ Tested(NoTest) /\ NoTest.state = FreshFile /\ OnDisk(FreshFile) /\ NoTest.calls = 0
        /\ NoTest.pc = "idle"
    BY <1>1, OnboardAssumption DEF Testing, Tested, NoTest, FreshFile, OnDisk, NoCalls
  <1>3. OnboardTyped' /\ RunEnds' /\ RunKnows'
    BY <1>1, <1>2 DEF OnboardTyped, RunEnds, RunKnows
  <1>4. \A p \in Providers : /\ OwnCalls(p) \in Nat /\ OwnCalls(p) <= RunCalls /\ OwnCalls(p)' = 0
                            /\ OnBooks(p)' = OnBooks(p) /\ OnBooks(p) \in Nat /\ made[p] \in Nat
    BY <1>1, <1>2 DEF OwnCalls, OnBooks, OnboardTyped, OnDisk
  <1>5. Lost' = uncounted + 1
    BY <1>1, <1>2 DEF Lost
  <1>6. CASE Lost = uncounted
    <2>1. RunCalls * (uncounted + 1) = RunCalls * uncounted + RunCalls /\ RunCalls * uncounted \in Nat
      BY <1>1, RunsAdd
    <2> QED
      BY <1>1, <1>3, <1>4, <1>5, <1>6, <2>1 DEF DayAdds
  <1>7. CASE Lost = uncounted - 1 /\ uncounted >= 1
    <2> DEFINE u == uncounted - 1
    <2>1. u \in Nat /\ uncounted = u + 1 /\ u = Lost
      BY <1>1, <1>7
    <2> HIDE DEF u
    <2>2. RunCalls * u \in Nat /\ RunCalls * (u + 1) = RunCalls * u + RunCalls
      BY <2>1, RunsAdd
    <2>3. /\ RunCalls * uncounted = RunCalls * Lost + RunCalls /\ RunCalls * Lost \in Nat
          /\ RunCalls * uncounted \in Nat
      BY <2>1, <2>2, <1>1
    <2>4. RunCalls * (uncounted + 1) = RunCalls * uncounted + RunCalls
      BY <1>1, RunsAdd
    <2> QED
      BY <1>1, <1>3, <1>4, <1>5, <2>3, <2>4 DEF DayAdds
  <1> QED
    BY <1>1, <1>3, <1>6, <1>7 DEF Lost, RunKnows

LEMMA DatedYesterday ==
  ASSUME NEW s, OnDisk(s), NEW t, t = [s EXCEPT !.today = FALSE]
  PROVE  OnDisk(t) /\ ~t.today
  <1>1. t = [next |-> s.next, today |-> FALSE, calls |-> s.calls, dead |-> s.dead]
    BY DEF OnDisk
  <1> QED
    BY <1>1 DEF OnDisk

\* A day begins with no call on the books, and maybe with a run that files none.
LEMMA MidnightKeeps ==
  ASSUME OnboardInv, Midnight
  PROVE  OnboardInv'
  <1> USE DEF OnboardInv
  <1>1. /\ saved' = [saved EXCEPT !.today = FALSE]
        /\ test' = [test EXCEPT !.state = [test.state EXCEPT !.today = FALSE]]
        /\ made' = NoCalls /\ uncounted' = IF test.pc = "idle" THEN 0 ELSE 1
        /\ DAILY_CAP \in Nat \ {0} /\ RunCalls \in Nat
    BY OnboardAssumption, RunsAdd DEF Midnight
  <1>2. OnDisk(saved') /\ ~saved'.today
    BY <1>1, DatedYesterday DEF OnboardTyped
  <1> DEFINE new == [test.state EXCEPT !.today = FALSE]
  <1>3. OnDisk(new) /\ ~new.today
    BY DatedYesterday DEF OnboardTyped
  <1>4. test' = [test EXCEPT !.state = new]
    BY <1>1
  <1> HIDE DEF new
  <1>5. /\ Tested(test') /\ test'.state = new /\ test'.pc = test.pc /\ test'.calls = test.calls
        /\ test'.round = test.round /\ test'.attempt = test.attempt
    BY <1>4 DEF OnboardTyped, Tested
  <1>6. OnboardTyped'
    <2>1. NoCalls \in [Providers -> Nat]
      BY DEF NoCalls
    <2> QED
      BY <1>1, <1>2, <1>3, <1>5, <2>1 DEF OnboardTyped
  <1>7. RunEnds' /\ RunKnows'
    BY <1>1, <1>2, <1>3, <1>5 DEF RunEnds, RunKnows, Testing
  <1>8. DayAdds'
    <2>1. Lost' = 0
      BY <1>1, <1>3, <1>5 DEF Lost, Testing
    <2>2. \A p \in Providers : OnBooks(p)' = 0 /\ made'[p] = 0 /\ OwnCalls(p)' \in Nat
      BY <1>1, <1>2, <1>5 DEF OnBooks, NoCalls, OwnCalls, OnboardTyped, Tested
    <2>3. RunCalls * 0 = 0
      BY RunsAdd
    <2> QED
      BY <1>1, <1>3, <1>5, <2>1, <2>2, <2>3 DEF DayAdds
  <1> QED
    BY <1>6, <1>7, <1>8

LEMMA OnboardStep ==
  ASSUME OnboardInv, [OnboardNext]_onboardVars
  PROVE  OnboardInv'
  <1>1. ASSUME NEW p \in Providers, FleetCalls(p)
        PROVE  OnboardInv'
    BY <1>1 DEF FleetCalls, OnboardInv, OnboardTyped, RunEnds, RunKnows, DayAdds, OnBooks, OwnCalls,
                Testing, Mine, Lost
  <1>2. ASSUME NEW p \in Providers, ProbeDue(p)
        PROVE  OnboardInv'
    <2>1. /\ saved' = [next |-> saved.next, today |-> saved.today, calls |-> saved.calls,
                       dead |-> saved.dead \ {p}]
          /\ ~Testing /\ UNCHANGED <<test, made, uncounted>>
      BY <1>2 DEF ProbeDue, OnboardInv, OnboardTyped, OnDisk, Testing
    <2>2. OnDisk(saved') /\ saved'.today = saved.today /\ saved'.calls = saved.calls
      BY <2>1 DEF OnboardInv, OnboardTyped, OnDisk
    <2> QED
      BY <2>1, <2>2 DEF OnboardInv, OnboardTyped, RunEnds, RunKnows, DayAdds, OnBooks, OwnCalls,
                        Testing, Mine, Lost
  <1>3. CASE UNCHANGED onboardVars
    BY <1>3 DEF onboardVars, OnboardInv, OnboardTyped, RunEnds, RunKnows, DayAdds, OnBooks, OwnCalls,
                Testing, Mine, Lost
  <1> QED
    BY <1>1, <1>2, <1>3, StartsKeeps, CallsKeeps, SandboxFailsKeeps, FilesKeeps, KilledKeeps,
       MidnightKeeps DEF OnboardNext

LEMMA OnboardBounds == OnboardInv => OnboardWithinCap
  <1> SUFFICES ASSUME OnboardInv, NEW p \in Providers
               PROVE  /\ made[p] <= DAILY_CAP - 1 + RunCalls * (1 + uncounted)
                      /\ saved.today => saved.calls[p] <= made[p]
    BY DEF OnboardWithinCap
  <1> USE DEF OnboardInv
  <1>1. /\ OwnCalls(p) \in Nat /\ OwnCalls(p) <= RunCalls /\ OnBooks(p) \in Nat /\ made[p] \in Nat
        /\ uncounted \in Nat /\ RunCalls \in Nat /\ DAILY_CAP \in Nat
    BY OnboardAssumption, RunsAdd DEF OwnCalls, OnBooks, OnboardTyped, OnDisk, Tested, RunEnds
  <1>2. saved.today => saved.calls[p] <= made[p]
    BY <1>1 DEF DayAdds, OnBooks
  <1>3. /\ 1 + uncounted = uncounted + 1 /\ RunCalls * (uncounted + 1) = RunCalls * uncounted + RunCalls
        /\ RunCalls * uncounted \in Nat
    BY <1>1, RunsAdd
  <1>4. CASE Testing /\ ~test.state.today
    <2> DEFINE u == uncounted - 1
    <2>1. u \in Nat /\ uncounted = u + 1 /\ u = Lost /\ OnBooks(p) = 0
      BY <1>1, <1>4 DEF RunKnows, Lost, OnBooks
    <2> HIDE DEF u
    <2>2. RunCalls * u \in Nat /\ RunCalls * (u + 1) = RunCalls * u + RunCalls
      BY <2>1, RunsAdd
    <2>3. made[p] <= OwnCalls(p) + RunCalls * u
      BY <1>1, <2>1, <2>2 DEF DayAdds
    <2>4. RunCalls * (1 + uncounted) = RunCalls * u + RunCalls + RunCalls
      BY <1>3, <2>1, <2>2
    <2>5. DAILY_CAP - 1 >= 0
      BY OnboardAssumption
    <2> QED
      BY <1>1, <1>2, <2>2, <2>3, <2>4, <2>5
  <1>5. CASE ~(Testing /\ ~test.state.today)
    <2>1. Lost = uncounted
      BY <1>5 DEF Lost
    <2>2. OnBooks(p) + OwnCalls(p) <= DAILY_CAP - 1 + RunCalls
      BY <1>1, <1>5 DEF RunKnows, OwnCalls, DayAdds
    <2>3. made[p] <= OnBooks(p) + OwnCalls(p) + RunCalls * uncounted
      BY <2>1 DEF DayAdds
    <2> QED
      BY <1>1, <1>2, <1>3, <2>2, <2>3
  <1> QED
    BY <1>4, <1>5

(* The onboarding test (onboard.py): whatever the models answer and        *)
(* whenever runs are killed or days turn, a provider gets no more calls in *)
(* a day than the cap, one run, and one run more for each that nobody      *)
(* counted; and the file never claims a call that was not made.            *)
THEOREM OnboardKeepsCap == Spec => []OnboardWithinCap
  <1>1. Init => OnboardInv
    BY OnboardInitially DEF Init
  <1>2. OnboardInv /\ [Next]_vars => OnboardInv'
    BY TestsStep, OnboardStep
  <1>3. OnboardInv => OnboardWithinCap
    BY OnboardBounds
  <1> QED
    BY <1>1, <1>2, <1>3, PTL DEF Spec

-----------------------------------------------------------------------------
(* The install canary.  As long as every step worked, those that did and   *)
(* those left are all of them.                                             *)

StepNames == {Steps[i] : i \in DOMAIN Steps}

CanaryInv ==
  /\ canary = [pc |-> canary.pc, todo |-> canary.todo, filed |-> canary.filed, ok |-> canary.ok]
  /\ canary.pc \in {"off", "running"} /\ canary.ok \in BOOLEAN
  /\ worked \in Nat
  /\ canary.pc = "running" /\ canary.ok =>
       canary.todo \in Seq(StepNames) /\ worked + Len(canary.todo) = Len(Steps)
  /\ GreenMeansWorked

LEMMA CanaryInitially == CanaryInit => CanaryInv
  BY DEF CanaryInit, CanaryInv, GreenMeansWorked, NoReport

LEMMA CanaryStep ==
  ASSUME CanaryInv, [CanaryNext]_canaryVars
  PROVE  CanaryInv'
  <1> USE DEF CanaryInv
  <1>1. CASE CanaryStarts
    <2>1. Len(Steps) \in Nat
      BY DEF Steps
    <2>2. DOMAIN Steps = 1 .. Len(Steps) /\ Steps = [i \in DOMAIN Steps |-> Steps[i]]
      BY DEF Steps
    <2>3. Steps \in Seq(StepNames)
      <3>1. \A i \in 1 .. Len(Steps) : Steps[i] \in StepNames
        BY <2>2 DEF StepNames
      <3>2. Steps \in [1 .. Len(Steps) -> StepNames]
        BY <2>2, <3>1
      <3> DEFINE l == Len(Steps)
      <3>3. l \in Nat /\ Steps \in [1 .. l -> StepNames]
        BY <2>1, <3>2
      <3> HIDE DEF l
      <3> QED
        BY <3>3, SeqDef
    <2> QED
      BY <1>1, <2>1, <2>3 DEF CanaryStarts, GreenMeansWorked
  <1>2. ASSUME NEW works \in BOOLEAN, NEW printed \in BOOLEAN, _framework_step(works, printed)
        PROVE  CanaryInv'
    <2> DEFINE name == Head(canary.todo)
               ok   == Believed(name, works, printed)
               left == IF ok THEN Tail(canary.todo)
                       ELSE SelectSeq(Tail(canary.todo), LAMBDA s : s \notin Ends(name))
               filed1 == IF StepFiled(name, ok) THEN canary.filed + 1 ELSE canary.filed
    <2>1. ok \in BOOLEAN /\ (ok => works)
      BY DEF Believed
    <2>2. ~ok => StepFiled(name, ok)
      BY DEF StepFiled
    <2>3. /\ canary.pc = "running" /\ canary.todo # <<>> /\ report' = report
          /\ worked' = IF works THEN worked + 1 ELSE worked
      BY <1>2 DEF _framework_step
    <2>4. canary' = [pc |-> "running", todo |-> left, filed |-> filed1,
                     ok |-> canary.ok /\ (StepFiled(name, ok) => ok)]
      BY <1>2, <2>3 DEF _framework_step
    <2>5. canary.ok /\ ok => left \in Seq(StepNames) /\ Len(left) = Len(canary.todo) - 1
      BY <2>3
    <2>6. canary.ok \in BOOLEAN /\ worked \in Nat /\ worked' \in Nat
      BY <2>3
    <2> HIDE DEF name, ok, left, filed1
    <2>7. CASE canary.ok /\ ok
      <3>1. canary'.todo = left /\ canary'.pc = "running" /\ canary'.ok \in BOOLEAN
        BY <2>4
      <3>2. left \in Seq(StepNames) /\ worked' + Len(left) = Len(Steps)
        BY <2>1, <2>3, <2>5, <2>7
      <3> QED
        BY <2>3, <2>4, <2>6, <3>1, <3>2 DEF GreenMeansWorked
    <2>8. CASE ~(canary.ok /\ ok)
      <3>1. canary' = [pc |-> "running", todo |-> left, filed |-> filed1, ok |-> FALSE]
        BY <2>1, <2>2, <2>4, <2>6, <2>8
      <3> QED
        BY <2>3, <2>6, <3>1 DEF GreenMeansWorked
    <2> QED
      BY <2>7, <2>8
  <1>3. CASE CanaryError
    BY <1>3 DEF CanaryError, GreenMeansWorked
  <1>4. CASE CanaryKilled
    BY <1>4 DEF CanaryKilled, GreenMeansWorked
  <1>5. CASE CanaryReports
    BY <1>5 DEF CanaryReports, GreenMeansWorked
  <1>6. CASE UNCHANGED canaryVars
    BY <1>6 DEF canaryVars, GreenMeansWorked
  <1> QED
    BY <1>1, <1>2, <1>3, <1>4, <1>5, <1>6 DEF CanaryNext

(* The install canary (canary.py): a green report is only ever written by  *)
(* a run in which each of the steps was tried and worked, whichever steps  *)
(* fail, are skipped for another, or never come because the run is cut.    *)
THEOREM GreenIsEarned == Spec => []GreenMeansWorked
  <1>1. Init => CanaryInv
    BY CanaryInitially DEF Init
  <1>2. CanaryInv /\ [Next]_vars => CanaryInv'
    BY MachineStep, CanaryStep
  <1>3. CanaryInv => GreenMeansWorked
    BY DEF CanaryInv
  <1> QED
    BY <1>1, <1>2, <1>3, PTL DEF Spec

-----------------------------------------------------------------------------
(* The operator's agent.  While a run goes on neither side changes its     *)
(* token, so what became first-party evidence since it began did so        *)
(* because its token is known.                                             *)

AgentInv ==
  /\ evidence \in [Fingerprints -> SUBSET {"first_party", "agent"}]
  /\ agent = [pc |-> agent.pc, model |-> agent.model, models |-> agent.models, tools |-> agent.tools,
              failures |-> agent.failures, retries |-> agent.retries, before |-> agent.before,
              exit |-> agent.exit]
  /\ agent.failures # <<>> => agent.failures[1] \in Fingerprints
  /\ agent.pc # "off" =>
       \A f \in Fingerprints : "first_party" \in evidence[f] => known \/ f \in agent.before
  /\ agent.pc = "end" /\ agent.failures # <<>> /\ agent.exit = 0 =>
       "first_party" \in evidence[agent.failures[1]]

LEMMA AgentInitially == AgentInit => AgentInv
  BY DEF AgentInit, AgentInv, NoAgent

\* The fields that a step of the run itself leaves alone.
LEMMA AgentGoesOn ==
  ASSUME AgentInv, UNCHANGED <<known, evidence>>,
         NEW pc, NEW model, NEW models, NEW tools, NEW failures, NEW retries, NEW exit,
         agent' = [pc |-> pc, model |-> model, models |-> models, tools |-> tools,
                   failures |-> failures, retries |-> retries, before |-> agent.before, exit |-> exit],
         agent.pc # "off",
         failures # <<>> => failures[1] \in Fingerprints,
         pc = "end" /\ failures # <<>> /\ exit = 0 => "first_party" \in evidence[failures[1]]
  PROVE  AgentInv'
  BY DEF AgentInv

LEMMA FirstFailure ==
  ASSUME NEW f \in Fingerprints, NEW failures, failures # <<>> => failures[1] \in Fingerprints,
         NEW listed, listed \in {failures, IF failures = <<>> THEN <<f>> ELSE failures}
  PROVE  listed # <<>> => listed[1] \in Fingerprints
  OBVIOUS

LEMMA AgentStep ==
  ASSUME AgentInv, [AgentNext]_agentVars
  PROVE  AgentInv'
  <1>1. CASE TakesSlot
    BY <1>1 DEF TakesSlot, AgentInv, NoAgent
  <1>2. CASE _take_run_slot
    BY <1>2, AgentGoesOn DEF _take_run_slot, AgentInv
  <1>3. CASE Torn \/ AgentEnds
    BY <1>3 DEF Torn, AgentEnds, AgentInv, NoAgent
  <1>4. CASE _loop
    BY <1>4, AgentGoesOn DEF _loop, AgentInv
  <1>5. CASE ToolAnswers
    BY <1>5, AgentGoesOn DEF ToolAnswers, AgentInv
  <1>6. ASSUME NEW f \in Fingerprints, ModelFails(f)
        PROVE  AgentInv'
    BY <1>6, AgentGoesOn, FirstFailure DEF ModelFails, AgentInv, FailsAt
  <1>7. ASSUME NEW f \in Fingerprints, ToolFails(f)
        PROVE  AgentInv'
    BY <1>7, AgentGoesOn, FirstFailure DEF ToolFails, AgentInv, FailsAt
  <1>8. CASE Sends
    <2>1. UNCHANGED <<agent, known>> /\ Source \in {"first_party", "agent"} /\ (Source = "first_party" => known)
      BY <1>8 DEF Sends, Source
    <2>2. \A f \in Fingerprints :
            /\ evidence[f] \subseteq evidence'[f]
            /\ evidence'[f] \subseteq evidence[f] \cup {Source}
      BY <1>8 DEF Sends, AgentInv
    <2>3. evidence' \in [Fingerprints -> SUBSET {"first_party", "agent"}]
      BY <1>8, <2>1 DEF Sends, AgentInv
    <2> QED
      BY <2>1, <2>2, <2>3 DEF AgentInv
  <1>9. CASE flush
    BY <1>9, AgentGoesOn DEF flush, AgentInv
  <1>10. CASE verify_first_party
    <2>1. PICK read \in BOOLEAN :
            agent' = [agent EXCEPT !.pc = "end",
                       !.exit = IF agent.failures = <<>> \/ (read /\ Verified(agent.failures[1]))
                                THEN 0 ELSE 3]
      BY <1>10, Zenon DEF verify_first_party
    <2> DEFINE code == IF agent.failures = <<>> \/ (read /\ Verified(agent.failures[1])) THEN 0 ELSE 3
    <2>2. code = 0 => agent.failures = <<>> \/ "first_party" \in evidence[agent.failures[1]]
      BY DEF Verified
    <2>3. agent.pc = "verify" /\ UNCHANGED <<known, evidence>>
      BY <1>10 DEF verify_first_party
    <2>4. agent' = [agent EXCEPT !.pc = "end", !.exit = code]
      BY <2>1
    <2> HIDE DEF code
    <2>5. agent' = [pc |-> "end", model |-> agent.model, models |-> agent.models, tools |-> agent.tools,
                    failures |-> agent.failures, retries |-> agent.retries, before |-> agent.before,
                    exit |-> code]
      BY <2>4 DEF AgentInv
    <2> QED
      BY <2>2, <2>3, <2>5 DEF AgentInv
  <1>11. CASE TokenChanges \/ NextDay
    BY <1>11 DEF TokenChanges, NextDay, AgentInv
  <1>12. ASSUME NEW f \in Fingerprints, Pruned(f)
         PROVE  AgentInv'
    BY <1>12 DEF Pruned, AgentInv
  <1>13. CASE UNCHANGED agentVars
    BY <1>13 DEF agentVars, AgentInv
  <1> QED
    BY <1>1, <1>2, <1>3, <1>4, <1>5, <1>6, <1>7, <1>8, <1>9, <1>10, <1>11, <1>12, <1>13 DEF AgentNext

(* The operator's agent (failecho_agent, verify_first_party): however its  *)
(* reports are sent, lost or late, a run that ends well after a failure    *)
(* was labelled as the operator's, or had its failure on file before.      *)
THEOREM LabelsAreChecked == Spec => []LabelChecked
  <1>1. Init => AgentInv
    BY AgentInitially DEF Init
  <1>2. AgentInv /\ [Next]_vars => AgentInv'
    BY TestsStep, AgentStep
  <1>3. AgentInv => LabelChecked
    BY DEF AgentInv, LabelChecked
  <1> QED
    BY <1>1, <1>2, <1>3, PTL DEF Spec

-----------------------------------------------------------------------------
(* The setup test.                                                         *)

SetupInv ==
  /\ session = [pc |-> session.pc, scenario |-> session.scenario, cwd |-> session.cwd,
                stray |-> session.stray, text |-> session.text, writes |-> session.writes]
  /\ session.scenario \in Scenarios \cup {"clean"} /\ session.stray \in BOOLEAN
  /\ FailureNamed

\* What the report says of a test is what its scenario demanded of it.
LEMMA GradesAgree ==
  ASSUME SetupInv, NEW says
  PROVE  IF Demands(says) THEN _failed_grades(says) = {}
         ELSE _failed_grades(says) = {} => session.stray /\ session.scenario \notin {"home", "readonly"}
  <1>1. session.scenario \in {"clean", "other", "present", "home", "readonly"}
    BY SetupAssumption DEF SetupInv
  <1>2. CASE Demands(says)
    BY <1>1, <1>2 DEF Demands, _failed_grades, MissedUnverified
  <1>3. ASSUME ~Demands(says), _failed_grades(says) = {}
        PROVE  session.stray /\ session.scenario \notin {"home", "readonly"}
    BY <1>1, <1>3 DEF Demands, _failed_grades, MissedUnverified, AskedFirst
  <1> QED
    BY <1>2, <1>3

LEMMA SetupStep ==
  ASSUME SetupInv, [SetupNext]_setupVars
  PROVE  SetupInv'
  <1>1. ASSUME NEW scenario \in Scenarios, prepare(scenario)
        PROVE  SetupInv'
    BY <1>1 DEF prepare, SetupInv, FailureNamed
  <1>2. ASSUME NEW seen, NEW content, NEW stray \in BOOLEAN,
               run_shell(seen, content, stray) \/ write_file(seen, content, stray) \/ fetch_url(seen)
        PROVE  SetupInv'
    <2>1. session'.pc = "working"
      BY <1>2 DEF run_shell, write_file, fetch_url, SetupInv
    <2> QED
      BY <1>2, <2>1 DEF run_shell, write_file, fetch_url, SetupInv, FailureNamed
  <1>3. ASSUME NEW says, SetupGraded(says)
        PROVE  SetupInv'
    <2>1. /\ session' = [pc |-> "graded", scenario |-> session.scenario, cwd |-> session.cwd,
                         stray |-> session.stray, text |-> session.text, writes |-> session.writes]
          /\ setupGrade'.pass = Demands(says) /\ setupGrade'.missed = _failed_grades(says)
      BY <1>3 DEF SetupGraded, SetupInv
    <2> QED
      BY <2>1, GradesAgree DEF SetupInv, FailureNamed
  <1>4. CASE UNCHANGED setupVars
    BY <1>4 DEF setupVars, SetupInv, FailureNamed
  <1> QED
    BY <1>1, <1>2, <1>3, <1>4 DEF SetupNext

(* The setup test (onboard.py, Session): whatever a model did on the disk, *)
(* said and fetched, a failed test names a demand of its scenario that was *)
(* missed, but for the one that has no name, and a passed one names none.  *)
THEOREM FailuresAreNamed == Spec => []FailureNamed
  <1>1. Init => SetupInv
    BY DEF Init, SetupInit, SetupInv, FailureNamed
  <1>2. SetupInv /\ [Next]_vars => SetupInv'
    BY TestsStep, SetupStep
  <1>3. SetupInv => FailureNamed
    BY DEF SetupInv
  <1> QED
    BY <1>1, <1>2, <1>3, PTL DEF Spec

-----------------------------------------------------------------------------
(* The fence: its slots.  A connection that is handled has one, and no     *)
(* other does.                                                             *)

ConnStates == {"new", "head", "opening", "tunnel", "closed"}
Truths == [opened : BOOLEAN, unpatched : BOOLEAN, late : BOOLEAN, disturbed : BOOLEAN]
Entries == [missed : BOOLEAN, cut : BOOLEAN, observed : BOOLEAN, truth : Truths]

ConnRecords == [pc : ConnStates, host : Hosts, by : Nat, patched : BOOLEAN]

FenceTyped ==
  /\ conn \in [Conns -> ConnRecords]
  /\ fence \in [active : Nat, by_host : [Hosts -> Nat]]
  /\ stats = <<>> \/ stats \in [Hosts -> Nat]
  /\ command \in [n : Nat, pip : BOOLEAN, running : BOOLEAN, observed : BOOLEAN]
  /\ coverage \in Seq(Entries) /\ truth \in Truths

\* A connection knows which command asked for it, and one that its client shows
\* was seen while that command runs.
WhoAsked ==
  /\ command.running => command.n # 0
  /\ \A c \in Conns :
       /\ conn[c].by <= command.n
       /\ Own(c) /\ conn[c].patched /\ ~command.pip /\ conn[c].host \notin LAB_HOSTS
            => command.observed

\* What the file says the command opened, to hosts other than the lab's.
Gained == {h \in Hosts \ LAB_HOSTS : stats[h] > before[h]}

\* While a command runs undisturbed, the file is the fence's count, which only
\* grows, and grows with what is true of the command.
CountsFollow ==
  command.running /\ ~truth.disturbed =>
    /\ stats = fence.by_host
    /\ before \in [Hosts \ LAB_HOSTS -> Nat]
    /\ \A h \in Hosts \ LAB_HOSTS : before[h] <= stats[h]
    /\ truth.opened => Gained # {}
    /\ Gained # {} /\ ~command.pip => truth.unpatched \/ truth.late \/ command.observed

FenceInv == FenceTyped /\ SlotsReturned /\ WhoAsked /\ CountsFollow /\ MissesCaused

\* What becomes of one connection, and of the slots.
LEMMA OneConnMoves ==
  ASSUME FenceInv, NEW c \in Conns, NEW r \in ConnRecords, conn' = [conn EXCEPT ![c] = r],
         r.pc \in {"opening", "tunnel"} => r.host \in Allow,
         fence'.active = fence.active
                         + (IF r.pc \in {"head", "opening", "tunnel"} /\ c \notin Handled THEN 1 ELSE 0)
                         - (IF r.pc \notin {"head", "opening", "tunnel"} /\ c \in Handled THEN 1 ELSE 0),
         r.pc = "head" /\ c \notin Handled => HasRoom
  PROVE  /\ conn' \in [Conns -> ConnRecords] /\ conn'[c] = r
         /\ \A d \in Conns \ {c} : conn'[d] = conn[d]
         /\ fence'.active \in Nat
         /\ (r.pc \in {"opening", "tunnel"} => c \in Handled) => SlotsReturned'
  <1> USE DEF FenceInv
  <1>1. /\ conn' \in [Conns -> ConnRecords] /\ conn'[c] = r
        /\ \A d \in Conns \ {c} : conn'[d] = conn[d]
    BY DEF FenceTyped
  <1>2. /\ IsFiniteSet(Handled) /\ Cardinality(Handled) \in Nat
        /\ c \notin Handled => Cardinality(Handled \cup {c}) = Cardinality(Handled) + 1
        /\ c \in Handled => Cardinality(Handled \ {c}) = Cardinality(Handled) - 1 /\ Cardinality(Handled) # 0
    <2>1. IsFiniteSet(Handled)
      BY FenceAssumption, FS_Subset DEF Handled
    <2> QED
      BY <2>1, FS_CardinalityType, FS_AddElement, FS_RemoveElement, FS_EmptySet
  <1>3. Handled' = IF r.pc \in {"head", "opening", "tunnel"} THEN Handled \cup {c} ELSE Handled \ {c}
    BY <1>1 DEF Handled
  <1>4. fence.active = Cardinality(Handled) /\ fence.active \in Nat /\ fence.active <= MAX_CONNECTIONS
    BY DEF SlotsReturned, FenceTyped
  <1>5. fence'.active = Cardinality(Handled')
    <2>1. (c \in Handled => Handled \cup {c} = Handled) /\ (c \notin Handled => Handled \ {c} = Handled)
      OBVIOUS
    <2> DEFINE busy == r.pc \in {"head", "opening", "tunnel"}
               n == Cardinality(Handled)
    <2>2. Handled' = IF busy THEN Handled \cup {c} ELSE Handled \ {c}
      BY <1>3
    <2>3. fence'.active = n + (IF busy /\ c \notin Handled THEN 1 ELSE 0) - (IF ~busy /\ c \in Handled THEN 1 ELSE 0)
      BY <1>4
    <2>4. n \in Nat
      BY <1>2
    <2> HIDE DEF busy
    <2>5. CASE busy /\ c \in Handled
      <3>1. Handled' = Handled /\ fence'.active = n
        BY <2>1, <2>2, <2>3, <2>4, <2>5
      <3> QED
        BY <3>1
    <2>6. CASE busy /\ c \notin Handled
      <3>1. Handled' = Handled \cup {c} /\ fence'.active = n + 1
        BY <2>2, <2>3, <2>4, <2>6
      <3> QED
        BY <1>2, <3>1, <2>6
    <2>7. CASE ~busy /\ c \in Handled
      <3>1. Handled' = Handled \ {c} /\ fence'.active = n - 1
        BY <2>2, <2>3, <2>4, <2>7
      <3> QED
        BY <1>2, <3>1, <2>7
    <2>8. CASE ~busy /\ c \notin Handled
      <3>1. Handled' = Handled /\ fence'.active = n
        BY <2>1, <2>2, <2>3, <2>4, <2>8
      <3> QED
        BY <3>1
    <2> QED
      BY <2>5, <2>6, <2>7, <2>8
  <1>6. fence'.active \in Nat
    BY <1>2, <1>4
  <1>7. ASSUME r.pc \in {"opening", "tunnel"} => c \in Handled
        PROVE  fence'.active <= MAX_CONNECTIONS
    BY <1>2, <1>4, <1>7, FenceAssumption DEF HasRoom
  <1>8. \A d \in Conns : conn'[d].pc \in {"opening", "tunnel"} => conn'[d].host \in Allow
    BY <1>1 DEF SlotsReturned
  <1> QED
    BY <1>1, <1>5, <1>6, <1>7, <1>8 DEF SlotsReturned

LEMMA NobodysConn ==
  FenceTyped => Closed \in ConnRecords /\ Closed.pc = "closed" /\ Unused \in ConnRecords /\ Unused.pc = "new"
                /\ Closed.by = 0 /\ Unused.by = 0
  BY FenceAssumption DEF Closed, Unused, NoConn, ConnRecords, ConnStates

\* A program opens a connection; what its client shows is seen at once.
LEMMA OpensKeeps ==
  ASSUME FenceInv, NEW c \in Conns, NEW host \in Hosts, NEW patched \in BOOLEAN, Opens(c, host, patched)
  PROVE  FenceInv'
  <1> USE DEF FenceInv
  <1> DEFINE new == IF HasRoom
                    THEN [pc |-> "head", host |-> host, by |-> command.n, patched |-> patched \/ command.pip]
                    ELSE Closed
  <1>1. /\ command.running /\ conn[c].pc = "new" /\ conn' = [conn EXCEPT ![c] = new]
        /\ fence' = [fence EXCEPT !.active = IF HasRoom THEN @ + 1 ELSE @]
        /\ UNCHANGED <<stats, before, coverage, truth>>
    BY DEF Opens
  <1>2. /\ command'.n = command.n /\ command'.pip = command.pip /\ command'.running = command.running
        /\ command' \in [n : Nat, pip : BOOLEAN, running : BOOLEAN, observed : BOOLEAN]
        /\ command.observed => command'.observed
        /\ patched /\ ~command.pip /\ host \notin LAB_HOSTS => command'.observed
    BY DEF Opens, FenceTyped
  <1>3. new \in ConnRecords /\ new.pc \in {"head", "closed"}
        /\ (new.pc = "head" <=> HasRoom)
    BY NobodysConn DEF FenceTyped, ConnRecords, ConnStates
  <1>4. c \notin Handled
    BY <1>1 DEF Handled
  <1>5. /\ fence'.active = fence.active + (IF HasRoom THEN 1 ELSE 0) /\ fence'.by_host = fence.by_host
        /\ fence' = [active |-> fence'.active, by_host |-> fence.by_host] /\ fence.active \in Nat
    BY <1>1 DEF FenceTyped
  <1>6. new.by <= command.n /\ (new.by = command.n /\ command.n # 0 => new = [pc |-> "head", host |-> host, by |-> command.n, patched |-> patched \/ command.pip])
    BY NobodysConn DEF FenceTyped
  <1>7. new = Closed \/ (new.host = host /\ new.patched = (patched \/ command.pip))
    OBVIOUS
  <1> HIDE DEF new
  <1>8. /\ conn' \in [Conns -> ConnRecords] /\ conn'[c] = new
        /\ \A d \in Conns \ {c} : conn'[d] = conn[d]
        /\ SlotsReturned' /\ fence'.active \in Nat
    <2>1. new.pc \notin {"opening", "tunnel"}
      BY <1>3
    <2>2. fence'.active = fence.active
              + (IF new.pc \in {"head", "opening", "tunnel"} /\ c \notin Handled THEN 1 ELSE 0)
              - (IF new.pc \notin {"head", "opening", "tunnel"} /\ c \in Handled THEN 1 ELSE 0)
      BY <1>3, <1>4, <1>5
    <2> QED
      BY <1>1, <1>3, <2>1, <2>2, OneConnMoves
  <1>9. FenceTyped'
    BY <1>1, <1>2, <1>5, <1>8 DEF FenceTyped
  <1>10. WhoAsked'
    <2>1. command'.n # 0 /\ conn'[c].by <= command'.n
      BY <1>1, <1>2, <1>6, <1>8 DEF WhoAsked
    <2>2. Own(c)' /\ conn'[c].patched /\ ~command'.pip /\ conn'[c].host \notin LAB_HOSTS => command'.observed
      BY <1>2, <1>7, <1>8, <2>1, NobodysConn DEF Own, FenceTyped
    <2>3. ASSUME NEW d \in Conns \ {c}
          PROVE  /\ conn'[d].by <= command'.n
                 /\ Own(d)' /\ conn'[d].patched /\ ~command'.pip /\ conn'[d].host \notin LAB_HOSTS
                      => command'.observed
      BY <1>2, <1>8 DEF WhoAsked, Own
    <2> QED
      BY <2>1, <2>2, <2>3 DEF WhoAsked
  <1>11. CountsFollow'
    BY <1>1, <1>2, <1>5 DEF CountsFollow, Gained
  <1>12. MissesCaused'
    BY <1>1 DEF MissesCaused
  <1> QED
    BY <1>8, <1>9, <1>10, <1>11, <1>12

\* A connection goes on, or goes: nothing is counted by it.
LEMMA ConnGoesOn ==
  ASSUME FenceInv, NEW c \in Conns, c \in Handled, NEW r \in ConnRecords, conn' = [conn EXCEPT ![c] = r],
         \/ /\ r.pc = "opening" /\ r.host \in Allow /\ fence' = fence
            /\ r.host = conn[c].host /\ r.by = conn[c].by /\ r.patched = conn[c].patched
         \/ r = Closed /\ fence' = [fence EXCEPT !.active = @ - 1],
         UNCHANGED <<command, before, coverage, truth>>,
         stats' \in {fence.by_host, stats}
  PROVE  FenceInv'
  <1> USE DEF FenceInv
  <1>1. /\ fence'.by_host = fence.by_host /\ fence' = [active |-> fence'.active, by_host |-> fence.by_host]
        /\ fence'.active = fence.active - (IF r.pc = "opening" THEN 0 ELSE 1)
        /\ fence.active \in Nat /\ r.pc \in {"opening", "closed"}
    BY NobodysConn DEF FenceTyped
  <1>2. fence'.active = fence.active
              + (IF r.pc \in {"head", "opening", "tunnel"} /\ c \notin Handled THEN 1 ELSE 0)
              - (IF r.pc \notin {"head", "opening", "tunnel"} /\ c \in Handled THEN 1 ELSE 0)
    BY <1>1
  <1>3. r.pc \in {"opening", "tunnel"} => r.host \in Allow
    BY <1>1, NobodysConn
  <1>4. /\ conn' \in [Conns -> ConnRecords] /\ conn'[c] = r
        /\ \A d \in Conns \ {c} : conn'[d] = conn[d]
        /\ SlotsReturned' /\ fence'.active \in Nat
    BY <1>1, <1>2, <1>3, OneConnMoves
  <1>5. FenceTyped'
    BY <1>1, <1>4 DEF FenceTyped
  <1>6. WhoAsked'
    <2>1. /\ conn'[c].by <= command.n
          /\ Own(c)' => Own(c) /\ conn'[c].patched = conn[c].patched /\ conn'[c].host = conn[c].host
      BY <1>4, NobodysConn DEF WhoAsked, Own, FenceTyped
    <2> QED
      BY <1>4, <2>1 DEF WhoAsked, Own
  <1>7. CountsFollow'
    BY <1>1 DEF CountsFollow, Gained
  <1>8. MissesCaused'
    BY DEF MissesCaused
  <1> QED
    BY <1>4, <1>5, <1>6, <1>7, <1>8

\* The host answers.  If it was asked by the command that runs, that is on record,
\* and its client showed it or is one that shows nothing.
LEMMA OpenedKeeps ==
  ASSUME FenceInv, NEW c \in Conns, Opened(c)
  PROVE  FenceInv'
  <1> USE DEF FenceInv
  <1> DEFINE host == conn[c].host
             new  == [conn[c] EXCEPT !.pc = "tunnel"]
             more == [fence.by_host EXCEPT ![host] = @ + 1]
  <1>1. /\ conn[c].pc = "opening" /\ conn' = [conn EXCEPT ![c] = new]
        /\ UNCHANGED <<command, before, coverage>>
    BY DEF Opened, Moved
  <1>2. /\ fence' = [active |-> fence.active, by_host |-> more]
        /\ fence.by_host \in [Hosts -> Nat] /\ fence.active \in Nat /\ host \in Hosts
    BY DEF Opened, FenceTyped, ConnRecords
  <1>3. stats' \in {more, stats}
    BY <1>2 DEF Opened, write_stats
  <1>4. truth' = [opened    |-> truth.opened \/ (Own(c) /\ host \notin LAB_HOSTS),
                  unpatched |-> truth.unpatched \/ (Own(c) /\ ~conn[c].patched),
                  late      |-> truth.late \/ ~Own(c),
                  disturbed |-> truth.disturbed \/ stats' # more]
    BY <1>2 DEF Opened, FenceTyped, Truths
  <1>5. new = [pc |-> "tunnel", host |-> host, by |-> conn[c].by, patched |-> conn[c].patched]
        /\ new \in ConnRecords
    <2>1. conn[c] \in ConnRecords
      BY DEF FenceTyped
    <2> QED
      BY <2>1 DEF ConnRecords, ConnStates
  <1>6. c \in Handled /\ host \in Allow
    BY <1>1 DEF Handled, SlotsReturned
  <1>7. more \in [Hosts -> Nat] /\ more[host] = fence.by_host[host] + 1
        /\ \A h \in Hosts : fence.by_host[h] <= more[h] /\ (h # host => more[h] = fence.by_host[h])
    BY <1>2
  <1>8. /\ Own(c) \in BOOLEAN /\ conn[c].patched \in BOOLEAN
        /\ Own(c) /\ conn[c].patched /\ ~command.pip /\ host \notin LAB_HOSTS => command.observed
    BY DEF WhoAsked, Own, FenceTyped, ConnRecords
  <1> HIDE DEF new, more, host
  <1>9. fence'.active = fence.active
              + (IF new.pc \in {"head", "opening", "tunnel"} /\ c \notin Handled THEN 1 ELSE 0)
              - (IF new.pc \notin {"head", "opening", "tunnel"} /\ c \in Handled THEN 1 ELSE 0)
    BY <1>2, <1>5, <1>6
  <1>10. /\ conn' \in [Conns -> ConnRecords] /\ conn'[c] = new
         /\ \A d \in Conns \ {c} : conn'[d] = conn[d]
         /\ SlotsReturned' /\ fence'.active \in Nat
    BY <1>1, <1>5, <1>6, <1>9, OneConnMoves
  <1>11. FenceTyped'
    <2>1. truth' \in Truths
      BY <1>4, <1>8 DEF FenceTyped, Truths
    <2>2. fence' \in [active : Nat, by_host : [Hosts -> Nat]] /\ (stats' = <<>> \/ stats' \in [Hosts -> Nat])
      BY <1>2, <1>3, <1>7 DEF FenceTyped
    <2> QED
      BY <1>1, <1>10, <2>1, <2>2 DEF FenceTyped
  <1>12. WhoAsked'
    <2>1. conn'[c].by = conn[c].by /\ conn'[c].patched = conn[c].patched /\ conn'[c].host = conn[c].host
      BY <1>5, <1>10 DEF host
    <2> QED
      BY <1>1, <1>10, <2>1 DEF WhoAsked, Own
  <1>13. CountsFollow'
    <2> SUFFICES ASSUME command.running, ~truth'.disturbed
                 PROVE  /\ stats' = fence'.by_host
                        /\ before \in [Hosts \ LAB_HOSTS -> Nat]
                        /\ \A h \in Hosts \ LAB_HOSTS : before[h] <= stats'[h]
                        /\ truth'.opened => Gained' # {}
                        /\ Gained' # {} /\ ~command.pip => truth'.unpatched \/ truth'.late \/ command.observed
      BY <1>1 DEF CountsFollow
    <2>1. stats' = more /\ ~truth.disturbed /\ fence'.by_host = more
      BY <1>2, <1>4 DEF FenceTyped, Truths
    <2>2. /\ stats = fence.by_host /\ before \in [Hosts \ LAB_HOSTS -> Nat]
          /\ \A h \in Hosts \ LAB_HOSTS : before[h] <= stats[h]
          /\ truth.opened => Gained # {}
          /\ Gained # {} /\ ~command.pip => truth.unpatched \/ truth.late \/ command.observed
      BY <2>1 DEF CountsFollow
    <2>3. \A h \in Hosts \ LAB_HOSTS : /\ before[h] \in Nat /\ fence.by_host[h] \in Nat /\ more[h] \in Nat
                                    /\ before[h] <= fence.by_host[h] /\ fence.by_host[h] <= more[h]
      BY <1>2, <1>7, <2>2
    <2>4. \A h \in Hosts \ LAB_HOSTS : before[h] <= stats'[h]
      BY <2>1, <2>3
    <2>5. host \notin LAB_HOSTS => host \in Gained'
      BY <1>1, <1>2, <1>7, <2>1, <2>3 DEF Gained
    <2>6. Gained \subseteq Gained'
      BY <1>1, <2>1, <2>2, <2>3 DEF Gained
    <2>7. host \in LAB_HOSTS => Gained' = Gained
      BY <1>1, <1>7, <2>1, <2>2 DEF Gained
    <2>8. truth'.opened => Gained' # {}
      BY <1>4, <2>2, <2>5, <2>6
    <2>9. ASSUME Gained' # {}, ~command.pip
          PROVE  truth'.unpatched \/ truth'.late \/ command.observed
      <3>1. CASE host \in LAB_HOSTS
        BY <1>4, <2>2, <2>7, <2>9, <3>1
      <3>2. CASE host \notin LAB_HOSTS
        BY <1>4, <1>8, <2>9, <3>2
      <3> QED
        BY <3>1, <3>2
    <2> QED
      BY <2>1, <2>2, <2>4, <2>8, <2>9
  <1>14. MissesCaused'
    BY <1>1 DEF MissesCaused
  <1> QED
    BY <1>10, <1>11, <1>12, <1>13, <1>14

LEMMA FenceRestartsKeeps ==
  ASSUME FenceInv, FenceRestarts
  PROVE  FenceInv'
  <1> USE DEF FenceInv
  <1>1. /\ fence' = [active |-> 0, by_host |-> NoHosts] /\ NoHosts \in [Hosts -> Nat]
        /\ conn' = [d \in Conns |-> IF d \in Handled THEN Closed ELSE conn[d]]
        /\ UNCHANGED <<stats, command, before, coverage>>
    BY DEF FenceRestarts, FreshFence, NoHosts
  <1>2. truth' \in Truths /\ truth'.disturbed
    BY DEF FenceRestarts, FenceTyped, Truths
  <1>3. conn' \in [Conns -> ConnRecords]
    BY <1>1, NobodysConn DEF FenceTyped
  <1>4. Handled' = {}
    BY <1>1, NobodysConn DEF Handled
  <1>5. SlotsReturned'
    <2>1. \A d \in Conns : conn'[d].pc \notin {"opening", "tunnel"}
      BY <1>4 DEF Handled
    <2> QED
      BY <1>1, <1>4, <2>1, FS_EmptySet, FenceAssumption DEF SlotsReturned
  <1>6. FenceTyped'
    BY <1>1, <1>2, <1>3 DEF FenceTyped
  <1>7. WhoAsked'
    <2>1. \A d \in Conns : conn'[d] = conn[d] \/ conn'[d] = Closed
      BY <1>1
    <2> QED
      BY <1>1, <2>1, NobodysConn DEF WhoAsked, Own, FenceTyped
  <1>8. CountsFollow' /\ MissesCaused'
    BY <1>1, <1>2 DEF CountsFollow, MissesCaused
  <1> QED
    BY <1>5, <1>6, <1>7, <1>8

\* What the builder reads before a command and after it.
LEMMA ReadsFile ==
  ASSUME FenceTyped
  PROVE  /\ stats = <<>> => stats # fence.by_host
         /\ stats \in [Hosts -> Nat] =>
              /\ _proxy_connections = [h \in Hosts \ LAB_HOSTS |-> stats[h]]
              /\ _proxy_connections \in [Hosts \ LAB_HOSTS -> Nat]
  <1>1. \A f \in [Hosts -> Nat] : f # <<>>
    BY FenceAssumption
  <1> QED
    BY <1>1 DEF FenceTyped, _proxy_connections

LEMMA CommandStartsKeeps ==
  ASSUME FenceInv, NEW pip \in BOOLEAN, CommandStarts(pip)
  PROVE  FenceInv'
  <1> USE DEF FenceInv
  <1>1. /\ ~command.running /\ UNCHANGED <<conn, fence, stats, coverage>>
        /\ command' = [n |-> command.n + 1, pip |-> pip, running |-> TRUE, observed |-> FALSE]
        /\ before' = _proxy_connections /\ command.n \in Nat
    BY DEF CommandStarts, FenceTyped
  <1>2. truth' = [opened |-> FALSE, unpatched |-> FALSE, late |-> FALSE, disturbed |-> stats # fence.by_host]
    BY DEF CommandStarts, NoTruth
  <1>3. FenceTyped'
    BY <1>1, <1>2 DEF FenceTyped, Truths
  <1>4. SlotsReturned' /\ MissesCaused'
    BY <1>1 DEF SlotsReturned, MissesCaused, Handled
  <1>5. WhoAsked'
    <2>1. \A d \in Conns : conn[d].by \in Nat /\ conn[d].by <= command.n
      BY DEF WhoAsked, FenceTyped, ConnRecords
    <2> QED
      BY <1>1, <2>1 DEF WhoAsked, Own
  <1>6. CountsFollow'
    <2> SUFFICES ASSUME ~truth'.disturbed
                 PROVE  /\ stats = fence.by_host
                        /\ before' \in [Hosts \ LAB_HOSTS -> Nat]
                        /\ \A h \in Hosts \ LAB_HOSTS : before'[h] <= stats[h]
                        /\ Gained' = {}
      BY <1>1, <1>2 DEF CountsFollow
    <2>1. stats = fence.by_host /\ stats \in [Hosts -> Nat]
      BY <1>2, ReadsFile DEF FenceTyped
    <2>2. before' = [h \in Hosts \ LAB_HOSTS |-> stats[h]] /\ before' \in [Hosts \ LAB_HOSTS -> Nat]
      BY <1>1, <2>1, ReadsFile
    <2>3. \A h \in Hosts \ LAB_HOSTS : before'[h] = stats[h] /\ stats[h] \in Nat
      BY <2>1, <2>2
    <2>4. Gained' = {}
      BY <1>1, <2>3 DEF Gained
    <2> QED
      BY <2>1, <2>2, <2>3, <2>4
  <1> QED
    BY <1>3, <1>4, <1>5, <1>6

\* What the record of a program says, the truth bears out.
Borne(e) ==
  ~e.truth.disturbed =>
    /\ e.missed => e.truth.unpatched \/ e.cut \/ e.truth.late
    /\ e.truth.opened /\ ~e.observed => e.missed

LEMMA OneMoreBorne ==
  ASSUME NEW s \in Seq(Entries), NEW e \in Entries, \A i \in DOMAIN s : Borne(s[i]), Borne(e)
  PROVE  Append(s, e) \in Seq(Entries) /\ \A i \in DOMAIN Append(s, e) : Borne(Append(s, e)[i])
  <1> HIDE DEF Borne, Entries
  <1>1. Len(s) \in Nat /\ DOMAIN s = 1 .. Len(s) /\ DOMAIN Append(s, e) = 1 .. Len(s) + 1
    OBVIOUS
  <1>2. \A i \in 1 .. Len(s) + 1 : Append(s, e)[i] = IF i = Len(s) + 1 THEN e ELSE s[i]
    OBVIOUS
  <1> QED
    BY <1>1, <1>2

LEMMA CommandEndsKeeps ==
  ASSUME FenceInv, NEW cut \in BOOLEAN, CommandEnds(cut)
  PROVE  FenceInv'
  <1> USE DEF FenceInv
  <1>1. /\ command.running /\ UNCHANGED <<conn, fence, stats, before, truth>>
        /\ command' = [n |-> command.n, pip |-> command.pip, running |-> FALSE, observed |-> command.observed]
        /\ command'.n \in Nat
        /\ coverage' = IF command.pip THEN coverage ELSE Covered(cut)
    BY DEF CommandEnds, FenceTyped
  <1>2. coverage \in Seq(Entries) /\ \A i \in DOMAIN coverage : Borne(coverage[i])
    BY DEF FenceTyped, MissesCaused, Borne
  <1>3. coverage' \in Seq(Entries) /\ \A i \in DOMAIN coverage' : Borne(coverage'[i])
    <2> DEFINE after    == _proxy_connections
               per_host == {h \in DOMAIN after : after[h] > before[h]}
               observed == command.observed /\ ~cut
               entry    == [missed |-> Missed(per_host, observed), cut |-> cut,
                            observed |-> observed, truth |-> truth]
    <2>1. CASE coverage' = coverage
      BY <1>2, <2>1
    <2>2. CASE /\ ~command.pip /\ coverage' = Append(coverage, entry)
      <3>1. entry \in Entries
        BY DEF FenceTyped, Missed, Entries
      <3>2. ASSUME ~truth.disturbed
            PROVE  per_host = Gained
        <4>1. stats \in [Hosts -> Nat]
          BY <1>1, <3>2, ReadsFile DEF CountsFollow, FenceTyped
        <4>2. after = [h \in Hosts \ LAB_HOSTS |-> stats[h]]
          BY <4>1, ReadsFile
        <4> QED
          BY <4>2 DEF Gained
      <3> HIDE DEF per_host, after
      <3>3. Borne(entry)
        <4> SUFFICES ASSUME ~truth.disturbed
                     PROVE  /\ Missed(per_host, observed) => truth.unpatched \/ cut \/ truth.late
                            /\ truth.opened /\ ~observed => Missed(per_host, observed)
          BY DEF Borne
        <4> QED
          BY <1>1, <2>2, <3>2 DEF Missed, CountsFollow
      <3> HIDE DEF entry
      <3> QED
        BY <1>2, <2>2, <3>1, <3>3, OneMoreBorne
    <2> QED
      BY <1>1, <2>1, <2>2 DEF Covered
  <1>4. FenceTyped'
    BY <1>1, <1>3 DEF FenceTyped
  <1>5. SlotsReturned' /\ CountsFollow'
    BY <1>1 DEF SlotsReturned, Handled, CountsFollow
  <1>6. WhoAsked'
    BY <1>1 DEF WhoAsked, Own
  <1>7. MissesCaused'
    BY <1>3 DEF MissesCaused, Borne
  <1> QED
    BY <1>4, <1>5, <1>6, <1>7

LEMMA FenceStep ==
  ASSUME FenceInv, [FenceNext]_fenceVars
  PROVE  FenceInv'
  <1>1. ASSUME NEW c \in Conns, Decides(c)
        PROVE  FenceInv'
    <2>1. c \in Handled /\ UNCHANGED <<command, before, coverage, truth>>
      BY <1>1 DEF Decides, Handled
    <2>2. CASE decide(conn[c].host)
      <3> DEFINE new == [conn[c] EXCEPT !.pc = "opening"]
      <3>1. new \in ConnRecords /\ new.pc = "opening" /\ new.host = conn[c].host /\ new.by = conn[c].by
            /\ new.patched = conn[c].patched
        BY DEF FenceInv, FenceTyped, ConnRecords, ConnStates
      <3>2. conn' = [conn EXCEPT ![c] = new] /\ fence' = fence /\ stats' = stats
        BY <1>1, <2>2 DEF Decides, Moved
      <3> HIDE DEF new
      <3> QED
        BY <2>1, <2>2, <3>1, <3>2, ConnGoesOn DEF decide
    <2>3. CASE ~decide(conn[c].host)
      BY <1>1, <2>1, <2>3, ConnGoesOn, NobodysConn DEF Decides, Closes, write_stats, FenceInv
    <2> QED
      BY <2>2, <2>3
  <1>2. ASSUME NEW c \in Conns, GivenUp(c) \/ TunnelEnds(c)
        PROVE  FenceInv'
    <2>1. c \in Handled
      BY <1>2 DEF GivenUp, TunnelEnds, Handled
    <2> QED
      BY <1>2, <2>1, ConnGoesOn, NobodysConn DEF GivenUp, TunnelEnds, Closes, FenceInv
  <1>3. CASE UNCHANGED fenceVars
    BY <1>3 DEF fenceVars, FenceInv, FenceTyped, SlotsReturned, Handled, WhoAsked, Own, CountsFollow,
                Gained, MissesCaused
  <1> QED
    BY <1>1, <1>2, <1>3, OpensKeeps, OpenedKeeps, FenceRestartsKeeps, CommandStartsKeeps,
       CommandEndsKeeps DEF FenceNext

LEMMA FenceInitially == FenceInit => FenceInv
  <1> SUFFICES ASSUME FenceInit PROVE FenceInv
    OBVIOUS
  <1> USE DEF FenceInit
  <1>1. FenceTyped
    <2>1. NoHosts \in [Hosts -> Nat] /\ Unused \in ConnRecords
      BY FenceAssumption DEF NoHosts, Unused, NoConn, ConnRecords, ConnStates
    <2> QED
      BY <2>1 DEF FenceTyped, FreshFence, NoTruth, Truths
  <1>2. Unused.pc = "new" /\ Unused.by = 0
    BY DEF Unused, NoConn
  <1>3. Handled = {}
    BY <1>2 DEF Handled
  <1>4. SlotsReturned
    BY <1>2, <1>3, FS_EmptySet, FenceAssumption DEF SlotsReturned, FreshFence
  <1>5. WhoAsked /\ CountsFollow /\ MissesCaused
    BY <1>2 DEF WhoAsked, CountsFollow, MissesCaused, Own
  <1> QED
    BY <1>1, <1>4, <1>5 DEF FenceInv

(* The sandbox's fence and the builder (proxy.py, builder.py): every slot  *)
(* taken is given back, nothing leaves for a host that is not on the list, *)
(* and what the builder puts down as not observed has a cause, whichever   *)
(* connections open late, fail, or outlive the program that asked.         *)
THEOREM FenceIsRight == Spec => []MissedHasCause
  <1>1. Init => FenceInv
    BY FenceInitially DEF Init
  <1>2. FenceInv /\ [Next]_vars => FenceInv'
    BY MachineStep, FenceStep
  <1>3. FenceInv => MissedHasCause
    BY DEF FenceInv, MissedHasCause
  <1> QED
    BY <1>1, <1>2, <1>3, PTL DEF Spec

-----------------------------------------------------------------------------
(* The OpenCode run.  A suffix of a sequence has no more of anything, and  *)
(* the inner clock leaves the script the seconds it needs to print.        *)

LEMMA CountsAreFinite ==
  ASSUME NEW S, NEW q \in Seq(S), NEW T
  PROVE  IsFiniteSet({i \in DOMAIN q : q[i] \in T}) /\ NumberOf(q, T) \in Nat
  <1>1. IsFiniteSet(1 .. Len(q))
    BY FS_Interval
  <1>2. IsFiniteSet({i \in DOMAIN q : q[i] \in T})
    BY <1>1, FS_Subset
  <1> QED
    BY <1>2, FS_CardinalityType DEF NumberOf

LEMMA SuffixHasNoMore ==
  ASSUME NEW S, NEW q \in Seq(S), NEW n \in 0 .. Len(q), NEW T
  PROVE  NumberOf(SubSeq(q, Len(q) - n + 1, Len(q)), T) <= NumberOf(q, T)
  <1> DEFINE l == Len(q)
             s == SubSeq(q, l - n + 1, l)
             A == {i \in DOMAIN s : s[i] \in T}
             B == {i \in DOMAIN q : q[i] \in T}
             f == [i \in A |-> (l - n) + i]
  <1>1. l \in Nat /\ n \in Nat /\ n <= l
    OBVIOUS
  <1>2. DOMAIN s = 1 .. n /\ \A i \in 1 .. n : s[i] = q[(l - n) + i]
    BY <1>1
  <1>3. DOMAIN q = 1 .. l
    OBVIOUS
  <1>4. IsFiniteSet(B)
    BY CountsAreFinite
  <1> HIDE DEF s, l
  <1>5. \A i \in A : i \in Nat /\ i \in 1 .. n /\ (l - n) + i \in 1 .. l /\ q[(l - n) + i] \in T
    BY <1>1, <1>2
  <1>6. f \in Injection(A, B)
    BY <1>1, <1>3, <1>5 DEF Injection, IsInjective
  <1> HIDE DEF A, B, f
  <1>7. Cardinality(A) <= Cardinality(B)
    BY <1>4, <1>6, FS_Injection
  <1> QED
    BY <1>7 DEF NumberOf, A, B, s, l

\* What a call did is counted apart from whether it asked.
LEMMA AsksAndFailures ==
  ASSUME NEW q \in Seq(OcEvents)
  PROVE  NumberOf(q, FailedEvents) + NumberOf(q, AskEvents) <= NumberOf(q, ToolEvents)
  <1> DEFINE A == {i \in DOMAIN q : q[i] \in FailedEvents}
             B == {i \in DOMAIN q : q[i] \in AskEvents}
             C == {i \in DOMAIN q : q[i] \in ToolEvents}
  <1>1. IsFiniteSet(A) /\ IsFiniteSet(B) /\ IsFiniteSet(C)
    BY CountsAreFinite
  <1>2. A \cap B = {} /\ A \cup B \subseteq C
    BY DEF FailedEvents, AskEvents
  <1> HIDE DEF A, B, C
  <1>3. Cardinality(A \cup B) = Cardinality(A) + Cardinality(B) /\ Cardinality(A \cup B) <= Cardinality(C)
    <2>1. Cardinality(A \cup B) = Cardinality(A) + Cardinality(B) - Cardinality({})
      BY <1>1, <1>2, FS_Union
    <2>2. Cardinality({}) = 0 /\ Cardinality(A) \in Nat /\ Cardinality(B) \in Nat
      BY <1>1, FS_EmptySet, FS_CardinalityType
    <2>3. Cardinality(A \cup B) <= Cardinality(C)
      BY <1>1, <1>2, FS_Subset
    <2> QED
      BY <2>1, <2>2, <2>3
  <1> QED
    BY <1>3 DEF NumberOf, A, B, C

OcTyped ==
  /\ oc = [pc |-> oc.pc, at |-> oc.at, took |-> oc.took, printed |-> oc.printed,
           result |-> oc.result, marked |-> oc.marked, oom |-> oc.oom]
  /\ oc.at \in Nat /\ oc.took \in Nat /\ oc.marked \in BOOLEAN /\ oc.printed \in Seq(OcEvents)

OcInv ==
  /\ OcTyped
  /\ oc.pc \in {"left", "answered"} => oc.at <= InnerClock + KILL_AFTER
  /\ oc.pc = "answered" => (oc.marked <=> oc.at + PAUSE + oc.took <= GuestClock)
  /\ ResultSeen

LEMMA OcInitially == OpenCodeInit => OcInv
  BY DEF OpenCodeInit, OcInv, OcTyped, ResultSeen

LEMMA Clocks ==
  /\ InnerClock \in Nat /\ GuestClock \in Nat /\ KILL_AFTER = 10 /\ PAUSE = 3
  /\ InnerClock + 20 <= GuestClock
  BY OpenCodeAssumption DEF InnerClock, TimeoutInside, GuestClock, KILL_AFTER, PAUSE

\* The reading is true to what was printed, and to the mark.
LEMMA ReadingKeeps ==
  ASSUME OcInv, NEW said \in BOOLEAN, NEW proxied \in BOOLEAN, run_opencode(said, proxied)
  PROVE  OcInv'
  <1> USE DEF OcInv
  <1> DEFINE right == oc.marked /\ oc.result = "right"
             failed == NumberOf(Kept, ErrorEvents) > 0 \/ (oc.marked /\ said /\ ~right)
  <1>1. oc.pc = "answered" /\ oc.printed \in Seq(OcEvents) /\ oc.took \in Nat /\ oc.at \in Nat
    BY DEF run_opencode, OcTyped
  <1>2. ocEntry' = [completed |-> right, oom |-> oc.marked /\ oc.oom, seen |-> _walk(Kept),
                    account |-> Account(_walk(Kept), failed, right, proxied)]
    BY DEF run_opencode
  <1>3. /\ oc' = [pc |-> "read", at |-> oc.at, took |-> oc.took, printed |-> oc.printed,
                  result |-> oc.result, marked |-> oc.marked, oom |-> oc.oom]
        /\ oc'.pc = "read" /\ oc'.took = oc.took /\ oc'.printed = oc.printed /\ oc'.result = oc.result
    BY DEF run_opencode, OcTyped
  <1>4. Kept \in Seq(OcEvents) /\ \A T : NumberOf(Kept, T) <= NumberOf(oc.printed, T)
    <2>1. CASE Len(oc.printed) <= OUTPUT_CAP
      <3>1. Kept = oc.printed
        BY <2>1 DEF Kept
      <3>2. \A T : NumberOf(oc.printed, T) \in Nat
        BY <1>1, CountsAreFinite
      <3> QED
        BY <1>1, <3>1, <3>2
    <2>2. CASE ~(Len(oc.printed) <= OUTPUT_CAP)
      <3>1. OUTPUT_CAP \in 0 .. Len(oc.printed)
        BY <1>1, <2>2, OpenCodeAssumption
      <3>2. Kept = SubSeq(oc.printed, Len(oc.printed) - OUTPUT_CAP + 1, Len(oc.printed))
        BY <2>2 DEF Kept
      <3>3. Kept \in Seq(OcEvents)
        BY <1>1, <3>1, <3>2
      <3> QED
        BY <1>1, <3>1, <3>2, <3>3, SuffixHasNoMore
    <2> QED
      BY <2>1, <2>2
  <1>5. /\ ocEntry'.completed = right
        /\ ocEntry'.account.tool_calls = NumberOf(Kept, ToolEvents)
        /\ ocEntry'.account.model_calls = NumberOf(Kept, StepEvents)
        /\ ocEntry'.seen.tool_failures = NumberOf(Kept, FailedEvents)
        /\ ocEntry'.seen.failecho_calls = NumberOf(Kept, AskEvents)
    BY <1>2 DEF Account, _walk
  <1>6. NumberOf(Kept, FailedEvents) + NumberOf(Kept, AskEvents) <= NumberOf(oc.printed, ToolEvents)
    <2>1. /\ NumberOf(Kept, FailedEvents) \in Nat /\ NumberOf(Kept, AskEvents) \in Nat
          /\ NumberOf(Kept, ToolEvents) \in Nat /\ NumberOf(oc.printed, ToolEvents) \in Nat
      BY <1>1, <1>4, CountsAreFinite
    <2> QED
      BY <1>4, <2>1, AsksAndFailures
  <1>7. Len(oc.printed) <= OUTPUT_CAP => Kept = oc.printed
    BY DEF Kept
  <1>8. oc.took <= 20 - KILL_AFTER - PAUSE => oc.marked
    <2>1. oc.at <= InnerClock + KILL_AFTER /\ (oc.marked <=> oc.at + PAUSE + oc.took <= GuestClock)
      BY <1>1
    <2>2. oc.took <= 7 => oc.at + 3 + oc.took <= GuestClock
      BY <1>1, <2>1, Clocks
    <2> QED
      BY <1>1, <2>1, <2>2, Clocks
  <1> HIDE DEF right, failed
  <1>9. ResultSeen'
    <2>1. oc.took <= 20 - KILL_AFTER - PAUSE => right = (oc.result = "right")
      BY <1>8 DEF right
    <2>2. right => oc.result = "right"
      BY DEF right
    <2> QED
      BY <1>3, <1>4, <1>5, <1>6, <1>7, <2>1, <2>2 DEF ResultSeen
  <1> QED
    BY <1>3, <1>9 DEF OcTyped

LEMMA OcStep ==
  ASSUME OcInv, [OpenCodeNext]_ocVars
  PROVE  OcInv'
  <1> USE DEF OcInv
  <1>1. ASSUME NEW e \in OcEvents, Prints(e)
        PROVE  OcInv'
    <2>1. /\ oc.pc = "working" /\ oc.printed \in Seq(OcEvents) /\ UNCHANGED ocEntry
          /\ oc' = [pc |-> oc.pc, at |-> oc.at, took |-> oc.took, printed |-> Append(oc.printed, e),
                    result |-> oc.result, marked |-> oc.marked, oom |-> oc.oom]
      BY <1>1 DEF Prints, OcTyped
    <2>2. Append(oc.printed, e) \in Seq(OcEvents)
      BY <2>1
    <2> QED
      BY <2>1, <2>2 DEF OcTyped, ResultSeen
  <1>2. ASSUME NEW right \in BOOLEAN, WritesResult(right)
        PROVE  OcInv'
    BY <1>2 DEF WritesResult, OcTyped, ResultSeen
  <1>3. ASSUME NEW at, NEW oom, OpenCodeExits(at, oom)
        PROVE  OcInv'
    <2>1. at \in Nat /\ at <= InnerClock + KILL_AFTER
      BY <1>3, Clocks, OpenCodeAssumption DEF OpenCodeExits
    <2> QED
      BY <1>3, <2>1 DEF OpenCodeExits, OcTyped, ResultSeen
  <1>4. ASSUME NEW seconds \in CollectTimes, Collected(seconds)
        PROVE  OcInv'
    <2>1. oc.pc = "left" /\ seconds \in Nat /\ UNCHANGED ocEntry
      BY <1>4, OpenCodeAssumption DEF Collected
    <2> DEFINE intime == oc.at + PAUSE + seconds <= GuestClock
    <2>2. oc' = [pc |-> "answered", at |-> oc.at, took |-> seconds, printed |-> oc.printed,
                 result |-> oc.result, marked |-> intime, oom |-> oc.oom]
      BY <1>4 DEF Collected, OcTyped
    <2>3. intime \in BOOLEAN
      OBVIOUS
    <2>4. /\ oc'.marked = intime /\ oc'.at = oc.at /\ oc'.took = seconds /\ oc'.pc = "answered"
          /\ oc'.printed = oc.printed
      BY <2>2
    <2>5. oc'.marked <=> oc'.at + PAUSE + oc'.took <= GuestClock
      BY <2>4
    <2> HIDE DEF intime
    <2>6. OcTyped'
      BY <2>1, <2>2, <2>3, <2>4 DEF OcTyped
    <2> QED
      BY <2>1, <2>4, <2>5, <2>6, <1>4, Clocks DEF ResultSeen
  <1>5. CASE SandboxLost
    BY <1>5 DEF SandboxLost, OcTyped, ResultSeen
  <1>6. CASE UNCHANGED ocVars
    BY <1>6 DEF ocVars, OcTyped, ResultSeen
  <1> QED
    BY <1>1, <1>2, <1>3, <1>4, <1>5, <1>6, ReadingKeeps DEF OpenCodeNext

(* One OpenCode run (opencode.py, guest_init.py): at whatever second       *)
(* OpenCode ends or is killed and whatever it printed, a result that was   *)
(* written is seen as long as printing is quick, none is made up, and the  *)
(* counts are those of what was printed, or fewer where that was cut.      *)
THEOREM ResultIsSeen == Spec => []ResultSeen
  <1>1. Init => OcInv
    BY OcInitially DEF Init
  <1>2. OcInv /\ [Next]_vars => OcInv'
    BY LabStep, OcStep
  <1>3. OcInv => ResultSeen
    BY DEF OcInv
  <1> QED
    BY <1>1, <1>2, <1>3, PTL DEF Spec

-----------------------------------------------------------------------------
(* The grader.  Whoever remembers a truth, the service said it no earlier  *)
(* than it is dated; and a check is only made against a truth.             *)

Remembers(hit) == hit # <<>> => /\ hit[1] \in Nat /\ hit[2] \in Versions
                                /\ hit[1] <= truthOf[hit[2]]

GradingTyped ==
  /\ hour \in Nat /\ service \in Versions \cup {Unknown}
  /\ truthOf \in [Versions -> Nat] /\ \A v \in Versions : truthOf[v] <= hour
  /\ service # Unknown => truthOf[service] = hour
  /\ DOMAIN memory = Graders
  /\ graded # Unknown =>
       graded = [task |-> graded.task, answer |-> graded.answer, at |-> graded.at, truth |-> graded.truth,
                 grade |-> graded.grade, regrade |-> graded.regrade]

GradingInv ==
  /\ GradingTyped
  /\ Remembers(truthFile) /\ \A g \in Graders : Remembers(memory[g])
  /\ GradedByTheTruth /\ RegradeStable
  /\ graded # Unknown =>
       /\ graded.task \in Tasks /\ graded.answer \in AnswersOf[graded.task]
       /\ graded.grade = grade(graded.task, graded.answer, graded.truth)
       /\ graded.at \in Nat /\ graded.truth["moving"] \in Versions \cup {Unknown}

LEMMA CheckedAgainst ==
  ASSUME NEW task \in Tasks, NEW answer, NEW resolve
  PROVE  LET verdict == grade(task, answer, resolve)
         IN  /\ \A i \in DOMAIN verdict.ends :
                  verdict.ends[i] \in {"matched", "missed"} /\ task.kinds[i] = "moving"
                    => resolve["moving"] # Unknown
             /\ verdict.correct # Unknown =>
                  \E i \in DOMAIN verdict.ends : verdict.ends[i] \in {"matched", "missed"}
  <1> DEFINE verdict == grade(task, answer, resolve)
             checked == {"matched", "missed"}
  <1>1. \A ends, gaps : LET v == Verdict(ends, gaps)
                        IN  /\ v.ends = ends
                            /\ v.correct # Unknown => \E i \in DOMAIN ends : ends[i] \in checked
    BY DEF Verdict
  <1>2. \A want, matched : End(want, matched) \in checked => want # Unknown
    BY DEF End
  <1>3. task.mode \in {"json", "list", "prose"}
    BY GradingAssumption
  <1>4. CASE task.mode = "json"
    <2>1. verdict = GradeJson(task.kinds, answer.text, answer.explained, resolve)
      BY <1>4 DEF grade
    <2> HIDE DEF verdict
    <2>2. \E ends, gaps :
            /\ verdict = Verdict(ends, gaps)
            /\ \A i \in DOMAIN ends : task.kinds[i] = "moving" =>
                 ends[i] \in {"none", "refused"} \/ \E m : ends[i] = End(resolve["moving"], m)
      <3> DEFINE kinds  == task.kinds
                 values == answer.text
                 EndOf(i) ==
                   IF values[i] = "missing" THEN "none"
                   ELSE IF kinds[i] \notin UNDECLINABLE /\ _declined(values[i]) THEN "refused"
                   ELSE IF kinds[i] \in {"enum", "never"}
                   THEN End("-", _matches(values[i], "-", kinds[i]))
                   ELSE End(resolve[kinds[i]], _matches(values[i], resolve[kinds[i]], kinds[i]))
                 Gap(i) ==
                   \/ values[i] = "missing" /\ ~answer.explained
                   \/ /\ Placeholder(values[i])
                      /\ ~(kinds[i] \notin UNDECLINABLE /\ _declined(values[i]))
                 ends   == [i \in DOMAIN kinds |-> EndOf(i)]
                 gaps   == \E i \in DOMAIN kinds : Gap(i)
      <3>1. verdict = Verdict(ends, gaps)
        BY <2>1, Zenon DEF GradeJson
      <3>2. ASSUME NEW i \in DOMAIN ends, kinds[i] = "moving"
            PROVE  ends[i] \in {"none", "refused"} \/ \E m : ends[i] = End(resolve["moving"], m)
        BY <3>2
      <3> HIDE DEF ends, gaps
      <3> QED
        BY <3>1, <3>2
    <2> QED
      BY <1>1, <1>2, <2>2 DEF verdict
  <1>5. CASE task.mode = "list"
    <2>1. verdict = _grade_list(task.kinds, answer.text, resolve)
      BY <1>5 DEF grade
    <2> HIDE DEF verdict
    <2>2. \E ends, gaps :
            /\ verdict = Verdict(ends, gaps)
            /\ \A i \in DOMAIN ends : task.kinds[i] = "moving" =>
                 ends[i] \in {"none", "refused"} \/ \E m : ends[i] = End(resolve["moving"], m)
      <3> DEFINE kinds  == task.kinds
                 values == answer.text
                 ends   == <<End(resolve[kinds[1]], \A i \in DOMAIN values : values[i] = resolve[kinds[1]])>>
                 gaps   == \E i \in DOMAIN values : values[i] = "missing"
      <3>1. verdict = Verdict(ends, gaps)
        BY <2>1, Zenon DEF _grade_list
      <3>2. ASSUME NEW i \in DOMAIN ends, kinds[i] = "moving"
            PROVE  ends[i] \in {"none", "refused"} \/ \E m : ends[i] = End(resolve["moving"], m)
        <4> DEFINE all == \A j \in DOMAIN values : values[j] = resolve[kinds[1]]
                   e   == End(resolve[kinds[1]], all)
        <4>1. ends = <<e>>
          OBVIOUS
        <4> HIDE DEF ends, e
        <4>2. i = 1 /\ ends[i] = e
          BY <4>1
        <4> QED
          BY <3>2, <4>2 DEF e
      <3> HIDE DEF ends, gaps
      <3> QED
        BY <3>1, <3>2
    <2> QED
      BY <1>1, <1>2, <2>2 DEF verdict
  <1>6. CASE task.mode = "prose"
    <2>1. verdict = _grade_prose(task.kinds, answer.text, resolve)
      BY <1>6 DEF grade
    <2> HIDE DEF verdict
    <2>2. \E ends, gaps :
            /\ verdict = Verdict(ends, gaps)
            /\ \A i \in DOMAIN ends : task.kinds[i] = "moving" =>
                 ends[i] \in {"none", "refused"} \/ \E m : ends[i] = End(resolve["moving"], m)
      <3> DEFINE kinds  == task.kinds
                 values == answer.text
                 every == FlattenSeq(values)
                 refusedSomewhere(kind) ==
                   \E k \in DOMAIN values : \E l \in ToSet(values[k]) : _is_refusal(l, kind)
                 EndOf(i) ==
                   LET kind == kinds[i]
                       alone == \A j \in DOMAIN kinds : kinds[j] = kind => j = i
                       lines == IF values[i] = <<>> /\ alone /\ kind # "absent" THEN every ELSE values[i]
                       valued == \E x \in ToSet(lines) : _has_value(x, kind) /\ ~_is_refusal(x, kind)
                       refused ==
                         /\ ~valued
                         /\ \/ IF lines = <<>> THEN refusedSomewhere(kind) ELSE _is_refusal(Head(lines), kind)
                            \/ /\ \A x \in ToSet(lines) : ~_has_value(x, kind)
                               /\ refusedSomewhere(kind)
                   IN  IF refused THEN "refused"
                       ELSE End(resolve[kind], \E x \in ToSet(lines) : _matches_in_line(x, resolve[kind], kind))
                 ends   == [i \in DOMAIN kinds |-> EndOf(i)]
                 gaps   == FALSE
      <3>1. verdict = Verdict(ends, gaps)
        BY <2>1, Zenon DEF _grade_prose
      <3>2. ASSUME NEW i \in DOMAIN ends, kinds[i] = "moving"
            PROVE  ends[i] \in {"none", "refused"} \/ \E m : ends[i] = End(resolve["moving"], m)
        BY <3>2
      <3> HIDE DEF ends, gaps
      <3> QED
        BY <3>1, <3>2
    <2> QED
      BY <1>1, <1>2, <2>2 DEF verdict
  <1> QED
    BY <1>3, <1>4, <1>5, <1>6

\* A grade counts nothing that was declined, and calls an answer wrong for a value
\* that is, or for one that is not there.
LEMMA VerdictWrong ==
  ASSUME NEW ends, NEW gaps \in BOOLEAN, Verdict(ends, gaps).correct = FALSE
  PROVE  gaps \/ \E j \in DOMAIN ends : ends[j] = "missed"
  BY GradingAssumption DEF Verdict

LEMMA AnswerIsOne ==
  ASSUME NEW task \in Tasks, NEW answer \in AnswersOf[task]
  PROVE  /\ DOMAIN answer.text = DOMAIN task.kinds
         /\ answer = [text |-> answer.text, explained |-> answer.explained]
         /\ answer.text = [j \in DOMAIN task.kinds |-> answer.text[j]]
  <1> DEFINE n == Len(task.kinds)
             written == {t \in [1 .. n -> UNION {Values(task.kinds[i]) : i \in 1 .. n}] :
                           \A i \in 1 .. n : t[i] \in Values(task.kinds[i])}
             said == {t \in [1 .. n -> UNION {SeqOf(Lines(task.kinds[i]), 2) : i \in 1 .. n}] :
                        /\ \A i \in 1 .. n : ToSet(t[i]) \subseteq Lines(task.kinds[i])
                        /\ Len(FlattenSeq(t)) \in 1 .. MaxLines}
  <1>1. answer \in Answers(task)
    BY DEF AnswersOf
  <1>2. \A t \in written \cup said : t = [j \in 1 .. n |-> t[j]]
    OBVIOUS
  <1>3. DOMAIN task.kinds = 1 .. n
    BY GradingAssumption
  <1>4. Answers(task) = IF task.mode = "prose" THEN {[text |-> t, explained |-> FALSE] : t \in said}
                        ELSE {[text |-> t, explained |-> e] : t \in written, e \in BOOLEAN}
    BY DEF Answers
  <1> HIDE DEF written, said, n
  <1>5. PICK t, e : answer = [text |-> t, explained |-> e] /\ t \in written \cup said
    <2>1. CASE task.mode = "prose"
      BY <1>1, <1>4, <2>1
    <2>2. CASE task.mode # "prose"
      <3>1. answer \in {[text |-> t, explained |-> e] : t \in written, e \in BOOLEAN}
        BY <1>1, <1>4, <2>2
      <3> QED
        BY <3>1
    <2> QED
      BY <2>1, <2>2
  <1>6. answer.text = t /\ answer.explained = e
    BY <1>5
  <1> QED
    BY <1>2, <1>3, <1>5, <1>6

\* The answer with a value declined.
LEMMA DeclinedIsOne ==
  ASSUME NEW task \in Tasks, NEW answer \in AnswersOf[task], NEW i \in DOMAIN task.kinds,
         NEW mode
  PROVE  LET other == Declining(answer, i, mode)
         IN  /\ DOMAIN other.text = DOMAIN task.kinds
             /\ other.explained = answer.explained
             /\ \A j \in DOMAIN task.kinds \ {i} : other.text[j] = answer.text[j]
             /\ other.text[i] = IF mode = "prose" THEN <<"refused">> ELSE "refused"
  <1>1. answer = [text |-> answer.text, explained |-> answer.explained]
    BY AnswerIsOne
  <1>2. answer.text = [j \in DOMAIN task.kinds |-> answer.text[j]]
    BY AnswerIsOne
  <1> DEFINE other == Declining(answer, i, mode)
             text == [answer.text EXCEPT ![i] = IF mode = "prose" THEN <<"refused">> ELSE "refused"]
  <1>3. other = [text |-> text, explained |-> answer.explained]
    BY <1>1 DEF Declining
  <1>4. other.text = text /\ other.explained = answer.explained
    BY <1>3
  <1> QED
    BY <1>2, <1>4

\* What to decline a value does to a grade.
SparedBy(task, answer, resolve, i) ==
  LET first == grade(task, answer, resolve)
      second  == grade(task, Declining(answer, i, task.mode), resolve)
  IN  /\ \A j \in DOMAIN second.ends : second.ends[j] = "missed" => j # i /\ first.ends[j] = "missed"
      /\ second.correct = FALSE =>
           \/ \E j \in DOMAIN second.ends : j # i /\ first.ends[j] = "missed"
           \/ task.mode = "json" /\ \E j \in DOMAIN second.ends \ {i} :
                answer.text[j] \in {"missing", "0", "unknown"}

LEMMA DecliningInFile ==
  ASSUME NEW task \in Tasks, NEW answer \in AnswersOf[task], NEW resolve, NEW i \in DOMAIN task.kinds,
         task.kinds[i] = "moving", task.mode = "json"
  PROVE  SparedBy(task, answer, resolve, i)
  <1> DEFINE kinds == task.kinds
             other == Declining(answer, i, task.mode)
             EndOf(values, j) ==
               IF values[j] = "missing" THEN "none"
               ELSE IF kinds[j] \notin UNDECLINABLE /\ _declined(values[j]) THEN "refused"
               ELSE IF kinds[j] \in {"enum", "never"}
               THEN End("-", _matches(values[j], "-", kinds[j]))
               ELSE End(resolve[kinds[j]], _matches(values[j], resolve[kinds[j]], kinds[j]))
             Gap(values, explained, j) ==
               \/ values[j] = "missing" /\ ~explained
               \/ /\ Placeholder(values[j])
                  /\ ~(kinds[j] \notin UNDECLINABLE /\ _declined(values[j]))
             EndsOf(values) == [j \in DOMAIN kinds |-> EndOf(values, j)]
             Gaps(values, explained) == \E j \in DOMAIN kinds : Gap(values, explained, j)
             first == grade(task, answer, resolve)
             second  == grade(task, other, resolve)
  <1>1. /\ first = Verdict(EndsOf(answer.text), Gaps(answer.text, answer.explained))
        /\ second = Verdict(EndsOf(other.text), Gaps(other.text, other.explained))
    BY Zenon DEF grade, GradeJson
  <1>2. /\ \A j \in DOMAIN kinds \ {i} : other.text[j] = answer.text[j]
        /\ other.text[i] = "refused" /\ other.explained = answer.explained
    BY DeclinedIsOne
  <1> HIDE DEF other, first, second
  <1>3. EndOf(other.text, i) = "refused" /\ ~Gap(other.text, other.explained, i)
    BY <1>2 DEF _declined, UNDECLINABLE, Placeholder
  <1>4. \A j \in DOMAIN kinds \ {i} :
          /\ EndOf(other.text, j) = EndOf(answer.text, j)
          /\ Gap(other.text, other.explained, j) => answer.text[j] \in {"missing", "0", "unknown"}
    BY <1>2 DEF Placeholder
  <1> HIDE DEF EndOf, Gap
  <1>5. DOMAIN EndsOf(other.text) = DOMAIN kinds /\ DOMAIN EndsOf(answer.text) = DOMAIN kinds
        /\ \A j \in DOMAIN kinds : EndsOf(other.text)[j] = EndOf(other.text, j)
                                   /\ EndsOf(answer.text)[j] = EndOf(answer.text, j)
    OBVIOUS
  <1> HIDE DEF EndsOf
  <1>6. first.ends = EndsOf(answer.text) /\ second.ends = EndsOf(other.text)
    BY <1>1 DEF Verdict
  <1>7. \A j \in DOMAIN second.ends : second.ends[j] = "missed" => j # i /\ first.ends[j] = "missed"
    BY <1>3, <1>4, <1>5, <1>6
  <1>8. ASSUME second.correct = FALSE
        PROVE  \/ \E j \in DOMAIN second.ends : j # i /\ first.ends[j] = "missed"
               \/ \E j \in DOMAIN second.ends \ {i} : answer.text[j] \in {"missing", "0", "unknown"}
    <2>1. Gaps(other.text, other.explained) \/ \E j \in DOMAIN EndsOf(other.text) : EndsOf(other.text)[j] = "missed"
      BY <1>1, <1>8, VerdictWrong
    <2> QED
      BY <1>3, <1>4, <1>5, <1>6, <1>7, <2>1
  <1> QED
    BY <1>7, <1>8 DEF SparedBy, first, second, other

LEMMA DecliningInProse ==
  ASSUME NEW task \in Tasks, NEW answer \in AnswersOf[task], NEW resolve, NEW i \in DOMAIN task.kinds,
         task.kinds[i] = "moving", task.mode = "prose"
  PROVE  SparedBy(task, answer, resolve, i)
  <1> DEFINE kinds == task.kinds
             other == Declining(answer, i, task.mode)
             Somewhere(text, kind) ==
               \E k \in DOMAIN text : \E l \in ToSet(text[k]) : _is_refusal(l, kind)
             AloneAt(j) == \A k \in DOMAIN kinds : kinds[k] = kinds[j] => k = j
             LinesOf(text, j) ==
               IF text[j] = <<>> /\ AloneAt(j) /\ kinds[j] # "absent" THEN FlattenSeq(text) ELSE text[j]
             Valued(lines, kind) == \E l \in ToSet(lines) : _has_value(l, kind) /\ ~_is_refusal(l, kind)
             Refuses(text, lines, kind) ==
               /\ ~Valued(lines, kind)
               /\ \/ IF lines = <<>> THEN Somewhere(text, kind) ELSE _is_refusal(Head(lines), kind)
                  \/ /\ \A l \in ToSet(lines) : ~_has_value(l, kind)
                     /\ Somewhere(text, kind)
             Hit(lines, kind) == \E l \in ToSet(lines) : _matches_in_line(l, resolve[kind], kind)
             EndOf(text, j) ==
               IF Refuses(text, LinesOf(text, j), kinds[j]) THEN "refused"
               ELSE End(resolve[kinds[j]], Hit(LinesOf(text, j), kinds[j]))
             EndsOf(text) == [j \in DOMAIN kinds |-> EndOf(text, j)]
             first == grade(task, answer, resolve)
             second  == grade(task, other, resolve)
  <1>1. first = Verdict(EndsOf(answer.text), FALSE) /\ second = Verdict(EndsOf(other.text), FALSE)
    BY Zenon DEF grade, _grade_prose
  <1>2. /\ \A j \in DOMAIN kinds \ {i} : other.text[j] = answer.text[j]
        /\ other.text[i] = <<"refused">> /\ DOMAIN other.text = DOMAIN kinds
        /\ DOMAIN answer.text = DOMAIN kinds
    <2>1. DOMAIN answer.text = DOMAIN kinds
      BY AnswerIsOne
    <2>2. /\ DOMAIN other.text = DOMAIN kinds
          /\ \A j \in DOMAIN kinds \ {i} : other.text[j] = answer.text[j]
          /\ other.text[i] = IF task.mode = "prose" THEN <<"refused">> ELSE "refused"
      BY DeclinedIsOne
    <2> QED
      BY <2>1, <2>2
  <1>3. \A j \in DOMAIN kinds : kinds[j] \in {"moving", "absent"}
    BY GradingAssumption DEF KindsOf
  <1> HIDE DEF other, first, second
  <1>4. ToSet(<<"refused">>) = {"refused"} /\ Head(<<"refused">>) = "refused" /\ <<"refused">> # <<>>
    BY DEF ToSet
  <1>5. EndOf(other.text, i) = "refused"
    <2>1. LinesOf(other.text, i) = <<"refused">>
      BY <1>2, <1>4
    <2> HIDE DEF LinesOf
    <2>2. _is_refusal("refused", "moving")
      BY DEF _is_refusal
    <2>3. ~Valued(<<"refused">>, "moving")
      BY <1>4, <2>2
    <2> HIDE DEF Valued, Somewhere
    <2>4. Refuses(other.text, <<"refused">>, "moving")
      BY <1>4, <2>2, <2>3
    <2> HIDE DEF Refuses
    <2> QED
      BY <2>1, <2>4
  <1>6. ASSUME NEW j \in DOMAIN kinds \ {i}
        PROVE  EndOf(other.text, j) \in {"refused", EndOf(answer.text, j)}
    <2>1. LinesOf(other.text, j) = answer.text[j] /\ LinesOf(answer.text, j) = answer.text[j]
      BY <1>2, <1>3
    <2>2. Somewhere(answer.text, kinds[j]) => Somewhere(other.text, kinds[j])
      <3>1. CASE kinds[j] = "absent"
        BY <3>1 DEF _is_refusal
      <3>2. CASE kinds[j] # "absent"
        BY <1>2, <1>4, <3>2 DEF _is_refusal
      <3> QED
        BY <3>1, <3>2
    <2> HIDE DEF LinesOf, Somewhere, Valued, Hit
    <2>3. Refuses(answer.text, answer.text[j], kinds[j]) => Refuses(other.text, answer.text[j], kinds[j])
      BY <2>2
    <2> HIDE DEF Refuses
    <2> QED
      BY <2>1, <2>3
  <1> HIDE DEF EndOf
  <1>7. DOMAIN EndsOf(other.text) = DOMAIN kinds /\ DOMAIN EndsOf(answer.text) = DOMAIN kinds
        /\ \A j \in DOMAIN kinds : EndsOf(other.text)[j] = EndOf(other.text, j)
                                   /\ EndsOf(answer.text)[j] = EndOf(answer.text, j)
    OBVIOUS
  <1> HIDE DEF EndsOf
  <1>8. first.ends = EndsOf(answer.text) /\ second.ends = EndsOf(other.text)
    BY <1>1 DEF Verdict
  <1>9. \A j \in DOMAIN second.ends : second.ends[j] = "missed" => j # i /\ first.ends[j] = "missed"
    BY <1>5, <1>6, <1>7, <1>8
  <1>10. ASSUME second.correct = FALSE
         PROVE  \E j \in DOMAIN second.ends : second.ends[j] = "missed"
    BY <1>1, <1>8, <1>10, VerdictWrong
  <1> QED
    BY <1>9, <1>10 DEF SparedBy, first, second, other

\* Whatever is declined, in whichever mode.
LEMMA DecliningSpares ==
  ASSUME graded # Unknown, graded.task \in Tasks, graded.answer \in AnswersOf[graded.task],
         graded.grade = grade(graded.task, graded.answer, graded.truth)
  PROVE  DecliningNeverCosts
  <1> SUFFICES ASSUME graded.task.mode # "list",
                      NEW i \in DOMAIN graded.task.kinds, graded.task.kinds[i] = "moving"
               PROVE  LET instead == grade(graded.task, Declining(graded.answer, i, graded.task.mode), graded.truth)
                      IN  /\ \A j \in DOMAIN instead.ends : instead.ends[j] = "missed" => j # i /\ Wrong(j)
                          /\ instead.correct = FALSE =>
                               \/ \E j \in DOMAIN instead.ends : j # i /\ Wrong(j)
                               \/ graded.task.mode = "json" /\ \E j \in DOMAIN instead.ends \ {i} :
                                    graded.answer.text[j] \in {"missing", "0", "unknown"}
    BY DEF DecliningNeverCosts
  <1>1. graded.task.mode \in {"json", "prose"}
    BY GradingAssumption
  <1>0. PICK task \in Tasks, answer \in AnswersOf[graded.task], resolve \in {graded.truth} :
          /\ task = graded.task /\ answer = graded.answer /\ resolve = graded.truth
          /\ answer \in AnswersOf[task]
    OBVIOUS
  <1>4. i \in DOMAIN task.kinds /\ task.kinds[i] = "moving"
    BY <1>0
  <1>2. SparedBy(task, answer, resolve, i)
    BY <1>0, <1>1, <1>4, DecliningInFile, DecliningInProse
  <1> QED
    BY <1>0, <1>2 DEF SparedBy, Wrong

\* A truth that is remembered stays one as the service goes on talking.
LEMMA StillRemembers ==
  ASSUME GradingTyped, NEW hit, Remembers(hit), \A v \in Versions : truthOf[v] <= truthOf'[v],
         truthOf' \in [Versions -> Nat]
  PROVE  Remembers(hit)'
  BY DEF Remembers, GradingTyped

LEMMA GradesKeeps ==
  ASSUME GradingInv, NEW g \in Graders, Grades(g)
  PROVE  GradingInv'
  <1> USE DEF GradingInv
  <1> DEFINE Made(task, answer) ==
          LET hit    == _cache_load(g)
              posed  == Asked(task, answer)
              fetch  == posed /\ ~Remembered(hit) /\ service # Unknown
              truths == Resolve(IF posed THEN Truth(g) ELSE Unknown)
          IN  /\ memory' = [memory EXCEPT ![g] = IF fetch THEN <<hour, service>> ELSE IF posed THEN hit ELSE @]
              /\ truthFile' = IF fetch THEN <<hour, service>> ELSE truthFile
              /\ graded' = [task |-> task, answer |-> answer, at |-> hour, truth |-> truths,
                            grade |-> grade(task, answer, truths), regrade |-> Unknown]
  <1>0. PICK task \in Tasks : \E answer \in AnswersOf[task] : Made(task, answer)
    BY Zenon DEF Grades
  <1>1. PICK answer \in AnswersOf[task] : Made(task, answer)
    BY <1>0
  <1> DEFINE hit    == _cache_load(g)
             posed  == Asked(task, answer)
             fetch  == posed /\ ~Remembered(hit) /\ service # Unknown
             truths == Resolve(IF posed THEN Truth(g) ELSE Unknown)
             verdict == grade(task, answer, truths)
  <1>2. /\ graded' = [task |-> task, answer |-> answer, at |-> hour, truth |-> truths,
                      grade |-> verdict, regrade |-> Unknown]
        /\ memory' = [memory EXCEPT ![g] = IF fetch THEN <<hour, service>> ELSE IF posed THEN hit ELSE @]
        /\ truthFile' = IF fetch THEN <<hour, service>> ELSE truthFile
        /\ UNCHANGED <<hour, service, truthOf>>
    BY <1>1, Zenon DEF Grades
  <1>3. Remembers(hit)
    BY DEF _cache_load
  <1>4. service # Unknown => Remembers(<<hour, service>>)
    BY DEF Remembers, GradingTyped
  <1>5. truths["moving"] # Unknown =>
          truths["moving"] \in Versions /\ truthOf[truths["moving"]] + TRUTH_TTL > hour
    <2>1. truths["moving"] = IF posed THEN Truth(g) ELSE Unknown
      BY DEF Resolve
    <2> SUFFICES ASSUME truths["moving"] # Unknown
                 PROVE  Truth(g) \in Versions /\ truthOf[Truth(g)] + TRUTH_TTL > hour
      BY <2>1
    <2>2. truths["moving"] = Truth(g)
      BY <2>1
    <2>3. CASE Remembered(hit)
      <3>1. Truth(g) = hit[2]
        BY <2>3 DEF Truth
      <3>2. hit[1] \in Nat /\ hit[2] \in Versions /\ hit[1] <= truthOf[hit[2]] /\ hour - hit[1] < TRUTH_TTL
        BY <1>3, <2>3 DEF Remembers, Remembered
      <3>3. truthOf[hit[2]] \in Nat /\ hour \in Nat /\ TRUTH_TTL \in Nat
        BY <3>2, GradingAssumption DEF GradingTyped
      <3> HIDE DEF hit
      <3> QED
        BY <3>1, <3>2, <3>3
    <2>4. CASE ~Remembered(hit)
      <3>1. Truth(g) = service
        BY <2>4 DEF Truth
      <3>2. service # Unknown
        BY <2>2, <3>1
      <3> QED
        BY <3>1, <3>2, GradingAssumption DEF GradingTyped
    <2> QED
      BY <2>3, <2>4
  <1>6. /\ \A i \in DOMAIN verdict.ends :
              verdict.ends[i] \in {"matched", "missed"} /\ task.kinds[i] = "moving"
                => truths["moving"] # Unknown
        /\ verdict.correct # Unknown =>
              \E i \in DOMAIN verdict.ends : verdict.ends[i] \in {"matched", "missed"}
    BY CheckedAgainst
  <1> HIDE DEF hit, posed, fetch, truths, verdict
  <1>7. /\ graded'.task = task /\ graded'.at = hour /\ graded'.truth = truths
        /\ graded'.grade = verdict /\ graded'.regrade = Unknown /\ graded'.answer = answer
    BY <1>2
  <1>8. GradedByTheTruth'
    BY <1>2, <1>5, <1>6, <1>7 DEF GradedByTheTruth
  <1>9. RegradeStable'
    BY <1>7 DEF RegradeStable
  <1>10. GradingTyped'
    BY <1>2, <1>7 DEF GradingTyped
  <1>11. Remembers(truthFile)' /\ \A h \in Graders : Remembers(memory[h])'
    <2>1. \A h \in Graders : memory'[h] \in {memory[h], hit, <<hour, service>>}
                            /\ (memory'[h] = <<hour, service>> => fetch \/ memory'[h] \in {memory[h], hit})
      BY <1>2 DEF GradingTyped
    <2>2. fetch => service # Unknown
      BY DEF fetch
    <2>3. \A x : Remembers(x) => Remembers(x)'
      BY <1>2 DEF Remembers
    <2>4. \A h \in Graders : Remembers(memory'[h])
      BY <1>3, <1>4, <2>1, <2>2
    <2>5. Remembers(truthFile')
      BY <1>2, <1>4, <2>2
    <2> QED
      BY <1>2, <2>4, <2>5 DEF Remembers
  <1>12. graded' # Unknown =>
           /\ graded'.task \in Tasks /\ graded'.answer \in AnswersOf[graded'.task]
           /\ graded'.grade = grade(graded'.task, graded'.answer, graded'.truth)
    BY <1>7 DEF verdict
  <1>13. graded'.at \in Nat /\ graded'.truth["moving"] \in Versions \cup {Unknown}
    BY <1>5, <1>7 DEF GradingTyped
  <1> QED
    BY <1>8, <1>9, <1>10, <1>11, <1>12, <1>13

LEMMA GradingStep ==
  ASSUME GradingInv, [GradingNext]_gradingVars
  PROVE  GradingInv'
  <1> USE DEF GradingInv
  <1>1. ASSUME NEW g \in Graders, Regrades(g)
        PROVE  GradingInv'
    <2> DEFINE again == grade(graded.task, graded.answer, graded.truth)
    <2>1. graded' = [task |-> graded.task, answer |-> graded.answer, at |-> graded.at,
                     truth |-> graded.truth, grade |-> graded.grade, regrade |-> again]
          /\ again = graded.grade /\ graded # Unknown
      BY <1>1 DEF Regrades, Filed, GradingTyped
    <2> HIDE DEF again
    <2>2. /\ graded'.task = graded.task /\ graded'.answer = graded.answer /\ graded'.at = graded.at
          /\ graded'.truth = graded.truth /\ graded'.grade = graded.grade /\ graded'.regrade = graded.grade
      BY <2>1
    <2>3. UNCHANGED <<hour, service, truthOf, memory, truthFile>>
      BY <1>1 DEF Regrades
    <2>4. GradingTyped' /\ Remembers(truthFile)' /\ \A h \in Graders : Remembers(memory[h])'
      BY <2>1, <2>2, <2>3 DEF GradingTyped, Remembers
    <2>5. GradedByTheTruth' /\ RegradeStable'
      BY <2>1, <2>2, <2>3 DEF GradedByTheTruth, RegradeStable
    <2> QED
      BY <2>1, <2>2, <2>4, <2>5
  <1>2. CASE NextAnswer
    BY <1>2 DEF NextAnswer, GradingTyped, Remembers, GradedByTheTruth, RegradeStable
  <1>3. ASSUME NEW g \in Graders, GraderStarts(g)
        PROVE  GradingInv'
    <2>1. UNCHANGED <<hour, service, truthOf, truthFile, graded>> /\ DOMAIN memory' = Graders
          /\ \A h \in Graders : memory'[h] \in {memory[h], <<>>}
      BY <1>3 DEF GraderStarts, GradingTyped
    <2>2. GradingTyped' /\ Remembers(truthFile)' /\ GradedByTheTruth' /\ RegradeStable'
      BY <2>1 DEF GradingTyped, Remembers, GradedByTheTruth, RegradeStable
    <2>3. \A h \in Graders : Remembers(memory[h])'
      BY <2>1 DEF Remembers
    <2> QED
      BY <2>1, <2>2, <2>3
  <1>4. ASSUME NEW what \in Versions \cup {Unknown}, ServiceSays(what) \/ (HourPasses /\ what = service)
        PROVE  GradingInv'
    <2>1. UNCHANGED <<memory, truthFile, graded>>
      BY <1>4 DEF ServiceSays, HourPasses
    <2>2. GradingTyped' /\ \A v \in Versions : truthOf[v] <= truthOf'[v]
      BY <1>4 DEF ServiceSays, HourPasses, GradingTyped
    <2>3. Remembers(truthFile)' /\ \A h \in Graders : Remembers(memory[h])'
      BY <2>1, <2>2 DEF Remembers, GradingTyped
    <2>4. GradedByTheTruth' /\ RegradeStable'
      <3>1. \A v \in Versions : truthOf[v] \in Nat /\ truthOf'[v] \in Nat
        BY <2>2 DEF GradingTyped
      <3>2. TRUTH_TTL \in Nat
        BY GradingAssumption
      <3> QED
        BY <2>1, <2>2, <3>1, <3>2 DEF GradedByTheTruth, RegradeStable
    <2> QED
      BY <2>1, <2>2, <2>3, <2>4
  <1>5. CASE UNCHANGED gradingVars
    BY <1>5 DEF gradingVars, GradingTyped, Remembers, GradedByTheTruth, RegradeStable
  <1> QED
    BY <1>1, <1>2, <1>3, <1>4, <1>5, GradesKeeps DEF GradingNext, GradingTyped

LEMMA GradingInitially == GradingInit => GradingInv
  <1> SUFFICES ASSUME GradingInit PROVE GradingInv
    OBVIOUS
  <1>1. GradingTyped
    BY DEF GradingInit, GradingTyped, Versions
  <1> QED
    BY <1>1 DEF GradingInit, GradingInv, Remembers, GradedByTheTruth, RegradeStable

(* The grader (grading.py): whichever processes fetch, remember and reload *)
(* the truth, an answer is only ever checked against one that the service  *)
(* gave within TRUTH_TTL, graded again it keeps its grade, and to say that *)
(* a value could not be had is never graded worse than to give a wrong one.*)
THEOREM GradesAreEarned == Spec => []GradesEarned
  <1>1. Init => GradingInv
    BY GradingInitially DEF Init
  <1>2. GradingInv /\ [Next]_vars => GradingInv'
    BY LabStep, GradingStep
  <1>3. GradingInv => GradesEarned
    <2> SUFFICES ASSUME GradingInv PROVE GradesEarned
      OBVIOUS
    <2>1. DecliningNeverCosts
      <3>1. CASE graded = Unknown
        BY <3>1 DEF DecliningNeverCosts
      <3>2. CASE graded # Unknown
        BY <3>2, DecliningSpares DEF GradingInv
      <3> QED
        BY <3>1, <3>2
    <2> QED
      BY <2>1 DEF GradingInv, GradesEarned
  <1> QED
    BY <1>1, <1>2, <1>3, PTL DEF Spec

-----------------------------------------------------------------------------
(* The scoreboard.  Where nobody was advised, the same runs on the other   *)
(* side are the flipped kinds, and every number the page shows is a sum    *)
(* over kinds chosen by what flipping leaves alone.                        *)

Flipped(f, g) ==
  /\ f \in [RunKinds -> Nat] /\ g \in [RunKinds -> Nat]
  /\ \A r \in RunKinds : f[r] > 0 => Unadvised(r)
  /\ \A r \in RunKinds : g[r] = IF Unadvised(r) THEN f[Flip(r)] ELSE 0

\* What a run shares with the same one on the other side.
SameRun(r, s) ==
  /\ r.at = s.at /\ r.cost = s.cost /\ r.attempts = s.attempts /\ r.arm = s.arm
  /\ r.answer = s.answer /\ r.grade = s.grade /\ r.advice = s.advice
  /\ r.oom = s.oom /\ r.completed = s.completed /\ r.recovered = s.recovered
  /\ r.skipped = s.skipped /\ r.provider = s.provider

\* Kinds, and those of the same runs on the other side.
Opposite(S, T) ==
  /\ S \subseteq RunKinds /\ T \subseteq RunKinds
  /\ \A r \in S : Unadvised(r) /\ Flip(r) \in T
  /\ \A r \in T : Unadvised(r) /\ Flip(r) \in S

LEMMA FlipIs ==
  ASSUME NEW r \in RunKinds, Unadvised(r)
  PROVE  /\ Flip(r) \in RunKinds /\ Unadvised(Flip(r)) /\ Flip(Flip(r)) = r
         /\ SameRun(Flip(r), r) /\ Flip(r).asks = ~r.asks
         /\ r.asks \in BOOLEAN /\ r.cost \in Nat /\ r.attempts \in Nat
  <1>1. r \in RunRecords /\ Flip(r) \in RunKinds
    BY ScoreboardAssumption
  <1>2. SameRun(Flip(r), r) /\ Flip(r).asks = ~r.asks /\ r.asks \in BOOLEAN
        /\ r.cost \in Nat /\ r.attempts \in Nat /\ Flip(Flip(r)) = r
    BY <1>1 DEF RunRecords, Flip, SameRun
  <1> QED
    BY <1>1, <1>2 DEF Unadvised, SameRun

LEMMA KindsFinite == ASSUME NEW S, S \subseteq RunKinds PROVE IsFiniteSet(S)
  BY ScoreboardAssumption, FS_Subset

LEMMA NumbersAre ==
  ASSUME NEW f \in [RunKinds -> Nat], NEW S, S \subseteq RunKinds
  PROVE  /\ Number(f, S) \in Nat /\ Spent(f, S) \in Nat /\ Attempts(f, S) \in Nat
         /\ S = {} => Number(f, S) = 0
  <1>1. \A m \in Nat, n \in Nat : m * n \in Nat
    OBVIOUS
  <1>2. \A r \in S : f[r] \in Nat /\ r.cost \in Nat /\ r.attempts \in Nat
    BY ScoreboardAssumption DEF RunRecords
  <1>3. IsFiniteSet(S)
    BY KindsFinite
  <1>4. Number(f, S) \in Nat /\ (S = {} => Number(f, S) = 0)
    <2> DEFINE w == [r \in S |-> f[r]]
    <2>1. w \in [S -> Nat]
      BY <1>2
    <2> HIDE DEF w
    <2>2. SumFunction(w) \in Nat /\ (S = {} => SumFunction(w) = 0)
      BY <1>3, <2>1, SumSteps
    <2> QED
      BY <2>2 DEF Number, w
  <1>5. Spent(f, S) \in Nat
    <2> DEFINE w == [r \in S |-> r.cost * f[r]]
    <2>1. w \in [S -> Nat]
      BY <1>1, <1>2
    <2> HIDE DEF w
    <2>2. SumFunction(w) \in Nat
      BY <1>3, <2>1, SumSteps
    <2> QED
      BY <2>2 DEF Spent, w
  <1>6. Attempts(f, S) \in Nat
    <2> DEFINE w == [r \in S |-> r.attempts * f[r]]
    <2>1. w \in [S -> Nat]
      BY <1>1, <1>2
    <2> HIDE DEF w
    <2>2. SumFunction(w) \in Nat
      BY <1>3, <2>1, SumSteps
    <2> QED
      BY <2>2 DEF Attempts, w
  <1> QED
    BY <1>4, <1>5, <1>6

\* The sums of the one side are those of the other.
LEMMA SumsAreSwapped ==
  ASSUME NEW S, NEW T, Opposite(S, T), NEW w \in [T -> Nat], NEW v \in [S -> Nat],
         \A r \in T : v[Flip(r)] = w[r]
  PROVE  SumFunction(v) = SumFunction(w)
  <1> DEFINE h == [r \in T |-> Flip(r)]
  <1>1. IsFiniteSet(T)
    BY KindsFinite DEF Opposite
  <1>2. h \in [T -> S]
    BY DEF Opposite
  <1>3. \A x, y \in T : h[x] = h[y] => x = y
    <2>1. \A x \in T : Flip(Flip(x)) = x
      BY FlipIs DEF Opposite
    <2> QED
      BY <2>1
  <1>4. \A y \in S : \E x \in T : h[x] = y
    <2>1. \A y \in S : Flip(Flip(y)) = y /\ Flip(y) \in T
      BY FlipIs DEF Opposite
    <2> QED
      BY <2>1
  <1>5. \A x \in T : v[h[x]] = w[x]
    OBVIOUS
  <1> HIDE DEF h
  <1> QED
    BY <1>1, <1>2, <1>3, <1>4, <1>5, SumRenamed

LEMMA NumbersSwapped ==
  ASSUME NEW f, NEW g, Flipped(f, g), NEW S, NEW T, Opposite(S, T)
  PROVE  /\ Number(g, S) = Number(f, T)
         /\ Spent(g, S) = Spent(f, T)
         /\ Attempts(g, S) = Attempts(f, T)
  <1>1. \A r \in T : /\ r \in RunKinds /\ Flip(r) \in S /\ Flip(r) \in RunKinds /\ g[Flip(r)] = f[r]
                     /\ Flip(r).cost = r.cost /\ Flip(r).attempts = r.attempts
    <2> TAKE r \in T
    <2>1. r \in RunKinds /\ Unadvised(r) /\ Flip(r) \in S
      BY DEF Opposite
    <2>2. /\ Flip(r) \in RunKinds /\ Unadvised(Flip(r)) /\ Flip(Flip(r)) = r /\ SameRun(Flip(r), r)
      BY <2>1, FlipIs
    <2> QED
      BY <2>1, <2>2 DEF Flipped, SameRun
  <1>2. \A r \in RunKinds : f[r] \in Nat /\ g[r] \in Nat /\ r.cost \in Nat /\ r.attempts \in Nat
    <2> TAKE r \in RunKinds
    <2>1. r \in RunRecords
      BY ScoreboardAssumption
    <2> QED
      BY <2>1 DEF RunRecords, Flipped
  <1>3. S \subseteq RunKinds /\ T \subseteq RunKinds
    BY DEF Opposite
  <1>m. \A m \in Nat, n \in Nat : m * n \in Nat
    OBVIOUS
  <1>4. Number(g, S) = Number(f, T)
    <2> DEFINE v == [r \in S |-> g[r]]
               w == [r \in T |-> f[r]]
    <2>1. v \in [S -> Nat] /\ w \in [T -> Nat] /\ \A r \in T : v[Flip(r)] = w[r]
      BY <1>1, <1>2, <1>3
    <2> HIDE DEF v, w
    <2>2. SumFunction(v) = SumFunction(w)
      BY <2>1, SumsAreSwapped
    <2> QED
      BY <2>2 DEF Number, v, w
  <1>5. Spent(g, S) = Spent(f, T)
    <2> DEFINE v == [r \in S |-> r.cost * g[r]]
               w == [r \in T |-> r.cost * f[r]]
    <2>1. v \in [S -> Nat] /\ w \in [T -> Nat] /\ \A r \in T : v[Flip(r)] = w[r]
      BY <1>1, <1>2, <1>3, <1>m
    <2> HIDE DEF v, w
    <2>2. SumFunction(v) = SumFunction(w)
      BY <2>1, SumsAreSwapped
    <2> QED
      BY <2>2 DEF Spent, v, w
  <1>6. Attempts(g, S) = Attempts(f, T)
    <2> DEFINE v == [r \in S |-> r.attempts * g[r]]
               w == [r \in T |-> r.attempts * f[r]]
    <2>1. v \in [S -> Nat] /\ w \in [T -> Nat] /\ \A r \in T : v[Flip(r)] = w[r]
      BY <1>1, <1>2, <1>3, <1>m
    <2> HIDE DEF v, w
    <2>2. SumFunction(v) = SumFunction(w)
      BY <2>1, SumsAreSwapped
    <2> QED
      BY <2>2 DEF Attempts, v, w
  <1> QED
    BY <1>4, <1>5, <1>6

\* Of the two, those that flipping does not tell apart are each other's too.
LEMMA PartsOpposite ==
  ASSUME NEW S, NEW T, Opposite(S, T), NEW U, U \subseteq S, NEW V, V \subseteq T,
         \A r \in S : r \in U <=> Flip(r) \in V
  PROVE  Opposite(U, V)
  <1>1. \A r \in T : r \in RunKinds /\ Unadvised(r) /\ Flip(r) \in S /\ Flip(Flip(r)) = r
    BY FlipIs DEF Opposite
  <1> QED
    BY <1>1 DEF Opposite

LEMMA PartsAre ==
  ASSUME NEW S, NEW T, Opposite(S, T)
  PROVE  /\ Opposite(Done(S), Done(T)) /\ Opposite(Failing(S), Failing(T))
         /\ Opposite(Recovered(S), Recovered(T)) /\ Opposite(Skipping(S), Skipping(T))
         /\ Opposite(GradedIn(S), GradedIn(T)) /\ Opposite(CheckedIn(S), CheckedIn(T))
         /\ Opposite(WellFormed(S), WellFormed(T)) /\ Opposite(Correct(S), Correct(T))
         /\ \A start : Opposite(From(S, start), From(T, start))
  <1>1. \A r \in S : Flip(r) \in T /\ SameRun(Flip(r), r)
    BY FlipIs DEF Opposite
  <1>2. Opposite(Done(S), Done(T))
    BY <1>1, PartsOpposite DEF Done, _scored, SameRun
  <1>3. Opposite(Failing(S), Failing(T))
    BY <1>1, PartsOpposite DEF Failing, SameRun
  <1>4. Opposite(Recovered(S), Recovered(T))
    BY <1>1, PartsOpposite DEF Recovered, SameRun
  <1>5. Opposite(Skipping(S), Skipping(T))
    BY <1>1, PartsOpposite DEF Skipping, SameRun
  <1>6. Opposite(GradedIn(S), GradedIn(T))
    BY <1>1, PartsOpposite DEF GradedIn, Graded, SameRun
  <1>7. Opposite(CheckedIn(S), CheckedIn(T))
    BY <1>1, PartsOpposite DEF CheckedIn, Checkable, Graded, SameRun
  <1>8. Opposite(WellFormed(S), WellFormed(T))
    BY <1>1, PartsOpposite DEF WellFormed, SameRun
  <1>9. Opposite(Correct(S), Correct(T))
    BY <1>1, PartsOpposite DEF Correct, SameRun
  <1>10. ASSUME NEW start PROVE Opposite(From(S, start), From(T, start))
    BY <1>1, PartsOpposite DEF From, SameRun
  <1> QED
    BY <1>2, <1>3, <1>4, <1>5, <1>6, <1>7, <1>8, <1>9, <1>10

LEMMA SidesOpposite ==
  ASSUME NEW f, NEW g, Flipped(f, g), NEW arm, NEW asks \in BOOLEAN
  PROVE  Opposite(Side(g, arm, asks), Side(f, arm, ~asks))
  <1>1. \A r \in RunKinds : g[r] > 0 => Unadvised(r)
    BY DEF Flipped
  <1>2. ASSUME NEW r \in Counted(g)
        PROVE  Unadvised(r) /\ Flip(r) \in Counted(f)
    <2>1. r \in RunKinds /\ g[r] > 0 /\ Unadvised(r)
      BY <1>1 DEF Counted
    <2>2. Flip(r) \in RunKinds /\ SameRun(Flip(r), r) /\ f[Flip(r)] > 0
      BY <2>1, FlipIs DEF Flipped
    <2> QED
      BY <2>1, <2>2 DEF Counted, _is_run, _lost_to_guest_memory, SameRun
  <1>3. ASSUME NEW r \in Counted(f)
        PROVE  Unadvised(r) /\ Flip(r) \in Counted(g)
    <2>1. r \in RunKinds /\ f[r] > 0 /\ Unadvised(r)
      BY DEF Counted, Flipped
    <2>2. /\ Flip(r) \in RunKinds /\ SameRun(Flip(r), r) /\ Unadvised(Flip(r)) /\ Flip(Flip(r)) = r
      BY <2>1, FlipIs
    <2>3. g[Flip(r)] = f[r]
      BY <2>2 DEF Flipped
    <2> QED
      BY <2>1, <2>2, <2>3 DEF Counted, _is_run, _lost_to_guest_memory, SameRun
  <1>4. \A r \in RunKinds : Unadvised(r) => /\ Flip(r).arm = r.arm /\ Flip(r).asks = ~r.asks
                                            /\ r.asks \in BOOLEAN
    BY FlipIs DEF SameRun
  <1>5. Counted(f) \subseteq RunKinds /\ Counted(g) \subseteq RunKinds
    BY DEF Counted
  <1> QED
    BY <1>2, <1>3, <1>4, <1>5 DEF Opposite, Side

\* What the tables are made of.
Shares == Nat \X Nat
CostRecords ==
  [runs : Nat, completed : Shares, perDone : Shares, perRun : Shares, attempts : Shares,
   skipped : Nat, valid : Shares, correct : Shares, since : Nat, doneSince : Shares]

LEMMA CostsAre ==
  ASSUME NEW f \in [RunKinds -> Nat], NEW S, S \subseteq RunKinds
  PROVE  Costs(f, S) \in CostRecords
  <1>1. /\ Done(S) \subseteq RunKinds /\ Failing(S) \subseteq RunKinds
        /\ Skipping(Failing(S)) \subseteq RunKinds
        /\ GradedIn(S) \subseteq RunKinds /\ WellFormed(GradedIn(S)) \subseteq RunKinds
        /\ CheckedIn(S) \subseteq RunKinds /\ Correct(CheckedIn(S)) \subseteq RunKinds
        /\ From(S, MCP_RULES_SINCE) \subseteq RunKinds
        /\ Done(From(S, MCP_RULES_SINCE)) \subseteq RunKinds
    BY DEF Done, Failing, Skipping, GradedIn, WellFormed, CheckedIn, Correct, From
  <1>2. \A U : U \subseteq RunKinds =>
          Number(f, U) \in Nat /\ Spent(f, U) \in Nat /\ Attempts(f, U) \in Nat
    BY NumbersAre
  <1> QED
    BY <1>1, <1>2 DEF Costs, CostRecords, Shares

LEMMA CostsSwapped ==
  ASSUME NEW f, NEW g, Flipped(f, g), NEW S, NEW T, Opposite(S, T)
  PROVE  Costs(g, S) = Costs(f, T)
  <1>1. Opposite(Done(S), Done(T)) /\ Opposite(Failing(S), Failing(T))
        /\ Opposite(GradedIn(S), GradedIn(T)) /\ Opposite(CheckedIn(S), CheckedIn(T))
        /\ Opposite(From(S, MCP_RULES_SINCE), From(T, MCP_RULES_SINCE))
    BY PartsAre
  <1>2. /\ Opposite(Skipping(Failing(S)), Skipping(Failing(T)))
        /\ Opposite(WellFormed(GradedIn(S)), WellFormed(GradedIn(T)))
        /\ Opposite(Correct(CheckedIn(S)), Correct(CheckedIn(T)))
        /\ Opposite(Done(From(S, MCP_RULES_SINCE)), Done(From(T, MCP_RULES_SINCE)))
    BY <1>1, PartsAre
  <1>3. \A U, V : Opposite(U, V) =>
          /\ Number(g, U) = Number(f, V) /\ Spent(g, U) = Spent(f, V)
          /\ Attempts(g, U) = Attempts(f, V)
    BY NumbersSwapped
  <1> QED
    BY <1>1, <1>2, <1>3 DEF Costs

\* A comparison seen from the other side.
LEMMA BetterMirrored ==
  ASSUME NEW a \in Shares, NEW b \in Shares, NEW lower \in BOOLEAN
  PROVE  _better(b, a, lower) = (IF _better(a, b, lower) = "ask" THEN "blind"
                                 ELSE IF _better(a, b, lower) = "blind" THEN "ask"
                                 ELSE _better(a, b, lower))
  <1> DEFINE x == a[1] * b[2]
             y == b[1] * a[2]
             near(u, v) == (IF u > v THEN u - v ELSE v - u) * 50 < (IF u > v THEN u ELSE v)
             none(u, v) == a[2] = 0 \/ b[2] = 0 \/ (IF u > v THEN u ELSE v) = 0 \/ near(u, v)
  <1>1. x \in Nat /\ y \in Nat
    BY DEF Shares
  <1>2. /\ _better(a, b, lower) = IF none(x, y) THEN "tie" ELSE IF (x < y) = lower THEN "ask" ELSE "blind"
        /\ _better(b, a, lower) = IF none(y, x) THEN "tie" ELSE IF (y < x) = lower THEN "ask" ELSE "blind"
    BY DEF _better
  <1> HIDE DEF x, y
  <1>3. none(x, y) <=> none(y, x)
    BY <1>1
  <1>4. ~none(x, y) => x # y
    BY <1>1
  <1> HIDE DEF none
  <1>5. ~none(x, y) => ((x < y) = lower) = ~((y < x) = lower)
    BY <1>1, <1>4
  <1> QED
    BY <1>2, <1>3, <1>5

RowRecord(row) ==
  \E metric, ask, blind, better, m, n : row = MetricRow(metric, ask, blind, better, <<m, n>>)

LEMMA RowMirrored ==
  ASSUME NEW metric, NEW a, NEW b, NEW better, NEW m, NEW n
  PROVE  Mirrored(MetricRow(metric, a, b, better, <<m, n>>)) =
           MetricRow(metric, b, a, IF better = "ask" THEN "blind" ELSE IF better = "blind" THEN "ask" ELSE better,
                     <<n, m>>)
  <1> DEFINE row == MetricRow(metric, a, b, better, <<m, n>>)
             turned(v) == IF v = "ask" THEN "blind" ELSE IF v = "blind" THEN "ask" ELSE v
  <1>1. row = [metric |-> metric, ask |-> a, blind |-> b, better |-> better, sample |-> <<m, n>>]
    BY DEF MetricRow
  <1>2. /\ row.ask = a /\ row.blind = b /\ row.better = better /\ row.sample = <<m, n>>
        /\ row.sample[1] = m /\ row.sample[2] = n
    BY DEF MetricRow
  <1>3. Mirrored(row) = [row EXCEPT !.ask = b, !.blind = a, !.sample = <<n, m>>, !.better = turned(better)]
    BY <1>2 DEF Mirrored
  <1> HIDE DEF turned, row
  <1>4. Mirrored(row) = [metric |-> metric, ask |-> b, blind |-> a, better |-> turned(better), sample |-> <<n, m>>]
    BY <1>1, <1>3
  <1> QED
    BY <1>4 DEF MetricRow, turned, row

Higher(metric, a, b, m, n) == Compared(metric, a, b, FALSE, <<m, n>>)
Lower(metric, a, b, m, n)  == Compared(metric, a, b, TRUE, <<m, n>>)

LEMMA ComparedMirrored ==
  ASSUME NEW metric, NEW a \in Shares, NEW b \in Shares, NEW m, NEW n
  PROVE  /\ Higher(metric, b, a, n, m) = Mirrored(Higher(metric, a, b, m, n))
         /\ Lower(metric, b, a, n, m) = Mirrored(Lower(metric, a, b, m, n))
  <1>1. ASSUME NEW lower \in BOOLEAN
        PROVE  Compared(metric, b, a, lower, <<n, m>>) = Mirrored(Compared(metric, a, b, lower, <<m, n>>))
    BY RowMirrored, BetterMirrored DEF Compared
  <1>2. PICK no \in BOOLEAN, yes \in BOOLEAN : no = FALSE /\ yes = TRUE
    OBVIOUS
  <1>3. /\ Compared(metric, b, a, no, <<n, m>>) = Mirrored(Compared(metric, a, b, no, <<m, n>>))
        /\ Compared(metric, b, a, yes, <<n, m>>) = Mirrored(Compared(metric, a, b, yes, <<m, n>>))
    BY <1>1
  <1> QED
    BY <1>2, <1>3 DEF Higher, Lower

MirrorOf(R) == {Mirrored(row) : row \in R}

LEMMA UnionMirrored ==
  ASSUME NEW A, NEW B PROVE MirrorOf(A \cup B) = MirrorOf(A) \cup MirrorOf(B)
  BY DEF MirrorOf

\* No winner on too few runs, on either side.
LEMMA TooFewMirrored ==
  ASSUME NEW R, \A row \in R : RowRecord(row), NEW a, NEW b
  PROVE  _no_winner_on_too_few_runs(MirrorOf(R), b, a) = MirrorOf(_no_winner_on_too_few_runs(R, a, b))
  <1> DEFINE Judged(row, u, v) ==
               IF TooFew(<<u.runs, v.runs>>) \/ TooFew(row.sample) THEN [row EXCEPT !.better = "tie"] ELSE row
  <1>1. ASSUME NEW row \in R
        PROVE  Judged(Mirrored(row), b, a) = Mirrored(Judged(row, a, b))
    <2>1. PICK metric, ask, blind, better, m, n : row = MetricRow(metric, ask, blind, better, <<m, n>>)
      BY DEF RowRecord
    <2> DEFINE turned == IF better = "ask" THEN "blind" ELSE IF better = "blind" THEN "ask" ELSE better
    <2>2. Mirrored(row) = MetricRow(metric, blind, ask, turned, <<n, m>>)
      BY <2>1, RowMirrored
    <2> HIDE DEF turned
    <2>3. /\ TooFew(<<a.runs, b.runs>>) <=> TooFew(<<b.runs, a.runs>>)
          /\ TooFew(<<m, n>>) <=> TooFew(<<n, m>>)
      BY DEF TooFew
    <2>4. row.sample = <<m, n>> /\ Mirrored(row).sample = <<n, m>>
      BY <2>1, <2>2 DEF MetricRow
    <2>5. /\ [row EXCEPT !.better = "tie"] = MetricRow(metric, ask, blind, "tie", <<m, n>>)
          /\ [Mirrored(row) EXCEPT !.better = "tie"] = MetricRow(metric, blind, ask, "tie", <<n, m>>)
      BY <2>1, <2>2 DEF MetricRow
    <2>6. Mirrored([row EXCEPT !.better = "tie"]) = [Mirrored(row) EXCEPT !.better = "tie"]
      BY <2>5, RowMirrored
    <2> QED
      BY <2>3, <2>4, <2>6
  <1>2. /\ _no_winner_on_too_few_runs(R, a, b) = {Judged(row, a, b) : row \in R}
        /\ _no_winner_on_too_few_runs(MirrorOf(R), b, a) = {Judged(row, b, a) : row \in MirrorOf(R)}
    BY DEF _no_winner_on_too_few_runs
  <1> HIDE DEF Judged
  <1> QED
    BY <1>1, <1>2 DEF MirrorOf

LEMMA RowsMirrored ==
  ASSUME NEW arm, NEW a \in CostRecords, NEW b \in CostRecords
  PROVE  /\ Rows(arm, b, a) = MirrorOf(Rows(arm, a, b))
         /\ \A row \in Rows(arm, a, b) : RowRecord(row)
  <1> DEFINE Completed(u, v) == Higher("completed", u.completed, v.completed, u.runs, v.runs)
             PerDone(u, v)   == Lower("tokens_per_completed_task", u.perDone, v.perDone, u.runs, v.runs)
             PerRun(u, v)    == Lower("seconds_per_run", u.perRun, v.perRun, u.runs, v.runs)
             Tries(u, v)     == Lower("attempts_per_failure", u.attempts, v.attempts, u.runs, v.runs)
             Skips(u, v)     == Higher("skipped", <<u.skipped, 1>>, <<v.skipped, 1>>, u.runs, v.runs)
             Recent(u, v)    == Higher("completed_since_the_rules", u.doneSince, v.doneSince, u.since, v.since)
             Right(u, v)     == Higher("correct", u.correct, v.correct, u.correct[2], v.correct[2])
             Valid(u, v)     == Higher("valid", u.valid, v.valid, u.valid[2], v.valid[2])
             SomeGraded(u, v) == u.valid[2] + v.valid[2] > 0
             First(u, v)  == CASE arm = "test"     -> {PerRun(u, v), Tries(u, v), Skips(u, v)}
                               [] arm = "opencode" -> {Completed(u, v), PerDone(u, v), PerRun(u, v), Recent(u, v)}
                               [] arm = "wrapped"  -> {Completed(u, v), PerDone(u, v), PerRun(u, v)}
                               [] OTHER            -> {Completed(u, v), PerDone(u, v), PerRun(u, v), Tries(u, v),
                                                       Skips(u, v)}
             Second(u, v) == IF arm = "opencode" \/ SomeGraded(u, v) THEN {Right(u, v), Valid(u, v)} ELSE {}
  <1>1. \A u, v : Rows(arm, u, v) = First(u, v) \cup Second(u, v)
    BY DEF Rows, Higher, Lower
  <1>2. /\ a.completed \in Shares /\ a.perDone \in Shares /\ a.perRun \in Shares /\ a.attempts \in Shares
        /\ a.valid \in Shares /\ a.correct \in Shares /\ a.doneSince \in Shares /\ <<a.skipped, 1>> \in Shares
        /\ b.completed \in Shares /\ b.perDone \in Shares /\ b.perRun \in Shares /\ b.attempts \in Shares
        /\ b.valid \in Shares /\ b.correct \in Shares /\ b.doneSince \in Shares /\ <<b.skipped, 1>> \in Shares
    BY DEF CostRecords, Shares
  <1>3. /\ Completed(b, a) = Mirrored(Completed(a, b)) /\ PerDone(b, a) = Mirrored(PerDone(a, b))
        /\ PerRun(b, a) = Mirrored(PerRun(a, b)) /\ Tries(b, a) = Mirrored(Tries(a, b))
        /\ Skips(b, a) = Mirrored(Skips(a, b)) /\ Recent(b, a) = Mirrored(Recent(a, b))
        /\ Right(b, a) = Mirrored(Right(a, b)) /\ Valid(b, a) = Mirrored(Valid(a, b))
    <2>1. Completed(b, a) = Mirrored(Completed(a, b))
      BY <1>2, ComparedMirrored
    <2>2. PerDone(b, a) = Mirrored(PerDone(a, b))
      BY <1>2, ComparedMirrored
    <2>3. PerRun(b, a) = Mirrored(PerRun(a, b))
      BY <1>2, ComparedMirrored
    <2>4. Tries(b, a) = Mirrored(Tries(a, b))
      BY <1>2, ComparedMirrored
    <2>5. Skips(b, a) = Mirrored(Skips(a, b))
      BY <1>2, ComparedMirrored
    <2>6. Recent(b, a) = Mirrored(Recent(a, b))
      BY <1>2, ComparedMirrored
    <2>7. Right(b, a) = Mirrored(Right(a, b))
      BY <1>2, ComparedMirrored
    <2>8. Valid(b, a) = Mirrored(Valid(a, b))
      BY <1>2, ComparedMirrored
    <2> QED
      BY <2>1, <2>2, <2>3, <2>4, <2>5, <2>6, <2>7, <2>8
  <1>4. /\ RowRecord(Completed(a, b)) /\ RowRecord(PerDone(a, b)) /\ RowRecord(PerRun(a, b))
        /\ RowRecord(Tries(a, b)) /\ RowRecord(Skips(a, b)) /\ RowRecord(Recent(a, b))
        /\ RowRecord(Right(a, b)) /\ RowRecord(Valid(a, b))
    BY DEF RowRecord, Compared, Higher, Lower
  <1>5. SomeGraded(a, b) <=> SomeGraded(b, a)
    <2>1. a.valid[2] \in Nat /\ b.valid[2] \in Nat
      BY <1>2 DEF Shares
    <2> QED
      BY <2>1
  <1> HIDE DEF Completed, PerDone, PerRun, Tries, Skips, Recent, Right, Valid, SomeGraded
  <1>6. First(b, a) = MirrorOf(First(a, b))
    <2>1. CASE arm = "test"
      BY <1>3, <2>1 DEF MirrorOf
    <2>2. CASE arm = "opencode"
      BY <1>3, <2>2 DEF MirrorOf
    <2>3. CASE arm = "wrapped"
      BY <1>3, <2>3 DEF MirrorOf
    <2>4. CASE arm \notin {"test", "opencode", "wrapped"}
      BY <1>3, <2>4 DEF MirrorOf
    <2> QED
      BY <2>1, <2>2, <2>3, <2>4
  <1>7. Second(b, a) = MirrorOf(Second(a, b))
    BY <1>3, <1>5 DEF MirrorOf
  <1>8. \A row \in First(a, b) \cup Second(a, b) : RowRecord(row)
    <2>1. \A row \in First(a, b) : RowRecord(row)
      <3>1. CASE arm = "test"
        BY <1>4, <3>1
      <3>2. CASE arm = "opencode"
        BY <1>4, <3>2
      <3>3. CASE arm = "wrapped"
        BY <1>4, <3>3
      <3>4. CASE arm \notin {"test", "opencode", "wrapped"}
        BY <1>4, <3>4
      <3> QED
        BY <3>1, <3>2, <3>3, <3>4
    <2>2. \A row \in Second(a, b) : RowRecord(row)
      BY <1>4
    <2> QED
      BY <2>1, <2>2
  <1> HIDE DEF First, Second
  <1> QED
    BY <1>1, <1>6, <1>7, <1>8, UnionMirrored

LEMMA VersusMirrored ==
  ASSUME NEW f, NEW g, Flipped(f, g), NEW arm
  PROVE  Versus(g, arm) = MirrorOf(Versus(f, arm))
  <1> DEFINE a == Costs(f, Side(f, arm, TRUE))
             b == Costs(f, Side(f, arm, FALSE))
  <1>1. Costs(g, Side(g, arm, TRUE)) = b
    <2>1. PICK S, T : S = Side(g, arm, TRUE) /\ T = Side(f, arm, FALSE)
      BY Zenon
    <2>2. Opposite(S, T)
      BY <2>1, SidesOpposite
    <2>3. Costs(g, S) = Costs(f, T)
      BY <2>2, CostsSwapped
    <2> QED
      BY <2>1, <2>3, Zenon
  <1>2. Costs(g, Side(g, arm, FALSE)) = a
    <2>1. PICK S, T : S = Side(g, arm, FALSE) /\ T = Side(f, arm, TRUE)
      BY Zenon
    <2>2. Opposite(S, T)
      BY <2>1, SidesOpposite
    <2>3. Costs(g, S) = Costs(f, T)
      BY <2>2, CostsSwapped
    <2> QED
      BY <2>1, <2>3, Zenon
  <1>3. a \in CostRecords /\ b \in CostRecords
    BY CostsAre DEF Flipped, Side, Counted
  <1> HIDE DEF a, b
  <1>4. /\ Rows(arm, b, a) = MirrorOf(Rows(arm, a, b))
        /\ \A row \in Rows(arm, a, b) : RowRecord(row)
    BY <1>3, RowsMirrored
  <1>5. _no_winner_on_too_few_runs(MirrorOf(Rows(arm, a, b)), b, a)
          = MirrorOf(_no_winner_on_too_few_runs(Rows(arm, a, b), a, b))
    BY <1>4, TooFewMirrored
  <1>6. MirrorOf({}) = {}
    BY DEF MirrorOf
  <1>7. Versus(f, arm) = IF a.runs = 0 \/ b.runs = 0 THEN {}
                         ELSE _no_winner_on_too_few_runs(Rows(arm, a, b), a, b)
    BY DEF Versus, a, b
  <1>8. Versus(g, arm) = IF b.runs = 0 \/ a.runs = 0 THEN {}
                         ELSE _no_winner_on_too_few_runs(Rows(arm, b, a), b, a)
    BY <1>1, <1>2 DEF Versus
  <1> QED
    BY <1>4, <1>5, <1>6, <1>7, <1>8

\* The tables that are sums alone.
LEMMA CohortSwapped ==
  ASSUME NEW f, NEW g, Flipped(f, g), NEW arm, NEW asks \in BOOLEAN
  PROVE  Cohort(g, arm, asks) = Cohort(f, arm, ~asks)
  <1> DEFINE S == Side(g, arm, asks)
             T == Side(f, arm, ~asks)
             Chat(U) == {r \in Failing(U) : r.provider}
  <1>1. Opposite(S, T)
    BY SidesOpposite
  <1> HIDE DEF S, T
  <1>2. Opposite(Failing(S), Failing(T))
    BY <1>1, PartsAre
  <1>3. Opposite(Chat(S), Chat(T))
    <2>1. \A r \in Failing(S) : SameRun(Flip(r), r) /\ Flip(r) \in Failing(T)
      BY <1>2, FlipIs DEF Opposite
    <2> QED
      BY <1>2, <2>1, PartsOpposite DEF SameRun
  <1> HIDE DEF Chat
  <1>4. /\ Opposite(Recovered(Failing(S)), Recovered(Failing(T)))
        /\ Opposite(Skipping(Failing(S)), Skipping(Failing(T)))
        /\ Opposite(Recovered(Chat(S)), Recovered(Chat(T)))
    BY <1>2, <1>3, PartsAre
  <1>5. \A U, V : Opposite(U, V) => Number(g, U) = Number(f, V) /\ Attempts(g, U) = Attempts(f, V)
    BY NumbersSwapped
  <1> QED
    BY <1>1, <1>2, <1>3, <1>4, <1>5 DEF Cohort, S, T, Chat

LEMMA RealTargetSwapped ==
  ASSUME NEW f, NEW g, Flipped(f, g), NEW asks \in BOOLEAN
  PROVE  RealTarget(g, asks) = RealTarget(f, ~asks)
  <1> DEFINE Real(U) == {r \in U : r.at >= FAIR_ORDER_SINCE /\ r.attempts > 0 /\ ~r.provider}
             A == Side(g, "real", asks)
             B == Side(f, "real", ~asks)
             S == Real(A)
             T == Real(B)
  <1>1. Opposite(A, B)
    BY SidesOpposite
  <1> HIDE DEF A, B
  <1>2. Opposite(S, T)
    <2>1. \A r \in A : SameRun(Flip(r), r) /\ Flip(r) \in B
      BY <1>1, FlipIs DEF Opposite
    <2> QED
      BY <1>1, <2>1, PartsOpposite DEF SameRun
  <1> HIDE DEF S, T
  <1>3. Opposite(Recovered(S), Recovered(T)) /\ Opposite(Skipping(S), Skipping(T))
    BY <1>2, PartsAre
  <1>4. \A U, V : Opposite(U, V) => Number(g, U) = Number(f, V) /\ Attempts(g, U) = Attempts(f, V)
    BY NumbersSwapped
  <1> QED
    BY <1>2, <1>3, <1>4 DEF RealTarget, S, T, A, B

LEMMA HalfSwapped ==
  ASSUME NEW f, NEW g, Flipped(f, g), NEW at, NEW asks \in BOOLEAN
  PROVE  Half(g, at, asks) = Half(f, at, ~asks)
  <1> DEFINE Then(U) == {r \in U : r.at = at}
             Told(U) == {r \in Failing(U) : r.advice # "none"}
             A == Side(g, "real", asks)
             B == Side(f, "real", ~asks)
             S == Then(A)
             T == Then(B)
  <1>1. Opposite(A, B)
    BY SidesOpposite
  <1> HIDE DEF A, B
  <1>2. Opposite(S, T)
    <2>1. \A r \in A : SameRun(Flip(r), r) /\ Flip(r) \in B
      BY <1>1, FlipIs DEF Opposite
    <2> QED
      BY <1>1, <2>1, PartsOpposite DEF SameRun
  <1> HIDE DEF S, T
  <1>3. Opposite(Done(S), Done(T))
    BY <1>2, PartsAre
  <1>4. \A U, V : Opposite(U, V) => Number(g, U) = Number(f, V)
    BY NumbersSwapped
  <1>5. Told(S) = {} /\ Told(T) = {}
    BY <1>2 DEF Opposite, Unadvised, Failing
  <1>6. Number(g, {}) = 0 /\ Number(f, {}) = 0
    BY NumbersAre DEF Flipped
  <1> HIDE DEF Told
  <1>7. /\ Half(g, at, asks) = [runs |-> Number(g, S), completed |-> Number(g, Done(S)),
                                advised |-> IF asks THEN Number(g, Told(S)) ELSE 0]
        /\ Half(f, at, ~asks) = [runs |-> Number(f, T), completed |-> Number(f, Done(T)),
                                 advised |-> IF ~asks THEN Number(f, Told(T)) ELSE 0]
    BY DEF Half, S, T, A, B, Told
  <1> QED
    BY <1>2, <1>3, <1>4, <1>5, <1>6, <1>7

\* What the advice is worth: nobody had any, so the askers' unadvised second
\* attempts and the others' change places.
LEMMA FairOpposite ==
  ASSUME NEW f, NEW g, Flipped(f, g)
  PROVE  /\ Opposite(Fair(g), Fair(f))
         /\ SkippedRuns(f) = {} /\ SkippedRuns(g) = {}
  <1>1. ASSUME NEW r \in RunKinds, Unadvised(r)
        PROVE  /\ Flip(r) \in RunKinds /\ Unadvised(Flip(r))
               /\ g[Flip(r)] = f[r] /\ g[r] = f[Flip(r)] /\ SameRun(Flip(r), r)
    BY <1>1, FlipIs DEF Flipped
  <1>2. ASSUME NEW r \in Fair(g)
        PROVE  Unadvised(r) /\ Flip(r) \in Fair(f)
    <2>1. r \in RunKinds /\ g[r] > 0 /\ Unadvised(r)
      BY DEF Fair, Counted, Flipped
    <2> QED
      BY <1>1, <2>1 DEF Fair, Counted, _is_run, _lost_to_guest_memory, SameRun
  <1>3. ASSUME NEW r \in Fair(f)
        PROVE  Unadvised(r) /\ Flip(r) \in Fair(g)
    <2>1. r \in RunKinds /\ f[r] > 0 /\ Unadvised(r)
      BY DEF Fair, Counted, Flipped
    <2> QED
      BY <1>1, <2>1 DEF Fair, Counted, _is_run, _lost_to_guest_memory, SameRun
  <1>4. Fair(f) \subseteq RunKinds /\ Fair(g) \subseteq RunKinds
    BY DEF Fair, Counted
  <1> QED
    BY <1>2, <1>3, <1>4 DEF Opposite, SkippedRuns, Unadvised

Exchanged(x) == [x EXCEPT !.unadvised = x.blind, !.blind = x.unadvised]

LEMMA AdviceSwapped ==
  ASSUME NEW f, NEW g, Flipped(f, g)
  PROVE  Advice(g) = Exchanged(Advice(f))
  <1> DEFINE Retried(h)   == {r \in Fair(h) \ SkippedRuns(h) : r.attempts >= 2}
             Advised(h)   == {r \in Retried(h) : r.asks /\ r.advice # "none"}
             Plain(h)     == {r \in Retried(h) : r.asks /\ r.advice = "none"}
             Blind(h)     == {r \in Retried(h) : ~r.asks}
             Where(h)     == {r \in Blind(h) : \E s \in SkippedRuns(h) : s.at = r.at}
             Share(h, S)  == <<Number(h, Recovered(S)), Number(h, S)>>
  <1>1. Opposite(Fair(g), Fair(f)) /\ SkippedRuns(f) = {} /\ SkippedRuns(g) = {}
    BY FairOpposite
  <1>2. \A r \in Fair(g) : /\ Flip(r) \in Fair(f) /\ SameRun(Flip(r), r)
                           /\ Flip(r).asks = ~r.asks /\ r.asks \in BOOLEAN /\ r.advice = "none"
    BY <1>1, FlipIs DEF Opposite, Unadvised
  <1>3. \A r \in Fair(f) : r.advice = "none" /\ r.asks \in BOOLEAN
    BY <1>1, FlipIs DEF Opposite, Unadvised
  <1>4. Advised(f) = {} /\ Advised(g) = {} /\ Where(f) = {} /\ Where(g) = {}
    BY <1>1, <1>2, <1>3
  <1>5. Opposite(Plain(g), Blind(f))
    BY <1>1, <1>2, <1>3, PartsOpposite DEF SameRun
  <1>6. Opposite(Blind(g), Plain(f))
    BY <1>1, <1>2, <1>3, PartsOpposite DEF SameRun
  <1> HIDE DEF Advised, Plain, Blind, Where
  <1>7. Share(g, Plain(g)) = Share(f, Blind(f)) /\ Share(g, Blind(g)) = Share(f, Plain(f))
    <2>1. \A U, V : Opposite(U, V) => Number(g, U) = Number(f, V)
      BY NumbersSwapped
    <2>2. /\ Opposite(Recovered(Plain(g)), Recovered(Blind(f)))
          /\ Opposite(Recovered(Blind(g)), Recovered(Plain(f)))
      BY <1>5, <1>6, PartsAre
    <2> QED
      BY <1>5, <1>6, <2>1, <2>2
  <1>8. /\ Number(f, {}) = 0 /\ Number(g, {}) = 0
        /\ Share(f, {}) = <<0, 0>> /\ Share(g, {}) = <<0, 0>>
    <2>1. Number(f, {}) = 0 /\ Number(g, {}) = 0
      BY NumbersAre DEF Flipped
    <2>2. Recovered({}) = {}
      BY DEF Recovered
    <2> QED
      BY <2>1, <2>2
  <1>9. \A h : Advice(h) = [skipped |-> Number(h, SkippedRuns(h)), advised |-> Share(h, Advised(h)),
                            unadvised |-> Share(h, Plain(h)), blind |-> Share(h, Blind(h)),
                            where |-> Share(h, Where(h))]
    BY DEF Advice, Advised, Plain, Blind, Where
  <1> HIDE DEF Share
  <1>10. /\ Advice(f) = [skipped |-> 0, advised |-> <<0, 0>>, unadvised |-> Share(f, Plain(f)),
                         blind |-> Share(f, Blind(f)), where |-> <<0, 0>>]
         /\ Advice(g) = [skipped |-> 0, advised |-> <<0, 0>>, unadvised |-> Share(f, Blind(f)),
                         blind |-> Share(f, Plain(f)), where |-> <<0, 0>>]
    BY <1>1, <1>4, <1>7, <1>8, <1>9
  <1>11. ASSUME NEW m, NEW n, NEW p, NEW q
         PROVE  Exchanged([skipped |-> m, advised |-> n, unadvised |-> p, blind |-> q, where |-> n])
                  = [skipped |-> m, advised |-> n, unadvised |-> q, blind |-> p, where |-> n]
    <2> DEFINE x == [skipped |-> m, advised |-> n, unadvised |-> p, blind |-> q, where |-> n]
    <2>1. x = [skipped |-> m, advised |-> n, unadvised |-> p, blind |-> q, where |-> n]
      OBVIOUS
    <2>2. x.blind = q /\ x.unadvised = p
      OBVIOUS
    <2> HIDE DEF x
    <2>3. Exchanged(x) = [x EXCEPT !.unadvised = q, !.blind = p]
      BY <2>2 DEF Exchanged
    <2>4. Exchanged(x) = [skipped |-> m, advised |-> n, unadvised |-> q, blind |-> p, where |-> n]
      BY <2>1, <2>3
    <2> QED
      BY <2>4 DEF x
  <1> QED
    BY <1>10, <1>11

LEMMA ByProviderSwapped ==
  ASSUME NEW f, NEW g, Flipped(f, g), NEW asks \in BOOLEAN
  PROVE  ByProvider(g, asks) = ByProvider(f, ~asks)
  <1> DEFINE Asking(U) == {r \in U : r.provider /\ r.at >= PROVIDER_CONTROL_SINCE}
             A == Side(g, "real", asks) \cup Side(g, "test", asks)
             B == Side(f, "real", ~asks) \cup Side(f, "test", ~asks)
             S == Asking(A)
             T == Asking(B)
  <1>1. Opposite(A, B)
    <2>1. /\ Opposite(Side(g, "real", asks), Side(f, "real", ~asks))
          /\ Opposite(Side(g, "test", asks), Side(f, "test", ~asks))
      BY SidesOpposite
    <2> QED
      BY <2>1 DEF Opposite
  <1> HIDE DEF A, B
  <1>2. Opposite(S, T)
    <2>1. \A r \in A : SameRun(Flip(r), r) /\ Flip(r) \in B
      BY <1>1, FlipIs DEF Opposite
    <2> QED
      BY <1>1, <2>1, PartsOpposite DEF SameRun
  <1> HIDE DEF S, T
  <1>3. Opposite(Done(S), Done(T)) /\ Opposite(Failing(S), Failing(T))
    BY <1>2, PartsAre
  <1>4. Opposite(Recovered(Failing(S)), Recovered(Failing(T)))
    BY <1>3, PartsAre
  <1>5. \A U, V : Opposite(U, V) => Number(g, U) = Number(f, V) /\ Spent(g, U) = Spent(f, V)
    BY NumbersSwapped
  <1> QED
    BY <1>2, <1>3, <1>4, <1>5 DEF ByProvider, S, T, A, B

ProviderRecords ==
  [runs : Nat, completed : Shares, met : Shares, recovered : Shares, perDone : Shares, perRun : Shares]

LEMMA ByProviderIs ==
  ASSUME NEW f \in [RunKinds -> Nat], NEW asks
  PROVE  ByProvider(f, asks) \in ProviderRecords
  <1> DEFINE S == {r \in Side(f, "real", asks) \cup Side(f, "test", asks) :
                     r.provider /\ r.at >= PROVIDER_CONTROL_SINCE}
  <1>1. S \subseteq RunKinds
    BY DEF Side, Counted
  <1> HIDE DEF S
  <1>2. Done(S) \subseteq RunKinds /\ Failing(S) \subseteq RunKinds /\ Recovered(Failing(S)) \subseteq RunKinds
    BY <1>1 DEF Done, Failing, Recovered
  <1>3. \A U : U \subseteq RunKinds => Number(f, U) \in Nat /\ Spent(f, U) \in Nat
    BY NumbersAre
  <1> QED
    BY <1>1, <1>2, <1>3 DEF ByProvider, ProviderRecords, Shares, S

LEMMA ProviderRowsMirrored ==
  ASSUME NEW f, NEW g, Flipped(f, g)
  PROVE  ProviderRows(g) = MirrorOf(ProviderRows(f))
  <1> DEFINE a == ByProvider(f, TRUE)
             b == ByProvider(f, FALSE)
             Completed(u, v) == Higher("completed", u.completed, v.completed, u.runs, v.runs)
             Met(u, v)       == MetricRow("failures_met", u.met, v.met, "tie", <<u.runs, v.runs>>)
             Saved(u, v)     == Higher("recovered", u.recovered, v.recovered, u.runs, v.runs)
             PerDone(u, v)   == Lower("tokens_per_completed_task", u.perDone, v.perDone, u.runs, v.runs)
             PerRun(u, v)    == Lower("seconds_per_run", u.perRun, v.perRun, u.runs, v.runs)
             Table(u, v)     == {Completed(u, v), Met(u, v), Saved(u, v), PerDone(u, v), PerRun(u, v)}
  <1>1. ByProvider(g, TRUE) = b /\ ByProvider(g, FALSE) = a
    BY ByProviderSwapped, Zenon
  <1>2. a \in ProviderRecords /\ b \in ProviderRecords
    BY ByProviderIs DEF Flipped
  <1>3. ProviderRows(f) = IF a.runs = 0 \/ b.runs = 0 THEN {}
                          ELSE _no_winner_on_too_few_runs(Table(a, b), a, b)
    BY DEF ProviderRows, Higher, Lower
  <1>4. ProviderRows(g) = IF b.runs = 0 \/ a.runs = 0 THEN {}
                          ELSE _no_winner_on_too_few_runs(Table(b, a), b, a)
    BY <1>1 DEF ProviderRows, Higher, Lower
  <1> HIDE DEF a, b
  <1>5. /\ a.completed \in Shares /\ a.recovered \in Shares /\ a.perDone \in Shares /\ a.perRun \in Shares
        /\ b.completed \in Shares /\ b.recovered \in Shares /\ b.perDone \in Shares /\ b.perRun \in Shares
    BY <1>2 DEF ProviderRecords
  <1>6. Completed(b, a) = Mirrored(Completed(a, b))
    BY <1>5, ComparedMirrored
  <1>7. Met(b, a) = Mirrored(Met(a, b))
    BY RowMirrored
  <1>8. Saved(b, a) = Mirrored(Saved(a, b))
    BY <1>5, ComparedMirrored
  <1>9. PerDone(b, a) = Mirrored(PerDone(a, b))
    BY <1>5, ComparedMirrored
  <1>10. PerRun(b, a) = Mirrored(PerRun(a, b))
    BY <1>5, ComparedMirrored
  <1>11. \A row \in Table(a, b) : RowRecord(row)
    BY DEF RowRecord, Compared, Higher, Lower
  <1> HIDE DEF Completed, Met, Saved, PerDone, PerRun
  <1>12. Table(b, a) = MirrorOf(Table(a, b))
    BY <1>6, <1>7, <1>8, <1>9, <1>10 DEF MirrorOf
  <1> HIDE DEF Table
  <1>13. _no_winner_on_too_few_runs(MirrorOf(Table(a, b)), b, a)
           = MirrorOf(_no_winner_on_too_few_runs(Table(a, b), a, b))
    BY <1>11, TooFewMirrored
  <1>14. MirrorOf({}) = {}
    BY DEF MirrorOf
  <1> QED
    BY <1>3, <1>4, <1>12, <1>13, <1>14

FiledAre == filed \in [RunKinds -> Nat]

LEMMA FilingKeeps == FiledAre /\ [ScoreboardNext]_filed => FiledAre'
  BY DEF FiledAre, ScoreboardNext, write_report

LEMMA FiledAlike == FiledAre => SidesAlike
  <1> DEFINE flipped == [r \in RunKinds |-> IF Unadvised(r) THEN filed[Flip(r)] ELSE 0]
  <1> SUFFICES ASSUME FiledAre, OnFile # {}, \A r \in OnFile : Unadvised(r)
               PROVE  /\ \A arm \in Arms : Versus(flipped, arm) = {Mirrored(row) : row \in Versus(filed, arm)}
                      /\ Advice(flipped) = [Advice(filed) EXCEPT !.unadvised = Advice(filed).blind,
                                                                !.blind = Advice(filed).unadvised]
                      /\ ProviderRows(flipped) = {Mirrored(row) : row \in ProviderRows(filed)}
                      /\ \A asks \in BOOLEAN :
                           /\ \A arm \in Arms : Cohort(flipped, arm, asks) = Cohort(filed, arm, ~asks)
                           /\ RealTarget(flipped, asks) = RealTarget(filed, ~asks)
                           /\ \A r \in OnFile : Half(flipped, r.at, asks) = Half(filed, r.at, ~asks)
    BY Zenon DEF SidesAlike
  <1>1. Flipped(filed, flipped)
    <2>1. \A r \in RunKinds : Unadvised(r) => Flip(r) \in RunKinds
      BY ScoreboardAssumption
    <2> QED
      BY <2>1 DEF FiledAre, Flipped, OnFile
  <1> HIDE DEF flipped
  <1>2. ASSUME NEW arm
        PROVE  Versus(flipped, arm) = {Mirrored(row) : row \in Versus(filed, arm)}
    BY <1>1, VersusMirrored DEF MirrorOf
  <1>3. Advice(flipped) = [Advice(filed) EXCEPT !.unadvised = Advice(filed).blind,
                                               !.blind = Advice(filed).unadvised]
    BY <1>1, AdviceSwapped, Zenon DEF Exchanged
  <1>4. ProviderRows(flipped) = {Mirrored(row) : row \in ProviderRows(filed)}
    BY <1>1, ProviderRowsMirrored DEF MirrorOf
  <1>5. ASSUME NEW asks \in BOOLEAN, NEW arm
        PROVE  Cohort(flipped, arm, asks) = Cohort(filed, arm, ~asks)
    BY <1>1, CohortSwapped
  <1>6. ASSUME NEW asks \in BOOLEAN
        PROVE  RealTarget(flipped, asks) = RealTarget(filed, ~asks)
    BY <1>1, RealTargetSwapped
  <1>7. ASSUME NEW asks \in BOOLEAN, NEW at
        PROVE  Half(flipped, at, asks) = Half(filed, at, ~asks)
    BY <1>1, HalfSwapped
  <1> QED
    BY <1>2, <1>3, <1>4, <1>5, <1>6, <1>7

(* The scoreboard (failecho_fleet/__init__.py, write_report): whatever runs *)
(* are filed, had the same ones happened on the other side the page would  *)
(* say the same of the other side.                                         *)
THEOREM SidesAreAlike == Spec => []SidesAlike
  <1>1. Init => FiledAre
    BY DEF Init, ScoreboardInit, FiledAre
  <1>2. FiledAre /\ [Next]_vars => FiledAre'
    <2>1. [Next]_vars => [ScoreboardNext]_filed
      <3>1. ASSUME Lab PROVE [ScoreboardNext]_filed
        BY <3>1 DEF Lab, Checking, Scoring, Coding
      <3>2. ASSUME UNCHANGED labVars PROVE [ScoreboardNext]_filed
        BY <3>2 DEF labVars
      <3> QED
        BY <3>1, <3>2 DEF Next, vars, Machine, Tests
    <2> QED
      BY <2>1, FilingKeeps
  <1>3. FiledAre => SidesAlike
    BY FiledAlike
  <1> QED
    BY <1>1, <1>2, <1>3, PTL DEF Spec
=================================================================================
