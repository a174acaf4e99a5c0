----------------------------- MODULE FleetProofs -----------------------------
(***************************************************************************)
(* The fleet's scheduler and its runs, for any personas, providers, caps,  *)
(* ledgers, days and kills, and for runs of any length.                    *)
(*                                                                         *)
(* CapHolds is not inductive: between the choice of a run and its filing   *)
(* the calls it makes are in no count.  The invariant gives each lane that *)
(* has no run in flight on a provider the calls of one run as slack; a     *)
(* lane gives its slack away when it chooses, with the count still below   *)
(* the cap, and a lane that files has spent what it gets back.  With it    *)
(* come the bills (Billing), where the slow runs are kept (Keeping), and   *)
(* for one run what its row says at every point of its loops (RunInv).     *)
(***************************************************************************)
EXTENDS FleetRun, FiniteSetTheorems, SequenceTheorems, TLAPS

InFlight(l, p) == lane[l].pc \in {"turn", "running"} /\ Provider(l) = p

Slack(l, p) == IF InFlight(l, p) THEN 0 ELSE RunCalls

Process == [pc : {"idle", "ticking", "turn", "running"}, today : Nat, persona : Nat]

LanesOK ==
  /\ now \in Nat
  /\ lane \in [Lanes -> Process]
  /\ \A l \in Lanes : lane[l].pc = "turn" => lane[l].persona \in ToSet(opencode)

FileOK == /\ DOMAIN file = DOMAIN FreshState
          /\ file.next \in [Lanes -> Nat]
          /\ file.next_opencode \in Nat
          /\ file.calls \in [Providers -> Nat]

Bounded == \A p \in Providers : file.calls[p] < Cap[p] + Slack("light", p) + Slack("vm", p)

IInv == LanesOK /\ FileOK /\ Bounded

-----------------------------------------------------------------------------
(* Positions of a lane.                                                    *)

LEMMA MembersPositive ==
  ASSUME NEW l \in Lanes
  PROVE  /\ Members(l) \in Nat \ {0}
         /\ \A n \in 1 .. Members(l) : lane_personas[l][n] \in Positions
  <1> DEFINE S == {i \in Positions : lane_of(i) = l}
  <1>1. lane_personas[l] \in Seq(S) /\ lane_personas[l] # <<>>
    BY PersonasAssumption DEF IsSelection
  <1>2. S \subseteq Positions
    OBVIOUS
  <1> HIDE DEF S
  <1>3. \A n \in 1 .. Len(lane_personas[l]) : lane_personas[l][n] \in S
    BY <1>1
  <1>4. Len(lane_personas[l]) \in Nat \ {0}
    BY <1>1
  <1> QED
    BY <1>2, <1>3, <1>4 DEF Members

LEMMA TwinPosition ==
  ASSUME NEW i \in Positions
  PROVE  Twin(i) \in Positions
  <1>1. CASE \E t \in TWINS : i \in t
    <2>1. PICK t \in TWINS : i \in t
      BY <1>1
    <2>2. PICK a \in Positions, b \in Positions : a # b /\ t = {a, b}
      BY <2>1, PersonasAssumption
    <2>3. \E j \in Positions : j # i /\ {i, j} = t
      BY <2>1, <2>2
    <2> QED
      BY <1>1, <2>1, <2>3 DEF Twin
  <1>2. CASE ~\E t \in TWINS : i \in t
    BY <1>2 DEF Twin
  <1> QED
    BY <1>1, <1>2

LEMMA ModNat ==
  ASSUME NEW m \in Nat, NEW n \in Nat \ {0}
  PROVE  m % n \in 0 .. n - 1
  OBVIOUS

LEMMA PersonaPosition ==
  ASSUME NEW l \in Lanes, NEW n \in Nat
  PROVE  persona_index(n, l) \in Positions
  <1> DEFINE i == lane_personas[l][(n % Members(l)) + 1]
  <1>1. n % Members(l) \in 0 .. Members(l) - 1
    BY ModNat, MembersPositive
  <1>2. i \in Positions
    BY <1>1, MembersPositive
  <1> QED
    BY <1>2, TwinPosition DEF persona_index

LEMMA TurnPosition ==
  ASSUME NEW n \in Nat
  PROVE  /\ opencode[(n % Len(opencode)) + 1] \in ToSet(opencode)
         /\ (n + 1) % Len(opencode) \in Nat
  <1>1. /\ Len(opencode) \in Nat \ {0}
        /\ \A k \in 1 .. Len(opencode) : opencode[k] \in ToSet(opencode)
    BY PersonasAssumption DEF IsSelection, ToSet
  <1>2. n % Len(opencode) \in 0 .. Len(opencode) - 1
    BY <1>1, ModNat
  <1>3. (n + 1) % Len(opencode) \in 0 .. Len(opencode) - 1
    BY <1>1, ModNat
  <1> QED
    BY <1>1, <1>2, <1>3

LEMMA SharedProvider ==
  ASSUME NEW i \in ToSet(opencode), NEW j \in ToSet(opencode)
  PROVE  PERSONAS[i].provider = PERSONAS[j].provider
  BY PersonasAssumption

LEMMA OpenCodePosition ==
  ASSUME NEW i \in Positions, PERSONAS[i].path = "opencode"
  PROVE  i \in ToSet(opencode)
  BY PersonasAssumption DEF IsSelection

-----------------------------------------------------------------------------
(* Every action keeps the invariant.                                       *)

\* A provider whose count a run may add to, seen from one lane.
LEMMA SlackNat ==
  ASSUME NEW l \in Lanes, NEW p \in Providers
  PROVE  Slack(l, p) \in {0, RunCalls} /\ RunCalls \in Nat
  BY BudgetAssumption DEF Slack

LEMMA InitIInv == Init => IInv
  <1> SUFFICES ASSUME Init PROVE IInv
    OBVIOUS
  <1>1. LanesOK
    BY DEF Init, LanesOK, Process, Idle
  <1>2. FileOK
    BY DEF Init, FileOK, FreshState, NoCalls
  <1>3. Bounded
    <2> SUFFICES ASSUME NEW p \in Providers
                 PROVE  file.calls[p] < Cap[p] + Slack("light", p) + Slack("vm", p)
      BY DEF Bounded
    <2>1. file.calls[p] = 0
      BY DEF Init, FreshState, NoCalls
    <2> QED
      BY <2>1, SlackNat, BudgetAssumption DEF Lanes
  <1> QED
    BY <1>1, <1>2, <1>3 DEF IInv

\* A lane that goes idle gets its slack back, and the counts are as they were or 0.
LEMMA LaneLeaves ==
  ASSUME IInv, NEW l \in Lanes, NEW doing \in {"idle", "ticking"}, NEW d \in Nat,
         lane' = [lane EXCEPT ![l] = [pc |-> doing, today |-> d, persona |-> 0]],
         now' = now,
         DOMAIN file' = DOMAIN FreshState,
         file'.next \in [Lanes -> Nat],
         file'.next_opencode \in Nat,
         file'.calls \in [Providers -> Nat],
         \A p \in Providers : file'.calls[p] <= file.calls[p]
  PROVE  IInv'
  <1>1. LanesOK'
    BY DEF IInv, LanesOK, Process, Idle
  <1>2. FileOK'
    BY DEF FileOK, FreshState
  <1>3. Bounded'
    <2> SUFFICES ASSUME NEW p \in Providers
                 PROVE  file'.calls[p] < Cap[p] + Slack("light", p)' + Slack("vm", p)'
      BY DEF Bounded
    <2>1. Slack(l, p)' = RunCalls
      BY DEF Slack, InFlight, IInv, LanesOK, Idle
    <2>2. \A k \in Lanes \ {l} : Slack(k, p)' = Slack(k, p)
      BY DEF Slack, InFlight, Provider, IInv, LanesOK
    <2>3. file.calls[p] < Cap[p] + Slack("light", p) + Slack("vm", p)
      BY DEF IInv, Bounded
    <2>4. file'.calls[p] \in Nat /\ file.calls[p] \in Nat /\ Cap[p] \in Nat
      BY BudgetAssumption DEF IInv, FileOK
    <2>5. l = "light" \/ l = "vm"
      BY DEF Lanes
    <2> QED
      BY <2>1, <2>2, <2>3, <2>4, <2>5, SlackNat DEF Lanes
  <1> QED
    BY <1>1, <1>2, <1>3 DEF IInv

LEMMA CountsNat ==
  ASSUME IInv
  PROVE  \A p \in Providers : file.calls[p] \in Nat
  BY DEF IInv, FileOK

LEMMA TickKeeps == ASSUME IInv, NEW l \in Lanes, Tick(l) PROVE IInv'
  <1>1. lane' = [lane EXCEPT ![l] = [pc |-> "ticking", today |-> now, persona |-> 0]]
    BY DEF Tick
  <1>2. now' = now /\ file' = file
    BY DEF Tick
  <1>3. FileOK' /\ now \in Nat
    BY <1>2 DEF IInv, FileOK, LanesOK
  <1>4. \A p \in Providers : file'.calls[p] <= file.calls[p]
    BY <1>2, CountsNat
  <1> QED
    BY <1>1, <1>2, <1>3, <1>4, LaneLeaves DEF FileOK

LEMMA StayedIdle ==
  ASSUME IInv, NEW l \in Lanes, lane' = [lane EXCEPT ![l] = Idle], now' = now,
         FileOK', \A p \in Providers : file'.calls[p] <= file.calls[p]
  PROVE  IInv'
  <1>1. lane' = [lane EXCEPT ![l] = [pc |-> "idle", today |-> 0, persona |-> 0]]
    BY DEF Idle
  <1> QED
    BY <1>1, LaneLeaves DEF FileOK

LEMMA BudgetSpentKeeps == ASSUME IInv, NEW l \in Lanes, BudgetSpent(l) PROVE IInv'
  <1>1. /\ lane' = [lane EXCEPT ![l] = Idle]
        /\ now' = now /\ file' = file
    BY DEF BudgetSpent
  <1>2. FileOK'
    BY <1>1 DEF IInv, FileOK
  <1>3. \A p \in Providers : file'.calls[p] <= file.calls[p]
    BY <1>1, CountsNat
  <1> QED
    BY <1>1, <1>2, <1>3, StayedIdle

LEMMA AdvanceNat ==
  ASSUME NEW c \in Nat, NEW k \in Nat, NEW l \in Lanes
  PROVE  Advance(c, k, l) \in Nat
  <1>1. 2 * Members(l) \in Nat \ {0}
    BY MembersPositive
  <1>2. (c + k) % (2 * Members(l)) \in 0 .. 2 * Members(l) - 1
    BY <1>1, ModNat
  <1> QED
    BY <1>1, <1>2 DEF Advance

LEMMA RolledOK ==
  ASSUME IInv, NEW d
  PROVE  /\ DOMAIN Rolled(d) = DOMAIN FreshState
         /\ Rolled(d).next = file.next
         /\ Rolled(d).next_opencode = file.next_opencode
         /\ Rolled(d).calls = file.calls
  BY DEF IInv, FileOK, Rolled, FreshState

LEMMA NothingRunnableKeeps == ASSUME IInv, NEW l \in Lanes, NothingRunnable(l) PROVE IInv'
  <1> DEFINE s == Rolled(lane[l].today)
             c == Advance(s.next[l], Members(l), l)
  <1>1. /\ lane' = [lane EXCEPT ![l] = Idle]
        /\ now' = now
        /\ file' = [s EXCEPT !.next[l] = c]
    BY DEF NothingRunnable
  <1>2. s.next \in [Lanes -> Nat] /\ s.calls \in [Providers -> Nat]
    BY RolledOK DEF IInv, FileOK
  <1>3. c \in Nat
    BY <1>2, AdvanceNat, MembersPositive
  <1> HIDE DEF s, c
  <1>4. FileOK'
    BY <1>1, <1>2, <1>3, RolledOK DEF IInv, FileOK, FreshState, s
  <1>5. file'.calls = file.calls
    BY <1>1, RolledOK DEF FreshState, s
  <1>6. \A p \in Providers : file'.calls[p] <= file.calls[p]
    BY <1>5, CountsNat
  <1> QED
    BY <1>1, <1>4, <1>6, StayedIdle

\* A lane takes a slot of a provider that is below its cap, or keeps the one it has.
LEMMA LaneRuns ==
  ASSUME IInv, NEW l \in Lanes, NEW r \in Process,
         lane' = [lane EXCEPT ![l] = r], now' = now, FileOK',
         r.pc = "turn" => r.persona \in ToSet(opencode),
         \A p \in Providers : file'.calls[p] <= file.calls[p],
         \A p \in Providers :
           PERSONAS[r.persona].provider = p => InFlight(l, p) \/ file'.calls[p] < Cap[p]
  PROVE  IInv'
  <1>1. LanesOK'
    BY DEF IInv, LanesOK
  <1>2. Bounded'
    <2> SUFFICES ASSUME NEW p \in Providers
                 PROVE  file'.calls[p] < Cap[p] + Slack("light", p)' + Slack("vm", p)'
      BY DEF Bounded
    <2>1. Slack(l, p)' \in {0, RunCalls}
      BY DEF Slack
    <2>2. \A k \in Lanes \ {l} : Slack(k, p)' = Slack(k, p)
      BY DEF Slack, InFlight, Provider, IInv, LanesOK
    <2>3. file.calls[p] < Cap[p] + Slack("light", p) + Slack("vm", p)
      BY DEF IInv, Bounded
    <2>4. /\ file'.calls[p] \in Nat /\ file.calls[p] \in Nat /\ Cap[p] \in Nat
          /\ RunCalls \in Nat
      BY BudgetAssumption DEF IInv, FileOK
    <2>5. l = "light" \/ l = "vm"
      BY DEF Lanes
    <2>6. CASE PERSONAS[r.persona].provider = p /\ ~InFlight(l, p)
      <3>1. file'.calls[p] < Cap[p]
        BY <2>6
      <3> QED
        BY <3>1, <2>1, <2>2, <2>4, <2>5, SlackNat DEF Lanes
    <2>7. CASE PERSONAS[r.persona].provider = p /\ InFlight(l, p)
      <3>1. Slack(l, p) = 0
        BY <2>7 DEF Slack
      <3> QED
        BY <3>1, <2>1, <2>2, <2>3, <2>4, <2>5, SlackNat DEF Lanes
    <2>8. CASE PERSONAS[r.persona].provider # p
      <3>1. Slack(l, p)' = RunCalls
        BY <2>8 DEF Slack, InFlight, Provider, IInv, LanesOK
      <3> QED
        BY <3>1, <2>2, <2>3, <2>4, <2>5, SlackNat DEF Lanes
    <2> QED
      BY <2>6, <2>7, <2>8
  <1> QED
    BY <1>1, <1>2 DEF IInv

LEMMA ChooseKeeps == ASSUME IInv, NEW l \in Lanes, Choose(l) PROVE IInv'
  <1> DEFINE today == lane[l].today
             s     == Rolled(today)
  <1>1. PICK k \in 0 .. Members(l) - 1 :
           /\ Runnable(s, At(s, l, k), today)
           /\ file' = SlotTaken(s, l, k, today)
           /\ lane' = [lane EXCEPT ![l] =
                [pc |-> IF PERSONAS[At(s, l, k)].path = "opencode" THEN "turn" ELSE "running",
                 today |-> today, persona |-> At(s, l, k)]]
    BY DEF Choose
  <1>2. now' = now
    BY DEF Choose
  <1> DEFINE i == At(s, l, k)
             r == [pc |-> IF PERSONAS[i].path = "opencode" THEN "turn" ELSE "running",
                   today |-> today, persona |-> i]
             c == Advance(s.next[l], k + 1, l)
  <1>3. /\ s.next \in [Lanes -> Nat] /\ s.calls \in [Providers -> Nat]
        /\ s.next_opencode \in Nat /\ DOMAIN s = DOMAIN FreshState
    BY RolledOK DEF IInv, FileOK
  <1>4. k \in Nat
    BY MembersPositive
  <1>5. i \in Positions
    BY <1>3, <1>4, PersonaPosition DEF At
  <1>6. c \in Nat
    <2>1. s.next[l] \in Nat /\ k + 1 \in Nat
      BY <1>3, <1>4
    <2> HIDE DEF s
    <2> QED
      BY <2>1, AdvanceNat
  <1>7. CallsToday(s, today) \in [Providers -> Nat]
    BY <1>3 DEF CallsToday, NoCalls
  <1>8. /\ DOMAIN file' = DOMAIN s
        /\ file'.next = [s.next EXCEPT ![l] = c]
        /\ file'.next_opencode = s.next_opencode
        /\ file'.calls = CallsToday(s, today)
    <2>1. file' = [s EXCEPT !.next[l] = c, !.provider_day = today,
                            !.calls = CallsToday(s, today), !.runs_today = @ + 1]
      BY <1>1 DEF SlotTaken
    <2> HIDE DEF s, c
    <2> QED
      BY <1>3, <2>1 DEF FreshState
  <1> HIDE DEF s, c
  <1>9. FileOK'
    BY <1>3, <1>6, <1>7, <1>8 DEF FileOK
  <1>10. \A p \in Providers : file'.calls[p] <= file.calls[p]
    BY <1>8, CountsNat, RolledOK DEF CallsToday, NoCalls, s
  <1>11. r \in Process
    <2>1. today \in Nat
      BY DEF IInv, LanesOK, Process
    <2> QED
      BY <1>5, <2>1, PersonasAssumption DEF Process, Positions
  <1>12. r.pc = "turn" => r.persona \in ToSet(opencode)
    BY <1>5, OpenCodePosition
  <1>13. ASSUME NEW p \in Providers, PERSONAS[r.persona].provider = p
         PROVE  file'.calls[p] < Cap[p]
    <2>1. ~(CallsToday(s, today)[p] >= effective_cap(i))
      BY <1>1, <1>13, BudgetAssumption DEF Runnable, Capped
    <2>2. effective_cap(i) \in Nat /\ effective_cap(i) <= Cap[p] /\ Cap[p] \in Nat
      BY <1>13, BudgetAssumption DEF effective_cap
    <2>3. CallsToday(s, today)[p] \in Nat
      BY <1>7
    <2> QED
      BY <1>8, <2>1, <2>2, <2>3
  <1>14. lane' = [lane EXCEPT ![l] = r]
    BY <1>1
  <1> HIDE DEF r
  <1> QED
    BY <1>2, <1>9, <1>10, <1>11, <1>12, <1>13, <1>14, LaneRuns

LEMMA TakeTurnKeeps == ASSUME IInv, NEW l \in Lanes, TakeTurn(l) PROVE IInv'
  <1> DEFINE i == opencode[(file.next_opencode % Len(opencode)) + 1]
             n == (file.next_opencode + 1) % Len(opencode)
             r == [pc |-> "running", today |-> lane[l].today, persona |-> i]
  <1>1. /\ lane[l].pc = "turn"
        /\ lane' = [lane EXCEPT ![l] = r]
        /\ file' = [file EXCEPT !.next_opencode = n, !.opencode_recent = TRUE]
        /\ now' = now
    BY DEF TakeTurn, IInv, LanesOK
  <1>2. i \in ToSet(opencode) /\ n \in Nat
    BY TurnPosition DEF IInv, FileOK
  <1>3. lane[l].persona \in ToSet(opencode) /\ lane[l] \in Process
    BY <1>1 DEF IInv, LanesOK
  <1>4. i \in Positions
    BY <1>2, PersonasAssumption DEF IsSelection
  <1> HIDE DEF i, n
  <1>6. FileOK' /\ file'.calls = file.calls
    BY <1>1, <1>2 DEF IInv, FileOK, FreshState
  <1>7. r \in Process
    BY <1>3, <1>4, PersonasAssumption DEF Process, Positions
  <1>8. \A p \in Providers : PERSONAS[r.persona].provider = p => InFlight(l, p)
    BY <1>1, <1>2, <1>3, SharedProvider DEF InFlight, Provider
  <1>9. \A p \in Providers : file'.calls[p] <= file.calls[p]
    BY <1>6, CountsNat
  <1>10. r.pc # "turn"
    OBVIOUS
  <1> HIDE DEF r
  <1> QED
    BY <1>1, <1>6, <1>7, <1>8, <1>9, <1>10, LaneRuns

LEMMA Billed ==
  ASSUME NEW calls \in [Providers -> Nat], NEW q, NEW n \in Nat
  PROVE  /\ Bill(calls, q, n) \in [Providers -> Nat]
         /\ \A p \in Providers : Bill(calls, q, n)[p] = IF p = q THEN calls[p] + n ELSE calls[p]
  <1>1. CASE q \in Providers
    <2>1. q # None /\ calls[q] \in Nat
      BY <1>1, BudgetAssumption
    <2> QED
      BY <1>1, <2>1 DEF Bill
  <1>2. CASE q \notin Providers
    <2>1. [calls EXCEPT ![q] = calls[q] + n] = calls
      BY <1>2
    <2> QED
      BY <1>2, <2>1 DEF Bill
  <1> QED
    BY <1>1, <1>2

LEMMA FinishKeeps == ASSUME IInv, NEW l \in Lanes, Finish(l) PROVE IInv'
  <1>1. PICK n \in 0 .. RunCalls, wall \in BOOLEAN : File(l, n, wall)
    BY DEF Finish
  <1>2. lane[l].pc = "running" /\ lane[l] \in Process
    BY DEF Finish, IInv, LanesOK
  <1>3. /\ lane' = [lane EXCEPT ![l] = [pc |-> "idle", today |-> 0, persona |-> 0]]
        /\ now' = now
        /\ file' = [file EXCEPT !.calls = Bill(@, Provider(l), n),
                                !.dead  = MarkDead(@, Provider(l), wall),
                                !.runs  = Kept(l)]
    BY <1>1 DEF File, Idle
  <1>4. n \in Nat /\ n <= RunCalls /\ RunCalls \in Nat
    BY BudgetAssumption
  <1>5. /\ file'.calls = Bill(file.calls, Provider(l), n)
        /\ file'.next = file.next /\ file'.next_opencode = file.next_opencode
        /\ DOMAIN file' = DOMAIN file
    BY <1>3 DEF IInv, FileOK, FreshState
  <1>6. \A p \in Providers :
          /\ file'.calls[p] = IF p = Provider(l) THEN file.calls[p] + n ELSE file.calls[p]
    BY <1>4, <1>5, Billed DEF IInv, FileOK
  <1>7. FileOK'
    <2>1. Bill(file.calls, Provider(l), n) \in [Providers -> Nat]
      BY <1>4, Billed DEF IInv, FileOK
    <2> QED
      BY <1>5, <2>1 DEF IInv, FileOK
  <1>8. LanesOK'
    BY <1>3 DEF IInv, LanesOK, Process
  <1>9. Bounded'
    <2> SUFFICES ASSUME NEW p \in Providers
                 PROVE  file'.calls[p] < Cap[p] + Slack("light", p)' + Slack("vm", p)'
      BY DEF Bounded
    <2>1. Slack(l, p)' = RunCalls
      BY <1>3 DEF Slack, InFlight, IInv, LanesOK
    <2>2. \A k \in Lanes \ {l} : Slack(k, p)' = Slack(k, p)
      BY <1>3 DEF Slack, InFlight, Provider, IInv, LanesOK
    <2>3. file.calls[p] < Cap[p] + Slack("light", p) + Slack("vm", p)
      BY DEF IInv, Bounded
    <2>4. file.calls[p] \in Nat /\ Cap[p] \in Nat
      BY BudgetAssumption, CountsNat
    <2>5. l = "light" \/ l = "vm"
      BY DEF Lanes
    <2>6. p = Provider(l) => Slack(l, p) = 0
      BY <1>2 DEF Slack, InFlight
    <2> QED
      BY <1>4, <1>6, <2>1, <2>2, <2>3, <2>4, <2>5, <2>6, SlackNat DEF Lanes
  <1> QED
    BY <1>7, <1>8, <1>9 DEF IInv

LEMMA StopKeeps ==
  ASSUME IInv, NEW l \in Lanes, Killed(l) \/ KilledSaving(l) \/ KilledArchiving(l)
  PROVE  IInv'
  <1>1. lane' = [lane EXCEPT ![l] = Idle] /\ now' = now
    BY DEF Killed, KilledSaving, KilledArchiving, Stopped
  <1>2. file' = file \/ file' = FreshState
    BY DEF Killed, KilledSaving, KilledArchiving
  <1>3. FileOK'
    BY <1>2 DEF IInv, FileOK, FreshState, NoCalls
  <1>4. \A p \in Providers : file'.calls[p] <= file.calls[p]
    BY <1>2, CountsNat DEF FreshState, NoCalls
  <1> QED
    BY <1>1, <1>3, <1>4, StayedIdle

LEMMA TimeKeeps == ASSUME IInv, NewDay \/ QuotaProbeDue \/ GapOver PROVE IInv'
  <1>1. now' \in Nat /\ lane' = lane
    BY DEF NewDay, QuotaProbeDue, GapOver, IInv, LanesOK
  <1>2. /\ DOMAIN file' = DOMAIN file /\ file'.calls = file.calls /\ file'.next = file.next
        /\ file'.next_opencode = file.next_opencode
    BY DEF NewDay, QuotaProbeDue, GapOver, IInv, FileOK, FreshState
  <1>3. LanesOK' /\ FileOK'
    BY <1>1, <1>2 DEF IInv, LanesOK, FileOK
  <1>4. Bounded'
    BY <1>1, <1>2 DEF IInv, Bounded, Slack, InFlight, Provider
  <1> QED
    BY <1>3, <1>4 DEF IInv

-----------------------------------------------------------------------------
(* The theorems.                                                           *)

(* Every count leaves room, below its cap and one run of each lane, for    *)
(* the runs that are in flight.                                            *)
THEOREM RoomForRunsInFlight == Spec => []IInv
  <1>1. IInv /\ [Next]_vars => IInv'
    <2> SUFFICES ASSUME IInv, [Next]_vars PROVE IInv'
      OBVIOUS
    <2>1. ASSUME NEW l \in Lanes, Tick(l) PROVE IInv'
      BY <2>1, TickKeeps
    <2>2. ASSUME NEW l \in Lanes, BudgetSpent(l) PROVE IInv'
      BY <2>2, BudgetSpentKeeps
    <2>3. ASSUME NEW l \in Lanes, NothingRunnable(l) PROVE IInv'
      BY <2>3, NothingRunnableKeeps
    <2>4. ASSUME NEW l \in Lanes, Choose(l) PROVE IInv'
      BY <2>4, ChooseKeeps
    <2>5. ASSUME NEW l \in Lanes, TakeTurn(l) PROVE IInv'
      BY <2>5, TakeTurnKeeps
    <2>6. ASSUME NEW l \in Lanes, Finish(l) PROVE IInv'
      BY <2>6, FinishKeeps
    <2>7. ASSUME NEW l \in Lanes, Killed(l) \/ KilledSaving(l) \/ KilledArchiving(l)
          PROVE  IInv'
      BY <2>7, StopKeeps
    <2>8. CASE NewDay \/ QuotaProbeDue \/ GapOver
      BY <2>8, TimeKeeps
    <2>9. CASE UNCHANGED vars
      BY <2>9 DEF vars, IInv, LanesOK, FileOK, Bounded, Slack, InFlight, Provider
    <2> QED
      BY <2>1, <2>2, <2>3, <2>4, <2>5, <2>6, <2>7, <2>8, <2>9 DEF Next
  <1> QED
    BY InitIInv, <1>1, PTL DEF Spec

(* No provider's count of the day passes its cap by a run of each lane,    *)
(* whatever the two lanes do and wherever they are stopped.                *)
THEOREM CapsHold == Spec => []CapHolds
  <1>1. IInv => CapHolds
    <2> SUFFICES ASSUME IInv, NEW p \in Providers PROVE file.calls[p] < Cap[p] + 2 * RunCalls
      BY DEF CapHolds
    <2>1. file.calls[p] < Cap[p] + Slack("light", p) + Slack("vm", p)
      BY DEF IInv, Bounded
    <2>2. Cap[p] \in Nat /\ file.calls[p] \in Nat
      BY BudgetAssumption, CountsNat
    <2> QED
      BY <2>1, <2>2, SlackNat DEF Lanes
  <1> QED
    BY <1>1, RoomForRunsInFlight, PTL

-----------------------------------------------------------------------------
(* What is billed.                                                         *)

Billing == IInv /\ spent \in [Providers -> Nat] /\ NeverUnderbilled

LEMMA InitBilling == Init => Billing
  <1> SUFFICES ASSUME Init PROVE Billing
    OBVIOUS
  <1>1. spent = NoCalls /\ file.calls = NoCalls
    BY DEF Init, FreshState
  <1> QED
    BY <1>1, InitIInv DEF Billing, NeverUnderbilled, NoCalls

\* A step that leaves the history, and the counts of the day in the file, as they were.
LEMMA BillsStand ==
  ASSUME Billing, spent' = spent, file'.calls = file.calls, disturbed => disturbed'
  PROVE  spent' \in [Providers -> Nat] /\ NeverUnderbilled'
  BY DEF Billing, NeverUnderbilled

LEMMA ChooseBills ==
  ASSUME Billing, NEW l \in Lanes, Choose(l)
  PROVE  spent' \in [Providers -> Nat] /\ NeverUnderbilled'
  <1> DEFINE today == lane[l].today
             s     == Rolled(today)
  <1>1. PICK k \in 0 .. Members(l) - 1 : file' = SlotTaken(s, l, k, today)
    BY DEF Choose
  <1>2. /\ spent' = IF file.provider_day = today THEN spent ELSE NoCalls
        /\ disturbed => disturbed'
    BY DEF Choose
  <1>3. /\ DOMAIN file = DOMAIN FreshState /\ s.calls = file.calls
        /\ s.provider_day = file.provider_day /\ DOMAIN s = DOMAIN FreshState
    BY RolledOK DEF Billing, IInv, FileOK, FreshState, Rolled
  <1> HIDE DEF s
  <1>4. file'.calls = CallsToday(s, today)
    BY <1>1, <1>3 DEF SlotTaken, FreshState
  <1>5. CASE file.provider_day = today
    BY <1>2, <1>3, <1>4, <1>5, BillsStand DEF CallsToday
  <1>6. CASE file.provider_day # today
    BY <1>2, <1>3, <1>4, <1>6 DEF CallsToday, NoCalls, NeverUnderbilled
  <1> QED
    BY <1>5, <1>6

LEMMA FinishBills ==
  ASSUME Billing, NEW l \in Lanes, Finish(l)
  PROVE  spent' \in [Providers -> Nat] /\ NeverUnderbilled'
  <1>1. PICK n \in 0 .. RunCalls, wall \in BOOLEAN : File(l, n, wall)
    BY DEF Finish
  <1>2. n \in Nat
    BY BudgetAssumption
  <1>3. /\ file'.calls = Bill(file.calls, Provider(l), n)
        /\ spent' = spent \/ spent' = Bill(spent, Provider(l), n)
        /\ disturbed' = disturbed
    BY <1>1 DEF File, FileHistory, Billing, IInv, FileOK, FreshState
  <1>4. /\ file.calls \in [Providers -> Nat] /\ spent \in [Providers -> Nat]
        /\ disturbed \/ \A p \in Providers : spent[p] <= file.calls[p]
    BY DEF Billing, IInv, FileOK, NeverUnderbilled
  <1> DEFINE q == Provider(l)
             billed == Bill(file.calls, q, n)
             more == Bill(spent, q, n)
  <1>5. /\ more \in [Providers -> Nat]
        /\ \A p \in Providers : /\ billed[p] = IF p = q THEN file.calls[p] + n ELSE file.calls[p]
                                /\ more[p] = IF p = q THEN spent[p] + n ELSE spent[p]
    BY <1>2, <1>4, Billed
  <1>6. file'.calls = billed /\ (spent' = spent \/ spent' = more)
    BY <1>3
  <1> HIDE DEF q, billed, more
  <1> QED
    BY <1>2, <1>3, <1>4, <1>5, <1>6 DEF NeverUnderbilled

LEMMA RestBills ==
  ASSUME Billing,
         \/ \E l \in Lanes : \/ Tick(l) \/ BudgetSpent(l) \/ NothingRunnable(l) \/ TakeTurn(l)
                             \/ Killed(l) \/ KilledArchiving(l)
         \/ NewDay \/ QuotaProbeDue \/ GapOver \/ UNCHANGED vars
  PROVE  spent' \in [Providers -> Nat] /\ NeverUnderbilled'
  <1>1. spent' = spent /\ (disturbed => disturbed')
    <2>1. ASSUME NEW l \in Lanes, Tick(l) \/ BudgetSpent(l) \/ TakeTurn(l)
          PROVE  spent' = spent /\ disturbed' = disturbed
      BY <2>1 DEF Tick, BudgetSpent, TakeTurn
    <2>2. ASSUME NEW l \in Lanes, Killed(l) \/ KilledArchiving(l)
          PROVE  spent' = spent /\ disturbed' = disturbed
      BY <2>2 DEF Killed, KilledArchiving
    <2>4. ASSUME NEW l \in Lanes, NothingRunnable(l)
          PROVE  spent' = spent /\ (disturbed => disturbed')
      BY <2>4, Zenon DEF NothingRunnable
    <2>3. CASE NewDay \/ QuotaProbeDue \/ GapOver \/ UNCHANGED vars
      BY <2>3 DEF NewDay, QuotaProbeDue, GapOver, vars
    <2> QED
      BY <2>1, <2>2, <2>3, <2>4
  <1>2. DOMAIN file = DOMAIN FreshState
    BY DEF Billing, IInv, FileOK
  <1>3. ASSUME NEW l \in Lanes, NothingRunnable(l) PROVE file'.calls = file.calls
    <2> DEFINE s == Rolled(lane[l].today)
               c == Advance(s.next[l], Members(l), l)
    <2>1. file' = [s EXCEPT !.next[l] = c]
      BY <1>3 DEF NothingRunnable
    <2>2. s.calls = file.calls /\ DOMAIN s = DOMAIN FreshState
      BY RolledOK DEF Billing
    <2> HIDE DEF s, c
    <2> QED
      BY <2>1, <2>2 DEF FreshState
  <1>4. file'.calls = file.calls
    BY <1>2, <1>3 DEF Tick, BudgetSpent, TakeTurn, Killed, KilledArchiving, NewDay,
                      QuotaProbeDue, GapOver, vars, FreshState
  <1> QED
    BY <1>1, <1>4, BillsStand

(* Every call of a run that began on the day in the file is in that day's  *)
(* count, however the two lanes choose and file over midnight, unless a    *)
(* save was cut short or a lane set the day back.                          *)
THEOREM EveryCallIsBilled == Spec => []NeverUnderbilled
  <1>1. IInv' /\ Billing /\ [Next]_vars => Billing'
    <2> SUFFICES ASSUME IInv', Billing, [Next]_vars
                 PROVE  spent' \in [Providers -> Nat] /\ NeverUnderbilled'
      BY DEF Billing
    <2>1. ASSUME NEW l \in Lanes, Choose(l) PROVE spent' \in [Providers -> Nat] /\ NeverUnderbilled'
      BY <2>1, ChooseBills
    <2>2. ASSUME NEW l \in Lanes, Finish(l) PROVE spent' \in [Providers -> Nat] /\ NeverUnderbilled'
      BY <2>2, FinishBills
    <2>3. ASSUME NEW l \in Lanes, KilledSaving(l)
          PROVE  spent' \in [Providers -> Nat] /\ NeverUnderbilled'
      BY <2>3 DEF KilledSaving, NoCalls, NeverUnderbilled
    <2> QED
      BY <2>1, <2>2, <2>3, RestBills DEF Next
  <1>2. Billing => NeverUnderbilled
    BY DEF Billing
  <1> QED
    BY InitBilling, RoomForRunsInFlight, <1>1, <1>2, PTL DEF Spec

-----------------------------------------------------------------------------
(* The ledger and its archive.                                             *)

Row == [run : Nat, slow : BOOLEAN, day : Nat]

RowsOK ==
  /\ slowRuns \in Nat
  /\ file.runs \in Seq(Row)
  /\ archive \in [DOMAIN archive -> Nat \ {0}]
  /\ \A r \in ToSet(file.runs) : r.slow => r.run <= slowRuns
  /\ \A r \in DOMAIN archive : r \in Row /\ r.slow /\ r.run <= slowRuns

\* The ledger has a slow run once ...
Distinct ==
  \A i, j \in DOMAIN file.runs :
    file.runs[i].slow /\ file.runs[i] = file.runs[j] => i = j

\* ... and never one that the archive has.
KeptOnce ==
  \A r \in DOMAIN archive : r.run \notin orphans => archive[r] = 1 /\ r \notin ToSet(file.runs)

FiledKept ==
  \A r \in filed :
    r \in Row /\ r.slow /\ (IsYoung(r) => r \in DOMAIN archive \cup ToSet(file.runs))

RunsOf == \A l \in Lanes : lane[l].pc \in {"turn", "running"} => lane[l].persona \in Positions

RowsKept == RowsOK /\ Distinct /\ KeptOnce /\ FiledKept /\ RunsOf

Keeping == IInv /\ RowsKept

LEMMA TailPart ==
  \A S, L : \A n \in Nat : \A m \in 0 .. n :
    (\A i \in 1 .. n + 1 : L[i] \in S) =>
      /\ SubSeq(L, m + 1, n + 1) \in Seq(S) /\ Len(SubSeq(L, m + 1, n + 1)) = n + 1 - m
      /\ \A i \in 1 .. n + 1 - m : SubSeq(L, m + 1, n + 1)[i] = L[m + i]
  <1> SUFFICES ASSUME NEW S, NEW L, NEW n \in Nat, NEW m \in 0 .. n,
                      \A i \in 1 .. n + 1 : L[i] \in S
               PROVE  /\ SubSeq(L, m + 1, n + 1) \in Seq(S)
                      /\ Len(SubSeq(L, m + 1, n + 1)) = n + 1 - m
                      /\ \A i \in 1 .. n + 1 - m : SubSeq(L, m + 1, n + 1)[i] = L[m + i]
    OBVIOUS
  <1> DEFINE a == m + 1
             b == n + 1
  <1>1. a \in Int /\ b \in Int /\ \A i \in a .. b : L[i] \in S
    OBVIOUS
  <1>2. /\ SubSeq(L, a, b) \in Seq(S)
        /\ Len(SubSeq(L, a, b)) = IF a <= b THEN b - a + 1 ELSE 0
        /\ \A i \in 1 .. b - a + 1 : SubSeq(L, a, b)[i] = L[a + i - 1]
    <2> HIDE DEF a, b
    <2> QED
      BY <1>1, SubSeqProperties
  <1> QED
    BY <1>2

\* The oldest rows go, the others stay, the new one among them.
LEMMA LedgerSplit ==
  ASSUME NEW l \in Lanes, file.runs \in Seq(Row), Record(l) \in Row
  PROVE  \E m \in 0 .. Len(file.runs) :
           /\ Evicted(l) \in Seq(Row) /\ Len(Evicted(l)) = m
           /\ \A i \in 1 .. m : Evicted(l)[i] = file.runs[i]
           /\ Kept(l) \in Seq(Row) /\ Len(Kept(l)) = Len(file.runs) + 1 - m
           /\ \A i \in 1 .. Len(Kept(l)) :
                m + i <= Len(file.runs) => Kept(l)[i] = file.runs[m + i]
           /\ Kept(l)[Len(Kept(l))] = Record(l)
  <1> DEFINE runs == file.runs
             rec  == Record(l)
             S    == Row
             cap  == LEDGER_CAP
             L    == Ledger(l)
             E    == Evicted(l)
             K    == Kept(l)
  <1>0. /\ runs \in Seq(S) /\ rec \in S /\ cap \in Nat \ {0}
        /\ L = Append(runs, rec)
        /\ E = SubSeq(L, 1, Len(L) - cap)
        /\ K = SubSeq(L, Len(E) + 1, Len(L))
    BY BudgetAssumption DEF Ledger, Evicted, Kept
  <1> HIDE DEF runs, rec, S, cap, L, E, K
  <1> DEFINE n == Len(runs)
             m == IF n + 1 > cap THEN n + 1 - cap ELSE 0
  <1>1. /\ L \in Seq(S) /\ Len(L) = n + 1 /\ n \in Nat
        /\ \A i \in 1 .. n + 1 : L[i] \in S /\ L[i] = IF i <= n THEN runs[i] ELSE rec
    BY <1>0, AppendProperties
  <1>2. m \in 0 .. n
    BY <1>0, <1>1
  <1> HIDE DEF n
  <1>3. /\ E \in Seq(S)
        /\ Len(E) = m
        /\ \A i \in 1 .. m : E[i] = L[i]
    <2> DEFINE e == Len(L) - cap
    <2>1. e \in Int /\ \A i \in 1 .. e : L[i] \in S
      BY <1>0, <1>1
    <2>2. /\ E \in Seq(S) /\ Len(E) = IF 1 <= e THEN e - 1 + 1 ELSE 0
          /\ \A i \in 1 .. e - 1 + 1 : E[i] = L[1 + i - 1]
      BY <1>0, <2>1, SubSeqProperties
    <2> QED
      BY <1>0, <1>1, <2>1, <2>2
  <1>4. /\ K \in Seq(S)
        /\ Len(K) = n + 1 - m
        /\ \A i \in 1 .. n + 1 - m : K[i] = L[m + i]
    <2>1. K = SubSeq(L, m + 1, n + 1)
      BY <1>0, <1>1, <1>3
    <2>2. \A i \in 1 .. n + 1 : L[i] \in S
      BY <1>1
    <2>3. n \in Nat
      BY <1>1
    <2> HIDE DEF m
    <2>4. /\ SubSeq(L, m + 1, n + 1) \in Seq(S) /\ Len(SubSeq(L, m + 1, n + 1)) = n + 1 - m
          /\ \A i \in 1 .. n + 1 - m : SubSeq(L, m + 1, n + 1)[i] = L[m + i]
      BY ONLY <1>2, <2>2, <2>3, TailPart
    <2> QED
      BY <2>1, <2>4, Zenon
  <1> HIDE DEF m
  <1>5. \A i \in 1 .. Len(K) : /\ m + i <= n => K[i] = runs[m + i]
                               /\ i = Len(K) => K[i] = rec
    <2> SUFFICES ASSUME NEW i \in 1 .. Len(K)
                 PROVE  (m + i <= n => K[i] = runs[m + i]) /\ (i = Len(K) => K[i] = rec)
      OBVIOUS
    <2>1. m + i \in 1 .. n + 1 /\ i \in 1 .. n + 1 - m
      BY <1>1, <1>2, <1>4
    <2>2. K[i] = L[m + i] /\ L[m + i] = IF m + i <= n THEN runs[m + i] ELSE rec
      BY <1>1, <1>4, <2>1
    <2>3. i = Len(K) => ~(m + i <= n)
      BY <1>1, <1>2, <1>4
    <2> QED
      BY <2>2, <2>3
  <1>6. \A i \in 1 .. m : E[i] = runs[i]
    BY <1>1, <1>2, <1>3
  <1>7. Len(K) \in 1 .. Len(K)
    BY <1>1, <1>2, <1>4
  <1> USE DEF n, runs, rec, S, E, K
  <1> WITNESS m \in 0 .. Len(file.runs)
  <1> QED
    BY <1>3, <1>4, <1>5, <1>6, <1>7

\* What a bag of a sequence's elements says.
LEMMA BagOf ==
  ASSUME NEW s \in Seq(Row)
  PROVE  /\ DOMAIN ToBag(s) = ToSet(s)
         /\ \A r \in ToSet(s) :
              /\ ToBag(s)[r] \in Nat \ {0}
              /\ (\A i, j \in DOMAIN s : s[i] = r /\ s[j] = r => i = j) => ToBag(s)[r] = 1
  <1>1. DOMAIN ToBag(s) = ToSet(s)
    BY DEF ToBag, Range, ToSet
  <1>2. ASSUME NEW r \in ToSet(s)
        PROVE  /\ ToBag(s)[r] \in Nat \ {0}
               /\ (\A i, j \in DOMAIN s : s[i] = r /\ s[j] = r => i = j) => ToBag(s)[r] = 1
    <2> DEFINE P == {i \in DOMAIN s : s[i] = r}
    <2>1. ToBag(s)[r] = Cardinality(P)
      BY <1>1 DEF ToBag
    <2>2. P \subseteq 1 .. Len(s) /\ Len(s) \in Nat
      OBVIOUS
    <2>3. IsFiniteSet(P)
      BY <2>2, FS_Interval, FS_Subset
    <2>4. PICK i \in DOMAIN s : s[i] = r
      BY DEF ToSet
    <2>5. i \in P
      BY <2>4
    <2> HIDE DEF P
    <2>6. Cardinality(P) \in Nat /\ Cardinality(P) # 0
      BY <2>3, <2>5, FS_CardinalityType, FS_EmptySet
    <2>7. ASSUME \A j, k \in DOMAIN s : s[j] = r /\ s[k] = r => j = k
          PROVE  Cardinality(P) = 1
      <3>1. P = {i}
        BY <2>4, <2>5, <2>7 DEF P
      <3> QED
        BY <3>1, FS_Singleton
    <2> QED
      BY <2>1, <2>6, <2>7
  <1> QED
    BY <1>1, <1>2

\* The archive after rows e were evicted.
LEMMA ArchivedIs ==
  ASSUME NEW e \in Seq(Row), archive \in [DOMAIN archive -> Nat \ {0}],
         NEW next, next = Archived(e)
  PROVE  /\ next \in [DOMAIN next -> Nat \ {0}]
         /\ \A r \in DOMAIN next : r \in DOMAIN archive \/ (r \in ToSet(e) /\ r.slow)
         /\ \A r \in DOMAIN archive : IsYoung(r) => r \in DOMAIN next
         /\ \A r \in ToSet(e) : r.slow => r \in DOMAIN next
         /\ \A r \in DOMAIN next : r \notin ToSet(e) => next[r] = archive[r]
         /\ \A r \in DOMAIN next :
              /\ r \notin DOMAIN archive
              /\ \A i, j \in DOMAIN e : e[i] = r /\ e[j] = r => i = j
              => next[r] = 1
  <1> DEFINE bag  == ToBag(e)
             keep == Part(bag, IsSlow)
             old  == Part(archive, IsYoung)
  <1>1. /\ DOMAIN bag = ToSet(e)
        /\ \A r \in ToSet(e) :
             /\ bag[r] \in Nat \ {0}
             /\ (\A i, j \in DOMAIN e : e[i] = r /\ e[j] = r => i = j) => bag[r] = 1
    BY BagOf
  <1> HIDE DEF bag
  <1>2. /\ keep = [r \in {x \in ToSet(e) : x.slow} |-> bag[r]]
        /\ old = [r \in {x \in DOMAIN archive : IsYoung(x)} |-> archive[r]]
    BY <1>1 DEF Part, IsSlow
  <1>3. next = IF keep = EmptyBag THEN archive ELSE old (+) keep
    BY DEF Archived, bag
  <1> HIDE DEF keep, old
  <1>4. CASE keep = EmptyBag
    <2>1. DOMAIN keep = {}
      BY <1>4 DEF EmptyBag, SetToBag
    <2>2. \A r \in ToSet(e) : ~r.slow
      BY <1>2, <2>1
    <2> QED
      BY <1>3, <1>4, <2>2
  <1>5. CASE keep # EmptyBag
    <2>1. next = [r \in DOMAIN old \cup DOMAIN keep |->
                    (IF r \in DOMAIN old THEN old[r] ELSE 0)
                    + (IF r \in DOMAIN keep THEN keep[r] ELSE 0)]
      BY <1>3, <1>5 DEF (+)
    <2> QED
      BY <1>1, <1>2, <2>1
  <1> QED
    BY <1>4, <1>5

LEMMA RecordIs ==
  ASSUME Keeping, NEW l \in Lanes, lane[l].pc = "running"
  PROVE  /\ Record(l) \in Row
         /\ Record(l).slow => Record(l).run = slowRuns + 1
  <1>1. PERSONAS[lane[l].persona].slow \in BOOLEAN
    BY PersonasAssumption DEF Keeping, RowsKept, RunsOf
  <1>2. slowRuns \in Nat /\ now \in Nat
    BY DEF Keeping, RowsKept, RowsOK, IInv, LanesOK
  <1> QED
    BY <1>1, <1>2 DEF Record, Row

LEMMA LedgerRows ==
  ASSUME Keeping, NEW l \in Lanes, lane[l].pc = "running"
  PROVE  /\ Evicted(l) \in Seq(Row) /\ Kept(l) \in Seq(Row)
         /\ \A r \in ToSet(Evicted(l)) : r \in ToSet(file.runs)
         /\ \A r \in ToSet(Kept(l)) : r \in ToSet(file.runs) \cup {Record(l)}
         /\ \A r \in ToSet(file.runs) : r \in ToSet(Evicted(l)) \cup ToSet(Kept(l))
         /\ Record(l) \in ToSet(Kept(l))
         /\ \A r \in ToSet(Evicted(l)) : r.slow => r \notin ToSet(Kept(l))
         /\ \A i, j \in DOMAIN Kept(l) : Kept(l)[i].slow /\ Kept(l)[i] = Kept(l)[j] => i = j
         /\ \A i, j \in DOMAIN Evicted(l) :
              Evicted(l)[i].slow /\ Evicted(l)[i] = Evicted(l)[j] => i = j
  <1> DEFINE runs == file.runs
             rec  == Record(l)
             E    == Evicted(l)
             K    == Kept(l)
  <1>1. /\ runs \in Seq(Row)
        /\ \A r \in ToSet(runs) : r.slow => r.run <= slowRuns
        /\ \A i, j \in DOMAIN runs : runs[i].slow /\ runs[i] = runs[j] => i = j
        /\ slowRuns \in Nat
    BY DEF Keeping, RowsKept, RowsOK, Distinct
  <1>2. rec \in Row /\ (rec.slow => rec.run = slowRuns + 1)
    BY RecordIs
  <1>3. PICK m \in 0 .. Len(runs) :
          /\ E \in Seq(Row) /\ Len(E) = m
          /\ \A i \in 1 .. m : E[i] = runs[i]
          /\ K \in Seq(Row) /\ Len(K) = Len(runs) + 1 - m
          /\ \A i \in 1 .. Len(K) : m + i <= Len(runs) => K[i] = runs[m + i]
          /\ K[Len(K)] = rec
    BY <1>1, <1>2, LedgerSplit
  <1> HIDE DEF runs, rec, E, K
  <1>4. Len(runs) \in Nat /\ DOMAIN runs = 1 .. Len(runs)
    BY <1>1
  <1>5. \A i \in DOMAIN runs : runs[i] # rec \/ ~rec.slow
    BY <1>1, <1>2 DEF ToSet
  <1>6. /\ \A r \in ToSet(E) : r \in ToSet(runs)
        /\ \A i \in DOMAIN E : i \in DOMAIN runs /\ E[i] = runs[i] /\ i <= m
    BY <1>3, <1>4 DEF ToSet
  <1>7. /\ \A r \in ToSet(K) : r \in ToSet(runs) \cup {rec}
        /\ \A i \in DOMAIN K : \/ m + i \in DOMAIN runs /\ K[i] = runs[m + i]
                               \/ i = Len(K) /\ K[i] = rec
    <2>1. ASSUME NEW i \in DOMAIN K
          PROVE  \/ m + i \in DOMAIN runs /\ K[i] = runs[m + i]
                 \/ i = Len(K) /\ K[i] = rec
      <3>1. /\ i \in 1 .. Len(K) /\ Len(K) = Len(runs) + 1 - m
            /\ m + i <= Len(runs) => K[i] = runs[m + i]
            /\ i = Len(K) => K[i] = rec
        BY <1>3
      <3> QED
        BY <1>4, <3>1
    <2> QED
      BY <2>1 DEF ToSet
  <1>8. \A r \in ToSet(runs) : r \in ToSet(E) \cup ToSet(K)
    <2> SUFFICES ASSUME NEW i \in DOMAIN runs PROVE runs[i] \in ToSet(E) \cup ToSet(K)
      BY DEF ToSet
    <2>1. CASE i <= m
      BY <1>3, <1>4, <2>1 DEF ToSet
    <2>2. CASE i > m
      <3>1. i - m \in 1 .. Len(K) /\ m + (i - m) = i
        BY <1>3, <1>4, <2>2
      <3>2. K[i - m] = runs[i]
        BY <1>3, <1>4, <3>1
      <3> QED
        BY <1>3, <3>1, <3>2 DEF ToSet
    <2> QED
      BY <1>3, <1>4, <2>1, <2>2
  <1>9. rec \in ToSet(K)
    <2>1. Len(K) \in DOMAIN K /\ m + Len(K) = Len(runs) + 1
      BY <1>3, <1>4
    <2>2. K[Len(K)] = rec
      BY <1>3, <1>4, <2>1
    <2> QED
      BY <2>1, <2>2 DEF ToSet
  <1>10. ASSUME NEW i \in DOMAIN E, NEW j \in DOMAIN K, E[i].slow, E[i] = K[j]
         PROVE  FALSE
    <2>1. CASE m + j \in DOMAIN runs /\ K[j] = runs[m + j]
      <3>1. i = m + j
        BY <1>1, <1>6, <1>10, <2>1
      <3>2. j \in Nat \ {0} /\ m \in Nat /\ i <= m
        BY <1>3, <1>4, <1>6
      <3> QED
        BY <3>1, <3>2
    <2>2. CASE K[j] = rec
      BY <1>5, <1>6, <1>10, <2>2
    <2> QED
      BY <1>7, <2>1, <2>2
  <1>11. ASSUME NEW i \in DOMAIN K, NEW j \in DOMAIN K, K[i].slow, K[i] = K[j]
         PROVE  i = j
    <2>1. i \in Nat /\ j \in Nat /\ m \in Nat
      BY <1>3, <1>4
    <2>2. CASE K[i] = rec \/ K[j] = rec
      <3>1. i = Len(K) /\ j = Len(K)
        BY <1>5, <1>7, <1>11, <2>2
      <3> QED
        BY <3>1
    <2>3. CASE K[i] # rec /\ K[j] # rec
      <3>1. m + i \in DOMAIN runs /\ m + j \in DOMAIN runs /\ runs[m + i] = runs[m + j]
                /\ runs[m + i].slow
        BY <1>7, <1>11, <2>3
      <3>2. m + i = m + j
        BY <1>1, <3>1
      <3> QED
        BY <2>1, <3>2
    <2> QED
      BY <2>2, <2>3
  <1>12. \A i, j \in DOMAIN E : E[i].slow /\ E[i] = E[j] => i = j
    BY <1>1, <1>6
  <1>13. \A r \in ToSet(E) : r.slow => r \notin ToSet(K)
    BY <1>10 DEF ToSet
  <1> QED
    BY <1>3, <1>6, <1>7, <1>8, <1>9, <1>11, <1>12, <1>13 DEF runs, rec, E, K

\* The archive after the rows that the ledger has no room for went there.
LEMMA ArchivedRows ==
  ASSUME Keeping, NEW l \in Lanes, lane[l].pc = "running", NEW next,
         next = Archived(Evicted(l))
  PROVE  /\ next \in [DOMAIN next -> Nat \ {0}]
         /\ \A r \in DOMAIN next : r \in Row /\ r.slow /\ r.run <= slowRuns
         /\ \A r \in DOMAIN archive : IsYoung(r) => r \in DOMAIN next
         /\ \A r \in ToSet(Evicted(l)) : r.slow => r \in DOMAIN next
         /\ \A r \in DOMAIN next : r \in ToSet(Evicted(l)) \/ r \in DOMAIN archive
         /\ \A r \in DOMAIN next : r.run \notin orphans => next[r] = 1
         /\ \A r \in DOMAIN next \ ToSet(Evicted(l)) : next[r] = archive[r]
  <1> DEFINE E == Evicted(l)
  <1>1. /\ E \in Seq(Row)
        /\ \A r \in ToSet(E) : r \in ToSet(file.runs)
        /\ \A i, j \in DOMAIN E : E[i].slow /\ E[i] = E[j] => i = j
    BY LedgerRows
  <1>2. /\ archive \in [DOMAIN archive -> Nat \ {0}]
        /\ \A r \in ToSet(file.runs) : r.slow => r.run <= slowRuns
        /\ \A r \in DOMAIN archive : r \in Row /\ r.slow /\ r.run <= slowRuns
        /\ \A r \in DOMAIN archive :
             r.run \notin orphans => archive[r] = 1 /\ r \notin ToSet(file.runs)
        /\ \A r \in ToSet(file.runs) : r \in Row
    BY DEF Keeping, RowsKept, RowsOK, KeptOnce, ToSet
  <1> HIDE DEF E
  <1>3. /\ next \in [DOMAIN next -> Nat \ {0}]
        /\ \A r \in DOMAIN next : r \in DOMAIN archive \/ (r \in ToSet(E) /\ r.slow)
        /\ \A r \in DOMAIN archive : IsYoung(r) => r \in DOMAIN next
        /\ \A r \in ToSet(E) : r.slow => r \in DOMAIN next
        /\ \A r \in DOMAIN next : r \notin ToSet(E) => next[r] = archive[r]
        /\ \A r \in DOMAIN next :
             /\ r \notin DOMAIN archive
             /\ \A i, j \in DOMAIN E : E[i] = r /\ E[j] = r => i = j
             => next[r] = 1
    BY <1>1, <1>2, ArchivedIs DEF E
  <1>4. ASSUME NEW r \in DOMAIN next, r.run \notin orphans PROVE next[r] = 1
    <2>1. CASE r \in ToSet(E)
      <3>1. r \notin DOMAIN archive /\ r.slow
        BY <1>1, <1>2, <1>3, <1>4, <2>1
      <3>2. \A i, j \in DOMAIN E : E[i] = r /\ E[j] = r => i = j
        BY <1>1, <3>1
      <3> QED
        BY <1>3, <3>1, <3>2
    <2>2. CASE r \notin ToSet(E)
      BY <1>2, <1>3, <1>4, <2>2
    <2> QED
      BY <2>1, <2>2
  <1>5. \A r \in DOMAIN next : r \in Row /\ r.slow /\ r.run <= slowRuns
    BY <1>1, <1>2, <1>3
  <1> QED
    BY <1>3, <1>4, <1>5 DEF E

LEMMA FinishRows ==
  ASSUME Keeping, NEW l \in Lanes, Finish(l)
  PROVE  RowsKept'
  <1>1. PICK n \in 0 .. RunCalls, wall \in BOOLEAN : File(l, n, wall)
    BY DEF Finish
  <1>2. lane[l].pc = "running"
    BY DEF Finish
  <1> DEFINE rec == Record(l)
             E   == Evicted(l)
             K   == Kept(l)
  <1>3. /\ archive' = Archived(E)
        /\ file'.runs = K
        /\ filed' = IF rec.slow THEN filed \cup {rec} ELSE filed
        /\ slowRuns' = IF rec.slow THEN slowRuns + 1 ELSE slowRuns
        /\ orphans' = orphans /\ now' = now
        /\ lane' = [lane EXCEPT ![l] = Idle]
    BY <1>1 DEF File, FileHistory, Keeping, IInv, FileOK, FreshState
  <1>4. rec \in Row /\ (rec.slow => rec.run = slowRuns + 1)
    BY <1>2, RecordIs
  <1>5. /\ E \in Seq(Row) /\ K \in Seq(Row)
        /\ \A r \in ToSet(E) : r \in ToSet(file.runs)
        /\ \A r \in ToSet(K) : r \in ToSet(file.runs) \cup {rec}
        /\ \A r \in ToSet(file.runs) : r \in ToSet(E) \cup ToSet(K)
        /\ rec \in ToSet(K)
        /\ \A r \in ToSet(E) : r.slow => r \notin ToSet(K)
        /\ \A i, j \in DOMAIN K : K[i].slow /\ K[i] = K[j] => i = j
    BY <1>2, LedgerRows
  <1>6. /\ archive' \in [DOMAIN archive' -> Nat \ {0}]
        /\ \A r \in DOMAIN archive' : r \in Row /\ r.slow /\ r.run <= slowRuns
        /\ \A r \in DOMAIN archive : IsYoung(r) => r \in DOMAIN archive'
        /\ \A r \in ToSet(E) : r.slow => r \in DOMAIN archive'
        /\ \A r \in DOMAIN archive' : r \in ToSet(E) \/ r \in DOMAIN archive
        /\ \A r \in DOMAIN archive' : r.run \notin orphans => archive'[r] = 1
    BY <1>2, <1>3, ArchivedRows
  <1>7. /\ slowRuns \in Nat
        /\ \A r \in ToSet(file.runs) : r.slow => r.run <= slowRuns
        /\ \A r \in DOMAIN archive : r.run \notin orphans => r \notin ToSet(file.runs)
        /\ \A r \in DOMAIN archive : r.slow /\ r.run <= slowRuns
        /\ \A r \in filed : r \in Row /\ r.slow
             /\ (IsYoung(r) => r \in DOMAIN archive \cup ToSet(file.runs))
        /\ \A k \in Lanes : lane[k].pc \in {"turn", "running"} => lane[k].persona \in Positions
    BY DEF Keeping, RowsKept, RowsOK, KeptOnce, FiledKept, RunsOf
  <1>8. \A r : IsYoung(r)' <=> IsYoung(r)
    BY <1>3 DEF IsYoung
  <1>9. \A r \in ToSet(K) : r.slow => r.run <= slowRuns'
    <2> HIDE DEF rec, K
    <2>1. \A r \in Row : r.run \in Nat
      BY DEF Row
    <2>2. ToSet(file.runs) \subseteq Row
      BY DEF Keeping, RowsKept, RowsOK, ToSet
    <2> QED
      BY <1>3, <1>4, <1>5, <1>7, <2>1, <2>2
  <1>10. RunsOf'
    BY <1>3, <1>7 DEF RunsOf, Idle, Keeping, IInv, LanesOK
  <1> HIDE DEF rec, E, K
  <1>11. RowsOK'
    <2>1. slowRuns' \in Nat /\ slowRuns <= slowRuns'
      BY <1>3, <1>7
    <2>2. \A r \in DOMAIN archive' : r \in Row /\ r.slow /\ r.run <= slowRuns'
      BY <1>6, <1>7, <2>1 DEF Row
    <2> QED
      BY <1>3, <1>5, <1>6, <1>9, <2>1, <2>2 DEF RowsOK
  <1>12. Distinct'
    BY <1>3, <1>5 DEF Distinct
  <1>13. KeptOnce'
    <2> SUFFICES ASSUME NEW r \in DOMAIN archive', r.run \notin orphans
                 PROVE  archive'[r] = 1 /\ r \notin ToSet(K)
      BY <1>3 DEF KeptOnce
    <2>1. archive'[r] = 1 /\ r.slow /\ r.run <= slowRuns
      BY <1>6
    <2>2. r # rec
      BY <1>4, <1>7, <2>1
    <2>3. CASE r \in ToSet(E)
      BY <1>5, <2>1, <2>3
    <2>4. CASE r \in DOMAIN archive
      BY <1>5, <1>7, <2>1, <2>2, <2>4
    <2> QED
      BY <1>6, <2>1, <2>3, <2>4
  <1>14. FiledKept'
    <2> SUFFICES ASSUME NEW r \in filed'
                 PROVE  r \in Row /\ r.slow
                        /\ (IsYoung(r) => r \in DOMAIN archive' \cup ToSet(K))
      BY <1>3, <1>8 DEF FiledKept
    <2>1. CASE r \in filed
      BY <1>5, <1>6, <1>7, <2>1
    <2>2. CASE r \notin filed
      BY <1>3, <1>4, <1>5, <2>2
    <2> QED
      BY <2>1, <2>2
  <1> QED
    BY <1>10, <1>11, <1>12, <1>13, <1>14 DEF RowsKept

\* A step that leaves every row where it is; days pass.
LEMMA RowsStay ==
  ASSUME Keeping, RunsOf', file'.runs = file.runs, archive' = archive, filed' = filed,
         slowRuns' = slowRuns, orphans' = orphans, now' \in Nat, now <= now'
  PROVE  RowsKept'
  <1>1. RowsOK' /\ Distinct' /\ KeptOnce'
    BY DEF Keeping, RowsKept, RowsOK, Distinct, KeptOnce
  <1>2. ASSUME NEW r \in Row, IsYoung(r)' PROVE IsYoung(r)
    <2>1. r.day + ARCHIVE_DAYS \in Nat /\ now \in Nat
      BY BudgetAssumption DEF Row, Keeping, IInv, LanesOK
    <2>2. r.day + ARCHIVE_DAYS >= now'
      BY <1>2 DEF IsYoung
    <2> QED
      BY <2>1, <2>2 DEF IsYoung
  <1>3. FiledKept'
    BY <1>2 DEF Keeping, RowsKept, FiledKept
  <1> QED
    BY <1>1, <1>3 DEF RowsKept

LEMMA RunsOfIdle ==
  ASSUME Keeping, NEW l \in Lanes, NEW r, r.pc \notin {"turn", "running"},
         lane' = [lane EXCEPT ![l] = r]
  PROVE  RunsOf'
  BY DEF Keeping, RowsKept, RunsOf, IInv, LanesOK

LEMMA ChooseRows ==
  ASSUME Keeping, NEW l \in Lanes, Choose(l) \/ NothingRunnable(l)
  PROVE  file'.runs = file.runs
  <1> DEFINE s == Rolled(lane[l].today)
  <1>1. s.runs = file.runs /\ DOMAIN s = DOMAIN FreshState
    BY DEF Keeping, IInv, FileOK, FreshState, Rolled
  <1> HIDE DEF s
  <1>2. CASE Choose(l)
    <2>1. PICK k \in 0 .. Members(l) - 1 : file' = SlotTaken(s, l, k, lane[l].today)
      BY <1>2 DEF Choose, s
    <2> QED
      BY <1>1, <2>1 DEF SlotTaken, FreshState
  <1>3. CASE NothingRunnable(l)
    <2>1. file' = [s EXCEPT !.next[l] = Advance(@, Members(l), l)]
      BY <1>3 DEF NothingRunnable, s
    <2> QED
      BY <1>1, <2>1 DEF FreshState
  <1> QED
    BY <1>2, <1>3

LEMMA ChosenPosition ==
  ASSUME Keeping, NEW l \in Lanes, Choose(l)
  PROVE  RunsOf'
  <1> DEFINE s == Rolled(lane[l].today)
  <1>1. PICK k \in 0 .. Members(l) - 1 :
           lane' = [lane EXCEPT ![l] =
             [pc |-> IF PERSONAS[At(s, l, k)].path = "opencode" THEN "turn" ELSE "running",
              today |-> lane[l].today, persona |-> At(s, l, k)]]
    BY Zenon DEF Choose
  <1>2. s.next[l] \in Nat /\ k \in Nat
    BY RolledOK, MembersPositive DEF Keeping, IInv, FileOK
  <1>3. At(s, l, k) \in Positions
    <2> HIDE DEF s
    <2> QED
      BY <1>2, PersonaPosition DEF At
  <1> HIDE DEF s
  <1> QED
    BY <1>1, <1>3 DEF Keeping, RowsKept, RunsOf, IInv, LanesOK

LEMMA TurnRows ==
  ASSUME Keeping, NEW l \in Lanes, TakeTurn(l)
  PROVE  RunsOf' /\ file'.runs = file.runs
  <1> DEFINE i == opencode[(file.next_opencode % Len(opencode)) + 1]
             n == (file.next_opencode + 1) % Len(opencode)
  <1>1. /\ lane' = [lane EXCEPT ![l] = [pc |-> "running", today |-> lane[l].today, persona |-> i]]
        /\ file' = [file EXCEPT !.next_opencode = n, !.opencode_recent = TRUE]
    BY DEF TakeTurn, Keeping, IInv, LanesOK
  <1>2. i \in Positions
    BY TurnPosition, PersonasAssumption DEF IsSelection, Keeping, IInv, FileOK
  <1> HIDE DEF i, n
  <1>3. file'.runs = file.runs
    BY <1>1 DEF Keeping, IInv, FileOK, FreshState
  <1> QED
    BY <1>1, <1>2, <1>3 DEF Keeping, RowsKept, RunsOf, IInv, LanesOK

LEMMA SavingRows ==
  ASSUME Keeping, NEW l \in Lanes, KilledSaving(l)
  PROVE  RowsKept'
  <1>1. /\ file'.runs = <<>> /\ filed' = {} /\ slowRuns' = slowRuns /\ now' = now
        /\ lane' = [lane EXCEPT ![l] = Idle]
    BY DEF KilledSaving, Stopped, FreshState
  <1>2. RunsOf'
    BY <1>1, RunsOfIdle DEF Idle
  <1>3. FiledKept' /\ Distinct'
    BY <1>1 DEF FiledKept, Distinct
  <1>4. slowRuns \in Nat /\ RowsOK /\ KeptOnce
    BY DEF Keeping, RowsKept, RowsOK
  <1>5. CASE lane[l].pc = "running"
    <2>1. archive' = Archived(Evicted(l)) /\ orphans' = orphans \cup {r.run : r \in DOMAIN archive'}
      BY <1>5 DEF KilledSaving
    <2>2. /\ archive' \in [DOMAIN archive' -> Nat \ {0}]
          /\ \A r \in DOMAIN archive' : r \in Row /\ r.slow /\ r.run <= slowRuns
      BY <1>5, <2>1, ArchivedRows
    <2>3. RowsOK'
      BY <1>1, <1>4, <2>2 DEF RowsOK, ToSet
    <2>4. KeptOnce'
      BY <2>1 DEF KeptOnce
    <2> QED
      BY <1>2, <1>3, <2>3, <2>4 DEF RowsKept
  <1>6. CASE lane[l].pc # "running"
    <2>1. archive' = archive /\ orphans' = orphans
      BY <1>6 DEF KilledSaving
    <2>2. RowsOK' /\ KeptOnce'
      BY <1>1, <1>4, <2>1 DEF RowsOK, KeptOnce, ToSet
    <2> QED
      BY <1>2, <1>3, <2>2 DEF RowsKept
  <1> QED
    BY <1>5, <1>6

LEMMA ArchivingRows ==
  ASSUME Keeping, NEW l \in Lanes, KilledArchiving(l)
  PROVE  RowsKept'
  <1> DEFINE E == Evicted(l)
  <1>1. /\ archive' = Archived(E) /\ orphans' = orphans \cup {r.run : r \in ToSet(E)}
        /\ file' = file /\ filed' = filed /\ slowRuns' = slowRuns /\ now' = now
        /\ lane' = [lane EXCEPT ![l] = Idle] /\ lane[l].pc = "running"
    BY DEF KilledArchiving, Stopped
  <1>2. RunsOf'
    BY <1>1, RunsOfIdle DEF Idle
  <1>3. /\ archive' \in [DOMAIN archive' -> Nat \ {0}]
        /\ \A r \in DOMAIN archive' : r \in Row /\ r.slow /\ r.run <= slowRuns
        /\ \A r \in DOMAIN archive : IsYoung(r) => r \in DOMAIN archive'
        /\ \A r \in DOMAIN archive' : r \in ToSet(E) \/ r \in DOMAIN archive
        /\ \A r \in DOMAIN archive' \ ToSet(E) : archive'[r] = archive[r]
    BY <1>1, ArchivedRows
  <1>4. RowsOK /\ Distinct /\ KeptOnce /\ FiledKept
    BY DEF Keeping, RowsKept
  <1> HIDE DEF E
  <1>5. RowsOK' /\ Distinct'
    BY <1>1, <1>3, <1>4 DEF RowsOK, Distinct
  <1>6. KeptOnce'
    BY <1>1, <1>3, <1>4 DEF KeptOnce
  <1>7. FiledKept'
    BY <1>1, <1>3, <1>4 DEF FiledKept, IsYoung
  <1> QED
    BY <1>2, <1>5, <1>6, <1>7 DEF RowsKept

LEMMA RestRows ==
  ASSUME Keeping, now' \in Nat,
         \/ \E l \in Lanes : \/ Tick(l) \/ BudgetSpent(l) \/ NothingRunnable(l) \/ Choose(l)
                             \/ TakeTurn(l) \/ Killed(l)
         \/ NewDay \/ QuotaProbeDue \/ GapOver \/ UNCHANGED vars
  PROVE  RowsKept'
  <1>1. /\ archive' = archive /\ filed' = filed /\ slowRuns' = slowRuns /\ orphans' = orphans
    <2>1. ASSUME NEW l \in Lanes, \/ Tick(l) \/ BudgetSpent(l) \/ TakeTurn(l) \/ Killed(l)
          PROVE  archive' = archive /\ filed' = filed /\ slowRuns' = slowRuns /\ orphans' = orphans
      BY <2>1 DEF Tick, BudgetSpent, TakeTurn, Killed
    <2>2. ASSUME NEW l \in Lanes, NothingRunnable(l) \/ Choose(l)
          PROVE  archive' = archive /\ filed' = filed /\ slowRuns' = slowRuns /\ orphans' = orphans
      BY <2>2, Zenon DEF NothingRunnable, Choose
    <2>3. CASE NewDay \/ QuotaProbeDue \/ GapOver \/ UNCHANGED vars
      BY <2>3 DEF NewDay, QuotaProbeDue, GapOver, vars
    <2> QED
      BY <2>1, <2>2, <2>3
  <1>2. now <= now'
    <2>1. now \in Nat
      BY DEF Keeping, IInv, LanesOK
    <2>2. ASSUME NEW l \in Lanes, \/ Tick(l) \/ BudgetSpent(l) \/ TakeTurn(l) \/ Killed(l)
          PROVE  now' = now
      BY <2>2 DEF Tick, BudgetSpent, TakeTurn, Killed
    <2>3. ASSUME NEW l \in Lanes, NothingRunnable(l) \/ Choose(l)
          PROVE  now' = now
      BY <2>3, Zenon DEF NothingRunnable, Choose
    <2>4. CASE NewDay \/ QuotaProbeDue \/ GapOver \/ UNCHANGED vars
      BY <2>1, <2>4 DEF NewDay, QuotaProbeDue, GapOver, vars
    <2> QED
      BY <2>1, <2>2, <2>3, <2>4
  <1>3. file'.runs = file.runs
    <2>1. ASSUME NEW l \in Lanes, NothingRunnable(l) \/ Choose(l) PROVE file'.runs = file.runs
      BY <2>1, ChooseRows
    <2>2. ASSUME NEW l \in Lanes, TakeTurn(l) PROVE file'.runs = file.runs
      BY <2>2, TurnRows
    <2>3. ASSUME NEW l \in Lanes, Tick(l) \/ BudgetSpent(l) \/ Killed(l)
          PROVE  file'.runs = file.runs
      BY <2>3 DEF Tick, BudgetSpent, Killed
    <2>4. CASE NewDay \/ QuotaProbeDue \/ GapOver \/ UNCHANGED vars
      BY <2>4 DEF NewDay, QuotaProbeDue, GapOver, vars, Keeping, IInv, FileOK, FreshState
    <2> QED
      BY <2>1, <2>2, <2>3, <2>4
  <1>4. RunsOf'
    <2>1. ASSUME NEW l \in Lanes, Choose(l) PROVE RunsOf'
      BY <2>1, ChosenPosition
    <2>2. ASSUME NEW l \in Lanes, TakeTurn(l) PROVE RunsOf'
      BY <2>2, TurnRows
    <2>3. ASSUME NEW l \in Lanes, Tick(l) PROVE RunsOf'
      <3> DEFINE r == [pc |-> "ticking", today |-> now, persona |-> 0]
      <3>1. lane' = [lane EXCEPT ![l] = r] /\ r.pc \notin {"turn", "running"}
        BY <2>3 DEF Tick
      <3> QED
        BY <3>1, RunsOfIdle
    <2>4. ASSUME NEW l \in Lanes, BudgetSpent(l) \/ NothingRunnable(l) \/ Killed(l) PROVE RunsOf'
      <3>1. lane' = [lane EXCEPT ![l] = Idle]
        BY <2>4 DEF BudgetSpent, NothingRunnable, Killed, Stopped
      <3> QED
        BY <3>1, RunsOfIdle DEF Idle
    <2>5. CASE NewDay \/ QuotaProbeDue \/ GapOver \/ UNCHANGED vars
      BY <2>5 DEF NewDay, QuotaProbeDue, GapOver, vars, Keeping, RowsKept, RunsOf
    <2> QED
      BY <2>1, <2>2, <2>3, <2>4, <2>5
  <1> QED
    BY <1>1, <1>2, <1>3, <1>4, RowsStay

LEMMA InitRows == Init => RowsKept
  <1> SUFFICES ASSUME Init PROVE RowsKept
    OBVIOUS
  <1>1. /\ file.runs = <<>> /\ archive = EmptyBag /\ filed = {} /\ slowRuns = 0
        /\ \A l \in Lanes : lane[l].pc = "idle"
    BY DEF Init, FreshState, Idle
  <1>2. DOMAIN archive = {} /\ archive = [r \in {} |-> 1]
    BY <1>1 DEF EmptyBag, SetToBag
  <1>3. RowsOK
    BY <1>1, <1>2 DEF RowsOK, ToSet
  <1>4. Distinct /\ KeptOnce /\ FiledKept /\ RunsOf
    BY <1>1, <1>2 DEF Distinct, KeptOnce, FiledKept, RunsOf
  <1> QED
    BY <1>3, <1>4 DEF RowsKept

LEMMA CountedOnce ==
  ASSUME Keeping
  PROVE  ScoreboardCountsOnce
  <1> SUFFICES ASSUME NEW r \in filed
               PROVE  /\ r.day + ARCHIVE_DAYS >= now => Copies(archive (+) ToBag(file.runs), r) >= 1
                      /\ r.run \notin orphans => Copies(archive (+) ToBag(file.runs), r) <= 1
    BY DEF ScoreboardCountsOnce
  <1> DEFINE ledger == ToBag(file.runs)
             both   == archive (+) ledger
  <1>1. /\ file.runs \in Seq(Row) /\ r \in Row /\ r.slow
        /\ archive \in [DOMAIN archive -> Nat \ {0}]
        /\ \A i, j \in DOMAIN file.runs :
             file.runs[i].slow /\ file.runs[i] = file.runs[j] => i = j
        /\ r.run \notin orphans /\ r \in DOMAIN archive
             => archive[r] = 1 /\ r \notin ToSet(file.runs)
        /\ r.day + ARCHIVE_DAYS >= now => r \in DOMAIN archive \cup ToSet(file.runs)
    BY DEF Keeping, RowsKept, RowsOK, Distinct, KeptOnce, FiledKept, IsYoung
  <1>2. /\ DOMAIN ledger = ToSet(file.runs)
        /\ r \in ToSet(file.runs) =>
             /\ ledger[r] \in Nat \ {0}
             /\ (\A i, j \in DOMAIN file.runs :
                   file.runs[i] = r /\ file.runs[j] = r => i = j) => ledger[r] = 1
    BY <1>1, BagOf
  <1>3. r \in ToSet(file.runs) => ledger[r] = 1
    BY <1>1, <1>2
  <1> HIDE DEF ledger
  <1>4. Copies(both, r) = (IF r \in DOMAIN archive THEN archive[r] ELSE 0)
                          + (IF r \in DOMAIN ledger THEN ledger[r] ELSE 0)
    BY <1>1, <1>2, <1>3 DEF Copies, (+)
  <1> HIDE DEF both
  <1>5. r.day + ARCHIVE_DAYS >= now => Copies(both, r) >= 1
    BY <1>1, <1>2, <1>3, <1>4
  <1>6. r.run \notin orphans => Copies(both, r) <= 1
    BY <1>1, <1>2, <1>3, <1>4
  <1> QED
    BY <1>5, <1>6 DEF both, ledger

(* What the scoreboard adds up, archive and ledger, has every young run of *)
(* a slow arm, and none of them twice, wherever the two lanes are stopped  *)
(* between archiving a row and saving the ledger without it.               *)
THEOREM CountsOnce == Spec => []ScoreboardCountsOnce
  <1>1. Keeping /\ IInv' /\ [Next]_vars => Keeping'
    <2> SUFFICES ASSUME Keeping, IInv', [Next]_vars PROVE RowsKept'
      BY DEF Keeping
    <2>1. now' \in Nat
      BY DEF IInv, LanesOK
    <2>2. ASSUME NEW l \in Lanes, Finish(l) PROVE RowsKept'
      BY <2>2, FinishRows
    <2>3. ASSUME NEW l \in Lanes, KilledSaving(l) PROVE RowsKept'
      BY <2>3, SavingRows
    <2>4. ASSUME NEW l \in Lanes, KilledArchiving(l) PROVE RowsKept'
      BY <2>4, ArchivingRows
    <2> QED
      BY <2>1, <2>2, <2>3, <2>4, RestRows DEF Next
  <1>2. Init => Keeping
    BY InitRows, InitIInv DEF Keeping
  <1>3. Keeping => ScoreboardCountsOnce
    BY CountedOnce
  <1> QED
    BY <1>1, <1>2, <1>3, RoomForRunsInFlight, PTL DEF Spec

-----------------------------------------------------------------------------
(* One run: what it writes in its row of the ledger.                       *)

IsSeq(s) == \E S : s \in Seq(S)

LEMMA AppendIs ==
  ASSUME NEW s, IsSeq(s), NEW x
  PROVE  /\ IsSeq(Append(s, x)) /\ Len(s) \in Nat /\ DOMAIN s = 1 .. Len(s)
         /\ Len(Append(s, x)) = Len(s) + 1 /\ DOMAIN Append(s, x) = 1 .. Len(s) + 1
         /\ \A i \in 1 .. Len(s) : Append(s, x)[i] = s[i]
         /\ Append(s, x)[Len(s) + 1] = x
  <1>1. PICK S : s \in Seq(S)
    BY DEF IsSeq
  <1> DEFINE T == S \cup {x}
  <1>2. s \in Seq(T) /\ x \in T
    BY <1>1
  <1> HIDE DEF T
  <1>3. /\ Append(s, x) \in Seq(T) /\ Len(Append(s, x)) = Len(s) + 1
        /\ \A i \in 1 .. Len(s) : Append(s, x)[i] = s[i]
        /\ Append(s, x)[Len(s) + 1] = x
    BY <1>2, AppendProperties
  <1>4. IsSeq(Append(s, x))
    BY <1>3 DEF IsSeq
  <1> QED
    BY <1>2, <1>3, <1>4

LEMMA ExceptIs ==
  ASSUME NEW s, IsSeq(s), NEW x, NEW k \in 1 .. Len(s)
  PROVE  /\ IsSeq([s EXCEPT ![k] = x]) /\ Len(s) \in Nat /\ DOMAIN s = 1 .. Len(s)
         /\ Len([s EXCEPT ![k] = x]) = Len(s) /\ DOMAIN [s EXCEPT ![k] = x] = 1 .. Len(s)
         /\ \A i \in 1 .. Len(s) : [s EXCEPT ![k] = x][i] = IF i = k THEN x ELSE s[i]
  <1>1. PICK S : s \in Seq(S)
    BY DEF IsSeq
  <1> DEFINE T == S \cup {x}
             t == [s EXCEPT ![k] = x]
  <1>2. s \in Seq(T) /\ x \in T
    BY <1>1
  <1>3. \A i \in 1 .. Len(s) : t[i] = IF i = k THEN x ELSE s[i]
    BY <1>2
  <1> HIDE DEF T
  <1>4. t \in Seq(T) /\ Len(t) = Len(s)
    BY <1>2, ExceptSeq
  <1> HIDE DEF t
  <1>5. IsSeq(t)
    BY <1>4 DEF IsSeq
  <1> QED
    BY <1>2, <1>3, <1>4, <1>5 DEF t

(* The failures of a row and the outcomes told, as lists: one outcome for  *)
(* every failure that was tried again, in their order.                     *)
TellsOf(o, f) == /\ o.op = f.op /\ o.action = f.action /\ o.ok = f.recovered
                 /\ f.attempts = 2 /\ ~f.skipped

Telling(F, O) ==
  /\ IsSeq(F) /\ IsSeq(O)
  /\ \A j \in 1 .. Len(O) :
       O[j].of \in 1 .. Len(F) /\ F[O[j].of].action # None /\ TellsOf(O[j], F[O[j].of])
  /\ \A i \in 1 .. Len(F) : F[i].action # None => \E j \in 1 .. Len(O) : O[j].of = i
  /\ \A j, k \in 1 .. Len(O) : j < k => O[j].of < O[k].of

LEMMA RowMeans ==
  ASSUME Telling(failures, outcomes)
  PROVE  OutcomesMatchLedger
  <1>1. DOMAIN failures = 1 .. Len(failures) /\ DOMAIN outcomes = 1 .. Len(outcomes)
    BY AppendIs DEF Telling
  <1>2. {o.of : o \in ToSet(outcomes)} = {i \in DOMAIN failures : failures[i].action # None}
    <2>1. ASSUME NEW i \in DOMAIN failures, failures[i].action # None
          PROVE  i \in {o.of : o \in ToSet(outcomes)}
      BY <1>1, <2>1 DEF Telling, ToSet
    <2>2. ASSUME NEW o \in ToSet(outcomes)
          PROVE  o.of \in {i \in DOMAIN failures : failures[i].action # None}
      BY <1>1 DEF Telling, ToSet
    <2> QED
      BY <2>1, <2>2
  <1>3. \A o \in ToSet(outcomes) : TellsOf(o, failures[o.of])
    BY <1>1 DEF Telling, ToSet
  <1>4. \A j, k \in DOMAIN outcomes : j < k => outcomes[j].of < outcomes[k].of
    BY <1>1 DEF Telling
  <1> QED
    BY <1>2, <1>3, <1>4 DEF OutcomesMatchLedger, TellsOf

\* A failure that is not tried again: it was just met, or it is the last.
LEMMA RowNotTried ==
  ASSUME NEW F, NEW O, Telling(F, O), NEW rec, rec.action = None
  PROVE  /\ Telling(Append(F, rec), O)
         /\ Len(F) >= 1 /\ F[Len(F)].action = None => Telling([F EXCEPT ![Len(F)] = rec], O)
  <1>1. IsSeq(F) /\ IsSeq(O) /\ Len(F) \in Nat /\ Len(O) \in Nat
    BY AppendIs DEF Telling
  <1>2. Telling(Append(F, rec), O)
    <2> DEFINE G == Append(F, rec)
    <2>1. /\ IsSeq(G) /\ Len(G) = Len(F) + 1 /\ G[Len(F) + 1] = rec
          /\ \A i \in 1 .. Len(F) : G[i] = F[i]
      BY <1>1, AppendIs
    <2> HIDE DEF G
    <2>2. ASSUME NEW j \in 1 .. Len(O)
          PROVE  O[j].of \in 1 .. Len(G) /\ G[O[j].of].action # None /\ TellsOf(O[j], G[O[j].of])
      <3>1. O[j].of \in 1 .. Len(F) /\ F[O[j].of].action # None /\ TellsOf(O[j], F[O[j].of])
        BY DEF Telling
      <3>2. G[O[j].of] = F[O[j].of] /\ O[j].of \in 1 .. Len(G)
        BY <1>1, <2>1, <3>1
      <3> QED
        BY <3>1, <3>2
    <2>3. ASSUME NEW i \in 1 .. Len(G), G[i].action # None
          PROVE  \E j \in 1 .. Len(O) : O[j].of = i
      <3>1. i # Len(F) + 1
        BY <2>1, <2>3
      <3>2. i \in 1 .. Len(F) /\ G[i] = F[i]
        BY <1>1, <2>1, <3>1
      <3> QED
        BY <2>3, <3>2 DEF Telling
    <2>4. \A j, k \in 1 .. Len(O) : j < k => O[j].of < O[k].of
      BY DEF Telling
    <2>5. IsSeq(O)
      BY <1>1
    <2>6. Telling(G, O)
      BY <2>1, <2>2, <2>3, <2>4, <2>5 DEF Telling
    <2> QED
      BY <2>6 DEF G
  <1>3. ASSUME Len(F) >= 1, F[Len(F)].action = None
        PROVE  Telling([F EXCEPT ![Len(F)] = rec], O)
    <2> DEFINE G == [F EXCEPT ![Len(F)] = rec]
    <2>1. Len(F) \in 1 .. Len(F)
      BY <1>1, <1>3
    <2>2. /\ IsSeq(G) /\ Len(G) = Len(F)
          /\ \A i \in 1 .. Len(F) : G[i] = IF i = Len(F) THEN rec ELSE F[i]
      BY <1>1, <2>1, ExceptIs
    <2> HIDE DEF G
    <2> QED
      BY <1>1, <1>3, <2>1, <2>2 DEF Telling, TellsOf, G
  <1> QED
    BY <1>2, <1>3

\* A failure that was tried again, and the outcome told of it.
LEMMA RowTried ==
  ASSUME NEW F, NEW O, Telling(F, O), NEW rec, rec.action # None, rec.attempts = 2, ~rec.skipped,
         NEW told, TellsOf(told, rec)
  PROVE  /\ told.of = Len(F) + 1 => Telling(Append(F, rec), Append(O, told))
         /\ Len(F) >= 1 /\ F[Len(F)].action = None /\ told.of = Len(F)
            => Telling([F EXCEPT ![Len(F)] = rec], Append(O, told))
  <1> DEFINE P == Append(O, told)
  <1>1. IsSeq(F) /\ IsSeq(O) /\ Len(F) \in Nat /\ Len(O) \in Nat
    BY AppendIs DEF Telling
  <1>2. /\ IsSeq(P) /\ Len(P) = Len(O) + 1 /\ P[Len(O) + 1] = told
        /\ \A j \in 1 .. Len(O) : P[j] = O[j]
    BY <1>1, AppendIs
  <1> HIDE DEF P
  <1>3. /\ \A j \in 1 .. Len(O) :
             O[j].of \in 1 .. Len(F) /\ F[O[j].of].action # None /\ TellsOf(O[j], F[O[j].of])
        /\ \A i \in 1 .. Len(F) : F[i].action # None => \E j \in 1 .. Len(O) : O[j].of = i
        /\ \A j, k \in 1 .. Len(O) : j < k => O[j].of < O[k].of
    BY DEF Telling
  <1>4. ASSUME told.of = Len(F) + 1 PROVE Telling(Append(F, rec), P)
    <2> DEFINE G == Append(F, rec)
    <2>1. /\ IsSeq(G) /\ Len(G) = Len(F) + 1 /\ G[Len(F) + 1] = rec
          /\ \A i \in 1 .. Len(F) : G[i] = F[i]
      BY <1>1, AppendIs
    <2> HIDE DEF G
    <2>2. \A j \in 1 .. Len(P) :
            P[j].of \in 1 .. Len(G) /\ G[P[j].of].action # None /\ TellsOf(P[j], G[P[j].of])
      BY <1>1, <1>2, <1>3, <1>4, <2>1
    <2>3. \A i \in 1 .. Len(G) : G[i].action # None => \E j \in 1 .. Len(P) : P[j].of = i
      <3> SUFFICES ASSUME NEW i \in 1 .. Len(G), G[i].action # None
                   PROVE  \E j \in 1 .. Len(P) : P[j].of = i
        OBVIOUS
      <3>1. CASE i = Len(F) + 1
        <4>1. Len(O) + 1 \in 1 .. Len(P) /\ P[Len(O) + 1].of = i
          BY <1>1, <1>2, <1>4, <3>1
        <4> QED
          BY <4>1
      <3>2. CASE i # Len(F) + 1
        <4>1. i \in 1 .. Len(F) /\ F[i].action # None
          BY <1>1, <2>1, <3>2
        <4>2. PICK j \in 1 .. Len(O) : O[j].of = i
          BY <1>3, <4>1
        <4>3. j \in 1 .. Len(P) /\ P[j].of = i
          BY <1>1, <1>2, <4>2
        <4> QED
          BY <4>3
      <3> QED
        BY <3>1, <3>2
    <2>4. \A j, k \in 1 .. Len(P) : j < k => P[j].of < P[k].of
      BY <1>1, <1>2, <1>3, <1>4
    <2> QED
      BY <1>2, <2>1, <2>2, <2>3, <2>4 DEF Telling, G
  <1>5. ASSUME Len(F) >= 1, F[Len(F)].action = None, told.of = Len(F)
        PROVE  Telling([F EXCEPT ![Len(F)] = rec], P)
    <2> DEFINE G == [F EXCEPT ![Len(F)] = rec]
    <2>1. Len(F) \in 1 .. Len(F)
      BY <1>1, <1>5
    <2>2. /\ IsSeq(G) /\ Len(G) = Len(F)
          /\ \A i \in 1 .. Len(F) : G[i] = IF i = Len(F) THEN rec ELSE F[i]
      BY <1>1, <2>1, ExceptIs
    <2> HIDE DEF G
    <2>3. \A j \in 1 .. Len(O) : O[j].of < Len(F)
      BY <1>1, <1>3, <1>5
    <2>4. \A j \in 1 .. Len(P) :
            P[j].of \in 1 .. Len(G) /\ G[P[j].of].action # None /\ TellsOf(P[j], G[P[j].of])
      BY <1>1, <1>2, <1>3, <1>5, <2>1, <2>2, <2>3
    <2>5. \A i \in 1 .. Len(G) : G[i].action # None => \E j \in 1 .. Len(P) : P[j].of = i
      BY <1>1, <1>2, <1>3, <1>5, <2>2
    <2>6. \A j, k \in 1 .. Len(P) : j < k => P[j].of < P[k].of
      BY <1>1, <1>2, <1>3, <1>5, <2>3
    <2> QED
      BY <1>2, <2>2, <2>4, <2>5, <2>6 DEF Telling, G
  <1> QED
    BY <1>4, <1>5 DEF P

-----------------------------------------------------------------------------
(* The inductive invariant of a run.                                       *)

\* A provider is recovered of the failure that its loop has just written down.
Waiting ==
  pc = "recover" =>
    /\ persona.path # "builder"
    /\ Len(failures) >= 1 /\ failures[Len(failures)] = Rec("chat")
    /\ failure.quota => walls # {}
    /\ failure.quota \in BOOLEAN

\* The failures of the provider are got past, but for the last.
Served ==
  /\ answer = "failed" => pc = "done"
  /\ AnsweredMeansServed

Marks ==
  /\ provider_dead_today \in BOOLEAN
  /\ DeadMeansWalled
  /\ persona.path # "builder" /\ pc # "done" => ~provider_dead_today
  /\ persona.path = "builder" => tried \subseteq walls

\* What one answer may have cost, at each point of the loop.
Cost ==
  /\ model_calls = chats /\ chats \in Nat /\ turn \in Nat
  /\ pc # "done" => turn < Turns
  /\ persona.path # "builder" =>
       /\ pc = "chat" => chats <= 2 * turn
       /\ pc = "recover" => chats <= 2 * turn + 1
       /\ pc = "tools" => chats <= 2 * (turn + 1)
       /\ pc = "done" => chats <= 2 * Turns
  /\ persona.path = "builder" =>
       /\ attempt \in 0 .. 3
       /\ pc = "chat" => chats <= 4 * turn + attempt
       /\ pc = "tools" => attempt = 0 /\ chats <= 4 * (turn + 1)
       /\ pc = "done" => chats <= 4 * Turns

RunInv ==
  /\ pc \in {"chat", "recover", "tools", "done"}
  /\ Telling(failures, outcomes)
  /\ Waiting /\ Served /\ Marks /\ Cost

LEMMA RunInvMeans ==
  ASSUME RunInv
  PROVE  DeadMeansWalled /\ LedgerTruthful
  <1>1. OutcomesMatchLedger
    BY RowMeans DEF RunInv
  <1>2. CostBounded
    <2>1. Turns \in Nat /\ Cost /\ pc \in {"chat", "recover", "tools", "done"}
          /\ (pc = "recover" => persona.path # "builder")
      BY RunBoundsAssumption DEF RunInv, Waiting
    <2>2. CASE persona.path = "builder"
      <3>1. chats <= 4 * Turns
        BY <2>1, <2>2 DEF Cost
      <3> QED
        BY <2>1, <2>2, <3>1 DEF Cost, CostBounded
    <2>3. CASE persona.path # "builder"
      <3>1. chats <= 2 * Turns
        BY <2>1, <2>3 DEF Cost
      <3> QED
        BY <2>1, <2>3, <3>1 DEF Cost, CostBounded
    <2> QED
      BY <2>2, <2>3
  <1> QED
    BY <1>1, <1>2 DEF RunInv, Served, Marks, LedgerTruthful

LEMMA RunInvInit == RunInit => RunInv
  <1> SUFFICES ASSUME RunInit PROVE RunInv
    OBVIOUS
  <1>1. /\ failures = <<>> /\ outcomes = <<>> /\ answer = None /\ chats = 0 /\ model_calls = 0
        /\ turn = 0 /\ attempt = 0 /\ provider_dead_today = FALSE /\ tried = {} /\ walls = {}
        /\ pc \in {"tools", "chat"}
    BY DEF RunInit
  <1>2. Telling(failures, outcomes)
    BY <1>1 DEF Telling, IsSeq
  <1>3. Served
    BY <1>1, NoneAssumption DEF Served, AnsweredMeansServed
  <1>4. Marks
    BY <1>1 DEF Marks, DeadMeansWalled
  <1>5. Cost
    BY <1>1, RunBoundsAssumption DEF Cost
  <1> QED
    BY <1>1, <1>2, <1>3, <1>4, <1>5 DEF RunInv, Waiting

\* A failure is written down after those that were got past.
LEMMA ServedKept ==
  ASSUME IsSeq(failures), Served, pc # "recover", pc # "done", NEW rec,
         \/ failures' = failures
         \/ /\ failures' = Append(failures, rec)
            /\ rec.op = "chat" /\ ~rec.recovered => pc' = "recover" \/ answer' = "failed"
  PROVE  AnsweredMeansServed'
  <1>1. Len(failures) \in Nat /\ \A i \in 1 .. Len(failures) :
          ~(failures[i].op = "chat" /\ ~failures[i].recovered)
    BY AppendIs DEF Served, AnsweredMeansServed
  <1>2. CASE failures' = failures
    BY <1>1, <1>2 DEF AnsweredMeansServed
  <1>3. CASE failures' # failures
    <2>1. /\ Len(failures') = Len(failures) + 1 /\ failures'[Len(failures) + 1] = rec
          /\ \A i \in 1 .. Len(failures) : failures'[i] = failures[i]
      BY <1>3, AppendIs
    <2>2. ASSUME NEW i \in 1 .. Len(failures'), failures'[i].op = "chat", ~failures'[i].recovered
          PROVE  i = Len(failures') /\ failures'[i] = rec
      BY <1>1, <2>1, <2>2
    <2> QED
      BY <1>3, <2>2 DEF AnsweredMeansServed
  <1> QED
    BY <1>2, <1>3

\* The last failure is got past, or the run ends there.
LEMMA ServedLast ==
  ASSUME IsSeq(failures), AnsweredMeansServed, Len(failures) >= 1, NEW rec,
         \/ failures' = failures /\ answer' = "failed"
         \/ failures' = Amended(rec) /\ (rec.recovered \/ answer' = "failed")
  PROVE  AnsweredMeansServed'
  <1>1. Len(failures) \in Nat /\ \A i \in 1 .. Len(failures) :
          failures[i].op = "chat" /\ ~failures[i].recovered => i = Len(failures)
    BY AppendIs DEF AnsweredMeansServed
  <1>2. CASE failures' = failures /\ answer' = "failed"
    BY <1>1, <1>2 DEF AnsweredMeansServed
  <1>3. CASE failures' = Amended(rec) /\ (rec.recovered \/ answer' = "failed")
    <2>1. Len(failures) \in 1 .. Len(failures)
      BY <1>1
    <2>2. /\ Len(failures') = Len(failures)
          /\ \A i \in 1 .. Len(failures) :
               failures'[i] = IF i = Len(failures) THEN rec ELSE failures[i]
      BY <1>3, <2>1, ExceptIs DEF Amended
    <2> QED
      BY <1>1, <1>3, <2>2 DEF AnsweredMeansServed
  <1> QED
    BY <1>2, <1>3

\* The model is asked, and answers or fails.
LEMMA ChatStep == RunInv /\ Chat => RunInv'
  <1> SUFFICES ASSUME RunInv, Chat PROVE RunInv'
    OBVIOUS
  <1>1. /\ pc = "chat" /\ persona.path # "builder" /\ persona' = persona
        /\ model_calls' = model_calls + 1 /\ chats' = chats + 1 /\ attempt' = attempt
        /\ outcomes' = outcomes /\ tried' = tried /\ provider_dead_today' = provider_dead_today
    BY DEF Chat, skips
  <1>2. /\ Telling(failures, outcomes) /\ IsSeq(failures) /\ Served /\ Marks /\ Cost
        /\ Len(failures) \in Nat /\ answer # "failed" /\ ~provider_dead_today
        /\ chats <= 2 * turn /\ turn \in Nat /\ chats \in Nat /\ turn < Turns /\ Turns \in Nat
    BY <1>1, AppendIs, RunBoundsAssumption DEF RunInv, Telling, Served, Marks, Cost
  <1>3. CASE Answered /\ UNCHANGED <<failure, failures, consecutive, walls>>
    <2>1. failures' = failures /\ walls' = walls /\ pc' \in {"done", "tools"} /\ turn' = turn
          /\ answer' # "failed"
      BY <1>2, <1>3 DEF Answered
    <2>2. Served'
      BY <1>1, <1>2, <2>1, ServedKept DEF Served
    <2>3. Marks'
      BY <1>1, <1>2, <2>1 DEF Marks, DeadMeansWalled
    <2>4. Cost'
      BY <1>1, <1>2, <2>1 DEF Cost
    <2> QED
      BY <1>1, <1>2, <2>1, <2>2, <2>3, <2>4 DEF RunInv, Waiting
  <1>4. CASE \E e \in Exceptions :
               /\ pc' = "recover" /\ failure' = e
               /\ consecutive' = [consecutive EXCEPT ![model] = @ + 1]
               /\ failures' = Append(failures, Rec("chat"))
               /\ Meet(e.quota)
               /\ UNCHANGED <<turn, wanted, answer>>
    <2>1. PICK e \in Exceptions :
               /\ pc' = "recover" /\ failure' = e
               /\ failures' = Append(failures, Rec("chat"))
               /\ Meet(e.quota)
               /\ turn' = turn /\ answer' = answer
      BY <1>4
    <2>2. e.quota \in BOOLEAN
      BY ExceptionsAssumption
    <2>3. walls \subseteq walls' /\ (e.quota => walls' # {})
      BY <2>1 DEF Meet
    <2>4. Rec("chat").action = None /\ Rec("chat").op = "chat"
      BY DEF Rec
    <2>5. Telling(failures', outcomes')
      BY <1>1, <1>2, <2>1, <2>4, RowNotTried
    <2>6. Len(failures') = Len(failures) + 1 /\ failures'[Len(failures')] = Rec("chat")
      BY <1>2, <2>1, AppendIs
    <2>7. Waiting'
      BY <1>1, <1>2, <2>1, <2>2, <2>3, <2>6 DEF Waiting, Rec
    <2>8. Served'
      <3>1. AnsweredMeansServed'
        BY <1>1, <1>2, <2>1, ServedKept
      <3> QED
        BY <1>2, <2>1, <3>1 DEF Served
    <2>9. Marks'
      BY <1>1, <1>2, <2>1 DEF Marks, DeadMeansWalled
    <2>10. Cost'
      BY <1>1, <1>2, <2>1 DEF Cost
    <2> QED
      BY <2>1, <2>5, <2>7, <2>8, <2>9, <2>10 DEF RunInv
  <1> QED
    BY <1>3, <1>4 DEF Chat

\* What is known of a run whose provider has failed.
LEMMA InRecovery ==
  ASSUME RunInv, pc = "recover"
  PROVE  /\ Telling(failures, outcomes) /\ IsSeq(failures) /\ AnsweredMeansServed
         /\ Len(failures) \in Nat /\ Len(failures) >= 1 /\ Last(failures) = Rec("chat")
         /\ failures[Len(failures)].action = None
         /\ persona.path # "builder" /\ answer # "failed" /\ provider_dead_today = FALSE
         /\ failure.quota \in BOOLEAN /\ (failure.quota => walls # {})
         /\ model_calls = chats /\ chats \in Nat /\ turn \in Nat
         /\ chats <= 2 * turn + 1 /\ turn < Turns /\ Turns \in Nat
  BY AppendIs, RunBoundsAssumption
     DEF RunInv, Telling, Waiting, Served, Marks, Cost, Last, Rec

\* The run ends on its provider: nothing is told of the failure.
LEMMA GivenUpStep == RunInv /\ (SkipProvider \/ NothingRetryable \/ NothingToSwitchTo) => RunInv'
  <1> SUFFICES ASSUME RunInv, SkipProvider \/ NothingRetryable \/ NothingToSwitchTo
               PROVE  RunInv'
    OBVIOUS
  <1> DEFINE rec == [Last(failures) EXCEPT !.skipped = TRUE]
  <1>1. /\ pc = "recover" /\ ProviderFailed
        /\ failures' = failures \/ failures' = Amended(rec)
        /\ model_calls' = model_calls /\ chats' = chats /\ walls' = walls /\ outcomes' = outcomes
    BY DEF SkipProvider, NothingRetryable, NothingToSwitchTo
  <1>2. \/ provider_dead_today' = provider_dead_today
        \/ provider_dead_today' = (provider_dead_today \/ failure.quota)
    BY Zenon DEF SkipProvider, NothingRetryable, NothingToSwitchTo
  <1>3. /\ pc' = "done" /\ answer' = "failed" /\ turn' = turn /\ persona' = persona
        /\ attempt' = attempt /\ tried' = tried
    BY <1>1 DEF ProviderFailed, Stop
  <1>4. /\ Telling(failures, outcomes) /\ IsSeq(failures) /\ AnsweredMeansServed
        /\ Len(failures) \in Nat /\ Len(failures) >= 1 /\ Last(failures) = Rec("chat")
        /\ failures[Len(failures)].action = None
        /\ persona.path # "builder" /\ provider_dead_today = FALSE
        /\ failure.quota \in BOOLEAN /\ (failure.quota => walls # {})
        /\ model_calls = chats /\ chats \in Nat /\ turn \in Nat
        /\ chats <= 2 * turn + 1 /\ turn < Turns /\ Turns \in Nat
    BY <1>1, InRecovery
  <1>5. Telling(failures', outcomes')
    <2>1. rec.action = None
      BY <1>4 DEF Rec
    <2> HIDE DEF rec
    <2> QED
      BY <1>1, <1>4, <2>1, RowNotTried DEF Amended
  <1>6. Served'
    <2> HIDE DEF rec
    <2>1. AnsweredMeansServed'
      BY <1>1, <1>3, <1>4, ServedLast
    <2> QED
      BY <1>3, <2>1 DEF Served
  <1>7. Marks'
    <2>1. provider_dead_today' \in BOOLEAN /\ (provider_dead_today' => walls' # {})
      BY <1>1, <1>2, <1>4
    <2> QED
      BY <1>3, <1>4, <2>1 DEF Marks, DeadMeansWalled
  <1>8. Cost'
    <2>1. chats' <= 2 * Turns
      BY <1>1, <1>4
    <2> QED
      BY <1>1, <1>3, <1>4, <2>1 DEF Cost
  <1> QED
    BY <1>3, <1>5, <1>6, <1>7, <1>8 DEF RunInv, Waiting

\* The second attempt: one outcome is told of the failure it was made for.
LEMMA RetryStep == RunInv /\ RetryProvider => RunInv'
  <1> SUFFICES ASSUME RunInv, RetryProvider PROVE RunInv'
    OBVIOUS
  <1>1. PICK action :
          /\ pc = "recover" /\ action # None
          /\ Recovered(action) \/ \E again \in Exceptions : FailedAgain(action, again)
          /\ model_calls' = model_calls + 1 /\ chats' = chats + 1
    BY Zenon DEF RetryProvider
  <1>2. /\ Telling(failures, outcomes) /\ IsSeq(failures) /\ AnsweredMeansServed
        /\ Len(failures) \in Nat /\ Len(failures) >= 1 /\ Last(failures) = Rec("chat")
        /\ failures[Len(failures)].action = None
        /\ persona.path # "builder" /\ answer # "failed" /\ provider_dead_today = FALSE
        /\ failure.quota \in BOOLEAN /\ (failure.quota => walls # {})
        /\ model_calls = chats /\ chats \in Nat /\ turn \in Nat
        /\ chats <= 2 * turn + 1 /\ turn < Turns /\ Turns \in Nat
    BY <1>1, InRecovery
  <1>3. ASSUME NEW ok \in BOOLEAN, NEW rec, failures' = Amended(rec), Told("chat", action, ok),
               rec.op = "chat", rec.action = action, rec.attempts = 2, rec.recovered = ok,
               ~rec.skipped
        PROVE  /\ Telling(failures', outcomes')
               /\ ok \/ answer' = "failed" => AnsweredMeansServed'
    <2> DEFINE told == [of |-> Len(failures), op |-> "chat", action |-> action, ok |-> ok]
    <2>1. TellsOf(told, rec) /\ rec.action # None /\ told.of = Len(failures)
      BY <1>1, <1>3 DEF TellsOf
    <2>2. failures' = [failures EXCEPT ![Len(failures)] = rec]
      BY <1>3 DEF Amended
    <2>3. Len(failures') = Len(failures)
      <3>1. Len(failures) \in 1 .. Len(failures)
        BY <1>2
      <3> QED
        BY <1>2, <2>2, <3>1, ExceptIs
    <2>4. outcomes' = Append(outcomes, told)
      BY <1>3, <2>3 DEF Told
    <2> HIDE DEF told
    <2>5. Telling(failures', outcomes')
      <3>1. Telling([failures EXCEPT ![Len(failures)] = rec], Append(outcomes, told))
        BY <1>2, <1>3, <2>1, RowTried
      <3> QED
        BY <2>2, <2>4, <3>1
    <2>6. ok \/ answer' = "failed" => AnsweredMeansServed'
      BY <1>2, <1>3, ServedLast
    <2> QED
      BY <2>5, <2>6
  <1>4. CASE Recovered(action)
    <2>1. /\ failures' = Amended([Last(failures) EXCEPT !.action = action, !.attempts = @ + 1,
                                                        !.recovered = TRUE])
          /\ Told("chat", action, TRUE)
          /\ Answered
          /\ persona' = persona /\ attempt' = attempt /\ tried' = tried
          /\ provider_dead_today' = provider_dead_today /\ walls' = walls
      BY <1>4 DEF Recovered
    <2>3. /\ pc' \in {"done", "tools"} /\ turn' = turn /\ answer' # "failed"
      BY <1>2, <2>1 DEF Answered
    <2>4. Telling(failures', outcomes') /\ AnsweredMeansServed'
      <3> DEFINE last == Last(failures)
                 rec == [last EXCEPT !.action = action, !.attempts = @ + 1,
                                     !.recovered = TRUE]
      <3>0. last = Rec("chat")
        BY <1>2
      <3> HIDE DEF last
      <3>1. /\ rec.op = "chat" /\ rec.action = action /\ rec.attempts = 2
            /\ rec.recovered = TRUE /\ ~rec.skipped
        BY ONLY <3>0 DEF Rec
      <3>2. failures' = Amended(rec)
        BY <2>1 DEF last
      <3> HIDE DEF rec
      <3> QED
        BY <1>3, <2>1, <3>1, <3>2
    <2>5. Marks'
      BY <1>2, <2>1, <2>3 DEF Marks, DeadMeansWalled
    <2>6. Cost'
      <3>1. chats' <= 2 * Turns /\ chats' <= 2 * (turn + 1) /\ chats' \in Nat
        BY <1>1, <1>2
      <3> QED
        BY <1>1, <1>2, <2>1, <2>3, <3>1 DEF Cost
    <2> QED
      BY <2>3, <2>4, <2>5, <2>6 DEF RunInv, Waiting, Served
  <1>5. ASSUME NEW again \in Exceptions, FailedAgain(action, again) PROVE RunInv'
    <2>1. /\ failures' = Amended([Last(failures) EXCEPT !.action = action, !.attempts = @ + 1])
          /\ Told("chat", action, FALSE)
          /\ walls' = walls \cup (IF again.quota THEN {model'} ELSE {})
          /\ ProviderFailed
      BY <1>5 DEF FailedAgain
    <2>2. provider_dead_today' = \/ provider_dead_today
                                 \/ action = "switch_model" /\ (failure.quota \/ again.quota)
      BY <1>5, Zenon DEF FailedAgain
    <2>4. /\ pc' = "done" /\ answer' = "failed" /\ turn' = turn /\ persona' = persona
          /\ attempt' = attempt /\ tried' = tried
      BY <2>1 DEF ProviderFailed, Stop
    <2>5. Telling(failures', outcomes') /\ AnsweredMeansServed'
      <3> DEFINE last == Last(failures)
                 rec == [last EXCEPT !.action = action, !.attempts = @ + 1]
      <3>0. last = Rec("chat")
        BY <1>2
      <3> HIDE DEF last
      <3>1. /\ rec.op = "chat" /\ rec.action = action /\ rec.attempts = 2
            /\ rec.recovered = FALSE /\ ~rec.skipped
        BY ONLY <3>0 DEF Rec
      <3>2. failures' = Amended(rec)
        BY <2>1 DEF last
      <3> HIDE DEF rec
      <3> QED
        BY <1>3, <2>1, <2>4, <3>1, <3>2
    <2>6. again.quota \in BOOLEAN
      BY ExceptionsAssumption
    <2>7. provider_dead_today' \in BOOLEAN /\ (provider_dead_today' => walls' # {})
      BY <1>2, <2>1, <2>2, <2>6
    <2>8. Marks'
      BY <1>2, <2>4, <2>7 DEF Marks, DeadMeansWalled
    <2>9. Cost'
      BY <1>1, <1>2, <2>4 DEF Cost
    <2> QED
      BY <2>4, <2>5, <2>8, <2>9 DEF RunInv, Waiting, Served
  <1> QED
    BY <1>1, <1>4, <1>5

\* What is known of a builder that asks its model.
LEMMA InBuilder ==
  ASSUME RunInv, pc = "chat", persona.path = "builder"
  PROVE  /\ Telling(failures, outcomes) /\ IsSeq(failures) /\ Served
         /\ answer # "failed" /\ tried \subseteq walls
         /\ provider_dead_today \in BOOLEAN /\ DeadMeansWalled
         /\ model_calls = chats /\ chats \in Nat /\ turn \in Nat /\ attempt \in 0 .. 3
         /\ chats <= 4 * turn + attempt /\ turn < Turns /\ Turns \in Nat
  BY RunBoundsAssumption DEF RunInv, Telling, Served, Marks, Cost

LEMMA BuilderChatStep == RunInv /\ BuilderChat => RunInv'
  <1> SUFFICES ASSUME RunInv, BuilderChat PROVE RunInv'
    OBVIOUS
  <1>1. /\ pc = "chat" /\ persona.path = "builder" /\ persona' = persona /\ attempt' = 0
        /\ model_calls' = model_calls + 1 /\ chats' = chats + 1 /\ failures' = failures
        /\ outcomes' = outcomes /\ tried' = tried /\ walls' = walls
        /\ provider_dead_today' = provider_dead_today
    BY DEF BuilderChat, request
  <1>2. /\ pc' \in {"done", "tools"} /\ turn' = turn
        /\ answer' = answer \/ answer' = "answered"
    BY DEF BuilderChat, Answered
  <1>3. /\ Telling(failures, outcomes) /\ IsSeq(failures) /\ Served
        /\ answer # "failed" /\ tried \subseteq walls
        /\ provider_dead_today \in BOOLEAN /\ DeadMeansWalled
        /\ model_calls = chats /\ chats \in Nat /\ turn \in Nat /\ attempt \in 0 .. 3
        /\ chats <= 4 * turn + attempt /\ turn < Turns /\ Turns \in Nat
    BY <1>1, InBuilder
  <1>4. Served'
    <2>1. AnsweredMeansServed'
      BY <1>1, <1>3, ServedKept
    <2> QED
      BY <1>2, <1>3, <2>1 DEF Served
  <1>5. Marks'
    BY <1>1, <1>3 DEF Marks, DeadMeansWalled, alt_models
  <1>6. Cost'
    <2>1. chats' <= 4 * (turn + 1) /\ chats' <= 4 * Turns
      BY <1>1, <1>3
    <2> QED
      BY <1>1, <1>2, <1>3, <2>1 DEF Cost
  <1> QED
    BY <1>1, <1>2, <1>3, <1>4, <1>5, <1>6 DEF RunInv, Waiting

\* Waiting out a minute, or leaving a model for the day.
LEMMA BuilderLimitedStep == RunInv /\ BuilderLimited => RunInv'
  <1> SUFFICES ASSUME RunInv, BuilderLimited PROVE RunInv'
    OBVIOUS
  <1>1. /\ pc = "chat" /\ pc' = pc /\ persona.path = "builder" /\ persona' = persona
        /\ attempt < 3 /\ attempt' = attempt + 1 /\ turn' = turn /\ answer' = answer
        /\ model_calls' = model_calls + 1 /\ chats' = chats + 1 /\ failures' = failures
        /\ outcomes' = outcomes
    BY DEF BuilderLimited
  <1>2. PICK e \in Exceptions :
          /\ Meet(e.quota)
          /\ tried' = IF e.quota THEN tried \cup {model} ELSE tried
          /\ provider_dead_today' = (provider_dead_today \/ (e.quota /\ Untried = {}))
    BY Zenon DEF BuilderLimited
  <1>3. /\ Telling(failures, outcomes) /\ IsSeq(failures) /\ Served
        /\ answer # "failed" /\ tried \subseteq walls
        /\ provider_dead_today \in BOOLEAN /\ DeadMeansWalled
        /\ model_calls = chats /\ chats \in Nat /\ turn \in Nat /\ attempt \in 0 .. 3
        /\ chats <= 4 * turn + attempt /\ turn < Turns /\ Turns \in Nat
    BY <1>1, InBuilder
  <1>4. Served'
    <2>1. AnsweredMeansServed'
      BY <1>1, <1>3, ServedKept
    <2> QED
      BY <1>1, <1>3, <2>1 DEF Served
  <1>5. e.quota \in BOOLEAN /\ walls' = walls \cup (IF e.quota THEN {model} ELSE {})
    BY <1>2, ExceptionsAssumption DEF Meet
  <1>6. tried' \subseteq walls' /\ walls \subseteq walls'
    BY <1>2, <1>3, <1>5
  <1>7. ASSUME e.quota, Untried = {}
        PROVE  walls' # {} /\ ToSet(alt_models) \subseteq walls'
    <2>1. ToSet(alt_models) \subseteq tried \cup {model}
      BY <1>7 DEF Untried, Others, ToSet
    <2> QED
      BY <1>3, <1>5, <1>7, <2>1
  <1>8. Marks'
    <2>1. provider_dead_today' \in BOOLEAN
      BY <1>2, <1>3, <1>5
    <2>2. ASSUME provider_dead_today' PROVE walls' # {} /\ ToSet(alt_models) \subseteq walls'
      <3>1. provider_dead_today \/ (e.quota /\ Untried = {})
        BY <1>2, <2>2
      <3>2. CASE provider_dead_today
        BY <1>1, <1>3, <1>6, <3>2 DEF DeadMeansWalled
      <3> QED
        BY <1>7, <3>1, <3>2
    <2> QED
      BY <1>1, <1>6, <2>1, <2>2 DEF Marks, DeadMeansWalled, alt_models
  <1>9. Cost'
    BY <1>1, <1>3 DEF Cost
  <1> QED
    BY <1>1, <1>3, <1>4, <1>8, <1>9 DEF RunInv, Waiting

LEMMA BuilderFailedStep == RunInv /\ BuilderFailed => RunInv'
  <1> SUFFICES ASSUME RunInv, BuilderFailed PROVE RunInv'
    OBVIOUS
  <1> DEFINE rec == [Rec("chat") EXCEPT !.attempts = attempt + 1]
  <1>1. /\ pc = "chat" /\ persona.path = "builder" /\ persona' = persona /\ attempt' = attempt
        /\ model_calls' = model_calls + 1 /\ chats' = chats + 1
        /\ failures' = Append(failures, rec)
        /\ pc' = "done" /\ answer' = "failed" /\ turn' = turn
        /\ outcomes' = outcomes /\ tried' = tried /\ provider_dead_today' = provider_dead_today
    BY DEF BuilderFailed, Stop, request
  <1>2. walls \subseteq walls'
    BY DEF BuilderFailed, Meet
  <1>3. /\ Telling(failures, outcomes) /\ IsSeq(failures) /\ Served
        /\ answer # "failed" /\ tried \subseteq walls
        /\ provider_dead_today \in BOOLEAN /\ DeadMeansWalled
        /\ model_calls = chats /\ chats \in Nat /\ turn \in Nat /\ attempt \in 0 .. 3
        /\ chats <= 4 * turn + attempt /\ turn < Turns /\ Turns \in Nat
    BY <1>1, InBuilder
  <1>4. rec.action = None
    BY DEF Rec
  <1> HIDE DEF rec
  <1>5. Telling(failures', outcomes')
    BY <1>1, <1>3, <1>4, RowNotTried
  <1>6. Served'
    <2>1. AnsweredMeansServed'
      BY <1>1, <1>3, ServedKept
    <2> QED
      BY <1>1, <2>1 DEF Served
  <1>7. Marks'
    BY <1>1, <1>2, <1>3 DEF Marks, DeadMeansWalled, alt_models
  <1>8. Cost'
    <2>1. chats' <= 4 * Turns
      BY <1>1, <1>3
    <2> QED
      BY <1>1, <1>3, <2>1 DEF Cost
  <1> QED
    BY <1>1, <1>5, <1>6, <1>7, <1>8 DEF RunInv, Waiting

\* A tool call spends none of the provider's requests, and its failure is not
\* one of the provider's.
LEMMA CallMadeStep ==
  ASSUME RunInv, pc = "tools", CallMade, NEW rec,
         \/ failures' = failures
         \/ failures' = Append(failures, rec) /\ rec.op = "tool",
         Telling(failures', outcomes'),
         persona' = persona, attempt' = attempt, tried' = tried, model_calls' = model_calls,
         chats' = chats, walls' = walls, provider_dead_today' = provider_dead_today
  PROVE  RunInv'
  <1>1. \/ pc' = pc /\ turn' = turn /\ answer' = answer
        \/ /\ turn' = turn + 1
           /\ \/ pc' = "done" /\ answer' \in {"answered", "exhausted"}
              \/ turn + 1 < Turns /\ pc' = "chat" /\ answer' = answer
    BY DEF CallMade
  <1>2. /\ IsSeq(failures) /\ Served /\ Marks /\ Cost /\ answer # "failed"
        /\ turn \in Nat /\ chats \in Nat /\ turn < Turns /\ Turns \in Nat
    BY RunBoundsAssumption DEF RunInv, Telling, Served, Cost
  <1>3. Served'
    <2>1. AnsweredMeansServed'
      BY <1>2, ServedKept
    <2>2. answer' # "failed"
      BY <1>1, <1>2
    <2> QED
      BY <2>1, <2>2 DEF Served
  <1>4. Marks'
    <2>1. CASE persona.path # "builder"
      BY <1>2, <2>1 DEF Marks, DeadMeansWalled
    <2>2. CASE persona.path = "builder"
      BY <1>2, <2>2 DEF Marks, DeadMeansWalled, alt_models
    <2> QED
      BY <2>1, <2>2
  <1>5. Cost'
    <2>1. CASE persona.path # "builder"
      <3>1. chats <= 2 * (turn + 1) /\ chats <= 2 * Turns
        BY <1>2, <2>1 DEF Cost
      <3> QED
        BY <1>1, <1>2, <2>1, <3>1 DEF Cost
    <2>2. CASE persona.path = "builder"
      <3>1. attempt = 0 /\ chats <= 4 * (turn + 1) /\ chats <= 4 * Turns
        BY <1>2, <2>2 DEF Cost
      <3> QED
        BY <1>1, <1>2, <2>2, <3>1 DEF Cost
    <2> QED
      BY <2>1, <2>2
  <1> QED
    BY <1>1, <1>3, <1>4, <1>5 DEF RunInv, Waiting

\* A failed tool, given up or tried again.
LEMMA ToolFailsTells ==
  ASSUME Telling(failures, outcomes), ToolFails
  PROVE  /\ Telling(failures', outcomes')
         /\ \E rec : failures' = Append(failures, rec) /\ rec.op = "tool"
  <1>1. PICK action : IF action \in {None, "skip"} THEN ToolGivenUp(action) ELSE ToolRetried(action)
    BY Zenon DEF ToolFails
  <1>2. CASE action \in {None, "skip"}
    <2> DEFINE rec == [Rec("tool") EXCEPT !.skipped = (action = "skip")]
    <2>1. failures' = Append(failures, rec) /\ outcomes' = outcomes
      BY <1>1, <1>2 DEF ToolGivenUp
    <2>2. rec.op = "tool" /\ rec.action = None
      BY DEF Rec
    <2> HIDE DEF rec
    <2> QED
      BY <2>1, <2>2, RowNotTried
  <1>3. CASE action \notin {None, "skip"}
    <2>1. PICK ok \in BOOLEAN :
            /\ failures' = Append(failures, [Rec("tool") EXCEPT !.action = action, !.attempts = 2,
                                                                !.recovered = ok])
            /\ Told("tool", action, ok)
      <3>1. ToolRetried(action)
        BY <1>1, <1>3
      <3> QED
        BY <3>1, Zenon DEF ToolRetried
    <2> DEFINE rec == [Rec("tool") EXCEPT !.action = action, !.attempts = 2, !.recovered = ok]
               told == [of |-> Len(failures) + 1, op |-> "tool", action |-> action, ok |-> ok]
    <2>2. /\ rec.op = "tool" /\ rec.action = action /\ rec.attempts = 2 /\ rec.recovered = ok
          /\ ~rec.skipped
      BY ONLY DEF Rec
    <2>3. failures' = Append(failures, rec)
      BY <2>1
    <2> HIDE DEF rec
    <2>4. IsSeq(failures)
      BY DEF Telling
    <2>5. Len(failures') = Len(failures) + 1
      BY <2>3, <2>4, AppendIs
    <2>6. outcomes' = Append(outcomes, told)
      BY <2>1, <2>5 DEF Told
    <2>7. TellsOf(told, rec) /\ rec.action # None /\ told.of = Len(failures) + 1
      BY <1>3, <2>2 DEF TellsOf
    <2> HIDE DEF told
    <2>8. Telling(Append(failures, rec), Append(outcomes, told))
      BY <2>2, <2>7, RowTried
    <2> QED
      BY <2>2, <2>3, <2>6, <2>8
  <1> QED
    BY <1>2, <1>3

LEMMA ToolStep == RunInv /\ (Call \/ VMTool) => RunInv'
  <1> SUFFICES ASSUME RunInv, Call \/ VMTool PROVE RunInv'
    OBVIOUS
  <1>1. /\ pc = "tools" /\ CallMade
        /\ persona' = persona /\ attempt' = attempt /\ tried' = tried
        /\ model_calls' = model_calls /\ chats' = chats /\ walls' = walls
        /\ provider_dead_today' = provider_dead_today
    BY DEF Call, VMTool, request
  <1>2. Telling(failures, outcomes)
    BY DEF RunInv
  <1>3. \/ failures' = failures /\ outcomes' = outcomes
        \/ ToolFails
    BY DEF Call, VMTool, ToolReturns, UnknownTool, DocRefused
  <1>4. CASE failures' = failures /\ outcomes' = outcomes
    <2>1. Telling(failures', outcomes')
      BY <1>2, <1>4
    <2> QED
      BY <1>1, <1>4, <2>1, CallMadeStep
  <1>5. CASE ToolFails
    BY <1>1, <1>2, <1>5, ToolFailsTells, CallMadeStep
  <1> QED
    BY <1>3, <1>4, <1>5

LEMMA RunInvStep == RunInv /\ [RunNext]_runVars => RunInv'
  <1> SUFFICES ASSUME RunInv, [RunNext]_runVars PROVE RunInv'
    OBVIOUS
  <1>1. CASE UNCHANGED runVars
    <2>1. /\ UNCHANGED <<persona, pc, turn, attempt, tried, model_calls, failures,
                         provider_dead_today, answer, chats, walls, outcomes, failure>>
      BY <1>1 DEF runVars, loop, request, skips
    <2> QED
      BY <2>1 DEF RunInv, Waiting, Served, Marks, Cost, DeadMeansWalled, AnsweredMeansServed,
                  alt_models
  <1>2. CASE RunNext
    BY <1>2, ChatStep, GivenUpStep, RetryStep, BuilderChatStep, BuilderLimitedStep,
       BuilderFailedStep, ToolStep DEF RunNext
  <1> QED
    BY <1>1, <1>2

LEMMA RunInvHolds == AllSpec => []RunInv
  <1>1. AllInit => RunInv
    BY RunInvInit DEF AllInit
  <1>2. RunInv /\ [AllNext]_<<looked_at, vars, runVars>> => RunInv'
    <2>1. [AllNext]_<<looked_at, vars, runVars>> => [RunNext]_runVars
      BY DEF AllNext
    <2> QED
      BY <2>1, RunInvStep
  <1> QED
    BY <1>1, <1>2, PTL DEF AllSpec

(* A mark on a provider was earned: the run met a daily wall, a builder on *)
(* every alternative the provider has, and no other persona got to an      *)
(* answer on a provider it marked.                                         *)
THEOREM MarkIsEarned == AllSpec => []DeadMeansWalled
  <1>1. RunInv => DeadMeansWalled
    BY RunInvMeans
  <1> QED
    BY <1>1, RunInvHolds, PTL

(* The row that a run leaves in the ledger is what the run was: every      *)
(* request is billed and their number bounded by the loops, whatever fails *)
(* and whatever is advised; the failures of the provider were got past, up *)
(* to the last of a run that failed; and the network was told one outcome  *)
(* for each failure tried again, in their order.                           *)
THEOREM RowIsTrue == AllSpec => []LedgerTruthful
  <1>1. RunInv => LedgerTruthful
    BY RunInvMeans
  <1> QED
    BY <1>1, RunInvHolds, PTL

(* A run changes nothing that the scheduler keeps: what was proved of the  *)
(* scheduler holds beside the runs.                                        *)
THEOREM SchedulerGoesOn == AllSpec => Spec
  <1>1. AllInit => Init
    BY DEF AllInit
  <1>2. [AllNext]_<<looked_at, vars, runVars>> => [Next]_vars
    BY DEF AllNext
  <1> QED
    BY <1>1, <1>2, PTL DEF AllSpec, Spec

=============================================================================
