-------------------------------- MODULE Fleet --------------------------------
(***************************************************************************)
(* The scheduler of the fleet lab (failecho_fleet.main): two lanes, each a *)
(* unit that systemd starts once a minute and never twice at a time, share *)
(* state.json.  A tick chooses a persona under the lock, runs it without   *)
(* the lock, and files the run under the lock again, on a fresh copy.      *)
(*                                                                         *)
(* A cursor is kept modulo two cycles, which is all persona_index looks    *)
(* at.  Times are kept as ages: a mark that a provider is dead counts      *)
(* until it is due for a probe, the last OpenCode run until the gap is     *)
(* over.  A run is what it costs and whether it ran into the provider's    *)
(* daily wall.  The token cap works like the call cap and is left out, as  *)
(* is --persona, used by hand.                                             *)
(***************************************************************************)
EXTENDS Naturals, Sequences, SequencesExt

CONSTANTS
  PERSONAS,      \* sequence of [path, provider, slow]
  lane_personas, \* the positions in PERSONAS that each lane runs, in order
  opencode,      \* the positions of the OpenCode personas, in order
  TWINS,         \* sets of two positions in PERSONAS
  Providers, None,
  Cap, LightCap, \* effective_caps: of an OpenCode twin, of everybody else
  LEDGER_CAP, ARCHIVE_DAYS, MAX_RUNS_PER_DAY,
  RunCalls,      \* bound: model calls of one run
  MaxDay,        \* bound: the last day
  MaxKills       \* bound: processes stopped before they are through

Lanes == {"light", "vm"}

lane_of(i) == IF PERSONAS[i].path \in {"builder", "opencode"} THEN "vm" ELSE "light"

Positions == 1 .. Len(PERSONAS)

\* The positions that pass a test, as a list comprehension gives them.
IsSelection(s, S) ==
  s \in Seq(S) /\ ToSet(s) = S /\ \A i, j \in 1 .. Len(s) : i < j => s[i] < s[j]

ASSUME PersonasAssumption ==
  /\ Len(PERSONAS) \in Nat
  /\ \A i \in Positions : PERSONAS[i].slow \in BOOLEAN
  /\ DOMAIN lane_personas = Lanes
  /\ \A l \in Lanes : IsSelection(lane_personas[l], {i \in Positions : lane_of(i) = l})
  /\ \A l \in Lanes : lane_personas[l] # <<>>
  /\ IsSelection(opencode, {i \in Positions : PERSONAS[i].path = "opencode"})
  /\ opencode # <<>>
  /\ \A t \in TWINS : \E i, j \in Positions : i # j /\ t = {i, j}
  \* the OpenCode personas share a provider
  /\ \A i, j \in ToSet(opencode) : PERSONAS[i].provider = PERSONAS[j].provider

ASSUME BudgetAssumption ==
  /\ None \notin Providers
  /\ Cap \in [Providers -> Nat \ {0}] /\ LightCap \in [Providers -> Nat]
  /\ \A p \in Providers : LightCap[p] <= Cap[p]
  /\ RunCalls \in Nat /\ LEDGER_CAP \in Nat \ {0} /\ ARCHIVE_DAYS \in Nat

VARIABLES
  now,      \* the calendar day
  file,     \* state.json
  archive,  \* archive.jsonl, a bag of records
  lane,     \* the process of each lane
  spent,    \* history: calls of the filed runs that began on the file's provider_day,
            \* until disturbed
  filed,    \* history: the runs of slow arms filed since state.json was last lost
  slowRuns, \* history: number of runs of slow arms
  kills,    \* history: number of processes stopped
  orphans,  \* history: runs archived by a process that did not get to save
  disturbed \* history: state.json was lost, or its date set back to yesterday

vars == <<now, file, archive, lane, spent, filed, slowRuns, kills, orphans, disturbed>>

-----------------------------------------------------------------------------
Members(l) == Len(lane_personas[l])

Twin(i) == IF \E t \in TWINS : i \in t
           THEN CHOOSE j \in Positions : j # i /\ {i, j} \in TWINS
           ELSE i

\* On odd cycles the twins trade places.
persona_index(position, l) ==
  LET n == Members(l)
      i == lane_personas[l][(position % n) + 1]
  IN  IF (position \div n) % 2 = 0 THEN i ELSE Twin(i)

effective_cap(i) ==
  IF PERSONAS[i].path = "opencode" THEN Cap[PERSONAS[i].provider]
                                   ELSE LightCap[PERSONAS[i].provider]

-----------------------------------------------------------------------------
NoCalls == [p \in Providers |-> 0]

\* What _state returns when state.json is missing or cannot be parsed.
FreshState ==
  [day |-> 0, runs_today |-> 0, next |-> [l \in Lanes |-> 0], next_opencode |-> 0,
   opencode_recent |-> FALSE, dead |-> {}, provider_day |-> 0,
   calls |-> NoCalls, runs |-> <<>>]

Idle == [pc |-> "idle", today |-> 0, persona |-> 0]

Init ==
  /\ now = 1
  /\ file = FreshState
  /\ archive = EmptyBag
  /\ lane = [l \in Lanes |-> Idle]
  /\ spent = NoCalls
  /\ filed = {} /\ slowRuns = 0
  /\ kills = 0 /\ orphans = {} /\ disturbed = FALSE

Provider(l) == PERSONAS[lane[l].persona].provider

-----------------------------------------------------------------------------
(* The section that chooses.                                               *)

Rolled(today) ==
  [file EXCEPT !.day = today, !.runs_today = IF file.day = today THEN @ ELSE 0]

CallsToday(s, today) == IF s.provider_day = today THEN s.calls ELSE NoCalls

Dead(s, i) == PERSONAS[i].provider \in s.dead
Capped(s, i, today) ==
  PERSONAS[i].provider # None /\ CallsToday(s, today)[PERSONAS[i].provider] >= effective_cap(i)
TooSoon(s, i) == PERSONAS[i].path = "opencode" /\ s.opencode_recent

Runnable(s, i, today) == ~Dead(s, i) /\ ~Capped(s, i, today) /\ ~TooSoon(s, i)

At(s, l, k) == persona_index(s.next[l] + k, l)

\* The loop has skipped k positions of the lane.
Skipped(s, l, k, today) == \A j \in 0 .. k - 1 : ~Runnable(s, At(s, l, j), today)

Advance(cursor, k, l) == (cursor + k) % (2 * Members(l))

\* A new day keeps the calls of the day before.
SlotTakenStale(s, l, k, today) ==
  [s EXCEPT !.next[l] = Advance(@, k + 1, l), !.provider_day = today, !.runs_today = @ + 1]

\* What a tick saves when it takes the slot.
SlotTaken(s, l, k, today) ==
  [s EXCEPT !.next[l] = Advance(@, k + 1, l),
            !.provider_day = today,
            !.calls = CallsToday(s, today),
            !.runs_today = @ + 1]

\* A timer fires; the date is read before the lock is taken.
Tick(l) ==
  /\ lane[l].pc = "idle"
  /\ lane' = [lane EXCEPT ![l] = [pc |-> "ticking", today |-> now, persona |-> 0]]
  /\ UNCHANGED <<now, file, archive, spent, filed, slowRuns, kills, orphans, disturbed>>

BudgetSpent(l) ==
  /\ lane[l].pc = "ticking"
  /\ Rolled(lane[l].today).runs_today >= MAX_RUNS_PER_DAY
  /\ lane' = [lane EXCEPT ![l] = Idle]
  /\ UNCHANGED <<now, file, archive, spent, filed, slowRuns, kills, orphans, disturbed>>

NothingRunnable(l) ==
  LET today == lane[l].today
      s     == Rolled(today)
  IN  /\ lane[l].pc = "ticking"
      /\ s.runs_today < MAX_RUNS_PER_DAY
      /\ Skipped(s, l, Members(l), today)
      /\ file' = [s EXCEPT !.next[l] = Advance(@, Members(l), l)]
      /\ disturbed' = (disturbed \/ file.day > today)
      /\ lane' = [lane EXCEPT ![l] = Idle]
      /\ UNCHANGED <<now, archive, spent, filed, slowRuns, kills, orphans>>

Choose(l) ==
  LET today == lane[l].today
      s     == Rolled(today)
  IN  /\ lane[l].pc = "ticking"
      /\ s.runs_today < MAX_RUNS_PER_DAY
      /\ \E k \in 0 .. Members(l) - 1 :
           LET i == At(s, l, k)
           IN  /\ Skipped(s, l, k, today)
               /\ Runnable(s, i, today)
               /\ file' = SlotTaken(s, l, k, today)
               /\ lane' = [lane EXCEPT ![l] =
                             [pc |-> IF PERSONAS[i].path = "opencode" THEN "turn" ELSE "running",
                              today |-> today, persona |-> i]]
      /\ disturbed' = (disturbed \/ file.day > today)
      /\ spent' = IF file.provider_day = today THEN spent ELSE NoCalls
      /\ UNCHANGED <<now, archive, filed, slowRuns, kills, orphans>>

\* The second section: the OpenCode personas take turns on a cursor of their own.
TakeTurn(l) ==
  LET turn == (file.next_opencode % Len(opencode)) + 1
  IN  /\ lane[l].pc = "turn"
      /\ lane' = [lane EXCEPT ![l] =
                    [pc |-> "running", today |-> @.today, persona |-> opencode[turn]]]
      /\ file' = [file EXCEPT !.next_opencode = (@ + 1) % Len(opencode), !.opencode_recent = TRUE]
      /\ UNCHANGED <<now, archive, spent, filed, slowRuns, kills, orphans, disturbed>>

-----------------------------------------------------------------------------
(* The section that files.                                                 *)

\* Runs of slow arms are numbered.
Record(l) == LET slow == PERSONAS[lane[l].persona].slow
             IN  [run |-> IF slow THEN slowRuns + 1 ELSE 0, slow |-> slow, day |-> now]

Bill(calls, p, n) == IF p = None THEN calls ELSE [calls EXCEPT ![p] = @ + n]

\* A run that met no wall takes the mark away.
MarkDead(dead, p, wall) == IF wall THEN dead \cup {p} ELSE dead \ {p}

Ledger(l)  == Append(file.runs, Record(l))
Evicted(l) == SubSeq(Ledger(l), 1, Len(Ledger(l)) - LEDGER_CAP)
Kept(l)    == SubSeq(Ledger(l), Len(Evicted(l)) + 1, Len(Ledger(l)))

\* The part of a bag of records that passes a test.
Part(bag, Test(_)) == [r \in {x \in DOMAIN bag : Test(x)} |-> bag[r]]

IsSlow(r)  == r.slow
IsYoung(r) == r.day + ARCHIVE_DAYS >= now

\* The archive is written without what it held.
ArchivedOver(evicted) ==
  LET keep == Part(ToBag(evicted), IsSlow)
  IN  IF keep = EmptyBag THEN archive ELSE keep

Archived(evicted) ==
  LET keep == Part(ToBag(evicted), IsSlow)
  IN  IF keep = EmptyBag THEN archive ELSE Part(archive, IsYoung) (+) keep

FileHistory(l, n) ==
  /\ spent' = IF lane[l].today # file.provider_day \/ disturbed THEN spent
              ELSE Bill(spent, Provider(l), n)
  /\ filed' = IF Record(l).slow THEN filed \cup {Record(l)} ELSE filed
  /\ slowRuns' = IF Record(l).slow THEN slowRuns + 1 ELSE slowRuns

\* The filing section rolls the day like the choosing one.
FileRolls(l, n, wall) ==
  /\ file' = [file EXCEPT !.calls = Bill(CallsToday(file, lane[l].today), Provider(l), n),
                          !.provider_day = lane[l].today,
                          !.dead  = MarkDead(@, Provider(l), wall),
                          !.runs  = Kept(l)]
  /\ archive' = Archived(Evicted(l))
  /\ FileHistory(l, n)
  /\ lane' = [lane EXCEPT ![l] = Idle]
  /\ UNCHANGED <<now, kills, orphans, disturbed>>

File(l, n, wall) ==
  /\ file' = [file EXCEPT !.calls = Bill(@, Provider(l), n),
                          !.dead  = MarkDead(@, Provider(l), wall),
                          !.runs  = Kept(l)]
  /\ archive' = Archived(Evicted(l))
  /\ FileHistory(l, n)
  /\ lane' = [lane EXCEPT ![l] = Idle]
  /\ UNCHANGED <<now, kills, orphans, disturbed>>

Finish(l) ==
  /\ lane[l].pc = "running"
  /\ \E n \in 0 .. RunCalls, wall \in BOOLEAN :
       /\ Provider(l) = None => n = 0
       /\ n = 0 => ~wall
       /\ File(l, n, wall)

-----------------------------------------------------------------------------
(* systemd stops a unit at any point.                                      *)

Stopped(l) ==
  /\ lane[l].pc # "idle" /\ kills < MaxKills
  /\ kills' = kills + 1
  /\ lane' = [lane EXCEPT ![l] = Idle]

Killed(l) ==
  /\ Stopped(l)
  /\ UNCHANGED <<now, file, archive, spent, filed, slowRuns, orphans, disturbed>>

\* In _save, between open(..., "w") and the end of json.dump.
KilledSaving(l) ==
  /\ Stopped(l)
  /\ file' = FreshState
  /\ IF lane[l].pc = "running"
     THEN /\ archive' = Archived(Evicted(l))
          /\ orphans' = orphans \cup {r.run : r \in DOMAIN archive'}
     ELSE UNCHANGED <<archive, orphans>>
  /\ spent' = NoCalls /\ filed' = {} /\ disturbed' = TRUE
  /\ UNCHANGED <<now, slowRuns>>

\* The archive is replaced, the ledger is not saved.
KilledArchiving(l) ==
  /\ Stopped(l)
  /\ lane[l].pc = "running"
  /\ Archived(Evicted(l)) # archive
  /\ archive' = Archived(Evicted(l))
  /\ orphans' = orphans \cup {r.run : r \in ToSet(Evicted(l))}
  /\ UNCHANGED <<now, file, spent, filed, slowRuns, disturbed>>

-----------------------------------------------------------------------------
(* Time.                                                                   *)

NewDay ==
  /\ now < MaxDay
  /\ now' = now + 1
  /\ UNCHANGED <<file, archive, lane, spent, filed, slowRuns, kills, orphans, disturbed>>

QuotaProbeDue ==
  /\ \E p \in file.dead : file' = [file EXCEPT !.dead = @ \ {p}]
  /\ UNCHANGED <<now, archive, lane, spent, filed, slowRuns, kills, orphans, disturbed>>

GapOver ==
  /\ file.opencode_recent
  /\ file' = [file EXCEPT !.opencode_recent = FALSE]
  /\ UNCHANGED <<now, archive, lane, spent, filed, slowRuns, kills, orphans, disturbed>>

Next ==
  \/ \E l \in Lanes :
       \/ Tick(l) \/ BudgetSpent(l) \/ NothingRunnable(l) \/ Choose(l) \/ TakeTurn(l)
       \/ Finish(l)
       \/ Killed(l) \/ KilledSaving(l) \/ KilledArchiving(l)
  \/ NewDay \/ QuotaProbeDue \/ GapOver

Spec == Init /\ [][Next]_vars

-----------------------------------------------------------------------------
(* Properties.                                                             *)

Copies(bag, r) == IF r \in DOMAIN bag THEN bag[r] ELSE 0

TypeOK ==
  /\ now \in 1 .. MaxDay
  /\ file.day \in 0 .. now /\ file.provider_day \in 0 .. now
  /\ file.runs_today \in 0 .. MAX_RUNS_PER_DAY
  /\ file.next \in [Lanes -> Nat] /\ file.next_opencode \in Nat
  /\ file.opencode_recent \in BOOLEAN /\ file.dead \subseteq Providers
  /\ file.calls \in [Providers -> Nat]
  /\ Len(file.runs) <= LEDGER_CAP
  /\ \A l \in Lanes :
       /\ lane[l].pc \in {"idle", "ticking", "turn", "running"}
       /\ lane[l].pc \in {"turn", "running"} => lane_of(lane[l].persona) = l
  /\ kills \in 0 .. MaxKills /\ disturbed \in BOOLEAN

(* Two lanes file over midnight and over each other: every call of a run   *)
(* that began on the day in the file is in that day's count, or the fleet  *)
(* would spend more than the tier it is a guest of.  Excluded by name: a   *)
(* save that was cut short, and a lane that read the date before midnight  *)
(* and took the lock after the other lane had rolled the day.              *)
NeverUnderbilled ==
  disturbed \/ \A p \in Providers : spent[p] <= file.calls[p]

(* A cap is checked when a run is chosen and spent while it runs, by both  *)
(* lanes: the count can pass the cap by less than one run of each lane.    *)
CapHolds == \A p \in Providers : file.calls[p] < Cap[p] + 2 * RunCalls

(* What the scoreboard adds up, archive and ledger, has every filed run of *)
(* a slow arm that is not older than ARCHIVE_DAYS, and no run twice, even  *)
(* when the ledger evicts; except for runs that a process stopped between  *)
(* archiving and saving had archived.                                      *)
ScoreboardCountsOnce ==
  \A f \in filed :
    LET count == Copies(archive (+) ToBag(file.runs), f)
    IN  /\ f.day + ARCHIVE_DAYS >= now => count >= 1
        /\ f.run \notin orphans => count <= 1
=============================================================================
