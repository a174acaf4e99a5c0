-------------------------------- MODULE SandboxVM --------------------------------
(***************************************************************************)
(* The throwaway VM (failecho_sandbox/__init__.py) and the process that    *)
(* serves it commands from the inside (guest_init.py).  There is one tap   *)
(* device, so a lock file lets one VM run at a time; what a killed run     *)
(* left on disk is swept before a later boot, under that lock.  A command  *)
(* is one connection, and the guest takes them one after the other; the    *)
(* host gives up on an answer some time after the command's own timeout.   *)
(*                                                                         *)
(* Assumed of the system: a run is killed together with its VM (systemd    *)
(* kills the unit's whole group), and a killed VM dies within KILL_GRACE.  *)
(***************************************************************************)
EXTENDS Naturals, Sequences, FiniteSets, SequencesExt

CONSTANTS
  Nobody,
  Runs,        \* processes that use a sandbox: a builder run, onboarding, canary
  ORPHAN_AGE,  \* in ticks
  MaxCommands, \* bound: commands of a run
  MaxTicks     \* bound: the clock

ASSUME SandboxAssumption == Nobody \notin Runs /\ ORPHAN_AGE \in Nat \ {0}

VARIABLES
  ticks,     \* the clock
  flock,     \* who holds the lock file
  disk,      \* [runs -> when the run's directory and scratch disk were made], not all
  run,       \* [Runs -> where the run is]
  asked,     \* [Runs -> commands asked so far]
  guest,     \* [Runs -> its VM: [up, queue, doing, wedged]]; 0 is no command
  answers,   \* [Runs -> [commands answered -> whose answer it was]], 0 is "timed out"
  overdue    \* history: there was a leftover beyond ORPHAN_AGE when a VM came up

sandboxVars == <<ticks, flock, disk, run, asked, guest, answers, overdue>>

NoVM == [up |-> FALSE, queue |-> <<>>, doing |-> 0, wedged |-> FALSE]

SandboxInit ==
  /\ ticks = 0 /\ flock = Nobody /\ disk = <<>> /\ overdue = FALSE
  /\ run = [r \in Runs |-> "new"]
  /\ asked = [r \in Runs |-> 0]
  /\ guest = [r \in Runs |-> NoVM]
  /\ answers = [r \in Runs |-> <<>>]

IsAt(r, pc) == run[r] = pc
MovesTo(r, pc) == run' = [run EXCEPT ![r] = pc]
Removed(r) == [x \in DOMAIN disk \ {r} |-> disk[x]]

Old == {r \in DOMAIN disk : ticks - disk[r] >= ORPHAN_AGE}

Locked(r) ==
  /\ IsAt(r, "new") /\ flock = Nobody
  /\ flock' = r /\ MovesTo(r, "locked")
  /\ UNCHANGED <<ticks, disk, asked, guest, answers, overdue>>

\* Leftovers are swept, and the run's own files made.
Sweeps(r) ==
  /\ IsAt(r, "locked")
  /\ disk' = [x \in (DOMAIN disk \ Old) \cup {r} |-> IF x = r THEN ticks ELSE disk[x]]
  /\ MovesTo(r, "files")
  /\ UNCHANGED <<ticks, flock, asked, guest, answers, overdue>>

\* Firecracker starts, and the guest answers a ping.
Booted(r) ==
  /\ IsAt(r, "files")
  /\ guest' = [guest EXCEPT ![r].up = TRUE]
  /\ overdue' = (overdue \/ \E x \in DOMAIN disk \ {r} : disk[x] + ORPHAN_AGE <= disk[r])
  /\ MovesTo(r, "up")
  /\ UNCHANGED <<ticks, flock, disk, asked, answers>>

\* No file system, or Firecracker exits: nothing is closed, and the lock goes
\* with the object, or with the process.
BootFails(r) ==
  /\ IsAt(r, "files")
  /\ flock' = Nobody /\ MovesTo(r, "over")
  /\ UNCHANGED <<ticks, disk, asked, guest, answers, overdue>>

\* The end of the `with`, a SIGTERM, or a guest that did not answer the pings:
\* the VM is killed, its files go, and then the lock.
ClosedUnlockedFirst(r) ==
  /\ run[r] \in {"files", "up"} \/ IsAt(r, "unlocked")
  /\ IF IsAt(r, "unlocked")
     THEN /\ guest' = [guest EXCEPT ![r] = NoVM] /\ disk' = Removed(r)
          /\ MovesTo(r, "over") /\ UNCHANGED flock
     ELSE /\ flock' = Nobody /\ MovesTo(r, "unlocked") /\ UNCHANGED <<guest, disk>>
  /\ UNCHANGED <<ticks, asked, answers, overdue>>

close(r) ==
  /\ run[r] \in {"files", "up"}
  /\ guest' = [guest EXCEPT ![r] = NoVM]
  /\ disk' = Removed(r)
  /\ flock' = Nobody /\ MovesTo(r, "over")
  /\ UNCHANGED <<ticks, asked, answers, overdue>>

\* The run is killed, with its VM, at any point.
RunKilled(r) ==
  /\ run[r] \notin {"new", "over"}
  /\ guest' = [guest EXCEPT ![r] = NoVM]
  /\ flock' = IF flock = r THEN Nobody ELSE flock
  /\ MovesTo(r, "over")
  /\ UNCHANGED <<ticks, disk, asked, answers, overdue>>

\* The VM dies: the run finds out with its next command, or with this one's
\* connection, and closes.
Dies(r) ==
  /\ guest[r].up
  /\ guest' = [guest EXCEPT ![r] = NoVM]
  /\ run' = [run EXCEPT ![r] = IF @ = "waiting" THEN "up" ELSE @]
  /\ UNCHANGED <<ticks, flock, disk, asked, answers, overdue>>

-----------------------------------------------------------------------------
\* A command, on a connection of its own.
Ask(r) ==
  /\ IsAt(r, "up") /\ guest[r].up /\ asked[r] < MaxCommands
  /\ asked' = [asked EXCEPT ![r] = @ + 1]
  /\ guest' = [guest EXCEPT ![r].queue = Append(@, asked[r] + 1)]
  /\ MovesTo(r, "waiting")
  /\ UNCHANGED <<ticks, flock, disk, answers, overdue>>

\* The guest reads the next command, also one whose connection has been closed.
GuestReads(r) ==
  /\ guest[r].up /\ guest[r].doing = 0 /\ guest[r].queue # <<>>
  /\ guest' = [guest EXCEPT ![r].doing = Head(guest[r].queue), ![r].queue = Tail(@)]
  /\ UNCHANGED <<ticks, flock, disk, run, asked, answers, overdue>>

\* The answer goes to the connection its command came on.
Reads(r, command) == IsAt(r, "waiting") /\ command = asked[r]

\* The command is over, by itself or by its timeout; nobody may be listening.
Answered(r) ==
  /\ guest[r].up /\ guest[r].doing # 0
  /\ guest' = [guest EXCEPT ![r].doing = 0, ![r].wedged = FALSE]
  /\ LET n == guest[r].doing
     IN  IF Reads(r, n)
         THEN /\ answers' = [answers EXCEPT ![r] = Append(@, n)]
              /\ MovesTo(r, "up")
         ELSE UNCHANGED <<answers, run>>
  /\ UNCHANGED <<ticks, flock, disk, asked, overdue>>

\* What the command started holds its pipes beyond its end.
Wedged(r) ==
  /\ guest[r].up /\ guest[r].doing # 0 /\ ~guest[r].wedged
  /\ guest' = [guest EXCEPT ![r].wedged = TRUE]
  /\ UNCHANGED <<ticks, flock, disk, run, asked, answers, overdue>>

\* No answer: a result that says "timed out", and the run goes on.
GivesUp(r) ==
  /\ IsAt(r, "waiting") /\ guest[r].wedged
  /\ answers' = [answers EXCEPT ![r] = Append(@, 0)]
  /\ MovesTo(r, "up")
  /\ UNCHANGED <<ticks, flock, disk, asked, guest, overdue>>

Ticks ==
  /\ ticks < MaxTicks
  /\ ticks' = ticks + 1
  /\ UNCHANGED <<flock, disk, run, asked, guest, answers, overdue>>

SandboxNext ==
  \/ \E r \in Runs :
       \/ Locked(r) \/ Sweeps(r) \/ Booted(r) \/ BootFails(r) \/ close(r) \/ RunKilled(r) \/ Dies(r)
       \/ Ask(r) \/ GuestReads(r) \/ Answered(r) \/ Wedged(r) \/ GivesUp(r)
  \/ Ticks

-----------------------------------------------------------------------------
(* Properties.                                                             *)

(* One VM at a time, whatever is killed and whenever: no two are up, the   *)
(* files of the one that is are there, and no VM comes up beside a         *)
(* leftover that was beyond its age when it began to boot.                 *)
Alone ==
  /\ \A r, s \in Runs : guest[r].up /\ guest[s].up => r = s
  /\ \A r \in Runs : guest[r].up => r \in DOMAIN disk
  /\ ~overdue

(* Each answer is that of its own command, or "timed out"; and when it is  *)
(* that of its own, every command before it is over: the guest does one    *)
(* at a time, those the run has given up on included.                      *)
AnswerIsOwn ==
  \A r \in Runs :
    /\ \A i \in DOMAIN answers[r] : answers[r][i] \in {0, i}
    /\ guest[r].doing # 0 =>
         \A i \in DOMAIN answers[r] : answers[r][i] = i => i < guest[r].doing

(* A VM and its answers belong to one run.                                 *)
OneSandbox == Alone /\ AnswerIsOwn
=============================================================================
