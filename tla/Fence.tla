---------------------------------- MODULE Fence ----------------------------------
(***************************************************************************)
(* The sandbox's way out (failecho_sandbox/proxy.py) and the two that look *)
(* at it: the builder (failecho_fleet/builder.py), which compares what the *)
(* fence let through during a program with what the wrapper inside the VM  *)
(* says it observed, and the program, whose connections outlive it by      *)
(* whatever the fence was still doing for them.                            *)
(*                                                                         *)
(* Abstracted: a connection is made by the program the VM is running,      *)
(* through a client that the wrapper patches or one that it does not; pip  *)
(* is a program of its own; times are left out, so anything that waits may *)
(* end or be cut.                                                          *)
(***************************************************************************)
EXTENDS Naturals, Sequences, FiniteSets

CONSTANTS
  Conns,           \* connections of the guest, in all
  Hosts,           \* hosts the guest asks for
  Allow,           \* the allowlist
  LAB_HOSTS,       \* where the wrapper's own reports go
  MAX_CONNECTIONS,
  MaxPrograms,     \* bound: commands of the builder's run
  MaxRestarts      \* bound: the fence is started again

ASSUME FenceAssumption ==
  /\ IsFiniteSet(Conns) /\ Hosts # {}
  /\ Allow \subseteq Hosts /\ LAB_HOSTS \subseteq Allow /\ MAX_CONNECTIONS \in Nat \ {0}

VARIABLES
  conn,     \* [Conns -> [pc, host, by, patched]]
  fence,    \* the proxy: [active, by_host]
  stats,    \* STATS_PATH: what of by_host was written last, <<>> before the first
  restarts,
  command,  \* what the VM runs, n-th of the run: [n, pip, running, observed]
  before,   \* what the builder read of stats before the command
  coverage, \* what it made of it, one record per program
  truth     \* history: of the command: [opened, unpatched, late, disturbed]

fenceVars == <<conn, fence, stats, restarts, command, before, coverage, truth>>

NoHosts == [h \in Hosts |-> 0]
FreshFence == [active |-> 0, by_host |-> NoHosts]
NoTruth == [opened |-> FALSE, unpatched |-> FALSE, late |-> FALSE, disturbed |-> FALSE]

NoConn(pc) == [pc |-> pc, host |-> CHOOSE h \in Hosts : TRUE, by |-> 0, patched |-> TRUE]
Unused == NoConn("new")
Closed == NoConn("closed")

FenceInit ==
  /\ conn = [c \in Conns |-> Unused]
  /\ fence = FreshFence /\ stats = <<>> /\ restarts = 0
  /\ command = [n |-> 0, pip |-> FALSE, running |-> FALSE, observed |-> FALSE]
  /\ before = <<>> /\ coverage = <<>> /\ truth = NoTruth

Moved(c, pc) == conn' = [conn EXCEPT ![c].pc = pc]
Closes(c) == conn' = [conn EXCEPT ![c] = Closed]
Handled == {c \in Conns : conn[c].pc \in {"head", "opening", "tunnel"}}

\* Only the host is looked at, by its exact name; the port follows the method.
decide(host) == host \in Allow

\* Written aside and renamed; a disk that is full leaves what was there.
write_stats(by_host) == stats' \in {by_host, stats}

-----------------------------------------------------------------------------
(* A connection, and the fence's handler of it.                            *)

\* Too many at a time, and it is closed unheard.
HasRoom == fence.active < MAX_CONNECTIONS

\* The program opens one, and its slot is taken; a patched client's call is observed
\* whatever comes of it.
Opens(c, host, patched) ==
  /\ command.running /\ conn[c].pc = "new"
  /\ conn' = [conn EXCEPT ![c] =
       IF HasRoom THEN [pc |-> "head", host |-> host, by |-> command.n, patched |-> patched \/ command.pip]
       ELSE Closed]
  /\ fence' = [fence EXCEPT !.active = IF HasRoom THEN @ + 1 ELSE @]
  /\ command' = IF patched /\ ~command.pip /\ host \notin LAB_HOSTS
                THEN [command EXCEPT !.observed = TRUE] ELSE command
  /\ UNCHANGED <<stats, restarts, before, coverage, truth>>

\* The request line is read; it decides.
Decides(c) ==
  /\ conn[c].pc = "head"
  /\ IF decide(conn[c].host)
     THEN Moved(c, "opening") /\ UNCHANGED <<fence, stats>>
     ELSE /\ fence' = [fence EXCEPT !.active = @ - 1]
          /\ write_stats(fence.by_host) /\ Closes(c)
  /\ UNCHANGED <<restarts, command, before, coverage, truth>>

\* No head in time, a bad one, or a host that does not answer.
GivenUp(c) ==
  /\ conn[c].pc \in {"head", "opening"}
  /\ fence' = [fence EXCEPT !.active = @ - 1] /\ Closes(c)
  /\ UNCHANGED <<stats, restarts, command, before, coverage, truth>>

\* Asked for by the program that is running.
Own(c) == command.running /\ conn[c].by = command.n

\* The host answers: counted, then told to the guest, whether or not the program
\* that asked is still there.
Opened(c) ==
  /\ conn[c].pc = "opening"
  /\ fence' = [fence EXCEPT !.by_host[conn[c].host] = @ + 1]
  /\ write_stats(fence'.by_host)
  /\ truth' = [truth EXCEPT
       !.disturbed = @ \/ stats' # fence'.by_host,
       !.opened = @ \/ (Own(c) /\ conn[c].host \notin LAB_HOSTS),
       !.unpatched = @ \/ (Own(c) /\ ~conn[c].patched),
       !.late = @ \/ ~Own(c)]
  /\ Moved(c, "tunnel")
  /\ UNCHANGED <<restarts, command, before, coverage>>

\* One end of it closes, or one direction says nothing for IDLE_TIMEOUT: both go.
TunnelEnds(c) ==
  /\ conn[c].pc = "tunnel"
  /\ fence' = [fence EXCEPT !.active = @ - 1] /\ Closes(c)
  /\ UNCHANGED <<stats, restarts, command, before, coverage, truth>>

\* The fence is killed and started again: it counts from nothing, and the file says
\* what it said.
FenceRestarts ==
  /\ restarts < MaxRestarts /\ restarts' = restarts + 1
  /\ fence' = FreshFence
  /\ conn' = [c \in Conns |-> IF c \in Handled THEN Closed ELSE conn[c]]
  /\ truth' = [truth EXCEPT !.disturbed = TRUE]
  /\ UNCHANGED <<stats, command, before, coverage>>

-----------------------------------------------------------------------------
(* The builder's side.                                                     *)

\* The wrapper's own reports are counted too.
ConnectionsWithLab == stats

\* Hosts and their connections, without the lab's; nothing before the first.
_proxy_connections ==
  IF stats = <<>> THEN <<>> ELSE [h \in Hosts \ LAB_HOSTS |-> stats[h]]

\* pip installs what the program needs, or a program begins: what was counted so
\* far is read first.
CommandStarts(pip) ==
  /\ ~command.running /\ command.n < MaxPrograms
  /\ command' = [n |-> command.n + 1, pip |-> pip, running |-> TRUE, observed |-> FALSE]
  /\ before' = _proxy_connections
  /\ truth' = [NoTruth EXCEPT !.disturbed = stats # fence.by_host]
  /\ UNCHANGED <<conn, fence, stats, restarts, coverage>>

\* The program opened connections, to some host, and observed none.
Missed(per_host, observed) == per_host # {} /\ ~observed

\* A program that made nothing of a file it cannot read is not on the list; a number
\* that went down is no connection.
Covered(cut) ==
  LET after == _proxy_connections
      per_host == {h \in DOMAIN after : after[h] > before[h]}
      observed == command.observed /\ ~cut
  IN  IF before = <<>> \/ after = <<>> THEN coverage
      ELSE Append(coverage, [missed |-> Missed(per_host, observed), cut |-> cut,
                             observed |-> observed, truth |-> truth])

\* It ends by itself, or by the guest's clock and then without the wrapper's last
\* line.  Its side of every connection is gone with it, the fence's is not.
CommandEnds(cut) ==
  /\ command.running
  /\ command' = [command EXCEPT !.running = FALSE]
  /\ coverage' = IF command.pip THEN coverage ELSE Covered(cut)
  /\ UNCHANGED <<conn, fence, stats, restarts, before, truth>>

FenceNext ==
  \/ \E c \in Conns :
       \/ \E host \in Hosts, patched \in BOOLEAN : Opens(c, host, patched)
       \/ Decides(c) \/ GivenUp(c) \/ Opened(c) \/ TunnelEnds(c)
  \/ FenceRestarts
  \/ \E pip \in BOOLEAN : CommandStarts(pip)
  \/ \E cut \in BOOLEAN : CommandEnds(cut)

-----------------------------------------------------------------------------
(* Properties.                                                             *)

(* The fence knows how many connections it is busy with, through every     *)
(* refusal, failure and restart, never more than it may be, and nothing    *)
(* goes further than a host of the list.                                   *)
SlotsReturned ==
  /\ fence.active = Cardinality(Handled) /\ fence.active <= MAX_CONNECTIONS
  /\ \A c \in Conns : conn[c].pc \in {"opening", "tunnel"} => conn[c].host \in Allow

(* As long as the file says what the fence has counted, which it does not  *)
(* once a write failed or the fence was started again: a program that is   *)
(* put down as not observed did open a connection through a client nobody  *)
(* patches, or was cut before the wrapper could say what it saw, or was    *)
(* counted for a connection that an earlier command had asked for; and one *)
(* that opened some and observed none is put down.                         *)
MissesCaused ==
  \A i \in DOMAIN coverage :
    LET e == coverage[i]
    IN  ~e.truth.disturbed =>
          /\ e.missed => e.truth.unpatched \/ e.cut \/ e.truth.late
          /\ e.truth.opened /\ ~e.observed => e.missed

(* The fence's counts are right, and so is what the builder's coverage     *)
(* makes of them.                                                          *)
MissedHasCause == SlotsReturned /\ MissesCaused
=============================================================================
