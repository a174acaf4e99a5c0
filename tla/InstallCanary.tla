------------------------------ MODULE InstallCanary ------------------------------
(***************************************************************************)
(* The install canary (failecho_sandbox/canary.py): once a day a clean VM  *)
(* goes through every install path the setup page advertises, and one file *)
(* says whether they all work.  A step that fails ends what depends on it, *)
(* so a green report is only worth something if nothing ends without one.  *)
(***************************************************************************)
EXTENDS Naturals, Sequences, FiniteSets, SequencesExt

CONSTANT MaxCanaries \* bound: days

VARIABLES
  canary,  \* today's run: [pc, todo, filed, ok], "ok" if all its steps are
  worked,  \* history: how many steps really worked today
  report,  \* canary.json: [ok, worked]
  canaries \* days so far

canaryVars == <<canary, worked, report, canaries>>

\* The steps in their order.
Steps == <<"venv", "pip_autoreport", "import_autoreport", "check", "run",
           "pip_mcp", "import_mcp", "handshake", "npx", "uvx",
           "llamaindex_venv", "pip_llamaindex", "llamaindex",
           "langchain_venv", "pip_langchain", "langchain",
           "otlp_venv", "pip_otlp", "otlp">>

\* What is not tried once a step has failed.
Ends(name) ==
  CASE name = "venv"             -> ToSet(Steps)
    [] name = "pip_autoreport"   -> {"import_autoreport"}
    [] name = "pip_mcp"          -> {"import_mcp", "handshake"}
    [] name = "llamaindex_venv"  -> {"pip_llamaindex", "llamaindex"}
    [] name = "pip_llamaindex"   -> {"llamaindex"}
    [] name = "langchain_venv"   -> {"pip_langchain", "langchain"}
    [] name = "pip_langchain"    -> {"langchain"}
    [] name = "otlp_venv"        -> {"pip_otlp", "otlp"}
    [] name = "pip_otlp"         -> {"otlp"}
    [] OTHER                     -> {}

\* The venv of a path is only a step when it failed.
Silent == {"llamaindex_venv", "langchain_venv", "otlp_venv"}

NoReport == [ok |-> FALSE, worked |-> 0]

CanaryInit ==
  /\ canary = [pc |-> "off", todo |-> <<>>, filed |-> 0, ok |-> TRUE]
  /\ worked = 0 /\ report = NoReport /\ canaries = 0

CanaryStarts ==
  /\ canary.pc = "off" /\ canaries < MaxCanaries
  /\ canaries' = canaries + 1
  /\ canary' = [pc |-> "running", todo |-> Steps, filed |-> 0, ok |-> TRUE]
  /\ worked' = 0
  /\ UNCHANGED report

\* A venv that cannot be made is nobody's step.
FiledUnlessSilent(name, ok) == name \notin Silent

StepFiled(name, ok) == name \notin Silent \/ ~ok

\* What the step sees of whether it worked: an export is only believed when the lab
\* knows the failure, whatever the exporter printed.
Believed(name, works, printed) == IF name = "otlp" THEN printed /\ works ELSE works

_framework_step(works, printed) ==
  /\ canary.pc = "running" /\ canary.todo # <<>>
  /\ LET name == Head(canary.todo)
         ok   == Believed(name, works, printed)
     IN  /\ canary' = [canary EXCEPT
              !.filed = IF StepFiled(name, ok) THEN @ + 1 ELSE @,
              !.ok = @ /\ (StepFiled(name, ok) => ok),
              !.todo = IF ok THEN Tail(@) ELSE SelectSeq(Tail(@), LAMBDA s : s \notin Ends(name))]
         /\ worked' = IF works THEN worked + 1 ELSE worked
  /\ UNCHANGED <<report, canaries>>

\* No VM, or it is lost on the way: the steps so far are lost with it.
CanaryError ==
  /\ canary.pc = "running"
  /\ report' = [ok |-> FALSE, worked |-> worked]
  /\ canary' = [canary EXCEPT !.pc = "off"]
  /\ UNCHANGED <<worked, canaries>>

\* systemd's clock or a stop: nothing is written.
CanaryKilled ==
  /\ canary.pc = "running"
  /\ canary' = [canary EXCEPT !.pc = "off"]
  /\ UNCHANGED <<worked, report, canaries>>

CanaryReports ==
  /\ canary.pc = "running" /\ canary.todo = <<>>
  /\ report' = [ok |-> canary.filed > 0 /\ canary.ok, worked |-> worked]
  /\ canary' = [canary EXCEPT !.pc = "off"]
  /\ UNCHANGED <<worked, canaries>>

CanaryNext ==
  \/ CanaryStarts
  \/ \E works, printed \in BOOLEAN : _framework_step(works, printed)
  \/ CanaryError \/ CanaryKilled \/ CanaryReports

-----------------------------------------------------------------------------
(* A green report means that every path was tried that day, and worked.    *)
GreenMeansWorked == report.ok => report.worked = Len(Steps)
=============================================================================
