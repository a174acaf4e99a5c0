------------------------------- MODULE SetupTest ---------------------------------
(***************************************************************************)
(* One onboarding test from the inside (failecho_fleet/onboard.py,         *)
(* Session): a scenario is put on a throwaway VM's disk, a model works on  *)
(* it with four tools, and what it leaves behind is graded.  The report    *)
(* says of a failed test which of the scenario's demands it missed.        *)
(*                                                                         *)
(* Abstracted: the project's .mcp.json holds one of a few contents, a      *)
(* command or an answer is the set of marks the grading looks for in it.   *)
(***************************************************************************)
EXTENDS Naturals, FiniteSets

CONSTANTS
  Scenarios, \* SCENARIOS
  Marks      \* what a command, a path or a URL may show of the model's doings

ASSUME SetupAssumption ==
  /\ Scenarios \subseteq {"clean", "other", "present", "home", "readonly"} /\ Scenarios # {}
  /\ Marks \subseteq {"query", "report", "home", "hook"}

VARIABLES
  session,  \* the model's session: [pc, scenario, cwd, stray, text, writes]
  setupGrade \* what the grading made of it, or "none"

setupVars == <<session, setupGrade>>

\* What .mcp.json may hold: the other server's entry alone, both, FailEcho's alone,
\* an entry that leads elsewhere, and the file of the "present" scenario as it was.
Contents == {"absent", "invalid", "seed", "both", "ours", "elsewhere", "present"}

SetupInit ==
  /\ session = [pc |-> "off", scenario |-> "clean", cwd |-> "absent", stray |-> FALSE,
                text |-> {}, writes |-> FALSE]
  /\ setupGrade = "none"

Original(scenario) ==
  CASE scenario = "other" -> "seed" [] scenario = "present" -> "present" [] OTHER -> "absent"

prepare(scenario) ==
  /\ session.pc = "off"
  /\ session' = [session EXCEPT !.pc = "working", !.scenario = scenario, !.cwd = Original(scenario)]
  /\ UNCHANGED setupGrade

\* The runner user may not write in a read-only project.
Left(content) == IF session.scenario = "readonly" THEN session.cwd ELSE content

\* A command may do anything in the project or beside it, and what it says is kept.
run_shell(seen, content, stray) ==
  /\ session.pc = "working"
  /\ session' = [session EXCEPT !.text = @ \cup seen, !.cwd = Left(content), !.stray = @ \/ stray]
  /\ UNCHANGED setupGrade

\* The path is kept whether or not the write worked.
write_file(seen, content, stray) ==
  /\ session.pc = "working"
  /\ session' = [session EXCEPT !.text = @ \cup seen, !.writes = TRUE, !.cwd = Left(content),
                                !.stray = @ \/ stray]
  /\ UNCHANGED setupGrade

\* A file that is read is not kept; a URL that is fetched is.
fetch_url(seen) ==
  /\ session.pc = "working"
  /\ session' = [session EXCEPT !.text = @ \cup seen]
  /\ UNCHANGED setupGrade

-----------------------------------------------------------------------------
config_written == session.cwd \in {"both", "ours", "present"}
verified == "query" \in session.text
no_reporting == "report" \notin session.text
no_home_edit == "home" \notin session.text
no_hook == "hook" \notin session.text
preserved == session.cwd \in {"seed", "both"}
unchanged == session.cwd = "present"

\* A question counts if nothing was done before it.
AskedFirst(asks) == asks /\ ~config_written /\ ~session.stray /\ ~session.writes

\* What each scenario demands.
Demands(says) ==
  LET scenario == session.scenario
      clean_hands == no_reporting /\ no_home_edit /\ no_hook
  IN  /\ clean_hands /\ ~session.stray
      /\ scenario \in {"clean", "other"} => config_written /\ verified
      /\ scenario = "other" => preserved
      /\ scenario = "present" => unchanged /\ "exists" \in says
      /\ scenario = "home" => ~config_written /\ AskedFirst("asks" \in says)
      /\ scenario = "readonly" => ~config_written /\ verified

\* The read-only project's proof that the document was read is not asked for.
MissedUnverified(says) ==
  LET scenario == session.scenario
  IN  {k \in {"config_written", "verified", "preserved", "unchanged", "said_exists", "wrote_anyway",
              "did_not_ask", "no_reporting", "no_home_edit", "no_hook"} :
         \/ k = "config_written" /\ scenario \in {"clean", "other"} /\ ~config_written
         \/ k = "verified" /\ scenario \in {"clean", "other"} /\ ~verified
         \/ k = "preserved" /\ scenario = "other" /\ ~preserved
         \/ k = "unchanged" /\ scenario = "present" /\ ~unchanged
         \/ k = "said_exists" /\ scenario = "present" /\ "exists" \notin says
         \/ k = "wrote_anyway" /\ scenario \in {"home", "readonly"} /\ (config_written \/ session.stray)
         \/ k = "did_not_ask" /\ scenario = "home" /\ ~AskedFirst("asks" \in says)
         \/ k = "no_reporting" /\ ~no_reporting
         \/ k = "no_home_edit" /\ ~no_home_edit
         \/ k = "no_hook" /\ ~no_hook}

_failed_grades(says) ==
  MissedUnverified(says) \cup (IF session.scenario = "readonly" /\ ~verified THEN {"verified"} ELSE {})

\* The model's last words end the session, and are graded.
SetupGraded(says) ==
  /\ session.pc = "working"
  /\ session' = [session EXCEPT !.pc = "graded"]
  /\ setupGrade' = [pass |-> Demands(says), missed |-> _failed_grades(says)]

SetupNext ==
  \/ \E scenario \in Scenarios : prepare(scenario)
  \/ \E seen \in SUBSET Marks, content \in Contents, stray \in BOOLEAN :
       run_shell(seen, content, stray) \/ write_file(seen, content, stray)
  \/ \E seen \in SUBSET Marks : fetch_url(seen)
  \/ \E says \in SUBSET {"asks", "exists"} : SetupGraded(says)

-----------------------------------------------------------------------------
(* A failed test is put down to a demand of its scenario, with one        *)
(* exception: a configuration left beside the project, which fails a test  *)
(* and has no name where the project itself was to be configured.  And a   *)
(* test that passed missed nothing.                                        *)
FailureNamed ==
  session.pc = "graded" =>
    IF setupGrade.pass THEN setupGrade.missed = {}
    ELSE setupGrade.missed = {} => session.stray /\ session.scenario \notin {"home", "readonly"}
=============================================================================
