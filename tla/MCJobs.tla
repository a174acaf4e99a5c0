---------------------------------- MODULE MCJobs ---------------------------------
EXTENDS Jobs

MCProviderOf == <<"groq", "ollama">>

MCTasks ==
  {[mode |-> "json",  kinds |-> <<"moving", "moving">>],
   [mode |-> "json",  kinds |-> <<"moving", "never">>],
   [mode |-> "json",  kinds |-> <<"enum">>],
   [mode |-> "list",  kinds |-> <<"moving">>],
   [mode |-> "prose", kinds |-> <<"moving", "moving">>],
   [mode |-> "prose", kinds |-> <<"absent", "moving">>]}

MCRun(at, arm, asks, answer, completed, cost, mark, attempts) ==
  [at |-> at, arm |-> arm, asks |-> asks, answer |-> answer, oom |-> FALSE,
   completed |-> completed, cost |-> cost, grade |-> mark, attempts |-> attempts,
   recovered |-> FALSE, advice |-> "none", skipped |-> FALSE, provider |-> FALSE]

MCRunsOf(asks) ==
  {MCRun(2, "opencode", asks, "text", TRUE, 1, "right", 0),
   MCRun(1, "opencode", asks, "text", FALSE, 2, "unchecked", 0),
   MCRun(2, "opencode", asks, "text", FALSE, 2, "wrong", 0),
   [MCRun(2, "opencode", asks, "silence", FALSE, 2, "malformed", 0) EXCEPT !.oom = TRUE],
   [MCRun(2, "real", asks, "silence", TRUE, 1, "none", 2) EXCEPT !.recovered = TRUE],
   [MCRun(1, "real", asks, "harness", FALSE, 1, "unchecked", 2) EXCEPT !.provider = TRUE],
   MCRun(2, "real", asks, "cap", FALSE, 0, "none", 0),
   [MCRun(2, "test", asks, "text", TRUE, 2, "unchecked", 2) EXCEPT !.provider = TRUE]}

MCRunKinds ==
  MCRunsOf(TRUE) \cup MCRunsOf(FALSE) \cup
  {[MCRun(2, "real", TRUE, "text", TRUE, 1, "right", 2) EXCEPT !.recovered = TRUE, !.advice = "fix"],
   [MCRun(2, "real", TRUE, "text", TRUE, 2, "right", 1) EXCEPT !.advice = "skip", !.skipped = TRUE]}

MCEvent(kind, tool, state, http, advice) ==
  [kind |-> kind, tool |-> tool, state |-> state, http |-> http, advice |-> advice]

MCOcEvents ==
  {MCEvent("tool", "bash", "fine", TRUE, TRUE), MCEvent("tool", "edit", "error", FALSE, FALSE),
   MCEvent("tool", "failecho", "exit", FALSE, FALSE), MCEvent("tool", "bash", "fine", FALSE, FALSE),
   MCEvent("step", "edit", "fine", FALSE, FALSE), MCEvent("error", "edit", "fine", FALSE, FALSE)}
=============================================================================
