------------------------------ MODULE FleetPlans ------------------------------
(***************************************************************************)
(* What the fleet's personas try after a failure: the tables of actions,   *)
(* the plan of the local arm and the choice of an explorer                 *)
(* (failecho_fleet).                                                       *)
(*                                                                         *)
(* A failure is [error, quota, reset]: its class, whether the body names a *)
(* daily quota, whether a header says when to come back.  Evidence is a    *)
(* function from the actions somebody has tried to [attempts, successes].  *)
(***************************************************************************)
EXTENDS Naturals, Sequences, SequencesExt

CONSTANTS
  None,
  EXPLORE_UNTIL_ATTEMPTS

PROVIDER_ACTIONS ==
  [rate_limit       |-> <<"wait_until_reset", "backoff", "switch_model">>,
   validation_error |-> <<"retry_without_tool_choice", "switch_model", "retry">>,
   server_error     |-> <<"retry", "switch_model", "backoff">>,
   timeout          |-> <<"retry", "switch_model">>,
   connection_error |-> <<"retry", "backoff">>]

TOOL_ACTIONS ==
  [rate_limit       |-> <<"backoff", "wait_until_reset">>,
   auth_error       |-> <<"wait_until_reset">>,
   server_error     |-> <<"retry", "backoff">>,
   timeout          |-> <<"retry">>,
   connection_error |-> <<"retry">>]

KNOWN_ACTIONS == {"backoff", "retry", "refresh_schema", "skip", "wait_until_reset",
                  "switch_model", "retry_without_tool_choice", "conditional_request"}

\* The naive control at a tool.
DefaultAction ==
  [rate_limit |-> "backoff", server_error |-> "retry", timeout |-> "retry",
   connection_error |-> "retry"]

Candidates(table, error) == IF error \in DOMAIN table THEN table[error] ELSE <<>>

\* consecutive: failures of this model since its last retry that worked.
local_plan(failure, consecutive) ==
  CASE failure.error \in {"auth_error", "not_found"} -> <<>>
    [] failure.error = "validation_error" -> <<"retry_without_tool_choice">>
    [] failure.error = "rate_limit" /\ failure.quota -> <<"switch_model">>
    [] failure.error = "rate_limit" /\ ~failure.quota ->
         IF failure.reset THEN <<"wait_until_reset", "switch_model">>
                          ELSE <<"backoff", "switch_model">>
    [] failure.error \in {"server_error", "timeout", "connection_error"} ->
         IF consecutive >= 2 THEN <<"switch_model", "backoff">> ELSE <<"backoff", "switch_model">>
    [] OTHER -> <<"retry">>

AtLeastOne(n) == IF n = 0 THEN 1 ELSE n

\* The better success rate, and the less tried on a tie.
Promising(a, b) ==
  LET left  == a.successes * AtLeastOne(b.attempts)
      right == b.successes * AtLeastOne(a.attempts)
  IN  left > right \/ (left = right /\ a.attempts < b.attempts)

\* The candidates, by position, that nobody has tried, and those below the floor.
NotTried(candidates, evidence) == {i \in DOMAIN candidates : candidates[i] \notin DOMAIN evidence}

BelowFloor(candidates, evidence) ==
  {i \in DOMAIN candidates : evidence[candidates[i]].attempts < EXPLORE_UNTIL_ATTEMPTS}

EarliestOf(I) == CHOOSE i \in I : \A j \in I : i <= j

\* Of some positions the most promising, and the first of those.
MostPromising(I, candidates, evidence) ==
  CHOOSE i \in I : \A j \in I \ {i} :
    /\ ~Promising(evidence[candidates[j]], evidence[candidates[i]])
    /\ j < i => Promising(evidence[candidates[i]], evidence[candidates[j]])

\* Every action is tried once, and that is all.
ExploreOnce(candidates, evidence) ==
  LET untried == NotTried(candidates, evidence)
  IN  IF untried # {} THEN candidates[EarliestOf(untried)] ELSE None

explore(candidates, evidence) ==
  LET untried == NotTried(candidates, evidence)
      open    == BelowFloor(candidates, evidence)
  IN  IF untried # {} THEN candidates[EarliestOf(untried)]
      ELSE IF open = {} THEN None
      ELSE candidates[MostPromising(open, candidates, evidence)]
=============================================================================
