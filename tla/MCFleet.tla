------------------------------ MODULE MCFleet ------------------------------
EXTENDS FleetRun

CONSTANTS p1

Position(path, provider, slow) == [path |-> path, provider |-> provider, slow |-> slow]

\* One persona with a model and one without in the light lane, OpenCode twins
\* in the other.
MCPositions == <<Position("decorator", p1, FALSE), Position("decorator", None, TRUE),
                Position("opencode", p1, TRUE), Position("opencode", p1, TRUE)>>
MCLanePersonas == [light |-> <<1, 2>>, vm |-> <<3, 4>>]
MCOpenCode == <<3, 4>>
MCTwins == {{3, 4}}
MCCap      == [p \in {p1} |-> 1]
MCLightCap == [p \in {p1} |-> 1]

Models(models_, alts) == [models |-> models_, alt_models |-> alts]
Persona(path, asks, role, p) == [path |-> path, asks |-> asks, role |-> role, provider |-> p]
Failure(error, quota, reset) == [error |-> error, quota |-> quota, reset |-> reset]
Tried(attempts, successes) == [attempts |-> attempts, successes |-> successes]

\* One provider lists its model among the alternatives, one has no alternative.
Both   == Models(<<"m">>, <<"a", "m">>)
Single == Models(<<"m">>, <<>>)

MCPersonas ==
  {Persona("decorator", TRUE, "plain", Both), Persona("decorator", FALSE, "plain", Both),
   Persona("decorator", TRUE, "explorer", Both), Persona("decorator", TRUE, "local", Both),
   Persona("decorator", FALSE, "local", Single), Persona("wrapped", TRUE, "plain", Both),
   Persona("builder", TRUE, "plain", Both), Persona("cron", TRUE, "explorer", Single)}

\* A daily wall, a limit with a reset header, an outage and a refusal.
MCExceptions ==
  {Failure("rate_limit", TRUE, FALSE), Failure("rate_limit", FALSE, TRUE),
   Failure("server_error", FALSE, FALSE), Failure("auth_error", FALSE, FALSE)}

\* The network is silent, has nothing, says skip before and after every action
\* was tried often enough, or recommends.
MCAdvices ==
  {[action |-> None, evidence |-> <<>>],
   [action |-> "skip", evidence |-> [retry |-> Tried(1, 0)]],
   [action |-> "skip", evidence |-> [a \in {"retry", "switch_model", "backoff", "wait_until_reset"} |->
                                       Tried(EXPLORE_UNTIL_ATTEMPTS, 0)]],
   [action |-> "switch_model", evidence |-> <<>>],
   [action |-> "reconnect", evidence |-> <<>>]}
=============================================================================
