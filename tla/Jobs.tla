----------------------------------- MODULE Jobs ----------------------------------
(***************************************************************************)
(* The operator's jobs beside the fleet's own loop, under one              *)
(* specification and one of them at a time: they share nothing but the     *)
(* machine, so any interleaving of two is one of each.                     *)
(***************************************************************************)
EXTENDS Mirror, SandboxVM, Onboarding, OperatorAgent, Grading, Scoreboard, SetupTest,
        Fence, OpenCodeRun, InstallCanary

VARIABLE part

machineVars == <<mirrorVars, sandboxVars, canaryVars, fenceVars>>
testVars    == <<onboardVars, setupVars, agentVars>>
labVars     == <<gradingVars, filed, ocVars>>
vars        == <<part, machineVars, testVars, labVars>>

Init ==
  /\ part \in {"mirror", "sandbox", "canary", "fence", "onboarding", "setup", "agent",
               "grading", "scoreboard", "opencode"}
  /\ MirrorInit /\ SandboxInit /\ CanaryInit /\ FenceInit
  /\ OnboardInit /\ SetupInit /\ AgentInit
  /\ GradingInit /\ ScoreboardInit /\ OpenCodeInit

Mirroring  == part = "mirror" /\ MirrorNext /\ UNCHANGED <<sandboxVars, canaryVars, fenceVars>>
Sandboxed  == part = "sandbox" /\ SandboxNext /\ UNCHANGED <<mirrorVars, canaryVars, fenceVars>>
Installing == part = "canary" /\ CanaryNext /\ UNCHANGED <<mirrorVars, sandboxVars, fenceVars>>
Fencing    == part = "fence" /\ FenceNext /\ UNCHANGED <<mirrorVars, sandboxVars, canaryVars>>
Machine    == (Mirroring \/ Sandboxed \/ Installing \/ Fencing) /\ UNCHANGED <<testVars, labVars>>

Onboards  == part = "onboarding" /\ OnboardNext /\ UNCHANGED <<setupVars, agentVars>>
SettingUp == part = "setup" /\ SetupNext /\ UNCHANGED <<onboardVars, agentVars>>
Operating == part = "agent" /\ AgentNext /\ UNCHANGED <<onboardVars, setupVars>>
Tests     == (Onboards \/ SettingUp \/ Operating) /\ UNCHANGED <<machineVars, labVars>>

Checking == part = "grading" /\ GradingNext /\ UNCHANGED <<filed, ocVars>>
Scoring  == part = "scoreboard" /\ ScoreboardNext /\ UNCHANGED <<gradingVars, ocVars>>
Coding   == part = "opencode" /\ OpenCodeNext /\ UNCHANGED <<gradingVars, filed>>
Lab      == (Checking \/ Scoring \/ Coding) /\ UNCHANGED <<machineVars, testVars>>

Next == (Machine \/ Tests \/ Lab) /\ UNCHANGED part

Spec == Init /\ [][Next]_vars

OnboardingSpec == Init /\ part = "onboarding" /\ [][Next]_vars /\ OnboardFairness
=============================================================================
