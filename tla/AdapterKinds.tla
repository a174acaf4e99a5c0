------------------------------ MODULE AdapterKinds ------------------------------
(***************************************************************************)
(* What stands between an agent and the network on the agent's machine,    *)
(* under one specification and one of them at a time: the three adapters   *)
(* that see only how calls end, the older clients, and the watched browser *)
(* page.                                                                   *)
(***************************************************************************)
EXTENDS ClaudeHook, OpenCodePlugin, NpmProxy, Clients, WatchedPage

toolVars   == <<adapterVars, claudeVars, openVars, npmVars>>
callerVars == <<clientVars, pageVars>>
vars       == <<toolVars, callerVars>>

Init ==
  /\ kind \in {"claude", "opencode", "npm", "client", "page"}
  /\ AgentInit /\ ClaudeInit /\ OpenInit /\ NpmInit
  /\ ClientInit /\ PageInit

ToolAdapter ==
  /\ \/ kind = "claude"   /\ ClaudeNext /\ UNCHANGED <<openVars, npmVars>>
     \/ kind = "opencode" /\ OpenNext   /\ UNCHANGED <<claudeVars, npmVars>>
     \/ kind = "npm"      /\ NpmNext    /\ UNCHANGED <<claudeVars, openVars>>
  /\ UNCHANGED callerVars

Caller ==
  /\ \/ kind = "client" /\ ClientNext /\ UNCHANGED pageVars
     \/ kind = "page"   /\ PageNext   /\ UNCHANGED clientVars
  /\ UNCHANGED toolVars

Next == ToolAdapter \/ Caller

Spec == Init /\ [][Next]_vars

Settled(c) ==
  CASE kind = "claude"   -> ClaudeSettled(c)
    [] kind = "opencode" -> OpenSettled(c)
    [] OTHER             -> NpmSettled(c)

-----------------------------------------------------------------------------
(* Properties.                                                             *)

(* The plugin and the proxy credit one call, at most, with the recovery    *)
(* from a failure; the hook may credit two that ended at the same time.    *)
CreditedOnce ==
  IF kind = "claude" THEN ClaudeCreditsOnce
  ELSE \A f \in Calls : Cardinality(Credited(f)) <= 1

(* A recovery is not lost to timing: when an adapter is done with a call   *)
(* that it took for another try, the outcome was sent, if the failure's    *)
(* fingerprint ever became known, in whatever order the call and the       *)
(* answer came; the hook alone gives up with the first request that fails. *)
NoRecoveryLostToTiming ==
  \A x \in earned :
    Settled(x[1]) /\ x[2] \in told /\ ~hook[x[1]].down => x \in sent

(* An outcome is earned, and earned once.                                  *)
CreditEarned == OutcomesEarned /\ CreditedOnce

(* Nor is an answer: what the proxy was given for its client it has passed *)
(* on when it ends.                                                        *)
NothingLostToTiming == NoRecoveryLostToTiming /\ AnsweredBeforeDone
=============================================================================
