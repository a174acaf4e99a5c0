------------------------------- MODULE ClaudeHook -------------------------------
(***************************************************************************)
(* The Claude Code hook (plugin/hooks/failecho_hook.py): a process for     *)
(* every call that ended, several at a time, which know of each other only *)
(* through a file per session and tool, written beside it and renamed.     *)
(*                                                                         *)
(* Not modelled: names of servers and packages (a call without one is left *)
(* alone), the note for the model, the reporter id, and that writing the   *)
(* temporary file is itself more than one step.                            *)
(***************************************************************************)
EXTENDS Adapters

CONSTANT Abreast   \* bound: hooks at a time

VARIABLES
  hook,      \* [Calls -> [pc, previous, down]]
  pending,   \* the files: session and tool -> the failure in it, or None
  tmp,       \* the files beside them
  together   \* history: pairs of calls whose hooks ran at the same time

claudeVars == <<hook, pending, tmp, together>>

Keys == Sessions \X Tools
Key(c) == <<Shape(c).session, Shape(c).tool>>

ClaudeInit ==
  /\ hook = [c \in Calls |-> [pc |-> "none", previous |-> None, down |-> FALSE]]
  /\ pending = [k \in Keys |-> None] /\ tmp = [k \in Keys |-> None]
  /\ together = {}

Alive == {c \in Calls : hook[c].pc \notin {"none", "done"}}

HookStarts(c) ==
  /\ Cardinality(Alive) < Abreast
  /\ \E s \in Shapes, v \in Failures \cup {"ok"} :
       /\ Ends(c, s, v)
       /\ hook' = [hook EXCEPT ![c].pc = IF v = "ok" THEN "succeeded" ELSE "load"]
  /\ together' = together \cup {{c, d} : d \in Alive}
  /\ UNCHANGED <<historyVars, pending, tmp>>

\* After a request that failed no other is made.
AfterPost(c, answered, next) ==
  hook' = [hook EXCEPT ![c].pc = next, ![c].down = ~answered]

\* A report or a question: its answer has the fingerprint.
post(c, next) ==
  IF hook[c].down
  THEN /\ hook' = [hook EXCEPT ![c].pc = next]
       /\ UNCHANGED historyVars
  ELSE \E answered \in BOOLEAN :
         /\ IF Verdict(c) = "ok" THEN UNCHANGED <<known, outcomes>> ELSE PostReport(c, answered)
         /\ told' = IF answered /\ Verdict(c) # "ok" THEN told \cup {c} ELSE told
         /\ AfterPost(c, answered, next)
         /\ UNCHANGED <<earned, sent>>

\* What is in the file, unless it is too old.
Load(c, next) ==
  /\ \E previous \in {pending[Key(c)], None} :
       /\ hook' = [hook EXCEPT ![c].pc = next, ![c].previous = previous]
       /\ earned' = IF previous = None THEN earned ELSE earned \cup {<<c, previous>>}
  /\ UNCHANGED <<known, outcomes, told, sent>>

\* What had failed failed again, or works.
SendOutcome(c, next) ==
  LET f == hook[c].previous
  IN  IF f = None \/ hook[c].down
      THEN hook' = [hook EXCEPT ![c].pc = next] /\ UNCHANGED historyVars
      ELSE /\ \E answered \in BOOLEAN : /\ PostOutcome(c, f, Fingerprint(f), answered)
                                       /\ AfterPost(c, answered, next)
           /\ sent' = sent \cup {<<c, f>>}
           /\ UNCHANGED <<told, earned>>

\* The file is written beside the one it then replaces.
Save(c) ==
  \/ /\ hook[c].pc = "write"
     /\ IF c \in told
        THEN hook' = [hook EXCEPT ![c].pc = "rename"] /\ tmp' = [tmp EXCEPT ![Key(c)] = c]
        ELSE hook' = [hook EXCEPT ![c].pc = "done"] /\ UNCHANGED tmp
     /\ UNCHANGED pending
  \/ /\ hook[c].pc = "rename"
     /\ pending' = IF tmp[Key(c)] = None THEN pending
                   ELSE [pending EXCEPT ![Key(c)] = tmp[Key(c)]]
     /\ tmp' = [tmp EXCEPT ![Key(c)] = None]
     /\ hook' = [hook EXCEPT ![c].pc = "done"]

\* The question comes before the report, the outcome of the failure before after it.
on_failure(c) ==
  /\ \/ /\ \/ hook[c].pc = "load"    /\ Load(c, "query")
           \/ hook[c].pc = "query"   /\ post(c, "observe")
           \/ hook[c].pc = "observe" /\ post(c, "retried")
           \/ hook[c].pc = "retried" /\ SendOutcome(c, "write")
        /\ UNCHANGED <<pending, tmp>>
     \/ Save(c) /\ UNCHANGED historyVars
  /\ UNCHANGED <<agentVars, together>>

ClearPending(c) ==
  pending' = IF hook[c].previous = None THEN pending ELSE [pending EXCEPT ![Key(c)] = None]

on_success(c) ==
  /\ \/ /\ \/ hook[c].pc = "succeeded" /\ post(c, "reload")
           \/ hook[c].pc = "reload"    /\ Load(c, "worked")
           \/ hook[c].pc = "worked"    /\ SendOutcome(c, "clear")
        /\ UNCHANGED pending
     \/ /\ hook[c].pc = "clear"
        /\ ClearPending(c)
        /\ hook' = [hook EXCEPT ![c].pc = "done"]
        /\ UNCHANGED historyVars
  /\ UNCHANGED <<agentVars, tmp, together>>

ClaudeNext == \E c \in Calls : HookStarts(c) \/ on_failure(c) \/ on_success(c)

ClaudeSettled(c) == hook[c].pc = "done"

-----------------------------------------------------------------------------
(* Properties.                                                             *)

(* A failure is recovered from once, by a call that ended after it: two    *)
(* calls are credited with the same one, or a call with a later one, only  *)
(* when their hooks ran at the same time.                                  *)
ClaudeCreditsOnce ==
  \A f \in Calls :
    /\ \A o, p \in Credited(f) : o.call # p.call => {o.call, p.call} \in together
    /\ \A o \in Credited(f) : o.call < f => {o.call, f} \in together
=============================================================================
