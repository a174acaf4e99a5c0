------------------------------- MODULE WatchedPage -------------------------------
(***************************************************************************)
(* The browser adapter (failecho_commerce/browser.py): a page object whose *)
(* steps are watched.  A step that raised, and one that returned a page    *)
(* with an error status, is classified by what the page shows and what the *)
(* driver said, reported as a shape, and answered with advice; a failure   *)
(* of the account's is dropped.                                            *)
(*                                                                         *)
(* Abstracted: a page is its status, its shape and the signs in its text;  *)
(* one account-side class stands for all; latency.                         *)
(***************************************************************************)
EXTENDS Naturals, FiniteSets

CONSTANTS
  Steps,          \* OPERATIONS
  SENSITIVE_STEPS,
  Versions,       \* shapes of pages
  Statuses,       \* 0: the driver does not say
  NetworkActions, \* what the network may recommend
  MaxSteps        \* bound: steps of the agent

ASSUME PageAssumption ==
  /\ SENSITIVE_STEPS \subseteq Steps /\ Statuses \subseteq Nat /\ MaxSteps \in Nat
  /\ "unread" \notin Versions /\ "none" \notin Versions \cup NetworkActions

Signs == {"account", "challenge", "sold_out", "cookies"}
Pages == [version : Versions, signs : SUBSET Signs, status : Statuses, readable : BOOLEAN]
Words == {"element_missing", "navigation_timeout", "server_error", "other"}

VARIABLES
  shapes,      \* _shapes: [Steps -> a shape, or "none" for a step that has not failed]
  last_advice,
  step,        \* what the last step did: [op, page, raised, sent, advice], or NoStep
  steps        \* history: how many steps there were

pageVars == <<shapes, last_advice, step, steps>>

NoStep == [op |-> "none", page |-> CHOOSE p \in Pages : TRUE, raised |-> "none", sent |-> "none", advice |-> "none"]
Unseen == [op \in Steps |-> "none"]

PageInit == shapes = Unseen /\ last_advice = "none" /\ step = NoStep /\ steps = 0

-----------------------------------------------------------------------------
(* The taxonomy.                                                           *)

ACCOUNT_SIDE == {"payment_declined"}

\* A page that cannot be read has no text, and the shape of an empty one.
Text(page) == IF page.readable THEN page.signs ELSE {}
structure_hash(page) == IF page.readable THEN page.version ELSE "unread"

\* Account-side classes are not among its answers.
classify_page(status, text) ==
  IF status = 403 /\ "challenge" \in text THEN "bot_challenge"
  ELSE IF status \in {401, 403} THEN "auth_wall"
  ELSE IF status = 429 THEN "rate_limit"
  ELSE IF status >= 500 THEN "server_error"
  ELSE IF "sold_out" \in text THEN "out_of_stock"
  ELSE IF "cookies" \in text THEN "consent_wall"
  ELSE "element_missing"

PageClass(page) == classify_page(IF page.status = 0 THEN 200 ELSE page.status, Text(page))

\* The classes by which a page explains that an element is missing.
Telling == {"bot_challenge", "consent_wall", "auth_wall", "out_of_stock", "rate_limit"}

ClassOfWords(words) == IF words = "other" THEN "element_missing" ELSE words

\* Fault: the overlay is looked for before what the page says of the account.
OverlayFirst(page, words) ==
  IF PageClass(page) \in Telling THEN PageClass(page)
  ELSE IF "account" \in Text(page) THEN "payment_declined" ELSE ClassOfWords(words)

\* The page first, then the driver's words.
classify_exception(page, words) ==
  IF "account" \in Text(page) THEN "payment_declined"
  ELSE IF PageClass(page) \in Telling THEN PageClass(page) ELSE ClassOfWords(words)

advice_for(class, changed) ==
  CASE class = "bot_challenge" -> "use_site_api"
    [] class \in {"server_error", "navigation_timeout", "rate_limit"} -> "wait_and_retry"
    [] class = "consent_wall" -> "dismiss_overlay"
    [] class = "auth_wall" -> "re_authenticate"
    [] class = "out_of_stock" -> "abandon"
    [] class = "element_missing" -> IF changed THEN "human_handoff" ELSE "reload"

\* The network's answer, if it has one.
_advice_line(class, changed, answer) == IF answer # "none" THEN answer ELSE advice_for(class, changed)

-----------------------------------------------------------------------------
Takes(op, page, raised, sent, advice) ==
  /\ step = NoStep /\ steps < MaxSteps /\ steps' = steps + 1
  /\ step' = [op |-> op, page |-> page, raised |-> raised, sent |-> sent, advice |-> advice]

\* Nothing is sent, and the advice of an earlier failure stays.
Drops(op, page, raised) ==
  Takes(op, page, raised, "nothing", "none") /\ UNCHANGED <<shapes, last_advice>>

\* A report, its shape remembered, and advice.
Reports(op, page, raised, class, answer) ==
  LET changed == shapes[op] \notin {"none", structure_hash(page)}
      advice  == _advice_line(class, changed, answer)
  IN  /\ Takes(op, page, raised, class, advice)
      /\ shapes' = [shapes EXCEPT ![op] = structure_hash(page)]
      /\ last_advice' = advice

_handle(op, page, words, answer) ==
  LET class == classify_exception(page, words)
  IN  IF class \in ACCOUNT_SIDE THEN Drops(op, page, words)
      ELSE Reports(op, page, words, class, answer)

_silent_failure(op, page, answer) == Reports(op, page, "nothing", PageClass(page), answer)

\* A page that says no with a friendly sentence is no success either; only where it
\* may is the page read.
_succeeded(op, page, answer) ==
  IF page.status >= 400 THEN _silent_failure(op, page, answer)
  ELSE IF op \in SENSITIVE_STEPS /\ classify_exception(page, "other") \in ACCOUNT_SIDE
       THEN Drops(op, page, "nothing")
       ELSE Takes(op, page, "nothing", "success", "none") /\ UNCHANGED <<shapes, last_advice>>

AgentGoesOn == step # NoStep /\ step' = NoStep /\ UNCHANGED <<shapes, last_advice, steps>>

PageNext ==
  \/ /\ step = NoStep
     /\ \E op \in Steps, page \in Pages, answer \in NetworkActions \cup {"none"} :
          \/ \E words \in Words : _handle(op, page, words, answer)
          \/ _succeeded(op, page, answer)
  \/ AgentGoesOn

-----------------------------------------------------------------------------
(* Properties.                                                             *)

(* A page that speaks of the account's own trouble is the end of the       *)
(* matter: nothing is sent of a step that raised over it, or of a step at  *)
(* the till or the door that returned it, whatever else the page shows.    *)
(* A page with an error status that was returned is the exception.         *)
AccountStaysHome ==
  step # NoStep =>
    LET silent == step.raised = "nothing"
    IN  /\ "account" \in Text(step.page)
        /\ silent => step.op \in SENSITIVE_STEPS /\ step.page.status < 400
        => step.sent = "nothing" /\ step.advice = "none"
=============================================================================
