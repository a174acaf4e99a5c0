--------------------------- MODULE EvidenceLedger ---------------------------
(***************************************************************************)
(* What the evidence store promises its readers, apart from how it is      *)
(* kept: lifetime counts that start at nothing and grow by exactly one     *)
(* report at a time.  Archiving, deleting, crashing and rerunning are not  *)
(* steps of this specification.                                            *)
(***************************************************************************)
EXTENDS Naturals

CONSTANTS Fingerprints, Actions, Subjects

VARIABLES
  evidence,   \* [fingerprint][action]: attempts and successes ever reported
  seen        \* [subject]: observations ever reported

Init ==
  /\ evidence = [f \in Fingerprints |-> [a \in Actions |->
                   [attempts |-> 0, successes |-> 0]]]
  /\ seen = [s \in Subjects |-> 0]

Outcome(f, a, successful) ==
  /\ evidence' = [evidence EXCEPT ![f][a] =
       [attempts  |-> @.attempts + 1,
        successes |-> @.successes + IF successful THEN 1 ELSE 0]]
  /\ UNCHANGED seen

Observe(s) ==
  /\ seen' = [seen EXCEPT ![s] = @ + 1]
  /\ UNCHANGED evidence

Next ==
  \/ \E f \in Fingerprints, a \in Actions, ok \in BOOLEAN : Outcome(f, a, ok)
  \/ \E s \in Subjects : Observe(s)

Spec == Init /\ [][Next]_<<evidence, seen>>
=============================================================================
