---------------------------- MODULE MCRetention ----------------------------
(***************************************************************************)
(* Small instances of Retention for TLC.                                   *)
(***************************************************************************)
EXTENDS Retention, TLC

CONSTANTS f1, f2, a1, r1, r2, anon, s1, p1, p2

\* The tables at a time, to bound the mix: outcomes of agents about one
\* failure, observations about one scope, or private rows.
OneTable ==
  \/ privateRows = {} /\ reportedObservations = {}
     /\ \A o \in reportedOutcomes : o.source = "agent"
  \/ privateRows = {} /\ reportedOutcomes = {}
     /\ \A o \in reportedObservations : o.subject \in Scopes
  \/ reportedObservations = {} /\ reportedOutcomes = {}

MCSpec == Init /\ [][Next /\ OneTable']_vars /\ Fairness
=============================================================================
