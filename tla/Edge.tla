----------------------------------- MODULE Edge ----------------------------------
(***************************************************************************)
(* Three parts of the server that meet only in its database, under one     *)
(* specification and one of them at a time: the budgets of writes, the     *)
(* dashboard's cache, and the tokens of private teams.                     *)
(***************************************************************************)
EXTENDS WriteLimits, Dashboard, PrivateTeams

VARIABLE part

edgeVars == <<part, limitVars, dashboardVars, teamVars>>

EdgeInit ==
  /\ part \in {"writes", "dashboard", "teams"}
  /\ LimitInit /\ DashboardInit /\ TeamInit

EdgeNext ==
  /\ \/ part = "writes"    /\ LimitNext     /\ UNCHANGED <<dashboardVars, teamVars>>
     \/ part = "dashboard" /\ DashboardNext /\ UNCHANGED <<limitVars, teamVars>>
     \/ part = "teams"     /\ TeamNext      /\ UNCHANGED <<limitVars, dashboardVars>>
  /\ UNCHANGED part

EdgeSpec == EdgeInit /\ [][EdgeNext]_edgeVars
=============================================================================
