------------------------------ MODULE PrivateTeams ------------------------------
(***************************************************************************)
(* A team and its token (app/api/team.py, app/core/private.py): reports    *)
(* stored under it, its rotation and its deletion.  There is no account: a *)
(* row belongs to whoever has the token it is stored under.                *)
(*                                                                         *)
(* The statements that change rows are one transaction, which SQLite's     *)
(* lock makes one step; the SELECTs before it are not part of it.          *)
(***************************************************************************)
EXTENDS Naturals, Sequences, FiniteSets

CONSTANTS
  Teams,
  Tokens,
  MaxRows,      \* bound: rows
  MaxRotations  \* bound: rotations

VARIABLES
  rows,      \* [id, table, team, token]; team is history: who reported it
  held,      \* history: [Teams -> the tokens its agents may use]
  rotation,  \* sequence of [pc, team, old, new, raced]; raced is history
  merged     \* history: rotations that put a team's rows beside another's

teamVars == <<rows, held, rotation, merged>>

Tables == {"observations", "outcomes"}

\* Each team has made a token of its own: a token is a secret.
TeamInit ==
  /\ rows = {} /\ rotation = <<>> /\ merged = {}
  /\ \E first \in [Teams -> Tokens] :
       /\ \A t, u \in Teams : t # u => first[t] # first[u]
       /\ held = [t \in Teams |-> {first[t]}]

Under(token) == {x \in rows : x.token = token}
Replace(old, new) == {[x EXCEPT !.token = IF @ = old THEN new ELSE @] : x \in rows}

\* Rotations onto a token that are between their checks and their updates.
Raced(token, but) ==
  [i \in DOMAIN rotation |->
     IF i # but /\ rotation[i].pc # "done" /\ rotation[i].new = token
     THEN [rotation[i] EXCEPT !.raced = TRUE] ELSE rotation[i]]

\* An observation or an outcome of one of the team's agents.
Report(t, token, table) ==
  /\ token \in held[t] /\ Cardinality(rows) < MaxRows
  /\ LET id == CHOOSE n \in 1 .. MaxRows : \A x \in rows : x.id # n
     IN  rows' = rows \cup {[id |-> id, table |-> table, team |-> t, token |-> token]}
  /\ rotation' = Raced(token, 0)
  /\ UNCHANGED <<held, merged>>

\* Both tables at once.
delete_team(t, token) ==
  /\ token \in held[t] /\ Under(token) # {}
  /\ rows' = rows \ Under(token)
  /\ UNCHANGED <<held, rotation, merged>>

RotateBegins(t, old, new) ==
  /\ Len(rotation) < MaxRotations
  /\ old \in held[t] /\ new # old
  /\ rotation' = Append(rotation, [pc |-> "observations", team |-> t, old |-> old, new |-> new,
                                   raced |-> FALSE])
  /\ UNCHANGED <<rows, held, merged>>

\* Only what a team has observed counts.
TakenByObservations(token, table) == \E x \in Under(token) : x.table = "observations"

Taken(token, table) == \E x \in Under(token) : x.table = table

\* The tables are counted one after the other; 409 if there is a row.
Counted(i) ==
  LET table == rotation[i].pc
  IN  /\ table \in Tables
      /\ rotation' = [rotation EXCEPT ![i].pc =
                        IF Taken(rotation[i].new, table) THEN "done"
                        ELSE IF table = "observations" THEN "outcomes" ELSE "update"]
      /\ UNCHANGED <<rows, held, merged>>

Moved(i) ==
  LET x == rotation[i]
  IN  /\ x.pc = "update"
      /\ rows' = Replace(x.old, x.new)
      /\ held' = [held EXCEPT ![x.team] = @ \cup {x.new}]
      /\ merged' = IF \E y \in Under(x.old), z \in Under(x.new) : y.team # z.team
                   THEN merged \cup {x} ELSE merged
      /\ rotation' = [Raced(x.new, i) EXCEPT ![i].pc = "done"]

TeamNext ==
  \/ \E t \in Teams, token \in Tokens :
       \/ delete_team(t, token)
       \/ \E table \in Tables : Report(t, token, table)
       \/ \E new \in Tokens : RotateBegins(t, token, new)
  \/ \E i \in DOMAIN rotation : Counted(i) \/ Moved(i)

-----------------------------------------------------------------------------
(* Properties.                                                             *)

(* A rotation does not put a team's evidence beside another's, unless      *)
(* something was stored under the new token while the rotation was under   *)
(* way: its check and its update are not one step.                         *)
MergedOnlyByRace == \A x \in merged : x.raced
=============================================================================
