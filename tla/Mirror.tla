---------------------------------- MODULE Mirror ---------------------------------
(***************************************************************************)
(* The mirror (failecho_mirror/__init__.py): a pass every ten minutes that *)
(* sends production what the lab has stored since the saved cursor,        *)
(* observations first and outcomes in what is kept of the pass for them.   *)
(* The cursor is saved after each batch, so a pass that is cut, by a kill  *)
(* or by a request that gets no answer at all, sends its last batch again. *)
(*                                                                         *)
(* Abstracted: a row is TRUE if it may cross (the lab's own agents, a real *)
(* public service, no error text), and production's answer to it.          *)
(***************************************************************************)
EXTENDS Naturals, Sequences, FiniteSets, SequencesExt

CONSTANTS
  max_rows,     \* rows a pass may send
  BatchRows,    \* rows of one SELECT, 200
  MaxLabRows,   \* bound: rows of each of the lab's tables
  MaxCuts,      \* bound: passes that are cut
  MaxPasses     \* bound: passes

ASSUME MirrorAssumption ==
  max_rows \in Nat \ {0} /\ BatchRows \in Nat \ {0} /\ MaxLabRows \in Nat

VARIABLES
  lab,      \* [Kinds -> the rows of the lab's table, in id order]
  file,     \* cursor.json: [Kinds -> an id], or <<>> if there is none
  pass,     \* [pc, kind, cursor, budget, batch, stopped, sent]
  firstCursor,    \* history: the cursor a first run began with
  arrived,  \* history: [Kinds -> [ids -> how often production stored the row]]
  passes,   \* history: passes so far
  cuts      \* history: passes that were cut

mirrorVars == <<lab, file, pass, firstCursor, arrived, passes, cuts>>

Kinds == {"observations", "outcomes"}
AllOf(n) == [k \in Kinds |-> n]

Reserve == IF max_rows \div 4 > 1 THEN max_rows \div 4 ELSE 1

NoPass == [pc |-> "idle", kind |-> "observations", cursor |-> <<>>, budget |-> 0,
           batch |-> <<>>, stopped |-> FALSE, sent |-> AllOf(0)]

MirrorInit ==
  /\ lab = AllOf(<<>>) /\ file = <<>> /\ pass = NoPass /\ firstCursor = AllOf(0)
  /\ arrived = AllOf([i \in 1 .. MaxLabRows |-> 0]) /\ passes = 0 /\ cuts = 0

\* The lab stores a row.
LabStores(kind, crosses) ==
  /\ Len(lab[kind]) < MaxLabRows
  /\ lab' = [lab EXCEPT ![kind] = Append(@, crosses)]
  /\ UNCHANGED <<file, pass, firstCursor, arrived, passes, cuts>>

\* Before any cursor was saved, the rows of the last hours.
start_cursor(cursor) == \A k \in Kinds : cursor[k] \in 0 .. Len(lab[k])

Begins ==
  /\ pass.pc = "idle" /\ passes < MaxPasses
  /\ passes' = passes + 1
  /\ \E cursor \in [Kinds -> 0 .. MaxLabRows] :
       /\ IF file = <<>> THEN start_cursor(cursor) ELSE cursor = file
       /\ firstCursor' = IF file = <<>> THEN cursor ELSE firstCursor
       /\ pass' = [NoPass EXCEPT !.pc = "fetch", !.cursor = cursor, !.budget = max_rows - Reserve]
  /\ UNCHANGED <<lab, file, arrived, cuts>>

\* Ids after the cursor, no more than the budget allows.
Pending(kind) ==
  LET from  == pass.cursor[kind]
      limit == IF pass.budget < BatchRows THEN pass.budget ELSE BatchRows
      to    == IF from + limit < Len(lab[kind]) THEN from + limit ELSE Len(lab[kind])
  IN  [i \in 1 .. (to - from) |-> from + i]

\* Outcomes get what the observations left, and what was kept for them.
Fetched ==
  /\ pass.pc = "fetch"
  /\ LET rows == IF pass.stopped \/ pass.budget = 0 THEN <<>> ELSE Pending(pass.kind)
     IN  pass' = IF rows # <<>> THEN [pass EXCEPT !.pc = "rows", !.batch = rows]
                 ELSE IF pass.kind = "observations"
                 THEN [pass EXCEPT !.kind = "outcomes", !.budget = @ + Reserve]
                 ELSE [pass EXCEPT !.pc = "final"]
  /\ UNCHANGED <<lab, file, firstCursor, arrived, passes, cuts>>

Row == Head(pass.batch)
AtRow == pass.pc = "rows" /\ pass.batch # <<>>
Crosses == lab[pass.kind][Row]

\* The cursor passes the row.
Past == [pass EXCEPT !.batch = Tail(@), !.cursor[pass.kind] = Row]

StoredOnceMore == [arrived EXCEPT ![pass.kind][Row] = @ + 1]

Skipped ==
  /\ AtRow /\ ~Crosses
  /\ pass' = Past
  /\ UNCHANGED <<lab, file, firstCursor, arrived, passes, cuts>>

Accepted ==
  /\ AtRow /\ Crosses
  /\ arrived' = StoredOnceMore
  /\ pass' = [Past EXCEPT !.budget = @ - 1, !.sent[pass.kind] = @ + 1]
  /\ UNCHANGED <<lab, file, firstCursor, passes, cuts>>

\* The row is given up.
RefusedPast ==
  /\ AtRow /\ Crosses
  /\ pass' = [Past EXCEPT !.batch = <<>>, !.stopped = TRUE]
  /\ UNCHANGED <<lab, file, firstCursor, arrived, passes, cuts>>

\* An answer that is not 2xx: the cursor stays where it is.
Refused ==
  /\ AtRow /\ Crosses
  /\ pass' = [pass EXCEPT !.batch = <<>>, !.stopped = TRUE]
  /\ UNCHANGED <<lab, file, firstCursor, arrived, passes, cuts>>

\* A batch is done, or the pass is.
save_state ==
  /\ \/ pass.pc = "rows" /\ pass.batch = <<>>
     \/ pass.pc = "final"
  /\ file' = pass.cursor
  /\ pass' = [pass EXCEPT !.pc = IF @ = "rows" THEN "fetch" ELSE "done"]
  /\ UNCHANGED <<lab, firstCursor, arrived, passes, cuts>>

PassEnds ==
  /\ pass.pc = "done"
  /\ pass' = NoPass
  /\ UNCHANGED <<lab, file, firstCursor, arrived, passes, cuts>>

\* A kill, or a request whose answer is lost, stored or not: http_post catches
\* what production answers, not that it does not.
Cut ==
  /\ pass.pc \notin {"idle", "done"} /\ cuts < MaxCuts
  /\ pass' = NoPass /\ cuts' = cuts + 1
  /\ \/ UNCHANGED arrived
     \/ AtRow /\ Crosses /\ arrived' = StoredOnceMore
  /\ UNCHANGED <<lab, file, firstCursor, passes>>

MirrorNext ==
  \/ \E kind \in Kinds, crosses \in BOOLEAN : LabStores(kind, crosses)
  \/ Begins \/ Fetched \/ Skipped \/ Accepted \/ Refused \/ save_state \/ PassEnds \/ Cut

-----------------------------------------------------------------------------
(* Properties.                                                             *)

(* Whatever is cut and whenever: of the rows up to the saved cursor none   *)
(* that may cross is missing in production, and none is there that may     *)
(* not; and a row is there more often than once only if as many passes     *)
(* were cut.  A pass that nothing stopped ends with its budget only when   *)
(* it has sent the outcomes their share.                                   *)
MirroredOnce ==
  /\ \A k \in Kinds, i \in 1 .. MaxLabRows :
       /\ file # <<>> /\ i > firstCursor[k] /\ i <= file[k] /\ lab[k][i] => arrived[k][i] >= 1
       /\ arrived[k][i] > 0 => lab[k][i]
       /\ arrived[k][i] <= 1 + cuts
  /\ pass.pc = "final" /\ ~pass.stopped =>
       pass.sent["outcomes"] >= Reserve \/ pass.budget > 0
=============================================================================
