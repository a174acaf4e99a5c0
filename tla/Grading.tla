--------------------------------- MODULE Grading ---------------------------------
(***************************************************************************)
(* The fleet's grader (failecho_fleet/grading.py): what a run answered is  *)
(* compared with a truth that the grader fetches for itself, keeps for a   *)
(* while in memory and on disk, and files with the grade, so that the same *)
(* answer can be graded again later against the truth of its day.          *)
(*                                                                         *)
(* Abstracted: what a value says is one of a few sorts.  v1 and v2 are     *)
(* values of the kind asked for, "refused" and "unknown" say that it could *)
(* not be had, "0" is a placeholder that says nothing, "denied" says that  *)
(* there is no such thing, and "refused_v1" gives a value with a refusal   *)
(* in one line.  Which lines of a sentence are about which label is given. *)
(***************************************************************************)
EXTENDS Naturals, Sequences, FiniteSets, SequencesExt

CONSTANTS
  Unknown,    \* None: no truth, or no verdict
  Graders,    \* processes that grade
  Tasks,      \* [mode, kinds]: CHECKS, without its labels
  TRUTH_TTL,  \* in ticks
  MaxLines,   \* bound: lines of a sentence
  MaxTruth    \* bound: the clock

\* What is asked for: a number that moves, the word that there is no such thing, one
\* of given words, or a number where there is none to be had.
KindsOf(mode) ==
  CASE mode = "json"  -> {"moving", "enum", "never"}
    [] mode = "list"  -> {"moving"}
    [] mode = "prose" -> {"moving", "absent"}

ASSUME GradingAssumption ==
  /\ TRUTH_TTL \in Nat \ {0} /\ MaxLines \in Nat /\ Unknown \notin BOOLEAN
  /\ \A t \in Tasks : t.mode \in {"json", "list", "prose"} /\ t.kinds \in Seq(KindsOf(t.mode)) \ {<<>>}

VARIABLES
  hour,     \* the clock
  service,  \* what the service says: a value, or Unknown while it refuses
  truthOf,  \* history: [values -> when the service last said it], or 0 for never
  memory,   \* [Graders -> <<fetched at, value>>], <<>> if it holds none
  truthFile,\* truth.json: the same
  graded    \* the last grade: [task, answer, at, truth, grade, regrade], or Unknown

gradingVars == <<hour, service, truthOf, memory, truthFile, graded>>

Versions == {"v1", "v2"}
UNDECLINABLE == {"absent", "enum", "never"}

GradingInit ==
  /\ hour = 1 /\ service = "v1"
  /\ truthOf = [v \in Versions |-> IF v = "v1" THEN 1 ELSE 0]
  /\ memory = [g \in Graders |-> <<>>] /\ truthFile = <<>> /\ graded = Unknown

-----------------------------------------------------------------------------
\* One value of a result file, or one line of a sentence.

_declined(value) == value \in {"refused", "unknown", "refused_v1"}
Placeholder(value) == value \in {"unknown", "0"}
_is_refusal(line, kind) == kind # "absent" /\ line \in {"refused", "refused_v1"}
_has_value(line, kind) ==
  IF kind = "moving" THEN line \in Versions \cup {"0", "refused_v1"} ELSE line # "missing"

\* Is it right?  An absence is denied; an enumerated answer is one of its words;
\* a number where there can be none was invented.
_matches(value, want, kind) ==
  CASE kind = "moving" -> value = want
    [] kind = "absent" -> value = "denied" /\ want = "absent"
    [] kind = "enum"   -> value = "ok"
    [] kind = "never"  -> value \notin Versions \cup {"0"}

_matches_in_line(line, want, kind) ==
  IF kind = "moving" THEN line = want \/ (line = "refused_v1" /\ want = "v1")
  ELSE _matches(line, want, kind)

-----------------------------------------------------------------------------
(* grade: the checks of a task, their answer, and what resolve says of a   *)
(* truth.  A check ends as one of four, and the verdict counts them.       *)

Verdict(ends, gaps) ==
  LET checked == {i \in DOMAIN ends : ends[i] \in {"matched", "missed"}}
  IN  [ends |-> ends,
       correct |-> IF checked = {} THEN Unknown
                   ELSE (\A i \in checked : ends[i] = "matched") /\ ~gaps]

End(want, matched) ==
  IF want = Unknown THEN "unknown" ELSE IF matched THEN "matched" ELSE "missed"

\* A result file: a value by label, and whether the file has an "error" of its own.
GradeJson(kinds, values, explained, resolve) ==
  LET EndOf(i) ==
        IF values[i] = "missing" THEN "none"
        ELSE IF kinds[i] \notin UNDECLINABLE /\ _declined(values[i]) THEN "refused"
        ELSE IF kinds[i] \in {"enum", "never"}
        THEN End("-", _matches(values[i], "-", kinds[i]))
        ELSE End(resolve[kinds[i]], _matches(values[i], resolve[kinds[i]], kinds[i]))
      Gap(i) ==
        \/ values[i] = "missing" /\ ~explained
        \/ /\ Placeholder(values[i])
           /\ ~(kinds[i] \notin UNDECLINABLE /\ _declined(values[i]))
  IN  Verdict([i \in DOMAIN kinds |-> EndOf(i)], \E i \in DOMAIN kinds : Gap(i))

\* The values of a list are right together.
_grade_list(kinds, values, resolve) ==
  Verdict(<<End(resolve[kinds[1]], \A i \in DOMAIN values : values[i] = resolve[kinds[1]])>>,
          \E i \in DOMAIN values : values[i] = "missing")

\* A sentence: the lines that name a label, or all of them when nobody else's
\* value has its kind.  A value counts as declined only if no line states one
\* outside a refusal.
_grade_prose(kinds, text, resolve) ==
  LET every == FlattenSeq(text)
      refusedSomewhere(kind) ==
        \E i \in DOMAIN text : \E l \in ToSet(text[i]) : _is_refusal(l, kind)
      EndOf(i) ==
        LET kind == kinds[i]
            alone == \A j \in DOMAIN kinds : kinds[j] = kind => j = i
            lines == IF text[i] = <<>> /\ alone /\ kind # "absent" THEN every ELSE text[i]
            valued == \E l \in ToSet(lines) : _has_value(l, kind) /\ ~_is_refusal(l, kind)
            refused ==
              /\ ~valued
              /\ \/ IF lines = <<>> THEN refusedSomewhere(kind) ELSE _is_refusal(Head(lines), kind)
                 \/ /\ \A l \in ToSet(lines) : ~_has_value(l, kind)
                    /\ refusedSomewhere(kind)
        IN  IF refused THEN "refused"
            ELSE End(resolve[kind], \E l \in ToSet(lines) : _matches_in_line(l, resolve[kind], kind))
  IN  Verdict([i \in DOMAIN kinds |-> EndOf(i)], FALSE)

\* What an answer may say of a value of a kind.
Values(kind) ==
  CASE kind = "moving" -> {"v1", "v2", "refused", "unknown", "0", "missing"}
    [] kind = "enum"   -> {"ok", "refused", "0", "missing"}
    [] kind = "never"  -> {"v1", "refused", "0", "missing"}

Lines(kind) == IF kind = "moving" THEN {"v1", "v2", "refused", "refused_v1"}
               ELSE {"v1", "refused", "denied"}

Answers(task) ==
  LET n    == Len(task.kinds)
      file == {t \in [1 .. n -> UNION {Values(task.kinds[i]) : i \in 1 .. n}] :
                 \A i \in 1 .. n : t[i] \in Values(task.kinds[i])}
      said == {t \in [1 .. n -> UNION {SeqOf(Lines(task.kinds[i]), 2) : i \in 1 .. n}] :
                 /\ \A i \in 1 .. n : ToSet(t[i]) \subseteq Lines(task.kinds[i])
                 /\ Len(FlattenSeq(t)) \in 1 .. MaxLines}
  IN  IF task.mode = "prose" THEN {[text |-> t, explained |-> FALSE] : t \in said}
      ELSE {[text |-> t, explained |-> e] : t \in file, e \in BOOLEAN}

AnswersOf == [task \in Tasks |-> Answers(task)]

grade(task, answer, resolve) ==
  CASE task.mode = "json"  -> GradeJson(task.kinds, answer.text, answer.explained, resolve)
    [] task.mode = "list"  -> _grade_list(task.kinds, answer.text, resolve)
    [] task.mode = "prose" -> _grade_prose(task.kinds, answer.text, resolve)

-----------------------------------------------------------------------------
\* truth: what is remembered, while it is fresh; otherwise what the service says,
\* which is then remembered in memory and in the file.  No truth is kept of a
\* service that refuses.

\* A process that has nothing in memory reads the file.
_cache_load(g) == IF memory[g] = <<>> THEN truthFile ELSE memory[g]

\* However old it is.
RememberedForever(hit) == hit # <<>>

Remembered(hit) == hit # <<>> /\ hour - hit[1] < TRUTH_TTL

Truth(g) == IF Remembered(_cache_load(g)) THEN _cache_load(g)[2] ELSE service

Resolve(moving) == [kind \in {"moving", "absent"} |-> IF kind = "moving" THEN moving ELSE "absent"]

Filed(g) == graded.truth

Asked(task, answer) ==
  \E i \in DOMAIN task.kinds :
    /\ task.kinds[i] = "moving"
    /\ task.mode = "json" => answer.text[i] # "missing" /\ ~_declined(answer.text[i])

Grades(g) ==
  /\ graded = Unknown
  /\ \E task \in Tasks : \E answer \in AnswersOf[task] :
       LET hit    == _cache_load(g)
           asked  == Asked(task, answer)
           fetch  == asked /\ ~Remembered(hit) /\ service # Unknown
           truths == Resolve(IF asked THEN Truth(g) ELSE Unknown)
       IN  /\ memory' = [memory EXCEPT ![g] = IF fetch THEN <<hour, service>> ELSE IF asked THEN hit ELSE @]
           /\ truthFile' = IF fetch THEN <<hour, service>> ELSE truthFile
           /\ graded' = [task |-> task, answer |-> answer, at |-> hour, truth |-> truths,
                         grade |-> grade(task, answer, truths), regrade |-> Unknown]
  /\ UNCHANGED <<hour, service, truthOf>>

\* The scoreboard grades the filed answer again.
Regrades(g) ==
  /\ graded # Unknown /\ graded.regrade = Unknown
  /\ graded' = [graded EXCEPT !.regrade = grade(graded.task, graded.answer, Filed(g))]
  /\ UNCHANGED <<hour, service, truthOf, memory, truthFile>>

\* The next run's answer; a process that starts afresh; the world.
NextAnswer ==
  /\ graded # Unknown
  /\ graded' = Unknown
  /\ UNCHANGED <<hour, service, truthOf, memory, truthFile>>

GraderStarts(g) ==
  /\ memory[g] # <<>> /\ graded = Unknown
  /\ memory' = [memory EXCEPT ![g] = <<>>]
  /\ UNCHANGED <<hour, service, truthOf, truthFile, graded>>

ServiceSays(what) ==
  /\ what # service /\ graded = Unknown
  /\ service' = what
  /\ truthOf' = IF what = Unknown THEN truthOf ELSE [truthOf EXCEPT ![what] = hour]
  /\ UNCHANGED <<hour, memory, truthFile, graded>>

HourPasses ==
  /\ hour < MaxTruth
  /\ hour' = hour + 1
  /\ truthOf' = IF service = Unknown THEN truthOf ELSE [truthOf EXCEPT ![service] = hour + 1]
  /\ UNCHANGED <<service, memory, truthFile, graded>>

GradingNext ==
  \/ \E g \in Graders : Grades(g) \/ Regrades(g) \/ GraderStarts(g)
  \/ \E what \in Versions \cup {Unknown} : ServiceSays(what)
  \/ NextAnswer \/ HourPasses

-----------------------------------------------------------------------------
(* Properties.                                                             *)

Wrong(i) == graded.grade.ends[i] = "missed"

(* A value is only called right if the service said it not longer ago than *)
(* TRUTH_TTL, whichever process fetched it and whoever has remembered it   *)
(* since; and the verdict is only a verdict if something could be checked. *)
GradedByTheTruth ==
  graded # Unknown =>
    LET v == graded.truth["moving"]
    IN  /\ (\E i \in DOMAIN graded.grade.ends :
              graded.grade.ends[i] \in {"matched", "missed"} /\ graded.task.kinds[i] = "moving")
             => v # Unknown /\ truthOf[v] + TRUTH_TTL > graded.at
        /\ graded.grade.correct # Unknown =>
             \E i \in DOMAIN graded.grade.ends : graded.grade.ends[i] \in {"matched", "missed"}

(* The same answer graded again gets the same grade, whatever the service  *)
(* says by now and the caches hold.                                        *)
RegradeStable ==
  graded # Unknown /\ graded.regrade # Unknown => graded.regrade = graded.grade

Declining(answer, i, mode) ==
  [answer EXCEPT !.text[i] = IF mode = "prose" THEN <<"refused">> ELSE "refused"]

(* An agent that says it could not get a value, where it would have given  *)
(* a wrong one, is never graded worse for that: no other value becomes a   *)
(* wrong one, and an answer that was wrong in this value only is no longer *)
(* called wrong.                                                           *)
DecliningNeverCosts ==
  graded # Unknown /\ graded.task.mode # "list" =>
    \A i \in DOMAIN graded.task.kinds :
      graded.task.kinds[i] = "moving" /\ Wrong(i) =>
        LET instead == grade(graded.task, Declining(graded.answer, i, graded.task.mode), graded.truth)
        IN  /\ \A j \in DOMAIN instead.ends : instead.ends[j] = "missed" => j # i /\ Wrong(j)
            /\ instead.correct = FALSE =>
                 \/ \E j \in DOMAIN instead.ends : j # i /\ Wrong(j)
                 \/ graded.task.mode = "json" /\ \E j \in DOMAIN instead.ends \ {i} :
                      graded.answer.text[j] \in {"missing", "0", "unknown"}

(* A grade is one the answer has earned, and that it keeps.                *)
GradesEarned == GradedByTheTruth /\ RegradeStable /\ DecliningNeverCosts
=============================================================================
