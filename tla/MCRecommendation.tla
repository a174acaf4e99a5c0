---------------------------- MODULE MCRecommendation ----------------------------
EXTENDS Recommendation

CONSTANTS f1, f2, r1, r2, r3

MCPersonas == {[reporter |-> r1, role |-> "explorer", meets |-> {f1}],
               [reporter |-> r2, role |-> "asker", meets |-> {f1, f2}],
               [reporter |-> r3, role |-> "blind", meets |-> {f2}]}
MCRecoveries == {"retry", "switch_model"}
MCCandidates == <<"retry", "switch_model">>

\* The Wilson bound at 95 %, in thousandths.
MCWilson ==
  [n \in 0 .. 6 |->
    CASE n = 0 -> [s \in 0 .. 0 |-> 0]
      [] n = 1 -> [s \in 0 .. 1 |-> <<0, 207>>[s + 1]]
      [] n = 2 -> [s \in 0 .. 2 |-> <<0, 95, 342>>[s + 1]]
      [] n = 3 -> [s \in 0 .. 3 |-> <<0, 61, 208, 438>>[s + 1]]
      [] n = 4 -> [s \in 0 .. 4 |-> <<0, 46, 150, 301, 510>>[s + 1]]
      [] n = 5 -> [s \in 0 .. 5 |-> <<0, 36, 118, 231, 376, 566>>[s + 1]]
      [] n = 6 -> [s \in 0 .. 6 |-> <<0, 30, 97, 188, 300, 436, 610>>[s + 1]]]
=============================================================================
