---------------------------------- MODULE Sums ---------------------------------
(***************************************************************************)
(* Sums over finite sets, as the models write them: SumFunction of the     *)
(* community modules is a fold, whose recursive function CHOOSE picks.     *)
(* That there is one, and what it adds up to, follows by induction over    *)
(* the sets it is defined on.                                              *)
(***************************************************************************)
EXTENDS Integers, Functions, FiniteSetTheorems, TLAPS

(* Induction on the naturals, for a set instead of a predicate.            *)
LEMMA NatSet ==
  ASSUME NEW S, 0 \in S, \A n \in Nat : n \in S => n + 1 \in S
  PROVE  Nat \subseteq S
  <1> DEFINE T == Nat \ S
  <1>1. SUFFICES ASSUME T # {}
                 PROVE  FALSE
    OBVIOUS
  <1>2. PICK R : R = {ss \in Nat \X Nat : ss[1] < ss[2]}
    OBVIOUS
  <1>7. IsWellFoundedOn(R, Nat)
    BY <1>2, NatLessThanWellFounded DEF OpToRel
  <1>8. PICK x \in T : \A y \in T : ~(<<y, x>> \in R)
    <2>1. T \subseteq Nat
      OBVIOUS
    <2> HIDE DEF T
    <2> QED
      BY <1>1, <1>7, <2>1, WFMin, Zenon
  <1>3. x \in Nat /\ x \notin S /\ x # 0
    OBVIOUS
  <1>4. x - 1 \in Nat /\ x - 1 < x /\ (x - 1) + 1 = x
    BY <1>3
  <1>5. x - 1 \notin S
    BY <1>3, <1>4
  <1>6. <<x - 1, x>> \in R
    BY <1>2, <1>3, <1>4
  <1> QED
    BY <1>8, <1>4, <1>5, <1>6

(* The recursive function that SumFunction chooses, by its equation.       *)
Pick(s) == CHOOSE x \in s : TRUE

Iterates(it, w, D) ==
  it = [s \in SUBSET D |-> IF s = {} THEN 0 ELSE w[Pick(s)] + it[s \ {Pick(s)}]]

LEMMA SumIs ==
  ASSUME NEW w, NEW g, Iterates(g, w, DOMAIN w)
  PROVE  \E it : Iterates(it, w, DOMAIN w) /\ SumFunction(w) = it[DOMAIN w]
  <1> DEFINE it == CHOOSE it : Iterates(it, w, DOMAIN w)
  <1>1. Iterates(it, w, DOMAIN w)
    BY Zenon
  <1>2. SumFunction(w) = it[DOMAIN w]
    BY DEF SumFunction, SumFunctionOnSet, FoldFunctionOnSet, MapThenFoldSet, Iterates, Pick
  <1> QED
    BY <1>1, <1>2

LEMMA SubsetsAre ==
  ASSUME NEW D, IsFiniteSet(D), NEW S \in SUBSET D
  PROVE  /\ IsFiniteSet(S) /\ Cardinality(S) \in Nat /\ Cardinality(S) <= Cardinality(D)
         /\ Cardinality(S) = 0 <=> S = {}
         /\ \A x \in S : Cardinality(S \ {x}) = Cardinality(S) - 1
  <1>1. IsFiniteSet(S) /\ Cardinality(S) <= Cardinality(D)
    BY FS_Subset
  <1> QED
    BY <1>1, FS_CardinalityType, FS_EmptySet, FS_RemoveElement

(* Induction on the subsets of a finite set.                               *)
LEMMA SetInduction ==
  ASSUME NEW D, IsFiniteSet(D), NEW F, {} \in F,
         \A S \in SUBSET D : S # {} /\ (\A x \in S : S \ {x} \in F) => S \in F
  PROVE  \A S \in SUBSET D : S \in F
  <1> DEFINE N == {n \in Nat : \A S \in SUBSET D : Cardinality(S) = n => S \in F}
  <1>1. 0 \in N
    BY SubsetsAre
  <1>2. ASSUME NEW n \in Nat, n \in N
        PROVE  n + 1 \in N
    <2>1. SUFFICES ASSUME NEW S \in SUBSET D, Cardinality(S) = n + 1
                   PROVE  S \in F
      OBVIOUS
    <2>2. S # {}
      BY <2>1, SubsetsAre
    <2>3. ASSUME NEW x \in S
          PROVE  S \ {x} \in F
      BY <1>2, <2>1, SubsetsAre
    <2> QED
      BY <2>2, <2>3
  <1>3. Nat \subseteq N
    <2> HIDE DEF N
    <2> QED
      BY <1>1, <1>2, NatSet
  <1>4. ASSUME NEW S \in SUBSET D
        PROVE  S \in F
    <2>1. Cardinality(S) \in N
      BY <1>3, SubsetsAre
    <2> QED
      BY <2>1
  <1> QED
    BY <1>4

(* Such a function exists: it is built up by the size of its arguments.    *)
Small(D, n) == {s \in SUBSET D : Cardinality(s) <= n}

IteratesTo(it, w, D, n) ==
  it = [s \in Small(D, n) |-> IF s = {} THEN 0 ELSE w[Pick(s)] + it[s \ {Pick(s)}]]

LEMMA IterationExists ==
  ASSUME NEW w, NEW D, IsFiniteSet(D)
  PROVE  \E it : Iterates(it, w, D)
  <1> DEFINE N == {n \in Nat : \E it : IteratesTo(it, w, D, n)}
  <1>0. \A s : s # {} => Pick(s) \in s
    BY DEF Pick
  <1>1. 0 \in N
    <2>1. PICK it : it = [s \in Small(D, 0) |-> 0]
      OBVIOUS
    <2>2. \A s \in Small(D, 0) : s = {}
      BY SubsetsAre DEF Small
    <2>3. IteratesTo(it, w, D, 0)
      BY <2>1, <2>2 DEF IteratesTo
    <2> QED
      BY <2>3
  <1>2. ASSUME NEW n \in Nat, n \in N
        PROVE  n + 1 \in N
    <2>1. PICK it : IteratesTo(it, w, D, n)
      BY <1>2
    <2> DEFINE more == [s \in Small(D, n + 1) |->
                          IF s = {} THEN 0 ELSE w[Pick(s)] + it[s \ {Pick(s)}]]
    <2>2. \A s \in Small(D, n + 1) : s # {} => s \ {Pick(s)} \in Small(D, n)
      BY <1>0, SubsetsAre DEF Small
    <2>3. \A s \in Small(D, n) : s \in Small(D, n + 1)
      BY SubsetsAre DEF Small
    <2>4. \A s \in Small(D, n) : it[s] = more[s]
      BY <2>1, <2>3 DEF IteratesTo
    <2>5. more = [s \in Small(D, n + 1) |->
                    IF s = {} THEN 0 ELSE w[Pick(s)] + more[s \ {Pick(s)}]]
      <3>1. \A s \in Small(D, n + 1) :
              s # {} => it[s \ {Pick(s)}] = more[s \ {Pick(s)}]
        BY <2>2, <2>4
      <3> QED
        BY <3>1
    <2>6. IteratesTo(more, w, D, n + 1)
      BY <2>5 DEF IteratesTo
    <2> HIDE DEF more
    <2>7. n + 1 \in Nat
      OBVIOUS
    <2> QED
      BY <2>6, <2>7
  <1>3. Nat \subseteq N
    <2> HIDE DEF N
    <2> QED
      BY <1>1, <1>2, NatSet
  <1>4. Cardinality(D) \in Nat /\ Small(D, Cardinality(D)) = SUBSET D
    BY SubsetsAre DEF Small
  <1>5. PICK it : IteratesTo(it, w, D, Cardinality(D))
    BY <1>3, <1>4
  <1>6. Iterates(it, w, D)
    BY <1>4, <1>5 DEF IteratesTo, Iterates
  <1> QED
    BY <1>6

(* It does not matter which element is taken first.                        *)
LEMMA IterationIs ==
  ASSUME NEW D, IsFiniteSet(D), NEW w \in [D -> Nat], NEW it, Iterates(it, w, D)
  PROVE  /\ it[{}] = 0
         /\ \A s \in SUBSET D : it[s] \in Nat
         /\ \A s \in SUBSET D : \A y \in s : it[s] = w[y] + it[s \ {y}]
  <1> DEFINE N == {s \in SUBSET D : it[s] \in Nat}
             F == {s \in SUBSET D : \A y \in s : it[s] = w[y] + it[s \ {y}]}
  <1>0. \A s : s # {} => Pick(s) \in s
    BY DEF Pick
  <1>1. /\ it[{}] = 0
        /\ \A s \in SUBSET D : s # {} => it[s] = w[Pick(s)] + it[s \ {Pick(s)}]
    BY DEF Iterates
  <1>2. \A s \in SUBSET D : s \in N
    <2>1. {} \in N
      BY <1>1
    <2>2. \A s \in SUBSET D : s # {} /\ (\A x \in s : s \ {x} \in N) => s \in N
      <3>1. SUFFICES ASSUME NEW s \in SUBSET D, s # {}, \A x \in s : s \ {x} \in N
                     PROVE  it[s] \in Nat
        OBVIOUS
      <3>2. PICK c \in s : c = Pick(s)
        BY <1>0, <3>1
      <3>3. it[s \ {c}] \in Nat /\ w[c] \in Nat
        BY <3>1
      <3>4. it[s] = w[c] + it[s \ {c}]
        BY <1>1, <3>1, <3>2
      <3> QED
        BY <3>3, <3>4
    <2> HIDE DEF N
    <2> QED
      BY <2>1, <2>2, SetInduction
  <1>3. \A s \in SUBSET D : it[s] \in Nat
    BY <1>2
  <1>4. ASSUME NEW s \in SUBSET D, s # {}, \A x \in s : s \ {x} \in F, NEW y \in s
        PROVE  it[s] = w[y] + it[s \ {y}]
    <2>1. PICK c \in s : c = Pick(s)
      BY <1>0, <1>4
    <2>2. it[s] = w[c] + it[s \ {c}]
      BY <1>1, <1>4, <2>1
    <2>3. CASE y = c
      BY <2>2, <2>3
    <2>4. CASE y # c
      <3>1. y \in s \ {c} /\ c \in s \ {y} /\ (s \ {c}) \ {y} = (s \ {y}) \ {c}
        BY <2>1, <2>4
      <3>2. PICK rest \in SUBSET D : rest = (s \ {c}) \ {y}
        OBVIOUS
      <3>3. it[s \ {c}] = w[y] + it[rest]
        BY <1>4, <3>1, <3>2
      <3>4. it[s \ {y}] = w[c] + it[rest]
        BY <1>4, <3>1, <3>2
      <3>5. it[rest] \in Nat /\ w[c] \in Nat /\ w[y] \in Nat
        BY <1>3
      <3> QED
        BY <2>2, <3>3, <3>4, <3>5
    <2> QED
      BY <2>3, <2>4
  <1>5. \A s \in SUBSET D : s \in F
    <2>1. {} \in F
      OBVIOUS
    <2>2. \A s \in SUBSET D : s # {} /\ (\A x \in s : s \ {x} \in F) => s \in F
      BY <1>4
    <2> HIDE DEF F
    <2> QED
      BY <2>1, <2>2, SetInduction
  <1> QED
    BY <1>1, <1>3, <1>5

(* The sum over a part of the set is the same wherever it is computed.     *)
LEMMA IterationsAgree ==
  ASSUME NEW D, IsFiniteSet(D), NEW w, NEW it, Iterates(it, w, D),
         NEW E \in SUBSET D, NEW v, NEW also, Iterates(also, v, E),
         \A x \in E : v[x] = w[x]
  PROVE  \A s \in SUBSET E : also[s] = it[s]
  <1> DEFINE F == {s \in SUBSET E : also[s] = it[s]}
  <1>0. \A s : s # {} => Pick(s) \in s
    BY DEF Pick
  <1>1. \A s \in SUBSET E :
          /\ also[s] = IF s = {} THEN 0 ELSE v[Pick(s)] + also[s \ {Pick(s)}]
          /\ it[s] = IF s = {} THEN 0 ELSE w[Pick(s)] + it[s \ {Pick(s)}]
    BY DEF Iterates
  <1>2. {} \in F
    BY <1>1
  <1>3. \A s \in SUBSET E : s # {} /\ (\A x \in s : s \ {x} \in F) => s \in F
    BY <1>0, <1>1
  <1>4. IsFiniteSet(E)
    BY FS_Subset
  <1>5. \A s \in SUBSET E : s \in F
    <2> HIDE DEF F
    <2> QED
      BY <1>2, <1>3, <1>4, SetInduction
  <1> QED
    BY <1>5

(* What a sum is, for all finite sets: the sum of the others and one more. *)
LEMMA SumSteps ==
  ASSUME NEW D, IsFiniteSet(D), NEW w \in [D -> Nat]
  PROVE  /\ SumFunction(w) \in Nat
         /\ D = {} => SumFunction(w) = 0
         /\ \A x \in D : SumFunction(w) = w[x] + SumFunction([y \in D \ {x} |-> w[y]])
  <1>1. DOMAIN w = D
    OBVIOUS
  <1>2. PICK it : Iterates(it, w, D) /\ SumFunction(w) = it[D]
    <2>1. \E g : Iterates(g, w, DOMAIN w)
      BY <1>1, IterationExists
    <2> QED
      BY <1>1, <2>1, SumIs
  <1>4. /\ it[{}] = 0
        /\ \A s \in SUBSET D : it[s] \in Nat
        /\ \A s \in SUBSET D : \A y \in s : it[s] = w[y] + it[s \ {y}]
    BY <1>2, IterationIs
  <1>3. ASSUME NEW x \in D
        PROVE  SumFunction(w) = w[x] + SumFunction([y \in D \ {x} |-> w[y]])
    <2>1. PICK rest \in SUBSET D : rest = D \ {x}
      OBVIOUS
    <2>2. PICK v : v = [y \in rest |-> w[y]]
      OBVIOUS
    <2>3. DOMAIN v = rest /\ IsFiniteSet(rest) /\ \A y \in rest : v[y] = w[y]
      BY <2>1, <2>2, FS_Subset
    <2>4. PICK also : Iterates(also, v, rest) /\ SumFunction(v) = also[rest]
      <3>1. \E g : Iterates(g, v, DOMAIN v)
        BY <2>3, IterationExists
      <3> QED
        BY <2>3, <3>1, SumIs
    <2>5. \A s \in SUBSET rest : also[s] = it[s]
      <3>1. Iterates(it, w, D) /\ Iterates(also, v, rest) /\ \A y \in rest : v[y] = w[y]
        BY <1>2, <2>3, <2>4
      <3> QED
        BY ONLY IsFiniteSet(D), rest \in SUBSET D, <3>1, IterationsAgree
    <2>6. it[D] = w[x] + it[rest]
      <3>1. D \in SUBSET D
        OBVIOUS
      <3> QED
        BY <1>4, <2>1, <3>1
    <2> QED
      BY <1>2, <2>1, <2>2, <2>4, <2>5, <2>6
  <1> QED
    BY <1>2, <1>3, <1>4

(* Two sets without a common element.                                      *)
LEMMA DisjointUnion ==
  ASSUME NEW A, IsFiniteSet(A), NEW B, IsFiniteSet(B), A \cap B = {}
  PROVE  IsFiniteSet(A \cup B) /\ Cardinality(A \cup B) = Cardinality(A) + Cardinality(B)
  <1>1. Cardinality(A \cap B) = 0
    BY FS_EmptySet
  <1>2. Cardinality(A) \in Nat /\ Cardinality(B) \in Nat
    BY FS_CardinalityType
  <1>3. /\ IsFiniteSet(A \cup B)
        /\ Cardinality(A \cup B) = Cardinality(A) + Cardinality(B) - Cardinality(A \cap B)
    BY FS_Union
  <1> QED
    BY <1>1, <1>2, <1>3

(* Counting by keys and adding up the counts is counting.                  *)
LEMMA CountByKey ==
  ASSUME NEW R, IsFiniteSet(R), NEW key, NEW K, IsFiniteSet(K)
  PROVE  SumFunction([k \in K |-> Cardinality({o \in R : key[o] = k})])
           = Cardinality({o \in R : key[o] \in K})
  <1> DEFINE Of(k) == {o \in R : key[o] = k}
             In(S) == {o \in R : key[o] \in S}
             F == {S \in SUBSET K : SumFunction([k \in S |-> Cardinality(Of(k))]) = Cardinality(In(S))}
  <1>1. \A k : IsFiniteSet(Of(k)) /\ Cardinality(Of(k)) \in Nat
    <2>1. \A k : Of(k) \in SUBSET R
      OBVIOUS
    <2> HIDE DEF Of
    <2> QED
      BY <2>1, SubsetsAre
  <1>2. \A S : IsFiniteSet(In(S))
    <2>1. \A S : In(S) \in SUBSET R
      OBVIOUS
    <2> HIDE DEF In
    <2> QED
      BY <2>1, SubsetsAre
  <1>3. {} \in F
    <2>1. In({}) = {}
      OBVIOUS
    <2>2. [k \in {} |-> Cardinality(Of(k))] \in [{} -> Nat]
      OBVIOUS
    <2>3. SumFunction([k \in {} |-> Cardinality(Of(k))]) = 0
      BY <2>2, FS_EmptySet, SumSteps
    <2> QED
      BY <2>1, <2>3, FS_EmptySet
  <1>4. ASSUME NEW S \in SUBSET K, S # {}, \A x \in S : S \ {x} \in F
        PROVE  S \in F
    <2>1. PICK x \in S : TRUE
      BY <1>4
    <2>2. PICK w : w = [k \in S |-> Cardinality(Of(k))]
      OBVIOUS
    <2>3. w \in [S -> Nat] /\ w[x] = Cardinality(Of(x))
      BY <1>1, <2>2
    <2>4. PICK v : v = [y \in S \ {x} |-> w[y]]
      OBVIOUS
    <2>5. v = [k \in S \ {x} |-> Cardinality(Of(k))]
      BY <2>2, <2>4
    <2>6. SumFunction(w) = w[x] + SumFunction(v)
      <3>1. IsFiniteSet(S)
        BY FS_Subset
      <3> QED
        BY <2>3, <2>4, <3>1, SumSteps
    <2>7. SumFunction(v) = Cardinality(In(S \ {x}))
      BY <1>4, <2>5
    <2>8. In(S) = Of(x) \cup In(S \ {x}) /\ Of(x) \cap In(S \ {x}) = {}
      OBVIOUS
    <2>9. Cardinality(In(S)) = Cardinality(Of(x)) + Cardinality(In(S \ {x}))
      <3> HIDE DEF Of, In
      <3> QED
        BY <1>1, <1>2, <2>8, DisjointUnion
    <2> QED
      BY <2>2, <2>3, <2>6, <2>7, <2>9
  <1>5. K \in F
    <2>1. \A S \in SUBSET K : S # {} /\ (\A x \in S : S \ {x} \in F) => S \in F
      BY <1>4
    <2> HIDE DEF F
    <2>2. \A S \in SUBSET K : S \in F
      BY <1>3, <2>1, SetInduction
    <2> QED
      BY <2>2
  <1> QED
    BY <1>5

(* v is w without x.                                                       *)
Without(D, w, x, v) ==
  /\ IsFiniteSet(D) /\ w \in [D -> Nat] /\ x \in D
  /\ v \in [D \ {x} -> Nat] /\ \A y \in D \ {x} : v[y] = w[y]

LEMMA SumWithout ==
  ASSUME NEW D, NEW w, NEW x, NEW v, Without(D, w, x, v)
  PROVE  SumFunction(w) = w[x] + SumFunction(v)
  <1>1. v = [y \in D \ {x} |-> w[y]]
    BY DEF Without
  <1>2. IsFiniteSet(D) /\ w \in [D -> Nat] /\ x \in D
    BY DEF Without
  <1>3. SumFunction(w) = w[x] + SumFunction([y \in D \ {x} |-> w[y]])
    BY ONLY <1>2, SumSteps, SMTT(30)
  <1> QED
    BY <1>1, <1>3

(* A sum does not change when what it is over is given other names.        *)
LEMMA SumRenamed ==
  ASSUME NEW D, IsFiniteSet(D), NEW w \in [D -> Nat], NEW E, NEW v \in [E -> Nat],
         NEW h \in [D -> E], \A x, y \in D : h[x] = h[y] => x = y,
         \A y \in E : \E x \in D : h[x] = y,
         \A x \in D : v[h[x]] = w[x]
  PROVE  SumFunction(v) = SumFunction(w)
  <1> DEFINE To(S) == {h[x] : x \in S}
             F == {S \in SUBSET D : SumFunction([y \in To(S) |-> v[y]]) = SumFunction([x \in S |-> w[x]])}
  <1>0. IsFiniteSet(E)
    <2>1. h \in Surjection(D, E)
      BY DEF Surjection
    <2> QED
      BY <2>1, FS_Surjection
  <1>1. {} \in F
    <2>1. To({}) = {}
      OBVIOUS
    <2>2. [y \in {} |-> v[y]] = [x \in {} |-> w[x]]
      OBVIOUS
    <2> HIDE DEF To
    <2> QED
      BY <2>1, <2>2
  <1>2. ASSUME NEW S \in SUBSET D, S # {}, \A x \in S : S \ {x} \in F
        PROVE  S \in F
    <2>1. PICK c \in S : c \in D
      BY <1>2
    <2>2. PICK rest \in SUBSET D : rest = S \ {c}
      OBVIOUS
    <2>3. PICK T : T = To(S)
      OBVIOUS
    <2>4. T \ {h[c]} = To(rest) /\ h[c] \in T /\ T \subseteq E
      BY <2>1, <2>2, <2>3
    <2>5. IsFiniteSet(S) /\ IsFiniteSet(T)
      BY <1>0, <2>4, FS_Subset
    <2>6. SumFunction([y \in To(rest) |-> v[y]]) = SumFunction([x \in rest |-> w[x]])
      BY <1>2, <2>1, <2>2
    <2> HIDE DEF To
    <2>7. PICK left : left = [x \in S |-> w[x]]
      OBVIOUS
    <2>8. PICK right : right = [y \in T |-> v[y]]
      OBVIOUS
    <2>9. left \in [S -> Nat] /\ right \in [T -> Nat]
      BY <2>4, <2>7, <2>8
    <2>10. PICK others : others = [x \in S \ {c} |-> left[x]]
      OBVIOUS
    <2>11. PICK d \in T : d = h[c]
      BY <2>4
    <2>12. PICK named : named = [y \in T \ {d} |-> right[y]]
      OBVIOUS
    <2>13. SumFunction(left) = left[c] + SumFunction(others)
      <3>1. Without(S, left, c, others)
        BY <2>5, <2>9, <2>10 DEF Without
      <3> QED
        BY <3>1, SumWithout
    <2>14. SumFunction(right) = right[d] + SumFunction(named)
      <3>1. Without(T, right, d, named)
        BY <2>5, <2>9, <2>12 DEF Without
      <3> QED
        BY <3>1, SumWithout
    <2>15. /\ others = [x \in rest |-> w[x]] /\ named = [y \in To(rest) |-> v[y]]
           /\ left[c] = w[c] /\ right[d] = v[h[c]]
      BY <2>1, <2>2, <2>4, <2>7, <2>8, <2>10, <2>12, <2>11
    <2>16. SumFunction(right) = SumFunction(left)
      BY <2>1, <2>6, <2>13, <2>14, <2>15
    <2> QED
      BY <2>3, <2>7, <2>8, <2>16
  <1>3. \A S \in SUBSET D : S \in F
    <2> HIDE DEF F
    <2> QED
      BY <1>1, <1>2, SetInduction
  <1>4. To(D) = E /\ D \in SUBSET D
    OBVIOUS
  <1> QED
    BY <1>3, <1>4

(* A part of a sum, and how it grows.                                      *)
PartOf(w, S) == [x \in S |-> w[x]]

LEMMA PartialSums ==
  ASSUME NEW D, IsFiniteSet(D), NEW w \in [D -> Nat]
  PROVE  /\ SumFunction(PartOf(w, {})) = 0
         /\ PartOf(w, D) = w
         /\ \A S \in SUBSET D : SumFunction(PartOf(w, S)) \in Nat
         /\ \A S \in SUBSET D : \A x \in S :
              SumFunction(PartOf(w, S)) = w[x] + SumFunction(PartOf(w, S \ {x}))
  <1>1. SumFunction(PartOf(w, {})) = 0
    <2>1. PICK e : e = PartOf(w, {})
      OBVIOUS
    <2>2. e \in [{} -> Nat]
      BY <2>1 DEF PartOf
    <2> QED
      BY <2>1, <2>2, FS_EmptySet, SumSteps
  <1>2. PartOf(w, D) = w
    BY DEF PartOf
  <1>3. ASSUME NEW S \in SUBSET D
        PROVE  IsFiniteSet(S) /\ PartOf(w, S) \in [S -> Nat]
    BY FS_Subset DEF PartOf
  <1>4. ASSUME NEW S \in SUBSET D
        PROVE  SumFunction(PartOf(w, S)) \in Nat
    <2>1. PICK p : p = PartOf(w, S)
      OBVIOUS
    <2>2. IsFiniteSet(S) /\ p \in [S -> Nat]
      BY <1>3, <2>1
    <2> QED
      BY <2>1, <2>2, SumSteps
  <1>5. ASSUME NEW S \in SUBSET D, NEW x \in S
        PROVE  SumFunction(PartOf(w, S)) = w[x] + SumFunction(PartOf(w, S \ {x}))
    <2>1. PICK p, q : p = PartOf(w, S) /\ q = PartOf(w, S \ {x})
      OBVIOUS
    <2>2. Without(S, p, x, q)
      BY <1>3, <2>1 DEF Without, PartOf
    <2>3. SumFunction(p) = p[x] + SumFunction(q)
      BY <2>2, SumWithout
    <2> QED
      BY <2>1, <2>3 DEF PartOf
  <1> QED
    BY <1>1, <1>2, <1>4, <1>5

LEMMA PartStep ==
  ASSUME NEW D, IsFiniteSet(D), NEW w \in [D -> Nat], NEW S \in SUBSET D, NEW x \in S
  PROVE  SumFunction(PartOf(w, S)) = w[x] + SumFunction(PartOf(w, S \ {x}))
  BY PartialSums

LEMMA PartNat ==
  ASSUME NEW D, IsFiniteSet(D), NEW w \in [D -> Nat], NEW S \in SUBSET D
  PROVE  SumFunction(PartOf(w, S)) \in Nat
  BY PartialSums

LEMMA SumAtMost ==
  ASSUME NEW D, IsFiniteSet(D), NEW w \in [D -> Nat], NEW v \in [D -> Nat],
         \A x \in D : v[x] <= w[x]
  PROVE  SumFunction(v) <= SumFunction(w)
  <1> DEFINE F == {S \in SUBSET D : SumFunction(PartOf(v, S)) <= SumFunction(PartOf(w, S))}
  <1>1. {} \in F
    BY PartialSums
  <1>2. ASSUME NEW S \in SUBSET D, S # {}, \A x \in S : S \ {x} \in F
        PROVE  S \in F
    <2>1. PICK x \in S : x \in D
      BY <1>2
    <2>2. PICK rest \in SUBSET D : rest = S \ {x}
      OBVIOUS
    <2>3. SumFunction(PartOf(v, S)) = v[x] + SumFunction(PartOf(v, rest))
      BY <2>2, PartStep
    <2>6. SumFunction(PartOf(w, S)) = w[x] + SumFunction(PartOf(w, rest))
      BY <2>2, PartStep
    <2>7. SumFunction(PartOf(v, rest)) \in Nat /\ SumFunction(PartOf(w, rest)) \in Nat
      BY PartNat
    <2>4. SumFunction(PartOf(v, rest)) <= SumFunction(PartOf(w, rest))
      BY <1>2, <2>1, <2>2
    <2>5. v[x] \in Nat /\ w[x] \in Nat /\ v[x] <= w[x]
      BY <2>1
    <2> QED
      BY <2>3, <2>4, <2>5, <2>6, <2>7
  <1>3. D \in F
    <2> HIDE DEF F
    <2>1. \A S \in SUBSET D : S \in F
      BY <1>1, <1>2, SetInduction
    <2> QED
      BY <2>1
  <1> QED
    BY <1>3, PartialSums

LEMMA SumOfSums ==
  ASSUME NEW D, IsFiniteSet(D), NEW w \in [D -> Nat], NEW v \in [D -> Nat], NEW both \in [D -> Nat],
         \A x \in D : both[x] = v[x] + w[x]
  PROVE  SumFunction(both) = SumFunction(v) + SumFunction(w)
  <1> DEFINE F == {S \in SUBSET D : SumFunction(PartOf(both, S))
                                     = SumFunction(PartOf(v, S)) + SumFunction(PartOf(w, S))}
  <1>1. {} \in F
    BY PartialSums
  <1>2. ASSUME NEW S \in SUBSET D, S # {}, \A x \in S : S \ {x} \in F
        PROVE  S \in F
    <2>1. PICK x \in S : x \in D
      BY <1>2
    <2>2. PICK rest \in SUBSET D : rest = S \ {x}
      OBVIOUS
    <2>3. SumFunction(PartOf(v, S)) = v[x] + SumFunction(PartOf(v, rest))
      BY <2>2, PartStep
    <2>6. SumFunction(PartOf(w, S)) = w[x] + SumFunction(PartOf(w, rest))
      BY <2>2, PartStep
    <2>7. SumFunction(PartOf(both, S)) = both[x] + SumFunction(PartOf(both, rest))
      BY <2>2, PartStep
    <2>8. SumFunction(PartOf(v, rest)) \in Nat /\ SumFunction(PartOf(w, rest)) \in Nat
      BY PartNat
    <2>4. SumFunction(PartOf(both, rest)) = SumFunction(PartOf(v, rest)) + SumFunction(PartOf(w, rest))
      BY <1>2, <2>1, <2>2
    <2>5. v[x] \in Nat /\ w[x] \in Nat /\ both[x] = v[x] + w[x]
      BY <2>1
    <2> QED
      BY <2>3, <2>4, <2>5, <2>6, <2>7, <2>8
  <1>3. D \in F
    <2> HIDE DEF F
    <2>1. \A S \in SUBSET D : S \in F
      BY <1>1, <1>2, SetInduction
    <2> QED
      BY <2>1
  <1> QED
    BY <1>3, PartialSums

LEMMA SumAtMostBoth ==
  ASSUME NEW D, IsFiniteSet(D), NEW v \in [D -> Nat], NEW w \in [D -> Nat], NEW u \in [D -> Nat],
         \A x \in D : u[x] <= v[x] + w[x]
  PROVE  SumFunction(u) <= SumFunction(v) + SumFunction(w)
  <1>1. PICK both : both = [x \in D |-> v[x] + w[x]]
    OBVIOUS
  <1>2. both \in [D -> Nat] /\ \A x \in D : both[x] = v[x] + w[x] /\ u[x] <= both[x]
    BY <1>1
  <1>3. SumFunction(both) = SumFunction(v) + SumFunction(w)
    BY <1>2, SumOfSums
  <1>4. SumFunction(u) <= SumFunction(both)
    BY <1>2, SumAtMost
  <1> QED
    BY <1>3, <1>4

LEMMA SumBounded ==
  ASSUME NEW D, IsFiniteSet(D), NEW w \in [D -> Nat], NEW m \in Nat, \A x \in D : w[x] <= m
  PROVE  SumFunction(w) <= m * Cardinality(D)
  <1> DEFINE F == {S \in SUBSET D : SumFunction(PartOf(w, S)) <= m * Cardinality(S)}
  <1>1. {} \in F
    <2>1. Cardinality({}) = 0 /\ m * 0 = 0
      BY FS_EmptySet
    <2> QED
      BY <2>1, PartialSums
  <1>2. ASSUME NEW S \in SUBSET D, S # {}, \A x \in S : S \ {x} \in F
        PROVE  S \in F
    <2>1. PICK x \in S : x \in D
      BY <1>2
    <2>2. PICK rest \in SUBSET D : rest = S \ {x}
      OBVIOUS
    <2>3. /\ SumFunction(PartOf(w, S)) = w[x] + SumFunction(PartOf(w, rest))
          /\ SumFunction(PartOf(w, rest)) \in Nat
      BY <2>2, PartialSums
    <2>4. SumFunction(PartOf(w, rest)) <= m * Cardinality(rest)
      BY <1>2, <2>1, <2>2
    <2>5. Cardinality(S) \in Nat /\ Cardinality(rest) \in Nat /\ Cardinality(S) = Cardinality(rest) + 1
      <3>1. Cardinality(rest) = Cardinality(S) - 1
        BY <2>2, SubsetsAre
      <3> QED
        BY <3>1, SubsetsAre
    <2>6. m * Cardinality(S) = m * Cardinality(rest) + m
      BY <2>5
    <2>7. m * Cardinality(rest) \in Nat /\ m * Cardinality(S) \in Nat
      BY <2>5
    <2>8. w[x] \in Nat /\ w[x] <= m
      BY <2>1
    <2> QED
      BY <2>3, <2>4, <2>6, <2>7, <2>8
  <1>3. D \in F
    <2> HIDE DEF F
    <2>1. \A S \in SUBSET D : S \in F
      BY <1>1, <1>2, SetInduction
    <2> QED
      BY <2>1
  <1> QED
    BY <1>3, PartialSums

LEMMA SumOfOne ==
  ASSUME NEW x, NEW n \in Nat
  PROVE  SumFunction([y \in {x} |-> n]) = n
  <1>1. PICK w : w = [y \in {x} |-> n]
    OBVIOUS
  <1>2. IsFiniteSet({x}) /\ w \in [{x} -> Nat] /\ w[x] = n
    BY <1>1, FS_Singleton
  <1>3. SumFunction(PartOf(w, {x})) = w[x] + SumFunction(PartOf(w, {x} \ {x}))
    BY <1>2, PartialSums
  <1>4. {x} \ {x} = {} /\ SumFunction(PartOf(w, {})) = 0 /\ PartOf(w, {x}) = w
    BY <1>2, PartialSums
  <1> QED
    BY <1>1, <1>2, <1>3, <1>4

(* What is nowhere but at x adds up to what is at x.                       *)
LEMMA SumOnlyAt ==
  ASSUME NEW D, IsFiniteSet(D), NEW w \in [D -> Nat], NEW x \in D,
         \A y \in D : y # x => w[y] = 0
  PROVE  SumFunction(w) = w[x]
  <1>1. PICK rest \in SUBSET D : rest = D \ {x}
    OBVIOUS
  <1>2. PICK v : v = [y \in rest |-> w[y]]
    OBVIOUS
  <1>3. IsFiniteSet(rest) /\ v \in [rest -> Nat] /\ \A y \in rest : v[y] <= 0
    BY <1>1, <1>2, FS_Subset
  <1>4. SumFunction(v) \in Nat
    BY <1>3, SumSteps
  <1>5. SumFunction(v) <= 0 * Cardinality(rest)
    <2>1. 0 \in Nat
      OBVIOUS
    <2> QED
      BY <1>3, <2>1, SumBounded
  <1>6. Cardinality(rest) \in Nat
    BY <1>3, FS_CardinalityType
  <1>7. Without(D, w, x, v)
    BY <1>1, <1>2, <1>3 DEF Without
  <1>8. SumFunction(w) = w[x] + SumFunction(v)
    BY <1>7, SumWithout
  <1>9. 0 * Cardinality(rest) = 0 /\ w[x] \in Nat
    BY <1>6
  <1> QED
    BY <1>4, <1>5, <1>8, <1>9

(* A sum over two parts.                                                   *)
LEMMA SumOfParts ==
  ASSUME NEW D, IsFiniteSet(D), NEW w \in [D -> Nat],
         NEW A \in SUBSET D, NEW B \in SUBSET D, A \cap B = {}
  PROVE  SumFunction(PartOf(w, A \cup B)) = SumFunction(PartOf(w, A)) + SumFunction(PartOf(w, B))
  <1> DEFINE F == {S \in SUBSET B : SumFunction(PartOf(w, A \cup S))
                                     = SumFunction(PartOf(w, A)) + SumFunction(PartOf(w, S))}
  <1>0. IsFiniteSet(B)
    BY FS_Subset
  <1>1. {} \in F
    <2>1. A \cup {} = A
      OBVIOUS
    <2>2. SumFunction(PartOf(w, A)) \in Nat
      BY PartNat
    <2>3. SumFunction(PartOf(w, {})) = 0
      BY PartialSums
    <2> QED
      BY <2>1, <2>2, <2>3
  <1>2. ASSUME NEW S \in SUBSET B, S # {}, \A x \in S : S \ {x} \in F
        PROVE  S \in F
    <2>1. PICK x \in S : x \in D /\ x \notin A
      BY <1>2
    <2>2. PICK rest \in SUBSET B : rest = S \ {x}
      OBVIOUS
    <2>3. PICK all \in SUBSET D : all = A \cup S
      OBVIOUS
    <2>4. PICK fewer \in SUBSET D : fewer = A \cup rest
      OBVIOUS
    <2>5. all \ {x} = fewer /\ x \in all /\ S \in SUBSET D /\ rest \in SUBSET D
      BY <2>1, <2>2, <2>3, <2>4
    <2>6. SumFunction(PartOf(w, all)) = w[x] + SumFunction(PartOf(w, fewer))
      BY <2>5, PartStep
    <2>7. SumFunction(PartOf(w, S)) = w[x] + SumFunction(PartOf(w, rest))
      BY <2>2, <2>5, PartStep
    <2>8. SumFunction(PartOf(w, fewer)) = SumFunction(PartOf(w, A)) + SumFunction(PartOf(w, rest))
      BY <1>2, <2>1, <2>2, <2>4
    <2>9. /\ SumFunction(PartOf(w, A)) \in Nat /\ SumFunction(PartOf(w, rest)) \in Nat
          /\ w[x] \in Nat
      BY <2>1, <2>5, PartNat
    <2> QED
      BY <2>3, <2>6, <2>7, <2>8, <2>9
  <1>3. B \in F
    <2> HIDE DEF F
    <2>1. \A S \in SUBSET B : S \in F
      BY <1>0, <1>1, <1>2, SetInduction
    <2> QED
      BY <2>1
  <1> QED
    BY <1>3

(* Up to so many pairs for each v are as many as they are together.        *)
LEMMA PairsCounted ==
  ASSUME NEW V, IsFiniteSet(V), NEW n \in Nat, NEW w \in [V -> Nat], \A v \in V : w[v] <= n
  PROVE  Cardinality({c \in V \X (1 .. n) : c[2] <= w[c[1]]}) = SumFunction(w)
  <1>1. PICK R : R = {c \in V \X (1 .. n) : c[2] <= w[c[1]]}
    OBVIOUS
  <1>2. IsFiniteSet(R)
    <2>1. IsFiniteSet(V \X (1 .. n))
      <3>1. IsFiniteSet(1 .. n)
        BY FS_Interval
      <3> QED
        BY <3>1, FS_Product
    <2> QED
      BY <1>1, <2>1, FS_Subset
  <1>3. PICK key : key = [c \in R |-> c[1]]
    OBVIOUS
  <1>4. ASSUME NEW v \in V
        PROVE  Cardinality({c \in R : key[c] = v}) = w[v]
    <2>1. PICK T : T = {c \in R : key[c] = v}
      OBVIOUS
    <2>2. \A c \in T : c = <<v, c[2]>> /\ c[2] \in 1 .. w[v]
      BY <1>1, <1>3, <2>1
    <2>3. \A i \in 1 .. w[v] : <<v, i>> \in T
      BY <1>1, <1>3, <2>1
    <2>4. PICK m \in Nat : m = w[v]
      OBVIOUS
    <2>5. PICK h : h = [i \in 1 .. m |-> <<v, i>>]
      OBVIOUS
    <2>6. h \in Bijection(1 .. m, T)
      <3>1. h \in [1 .. m -> T]
        BY <2>3, <2>4, <2>5
      <3>2. \A i, j \in 1 .. m : h[i] = h[j] => i = j
        BY <2>5
      <3>3. \A c \in T : \E i \in 1 .. m : h[i] = c
        BY <2>2, <2>4, <2>5
      <3> QED
        BY <3>1, <3>2, <3>3 DEF Bijection, Injection, Surjection, IsInjective
    <2>7. ExistsBijection(1 .. m, T)
      BY <2>6 DEF ExistsBijection
    <2> QED
      BY <2>1, <2>4, <2>7, FS_CountingElements
  <1>5. [v \in V |-> Cardinality({c \in R : key[c] = v})] = w
    BY <1>4
  <1>6. {c \in R : key[c] \in V} = R
    BY <1>1, <1>3
  <1>7. SumFunction([v \in V |-> Cardinality({c \in R : key[c] = v})])
          = Cardinality({c \in R : key[c] \in V})
    BY <1>2, CountByKey
  <1> QED
    BY <1>1, <1>5, <1>6, <1>7

(* In a finite set something is not beaten, if what beats does not go      *)
(* round and what is beaten by another is not better than who is not.      *)
WeakOrder(R, D) ==
  /\ \A x, y \in D : <<x, y>> \in R => <<y, x>> \notin R
  /\ \A x, y, z \in D : <<x, y>> \in R => <<x, z>> \in R \/ <<z, y>> \in R

LEMMA Unbeaten ==
  ASSUME NEW D, IsFiniteSet(D), NEW R, WeakOrder(R, D), D # {}
  PROVE  \E x \in D : \A y \in D : <<y, x>> \notin R
  <1> DEFINE F == {S \in SUBSET D : S = {} \/ \E x \in S : \A y \in S : <<y, x>> \notin R}
  <1>1. {} \in F
    OBVIOUS
  <1>2. ASSUME NEW S \in SUBSET D, S # {}, \A x \in S : S \ {x} \in F
        PROVE  S \in F
    <2>1. PICK x \in S : x \in D
      BY <1>2
    <2>2. <<x, x>> \notin R
      BY <2>1 DEF WeakOrder
    <2>3. CASE S \ {x} = {}
      BY <2>1, <2>2, <2>3
    <2>4. CASE S \ {x} # {}
      <3>1. PICK z \in S \ {x} : \A y \in S \ {x} : <<y, z>> \notin R
        BY <1>2, <2>1, <2>4
      <3>2. CASE <<x, z>> \notin R
        BY <3>1, <3>2
      <3>3. CASE <<x, z>> \in R
        <4>1. \A y \in S \ {x} : <<y, x>> \notin R
          BY <2>1, <3>1, <3>3 DEF WeakOrder
        <4> QED
          BY <2>1, <2>2, <4>1
      <3> QED
        BY <3>2, <3>3
    <2> QED
      BY <2>3, <2>4
  <1>3. D \in F
    <2> HIDE DEF F
    <2>1. \A S \in SUBSET D : S \in F
      BY <1>1, <1>2, SetInduction
    <2> QED
      BY <2>1
  <1> QED
    BY <1>3

LEMMA LeastExists ==
  ASSUME NEW D, IsFiniteSet(D), D \subseteq Int, D # {}
  PROVE  \E n \in D : \A m \in D : n <= m
  <1>1. PICK R : R = {p \in D \X D : p[1] < p[2]}
    OBVIOUS
  <1>2. WeakOrder(R, D)
    <2>1. \A x, y \in D : <<x, y>> \in R <=> x < y
      BY <1>1
    <2> QED
      BY <2>1 DEF WeakOrder
  <1>3. PICK n \in D : \A m \in D : <<m, n>> \notin R
    BY <1>2, Unbeaten
  <1>4. \A m \in D : ~(m < n)
    BY <1>1, <1>3
  <1> QED
    BY <1>4

LEMMA GreatestExists ==
  ASSUME NEW D, IsFiniteSet(D), D \subseteq Int, D # {}
  PROVE  \E n \in D : \A m \in D : n >= m
  <1>1. PICK R : R = {p \in D \X D : p[1] > p[2]}
    OBVIOUS
  <1>2. WeakOrder(R, D)
    <2>1. \A x, y \in D : <<x, y>> \in R <=> x > y
      BY <1>1
    <2> QED
      BY <2>1 DEF WeakOrder
  <1>3. PICK n \in D : \A m \in D : <<m, n>> \notin R
    BY <1>2, Unbeaten
  <1>4. \A m \in D : ~(m > n)
    BY <1>1, <1>3
  <1> QED
    BY <1>4
================================================================================
