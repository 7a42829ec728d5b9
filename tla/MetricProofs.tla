---------------------------- MODULE MetricProofs ----------------------------
(***************************************************************************)
(* Proofs about the rules of engine/metrics/ for inputs of any size: what  *)
(* coverage counts, what greedy matching and painting make of an order by  *)
(* confidence, what grounding rests on, what registration guarantees.      *)
(*                                                                         *)
(* The rules walk through lists and sets, which the models say with folds. *)
(* Induction is stated of sets instead of predicates, and a fold over a    *)
(* list is replaced by the list of its intermediate results.               *)
(***************************************************************************)
EXTENDS RuleProofs, Coverage, Grounding, Intake

-----------------------------------------------------------------------------
(* Induction                                                               *)

\* There are n numbers up to n.
LEMMA FirstNumbers ==
  ASSUME NEW n \in Nat
  PROVE  IsFiniteSet(1..n) /\ Cardinality(1..n) = n
  <1>1. /\ IsFiniteSet(1..n)
        /\ Cardinality(1..n) = IF 1 > n THEN 0 ELSE n - 1 + 1
    BY FS_Interval
  <1> QED BY <1>1

\* A set of numbers that is not empty has a smallest.
LEMMA SmallestExists ==
  ASSUME NEW S \in SUBSET Nat, S # {}
  PROVE  Min(S) \in S /\ \A y \in S : Min(S) <= y
  <1>1. S \subseteq Nat
    OBVIOUS
  <1>2. PICK t \in S : \A y \in S : ~(<<y, t>> \in OpToRel(<, Nat))
    BY <1>1, NatLessThanWellFounded, WFMin
  <1>3. \A y \in S : ~(y < t)
    BY <1>1, <1>2 DEF OpToRel
  <1>4. \A y \in S : t <= y
    BY <1>1, <1>3
  <1> QED BY <1>2, <1>4 DEF Min

\* What is in a set of numbers with 0 and is handed on from each number to the
\* next one up to n.
LEMMA Steps ==
  ASSUME NEW n \in Nat, NEW P, 0 \in P, \A k \in 1..n : k - 1 \in P => k \in P
  PROVE  \A k \in 0..n : k \in P
  <1> DEFINE T == {k \in 0..n : k \notin P}
  <1>1. SUFFICES ASSUME T # {} PROVE FALSE
    OBVIOUS
  <1>2. T \in SUBSET Nat
    OBVIOUS
  <1>3. Min(T) \in T /\ \A y \in T : Min(T) <= y
    <2> HIDE DEF T
    <2> QED BY <1>1, <1>2, SmallestExists
  <1>4. PICK t \in T : \A y \in T : t <= y
    BY <1>3
  <1>5. t \in 1..n /\ t - 1 \in 0..n /\ t - 1 < t
    BY <1>4
  <1> QED BY <1>4, <1>5

\* The element that a fold over a set takes first.
FirstOf(S) == CHOOSE x \in S : TRUE

\* What holds of the empty part of a finite set, and of a part when it holds of
\* the part without that element, holds of the set.
LEMMA Shrinking ==
  ASSUME NEW S, IsFiniteSet(S), NEW P, {} \in P,
         \A T \in SUBSET S : T # {} /\ T \ {FirstOf(T)} \in P => T \in P
  PROVE  S \in P
  <1> DEFINE n == Cardinality(S)
             Q == {k \in 0..n : \A T \in SUBSET S : Cardinality(T) = k => T \in P}
  <1>1. n \in Nat
    BY FS_CardinalityType
  <1>2. \A T \in SUBSET S : IsFiniteSet(T) /\ Cardinality(T) \in Nat
    BY FS_Subset, FS_CardinalityType
  <1>3. 0 \in Q
    <2>1. \A T \in SUBSET S : Cardinality(T) = 0 => T = {}
      BY <1>2, FS_EmptySet
    <2> QED BY <1>1, <2>1
  <1>4. ASSUME NEW k \in 1..n, k - 1 \in Q PROVE k \in Q
    <2> SUFFICES ASSUME NEW T \in SUBSET S, Cardinality(T) = k PROVE T \in P
      BY <1>1
    <2>1. T # {} /\ FirstOf(T) \in T
      <3>1. k # 0 /\ Cardinality({}) = 0
        BY <1>1, FS_EmptySet
      <3> QED BY <3>1 DEF FirstOf
    <2> DEFINE x == FirstOf(T)
    <2> HIDE DEF x
    <2>2. Cardinality(T \ {x}) = k - 1
      <3>1. x \in T /\ IsFiniteSet(T)
        BY <1>2, <2>1 DEF x
      <3> QED BY <3>1, FS_RemoveElement
    <2>3. T \ {x} \in P
      BY <1>4, <2>2
    <2> QED BY <2>1, <2>3 DEF x
  <1> HIDE DEF Q
  <1>5. \A k \in 0..n : k \in Q
    BY <1>1, <1>3, <1>4, Steps
  <1> QED BY <1>1, <1>5 DEF Q

\* What holds of the empty part of a finite set and is kept when one element is
\* added holds of the set.
LEMMA Growing ==
  ASSUME NEW S, IsFiniteSet(S), NEW P, {} \in P,
         \A T \in SUBSET S : \A x \in S \ T : T \in P => T \cup {x} \in P
  PROVE  S \in P
  <1>1. ASSUME NEW T \in SUBSET S, T # {}, T \ {FirstOf(T)} \in P PROVE T \in P
    <2>1. FirstOf(T) \in T
      BY <1>1 DEF FirstOf
    <2>2. T \ {FirstOf(T)} \in SUBSET S /\ FirstOf(T) \in S \ (T \ {FirstOf(T)})
      BY <2>1
    <2>3. (T \ {FirstOf(T)}) \cup {FirstOf(T)} = T
      BY <2>1
    <2>4. (T \ {FirstOf(T)}) \cup {FirstOf(T)} \in P
      BY <1>1, <2>2
    <2> QED BY <2>3, <2>4
  <1> QED BY <1>1, Shrinking

\* A finite set of numbers that is not empty has a largest.
LEMMA FiniteHasLargest ==
  ASSUME NEW S \in SUBSET Nat, IsFiniteSet(S), S # {}
  PROVE  Max(S) \in S /\ \A y \in S : Max(S) >= y
  <1> DEFINE P == {T \in SUBSET S : \E n \in Nat : \A y \in T : y <= n}
  <1>1. {} \in P
    OBVIOUS
  <1>2. ASSUME NEW T \in SUBSET S, NEW x \in S \ T, T \in P PROVE T \cup {x} \in P
    <2>1. PICK n \in Nat : \A y \in T : y <= n
      BY <1>2
    <2>2. n + x \in Nat /\ \A y \in T \cup {x} : y <= n + x
      BY <2>1
    <2> QED BY <2>2
  <1> HIDE DEF P
  <1>3. S \in P
    BY <1>1, <1>2, Growing
  <1>4. PICK n \in Nat : S \in SUBSET (0..n)
    BY <1>3 DEF P
  <1> QED BY <1>4, LargestExists

-----------------------------------------------------------------------------
(* Folds                                                                   *)

\* The largest of the first numbers, and what is left without it.
LEMMA MaxOfFirst ==
  ASSUME NEW k \in Nat, k >= 1
  PROVE  Max(1..k) = k /\ (1..k) \ {Max(1..k)} = 1..(k - 1)
  <1>1. 1..k \in SUBSET (0..k) /\ 1..k # {}
    OBVIOUS
  <1>2. Max(1..k) \in 1..k /\ \A y \in 1..k : Max(1..k) >= y
    BY <1>1, LargestExists
  <1>3. Max(1..k) = k
    BY <1>2
  <1> QED BY <1>3

\* The largest of some of the first numbers is one of them.
LEMMA MaxOfPart ==
  ASSUME NEW n \in Nat, NEW d \in SUBSET (1..n), d # {}
  PROVE  Max(d) \in d /\ Max(d) \in 1..n /\ \A y \in d : Max(d) >= y
  <1>1. d \in SUBSET (0..n)
    OBVIOUS
  <1>2. Max(d) \in d /\ \A y \in d : Max(d) >= y
    BY <1>1, LargestExists
  <1> QED BY <1>2

\* step[k] takes what a fold over 1..n has when it comes to k further.
StepOf(n, A, base, step) == n \in Nat /\ base \in A /\ step \in [1..n -> [A -> A]]

\* What the fold is of every part of 1..n, taking the largest element first.
FoldOf(n, A, base, step, it) ==
  /\ it \in [SUBSET (1..n) -> A]
  /\ \A d \in SUBSET (1..n) :
       it[d] = IF d = {} THEN base ELSE step[Max(d)][it[d \ {Max(d)}]]

\* A fold that takes the largest element first is well defined: there is a
\* function on the parts of 1..n that does what its recursion says.
LEMMA FoldExists ==
  ASSUME NEW n, NEW A, NEW base, NEW step, StepOf(n, A, base, step)
  PROVE  \E it : FoldOf(n, A, base, step, it)
  <1>0. n \in Nat /\ base \in A /\ step \in [1..n -> [A -> A]]
    BY DEF StepOf
  <1> DEFINE Good(m, it) == FoldOf(m, A, base, step, it)
             P == {m \in 0..n : \E it : Good(m, it)}
  <1>1. 0 \in P
    <2> DEFINE it == [d \in SUBSET (1..0) |-> base]
    <2>1. Good(0, it)
      <3>1. 1..0 = {}
        OBVIOUS
      <3> QED BY <1>0, <3>1 DEF FoldOf
    <2>2. 0 \in 0..n
      BY <1>0
    <2> HIDE DEF Good, it
    <2> QED BY <2>1, <2>2
  <1>2. ASSUME NEW m \in 1..n, m - 1 \in P PROVE m \in P
    <2>0. m \in Nat /\ m >= 1 /\ m - 1 \in 0..n /\ m \in 0..n
      BY <1>0
    <2>1. PICK it : Good(m - 1, it)
      <3> HIDE DEF Good
      <3> QED BY <1>2
    <2> DEFINE more == [d \in SUBSET (1..m) |->
                         IF m \in d THEN step[m][it[d \ {m}]] ELSE it[d]]
    <2>2. \A d \in SUBSET (1..m) : /\ d \ {m} \in SUBSET (1..(m - 1))
                                   /\ m \notin d => d \in SUBSET (1..(m - 1))
      OBVIOUS
    <2>3. more \in [SUBSET (1..m) -> A]
      BY <1>0, <2>1, <2>2 DEF FoldOf
    <2>4. ASSUME NEW d \in SUBSET (1..m)
          PROVE  more[d] = IF d = {} THEN base ELSE step[Max(d)][more[d \ {Max(d)}]]
      <3>0. d # {} => Max(d) \in d /\ \A y \in d : Max(d) >= y
        BY <2>0, MaxOfPart
      <3>1. CASE m \in d
        <4>1. Max(d) = m
          <5>1. Max(d) \in 1..m /\ Max(d) >= m
            BY <3>0, <3>1
          <5> QED BY <2>0, <5>1
        <4>2. more[d] = step[m][it[d \ {m}]] /\ more[d \ {m}] = it[d \ {m}]
          BY <2>2, <3>1
        <4> QED BY <3>1, <4>1, <4>2
      <3>2. CASE m \notin d /\ d = {}
        BY <2>1, <2>2, <3>2 DEF FoldOf
      <3>3. CASE m \notin d /\ d # {}
        <4>1. d \in SUBSET (1..(m - 1)) /\ d \ {Max(d)} \in SUBSET (1..(m - 1))
          BY <2>2, <3>3
        <4>2. more[d] = it[d] /\ more[d \ {Max(d)}] = it[d \ {Max(d)}]
          BY <3>3, <4>1
        <4> QED BY <2>1, <3>3, <4>1, <4>2 DEF FoldOf
      <3> QED BY <3>1, <3>2, <3>3
    <2> HIDE DEF more
    <2>5. Good(m, more)
      BY <2>3, <2>4 DEF FoldOf
    <2> HIDE DEF Good
    <2> QED BY <2>5
  <1> HIDE DEF P
  <1>3. \A m \in 0..n : m \in P
    BY <1>0, <1>1, <1>2, Steps
  <1>4. PICK it : Good(n, it)
    <2> HIDE DEF Good
    <2> QED BY <1>0, <1>3 DEF P
  <1> QED BY <1>4

\* j goes the same way wherever it is in A.
FoldedAs(n, A, base, step, j) ==
  \A d \in SUBSET (1..n) :
    IF d = {} THEN j[d] = base
    ELSE j[d \ {Max(d)}] \in A => j[d] = step[Max(d)][j[d \ {Max(d)}]]

\* The intermediate results of a fold, from first to last.
ResultsOf(n, A, base, step, h) ==
  /\ h \in [0..n -> A]
  /\ h[0] = base
  /\ \A k \in 1..n : h[k] = step[k][h[k - 1]]

\* A fold over 1..n is the last of its intermediate results.
LEMMA FoldUnrolls ==
  ASSUME NEW n, NEW A, NEW base, NEW step, StepOf(n, A, base, step),
         NEW j, FoldedAs(n, A, base, step, j)
  PROVE  \E h : ResultsOf(n, A, base, step, h) /\ h[n] = j[1..n]
  <1>0. n \in Nat /\ base \in A /\ step \in [1..n -> [A -> A]]
    BY DEF StepOf
  <1> DEFINE h == [k \in 0..n |-> j[1..k]]
  <1>1. h[0] = base /\ 0 \in 0..n
    <2>1. 1..0 = {} /\ {} \in SUBSET (1..n)
      OBVIOUS
    <2>2. j[1..0] = base
      BY <2>1 DEF FoldedAs
    <2> QED BY <1>0, <2>2
  <1>2. ASSUME NEW k \in 1..n, h[k - 1] \in A PROVE h[k] = step[k][h[k - 1]] /\ h[k] \in A
    <2>0. k \in Nat /\ k >= 1 /\ k <= n /\ k \in 0..n /\ k - 1 \in 0..n
      BY <1>0
    <2>1. 1..k \in SUBSET (1..n) /\ k \in 1..k
      BY <1>0, <2>0
    <2>2. Max(1..k) = k /\ (1..k) \ {k} = 1..(k - 1)
      BY <2>0, MaxOfFirst
    <2>3. h[k] = j[1..k] /\ h[k - 1] = j[1..(k - 1)]
      BY <2>0
    <2> HIDE DEF h
    <2>4. j[1..k] = step[k][j[1..(k - 1)]]
      BY <1>2, <2>1, <2>2, <2>3 DEF FoldedAs
    <2> QED BY <1>0, <1>2, <2>3, <2>4
  <1>3. \A k \in 0..n : h[k] \in A
    <2> DEFINE P == {k \in 0..n : h[k] \in A}
    <2>1. 0 \in P
      <3> HIDE DEF h
      <3> QED BY <1>0, <1>1
    <2>2. \A k \in 1..n : k - 1 \in P => k \in P
      <3> HIDE DEF h
      <3> QED BY <1>0, <1>2
    <2> HIDE DEF P
    <2>3. \A k \in 0..n : k \in P
      BY <1>0, <2>1, <2>2, Steps
    <2> QED BY <2>3 DEF P
  <1>4. \A k \in 1..n : h[k] = step[k][h[k - 1]]
    <2> SUFFICES ASSUME NEW k \in 1..n PROVE h[k] = step[k][h[k - 1]]
      OBVIOUS
    <2>1. k - 1 \in 0..n
      BY <1>0
    <2> HIDE DEF h
    <2> QED BY <1>2, <1>3, <2>1
  <1>5. h \in [0..n -> A] /\ h[n] = j[1..n]
    BY <1>0, <1>3
  <1> HIDE DEF h
  <1> QED BY <1>1, <1>4, <1>5 DEF ResultsOf

\* The same of a fold over a set that takes any element first.
SetStepOf(S, A, base, step) == IsFiniteSet(S) /\ base \in A /\ step \in [S -> [A -> A]]
SetFoldOf(S, A, base, step, it) ==
  /\ it \in [SUBSET S -> A]
  /\ \A d \in SUBSET S :
       it[d] = IF d = {} THEN base
               ELSE step[FirstOf(d)][it[d \ {FirstOf(d)}]]

\* A fold over a finite set is well defined.
LEMMA SetFoldExists ==
  ASSUME NEW S, NEW A, NEW base, NEW step, SetStepOf(S, A, base, step)
  PROVE  \E it : SetFoldOf(S, A, base, step, it)
  <1>0. IsFiniteSet(S) /\ base \in A /\ step \in [S -> [A -> A]]
    BY DEF SetStepOf
  <1> DEFINE n == Cardinality(S)
             Parts(m) == {d \in SUBSET S : Cardinality(d) <= m}
             Good(m, it) ==
               /\ it \in [Parts(m) -> A]
               /\ \A d \in Parts(m) :
                    it[d] = IF d = {} THEN base ELSE step[FirstOf(d)][it[d \ {FirstOf(d)}]]
             P == {m \in 0..n : \E it : Good(m, it)}
  <1>a. n \in Nat
    BY <1>0, FS_CardinalityType
  <1>b. \A d \in SUBSET S : /\ IsFiniteSet(d) /\ Cardinality(d) \in Nat
                            /\ Cardinality(d) <= n
                            /\ Cardinality(d) = 0 <=> d = {}
    BY <1>0, FS_Subset, FS_CardinalityType, FS_EmptySet
  <1>c. \A d \in SUBSET S : d # {} =>
          /\ FirstOf(d) \in d
          /\ d \ {FirstOf(d)} \in SUBSET S
          /\ Cardinality(d \ {FirstOf(d)}) = Cardinality(d) - 1
    BY <1>b, FS_RemoveElement DEF FirstOf
  <1> HIDE DEF n
  <1>1. 0 \in P
    <2> DEFINE it == [d \in Parts(0) |-> base]
    <2>1. Good(0, it)
      <3>1. \A d \in Parts(0) : d = {}
        BY <1>b
      <3> QED BY <1>0, <3>1
    <2> HIDE DEF Good, it
    <2> QED BY <1>a, <2>1
  <1>2. ASSUME NEW m \in 1..n, m - 1 \in P PROVE m \in P
    <2>0. m \in Nat /\ m >= 1 /\ m - 1 \in 0..n /\ m \in 0..n
      BY <1>a
    <2>1. PICK it : Good(m - 1, it)
      <3> HIDE DEF Good
      <3> QED BY <1>2
    <2> DEFINE more == [d \in Parts(m) |->
                         IF d = {} THEN base ELSE step[FirstOf(d)][it[d \ {FirstOf(d)}]]]
    <2>2. \A d \in Parts(m) : d # {} => FirstOf(d) \in S /\ d \ {FirstOf(d)} \in Parts(m - 1)
      <3> SUFFICES ASSUME NEW d \in Parts(m), d # {}
                   PROVE  FirstOf(d) \in S /\ d \ {FirstOf(d)} \in Parts(m - 1)
        OBVIOUS
      <3>1. d \in SUBSET S /\ Cardinality(d) \in Nat /\ Cardinality(d) <= m
        BY <1>b
      <3>2. /\ FirstOf(d) \in S /\ d \ {FirstOf(d)} \in SUBSET S
            /\ Cardinality(d \ {FirstOf(d)}) = Cardinality(d) - 1
        BY <1>c, <3>1
      <3>3. Cardinality(d) - 1 <= m - 1
        BY <2>0, <3>1
      <3> QED BY <3>2, <3>3
    <2>3. more \in [Parts(m) -> A]
      <3>1. \A d \in Parts(m) : d # {} => it[d \ {FirstOf(d)}] \in A
        <4> HIDE DEF Parts
        <4> QED BY <2>1, <2>2
      <3> HIDE DEF Parts
      <3> QED BY <1>0, <2>2, <3>1
    <2>4. \A d \in Parts(m - 1) : d \in Parts(m) /\ more[d] = it[d]
      <3> SUFFICES ASSUME NEW d \in Parts(m - 1) PROVE d \in Parts(m) /\ more[d] = it[d]
        OBVIOUS
      <3>1. d \in Parts(m)
        BY <1>b, <2>0
      <3> HIDE DEF Parts
      <3> QED BY <2>1, <3>1
    <2>5. \A d \in Parts(m) :
            more[d] = IF d = {} THEN base ELSE step[FirstOf(d)][more[d \ {FirstOf(d)}]]
      <3> HIDE DEF Parts
      <3> SUFFICES ASSUME NEW d \in Parts(m)
                   PROVE  more[d] = IF d = {} THEN base
                                    ELSE step[FirstOf(d)][more[d \ {FirstOf(d)}]]
        OBVIOUS
      <3>1. CASE d = {}
        BY <3>1
      <3>2. CASE d # {}
        <4>1. more[d] = step[FirstOf(d)][it[d \ {FirstOf(d)}]]
          BY <3>2
        <4> HIDE DEF more
        <4> QED BY <2>2, <2>4, <3>2, <4>1
      <3> QED BY <3>1, <3>2
    <2> HIDE DEF more, Parts
    <2>6. Good(m, more)
      BY <2>3, <2>5
    <2> HIDE DEF Good
    <2> QED BY <2>0, <2>6
  <1> HIDE DEF P
  <1>3. \A m \in 0..n : m \in P
    BY <1>1, <1>2, <1>a, Steps
  <1>4. PICK it : Good(n, it)
    <2> HIDE DEF Good
    <2> QED BY <1>3, <1>a DEF P
  <1>5. Parts(n) = SUBSET S
    BY <1>b
  <1> HIDE DEF Parts
  <1> QED BY <1>4, <1>5 DEF SetFoldOf

-----------------------------------------------------------------------------
(* What coverage counts                                                    *)

\* The images seen after each of the predictions.
SeenAfter(s, h) ==
  /\ h \in [0..Len(s) -> Seq({s[i].image : i \in DOMAIN s})]
  /\ h[0] = <<>> /\ h[Len(s)] = Seen(s)
  /\ \A k \in 1..Len(s) :
       h[k] = IF s[k].image \in ToSet(h[k - 1]) THEN h[k - 1] ELSE Append(h[k - 1], s[k].image)

\* There are such intermediate results.
LEMMA SeenUnrolls ==
  ASSUME NEW S, NEW s \in Seq(S)
  PROVE  \E h : SeenAfter(s, h)
  <1> DEFINE n == Len(s)
             A == Seq({s[i].image : i \in DOMAIN s})
             More(p, seen) == IF p.image \in ToSet(seen) THEN seen ELSE Append(seen, p.image)
             step == [k \in 1..n |-> [seen \in A |-> More(s[k], seen)]]
  <1>1. n \in Nat /\ DOMAIN s = 1..n /\ <<>> \in A
    OBVIOUS
  <1>2. \A k \in 1..n : \A seen \in A : More(s[k], seen) \in A
    BY <1>1
  <1>3. step \in [1..n -> [A -> A]]
    BY <1>2
  <1>a. StepOf(n, A, <<>>, step)
    BY <1>1, <1>3 DEF StepOf
  <1>4. PICK it : FoldOf(n, A, <<>>, step, it)
    <2> HIDE DEF n, A, step
    <2> QED BY <1>a, FoldExists
  <1>5. \A d \in SUBSET (1..n) : d # {} => Max(d) \in 1..n
    BY <1>1, MaxOfPart
  <1>6. it = [d \in SUBSET DOMAIN s |-> IF d = {} THEN <<>>
                                        ELSE More(s[Max(d)], it[d \ {Max(d)}])]
    <2>1. \A d \in SUBSET (1..n) : d # {} =>
            step[Max(d)][it[d \ {Max(d)}]] = More(s[Max(d)], it[d \ {Max(d)}])
      <3> HIDE DEF A, More
      <3> QED BY <1>4, <1>5 DEF FoldOf
    <2> HIDE DEF step, More, A
    <2> QED BY <1>1, <1>4, <2>1 DEF FoldOf
  <1> HIDE DEF step
  <1>7. PICK j : /\ j = [d \in SUBSET DOMAIN s |-> IF d = {} THEN <<>>
                                                  ELSE More(s[Max(d)], j[d \ {Max(d)}])]
                 /\ Seen(s) = j[DOMAIN s]
    BY <1>6 DEF Seen, FoldLeft, MapThenFoldSet, ToSet
  <1> HIDE DEF More
  <1>8. FoldedAs(n, A, <<>>, step, j)
    <2> SUFFICES ASSUME NEW d \in SUBSET (1..n), d # {}, j[d \ {Max(d)}] \in A
                 PROVE  j[d] = step[Max(d)][j[d \ {Max(d)}]]
      BY <1>1, <1>7 DEF FoldedAs
    <2>1. j[d] = More(s[Max(d)], j[d \ {Max(d)}])
      BY <1>1, <1>7
    <2> HIDE DEF A
    <2> QED BY <1>5, <2>1 DEF step
  <1>9. PICK h : ResultsOf(n, A, <<>>, step, h) /\ h[n] = j[1..n]
    <2> HIDE DEF n, A, step
    <2> QED BY <1>a, <1>8, FoldUnrolls
  <1>10. \A k \in 1..n : h[k] = More(s[k], h[k - 1])
    <2> SUFFICES ASSUME NEW k \in 1..n PROVE h[k] = More(s[k], h[k - 1])
      OBVIOUS
    <2>1. h[k] = step[k][h[k - 1]] /\ h[k - 1] \in A
      <3>1. k - 1 \in 0..n
        BY <1>1
      <3> HIDE DEF A, step
      <3> QED BY <3>1, <1>9 DEF ResultsOf
    <2> HIDE DEF A, n
    <2>2. \A seen \in A : step[k][seen] = More(s[k], seen)
      BY DEF step
    <2> HIDE DEF step
    <2> QED BY <2>1, <2>2
  <1>11. SeenAfter(s, h)
    BY <1>1, <1>7, <1>9, <1>10 DEF ResultsOf, More, SeenAfter
  <1> QED BY <1>11

\* One more entry of a list of different ones.
LEMMA AppendNew ==
  ASSUME NEW X, NEW s \in Seq(X), NEW x \in X
  PROVE  /\ Append(s, x) \in Seq(X) /\ Len(Append(s, x)) = Len(s) + 1
         /\ ToSet(Append(s, x)) = ToSet(s) \cup {x}
         /\ IsInjective(s) /\ x \notin ToSet(s) => IsInjective(Append(s, x))
  <1> DEFINE more == Append(s, x)
             n == Len(s)
  <1>1. /\ more \in Seq(X) /\ Len(more) = n + 1 /\ n \in Nat
        /\ DOMAIN s = 1..n /\ DOMAIN more = 1..(n + 1)
        /\ \A i \in 1..n : more[i] = s[i]
        /\ more[n + 1] = x
    OBVIOUS
  <1> HIDE DEF more, n
  <1>2. ToSet(more) = ToSet(s) \cup {x}
    <2>1. \A y \in ToSet(more) : y \in ToSet(s) \cup {x}
      <3> SUFFICES ASSUME NEW i \in 1..(n + 1) PROVE more[i] \in ToSet(s) \cup {x}
        BY <1>1 DEF ToSet
      <3>1. i \in 1..n \/ i = n + 1
        BY <1>1
      <3> QED BY <1>1, <3>1 DEF ToSet
    <2>2. \A y \in ToSet(s) : y \in ToSet(more)
      <3> SUFFICES ASSUME NEW i \in 1..n PROVE s[i] \in ToSet(more)
        BY <1>1 DEF ToSet
      <3>1. i \in 1..(n + 1)
        BY <1>1
      <3> QED BY <1>1, <3>1 DEF ToSet
    <2>3. x \in ToSet(more)
      <3>1. n + 1 \in 1..(n + 1)
        BY <1>1
      <3> QED BY <1>1, <3>1 DEF ToSet
    <2> QED BY <2>1, <2>2, <2>3
  <1>3. ASSUME IsInjective(s), x \notin ToSet(s) PROVE IsInjective(more)
    <2> SUFFICES ASSUME NEW i \in 1..(n + 1), NEW k \in 1..(n + 1), more[i] = more[k]
                 PROVE  i = k
      BY <1>1 DEF IsInjective
    <2>1. (i \in 1..n \/ i = n + 1) /\ (k \in 1..n \/ k = n + 1)
      BY <1>1
    <2>2. \A j \in 1..n : s[j] # x
      BY <1>1, <1>3 DEF ToSet
    <2> QED BY <1>1, <1>3, <2>1, <2>2 DEF IsInjective
  <1> QED BY <1>1, <1>2, <1>3 DEF more, n

\* The images of the predictions, each once.
LEMMA SeenOnce ==
  ASSUME NEW S, NEW s \in Seq(S)
  PROVE  /\ Seen(s) \in Seq({s[i].image : i \in DOMAIN s})
         /\ ToSet(Seen(s)) = {s[i].image : i \in DOMAIN s}
         /\ IsInjective(Seen(s))
         /\ IsFiniteSet(ToSet(Seen(s)))
         /\ Cardinality(ToSet(Seen(s))) = Len(Seen(s))
  <1> DEFINE n == Len(s)
             X == {s[i].image : i \in DOMAIN s}
  <1>0. n \in Nat /\ DOMAIN s = 1..n
    OBVIOUS
  <1>1. PICK h : SeenAfter(s, h)
    BY SeenUnrolls
  <1> DEFINE Good(k) == /\ ToSet(h[k]) = {s[i].image : i \in 1..k}
                        /\ IsInjective(h[k]) /\ IsFiniteSet(ToSet(h[k]))
                        /\ Cardinality(ToSet(h[k])) = Len(h[k])
             P == {k \in 0..n : Good(k)}
  <1>2. \A k \in 0..n : h[k] \in Seq(X)
    BY <1>1 DEF SeenAfter
  <1>3. 0 \in P
    <2>1. h[0] = <<>> /\ 0 \in 0..n
      BY <1>0, <1>1 DEF SeenAfter
    <2>2. ToSet(<<>>) = {} /\ {s[i].image : i \in 1..0} = {} /\ IsInjective(<<>>) /\ Len(<<>>) = 0
      BY DEF ToSet, IsInjective
    <2> QED BY <2>1, <2>2, FS_EmptySet
  <1>4. ASSUME NEW k \in 1..n, k - 1 \in P PROVE k \in P
    <2>0. k \in 0..n /\ k - 1 \in 0..n /\ k \in Nat
      BY <1>0
    <2>1. Good(k - 1) /\ h[k - 1] \in Seq(X) /\ s[k].image \in X
      BY <1>0, <1>2, <1>4, <2>0
    <2>2. {s[i].image : i \in 1..k} = {s[i].image : i \in 1..(k - 1)} \cup {s[k].image}
      <3>1. 1..k = (1..(k - 1)) \cup {k}
        BY <2>0
      <3> QED BY <3>1
    <2>3. CASE s[k].image \in ToSet(h[k - 1])
      <3>1. h[k] = h[k - 1]
        BY <1>0, <1>1, <2>3 DEF SeenAfter
      <3> QED BY <2>0, <2>1, <2>2, <2>3, <3>1
    <2>4. CASE s[k].image \notin ToSet(h[k - 1])
      <3>1. h[k] = Append(h[k - 1], s[k].image)
        BY <1>0, <1>1, <2>4 DEF SeenAfter
      <3> DEFINE before == h[k - 1]
                 x == s[k].image
      <3>2. /\ Len(h[k]) = Len(before) + 1 /\ ToSet(h[k]) = ToSet(before) \cup {x}
            /\ IsInjective(h[k])
        <4> HIDE DEF X, before, x
        <4>1. before \in Seq(X) /\ x \in X /\ h[k] = Append(before, x) /\ x \notin ToSet(before)
              /\ IsInjective(before)
          BY <2>1, <2>4, <3>1 DEF before, x
        <4> QED BY <4>1, AppendNew
      <3>3. /\ IsFiniteSet(ToSet(before) \cup {x})
            /\ Cardinality(ToSet(before) \cup {x}) = Cardinality(ToSet(before)) + 1
        BY <2>1, <2>4, FS_AddElement
      <3> HIDE DEF before, x
      <3>4. Good(k)
        BY <2>1, <2>2, <3>2, <3>3 DEF before, x
      <3> HIDE DEF Good
      <3> QED BY <2>0, <3>4
    <2> QED BY <2>3, <2>4
  <1> HIDE DEF P
  <1>5. \A k \in 0..n : k \in P
    BY <1>0, <1>3, <1>4, Steps
  <1>6. Good(n)
    <2> HIDE DEF Good
    <2> QED BY <1>0, <1>5 DEF P
  <1>7. h[n] = Seen(s) /\ h[n] \in Seq(X)
    BY <1>0, <1>1, <1>2 DEF SeenAfter
  <1> QED BY <1>0, <1>6, <1>7

\* The duplicates counted after each of the images.
DuplicatesAfter(s, h) ==
  /\ h \in [0..Len(Seen(s)) -> Int]
  /\ h[0] = 0 /\ h[Len(Seen(s))] = Duplicates(s)
  /\ \A k \in 1..Len(Seen(s)) : h[k] = h[k - 1] + (Received(s, Seen(s)[k]) - 1)

\* There are such intermediate results.
LEMMA DuplicatesUnroll ==
  ASSUME NEW S, NEW s \in Seq(S)
  PROVE  \E h : DuplicatesAfter(s, h)
  <1> DEFINE n == Len(Seen(s))
             A == Int
             More(k, acc) == acc + (Received(s, Seen(s)[k]) - 1)
             step == [k \in 1..n |-> [acc \in A |-> More(k, acc)]]
  <1>1. n \in Nat /\ DOMAIN Seen(s) = 1..n /\ 0 \in A
    BY SeenOnce
  <1>2. \A k \in 1..n : \A acc \in A : More(k, acc) \in A
    <2> SUFFICES ASSUME NEW k \in 1..n PROVE Received(s, Seen(s)[k]) \in Int
      OBVIOUS
    <2>1. IsFiniteSet({i \in DOMAIN s : s[i].image = Seen(s)[k]})
      <3>1. DOMAIN s = 1..Len(s) /\ Len(s) \in Nat
        OBVIOUS
      <3>2. IsFiniteSet(1..Len(s))
        BY <3>1, FirstNumbers
      <3>3. {i \in DOMAIN s : s[i].image = Seen(s)[k]} \in SUBSET (1..Len(s))
        BY <3>1
      <3> QED BY <3>2, <3>3, FS_Subset
    <2> QED BY <2>1, FS_CardinalityType DEF Received
  <1>3. StepOf(n, A, 0, step)
    <2> HIDE DEF n, A, More
    <2> QED BY <1>1, <1>2 DEF StepOf
  <1>4. PICK it : FoldOf(n, A, 0, step, it)
    <2> HIDE DEF n, A, step
    <2> QED BY <1>3, FoldExists
  <1>5. \A d \in SUBSET (1..n) : d # {} => Max(d) \in 1..n
    BY <1>1, MaxOfPart
  <1>6. it = [d \in SUBSET DOMAIN Seen(s) |-> IF d = {} THEN 0
                                     ELSE More(Max(d), it[d \ {Max(d)}])]
    <2>1. \A d \in SUBSET (1..n) : d # {} =>
            step[Max(d)][it[d \ {Max(d)}]] = More(Max(d), it[d \ {Max(d)}])
      <3> HIDE DEF A, More
      <3> QED BY <1>4, <1>5 DEF FoldOf
    <2> HIDE DEF step, More, A, n
    <2> QED BY <1>1, <1>4, <2>1 DEF FoldOf
  <1> HIDE DEF step
  <1>7. PICK j : /\ j = [d \in SUBSET DOMAIN Seen(s) |-> IF d = {} THEN 0
                                     ELSE More(Max(d), j[d \ {Max(d)}])]
                 /\ Duplicates(s) = j[DOMAIN Seen(s)]
    BY <1>6 DEF Duplicates, FoldLeft, MapThenFoldSet
  <1> HIDE DEF More
  <1>8. FoldedAs(n, A, 0, step, j)
    <2> SUFFICES ASSUME NEW d \in SUBSET (1..n), d # {}, j[d \ {Max(d)}] \in A
                 PROVE  j[d] = step[Max(d)][j[d \ {Max(d)}]]
      BY <1>1, <1>7 DEF FoldedAs
    <2>1. j[d] = More(Max(d), j[d \ {Max(d)}])
      BY <1>1, <1>7
    <2> HIDE DEF A
    <2> QED BY <1>5, <2>1 DEF step
  <1>9. PICK h : ResultsOf(n, A, 0, step, h) /\ h[n] = j[1..n]
    <2> HIDE DEF n, A, step
    <2> QED BY <1>3, <1>8, FoldUnrolls
  <1>10. \A k \in 1..n : h[k] = More(k, h[k - 1])
    <2> SUFFICES ASSUME NEW k \in 1..n PROVE h[k] = More(k, h[k - 1])
      OBVIOUS
    <2>1. h[k] = step[k][h[k - 1]] /\ h[k - 1] \in A
      <3>1. k - 1 \in 0..n
        BY <1>1
      <3> HIDE DEF A, step
      <3> QED BY <3>1, <1>9 DEF ResultsOf
    <2> HIDE DEF A, n
    <2>2. \A acc \in A : step[k][acc] = More(k, acc)
      BY DEF step
    <2> HIDE DEF step
    <2> QED BY <2>1, <2>2
  <1>11. DuplicatesAfter(s, h)
    BY <1>1, <1>7, <1>9, <1>10 DEF ResultsOf, More, DuplicatesAfter
  <1> QED BY <1>11

\* Every prediction but the first of an image is a duplicate: there are none
\* exactly where no image is predicted twice.
LEMMA DuplicatesAreTheRest ==
  ASSUME NEW S, NEW s \in Seq(S)
  PROVE  /\ Duplicates(s) = Len(s) - Cardinality(ToSet(Seen(s)))
         /\ Duplicates(s) = 0 <=> IsInjective([i \in DOMAIN s |-> s[i].image])
  <1> DEFINE n == Len(s)
             q == Seen(s)
             m == Len(Seen(s))
             of(k) == {i \in 1..n : s[i].image \in {q[a] : a \in 1..k}}
             one(k) == {i \in 1..n : s[i].image = q[k]}
  <1>0. n \in Nat /\ DOMAIN s = 1..n
    OBVIOUS
  <1>1. /\ m \in Nat /\ DOMAIN q = 1..m /\ IsInjective(q) /\ ToSet(q) = {s[i].image : i \in 1..n}
        /\ Cardinality(ToSet(q)) = m /\ IsFiniteSet(ToSet(q))
    <2> HIDE DEF q
    <2>1. /\ q \in Seq({s[i].image : i \in DOMAIN s}) /\ IsInjective(q)
          /\ ToSet(q) = {s[i].image : i \in DOMAIN s}
          /\ Cardinality(ToSet(q)) = m /\ IsFiniteSet(ToSet(q)) /\ m = Len(q)
      BY SeenOnce DEF q
    <2> QED BY <1>0, <2>1
  <1>2. PICK h : DuplicatesAfter(s, h)
    BY DuplicatesUnroll
  <1> HIDE DEF n, q, m
  <1>3. IsFiniteSet(1..n) /\ Cardinality(1..n) = n
    BY <1>0, FirstNumbers
  <1>4. \A T \in SUBSET (1..n) : IsFiniteSet(T) /\ Cardinality(T) \in Nat
    BY <1>3, FS_Subset, FS_CardinalityType
  <1> DEFINE P == {k \in 0..m : h[k] = Cardinality(of(k)) - k}
  <1>5. 0 \in P
    <2>1. of(0) = {} /\ h[0] = 0 /\ 0 \in 0..m
      BY <1>1, <1>2 DEF DuplicatesAfter
    <2>2. Cardinality(of(0)) = 0
      BY <2>1, FS_EmptySet
    <2> HIDE DEF of
    <2> QED BY <2>1, <2>2
  <1>6. ASSUME NEW k \in 1..m, k - 1 \in P PROVE k \in P
    <2>0. k \in 0..m /\ k - 1 \in 0..m /\ k \in Nat
      BY <1>1
    <2>1. of(k) = of(k - 1) \cup one(k)
      <3>1. 1..k = (1..(k - 1)) \cup {k}
        BY <2>0
      <3> QED BY <3>1
    <2>2. of(k - 1) \cap one(k) = {}
      <3> SUFFICES ASSUME NEW a \in 1..(k - 1), q[a] = q[k] PROVE FALSE
        OBVIOUS
      <3>1. a \in 1..m /\ a # k
        BY <1>1, <2>0
      <3> QED BY <1>1, <3>1 DEF IsInjective
    <2>3. of(k - 1) \in SUBSET (1..n) /\ one(k) \in SUBSET (1..n) /\ of(k) \in SUBSET (1..n)
      OBVIOUS
    <2>4. Received(s, q[k]) = Cardinality(one(k))
      BY <1>0 DEF Received
    <2>5. h[k] = h[k - 1] + (Cardinality(one(k)) - 1)
      BY <1>2, <2>4 DEF DuplicatesAfter, q, m
    <2>6. h[k - 1] = Cardinality(of(k - 1)) - (k - 1)
      BY <1>6
    <2> HIDE DEF of, one
    <2>7. Cardinality(of(k)) = Cardinality(of(k - 1)) + Cardinality(one(k)) - Cardinality({})
      BY <1>4, <2>1, <2>2, <2>3, FS_Union
    <2>8. /\ Cardinality(of(k)) \in Nat /\ Cardinality(of(k - 1)) \in Nat
          /\ Cardinality(one(k)) \in Nat /\ Cardinality({}) = 0
      BY <1>4, <2>3, FS_EmptySet
    <2>9. h[k] = Cardinality(of(k)) - k
      BY <2>0, <2>5, <2>6, <2>7, <2>8
    <2> QED BY <2>0, <2>9
  <1>7. h[m] = Cardinality(of(m)) - m
    <2> HIDE DEF P
    <2>1. \A k \in 0..m : k \in P
      BY <1>1, <1>5, <1>6, Steps
    <2>2. m \in 0..m
      BY <1>1
    <2> HIDE DEF of
    <2> QED BY <2>1, <2>2 DEF P
  <1>8. of(m) = 1..n
    <2>1. ToSet(q) = {q[a] : a \in 1..m}
      BY <1>1 DEF ToSet
    <2> QED BY <1>1, <2>1
  <1>9. Duplicates(s) = n - m
    <2>1. h[m] = Duplicates(s)
      BY <1>2 DEF DuplicatesAfter, m
    <2> HIDE DEF of
    <2> QED BY <1>3, <1>7, <1>8, <2>1
  <1> DEFINE f == [i \in 1..n |-> s[i].image]
  <1>10. f \in Surjection(1..n, ToSet(q))
    BY <1>1 DEF Surjection
  <1>11. m = n <=> IsInjective(f)
    <2> HIDE DEF f
    <2>1. Cardinality(ToSet(q)) = Cardinality(1..n) <=> f \in Injection(1..n, ToSet(q))
      BY <1>3, <1>10, FS_Surjection
    <2>2. f \in [1..n -> ToSet(q)]
      BY <1>10 DEF Surjection
    <2>3. f \in Injection(1..n, ToSet(q)) <=> IsInjective(f)
      BY <2>2 DEF Injection
    <2> QED BY <1>1, <1>3, <2>1, <2>3
  <1>12. f = [i \in DOMAIN s |-> s[i].image]
    BY <1>0
  <1>13. Duplicates(s) = 0 <=> IsInjective(f)
    <2> HIDE DEF f
    <2> QED BY <1>0, <1>1, <1>9, <1>11
  <1>14. Duplicates(s) = Len(s) - Cardinality(ToSet(Seen(s)))
    BY <1>1, <1>9 DEF n, m, q
  <1> HIDE DEF f
  <1> QED BY <1>12, <1>13, <1>14

\* The examples listed after each of the predictions.
ListedAfter(s, bad, code, h) ==
  /\ h \in [0..Len(s) -> Seq({[code |-> code, image |-> s[i].image] : i \in DOMAIN s})]
  /\ h[0] = <<>> /\ h[Len(s)] = Listed(s, bad, code)
  /\ \A k \in 1..Len(s) :
       h[k] = IF s[k] \in bad THEN AddIssue(h[k - 1], code, s[k].image) ELSE h[k - 1]

\* There are such intermediate results.
LEMMA ListedUnrolls ==
  ASSUME NEW S, NEW s \in Seq(S), NEW bad, NEW code
  PROVE  \E h : ListedAfter(s, bad, code, h)
  <1> DEFINE n == Len(s)
             A == Seq({[code |-> code, image |-> s[i].image] : i \in DOMAIN s})
             More(k, acc) == IF s[k] \in bad THEN AddIssue(acc, code, s[k].image) ELSE acc
             step == [k \in 1..n |-> [acc \in A |-> More(k, acc)]]
  <1>1. n \in Nat /\ DOMAIN s = 1..n /\ <<>> \in A
    OBVIOUS
  <1>2. \A k \in 1..n : \A acc \in A : More(k, acc) \in A
    BY <1>1 DEF AddIssue
  <1>3. StepOf(n, A, <<>>, step)
    <2> HIDE DEF n, A, More
    <2> QED BY <1>1, <1>2 DEF StepOf
  <1>4. PICK it : FoldOf(n, A, <<>>, step, it)
    <2> HIDE DEF n, A, step
    <2> QED BY <1>3, FoldExists
  <1>5. \A d \in SUBSET (1..n) : d # {} => Max(d) \in 1..n
    BY <1>1, MaxOfPart
  <1>6. it = [d \in SUBSET DOMAIN s |-> IF d = {} THEN <<>>
                                     ELSE More(Max(d), it[d \ {Max(d)}])]
    <2>1. \A d \in SUBSET (1..n) : d # {} =>
            step[Max(d)][it[d \ {Max(d)}]] = More(Max(d), it[d \ {Max(d)}])
      <3> HIDE DEF A, More
      <3> QED BY <1>4, <1>5 DEF FoldOf
    <2> HIDE DEF step, More, A, n
    <2> QED BY <1>1, <1>4, <2>1 DEF FoldOf
  <1> HIDE DEF step
  <1>7. PICK j : /\ j = [d \in SUBSET DOMAIN s |-> IF d = {} THEN <<>>
                                     ELSE More(Max(d), j[d \ {Max(d)}])]
                 /\ Listed(s, bad, code) = j[DOMAIN s]
    BY <1>6 DEF Listed, FoldLeft, MapThenFoldSet
  <1> HIDE DEF More
  <1>8. FoldedAs(n, A, <<>>, step, j)
    <2> SUFFICES ASSUME NEW d \in SUBSET (1..n), d # {}, j[d \ {Max(d)}] \in A
                 PROVE  j[d] = step[Max(d)][j[d \ {Max(d)}]]
      BY <1>1, <1>7 DEF FoldedAs
    <2>1. j[d] = More(Max(d), j[d \ {Max(d)}])
      BY <1>1, <1>7
    <2> HIDE DEF A
    <2> QED BY <1>5, <2>1 DEF step
  <1>9. PICK h : ResultsOf(n, A, <<>>, step, h) /\ h[n] = j[1..n]
    <2> HIDE DEF n, A, step
    <2> QED BY <1>3, <1>8, FoldUnrolls
  <1>10. \A k \in 1..n : h[k] = More(k, h[k - 1])
    <2> SUFFICES ASSUME NEW k \in 1..n PROVE h[k] = More(k, h[k - 1])
      OBVIOUS
    <2>1. h[k] = step[k][h[k - 1]] /\ h[k - 1] \in A
      <3>1. k - 1 \in 0..n
        BY <1>1
      <3> HIDE DEF A, step
      <3> QED BY <3>1, <1>9 DEF ResultsOf
    <2> HIDE DEF A, n
    <2>2. \A acc \in A : step[k][acc] = More(k, acc)
      BY DEF step
    <2> HIDE DEF step
    <2> QED BY <2>1, <2>2
  <1>11. ListedAfter(s, bad, code, h)
    BY <1>1, <1>7, <1>9, <1>10 DEF ResultsOf, More, ListedAfter
  <1> QED BY <1>11

\* An issue of a kind is listed exactly where a prediction has it, however few
\* examples are kept.
LEMMA ListedTells ==
  ASSUME NEW S, NEW s \in Seq(S), NEW bad, NEW code
  PROVE  /\ Listed(s, bad, code) \in Seq({[code |-> code, image |-> s[i].image] : i \in DOMAIN s})
         /\ Listed(s, bad, code) = <<>> <=> \A i \in DOMAIN s : s[i] \notin bad
  <1> DEFINE n == Len(s)
             A == Seq({[code |-> code, image |-> s[i].image] : i \in DOMAIN s})
  <1>0. n \in Nat /\ DOMAIN s = 1..n
    OBVIOUS
  <1>1. PICK h : ListedAfter(s, bad, code, h)
    BY ListedUnrolls
  <1>2. \A k \in 0..n : h[k] \in A
    BY <1>1 DEF ListedAfter
  <1> DEFINE P == {k \in 0..n : h[k] = <<>> <=> \A i \in 1..k : s[i] \notin bad}
  <1>3. 0 \in P
    <2>1. h[0] = <<>> /\ 0 \in 0..n
      BY <1>0, <1>1 DEF ListedAfter
    <2> QED BY <2>1
  <1>4. ASSUME NEW k \in 1..n, k - 1 \in P PROVE k \in P
    <2>0. k \in 0..n /\ k - 1 \in 0..n /\ k \in Nat /\ k \in 1..k
      BY <1>0
    <2>1. h[k - 1] = <<>> <=> \A i \in 1..(k - 1) : s[i] \notin bad
      BY <1>4
    <2>2. \A i \in 1..k : i \in 1..(k - 1) \/ i = k
      BY <2>0
    <2>3. \A i \in 1..(k - 1) : i \in 1..k
      BY <2>0
    <2>4. CASE s[k] \notin bad
      <3>1. h[k] = h[k - 1]
        BY <1>1, <2>4 DEF ListedAfter
      <3> QED BY <2>0, <2>1, <2>2, <2>3, <2>4, <3>1
    <2>5. CASE s[k] \in bad
      <3>1. h[k] = AddIssue(h[k - 1], code, s[k].image)
        BY <1>1, <2>5 DEF ListedAfter
      <3>2. h[k] # <<>>
        <4> DEFINE before == h[k - 1]
        <4>1. before \in A
          BY <1>2, <2>0
        <4> HIDE DEF before
        <4>2. AddIssue(before, code, s[k].image) # <<>>
          <5>1. CASE Len(before) < MaxIssueExamples
            BY <4>1, <5>1 DEF AddIssue
          <5>2. CASE ~(Len(before) < MaxIssueExamples)
            <6>1. Len(before) # 0
              BY <4>1, <5>2, IssuesAssumption
            <6> QED BY <4>1, <5>2, <6>1 DEF AddIssue
          <5> QED BY <5>1, <5>2
        <4> QED BY <3>1, <4>2 DEF before
      <3> QED BY <2>0, <2>5, <3>2
    <2> QED BY <2>4, <2>5
  <1> HIDE DEF P
  <1>5. \A k \in 0..n : k \in P
    BY <1>0, <1>3, <1>4, Steps
  <1>6. h[n] = <<>> <=> \A i \in 1..n : s[i] \notin bad
    <2>1. n \in P
      BY <1>0, <1>5
    <2> QED BY <2>1 DEF P
  <1>7. h[n] = Listed(s, bad, code) /\ h[n] \in A
    BY <1>0, <1>1, <1>2 DEF ListedAfter
  <1> HIDE DEF n
  <1> QED BY <1>0, <1>6, <1>7

\* Issues that do not by themselves discount an output.
Mild(images) ==
  [code : {"unexpected_prediction", "duplicate_prediction", "missing_prediction"}, image : images]

\* A bounded list takes one more issue, or stays as it is.
LEMMA AddIssueKeeps ==
  ASSUME NEW X, NEW issues \in Seq(Mild(X)), NEW image \in X,
         NEW code \in {"unexpected_prediction", "duplicate_prediction", "missing_prediction"}
  PROVE  AddIssue(issues, code, image) \in Seq(Mild(X))
  <1>1. [code |-> code, image |-> image] \in Mild(X)
    BY DEF Mild
  <1> QED BY <1>1 DEF AddIssue

\* Duplicate and unexpected images are such issues.
LEMMA SeenIssuesAreMild ==
  ASSUME NEW S, NEW s \in Seq(S), NEW expected
  PROVE  SeenIssues(s, expected) \in Seq(Mild(ToSet(Seen(s)) \cup expected))
  <1> DEFINE n == Len(Seen(s))
             A == Seq(Mild(ToSet(Seen(s)) \cup expected))
             Again(k, acc) == IF Received(s, Seen(s)[k]) = 1 THEN acc
                              ELSE AddIssue(acc, "duplicate_prediction", Seen(s)[k])
             More(k, acc) ==
               IF Seen(s)[k] \in expected THEN Again(k, acc)
               ELSE AddIssue(Again(k, acc), "unexpected_prediction", Seen(s)[k])
             step == [k \in 1..n |-> [acc \in A |-> More(k, acc)]]
  <1>1. n \in Nat /\ DOMAIN Seen(s) = 1..n /\ <<>> \in A
    BY SeenOnce
  <1>2. \A k \in 1..n : \A acc \in A : More(k, acc) \in A
    <2> SUFFICES ASSUME NEW k \in 1..n, NEW acc \in A PROVE More(k, acc) \in A
      OBVIOUS
    <2> DEFINE X == ToSet(Seen(s)) \cup expected
               i == Seen(s)[k]
    <2>1. i \in X /\ acc \in Seq(Mild(X))
      BY <1>1 DEF ToSet
    <2> HIDE DEF X, i
    <2>2. AddIssue(acc, "duplicate_prediction", i) \in Seq(Mild(X))
      BY <2>1, AddIssueKeeps
    <2>3. AddIssue(acc, "unexpected_prediction", i) \in Seq(Mild(X))
      BY <2>1, AddIssueKeeps
    <2>4. AddIssue(AddIssue(acc, "duplicate_prediction", i), "unexpected_prediction", i)
            \in Seq(Mild(X))
      BY <2>1, <2>2, AddIssueKeeps
    <2> QED BY <2>1, <2>2, <2>3, <2>4 DEF X, i
  <1>3. StepOf(n, A, <<>>, step)
    <2> HIDE DEF n, A, More
    <2> QED BY <1>1, <1>2 DEF StepOf
  <1>4. PICK it : FoldOf(n, A, <<>>, step, it)
    <2> HIDE DEF n, A, step
    <2> QED BY <1>3, FoldExists
  <1>5. \A d \in SUBSET (1..n) : d # {} => Max(d) \in 1..n
    BY <1>1, MaxOfPart
  <1>6. it = [d \in SUBSET DOMAIN Seen(s) |-> IF d = {} THEN <<>>
                                     ELSE More(Max(d), it[d \ {Max(d)}])]
    <2>1. \A d \in SUBSET (1..n) : d # {} =>
            step[Max(d)][it[d \ {Max(d)}]] = More(Max(d), it[d \ {Max(d)}])
      <3> HIDE DEF A, More
      <3> QED BY <1>4, <1>5 DEF FoldOf
    <2> HIDE DEF step, More, A, n
    <2> QED BY <1>1, <1>4, <2>1 DEF FoldOf
  <1> HIDE DEF step
  <1>7. PICK j : /\ j = [d \in SUBSET DOMAIN Seen(s) |-> IF d = {} THEN <<>>
                                     ELSE More(Max(d), j[d \ {Max(d)}])]
                 /\ SeenIssues(s, expected) = j[DOMAIN Seen(s)]
    BY <1>6 DEF SeenIssues, FoldLeft, MapThenFoldSet
  <1> HIDE DEF More
  <1>8. FoldedAs(n, A, <<>>, step, j)
    <2> SUFFICES ASSUME NEW d \in SUBSET (1..n), d # {}, j[d \ {Max(d)}] \in A
                 PROVE  j[d] = step[Max(d)][j[d \ {Max(d)}]]
      BY <1>1, <1>7 DEF FoldedAs
    <2>1. j[d] = More(Max(d), j[d \ {Max(d)}])
      BY <1>1, <1>7
    <2> HIDE DEF A
    <2> QED BY <1>5, <2>1 DEF step
  <1>9. PICK h : ResultsOf(n, A, <<>>, step, h) /\ h[n] = j[1..n]
    <2> HIDE DEF n, A, step
    <2> QED BY <1>3, <1>8, FoldUnrolls
  <1>10. h[n] \in A
    <2>1. n \in 0..n
      BY <1>1
    <2> HIDE DEF n, A, step
    <2> QED BY <1>9, <2>1 DEF ResultsOf
  <1> HIDE DEF n
  <1> QED BY <1>1, <1>7, <1>9, <1>10

\* So are missing ones.
LEMMA AccountingIsMild ==
  ASSUME NEW S, NEW s \in Seq(S), NEW expected, IsFiniteSet(expected)
  PROVE  AccountingIssues(s, expected) \in Seq(Mild(ToSet(Seen(s)) \cup expected))
  <1> DEFINE missing == expected \ ToSet(Seen(s))
             q == SetToSeq(missing)
             n == Cardinality(missing)
             A == Seq(Mild(ToSet(Seen(s)) \cup expected))
             base == SeenIssues(s, expected)
             More(k, acc) == AddIssue(acc, "missing_prediction", q[k])
             step == [k \in 1..n |-> [acc \in A |-> More(k, acc)]]
  <1>0. q \in [1..n -> missing] /\ n \in Nat
    <2>1. IsFiniteSet(missing)
      BY FS_Subset
    <2> HIDE DEF missing
    <2>2. n \in Nat /\ ExistsBijection(1..n, missing)
      BY <2>1, FS_CardinalityType
    <2>3. \E f \in [1..n -> missing] : IsInjective(f)
      BY <2>2 DEF ExistsBijection, Bijection, Injection, Surjection
    <2> QED BY <2>2, <2>3 DEF SetToSeq
  <1> HIDE DEF q, n
  <1>1. n \in Nat /\ DOMAIN q = 1..n /\ base \in A
    BY <1>0, SeenIssuesAreMild
  <1>2. \A k \in 1..n : \A acc \in A : More(k, acc) \in A
    <2> SUFFICES ASSUME NEW k \in 1..n, NEW acc \in A PROVE More(k, acc) \in A
      OBVIOUS
    <2> DEFINE X == ToSet(Seen(s)) \cup expected
               i == q[k]
    <2>1. i \in X /\ acc \in Seq(Mild(X))
      BY <1>0
    <2> HIDE DEF X, i
    <2>2. AddIssue(acc, "missing_prediction", i) \in Seq(Mild(X))
      BY <2>1, AddIssueKeeps
    <2> QED BY <2>2 DEF X, i
  <1> HIDE DEF base
  <1>3. StepOf(n, A, base, step)
    <2> HIDE DEF n, A, More
    <2> QED BY <1>1, <1>2 DEF StepOf
  <1>4. PICK it : FoldOf(n, A, base, step, it)
    <2> HIDE DEF n, A, step
    <2> QED BY <1>3, FoldExists
  <1>5. \A d \in SUBSET (1..n) : d # {} => Max(d) \in 1..n
    BY <1>1, MaxOfPart
  <1>6. it = [d \in SUBSET DOMAIN q |-> IF d = {} THEN base
                                     ELSE More(Max(d), it[d \ {Max(d)}])]
    <2>1. \A d \in SUBSET (1..n) : d # {} =>
            step[Max(d)][it[d \ {Max(d)}]] = More(Max(d), it[d \ {Max(d)}])
      <3> HIDE DEF A, More
      <3> QED BY <1>4, <1>5 DEF FoldOf
    <2> HIDE DEF step, More, A, n
    <2> QED BY <1>1, <1>4, <2>1 DEF FoldOf
  <1> HIDE DEF step
  <1>7. PICK j : /\ j = [d \in SUBSET DOMAIN q |-> IF d = {} THEN base
                                     ELSE More(Max(d), j[d \ {Max(d)}])]
                 /\ AccountingIssues(s, expected) = j[DOMAIN q]
    BY <1>6 DEF AccountingIssues, base, q, ToSet, FoldLeft, MapThenFoldSet
  <1> HIDE DEF More
  <1>8. FoldedAs(n, A, base, step, j)
    <2> SUFFICES ASSUME NEW d \in SUBSET (1..n), d # {}, j[d \ {Max(d)}] \in A
                 PROVE  j[d] = step[Max(d)][j[d \ {Max(d)}]]
      BY <1>1, <1>7 DEF FoldedAs
    <2>1. j[d] = More(Max(d), j[d \ {Max(d)}])
      BY <1>1, <1>7
    <2> HIDE DEF A
    <2> QED BY <1>5, <2>1 DEF step
  <1>9. PICK h : ResultsOf(n, A, base, step, h) /\ h[n] = j[1..n]
    <2> HIDE DEF n, A, step
    <2> QED BY <1>3, <1>8, FoldUnrolls
  <1>10. h[n] \in A
    <2>1. n \in 0..n
      BY <1>1
    <2> HIDE DEF n, A, step
    <2> QED BY <1>9, <2>1 DEF ResultsOf
  <1> HIDE DEF n
  <1> QED BY <1>1, <1>7, <1>9, <1>10

\* What a score is.
Number == Nat \cup {NaN}

\* Scores added up are finite exactly where all of them are.
LEMMA MergedIsNaN ==
  ASSUME NEW scores, IsFiniteSet(DOMAIN scores), \A k \in DOMAIN scores : scores[k] \in Number,
         NEW map, NEW l \in {Mapped(map, k) : k \in DOMAIN scores}
  PROVE  MergedScores(scores, map)[l] = NaN
           <=> \E k \in DOMAIN scores : Mapped(map, k) = l /\ scores[k] = NaN
  <1> DEFINE K == {k \in DOMAIN scores : Mapped(map, k) = l}
             step == [k \in K |-> [sum \in Number |-> Plus(scores[k], sum)]]
  <1>1. \A k \in K : \A sum \in Number : Plus(scores[k], sum) \in Number
    BY DEF Plus, Number
  <1>2. SetStepOf(K, Number, 0, step)
    <2>1. IsFiniteSet(K)
      BY FS_Subset
    <2>2. 0 \in Number
      BY DEF Number
    <2> HIDE DEF K
    <2> QED BY <1>1, <2>1, <2>2 DEF SetStepOf
  <1>3. PICK it : SetFoldOf(K, Number, 0, step, it)
    <2> HIDE DEF K, step
    <2> QED BY <1>2, SetFoldExists
  <1>4. \A d \in SUBSET K : d # {} => FirstOf(d) \in d /\ d \ {FirstOf(d)} \in SUBSET K
    BY DEF FirstOf
  <1>5. it = [d \in SUBSET K |-> IF d = {} THEN 0
                                 ELSE Plus(scores[FirstOf(d)], it[d \ {FirstOf(d)}])]
    <2>1. \A d \in SUBSET K : d # {} =>
            step[FirstOf(d)][it[d \ {FirstOf(d)}]] = Plus(scores[FirstOf(d)], it[d \ {FirstOf(d)}])
      <3> HIDE DEF K
      <3> QED BY <1>3, <1>4 DEF SetFoldOf
    <2> HIDE DEF step, K
    <2> QED BY <1>3, <2>1 DEF SetFoldOf
  <1>6. PICK j : /\ j = [d \in SUBSET K |-> IF d = {} THEN 0
                                  ELSE Plus(scores[FirstOf(d)], j[d \ {FirstOf(d)}])]
                 /\ MergedScores(scores, map)[l] = j[K]
    BY <1>5 DEF MergedScores, FoldSet, MapThenFoldSet, FirstOf
  <1> DEFINE Good(d) == j[d] \in Number /\ (j[d] = NaN <=> \E k \in d : scores[k] = NaN)
             P == {d \in SUBSET K : Good(d)}
  <1>7. {} \in P
    BY <1>6, NaNAssumption DEF Number
  <1>8. ASSUME NEW d \in SUBSET K, d # {}, d \ {FirstOf(d)} \in P PROVE d \in P
    <2> DEFINE k == FirstOf(d)
               rest == d \ {FirstOf(d)}
    <2>1. k \in d /\ d = rest \cup {k} /\ k \in K
      BY <1>4, <1>8
    <2>2. j[d] = Plus(scores[k], j[rest])
      BY <1>6, <1>8
    <2>3. Good(rest)
      BY <1>8
    <2> HIDE DEF k, rest
    <2>4. scores[k] \in Number
      BY <2>1
    <2>5. \A x, y \in Number : Plus(x, y) \in Number /\ (Plus(x, y) = NaN <=> x = NaN \/ y = NaN)
      BY NaNAssumption DEF Number, Plus
    <2>6. j[d] \in Number /\ (j[d] = NaN <=> scores[k] = NaN \/ j[rest] = NaN)
      BY <2>2, <2>3, <2>4, <2>5
    <2> QED BY <2>1, <2>3, <2>6
  <1>9. IsFiniteSet(K)
    BY FS_Subset
  <1> HIDE DEF P, K
  <1>10. K \in P
    BY <1>7, <1>8, <1>9, Shrinking
  <1> QED BY <1>6, <1>10 DEF P, K

\* A prediction of images, boxes, labels and masks of any kind, with class scores
\* of C.
PredictionOf(I, B, L, R, C) ==
  [image : I, boxes : Seq(B), scores : Seq(Number), labels : Seq(L),
   masks : Seq([label : L, score : Number, rle : R]), classScores : C]

\* What coverage is computed of: finitely many images and a list of predictions.
CoverageCase(c) ==
  /\ IsFiniteSet(c.expected)
  /\ \E I, B, L, R, C :
       /\ c.predictions \in Seq(PredictionOf(I, B, L, R, C))
       /\ \A f \in C : IsFiniteSet(DOMAIN f) /\ \A l \in DOMAIN f : f[l] \in Number

\* The label map changes no verdict on a prediction.
LEMMA CanonicalKeeps ==
  ASSUME NEW I, NEW B, NEW L, NEW R, NEW C, NEW s \in Seq(PredictionOf(I, B, L, R, C)),
         \A f \in C : IsFiniteSet(DOMAIN f) /\ \A l \in DOMAIN f : f[l] \in Number,
         NEW map, NEW i \in DOMAIN s
  PROVE  LET q == Canonicalize(s, map)[i] IN
         /\ q.image = s[i].image
         /\ BadScore(q) <=> BadScore(s[i])
         /\ BadShape(q) <=> BadShape(s[i])
         /\ \A sized : BadMask(q, sized) <=> BadMask(s[i], sized)
  <1> DEFINE p == s[i]
             q == Canonicalize(s, map)[i]
             labels == [j \in DOMAIN p.labels |-> Mapped(map, p.labels[j])]
             masks == [j \in DOMAIN p.masks |->
                         [p.masks[j] EXCEPT !.label = Mapped(map, p.masks[j].label)]]
  <1>1. p \in PredictionOf(I, B, L, R, C)
    OBVIOUS
  <1>2. q = [p EXCEPT !.labels = labels, !.classScores = MergedScores(p.classScores, map),
                      !.masks = masks]
    BY DEF Canonicalize
  <1> HIDE DEF p, q, labels, masks
  <1>3. /\ q.image = p.image /\ q.boxes = p.boxes /\ q.scores = p.scores
        /\ q.labels = labels /\ q.masks = masks /\ q.classScores = MergedScores(p.classScores, map)
    BY <1>1, <1>2 DEF PredictionOf
  <1>4. Len(labels) = Len(p.labels)
    <2>1. p.labels \in Seq(L)
      BY <1>1 DEF PredictionOf
    <2> QED BY <2>1 DEF labels
  <1>5. /\ DOMAIN masks = DOMAIN p.masks
        /\ \A j \in DOMAIN p.masks : /\ masks[j].score = p.masks[j].score
                                      /\ masks[j].rle = p.masks[j].rle
    <2>1. p.masks \in Seq([label : L, score : Number, rle : R])
      BY <1>1 DEF PredictionOf
    <2>2. \A j \in DOMAIN p.masks : p.masks[j] \in [label : L, score : Number, rle : R]
      <3> DEFINE X == [label : L, score : Number, rle : R]
                 m == p.masks
      <3> HIDE DEF X
      <3>1. m \in Seq(X)
        BY <2>1 DEF X
      <3> HIDE DEF m
      <3>2. \A j \in DOMAIN m : m[j] \in X
        BY <3>1
      <3> QED BY <3>2 DEF X, m
    <2> QED BY <2>2 DEF masks
  <1>6. BadShape(q) <=> BadShape(p)
    BY <1>3, <1>4 DEF BadShape
  <1>7. \A sized : BadMask(q, sized) <=> BadMask(p, sized)
    BY <1>3, <1>5 DEF BadMask
  <1>8. BadScore(q) <=> BadScore(p)
    <2> DEFINE c == p.classScores
    <2>1. (\E l \in DOMAIN MergedScores(c, map) : MergedScores(c, map)[l] = NaN)
            <=> (\E l \in DOMAIN c : c[l] = NaN)
      <3>1. IsFiniteSet(DOMAIN c) /\ \A l \in DOMAIN c : c[l] \in Number
        BY <1>1 DEF PredictionOf
      <3> HIDE DEF c
      <3>2. DOMAIN MergedScores(c, map) = {Mapped(map, k) : k \in DOMAIN c}
        BY DEF MergedScores
      <3>3. \A l \in {Mapped(map, k) : k \in DOMAIN c} :
              MergedScores(c, map)[l] = NaN
                <=> \E k \in DOMAIN c : Mapped(map, k) = l /\ c[k] = NaN
        BY <3>1, MergedIsNaN
      <3> QED BY <3>2, <3>3
    <2>2. (\E j \in DOMAIN masks : masks[j].score = NaN)
            <=> (\E j \in DOMAIN p.masks : p.masks[j].score = NaN)
      BY <1>5
    <2>3. \A r : BadScore(r) <=> \/ \E j \in DOMAIN r.scores : r.scores[j] = NaN
                                 \/ \E l \in DOMAIN r.classScores : r.classScores[l] = NaN
                                 \/ \E j \in DOMAIN r.masks : r.masks[j].score = NaN
      BY DEF BadScore
    <2> HIDE DEF c
    <2> QED BY <1>3, <2>1, <2>2, <2>3 DEF c
  <1> QED BY <1>3, <1>6, <1>7, <1>8 DEF p, q

\* The entries of two lists, one after the other.
LEMMA EntriesOfBoth ==
  ASSUME NEW X, NEW a \in Seq(X), NEW b \in Seq(X)
  PROVE  a \o b \in Seq(X) /\ ToSet(a \o b) = ToSet(a) \cup ToSet(b)
  <1> DEFINE c == a \o b
             n == Len(a)
             m == Len(b)
  <1>1. /\ c \in Seq(X) /\ n \in Nat /\ m \in Nat
        /\ DOMAIN a = 1..n /\ DOMAIN b = 1..m /\ DOMAIN c = 1..(n + m)
        /\ \A i \in 1..n : c[i] = a[i]
        /\ \A i \in 1..(n + m) : i > n => c[i] = b[i - n]
    OBVIOUS
  <1> HIDE DEF c, n, m
  <1>2. \A y \in ToSet(c) : y \in ToSet(a) \cup ToSet(b)
    <2> SUFFICES ASSUME NEW i \in 1..(n + m) PROVE c[i] \in ToSet(a) \cup ToSet(b)
      BY <1>1 DEF ToSet
    <2>1. i \in 1..n \/ (i > n /\ i - n \in 1..m)
      BY <1>1
    <2> QED BY <1>1, <2>1 DEF ToSet
  <1>3. \A y \in ToSet(a) : y \in ToSet(c)
    <2> SUFFICES ASSUME NEW i \in 1..n PROVE a[i] \in ToSet(c)
      BY <1>1 DEF ToSet
    <2>1. i \in 1..(n + m)
      BY <1>1
    <2> QED BY <1>1, <2>1 DEF ToSet
  <1>4. \A y \in ToSet(b) : y \in ToSet(c)
    <2> SUFFICES ASSUME NEW i \in 1..m PROVE b[i] \in ToSet(c)
      BY <1>1 DEF ToSet
    <2>1. i + n \in 1..(n + m) /\ i + n > n /\ (i + n) - n = i
      BY <1>1
    <2>2. c[i + n] = b[i]
      BY <1>1, <2>1
    <2> QED BY <1>1, <2>1, <2>2 DEF ToSet
  <1>5. ToSet(c) = ToSet(a) \cup ToSet(b)
    BY <1>2, <1>3, <1>4
  <1> QED BY <1>1, <1>5 DEF c

\* An issue of a fatal kind is among all issues exactly where a prediction has it.
LEMMA FatalIssues ==
  ASSUME NEW S, NEW s \in Seq(S), NEW expected, IsFiniteSet(expected), NEW sized
  PROVE  (\A e \in ToSet(IssuesOf(s, expected, sized)) : e.code \notin FatalCodes)
           <=> \A i \in DOMAIN s : ~BadScore(s[i]) /\ ~BadShape(s[i]) /\ ~BadMask(s[i], sized)
  <1> DEFINE Entries(code) == {[code |-> code, image |-> s[i].image] : i \in DOMAIN s}
             mild == Mild(ToSet(Seen(s)) \cup expected)
             X == mild \cup Entries("nan_score") \cup Entries("malformed_output")
                    \cup Entries("bad_mask")
             accounting == AccountingIssues(s, expected)
             scores == Listed(s, WithBadScore(s), "nan_score")
             shapes == Listed(s, WithBadShape(s), "malformed_output")
             masks == Listed(s, WithBadMask(s, sized), "bad_mask")
  <1>1. accounting \in Seq(mild)
    BY AccountingIsMild
  <1>2. /\ scores \in Seq(Entries("nan_score")) /\ shapes \in Seq(Entries("malformed_output"))
        /\ masks \in Seq(Entries("bad_mask"))
    BY ListedTells
  <1>3. /\ scores = <<>> <=> \A i \in DOMAIN s : ~BadScore(s[i])
        /\ shapes = <<>> <=> \A i \in DOMAIN s : ~BadShape(s[i])
        /\ masks = <<>> <=> \A i \in DOMAIN s : ~BadMask(s[i], sized)
    <2>1. \A bad, code : Listed(s, bad, code) = <<>> <=> \A i \in DOMAIN s : s[i] \notin bad
      BY ListedTells
    <2>2. \A i \in DOMAIN s : /\ s[i] \in WithBadScore(s) <=> BadScore(s[i])
                              /\ s[i] \in WithBadShape(s) <=> BadShape(s[i])
                              /\ s[i] \in WithBadMask(s, sized) <=> BadMask(s[i], sized)
      BY DEF WithBadScore, WithBadShape, WithBadMask
    <2> QED BY <2>1, <2>2
  <1>4. /\ \A e \in mild : e.code \notin FatalCodes
        /\ \A code \in FatalCodes : \A e \in Entries(code) : e.code \in FatalCodes
    BY DEF Mild, FatalCodes
  <1>5. {"nan_score", "malformed_output", "bad_mask"} = FatalCodes
    BY DEF FatalCodes
  <1> HIDE DEF mild, Entries, accounting, scores, shapes, masks
  <1>6. /\ accounting \in Seq(X) /\ scores \in Seq(X) /\ shapes \in Seq(X) /\ masks \in Seq(X)
    <2>1. mild \subseteq X /\ \A code \in FatalCodes : Entries(code) \subseteq X
      BY <1>5
    <2> HIDE DEF X
    <2>2. /\ Entries("nan_score") \subseteq X /\ Entries("malformed_output") \subseteq X
          /\ Entries("bad_mask") \subseteq X
      BY <1>5, <2>1
    <2> QED BY <1>1, <1>2, <2>1, <2>2
  <1> HIDE DEF X
  <1>7. ToSet(IssuesOf(s, expected, sized))
          = ToSet(accounting) \cup ToSet(scores) \cup ToSet(shapes) \cup ToSet(masks)
    <2> DEFINE two == accounting \o scores
               three == two \o shapes
    <2>1. two \in Seq(X) /\ ToSet(two) = ToSet(accounting) \cup ToSet(scores)
      BY <1>6, EntriesOfBoth
    <2> HIDE DEF two
    <2>2. three \in Seq(X) /\ ToSet(three) = ToSet(two) \cup ToSet(shapes)
      BY <1>6, <2>1, EntriesOfBoth
    <2> HIDE DEF three
    <2>3. ToSet(three \o masks) = ToSet(three) \cup ToSet(masks)
      BY <1>6, <2>2, EntriesOfBoth
    <2>4. IssuesOf(s, expected, sized) = three \o masks
      BY DEF IssuesOf, three, two, accounting, scores, shapes, masks
    <2> QED BY <2>1, <2>2, <2>3, <2>4
  <1>8. \A Y : \A q \in Seq(Y) : ToSet(q) \subseteq Y /\ (q = <<>> <=> ToSet(q) = {})
    <2> SUFFICES ASSUME NEW Y, NEW q \in Seq(Y)
                 PROVE  ToSet(q) \subseteq Y /\ (q = <<>> <=> ToSet(q) = {})
      OBVIOUS
    <2>1. q # <<>> => 1 \in DOMAIN q
      OBVIOUS
    <2> QED BY <2>1 DEF ToSet
  <1>9. \A e \in ToSet(accounting) : e.code \notin FatalCodes
    BY <1>1, <1>4, <1>8
  <1>10. \A q \in {scores, shapes, masks} :
           (\A e \in ToSet(q) : e.code \notin FatalCodes) <=> q = <<>>
    <2>1. \A code \in FatalCodes : \A q \in Seq(Entries(code)) :
            (\A e \in ToSet(q) : e.code \notin FatalCodes) <=> q = <<>>
      BY <1>4, <1>8
    <2> QED BY <1>2, <1>5, <2>1
  <1> QED BY <1>3, <1>7, <1>9, <1>10

\* Coverage is valid exactly where nothing is wrong with the predictions.
LEMMA ValidTells ==
  ASSUME NEW S, NEW s \in Seq(S), NEW expected, IsFiniteSet(expected), NEW sized
  PROVE  ComputeCoverage(s, expected, sized).valid
           <=> /\ IsInjective([i \in DOMAIN s |-> s[i].image])
               /\ \A i \in DOMAIN s : /\ s[i].image \in expected
                                      /\ ~BadScore(s[i]) /\ ~BadShape(s[i]) /\ ~BadMask(s[i], sized)
  <1>1. ComputeCoverage(s, expected, sized).valid
          <=> /\ Duplicates(s) = 0 /\ ToSet(Seen(s)) \subseteq expected
              /\ \A e \in ToSet(IssuesOf(s, expected, sized)) : e.code \notin FatalCodes
    BY DEF ComputeCoverage, ToSet
  <1>2. Duplicates(s) = 0 <=> IsInjective([i \in DOMAIN s |-> s[i].image])
    BY DuplicatesAreTheRest
  <1>3. ToSet(Seen(s)) \subseteq expected <=> \A i \in DOMAIN s : s[i].image \in expected
    <2>1. ToSet(Seen(s)) = {s[i].image : i \in DOMAIN s}
      BY SeenOnce
    <2> HIDE DEF ToSet
    <2> QED BY <2>1
  <1>4. (\A e \in ToSet(IssuesOf(s, expected, sized)) : e.code \notin FatalCodes)
          <=> \A i \in DOMAIN s : ~BadScore(s[i]) /\ ~BadShape(s[i]) /\ ~BadMask(s[i], sized)
    BY FatalIssues
  <1> QED BY <1>1, <1>2, <1>3, <1>4

\* What is counted as scored, missing, unexpected and duplicate adds up.
LEMMA ItemsAddUp ==
  ASSUME NEW S, NEW s \in Seq(S), NEW expected, IsFiniteSet(expected), NEW sized
  PROVE  LET c == ComputeCoverage(s, expected, sized) IN
         /\ c.expected = c.scored + c.missing
         /\ c.received = c.scored + c.unexpected + c.duplicate
  <1> DEFINE seen == ToSet(Seen(s))
             c == ComputeCoverage(s, expected, sized)
  <1>1. /\ c.expected = Cardinality(expected) /\ c.received = Len(s)
        /\ c.scored = Cardinality(seen \cap expected)
        /\ c.missing = Cardinality(expected \ seen)
        /\ c.unexpected = Cardinality(seen \ expected)
        /\ c.duplicate = Duplicates(s)
    BY DEF ComputeCoverage, ToSet
  <1>2. IsFiniteSet(seen) /\ Duplicates(s) = Len(s) - Cardinality(seen) /\ Len(s) \in Nat
    <2>1. IsFiniteSet(seen)
      BY SeenOnce
    <2>2. Duplicates(s) = Len(s) - Cardinality(seen)
      BY DuplicatesAreTheRest
    <2> QED BY <2>1, <2>2
  <1> HIDE DEF seen, c
  <1>3. Cardinality(expected \ seen) = Cardinality(expected) - Cardinality(seen \cap expected)
    <2>1. Cardinality(expected \ seen) = Cardinality(expected) - Cardinality(expected \cap seen)
      BY FS_Difference
    <2>2. seen \cap expected = expected \cap seen
      OBVIOUS
    <2> QED BY <2>1, <2>2
  <1>4. Cardinality(seen \ expected) = Cardinality(seen) - Cardinality(seen \cap expected)
    BY <1>2, FS_Difference
  <1>5. Cardinality(seen) \in Nat /\ Cardinality(expected) \in Nat
        /\ Cardinality(seen \cap expected) \in Nat
    <2>1. IsFiniteSet(seen \cap expected)
      BY <1>2, FS_Subset
    <2> QED BY <1>2, <2>1, FS_CardinalityType
  <1>6. c.expected = c.scored + c.missing
    BY <1>1, <1>3, <1>5
  <1>7. c.received = c.scored + c.unexpected + c.duplicate
    BY <1>1, <1>2, <1>4, <1>5
  <1> QED BY <1>6, <1>7 DEF c

\* An output is trusted exactly when no image is predicted twice or unknown and
\* no value, box or mask is none, whatever the label map, and every expected
\* image and every prediction is accounted for once: for any images, predictions
\* and bound on the examples kept.
THEOREM AccountingAlwaysExact ==
  ASSUME Is("coverage") => CoverageCase(case)
  PROVE  AccountingIsExact
  <1> DEFINE s == case.predictions
             map == case.labelMap
             q == Canonicalize(s, map)
  <1>1. ASSUME CoverageCase(case)
        PROVE  ComputeCoverage(q, case.expected, case.sized).valid
                 <=> /\ IsInjective([i \in DOMAIN s |-> s[i].image])
                     /\ \A i \in DOMAIN s : /\ s[i].image \in case.expected
                          /\ ~BadScore(s[i]) /\ ~BadShape(s[i]) /\ ~BadMask(s[i], case.sized)
    <2> DEFINE expected == case.expected
               sized == case.sized
    <2>1. PICK I, B, L, R, C :
            /\ s \in Seq(PredictionOf(I, B, L, R, C))
            /\ \A f \in C : IsFiniteSet(DOMAIN f) /\ \A l \in DOMAIN f : f[l] \in Number
      BY <1>1 DEF CoverageCase
    <2>2. IsFiniteSet(expected)
      BY <1>1 DEF CoverageCase
    <2> HIDE DEF s, map, expected, sized
    <2>3. DOMAIN s = 1..Len(s) /\ Len(s) \in Nat
      <3> DEFINE X == PredictionOf(I, B, L, R, C)
      <3> HIDE DEF X
      <3>1. s \in Seq(X)
        BY <2>1 DEF X
      <3> QED BY <3>1
    <2>4. DOMAIN q = DOMAIN s
      BY DEF Canonicalize
    <2>5. \A i \in DOMAIN s :
            /\ q[i].image = s[i].image
            /\ BadScore(q[i]) <=> BadScore(s[i])
            /\ BadShape(q[i]) <=> BadShape(s[i])
            /\ BadMask(q[i], sized) <=> BadMask(s[i], sized)
      BY <2>1, CanonicalKeeps
    <2>6. \E S : q \in Seq(S)
      <3> DEFINE X == {q[i] : i \in DOMAIN q}
      <3>1. q = [i \in 1..Len(s) |-> q[i]]
        BY <2>3 DEF Canonicalize
      <3> HIDE DEF q
      <3>2. q \in Seq(X)
        BY <2>3, <2>4, <3>1
      <3> QED BY <3>2
    <2> HIDE DEF q
    <2>7. ComputeCoverage(q, expected, sized).valid
           <=> /\ IsInjective([i \in DOMAIN q |-> q[i].image])
               /\ \A i \in DOMAIN q : /\ q[i].image \in expected
                                      /\ ~BadScore(q[i]) /\ ~BadShape(q[i]) /\ ~BadMask(q[i], sized)
      BY <2>2, <2>6, ValidTells
    <2>8. [i \in DOMAIN q |-> q[i].image] = [i \in DOMAIN s |-> s[i].image]
      BY <2>4, <2>5
    <2> QED BY <2>4, <2>5, <2>7, <2>8 DEF expected, sized
  <1>2. ValidIsExact
    <2>1. (\A p \in ToSet(s) : /\ p.image \in case.expected
                               /\ ~BadScore(p) /\ ~BadShape(p) /\ ~BadMask(p, case.sized))
            <=> \A i \in DOMAIN s : /\ s[i].image \in case.expected
                     /\ ~BadScore(s[i]) /\ ~BadShape(s[i]) /\ ~BadMask(s[i], case.sized)
      BY DEF ToSet
    <2> QED BY <1>1, <2>1 DEF ValidIsExact, ToSet
  <1>3. EveryItemIsCounted
    <2> SUFFICES ASSUME CoverageCase(case)
                 PROVE  LET c == ComputeCoverage(s, case.expected, case.sized) IN
                        /\ c.expected = c.scored + c.missing
                        /\ c.received = c.scored + c.unexpected + c.duplicate
      BY DEF EveryItemIsCounted
    <2>1. (\E S : s \in Seq(S)) /\ IsFiniteSet(case.expected)
      BY DEF CoverageCase
    <2> HIDE DEF s
    <2> QED BY <2>1, ItemsAddUp
  <1> QED BY <1>2, <1>3 DEF AccountingIsExact

-----------------------------------------------------------------------------
(* What registration guarantees                                            *)

\* The floors of a registered set decide.
LEMMA FloorsAlwaysDecide == FloorsDecide
  <1> SUFFICES ASSUME Registers(case.manifest, case.data)
               PROVE  LET safety == case.manifest.safety
                          floors == FloorsOf(case.manifest)
                          measured == Measured(case.data.annotations, case.manifest.modelClass)
                          perfect == [l \in measured |-> 100]
                      IN /\ Breach(perfect, safety, floors) <=> ~(safety \subseteq measured)
                         /\ \A l \in safety \cap measured :
                              Breach([perfect EXCEPT ![l] = 0], {l}, floors) <=> floors[l] # 0
    BY DEF FloorsDecide, Registered
  <1> DEFINE safety == case.manifest.safety
             floors == FloorsOf(case.manifest)
             measured == Measured(case.data.annotations, case.manifest.modelClass)
             perfect == [l \in measured |-> 100]
  <1>1. safety \subseteq DOMAIN floors /\ \A l \in safety : floors[l] \in 0..100
    BY DEF Registers, SoundFloor
  <1> HIDE DEF safety, floors, measured
  <1>2. Breach(perfect, safety, floors) <=> ~(safety \subseteq measured)
    <2>1. \A l \in safety : BelowFloor(perfect, floors, l) <=> l \notin measured
      BY <1>1 DEF BelowFloor
    <2> QED BY <2>1 DEF Breach
  <1>3. ASSUME NEW l \in safety \cap measured
        PROVE  Breach([perfect EXCEPT ![l] = 0], {l}, floors) <=> floors[l] # 0
    <2> DEFINE never == [perfect EXCEPT ![l] = 0]
    <2>1. l \in DOMAIN never /\ never[l] = 0
      OBVIOUS
    <2> HIDE DEF never
    <2>2. BelowFloor(never, floors, l) <=> floors[l] # 0
      BY <1>1, <2>1 DEF BelowFloor
    <2> QED BY <2>2 DEF Breach, never
  <1> QED BY <1>2, <1>3 DEF safety, floors, measured

\* Where no two files have one stem, a file is known by its stem.
LEMMA StemsTell ==
  ASSUME NEW F, NEW files \in Seq(F), Cardinality(Stems(files)) = Len(files)
  PROVE  /\ IsInjective([i \in DOMAIN files |-> files[i].stem])
         /\ \A i \in DOMAIN files : {k \in DOMAIN files : files[k].stem = files[i].stem} = {i}
         /\ IsFiniteSet(Stems(files))
  <1> DEFINE n == Len(files)
             f == [i \in 1..n |-> files[i].stem]
  <1>1. n \in Nat /\ DOMAIN files = 1..n
    OBVIOUS
  <1> HIDE DEF n
  <1>2. IsFiniteSet(1..n) /\ Cardinality(1..n) = n
    BY <1>1, FirstNumbers
  <1>3. f \in Surjection(1..n, Stems(files))
    BY <1>1 DEF Surjection, Stems
  <1>4. f = [i \in DOMAIN files |-> files[i].stem]
    BY <1>1
  <1> HIDE DEF f
  <1>5. /\ IsFiniteSet(Stems(files))
        /\ Cardinality(Stems(files)) = Cardinality(1..n) <=> f \in Injection(1..n, Stems(files))
    BY <1>2, <1>3, FS_Surjection
  <1>6. IsInjective(f)
    BY <1>2, <1>5 DEF Injection, n
  <1>7. \A i, k \in DOMAIN files : files[k].stem = files[i].stem => k = i
    BY <1>1, <1>6 DEF IsInjective, f
  <1> QED BY <1>4, <1>5, <1>6, <1>7

\* A function on the first numbers is a list.
LEMMA EveryList ==
  ASSUME NEW n \in Nat, NEW f, f = [i \in 1..n |-> f[i]]
  PROVE  \E X : f \in Seq(X)
  <1>1. f \in Seq({f[i] : i \in 1..n})
    <2> DEFINE X == {f[i] : i \in 1..n}
    <2>1. f \in [1..n -> X]
      OBVIOUS
    <2> HIDE DEF X
    <2> QED BY <2>1
  <1> QED BY <1>1

\* A finite set as a list.
LEMMA ListOfSet ==
  ASSUME NEW S, IsFiniteSet(S)
  PROVE  /\ Cardinality(S) \in Nat
         /\ SetToSeq(S) \in [1..Cardinality(S) -> S]
         /\ IsInjective(SetToSeq(S))
         /\ \A x \in S : \E k \in 1..Cardinality(S) : SetToSeq(S)[k] = x
  <1> DEFINE n == Cardinality(S)
             f == SetToSeq(S)
  <1>1. n \in Nat /\ ExistsBijection(1..n, S)
    BY FS_CardinalityType
  <1>2. \E g \in [1..n -> S] : IsInjective(g)
    BY <1>1 DEF ExistsBijection, Bijection, Injection
  <1>3. f \in [1..n -> S] /\ IsInjective(f)
    BY <1>2 DEF SetToSeq
  <1> HIDE DEF f
  <1>4. f \in Injection(1..n, S)
    BY <1>3 DEF Injection
  <1>5. IsFiniteSet(1..n) /\ Cardinality(1..n) = n
    BY <1>1, FirstNumbers
  <1>6. \A x \in S : \E k \in 1..n : f[k] = x
    <2> DEFINE T == {f[k] : k \in 1..n}
    <2>1. f \in Surjection(1..n, T) /\ f \in Injection(1..n, T)
      BY <1>3 DEF Surjection, Injection
    <2>2. T \in SUBSET S
      BY <1>3
    <2> HIDE DEF T
    <2>3. Cardinality(T) = n
      BY <1>5, <2>1, FS_Surjection
    <2>4. T = S
      BY <1>1, <2>2, <2>3, FS_Subset
    <2> QED BY <2>4 DEF T
  <1> HIDE DEF n
  <1> QED BY <1>1, <1>3, <1>6 DEF n, f

\* A model that answers every file once, with a mask of the canvas, is trusted.
LEMMA FaithfulIsTrusted ==
  ASSUME NEW F, NEW g \in Seq(F), NEW annotations, NEW modelClass,
         DOMAIN annotations = Stems(g), IsFiniteSet(Stems(g)),
         IsInjective([i \in DOMAIN g |-> g[i].stem]),
         \A i \in DOMAIN g : modelClass = "segmentation" =>
           Canvas(annotations[g[i].stem]) \in {None, g[i].size}
  PROVE  Trusted(g, annotations, modelClass)
  <1> DEFINE s == Faithful(g, annotations, modelClass)
             expected == DOMAIN annotations
             sized == Sized(annotations)
             mask(i) == [label |-> 1, score |-> 1,
                         rle |-> IF Canvas(annotations[g[i].stem]) \in {None, g[i].size}
                                 THEN "good" ELSE "mismatched"]
  <1>1. DOMAIN g = 1..Len(g) /\ Len(g) \in Nat
    OBVIOUS
  <1>2. /\ DOMAIN s = DOMAIN g
        /\ \A i \in DOMAIN g :
             /\ s[i].image = g[i].stem
             /\ s[i].boxes = <<>> /\ s[i].scores = <<>> /\ s[i].labels = <<>>
             /\ s[i].classScores = <<>>
             /\ s[i].masks = IF modelClass # "segmentation" THEN <<>> ELSE <<mask(i)>>
    BY DEF Faithful
  <1>3. \E X : s \in Seq(X)
    <2>1. s = [i \in 1..Len(g) |-> s[i]]
      BY <1>1 DEF Faithful
    <2> HIDE DEF s
    <2> QED BY <1>1, <2>1, EveryList
  <1> HIDE DEF s, expected, sized
  <1>4. ASSUME NEW i \in DOMAIN s PROVE ~BadScore(s[i]) /\ ~BadShape(s[i]) /\ ~BadMask(s[i], sized)
    <2> DEFINE p == s[i]
    <2>1. /\ p.boxes = <<>> /\ p.scores = <<>> /\ p.labels = <<>> /\ p.classScores = <<>>
          /\ p.masks \in {<<>>, <<mask(i)>>}
      BY <1>2
    <2>2. mask(i).score = 1 /\ mask(i).rle \in {"good", "mismatched"}
      OBVIOUS
    <2>3. mask(i).rle = "good" \/ p.masks = <<>>
      BY <1>2
    <2> HIDE DEF p, mask
    <2>4. ~BadShape(p)
      <3>1. Len(<<>>) = 0
        OBVIOUS
      <3> QED BY <2>1, <3>1 DEF BadShape
    <2>5. \A j \in DOMAIN p.masks : p.masks[j].score = 1 /\ p.masks[j].rle = "good"
      <3>1. CASE p.masks = <<>>
        BY <3>1
      <3>2. CASE p.masks = <<mask(i)>> /\ mask(i).rle = "good"
        <4>1. DOMAIN p.masks = 1..1 /\ p.masks[1] = mask(i)
          BY <3>2
        <4>2. \A j \in 1..1 : j = 1
          OBVIOUS
        <4> QED BY <2>2, <3>2, <4>1, <4>2
      <3> QED BY <2>1, <2>3, <3>1, <3>2
    <2>6. ~BadMask(p, sized)
      BY <2>5 DEF BadMask
    <2>7. ~BadScore(p)
      <3>1. NaN # 1
        BY NaNAssumption
      <3>2. DOMAIN p.scores = {} /\ DOMAIN p.classScores = {}
        BY <2>1
      <3> QED BY <2>5, <3>1, <3>2 DEF BadScore
    <2> QED BY <2>4, <2>6, <2>7 DEF p
  <1>5. [i \in DOMAIN s |-> s[i].image] = [i \in DOMAIN g |-> g[i].stem]
    BY <1>2
  <1>6. {s[i].image : i \in DOMAIN s} = expected
    <2>1. expected = {g[i].stem : i \in DOMAIN g}
      BY DEF expected, Stems
    <2>2. DOMAIN s = DOMAIN g /\ \A i \in DOMAIN g : s[i].image = g[i].stem
      BY <1>2
    <2> QED BY <2>1, <2>2
  <1>7. ComputeCoverage(s, expected, sized).valid
    <2>1. IsFiniteSet(expected)
      BY DEF expected
    <2>2. \A i \in DOMAIN s : s[i].image \in expected
      BY <1>6
    <2>3. IsInjective([i \in DOMAIN s |-> s[i].image])
      BY <1>5
    <2> QED BY <1>3, <1>4, <2>1, <2>2, <2>3, ValidTells
  <1>8. ComputeCoverage(s, expected, sized).missing = 0
    <2>1. ComputeCoverage(s, expected, sized).missing = Cardinality(expected \ ToSet(Seen(s)))
      BY DEF ComputeCoverage, ToSet
    <2>2. ToSet(Seen(s)) = expected
      BY <1>3, <1>6, SeenOnce
    <2>3. expected \ ToSet(Seen(s)) = {}
      BY <2>2
    <2> QED BY <2>1, <2>3, FS_EmptySet
  <1> QED BY <1>7, <1>8 DEF Trusted, s, expected, sized

\* Where all masks have one size, so does the canvas they are drawn on.
LEMMA CanvasOfOneSize ==
  ASSUME NEW O, NEW objects \in Seq(O), NEW size,
         \A k \in DOMAIN objects : objects[k].rle = size
  PROVE  Canvas(objects) \in {None, size}
  <1> DEFINE masks == {k \in DOMAIN objects : objects[k].rle \notin {None, "malformed"}}
  <1>1. masks \in SUBSET Nat /\ masks \subseteq DOMAIN objects
    <2>1. DOMAIN objects = 1..Len(objects) /\ Len(objects) \in Nat
      OBVIOUS
    <2> QED BY <2>1
  <1>2. masks # {} => Min(masks) \in masks
    <2> HIDE DEF masks
    <2> QED BY <1>1, SmallestExists
  <1>3. masks # {} => objects[Min(masks)].rle = size
    <2> HIDE DEF masks
    <2> QED BY <1>1, <1>2
  <1> QED BY <1>3 DEF Canvas

\* What registration is given: files, and lists of objects where there are any.
IntakeCase(c) ==
  /\ \E F : c.data.files \in Seq(F)
  /\ c.data.annotations # None =>
       \A id \in DOMAIN c.data.annotations :
         c.data.annotations[id] # None => \E O : c.data.annotations[id] \in Seq(O)

\* In a registered set for segmentation the masks of an image are as large as it.
LEMMA MasksFit ==
  ASSUME NEW data, Readable(data), Conforming(data, TRUE), NEW F, data.files \in Seq(F),
         \A id \in DOMAIN data.annotations : \E O : data.annotations[id] \in Seq(O),
         Cardinality(Stems(data.files)) = Len(data.files), NEW i \in DOMAIN data.files
  PROVE  Canvas(data.annotations[data.files[i].stem]) \in {None, data.files[i].size}
  <1> DEFINE files == data.files
             id == files[i].stem
             objects == data.annotations[id]
             readable == {k \in DOMAIN files : files[k].stem = id /\ files[k].size # None}
  <1>1. {k \in DOMAIN files : files[k].stem = id} = {i} /\ files[i].size # None
    BY StemsTell DEF Readable
  <1>2. readable = {i} /\ i \in Nat
    BY <1>1
  <1>3. Max({i}) = i
    BY <1>2 DEF Max
  <1>4. ImageSize(files, id) = files[i].size /\ files[i].size # None
    <2> HIDE DEF readable
    <2>1. readable # {} /\ Max(readable) = i
      BY <1>2, <1>3
    <2> QED BY <1>1, <2>1 DEF ImageSize, readable
  <1>5. id \in DOMAIN data.annotations
    BY DEF Conforming, Stems
  <1>6. \A object \in ToSet(objects) : GoodMask(files, id, object)
    BY <1>5 DEF Conforming
  <1>7. \A k \in DOMAIN objects : objects[k].rle = files[i].size
    <2>1. \A k \in DOMAIN objects : objects[k] \in ToSet(objects)
      BY DEF ToSet
    <2> HIDE DEF files, id, objects
    <2> QED BY <1>4, <1>6, <2>1 DEF GoodMask
  <1> QED BY <1>5, <1>7, CanvasOfOneSize

\* What registration lets in scores.
LEMMA RegisteredAlwaysScores ==
  ASSUME Is("intake") => IntakeCase(case)
  PROVE  RegisteredIsScorable
  <1> DEFINE data == case.data
             files == data.files
             ann == data.annotations
             class == case.manifest.modelClass
             perturbed == Perturbed(files)
  <1> SUFFICES ASSUME IntakeCase(case), Registers(case.manifest, data), Readable(data),
                      Boxed(data, class), Cardinality(Stems(files)) = Len(files)
               PROVE  Trusted(files, ann, class) /\ Trusted(perturbed, ann, class)
    BY DEF RegisteredIsScorable, Registered, Scorable
  <1>1. PICK F : files \in Seq(F)
    BY DEF IntakeCase
  <1>2. /\ Conforming(data, class = "segmentation")
        /\ DOMAIN ann = Stems(files)
        /\ \A id \in DOMAIN ann : \E O : ann[id] \in Seq(O)
    BY DEF Registers, IsSegmentation, Conforming, IntakeCase
  <1> HIDE DEF data, class
  <1>3. /\ IsInjective([i \in DOMAIN files |-> files[i].stem])
        /\ \A i \in DOMAIN files : {k \in DOMAIN files : files[k].stem = files[i].stem} = {i}
        /\ IsFiniteSet(Stems(files))
    BY <1>1, StemsTell
  <1>4. \A i \in DOMAIN files : class = "segmentation" =>
          Canvas(ann[files[i].stem]) \in {None, files[i].size}
    BY <1>1, <1>2, MasksFit
  <1> HIDE DEF files, ann, perturbed
  <1>5. Trusted(files, ann, class)
    BY <1>1, <1>2, <1>3, <1>4, FaithfulIsTrusted
  <1> DEFINE stems == SetToSeq(Stems(files))
             n == Cardinality(Stems(files))
  <1>6. n \in Nat /\ stems \in [1..n -> Stems(files)] /\ IsInjective(stems)
        /\ \A x \in Stems(files) : \E k \in 1..n : stems[k] = x
    BY <1>3, ListOfSet
  <1> HIDE DEF stems, n
  <1>7. /\ DOMAIN perturbed = 1..n
        /\ \A k \in 1..n : perturbed[k].stem = stems[k]
        /\ perturbed = [k \in 1..n |-> perturbed[k]]
    BY <1>6 DEF Perturbed, perturbed, stems
  <1>8. ASSUME NEW k \in 1..n
        PROVE  \E i \in DOMAIN files : /\ files[i].stem = perturbed[k].stem
                                       /\ files[i].size = perturbed[k].size
    <2>1. PICK i \in DOMAIN files : files[i].stem = stems[k]
      BY <1>6 DEF Stems
    <2>2. {m \in DOMAIN files : files[m].stem = stems[k]} = {i} /\ i \in Nat
      BY <1>1, <1>3, <2>1
    <2>3. Max({i}) = i
      BY <2>2 DEF Max
    <2>4. perturbed[k].size = files[Max({m \in DOMAIN files : files[m].stem = stems[k]})].size
      BY <1>6 DEF Perturbed, perturbed, stems
    <2>5. perturbed[k].size = files[i].size
      BY <2>2, <2>3, <2>4
    <2> QED BY <1>7, <2>1, <2>5
  <1>9. Stems(perturbed) = Stems(files)
    <2>1. Stems(perturbed) = {perturbed[k].stem : k \in 1..n}
      BY <1>7 DEF Stems
    <2>2. \A x \in Stems(files) : x \in Stems(perturbed)
      BY <1>6, <1>7, <2>1
    <2>3. \A x \in Stems(perturbed) : x \in Stems(files)
      BY <1>6, <1>7, <2>1
    <2> QED BY <2>2, <2>3
  <1>10. \A k \in DOMAIN perturbed : class = "segmentation" =>
           Canvas(ann[perturbed[k].stem]) \in {None, perturbed[k].size}
    BY <1>4, <1>7, <1>8
  <1>11. IsInjective([k \in DOMAIN perturbed |-> perturbed[k].stem])
    BY <1>6, <1>7 DEF IsInjective
  <1>12. \E X : perturbed \in Seq(X)
    BY <1>6, <1>7, EveryList
  <1>13. Trusted(perturbed, ann, class)
    BY <1>2, <1>3, <1>9, <1>10, <1>11, <1>12, FaithfulIsTrusted
  <1> QED BY <1>5, <1>13

\* What registration lets in a faithful model is trusted on, as it is and
\* perturbed, and its floors decide: for any files, annotations and manifest.
THEOREM RegistrationIsAlwaysSound ==
  ASSUME Is("intake") => IntakeCase(case)
  PROVE  RegistrationIsSound
  BY RegisteredAlwaysScores, FloorsAlwaysDecide DEF RegistrationIsSound

-----------------------------------------------------------------------------
(* What grounding rests on                                                 *)

\* A part of a whole in hundredths.
LEMMA Hundredths ==
  ASSUME NEW a \in Nat, NEW b \in Nat, NEW n \in Nat, a <= b, b <= n, n > 0
  PROVE  /\ (a * 100) \div n <= (b * 100) \div n
         /\ (b * 100) \div n \in 0..100
  OBVIOUS

\* What grounding is computed of: attributions and annotated objects of any
\* kind, finitely many, and a list of approved methods, known or not.
Energies == (0..100) \cup {None, Invalid}
GroundingCase(c) ==
  \E I, L, P, O, N, T :
    /\ c \in [kind : STRING, modelClass : STRING, truth : T, approved : Seq(N), minSamples : Nat,
              attributions : Seq([image : I, label : L, point : P, energy : Energies])]
    /\ IsFiniteSet(DOMAIN c.truth)
    /\ \A i \in DOMAIN c.truth : c.truth[i] \in Seq(O)

\* A function on a finite set has finitely many values.
LEMMA FiniteImage ==
  ASSUME NEW S, IsFiniteSet(S), NEW f, DOMAIN f = S, NEW T, T = {f[x] : x \in S}
  PROVE  IsFiniteSet(T) /\ Cardinality(T) <= Cardinality(S)
  <1> DEFINE g == [x \in S |-> f[x]]
  <1>1. g \in Surjection(S, T)
    BY DEF Surjection
  <1> HIDE DEF g
  <1> QED BY <1>1, FS_Surjection

\* There are finitely many targets.
LEMMA TargetsFinite ==
  ASSUME NEW truth, IsFiniteSet(DOMAIN truth), NEW O, \A i \in DOMAIN truth : truth[i] \in Seq(O)
  PROVE  IsFiniteSet(Targets(truth))
  <1> DEFINE of(i) == {<<i, k>> : k \in {m \in DOMAIN truth[i] : truth[i][m].region # None}}
             all == {of(i) : i \in DOMAIN truth}
  <1>1. ASSUME NEW i \in DOMAIN truth PROVE IsFiniteSet(of(i))
    <2> DEFINE D == {m \in DOMAIN truth[i] : truth[i][m].region # None}
    <2>1. Len(truth[i]) \in Nat /\ DOMAIN truth[i] = 1..Len(truth[i])
      OBVIOUS
    <2>2. IsFiniteSet(D)
      <3>1. D \in SUBSET (1..Len(truth[i]))
        BY <2>1
      <3>2. IsFiniteSet(1..Len(truth[i]))
        BY <2>1, FirstNumbers
      <3> HIDE DEF D
      <3> QED BY <3>1, <3>2, FS_Subset
    <2> HIDE DEF D
    <2> DEFINE f == [k \in D |-> <<i, k>>]
    <2>3. DOMAIN f = D /\ {<<i, k>> : k \in D} = {f[k] : k \in D}
      OBVIOUS
    <2> HIDE DEF f
    <2>4. IsFiniteSet({<<i, k>> : k \in D})
      BY <2>2, <2>3, FiniteImage
    <2> QED BY <2>4 DEF D
  <1> HIDE DEF of
  <1>2. IsFiniteSet(all)
    <2> DEFINE f == [i \in DOMAIN truth |-> of(i)]
    <2>1. DOMAIN f = DOMAIN truth /\ all = {f[i] : i \in DOMAIN truth}
      OBVIOUS
    <2> HIDE DEF f, all
    <2> QED BY <2>1, FiniteImage
  <1>3. IsFiniteSet(UNION all)
    <2>1. \A x \in all : IsFiniteSet(x)
      BY <1>1
    <2> HIDE DEF all
    <2> QED BY <1>2, <2>1, FS_UNION
  <1> QED BY <1>3 DEF of, Targets

\* The targets that are pointed at under their label.
Found(attributions, truth) ==
  {t \in Targets(truth) : \E a \in ToSet(attributions) :
     a.point # None /\ a.image = t[1] /\ a.label = truth[t[1]][t[2]].label
       /\ truth[t[1]][t[2]].region \in a.point}

\* The pointing game counts every target, and those found.
LEMMA PointingTells ==
  ASSUME NEW attributions, NEW truth, IsFiniteSet(Targets(truth))
  PROVE  LET g == PointingGame(attributions, truth)
             found == Cardinality(Found(attributions, truth))
         IN  /\ g.n \in Nat
             /\ g.n # 0 => /\ g.n > 0 /\ g.n = Cardinality(Targets(truth))
                           /\ \E a \in ToSet(attributions) : a.point # None
                           /\ found \in Nat /\ found <= g.n
                           /\ g.score = (found * 100) \div g.n
                           /\ g.score \in 0..100
  <1> DEFINE g == PointingGame(attributions, truth)
             found == Cardinality(Found(attributions, truth))
             n == Cardinality(Targets(truth))
             pointed == {a \in ToSet(attributions) : a.point # None}
  <1>1. n \in Nat /\ found \in Nat /\ found <= n /\ (n = 0 => Targets(truth) = {})
    <2>1. Found(attributions, truth) \in SUBSET Targets(truth)
      BY DEF Found
    <2> QED BY <2>1, FS_Subset, FS_CardinalityType, FS_EmptySet
  <1>2. Found(attributions, truth) = {t \in Targets(truth) : \E a \in pointed :
                 /\ a.image = t[1]
                 /\ a.label = truth[t[1]][t[2]].label
                 /\ truth[t[1]][t[2]].region \in a.point}
    BY DEF Found
  <1>3. g = IF pointed = {} \/ Targets(truth) = {} THEN NotApplicable
            ELSE [score |-> (found * 100) \div n, n |-> n]
    BY <1>2 DEF PointingGame, CountedTargets
  <1>4. CASE pointed = {} \/ Targets(truth) = {}
    <2>1. g.n = 0
      BY <1>3, <1>4 DEF NotApplicable
    <2> QED BY <2>1
  <1>5. CASE pointed # {} /\ Targets(truth) # {}
    <2>1. g.n = n /\ g.score = (found * 100) \div n
      <3> HIDE DEF n, found, pointed
      <3>1. g = [score |-> (found * 100) \div n, n |-> n]
        BY <1>3, <1>5
      <3> HIDE DEF g
      <3> QED BY <3>1
    <2>2. n > 0 /\ \E a \in ToSet(attributions) : a.point # None
      BY <1>1, <1>5
    <2>3. (found * 100) \div n \in 0..100
      <3> HIDE DEF n, found
      <3> QED BY <1>1, <2>2, Hundredths
    <2> HIDE DEF g, n, found
    <2>4. g.n \in Nat /\ g.n > 0 /\ found <= g.n /\ g.score = (found * 100) \div g.n
      BY <1>1, <2>1, <2>2
    <2> QED BY <1>1, <2>1, <2>2, <2>3, <2>4 DEF g, n, found
  <1> QED BY <1>4, <1>5

\* A percentage is a number.
LEMMA Percentage == \A x \in 0..100 : x \in Nat /\ x <= 100
  OBVIOUS

\* The mean of percentages is one.
LEMMA MeanTells ==
  ASSUME NEW X, NEW s \in Seq(X), Maps(s) # {},
         \A i \in Maps(s) : s[i].energy \in 0..100
  PROVE  Mean(s) \in 0..100
  <1> DEFINE K == Maps(s)
             step == [k \in K |-> [sum \in Nat |-> s[k].energy + sum]]
  <1>0. \A k \in K : s[k].energy \in Nat /\ s[k].energy <= 100
    <2> SUFFICES ASSUME NEW k \in K PROVE s[k].energy \in Nat /\ s[k].energy <= 100
      OBVIOUS
    <2>1. s[k].energy \in 0..100
      OBVIOUS
    <2> HIDE DEF K
    <2> QED BY <2>1, Percentage
  <1>1. IsFiniteSet(K)
    <2>1. Len(s) \in Nat /\ DOMAIN s = 1..Len(s)
      OBVIOUS
    <2>2. Maps(s) \in SUBSET (1..Len(s))
      BY <2>1 DEF Maps
    <2>3. IsFiniteSet(1..Len(s))
      BY <2>1, FirstNumbers
    <2> QED BY <2>2, <2>3, FS_Subset
  <1>2. SetStepOf(K, Nat, 0, step)
    <2>1. \A k \in K : \A sum \in Nat : s[k].energy + sum \in Nat
      <3> HIDE DEF K
      <3> QED BY <1>0
    <2>2. step \in [K -> [Nat -> Nat]]
      <3> HIDE DEF K
      <3> QED BY <2>1
    <2> HIDE DEF K, step
    <2> QED BY <1>1, <2>2 DEF SetStepOf
  <1>3. PICK it : SetFoldOf(K, Nat, 0, step, it)
    <2> HIDE DEF K, step
    <2> QED BY <1>2, SetFoldExists
  <1>4. \A d \in SUBSET K : d # {} => FirstOf(d) \in d /\ d \ {FirstOf(d)} \in SUBSET K
    BY DEF FirstOf
  <1>5. it = [d \in SUBSET K |-> IF d = {} THEN 0
                                 ELSE s[FirstOf(d)].energy + it[d \ {FirstOf(d)}]]
    <2>1. \A d \in SUBSET K : d # {} =>
            step[FirstOf(d)][it[d \ {FirstOf(d)}]] = s[FirstOf(d)].energy + it[d \ {FirstOf(d)}]
      <3> HIDE DEF K
      <3> QED BY <1>3, <1>4 DEF SetFoldOf
    <2> HIDE DEF step, K
    <2> QED BY <1>3, <2>1 DEF SetFoldOf
  <1> DEFINE total == MapThenSumSet(LAMBDA i : s[i].energy, K)
  <1>6. PICK j : /\ j = [d \in SUBSET K |-> IF d = {} THEN 0
                                  ELSE s[FirstOf(d)].energy + j[d \ {FirstOf(d)}]]
                 /\ total = j[K]
    <2> HIDE DEF K
    <2> QED BY <1>5 DEF MapThenSumSet, MapThenFoldSet, FirstOf
  <1> HIDE DEF total
  <1> DEFINE Good(d) == j[d] \in Nat /\ j[d] <= 100 * Cardinality(d)
             P == {d \in SUBSET K : Good(d)}
  <1>7. {} \in P
    BY <1>6, FS_EmptySet
  <1>8. ASSUME NEW d \in SUBSET K, d # {}, d \ {FirstOf(d)} \in P PROVE d \in P
    <2> DEFINE k == FirstOf(d)
               rest == d \ {FirstOf(d)}
    <2>1. k \in d /\ k \in K
      BY <1>4, <1>8
    <2>2. j[d] = s[k].energy + j[rest]
      BY <1>6, <1>8
    <2>3. Good(rest)
      BY <1>8
    <2>4. IsFiniteSet(d) /\ Cardinality(d) \in Nat /\ Cardinality(rest) = Cardinality(d) - 1
      BY <1>1, <2>1, FS_Subset, FS_CardinalityType, FS_RemoveElement
    <2> HIDE DEF k, rest, K
    <2>5. s[k].energy \in Nat /\ s[k].energy <= 100
      BY <1>0, <2>1
    <2>6. \A x, y, z \in Nat : x <= 100 /\ y <= 100 * (z - 1) => x + y \in Nat /\ x + y <= 100 * z
      OBVIOUS
    <2>7. Good(d)
      BY <2>2, <2>3, <2>4, <2>5, <2>6
    <2> QED BY <2>7
  <1>9. K \in P
    <2> HIDE DEF P, K
    <2> QED BY <1>1, <1>7, <1>8, Shrinking
  <1>10. Cardinality(K) \in Nat /\ Cardinality(K) > 0
    BY <1>1, FS_CardinalityType, FS_EmptySet
  <1>11. Mean(s) = total \div Cardinality(K)
    BY DEF Mean, total
  <1>12. total \in Nat /\ total <= 100 * Cardinality(K)
    BY <1>6, <1>9
  <1> HIDE DEF K
  <1>13. \A a, b \in Nat : b > 0 /\ a <= 100 * b => a \div b \in 0..100
    OBVIOUS
  <1> QED BY <1>10, <1>11, <1>12, <1>13

\* The mean energy is of maps that are all valid, or it is invalid.
LEMMA EnergyTells ==
  ASSUME NEW X, NEW s \in Seq(X), \A i \in DOMAIN s : s[i].energy \in Energies
  PROVE  LET g == EnergyInsideRegion(s)
         IN  /\ g.n \in Nat
             /\ g.n # 0 /\ g.score # Invalid =>
                  g.score \in 0..100 /\ \A i \in DOMAIN s : s[i].energy # Invalid
  <1> DEFINE g == EnergyInsideRegion(s)
             K == Maps(s)
             n == Cardinality(K)
  <1>1. n \in Nat
    <2>1. Len(s) \in Nat /\ DOMAIN s = 1..Len(s)
      OBVIOUS
    <2>2. K \in SUBSET (1..Len(s))
      BY <2>1 DEF Maps
    <2>3. IsFiniteSet(1..Len(s))
      BY <2>1, FirstNumbers
    <2> HIDE DEF K
    <2> QED BY <2>2, <2>3, FS_Subset, FS_CardinalityType
  <1>2. CASE K = {}
    <2>1. g.n = 0
      BY <1>2 DEF EnergyInsideRegion, NotApplicable
    <2> QED BY <2>1
  <1>3. CASE K # {}
    <2>1. g = [score |-> MeanEnergy(s), n |-> n]
      BY <1>3 DEF EnergyInsideRegion
    <2> HIDE DEF g
    <2>2. g.n = n /\ g.score = MeanEnergy(s)
      BY <2>1
    <2>3. CASE \E i \in Maps(s) : s[i].energy = Invalid
      <3>1. MeanEnergy(s) = Invalid
        BY <2>3 DEF MeanEnergy
      <3> QED BY <1>1, <2>2, <3>1 DEF g
    <2>4. CASE ~ \E i \in Maps(s) : s[i].energy = Invalid
      <3>1. MeanEnergy(s) = Mean(s)
        BY <2>4 DEF MeanEnergy
      <3>2. \A i \in Maps(s) : s[i].energy \in 0..100
        BY <2>4 DEF Maps, Energies
      <3>3. Mean(s) \in 0..100
        BY <1>3, <3>2, MeanTells
      <3>4. \A i \in DOMAIN s : s[i].energy # Invalid
        BY <2>4, InvalidAssumption DEF Maps
      <3> HIDE DEF n
      <3> QED BY <1>1, <2>2, <3>1, <3>3, <3>4 DEF g
    <2> QED BY <2>3, <2>4
  <1> QED BY <1>2, <1>3

\* Samples are counted, and only of the methods there are.
LEMMA ApplyTells ==
  ASSUME NEW X, NEW s \in Seq(X), \A i \in DOMAIN s : s[i].energy \in Energies,
         NEW truth, IsFiniteSet(Targets(truth)), NEW method
  PROVE  LET found == Apply(method, s, truth)
         IN  /\ found.n \in Nat
             /\ found.n # 0 =>
                  \/ method = "pointing_game" /\ found = PointingGame(s, truth)
                  \/ method = "energy_inside_region" /\ found = EnergyInsideRegion(s)
  <1> DEFINE found == Apply(method, s, truth)
  <1>1. CASE method = "pointing_game"
    <2>1. found = PointingGame(s, truth)
      BY <1>1 DEF Apply
    <2>2. PointingGame(s, truth).n \in Nat
      BY PointingTells
    <2> HIDE DEF found
    <2>3. found.n \in Nat
      BY <2>1, <2>2
    <2> QED BY <1>1, <2>1, <2>3 DEF found
  <1>2. CASE method = "energy_inside_region"
    <2>1. found = EnergyInsideRegion(s)
      BY <1>2 DEF Apply
    <2>2. EnergyInsideRegion(s).n \in Nat
      BY EnergyTells
    <2> HIDE DEF found
    <2>3. found.n \in Nat
      BY <2>1, <2>2
    <2> QED BY <1>2, <2>1, <2>3 DEF found
  <1>3. CASE method # "pointing_game" /\ method # "energy_inside_region"
    <2>1. found = NotApplicable
      BY <1>3 DEF Apply
    <2> HIDE DEF found
    <2>2. found.n = 0
      BY <2>1 DEF NotApplicable
    <2> QED BY <2>2 DEF found
  <1> QED BY <1>1, <1>2, <1>3

\* What a measurement says was found by an approved method.
LEMMA EvaluateTells ==
  ASSUME NEW X, NEW s \in Seq(X), \A i \in DOMAIN s : s[i].energy \in Energies,
         NEW truth, IsFiniteSet(Targets(truth)),
         NEW N, NEW approved \in Seq(N), NEW minSamples \in Nat
  PROVE  LET e == EvaluateGrounding(s, truth, approved, minSamples)
         IN  \/ e.status = "unavailable" /\ e.method = None
             \/ /\ e.status = "measured" /\ e.method \in ToSet(approved)
                /\ e.n # 0 /\ e.n >= minSamples /\ e.score # Invalid
                /\ LET found == Apply(e.method, s, truth)
                   IN  e.n = found.n /\ e.score = found.score
  <1> DEFINE e == EvaluateGrounding(s, truth, approved, minSamples)
             applicable == {k \in DOMAIN approved : Apply(approved[k], s, truth).n # 0}
             method == approved[Min(applicable)]
             found == Apply(method, s, truth)
  <1>1. CASE applicable = {}
    <2>1. e = UnavailableBecause("missing_attribution", 0)
      BY <1>1 DEF EvaluateGrounding
    <2> HIDE DEF e
    <2>2. e.status = "unavailable" /\ e.method = None
      BY <2>1 DEF UnavailableBecause
    <2> QED BY <2>2 DEF e
  <1>2. CASE applicable # {}
    <2>1. Min(applicable) \in applicable
      <3>1. applicable \in SUBSET Nat
        OBVIOUS
      <3> HIDE DEF applicable
      <3> QED BY <1>2, <3>1, SmallestExists
    <2>2. Min(applicable) \in DOMAIN approved /\ found.n # 0
      BY <2>1
    <2>3. method \in ToSet(approved)
      <3> DEFINE m == Min(applicable)
      <3>1. m \in DOMAIN approved
        BY <2>2
      <3> HIDE DEF m
      <3>2. approved[m] \in ToSet(approved)
        BY <3>1 DEF ToSet
      <3> QED BY <3>2 DEF m
    <2>4. found.n \in Nat
      BY ApplyTells
    <2>5. e = CASE applicable = {} -> UnavailableBecause("missing_attribution", 0)
       [] applicable # {} /\ found.n < minSamples ->
            UnavailableBecause("insufficient_samples", found.n)
       [] applicable # {} /\ found.n >= minSamples /\ found.score = Invalid ->
            UnavailableBecause("invalid_evidence", found.n)
       [] OTHER -> [status |-> "measured", reason |-> None, method |-> method,
                    score |-> found.score, n |-> found.n]
      BY DEF EvaluateGrounding
    <2> HIDE DEF e, applicable, method
    <2> DEFINE n == found.n
               score == found.score
    <2>6. n \in Nat /\ n # 0
      BY <2>2, <2>4
    <2>7. e = CASE applicable = {} -> UnavailableBecause("missing_attribution", 0)
       [] applicable # {} /\ n < minSamples -> UnavailableBecause("insufficient_samples", n)
       [] applicable # {} /\ n >= minSamples /\ score = Invalid ->
            UnavailableBecause("invalid_evidence", n)
       [] OTHER -> [status |-> "measured", reason |-> None, method |-> method,
                    score |-> score, n |-> n]
      BY <2>5
    <2> HIDE DEF n, score
    <2>8. \/ e = UnavailableBecause("insufficient_samples", n)
          \/ e = UnavailableBecause("invalid_evidence", n)
          \/ /\ n >= minSamples /\ score # Invalid
             /\ e = [status |-> "measured", reason |-> None, method |-> method,
                     score |-> score, n |-> n]
      <3>1. CASE n < minSamples
        BY <1>2, <2>7, <3>1
      <3>2. CASE n >= minSamples /\ score = Invalid
        BY <1>2, <2>6, <2>7, <3>2
      <3>3. CASE n >= minSamples /\ score # Invalid
        BY <1>2, <2>6, <2>7, <3>3
      <3> QED BY <2>6, <3>1, <3>2, <3>3
    <2>9. CASE \E r : e = UnavailableBecause(r, n)
      <3>1. e.status = "unavailable" /\ e.method = None
        BY <2>9 DEF UnavailableBecause
      <3> QED BY <3>1 DEF e
    <2>10. CASE /\ n >= minSamples /\ score # Invalid
                /\ e = [status |-> "measured", reason |-> None, method |-> method,
                        score |-> score, n |-> n]
      <3>1. e.status = "measured" /\ e.method = method /\ e.n = n /\ e.score = score
        BY <2>10
      <3>2. e.n = Apply(e.method, s, truth).n /\ e.score = Apply(e.method, s, truth).score
        BY <3>1 DEF n, score
      <3> QED BY <2>3, <2>6, <2>10, <3>1, <3>2 DEF e
    <2> QED BY <2>8, <2>9, <2>10
  <1> QED BY <1>1, <1>2

\* What the evidence says, whatever the class of the model.
LEMMA EvidenceTells ==
  ASSUME NEW c, NEW A, c.attributions \in Seq(A),
         \A i \in DOMAIN c.attributions : c.attributions[i].energy \in Energies,
         IsFiniteSet(Targets(c.truth)),
         NEW N, c.approved \in Seq(N), c.minSamples \in Nat
  PROVE  LET e == EvidenceOf(c)
         IN  \/ e.status = "unavailable" /\ e.method = None
             \/ /\ e.status = "measured" /\ e.method \in ToSet(c.approved)
                /\ e.n # 0 /\ e.n >= c.minSamples /\ e.score # Invalid
                /\ LET found == Apply(e.method, c.attributions, c.truth)
                   IN  e.n = found.n /\ e.score = found.score
  <1>1. CASE c.modelClass # "detection"
    <2> DEFINE e == EvidenceOf(c)
    <2>1. e = UnavailableBecause("unsupported_model_class", 0)
      BY <1>1 DEF EvidenceOf, GroundingEvidence
    <2> HIDE DEF e
    <2>2. e.status = "unavailable" /\ e.method = None
      BY <2>1 DEF UnavailableBecause
    <2> QED BY <2>2 DEF e
  <1>2. CASE c.modelClass = "detection"
    <2>1. EvidenceOf(c) = EvaluateGrounding(c.attributions, c.truth, c.approved, c.minSamples)
      BY <1>2 DEF EvidenceOf, GroundingEvidence
    <2> QED BY <2>1, EvaluateTells
  <1> QED BY <1>1, <1>2

\* The facts of a case that the two properties rest on.
GroundedCase(c, A, N) ==
  /\ c.attributions \in Seq(A)
  /\ \A i \in DOMAIN c.attributions : c.attributions[i].energy \in Energies
  /\ IsFiniteSet(Targets(c.truth))
  /\ c.approved \in Seq(N) /\ c.minSamples \in Nat

\* A measured score is a percentage of what was found by a known method.
LEMMA MeasuredTells ==
  ASSUME NEW A, NEW N, GroundedCase(case, A, N)
  PROVE  MeasuredOnEvidence
  <1> DEFINE e == EvidenceOf(case)
             s == case.attributions
             truth == case.truth
             found == Apply(e.method, s, truth)
  <1> SUFFICES ASSUME e.status = "measured"
      PROVE /\ e.method \in ToSet(case.approved) \cap GroundingMethods
            /\ e.n >= case.minSamples /\ e.score \in 0..100
            /\ \/ /\ e.method = "pointing_game"
                  /\ \E a \in ToSet(s) : a.point # None
                  /\ e.score > 0 => \E a \in ToSet(s), t \in Targets(truth) :
                       a.image = t[1] /\ a.point # None /\ truth[t[1]][t[2]].region \in a.point
               \/ /\ e.method = "energy_inside_region"
                  /\ \A a \in ToSet(s) : a.energy # Invalid
    BY DEF MeasuredOnEvidence
  <1>0. /\ s \in Seq(A) /\ IsFiniteSet(Targets(truth))
        /\ \A i \in DOMAIN s : s[i].energy \in Energies
    BY DEF GroundedCase
  <1>1. /\ e.method \in ToSet(case.approved)
        /\ e.n # 0 /\ e.n >= case.minSamples /\ e.score # Invalid
        /\ e.n = found.n /\ e.score = found.score
    <2> DEFINE g == EvidenceOf(case)
    <2>1. \/ g.status = "unavailable" /\ g.method = None
          \/ /\ g.status = "measured" /\ g.method \in ToSet(case.approved)
             /\ g.n # 0 /\ g.n >= case.minSamples /\ g.score # Invalid
             /\ LET f == Apply(g.method, s, truth) IN g.n = f.n /\ g.score = f.score
      BY EvidenceTells DEF GroundedCase
    <2> QED BY <2>1
  <1> HIDE DEF e, s, truth
  <1>2. \/ e.method = "pointing_game" /\ found = PointingGame(s, truth)
        \/ e.method = "energy_inside_region" /\ found = EnergyInsideRegion(s)
    BY <1>0, <1>1, ApplyTells
  <1>3. CASE e.method = "pointing_game" /\ found = PointingGame(s, truth)
    <2> DEFINE g == PointingGame(s, truth)
               count == Cardinality(Found(s, truth))
    <2>1. e.n = g.n /\ e.score = g.score
      BY <1>1, <1>3
    <2>2. /\ g.n > 0 /\ g.n \in Nat /\ \E a \in ToSet(s) : a.point # None
          /\ count \in Nat /\ g.score = (count * 100) \div g.n /\ g.score \in 0..100
      BY <1>0, <1>1, <2>1, PointingTells
    <2>3. ASSUME e.score > 0
          PROVE  \E a \in ToSet(s), t \in Targets(truth) :
                   a.image = t[1] /\ a.point # None /\ truth[t[1]][t[2]].region \in a.point
      <3>1. count # 0
        <4> HIDE DEF g, count
        <4>1. \A n \in Nat : n > 0 => (0 * 100) \div n = 0
          OBVIOUS
        <4> QED BY <2>1, <2>2, <2>3, <4>1
      <3>2. Found(s, truth) # {}
        BY <3>1, FS_EmptySet
      <3> QED BY <3>2 DEF Found
    <2>4. e.score \in 0..100
      BY <2>1, <2>2
    <2> HIDE DEF g, count, found
    <2> QED BY <1>1, <1>3, <2>2, <2>3, <2>4 DEF GroundingMethods
  <1>4. CASE e.method = "energy_inside_region" /\ found = EnergyInsideRegion(s)
    <2> DEFINE g == EnergyInsideRegion(s)
    <2>1. e.n = g.n /\ e.score = g.score
      BY <1>1, <1>4
    <2>2. g.score \in 0..100 /\ \A i \in DOMAIN s : s[i].energy # Invalid
      BY <1>0, <1>1, <2>1, EnergyTells
    <2>3. \A a \in ToSet(s) : a.energy # Invalid
      BY <2>2 DEF ToSet
    <2>4. e.score \in 0..100
      BY <2>1, <2>2
    <2> HIDE DEF g, found
    <2> QED BY <1>1, <1>4, <2>3, <2>4 DEF GroundingMethods
  <1> QED BY <1>2, <1>3, <1>4

\* Without an attribution no target is found that was not found with it.
LEMMA FoundOfFewer ==
  ASSUME NEW A, NEW s \in Seq(A), NEW i \in DOMAIN s, NEW truth
  PROVE  /\ Found(Without(s, i), truth) \subseteq Found(s, truth)
         /\ ToSet(Without(s, i)) \subseteq ToSet(s)
         /\ Without(s, i) \in Seq(A)
  <1>1. ToSet(Without(s, i)) \subseteq ToSet(s)
    <2> SUFFICES ASSUME NEW k \in DOMAIN Without(s, i) PROVE Without(s, i)[k] \in ToSet(s)
      BY DEF ToSet
    <2>1. \E m \in DOMAIN s : Without(s, i)[k] = s[m]
      BY WithoutFrom
    <2> QED BY <2>1 DEF ToSet
  <1>2. Found(Without(s, i), truth) \subseteq Found(s, truth)
    BY <1>1 DEF Found
  <1>3. Without(s, i) \in Seq(A)
    BY DEF Without
  <1> QED BY <1>1, <1>2, <1>3

\* Both measured by pointing, the one without an attribution scores no higher.
LEMMA SilenceTells ==
  ASSUME NEW A, NEW N, GroundedCase(case, A, N), NEW i \in DOMAIN case.attributions,
         NEW fewer, GroundedCase(fewer, A, N), fewer.truth = case.truth,
         fewer.attributions = Without(case.attributions, i),
         EvidenceOf(case).method = "pointing_game", EvidenceOf(fewer).method = "pointing_game"
  PROVE  /\ EvidenceOf(fewer).score <= EvidenceOf(case).score
         /\ EvidenceOf(fewer).n = EvidenceOf(case).n
  <1> DEFINE s == case.attributions
             t == Without(s, i)
             truth == case.truth
             g == PointingGame(s, truth)
             h == PointingGame(t, truth)
             n == Cardinality(Targets(truth))
             a == Cardinality(Found(t, truth))
             b == Cardinality(Found(s, truth))
  <1>1. ASSUME NEW c, GroundedCase(c, A, N), EvidenceOf(c).method = "pointing_game"
        PROVE  LET p == PointingGame(c.attributions, c.truth)
               IN  EvidenceOf(c).n = p.n /\ EvidenceOf(c).score = p.score /\ p.n # 0
    <2> DEFINE e == EvidenceOf(c)
               f == Apply(e.method, c.attributions, c.truth)
    <2>1. "pointing_game" # None
      BY NoMethodAssumption DEF GroundingMethods
    <2>2. e.n # 0 /\ e.n = f.n /\ e.score = f.score
      BY <1>1, <2>1, EvidenceTells DEF GroundedCase
    <2>3. f = PointingGame(c.attributions, c.truth)
      BY <1>1 DEF Apply
    <2> QED BY <2>2, <2>3
  <1>2. EvidenceOf(case).n = g.n /\ EvidenceOf(case).score = g.score /\ g.n # 0
    BY <1>1
  <1>3. EvidenceOf(fewer).n = h.n /\ EvidenceOf(fewer).score = h.score /\ h.n # 0
    <2> DEFINE p == PointingGame(fewer.attributions, fewer.truth)
    <2>1. EvidenceOf(fewer).n = p.n /\ EvidenceOf(fewer).score = p.score /\ p.n # 0
      BY <1>1
    <2>2. p = h
      OBVIOUS
    <2> HIDE DEF p, h
    <2> QED BY <2>1, <2>2
  <1>4. IsFiniteSet(Targets(truth)) /\ s \in Seq(A)
    BY DEF GroundedCase
  <1>5. g.n > 0 /\ g.n = n /\ b \in Nat /\ b <= n /\ g.score = (b * 100) \div n
    <2> HIDE DEF s, truth
    <2> QED BY <1>2, <1>4, PointingTells
  <1>6. h.n = n /\ a \in Nat /\ h.score = (a * 100) \div n
    <2> HIDE DEF s, truth, t
    <2> QED BY <1>3, <1>4, PointingTells
  <1>7. a <= b
    <2> HIDE DEF truth
    <2>1. Found(s, truth) \in SUBSET Targets(truth) /\ Found(t, truth) \in SUBSET Found(s, truth)
      BY FoundOfFewer, <1>4 DEF Found
    <2>2. IsFiniteSet(Found(s, truth))
      BY <1>4, <2>1, FS_Subset
    <2> QED BY <2>1, <2>2, FS_Subset
  <1>8. n \in Nat
    BY <1>4, FS_CardinalityType
  <1> HIDE DEF g, h, n, a, b
  <1>9. n > 0 /\ (a * 100) \div n <= (b * 100) \div n
    BY <1>5, <1>6, <1>7, <1>8, Hundredths
  <1> QED BY <1>2, <1>3, <1>5, <1>6, <1>9

\* Grounding is measured on what a model points at, or not at all, for any
\* number of images, objects and attributions: a list with one attribution less
\* scores no higher, and a measured score rests on an approved method and on
\* localization evidence that is valid.
THEOREM GroundingIsAlwaysEvidence ==
  ASSUME Is("grounding") => GroundingCase(case)
  PROVE  GroundingIsEvidence
  <1>1. CASE ~Is("grounding")
    BY <1>1 DEF GroundingIsEvidence, SilenceIsNotGrounding, MeasuredOnEvidence
  <1>2. CASE Is("grounding")
    <2>0. GroundingCase(case)
      BY <1>2
    <2>1. PICK I, L, P, O, N, T :
            /\ case \in [kind : STRING, modelClass : STRING, truth : T, approved : Seq(N),
                         minSamples : Nat,
                         attributions :
                           Seq([image : I, label : L, point : P, energy : Energies])]
            /\ IsFiniteSet(DOMAIN case.truth)
            /\ \A i \in DOMAIN case.truth : case.truth[i] \in Seq(O)
      BY <2>0 DEF GroundingCase
    <2> DEFINE A == [image : I, label : L, point : P, energy : Energies]
    <2>2. /\ case.attributions \in Seq(A) /\ case.approved \in Seq(N)
          /\ case.minSamples \in Nat
      BY <2>1
    <2>3. IsFiniteSet(Targets(case.truth))
      BY <2>1, TargetsFinite
    <2>4. \A s \in Seq(A) : \A i \in DOMAIN s : s[i].energy \in Energies
      <3>1. \A x \in A : x.energy \in Energies
        OBVIOUS
      <3> HIDE DEF A
      <3> QED BY <3>1
    <2> HIDE DEF A
    <2>5. GroundedCase(case, A, N)
      BY <2>2, <2>3, <2>4 DEF GroundedCase
    <2>6. ASSUME NEW i \in DOMAIN case.attributions
          PROVE  LET full == EvidenceOf(case)
                     less == EvidenceOf([case EXCEPT !.attributions = RemoveAt(@, i)])
                 IN  ("pointing_game" \in {full.method, less.method} /\ full.method = less.method)
                       => less.score <= full.score /\ less.n = full.n
      <3> DEFINE fewer == [case EXCEPT !.attributions = RemoveAt(@, i)]
      <3>1. RemoveAt(case.attributions, i) = Without(case.attributions, i)
        BY DEF RemoveAt, Without
      <3>2. /\ fewer.attributions = RemoveAt(case.attributions, i)
            /\ fewer.truth = case.truth /\ fewer.approved = case.approved
            /\ fewer.minSamples = case.minSamples
        BY <2>1
      <3> HIDE DEF fewer
      <3>3. fewer.attributions \in Seq(A)
        BY <2>2, <3>1, <3>2, FoundOfFewer
      <3>4. GroundedCase(fewer, A, N)
        BY <2>2, <2>3, <2>4, <3>2, <3>3 DEF GroundedCase
      <3>5. EvidenceOf(case).method = "pointing_game" /\ EvidenceOf(fewer).method = "pointing_game"
              => /\ EvidenceOf(fewer).score <= EvidenceOf(case).score
                 /\ EvidenceOf(fewer).n = EvidenceOf(case).n
        BY <2>5, <3>1, <3>2, <3>4, SilenceTells
      <3> QED BY <3>5 DEF fewer
    <2>7. SilenceIsNotGrounding
      BY <2>6 DEF SilenceIsNotGrounding
    <2>8. MeasuredOnEvidence
      BY <2>5, MeasuredTells
    <2> QED BY <2>7, <2>8 DEF GroundingIsEvidence
  <1> QED BY <1>1, <1>2

-----------------------------------------------------------------------------
(* The order by falling confidence                                         *)

\* A list of entries that have a confidence.
Rated(boxes) == \E X : boxes \in Seq(X) /\ \A i \in DOMAIN boxes : boxes[i].score \in Int

\* Of two different entries one is ahead, and being ahead is transitive.
LEMMA AheadIsAnOrder ==
  ASSUME NEW boxes, Rated(boxes)
  PROVE  /\ \A i, j \in DOMAIN boxes : i # j => Ahead(boxes, i, j) \/ Ahead(boxes, j, i)
         /\ \A i, j \in DOMAIN boxes : ~(Ahead(boxes, i, j) /\ Ahead(boxes, j, i))
         /\ \A i, j, k \in DOMAIN boxes :
              Ahead(boxes, i, j) /\ Ahead(boxes, j, k) => Ahead(boxes, i, k)
  <1>1. Len(boxes) \in Nat /\ DOMAIN boxes = 1..Len(boxes)
    BY DEF Rated
  <1>2. \A i \in DOMAIN boxes : i \in Int /\ boxes[i].score \in Int
    BY <1>1 DEF Rated
  <1>3. \A a, b, i, j \in Int : ~((a > b \/ (a = b /\ i < j)) /\ (b > a \/ (b = a /\ j < i)))
    OBVIOUS
  <1>4. \A a, b, i, j \in Int : i # j => (a > b \/ (a = b /\ i < j)) \/ (b > a \/ (b = a /\ j < i))
    OBVIOUS
  <1>5. \A a, b, c, i, j, k \in Int :
          (a > b \/ (a = b /\ i < j)) /\ (b > c \/ (b = c /\ j < k)) => (a > c \/ (a = c /\ i < k))
    OBVIOUS
  <1>6. \A i, j \in DOMAIN boxes : i # j => Ahead(boxes, i, j) \/ Ahead(boxes, j, i)
    BY <1>2, <1>4 DEF Ahead
  <1>7. \A i, j \in DOMAIN boxes : ~(Ahead(boxes, i, j) /\ Ahead(boxes, j, i))
    BY <1>2, <1>3 DEF Ahead
  <1>8. \A i, j, k \in DOMAIN boxes :
          Ahead(boxes, i, j) /\ Ahead(boxes, j, k) => Ahead(boxes, i, k)
    BY <1>2, <1>5 DEF Ahead
  <1> QED BY <1>6, <1>7, <1>8

\* The place of an entry is told by the entries ahead of it.
Before(boxes, i) == {j \in DOMAIN boxes : Ahead(boxes, j, i)}
Rank(boxes, i) == Cardinality(Before(boxes, i)) + 1

\* Every entry has a place of its own, and one ahead of another a lower one.
LEMMA RanksDiffer ==
  ASSUME NEW boxes, Rated(boxes)
  PROVE  /\ \A i \in DOMAIN boxes : Rank(boxes, i) \in 1..Len(boxes)
         /\ \A i, j \in DOMAIN boxes : Ahead(boxes, i, j) <=> Rank(boxes, i) < Rank(boxes, j)
         /\ \A i, j \in DOMAIN boxes : Rank(boxes, i) = Rank(boxes, j) => i = j
  <1> DEFINE n == Len(boxes)
  <1>0. n \in Nat /\ DOMAIN boxes = 1..n
    BY DEF Rated
  <1>1. IsFiniteSet(DOMAIN boxes) /\ Cardinality(DOMAIN boxes) = n
    BY <1>0, FirstNumbers
  <1>2. \A i \in DOMAIN boxes : /\ Before(boxes, i) \in SUBSET DOMAIN boxes
                                /\ i \notin Before(boxes, i)
    BY AheadIsAnOrder DEF Before
  <1> HIDE DEF n
  <1>3. ASSUME NEW i \in DOMAIN boxes
        PROVE  /\ IsFiniteSet(Before(boxes, i)) /\ Cardinality(Before(boxes, i)) \in Nat
               /\ Cardinality(Before(boxes, i)) < n
    <2> DEFINE D == DOMAIN boxes
               B == Before(boxes, i)
    <2>1. B \in SUBSET D /\ B # D
      BY <1>2
    <2> HIDE DEF B, D
    <2>2. IsFiniteSet(B) /\ Cardinality(B) <= Cardinality(D) /\ Cardinality(B) # Cardinality(D)
      BY <1>1, <2>1, FS_Subset DEF D
    <2>3. Cardinality(B) \in Nat
      BY <2>2, FS_CardinalityType
    <2> QED BY <1>0, <1>1, <2>2, <2>3 DEF B, D
  <1>4. ASSUME NEW i \in DOMAIN boxes, NEW j \in DOMAIN boxes, Ahead(boxes, i, j)
        PROVE  Rank(boxes, i) < Rank(boxes, j)
    <2> DEFINE B == Before(boxes, i)
               C == Before(boxes, j)
    <2>1. B \in SUBSET C /\ i \in C /\ i \notin B
      BY <1>2, <1>4, AheadIsAnOrder DEF Before
    <2>2. IsFiniteSet(C) /\ Cardinality(C) \in Nat /\ Cardinality(B) \in Nat
      BY <1>3
    <2> HIDE DEF B, C
    <2>3. Cardinality(B) <= Cardinality(C) /\ Cardinality(B) # Cardinality(C)
      BY <2>1, <2>2, FS_Subset
    <2> QED BY <2>2, <2>3 DEF Rank, B, C
  <1>5. \A i \in DOMAIN boxes : Rank(boxes, i) \in 1..n /\ Rank(boxes, i) \in Nat
    BY <1>0, <1>3 DEF Rank
  <1>6. ASSUME NEW i \in DOMAIN boxes, NEW j \in DOMAIN boxes
        PROVE  /\ Ahead(boxes, i, j) <=> Rank(boxes, i) < Rank(boxes, j)
               /\ Rank(boxes, i) = Rank(boxes, j) => i = j
    <2>1. i = j \/ Ahead(boxes, i, j) \/ Ahead(boxes, j, i)
      BY AheadIsAnOrder
    <2>2. i = j => ~Ahead(boxes, i, j)
      BY AheadIsAnOrder
    <2>3. Rank(boxes, i) \in Nat /\ Rank(boxes, j) \in Nat
      BY <1>5
    <2>4. /\ Ahead(boxes, i, j) => Rank(boxes, i) < Rank(boxes, j)
          /\ Ahead(boxes, j, i) => Rank(boxes, j) < Rank(boxes, i)
      BY <1>4
    <2> QED BY <2>1, <2>2, <2>3, <2>4
  <1> QED BY <1>5, <1>6 DEF n

\* What a list by falling confidence is.
Falling(boxes, order) ==
  /\ order \in [DOMAIN boxes -> DOMAIN boxes]
  /\ \A a, b \in DOMAIN boxes : a < b => order[a] # order[b] /\ Ahead(boxes, order[a], order[b])

\* There is one.
LEMMA FallingExists ==
  ASSUME NEW boxes, Rated(boxes)
  PROVE  \E order : Falling(boxes, order)
  <1> DEFINE n == Len(boxes)
             D == DOMAIN boxes
             rank == [i \in D |-> Rank(boxes, i)]
             order == [k \in D |-> CHOOSE i \in D : rank[i] = k]
  <1>0. n \in Nat /\ D = 1..n
    BY DEF Rated
  <1>1. IsFiniteSet(D)
    BY <1>0, FirstNumbers
  <1>2. rank \in Injection(D, D)
    BY <1>0, RanksDiffer DEF Injection, IsInjective
  <1>3. \A k \in D : \E i \in D : rank[i] = k
    <2>1. rank \in Surjection(D, D)
      <3> HIDE DEF rank, D
      <3> QED BY <1>1, <1>2, FS_Injection
    <2> HIDE DEF rank
    <2> QED BY <2>1 DEF Surjection
  <1>4. order \in [D -> D] /\ \A k \in D : rank[order[k]] = k
    <2> HIDE DEF rank, D
    <2> QED BY <1>3
  <1>5. ASSUME NEW a \in D, NEW b \in D, a < b
        PROVE  order[a] # order[b] /\ Ahead(boxes, order[a], order[b])
    <2>1. order[a] \in D /\ order[b] \in D /\ rank[order[a]] = a /\ rank[order[b]] = b
      BY <1>4
    <2> HIDE DEF order
    <2>2. Rank(boxes, order[a]) = a /\ Rank(boxes, order[b]) = b
      BY <2>1
    <2>3. Ahead(boxes, order[a], order[b])
      BY <1>5, <2>1, <2>2, RanksDiffer
    <2>4. order[a] # order[b]
      BY <1>0, <1>5, <2>1
    <2> QED BY <2>3, <2>4
  <1> HIDE DEF order, n
  <1>6. Falling(boxes, order)
    BY <1>4, <1>5 DEF Falling
  <1> QED BY <1>6

\* The order by confidence has every entry at its place.
LEMMA ByScoreRanks ==
  ASSUME NEW boxes, Rated(boxes)
  PROVE  LET order == ByScore(boxes)
             n == Len(boxes)
         IN  /\ n \in Nat /\ DOMAIN boxes = 1..n
             /\ order \in [1..n -> 1..n] /\ order \in Seq(1..n) /\ Len(order) = n
             /\ \A a, b \in 1..n : order[a] = order[b] => a = b
             /\ \A i \in 1..n : \E k \in 1..n : order[k] = i
             /\ \A a, b \in 1..n : a < b => Ahead(boxes, order[a], order[b])
             /\ \A k \in 1..n : Rank(boxes, order[k]) = k
  <1> DEFINE n == Len(boxes)
             D == 1..n
             order == ByScore(boxes)
             Sorted(f) == \A a, b \in DOMAIN f : a < b => Ahead(boxes, f[a], f[b])
  <1>0. n \in Nat /\ DOMAIN boxes = D /\ IsFiniteSet(D) /\ Cardinality(D) = n
    <2>1. n \in Nat /\ DOMAIN boxes = D
      BY DEF Rated
    <2> QED BY <2>1, FirstNumbers
  <1>1. SetToSeqs(DOMAIN boxes) = {f \in [D -> D] : \A i, j \in D : i # j => f[i] # f[j]}
    BY <1>0 DEF SetToSeqs
  <1>2. \E f \in SetToSeqs(DOMAIN boxes) : Sorted(f)
    <2>1. PICK f : Falling(boxes, f)
      BY FallingExists
    <2>2. f \in [D -> D] /\ \A a, b \in D : a < b => f[a] # f[b] /\ Ahead(boxes, f[a], f[b])
      BY <1>0, <2>1 DEF Falling
    <2>3. \A a, b \in D : a # b => a < b \/ b < a
      BY <1>0
    <2> HIDE DEF D
    <2> QED BY <1>1, <2>2, <2>3
  <1>3. order \in SetToSeqs(DOMAIN boxes) /\ Sorted(order)
    BY <1>2 DEF ByScore
  <1> HIDE DEF order
  <1>4. order \in [D -> D] /\ (\A i, j \in D : i # j => order[i] # order[j])
        /\ \A a, b \in D : a < b => Ahead(boxes, order[a], order[b])
    BY <1>1, <1>3
  <1>5. order \in Injection(D, D)
    BY <1>4 DEF Injection, IsInjective
  <1>6. \A i \in D : \E k \in D : order[k] = i
    <2>1. order \in Surjection(D, D)
      <3> HIDE DEF D
      <3> QED BY <1>0, <1>5, FS_Injection
    <2> QED BY <2>1 DEF Surjection
  <1>7. order \in Seq(1..n) /\ Len(order) = n
    BY <1>0, <1>4
  <1>8. ASSUME NEW k \in D PROVE Rank(boxes, order[k]) = k
    <2> DEFINE f == [m \in 1..(k - 1) |-> order[m]]
               B == Before(boxes, order[k])
    <2>0. k \in Nat /\ k >= 1 /\ k <= n
      BY <1>0
    <2>1. \A m \in 1..(k - 1) : m \in D /\ m < k
      BY <1>0
    <2>2. f \in Injection(1..(k - 1), B)
      <3>1. \A m \in 1..(k - 1) : order[m] \in B
        BY <1>0, <1>4, <2>1 DEF Before
      <3>2. \A a, b \in 1..(k - 1) : order[a] = order[b] => a = b
        BY <1>4, <2>1
      <3> HIDE DEF B, D
      <3> QED BY <3>1, <3>2 DEF Injection, IsInjective
    <2>3. f \in Surjection(1..(k - 1), B)
      <3>1. ASSUME NEW i \in B PROVE \E m \in 1..(k - 1) : order[m] = i
        <4>1. i \in D /\ Ahead(boxes, i, order[k])
          BY <1>0 DEF Before
        <4>2. PICK m \in D : order[m] = i
          BY <1>6, <4>1
        <4>3. ~(k < m) /\ m # k
          BY <1>0, <1>4, <4>1, <4>2, AheadIsAnOrder
        <4>4. m \in 1..(k - 1)
          BY <1>0, <2>0, <4>3
        <4> QED BY <4>2, <4>4
      <3>2. f \in [1..(k - 1) -> B]
        BY <2>2 DEF Injection
      <3> HIDE DEF B
      <3> QED BY <3>1, <3>2 DEF Surjection
    <2>4. IsFiniteSet(1..(k - 1)) /\ Cardinality(1..(k - 1)) = k - 1
      BY <2>0, FirstNumbers
    <2> HIDE DEF f, B
    <2>5. Cardinality(B) = k - 1
      BY <2>2, <2>3, <2>4, FS_Surjection
    <2> QED BY <2>0, <2>5 DEF Rank, B
  <1> HIDE DEF n
  <1> QED BY <1>0, <1>4, <1>6, <1>7, <1>8 DEF n, order

-----------------------------------------------------------------------------
(* Who owns a pixel                                                        *)

\* What is painted on the pixels of X, and by what.
Canvases(X) == [claimed : SUBSET X, area : [Label -> SUBSET X]]
InstanceOf(X) == [label : Label \cup {None}, score : Int, pixels : {None} \cup SUBSET X]
Covers(inst, x) == inst.label # None /\ inst.pixels # None /\ x \in inst.pixels

\* An instance claims what it covers, and owns of it what was not claimed.
LEMMA PaintTells ==
  ASSUME NEW X, NEW s \in Canvases(X), NEW inst \in InstanceOf(X)
  PROVE  LET t == Paint(s, inst)
         IN  /\ t \in Canvases(X)
             /\ \A x \in X : x \in t.claimed <=> x \in s.claimed \/ Covers(inst, x)
             /\ \A x \in X, l \in Label :
                  x \in t.area[l] <=> \/ x \in s.area[l]
                                      \/ /\ Covers(inst, x) /\ x \notin s.claimed
                                         /\ inst.label = l
  <1> DEFINE t == Paint(s, inst)
             l0 == inst.label
             P == inst.pixels
  <1>1. s.claimed \in SUBSET X /\ s.area \in [Label -> SUBSET X]
    BY DEF Canvases
  <1>2. l0 \in Label \cup {None} /\ P \in {None} \cup SUBSET X
    BY DEF InstanceOf
  <1>3. CASE l0 = None \/ P = None \/ P \subseteq s.claimed
    <2>1. t = s
      BY <1>3 DEF Paint
    <2>2. \A x \in X : Covers(inst, x) => x \in s.claimed
      BY <1>3 DEF Covers
    <2> HIDE DEF t
    <2> QED BY <2>1, <2>2 DEF t
  <1>4. CASE ~(l0 = None \/ P = None \/ P \subseteq s.claimed)
    <2>0. l0 \in Label /\ P \in SUBSET X
      BY <1>2, <1>4
    <2> DEFINE claimed == s.claimed \cup P
               area == [s.area EXCEPT ![l0] = @ \cup (P \ s.claimed)]
    <2>1. t = [claimed |-> claimed, area |-> area]
      BY <1>4 DEF Paint
    <2>2. claimed \in SUBSET X /\ area \in [Label -> SUBSET X]
      BY <1>1, <2>0
    <2>3. \A x \in X : Covers(inst, x) <=> x \in P
      BY <1>4 DEF Covers
    <2>4. \A l \in Label : area[l] = IF l = l0 THEN s.area[l] \cup (P \ s.claimed) ELSE s.area[l]
      BY <1>1
    <2> HIDE DEF t, area
    <2>5. t \in Canvases(X)
      BY <2>1, <2>2 DEF Canvases
    <2>6. t.claimed = claimed /\ t.area = area
      BY <2>1
    <2>7. \A x \in X : x \in t.claimed <=> x \in s.claimed \/ Covers(inst, x)
      BY <2>3, <2>6
    <2>8. \A x \in X, l \in Label :
            x \in t.area[l] <=> \/ x \in s.area[l]
                                \/ Covers(inst, x) /\ x \notin s.claimed /\ l0 = l
      BY <2>3, <2>4, <2>6
    <2> QED BY <2>5, <2>7, <2>8 DEF t
  <1> QED BY <1>3, <1>4

\* The canvas after all instances.
PaintedAll(instances) ==
  FoldLeft(LAMBDA s, i : Paint(s, instances[i]), Unpainted, ByScore(instances))

\* The canvases after each of the instances, by falling confidence.
PaintedAfter(instances, X, h) ==
  /\ h \in [0..Len(ByScore(instances)) -> Canvases(X)]
  /\ h[0] = Unpainted /\ h[Len(ByScore(instances))] = PaintedAll(instances)
  /\ \A k \in 1..Len(ByScore(instances)) : h[k] = Paint(h[k - 1], instances[ByScore(instances)[k]])

\* There are such intermediate results.
LEMMA PaintingUnrolls ==
  ASSUME NEW X, NEW instances \in Seq(InstanceOf(X))
  PROVE  \E h : PaintedAfter(instances, X, h)
  <1> DEFINE n == Len(ByScore(instances))
             A == Canvases(X)
             More(k, acc) == Paint(acc, instances[ByScore(instances)[k]])
             step == [k \in 1..n |-> [acc \in A |-> More(k, acc)]]
  <1>0. Rated(instances)
    <2>1. \A inst \in InstanceOf(X) : inst.score \in Int
      BY DEF InstanceOf
    <2>2. \A i \in DOMAIN instances : instances[i] \in InstanceOf(X)
      OBVIOUS
    <2> QED BY <2>1, <2>2 DEF Rated
  <1>1. n \in Nat /\ DOMAIN ByScore(instances) = 1..n /\ Unpainted \in A
    <2>1. n \in Nat /\ DOMAIN ByScore(instances) = 1..n
      <3>1. ByScore(instances) \in Seq(1..Len(instances))
        BY <1>0, ByScoreRanks
      <3> HIDE DEF A
      <3> QED BY <3>1
    <2>2. Unpainted \in A
      BY DEF Unpainted, Canvases
    <2> QED BY <2>1, <2>2
  <1>2. \A k \in 1..n : \A acc \in A : More(k, acc) \in A
    <2> SUFFICES ASSUME NEW k \in 1..n, NEW acc \in A PROVE More(k, acc) \in A
      OBVIOUS
    <2>1. ByScore(instances)[k] \in DOMAIN instances
      <3>1. /\ ByScore(instances) \in [1..Len(instances) -> 1..Len(instances)]
            /\ DOMAIN instances = 1..Len(instances) /\ Len(ByScore(instances)) = Len(instances)
        BY <1>0, ByScoreRanks
      <3> QED BY <3>1
    <2>2. instances[ByScore(instances)[k]] \in InstanceOf(X)
      <3> DEFINE i == ByScore(instances)[k]
      <3>1. i \in DOMAIN instances
        BY <2>1
      <3> HIDE DEF i
      <3>2. instances[i] \in InstanceOf(X)
        BY <3>1
      <3> QED BY <3>2 DEF i
    <2> QED BY <2>2, PaintTells
  <1>3. StepOf(n, A, Unpainted, step)
    <2> HIDE DEF n, A, More
    <2> QED BY <1>1, <1>2 DEF StepOf
  <1>4. PICK it : FoldOf(n, A, Unpainted, step, it)
    <2> HIDE DEF n, A, step
    <2> QED BY <1>3, FoldExists
  <1>5. \A d \in SUBSET (1..n) : d # {} => Max(d) \in 1..n
    BY <1>1, MaxOfPart
  <1>6. it = [d \in SUBSET DOMAIN ByScore(instances) |-> IF d = {} THEN Unpainted
                                     ELSE More(Max(d), it[d \ {Max(d)}])]
    <2>1. \A d \in SUBSET (1..n) : d # {} =>
            step[Max(d)][it[d \ {Max(d)}]] = More(Max(d), it[d \ {Max(d)}])
      <3> HIDE DEF A, More
      <3> QED BY <1>4, <1>5 DEF FoldOf
    <2> HIDE DEF step, More, A, n
    <2> QED BY <1>1, <1>4, <2>1 DEF FoldOf
  <1> HIDE DEF step
  <1>7. PICK j : /\ j = [d \in SUBSET DOMAIN ByScore(instances) |-> IF d = {} THEN Unpainted
                                     ELSE More(Max(d), j[d \ {Max(d)}])]
                 /\ PaintedAll(instances) = j[DOMAIN ByScore(instances)]
    BY <1>6 DEF PaintedAll, FoldLeft, MapThenFoldSet
  <1> HIDE DEF More
  <1>8. FoldedAs(n, A, Unpainted, step, j)
    <2> SUFFICES ASSUME NEW d \in SUBSET (1..n), d # {}, j[d \ {Max(d)}] \in A
                 PROVE  j[d] = step[Max(d)][j[d \ {Max(d)}]]
      BY <1>1, <1>7 DEF FoldedAs
    <2>1. j[d] = More(Max(d), j[d \ {Max(d)}])
      BY <1>1, <1>7
    <2> HIDE DEF A
    <2> QED BY <1>5, <2>1 DEF step
  <1>9. PICK h : ResultsOf(n, A, Unpainted, step, h) /\ h[n] = j[1..n]
    <2> HIDE DEF n, A, step
    <2> QED BY <1>3, <1>8, FoldUnrolls
  <1>10. \A k \in 1..n : h[k] = More(k, h[k - 1])
    <2> SUFFICES ASSUME NEW k \in 1..n PROVE h[k] = More(k, h[k - 1])
      OBVIOUS
    <2>1. h[k] = step[k][h[k - 1]] /\ h[k - 1] \in A
      <3>1. k - 1 \in 0..n
        BY <1>1
      <3> HIDE DEF A, step
      <3> QED BY <3>1, <1>9 DEF ResultsOf
    <2> HIDE DEF A, n
    <2>2. \A acc \in A : step[k][acc] = More(k, acc)
      BY DEF step
    <2> HIDE DEF step
    <2> QED BY <2>1, <2>2
  <1>11. PaintedAfter(instances, X, h)
    BY <1>1, <1>7, <1>9, <1>10 DEF ResultsOf, More, PaintedAfter
  <1> QED BY <1>11

\* Of the instances, by falling confidence, the m-th is the first to cover x.
FirstToCover(instances, order, x, m) ==
  /\ Covers(instances[order[m]], x)
  /\ \A e \in 1..(m - 1) : ~Covers(instances[order[e]], x)

\* A pixel is in the area of the label of the first that covers it.
LEMMA PaintedByTheFirst ==
  ASSUME NEW X, NEW instances \in Seq(InstanceOf(X)), NEW x \in X, NEW l \in Label
  PROVE  LET order == ByScore(instances)
         IN  x \in Semantic(instances)[l]
               <=> \E m \in 1..Len(instances) : /\ FirstToCover(instances, order, x, m)
                                               /\ instances[order[m]].label = l
  <1> DEFINE n == Len(instances)
             order == ByScore(instances)
             inst(m) == instances[order[m]]
             cover(m) == Covers(inst(m), x)
             Good(h, k) ==
               /\ x \in h[k].claimed <=> \E m \in 1..k : cover(m)
               /\ x \in h[k].area[l] <=> \E m \in 1..k :
                     /\ cover(m) /\ \A e \in 1..(m - 1) : ~cover(e)
                     /\ inst(m).label = l
  <1>0. Rated(instances)
    <2>1. \A i \in InstanceOf(X) : i.score \in Int
      BY DEF InstanceOf
    <2>2. \A i \in DOMAIN instances : instances[i] \in InstanceOf(X)
      OBVIOUS
    <2> QED BY <2>1, <2>2 DEF Rated
  <1>1. /\ n \in Nat /\ DOMAIN instances = 1..n /\ Len(order) = n
        /\ order \in [1..n -> 1..n]
    BY <1>0, ByScoreRanks
  <1>2. \A m \in 1..n : inst(m) \in InstanceOf(X)
    <2> SUFFICES ASSUME NEW m \in 1..n PROVE inst(m) \in InstanceOf(X)
      OBVIOUS
    <2> DEFINE i == order[m]
    <2>1. i \in DOMAIN instances
      BY <1>1
    <2> HIDE DEF i
    <2>2. instances[i] \in InstanceOf(X)
      BY <2>1
    <2> QED BY <2>2 DEF i
  <1>3. PICK h : PaintedAfter(instances, X, h)
    BY PaintingUnrolls
  <1>4. /\ h \in [0..n -> Canvases(X)] /\ h[0] = Unpainted /\ h[n] = PaintedAll(instances)
        /\ \A k \in 1..n : h[k] = Paint(h[k - 1], inst(k))
    BY <1>1, <1>3 DEF PaintedAfter
  <1> HIDE DEF inst
  <1> DEFINE P == {k \in 0..n : Good(h, k)}
  <1>5. 0 \in P
    <2>1. h[0].claimed = {} /\ h[0].area = [q \in Label |-> {}]
      BY <1>4 DEF Unpainted
    <2>2. x \notin h[0].claimed /\ x \notin h[0].area[l]
      BY <2>1
    <2>3. 0 \in 0..n /\ 1..0 = {}
      BY <1>1
    <2> HIDE DEF cover
    <2> QED BY <2>2, <2>3
  <1>6. ASSUME NEW k \in 1..n, k - 1 \in P PROVE k \in P
    <2>0. k \in 0..n /\ k - 1 \in 0..n /\ k \in Nat /\ k >= 1
      BY <1>1
    <2>1. h[k - 1] \in Canvases(X) /\ inst(k) \in InstanceOf(X)
      BY <1>2, <1>4, <2>0
    <2>2. /\ x \in h[k].claimed <=> x \in h[k - 1].claimed \/ cover(k)
          /\ x \in h[k].area[l] <=> \/ x \in h[k - 1].area[l]
                                    \/ cover(k) /\ x \notin h[k - 1].claimed /\ inst(k).label = l
      <3>1. h[k] = Paint(h[k - 1], inst(k))
        BY <1>4
      <3> QED BY <2>1, <3>1, PaintTells
    <2>3. Good(h, k - 1)
      BY <1>6
    <2> HIDE DEF cover
    <2>4. \A m : m \in 1..k <=> m \in 1..(k - 1) \/ m = k
      BY <2>0
    <2>5. x \in h[k].claimed <=> \E m \in 1..k : cover(m)
      BY <2>2, <2>3, <2>4
    <2>6. x \in h[k].area[l] <=> \E m \in 1..k :
            /\ cover(m) /\ (\A e \in 1..(m - 1) : ~cover(e)) /\ inst(m).label = l
      BY <2>2, <2>3, <2>4
    <2> QED BY <2>0, <2>5, <2>6
  <1>7. n \in P
    <2>1. \A k \in 0..n : k \in P
      <3> HIDE DEF P
      <3> QED BY <1>1, <1>5, <1>6, Steps
    <2> HIDE DEF P
    <2> QED BY <1>1, <2>1
  <1>8. x \in Semantic(instances)[l] <=> x \in h[n].area[l]
    BY <1>4 DEF Semantic, PaintedAll
  <1>9. x \in Semantic(instances)[l] <=> \E m \in 1..n :
            /\ cover(m) /\ (\A e \in 1..(m - 1) : ~cover(e)) /\ inst(m).label = l
    <2> HIDE DEF cover
    <2> QED BY <1>7, <1>8
  <1> QED BY <1>9 DEF inst, FirstToCover

\* What is reduced to areas: instances with pixels of an image.
MasksCase(c) == c.instances \in Seq(InstanceOf(c.pixels))

\* A pixel belongs to one class, that of the most confident instance that covers
\* it, whatever instances of whatever sizes there are.
THEOREM OwnerIsAlwaysMostConfident ==
  ASSUME Is("masks") => MasksCase(case)
  PROVE  OwnerIsMostConfident
  <1> DEFINE instances == case.instances
             X == case.pixels
             n == Len(instances)
             order == ByScore(instances)
             covering(x) == {i \in DOMAIN instances :
                               /\ instances[i].label # None
                               /\ instances[i].pixels # None
                               /\ x \in instances[i].pixels}
             ahead(i, j) == \/ instances[i].score > instances[j].score
                            \/ instances[i].score = instances[j].score /\ i <= j
             first(S) == CHOOSE i \in S : \A j \in S : ahead(i, j)
  <1> SUFFICES ASSUME Is("masks"), NEW l \in Label, NEW x \in X
               PROVE  x \in Semantic(instances)[l]
                        <=> covering(x) # {} /\ instances[first(covering(x))].label = l
    BY DEF OwnerIsMostConfident
  <1>0. instances \in Seq(InstanceOf(X)) /\ Rated(instances)
    <2>1. instances \in Seq(InstanceOf(X))
      BY DEF MasksCase
    <2>2. \A i \in InstanceOf(X) : i.score \in Int
      BY DEF InstanceOf
    <2> HIDE DEF instances, X
    <2>3. \A i \in DOMAIN instances : instances[i] \in InstanceOf(X)
      BY <2>1
    <2> QED BY <2>1, <2>2, <2>3 DEF Rated
  <1>1. \A i \in DOMAIN instances : i \in covering(x) <=> Covers(instances[i], x)
    BY DEF Covers
  <1>a. covering(x) \in SUBSET DOMAIN instances
    OBVIOUS
  <1> DEFINE S == covering(x)
  <1>b. x \in Semantic(instances)[l] <=> \E m \in 1..n :
            /\ FirstToCover(instances, order, x, m) /\ instances[order[m]].label = l
    BY <1>0, PaintedByTheFirst
  <1> HIDE DEF instances, X, S, ahead
  <1>2. /\ n \in Nat /\ DOMAIN instances = 1..n /\ order \in [1..n -> 1..n]
        /\ \A i \in 1..n : \E k \in 1..n : order[k] = i
        /\ \A a, b \in 1..n : a < b => Ahead(instances, order[a], order[b])
    BY <1>0, ByScoreRanks
  <1> HIDE DEF order, n
  <1>3. \A i, j \in 1..n : ahead(i, j) <=> i = j \/ Ahead(instances, i, j)
    <2>1. \A i \in 1..n : i \in Int /\ instances[i].score \in Int
      BY <1>0, <1>2 DEF Rated
    <2>2. \A a, b, i, j \in Int : (a > b \/ (a = b /\ i <= j))
                                    <=> (i = j /\ a = b) \/ (a > b \/ (a = b /\ i < j))
      OBVIOUS
    <2> QED BY <2>1, <2>2 DEF ahead, Ahead
  <1>4. ASSUME NEW m \in 1..n, FirstToCover(instances, order, x, m)
        PROVE  order[m] \in S /\ \A j \in S : ahead(order[m], j)
    <2>1. order[m] \in S
      BY <1>1, <1>2, <1>4 DEF FirstToCover, S
    <2>2. ASSUME NEW j \in S PROVE ahead(order[m], j)
      <3>1. j \in 1..n /\ Covers(instances[j], x)
        BY <1>1, <1>2, <1>a DEF S
      <3>2. PICK k \in 1..n : order[k] = j
        BY <1>2, <3>1
      <3>3. k \notin 1..(m - 1)
        BY <1>4, <3>1, <3>2 DEF FirstToCover
      <3>4. k = m \/ m < k
        BY <1>2, <3>3
      <3>5. order[m] = j \/ Ahead(instances, order[m], j)
        BY <1>2, <3>2, <3>4
      <3> QED BY <1>2, <1>3, <3>1, <3>5
    <2> QED BY <2>1, <2>2
  <1>5. ASSUME NEW i \in S, NEW j \in S, ahead(i, j), ahead(j, i) PROVE i = j
    <2>1. i \in 1..n /\ j \in 1..n
      BY <1>2, <1>a DEF S
    <2> QED BY <1>0, <1>2, <1>3, <1>5, <2>1, AheadIsAnOrder
  <1>6. ASSUME NEW m \in 1..n, FirstToCover(instances, order, x, m)
        PROVE  first(S) = order[m]
    <2>1. first(S) \in S /\ \A j \in S : ahead(first(S), j)
      BY <1>4, <1>6
    <2> HIDE DEF first
    <2> QED BY <1>4, <1>5, <1>6, <2>1
  <1>7. ASSUME S # {} PROVE \E m \in 1..n : FirstToCover(instances, order, x, m)
    <2> DEFINE K == {k \in 1..n : Covers(instances[order[k]], x)}
    <2>1. PICK i \in S : TRUE
      BY <1>7
    <2>2. K # {}
      BY <1>1, <1>2, <1>a DEF S
    <2>3. K \in SUBSET Nat
      BY <1>2
    <2>4. Min(K) \in K /\ \A y \in K : Min(K) <= y
      <3> HIDE DEF K
      <3> QED BY <2>2, <2>3, SmallestExists
    <2> DEFINE m == Min(K)
    <2>5. m \in 1..n /\ Covers(instances[order[m]], x)
      BY <2>4
    <2>6. \A e \in 1..(m - 1) : e \in 1..n /\ ~(m <= e)
      <3> HIDE DEF m
      <3> QED BY <1>2, <2>5
    <2>7. \A e \in 1..(m - 1) : ~Covers(instances[order[e]], x)
      BY <2>4, <2>6
    <2> HIDE DEF m
    <2> QED BY <2>5, <2>7 DEF FirstToCover
  <1>8. S = {} => ~ \E m \in 1..n : FirstToCover(instances, order, x, m)
    BY <1>4
  <1> HIDE DEF first
  <1>9. x \in Semantic(instances)[l] <=> S # {} /\ instances[first(S)].label = l
    BY <1>6, <1>7, <1>8, <1>b
  <1> QED BY <1>9 DEF S, first, ahead

-----------------------------------------------------------------------------
(* What greedy matching finds                                              *)

\* Boxes of any number, each with its overlap with each of the objects.
DetectionOf(boxes, truths, overlap) ==
  /\ Rated(boxes) /\ Len(overlap) = Len(boxes)
  /\ \E L : truths \in Seq(L)
  /\ overlap \in Seq([DOMAIN truths -> Nat])

\* Of the free objects the one of the highest overlap, the last of equal ones.
Free(truths, row, label, used) ==
  {j \in DOMAIN truths : truths[j] = label /\ row[j] > 0 /\ j \notin used}
Pick(row, free) ==
  LET best == Max({row[j] : j \in free})
  IN  Max({j \in free : row[j] = best})

\* It is the largest by overlap and place.
LEMMA PickTells ==
  ASSUME NEW t \in Nat, NEW row \in [1..t -> Nat], NEW free \in SUBSET (1..t), free # {}
  PROVE  /\ Pick(row, free) \in free
         /\ \A j \in free : \/ row[j] < row[Pick(row, free)]
                            \/ row[j] = row[Pick(row, free)] /\ j <= Pick(row, free)
  <1> DEFINE R == {row[j] : j \in free}
             best == Max(R)
             B == {j \in free : row[j] = best}
  <1>1. best \in R /\ \A y \in R : best >= y
    <2>1. IsFiniteSet(free)
      BY FirstNumbers, FS_Subset
    <2> DEFINE f == [j \in free |-> row[j]]
    <2>2. DOMAIN f = free /\ R = {f[j] : j \in free}
      OBVIOUS
    <2>3. R \in SUBSET Nat /\ R # {}
      OBVIOUS
    <2> HIDE DEF f, R
    <2>4. IsFiniteSet(R)
      BY <2>1, <2>2, FiniteImage
    <2> QED BY <2>3, <2>4, FiniteHasLargest
  <1> HIDE DEF best
  <1>2. B # {} /\ B \in SUBSET (1..t)
    BY <1>1
  <1>3. Max(B) \in B /\ \A y \in B : Max(B) >= y
    <2> HIDE DEF B
    <2> QED BY <1>2, MaxOfPart
  <1>4. Pick(row, free) = Max(B)
    BY DEF Pick, best
  <1> DEFINE p == Max(B)
  <1>5. p \in free /\ row[p] = best /\ p \in Nat
    <2>1. p \in B
      BY <1>3
    <2> HIDE DEF p
    <2> QED BY <2>1
  <1>6. ASSUME NEW j \in free
        PROVE  row[j] < row[p] \/ (row[j] = row[p] /\ j <= p)
    <2>1. row[j] \in R /\ row[j] \in Nat /\ j \in Nat
      OBVIOUS
    <2>2. best >= row[j] /\ best \in Nat
      BY <1>1, <2>1
    <2>3. row[j] = best => p >= j
      BY <1>3
    <2> HIDE DEF p, B, R
    <2> QED BY <1>5, <2>1, <2>2, <2>3
  <1> QED BY <1>4, <1>5, <1>6

\* The objects that are taken.
UsedBy(matched) == {m[2] : m \in matched}

\* It takes what is picked of the objects that are still free.
LEMMA MatchOneTells ==
  ASSUME NEW boxes, NEW truths, NEW overlap, NEW matched, NEW i
  PROVE  LET free == Free(truths, overlap[i], boxes[i].label, UsedBy(matched))
         IN  MatchOne(boxes, truths, overlap, matched, i)
               = IF free = {} THEN matched ELSE matched \cup {<<i, Pick(overlap[i], free)>>}
  <1> DEFINE free == Free(truths, overlap[i], boxes[i].label, UsedBy(matched))
  <1>1. \A j : (\A m \in matched : m[2] # j) <=> j \notin UsedBy(matched)
    BY DEF UsedBy
  <1>2. Matchable(boxes, truths, overlap, i, matched) = free
    BY <1>1 DEF Matchable, Free
  <1> HIDE DEF free
  <1> QED BY <1>2 DEF MatchOne, Pick, free

\* A pair is a relation.
LEMMA Pairs == \A S, T : \A x \in S : \A y \in T : {<<x, y>>} \in SUBSET (S \X T)
  OBVIOUS

\* What is matched after each of the boxes, by falling confidence.
MatchedAfter(boxes, truths, overlap, h) ==
  /\ h \in [0..Len(ByScore(boxes)) -> SUBSET ((DOMAIN boxes) \X (DOMAIN truths))]
  /\ h[0] = {} /\ h[Len(ByScore(boxes))] = Matched(boxes, truths, overlap)
  /\ \A k \in 1..Len(ByScore(boxes)) :
       h[k] = MatchOne(boxes, truths, overlap, h[k - 1], ByScore(boxes)[k])

\* There are such intermediate results.
LEMMA MatchingUnrolls ==
  ASSUME NEW boxes, NEW truths, NEW overlap, DetectionOf(boxes, truths, overlap)
  PROVE  \E h : MatchedAfter(boxes, truths, overlap, h)
  <1> DEFINE n == Len(ByScore(boxes))
             A == SUBSET ((DOMAIN boxes) \X (DOMAIN truths))
             More(k, acc) == MatchOne(boxes, truths, overlap, acc, ByScore(boxes)[k])
             step == [k \in 1..n |-> [acc \in A |-> More(k, acc)]]
  <1>0. /\ ByScore(boxes) \in Seq(1..Len(boxes)) /\ DOMAIN boxes = 1..Len(boxes)
        /\ Len(ByScore(boxes)) = Len(boxes)
        /\ \A k \in 1..n : ByScore(boxes)[k] \in DOMAIN boxes
    <2>1. /\ ByScore(boxes) \in Seq(1..Len(boxes)) /\ DOMAIN boxes = 1..Len(boxes)
          /\ Len(ByScore(boxes)) = Len(boxes)
          /\ ByScore(boxes) \in [1..Len(boxes) -> 1..Len(boxes)]
      BY ByScoreRanks DEF DetectionOf
    <2> QED BY <2>1
  <1>1. n \in Nat /\ DOMAIN ByScore(boxes) = 1..n /\ {} \in A
    <2> HIDE DEF A
    <2>1. n \in Nat /\ DOMAIN ByScore(boxes) = 1..n
      BY <1>0
    <2> QED BY <2>1 DEF A
  <1>2. \A k \in 1..n : \A acc \in A : More(k, acc) \in A
    <2> SUFFICES ASSUME NEW k \in 1..n, NEW acc \in A PROVE More(k, acc) \in A
      OBVIOUS
    <2> DEFINE i == ByScore(boxes)[k]
               free == Free(truths, overlap[i], boxes[i].label, UsedBy(acc))
    <2>1. i \in DOMAIN boxes
      BY <1>0
    <2>2. More(k, acc) = IF free = {} THEN acc ELSE acc \cup {<<i, Pick(overlap[i], free)>>}
      BY MatchOneTells
    <2>3. free \in SUBSET DOMAIN truths
      BY DEF Free
    <2>4. Len(truths) \in Nat /\ DOMAIN truths = 1..Len(truths)
      BY DEF DetectionOf
    <2>5. overlap[i] \in [1..Len(truths) -> Nat]
      <3>1. overlap \in Seq([DOMAIN truths -> Nat]) /\ DOMAIN overlap = DOMAIN boxes
        BY <1>0 DEF DetectionOf
      <3> HIDE DEF i
      <3> QED BY <2>1, <2>4, <3>1
    <2> HIDE DEF i, free, More
    <2>6. free # {} => Pick(overlap[i], free) \in DOMAIN truths
      BY <2>3, <2>4, <2>5, PickTells
    <2>7. CASE free = {}
      <3>1. More(k, acc) = acc
        BY <2>2, <2>7
      <3> QED BY <3>1
    <2>8. CASE free # {}
      <3> DEFINE p == Pick(overlap[i], free)
      <3>1. More(k, acc) = acc \cup {<<i, p>>} /\ p \in DOMAIN truths
        BY <2>2, <2>6, <2>8
      <3> HIDE DEF p
      <3>2. {<<i, p>>} \in A
        BY <2>1, <3>1, Pairs
      <3> QED BY <3>1, <3>2
    <2> QED BY <2>7, <2>8
  <1>3. StepOf(n, A, {}, step)
    <2> HIDE DEF n, A, More
    <2> QED BY <1>1, <1>2 DEF StepOf
  <1>4. PICK it : FoldOf(n, A, {}, step, it)
    <2> HIDE DEF n, A, step
    <2> QED BY <1>3, FoldExists
  <1>5. \A d \in SUBSET (1..n) : d # {} => Max(d) \in 1..n
    BY <1>1, MaxOfPart
  <1>6. it = [d \in SUBSET DOMAIN ByScore(boxes) |-> IF d = {} THEN {}
                                     ELSE More(Max(d), it[d \ {Max(d)}])]
    <2>1. \A d \in SUBSET (1..n) : d # {} =>
            step[Max(d)][it[d \ {Max(d)}]] = More(Max(d), it[d \ {Max(d)}])
      <3> HIDE DEF A, More
      <3> QED BY <1>4, <1>5 DEF FoldOf
    <2> HIDE DEF step, More, A, n
    <2> QED BY <1>1, <1>4, <2>1 DEF FoldOf
  <1> HIDE DEF step
  <1>7. PICK j : /\ j = [d \in SUBSET DOMAIN ByScore(boxes) |-> IF d = {} THEN {}
                                     ELSE More(Max(d), j[d \ {Max(d)}])]
                 /\ Matched(boxes, truths, overlap) = j[DOMAIN ByScore(boxes)]
    BY <1>6 DEF Matched, FoldLeft, MapThenFoldSet
  <1> HIDE DEF More
  <1>8. FoldedAs(n, A, {}, step, j)
    <2> SUFFICES ASSUME NEW d \in SUBSET (1..n), d # {}, j[d \ {Max(d)}] \in A
                 PROVE  j[d] = step[Max(d)][j[d \ {Max(d)}]]
      BY <1>1, <1>7 DEF FoldedAs
    <2>1. j[d] = More(Max(d), j[d \ {Max(d)}])
      BY <1>1, <1>7
    <2> HIDE DEF A
    <2> QED BY <1>5, <2>1 DEF step
  <1>9. PICK h : ResultsOf(n, A, {}, step, h) /\ h[n] = j[1..n]
    <2> HIDE DEF n, A, step
    <2> QED BY <1>3, <1>8, FoldUnrolls
  <1>10. \A k \in 1..n : h[k] = More(k, h[k - 1])
    <2> SUFFICES ASSUME NEW k \in 1..n PROVE h[k] = More(k, h[k - 1])
      OBVIOUS
    <2>1. h[k] = step[k][h[k - 1]] /\ h[k - 1] \in A
      <3>1. k - 1 \in 0..n
        BY <1>1
      <3> HIDE DEF A, step
      <3> QED BY <3>1, <1>9 DEF ResultsOf
    <2> HIDE DEF A, n
    <2>2. \A acc \in A : step[k][acc] = More(k, acc)
      BY DEF step
    <2> HIDE DEF step
    <2> QED BY <2>1, <2>2
  <1>11. MatchedAfter(boxes, truths, overlap, h)
    BY <1>1, <1>7, <1>9, <1>10 DEF ResultsOf, More, MatchedAfter
  <1> QED BY <1>11

\* The objects that are taken, one box after the other.
Take(truths, row, label, used) ==
  LET free == Free(truths, row, label, used)
  IN  IF free = {} THEN used ELSE used \cup {Pick(row, free)}
UsedAfter(boxes, truths, overlap, u) ==
  /\ u \in [0..Len(boxes) -> SUBSET DOMAIN truths] /\ u[0] = {}
  /\ \A k \in 1..Len(boxes) :
       LET i == ByScore(boxes)[k]
       IN  u[k] = Take(truths, overlap[i], boxes[i].label, u[k - 1])
OfLabel(truths, used, l) == {j \in used : truths[j] = l}

\* A relation that says of each object at most one box of its label.
Matching(boxes, truths, matched) ==
  /\ matched \in SUBSET ((DOMAIN boxes) \X (DOMAIN truths))
  /\ \A m \in matched : truths[m[2]] = boxes[m[1]].label
  /\ \A m, o \in matched : m[2] = o[2] => m = o

\* Its pairs of a label are as many as the objects taken of it.
LEMMA MatchingCounts ==
  ASSUME NEW boxes, NEW L, NEW truths \in Seq(L), NEW matched, Matching(boxes, truths, matched),
         NEW l
  PROVE  Cardinality({m \in matched : boxes[m[1]].label = l})
           = Cardinality(OfLabel(truths, UsedBy(matched), l))
  <1> DEFINE S == {m \in matched : boxes[m[1]].label = l}
             T == OfLabel(truths, UsedBy(matched), l)
             f == [m \in S |-> m[2]]
  <1>1. /\ \A m \in matched : truths[m[2]] = boxes[m[1]].label /\ m[2] \in DOMAIN truths
        /\ \A m, o \in matched : m[2] = o[2] => m = o
    BY DEF Matching
  <1>2. IsFiniteSet(T)
    <2>1. Len(truths) \in Nat /\ DOMAIN truths = 1..Len(truths)
      OBVIOUS
    <2>2. T \in SUBSET (1..Len(truths))
      BY <1>1, <2>1 DEF OfLabel, UsedBy
    <2> HIDE DEF T
    <2> QED BY <2>1, <2>2, FirstNumbers, FS_Subset
  <1>3. \A m \in S : m[2] \in T
    BY <1>1 DEF OfLabel, UsedBy
  <1>4. \A j \in T : \E m \in S : m[2] = j
    BY <1>1 DEF OfLabel, UsedBy
  <1>5. \A m, o \in S : m[2] = o[2] => m = o
    BY <1>1
  <1> HIDE DEF S, T
  <1>6. f \in Injection(S, T)
    BY <1>3, <1>5 DEF Injection, IsInjective
  <1>7. f \in Surjection(S, T)
    BY <1>3, <1>4 DEF Surjection
  <1> HIDE DEF f
  <1>8. Cardinality(S) = Cardinality(T)
    BY <1>2, <1>6, <1>7, FS_Injection
  <1> QED BY <1>8 DEF S, T

\* One more pair of a free object.
LEMMA MatchOneKeeps ==
  ASSUME NEW boxes, NEW truths, NEW overlap, NEW matched, NEW i,
         MatchOne(boxes, truths, overlap, matched, i)
           \in SUBSET ((DOMAIN boxes) \X (DOMAIN truths)),
         Matching(boxes, truths, matched),
         \A free \in SUBSET DOMAIN truths : free # {} => Pick(overlap[i], free) \in free
  PROVE  LET next == MatchOne(boxes, truths, overlap, matched, i)
         IN  /\ Matching(boxes, truths, next)
             /\ UsedBy(next) = Take(truths, overlap[i], boxes[i].label, UsedBy(matched))
  <1> DEFINE next == MatchOne(boxes, truths, overlap, matched, i)
             free == Free(truths, overlap[i], boxes[i].label, UsedBy(matched))
             p == Pick(overlap[i], free)
  <1>1. next = IF free = {} THEN matched ELSE matched \cup {<<i, p>>}
    BY MatchOneTells
  <1>2. free \in SUBSET DOMAIN truths /\ \A j \in free : /\ truths[j] = boxes[i].label
                                                         /\ j \notin UsedBy(matched)
    BY DEF Free
  <1>3. Take(truths, overlap[i], boxes[i].label, UsedBy(matched))
          = IF free = {} THEN UsedBy(matched) ELSE UsedBy(matched) \cup {p}
    BY DEF Take
  <1>4. CASE free = {}
    BY <1>1, <1>3, <1>4
  <1>5. CASE free # {}
    <2>1. p \in free
      BY <1>2, <1>5
    <2>2. next = matched \cup {<<i, p>>}
      BY <1>1, <1>5
    <2> HIDE DEF next, free, p
    <2>3. UsedBy(next) = UsedBy(matched) \cup {p}
      <3> DEFINE new == <<i, p>>
      <3>1. new[2] = p
        OBVIOUS
      <3> HIDE DEF new
      <3>2. next = matched \cup {new}
        BY <2>2 DEF new
      <3>3. {m[2] : m \in matched \cup {new}} = {m[2] : m \in matched} \cup {new[2]}
        OBVIOUS
      <3> QED BY <3>1, <3>2, <3>3 DEF UsedBy
    <2>4. truths[p] = boxes[i].label /\ \A m \in matched : m[2] # p
      BY <1>2, <2>1 DEF UsedBy
    <2>5. \A m \in next : truths[m[2]] = boxes[m[1]].label
      <3> SUFFICES ASSUME NEW m \in next PROVE truths[m[2]] = boxes[m[1]].label
        OBVIOUS
      <3>1. CASE m \in matched
        BY <3>1 DEF Matching
      <3>2. CASE m = <<i, p>>
        <4>1. m[1] = i /\ m[2] = p
          BY <3>2
        <4> QED BY <2>4, <4>1
      <3> QED BY <2>2, <3>1, <3>2
    <2>6. \A m, o \in next : m[2] = o[2] => m = o
      <3> SUFFICES ASSUME NEW m \in next, NEW o \in next, m[2] = o[2] PROVE m = o
        OBVIOUS
      <3>1. \A q \in next : q \in matched \/ (q = <<i, p>> /\ q[2] = p)
        BY <2>2
      <3>2. CASE m \in matched /\ o \in matched
        BY <3>2 DEF Matching
      <3> QED BY <2>4, <3>1, <3>2
    <2>7. Matching(boxes, truths, next)
      BY <2>5, <2>6 DEF Matching, next
    <2> QED BY <1>3, <1>5, <2>3, <2>7 DEF next, free, p
  <1> QED BY <1>4, <1>5

\* The order, the objects and the overlaps of a case.
LEMMA DetectionTells ==
  ASSUME NEW boxes, NEW truths, NEW overlap, DetectionOf(boxes, truths, overlap)
  PROVE  /\ Len(boxes) \in Nat /\ DOMAIN boxes = 1..Len(boxes)
         /\ ByScore(boxes) \in [1..Len(boxes) -> 1..Len(boxes)]
         /\ Len(ByScore(boxes)) = Len(boxes)
         /\ Len(truths) \in Nat /\ DOMAIN truths = 1..Len(truths)
         /\ \A i \in 1..Len(boxes) : overlap[i] \in [1..Len(truths) -> Nat]
         /\ \A i \in 1..Len(boxes) : \A free \in SUBSET DOMAIN truths :
              free # {} => Pick(overlap[i], free) \in free
  <1>1. /\ Len(boxes) \in Nat /\ DOMAIN boxes = 1..Len(boxes)
        /\ ByScore(boxes) \in [1..Len(boxes) -> 1..Len(boxes)]
        /\ Len(ByScore(boxes)) = Len(boxes)
    BY ByScoreRanks DEF DetectionOf
  <1>2. Len(truths) \in Nat /\ DOMAIN truths = 1..Len(truths)
    BY DEF DetectionOf
  <1>3. \A i \in 1..Len(boxes) : overlap[i] \in [1..Len(truths) -> Nat]
    <2>1. overlap \in Seq([DOMAIN truths -> Nat]) /\ DOMAIN overlap = 1..Len(boxes)
      BY <1>1 DEF DetectionOf
    <2> QED BY <1>2, <2>1
  <1>4. \A i \in 1..Len(boxes) : \A free \in SUBSET DOMAIN truths :
          free # {} => Pick(overlap[i], free) \in free
    BY <1>2, <1>3, PickTells
  <1> QED BY <1>1, <1>2, <1>3, <1>4

\* What is found of a label is what was taken of it in the end.
LEMMA FoundInTurn ==
  ASSUME NEW boxes, NEW truths, NEW overlap, DetectionOf(boxes, truths, overlap)
  PROVE  \E u : /\ UsedAfter(boxes, truths, overlap, u)
                /\ \A l : TruePositives(boxes, truths, overlap, l)
                            = Cardinality(OfLabel(truths, u[Len(boxes)], l))
  <1> DEFINE n == Len(boxes)
             order == ByScore(boxes)
  <1>1. /\ n \in Nat /\ DOMAIN boxes = 1..n /\ order \in [1..n -> 1..n] /\ Len(order) = n
        /\ \A i \in 1..n : \A free \in SUBSET DOMAIN truths :
             free # {} => Pick(overlap[i], free) \in free
    BY DetectionTells
  <1>2. PICK h : MatchedAfter(boxes, truths, overlap, h)
    BY MatchingUnrolls
  <1>3. /\ h \in [0..n -> SUBSET ((DOMAIN boxes) \X (DOMAIN truths))]
        /\ h[0] = {} /\ h[n] = Matched(boxes, truths, overlap)
        /\ \A k \in 1..n : h[k] = MatchOne(boxes, truths, overlap, h[k - 1], order[k])
    BY <1>1, <1>2 DEF MatchedAfter
  <1> DEFINE u == [k \in 0..n |-> UsedBy(h[k])]
             P == {k \in 0..n : Matching(boxes, truths, h[k])}
  <1> HIDE DEF order
  <1>4. 0 \in P
    <2>1. h[0] = {} /\ h[0] \in SUBSET ((DOMAIN boxes) \X (DOMAIN truths))
      BY <1>1, <1>3
    <2> QED BY <1>1, <2>1 DEF Matching
  <1>5. ASSUME NEW k \in 1..n, k - 1 \in P
        PROVE  /\ k \in P
               /\ UsedBy(h[k]) = Take(truths, overlap[order[k]], boxes[order[k]].label,
                                      UsedBy(h[k - 1]))
    <2>1. k \in 0..n /\ order[k] \in 1..n
      BY <1>1
    <2>2. h[k] = MatchOne(boxes, truths, overlap, h[k - 1], order[k])
      BY <1>3
    <2>3. h[k] \in SUBSET ((DOMAIN boxes) \X (DOMAIN truths))
      BY <1>3, <2>1
    <2>4. Matching(boxes, truths, h[k - 1])
      BY <1>5
    <2>5. \A free \in SUBSET DOMAIN truths :
            free # {} => Pick(overlap[order[k]], free) \in free
      BY <1>1, <2>1
    <2>6. /\ Matching(boxes, truths, h[k])
          /\ UsedBy(h[k]) = Take(truths, overlap[order[k]], boxes[order[k]].label,
                                 UsedBy(h[k - 1]))
      BY <2>2, <2>3, <2>4, <2>5, MatchOneKeeps
    <2> QED BY <2>1, <2>6
  <1>6. \A k \in 0..n : k \in P
    <2> HIDE DEF P
    <2> QED BY <1>1, <1>4, <1>5, Steps
  <1>7. UsedAfter(boxes, truths, overlap, u)
    <2>1. \A k \in 0..n : UsedBy(h[k]) \in SUBSET DOMAIN truths
      BY <1>3 DEF UsedBy
    <2>2. u \in [0..n -> SUBSET DOMAIN truths]
      BY <2>1
    <2>3. u[0] = {}
      BY <1>1, <1>3 DEF UsedBy
    <2>4. ASSUME NEW k \in 1..n
          PROVE  u[k] = Take(truths, overlap[order[k]], boxes[order[k]].label, u[k - 1])
      <3>1. k \in 0..n /\ k - 1 \in 0..n
        BY <1>1
      <3>2. k - 1 \in P
        BY <1>6, <3>1
      <3>3. u[k] = UsedBy(h[k]) /\ u[k - 1] = UsedBy(h[k - 1])
        BY <3>1
      <3> HIDE DEF u, P
      <3> QED BY <1>5, <3>2, <3>3
    <2> HIDE DEF u
    <2> QED BY <2>2, <2>3, <2>4 DEF UsedAfter, order
  <1>8. ASSUME NEW l
        PROVE  TruePositives(boxes, truths, overlap, l) = Cardinality(OfLabel(truths, u[n], l))
    <2>1. n \in 0..n
      BY <1>1
    <2>2. u[n] = UsedBy(h[n]) /\ Matching(boxes, truths, h[n])
      BY <1>6, <2>1
    <2>3. TruePositives(boxes, truths, overlap, l)
            = Cardinality({m \in h[n] : boxes[m[1]].label = l})
      BY <1>3 DEF TruePositives
    <2> HIDE DEF u
    <2>4. PICK L : truths \in Seq(L)
      BY DEF DetectionOf
    <2> QED BY <2>2, <2>3, <2>4, MatchingCounts
  <1> HIDE DEF u
  <1> QED BY <1>7, <1>8

\* used lacks at most one of the objects of more.
Behind(used, more) == used \subseteq more /\ \E d : more \ used \subseteq {d}

\* A box takes at most one object more.
LEMMA TakeOne ==
  ASSUME NEW truths, NEW row, NEW label, NEW used
  PROVE  Behind(used, Take(truths, row, label, used))
  <1> DEFINE free == Free(truths, row, label, used)
             p == Pick(row, free)
  <1>1. Take(truths, row, label, used) = IF free = {} THEN used ELSE used \cup {p}
    BY DEF Take
  <1> HIDE DEF free, p
  <1> QED BY <1>1 DEF Behind

\* Who is behind by an object may take it instead of another, and is then behind
\* by that one.
LEMMA TakeBehind ==
  ASSUME NEW t \in Nat, NEW truths, DOMAIN truths = 1..t, NEW row \in [1..t -> Nat], NEW label,
         NEW used, NEW more, Behind(used, more)
  PROVE  Behind(Take(truths, row, label, used), Take(truths, row, label, more))
  <1> DEFINE fv == Free(truths, row, label, used)
             fu == Free(truths, row, label, more)
             p == Pick(row, fv)
             r == Pick(row, fu)
             V == Take(truths, row, label, used)
             U == Take(truths, row, label, more)
  <1>1. PICK d : more \ used \subseteq {d}
    BY DEF Behind
  <1>2. used \subseteq more
    BY DEF Behind
  <1>3. fv \in SUBSET (1..t) /\ fu \in SUBSET fv /\ \A j \in fv : j \notin used
    BY <1>2 DEF Free
  <1>4. \A j \in fv : j \notin fu => j \in more
    BY DEF Free
  <1>5. /\ V = IF fv = {} THEN used ELSE used \cup {p}
        /\ U = IF fu = {} THEN more ELSE more \cup {r}
    BY DEF Take
  <1>6. fv # {} => /\ p \in fv
                   /\ \A j \in fv : row[j] < row[p] \/ (row[j] = row[p] /\ j <= p)
    <2> HIDE DEF fv
    <2> QED BY <1>3, PickTells
  <1>7. fu # {} => /\ r \in fu
                   /\ \A j \in fu : row[j] < row[r] \/ (row[j] = row[r] /\ j <= r)
    <2>1. fu \in SUBSET (1..t)
      BY <1>3
    <2> HIDE DEF fu
    <2> QED BY <2>1, PickTells
  <1> HIDE DEF fv, fu, p, r, V, U
  <1>8. CASE fv = {}
    BY <1>1, <1>2, <1>3, <1>5, <1>8 DEF Behind, V, U
  <1>9. CASE fv # {} /\ p \in fu
    <2>1. r \in fv /\ r \in fu
      BY <1>3, <1>7, <1>9
    <2>2. p \in Nat /\ r \in Nat /\ row[p] \in Nat /\ row[r] \in Nat
      BY <1>3, <1>9, <2>1
    <2>3. row[r] < row[p] \/ (row[r] = row[p] /\ r <= p)
      BY <1>6, <1>9, <2>1
    <2>4. row[p] < row[r] \/ (row[p] = row[r] /\ p <= r)
      BY <1>7, <1>9
    <2>5. p = r
      BY <2>2, <2>3, <2>4
    <2>6. V = used \cup {p} /\ U = more \cup {p}
      BY <1>5, <1>9, <2>5
    <2>7. V \subseteq U /\ U \ V \subseteq {d}
      BY <1>1, <1>2, <2>6
    <2> QED BY <2>7 DEF Behind, V, U
  <1>10. CASE fv # {} /\ p \notin fu
    <2>1. p \in more /\ p \notin used /\ V = used \cup {p}
      BY <1>3, <1>4, <1>5, <1>6, <1>10
    <2>2. V = more
      BY <1>1, <1>2, <2>1
    <2>3. V \subseteq U /\ U \ V \subseteq {r}
      BY <1>5, <2>2
    <2> QED BY <2>3 DEF Behind, V, U
  <1> QED BY <1>8, <1>9, <1>10

\* A list without an entry is a list of one less.
LEMMA WithoutIsAList ==
  ASSUME NEW X, NEW s \in Seq(X), NEW i \in DOMAIN s
  PROVE  Without(s, i) \in Seq(X) /\ Len(Without(s, i)) = Len(s) - 1
  <1>1. Without(s, i) \in Seq(X)
    BY DEF Without
  <1>2. i \in 1..Len(s) /\ Len(s) \in Nat
    OBVIOUS
  <1>3. DOMAIN Without(s, i) = 1..(Len(s) - 1)
    BY WithoutOne
  <1> DEFINE w == Without(s, i)
  <1> HIDE DEF w
  <1>4. Len(w) \in Nat /\ DOMAIN w = 1..Len(w)
    BY <1>1 DEF w
  <1> QED BY <1>1, <1>2, <1>3, <1>4 DEF w

\* Where an entry of a list without its p-th entry was in the list.
Was(i, p) == IF i < p THEN i ELSE i + 1

\* Without a box the others keep their order.
LEMMA OrderOfFewer ==
  ASSUME NEW X, NEW boxes \in Seq(X), Rated(boxes),
         NEW q \in 1..Len(boxes), NEW p, p = ByScore(boxes)[q]
  PROVE  LET fewer == Without(boxes, p)
         IN  /\ p \in DOMAIN boxes /\ Rated(fewer) /\ Len(fewer) = Len(boxes) - 1
             /\ \A k \in 1..(Len(boxes) - 1) :
                  /\ ByScore(fewer)[k] \in 1..(Len(boxes) - 1)
                  /\ Was(ByScore(fewer)[k], p)
                       = ByScore(boxes)[IF k < q THEN k ELSE k + 1]
  <1> DEFINE n == Len(boxes)
             fewer == Without(boxes, p)
             order == ByScore(boxes)
             rest == ByScore(fewer)
  <1>1. /\ n \in Nat /\ DOMAIN boxes = 1..n
        /\ order \in [1..n -> 1..n]
        /\ \A k \in 1..n : Rank(boxes, order[k]) = k
    BY ByScoreRanks
  <1>2. p \in 1..n /\ Rank(boxes, p) = q
    BY <1>1
  <1> HIDE DEF order
  <1>3. /\ fewer \in Seq(X) /\ DOMAIN fewer = 1..(n - 1) /\ Len(fewer) = n - 1
        /\ \A i \in 1..(n - 1) : /\ Was(i, p) \in 1..n /\ Was(i, p) # p
                                 /\ fewer[i] = boxes[Was(i, p)]
    <2>1. /\ DOMAIN fewer = 1..(n - 1)
          /\ \A k \in 1..(n - 1) : /\ k < p => k \in DOMAIN boxes /\ fewer[k] = boxes[k]
                                   /\ k >= p => k + 1 \in DOMAIN boxes /\ fewer[k] = boxes[k + 1]
      BY <1>1, <1>2, WithoutOne
    <2>2. fewer \in Seq(X) /\ Len(fewer) = n - 1
      BY <1>1, <1>2, WithoutIsAList
    <2> HIDE DEF fewer
    <2>3. \A i \in 1..(n - 1) : /\ Was(i, p) \in 1..n /\ Was(i, p) # p
                                /\ fewer[i] = boxes[Was(i, p)]
      BY <1>1, <1>2, <2>1 DEF Was
    <2> QED BY <2>1, <2>2, <2>3
  <1> HIDE DEF fewer
  <1>4. Rated(fewer)
    <2>1. \A i \in DOMAIN fewer : fewer[i].score \in Int
      BY <1>1, <1>3 DEF Rated
    <2> QED BY <1>3, <2>1 DEF Rated
  <1>5. /\ \A i, j \in 1..(n - 1) : /\ Was(i, p) = Was(j, p) => i = j
                                    /\ Was(i, p) < Was(j, p) <=> i < j
        /\ \A m \in 1..n : m # p => \E i \in 1..(n - 1) : Was(i, p) = m
    <2>1. \A i, j \in 1..(n - 1) : /\ Was(i, p) = Was(j, p) => i = j
                                   /\ Was(i, p) < Was(j, p) <=> i < j
      BY <1>1, <1>2 DEF Was
    <2>2. ASSUME NEW m \in 1..n, m # p PROVE \E i \in 1..(n - 1) : Was(i, p) = m
      <3>1. CASE m < p
        BY <1>1, <1>2, <3>1 DEF Was
      <3>2. CASE m > p
        <4>1. m - 1 \in 1..(n - 1) /\ Was(m - 1, p) = m
          BY <1>1, <1>2, <3>2 DEF Was
        <4> QED BY <4>1
      <3> QED BY <1>1, <1>2, <2>2, <3>1, <3>2
    <2> QED BY <2>1, <2>2
  <1>6. \A i, j \in 1..(n - 1) : Ahead(fewer, i, j) <=> Ahead(boxes, Was(i, p), Was(j, p))
    BY <1>3, <1>5 DEF Ahead
  <1>7. ASSUME NEW i \in 1..(n - 1)
        PROVE  LET r == Rank(boxes, Was(i, p))
               IN  Rank(fewer, i) = r - (IF q < r THEN 1 ELSE 0)
    <2> DEFINE B == Before(fewer, i)
               C == Before(boxes, Was(i, p))
               f == [j \in B |-> Was(j, p)]
    <2>1. p \in C <=> q < Rank(boxes, Was(i, p))
      <3>1. p \in C <=> Ahead(boxes, p, Was(i, p))
        BY <1>1, <1>2 DEF Before
      <3>2. Ahead(boxes, p, Was(i, p)) <=> Rank(boxes, p) < Rank(boxes, Was(i, p))
        BY <1>1, <1>2, <1>3, RanksDiffer
      <3> QED BY <1>2, <3>1, <3>2
    <2>a. IsFiniteSet(C)
      <3>1. C \in SUBSET (1..n)
        BY <1>1 DEF Before
      <3> HIDE DEF C
      <3> QED BY <1>1, <3>1, FirstNumbers, FS_Subset
    <2>2. \A j \in B : j \in 1..(n - 1) /\ Was(j, p) \in C \ {p}
      BY <1>1, <1>3, <1>6 DEF Before
    <2>3. \A m \in C \ {p} : \E j \in B : Was(j, p) = m
      <3> SUFFICES ASSUME NEW m \in C \ {p} PROVE \E j \in B : Was(j, p) = m
        OBVIOUS
      <3>1. m \in 1..n /\ m # p /\ Ahead(boxes, m, Was(i, p))
        BY <1>1 DEF Before
      <3>2. PICK j \in 1..(n - 1) : Was(j, p) = m
        BY <1>5, <3>1
      <3>3. j \in B
        BY <1>3, <1>6, <3>1, <3>2 DEF Before
      <3> QED BY <3>2, <3>3
    <2> HIDE DEF B, C
    <2>4. f \in Injection(B, C \ {p})
      BY <1>5, <2>2 DEF Injection, IsInjective
    <2>5. f \in Surjection(B, C \ {p})
      BY <2>2, <2>3 DEF Surjection
    <2> HIDE DEF f
    <2>6. /\ IsFiniteSet(C \ {p})
          /\ Cardinality(C \ {p}) = IF p \in C THEN Cardinality(C) - 1 ELSE Cardinality(C)
      BY <2>a, FS_RemoveElement
    <2>7. Cardinality(B) = Cardinality(C \ {p})
      BY <2>4, <2>5, <2>6, FS_Injection
    <2>8. Cardinality(C) \in Nat
      BY <2>a, FS_CardinalityType
    <2>9. Rank(fewer, i) = Cardinality(B) + 1 /\ Rank(boxes, Was(i, p)) = Cardinality(C) + 1
      BY DEF Rank, B, C
    <2> QED BY <2>1, <2>a, <2>6, <2>7, <2>8, <2>9
  <1>8. ASSUME NEW k \in 1..(n - 1)
        PROVE  /\ rest[k] \in 1..(n - 1)
               /\ Was(rest[k], p) = order[IF k < q THEN k ELSE k + 1]
    <2> DEFINE i == rest[k]
               r == Rank(boxes, Was(i, p))
    <2>1. /\ rest \in [1..(n - 1) -> 1..(n - 1)] /\ \A m \in 1..(n - 1) : Rank(fewer, rest[m]) = m
      BY <1>3, <1>4, ByScoreRanks
    <2>2. i \in 1..(n - 1) /\ Rank(fewer, i) = k
      BY <2>1
    <2> HIDE DEF i
    <2>3. Was(i, p) \in 1..n /\ Was(i, p) # p
      BY <1>3, <2>2
    <2>4. r \in 1..n
      BY <1>1, <2>3, RanksDiffer
    <2>5. r # q
      BY <1>1, <1>2, <2>3, RanksDiffer
    <2>6. order[r] = Was(i, p)
      <3>1. order[r] \in 1..n /\ Rank(boxes, order[r]) = r
        BY <1>1, <2>4
      <3> QED BY <1>1, <2>3, <3>1, RanksDiffer
    <2>7. k = r - (IF q < r THEN 1 ELSE 0)
      BY <1>7, <2>2
    <2> HIDE DEF r, n
    <2>8. r = IF k < q THEN k ELSE k + 1
      <3>1. q \in Nat /\ r \in Nat /\ k \in Nat
        BY <1>1, <2>4, <2>7 DEF n
      <3>2. CASE q < r
        BY <2>7, <3>1, <3>2
      <3>3. CASE r < q
        BY <2>7, <3>1, <3>3
      <3> QED BY <2>5, <3>1, <3>2, <3>3
    <2> QED BY <2>2, <2>6, <2>8 DEF i, n
  <1> QED BY <1>1, <1>2, <1>3, <1>4, <1>8 DEF fewer, order

\* Without a box no more objects are taken, and of no label more of them.
LEMMA FewerTake ==
  ASSUME NEW X, NEW boxes \in Seq(X), NEW truths, NEW overlap,
         DetectionOf(boxes, truths, overlap), NEW p \in DOMAIN boxes,
         NEW u, UsedAfter(boxes, truths, overlap, u),
         NEW v, UsedAfter(Without(boxes, p), truths, Without(overlap, p), v)
  PROVE  Behind(v[Len(boxes) - 1], u[Len(boxes)])
  <1> DEFINE n == Len(boxes)
             t == Len(truths)
             order == ByScore(boxes)
             fewer == Without(boxes, p)
             rest == ByScore(fewer)
             less == Without(overlap, p)
  <1>1. /\ n \in Nat /\ DOMAIN boxes = 1..n /\ order \in [1..n -> 1..n]
        /\ \A i \in 1..n : \E k \in 1..n : order[k] = i
        /\ t \in Nat /\ DOMAIN truths = 1..t
        /\ \A i \in 1..n : overlap[i] \in [1..t -> Nat]
    <2>1. Rated(boxes)
      BY DEF DetectionOf
    <2>2. /\ n \in Nat /\ DOMAIN boxes = 1..n /\ order \in [1..n -> 1..n]
          /\ \A i \in 1..n : \E k \in 1..n : order[k] = i
      BY <2>1, ByScoreRanks
    <2>3. /\ t \in Nat /\ DOMAIN truths = 1..t
          /\ \A i \in 1..n : overlap[i] \in [1..t -> Nat]
      BY DetectionTells
    <2> QED BY <2>2, <2>3
  <1>2. PICK q \in 1..n : order[q] = p
    BY <1>1
  <1>3. /\ Len(fewer) = n - 1
        /\ \A k \in 1..(n - 1) : /\ rest[k] \in 1..(n - 1)
                                 /\ Was(rest[k], p) = order[IF k < q THEN k ELSE k + 1]
    <2>1. Rated(boxes)
      BY DEF DetectionOf
    <2> QED BY <1>2, <2>1, OrderOfFewer
  <1>4. \A i \in 1..(n - 1) : /\ Was(i, p) \in 1..n
                              /\ fewer[i] = boxes[Was(i, p)]
                              /\ less[i] = overlap[Was(i, p)]
    <2>1. \A i \in 1..(n - 1) : /\ i < p => i \in DOMAIN boxes /\ fewer[i] = boxes[i]
                                /\ i >= p => i + 1 \in DOMAIN boxes /\ fewer[i] = boxes[i + 1]
      BY WithoutOne
    <2>2. overlap \in Seq([DOMAIN truths -> Nat]) /\ Len(overlap) = n
      BY DEF DetectionOf
    <2>3. p \in DOMAIN overlap
      BY <1>1, <2>2
    <2>4. \A i \in 1..(n - 1) : /\ i < p => less[i] = overlap[i]
                                /\ i >= p => less[i] = overlap[i + 1]
      BY <2>2, <2>3, WithoutOne
    <2> SUFFICES ASSUME NEW i \in 1..(n - 1)
                 PROVE  /\ Was(i, p) \in 1..n
                        /\ fewer[i] = boxes[Was(i, p)]
                        /\ less[i] = overlap[Was(i, p)]
      OBVIOUS
    <2> HIDE DEF fewer, less
    <2>5. p \in Nat /\ i \in Nat
      BY <1>1
    <2>6. CASE i < p
      <3>1. Was(i, p) = i
        BY <2>6 DEF Was
      <3> QED BY <1>1, <2>1, <2>4, <2>6, <3>1
    <2>7. CASE ~(i < p)
      <3>1. Was(i, p) = i + 1 /\ i >= p
        BY <2>5, <2>7 DEF Was
      <3> QED BY <1>1, <2>1, <2>4, <3>1
    <2> QED BY <2>6, <2>7
  <1> DEFINE One(i, used) == Take(truths, overlap[i], boxes[i].label, used)
             at(k) == order[IF k < q THEN k ELSE k + 1]
  <1>5. u[0] = {} /\ \A k \in 1..n : u[k] = One(order[k], u[k - 1])
    BY DEF UsedAfter
  <1>6. v[0] = {} /\ \A k \in 1..(n - 1) : v[k] = One(at(k), v[k - 1])
    <2>1. v[0] = {} /\ \A k \in 1..(n - 1) :
                         v[k] = Take(truths, less[rest[k]], fewer[rest[k]].label, v[k - 1])
      BY <1>3 DEF UsedAfter
    <2> HIDE DEF fewer, less, rest, order, n
    <2>2. \A k \in 1..(n - 1) : less[rest[k]] = overlap[at(k)] /\ fewer[rest[k]] = boxes[at(k)]
      BY <1>3, <1>4
    <2> QED BY <2>1, <2>2
  <1>7. \A i \in 1..n : \A used, more : Behind(used, more) => Behind(One(i, used), One(i, more))
    BY <1>1, TakeBehind
  <1>8. \A i \in 1..n : \A used : Behind(used, One(i, used))
    BY TakeOne
  <1> HIDE DEF One, order
  <1> DEFINE P == {k \in 0..(n - 1) : /\ k < q => v[k] = u[k]
                                      /\ k >= q - 1 => Behind(v[k], u[k + 1])}
  <1>9. n \in Nat /\ n >= 1 /\ q \in Nat /\ q >= 1 /\ q <= n /\ n - 1 \in Nat
    BY <1>1, <1>2
  <1>10. 0 \in P
    <2>1. v[0] = u[0]
      BY <1>5, <1>6
    <2>2. u[1] = One(order[1], u[0])
      <3>1. 1 \in 1..n /\ 1 - 1 = 0
        BY <1>1, <1>9
      <3> QED BY <1>5, <3>1
    <2>3. Behind(u[0], u[1])
      <3>1. order[1] \in 1..n
        <4>1. 1 \in 1..n
          BY <1>9
        <4> QED BY <1>1, <4>1
      <3> QED BY <1>8, <2>2, <3>1
    <2>4. 0 \in 0..(n - 1) /\ 0 + 1 = 1
      BY <1>9
    <2> QED BY <2>1, <2>3, <2>4
  <1>11. ASSUME NEW k \in 1..(n - 1), k - 1 \in P PROVE k \in P
    <2>b. k \in Nat /\ k \in 0..(n - 1) /\ k \in 1..n /\ k + 1 \in 1..n
          /\ (k + 1) - 1 = k /\ (k - 1) + 1 = k
      <3> HIDE DEF n
      <3> QED BY <1>9
    <2>c. order[k] \in 1..n /\ order[k + 1] \in 1..n
      BY <1>1, <2>b
    <2>0. k \in Nat /\ k \in 0..(n - 1) /\ k \in 1..n /\ k + 1 \in 1..n
          /\ (k + 1) - 1 = k /\ (k - 1) + 1 = k
          /\ order[k] \in 1..n /\ order[k + 1] \in 1..n
      BY <2>b, <2>c
    <2>1. u[k] = One(order[k], u[k - 1])
      BY <1>5, <2>0
    <2>a. u[k + 1] = One(order[k + 1], u[k])
      <3> DEFINE m == k + 1
      <3>1. m \in 1..n /\ m - 1 = k
        BY <2>0
      <3> HIDE DEF m
      <3>2. u[m] = One(order[m], u[k])
        BY <1>5, <3>1
      <3> QED BY <3>2 DEF m
    <2>2. v[k] = One(at(k), v[k - 1])
      BY <1>6
    <2>3. /\ k - 1 < q => v[k - 1] = u[k - 1]
          /\ k - 1 >= q - 1 => Behind(v[k - 1], u[k])
      BY <1>11, <2>0
    <2>4. CASE k < q
      <3>1. v[k] = One(order[k], u[k - 1])
        <4>1. at(k) = order[k] /\ k - 1 < q
          BY <1>9, <2>0, <2>4
        <4> HIDE DEF at
        <4> QED BY <2>2, <2>3, <4>1
      <3>2. v[k] = u[k]
        BY <2>1, <3>1
      <3>3. Behind(v[k], u[k + 1])
        BY <1>8, <2>0, <2>a, <3>2
      <3> QED BY <2>0, <3>2, <3>3
    <2>5. CASE k >= q
      <3>1. at(k) = order[k + 1] /\ k - 1 >= q - 1 /\ ~(k < q)
        BY <1>9, <2>0, <2>5
      <3> HIDE DEF at
      <3>2. Behind(v[k], u[k + 1])
        BY <1>7, <2>0, <2>a, <2>2, <2>3, <3>1
      <3> QED BY <2>0, <3>1, <3>2
    <2> QED BY <1>9, <2>0, <2>4, <2>5
  <1>12. \A k \in 0..(n - 1) : k \in P
    <2> HIDE DEF P, n
    <2>1. \A m \in Nat : (\A k \in 1..m : k - 1 \in P => k \in P) => \A k \in 0..m : k \in P
      BY <1>10, Steps
    <2> QED BY <1>9, <1>11, <2>1
  <1>13. n - 1 \in P
    <2>1. n - 1 \in 0..(n - 1)
      BY <1>9
    <2> HIDE DEF P
    <2> QED BY <1>12, <2>1
  <1>14. Behind(v[n - 1], u[(n - 1) + 1])
    BY <1>9, <1>13
  <1>15. (n - 1) + 1 = n
    BY <1>9
  <1> QED BY <1>14, <1>15

\* What recall is computed of: boxes with a label and a confidence, and their
\* overlaps with the objects of the image.
DetectionCase(c) ==
  \E L : /\ c.boxes \in Seq([label : L, score : Int])
         /\ c.truths \in Seq(L)
         /\ c.overlap \in Seq([DOMAIN c.truths -> Nat])
         /\ Len(c.overlap) = Len(c.boxes)

\* Recall counts an object at most once, and never because a box was left out,
\* whatever boxes, objects and overlaps an image has: without a box the objects
\* found are those found with it, or all of those but one.
THEOREM RecallIsNeverInflated ==
  ASSUME Is("detection") => DetectionCase(case)
  PROVE  RecallIsNotInflated
  <1> DEFINE boxes == case.boxes
             truths == case.truths
             overlap == case.overlap
             n == Len(boxes)
             found(l) == TruePositives(boxes, truths, overlap, l)
  <1> SUFFICES ASSUME Is("detection"), NEW l \in Label
               PROVE  /\ found(l) <= Cardinality({j \in DOMAIN truths : truths[j] = l})
                      /\ \A i \in DOMAIN boxes :
                           TruePositives(Without(boxes, i), truths, Without(overlap, i), l)
                             <= found(l)
    BY DEF RecallIsNotInflated
  <1>1. PICK L : /\ boxes \in Seq([label : L, score : Int])
                 /\ truths \in Seq(L)
                 /\ overlap \in Seq([DOMAIN truths -> Nat])
                 /\ Len(overlap) = Len(boxes)
    BY DEF DetectionCase
  <1> DEFINE X == [label : L, score : Int]
  <1> HIDE DEF boxes, truths, overlap
  <1>2. \A s \in Seq(X) : Rated(s)
    <2> SUFFICES ASSUME NEW s \in Seq(X) PROVE Rated(s)
      OBVIOUS
    <2>1. \A x \in X : x.score \in Int
      OBVIOUS
    <2> HIDE DEF X
    <2>2. \A i \in DOMAIN s : s[i] \in X
      OBVIOUS
    <2> QED BY <2>1, <2>2 DEF Rated
  <1>3. DetectionOf(boxes, truths, overlap)
    BY <1>1, <1>2 DEF DetectionOf
  <1>4. PICK u : /\ UsedAfter(boxes, truths, overlap, u)
                 /\ \A k : TruePositives(boxes, truths, overlap, k)
                             = Cardinality(OfLabel(truths, u[Len(boxes)], k))
    BY <1>3, FoundInTurn
  <1>5. /\ n \in Nat /\ DOMAIN boxes = 1..n /\ Len(truths) \in Nat
        /\ DOMAIN truths = 1..Len(truths)
    BY <1>3, DetectionTells
  <1> DEFINE U == OfLabel(truths, u[n], l)
             D == {j \in DOMAIN truths : truths[j] = l}
  <1>6. U \in SUBSET D /\ IsFiniteSet(D) /\ IsFiniteSet(U)
    <2>1. u[n] \in SUBSET DOMAIN truths
      <3>1. n \in 0..n
        BY <1>5
      <3> QED BY <1>4, <3>1 DEF UsedAfter
    <2>2. U \in SUBSET D /\ D \in SUBSET (1..Len(truths))
      BY <1>5, <2>1 DEF OfLabel
    <2>3. IsFiniteSet(D)
      <3> HIDE DEF D
      <3> QED BY <1>5, <2>2, FirstNumbers, FS_Subset
    <2> HIDE DEF D, U
    <2> QED BY <2>2, <2>3, FS_Subset
  <1>7. found(l) = Cardinality(U)
    BY <1>4
  <1>8. found(l) <= Cardinality(D)
    <2> HIDE DEF U, D, found
    <2> QED BY <1>6, <1>7, FS_Subset
  <1>9. ASSUME NEW i \in DOMAIN boxes
        PROVE  TruePositives(Without(boxes, i), truths, Without(overlap, i), l) <= found(l)
    <2> DEFINE fewer == Without(boxes, i)
               less == Without(overlap, i)
    <2>1. fewer \in Seq(X) /\ Len(fewer) = n - 1
      BY <1>1, WithoutIsAList
    <2>2. less \in Seq([DOMAIN truths -> Nat]) /\ Len(less) = n - 1
      <3>1. i \in DOMAIN overlap
        BY <1>1, <1>5
      <3> QED BY <1>1, <3>1, WithoutIsAList
    <2>3. DetectionOf(fewer, truths, less)
      <3> HIDE DEF fewer, less
      <3> QED BY <1>1, <1>2, <2>1, <2>2 DEF DetectionOf
    <2>4. PICK v : /\ UsedAfter(fewer, truths, less, v)
                   /\ \A k : TruePositives(fewer, truths, less, k)
                               = Cardinality(OfLabel(truths, v[Len(fewer)], k))
      <3> HIDE DEF fewer, less
      <3> QED BY <2>3, FoundInTurn
    <2>5. Behind(v[n - 1], u[n])
      BY <1>1, <1>3, <1>4, <2>4, FewerTake
    <2> DEFINE V == OfLabel(truths, v[n - 1], l)
    <2>6. V \in SUBSET U
      BY <2>5 DEF Behind, OfLabel
    <2>7. TruePositives(fewer, truths, less, l) = Cardinality(V)
      BY <2>1, <2>4
    <2> HIDE DEF U, V, fewer, less, found
    <2>8. Cardinality(V) <= Cardinality(U)
      BY <1>6, <2>6, FS_Subset
    <2> QED BY <1>7, <2>7, <2>8 DEF fewer, less
  <1> QED BY <1>8, <1>9


-----------------------------------------------------------------------------
(* All rules together                                                      *)

\* What the program decides on, kind by kind.
Proper(c) ==
  /\ c.kind = "coverage" => CoverageCase(c)
  /\ c.kind = "classification" => ClassificationCase(c)
  /\ c.kind = "detection" => DetectionCase(c)
  /\ c.kind = "masks" => MasksCase(c)
  /\ c.kind = "grounding" => GroundingCase(c)
  /\ c.kind = "intake" => IntakeCase(c)
  /\ c.kind = "access" => AccessCase(c)
  /\ c.kind = "text" => TextCase(c)
  /\ c.kind = "card" => CardCase(c)

\* What the rules promise of a case.
RulesHold ==
  /\ AccountingIsExact /\ OmissionNeverHelps /\ RecallIsNotInflated /\ OwnerIsMostConfident
  /\ GroundingIsEvidence /\ RegistrationIsSound /\ ReadersAgree /\ AdmittedRunsAsDeclared
  /\ CardKeepsItsWord

\* Whatever cases the program is given, finite or not in number, one after the
\* other, every rule keeps its promise of every one of them.
THEOREM RulesAlwaysHold ==
  ASSUME NEW cases, \A c \in cases : Proper(c)
  PROVE  case = NoCase /\ [][\/ Consider(cases)
                             \/ case' = NoCase]_case => []RulesHold
  <1> DEFINE Next == Consider(cases) \/ case' = NoCase
  <1>0. Proper(NoCase)
    BY DEF Proper, NoCase
  <1>1. case = NoCase => Proper(case)
    BY <1>0
  <1>2. Proper(case) /\ [Next]_case => Proper(case)'
    <2> SUFFICES ASSUME Proper(case), [Next]_case PROVE Proper(case')
      BY DEF Proper, CoverageCase, ClassificationCase, DetectionCase, MasksCase, GroundingCase,
        IntakeCase, AccessCase, TextCase, CardCase
    <2>1. case' = NoCase \/ case' \in cases \/ case' = case
      BY DEF Consider
    <2> HIDE DEF Proper, Next
    <2> QED BY <1>0, <2>1
  <1>3. Proper(case) => RulesHold
    <2> SUFFICES ASSUME Proper(case) PROVE RulesHold
      OBVIOUS
    <2>1. /\ Is("coverage") => CoverageCase(case)
          /\ Is("classification") => ClassificationCase(case)
          /\ Is("detection") => DetectionCase(case)
          /\ Is("masks") => MasksCase(case)
          /\ Is("grounding") => GroundingCase(case)
          /\ Is("intake") => IntakeCase(case)
          /\ Is("access") => AccessCase(case)
          /\ Is("text") => TextCase(case)
          /\ Is("card") => CardCase(case)
      BY DEF Is, Proper
    <2>2. AccountingIsExact
      BY <2>1, AccountingAlwaysExact
    <2>3. OmissionNeverHelps
      BY <2>1, OmittingNeverHelps
    <2>4. RecallIsNotInflated
      BY <2>1, RecallIsNeverInflated
    <2>5. OwnerIsMostConfident
      BY <2>1, OwnerIsAlwaysMostConfident
    <2>6. GroundingIsEvidence
      BY <2>1, GroundingIsAlwaysEvidence
    <2>7. RegistrationIsSound
      BY <2>1, RegistrationIsAlwaysSound
    <2>8. ReadersAgree
      BY <2>1, ReadersAlwaysAgree
    <2>9. AdmittedRunsAsDeclared
      BY AdmittedCanRun
    <2>10. CardKeepsItsWord
      BY <2>1, CardsKeepTheirWord
    <2> QED BY <2>2, <2>3, <2>4, <2>5, <2>6, <2>7, <2>8, <2>9, <2>10 DEF RulesHold
  <1> QED BY <1>1, <1>2, <1>3, PTL

=============================================================================
