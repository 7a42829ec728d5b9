----------------------------- MODULE RuleProofs -----------------------------
(***************************************************************************)
(* Proofs about the pure decisions of the program, for every input: who    *)
(* may read what (Access), what a scorer makes of fewer predictions        *)
(* (Scores), what an admitted artifact does (Adapters), what regenerating  *)
(* a card keeps of it (ModelCards).                                        *)
(***************************************************************************)
EXTENDS Access, Scores, Adapters, ModelCards, FiniteSetTheorems, WellFoundedInduction, TLAPS

-----------------------------------------------------------------------------
(* The largest of a set                                                    *)

\* A set of numbers up to n that is not empty has a largest.
LEMMA LargestExists ==
  ASSUME NEW n \in Nat, NEW S \in SUBSET (0..n), S # {}
  PROVE  /\ Max(S) \in S
         /\ \A y \in S : Max(S) >= y
  <1> DEFINE T == {n - x : x \in S}
  <1>1. T \subseteq Nat /\ T # {}
    <2>1. \A x \in S : n - x \in Nat
      OBVIOUS
    <2> QED BY <2>1
  <1>2. PICK t \in T : \A y \in T : ~(<<y, t>> \in OpToRel(<, Nat))
    BY <1>1, NatLessThanWellFounded, WFMin
  <1>3. \A y \in T : ~(y < t)
    BY <1>1, <1>2 DEF OpToRel
  <1>4. PICK x \in S : t = n - x
    BY <1>2
  <1>5. \A y \in S : x >= y
    <2> SUFFICES ASSUME NEW y \in S PROVE x >= y
      OBVIOUS
    <2>1. n - y \in T
      OBVIOUS
    <2>2. x \in 0..n /\ y \in 0..n /\ ~(n - y < n - x)
      BY <1>3, <1>4, <2>1
    <2> QED BY <2>2
  <1> QED BY <1>5 DEF Max

-----------------------------------------------------------------------------
(* Readers agree                                                           *)

\* What the database holds: runs in the order of their start, and a version that
\* waits for a reviewer does so on the flag of its newest run.
AccessCase(c) == Possible(c) /\ \E n \in Nat : DOMAIN c.runs = 1..n

\* Owning and judging a version are for roles that may list versions at all.
LEMMA ListAgrees == ListAgreesWithRead
  BY DEF ListAgreesWithRead, AuthorizeObjectRead, ListModels, Reply, AuthorizedVersionIds,
    Owns, Judges, HasAny

\* A run in a list, a history, the queue or a golden set's status opens to its
\* reader.
LEMMA ShownOpens == ShownRunsOpen
  <1> SUFFICES ASSUME NEW r \in Shown(case) PROVE GetRun(case, r)
    BY DEF ShownRunsOpen
  <1>1. CASE r \in Summarized(case)
    BY <1>1 DEF Summarized, ListModels, Reply, AuthorizedVersionIds, GetRun, AuthorizeRunRead,
      Owns, Judges, HasAny, Role
  <1>2. ASSUME NEW v \in DOMAIN case.versions, r \in GetHistory(case, v).items
        PROVE  GetRun(case, r)
    <2>1. AuthorizeObjectRead(case, v) /\ case.runs[r].version \in InScope(case, v)
      BY <1>2 DEF GetHistory, Reply
    <2> QED BY <2>1 DEF AuthorizeObjectRead, InScope, AuthorizedVersionIds, GetRun,
          AuthorizeRunRead, Owns, Judges, HasAny, Role
  <1>3. CASE r \in Queue(case).items
    <2>1. HasAny(case, {"adjudicator", "auditor"}) /\ r \in DOMAIN case.runs /\ ToReview(case, r)
      BY <1>3 DEF Queue, Reply
    <2>2. HasFlaggedRun(case, case.runs[r].version)
      BY <2>1 DEF ToReview, HasFlaggedRun, RunsOf
    <2> QED BY <2>1, <2>2 DEF GetRun, AuthorizeRunRead, Judges, HasAny, Role
  <1>4. CASE r \in GetGoldenSet(case).items
    BY <1>4 DEF GetGoldenSet, Reply, GetRun, AuthorizeRunRead, HasAny, Role
  <1>5. \/ r \in Summarized(case) \/ r \in Queue(case).items \/ r \in GetGoldenSet(case).items
        \/ \E v \in DOMAIN case.versions : r \in GetHistory(case, v).items
    <2>1. \A A, B, C, D, x : x \in A \cup (UNION B) \cup C \cup D
                              => x \in A \/ (\E H \in B : x \in H) \/ x \in C \/ x \in D
      OBVIOUS
    <2>2. \/ r \in Summarized(case) \/ r \in Queue(case).items \/ r \in GetGoldenSet(case).items
          \/ \E H \in {GetHistory(case, v).items : v \in DOMAIN case.versions} : r \in H
      BY <2>1, Zenon DEF Shown
    <2> QED BY <2>2
  <1> QED BY <1>1, <1>2, <1>3, <1>4, <1>5

\* The newest run of a version that waits is the one the queue has of it.
LEMMA QueueComplete ==
  ASSUME Is("access") => AccessCase(case)
  PROVE  QueueIsComplete
  <1> SUFFICES ASSUME AccessCase(case), Queue(case).status = 200, NEW v \in DOMAIN case.versions
               PROVE  /\ Cardinality(Queue(case).items \cap RunsOf(case, v))
                           = IF case.versions[v].awaiting THEN 1 ELSE 0
                      /\ case.versions[v].awaiting => AuthorizeObjectRead(case, v)
    BY DEF QueueIsComplete
  <1> DEFINE queued == Queue(case).items \cap RunsOf(case, v)
  <1>1. HasAny(case, {"adjudicator", "auditor"})
    BY DEF Queue, Reply
  <1>2. queued = {r \in DOMAIN case.runs : ToReview(case, r)} \cap RunsOf(case, v)
    BY <1>1 DEF Queue, Reply
  <1>3. CASE case.versions[v].awaiting
    <2> DEFINE newest == Max(RunsOf(case, v))
    <2>1. RunsOf(case, v) # {} /\ case.runs[newest].flagged
      BY <1>3 DEF AccessCase, Possible
    <2>2. newest \in RunsOf(case, v)
      <3>1. PICK n \in Nat : DOMAIN case.runs = 1..n
        BY DEF AccessCase
      <3>2. RunsOf(case, v) \in SUBSET (0..n)
        BY <3>1 DEF RunsOf
      <3> QED BY <2>1, <3>2, LargestExists
    <2>3. queued = {newest}
      <3>1. newest \in DOMAIN case.runs /\ case.runs[newest].version = v
        BY <2>2 DEF RunsOf
      <3>2. newest \in queued
        BY <1>2, <1>3, <2>1, <2>2, <3>1 DEF ToReview, IsLatest
      <3>3. ASSUME NEW r \in queued PROVE r = newest
        BY <1>2, <3>3 DEF ToReview, IsLatest, RunsOf
      <3> QED BY <3>2, <3>3
    <2>4. HasFlaggedRun(case, v)
      BY <1>3 DEF HasFlaggedRun
    <2>5. AuthorizeObjectRead(case, v)
      BY <1>1, <2>4 DEF AuthorizeObjectRead, Judges, HasAny
    <2>6. Cardinality(queued) = 1
      <3>1. \A x : Cardinality({x}) = 1
        BY FS_Singleton, Zenon
      <3> QED BY <2>3, <3>1
    <2> QED BY <1>3, <2>5, <2>6
  <1>4. CASE ~case.versions[v].awaiting
    <2>1. queued = {}
      BY <1>2, <1>4 DEF ToReview, RunsOf
    <2> QED BY <1>4, <2>1, FS_EmptySet
  <1> QED BY <1>3, <1>4

\* The list and the detail page of the versions follow one rule, no endpoint
\* names a run its reader cannot open, and every version that waits is in the
\* review queue once: for any callers, roles, versions and runs.
THEOREM ReadersAlwaysAgree ==
  ASSUME Is("access") => AccessCase(case)
  PROVE  ReadersAgree
  BY ListAgrees, ShownOpens, QueueComplete DEF ReadersAgree

-----------------------------------------------------------------------------
(* Leaving out a prediction                                                *)

\* A sequence without one of its entries.
LEMMA WithoutOne ==
  ASSUME NEW S, NEW s \in Seq(S), NEW i \in DOMAIN s
  PROVE  /\ DOMAIN Without(s, i) = 1..(Len(s) - 1)
         /\ \A k \in 1..(Len(s) - 1) :
              /\ k < i => k \in DOMAIN s /\ Without(s, i)[k] = s[k]
              /\ k >= i => k + 1 \in DOMAIN s /\ Without(s, i)[k] = s[k + 1]
  <1> DEFINE front == SubSeq(s, 1, i - 1)
             back == SubSeq(s, i + 1, Len(s))
  <1>1. i \in 1..Len(s) /\ Len(s) \in Nat
    OBVIOUS
  <1>2. front \in Seq(S) /\ Len(front) = i - 1 /\ \A k \in 1..(i - 1) : front[k] = s[k]
    BY <1>1
  <1>3. /\ back \in Seq(S) /\ Len(back) = Len(s) - i
        /\ \A k \in 1..(Len(s) - i) : back[k] = s[k + i]
    BY <1>1
  <1> HIDE DEF front, back
  <1>4. Without(s, i) = front \o back
    BY DEF Without, front, back
  <1>5. Len(front \o back) = Len(s) - 1 /\ DOMAIN (front \o back) = 1..(Len(s) - 1)
    BY <1>1, <1>2, <1>3
  <1>6. ASSUME NEW k \in 1..(Len(s) - 1), k < i
        PROVE  k \in DOMAIN s /\ (front \o back)[k] = s[k]
    BY <1>1, <1>2, <1>3, <1>6
  <1>7. ASSUME NEW k \in 1..(Len(s) - 1), k >= i
        PROVE  k + 1 \in DOMAIN s /\ (front \o back)[k] = s[k + 1]
    BY <1>1, <1>2, <1>3, <1>7
  <1> QED BY <1>4, <1>5, <1>6, <1>7

\* An entry of what is left is an entry of the whole, and two are still two.
LEMMA WithoutFrom ==
  ASSUME NEW S, NEW s \in Seq(S), NEW i \in DOMAIN s, NEW k \in DOMAIN Without(s, i)
  PROVE  LET m == IF k < i THEN k ELSE k + 1
         IN  m \in DOMAIN s /\ Without(s, i)[k] = s[m]
  BY WithoutOne

\* Of unrepeated predictions one that is left out is missing, and no other.
LEMMA KeptOfFewer ==
  ASSUME NEW S, NEW s \in Seq(S), NEW i \in DOMAIN s, Unrepeated(s), NEW image
  PROVE  Kept(Without(s, i), image) \in {None, Kept(s, image)}
  <1> DEFINE fewer == Without(s, i)
             left == {k \in DOMAIN fewer : fewer[k].image = image}
             all == {k \in DOMAIN s : s[k].image = image}
  <1>1. \A a, b \in DOMAIN s : s[a].image = s[b].image => a = b
    BY DEF Unrepeated, IsInjective
  <1>2. CASE left = {}
    BY <1>2 DEF Kept
  <1>3. CASE left # {}
    <2>1. PICK k \in left : TRUE
      BY <1>3
    <2> DEFINE m == IF k < i THEN k ELSE k + 1
    <2>2. m \in DOMAIN s /\ fewer[k] = s[m] /\ s[m].image = image
      BY <2>1, WithoutFrom
    <2>3. all = {m}
      BY <1>1, <2>2
    <2>4. \A j \in left : j = k
      <3> SUFFICES ASSUME NEW j \in left PROVE j = k
        OBVIOUS
      <3> DEFINE o == IF j < i THEN j ELSE j + 1
      <3>1. o \in DOMAIN s /\ s[o].image = image
        BY WithoutFrom
      <3>2. o = m
        BY <1>1, <2>2, <3>1
      <3>3. j \in Nat /\ k \in Nat /\ i \in Nat
        BY WithoutOne, <2>1
      <3> QED BY <3>2, <3>3
    <2>5. left = {k}
      BY <2>1, <2>4
    <2>6. k \in Nat /\ m \in Nat
      BY WithoutOne, <2>1
    <2> HIDE DEF fewer, m
    <2>7. Min({k}) = k /\ Min({m}) = m
      BY <2>6 DEF Min
    <2>8. Kept(fewer, image) = fewer[k]
      BY <2>5, <2>7 DEF Kept
    <2>9. Kept(s, image) = s[m]
      BY <2>3, <2>7 DEF Kept
    <2> QED BY <2>2, <2>8, <2>9 DEF fewer
  <1> QED BY <1>2, <1>3

\* Of more parts of the same whole the ratio is not smaller.
LEMMA RatioGrows ==
  ASSUME NEW a \in Nat, NEW b \in Nat, NEW whole \in Nat, a <= b
  PROVE  Ratio(a, whole) <= Ratio(b, whole)
  <1>1. CASE whole = 0
    BY <1>1 DEF Ratio
  <1>2. CASE whole > 0
    BY <1>2 DEF Ratio, Scale
  <1> QED BY <1>1, <1>2

\* What a scorer of classification is given: labelled images, finitely many, and
\* a list of predictions.
ClassificationCase(c) ==
  IsFiniteSet(DOMAIN c.truth) /\ \E S : c.predictions \in Seq(S)

\* The images of a set that a prediction is right about stay or go, but none
\* comes, when a prediction is left out.
LEMMA HitsOfFewer ==
  ASSUME NEW truth, IsFiniteSet(DOMAIN truth), NEW S, NEW s \in Seq(S),
         NEW i \in DOMAIN s, Unrepeated(s)
  PROVE  /\ Hits(truth, Without(s, i)) \subseteq Hits(truth, s)
         /\ Top5Hits(truth, Without(s, i)) \subseteq Top5Hits(truth, s)
         /\ ScoredImages(truth, Without(s, i)) = ScoredImages(truth, s)
  <1>1. \A image : Kept(Without(s, i), image) \in {None, Kept(s, image)}
    BY KeptOfFewer
  <1>2. ScoredImages(truth, Without(s, i)) = ScoredImages(truth, s)
    BY DEF ScoredImages
  <1>3. Hits(truth, Without(s, i)) \subseteq Hits(truth, s)
    BY <1>1, <1>2 DEF Hits
  <1>4. Top5Hits(truth, Without(s, i)) \subseteq Top5Hits(truth, s)
    BY <1>1, <1>2 DEF Top5Hits
  <1> QED BY <1>2, <1>3, <1>4

\* Part of a finite set counts for no more than the whole.
LEMMA SmallerPart ==
  ASSUME NEW T, IsFiniteSet(T), NEW B, B \subseteq T, NEW A, A \subseteq B
  PROVE  /\ Cardinality(A) \in Nat /\ Cardinality(B) \in Nat /\ Cardinality(T) \in Nat
         /\ Cardinality(A) <= Cardinality(B)
         /\ IsFiniteSet(A) /\ IsFiniteSet(B)
  <1>1. IsFiniteSet(B)
    BY FS_Subset
  <1>2. IsFiniteSet(A) /\ Cardinality(A) <= Cardinality(B)
    BY <1>1, FS_Subset
  <1> QED BY <1>1, <1>2, FS_CardinalityType

\* Hits and misses of a label together are its images, whatever was predicted.
LEMMA HitsAndMisses ==
  ASSUME NEW truth, IsFiniteSet(DOMAIN truth), NEW s, NEW l
  PROVE  /\ Tp(truth, s, l) \in Nat
         /\ Tp(truth, s, l) + Fn(truth, s, l)
              = Cardinality({i \in ScoredImages(truth, s) : truth[i] = l})
         /\ Cardinality({i \in ScoredImages(truth, s) : truth[i] = l}) \in Nat
  <1> DEFINE scored == ScoredImages(truth, s)
             hit == {i \in Hits(truth, s) : truth[i] = l}
             miss == {i \in scored \ Hits(truth, s) : truth[i] = l}
             both == {i \in scored : truth[i] = l}
  <1>1. hit \subseteq DOMAIN truth /\ miss \subseteq DOMAIN truth /\ both \subseteq DOMAIN truth
    BY DEF Hits, ScoredImages
  <1>2. hit \cup miss = both /\ hit \cap miss = {}
    BY DEF Hits
  <1> HIDE DEF hit, miss, both
  <1>3. IsFiniteSet(hit) /\ IsFiniteSet(miss) /\ IsFiniteSet(both)
    BY <1>1, FS_Subset
  <1>4. Cardinality(hit) \in Nat /\ Cardinality(miss) \in Nat /\ Cardinality(both) \in Nat
    BY <1>3, FS_CardinalityType
  <1>5. Cardinality(both) = Cardinality(hit) + Cardinality(miss) - Cardinality({})
    BY <1>2, <1>3, FS_Union
  <1>6. Cardinality({}) = 0
    BY FS_EmptySet
  <1>7. Cardinality(both) = Cardinality(hit) + Cardinality(miss)
    BY <1>4, <1>5, <1>6
  <1> QED BY <1>4, <1>7 DEF Tp, Fn, hit, miss, both

\* Leaving out a prediction raises neither accuracy nor the recall of any label
\* that a floor may guard: for any data, labels and predictions, one an image.
THEOREM OmittingNeverHelps ==
  ASSUME Is("classification") => ClassificationCase(case)
  PROVE  OmissionNeverHelps
  <1> SUFFICES ASSUME ClassificationCase(case), Unrepeated(case.predictions),
                      NEW i \in DOMAIN case.predictions
               PROVE  LET fewer == Without(case.predictions, i) IN
                      /\ Top1(case.truth, fewer) <= Top1(case.truth, case.predictions)
                      /\ Top5(case.truth, fewer) <= Top5(case.truth, case.predictions)
                      /\ \A l \in Label :
                           RecallOf(case.truth, fewer, l)
                             <= RecallOf(case.truth, case.predictions, l)
    BY DEF OmissionNeverHelps
  <1> DEFINE t == case.truth
             s == case.predictions
             fewer == Without(s, i)
             scored == ScoredImages(t, s)
  <1>1. IsFiniteSet(DOMAIN t) /\ scored \subseteq DOMAIN t
    BY DEF ClassificationCase, ScoredImages
  <1>2. /\ Hits(t, fewer) \subseteq Hits(t, s) /\ Top5Hits(t, fewer) \subseteq Top5Hits(t, s)
        /\ ScoredImages(t, fewer) = scored
    <2>1. PICK S : s \in Seq(S)
      BY DEF ClassificationCase
    <2> QED BY <1>1, <2>1, HitsOfFewer
  <1>3. Hits(t, s) \subseteq DOMAIN t /\ Top5Hits(t, s) \subseteq DOMAIN t
    BY <1>1 DEF Hits, Top5Hits
  <1> HIDE DEF t, s, fewer, scored
  <1>4. Cardinality(scored) \in Nat
    BY <1>1, SmallerPart
  <1>5. Top1(t, fewer) <= Top1(t, s)
    <2>1. /\ Cardinality(Hits(t, fewer)) \in Nat /\ Cardinality(Hits(t, s)) \in Nat
          /\ Cardinality(Hits(t, fewer)) <= Cardinality(Hits(t, s))
      BY <1>1, <1>2, <1>3, SmallerPart
    <2> QED BY <1>2, <1>4, <2>1, RatioGrows DEF Top1, scored
  <1>6. Top5(t, fewer) <= Top5(t, s)
    <2>1. /\ Cardinality(Top5Hits(t, fewer)) \in Nat /\ Cardinality(Top5Hits(t, s)) \in Nat
          /\ Cardinality(Top5Hits(t, fewer)) <= Cardinality(Top5Hits(t, s))
      BY <1>1, <1>2, <1>3, SmallerPart
    <2> QED BY <1>2, <1>4, <2>1, RatioGrows DEF Top5, scored
  <1>7. ASSUME NEW l \in Label PROVE RecallOf(t, fewer, l) <= RecallOf(t, s, l)
    <2> DEFINE n == Cardinality({k \in scored : t[k] = l})
    <2>1. Tp(t, s, l) + Fn(t, s, l) = n /\ Tp(t, s, l) \in Nat /\ n \in Nat
      BY <1>1, HitsAndMisses DEF scored
    <2>2. Tp(t, fewer, l) + Fn(t, fewer, l) = n /\ Tp(t, fewer, l) \in Nat
      <3>1. /\ Tp(t, fewer, l) + Fn(t, fewer, l)
                 = Cardinality({k \in ScoredImages(t, fewer) : t[k] = l})
            /\ Tp(t, fewer, l) \in Nat
        BY <1>1, HitsAndMisses
      <3> QED BY <1>2, <3>1
    <2>3. Tp(t, fewer, l) <= Tp(t, s, l)
      <3> DEFINE A == {k \in Hits(t, fewer) : t[k] = l}
                 B == {k \in Hits(t, s) : t[k] = l}
      <3>1. A \subseteq B /\ B \subseteq DOMAIN t
        BY <1>2, <1>3
      <3> HIDE DEF A, B
      <3>2. Cardinality(A) <= Cardinality(B)
        BY <1>1, <3>1, SmallerPart
      <3> QED BY <3>2 DEF Tp, A, B
    <2> HIDE DEF n
    <2>4. Ratio(Tp(t, fewer, l), n) <= Ratio(Tp(t, s, l), n)
      BY <2>1, <2>2, <2>3, RatioGrows
    <2> QED BY <2>1, <2>2, <2>4 DEF RecallOf
  <1> QED BY <1>5, <1>6, <1>7 DEF t, s, fewer

-----------------------------------------------------------------------------
(* What is admitted can run                                                *)

\* The pairs the tables of the API accept.
Accepted(class, framework) ==
  /\ class \in ScoredClasses /\ framework \in SupportedFrameworks
  /\ class \in FrameworkClassSupport(framework)

\* The file an author of an accepted pair may send.
Sample(class, framework) ==
  CASE framework = "stub" -> [ext |-> ".json", is |-> "stub", task |-> "none", names |-> "none"]
    [] framework = "pytorch" ->
         [ext |-> ".pt", is |-> "yolo", names |-> "some",
          task |-> IF class = "detection" THEN "detect"
                   ELSE IF class = "segmentation" THEN "segment" ELSE "classify"]
    [] framework = "onnx" ->
         [ext |-> ".onnx", is |-> "onnx", names |-> "some",
          task |-> IF class = "detection" THEN "detect" ELSE "classify"]

\* Only an accepted pair is admitted, whatever the file.
LEMMA AdmitsAccepted ==
  ASSUME NEW class, NEW framework, NEW a, Admit(class, framework, a) = 201
  PROVE  Accepted(class, framework)
  BY DEF Admit, Accepted, ModelClass, REGISTRY, ScoredClasses, SupportedFrameworks

\* Only the runner of an accepted pair hands a scorer what it reads.
LEMMA AnswersAccepted ==
  ASSUME NEW class, NEW framework \in SupportedFrameworks, NEW a,
         Answers(class, framework, a)
  PROVE  Accepted(class, framework)
  <1>1. class \in ScoredClasses
    BY DEF Answers, Read, ScoredClasses
  <1>2. class \in FrameworkClassSupport(framework)
    <2>1. CASE framework = "onnx"
      BY <1>1, <2>1 DEF Answers, RunJob, Onnx, Failure, FrameworkClassSupport, ScoredClasses
    <2>2. CASE framework # "onnx"
      BY <1>1, <2>2 DEF FrameworkClassSupport, ScoredClasses
    <2> QED BY <2>1, <2>2
  <1> QED BY <1>1, <1>2 DEF Accepted

\* The sample of an accepted pair is admitted and answers.
LEMMA SampleAnswers ==
  ASSUME NEW class, NEW framework, Accepted(class, framework)
  PROVE  LET a == Sample(class, framework)
         IN  /\ a \in Artifact
             /\ Admit(class, framework, a) = 201
             /\ a.ext \in Extensions(framework)
             /\ Answers(class, framework, a)
  <1> DEFINE a == Sample(class, framework)
  <1>0. class \in {"detection", "classification", "segmentation"}
    BY DEF Accepted, ScoredClasses
  <1>1. CASE framework = "stub"
    <2>1. a = [ext |-> ".json", is |-> "stub", task |-> "none", names |-> "none"]
      BY <1>1 DEF Sample
    <2>2. a \in Artifact
      BY <2>1 DEF Artifact
    <2>3. a.ext \in Extensions(framework)
      BY <1>1, <2>1 DEF Extensions
    <2>4. Admit(class, framework, a) = 201
      BY <1>0, <1>1, <2>3 DEF Accepted, Admit, ModelClass, REGISTRY, ScoredClasses,
        SupportedFrameworks
    <2>5. Answers(class, framework, a)
      BY <1>0, <1>1, <2>1 DEF Answers, RunJob, Stub, Read, Failure
    <2> QED BY <2>2, <2>3, <2>4, <2>5
  <1>2. CASE framework = "pytorch"
    <2>1. /\ a.ext = ".pt" /\ a.is = "yolo" /\ a.names = "some"
          /\ a.task = IF class = "detection" THEN "detect"
                      ELSE IF class = "segmentation" THEN "segment" ELSE "classify"
      BY <1>2 DEF Sample
    <2>2. a \in Artifact
      BY <1>2 DEF Sample, Artifact
    <2>3. a.ext \in Extensions(framework)
      BY <1>2, <2>1 DEF Extensions
    <2>4. Admit(class, framework, a) = 201
      BY <1>0, <1>2, <2>3 DEF Accepted, Admit, ModelClass, REGISTRY, ScoredClasses,
        SupportedFrameworks
    <2>5. Answers(class, framework, a)
      BY <1>0, <1>2, <2>1 DEF Answers, RunJob, PyTorch, PyTorchDetection, PyTorchClassification,
        PyTorchSegmentation, RightTask, IsYolo, Emits, Read, Failure
    <2> QED BY <2>2, <2>3, <2>4, <2>5
  <1>3. CASE framework = "onnx"
    <2>0. class \in {"detection", "classification"}
      BY <1>3 DEF Accepted, FrameworkClassSupport
    <2>1. /\ a.ext = ".onnx" /\ a.is = "onnx" /\ a.names = "some"
          /\ a.task = IF class = "detection" THEN "detect" ELSE "classify"
      BY <1>3 DEF Sample
    <2>2. a \in Artifact
      BY <1>3 DEF Sample, Artifact
    <2>3. a.ext \in Extensions(framework)
      BY <1>3, <2>1 DEF Extensions
    <2>4. Admit(class, framework, a) = 201
      BY <1>3, <2>0, <2>3 DEF Accepted, Admit, ModelClass, REGISTRY, ScoredClasses,
        SupportedFrameworks
    <2>5. Answers(class, framework, a)
      BY <1>3, <2>0, <2>1 DEF Answers, RunJob, Onnx, Emits, Read, Failure
    <2> QED BY <2>2, <2>3, <2>4, <2>5
  <1> QED BY <1>1, <1>2, <1>3 DEF Accepted, SupportedFrameworks

\* A network only fills in the fields it emits: a checkpoint of another task
\* ends its job as an adapter's error.
LEMMA WrongTaskFails == WrongTaskIsInfra
  <1> SUFFICES ASSUME NEW a \in Artifact, IsYolo(a),
                      RunJob(case.class, "pytorch", a) \cap Failure = {}
               PROVE  CASE case.class = "detection" -> "boxes" \in Emits(a.task)
                        [] case.class = "classification" -> "probs" \in Emits(a.task)
                        [] case.class = "segmentation" -> "masks" \in Emits(a.task)
    BY DEF WrongTaskIsInfra
  <1>1. PyTorch(case.class, a) \cap Failure = {}
    BY DEF RunJob
  <1>2. CASE case.class = "detection"
    BY <1>1, <1>2 DEF PyTorch, PyTorchDetection, Failure
  <1>3. CASE case.class = "classification"
    <2>1. a.is # "module"
      BY DEF IsYolo
    <2> QED BY <1>1, <1>3, <2>1 DEF PyTorch, PyTorchClassification, Failure
  <1>4. CASE case.class = "segmentation"
    BY <1>1, <1>4 DEF PyTorch, PyTorchSegmentation, RightTask, Emits, Failure
  <1>5. CASE case.class \notin {"detection", "classification", "segmentation"}
    BY <1>1, <1>5 DEF PyTorch, Failure
  <1> QED BY <1>2, <1>3, <1>4, <1>5

\* The tables by which the API refuses and the runners the adapters have say the
\* same, and a PyTorch checkpoint of another task is an infra failure: for any
\* declared class and framework.
THEOREM AdmittedCanRun == AdmittedRunsAsDeclared
  <1>1. AcceptedCanRun
    <2> DEFINE c == case.class
               f == case.framework
    <2>1. ASSUME NEW a \in Artifact, Admit(c, f, a) = 201 PROVE Accepted(c, f)
      BY <2>1, AdmitsAccepted
    <2>2. ASSUME NEW a \in Artifact, f \in SupportedFrameworks, Answers(c, f, a)
          PROVE  Accepted(c, f)
      BY <2>2, AnswersAccepted
    <2>3. ASSUME Accepted(c, f)
          PROVE  /\ Sample(c, f) \in Artifact /\ Admit(c, f, Sample(c, f)) = 201
                 /\ f \in SupportedFrameworks /\ Sample(c, f).ext \in Extensions(f)
                 /\ Answers(c, f, Sample(c, f))
      BY <2>3, SampleAnswers DEF Accepted
    <2> QED BY <2>1, <2>2, <2>3 DEF AcceptedCanRun
  <1> QED BY <1>1, WrongTaskFails DEF AdmittedRunsAsDeclared

-----------------------------------------------------------------------------
(* What a card keeps                                                       *)

\* Equal lengths and equal entries make equal sequences.
LEMMA SameSequence ==
  ASSUME NEW S, NEW s \in Seq(S), NEW T, NEW t \in Seq(T), Len(s) = Len(t),
         \A i \in 1..Len(s) : s[i] = t[i]
  PROVE  s = t
  <1>1. DOMAIN s = 1..Len(s) /\ DOMAIN t = 1..Len(t)
    OBVIOUS
  <1>2. s = [i \in 1..Len(s) |-> s[i]] /\ t = [i \in 1..Len(t) |-> t[i]]
    BY <1>1
  <1> QED BY <1>2

\* Trailing blanks go, up to the last entry that is none.
LEMMA RstripCuts ==
  ASSUME NEW S, NEW text \in Seq(S), NEW m \in 0..Len(text),
         m = 0 \/ text[m] # "blank",
         \A i \in (m + 1)..Len(text) : text[i] = "blank"
  PROVE  Rstrip(text) = SubSeq(text, 1, m)
  <1> DEFINE kept == {0} \cup {i \in DOMAIN text : text[i] # "blank"}
  <1>1. kept \subseteq Nat /\ m \in kept
    OBVIOUS
  <1>2. \A i \in kept : m >= i
    OBVIOUS
  <1> HIDE DEF kept
  <1>3. Max(kept) = m
    <2>1. Max(kept) \in kept /\ \A i \in kept : Max(kept) >= i
      BY <1>1, <1>2 DEF Max
    <2>2. Max(kept) >= m /\ m >= Max(kept) /\ Max(kept) \in Nat
      BY <1>1, <1>2, <2>1
    <2> QED BY <2>2
  <1> QED BY <1>3 DEF Rstrip, kept

\* There is such a last entry.
LEMMA RstripFinds ==
  ASSUME NEW S, NEW text \in Seq(S)
  PROVE  \E m \in 0..Len(text) :
           /\ m = 0 \/ text[m] # "blank"
           /\ \A i \in (m + 1)..Len(text) : text[i] = "blank"
  <1> DEFINE kept == {0} \cup {i \in 1..Len(text) : text[i] # "blank"}
  <1>1. kept \in SUBSET (0..Len(text)) /\ kept # {} /\ Len(text) \in Nat
    OBVIOUS
  <1> HIDE DEF kept
  <1>2. Max(kept) \in kept /\ \A i \in kept : Max(kept) >= i
    BY <1>1, LargestExists
  <1>3. Max(kept) \in 0..Len(text) /\ (Max(kept) = 0 \/ text[Max(kept)] # "blank")
    BY <1>1, <1>2 DEF kept
  <1>4. ASSUME NEW i \in (Max(kept) + 1)..Len(text) PROVE text[i] = "blank"
    <2>1. ~(Max(kept) >= i) /\ i \in 1..Len(text)
      BY <1>3
    <2>2. i \notin kept
      BY <1>2, <2>1
    <2> QED BY <2>1, <2>2 DEF kept
  <1> QED BY <1>3, <1>4

\* A text with one marker is split above it.
LEMMA SplitAtMarker ==
  ASSUME NEW S, NEW text \in Seq(S), NEW k \in 1..Len(text), text[k] = "begin",
         \A i \in 1..Len(text) : i # k => text[i] # "begin"
  PROVE  SplitHumanSections(text) = Rstrip(SubSeq(text, 1, k - 1))
  <1> DEFINE marks == {i \in DOMAIN text : text[i] = "begin"}
  <1>1. marks = {k} /\ k \in Nat
    OBVIOUS
  <1>2. Min({k}) = k
    BY <1>1 DEF Min
  <1> HIDE DEF marks
  <1>3. marks # {} /\ Min(marks) = k
    BY <1>1, <1>2
  <1> QED BY <1>3 DEF SplitHumanSections, marks

\* A text of an author without a marker, and runs whose outcomes are listed.
TextCase(c) == \E S : c.human \in Seq(S)
CardCase(c) ==
  /\ \E R : c.runs \in Seq(R) /\ c.runs # <<>>
  /\ \A i \in DOMAIN c.runs : \E S : c.runs[i].outcomes \in Seq(S)

\* What a template makes of a text that ends in no blank is split into it again.
LEMMA GenerateSplits ==
  ASSUME NEW S, NEW text \in Seq(S), \A i \in 1..Len(text) : text[i] # "begin",
         text = <<>> \/ text[Len(text)] # "blank",
         NEW once, once = text \o <<"blank", "begin", "block">>
  PROVE  /\ SplitHumanSections(once) = text
         /\ once # <<>>
         /\ {i \in DOMAIN once : once[i] = "begin"} = {Len(text) + 2}
  <1> DEFINE U == S \cup {"blank", "begin", "block"}
             n == Len(text)
             above == SubSeq(once, 1, n + 1)
  <1>1. n \in Nat /\ once \in Seq(U) /\ Len(once) = n + 3 /\ DOMAIN once = 1..(n + 3)
    <2>1. text \in Seq(U) /\ <<"blank", "begin", "block">> \in Seq(U) /\ n \in Nat
      OBVIOUS
    <2> QED BY <2>1
  <1>2. /\ \A i \in 1..n : once[i] = text[i]
        /\ once[n + 1] = "blank" /\ once[n + 2] = "begin" /\ once[n + 3] = "block"
    BY <1>1
  <1>3. \A i \in 1..Len(once) : i # n + 2 => once[i] # "begin"
    <2> SUFFICES ASSUME NEW i \in 1..(n + 3), i # n + 2 PROVE once[i] # "begin"
      BY <1>1
    <2>1. i \in 1..n \/ i = n + 1 \/ i = n + 3
      BY <1>1
    <2> QED BY <1>2, <2>1
  <1>4. SplitHumanSections(once) = Rstrip(above)
    <2>1. n + 2 \in 1..Len(once) /\ (n + 2) - 1 = n + 1
      BY <1>1
    <2> HIDE DEF n, above
    <2>2. SplitHumanSections(once) = Rstrip(SubSeq(once, 1, (n + 2) - 1))
      BY <1>1, <1>2, <1>3, <2>1, SplitAtMarker
    <2> QED BY <2>1, <2>2 DEF above
  <1>5. /\ above \in Seq(U) /\ Len(above) = n + 1
        /\ (\A i \in 1..(n + 1) : above[i] = once[i])
    BY <1>1
  <1>6. Rstrip(above) = SubSeq(above, 1, n)
    <2>1. n = 0 \/ above[n] # "blank"
      BY <1>1, <1>2, <1>5
    <2>2. \A i \in (n + 1)..Len(above) : above[i] = "blank"
      BY <1>1, <1>2, <1>5
    <2>3. n \in 0..Len(above)
      BY <1>1, <1>5
    <2> HIDE DEF n, above
    <2> QED BY <1>5, <2>1, <2>2, <2>3, RstripCuts
  <1>7. SubSeq(above, 1, n) = text
    <2>1. /\ SubSeq(above, 1, n) \in Seq(U) /\ Len(SubSeq(above, 1, n)) = n
          /\ \A i \in 1..n : SubSeq(above, 1, n)[i] = above[i]
      BY <1>1, <1>5
    <2>2. \A i \in 1..n : SubSeq(above, 1, n)[i] = text[i]
      BY <1>1, <1>2, <1>5, <2>1
    <2> QED BY <2>1, <2>2, SameSequence
  <1>8. {i \in DOMAIN once : once[i] = "begin"} = {n + 2}
    BY <1>1, <1>2, <1>3
  <1>9. SplitHumanSections(once) = text
    BY <1>4, <1>6, <1>7
  <1>10. once # <<>>
    BY <1>1
  <1> QED BY <1>8, <1>9, <1>10

\* Regenerating a card again and again keeps an author's text.
LEMMA TextIsKept ==
  ASSUME Is("text") => TextCase(case)
  PROVE  HumanTextKept
  <1> SUFFICES ASSUME TextCase(case), "begin" \notin ToSet(case.human)
               PROVE  LET once == Generate(case.human \o <<"begin", "block">>)
                          twice == Generate(once)
                      IN /\ SplitHumanSections(once) = Rstrip(case.human)
                         /\ twice = once
                         /\ Cardinality({i \in DOMAIN twice : twice[i] = "begin"}) = 1
    BY DEF HumanTextKept
  <1> DEFINE h == case.human
             old == h \o <<"begin", "block">>
             kept == Rstrip(h)
             once == Generate(old)
  <1>1. PICK S : h \in Seq(S)
    BY DEF TextCase
  <1>2. \A i \in 1..Len(h) : h[i] # "begin"
    BY <1>1 DEF ToSet
  <1>3. PICK m \in 0..Len(h) : /\ m = 0 \/ h[m] # "blank"
                               /\ \A i \in (m + 1)..Len(h) : h[i] = "blank"
    BY <1>1, RstripFinds
  <1>4. kept = SubSeq(h, 1, m)
    BY <1>1, <1>3, RstripCuts
  <1>5. /\ kept \in Seq(S) /\ Len(kept) = m /\ m \in Nat /\ m <= Len(h)
        /\ \A i \in 1..m : kept[i] = h[i]
    BY <1>1, <1>3, <1>4
  <1>6. once = kept \o <<"blank", "begin", "block">>
    <2> DEFINE U == S \cup {"begin", "block"}
    <2>1. old \in Seq(U) /\ Len(old) = Len(h) + 2 /\ Len(h) \in Nat
      <3>1. h \in Seq(U) /\ <<"begin", "block">> \in Seq(U)
        BY <1>1
      <3> QED BY <3>1
    <2>2. /\ \A i \in 1..Len(h) : old[i] = h[i]
          /\ old[Len(h) + 1] = "begin" /\ old[Len(h) + 2] = "block"
      BY <1>1, <2>1
    <2>3. \A i \in 1..Len(old) : i # Len(h) + 1 => old[i] # "begin"
      <3> SUFFICES ASSUME NEW i \in 1..(Len(h) + 2), i # Len(h) + 1 PROVE old[i] # "begin"
        BY <2>1
      <3>1. i \in 1..Len(h) \/ i = Len(h) + 2
        BY <2>1
      <3> QED BY <1>2, <2>2, <3>1
    <2>4. SplitHumanSections(old) = Rstrip(SubSeq(old, 1, (Len(h) + 1) - 1))
      <3>1. Len(h) + 1 \in 1..Len(old)
        BY <2>1
      <3> HIDE DEF old, h
      <3> QED BY <2>1, <2>2, <2>3, <3>1, SplitAtMarker
    <2>5. SubSeq(old, 1, (Len(h) + 1) - 1) = h
      <3>1. (Len(h) + 1) - 1 = Len(h)
        BY <2>1
      <3>2. /\ SubSeq(old, 1, Len(h)) \in Seq(U) /\ Len(SubSeq(old, 1, Len(h))) = Len(h)
            /\ \A i \in 1..Len(h) : SubSeq(old, 1, Len(h))[i] = old[i]
        BY <2>1
      <3>3. \A i \in 1..Len(h) : SubSeq(old, 1, Len(h))[i] = h[i]
        BY <2>2, <3>2
      <3>4. SubSeq(old, 1, Len(h)) = h
        BY <1>1, <3>2, <3>3, SameSequence
      <3> QED BY <3>1, <3>4
    <2>6. old # <<>>
      BY <2>1
    <2> QED BY <2>4, <2>5, <2>6 DEF Generate
  <1>7. \A i \in 1..Len(kept) : kept[i] # "begin"
    BY <1>2, <1>5
  <1>8. kept = <<>> \/ kept[Len(kept)] # "blank"
    BY <1>3, <1>5
  <1> HIDE DEF kept, once, old, h
  <1>9. /\ SplitHumanSections(once) = kept /\ once # <<>>
        /\ {i \in DOMAIN once : once[i] = "begin"} = {Len(kept) + 2}
    BY <1>5, <1>6, <1>7, <1>8, GenerateSplits
  <1>10. Generate(once) = once
    BY <1>6, <1>9 DEF Generate
  <1>11. \A x : Cardinality({x}) = 1
    BY FS_Singleton, Zenon
  <1>12. Cardinality({i \in DOMAIN once : once[i] = "begin"}) = 1
    BY <1>9, <1>11
  <1> QED BY <1>9, <1>10, <1>12 DEF h, old, once, kept

\* A decision rebuilds the card its run wrote.
LEMMA CardIsRebuilt ==
  ASSUME Is("card") => CardCase(case)
  PROVE  RegeneratedAgrees
  <1> SUFFICES ASSUME CardCase(case), NEW mode \in RecoveredModes(StoredRows(case.runs))
               PROVE  LET run == Latest(case.runs)
                          written == Block(UpsertInputs(run))
                          again == Block(RegenerateInputs(case.runs, "decision", mode))
                      IN /\ \A f \in {"verdict", "golden", "rows", "grounding", "limitations"} :
                              again[f] = written[f]
                         /\ again.adjudication = {"decision"}
                         /\ (\A i, j \in DOMAIN run.outcomes :
                               run.outcomes[i].mode = run.outcomes[j].mode) =>
                              again.mode = IF \E i \in DOMAIN run.outcomes : run.outcomes[i].readable
                                           THEN written.mode ELSE TBC
    BY DEF RegeneratedAgrees
  <1> DEFINE run == Latest(case.runs)
             written == Block(UpsertInputs(run))
             again == Block(RegenerateInputs(case.runs, "decision", mode))
  <1>1. \A f \in {"verdict", "golden", "rows", "grounding", "limitations"} :
          again[f] = written[f]
    <2>1. again.verdict = written.verdict /\ again.golden = written.golden
      BY DEF Block, UpsertInputs, RegenerateInputs
    <2>2. again.rows = written.rows /\ again.limitations = written.limitations
      BY DEF Block, UpsertInputs, RegenerateInputs, StoredRows
    <2>3. again.grounding = written.grounding
      BY DEF Block, UpsertInputs, RegenerateInputs, StoredRows
    <2> HIDE DEF again, written
    <2> QED BY <2>1, <2>2, <2>3
  <1>2. again.adjudication = {"decision"}
    BY DEF Block, RegenerateInputs, AdjudicationBlock
  <1>3. again.mode = Tbc(mode)
    BY DEF Block, RegenerateInputs
  <1>4. written.mode = Tbc(IF run.outcomes = <<>> THEN None ELSE Head(run.outcomes).mode)
    BY DEF Block, UpsertInputs
  <1>5. StoredRows(case.runs) = {run.outcomes[i] : i \in DOMAIN run.outcomes}
    BY DEF StoredRows, ToSet
  <1> DEFINE o == run.outcomes
  <1>6. ASSUME \A i, j \in DOMAIN o : o[i].mode = o[j].mode, NEW k \in DOMAIN o, o[k].readable
        PROVE  again.mode = written.mode
    <2>1. PICK S : o \in Seq(S)
      <3>1. PICK R : case.runs \in Seq(R) /\ case.runs # <<>>
        BY DEF CardCase
      <3>2. Len(case.runs) \in DOMAIN case.runs
        BY <3>1
      <3> QED BY <3>2 DEF CardCase, Latest
    <2>2. o # <<>> /\ 1 \in DOMAIN o /\ Head(o) = o[1]
      BY <1>6, <2>1
    <2>3. written.mode = Tbc(o[1].mode)
      BY <1>4, <2>2
    <2>4. mode = o[1].mode
      <3> DEFINE rows == {o[i] : i \in DOMAIN o}
                 readable == {r \in rows : r.readable /\ r.mode # None}
      <3>1. \A r \in rows : r.mode = o[1].mode
        BY <1>6, <2>2
      <3>2. mode \in IF readable = {} THEN {None} ELSE {r.mode : r \in readable}
        BY <1>5 DEF RecoveredModes
      <3>3. CASE readable # {}
        BY <3>1, <3>2, <3>3
      <3>4. CASE readable = {}
        <4>1. o[k].mode = None
          BY <1>6, <3>4
        <4> QED BY <1>6, <2>2, <3>2, <3>4, <4>1
      <3> QED BY <3>3, <3>4
    <2> QED BY <1>3, <2>3, <2>4
  <1>7. ASSUME \A k \in DOMAIN o : ~o[k].readable
        PROVE  again.mode = TBC
    <2>1. mode = None
      BY <1>5, <1>7 DEF RecoveredModes
    <2> QED BY <1>3, <2>1 DEF Tbc
  <1> QED BY <1>1, <1>2, <1>6, <1>7

\* The authors of a card keep to their parts: an author's text survives any
\* number of regenerations, and what a decision rebuilds from the stored rows is
\* what the run wrote, but for the decision.  For any text without a marker and
\* any runs.
THEOREM CardsKeepTheirWord ==
  ASSUME Is("text") => TextCase(case), Is("card") => CardCase(case)
  PROVE  CardKeepsItsWord
  BY TextIsKept, CardIsRebuilt DEF CardKeepsItsWord

=============================================================================
