----------------------------- MODULE TextProofs -----------------------------
(***************************************************************************)
(* Proofs about what is done to a text: the decision rules of the          *)
(* detectors (DecisionRules), for every configuration and every set of     *)
(* facts, and the streaming evaluator (StreamingEvaluator), for every      *)
(* window size, every overlap, every text and every placement of chunk     *)
(* boundaries.                                                             *)
(***************************************************************************)
EXTENDS StreamingEvaluator, DecisionRules, FiniteSetTheorems, SequenceTheorems,
        WellFoundedInduction, TLAPS

-----------------------------------------------------------------------------
(***************************************************************************)
(* Induction and folds. What a fold over a finite set computes does not    *)
(* follow from its definition alone: that there is such a function is      *)
(* proved by induction on cardinality.                                     *)
(***************************************************************************)

\* A set of naturals has a least element.
LEMMA Least ==
    ASSUME NEW T, T \subseteq Nat, T # {}
    PROVE  \E x \in T : \A y \in T : x <= y
<1> DEFINE R == OpToRel(<, Nat)
<1>1. IsWellFoundedOn(R, Nat)
  BY NatLessThanWellFounded
<1>2. PICK x \in T : \A y \in T : ~(<<y, x>> \in R)
  <2> HIDE DEF R
  <2>1. QED
    BY <1>1, WFMin
<1>3. \A y \in T : ~(y < x)
  BY <1>2 DEF OpToRel
<1>4. QED
  BY <1>3

\* What holds of 0 and, when it holds of n, of n + 1, holds of every natural.
LEMMA NatSetInduction ==
    ASSUME NEW P, 0 \in P, \A n \in Nat : n \in P => n + 1 \in P
    PROVE  Nat \subseteq P
<1> DEFINE T == Nat \ P
<1>1. SUFFICES ASSUME T # {} PROVE FALSE
  OBVIOUS
<1>2. PICK x \in T : \A y \in T : x <= y
  BY <1>1, Least
<1>3. x # 0 /\ x - 1 \in Nat /\ x - 1 \notin T
  BY <1>2
<1>4. (x - 1) + 1 \in P
  BY <1>3
<1>5. QED
  BY <1>2, <1>4

\* What holds of the empty set and passes from a set without some element of it
\* to the set, holds of every subset of a finite set.
LEMMA SetInduction ==
    ASSUME NEW S, IsFiniteSet(S), NEW Q, {} \in Q,
           \A s \in SUBSET S : s # {} => \E x \in s : s \ {x} \in Q => s \in Q
    PROVE  SUBSET S \subseteq Q
<1> DEFINE P == {n \in Nat : \A s \in SUBSET S : Cardinality(s) <= n => s \in Q}
<1>0. \A s \in SUBSET S : IsFiniteSet(s) /\ Cardinality(s) \in Nat
  BY FS_Subset, FS_CardinalityType
<1>1. 0 \in P
  <2>1. \A s \in SUBSET S : Cardinality(s) <= 0 => s = {}
    BY <1>0, FS_EmptySet
  <2>2. QED
    BY <2>1
<1>2. ASSUME NEW n \in Nat, n \in P PROVE n + 1 \in P
  <2>1. SUFFICES ASSUME NEW s \in SUBSET S, Cardinality(s) <= n + 1, s # {} PROVE s \in Q
    OBVIOUS
  <2>2. PICK x \in s : s \ {x} \in Q => s \in Q
    BY <2>1
  <2>3. Cardinality(s \ {x}) = Cardinality(s) - 1
    BY <1>0, FS_RemoveElement
  <2>4. s \ {x} \in Q
    BY <1>0, <1>2, <2>1, <2>3
  <2>5. QED
    BY <2>2, <2>4
<1>3. Nat \subseteq P
  <2> HIDE DEF P
  <2>1. QED
    BY <1>1, <1>2, NatSetInduction
<1>4. QED
  BY <1>0, <1>3

\* ch chooses an element of each set, and step takes it into a value of V.
Foldable(S, ch, V, base, step) ==
    /\ IsFiniteSet(S)
    /\ \A s \in SUBSET S : s # {} => ch[s] \in s
    /\ base \in V
    /\ \A x \in S, v \in V : step[x][v] \in V

\* g folds the subsets of S.
IsFold(S, ch, base, step, g) ==
    g = [s \in SUBSET S |-> IF s = {} THEN base ELSE step[ch[s]][g[s \ {ch[s]}]]]

\* A finite set can be folded, whatever order its elements are chosen in.
LEMMA FoldExists ==
    ASSUME NEW S, NEW ch, NEW V, NEW base, NEW step, Foldable(S, ch, V, base, step)
    PROVE  \E g \in [SUBSET S -> V] : IsFold(S, ch, base, step, g)
<1> USE DEF Foldable
<1> DEFINE Once == [g \in [SUBSET S -> V] |->
                        [s \in SUBSET S |-> IF s = {} THEN base ELSE step[ch[s]][g[s \ {ch[s]}]]]]
           UpTo(g, n) == \A s \in SUBSET S : Cardinality(s) <= n => g[s] = Once[g][s]
           P == {n \in Nat : \E g \in [SUBSET S -> V] : UpTo(g, n)}
<1>0. \A s \in SUBSET S : IsFiniteSet(s) /\ Cardinality(s) \in Nat
  BY FS_Subset, FS_CardinalityType
<1>a. \A s \in SUBSET S : s # {} => s \ {ch[s]} \in SUBSET S
                                      /\ Cardinality(s \ {ch[s]}) = Cardinality(s) - 1
  BY <1>0, FS_RemoveElement
<1>b. ASSUME NEW g \in [SUBSET S -> V]
      PROVE  /\ Once[g] \in [SUBSET S -> V]
             /\ Once[g][{}] = base
             /\ \A s \in SUBSET S : s # {} => Once[g][s] = step[ch[s]][g[s \ {ch[s]}]]
  <2>1. \A s \in SUBSET S : s # {} => ch[s] \in S /\ g[s \ {ch[s]}] \in V
    BY <1>a
  <2>2. QED
    BY <2>1
<1>c. \A s \in SUBSET S : Cardinality(s) <= 0 => s = {}
  BY <1>0, FS_EmptySet
<1> HIDE DEF Once
<1>1. 0 \in P
  <2> DEFINE g == [s \in SUBSET S |-> base]
  <2>1. g \in [SUBSET S -> V] /\ g[{}] = base
    OBVIOUS
  <2> HIDE DEF g
  <2>2. UpTo(g, 0)
    BY <1>b, <1>c, <2>1
  <2>3. QED
    BY <2>1, <2>2
<1>2. ASSUME NEW n \in Nat, n \in P PROVE n + 1 \in P
  <2>1. PICK g \in [SUBSET S -> V] : UpTo(g, n)
    BY <1>2
  <2> DEFINE h == Once[g]
  <2>2. h \in [SUBSET S -> V]
    BY <1>b
  <2>3. ASSUME NEW s \in SUBSET S, Cardinality(s) <= n + 1 PROVE h[s] = Once[h][s]
    <3>1. CASE s = {}
      BY <1>b, <2>2, <3>1
    <3>2. CASE s # {}
      <4>1. Cardinality(s \ {ch[s]}) <= n
        <5>1. Cardinality(s) \in Nat /\ Cardinality(s \ {ch[s]}) = Cardinality(s) - 1
          BY <1>0, <1>a, <3>2
        <5>2. Cardinality(s) <= n + 1
          BY <2>3
        <5>3. QED
          BY <5>1, <5>2
      <4>2. g[s \ {ch[s]}] = h[s \ {ch[s]}]
        BY <1>a, <2>1, <3>2, <4>1
      <4>3. h[s] = step[ch[s]][g[s \ {ch[s]}]]
        BY <1>b, <3>2
      <4>4. Once[h][s] = step[ch[s]][h[s \ {ch[s]}]]
        <5> HIDE DEF h
        <5>1. QED
          BY <1>b, <2>2, <3>2
      <4>5. QED
        <5> HIDE DEF h
        <5>1. QED
          BY <4>2, <4>3, <4>4
    <3>3. QED
      BY <3>1, <3>2
  <2> HIDE DEF h
  <2>4. UpTo(h, n + 1)
    BY <2>3
  <2>5. QED
    BY <2>2, <2>4
<1>3. Nat \subseteq P
  <2> HIDE DEF P
  <2>1. QED
    BY <1>1, <1>2, NatSetInduction
<1>4. PICK g \in [SUBSET S -> V] : UpTo(g, Cardinality(S))
  <2>1. Cardinality(S) \in Nat
    BY <1>0
  <2>2. Cardinality(S) \in P
    BY <1>3, <2>1
  <2>3. QED
    BY <2>2
<1>5. \A s \in SUBSET S : Cardinality(s) <= Cardinality(S)
  BY FS_Subset
<1>6. g = Once[g]
  <2>1. Once[g] \in [SUBSET S -> V]
    BY <1>b
  <2>2. \A s \in SUBSET S : g[s] = Once[g][s]
    BY <1>4, <1>5
  <2>3. QED
    BY <2>1, <2>2
<1>7. QED
  BY <1>6 DEF Once, IsFold

-----------------------------------------------------------------------------
(***************************************************************************)
(* Hits and their weight.                                                  *)
(***************************************************************************)

ofSeverity(H, s) == {h \in H : h.severity = s}

Weight(H) == 10 * Cardinality(ofSeverity(H, "low")) + 30 * Cardinality(ofSeverity(H, "medium"))
                + 50 * Cardinality(ofSeverity(H, "high"))

HitsOK(H) == IsFiniteSet(H) /\ \A h \in H : h.severity \in Severity

\* The hits of each severity are counted one by one.
LEMMA WeightOne ==
    ASSUME NEW H, HitsOK(H), NEW x \in H
    PROVE  Weight(H) = SEVERITY_RISK_SCORES[x.severity] + Weight(H \ {x})
<1> DEFINE of(s) == ofSeverity(H, s)
           less(s) == ofSeverity(H \ {x}, s)
<1>1. ASSUME NEW s PROVE IsFiniteSet(of(s)) /\ Cardinality(of(s)) \in Nat
  BY FS_Subset, FS_CardinalityType DEF HitsOK, ofSeverity
<1>2. ASSUME NEW s, x.severity = s PROVE Cardinality(less(s)) = Cardinality(of(s)) - 1
  <2>1. less(s) = of(s) \ {x} /\ x \in of(s)
    BY <1>2 DEF ofSeverity
  <2>2. QED
    BY <1>1, <2>1, FS_RemoveElement
<1>3. ASSUME NEW s, x.severity # s PROVE Cardinality(less(s)) = Cardinality(of(s))
  <2>1. less(s) = of(s)
    BY <1>3 DEF ofSeverity
  <2>2. QED
    BY <2>1
<1> HIDE DEF of, less
<1>4. /\ Weight(H) = 10 * Cardinality(of("low")) + 30 * Cardinality(of("medium")) + 50 * Cardinality(of("high"))
      /\ Weight(H \ {x}) = 10 * Cardinality(less("low")) + 30 * Cardinality(less("medium")) + 50 * Cardinality(less("high"))
  BY DEF Weight, of, less
<1>5. x.severity \in {"low", "medium", "high"}
  BY DEF HitsOK, Severity, SEVERITY_RISK_SCORES
<1>6. CASE x.severity = "low"
  BY <1>1, <1>2, <1>3, <1>4, <1>6 DEF SEVERITY_RISK_SCORES
<1>7. CASE x.severity = "medium"
  BY <1>1, <1>2, <1>3, <1>4, <1>7 DEF SEVERITY_RISK_SCORES
<1>8. CASE x.severity = "high"
  BY <1>1, <1>2, <1>3, <1>4, <1>8 DEF SEVERITY_RISK_SCORES
<1>9. QED
  BY <1>5, <1>6, <1>7, <1>8

RiskSum(H) == MapThenSumSet(LAMBDA h : SEVERITY_RISK_SCORES[h.severity], H)

\* The sum calculate_risk_score takes over a set of hits is their weight, in
\* whatever order they are added.
LEMMA RiskSumIsWeight ==
    ASSUME NEW H, HitsOK(H)
    PROVE  RiskSum(H) = Weight(H)
<1> DEFINE score(x) == SEVERITY_RISK_SCORES[x.severity]
           ch == [s \in SUBSET H |-> CHOOSE x \in s : TRUE]
           step == [x \in H |-> [v \in Nat |-> score(x) + v]]
           Folds(g) == g = [s \in SUBSET H |->
                              IF s = {} THEN 0
                              ELSE SEVERITY_RISK_SCORES[(CHOOSE x \in s : TRUE).severity] + g[s \ {CHOOSE x \in s : TRUE}]]
           iter == CHOOSE g : Folds(g)
<1>0. RiskSum(H) = iter[H]
  BY DEF RiskSum, MapThenSumSet, MapThenFoldSet
<1>1. \A x \in H : score(x) \in Nat
  BY DEF HitsOK, Severity, SEVERITY_RISK_SCORES
<1>2. \A s \in SUBSET H : s # {} => ch[s] \in s /\ ch[s] = CHOOSE x \in s : TRUE
  OBVIOUS
<1>3. \A x \in H, v \in Nat : step[x][v] = score(x) + v /\ step[x][v] \in Nat
  BY <1>1
<1>4. \E g : Folds(g)
  <2> HIDE DEF ch, step
  <2>1. PICK g \in [SUBSET H -> Nat] :
            g = [s \in SUBSET H |-> IF s = {} THEN 0 ELSE step[ch[s]][g[s \ {ch[s]}]]]
    <3>1. Foldable(H, ch, Nat, 0, step)
      BY <1>2, <1>3 DEF Foldable, HitsOK
    <3>2. PICK g \in [SUBSET H -> Nat] : IsFold(H, ch, 0, step, g)
      BY <3>1, FoldExists
    <3>3. QED
      BY <3>2 DEF IsFold
  <2>2. ASSUME NEW s \in SUBSET H, s # {}
        PROVE  step[ch[s]][g[s \ {ch[s]}]]
                 = SEVERITY_RISK_SCORES[(CHOOSE x \in s : TRUE).severity] + g[s \ {CHOOSE x \in s : TRUE}]
    BY <1>2, <1>3, <2>2
  <2>3. Folds(g)
    BY <2>1, <2>2
  <2>4. QED
    BY <2>3
<1>5. Folds(iter)
  BY <1>4
<1> DEFINE Q == {s \in SUBSET H : iter[s] = Weight(s)}
<1>6. ASSUME NEW s \in SUBSET H, s # {}, s \ {CHOOSE x \in s : TRUE} \in Q PROVE s \in Q
  <2> DEFINE x == CHOOSE y \in s : TRUE
  <2>1. x \in s
    BY <1>6
  <2>2. iter[s] = score(x) + iter[s \ {x}]
    <3> HIDE DEF iter
    <3>1. QED
      BY <1>5, <1>6
  <2>3. HitsOK(s)
    BY FS_Subset DEF HitsOK
  <2>4. Weight(s) = score(x) + Weight(s \ {x})
    <3> HIDE DEF x
    <3>1. QED
      BY <2>1, <2>3, WeightOne
  <2>5. QED
    <3> HIDE DEF iter
    <3>1. QED
      BY <1>6, <2>2, <2>4
<1>7. {} \in Q
  <2> HIDE DEF iter
  <2>1. iter[{}] = 0
    BY <1>5
  <2>2. Weight({}) = 0
    <3>1. \A s : ofSeverity({}, s) = {}
      BY DEF ofSeverity
    <3>2. QED
      BY <3>1, FS_EmptySet DEF Weight
  <2>3. QED
    BY <2>1, <2>2
<1>8. SUBSET H \subseteq Q
  <2> HIDE DEF Q
  <2>1. \A s \in SUBSET H : s # {} => \E x \in s : s \ {x} \in Q => s \in Q
    BY <1>6
  <2>2. QED
    BY <1>7, <2>1, SetInduction DEF HitsOK
<1>9. QED
  <2> HIDE DEF iter
  <2>1. QED
    BY <1>0, <1>8

\* The result of b is at least as severe as that of a.
NoWeaker(a, b) ==
    /\ DECISION_PRECEDENCE[b.decision] >= DECISION_PRECEDENCE[a.decision]
    /\ b.risk >= a.risk

\* A weight is a number of points.
LEMMA WeightNat ==
    ASSUME NEW H, HitsOK(H) PROVE Weight(H) \in Nat
<1>1. \A s : Cardinality(ofSeverity(H, s)) \in Nat
  BY FS_Subset, FS_CardinalityType DEF HitsOK, ofSeverity
<1>2. QED
  BY <1>1 DEF Weight

\* calculate_risk_score is the weight of the hits, capped at 100.
LEMMA RiskOf ==
    ASSUME NEW H, HitsOK(H)
    PROVE  /\ calculate_risk_score(H) = IF Weight(H) > 100 THEN 100 ELSE Weight(H)
           /\ calculate_risk_score(H) \in 0 .. 100
<1>1. calculate_risk_score(H) = AtMost(100, Weight(H))
  BY RiskSumIsWeight DEF calculate_risk_score, RiskSum
<1>2. QED
  BY <1>1, WeightNat DEF AtMost

\* Hits that weigh more are no smaller a risk, the cap included.
LEMMA RiskMonotone ==
    ASSUME NEW A, NEW B, HitsOK(A), HitsOK(B), Weight(A) <= Weight(B)
    PROVE  calculate_risk_score(A) <= calculate_risk_score(B)
  BY RiskOf, WeightNat

\* More hits weigh more.
LEMMA HitsSubset ==
    ASSUME NEW B, HitsOK(B), NEW A \in SUBSET B
    PROVE  HitsOK(A) /\ Weight(A) <= Weight(B)
<1>1. HitsOK(A)
  BY FS_Subset DEF HitsOK
<1>2. ASSUME NEW s PROVE /\ Cardinality(ofSeverity(A, s)) \in Nat
                         /\ Cardinality(ofSeverity(B, s)) \in Nat
                         /\ Cardinality(ofSeverity(A, s)) <= Cardinality(ofSeverity(B, s))
  <2>1. ofSeverity(A, s) \subseteq ofSeverity(B, s) /\ IsFiniteSet(ofSeverity(B, s))
    BY FS_Subset DEF HitsOK, ofSeverity
  <2>2. QED
    BY <2>1, FS_Subset, FS_CardinalityType
<1>3. QED
  BY <1>1, <1>2 DEF Weight

\* One hit exchanged for a more severe one.
LEMMA HitsSwap ==
    ASSUME NEW A, NEW B, HitsOK(A), HitsOK(B), NEW x \in A, NEW y \in B,
           A \ {x} \subseteq B \ {y},
           SEVERITY_RISK_SCORES[x.severity] <= SEVERITY_RISK_SCORES[y.severity]
    PROVE  Weight(A) <= Weight(B)
<1>1. HitsOK(A \ {x}) /\ HitsOK(B \ {y}) /\ Weight(A \ {x}) <= Weight(B \ {y})
  <2>1. HitsOK(B \ {y})
    BY HitsSubset
  <2>2. QED
    BY <2>1, HitsSubset
<1>2. /\ Weight(A) = SEVERITY_RISK_SCORES[x.severity] + Weight(A \ {x})
      /\ Weight(B) = SEVERITY_RISK_SCORES[y.severity] + Weight(B \ {y})
  BY WeightOne
<1>3. SEVERITY_RISK_SCORES[x.severity] \in Nat /\ SEVERITY_RISK_SCORES[y.severity] \in Nat
  BY DEF HitsOK, Severity, SEVERITY_RISK_SCORES
<1>4. QED
  BY <1>1, <1>2, <1>3, WeightNat

\* More hits are no smaller a risk.
LEMMA RiskSubset ==
    ASSUME NEW B, HitsOK(B), NEW A \in SUBSET B
    PROVE  calculate_risk_score(A) <= calculate_risk_score(B)
  BY HitsSubset, RiskMonotone

\* Every result is at least as strong as ALLOW.
LEMMA AllowedNoWeaker ==
    ASSUME NEW b, b.decision \in DOMAIN DECISION_PRECEDENCE, b.risk \in Nat
    PROVE  NoWeaker(Allowed, b)
  BY DEF NoWeaker, Allowed, DetectorResult, DECISION_PRECEDENCE

\* The results of the detectors that block or warn.
LEMMA BlockOrWarnHeavier ==
    ASSUME NEW A, NEW B, HitsOK(A), HitsOK(B), Weight(A) <= Weight(B), A # {} => B # {},
           NEW p \in BOOLEAN, NEW q \in BOOLEAN, p => q
    PROVE  NoWeaker(BlockOrWarn(p, A), BlockOrWarn(q, B))
<1>1. /\ calculate_risk_score(A) <= calculate_risk_score(B)
      /\ calculate_risk_score(A) \in Nat /\ calculate_risk_score(B) \in Nat
  BY RiskOf, RiskMonotone
<1>2. CASE A = {}
  BY <1>1, <1>2 DEF NoWeaker, BlockOrWarn, Allowed, DetectorResult, DECISION_PRECEDENCE
<1>3. CASE A # {}
  BY <1>1, <1>3 DEF NoWeaker, BlockOrWarn, Allowed, DetectorResult, DECISION_PRECEDENCE
<1>4. QED
  BY <1>2, <1>3

\* A result that blocks or warns is no weaker for more hits.
LEMMA BlockOrWarnMonotone ==
    ASSUME NEW B, HitsOK(B), NEW A \in SUBSET B,
           NEW p \in BOOLEAN, NEW q \in BOOLEAN, p => q
    PROVE  NoWeaker(BlockOrWarn(p, A), BlockOrWarn(q, B))
<1>1. HitsOK(A) /\ Weight(A) <= Weight(B) /\ (A # {} => B # {})
  BY HitsSubset
<1>2. QED
  BY <1>1, BlockOrWarnHeavier

\* A result that blocks from a threshold on is no weaker for more hits.
LEMMA BlockFromMonotone ==
    ASSUME NEW B, HitsOK(B), NEW A \in SUBSET B, NEW c, c.block_threshold \in Int
    PROVE  NoWeaker(BlockFrom(c, A), BlockFrom(c, B))
<1>1. HitsOK(A)
  BY HitsSubset
<1>2. /\ calculate_risk_score(A) <= calculate_risk_score(B)
      /\ calculate_risk_score(A) \in Nat /\ calculate_risk_score(B) \in Nat
  BY <1>1, RiskOf, RiskSubset
<1> DEFINE p == c.action = "BLOCK" /\ calculate_risk_score(A) >= c.block_threshold
           q == c.action = "BLOCK" /\ calculate_risk_score(B) >= c.block_threshold
<1>3. p \in BOOLEAN /\ q \in BOOLEAN /\ (p => q)
  BY <1>2
<1>4. BlockFrom(c, A) = BlockOrWarn(p, A) /\ BlockFrom(c, B) = BlockOrWarn(q, B)
  BY DEF BlockFrom
<1> HIDE DEF p, q
<1>5. QED
  BY <1>3, <1>4, BlockOrWarnMonotone

-----------------------------------------------------------------------------
(***************************************************************************)
(* Growing texts and growing hits.                                         *)
(***************************************************************************)

\* A finite set has a finite image.
LEMMA ImageFinite ==
    ASSUME NEW S, IsFiniteSet(S), NEW e
    PROVE  IsFiniteSet({e[x] : x \in S})
<1> DEFINE T == {e[x] : x \in S}
           g == [x \in S |-> e[x]]
<1>1. g \in Surjection(S, T)
  BY DEF Surjection
<1>2. QED
  <2> HIDE DEF g, T
  <2>1. IsFiniteSet(T)
    BY <1>1, FS_Surjection
  <2>2. QED
    BY <2>1 DEF T

\* A hit for each element of a finite set.
LEMMA HitsImage ==
    ASSUME NEW S, IsFiniteSet(S), NEW e, \A x \in S : e[x].severity \in Severity
    PROVE  HitsOK({e[x] : x \in S})
  BY ImageFinite DEF HitsOK

\* The hits made of facts, all of one severity, are hits.
LEMMA HitsOfOK ==
    ASSUME NEW S, IsFiniteSet(S), NEW s \in Severity
    PROVE  HitsOK(HitsOf(S, s))
<1> DEFINE e == [x \in S |-> Hit(x, s)]
<1>1. HitsOf(S, s) = {e[x] : x \in S}
  BY DEF HitsOf
<1>2. \A x \in S : e[x].severity \in Severity
  BY DEF Hit
<1> HIDE DEF e
<1>3. QED
  BY <1>1, <1>2, HitsImage

\* Two sets of hits together are hits.
LEMMA HitsUnion ==
    ASSUME NEW A, NEW B, HitsOK(A), HitsOK(B)
    PROVE  HitsOK(A \cup B)
  BY FS_Union DEF HitsOK

\* So are four.
LEMMA HitsUnions ==
    ASSUME NEW A, NEW B, NEW C, NEW D, HitsOK(A), HitsOK(B), HitsOK(C), HitsOK(D)
    PROVE  HitsOK(A \cup B \cup C \cup D)
<1>1. HitsOK(A \cup B)
  BY HitsUnion
<1>2. HitsOK((A \cup B) \cup C)
  BY <1>1, HitsUnion
<1>3. QED
  BY <1>2, HitsUnion

\* No hits are hits.
LEMMA HitsNone == HitsOK({})
  BY FS_EmptySet DEF HitsOK

\* One hit is.
LEMMA HitsOne ==
    ASSUME NEW id, NEW s \in Severity
    PROVE  HitsOK({Hit(id, s)})
<1>1. IsFiniteSet({Hit(id, s)})
  BY FS_Singleton
<1>2. Hit(id, s).severity = s
  BY DEF Hit
<1>3. QED
  BY <1>1, <1>2 DEF HitsOK

\* A finding is one hit, or none.
LEMMA HitsFinding ==
    ASSUME NEW on, NEW id, NEW s \in Severity
    PROVE  HitsOK(Finding(on, id, s))
  BY HitsNone, HitsOne DEF Finding

\* The hits of finitely many facts together are hits.
LEMMA HitsUNION ==
    ASSUME NEW S, IsFiniteSet(S), NEW e, \A x \in S : HitsOK(e[x])
    PROVE  HitsOK(UNION {e[x] : x \in S})
<1>1. IsFiniteSet({e[x] : x \in S})
  BY ImageFinite
<1>2. \A T \in {e[x] : x \in S} : IsFiniteSet(T)
  BY DEF HitsOK
<1>3. IsFiniteSet(UNION {e[x] : x \in S})
  BY <1>1, <1>2, FS_UNION
<1>4. QED
  BY <1>3 DEF HitsOK

\* The severities are those that calculate_risk_score has points for.
LEMMA Severities == {"low", "medium", "high"} = Severity
  BY DEF Severity, SEVERITY_RISK_SCORES

(***************************************************************************)
(* A text grows by a harmful fact.                                         *)
(***************************************************************************)
Sound(r, c, t) ==
    /\ IsFiniteSet(t)
    /\ SettingOK(r, c)
    /\ \A g \in t : FactOK(r, g) /\ ReadingOK(r, c, g)
    /\ \A g, h \in t : Slot(r, g) = Slot(r, h) => g = h

Worse(r, c, t, f) ==
    /\ Sound(r, c, t) /\ Sound(r, c, t \cup {f}) /\ f \notin t
    /\ Harmful(r, c, f)

\* What one more fact does to the matches and the signs of context of a text.
LEMMA MatchesGrow ==
    ASSUME NEW t, IsFiniteSet(t), NEW f
    PROVE  /\ Matches(t) \subseteq Matches(t \cup {f})
           /\ IsFiniteSet(t \cup {f})
           /\ IsFiniteSet(Matches(t)) /\ IsFiniteSet(Matches(t \cup {f}))
           /\ f.kind = "match" => Matches(t \cup {f}) = Matches(t) \cup {f}
           /\ f.kind # "match" => Matches(t \cup {f}) = Matches(t)
           /\ Contexts(t) \subseteq Contexts(t \cup {f})
<1>1. IsFiniteSet(t \cup {f})
  BY FS_AddElement
<1>2. Matches(t) \subseteq t /\ Matches(t \cup {f}) \subseteq t \cup {f}
  BY DEF Matches
<1>3. IsFiniteSet(Matches(t)) /\ IsFiniteSet(Matches(t \cup {f}))
  BY <1>1, <1>2, FS_Subset
<1>4. Contexts(t) \subseteq Contexts(t \cup {f})
  BY DEF Contexts
<1>5. QED
  BY <1>1, <1>3, <1>4 DEF Matches

\* A match is no sign of context.
LEMMA ContextsKept ==
    ASSUME NEW t, NEW f, f.kind = "match"
    PROVE  Contexts(t \cup {f}) = Contexts(t)
  BY DEF Contexts

\* ALLOW is no weaker than ALLOW.
LEMMA AllowedAgain == NoWeaker(Allowed, Allowed)
  BY DEF NoWeaker, Allowed, DetectorResult, DECISION_PRECEDENCE


\* The matches of a text that a harmful fact was added to.
LEMMA Grown ==
    ASSUME NEW r, NEW c, NEW t, NEW f, Worse(r, c, t, f)
    PROVE  /\ Matches(t) \subseteq Matches(t \cup {f})
           /\ IsFiniteSet(t) /\ IsFiniteSet(t \cup {f})
           /\ IsFiniteSet(Matches(t)) /\ IsFiniteSet(Matches(t \cup {f}))
           /\ f.kind = "match" => Matches(t \cup {f}) = Matches(t) \cup {f}
           /\ f.kind # "match" => Matches(t \cup {f}) = Matches(t)
           /\ Contexts(t) \subseteq Contexts(t \cup {f})
  BY MatchesGrow DEF Worse, Sound

\* More hits, all of a known severity.
Grew(A, B) == A \subseteq B /\ HitsOK(B)

\* The hits that e makes of S.
Image(e, S) == {e[x] : x \in S}

\* Hits made of more facts are more hits.
LEMMA GrewImage ==
    ASSUME NEW S, NEW T, IsFiniteSet(T), S \subseteq T,
           NEW e, \A x \in T : e[x].severity \in Severity
    PROVE  Grew(Image(e, S), Image(e, T))
  BY HitsImage DEF Grew, Image

\* More facts of one severity are more hits.
LEMMA GrewHitsOf ==
    ASSUME NEW S, NEW T, IsFiniteSet(T), S \subseteq T, NEW s \in Severity
    PROVE  Grew(HitsOf(S, s), HitsOf(T, s))
<1>1. HitsOf(S, s) \subseteq HitsOf(T, s)
  BY DEF HitsOf
<1>2. QED
  BY <1>1, HitsOfOK DEF Grew

\* A finding whose condition stays true stays.
LEMMA GrewFinding ==
    ASSUME NEW p \in BOOLEAN, NEW q \in BOOLEAN, p => q, NEW id, NEW s \in Severity
    PROVE  Grew(Finding(p, id, s), Finding(q, id, s))
<1>1. Finding(p, id, s) \subseteq Finding(q, id, s)
  BY DEF Finding
<1>2. QED
  BY <1>1, HitsFinding DEF Grew

\* More hits of two kinds are more hits.
LEMMA GrewUnion ==
    ASSUME NEW A, NEW B, Grew(A, B), NEW C, NEW D, Grew(C, D)
    PROVE  Grew(A \cup C, B \cup D)
  BY HitsUnion DEF Grew

\* A rule that is off has no hits before and after.
LEMMA GrewNone == Grew({}, {})
  BY HitsNone DEF Grew

\* More hits are no smaller a risk.
LEMMA GrewFacts ==
    ASSUME NEW A, NEW B, Grew(A, B)
    PROVE  /\ A \subseteq B /\ HitsOK(A) /\ HitsOK(B)
           /\ calculate_risk_score(A) \in 0 .. 100 /\ calculate_risk_score(B) \in 0 .. 100
           /\ calculate_risk_score(A) <= calculate_risk_score(B)
  BY HitsSubset, RiskSubset, RiskOf DEF Grew

\* A detector that blocks or warns on its hits is no weaker for more of them.
LEMMA GrewBlockOrWarn ==
    ASSUME NEW A, NEW B, Grew(A, B), NEW p \in BOOLEAN, NEW q \in BOOLEAN, p => q
    PROVE  NoWeaker(BlockOrWarn(p, A), BlockOrWarn(q, B))
  BY BlockOrWarnMonotone DEF Grew

\* A detector that blocks from a risk on is no weaker for more hits.
LEMMA GrewBlockFrom ==
    ASSUME NEW A, NEW B, Grew(A, B), NEW c, c.block_threshold \in Int
    PROVE  NoWeaker(BlockFrom(c, A), BlockFrom(c, B))
  BY BlockFromMonotone DEF Grew

\* A detector whose result is got from the hits alone, once it is enabled.
LEMMA GrewRisk ==
    ASSUME NEW A, NEW B, Grew(A, B), NEW n \in Int
    PROVE  NoWeaker(BlockOrWarn(calculate_risk_score(A) >= n, A),
                    BlockOrWarn(calculate_risk_score(B) >= n, B))
<1> DEFINE p == calculate_risk_score(A) >= n
           q == calculate_risk_score(B) >= n
<1>1. p \in BOOLEAN /\ q \in BOOLEAN /\ (p => q)
  BY GrewFacts
<1> HIDE DEF p, q
<1>2. NoWeaker(BlockOrWarn(p, A), BlockOrWarn(q, B))
  BY <1>1, GrewBlockOrWarn
<1>3. QED
  BY <1>2 DEF p, q

\* More facts with any number of hits each are more hits.
LEMMA GrewUNION ==
    ASSUME NEW S, NEW T, IsFiniteSet(T), S \subseteq T, NEW e, \A x \in T : HitsOK(e[x])
    PROVE  Grew(UNION Image(e, S), UNION Image(e, T))
<1>1. UNION Image(e, S) \subseteq UNION Image(e, T)
  BY DEF Image
<1>2. QED
  BY <1>1, HitsUNION DEF Grew, Image

\* The part of a growing set that a test selects.
LEMMA SelectGrows ==
    ASSUME NEW S, NEW T, IsFiniteSet(T), S \subseteq T, NEW P
    PROVE  /\ IsFiniteSet({x \in S : P[x]}) /\ IsFiniteSet({x \in T : P[x]})
           /\ {x \in S : P[x]} \subseteq {x \in T : P[x]}
  BY FS_Subset

-----------------------------------------------------------------------------
(***************************************************************************)
(* The detectors, one by one. A harmful fact more is a result that is no   *)
(* weaker.                                                                 *)
(***************************************************************************)

\* A bank of patterns scanned over more matches has more hits.
LEMMA GrewScan ==
    ASSUME NEW t, NEW u, IsFiniteSet(Matches(u)), Matches(t) \subseteq Matches(u), NEW bank, NEW table,
           \A m \in Matches(u) : m.bank = bank => table[m.name] \in Severity
    PROVE  Grew(scan_patterns(t, bank, table), scan_patterns(u, bank, table))
<1> DEFINE e == [m \in Matches(u) |-> Hit(m.name, table[m.name])]
           S == {n \in Matches(t) : n.bank = bank}
           T == {n \in Matches(u) : n.bank = bank}
<1>1. IsFiniteSet(T) /\ S \subseteq T
  BY FS_Subset
<1>2. \A m \in T : e[m].severity \in Severity
  BY DEF Hit
<1>3. scan_patterns(t, bank, table) = Image(e, S) /\ scan_patterns(u, bank, table) = Image(e, T)
  BY DEF scan_patterns, Image
<1> HIDE DEF e, S, T
<1>4. QED
  BY <1>1, <1>2, <1>3, GrewImage

\* tool_output_injection.detect: a harmful fact more is a result that is no weaker.
LEMMA ToolOutputMonotone ==
    ASSUME NEW c, NEW t, NEW f, Worse("tool_output_injection", c, t, f)
    PROVE  NoWeaker(tool_output_injection_detect(c, t), tool_output_injection_detect(c, t \cup {f}))
<1> DEFINE u == t \cup {f}
           e == [m \in Matches(u) |-> Hit(m.name, exfiltration_patterns[m.name])]
           S(x) == {m \in Matches(x) : m.bank = "exfiltration" /\ ~m.disguised}
           H(x) == scan_injection(x) \cup Image(e, S(x))
<1>1. c.block_threshold \in Int
  BY DEF Worse, Sound, SettingOK
<1>2. /\ \A m \in Matches(u) : m.bank = "injection" => INJECTION_PATTERNS[m.name] \in Severity
      /\ \A m \in Matches(u) : m.bank = "exfiltration" => exfiltration_patterns[m.name] \in Severity
  BY DEF Worse, Sound, FactOK, Matches
<1>3. IsFiniteSet(Matches(u)) /\ Matches(t) \subseteq Matches(u)
  BY Grown
<1>4. Grew(scan_injection(t), scan_injection(u))
  <2> HIDE DEF u
  <2>1. QED
    BY <1>2, <1>3, GrewScan DEF scan_injection
<1>5. Grew(Image(e, S(t)), Image(e, S(u)))
  <2>1. IsFiniteSet(S(u)) /\ S(t) \subseteq S(u)
    BY <1>3, FS_Subset
  <2>2. \A m \in S(u) : e[m].severity \in Severity
    BY <1>2 DEF Hit
  <2> HIDE DEF e, S
  <2>3. QED
    BY <2>1, <2>2, GrewImage
<1>6. Grew(H(t), H(u))
  <2> HIDE DEF e, S, u
  <2>1. QED
    BY <1>4, <1>5, GrewUnion
<1>7. CASE c.enabled
  <2>1. /\ tool_output_injection_detect(c, t) = BlockFrom(c, H(t))
        /\ tool_output_injection_detect(c, u) = BlockFrom(c, H(u))
    BY <1>3, <1>7 DEF tool_output_injection_detect, Image
  <2> HIDE DEF H
  <2>2. QED
    BY <1>1, <1>6, <2>1, GrewBlockFrom
<1>8. CASE ~c.enabled
  BY <1>8, AllowedAgain DEF tool_output_injection_detect
<1>9. QED
  BY <1>7, <1>8

\* retrieval_chunk_injection.detect: a harmful fact more is a result that is no weaker.
LEMMA RetrievalChunkMonotone ==
    ASSUME NEW c, NEW t, NEW f, Worse("retrieval_chunk_injection", c, t, f)
    PROVE  NoWeaker(retrieval_chunk_injection_detect(c, t), retrieval_chunk_injection_detect(c, t \cup {f}))
<1> DEFINE u == t \cup {f}
           H(x) == scan_injection(x) \cup scan_patterns(x, "lure", _TOOL_LURE_PATTERNS)
<1>1. c.block_threshold \in Int
  BY DEF Worse, Sound, SettingOK
<1>2. /\ \A m \in Matches(u) : m.bank = "injection" => INJECTION_PATTERNS[m.name] \in Severity
      /\ \A m \in Matches(u) : m.bank = "lure" => _TOOL_LURE_PATTERNS[m.name] \in Severity
  BY DEF Worse, Sound, FactOK, Matches
<1>3. IsFiniteSet(Matches(u)) /\ Matches(t) \subseteq Matches(u)
  BY Grown
<1>4. Grew(H(t), H(u))
  <2> HIDE DEF u
  <2>1. Grew(scan_injection(t), scan_injection(u))
    BY <1>2, <1>3, GrewScan DEF scan_injection
  <2>2. Grew(scan_patterns(t, "lure", _TOOL_LURE_PATTERNS), scan_patterns(u, "lure", _TOOL_LURE_PATTERNS))
    BY <1>2, <1>3, GrewScan
  <2>3. QED
    BY <2>1, <2>2, GrewUnion
<1>5. CASE c.enabled
  <2>1. retrieval_chunk_injection_detect(c, t) = BlockFrom(c, H(t)) /\ retrieval_chunk_injection_detect(c, u) = BlockFrom(c, H(u))
    BY <1>5 DEF retrieval_chunk_injection_detect
  <2> HIDE DEF H
  <2>2. QED
    BY <1>1, <1>4, <2>1, GrewBlockFrom
<1>6. CASE ~c.enabled
  BY <1>6, AllowedAgain DEF retrieval_chunk_injection_detect
<1>7. QED
  BY <1>5, <1>6

\* memory_write_poisoning.detect: a harmful fact more is a result that is no weaker.
LEMMA MemoryWriteMonotone ==
    ASSUME NEW c, NEW t, NEW f, Worse("memory_write_poisoning", c, t, f)
    PROVE  NoWeaker(memory_write_poisoning_detect(c, t), memory_write_poisoning_detect(c, t \cup {f}))
<1> DEFINE u == t \cup {f}
           H(x) == scan_injection(x) \cup scan_patterns(x, "future", _FUTURE_BEHAVIOUR_PATTERNS)
<1>1. c.block_threshold \in Int
  BY DEF Worse, Sound, SettingOK
<1>2. /\ \A m \in Matches(u) : m.bank = "injection" => INJECTION_PATTERNS[m.name] \in Severity
      /\ \A m \in Matches(u) : m.bank = "future" => _FUTURE_BEHAVIOUR_PATTERNS[m.name] \in Severity
  BY DEF Worse, Sound, FactOK, Matches
<1>3. IsFiniteSet(Matches(u)) /\ Matches(t) \subseteq Matches(u)
  BY Grown
<1>4. Grew(H(t), H(u))
  <2> HIDE DEF u
  <2>1. Grew(scan_injection(t), scan_injection(u))
    BY <1>2, <1>3, GrewScan DEF scan_injection
  <2>2. Grew(scan_patterns(t, "future", _FUTURE_BEHAVIOUR_PATTERNS), scan_patterns(u, "future", _FUTURE_BEHAVIOUR_PATTERNS))
    BY <1>2, <1>3, GrewScan
  <2>3. QED
    BY <2>1, <2>2, GrewUnion
<1>5. CASE c.enabled
  <2>1. memory_write_poisoning_detect(c, t) = BlockFrom(c, H(t)) /\ memory_write_poisoning_detect(c, u) = BlockFrom(c, H(u))
    BY <1>5 DEF memory_write_poisoning_detect
  <2> HIDE DEF H
  <2>2. QED
    BY <1>1, <1>4, <2>1, GrewBlockFrom
<1>6. CASE ~c.enabled
  BY <1>6, AllowedAgain DEF memory_write_poisoning_detect
<1>7. QED
  BY <1>5, <1>6

\* exfiltration.detect: a harmful fact more is a result that is no weaker.
LEMMA ExfiltrationMonotone ==
    ASSUME NEW c, NEW t, NEW f, Worse("exfiltration", c, t, f)
    PROVE  NoWeaker(exfiltration_detect(c, t), exfiltration_detect(c, t \cup {f}))
<1> DEFINE u == t \cup {f}
           e == [m \in Matches(u) |-> Hit(m.class, exfiltration_patterns[m.class])]
           S(x) == Matches(x)
           H(x) == Image(e, S(x))
<1>1. c.block_threshold \in Int
  BY DEF Worse, Sound, SettingOK
<1>2. IsFiniteSet(Matches(u)) /\ Matches(t) \subseteq Matches(u)
  BY Grown
<1>3. IsFiniteSet(S(u)) /\ S(t) \subseteq S(u) /\ S(u) \subseteq Matches(u)
  BY <1>2, FS_Subset
<1>4. \A m \in S(u) : e[m].severity \in Severity
  BY <1>3, Severities DEF Worse, Sound, FactOK, Matches, Hit
<1>5. Grew(H(t), H(u))
  <2> HIDE DEF e, S
  <2>1. QED
    BY <1>3, <1>4, GrewImage
<1>6. CASE c.enabled
  <2>1. exfiltration_detect(c, t) = BlockOrWarn(calculate_risk_score(H(t)) >= c.block_threshold, H(t))
    BY <1>2, <1>6 DEF exfiltration_detect, Image, BlockOrWarn
  <2>2. exfiltration_detect(c, u) = BlockOrWarn(calculate_risk_score(H(u)) >= c.block_threshold, H(u))
    BY <1>6 DEF exfiltration_detect, Image, BlockOrWarn
  <2> HIDE DEF H
  <2>3. QED
    BY <1>1, <1>5, <2>1, <2>2, GrewRisk
<1>7. CASE ~c.enabled
  BY <1>7, AllowedAgain DEF exfiltration_detect
<1>8. QED
  BY <1>6, <1>7

\* document_metadata_leakage.detect: a harmful fact more is a result that is no weaker.
LEMMA DocumentMonotone ==
    ASSUME NEW c, NEW t, NEW f, Worse("document_metadata_leakage", c, t, f)
    PROVE  NoWeaker(document_metadata_leakage_detect(c, t), document_metadata_leakage_detect(c, t \cup {f}))
<1> DEFINE u == t \cup {f}
           e == [m \in Matches(u) |-> Hit(m.artifact, document_artifacts[m.artifact])]
           S(x) == Matches(x)
           H(x) == Image(e, S(x))
<1>1. c.block_threshold \in Int
  BY DEF Worse, Sound, SettingOK
<1>2. IsFiniteSet(Matches(u)) /\ Matches(t) \subseteq Matches(u)
  BY Grown
<1>3. IsFiniteSet(S(u)) /\ S(t) \subseteq S(u) /\ S(u) \subseteq Matches(u)
  BY <1>2, FS_Subset
<1>4. \A m \in S(u) : e[m].severity \in Severity
  BY <1>3, Severities DEF Worse, Sound, FactOK, Matches, Hit
<1>5. Grew(H(t), H(u))
  <2> HIDE DEF e, S
  <2>1. QED
    BY <1>3, <1>4, GrewImage
<1>6. CASE c.enabled
  <2>1. document_metadata_leakage_detect(c, t) = BlockFrom(c, H(t))
    BY <1>2, <1>6 DEF document_metadata_leakage_detect, Image, BlockOrWarn
  <2>2. document_metadata_leakage_detect(c, u) = BlockFrom(c, H(u))
    BY <1>6 DEF document_metadata_leakage_detect, Image, BlockOrWarn
  <2> HIDE DEF H
  <2>3. QED
    BY <1>1, <1>5, <2>1, <2>2, GrewBlockFrom
<1>7. CASE ~c.enabled
  BY <1>7, AllowedAgain DEF document_metadata_leakage_detect
<1>8. QED
  BY <1>6, <1>7

\* embedding_integrity.detect: a harmful fact more is a result that is no weaker.
LEMMA EmbeddingMonotone ==
    ASSUME NEW c, NEW t, NEW f, Worse("embedding_integrity", c, t, f)
    PROVE  NoWeaker(embedding_integrity_detect(c, t), embedding_integrity_detect(c, t \cup {f}))
<1> DEFINE u == t \cup {f}
           e == [m \in Matches(u) |-> Hit(m.signal, embedding_signals[m.signal])]
           S(x) == Matches(x)
           H(x) == Image(e, S(x))
<1>1. c.block_threshold \in Int
  BY DEF Worse, Sound, SettingOK
<1>2. IsFiniteSet(Matches(u)) /\ Matches(t) \subseteq Matches(u)
  BY Grown
<1>3. IsFiniteSet(S(u)) /\ S(t) \subseteq S(u) /\ S(u) \subseteq Matches(u)
  BY <1>2, FS_Subset
<1>4. \A m \in S(u) : e[m].severity \in Severity
  BY <1>3, Severities DEF Worse, Sound, FactOK, Matches, Hit
<1>5. Grew(H(t), H(u))
  <2> HIDE DEF e, S
  <2>1. QED
    BY <1>3, <1>4, GrewImage
<1>6. CASE c.enabled
  <2>1. embedding_integrity_detect(c, t) = BlockOrWarn(c.action = "BLOCK" /\ calculate_risk_score(H(t)) >= c.block_threshold, H(t))
    BY <1>2, <1>6 DEF embedding_integrity_detect, Image, BlockOrWarn
  <2>2. embedding_integrity_detect(c, u) = BlockOrWarn(c.action = "BLOCK" /\ calculate_risk_score(H(u)) >= c.block_threshold, H(u))
    BY <1>6 DEF embedding_integrity_detect, Image, BlockOrWarn
  <2> HIDE DEF H
  <2>3. QED
    BY <1>1, <1>5, <2>1, <2>2, GrewBlockFrom DEF BlockFrom
<1>7. CASE ~c.enabled
  BY <1>7, AllowedAgain DEF embedding_integrity_detect
<1>8. QED
  BY <1>6, <1>7

\* numerical_consistency.detect: a harmful fact more is a result that is no weaker.
LEMMA NumericalMonotone ==
    ASSUME NEW c, NEW t, NEW f, Worse("numerical_consistency", c, t, f)
    PROVE  NoWeaker(numerical_consistency_detect(c, t), numerical_consistency_detect(c, t \cup {f}))
<1> DEFINE u == t \cup {f}
           e == [m \in Matches(u) |-> Hit(m, "high")]
           S(x) == {m \in Matches(x) : LET r == _apply(m.a, m.op, m.b) IN r[2] # 0 /\ _mismatch(r, m.c)}
           H(x) == Image(e, S(x))
<1>1. c.block_threshold \in Int
  BY DEF Worse, Sound, SettingOK
<1>2. IsFiniteSet(Matches(u)) /\ Matches(t) \subseteq Matches(u)
  BY Grown
<1>3. IsFiniteSet(S(u)) /\ S(t) \subseteq S(u) /\ S(u) \subseteq Matches(u)
  BY <1>2, FS_Subset
<1>4. \A m \in S(u) : e[m].severity \in Severity
  BY <1>3, Severities DEF Hit
<1>5. Grew(H(t), H(u))
  <2> HIDE DEF e, S
  <2>1. QED
    BY <1>3, <1>4, GrewImage
<1>6. CASE c.enabled
  <2>1. numerical_consistency_detect(c, t) = BlockFrom(c, H(t))
    BY <1>2, <1>6 DEF numerical_consistency_detect, HitsOf, Image, BlockOrWarn
  <2>2. numerical_consistency_detect(c, u) = BlockFrom(c, H(u))
    BY <1>6 DEF numerical_consistency_detect, HitsOf, Image, BlockOrWarn
  <2> HIDE DEF H
  <2>3. QED
    BY <1>1, <1>5, <2>1, <2>2, GrewBlockFrom
<1>7. CASE ~c.enabled
  BY <1>7, AllowedAgain DEF numerical_consistency_detect
<1>8. QED
  BY <1>6, <1>7

\* citation_integrity.detect: a harmful fact more is a result that is no weaker.
LEMMA CitationMonotone ==
    ASSUME NEW c, NEW t, NEW f, Worse("citation_integrity", c, t, f)
    PROVE  NoWeaker(citation_integrity_detect(c, t), citation_integrity_detect(c, t \cup {f}))
<1> DEFINE u == t \cup {f}
           e == [m \in Matches(u) |-> Hit(m, IF m.what = "quote" THEN "medium" ELSE "high")]
           S(x) == {m \in Matches(x) : ~supported(c, m)}
           missing(x) == IF c.require_sources /\ Matches(x) # {}
                         THEN {Hit("missing_sources", "medium")} ELSE {}
           H(x) == IF has_grounding(c) THEN Image(e, S(x)) ELSE missing(x)
<1>1. c.block_threshold \in Int
  BY DEF Worse, Sound, SettingOK
<1>2. IsFiniteSet(Matches(u)) /\ Matches(t) \subseteq Matches(u)
  BY Grown
<1>3. Grew(Image(e, S(t)), Image(e, S(u)))
  <2>1. IsFiniteSet(S(u)) /\ S(t) \subseteq S(u)
    BY <1>2, FS_Subset
  <2>2. \A m \in S(u) : e[m].severity \in Severity
    BY Severities DEF Hit
  <2> HIDE DEF e, S
  <2>3. QED
    BY <2>1, <2>2, GrewImage
<1>4. Grew(missing(t), missing(u))
  <2>1. HitsOK({Hit("missing_sources", "medium")}) /\ HitsOK({})
    BY HitsOne, HitsNone, Severities
  <2>2. QED
    BY <1>2, <2>1 DEF Grew
<1>5. Grew(H(t), H(u))
  <2> HIDE DEF e, S, missing
  <2>1. QED
    BY <1>3, <1>4
<1>6. CASE c.enabled
  <2>1. citation_integrity_detect(c, t) = BlockFrom(c, H(t))
    BY <1>2, <1>6 DEF citation_integrity_detect, Image, BlockFrom
  <2>2. citation_integrity_detect(c, u) = BlockFrom(c, H(u))
    BY <1>6 DEF citation_integrity_detect, Image, BlockFrom
  <2> HIDE DEF H
  <2>3. QED
    BY <1>1, <1>5, <2>1, <2>2, GrewBlockFrom
<1>7. CASE ~c.enabled
  BY <1>7, AllowedAgain DEF citation_integrity_detect
<1>8. QED
  BY <1>6, <1>7

\* excessive_agency.detect: a harmful fact more is a result that is no weaker.
LEMMA ExcessiveAgencyMonotone ==
    ASSUME NEW c, NEW t, NEW f, Worse("excessive_agency", c, t, f)
    PROVE  NoWeaker(excessive_agency_detect(c, t), excessive_agency_detect(c, t \cup {f}))
<1> DEFINE u == t \cup {f}
           e == [m \in Matches(u) |-> Hit(m.category, _ACTION_CATEGORIES[m.category])]
           S(x) == {m \in Matches(x) : ~m.too_deep
                                         /\ (c.high_risk_actions \/ m.category # "org_high_risk_action")}
           found(x) == build_action_scan_text(x)
                           \ (IF c.high_risk_actions THEN {} ELSE {"org_high_risk_action"})
           hits(x) == {Hit(y, _ACTION_CATEGORIES[y]) : y \in found(x)}
           H(x) == Image(e, S(x))
<1>1. c.block_threshold \in Int /\ c.warn_threshold \in Int
  BY DEF Worse, Sound, SettingOK
<1>2. IsFiniteSet(Matches(u)) /\ Matches(t) \subseteq Matches(u)
  BY Grown
<1>3. Grew(H(t), H(u))
  <2>1. IsFiniteSet(S(u)) /\ S(t) \subseteq S(u)
    BY <1>2, FS_Subset
  <2>2. \A m \in S(u) : e[m].severity \in Severity
    BY DEF Worse, Sound, FactOK, Matches, Hit
  <2> HIDE DEF e, S
  <2>3. QED
    BY <2>1, <2>2, GrewImage
<1>4. ASSUME NEW x \in {t, u} PROVE hits(x) = H(x)
  <2>1. found(x) = {m.category : m \in S(x)}
    BY DEF build_action_scan_text
  <2>2. S(x) \subseteq Matches(u)
    BY <1>2
  <2> HIDE DEF found, S
  <2>3. QED
    BY <2>1, <2>2 DEF Image
<1> DEFINE result(h) ==
             LET risk == calculate_risk_score(h)
             IN  IF ~c.enabled \/ h = {} THEN Allowed
                 ELSE DetectorResult(
                    CASE c.action = "BLOCK" /\ risk >= c.block_threshold -> "BLOCK"
                      [] risk >= c.warn_threshold /\ ~(c.action = "BLOCK" /\ risk >= c.block_threshold)
                            -> "WARN"
                      [] OTHER -> "ALLOW", risk, h)
<1>5. ASSUME NEW x \in {t, u} PROVE excessive_agency_detect(c, x) = result(H(x))
  <2>1. excessive_agency_detect(c, x) = result(hits(x))
    BY DEF excessive_agency_detect
  <2> HIDE DEF hits, H, result
  <2>2. QED
    BY <1>4, <2>1
<1>6. NoWeaker(result(H(t)), result(H(u)))
  <2> HIDE DEF H
  <2>2. QED
    BY <1>1, <1>3, GrewFacts DEF NoWeaker, Allowed, DetectorResult, DECISION_PRECEDENCE
<1>7. QED
  <2> HIDE DEF result, H
  <2>1. QED
    BY <1>5, <1>6

\* A detector with one decision for any hit is no weaker for more hits.
LEMMA GrewSame ==
    ASSUME NEW A, NEW B, Grew(A, B), NEW d \in DOMAIN DECISION_PRECEDENCE
    PROVE  NoWeaker(IF A = {} THEN Allowed ELSE DetectorResult(d, calculate_risk_score(A), A),
                    IF B = {} THEN Allowed ELSE DetectorResult(d, calculate_risk_score(B), B))
<1>1. DECISION_PRECEDENCE[d] \in Nat
  BY DEF DECISION_PRECEDENCE
<1>2. DECISION_PRECEDENCE["ALLOW"] = 0
  BY DEF DECISION_PRECEDENCE
<1>3. QED
  BY <1>1, <1>2, GrewFacts DEF NoWeaker, Allowed, DetectorResult

\* What malicious_url._check_url finds in a URL are hits.
LEMMA CheckUrlHits == ASSUME NEW c, NEW m PROVE HitsOK(_check_url(c, m))
<1> DEFINE Trait(x, severity, on) == IF on /\ x \in m.traits THEN {Hit(<<m, x>>, severity)} ELSE {}
<1>1. ASSUME NEW x, NEW s \in Severity, NEW on PROVE HitsOK(Trait(x, s, on))
  BY HitsNone, HitsOne
<1>2. \A x : HitsOK({Hit(<<m, x>>, "high")}) /\ HitsOK({})
  BY HitsOne, HitsNone, Severities
<1>3. HitsOK(Trait("ip", "medium", c.block_ip_urls)
             \cup Trait("shortener", "medium", c.block_shorteners)
             \cup Trait("suspicious_tld", "low", TRUE)
             \cup Trait("punycode", "medium", TRUE)
             \cup Trait("homoglyph", "high", TRUE)
             \cup Trait("subdomains", "medium", TRUE))
  <2> HIDE DEF Trait
  <2>1. QED
    BY <1>1, HitsUnion, Severities
<1>4. QED
  BY <1>2, <1>3 DEF _check_url

\* malicious_url.detect: a harmful fact more is a result that is no weaker.
LEMMA MaliciousUrlMonotone ==
    ASSUME NEW c, NEW t, NEW f, Worse("malicious_url", c, t, f)
    PROVE  NoWeaker(malicious_url_detect(c, t), malicious_url_detect(c, t \cup {f}))
<1> DEFINE u == t \cup {f}
           e == [m \in Matches(u) |-> _check_url(c, m)]
           H(x) == UNION Image(e, Matches(x))
           d == CASE c.action = "REDACT" -> "REDACT" [] c.action = "BLOCK" -> "BLOCK" [] OTHER -> "WARN"
<1>1. IsFiniteSet(Matches(u)) /\ Matches(t) \subseteq Matches(u)
  BY Grown
<1>2. Grew(H(t), H(u))
  <2>1. \A m \in Matches(u) : HitsOK(e[m])
    BY CheckUrlHits
  <2> HIDE DEF e, u
  <2>2. QED
    BY <1>1, <2>1, GrewUNION
<1>3. \A x \in {t, u} : H(x) = UNION {_check_url(c, m) : m \in Matches(x)}
  BY <1>1 DEF Image
<1>4. d \in DOMAIN DECISION_PRECEDENCE
  BY DEF DECISION_PRECEDENCE
<1>5. CASE c.enabled
  <2>1. \A x \in {t, u} : malicious_url_detect(c, x)
            = IF H(x) = {} THEN Allowed ELSE DetectorResult(d, calculate_risk_score(H(x)), H(x))
    <3>1. \A x \in {t, u} : malicious_url_detect(c, x)
            = LET h == UNION {_check_url(c, m) : m \in Matches(x)}
              IN  IF h = {} THEN Allowed ELSE DetectorResult(d, calculate_risk_score(h), h)
      BY <1>5 DEF malicious_url_detect
    <3> HIDE DEF H, d, u
    <3>2. QED
      BY <1>3, <3>1
  <2> HIDE DEF H, d
  <2>2. QED
    BY <1>2, <1>4, <2>1, GrewSame
<1>6. CASE ~c.enabled
  BY <1>6, AllowedAgain DEF malicious_url_detect
<1>7. QED
  BY <1>5, <1>6

\* What malicious_url finds in a bare domain are hits.
LEMMA ScanDomainHits == ASSUME NEW c, NEW m, NEW wide PROVE HitsOK(_scan_domains(c, m, wide))
<1>1. \A id : HitsOK({Hit(id, "high")}) /\ HitsOK({Hit(id, "medium")}) /\ HitsOK({})
  BY HitsOne, HitsNone, Severities
<1>2. QED
  BY <1>1 DEF _scan_domains

\* mcp_manifest_scanner.detect: a harmful fact more is a result that is no weaker.
LEMMA McpMonotone ==
    ASSUME NEW c, NEW t, NEW f, Worse("mcp_manifest_scanner", c, t, f)
    PROVE  NoWeaker(mcp_manifest_scanner_detect(c, t), mcp_manifest_scanner_detect(c, t \cup {f}))
<1> DEFINE u == t \cup {f}
           e == [m \in Matches(u) |-> Hit(<<"pattern", m.class>>, mcp_patterns[m.class])]
           p == [m \in Matches(u) |-> Hit(<<"dangerous_permission", m.class>>, "high")]
           d == [m \in Matches(u) |-> _scan_domains(c, m, TRUE)]
           b == [m \in Matches(u) |-> _scan_domains(c, m, FALSE)]
           perms(x) == {n \in _collect(x, "perm") : n.class \in c.dangerous_permissions}
           H(x) == Image(e, _collect(x, "text")) \cup Image(p, perms(x))
                     \cup (UNION Image(d, _collect(x, "egress"))) \cup (UNION Image(b, _collect(x, "url")))
<1>1. c.block_threshold \in Int
  BY DEF Worse, Sound, SettingOK
<1>2. IsFiniteSet(Matches(u)) /\ Matches(t) \subseteq Matches(u)
  BY Grown
<1>3. \A w : /\ IsFiniteSet(_collect(u, w)) /\ _collect(t, w) \subseteq _collect(u, w)
             /\ _collect(u, w) \subseteq Matches(u)
  <2>1. \A w : /\ _collect(u, w) \subseteq Matches(u) /\ _collect(t, w) \subseteq _collect(u, w)
    BY <1>2 DEF _collect
  <2>2. QED
    BY <1>2, <2>1, FS_Subset
<1>4. Grew(Image(e, _collect(t, "text")), Image(e, _collect(u, "text")))
  <2>1. \A m \in _collect(u, "text") : e[m].severity \in Severity
    BY DEF Worse, Sound, FactOK, _collect, Matches, Hit
  <2> HIDE DEF e
  <2>2. QED
    BY <1>3, <2>1, GrewImage
<1>5. Grew(Image(p, perms(t)), Image(p, perms(u)))
  <2>1. IsFiniteSet(perms(u)) /\ perms(t) \subseteq perms(u)
    BY <1>3, FS_Subset
  <2>2. \A m \in perms(u) : p[m].severity \in Severity
    BY <1>3, Severities DEF Hit
  <2> HIDE DEF p, perms
  <2>3. QED
    BY <2>1, <2>2, GrewImage
<1>6. Grew(UNION Image(d, _collect(t, "egress")), UNION Image(d, _collect(u, "egress")))
  <2>1. \A m \in _collect(u, "egress") : HitsOK(d[m])
    BY <1>3, ScanDomainHits
  <2> HIDE DEF d
  <2>2. QED
    BY <1>3, <2>1, GrewUNION
<1>7. Grew(UNION Image(b, _collect(t, "url")), UNION Image(b, _collect(u, "url")))
  <2>1. \A m \in _collect(u, "url") : HitsOK(b[m])
    BY <1>3, ScanDomainHits
  <2> HIDE DEF b
  <2>2. QED
    BY <1>3, <2>1, GrewUNION
<1>8. Grew(H(t), H(u))
  <2> DEFINE H2(x) == Image(e, _collect(x, "text")) \cup Image(p, perms(x))
             H3(x) == H2(x) \cup (UNION Image(d, _collect(x, "egress")))
  <2> HIDE DEF e, p, d, b, perms, u
  <2>1. Grew(H2(t), H2(u))
    BY <1>4, <1>5, GrewUnion
  <2>2. Grew(H3(t), H3(u))
    <3> HIDE DEF H2
    <3>1. QED
      BY <1>6, <2>1, GrewUnion
  <2>3. Grew(H3(t) \cup (UNION Image(b, _collect(t, "url"))), H3(u) \cup (UNION Image(b, _collect(u, "url"))))
    <3> HIDE DEF H3
    <3>1. QED
      BY <1>7, <2>2, GrewUnion
  <2>4. QED
    BY <2>3
<1> DEFINE hits(x) == {Hit(<<"pattern", m.class>>, mcp_patterns[m.class]) : m \in _collect(x, "text")}
                        \cup _scan_permissions(c, x)
                        \cup (UNION {_scan_domains(c, m, TRUE) : m \in _collect(x, "egress")})
                        \cup (UNION {_scan_domains(c, m, FALSE) : m \in _collect(x, "url")})
<1>9. \A x \in {t, u} : hits(x) = H(x)
  <2>1. ASSUME NEW x \in {t, u}, NEW w PROVE _collect(x, w) \subseteq Matches(u)
    BY <1>3
  <2>2. \A x \in {t, u} :
            Image(e, _collect(x, "text")) = {Hit(<<"pattern", m.class>>, mcp_patterns[m.class]) : m \in _collect(x, "text")}
    BY <2>1 DEF Image
  <2>3. \A x \in {t, u} : Image(p, perms(x)) = _scan_permissions(c, x)
    BY <2>1 DEF Image, _scan_permissions
  <2>4. \A x \in {t, u} : Image(d, _collect(x, "egress")) = {_scan_domains(c, m, TRUE) : m \in _collect(x, "egress")}
    BY <2>1 DEF Image
  <2>5. \A x \in {t, u} : Image(b, _collect(x, "url")) = {_scan_domains(c, m, FALSE) : m \in _collect(x, "url")}
    BY <2>1 DEF Image
  <2> HIDE DEF e, p, d, b, perms, u
  <2>6. QED
    BY <2>2, <2>3, <2>4, <2>5
<1>10. CASE c.enabled
  <2>1. \A x : mcp_manifest_scanner_detect(c, x) = BlockFrom(c, hits(x))
    BY <1>10 DEF mcp_manifest_scanner_detect, BlockFrom
  <2> HIDE DEF H, hits
  <2>2. QED
    BY <1>1, <1>8, <1>9, <2>1, GrewBlockFrom
<1>11. CASE ~c.enabled
  BY <1>11, AllowedAgain DEF mcp_manifest_scanner_detect
<1>12. QED
  BY <1>10, <1>11

\* A subset of some hits has grown into them.
LEMMA GrewSplit ==
    ASSUME NEW A, NEW B, A \subseteq B, HitsOK(B) PROVE Grew(A, B)
  BY DEF Grew

\* tool_permission_audit.detect: a harmful fact more is a result that is no weaker.
LEMMA ToolPermissionMonotone ==
    ASSUME NEW c, NEW t, NEW f, Worse("tool_permission_audit", c, t, f)
    PROVE  NoWeaker(tool_permission_audit_detect(c, t), tool_permission_audit_detect(c, t \cup {f}))
<1> DEFINE u == t \cup {f}
           tools(x) == {m.tool : m \in Matches(x)} \ c.allowed_tools
           e(x) == [y \in tools(x) |-> tool_permission_hits(c, x, y)]
           H(x) == UNION Image(e(x), tools(x))
           p == c.action = "BLOCK"
<1>1. IsFiniteSet(Matches(u)) /\ Matches(t) \subseteq Matches(u)
  BY Grown
<1>2. Contexts(u) = Contexts(t)
  <2>1. f.kind = "match"
    BY DEF Worse, Harmful
  <2>2. QED
    BY <2>1, ContextsKept, Grown
<1>3. tools(t) \subseteq tools(u) /\ IsFiniteSet(tools(u))
  <2> DEFINE g == [m \in Matches(u) |-> m.tool]
  <2>1. {g[m] : m \in Matches(u)} = {m.tool : m \in Matches(u)}
    OBVIOUS
  <2>2. IsFiniteSet({g[m] : m \in Matches(u)})
    <3> HIDE DEF g, u
    <3>1. QED
      BY <1>1, ImageFinite
  <2>3. IsFiniteSet({m.tool : m \in Matches(u)})
    BY <2>1, <2>2
  <2>4. IsFiniteSet(tools(u))
    BY <2>3, FS_Difference
  <2>5. QED
    BY <1>1, <2>4
<1>4. \A y : HitsOK(tool_permission_hits(c, u, y))
  <2> HIDE DEF u
  <2>1. QED
    BY HitsFinding, HitsUnion, Severities DEF tool_permission_hits
<1>5. \A y : tool_permission_hits(c, t, y) \subseteq tool_permission_hits(c, u, y)
  <2>1. ASSUME NEW y PROVE _tool_identity(t, y) \subseteq _tool_identity(u, y)
    BY <1>1 DEF _tool_identity
  <2> HIDE DEF u
  <2>2. QED
    BY <2>1 DEF tool_permission_hits, Finding
<1>6. Grew(H(t), H(u))
  <2>1. HitsOK(H(u))
    <3>1. \A y \in tools(u) : HitsOK(e(u)[y])
      BY <1>4
    <3> DEFINE E == e(u)
               T == tools(u)
    <3>2. \A y \in T : HitsOK(E[y])
      BY <3>1
    <3>3. IsFiniteSet(T)
      BY <1>3
    <3>4. HitsOK(UNION Image(E, T))
      <4> HIDE DEF E, T
      <4>1. QED
        BY <3>2, <3>3, HitsUNION DEF Image
    <3>5. QED
      BY <3>4
  <2>2. H(t) \subseteq H(u)
    <3>1. SUFFICES ASSUME NEW y \in tools(t), NEW h \in tool_permission_hits(c, t, y)
                   PROVE  h \in H(u)
      BY DEF Image
    <3>2. y \in tools(u) /\ h \in tool_permission_hits(c, u, y)
      BY <1>3, <1>5
    <3>3. QED
      BY <3>2 DEF Image
  <2>3. QED
    BY <2>1, <2>2 DEF Grew
<1>7. \A x \in {t, u} : H(x) = UNION {tool_permission_hits(c, x, y) : y \in tools(x)}
  BY DEF Image
<1>8. CASE c.enabled /\ "not json" \notin Contexts(t)
  <2>1. \A x \in {t, u} : tool_permission_audit_detect(c, x)
                            = BlockOrWarn(p, UNION {tool_permission_hits(c, x, y) : y \in tools(x)})
    BY <1>2, <1>8 DEF tool_permission_audit_detect
  <2>2. \A x \in {t, u} : tool_permission_audit_detect(c, x) = BlockOrWarn(p, H(x))
    <3> HIDE DEF H, p, tools
    <3>1. QED
      BY <1>7, <2>1
  <2>3. p \in BOOLEAN
    OBVIOUS
  <2> HIDE DEF H, p
  <2>4. QED
    BY <1>6, <2>2, <2>3, GrewBlockOrWarn
<1>9. CASE ~(c.enabled /\ "not json" \notin Contexts(t))
  BY <1>2, <1>9, AllowedAgain DEF tool_permission_audit_detect
<1>10. QED
  BY <1>8, <1>9

\* A larger set has no fewer elements.
LEMMA CountGrows ==
    ASSUME NEW S, NEW T, IsFiniteSet(T), S \subseteq T
    PROVE  Cardinality(S) \in Nat /\ Cardinality(T) \in Nat /\ Cardinality(S) <= Cardinality(T)
  BY FS_Subset, FS_CardinalityType

\* system_prompt_leakage.detect: a harmful fact more is a result that is no weaker.
LEMMA SystemPromptMonotone ==
    ASSUME NEW c, NEW t, NEW f, Worse("system_prompt_leakage", c, t, f)
    PROVE  NoWeaker(system_prompt_leakage_detect(c, t), system_prompt_leakage_detect(c, t \cup {f}))
<1> DEFINE u == t \cup {f}
           hidden == c.fingerprints \cup (IF c.check_tool_schemas THEN c.schemas ELSE {})
           leaked(x) == {fp \in hidden : overlap_count(x, fp.hashes) >= c.match_threshold}
           p == c.action \notin {"WARN", "ALLOW_WITH_NOTICE"}
<1>1. c.match_threshold \in Int /\ IsFiniteSet(c.fingerprints) /\ IsFiniteSet(c.schemas)
  BY DEF Worse, Sound, SettingOK
<1>2. IsFiniteSet(Matches(u)) /\ Matches(t) \subseteq Matches(u)
  BY Grown
<1>3. ASSUME NEW known
      PROVE  /\ overlap_count(t, known) \in Nat /\ overlap_count(u, known) \in Nat
             /\ overlap_count(t, known) <= overlap_count(u, known)
  <2> DEFINE S == {m \in Matches(t) : m.shingle \in known}
             T == {m \in Matches(u) : m.shingle \in known}
  <2>1. IsFiniteSet(T) /\ S \subseteq T
    BY <1>2, FS_Subset
  <2>2. overlap_count(t, known) = Cardinality(S) /\ overlap_count(u, known) = Cardinality(T)
    BY DEF overlap_count
  <2> HIDE DEF S, T
  <2>3. QED
    BY <2>1, <2>2, CountGrows
<1>4. IsFiniteSet(hidden)
  BY <1>1, FS_Union, FS_EmptySet
<1>5. leaked(t) \subseteq leaked(u) /\ IsFiniteSet(leaked(u))
  <2>1. leaked(t) \subseteq leaked(u)
    <3> HIDE DEF u, hidden
    <3>1. QED
      BY <1>1, <1>3
  <2>2. leaked(u) \subseteq hidden
    OBVIOUS
  <2>3. QED
    BY <1>4, <2>1, <2>2, FS_Subset
<1>6. Grew(HitsOf(leaked(t), "high"), HitsOf(leaked(u), "high"))
  <2> HIDE DEF leaked
  <2>1. QED
    BY <1>5, GrewHitsOf, Severities
<1>7. CASE c.enabled /\ c.key
  <2>1. \A x : system_prompt_leakage_detect(c, x) = BlockOrWarn(p, HitsOf(leaked(x), "high"))
    BY <1>7 DEF system_prompt_leakage_detect
  <2>2. p \in BOOLEAN
    OBVIOUS
  <2> HIDE DEF p, leaked
  <2>3. QED
    BY <1>6, <2>1, <2>2, GrewBlockOrWarn
<1>8. CASE ~(c.enabled /\ c.key)
  BY <1>8, AllowedAgain DEF system_prompt_leakage_detect
<1>9. QED
  BY <1>7, <1>8

\* bias.detect: a harmful fact more is a result that is no weaker.
LEMMA BiasMonotone ==
    ASSUME NEW c, NEW t, NEW f, Worse("bias", c, t, f)
    PROVE  NoWeaker(bias_detect(c, t), bias_detect(c, t \cup {f}))
<1> DEFINE u == t \cup {f}
           groups == (c.protected_attributes \cap BiasAttributes) \cup {c.industry_preset, "custom"}
           looked(x) == {m \in x : m.kind = "match" => m.group \in groups}
           reported == _get_severity_filter(c)
           e == [m \in u |-> Hit(<<m.group, m.at>>, IF m.negated THEN "low" ELSE m.severity)]
           S(x) == {n \in Matches(looked(x)) : /\ n.severity \in reported
                                               /\ n.negated => n.severity = "high" /\ "low" \in reported}
           H(x) == Image(e, S(x))
           p == c.action = "BLOCK"
<1>1. IsFiniteSet(u) /\ Contexts(u) = Contexts(t)
  <2>1. f.kind = "match"
    BY DEF Worse, Harmful
  <2>2. QED
    BY <2>1, ContextsKept, Grown
<1>2. S(t) \subseteq S(u) /\ S(u) \subseteq Matches(u) /\ S(u) \subseteq u /\ S(t) \subseteq u
  <2> HIDE DEF groups, reported
  <2>1. QED
    BY DEF Matches
<1>3. Grew(H(t), H(u))
  <2>1. IsFiniteSet(S(u))
    BY <1>1, <1>2, FS_Subset
  <2>2. \A m \in Matches(u) : m.severity \in Severity
    BY DEF Worse, Sound, FactOK, Matches
  <2>3. \A m \in S(u) : e[m].severity \in Severity
    <3> HIDE DEF S
    <3>1. QED
      BY <1>2, <2>2, Severities DEF Hit
  <2> HIDE DEF e, S
  <2>4. QED
    BY <1>2, <2>1, <2>3, GrewImage
<1>4. \A x \in {t, u} : bias_hits(c, looked(x)) = H(x)
  <2>1. \A x \in {t, u} : bias_hits(c, looked(x))
            = {Hit(<<m.group, m.at>>, IF m.negated THEN "low" ELSE m.severity) : m \in S(x)}
    BY DEF bias_hits
  <2> HIDE DEF S
  <2>2. QED
    BY <1>2, <2>1 DEF Image
<1>5. CASE c.enabled /\ "short" \notin Contexts(t)
  <2>1. \A x \in {t, u} : bias_detect(c, x) = BlockOrWarn(p, bias_hits(c, looked(x)))
    BY <1>1, <1>5 DEF bias_detect
  <2>2. p \in BOOLEAN
    OBVIOUS
  <2> HIDE DEF p, H, looked
  <2>3. QED
    BY <1>3, <1>4, <2>1, <2>2, GrewBlockOrWarn
<1>6. CASE ~(c.enabled /\ "short" \notin Contexts(t))
  BY <1>1, <1>6, AllowedAgain DEF bias_detect
<1>7. QED
  BY <1>5, <1>6

\* tenant_scope_assertion.detect: a harmful fact more is a result that is no weaker.
LEMMA TenantScopeMonotone ==
    ASSUME NEW c, NEW t, NEW f, Worse("tenant_scope_assertion", c, t, f)
    PROVE  NoWeaker(tenant_scope_assertion_detect(c, t), tenant_scope_assertion_detect(c, t \cup {f}))
<1> DEFINE u == t \cup {f}
           foreign(x) == {m \in Matches(x) : c.tenant # "" /\ _tenant_of(m) \notin {"", c.tenant}}
           untagged(x) == {m \in Matches(x) : _tenant_of(m) = ""}
           late(x) == Evidence(x, "scoped") # {} /\ TRUE \notin Evidence(x, "scoped")
           U(x) == IF c.require_tenant_tags /\ untagged(x) # {}
                   THEN {Hit([id |-> "unattributed_chunk"], "high")} ELSE {}
           L(x) == IF c.require_query_scoping /\ Matches(x) # {} /\ late(x)
                   THEN {Hit([id |-> "post_retrieval_filtering"], "medium")} ELSE {}
           H2(x) == HitsOf(foreign(x), "high") \cup U(x)
           H(x) == H2(x) \cup L(x)
           p(x) == c.action = "BLOCK" \/ (foreign(x) # {} /\ c.block_cross_tenant)
<1>1. f.kind = "match"
  BY DEF Worse, Harmful
<1>2. IsFiniteSet(Matches(u)) /\ Matches(t) \subseteq Matches(u)
  BY Grown
<1>3. late(t) <=> late(u)
  BY <1>1 DEF Evidence
<1>4. Grew(HitsOf(foreign(t), "high"), HitsOf(foreign(u), "high")) /\ foreign(t) \subseteq foreign(u)
  <2>1. IsFiniteSet(foreign(u)) /\ foreign(t) \subseteq foreign(u)
    BY <1>2, FS_Subset
  <2> HIDE DEF foreign
  <2>2. QED
    BY <2>1, GrewHitsOf, Severities
<1>5. Grew(U(t), U(u))
  <2>1. HitsOK({Hit([id |-> "unattributed_chunk"], "high")}) /\ HitsOK({})
    BY HitsOne, HitsNone, Severities
  <2>2. untagged(t) \subseteq untagged(u)
    BY <1>2
  <2> HIDE DEF untagged
  <2>3. QED
    BY <2>1, <2>2 DEF Grew
<1>6. Grew(L(t), L(u))
  <2>1. HitsOK({Hit([id |-> "post_retrieval_filtering"], "medium")}) /\ HitsOK({})
    BY HitsOne, HitsNone, Severities
  <2> HIDE DEF late
  <2>2. QED
    BY <1>2, <1>3, <2>1 DEF Grew
<1>7. Grew(H2(t), H2(u))
  <2> HIDE DEF foreign, U
  <2>1. QED
    BY <1>4, <1>5, GrewUnion
<1>8. Grew(H(t), H(u))
  <2> HIDE DEF H2, L
  <2>1. QED
    BY <1>6, <1>7, GrewUnion
<1>9. CASE c.enabled
  <2>1. \A x : tenant_scope_assertion_detect(c, x) = BlockOrWarn(p(x), H(x))
    BY <1>9 DEF tenant_scope_assertion_detect
  <2>2. p(t) \in BOOLEAN /\ p(u) \in BOOLEAN /\ (p(t) => p(u))
    <3> HIDE DEF foreign
    <3>1. QED
      BY <1>4
  <2> HIDE DEF H, p
  <2>3. QED
    BY <1>8, <2>1, <2>2, GrewBlockOrWarn
<1>10. CASE ~c.enabled
  BY <1>10, AllowedAgain DEF tenant_scope_assertion_detect
<1>11. QED
  BY <1>9, <1>10

\* corpus_poisoning_monitor.detect: a harmful fact more is a result that is no weaker.
LEMMA CorpusMonotone ==
    ASSUME NEW c, NEW t, NEW f, Worse("corpus_poisoning_monitor", c, t, f)
    PROVE  NoWeaker(corpus_poisoning_monitor_detect(c, t), corpus_poisoning_monitor_detect(c, t \cup {f}))
<1> DEFINE u == t \cup {f}
           Found(x, what) == {m \in Matches(x) : m.what = what}
           F1(x) == Finding(Cardinality(Found(x, "authority")) >= c.authority_threshold,
                            "authority_assertion", "high")
           F2(x) == Finding(Cardinality(Found(x, "question")) >= c.max_question_repeats,
                            "query_targeting", "high")
           F3(x) == Finding(/\ c.flag_untrusted_into_trusted
                            /\ Found(x, "untrusted source") # {} /\ Found(x, "trusted corpus") # {},
                            "untrusted_source_into_trusted_corpus", "high")
           F4 == Finding(c.max_writes > 0 /\ c.count > c.max_writes, "ingest_burst", "medium")
           H(x) == F1(x) \cup F2(x) \cup F3(x) \cup F4
           p == c.action = "BLOCK"
<1>1. c.authority_threshold \in Int /\ c.max_question_repeats \in Int
  BY DEF Worse, Sound, SettingOK
<1>2. IsFiniteSet(Matches(u)) /\ Matches(t) \subseteq Matches(u)
  BY Grown
<1>3. ASSUME NEW what
      PROVE  /\ Found(t, what) \subseteq Found(u, what)
             /\ Cardinality(Found(t, what)) \in Nat /\ Cardinality(Found(u, what)) \in Nat
             /\ Cardinality(Found(t, what)) <= Cardinality(Found(u, what))
  <2>1. IsFiniteSet(Found(u, what)) /\ Found(t, what) \subseteq Found(u, what)
    BY <1>2, FS_Subset
  <2> HIDE DEF Found, u
  <2>2. QED
    BY <2>1, CountGrows
<1>4. Grew(H(t), H(u))
  <2>1. HitsOK(H(u))
    <3> HIDE DEF Found, u
    <3>1. HitsOK(F1(u)) /\ HitsOK(F2(u)) /\ HitsOK(F3(u)) /\ HitsOK(F4)
      BY HitsFinding, Severities
    <3> HIDE DEF F1, F2, F3, F4
    <3>2. QED
      BY <3>1, HitsUnions
  <2>2. H(t) \subseteq H(u)
    <3> HIDE DEF Found, u
    <3>1. F1(t) \subseteq F1(u) /\ F2(t) \subseteq F2(u)
      BY <1>1, <1>3 DEF Finding
    <3>2. F3(t) \subseteq F3(u)
      BY <1>3 DEF Finding
    <3> HIDE DEF F1, F2, F3, F4
    <3>3. QED
      BY <3>1, <3>2
  <2>3. QED
    BY <2>1, <2>2 DEF Grew
<1>5. CASE c.enabled
  <2>1. \A x : corpus_poisoning_monitor_detect(c, x) = BlockOrWarn(p, H(x))
    BY <1>5 DEF corpus_poisoning_monitor_detect
  <2>2. p \in BOOLEAN
    OBVIOUS
  <2> HIDE DEF H, p
  <2>3. QED
    BY <1>4, <2>1, <2>2, GrewBlockOrWarn
<1>6. CASE ~c.enabled
  BY <1>6, AllowedAgain DEF corpus_poisoning_monitor_detect
<1>7. QED
  BY <1>5, <1>6

\* retrieval_jamming.detect: a harmful fact more is a result that is no weaker.
LEMMA JammingMonotone ==
    ASSUME NEW c, NEW t, NEW f, Worse("retrieval_jamming", c, t, f)
    PROVE  NoWeaker(retrieval_jamming_detect(c, t), retrieval_jamming_detect(c, t \cup {f}))
<1> DEFINE u == t \cup {f}
           refusals(x) == {m \in Matches(x) : m.what = "refusal"}
           blocker(x) == Finding(Cardinality(refusals(x)) >= c.refusal_threshold, "refusal_inducing_chunk", "high")
                         \cup Finding(\E m \in Matches(x) : m.what = "suppression",
                                      "suppresses_other_sources", "high")
           H(x) == blocker(x)
                   \cup Finding(blocker(x) # {} /\ "few words" \in Contexts(x), "contentless_blocker", "medium")
                   \cup Finding(dominates(c), "ranking_dominance", "medium")
           p == c.action = "BLOCK"
<1>1. c.refusal_threshold \in Int
  BY DEF Worse, Sound, SettingOK
<1>2. /\ IsFiniteSet(Matches(u)) /\ Matches(t) \subseteq Matches(u)
      /\ Contexts(t) \subseteq Contexts(u)
  BY Grown
<1>3. /\ Cardinality(refusals(t)) \in Nat /\ Cardinality(refusals(u)) \in Nat
      /\ Cardinality(refusals(t)) <= Cardinality(refusals(u))
  <2>1. IsFiniteSet(refusals(u)) /\ refusals(t) \subseteq refusals(u)
    BY <1>2, FS_Subset
  <2> HIDE DEF refusals, u
  <2>2. QED
    BY <2>1, CountGrows
<1>4. blocker(t) \subseteq blocker(u) /\ HitsOK(blocker(u))
  <2> HIDE DEF refusals, u
  <2>1. HitsOK(blocker(u))
    BY HitsFinding, HitsUnion, Severities
  <2>2. blocker(t) \subseteq blocker(u)
    BY <1>1, <1>2, <1>3 DEF Finding
  <2>3. QED
    BY <2>1, <2>2
<1>5. Grew(H(t), H(u))
  <2> HIDE DEF blocker, u
  <2>1. HitsOK(H(u))
    BY <1>4, HitsFinding, HitsUnion, Severities
  <2>2. H(t) \subseteq H(u)
    BY <1>2, <1>4 DEF Finding
  <2>3. QED
    BY <2>1, <2>2 DEF Grew
<1>6. CASE c.enabled
  <2>1. \A x : retrieval_jamming_detect(c, x) = BlockOrWarn(p, H(x))
    BY <1>6 DEF retrieval_jamming_detect
  <2>2. p \in BOOLEAN
    OBVIOUS
  <2> HIDE DEF H, p
  <2>3. QED
    BY <1>5, <2>1, <2>2, GrewBlockOrWarn
<1>7. CASE ~c.enabled
  BY <1>7, AllowedAgain DEF retrieval_jamming_detect
<1>8. QED
  BY <1>6, <1>7

\* tools.detect: a harmful fact more is a result that is no weaker.
LEMMA ToolsMonotone ==
    ASSUME NEW c, NEW t, NEW f, Worse("tools", c, t, f)
    PROVE  NoWeaker(tools_detect(c, t), tools_detect(c, t \cup {f}))
<1> DEFINE u == t \cup {f}
           checks(x) == <<_check_allowlist_denylist(c), _validate_args_schema(c, x),
                          _check_domain_allowlist(c, x), _check_exfil_in_args(x)>>
           failed(x) == {i \in 1 .. 4 : checks(x)[i] # {}}
<1>1. Matches(t) \subseteq Matches(u)
  BY Grown
<1>2. \A what : Wrong(t, what) => Wrong(u, what)
  BY <1>1 DEF Wrong
<1>3. /\ _validate_args_schema(c, t) # {} => _validate_args_schema(c, u) # {}
      /\ _check_domain_allowlist(c, t) # {} => _check_domain_allowlist(c, u) # {}
      /\ _check_exfil_in_args(t) # {} => _check_exfil_in_args(u) # {}
  <2>1. _validate_args_schema(c, t) # {} => _validate_args_schema(c, u) # {}
    <3> HIDE DEF u
    <3>1. QED
      BY <1>2 DEF _validate_args_schema
  <2>2. _check_domain_allowlist(c, t) # {} => _check_domain_allowlist(c, u) # {}
    <3> HIDE DEF u
    <3>1. QED
      BY <1>1 DEF _check_domain_allowlist, _extract_tool_urls
  <2>3. _check_exfil_in_args(t) # {} => _check_exfil_in_args(u) # {}
    <3> HIDE DEF u
    <3>1. QED
      BY <1>2 DEF _check_exfil_in_args
  <2>4. QED
    BY <2>1, <2>2, <2>3
<1>4. failed(t) \subseteq failed(u)
  <2> HIDE DEF u
  <2>1. QED
    BY <1>3
<1>5. CASE ~c.enabled \/ failed(t) = {}
  <2>1. tools_detect(c, t) = Allowed
    BY <1>5 DEF tools_detect
  <2>2. tools_detect(c, u) = Allowed \/ \E h : tools_detect(c, u) = DetectorResult("BLOCK", 40, h)
    BY DEF tools_detect
  <2>3. CASE tools_detect(c, u) = Allowed
    BY <2>1, <2>3, AllowedAgain
  <2>4. CASE \E h : tools_detect(c, u) = DetectorResult("BLOCK", 40, h)
    BY <2>1, <2>4 DEF NoWeaker, Allowed, DetectorResult, DECISION_PRECEDENCE
  <2>5. QED
    BY <2>2, <2>3, <2>4
<1>6. CASE ~(~c.enabled \/ failed(t) = {})
  <2>1. failed(u) # {} /\ c.enabled
    BY <1>4, <1>6
  <2>2. \E h : tools_detect(c, t) = DetectorResult("BLOCK", 40, h)
    BY <1>6 DEF tools_detect
  <2>3. \E h : tools_detect(c, u) = DetectorResult("BLOCK", 40, h)
    BY <2>1 DEF tools_detect
  <2>4. QED
    BY <2>2, <2>3 DEF NoWeaker, DetectorResult, DECISION_PRECEDENCE
<1>7. QED
  BY <1>5, <1>6

\* toxicity.detect: a harmful fact more is a result that is no weaker.
LEMMA ToxicityMonotone ==
    ASSUME NEW c, NEW t, NEW f, Worse("toxicity", c, t, f)
    PROVE  NoWeaker(toxicity_detect(c, t), toxicity_detect(c, t \cup {f}))
<1> DEFINE u == t \cup {f}
           found(x) == IF c.enabled THEN toxic_terms(c, x) ELSE {}
           e == [m \in Matches(u) |-> Hit(m.term, m.severity)]
           H(x) == Image(e, found(x))
           forced(x) == \E m \in found(x) : force_block(c, m)
<1>1. c.block_threshold \in Int /\ c.warn_threshold \in Int
  BY DEF Worse, Sound, SettingOK
<1>2. IsFiniteSet(Matches(u)) /\ Matches(t) \subseteq Matches(u)
  BY Grown
<1>3. Contexts(u) = Contexts(t)
  <2>1. f.kind = "match"
    BY DEF Worse, Harmful
  <2>2. QED
    BY <2>1, ContextsKept
<1>4. found(t) \subseteq found(u) /\ found(u) \subseteq Matches(u)
  <2> HIDE DEF u
  <2>1. QED
    BY <1>2, <1>3 DEF toxic_terms, _is_safe_query_context
<1>5. Grew(H(t), H(u))
  <2>1. IsFiniteSet(found(u))
    BY <1>2, <1>4, FS_Subset
  <2>2. \A m \in Matches(u) : m.severity \in Severity
    BY DEF Worse, Sound, FactOK, Matches
  <2>3. \A m \in found(u) : e[m].severity \in Severity
    <3> HIDE DEF found
    <3>1. QED
      BY <1>4, <2>2 DEF Hit
  <2> HIDE DEF e, found
  <2>4. QED
    BY <1>4, <2>1, <2>3, GrewImage
<1> DEFINE R(x) == calculate_risk_score(H(x))
<1>6. /\ R(t) \in 0 .. 100 /\ R(u) \in 0 .. 100 /\ R(t) <= R(u)
  <2> HIDE DEF H
  <2>1. QED
    BY <1>5, GrewFacts
<1>7. forced(t) => forced(u)
  BY <1>4
<1>8. \A x \in {t, u} : {Hit(m.term, m.severity) : m \in found(x)} = H(x)
  <2> HIDE DEF found
  <2>1. QED
    BY <1>4 DEF Image
<1> DEFINE result(x, h) ==
             CASE found(x) = {} -> Allowed
               [] found(x) # {} /\ (c.action = "BLOCK" \/ forced(x) \/ calculate_risk_score(h) >= c.block_threshold) ->
                    DetectorResult("BLOCK", IF forced(x) THEN AtLeast(90, calculate_risk_score(h))
                                            ELSE calculate_risk_score(h), h)
               [] OTHER -> IF calculate_risk_score(h) >= c.warn_threshold
                           THEN DetectorResult("WARN", calculate_risk_score(h), h) ELSE Allowed
<1>9. \A x \in {t, u} : toxicity_detect(c, x) = result(x, H(x))
  <2>1. \A x : toxicity_detect(c, x) = result(x, {Hit(m.term, m.severity) : m \in found(x)})
    BY DEF toxicity_detect
  <2> HIDE DEF result, H, found
  <2>2. QED
    BY <1>8, <2>1
<1>10. NoWeaker(result(t, H(t)), result(u, H(u)))
  <2>1. /\ calculate_risk_score(H(t)) \in 0 .. 100 /\ calculate_risk_score(H(u)) \in 0 .. 100
        /\ calculate_risk_score(H(t)) <= calculate_risk_score(H(u))
    BY <1>6
  <2> HIDE DEF H, found, forced, u
  <2>2. CASE found(t) = {}
    <3> DEFINE b == calculate_risk_score(H(u))
               blocks == c.action = "BLOCK" \/ forced(u) \/ b >= c.block_threshold
    <3>1. b \in 0 .. 100
      BY <2>1
    <3>2. result(t, H(t)) = Allowed
      BY <2>2
    <3>3. result(u, H(u)) = IF found(u) = {} THEN Allowed
                            ELSE IF blocks THEN DetectorResult("BLOCK", IF forced(u) THEN AtLeast(90, b) ELSE b, H(u))
                            ELSE IF b >= c.warn_threshold THEN DetectorResult("WARN", b, H(u)) ELSE Allowed
      OBVIOUS
    <3> HIDE DEF b, blocks, result
    <3>4. QED
      BY <3>1, <3>2, <3>3 DEF NoWeaker, Allowed, DetectorResult, DECISION_PRECEDENCE, AtLeast
  <2>3. CASE found(t) # {}
    <3> DEFINE a == calculate_risk_score(H(t))
               b == calculate_risk_score(H(u))
               blocks(x, n) == c.action = "BLOCK" \/ forced(x) \/ n >= c.block_threshold
    <3>1. a \in 0 .. 100 /\ b \in 0 .. 100 /\ a <= b
      BY <2>1
    <3>2. found(u) # {}
      BY <1>4, <2>3
    <3>3. /\ result(t, H(t)) = IF blocks(t, a) THEN DetectorResult("BLOCK", IF forced(t) THEN AtLeast(90, a) ELSE a, H(t))
                                ELSE IF a >= c.warn_threshold THEN DetectorResult("WARN", a, H(t)) ELSE Allowed
          /\ result(u, H(u)) = IF blocks(u, b) THEN DetectorResult("BLOCK", IF forced(u) THEN AtLeast(90, b) ELSE b, H(u))
                                ELSE IF b >= c.warn_threshold THEN DetectorResult("WARN", b, H(u)) ELSE Allowed
      BY <2>3, <3>2
    <3> HIDE DEF a, b, result
    <3>4. CASE blocks(t, a)
      <4>1. blocks(u, b)
        BY <1>1, <1>7, <3>1, <3>4
      <4> HIDE DEF blocks
      <4>2. QED
        BY <1>7, <3>1, <3>3, <3>4, <4>1 DEF NoWeaker, DetectorResult, DECISION_PRECEDENCE, AtLeast
    <3>5. CASE ~blocks(t, a)
      <4> HIDE DEF blocks
      <4>1. QED
        BY <1>1, <3>1, <3>3, <3>5 DEF NoWeaker, Allowed, DetectorResult, DECISION_PRECEDENCE, AtLeast
    <3>6. QED
      BY <3>4, <3>5
  <2>4. QED
    BY <2>2, <2>3
<1>11. QED
  <2> HIDE DEF result, H
  <2>1. QED
    BY <1>9, <1>10

\* jailbreak.detect: a harmful fact more is a result that is no weaker.
LEMMA JailbreakMonotone ==
    ASSUME NEW c, NEW t, NEW f, Worse("jailbreak", c, t, f)
    PROVE  NoWeaker(jailbreak_detect(c, t), jailbreak_detect(c, t \cup {f}))
<1> DEFINE u == t \cup {f}
           decoded(x) == _detect_encoded_content(c, x)
           matched(x) == {m \in Matches(x) : /\ m.class # "readable" /\ (m.decoded => m \in decoded(x))
                                             /\ ~filtered(x, m)}
           benign(x) == decoded(x) = {} /\ (\A m \in matched(x) : m.class = "roleplay")
                                       /\ "dangerous" \notin Contexts(x)
           e == [m \in Matches(u) |-> Hit(m.rule, m.severity)]
           coded(x) == decoded(x) # {}
           G(x) == Image(e, matched(x)) \cup Finding(coded(x), "encoded_content", "medium")
           H(x) == IF ~c.enabled \/ benign(x) THEN {} ELSE G(x)
<1>1. c.threshold \in Int /\ c.suspicious \in Nat
  BY DEF Worse, Sound, SettingOK
<1>2. /\ IsFiniteSet(Matches(u)) /\ Matches(t) \subseteq Matches(u)
      /\ Contexts(t) \subseteq Contexts(u)
  BY Grown
<1>3. Contexts(u) \cap DOMAIN filtered_prefixes = Contexts(t) \cap DOMAIN filtered_prefixes
  <2>1. CASE f.kind = "match"
    BY <2>1, ContextsKept
  <2>2. CASE f.kind # "match"
    <3>1. f.name \in {"dangerous", "few words"}
      BY <2>2 DEF Worse, Harmful
    <3>2. f.name \notin DOMAIN filtered_prefixes
      BY <3>1 DEF filtered_prefixes
    <3>3. Contexts(u) \subseteq Contexts(t) \cup {f.name}
      BY DEF Contexts
    <3>4. QED
      BY <1>2, <3>2, <3>3
  <2>3. QED
    BY <2>1, <2>2
<1>4. \A m : filtered(t, m) <=> filtered(u, m)
  <2> HIDE DEF u
  <2>1. QED
    BY <1>3 DEF filtered
<1>5. decoded(t) \subseteq decoded(u) /\ matched(t) \subseteq matched(u) /\ matched(u) \subseteq Matches(u)
  <2>1. decoded(t) \subseteq decoded(u)
    BY <1>2 DEF _detect_encoded_content
  <2> HIDE DEF decoded, u
  <2>2. QED
    BY <1>2, <1>4, <2>1
<1>6. benign(u) => benign(t)
  <2> HIDE DEF decoded, matched, u
  <2>1. QED
    BY <1>2, <1>5
<1>7. Grew(G(t), G(u))
  <2>1. \A m \in matched(u) : e[m].severity \in Severity
    <3>1. \A m \in Matches(u) : m.class = "readable" \/ m.severity \in Severity
      BY DEF Worse, Sound, FactOK, Matches
    <3>2. QED
      BY <3>1 DEF Hit
  <2>2. coded(t) \in BOOLEAN /\ coded(u) \in BOOLEAN /\ (coded(t) => coded(u))
    <3> HIDE DEF decoded
    <3>1. QED
      BY <1>5
  <2> HIDE DEF e, matched, coded, u
  <2>3. IsFiniteSet(matched(u))
    BY <1>2, <1>5, FS_Subset
  <2>4. Grew(Image(e, matched(t)), Image(e, matched(u)))
    BY <1>5, <2>1, <2>3, GrewImage
  <2>5. Grew(Finding(coded(t), "encoded_content", "medium"), Finding(coded(u), "encoded_content", "medium"))
    BY <2>2, GrewFinding, Severities
  <2>6. QED
    BY <2>4, <2>5, GrewUnion
<1>8. Grew(H(t), H(u))
  <2>1. HitsOK(G(u)) /\ G(t) \subseteq G(u)
    BY <1>7 DEF Grew
  <2> HIDE DEF G, benign, u
  <2>2. QED
    BY <1>6, <2>1, HitsNone DEF Grew
<1> DEFINE result(h) ==
             LET risk == AtMost(100, calculate_risk_score(h) + 15 * c.suspicious)
             IN  IF h = {} THEN Allowed
                 ELSE DetectorResult(IF risk >= c.threshold THEN "BLOCK" ELSE "WARN", risk, h)
<1>9. \A x \in {t, u} : jailbreak_detect(c, x) = result(H(x))
  <2> DEFINE hits(x) == IF c.enabled THEN jailbreak_hits(c, x) ELSE {}
  <2>1. \A x : jailbreak_detect(c, x) = result(hits(x))
    BY DEF jailbreak_detect
  <2>2. ASSUME NEW x \in {t, u} PROVE hits(x) = H(x)
    <3>1. jailbreak_hits(c, x) = IF benign(x) THEN {}
                                 ELSE {Hit(m.rule, m.severity) : m \in matched(x)}
                                        \cup Finding(coded(x), "encoded_content", "medium")
      BY DEF jailbreak_hits
    <3>2. {Hit(m.rule, m.severity) : m \in matched(x)} = Image(e, matched(x))
      <4>1. matched(x) \subseteq Matches(u)
        BY <1>5, <2>2
      <4> HIDE DEF matched, u
      <4>2. QED
        BY <4>1 DEF Image
    <3> HIDE DEF benign, matched, coded, e
    <3>3. QED
      BY <3>1, <3>2
  <2> HIDE DEF result, H, hits
  <2>3. QED
    BY <2>1, <2>2
<1>10. NoWeaker(result(H(t)), result(H(u)))
  <2> HIDE DEF H, u
  <2>1. /\ calculate_risk_score(H(t)) \in 0 .. 100 /\ calculate_risk_score(H(u)) \in 0 .. 100
        /\ calculate_risk_score(H(t)) <= calculate_risk_score(H(u)) /\ H(t) \subseteq H(u)
    BY <1>8, GrewFacts
  <2> DEFINE a == AtMost(100, calculate_risk_score(H(t)) + 15 * c.suspicious)
             b == AtMost(100, calculate_risk_score(H(u)) + 15 * c.suspicious)
  <2>2. a \in Nat /\ b \in Nat /\ a <= b
    BY <1>1, <2>1 DEF AtMost
  <2>3. /\ result(H(t)) = IF H(t) = {} THEN Allowed
                          ELSE DetectorResult(IF a >= c.threshold THEN "BLOCK" ELSE "WARN", a, H(t))
        /\ result(H(u)) = IF H(u) = {} THEN Allowed
                          ELSE DetectorResult(IF b >= c.threshold THEN "BLOCK" ELSE "WARN", b, H(u))
    OBVIOUS
  <2> HIDE DEF a, b, result
  <2>4. QED
    BY <1>1, <2>1, <2>2, <2>3 DEF NoWeaker, Allowed, DetectorResult, DECISION_PRECEDENCE
<1>11. QED
  <2> HIDE DEF result, H
  <2>1. QED
    BY <1>9, <1>10

\* human_approval_gate.detect: a harmful fact more is a result that is no weaker.
LEMMA ApprovalMonotone ==
    ASSUME NEW c, NEW t, NEW f, Worse("human_approval_gate", c, t, f)
    PROVE  NoWeaker(human_approval_gate_detect(c, t), human_approval_gate_detect(c, t \cup {f}))
<1> DEFINE u == t \cup {f}
           categories(x) == _gated_categories_in(c, x)
           anonymous(x) == IF c.require_approver_identity /\ Evidence(x, "approver") = {}
                           THEN {Hit("anonymous_approval", "medium")} ELSE {}
           H(x) == IF categories(x) = {} THEN {}
                   ELSE IF Evidence(x, "flag") = {} THEN HitsOf(categories(x), "high") ELSE anonymous(x)
           p == c.action = "BLOCK"
<1>1. f.kind = "match" /\ ~c.require_signed_approval
  BY DEF Worse, Harmful
<1>2. IsFiniteSet(Matches(u)) /\ Matches(t) \subseteq Matches(u)
  BY Grown
<1>3. Evidence(u, "flag") = Evidence(t, "flag") /\ Evidence(u, "approver") = Evidence(t, "approver")
  BY <1>1 DEF Evidence
<1>4. categories(t) \subseteq categories(u) /\ IsFiniteSet(categories(u))
  <2> DEFINE k == [m \in Matches(u) |-> m.category]
  <2>1. IsFiniteSet(Image(k, Matches(u)))
    <3> HIDE DEF k, u
    <3>1. QED
      BY <1>2, ImageFinite DEF Image
  <2>2. categories(u) \subseteq Image(k, Matches(u))
    BY DEF _gated_categories_in, build_action_scan_text, Image
  <2>3. categories(t) \subseteq categories(u)
    BY <1>2 DEF _gated_categories_in, build_action_scan_text
  <2> HIDE DEF k, u
  <2>4. QED
    BY <2>1, <2>2, <2>3, FS_Subset
<1>5. Grew(H(t), H(u))
  <2> HIDE DEF categories, u
  <2>1. Grew(HitsOf(categories(t), "high"), HitsOf(categories(u), "high"))
    BY <1>4, GrewHitsOf, Severities
  <2>2. HitsOK(anonymous(u))
    BY HitsOne, HitsNone, Severities
  <2>3. anonymous(t) = anonymous(u)
    BY <1>3
  <2> HIDE DEF anonymous
  <2>4. CASE categories(t) = {}
    BY <2>1, <2>2, <2>4, HitsNone DEF Grew
  <2>5. CASE categories(t) # {}
    BY <1>3, <1>4, <2>1, <2>2, <2>3, <2>5 DEF Grew
  <2>6. QED
    BY <2>4, <2>5
<1>6. CASE c.enabled
  <2>1. ASSUME NEW x PROVE human_approval_gate_detect(c, x) = BlockOrWarn(p, H(x))
    <3>1. CASE categories(x) = {}
      BY <1>6, <3>1 DEF human_approval_gate_detect, BlockOrWarn
    <3>2. CASE categories(x) # {}
      <4>1. human_approval_gate_detect(c, x)
              = BlockOrWarn(p, {} \cup (IF ~approved(c, x) THEN HitsOf(categories(x), "high") ELSE anonymous(x)))
        BY <1>1, <1>6, <3>2 DEF human_approval_gate_detect
      <4>2. approved(c, x) <=> Evidence(x, "flag") # {}
        BY <1>1 DEF approved
      <4>3. {} \cup (IF ~approved(c, x) THEN HitsOf(categories(x), "high") ELSE anonymous(x)) = H(x)
        <5> HIDE DEF categories, anonymous
        <5>1. QED
          BY <3>2, <4>2
      <4>4. QED
        <5> HIDE DEF H, p, categories, anonymous
        <5>1. QED
          BY <4>1, <4>3
    <3>3. QED
      BY <3>1, <3>2
  <2>2. p \in BOOLEAN
    OBVIOUS
  <2> HIDE DEF H, p
  <2>3. QED
    BY <1>5, <2>1, <2>2, GrewBlockOrWarn
<1>7. CASE ~c.enabled
  BY <1>7, AllowedAgain DEF human_approval_gate_detect
<1>8. QED
  BY <1>6, <1>7

\* code_safety.detect: a harmful fact more is a result that is no weaker.
LEMMA CodeSafetyMonotone ==
    ASSUME NEW c, NEW t, NEW f, Worse("code_safety", c, t, f)
    PROVE  NoWeaker(code_safety_detect(c, t), code_safety_detect(c, t \cup {f}))
<1> DEFINE u == t \cup {f}
           scanned(m) == IF _detect_language(m) = "unknown" THEN c.languages \cap _LANGUAGE_PATTERNS
                         ELSE {_detect_language(m)} \cap c.languages
           found(x) == {m \in _extract_code_blocks(x) : \E y \in scanned(m) : _scan_code(c, m, y)}
           e == [m \in Matches(u) |-> Hit(m.rule, m.severity)]
           H(x) == Image(e, found(x))
           p == c.action = "BLOCK"
<1>1. f.kind = "match" /\ f.where = "prose"
  BY DEF Worse, Harmful
<1>2. IsFiniteSet(Matches(u)) /\ Matches(u) = Matches(t) \cup {f}
  BY <1>1, Grown
<1>3. Contexts(u) = Contexts(t)
  BY <1>1, ContextsKept
<1>4. /\ _extract_code_blocks(t) \subseteq _extract_code_blocks(u)
      /\ _extract_code_blocks(u) \subseteq Matches(u)
  <2> DEFINE of(x, w) == {m \in Matches(x) : m.where = w}
  <2>1. of(u, "fenced") = of(t, "fenced") /\ of(u, "indented") = of(t, "indented")
    BY <1>1, <1>2
  <2>2. of(t, "prose") \subseteq of(u, "prose")
    BY <1>2
  <2>3. \A w : of(u, w) \subseteq Matches(u)
    OBVIOUS
  <2>4. \A x : _extract_code_blocks(x) =
             IF "fenced" \in Contexts(x) \/ of(x, "fenced") # {} THEN of(x, "fenced")
             ELSE IF "indented" \in Contexts(x) \/ of(x, "indented") # {} THEN of(x, "indented")
             ELSE of(x, "prose")
    BY DEF _extract_code_blocks
  <2> HIDE DEF of, u
  <2>5. QED
    BY <1>3, <2>1, <2>2, <2>3, <2>4
<1>5. found(t) \subseteq found(u) /\ found(u) \subseteq Matches(u)
  BY <1>4
<1>6. Grew(H(t), H(u))
  <2>1. IsFiniteSet(found(u))
    BY <1>2, <1>5, FS_Subset
  <2>2. \A m \in Matches(u) : m.severity \in Severity
    BY DEF Worse, Sound, FactOK, Matches
  <2>3. \A m \in found(u) : e[m].severity \in Severity
    <3> HIDE DEF found
    <3>1. QED
      BY <1>5, <2>2 DEF Hit
  <2> HIDE DEF e, found
  <2>4. QED
    BY <1>5, <2>1, <2>3, GrewImage
<1>7. \A x \in {t, u} : {Hit(m.rule, m.severity) : m \in found(x)} = H(x)
  <2> HIDE DEF found
  <2>1. QED
    BY <1>5 DEF Image
<1>8. CASE c.enabled
  <2>1. \A x : code_safety_detect(c, x) = BlockOrWarn(p, {Hit(m.rule, m.severity) : m \in found(x)})
    BY <1>8 DEF code_safety_detect
  <2>2. p \in BOOLEAN
    OBVIOUS
  <2>3. code_safety_detect(c, t) = BlockOrWarn(p, H(t)) /\ code_safety_detect(c, u) = BlockOrWarn(p, H(u))
    <3> HIDE DEF found, H, p
    <3>1. QED
      BY <1>7, <2>1
  <2> HIDE DEF H, p
  <2>4. QED
    BY <1>6, <2>2, <2>3, GrewBlockOrWarn
<1>9. CASE ~c.enabled
  BY <1>9, AllowedAgain DEF code_safety_detect
<1>10. QED
  BY <1>8, <1>9

\* sentiment.detect: a harmful fact more is a result that is no weaker.
LEMMA SentimentMonotone ==
    ASSUME NEW c, NEW t, NEW f, Worse("sentiment", c, t, f)
    PROVE  NoWeaker(sentiment_detect(c, t), sentiment_detect(c, t \cup {f}))
<1> DEFINE u == t \cup {f}
           tones(x) == {m \in Matches(x) : m.tone \in c.blocked_tones}
           e == [m \in Matches(u) |-> Hit(<<m.tone, m.at>>, m.severity)]
           N(x) == Finding(_compute_sentiment(x, c.min_sentiment_score), <<"negative">>, "medium")
           H(x) == Image(e, tones(x)) \cup N(x)
           p == c.action = "BLOCK"
<1>1. f.kind = "match" /\ f.tone # "" /\ "" \notin c.blocked_tones
  BY DEF Worse, Sound, SettingOK, Harmful
<1>2. IsFiniteSet(Matches(u)) /\ Matches(u) = Matches(t) \cup {f}
  BY <1>1, Grown
<1>3. Contexts(u) = Contexts(t)
  BY <1>1, ContextsKept
<1>4. N(t) = N(u) /\ HitsOK(N(u))
  <2>1. {m \in Matches(u) : m.tone = ""} = {m \in Matches(t) : m.tone = ""}
    BY <1>1, <1>2
  <2>2. _compute_sentiment(u, c.min_sentiment_score) = _compute_sentiment(t, c.min_sentiment_score)
    BY <2>1 DEF _compute_sentiment
  <2>3. HitsOK(N(u))
    BY HitsFinding, Severities
  <2>4. QED
    BY <2>2, <2>3
<1>5. Grew(Image(e, tones(t)), Image(e, tones(u)))
  <2>1. IsFiniteSet(tones(u)) /\ tones(t) \subseteq tones(u)
    BY <1>2, FS_Subset
  <2>2. \A m \in Matches(u) : m.tone # "" => m.severity \in Severity
    BY DEF Worse, Sound, FactOK, Matches
  <2>3. \A m \in tones(u) : e[m].severity \in Severity
    BY <1>1, <2>2 DEF Hit
  <2> HIDE DEF e, tones
  <2>4. QED
    BY <2>1, <2>3, GrewImage
<1>6. Grew(H(t), H(u))
  <2>1. Grew(N(t), N(u))
    <3> HIDE DEF N
    <3>1. QED
      BY <1>4 DEF Grew
  <2> HIDE DEF N, e, tones
  <2>2. QED
    BY <1>5, <2>1, GrewUnion
<1>7. \A x \in {t, u} : H(x) = {Hit(<<m.tone, m.at>>, m.severity) : m \in tones(x)} \cup N(x)
  BY <1>2 DEF Image
<1>8. CASE c.enabled /\ "short" \notin Contexts(t)
  <2>1. \A x \in {t, u} : sentiment_detect(c, x)
                            = BlockOrWarn(p, {Hit(<<m.tone, m.at>>, m.severity) : m \in tones(x)} \cup N(x))
    BY <1>3, <1>8 DEF sentiment_detect
  <2>2. p \in BOOLEAN
    OBVIOUS
  <2>3. sentiment_detect(c, t) = BlockOrWarn(p, H(t)) /\ sentiment_detect(c, u) = BlockOrWarn(p, H(u))
    <3> HIDE DEF tones, N, H, p
    <3>1. QED
      BY <1>7, <2>1
  <2> HIDE DEF H, p
  <2>4. QED
    BY <1>6, <2>2, <2>3, GrewBlockOrWarn
<1>9. CASE ~(c.enabled /\ "short" \notin Contexts(t))
  BY <1>3, <1>9, AllowedAgain DEF sentiment_detect
<1>10. QED
  BY <1>8, <1>9

\* More hits of three kinds are more hits.
LEMMA GrewUnion3 ==
    ASSUME NEW A1, NEW B1, Grew(A1, B1), NEW A2, NEW B2, Grew(A2, B2), NEW A3, NEW B3, Grew(A3, B3)
    PROVE  Grew(A1 \cup A2 \cup A3, B1 \cup B2 \cup B3)
<1>1. Grew(A1 \cup A2, B1 \cup B2)
  BY GrewUnion
<1>2. QED
  BY <1>1, GrewUnion

\* More matches are more licence hits of the copyright detector.
LEMMA LicenseGrew ==
    ASSUME NEW c, NEW t, NEW u, Matches(t) \subseteq Matches(u), IsFiniteSet(Matches(u))
    PROVE  Grew(license_hits(c, t), license_hits(c, u))
<1> DEFINE named(x) == {m \in Matches(x) : m.what = "license"}
           bl(x) == {m \in named(x) : license_family[m.name] \cap c.code_license_blocklist # {}}
           no(x) == {m \in named(x) \ bl(x) : m.name \in {"copyright_header", "all_rights_reserved"}}
           h == [m \in Matches(u) |-> Hit(<<m.name, m.at>>, "high")]
           w == [m \in Matches(u) |-> Hit(<<m.name, m.at>>, "medium")]
<1>1. /\ bl(t) \subseteq bl(u) /\ bl(u) \subseteq Matches(u)
      /\ no(t) \subseteq no(u) /\ no(u) \subseteq Matches(u)
  OBVIOUS
<1>2. IsFiniteSet(bl(u)) /\ IsFiniteSet(no(u))
  <2> HIDE DEF bl, no
  <2>1. QED
    BY <1>1, FS_Subset
<1>3. /\ \A m \in Matches(u) : h[m].severity \in Severity
      /\ \A m \in Matches(u) : w[m].severity \in Severity
  BY Severities DEF Hit
<1>4. \A x \in {t, u} : license_hits(c, x) = Image(h, bl(x)) \cup Image(w, no(x))
  <2>1. \A x \in {t, u} : license_hits(c, x) = {Hit(<<m.name, m.at>>, "high") : m \in bl(x)}
                               \cup {Hit(<<m.name, m.at>>, "medium") : m \in no(x)}
    BY DEF license_hits
  <2> HIDE DEF bl, no
  <2>2. QED
    BY <1>1, <2>1 DEF Image
<1>5. Grew(Image(h, bl(t)), Image(h, bl(u))) /\ Grew(Image(w, no(t)), Image(w, no(u)))
  <2> HIDE DEF h, w, bl, no
  <2>1. \A m \in bl(u) : h[m].severity \in Severity
    BY <1>1, <1>3
  <2>2. \A m \in no(u) : w[m].severity \in Severity
    BY <1>1, <1>3
  <2>3. QED
    BY <1>1, <1>2, <2>1, <2>2, GrewImage
<1>6. QED
  <2> HIDE DEF h, w, bl, no
  <2>1. QED
    BY <1>4, <1>5, GrewUnion

\* copyright.detect: a harmful fact more is a result that is no weaker.
LEMMA CopyrightMonotone ==
    ASSUME NEW c, NEW t, NEW f, Worse("copyright", c, t, f)
    PROVE  NoWeaker(copyright_detect(c, t), copyright_detect(c, t \cup {f}))
<1> DEFINE u == t \cup {f}
           named(x, what) == {m.name : m \in {n \in Matches(x) : n.what = what}}
           fingerprints(S) == IF c.verbatim_threshold = 0 THEN {"empty run"} ELSE S
           known(x) == IF c.check_books THEN {<<"known_work", y>> : y \in named(x, "passage")} ELSE {}
           K(x) == HitsOf(known(x), "high")
           L(x) == IF c.check_code_licenses THEN license_hits(c, x) ELSE {}
           on1(x) == /\ c.check_lyrics /\ named(x, "lyrics") # {}
                     /\ _detect_repetition(c, x, {"short", "long"}) # {}
           on2(x) == /\ c.custom_signatures # {}
                     /\ fingerprints(named(x, "signature")) \cap fingerprints(c.custom_signatures) # {}
           on3(x) == /\ c.verbatim_threshold > 0
                     /\ Cardinality(_detect_repetition(c, x, {"long"})) >= 3
           F1(x) == Finding(on1(x), <<"lyrics_match">>, "medium")
           F2(x) == Finding(on2(x), <<"verbatim_match">>, "high")
           F3(x) == Finding(on3(x), <<"repetition">>, "low")
           p == c.action = "BLOCK"
<1>1. f.kind = "match"
  BY DEF Worse, Harmful
<1>2. Contexts(u) = Contexts(t)
  BY <1>1, ContextsKept
<1>3. Matches(t) \subseteq Matches(u) /\ IsFiniteSet(Matches(u))
  BY Grown
<1>4. \A what : named(t, what) \subseteq named(u, what) /\ IsFiniteSet(named(u, what))
  <2> DEFINE k == [m \in Matches(u) |-> m.name]
  <2>1. IsFiniteSet(Image(k, Matches(u)))
    <3> HIDE DEF k, u
    <3>1. QED
      BY <1>3, ImageFinite DEF Image
  <2>2. \A what : named(u, what) \subseteq Image(k, Matches(u))
    BY DEF Image
  <2>3. \A what : named(t, what) \subseteq named(u, what)
    BY <1>3
  <2> HIDE DEF k, u, named
  <2>4. QED
    BY <2>1, <2>2, <2>3, FS_Subset
<1>5. Grew(K(t), K(u))
  <2> DEFINE g == [y \in named(u, "passage") |-> <<"known_work", y>>]
  <2>1. IsFiniteSet(Image(g, named(u, "passage")))
    <3> HIDE DEF g, u, named
    <3>1. QED
      BY <1>4, ImageFinite DEF Image
  <2>2. IsFiniteSet(known(u))
    <3>1. CASE c.check_books
      <4>1. known(u) = Image(g, named(u, "passage"))
        <5> HIDE DEF named, u
        <5>1. QED
          BY <3>1 DEF Image
      <4>2. QED
        <5> HIDE DEF g, known, named, u
        <5>1. QED
          BY <2>1, <4>1
    <3>2. CASE ~c.check_books
      BY <3>2, FS_EmptySet
    <3>3. QED
      BY <3>1, <3>2
  <2>3. known(t) \subseteq known(u)
    <3> HIDE DEF named
    <3>1. QED
      BY <1>4
  <2> HIDE DEF known
  <2>4. QED
    BY <2>2, <2>3, GrewHitsOf, Severities
<1>6. Grew(L(t), L(u))
  <2> HIDE DEF u
  <2>1. Grew(license_hits(c, t), license_hits(c, u))
    BY <1>3, LicenseGrew
  <2>2. QED
    BY <2>1, GrewNone
<1>7. \A S : _detect_repetition(c, t, S) \subseteq _detect_repetition(c, u, S)
  BY <1>3 DEF _detect_repetition
<1>8. IsFiniteSet(_detect_repetition(c, u, {"long"}))
  <2>1. CASE c.verbatim_threshold = 0
    BY <2>1, FS_Singleton DEF _detect_repetition
  <2>2. CASE c.verbatim_threshold # 0
    <3>1. _detect_repetition(c, u, {"long"}) \subseteq Matches(u)
      BY <2>2 DEF _detect_repetition
    <3>2. QED
      BY <1>3, <3>1, FS_Subset
  <2>3. QED
    BY <2>1, <2>2
<1>9. /\ on1(t) => on1(u)
      /\ on2(t) => on2(u)
      /\ on3(t) => on3(u)
  <2>1. on1(t) => on1(u)
    <3> HIDE DEF named, u
    <3>1. QED
      BY <1>4, <1>7
  <2>2. on2(t) => on2(u)
    <3> HIDE DEF named, u
    <3>1. QED
      BY <1>4
  <2>3. on3(t) => on3(u)
    <3> DEFINE R(x) == _detect_repetition(c, x, {"long"})
    <3>1. Cardinality(R(t)) \in Nat /\ Cardinality(R(u)) \in Nat /\ Cardinality(R(t)) <= Cardinality(R(u))
      <4>1. R(t) \subseteq R(u) /\ IsFiniteSet(R(u))
        BY <1>7, <1>8
      <4> HIDE DEF R, u
      <4>2. QED
        BY <4>1, CountGrows
    <3>2. QED
      BY <3>1
  <2>4. QED
    BY <2>1, <2>2, <2>3
<1>10. Grew(F1(t), F1(u)) /\ Grew(F2(t), F2(u)) /\ Grew(F3(t), F3(u))
  <2>1. \A x \in {t, u} : on1(x) \in BOOLEAN /\ on2(x) \in BOOLEAN /\ on3(x) \in BOOLEAN
    OBVIOUS
  <2> HIDE DEF on1, on2, on3
  <2>2. QED
    BY <1>9, <2>1, GrewFinding, Severities
<1>11. Grew(K(t) \cup L(t) \cup F1(t) \cup F2(t) \cup F3(t), K(u) \cup L(u) \cup F1(u) \cup F2(u) \cup F3(u))
  <2> HIDE DEF K, L, F1, F2, F3
  <2>1. Grew(K(t) \cup L(t) \cup F1(t), K(u) \cup L(u) \cup F1(u))
    BY <1>5, <1>6, <1>10, GrewUnion3
  <2>2. QED
    BY <2>1, <1>10, GrewUnion3
<1>12. \A x : copyright_hits(c, x) = K(x) \cup L(x) \cup F1(x) \cup F2(x) \cup F3(x)
  BY DEF copyright_hits
<1>13. CASE c.enabled /\ "short" \notin Contexts(t)
  <2>1. \A x \in {t, u} : copyright_detect(c, x) = BlockOrWarn(p, copyright_hits(c, x))
    BY <1>2, <1>13 DEF copyright_detect
  <2>2. p \in BOOLEAN
    OBVIOUS
  <2> HIDE DEF K, L, F1, F2, F3, p
  <2>3. Grew(copyright_hits(c, t), copyright_hits(c, u))
    BY <1>11, <1>12
  <2>4. QED
    BY <2>1, <2>2, <2>3, GrewBlockOrWarn
<1>14. CASE ~(c.enabled /\ "short" \notin Contexts(t))
  BY <1>2, <1>14, AllowedAgain DEF copyright_detect
<1>15. QED
  BY <1>13, <1>14

\* What a detector reads back from a result.
LEMMA ResultFields ==
    /\ Allowed.decision = "ALLOW" /\ Allowed.risk = 0
    /\ \A d, n, h : /\ DetectorResult(d, n, h).decision = d /\ DetectorResult(d, n, h).risk = n
                    /\ \A w : /\ Rewritten(d, n, h, w).decision = d /\ Rewritten(d, n, h, w).risk = n
                              /\ Rewritten(d, n, h, w).sanitized_text = w
  BY DEF Allowed, Rewritten, DetectorResult

\* secrets.detect: a harmful fact more is a result that is no weaker.
LEMMA SecretsMonotone ==
    ASSUME NEW c, NEW t, NEW f, Worse("secrets", c, t, f)
    PROVE  NoWeaker(secrets_detect(c, t), secrets_detect(c, t \cup {f}))
<1> DEFINE u == t \cup {f}
           found(x) == IF c.enabled THEN secret_spans(c, x) ELSE {}
           d == IF c.action = "REDACT" THEN "REDACT" ELSE "BLOCK"
<1>1. found(t) \subseteq found(u)
  BY DEF secret_spans, _detect_base64_secrets
<1>2. \A x : /\ secrets_detect(c, x).decision = IF found(x) = {} THEN "ALLOW" ELSE d
             /\ secrets_detect(c, x).risk = IF found(x) = {} THEN 0 ELSE 100
  <2>1. \A x : secrets_detect(c, x) = IF found(x) = {} THEN Allowed
                  ELSE IF c.action = "REDACT"
                       THEN Rewritten("REDACT", 100, HitsOf(found(x), "high"), secrets_redact_text(found(x)))
                       ELSE DetectorResult("BLOCK", 100, HitsOf(found(x), "high"))
    BY DEF secrets_detect
  <2>2. Allowed.decision = "ALLOW" /\ Allowed.risk = 0
    BY ResultFields
  <2>3. \A h, w : /\ Rewritten("REDACT", 100, h, w).decision = "REDACT"
                  /\ Rewritten("REDACT", 100, h, w).risk = 100
                  /\ DetectorResult("BLOCK", 100, h).decision = "BLOCK"
                  /\ DetectorResult("BLOCK", 100, h).risk = 100
    BY ResultFields
  <2> HIDE DEF found
  <2>4. QED
    BY <2>1, <2>2, <2>3
<1> HIDE DEF found
<1>3. QED
  BY <1>1, <1>2 DEF NoWeaker, DECISION_PRECEDENCE

\* multimodal_injection.detect: a harmful fact more is a result that is no weaker.
LEMMA MultimodalMonotone ==
    ASSUME NEW c, NEW t, NEW f, Worse("multimodal_injection", c, t, f)
    PROVE  NoWeaker(multimodal_injection_detect(c, t), multimodal_injection_detect(c, t \cup {f}))
<1> DEFINE u == t \cup {f}
           media(x) == {a \in _attachments(x) : _is_non_text(a)}
           unextracted(x) == {a \in media(x) : a.markers = {"none"}}
           planted(x) == {a \in media(x) \ unextracted(x) : Cardinality(a.markers) >= c.match_threshold}
           P(x) == {a.place : a \in planted(x)}
           on(x) == c.flag_unextracted_media /\ unextracted(x) # {}
           H(x) == HitsOf(P(x), "high") \cup Finding(on(x), 0, "medium")
           p(x) == c.action = "BLOCK" /\ planted(x) # {}
<1>1. IsFiniteSet(u)
  BY Grown
<1>2. _attachments(t) \subseteq _attachments(u)
  <2> DEFINE used(x) == {i \in DOMAIN _ATTACHMENT_KEYS : \E a \in x : a.key = _ATTACHMENT_KEYS[i]}
  <2>1. f.key = "content_parts"
    BY DEF Worse, Harmful
  <2>2. /\ DOMAIN _ATTACHMENT_KEYS = 1 .. 5
        /\ _ATTACHMENT_KEYS[5] = "content_parts"
        /\ \A i \in 1 .. 4 : _ATTACHMENT_KEYS[i] # "content_parts"
    BY DEF _ATTACHMENT_KEYS
  <2>3. \A a \in t : a.key \in Range(_ATTACHMENT_KEYS)
    BY DEF Worse, Sound, FactOK
  <2>4. \A a \in t : \E i \in 1 .. 5 : a.key = _ATTACHMENT_KEYS[i]
    BY <2>2, <2>3 DEF Range
  <2>5. used(u) = used(t) \cup {5}
    BY <2>1, <2>2
  <2>6. used(t) \subseteq 1 .. 5
    BY <2>2
  <2>7. CASE t = {}
    BY <2>7 DEF _attachments
  <2>8. CASE t # {}
    <3>1. used(t) # {}
      BY <2>2, <2>4, <2>8
    <3>2. PICK m \in used(t) : \A n \in used(t) : m <= n
      <4> HIDE DEF used
      <4>1. used(t) \in SUBSET Nat /\ used(t) # {}
        BY <2>6, <3>1
      <4>2. QED
        BY <4>1, Least
    <3>3. Min(used(t)) = m /\ Min(used(u)) = m
      <4> HIDE DEF used
      <4>1. \A n \in used(t) : n \in 1 .. 5
        BY <2>6
      <4>2. m \in used(u) /\ \A n \in used(u) : m <= n
        BY <2>5, <3>2, <4>1
      <4>3. \A n \in used(u) : n \in Int
        BY <2>5, <4>1
      <4>4. QED
        BY <3>2, <4>1, <4>2, <4>3 DEF Min
    <3>4. _attachments(t) = {a \in t : a.key = _ATTACHMENT_KEYS[Min(used(t))] /\ a.place <= 32}
      BY DEF _attachments
    <3>5. _attachments(u) = {a \in u : a.key = _ATTACHMENT_KEYS[Min(used(u))] /\ a.place <= 32}
      BY DEF _attachments
    <3> HIDE DEF used
    <3>6. QED
      BY <3>3, <3>4, <3>5
  <2>9. QED
    BY <2>7, <2>8
<1>3. _attachments(u) \subseteq u
  BY DEF _attachments
<1>4. /\ planted(t) \subseteq planted(u) /\ unextracted(t) \subseteq unextracted(u)
      /\ planted(u) \subseteq u
  BY <1>2, <1>3
<1>5. P(t) \subseteq P(u) /\ IsFiniteSet(P(u))
  <2> DEFINE k == [a \in u |-> a.place]
  <2>1. IsFiniteSet(planted(u))
    <3> HIDE DEF planted
    <3>1. QED
      BY <1>1, <1>4, FS_Subset
  <2>2. IsFiniteSet(Image(k, planted(u)))
    <3> HIDE DEF k, planted
    <3>1. QED
      BY <2>1, ImageFinite DEF Image
  <2>3. P(u) = Image(k, planted(u))
    <3> HIDE DEF planted
    <3>1. QED
      BY <1>4 DEF Image
  <2>4. P(t) \subseteq P(u)
    <3> HIDE DEF planted
    <3>1. QED
      BY <1>4
  <2> HIDE DEF P, k
  <2>5. QED
    BY <2>2, <2>3, <2>4
<1>6. on(t) \in BOOLEAN /\ on(u) \in BOOLEAN /\ (on(t) => on(u))
  BY <1>4
<1>7. p(t) \in BOOLEAN /\ p(u) \in BOOLEAN /\ (p(t) => p(u))
  BY <1>4
<1>8. Grew(H(t), H(u))
  <2> HIDE DEF P, on
  <2>1. Grew(HitsOf(P(t), "high"), HitsOf(P(u), "high"))
    BY <1>5, GrewHitsOf, Severities
  <2>2. Grew(Finding(on(t), 0, "medium"), Finding(on(u), 0, "medium"))
    BY <1>6, GrewFinding, Severities
  <2>3. QED
    BY <2>1, <2>2, GrewUnion
<1>9. CASE c.enabled
  <2>1. \A x : multimodal_injection_detect(c, x) = BlockOrWarn(p(x), H(x))
    BY <1>9 DEF multimodal_injection_detect
  <2> HIDE DEF p, H
  <2>2. QED
    BY <1>7, <1>8, <2>1, GrewBlockOrWarn
<1>10. CASE ~c.enabled
  BY <1>10, AllowedAgain DEF multimodal_injection_detect
<1>11. QED
  BY <1>9, <1>10

\* language.detect: a harmful fact more is a result that is no weaker.
LEMMA LanguageMonotone ==
    ASSUME NEW c, NEW t, NEW f, Worse("language", c, t, f)
    PROVE  NoWeaker(language_detect(c, t), language_detect(c, t \cup {f}))
  BY DEF Worse, Harmful

\* gibberish.detect: a harmful fact more is a result that is no weaker.
LEMMA GibberishMonotone ==
    ASSUME NEW c, NEW t, NEW f, Worse("gibberish", c, t, f)
    PROVE  NoWeaker(gibberish_detect(c, t), gibberish_detect(c, t \cup {f}))
<1> DEFINE u == t \cup {f}
           n(x) == [k \in DOMAIN NormalText |->
                      IF \E g \in x : g.kind = k THEN (CHOOSE g \in x : g.kind = k).value
                      ELSE NormalText[k]]
           w == [NormalText EXCEPT ![f.kind] = f.value]
           on1(y) == c.detect_invisible_chars /\ y.invisible > 0
           on2(y) == y.stripped > 20 /\ y.entropy > c.entropy_threshold
           on3(y) == y.special > c.max_special_char_ratio
           on4(y) == c.detect_token_stuffing /\ y.repeats >= c.repetition_threshold
           on5(y) == y.letters > 20 /\ (y.consonants > 600 \/ y.consonants \in 1 .. 29)
           on6(y) == y.letters > 30 /\ y.recognised < 15
           p == c.action = "BLOCK"
<1>1. f.kind \in DOMAIN NormalText /\ \A g \in t : g.kind \in DOMAIN NormalText
  BY DEF Worse, Sound, FactOK
<1>2. DOMAIN NormalText = {"length", "letters", "stripped", "invisible", "entropy", "special",
                           "repeats", "consonants", "recognised"}
  BY DEF NormalText
<1>3. \A g, h \in u : g.kind = h.kind => g = h
  <2>1. \A g \in u : Slot("gibberish", g) = <<"field", g.kind>>
    BY <1>1, <1>2 DEF Slot
  <2>2. \A g, h \in u : Slot("gibberish", g) = Slot("gibberish", h) => g = h
    BY DEF Worse, Sound
  <2> HIDE DEF u
  <2>3. QED
    BY <2>1, <2>2
<1>4. f \notin t
  BY DEF Worse
<1>5. \A x \in {t, u} : \A g \in x : n(x)[g.kind] = g.value
  <2>1. \A g \in u : g.kind \in DOMAIN NormalText
    BY <1>1
  <2>2. ASSUME NEW x \in {t, u}, NEW g \in x PROVE n(x)[g.kind] = g.value
    <3>1. x \subseteq u
      OBVIOUS
    <3>2. (CHOOSE h \in x : h.kind = g.kind) \in x /\ (CHOOSE h \in x : h.kind = g.kind).kind = g.kind
      <4>1. \E h \in x : h.kind = g.kind
        OBVIOUS
      <4>2. QED
        BY <4>1
    <3>3. (CHOOSE h \in x : h.kind = g.kind) = g
      <4> HIDE DEF u
      <4>1. QED
        BY <1>3, <3>1, <3>2
    <3>4. QED
      BY <2>1, <3>1, <3>3
  <2>3. QED
    BY <2>2
<1>6. \A x : \A k \in DOMAIN NormalText : (\A g \in x : g.kind # k) => n(x)[k] = NormalText[k]
  OBVIOUS
<1>7. n(u)[f.kind] = f.value /\ n(t)[f.kind] = NormalText[f.kind]
  <2>1. \A g \in t : g.kind # f.kind
    BY <1>3, <1>4
  <2> HIDE DEF n
  <2>2. QED
    BY <1>1, <1>5, <1>6, <2>1
<1>8. \A k \in DOMAIN NormalText \ {f.kind} : n(u)[k] = n(t)[k]
  <2> HIDE DEF n
  <2>1. ASSUME NEW k \in DOMAIN NormalText \ {f.kind} PROVE n(u)[k] = n(t)[k]
    <3>1. CASE \E g \in t : g.kind = k
      <4>1. PICK g \in t : g.kind = k
        BY <3>1
      <4>2. QED
        BY <1>5, <4>1
    <3>2. CASE ~ \E g \in t : g.kind = k
      <4>1. \A g \in u : g.kind # k
        BY <3>2
      <4>2. QED
        BY <1>6, <3>2, <4>1
    <3>3. QED
      BY <3>1, <3>2
  <2>2. QED
    BY <2>1
<1>9. \A y : gibberish_hits(c, y) =
         Finding(on1(y), "invisible_chars", "high")
         \cup Finding(on2(y), "high_entropy", "medium")
         \cup Finding(on3(y), "excessive_special_chars", "medium")
         \cup Finding(on4(y), "token_stuffing", "medium")
         \cup Finding(on5(y), "incoherent", "medium")
         \cup Finding(on6(y), "no_recognizable_words", "high")
  BY DEF gibberish_hits
<1>10. \/ on1(w) /\ ~on1(NormalText)
       \/ on2(w) /\ ~on2(NormalText)
       \/ on3(w) /\ ~on3(NormalText)
       \/ on4(w) /\ ~on4(NormalText)
       \/ on5(w) /\ ~on5(NormalText)
       \/ on6(w) /\ ~on6(NormalText)
  <2>1. ~(gibberish_hits(c, w) \subseteq gibberish_hits(c, NormalText))
    BY DEF Worse, Harmful
  <2> HIDE DEF on1, on2, on3, on4, on5, on6, w
  <2>2. QED
    BY <1>9, <2>1 DEF Finding
<1>11. /\ \A k \in DOMAIN NormalText : k # f.kind => w[k] = NormalText[k]
       /\ w[f.kind] = f.value
  BY <1>1
<1>12. /\ NormalText.length = 50 /\ NormalText.letters = 40 /\ NormalText.stripped = 40
       /\ NormalText.invisible = 0 /\ NormalText.entropy = 4 /\ NormalText.special = 5
       /\ NormalText.repeats = 1 /\ NormalText.consonants = 150 /\ NormalText.recognised = 60
  BY DEF NormalText
<1>13. /\ \A k \in DOMAIN NormalText : k # f.kind => n(u)[k] = n(t)[k] /\ w[k] = NormalText[k]
       /\ n(u)[f.kind] = f.value /\ n(t)[f.kind] = NormalText[f.kind] /\ w[f.kind] = f.value
  BY <1>7, <1>8, <1>11
<1>14. /\ f.kind \notin {"length", "letters", "stripped"}
       /\ f.kind = "invisible" => on1(w) /\ ~on1(NormalText)
       /\ f.kind = "entropy" => on2(w) /\ ~on2(NormalText)
       /\ f.kind = "special" => on3(w) /\ ~on3(NormalText)
       /\ f.kind = "repeats" => on4(w) /\ ~on4(NormalText)
       /\ f.kind = "consonants" => on5(w) /\ ~on5(NormalText)
       /\ f.kind = "recognised" => on6(w) /\ ~on6(NormalText)
  <2> HIDE DEF w, n
  <2>1. \A k \in DOMAIN NormalText : k # f.kind => w[k] = NormalText[k]
    BY <1>11
  <2>2. f.kind \notin {"invisible"} => (on1(w) <=> on1(NormalText))
    BY <2>1, <1>2
  <2>3. f.kind \notin {"entropy", "stripped"} => (on2(w) <=> on2(NormalText))
    BY <2>1, <1>2
  <2>4. f.kind \notin {"special"} => (on3(w) <=> on3(NormalText))
    BY <2>1, <1>2
  <2>5. f.kind \notin {"repeats"} => (on4(w) <=> on4(NormalText))
    BY <2>1, <1>2
  <2>6. f.kind \notin {"consonants"} => ~on5(w)
    BY <2>1, <1>2, <1>12
  <2>7. f.kind \notin {"recognised"} => ~on6(w)
    BY <2>1, <1>2, <1>12
  <2>8. f.kind = "stripped" => (on2(w) => on2(NormalText))
    BY <2>1, <1>2, <1>12
  <2> HIDE DEF on1, on2, on3, on4, on5, on6
  <2>9. QED
    BY <1>2, <1>10, <2>2, <2>3, <2>4, <2>5, <2>6, <2>7, <2>8
<1>15. n(u).length = n(t).length
  <2> HIDE DEF n
  <2>1. QED
    BY <1>2, <1>8, <1>14
<1>16. /\ on1(n(t)) => on1(n(u))
       /\ on2(n(t)) => on2(n(u))
       /\ on3(n(t)) => on3(n(u))
       /\ on4(n(t)) => on4(n(u))
       /\ on5(n(t)) => on5(n(u))
       /\ on6(n(t)) => on6(n(u))
  <2> HIDE DEF n, w
  <2> DEFINE a == n(t)
             b == n(u)
  <2>1. /\ \A k \in DOMAIN NormalText : k # f.kind => b[k] = a[k] /\ w[k] = NormalText[k]
        /\ b[f.kind] = w[f.kind] /\ a[f.kind] = NormalText[f.kind]
    BY <1>13
  <2> HIDE DEF a, b
  <2>2. on1(a) => on1(b)
    BY <2>1, <1>2, <1>14, <1>12
  <2>3. on2(a) => on2(b)
    BY <2>1, <1>2, <1>14, <1>12
  <2>4. on3(a) => on3(b)
    BY <2>1, <1>2, <1>14, <1>12
  <2>5. on4(a) => on4(b)
    BY <2>1, <1>2, <1>14, <1>12
  <2>6. on5(a) => on5(b)
    BY <2>1, <1>2, <1>14, <1>12
  <2>7. on6(a) => on6(b)
    BY <2>1, <1>2, <1>14, <1>12
  <2>8. QED
    BY <2>2, <2>3, <2>4, <2>5, <2>6, <2>7 DEF a, b
<1>17. Grew(gibberish_hits(c, n(t)), gibberish_hits(c, n(u)))
  <2> DEFINE a == n(t)
             b == n(u)
             F(on, id, s) == Finding(on, id, s)
  <2>1. \A y : /\ on1(y) \in BOOLEAN /\ on2(y) \in BOOLEAN /\ on3(y) \in BOOLEAN
               /\ on4(y) \in BOOLEAN /\ on5(y) \in BOOLEAN /\ on6(y) \in BOOLEAN
    OBVIOUS
  <2>2. /\ on1(a) => on1(b)
        /\ on2(a) => on2(b)
        /\ on3(a) => on3(b)
        /\ on4(a) => on4(b)
        /\ on5(a) => on5(b)
        /\ on6(a) => on6(b)
    BY <1>16
  <2> HIDE DEF on1, on2, on3, on4, on5, on6, a, b
  <2>3. /\ Grew(Finding(on1(a), "invisible_chars", "high"), Finding(on1(b), "invisible_chars", "high"))
        /\ Grew(Finding(on2(a), "high_entropy", "medium"), Finding(on2(b), "high_entropy", "medium"))
        /\ Grew(Finding(on3(a), "excessive_special_chars", "medium"), Finding(on3(b), "excessive_special_chars", "medium"))
        /\ Grew(Finding(on4(a), "token_stuffing", "medium"), Finding(on4(b), "token_stuffing", "medium"))
        /\ Grew(Finding(on5(a), "incoherent", "medium"), Finding(on5(b), "incoherent", "medium"))
        /\ Grew(Finding(on6(a), "no_recognizable_words", "high"), Finding(on6(b), "no_recognizable_words", "high"))
    BY <2>1, <2>2, GrewFinding, Severities
  <2>4. Grew(gibberish_hits(c, a), gibberish_hits(c, b))
    <3> DEFINE F1(y) == Finding(on1(y), "invisible_chars", "high")
               F2(y) == Finding(on2(y), "high_entropy", "medium")
               F3(y) == Finding(on3(y), "excessive_special_chars", "medium")
               F4(y) == Finding(on4(y), "token_stuffing", "medium")
               F5(y) == Finding(on5(y), "incoherent", "medium")
               F6(y) == Finding(on6(y), "no_recognizable_words", "high")
    <3>1. \A y : gibberish_hits(c, y) = F1(y) \cup F2(y) \cup F3(y) \cup F4(y) \cup F5(y) \cup F6(y)
      BY <1>9
    <3>2. /\ Grew(F1(a), F1(b)) /\ Grew(F2(a), F2(b)) /\ Grew(F3(a), F3(b))
          /\ Grew(F4(a), F4(b)) /\ Grew(F5(a), F5(b)) /\ Grew(F6(a), F6(b))
      BY <2>3
    <3> HIDE DEF F1, F2, F3, F4, F5, F6
    <3>3. Grew(F1(a) \cup F2(a) \cup F3(a), F1(b) \cup F2(b) \cup F3(b))
      BY <3>2, GrewUnion3
    <3>4. Grew(F1(a) \cup F2(a) \cup F3(a) \cup F4(a) \cup F5(a), F1(b) \cup F2(b) \cup F3(b) \cup F4(b) \cup F5(b))
      BY <3>2, <3>3, GrewUnion3
    <3>5. Grew(F1(a) \cup F2(a) \cup F3(a) \cup F4(a) \cup F5(a) \cup F6(a),
               F1(b) \cup F2(b) \cup F3(b) \cup F4(b) \cup F5(b) \cup F6(b))
      BY <3>2, <3>4, GrewUnion
    <3>6. QED
      BY <3>1, <3>5
  <2>5. QED
    BY <2>4 DEF a, b
<1>18. CASE c.enabled /\ n(t).length >= c.min_text_length
  <2>1. \A x \in {t, u} : gibberish_detect(c, x) = BlockOrWarn(p, gibberish_hits(c, n(x)))
    <3>1. \A x : gibberish_detect(c, x) =
             IF c.enabled /\ n(x).length >= c.min_text_length
             THEN BlockOrWarn(p, gibberish_hits(c, n(x))) ELSE Allowed
      BY DEF gibberish_detect
    <3> HIDE DEF n, p
    <3>2. QED
      BY <1>15, <1>18, <3>1
  <2>2. p \in BOOLEAN
    OBVIOUS
  <2> HIDE DEF n, p
  <2>3. QED
    BY <1>17, <2>1, <2>2, GrewBlockOrWarn
<1>19. CASE ~(c.enabled /\ n(t).length >= c.min_text_length)
  <2>1. \A x : gibberish_detect(c, x) =
             IF c.enabled /\ n(x).length >= c.min_text_length
             THEN BlockOrWarn(p, gibberish_hits(c, n(x))) ELSE Allowed
    BY DEF gibberish_detect
  <2> HIDE DEF n, p
  <2>2. QED
    BY <1>15, <1>19, <2>1, AllowedAgain
<1>20. QED
  BY <1>18, <1>19

\* The hits of B weigh at least those of A.
Heavier(A, B) == HitsOK(A) /\ HitsOK(B) /\ Weight(A) <= Weight(B) /\ (A # {} => B # {})

\* More hits are heavier.
LEMMA GrewHeavier ==
    ASSUME NEW A, NEW B, Grew(A, B) PROVE Heavier(A, B)
  BY HitsSubset DEF Grew, Heavier

\* One hit is exchanged for another that is not less severe.
LEMMA SwapHeavier ==
    ASSUME NEW A, NEW B, HitsOK(B), NEW x, NEW y \in B, A \subseteq B \cup {x}, y \notin A,
           x.severity \in Severity,
           SEVERITY_RISK_SCORES[x.severity] <= SEVERITY_RISK_SCORES[y.severity]
    PROVE  Heavier(A, B)
<1>1. CASE x \in A
  <2>1. HitsOK(A)
    <3>1. IsFiniteSet(B \cup {x})
      BY FS_AddElement DEF HitsOK
    <3>2. QED
      BY <3>1, FS_Subset DEF HitsOK
  <2>2. A \ {x} \subseteq B \ {y}
    OBVIOUS
  <2>3. QED
    BY <1>1, <2>1, <2>2, HitsSwap DEF Heavier
<1>2. CASE x \notin A
  BY <1>2, GrewHeavier DEF Grew
<1>3. QED
  BY <1>1, <1>2

\* A detector that blocks or warns is no weaker when its hits are exchanged for
\* heavier ones.
LEMMA HeavierBlockOrWarn ==
    ASSUME NEW A, NEW B, Heavier(A, B), NEW p \in BOOLEAN, NEW q \in BOOLEAN, p => q
    PROVE  NoWeaker(BlockOrWarn(p, A), BlockOrWarn(q, B))
  BY BlockOrWarnHeavier DEF Heavier

\* Heavier hits are no smaller a risk.
LEMMA HeavierFacts ==
    ASSUME NEW A, NEW B, Heavier(A, B)
    PROVE  /\ calculate_risk_score(A) \in 0 .. 100 /\ calculate_risk_score(B) \in 0 .. 100
           /\ calculate_risk_score(A) <= calculate_risk_score(B)
           /\ A # {} => B # {}
  BY RiskOf, RiskMonotone DEF Heavier

\* The points of the three severities.
LEMMA SeverityOrder ==
    /\ SEVERITY_RISK_SCORES["low"] = 10 /\ SEVERITY_RISK_SCORES["medium"] = 30
    /\ SEVERITY_RISK_SCORES["high"] = 50
  BY DEF SEVERITY_RISK_SCORES

\* reasoning_trace_disclosure.detect: a harmful fact more is a result that is no weaker.
LEMMA TraceMonotone ==
    ASSUME NEW c, NEW t, NEW f, Worse("reasoning_trace_disclosure", c, t, f)
    PROVE  NoWeaker(reasoning_trace_disclosure_detect(c, t),
                    reasoning_trace_disclosure_detect(c, t \cup {f}))
<1> DEFINE u == t \cup {f}
           on1(x) == _first_trace(x) /\ c.require_trace_scanned /\ "scanned" \notin Contexts(x)
           on2(x) == /\ _first_trace(x) /\ "answer redacted" \in Contexts(x)
                     /\ "trace redacted" \notin Contexts(x)
           on3(x) == c.flag_logprobs /\ _logprob_channels(x) # {} /\ gated(c)
           on4(x) == c.flag_tool_arguments /\ "tool arguments" \in Contexts(x)
           s(x) == IF "top_logprobs" \in Contexts(x) THEN "high" ELSE "medium"
           F1(x) == Finding(on1(x), "unscanned_trace", "high")
           F2(x) == Finding(on2(x), "trace_exceeds_answer", "high")
           F3(x) == Finding(on3(x), "logprobs_exposed", s(x))
           F4(x) == Finding(on4(x), "raw_tool_arguments", "medium")
           H(x) == F1(x) \cup F2(x) \cup F3(x) \cup F4(x)
           p == c.action = "BLOCK"
<1>1. f.name \notin {"scanned", "trace redacted"}
  BY DEF Worse, Harmful
<1>2. Contexts(t) \subseteq Contexts(u) /\ Contexts(u) \subseteq Contexts(t) \cup {f.name}
  BY DEF Contexts
<1>3. (on1(t) => on1(u)) /\ (on2(t) => on2(u)) /\ (on3(t) => on3(u)) /\ (on4(t) => on4(u))
  <2> HIDE DEF u
  <2>1. QED
    BY <1>1, <1>2 DEF _first_trace, _logprob_channels
<1>4. \A x : s(x) \in {"high", "medium"}
  OBVIOUS
<1>5. s(t) = "high" => s(u) = "high"
  <2> HIDE DEF u
  <2>1. QED
    BY <1>2
<1>6. HitsOK(H(u))
  <2>1. HitsOK(F1(u)) /\ HitsOK(F2(u)) /\ HitsOK(F3(u)) /\ HitsOK(F4(u))
    <3> HIDE DEF on1, on2, on3, on4, s
    <3>1. QED
      BY <1>4, HitsFinding, Severities
  <2> HIDE DEF F1, F2, F3, F4
  <2>2. QED
    BY <2>1, HitsUnions
<1>7. F1(t) \subseteq F1(u) /\ F2(t) \subseteq F2(u) /\ F4(t) \subseteq F4(u)
  <2> HIDE DEF on1, on2, on3, on4
  <2>1. QED
    BY <1>3 DEF Finding
<1>8. ASSUME s(t) = s(u) \/ ~on3(t) PROVE Heavier(H(t), H(u))
  <2>1. F3(t) \subseteq F3(u)
    <3> HIDE DEF on3, s
    <3>1. QED
      BY <1>3, <1>8 DEF Finding
  <2>2. H(t) \subseteq H(u)
    <3> HIDE DEF F1, F2, F3, F4
    <3>1. QED
      BY <1>7, <2>1
  <2> HIDE DEF H
  <2>3. QED
    BY <1>6, <2>2, GrewHeavier DEF Grew
<1>9. ASSUME s(t) # s(u) /\ on3(t) PROVE Heavier(H(t), H(u))
  <2> DEFINE x == Hit("logprobs_exposed", "medium")
             y == Hit("logprobs_exposed", "high")
  <2>1. s(t) = "medium" /\ s(u) = "high"
    <3> HIDE DEF s
    <3>1. QED
      BY <1>4, <1>5, <1>9
  <2>2. F3(t) = {x} /\ F3(u) = {y}
    <3> HIDE DEF on3, s
    <3>1. QED
      BY <1>3, <1>9, <2>1 DEF Finding
  <2>3. y \notin F1(t) \cup F2(t) \cup F4(t) /\ x # y
    <3> HIDE DEF on1, on2, on3, on4
    <3>1. QED
      BY DEF Finding, Hit
  <2>4. H(t) \subseteq H(u) \cup {x} /\ y \notin H(t) /\ y \in H(u)
    <3> HIDE DEF F1, F2, F3, F4, x, y
    <3>1. QED
      BY <1>7, <2>2, <2>3
  <2>5. x.severity = "medium" /\ y.severity = "high"
    BY DEF Hit
  <2> HIDE DEF H, x, y
  <2>6. QED
    BY <1>6, <2>4, <2>5, SwapHeavier, SeverityOrder, Severities
<1>10. Heavier(H(t), H(u))
  <2> HIDE DEF H, s, on3
  <2>1. QED
    BY <1>8, <1>9
<1>11. CASE c.enabled
  <2>1. \A x : reasoning_trace_disclosure_detect(c, x) = BlockOrWarn(p, H(x))
    BY <1>11 DEF reasoning_trace_disclosure_detect
  <2>2. p \in BOOLEAN
    OBVIOUS
  <2> HIDE DEF H, p
  <2>3. QED
    BY <1>10, <2>1, <2>2, HeavierBlockOrWarn
<1>12. CASE ~c.enabled
  BY <1>12, AllowedAgain DEF reasoning_trace_disclosure_detect
<1>13. QED
  BY <1>11, <1>12

\* Five sets of hits together are hits.
LEMMA HitsUnions5 ==
    ASSUME NEW A, NEW B, NEW C, NEW D, NEW E, HitsOK(A), HitsOK(B), HitsOK(C), HitsOK(D), HitsOK(E)
    PROVE  HitsOK(A \cup B \cup C \cup D \cup E)
<1>1. HitsOK(A \cup B \cup C \cup D)
  BY HitsUnions
<1>2. QED
  BY <1>1, HitsUnion

\* output_control_char_sanitizer.detect: a harmful fact more is a result that is no weaker.
LEMMA ControlCharMonotone ==
    ASSUME NEW c, NEW t, NEW f, Worse("output_control_char_sanitizer", c, t, f)
    PROVE  NoWeaker(output_control_char_sanitizer_detect(c, t),
                    output_control_char_sanitizer_detect(c, t \cup {f}))
<1> DEFINE u == t \cup {f}
           classes(x) == {m.class : m \in Matches(x)}
           residual(K) == IF c.allow_color_codes THEN K \ {"colour"} ELSE K
           scr(K) == K \cap {"screen", "lone_cr"} # {}
           F1(K) == Finding("osc52" \in K, "clipboard_hijack", "high")
           F2(K) == Finding("osc52" \notin K /\ "osc" \in K, "osc_sequence", "high")
           F3(K) == Finding(scr(K), "screen_manipulation", "high")
           F4(K) == Finding(~scr(K) /\ ~c.allow_color_codes /\ residual(K) \cap {"colour", "csi"} # {},
                            "ansi_sequence", "medium")
           F5(K) == Finding(residual(K) \ {"lone_cr"} # {}, "control_characters", "medium")
           H(K) == F1(K) \cup F2(K) \cup F3(K) \cup F4(K) \cup F5(K)
           A == classes(t)
           B == classes(u)
           d == IF c.action \in {"BLOCK", "WARN"} THEN c.action ELSE "REDACT"
<1>1. A \subseteq B /\ B \subseteq A \cup {f.class}
  BY DEF Matches
<1>2. \A x : control_char_hits(c, x) = H(classes(x))
  BY DEF control_char_hits
<1> HIDE DEF A, B, classes, u
<1>3. \A K : HitsOK(H(K))
  <2>1. \A K : HitsOK(F1(K)) /\ HitsOK(F2(K)) /\ HitsOK(F3(K)) /\ HitsOK(F4(K)) /\ HitsOK(F5(K))
    BY HitsFinding, Severities
  <2> HIDE DEF F1, F2, F3, F4, F5
  <2>2. QED
    BY <2>1, HitsUnions5
<1>4. F1(A) \subseteq F1(B) /\ F3(A) \subseteq F3(B) /\ F5(A) \subseteq F5(B)
  BY <1>1 DEF Finding
<1>5. ASSUME "osc52" \in A \/ "osc52" \notin B, scr(B) => scr(A) PROVE Heavier(H(A), H(B))
  <2>1. F2(A) \subseteq F2(B) /\ F4(A) \subseteq F4(B)
    BY <1>1, <1>5 DEF Finding
  <2>2. H(A) \subseteq H(B)
    <3> HIDE DEF F1, F2, F3, F4, F5
    <3>1. QED
      BY <1>4, <2>1
  <2> HIDE DEF H
  <2>3. QED
    BY <1>3, <2>2, GrewHeavier DEF Grew
<1>6. ASSUME "osc52" \notin A, "osc52" \in B PROVE Heavier(H(A), H(B))
  <2> DEFINE x == Hit("osc_sequence", "high")
             y == Hit("clipboard_hijack", "high")
  <2>1. f.class = "osc52"
    BY <1>1, <1>6
  <2>2. F1(A) = {} /\ F1(B) = {y} /\ F2(A) \subseteq {x}
    BY <1>6 DEF Finding
  <2>3. F4(A) \subseteq F4(B)
    BY <1>1, <2>1 DEF Finding
  <2>4. y \notin F2(A) \cup F3(A) \cup F4(A) \cup F5(A)
    BY DEF Finding, Hit
  <2>5. x.severity = "high" /\ y.severity = "high"
    BY DEF Hit
  <2>6. H(A) \subseteq H(B) \cup {x} /\ y \notin H(A) /\ y \in H(B)
    <3> HIDE DEF F1, F2, F3, F4, F5, x, y
    <3>1. QED
      BY <1>4, <2>2, <2>3, <2>4
  <2> HIDE DEF H, x, y
  <2>7. QED
    BY <1>3, <2>5, <2>6, SwapHeavier, SeverityOrder, Severities
<1>7. ASSUME ~scr(A), scr(B) PROVE Heavier(H(A), H(B))
  <2> DEFINE x == Hit("ansi_sequence", "medium")
             y == Hit("screen_manipulation", "high")
  <2>1. f.class \in {"screen", "lone_cr"}
    BY <1>1, <1>7
  <2>2. F3(A) = {} /\ F3(B) = {y} /\ F4(A) \subseteq {x}
    <3> HIDE DEF scr, residual
    <3>1. QED
      BY <1>7 DEF Finding
  <2>3. F2(A) \subseteq F2(B)
    BY <1>1, <2>1 DEF Finding
  <2>4. y \notin F1(A) \cup F2(A) \cup F4(A) \cup F5(A)
    BY DEF Finding, Hit
  <2>5. x.severity = "medium" /\ y.severity = "high"
    BY DEF Hit
  <2>6. H(A) \subseteq H(B) \cup {x} /\ y \notin H(A) /\ y \in H(B)
    <3> HIDE DEF F1, F2, F3, F4, F5, x, y
    <3>1. QED
      BY <1>4, <2>2, <2>3, <2>4
  <2> HIDE DEF H, x, y
  <2>7. QED
    BY <1>3, <2>5, <2>6, SwapHeavier, SeverityOrder, Severities
<1>8. Heavier(H(A), H(B))
  <2> HIDE DEF H, scr
  <2>1. QED
    BY <1>5, <1>6, <1>7
<1>9. \A x : output_control_char_sanitizer_detect(c, x) =
         IF ~c.enabled \/ H(classes(x)) = {} THEN Allowed
         ELSE IF c.action \in {"BLOCK", "WARN"}
              THEN DetectorResult(c.action, calculate_risk_score(H(classes(x))), H(classes(x)))
              ELSE Rewritten("REDACT", calculate_risk_score(H(classes(x))), H(classes(x)), sanitize(c, x))
  <2> HIDE DEF H
  <2>1. QED
    BY <1>2 DEF output_control_char_sanitizer_detect
<1>10. d \in {"BLOCK", "WARN", "REDACT"}
  OBVIOUS
<1>11. DECISION_PRECEDENCE[d] \in Nat /\ DECISION_PRECEDENCE["ALLOW"] = 0
  BY <1>10 DEF DECISION_PRECEDENCE
<1>12. /\ calculate_risk_score(H(A)) \in Nat /\ calculate_risk_score(H(B)) \in Nat
       /\ calculate_risk_score(H(A)) <= calculate_risk_score(H(B))
       /\ H(A) # {} => H(B) # {}
  <2> HIDE DEF H
  <2>1. QED
    BY <1>8, HeavierFacts
<1>13. \A x : /\ output_control_char_sanitizer_detect(c, x).decision
                    = IF ~c.enabled \/ H(classes(x)) = {} THEN "ALLOW" ELSE d
              /\ output_control_char_sanitizer_detect(c, x).risk
                    = IF ~c.enabled \/ H(classes(x)) = {} THEN 0 ELSE calculate_risk_score(H(classes(x)))
  <2> HIDE DEF H
  <2>1. QED
    BY <1>9, ResultFields
<1>14. QED
  <2> HIDE DEF H, d
  <2>1. QED
    BY <1>11, <1>12, <1>13 DEF NoWeaker, A, B, u

\* semantic_cache_integrity.detect: a harmful fact more is a result that is no weaker.
LEMMA CacheMonotone ==
    ASSUME NEW c, NEW t, NEW f, Worse("semantic_cache_integrity", c, t, f)
    PROVE  NoWeaker(semantic_cache_integrity_detect(c, t),
                    semantic_cache_integrity_detect(c, t \cup {f}))
<1> DEFINE u == t \cup {f}
           E(x, k) == Evidence(x, k)
           cross(x) == c.tenant # "" /\ \E v \in E(x, "tenant") : v # c.tenant
           on2(x) == /\ ~(c.tenant # "" /\ E(x, "tenant") # {}) /\ c.require_partitioning
                     /\ \/ FALSE \in E(x, "partitioned")
                        \/ E(x, "partitioned") = {} /\ E(x, "tenant") = {}
           on3(x) == \E s \in similarity(x) : s < c.min_similarity
           on4(x) == \E v \in E(x, "overlap") : v < c.min_token_overlap
           on5(x) == c.max_age > 0 /\ \E v \in E(x, "age") : v > c.max_age
           F1(x) == Finding(cross(x), "cross_tenant_cache_hit", "high")
           F2(x) == Finding(on2(x), "unpartitioned_cache", "high")
           F3(x) == Finding(on3(x), "low_similarity_hit", "medium")
           F4(x) == Finding(on4(x), "query_divergence", "high")
           F5(x) == Finding(on5(x), "stale_cache_entry", "medium")
           H(x) == F1(x) \cup F2(x) \cup F3(x) \cup F4(x) \cup F5(x)
           p(x) == c.action = "BLOCK" \/ (cross(x) /\ c.block_cross_tenant)
<1>1. \/ f.kind = "hit" /\ f.value = TRUE
      \/ f.kind = "partitioned" /\ f.value = FALSE
      \/ f.kind = "tenant" /\ c.tenant # "" /\ f.value # c.tenant
      \/ f.kind = "overlap" /\ f.value < c.min_token_overlap
      \/ f.kind = "age" /\ f.value > c.max_age
  <2>1. \/ f \in {[kind |-> "hit", value |-> TRUE], [kind |-> "partitioned", value |-> FALSE]}
        \/ f.kind = "tenant" /\ c.tenant # "" /\ f.value # c.tenant
        \/ f.kind = "overlap" /\ f.value < c.min_token_overlap
        \/ f.kind = "age" /\ f.value > c.max_age
    BY DEF Worse, Harmful
  <2>2. /\ [kind |-> "hit", value |-> TRUE].kind = "hit"
        /\ [kind |-> "hit", value |-> TRUE].value = TRUE
        /\ [kind |-> "partitioned", value |-> FALSE].kind = "partitioned"
        /\ [kind |-> "partitioned", value |-> FALSE].value = FALSE
    BY Zenon
  <2>3. f = [kind |-> "hit", value |-> TRUE] => f.kind = "hit" /\ f.value = TRUE
    BY <2>2, Zenon
  <2>4. f = [kind |-> "partitioned", value |-> FALSE] => f.kind = "partitioned" /\ f.value = FALSE
    BY <2>2, Zenon
  <2>5. QED
    BY <2>1, <2>3, <2>4
<1>2. \A g \in t : g.kind # f.kind
  <2>1. f \notin t /\ \A g \in t : Slot("semantic_cache_integrity", g) = Slot("semantic_cache_integrity", f) => g = f
    BY DEF Worse, Sound
  <2>2. f.kind # "match"
    BY <1>1
  <2>3. \A g : g.kind = f.kind => Slot("semantic_cache_integrity", g) = <<"field", f.kind>>
    BY <2>2 DEF Slot
  <2>4. QED
    BY <2>1, <2>3
<1>3. E(t, f.kind) = {} /\ E(u, f.kind) = {f.value} /\ \A k : k # f.kind => E(u, k) = E(t, k)
  BY <1>2 DEF Evidence
<1>4. \A x : semantic_cache_integrity_detect(c, x) =
               IF ~c.enabled \/ ~served(x) THEN Allowed ELSE BlockOrWarn(p(x), H(x))
  BY DEF semantic_cache_integrity_detect, cross_tenant, Says
<1>5. served(t) => served(u)
  <2> HIDE DEF u
  <2>1. QED
    BY <1>1, <1>3 DEF served
<1>6. on3(t) <=> on3(u)
  <2>1. similarity(t) = similarity(u)
    <3> HIDE DEF u
    <3>1. QED
      BY <1>1, <1>3 DEF similarity
  <2>2. QED
    BY <2>1
<1> HIDE DEF E, u
<1>7. (cross(t) => cross(u)) /\ (on4(t) => on4(u)) /\ (on5(t) => on5(u))
  BY <1>1, <1>3
<1>8. \A x : HitsOK(H(x))
  <2>1. \A x : HitsOK(F1(x)) /\ HitsOK(F2(x)) /\ HitsOK(F3(x)) /\ HitsOK(F4(x)) /\ HitsOK(F5(x))
    <3> HIDE DEF cross, on2, on3, on4, on5
    <3>1. QED
      BY HitsFinding, Severities
  <2> HIDE DEF F1, F2, F3, F4, F5
  <2>2. QED
    BY <2>1, HitsUnions5
<1>9. F1(t) \subseteq F1(u) /\ F3(t) \subseteq F3(u) /\ F4(t) \subseteq F4(u) /\ F5(t) \subseteq F5(u)
  <2> HIDE DEF cross, on2, on3, on4, on5
  <2>1. QED
    BY <1>6, <1>7 DEF Finding
<1>10. ASSUME f.kind # "tenant" PROVE Heavier(H(t), H(u))
  <2>1. on2(t) => on2(u)
    BY <1>1, <1>3, <1>10
  <2>2. F2(t) \subseteq F2(u)
    <3> HIDE DEF on2
    <3>1. QED
      BY <2>1 DEF Finding
  <2>3. H(t) \subseteq H(u)
    <3> HIDE DEF F1, F2, F3, F4, F5
    <3>1. QED
      BY <1>9, <2>2
  <2> HIDE DEF H
  <2>4. QED
    BY <1>8, <2>3, GrewHeavier DEF Grew
<1>11. ASSUME f.kind = "tenant" PROVE Heavier(H(t), H(u))
  <2> DEFINE x == Hit("unpartitioned_cache", "high")
             y == Hit("cross_tenant_cache_hit", "high")
  <2>1. ~cross(t) /\ cross(u)
    BY <1>1, <1>3, <1>11
  <2>2. F1(t) = {} /\ F1(u) = {y} /\ F2(t) \subseteq {x}
    <3> HIDE DEF cross, on2
    <3>1. QED
      BY <2>1 DEF Finding
  <2>3. y \notin F2(t) \cup F3(t) \cup F4(t) \cup F5(t)
    <3> HIDE DEF cross, on2, on3, on4, on5
    <3>1. QED
      BY DEF Finding, Hit
  <2>4. x.severity = "high" /\ y.severity = "high"
    BY DEF Hit
  <2>5. H(t) \subseteq H(u) \cup {x} /\ y \notin H(t) /\ y \in H(u)
    <3> HIDE DEF F1, F2, F3, F4, F5, x, y
    <3>1. QED
      BY <1>9, <2>2, <2>3
  <2> HIDE DEF H, x, y
  <2>6. QED
    BY <1>8, <2>4, <2>5, SwapHeavier, SeverityOrder, Severities
<1>12. Heavier(H(t), H(u))
  BY <1>10, <1>11
<1>13. p(t) \in BOOLEAN /\ p(u) \in BOOLEAN /\ (p(t) => p(u))
  <2> HIDE DEF cross
  <2>1. QED
    BY <1>7
<1>14. NoWeaker(BlockOrWarn(p(t), H(t)), BlockOrWarn(p(u), H(u)))
  <2> HIDE DEF H, p
  <2>1. QED
    BY <1>12, <1>13, HeavierBlockOrWarn
<1>15. NoWeaker(Allowed, BlockOrWarn(p(u), H(u)))
  <2> HIDE DEF H, p
  <2>1. BlockOrWarn(FALSE, {}) = Allowed
    BY DEF BlockOrWarn
  <2>2. Heavier({}, H(u))
    <3>1. Grew({}, H(u))
      BY <1>8 DEF Grew
    <3>2. QED
      BY <3>1, GrewHeavier
  <2>3. NoWeaker(BlockOrWarn(FALSE, {}), BlockOrWarn(p(u), H(u)))
    BY <1>13, <2>2, HeavierBlockOrWarn
  <2>4. QED
    BY <2>1, <2>3
<1>16. QED
  <2> HIDE DEF H, p
  <2>1. QED
    BY <1>4, <1>5, <1>14, <1>15, AllowedAgain DEF u

\* A result with a stronger decision and a higher risk is no weaker.
LEMMA ResultNoWeaker ==
    ASSUME NEW d, NEW k, DECISION_PRECEDENCE[d] \in Nat, DECISION_PRECEDENCE[k] \in Nat,
           DECISION_PRECEDENCE[d] <= DECISION_PRECEDENCE[k],
           NEW m \in Nat, NEW n \in Nat, m <= n, NEW A, NEW B
    PROVE  NoWeaker(DetectorResult(d, m, A), DetectorResult(k, n, B))
  BY DEF NoWeaker, DetectorResult

\* compliance.detect: a harmful fact more is a result that is no weaker.
LEMMA ComplianceMonotone ==
    ASSUME NEW c, NEW t, NEW f, Worse("compliance", c, t, f)
    PROVE  NoWeaker(compliance_detect(c, t), compliance_detect(c, t \cup {f}))
<1> DEFINE u == t \cup {f}
           topical(x) == {r \in compliance_rules(c) :
                             \E m \in Matches(x) : m.industry = r /\ m.what = "topic"}
           missing(x) == missing_disclaimers(c, x)
           undis(x) == c.ai_disclosure /\ ~\E m \in Matches(x) : m.what = "ai marker"
           bad(x) == {n \in Matches(x) : \/ n.what = "prohibited" /\ n.industry \in topical(x)
                                         \/ n.what = "claim"}
           gen(x) == {n \in Matches(x) : n.what = "general"}
           e1 == [m \in Matches(u) |-> Hit(m, "high")]
           e2 == [m \in Matches(u) |-> Hit(m, "medium")]
           e3 == [r \in compliance_rules(c) |-> Hit([missing |-> r], "medium")]
           F1(x) == Image(e1, bad(x))
           F2(x) == Image(e2, gen(x))
           F3(x) == Image(e3, missing(x))
           F4(x) == IF undis(x) THEN {Hit([missing |-> "ai disclosure"], "low")} ELSE {}
           H(x) == F1(x) \cup F2(x) \cup F3(x) \cup F4(x)
           d(x) == CASE c.action = "APPEND" /\ (missing(x) # {} \/ undis(x)) -> "TRANSFORM"
                     [] c.action = "BLOCK" -> "BLOCK"
                     [] OTHER -> "WARN"
<1>1. f.kind = "match" /\ f.what \in {"topic", "prohibited", "general", "claim"}
  BY DEF Worse, Harmful
<1>2. IsFiniteSet(Matches(u)) /\ Matches(u) = Matches(t) \cup {f} /\ Contexts(u) = Contexts(t)
  BY <1>1, Grown, ContextsKept
<1> HIDE DEF u
<1>3. undis(t) <=> undis(u)
  BY <1>1, <1>2
<1>4. topical(t) \subseteq topical(u)
  BY <1>2
<1>5. missing(t) \subseteq missing(u) /\ missing(u) \subseteq compliance_rules(c)
  BY <1>1, <1>2 DEF missing_disclaimers
<1>6. bad(t) \subseteq bad(u) /\ bad(u) \subseteq Matches(u) /\ gen(t) \subseteq gen(u) /\ gen(u) \subseteq Matches(u)
  <2> HIDE DEF topical
  <2>1. QED
    BY <1>2, <1>4
<1>7. IsFiniteSet(compliance_rules(c))
  <2> DEFINE all == {"healthcare", "finance", "legal", "insurance", "custom", "other"}
  <2>1. compliance_rules(c) \subseteq all
    BY DEF compliance_rules, _INDUSTRY_RULES
  <2>2. IsFiniteSet(all)
    <3>1. IsFiniteSet({"healthcare"} \cup {"finance"} \cup {"legal"})
      BY FS_Singleton, FS_AddElement
    <3>2. IsFiniteSet({"insurance"} \cup {"custom"} \cup {"other"})
      BY FS_Singleton, FS_AddElement
    <3>3. all = ({"healthcare"} \cup {"finance"} \cup {"legal"}) \cup ({"insurance"} \cup {"custom"} \cup {"other"})
      OBVIOUS
    <3> HIDE DEF all
    <3>4. QED
      BY <3>1, <3>2, <3>3, FS_Union
  <2> HIDE DEF all
  <2>3. QED
    BY <2>1, <2>2, FS_Subset
<1>8. Grew(F1(t), F1(u))
  <2>1. \A m \in Matches(u) : e1[m].severity \in Severity
    BY Severities DEF Hit
  <2>2. IsFiniteSet(bad(u))
    <3> HIDE DEF bad
    <3>1. QED
      BY <1>2, <1>6, FS_Subset
  <2> HIDE DEF e1, bad
  <2>3. QED
    BY <1>6, <2>1, <2>2, GrewImage
<1>9. Grew(F2(t), F2(u))
  <2>1. \A m \in Matches(u) : e2[m].severity \in Severity
    BY Severities DEF Hit
  <2>2. IsFiniteSet(gen(u))
    <3> HIDE DEF gen
    <3>1. QED
      BY <1>2, <1>6, FS_Subset
  <2> HIDE DEF e2, gen
  <2>3. QED
    BY <1>6, <2>1, <2>2, GrewImage
<1>10. Grew(F3(t), F3(u))
  <2>1. \A m \in compliance_rules(c) : e3[m].severity \in Severity
    BY Severities DEF Hit
  <2>2. IsFiniteSet(missing(u))
    <3> HIDE DEF missing
    <3>1. QED
      BY <1>5, <1>7, FS_Subset
  <2> HIDE DEF e3, missing
  <2>3. QED
    BY <1>5, <2>1, <2>2, GrewImage
<1>11. Grew(F4(t), F4(u))
  <2>1. HitsOK(F4(u))
    <3> HIDE DEF undis
    <3>1. QED
      BY HitsOne, HitsNone, Severities
  <2>2. F4(t) = F4(u)
    <3> HIDE DEF undis
    <3>1. QED
      BY <1>3
  <2> HIDE DEF F4
  <2>3. QED
    BY <2>1, <2>2 DEF Grew
<1>12. Grew(H(t), H(u))
  <2> HIDE DEF F1, F2, F3, F4
  <2>1. Grew(F1(t) \cup F2(t) \cup F3(t), F1(u) \cup F2(u) \cup F3(u))
    BY <1>8, <1>9, <1>10, GrewUnion3
  <2>2. QED
    BY <2>1, <1>11, GrewUnion
<1>13. /\ calculate_risk_score(H(t)) \in Nat /\ calculate_risk_score(H(u)) \in Nat
       /\ calculate_risk_score(H(t)) <= calculate_risk_score(H(u))
       /\ H(t) \subseteq H(u)
  <2> HIDE DEF H
  <2>1. QED
    BY <1>12, GrewFacts
<1>14. \A x \in {t, u} : compliance_detect(c, x) =
         IF ~c.enabled \/ "short" \in Contexts(x) \/ H(x) = {} THEN Allowed
         ELSE DetectorResult(d(x), calculate_risk_score(H(x)), H(x))
  <2> DEFINE G(x) == {Hit(m, "high") : m \in bad(x)} \cup {Hit(m, "medium") : m \in gen(x)}
                     \cup {Hit([missing |-> r], "medium") : r \in missing(x)} \cup F4(x)
  <2>1. ASSUME NEW x \in {t, u} PROVE G(x) = H(x)
    <3>1. /\ bad(x) \subseteq Matches(u) /\ gen(x) \subseteq Matches(u) /\ missing(x) \subseteq compliance_rules(c)
      <4> HIDE DEF bad, gen, missing
      <4>1. QED
        BY <1>5, <1>6
    <3>2. F1(x) = {Hit(m, "high") : m \in bad(x)}
      <4> HIDE DEF bad
      <4>1. QED
        BY <3>1 DEF Image
    <3>3. F2(x) = {Hit(m, "medium") : m \in gen(x)}
      <4> HIDE DEF gen
      <4>1. QED
        BY <3>1 DEF Image
    <3>4. F3(x) = {Hit([missing |-> r], "medium") : r \in missing(x)}
      <4> HIDE DEF missing
      <4>1. QED
        BY <3>1 DEF Image
    <3>5. QED
      <4> HIDE DEF F1, F2, F3, F4, bad, gen, missing
      <4>1. QED
        BY <3>2, <3>3, <3>4
  <2>2. \A x : compliance_detect(c, x) =
         IF ~c.enabled \/ "short" \in Contexts(x) \/ G(x) = {} THEN Allowed
         ELSE DetectorResult(d(x), calculate_risk_score(G(x)), G(x))
    BY DEF compliance_detect
  <2> HIDE DEF G, H, d
  <2>3. QED
    BY <2>1, <2>2
<1>15. /\ d(t) \in {"TRANSFORM", "BLOCK", "WARN"} /\ d(u) \in {"TRANSFORM", "BLOCK", "WARN"}
       /\ DECISION_PRECEDENCE[d(t)] <= DECISION_PRECEDENCE[d(u)]
  <2> HIDE DEF missing, undis
  <2>1. QED
    BY <1>3, <1>5 DEF DECISION_PRECEDENCE
<1>16. /\ DECISION_PRECEDENCE[d(t)] \in Nat /\ DECISION_PRECEDENCE[d(u)] \in Nat
       /\ DECISION_PRECEDENCE["ALLOW"] = 0
  <2> HIDE DEF d
  <2>1. QED
    BY <1>15 DEF DECISION_PRECEDENCE
<1>17. QED
  <2> HIDE DEF H, d
  <2> DEFINE a == compliance_detect(c, t)
             b == compliance_detect(c, u)
  <2>1. CASE ~c.enabled \/ "short" \in Contexts(t)
    BY <1>2, <1>14, <2>1, AllowedAgain DEF u
  <2>2. CASE c.enabled /\ "short" \notin Contexts(t) /\ H(t) = {} /\ H(u) = {}
    BY <1>2, <1>14, <2>2, AllowedAgain DEF u
  <2>3. CASE c.enabled /\ "short" \notin Contexts(t) /\ H(t) = {} /\ H(u) # {}
    BY <1>2, <1>13, <1>14, <1>16, <2>3, ResultFields DEF u, NoWeaker
  <2>4. CASE c.enabled /\ "short" \notin Contexts(t) /\ H(t) # {}
    <3>1. H(u) # {}
      BY <1>13, <2>4
    <3>2. a = DetectorResult(d(t), calculate_risk_score(H(t)), H(t))
      BY <1>14, <2>4
    <3>3. b = DetectorResult(d(u), calculate_risk_score(H(u)), H(u))
      BY <1>2, <1>14, <2>4, <3>1
    <3>4. NoWeaker(a, b)
      <4> HIDE DEF a, b
      <4>1. QED
        BY <1>13, <1>15, <1>16, <3>2, <3>3, ResultNoWeaker
    <3>5. QED
      BY <3>4 DEF u
  <2>5. QED
    BY <2>1, <2>2, <2>3, <2>4

\* The two kinds of address have one severity.
LEMMA AddressSeverity == pii_types["address"] = "medium" /\ pii_types["address_simple"] = "medium"
<1>1. /\ "address" \in DOMAIN person_types /\ person_types["address"] = "medium"
      /\ "address_simple" \in DOMAIN person_types /\ person_types["address_simple"] = "medium"
  BY DEF person_types
<1>2. /\ "address" \notin DOMAIN contact_types /\ "address_simple" \notin DOMAIN contact_types
      /\ "address" \notin DOMAIN document_types /\ "address_simple" \notin DOMAIN document_types
  BY DEF contact_types, document_types
<1>a. /\ "address" \notin DOMAIN asset_types /\ "address_simple" \notin DOMAIN asset_types
      /\ "address" \notin DOMAIN REGIONAL_PATTERNS /\ "address_simple" \notin DOMAIN REGIONAL_PATTERNS
  BY DEF asset_types, REGIONAL_PATTERNS
<1>3. walk("address") = 3 /\ walk("address_simple") = 3
  BY <1>1, <1>2, <1>a DEF walk
<1>4. 3 \in DOMAIN pii_tables /\ pii_tables[3] = person_types
  BY DEF pii_tables
<1>5. {"address", "address_simple"} \subseteq UNION {DOMAIN pii_tables[i] : i \in DOMAIN pii_tables}
  BY <1>1, <1>4
<1>6. QED
  BY <1>1, <1>3, <1>4, <1>5 DEF pii_types

\* pii.detect: a harmful fact more never weakens the decision, and lowers the risk
\* only if it is a full address around two simple ones.
LEMMA PiiMonotone ==
    ASSUME NEW c, NEW t, NEW f, Worse("pii", c, t, f)
    PROVE  /\ DECISION_PRECEDENCE[pii_detect(c, t \cup {f}).decision]
                >= DECISION_PRECEDENCE[pii_detect(c, t).decision]
           /\ pii_detect(c, t \cup {f}).risk >= pii_detect(c, t).risk \/ Absorbs("pii", f, t)
<1> DEFINE u == t \cup {f}
           found(x) == IF c.enabled THEN {m \in x : _is_type_enabled(c, m) /\ is_pii(c, x, m)} ELSE {}
           e == [m \in u |-> Hit(m, pii_types[m.type])]
           H(x) == Image(e, found(x))
           actions(x) == {_get_type_action(c, m) : m \in found(x)}
           d(x) == IF "BLOCK" \in actions(x) THEN "BLOCK" ELSE IF "REDACT" \in actions(x) THEN "REDACT" ELSE "ALLOW"
           gone(m) == m.type = "address_simple" /\ inside_address(f, m)
<1>1. IsFiniteSet(u) /\ f \notin t
  BY Grown DEF Worse
<1>2. found(t) \subseteq t /\ found(u) \subseteq u
  OBVIOUS
<1>3. \A m \in u : pii_types[m.type] \in Severity
  BY DEF Worse, Sound, FactOK
<1>4. ASSUME NEW m \in t, is_pii(c, t, m) PROVE is_pii(c, u, m) \/ gone(m)
  BY <1>4 DEF is_pii, REGIONAL_PATTERNS
<1>5. ASSUME NEW m \in found(t), m \notin found(u)
      PROVE  gone(m) /\ f \in found(u) /\ f.type = "address" /\ _get_type_action(c, f) = _get_type_action(c, m)
  <2>1. gone(m) /\ c.enabled /\ _is_type_enabled(c, m)
    <3> HIDE DEF gone
    <3>1. QED
      BY <1>4, <1>5
  <2>2. f.type = "address"
    BY <2>1 DEF inside_address
  <2>3. config_key(f.type) = config_key(m.type)
    BY <2>1, <2>2 DEF config_key
  <2>4. is_pii(c, u, f)
    BY <2>2 DEF is_pii, REGIONAL_PATTERNS
  <2>5. _is_type_enabled(c, f) /\ _get_type_action(c, f) = _get_type_action(c, m)
    BY <2>1, <2>3 DEF _is_type_enabled, _get_type_action
  <2>6. QED
    BY <2>1, <2>2, <2>4, <2>5
<1>6. actions(t) \subseteq actions(u)
  <2> HIDE DEF found, gone
  <2>1. QED
    BY <1>5
<1>7. DECISION_PRECEDENCE[d(t)] <= DECISION_PRECEDENCE[d(u)]
  <2> HIDE DEF actions
  <2>1. QED
    BY <1>6 DEF DECISION_PRECEDENCE
<1>8. HitsOK(H(t)) /\ HitsOK(H(u))
  <2>1. \A m \in u : e[m].severity \in Severity
    BY <1>3 DEF Hit
  <2> HIDE DEF e, found
  <2>2. Grew(Image(e, found(t)), Image(e, u)) /\ Grew(Image(e, found(u)), Image(e, u))
    BY <1>1, <1>2, <2>1, GrewImage
  <2>3. QED
    BY <2>2, GrewFacts
<1>9. ASSUME ~Absorbs("pii", f, t) PROVE calculate_risk_score(H(t)) <= calculate_risk_score(H(u))
  <2>1. CASE found(t) \subseteq found(u)
    <3>1. H(t) \subseteq H(u)
      <4> HIDE DEF found, e
      <4>1. QED
        BY <2>1 DEF Image
    <3> HIDE DEF H
    <3>2. QED
      BY <1>8, <3>1, RiskSubset
  <2>2. CASE ~(found(t) \subseteq found(u))
    <3>1. PICK m \in found(t) : m \notin found(u)
      BY <2>2
    <3>2. gone(m) /\ f \in found(u) /\ f.type = "address" /\ m \in t /\ f \notin found(t)
      BY <1>1, <1>2, <1>5, <3>1
    <3>3. ASSUME NEW n \in found(t), n \notin found(u) PROVE n = m
      <4>1. gone(n) /\ n \in t
        BY <1>2, <1>5, <3>3
      <4>2. QED
        BY <1>9, <3>2, <4>1 DEF Absorbs
    <3>4. /\ e[m] = Hit(m, "medium") /\ e[f] = Hit(f, "medium") /\ e[f] \in H(u)
          /\ \A n \in found(t) : e[n].id = n
      <4>1. m \in u /\ f \in u /\ found(t) \subseteq u
        BY <1>2, <3>2
      <4>2. pii_types[m.type] = "medium" /\ pii_types[f.type] = "medium"
        BY <3>2, AddressSeverity
      <4>3. e[m] = Hit(m, "medium") /\ e[f] = Hit(f, "medium")
        BY <4>1, <4>2
      <4>4. \A n \in found(t) : e[n].id = n
        <5> HIDE DEF found, u
        <5>1. QED
          BY <4>1 DEF Hit
      <4>5. e[f] \in H(u)
        <5> HIDE DEF found, e
        <5>1. QED
          BY <3>2 DEF Image
      <4>6. QED
        BY <4>3, <4>4, <4>5
    <3>5. e[f] \notin H(t)
      <4>1. e[f].id = f
        BY <3>4 DEF Hit
      <4> HIDE DEF found, e
      <4>2. QED
        BY <3>2, <3>4, <4>1 DEF Image
    <3>6. H(t) \subseteq H(u) \cup {e[m]}
      <4> HIDE DEF found, e
      <4>1. QED
        BY <3>3 DEF Image
    <3>7. /\ e[m].severity \in Severity
          /\ SEVERITY_RISK_SCORES[e[m].severity] <= SEVERITY_RISK_SCORES[e[f].severity]
      <4>1. e[m].severity = "medium" /\ e[f].severity = "medium"
        BY <3>4 DEF Hit
      <4> HIDE DEF e
      <4>2. QED
        BY <4>1, SeverityOrder, Severities
    <3> HIDE DEF H, e
    <3>8. Heavier(H(t), H(u))
      BY <1>8, <3>4, <3>5, <3>6, <3>7, SwapHeavier
    <3>9. QED
      BY <3>8, HeavierFacts
  <2>3. QED
    BY <2>1, <2>2
<1>10. \A x \in {t, u} : pii_detect(c, x).decision = d(x) /\ pii_detect(c, x).risk = calculate_risk_score(H(x))
  <2> DEFINE G(x) == {Hit(m, pii_types[m.type]) : m \in found(x)}
  <2>1. \A x \in {t, u} : G(x) = H(x)
    <3>1. found(t) \subseteq u /\ found(u) \subseteq u
      BY <1>2
    <3> HIDE DEF found
    <3>2. QED
      BY <3>1 DEF Image
  <2>2. \A x : pii_detect(c, x) =
           CASE "BLOCK" \in actions(x) -> DetectorResult("BLOCK", calculate_risk_score(G(x)), G(x))
             [] "BLOCK" \notin actions(x) /\ "REDACT" \in actions(x) ->
                Rewritten("REDACT", calculate_risk_score(G(x)), G(x), _redact_pii(c, found(x)))
             [] OTHER -> DetectorResult("ALLOW", calculate_risk_score(G(x)), G(x))
    BY DEF pii_detect
  <2> HIDE DEF G, H, actions, found
  <2>3. \A x : pii_detect(c, x).decision = d(x) /\ pii_detect(c, x).risk = calculate_risk_score(G(x))
    BY <2>2, ResultFields
  <2>4. QED
    BY <2>1, <2>3
<1>11. DECISION_PRECEDENCE[d(t)] \in Int /\ DECISION_PRECEDENCE[d(u)] \in Int
  BY DEF DECISION_PRECEDENCE
<1>12. calculate_risk_score(H(t)) \in Nat /\ calculate_risk_score(H(u)) \in Nat
  <2> HIDE DEF H
  <2>1. QED
    BY <1>8, RiskOf
<1> HIDE DEF H, d
<1>13. QED
  BY <1>7, <1>9, <1>10, <1>11, <1>12

\* topic.detect: a harmful fact more is a result that is no weaker.
LEMMA TopicMonotone ==
    ASSUME NEW c, NEW t, NEW f, Worse("topic", c, t, f)
    PROVE  NoWeaker(topic_detect(c, t), topic_detect(c, t \cup {f}))
<1> DEFINE u == t \cup {f}
           context(m) == IF c.context_aware /\ m.topic \notin NO_CONTEXT_TOPICS
                         THEN _detect_topic_context(m.cues) ELSE "direct"
           bad(m) == context(m) \in {"advisory", "direct"}
           found(x) == {topic \in c.blocked_topics : \E m \in matched_pattern(x, topic) : bad(m)}
           H(x) == HitsOf(found(x), "high")
           n == c.block_threshold
<1>1. topic_mode(c) = "blocklist" /\ _detect_topic_context(f.cues) \in {"advisory", "direct"}
  BY DEF Worse, Harmful
<1>2. n \in Int /\ \A g \in u : g.phrase \in Int
  BY DEF Worse, Sound, SettingOK, FactOK
<1>3. /\ IsFiniteSet(Matches(u)) /\ Matches(u) \subseteq u
      /\ f.kind = "match" => Matches(u) = Matches(t) \cup {f}
      /\ f.kind # "match" => Matches(u) = Matches(t)
  BY Grown DEF Matches
<1>4. bad(f)
  BY <1>1
<1> HIDE DEF u
<1>5. ASSUME NEW y \in found(t) PROVE y \in found(u)
  <2> DEFINE F(x) == {m \in Matches(x) : m.topic = y}
             tried(x) == IF \E m \in F(x) : ~m.broad THEN {m \in F(x) : ~m.broad} ELSE F(x)
  <2>1. \A x : matched_pattern(x, y) = {m \in tried(x) : \A k \in tried(x) : m.phrase <= k.phrase}
    BY DEF matched_pattern
  <2>2. y \in c.blocked_topics /\ \E m \in matched_pattern(t, y) : bad(m)
    OBVIOUS
  <2>3. PICK m \in matched_pattern(t, y) : bad(m)
    BY <2>2
  <2> HIDE DEF context, bad
  <2>4. \E k \in matched_pattern(u, y) : bad(k)
    <3>1. F(t) \subseteq F(u) /\ F(u) \subseteq F(t) \cup {f} /\ F(u) \subseteq u
      BY <1>3
    <3> HIDE DEF F
    <3>2. tried(u) \subseteq F(u) /\ tried(t) \subseteq F(t)
      OBVIOUS
    <3>3. \/ tried(u) = tried(t)
          \/ tried(u) = tried(t) \cup {f}
          \/ tried(u) = {f}
      <4> DEFINE narrow(x) == {k \in F(x) : ~k.broad}
      <4>1. \A x : tried(x) = IF narrow(x) # {} THEN narrow(x) ELSE F(x)
        BY Zenon
      <4>2. narrow(t) \subseteq narrow(u) /\ narrow(u) \subseteq narrow(t) \cup {f}
        BY <3>1
      <4>3. narrow(u) = narrow(t) \/ narrow(u) = narrow(t) \cup {f}
        <5> HIDE DEF narrow, tried
        <5>1. QED
          BY <4>2
      <4>4. F(u) = F(t) \/ F(u) = F(t) \cup {f}
        BY <3>1
      <4>5. narrow(u) \subseteq F(u)
        OBVIOUS
      <4> HIDE DEF narrow, tried
      <4>6. CASE narrow(t) = {} /\ narrow(u) = {}
        BY <4>1, <4>4, <4>6
      <4>7. CASE narrow(t) = {} /\ narrow(u) # {}
        BY <4>1, <4>3, <4>7
      <4>8. CASE narrow(t) # {}
        BY <4>1, <4>3, <4>8
      <4>9. QED
        BY <4>6, <4>7, <4>8
    <3> HIDE DEF tried
    <3>4. m \in tried(t) /\ \A k \in tried(t) : m.phrase <= k.phrase
      BY <2>1, <2>3
    <3>5. \A k \in tried(u) \cup tried(t) : k.phrase \in Int
      BY <1>2, <3>1, <3>2
    <3>6. CASE tried(u) = tried(t)
      BY <2>1, <2>3, <3>6
    <3>7. CASE tried(u) = {f}
      BY <1>4, <2>1, <3>5, <3>7
    <3>8. CASE tried(u) = tried(t) \cup {f}
      <4>1. CASE m.phrase <= f.phrase
        <5>1. m \in matched_pattern(u, y)
          BY <2>1, <3>4, <3>8, <4>1
        <5>2. QED
          BY <2>3, <5>1
      <4>2. CASE ~(m.phrase <= f.phrase)
        <5>1. \A k \in tried(t) : f.phrase <= k.phrase
          BY <3>4, <3>5, <3>8, <4>2
        <5>2. f \in matched_pattern(u, y)
          BY <2>1, <3>5, <3>8, <5>1
        <5>3. QED
          BY <1>4, <5>2
      <4>3. QED
        BY <4>1, <4>2
    <3>9. QED
      BY <3>3, <3>6, <3>7, <3>8
  <2>5. QED
    BY <2>2, <2>4
<1>6. IsFiniteSet(found(u))
  <2> DEFINE e == [m \in Matches(u) |-> m.topic]
  <2>1. IsFiniteSet(Image(e, Matches(u)))
    <3> HIDE DEF e
    <3>1. QED
      BY <1>3, ImageFinite DEF Image
  <2>2. \A y : matched_pattern(u, y) \subseteq {m \in Matches(u) : m.topic = y}
    BY DEF matched_pattern
  <2>3. found(u) \subseteq Image(e, Matches(u))
    <3> HIDE DEF bad
    <3>1. QED
      BY <2>2 DEF Image
  <2> HIDE DEF found, e
  <2>4. QED
    BY <2>1, <2>3, FS_Subset
<1>7. Grew(H(t), H(u))
  <2> HIDE DEF found
  <2>1. QED
    BY <1>5, <1>6, GrewHitsOf, Severities
<1>8. CASE c.enabled
  <2>1. \A x : topic_detect(c, x) = BlockOrWarn(calculate_risk_score(H(x)) >= n, H(x))
    <3>1. \A x : topic_detect(c, x) = IF found(x) = {} THEN Allowed
                      ELSE DetectorResult(IF calculate_risk_score(H(x)) >= n THEN "BLOCK" ELSE "WARN",
                                          calculate_risk_score(H(x)), H(x))
      BY <1>1, <1>8 DEF topic_detect
    <3> HIDE DEF found
    <3>2. \A x : H(x) = {} <=> found(x) = {}
      BY DEF HitsOf
    <3> HIDE DEF H, n
    <3>3. QED
      BY <3>1, <3>2 DEF BlockOrWarn
  <2> HIDE DEF H, n
  <2>2. QED
    BY <1>2, <1>7, <2>1, GrewRisk DEF u
<1>9. CASE ~c.enabled
  BY <1>9, AllowedAgain DEF topic_detect
<1>10. QED
  BY <1>8, <1>9

\* sensitive_business_data.detect: a harmful fact more is a result that is no weaker.
LEMMA BusinessMonotone ==
    ASSUME NEW c, NEW t, NEW f, Worse("sensitive_business_data", c, t, f)
    PROVE  NoWeaker(sensitive_business_data_detect(c, t), sensitive_business_data_detect(c, t \cup {f}))
<1> DEFINE u == t \cup {f}
           C(x) == {m.category : m \in active_phrases(c, x)}
           H(x) == HitsOf(C(x), c.severity)
           r(x) == calculate_risk_score(H(x))
           d(x) == IF c.action \in {"BLOCK", "REDACT"} /\ r(x) >= c.block_threshold THEN c.action ELSE "WARN"
<1>1. f.kind = "match" /\ c.severity \in Severity /\ c.block_threshold \in Int
  BY DEF Worse, Sound, SettingOK, Harmful
<1>2. /\ IsFiniteSet(Matches(u)) /\ Matches(t) \subseteq Matches(u) /\ Contexts(u) = Contexts(t)
  BY <1>1, Grown, ContextsKept
<1>3. active_phrases(c, t) \subseteq active_phrases(c, u) /\ active_phrases(c, u) \subseteq Matches(u)
  BY <1>2 DEF active_phrases
<1>4. C(t) \subseteq C(u) /\ IsFiniteSet(C(u))
  <2> DEFINE e == [m \in Matches(u) |-> m.category]
  <2>1. IsFiniteSet(Image(e, active_phrases(c, u)))
    <3>1. IsFiniteSet(active_phrases(c, u))
      BY <1>2, <1>3, FS_Subset
    <3> HIDE DEF e
    <3>2. QED
      BY <3>1, ImageFinite DEF Image
  <2>2. C(u) = Image(e, active_phrases(c, u))
    BY <1>3 DEF Image
  <2>3. C(t) \subseteq C(u)
    BY <1>3
  <2> HIDE DEF C, e
  <2>4. QED
    BY <2>1, <2>2, <2>3
<1>5. Grew(H(t), H(u))
  <2> HIDE DEF C
  <2>1. QED
    BY <1>1, <1>4, GrewHitsOf
<1>6. r(t) \in Nat /\ r(u) \in Nat /\ r(t) <= r(u) /\ H(t) \subseteq H(u)
  <2> HIDE DEF H
  <2>1. QED
    BY <1>5, GrewFacts
<1>7. /\ DECISION_PRECEDENCE[d(t)] \in Nat /\ DECISION_PRECEDENCE[d(u)] \in Nat
      /\ DECISION_PRECEDENCE[d(t)] <= DECISION_PRECEDENCE[d(u)] /\ DECISION_PRECEDENCE["ALLOW"] = 0
  <2> HIDE DEF r
  <2>1. QED
    BY <1>1, <1>6 DEF DECISION_PRECEDENCE
<1>8. \A x : LET off == ~c.enabled \/ "approved" \in Contexts(x) \/ H(x) = {}
             IN  /\ sensitive_business_data_detect(c, x).decision = IF off THEN "ALLOW" ELSE d(x)
                 /\ sensitive_business_data_detect(c, x).risk = IF off THEN 0 ELSE r(x)
  <2>1. \A x : \E w : sensitive_business_data_detect(c, x) =
            IF ~c.enabled \/ "approved" \in Contexts(x) \/ H(x) = {} THEN Allowed
            ELSE Rewritten(d(x), r(x), H(x), w)
    <3>1. \A x : sensitive_business_data_detect(c, x) =
            IF ~c.enabled \/ "approved" \in Contexts(x) \/ H(x) = {} THEN Allowed
            ELSE Rewritten(d(x), r(x), H(x),
                           IF d(x) = "REDACT" THEN redact_phrases(c, active_phrases(c, x)) ELSE <<>>)
      BY DEF sensitive_business_data_detect
    <3> HIDE DEF H, r, d
    <3>2. QED
      BY <3>1
  <2> HIDE DEF H, r, d
  <2>2. QED
    BY <2>1, ResultFields
<1>9. QED
  <2> HIDE DEF H, r, d
  <2> DEFINE a == sensitive_business_data_detect(c, t)
             b == sensitive_business_data_detect(c, u)
             o == ~c.enabled \/ "approved" \in Contexts(t)
  <2>1. /\ a.decision = (IF o \/ H(t) = {} THEN "ALLOW" ELSE d(t))
        /\ a.risk = (IF o \/ H(t) = {} THEN 0 ELSE r(t))
        /\ b.decision = (IF o \/ H(u) = {} THEN "ALLOW" ELSE d(u))
        /\ b.risk = (IF o \/ H(u) = {} THEN 0 ELSE r(u))
    BY <1>2, <1>8
  <2>2. NoWeaker(a, b)
    <3> HIDE DEF a, b, o
    <3>1. QED
      BY <1>6, <1>7, <2>1 DEF NoWeaker
  <2>3. QED
    BY <2>2

\* A quotient is at least any number whose multiple the dividend reaches.
LEMMA QuotientAtLeast ==
    ASSUME NEW S \in Nat, NEW N \in Nat, N > 0, NEW q \in Nat, q * N <= S
    PROVE  S \div N \in Nat /\ q <= S \div N
<1> DEFINE k == S \div N
           r == S % N
<1>1. k \in Int /\ r \in Nat /\ r < N /\ S = k * N + r
  BY SMT
<1>2. k >= 0
  <2>1. ASSUME k < 0 PROVE FALSE
    <3>1. k * N <= -N
      BY <1>1, <2>1
    <3>2. QED
      BY <1>1, <3>1
  <2>2. QED
    BY <1>1, <2>1
<1>3. ASSUME q > k PROVE FALSE
  <2>1. q >= k + 1
    BY <1>1, <1>3
  <2>2. q * N >= (k + 1) * N
    BY <1>1, <2>1
  <2>3. (k + 1) * N = k * N + N
    BY <1>1
  <2>4. q * N \in Int /\ k * N \in Int
    BY <1>1
  <2>5. QED
    BY <1>1, <2>2, <2>3, <2>4
<1>4. QED
  BY <1>1, <1>2, <1>3

\* A quotient times its divisor is at most the dividend.
LEMMA QuotientBelow ==
    ASSUME NEW S \in Nat, NEW N \in Nat, N > 0
    PROVE  (S \div N) * N <= S
  BY SMT

\* The share of a set of claims rises with a claim of the greatest weight.
LEMMA ShareRises ==
    ASSUME NEW S \in Nat, NEW N \in Nat, N > 0, S <= 80 * N
    PROVE  /\ S \div N \in Nat /\ (S + 80) \div (N + 1) \in Nat
           /\ S \div N <= (S + 80) \div (N + 1)
<1> DEFINE q == S \div N
<1>1. q \in Nat
  BY QuotientAtLeast, 0 * N <= S
<1>2. q * N <= S
  BY QuotientBelow
<1>3. q <= 80
  <2>1. ASSUME q >= 81 PROVE FALSE
    <3>1. q * N >= 81 * N
      BY <1>1, <2>1
    <3>2. q * N \in Int
      BY <1>1
    <3>3. QED
      BY <1>2, <3>1, <3>2
  <2>2. QED
    BY <1>1, <2>1
<1>4. q * (N + 1) <= S + 80
  <2>1. q * (N + 1) = q * N + q /\ q * N \in Int
    BY <1>1
  <2>2. QED
    BY <1>1, <1>2, <1>3, <2>1
<1>5. S + 80 \in Nat /\ N + 1 \in Nat /\ N + 1 > 0
  OBVIOUS
<1> HIDE DEF q
<1>6. (S + 80) \div (N + 1) \in Nat /\ q <= (S + 80) \div (N + 1)
  BY <1>1, <1>4, <1>5, QuotientAtLeast
<1>7. QED
  BY <1>1, <1>6 DEF q

\* hallucination.detect: a harmful fact more is a result that is no weaker.
LEMMA HallucinationMonotone ==
    ASSUME NEW c, NEW t, NEW f, Worse("hallucination", c, t, f)
    PROVE  NoWeaker(hallucination_detect(c, t), hallucination_detect(c, t \cup {f}))
<1> DEFINE u == t \cup {f}
           claims(x) == {m \in Matches(x) : m.words >= c.min_claim_words}
           U(x) == {m \in claims(x) : claim_verdict(c, m) = "ungrounded"}
           W(x) == {m \in claims(x) : claim_verdict(c, m) = "weak"}
           H(x) == HitsOf(U(x), "high") \cup HitsOf(W(x), "medium")
           S(x) == 80 * Cardinality(U(x)) + 30 * Cardinality(W(x))
           N(x) == Cardinality(claims(x))
           d(x) == IF c.action = "BLOCK" /\ (c.nli = "works" => U(x) # {}) THEN "BLOCK" ELSE "WARN"
           r(x) == AtMost(100, S(x) \div N(x))
           a == hallucination_detect(c, t)
           b == hallucination_detect(c, u)
<1>1. claim_verdict(c, f) = "ungrounded" /\ f \notin t
  BY DEF Worse, Harmful
<1>2. /\ IsFiniteSet(Matches(t)) /\ Matches(t) \subseteq t
      /\ Matches(u) = Matches(t) \/ Matches(u) = Matches(t) \cup {f}
  BY Grown DEF Matches
<1>3. \A x : hallucination_detect(c, x) =
         IF ~c.enabled \/ c.passages = 0 \/ H(x) = {} THEN Allowed
         ELSE DetectorResult(d(x), r(x), H(x))
  BY DEF hallucination_detect
<1>4. \A x : H(x) = {} <=> U(x) = {} /\ W(x) = {}
  <2> HIDE DEF U, W
  <2>1. QED
    BY DEF HitsOf
<1> HIDE DEF u
<1>5. claims(u) = claims(t) \/ claims(u) = claims(t) \cup {f}
  BY <1>2
<1>6. f \notin claims(t) /\ IsFiniteSet(claims(t))
  BY <1>1, <1>2, FS_Subset
<1>7. CASE claims(u) = claims(t)
  <2> HIDE DEF claims
  <2>1. U(u) = U(t) /\ W(u) = W(t) /\ N(u) = N(t)
    BY <1>7
  <2>2. H(u) = H(t) /\ S(u) = S(t) /\ d(u) = d(t)
    <3> HIDE DEF U, W
    <3>1. QED
      BY <2>1
  <2>3. b = a
    <3>1. r(u) = r(t)
      <4> HIDE DEF N, S
      <4>1. QED
        BY <2>1, <2>2
    <3> HIDE DEF H, d, r
    <3>2. QED
      BY <1>3, <2>2, <3>1
  <2>4. H(t) # {} => r(t) \in Int /\ DECISION_PRECEDENCE[d(t)] \in Int
    <3>1. ASSUME H(t) # {} PROVE r(t) \in Int
      <4>1. IsFiniteSet(U(t)) /\ IsFiniteSet(W(t))
        BY <1>6, FS_Subset
      <4>2. claims(t) # {}
        BY <1>4, <3>1
      <4>3. N(t) \in Nat /\ N(t) # 0
        BY <1>6, <4>2, FS_CardinalityType, FS_EmptySet
      <4>4. Cardinality(U(t)) \in Nat /\ Cardinality(W(t)) \in Nat
        <5> HIDE DEF U, W
        <5>1. QED
          BY <4>1, FS_CardinalityType
      <4>5. S(t) \in Nat
        <5> HIDE DEF U, W
        <5>1. QED
          BY <4>4
      <4> HIDE DEF S, N
      <4>6. S(t) \div N(t) \in Int
        BY <4>3, <4>5
      <4>7. QED
        BY <4>6 DEF AtMost
    <3>2. DECISION_PRECEDENCE[d(t)] \in Int
      <4>1. d(t) \in {"BLOCK", "WARN"}
        OBVIOUS
      <4> HIDE DEF d
      <4>2. QED
        BY <4>1 DEF DECISION_PRECEDENCE
    <3>3. QED
      BY <3>1, <3>2
  <2>5. NoWeaker(a, a)
    <3> HIDE DEF H, d, r
    <3>1. CASE ~c.enabled \/ c.passages = 0 \/ H(t) = {}
      <4>1. a = Allowed
        BY <1>3, <3>1
      <4> HIDE DEF a
      <4>2. QED
        BY <4>1, AllowedAgain
    <3>2. CASE ~(~c.enabled \/ c.passages = 0 \/ H(t) = {})
      <4>1. a = DetectorResult(d(t), r(t), H(t))
        BY <1>3, <3>2
      <4>2. a.decision = d(t) /\ a.risk = r(t)
        <5> HIDE DEF a
        <5>1. QED
          BY <4>1, ResultFields
      <4> HIDE DEF a
      <4>3. QED
        BY <2>4, <3>2, <4>2 DEF NoWeaker
    <3>3. QED
      BY <3>1, <3>2
  <2> HIDE DEF a, b
  <2>6. QED
    BY <2>3, <2>5 DEF a, b, u
<1>8. CASE claims(u) = claims(t) \cup {f}
  <2> HIDE DEF claims
  <2>1. U(u) = U(t) \cup {f} /\ W(u) = W(t) /\ f \notin U(t)
    BY <1>1, <1>6, <1>8
  <2>2. IsFiniteSet(U(t)) /\ IsFiniteSet(W(t)) /\ U(t) \cap W(t) = {} /\ U(t) \cup W(t) \subseteq claims(t)
    BY <1>6, FS_Subset
  <2>3. /\ Cardinality(U(t)) \in Nat /\ Cardinality(W(t)) \in Nat /\ N(t) \in Nat
        /\ Cardinality(U(t)) + Cardinality(W(t)) <= N(t)
    <3> HIDE DEF U, W
    <3>1. Cardinality(U(t) \cup W(t)) = Cardinality(U(t)) + Cardinality(W(t)) - Cardinality(U(t) \cap W(t))
      BY <2>2, FS_Union
    <3>2. Cardinality(U(t) \cap W(t)) = 0
      BY <2>2, FS_EmptySet
    <3>3. Cardinality(U(t) \cup W(t)) <= N(t)
      BY <1>6, <2>2, FS_Subset
    <3>4. Cardinality(U(t)) \in Nat /\ Cardinality(W(t)) \in Nat /\ N(t) \in Nat
      BY <1>6, <2>2, FS_CardinalityType
    <3>5. QED
      BY <3>1, <3>2, <3>3, <3>4
  <2>4. Cardinality(U(u)) = Cardinality(U(t)) + 1 /\ N(u) = N(t) + 1 /\ Cardinality(W(u)) = Cardinality(W(t))
    <3> HIDE DEF U, W
    <3>1. QED
      BY <1>6, <1>8, <2>1, <2>2, FS_AddElement
  <2>5. S(t) \in Nat /\ S(u) = S(t) + 80 /\ S(t) <= 80 * N(t)
    <3> HIDE DEF U, W, N
    <3>1. QED
      BY <2>3, <2>4
  <2>6. H(u) # {}
    <3> HIDE DEF U, W, H
    <3>1. QED
      BY <1>4, <2>1
  <2>7. H(t) # {} => N(t) > 0
    <3>1. H(t) # {} => claims(t) # {}
      <4> HIDE DEF U, W, H
      <4>1. QED
        BY <1>4, <2>2
    <3> HIDE DEF H
    <3>2. QED
      BY <1>6, <3>1, <2>3, FS_EmptySet, FS_CardinalityType
  <2>8. S(u) \div N(u) \in Nat
    <3>1. S(u) \in Nat /\ N(u) \in Nat /\ N(u) > 0 /\ 0 * N(u) <= S(u)
      <4> HIDE DEF S, N
      <4>1. QED
        BY <2>3, <2>4, <2>5
    <3> HIDE DEF S, N
    <3>2. QED
      BY <3>1, QuotientAtLeast
  <2>9. H(t) # {} => S(t) \div N(t) \in Nat /\ S(t) \div N(t) <= S(u) \div N(u)
    <3> HIDE DEF S, N, H
    <3>1. QED
      BY <2>3, <2>4, <2>5, <2>7, ShareRises
  <2>10. r(u) \in Nat /\ (H(t) # {} => r(t) \in Nat /\ r(t) <= r(u))
    <3> HIDE DEF S, N, H
    <3>1. QED
      BY <2>8, <2>9 DEF AtMost
  <2>11. /\ DECISION_PRECEDENCE[d(t)] \in Nat /\ DECISION_PRECEDENCE[d(u)] \in Nat
         /\ DECISION_PRECEDENCE[d(t)] <= DECISION_PRECEDENCE[d(u)] /\ DECISION_PRECEDENCE["ALLOW"] = 0
    <3> HIDE DEF U, W
    <3>1. QED
      BY <2>1 DEF DECISION_PRECEDENCE
  <2> HIDE DEF H, d, r
  <2>12. CASE ~c.enabled \/ c.passages = 0
    <3>1. a = Allowed /\ b = Allowed
      BY <1>3, <2>12
    <3> HIDE DEF a, b
    <3>2. QED
      BY <3>1, AllowedAgain DEF a, b, u
  <2>13. CASE ~(~c.enabled \/ c.passages = 0)
    <3>1. b = DetectorResult(d(u), r(u), H(u))
      BY <1>3, <2>6, <2>13
    <3>2. H(t) # {} => a = DetectorResult(d(t), r(t), H(t))
      BY <1>3, <2>13
    <3>3. H(t) = {} => a = DetectorResult("ALLOW", 0, {})
      BY <1>3, <2>13 DEF Allowed
    <3> HIDE DEF a, b
    <3>4. NoWeaker(a, b)
      <4>1. CASE H(t) = {}
        <5>1. DECISION_PRECEDENCE["ALLOW"] \in Nat /\ DECISION_PRECEDENCE["ALLOW"] <= DECISION_PRECEDENCE[d(u)]
          BY <2>11
        <5>2. 0 <= r(u)
          BY <2>10
        <5>3. NoWeaker(DetectorResult("ALLOW", 0, {}), DetectorResult(d(u), r(u), H(u)))
          BY <2>10, <2>11, <5>1, <5>2, ResultNoWeaker
        <5>4. QED
          BY <3>1, <3>3, <4>1, <5>3
      <4>2. CASE H(t) # {}
        BY <2>10, <2>11, <3>1, <3>2, <4>2, ResultNoWeaker
      <4>3. QED
        BY <4>1, <4>2
    <3>5. QED
      BY <3>4 DEF a, b, u
  <2>14. QED
    BY <2>12, <2>13
<1>9. QED
  <2> HIDE DEF claims
  <2>1. QED
    BY <1>5, <1>7, <1>8

\* A detector with one decision for any hit is no weaker for heavier hits.
LEMMA HeavierSame ==
    ASSUME NEW A, NEW B, Heavier(A, B), NEW d \in {"BLOCK", "TRANSFORM", "WARN"}
    PROVE  NoWeaker(IF A = {} THEN Allowed ELSE DetectorResult(d, calculate_risk_score(A), A),
                    IF B = {} THEN Allowed ELSE DetectorResult(d, calculate_risk_score(B), B))
<1>1. DECISION_PRECEDENCE[d] \in Nat
  BY DEF DECISION_PRECEDENCE
<1>2. DECISION_PRECEDENCE["ALLOW"] = 0
  BY DEF DECISION_PRECEDENCE
<1>3. QED
  BY <1>1, <1>2, HeavierFacts DEF NoWeaker, Allowed, DetectorResult

\* competitor.detect: a harmful fact more is a result that is no weaker.
LEMMA CompetitorMonotone ==
    ASSUME NEW c, NEW t, NEW f, Worse("competitor", c, t, f)
    PROVE  NoWeaker(competitor_detect(c, t), competitor_detect(c, t \cup {f}))
<1> DEFINE u == t \cup {f}
           K(m) == _categorize_competitor_mention(m)
           of(x, y, how) == {m \in Matches(x) : m.competitor = y /\ m.how = how}
           ment(x, y) == IF of(x, y, "exact") # {} THEN of(x, y, "exact")
                         ELSE IF of(x, y, "alias") # {} THEN of(x, y, "alias")
                         ELSE IF c.fuzzy_matching THEN of(x, y, "fuzzy") ELSE {}
           found(x) == {m \in Matches(x) : /\ m.competitor \in c.competitors
                                           /\ m \in ment(x, m.competitor)
                                           /\ K(m) \notin c.allowlist_contexts}
           sev(m) == CASE K(m) = "negative" -> "high"
                       [] K(m) \in {"partnership", "technical"} -> "low"
                       [] OTHER -> "medium"
           e == [m \in Matches(u) |-> Hit(m.competitor, sev(m))]
           H(x) == Image(e, found(x))
           d == CASE c.action = "BLOCK" -> "BLOCK" [] c.action = "RESTRICT" -> "TRANSFORM" [] OTHER -> "WARN"
           z == f.competitor
<1>1. K(f) \in {"negative", "comparison", "neutral"} /\ K(f) \notin c.allowlist_contexts /\ f \notin t
  BY DEF Worse, Harmful
<1>2. \A g, h \in u : g.competitor = h.competitor /\ g.how = h.how => g = h
  <2>1. \A g : Slot("competitor", g) = <<"mention", g.competitor, g.how>>
    BY DEF Slot
  <2>2. \A g, h \in u : Slot("competitor", g) = Slot("competitor", h) => g = h
    BY DEF Worse, Sound
  <2> HIDE DEF u
  <2>3. QED
    BY <2>1, <2>2
<1>3. /\ IsFiniteSet(Matches(u)) /\ Matches(t) \subseteq Matches(u) /\ Matches(u) \subseteq u
      /\ Matches(u) = Matches(t) \/ Matches(u) = Matches(t) \cup {f}
      /\ f \notin Matches(t)
  BY <1>1, Grown DEF Matches
<1>4. \A m : m.how # "exact" => K(m) = "neutral"
  BY DEF _categorize_competitor_mention
<1>5. c.enabled => \A x : competitor_detect(c, x) =
         LET F == found(x) IN IF F = {} THEN Allowed
         ELSE DetectorResult(d, calculate_risk_score({Hit(m.competitor, sev(m)) : m \in F}),
                             {Hit(m.competitor, sev(m)) : m \in F})
  <2> SUFFICES ASSUME c.enabled, NEW x
               PROVE competitor_detect(c, x) =
                       LET F == found(x) IN IF F = {} THEN Allowed
                       ELSE DetectorResult(d, calculate_risk_score({Hit(m.competitor, sev(m)) : m \in F}),
                                           {Hit(m.competitor, sev(m)) : m \in F})
    OBVIOUS
  <2> DEFINE G == UNION {{m \in mention(c, x, y) : K(m) \notin c.allowlist_contexts} : y \in c.competitors}
  <2>1. \A y : mention(c, x, y) = ment(x, y)
    BY DEF mention
  <2>2. \A y : ment(x, y) \subseteq {m \in Matches(x) : m.competitor = y}
    OBVIOUS
  <2>3. G = found(x)
    <3> HIDE DEF ment, K
    <3>1. QED
      BY <2>1, <2>2
  <2>4. competitor_detect(c, x) = IF G = {} THEN Allowed
           ELSE DetectorResult(d, calculate_risk_score({Hit(m.competitor, sev(m)) : m \in G}),
                               {Hit(m.competitor, sev(m)) : m \in G})
    BY DEF competitor_detect
  <2> HIDE DEF G, found, d, sev
  <2>5. QED
    BY <2>3, <2>4
<1> HIDE DEF u, K
<1>6. \A m : sev(m) \in {"high", "medium", "low"} /\ (K(m) = "neutral" => sev(m) = "medium")
  OBVIOUS
<1>7. sev(f) \in {"high", "medium"}
  BY <1>1
<1>8. \A x : found(x) \subseteq Matches(x)
  OBVIOUS
<1>9. HitsOK(H(u))
  <2>1. IsFiniteSet(found(u))
    <3> HIDE DEF found
    <3>1. QED
      BY <1>3, <1>8, FS_Subset
  <2>2. \A m \in found(u) : e[m].severity \in Severity
    <3> HIDE DEF found, sev
    <3>1. QED
      BY <1>6, <1>8, Severities DEF Hit
  <2> HIDE DEF found, e
  <2>3. QED
    BY <2>1, <2>2, HitsImage DEF Image
<1>10. \A y, h : \/ of(u, y, h) = of(t, y, h)
                 \/ of(u, y, h) = {f} /\ of(t, y, h) = {} /\ y = z /\ h = f.how /\ f \in Matches(u)
  <2> SUFFICES ASSUME NEW y, NEW h
               PROVE  \/ of(u, y, h) = of(t, y, h)
                      \/ of(u, y, h) = {f} /\ of(t, y, h) = {} /\ y = z /\ h = f.how /\ f \in Matches(u)
    OBVIOUS
  <2>1. CASE f \in Matches(u) /\ y = z /\ h = f.how
    <3>1. of(u, y, h) = {f}
      BY <1>2, <1>3, <2>1
    <3>2. of(t, y, h) = {}
      <4>1. of(t, y, h) \subseteq of(u, y, h) /\ f \notin of(t, y, h)
        BY <1>3
      <4> HIDE DEF of
      <4>2. QED
        BY <3>1, <4>1
    <3>3. QED
      BY <2>1, <3>1, <3>2
  <2>2. CASE ~(f \in Matches(u) /\ y = z /\ h = f.how)
    BY <1>3, <2>2
  <2>3. QED
    BY <2>1, <2>2
<1>11. \A y : f \notin ment(u, y) => ment(t, y) = ment(u, y)
  <2> HIDE DEF of
  <2>1. QED
    BY <1>10
<1>12. \A y : f \in ment(u, y) => y = z /\ ment(u, y) = {f} /\ f \in Matches(u) /\ f.competitor = z
  <2>1. \A y, h : f \in of(u, y, h) => f \in Matches(u) /\ y = z /\ h = f.how
    OBVIOUS
  <2>2. \A y, h : f \notin of(t, y, h)
    BY <1>3
  <2> HIDE DEF of
  <2>3. QED
    BY <1>10, <2>1, <2>2
<1>13. f \in ment(u, z) => \A m \in ment(t, z) : K(m) = "neutral"
  <2>1. \A m, y, h : m \in of(t, y, h) => m.how = h
    OBVIOUS
  <2>2. \A y, h : f \notin of(t, y, h)
    BY <1>3
  <2> HIDE DEF of
  <2>3. f \in ment(u, z) => of(t, z, "exact") = {}
    BY <1>10, <2>2
  <2>4. \A m \in ment(t, z) : of(t, z, "exact") = {} => m.how # "exact"
    BY <2>1
  <2>5. QED
    BY <1>4, <2>3, <2>4
<1>14. ASSUME f \notin found(u) PROVE found(t) = found(u)
  <2>1. z \notin c.competitors \/ f \notin Matches(u) \/ f \notin ment(u, z)
    <3> HIDE DEF ment
    <3>1. QED
      BY <1>1, <1>14
  <2>2. \A y \in c.competitors : f \notin ment(u, y)
    <3> HIDE DEF ment
    <3>1. QED
      BY <1>12, <2>1
  <2>3. \A y \in c.competitors : ment(t, y) = ment(u, y)
    <3> HIDE DEF ment
    <3>1. QED
      BY <1>11, <2>2
  <2>4. \A y : ment(t, y) \subseteq Matches(t)
    OBVIOUS
  <2> HIDE DEF ment
  <2>5. QED
    BY <1>3, <2>3, <2>4
<1>15. ASSUME f \in found(u)
       PROVE  \A m \in found(t) : (m.competitor # z /\ m \in found(u)) \/ (m.competitor = z /\ K(m) = "neutral")
  <2> HIDE DEF ment
  <2>1. f \in ment(u, z)
    BY <1>15
  <2>2. \A y : y # z => ment(t, y) = ment(u, y)
    BY <1>11, <1>12
  <2>3. QED
    BY <1>3, <1>13, <2>1, <2>2
<1> HIDE DEF found, z
<1>16. ASSUME f \in found(u) PROVE Heavier(H(t), H(u))
  <2> DEFINE x == Hit(z, "medium")
             y == Hit(z, sev(f))
  <2>1. y \in H(u)
    <3> HIDE DEF sev
    <3>1. QED
      BY <1>8, <1>16 DEF Image, z
  <2>2. H(t) \subseteq H(u) \cup {x}
    <3>1. ASSUME NEW m \in found(t) PROVE e[m] \in H(u) \cup {x}
      <4>1. m \in Matches(u)
        BY <1>3, <1>8
      <4>2. CASE m.competitor # z /\ m \in found(u)
        <5> HIDE DEF e
        <5>1. QED
          BY <4>2 DEF Image
      <4>3. CASE m.competitor = z /\ K(m) = "neutral"
        <5>1. sev(m) = "medium"
          BY <4>3
        <5> HIDE DEF sev
        <5>2. QED
          BY <4>1, <4>3, <5>1
      <4>4. QED
        BY <1>15, <1>16, <4>2, <4>3
    <3> HIDE DEF e, x
    <3>2. QED
      BY <3>1 DEF Image
  <2>3. CASE sev(f) = "medium"
    <3>1. H(t) \subseteq H(u)
      <4> HIDE DEF H, sev
      <4>1. QED
        BY <2>1, <2>2, <2>3
    <3> HIDE DEF H
    <3>2. QED
      BY <1>9, <3>1, GrewHeavier DEF Grew
  <2>4. CASE sev(f) = "high"
    <3>1. y \notin H(t)
      <4>1. ASSUME NEW m \in found(t) PROVE e[m] # y
        <5>1. m \in Matches(u)
          BY <1>3, <1>8
        <5>2. CASE m.competitor # z
          <6> HIDE DEF sev
          <6>1. QED
            BY <5>1, <5>2 DEF Hit
        <5>3. CASE m.competitor = z
          <6>1. sev(m) = "medium"
            BY <1>15, <1>16, <5>3
          <6> HIDE DEF sev
          <6>2. QED
            BY <2>4, <5>1, <6>1 DEF Hit
        <5>4. QED
          BY <5>2, <5>3
      <4> HIDE DEF e, y
      <4>2. QED
        BY <4>1 DEF Image
    <3>2. x.severity = "medium" /\ y.severity = "high"
      <4> HIDE DEF sev
      <4>1. QED
        BY <2>4 DEF Hit
    <3> HIDE DEF H, x, y
    <3>3. QED
      BY <1>9, <2>1, <2>2, <3>1, <3>2, SwapHeavier, SeverityOrder, Severities
  <2>5. QED
    <3> HIDE DEF sev
    <3>1. QED
      BY <1>7, <2>3, <2>4
<1>17. ASSUME f \notin found(u) PROVE Heavier(H(t), H(u))
  <2>1. H(t) = H(u)
    <3> HIDE DEF e
    <3>1. QED
      BY <1>14, <1>17
  <2> HIDE DEF H
  <2>2. QED
    BY <1>9, <2>1, GrewHeavier DEF Grew
<1>18. Heavier(H(t), H(u))
  <2> HIDE DEF H
  <2>1. QED
    BY <1>16, <1>17
<1>19. CASE c.enabled
  <2>1. \A x \in {t, u} : /\ {Hit(m.competitor, sev(m)) : m \in found(x)} = H(x)
                          /\ H(x) = {} <=> found(x) = {}
    <3>1. \A x \in {t, u} : found(x) \subseteq Matches(u)
      BY <1>3, <1>8
    <3> HIDE DEF sev
    <3>2. QED
      BY <3>1 DEF Image
  <2>2. \A x \in {t, u} : competitor_detect(c, x) =
            IF H(x) = {} THEN Allowed ELSE DetectorResult(d, calculate_risk_score(H(x)), H(x))
    <3> HIDE DEF H, d, sev
    <3>1. QED
      BY <1>5, <1>19, <2>1
  <2>3. d \in {"BLOCK", "TRANSFORM", "WARN"}
    OBVIOUS
  <2> HIDE DEF H, d
  <2>4. QED
    BY <1>18, <2>2, <2>3, HeavierSame DEF u
<1>20. CASE ~c.enabled
  BY <1>20, AllowedAgain DEF competitor_detect
<1>21. QED
  BY <1>19, <1>20

-----------------------------------------------------------------------------
(***************************************************************************)
(* Schemas with one keyword more.                                          *)
(***************************************************************************)

\* S2 is S with one keyword more.
OneMore(S, S2, key) ==
    /\ \A k \in DOMAIN S : k \in DOMAIN S2 /\ S2[k] = S[k]
    /\ key \notin DOMAIN S /\ DOMAIN S2 \subseteq DOMAIN S \cup {key}
    /\ key \notin {"properties", "patternProperties"} /\ "none" \notin DOMAIN S2

\* One keyword more leaves the others of a schema as they were.
LEMMA KeywordKept ==
    ASSUME NEW S, NEW S2, NEW key, OneMore(S, S2, key), NEW k, NEW v
    PROVE  /\ Has(S, k) => Has(S2, k) /\ S2[k] = S[k]
           /\ k # key => Default(S2, k, v) = Default(S, k, v)
           /\ k = key => Default(S, k, v) = v
  BY DEF OneMore, Has, Default

\* A check that fails for more reasons reports more errors.
LEMMA ErrorsGrow ==
    ASSUME NEW v, NEW w, DOMAIN v = DOMAIN w, \A k \in DOMAIN v : v[k] => w[k]
    PROVE  Errors(v) \subseteq Errors(w)
  BY Zenon DEF Errors

\* A string keyword more never takes an error away (structure._validate_string).
LEMMA StringGrows ==
    ASSUME NEW S, NEW S2, NEW key, OneMore(S, S2, key), NEW data
    PROVE  _validate_string(data, S) \subseteq _validate_string(data, S2)
<1> DEFINE a(x) == Has(x, "minLength") /\ data.len < x["minLength"]
           b(x) == Has(x, "maxLength") /\ data.len > x["maxLength"]
           g(x) == Has(x, "pattern") /\ x["pattern"] \notin data.matches
           h(x) == /\ Default(x, "format", "none") \in {"email", "uri", "date", "date-time", "uuid"}
                   /\ x["format"] \notin data.matches
           V(x) == [minLength |-> a(x), maxLength |-> b(x), pattern |-> g(x), format |-> h(x)]
<1>1. \A k : Has(S, k) => Has(S2, k) /\ S2[k] = S[k]
  BY KeywordKept
<1>2. (a(S) => a(S2)) /\ (b(S) => b(S2)) /\ (g(S) => g(S2))
  BY <1>1
<1>3. h(S) => h(S2)
  <2>1. CASE Has(S, "format")
    BY <1>1, <2>1 DEF Default
  <2>2. CASE ~Has(S, "format")
    BY <2>2 DEF Default
  <2>3. QED
    BY <2>1, <2>2
<1>4. \A x : _validate_string(data, x) = Errors(V(x))
  BY DEF _validate_string
<1> HIDE DEF a, b, g, h
<1>5. DOMAIN V(S) = DOMAIN V(S2) /\ \A k \in DOMAIN V(S) : V(S)[k] => V(S2)[k]
  BY <1>2, <1>3
<1> HIDE DEF V
<1>6. QED
  BY <1>4, <1>5, ErrorsGrow

\* A number keyword more never takes an error away (structure._validate_number).
LEMMA NumberGrows ==
    ASSUME NEW S, NEW S2, NEW key, OneMore(S, S2, key), NEW data
    PROVE  _validate_number(data, S) \subseteq _validate_number(data, S2)
<1> DEFINE a(x) == Has(x, "minimum") /\ data.number < x["minimum"]
           b(x) == Has(x, "maximum") /\ data.number > x["maximum"]
           g(x) == Has(x, "exclusiveMinimum") /\ data.number <= x["exclusiveMinimum"]
           h(x) == Has(x, "exclusiveMaximum") /\ data.number >= x["exclusiveMaximum"]
           l(x) == Has(x, "multipleOf") /\ data.number % x["multipleOf"] # 0
           V(x) == [minimum |-> a(x), maximum |-> b(x), exclusiveMinimum |-> g(x),
                    exclusiveMaximum |-> h(x), multipleOf |-> l(x)]
<1>1. \A k : Has(S, k) => Has(S2, k) /\ S2[k] = S[k]
  BY KeywordKept
<1>2. /\ a(S) => a(S2)
      /\ b(S) => b(S2)
      /\ g(S) => g(S2)
      /\ h(S) => h(S2)
      /\ l(S) => l(S2)
  BY <1>1
<1>3. \A x : _validate_number(data, x) = Errors(V(x))
  BY DEF _validate_number
<1> HIDE DEF a, b, g, h, l
<1>4. DOMAIN V(S) = DOMAIN V(S2) /\ \A k \in DOMAIN V(S) : V(S)[k] => V(S2)[k]
  BY <1>2
<1> HIDE DEF V
<1>5. QED
  BY <1>3, <1>4, ErrorsGrow

\* An array keyword more never takes an error away (structure._validate_array).
LEMMA ArrayGrows ==
    ASSUME NEW S, NEW S2, NEW key, OneMore(S, S2, key), NEW data
    PROVE  _validate_array(data, S) \subseteq _validate_array(data, S2)
<1> DEFINE n == Len(data.items)
           items(x) == Default(x, "items", <<>>)
           each(x) == IF Has(x, "eachItem") THEN 1 .. n ELSE {}
           a(x) == Has(x, "minItems") /\ n < x["minItems"]
           b(x) == Has(x, "maxItems") /\ n > x["maxItems"]
           g(x) == Default(x, "uniqueItems", FALSE) /\ Cardinality(Range(data.items)) # n
           h(x) == Has(x, "contains") /\ \A i \in 1 .. n :
                                            validate_nested(data.items[i], x["contains"]) # {}
           V(x) == [minItems |-> a(x), maxItems |-> b(x), uniqueItems |-> g(x), contains |-> h(x)]
           A(x) == UNION {validate_nested(data.items[i], x["eachItem"]) : i \in each(x)}
           B(x) == UNION {validate_nested(data.items[i], items(x)[i]) :
                            i \in {j \in DOMAIN items(x) : j <= n}}
<1>1. \A k : Has(S, k) => Has(S2, k) /\ S2[k] = S[k]
  BY KeywordKept
<1>2. (a(S) => a(S2)) /\ (b(S) => b(S2)) /\ (h(S) => h(S2))
  BY <1>1
<1>3. g(S) => g(S2)
  <2>1. CASE Has(S, "uniqueItems")
    BY <1>1, <2>1 DEF Default
  <2>2. CASE ~Has(S, "uniqueItems")
    BY <2>2 DEF Default
  <2>3. QED
    BY <2>1, <2>2
<1>4. A(S) \subseteq A(S2)
  BY <1>1
<1>5. B(S) \subseteq B(S2)
  <2>1. CASE Has(S, "items")
    <3>1. items(S) = items(S2)
      BY <1>1, <2>1 DEF Default
    <3> HIDE DEF items
    <3>2. QED
      BY <3>1
  <2>2. CASE ~Has(S, "items")
    <3>1. DOMAIN items(S) = {}
      BY <2>2 DEF Default
    <3> HIDE DEF items
    <3>2. QED
      BY <3>1
  <2>3. QED
    BY <2>1, <2>2
<1>6. \A x : _validate_array(data, x) = Errors(V(x)) \cup A(x) \cup B(x)
  BY DEF _validate_array
<1> HIDE DEF a, b, g, h, A, B
<1>7. DOMAIN V(S) = DOMAIN V(S2) /\ \A k \in DOMAIN V(S) : V(S)[k] => V(S2)[k]
  BY <1>2, <1>3
<1> HIDE DEF V
<1>8. Errors(V(S)) \subseteq Errors(V(S2))
  BY <1>7, ErrorsGrow
<1>9. QED
  BY <1>4, <1>5, <1>6, <1>8

\* An object keyword more never takes an error away, unless it is one that exempts
\* properties from additionalProperties (structure._validate_object).
LEMMA ObjectGrows ==
    ASSUME NEW S, NEW S2, NEW key, OneMore(S, S2, key), NEW data
    PROVE  _validate_object(data, S) \subseteq _validate_object(data, S2)
<1> DEFINE keys == DOMAIN data.fields
           properties(x) == Default(x, "properties", <<>>)
           patterns(x) == Default(x, "patternProperties", {})
           unknown(x) == keys \ DOMAIN properties(x)
           unmatched(x) == {k \in unknown(x) : \A p \in patterns(x) : k \notin p.keys}
           additional(x) == Default(x, "additionalProperties", [kind |-> "any"])
           dependencies(x) == Default(x, "dependencies", <<>>)
           dependents(x) == keys \cap DOMAIN dependencies(x)
           a(x) == ~(Default(x, "required", {}) \subseteq keys)
           b(x) == additional(x).kind = "none" /\ unmatched(x) # {}
           g(x) == Has(x, "minProperties") /\ Cardinality(keys) < x["minProperties"]
           h(x) == Has(x, "maxProperties") /\ Cardinality(keys) > x["maxProperties"]
           l(x) == \E k \in dependents(x) : ~(dependencies(x)[k].keys \subseteq keys)
           V(x) == [required |-> a(x), additionalProperties |-> b(x), minProperties |-> g(x),
                    maxProperties |-> h(x), dependencies |-> l(x)]
           A(x) == UNION {validate_nested(data.fields[k], properties(x)[k]) :
                            k \in keys \cap DOMAIN properties(x)}
           B(x) == UNION {validate_nested(data.fields[q[2]], q[1].schema) :
                            q \in {r \in patterns(x) \X keys : r[2] \in r[1].keys}}
           C(x) == UNION {validate_nested(data, dependencies(x)[k].schema) : k \in dependents(x)}
           D(x) == IF additional(x).kind # "schema" THEN {}
                   ELSE UNION {validate_nested(data.fields[k], additional(x).schema) : k \in unknown(x)}
<1>1. \A k : Has(S, k) => Has(S2, k) /\ S2[k] = S[k]
  BY KeywordKept
<1>2. properties(S2) = properties(S) /\ patterns(S2) = patterns(S)
  <2>1. key # "properties" /\ key # "patternProperties"
    BY DEF OneMore
  <2>2. QED
    BY <2>1, KeywordKept
<1>3. (g(S) => g(S2)) /\ (h(S) => h(S2))
  BY <1>1
<1>4. a(S) => a(S2)
  BY KeywordKept
<1>5. additional(S2) = additional(S) \/ additional(S) = [kind |-> "any"]
  BY KeywordKept
<1>6. dependencies(S2) = dependencies(S) \/ dependencies(S) = <<>>
  BY KeywordKept
<1>7. \A x : _validate_object(data, x) = Errors(V(x)) \cup A(x) \cup B(x) \cup C(x) \cup D(x)
  BY DEF _validate_object
<1> HIDE DEF properties, patterns, additional, dependencies
<1>8. A(S) \subseteq A(S2) /\ B(S) \subseteq B(S2)
  BY <1>2
<1>9. unknown(S2) = unknown(S) /\ unmatched(S2) = unmatched(S)
  BY <1>2
<1>10. (b(S) => b(S2)) /\ D(S) \subseteq D(S2)
  <2> HIDE DEF unknown, unmatched
  <2>1. CASE additional(S2) = additional(S)
    BY <1>9, <2>1
  <2>2. CASE additional(S) = [kind |-> "any"]
    BY <2>2
  <2>3. QED
    BY <1>5, <2>1, <2>2
<1>11. (l(S) => l(S2)) /\ C(S) \subseteq C(S2)
  <2>1. CASE dependencies(S2) = dependencies(S)
    BY <2>1
  <2>2. CASE dependencies(S) = <<>>
    <3>1. dependents(S) = {}
      BY <2>2
    <3> HIDE DEF dependents
    <3>2. QED
      BY <3>1
  <2>3. QED
    BY <1>6, <2>1, <2>2
<1> HIDE DEF a, b, g, h, l, A, B, C, D
<1>12. DOMAIN V(S) = DOMAIN V(S2) /\ \A k \in DOMAIN V(S) : V(S)[k] => V(S2)[k]
  BY <1>3, <1>4, <1>10, <1>11
<1> HIDE DEF V
<1>13. Errors(V(S)) \subseteq Errors(V(S2))
  BY <1>12, ErrorsGrow
<1>14. QED
  BY <1>7, <1>8, <1>10, <1>11, <1>13

\* A reply that fails a schema fails the schema with one keyword more
\* (structure._validate_schema), however nested schemas are validated.
LEMMA SchemaGrows ==
    ASSUME NEW S, NEW S2, NEW key, OneMore(S, S2, key), NEW data, _validate_schema(data, S) # {}
    PROVE  _validate_schema(data, S2) # {}
<1> DEFINE accepts(sub) == validate_nested(data, sub) = {}
           wrong(x) == Has(x, "type") /\ ~_check_type(data, x["type"])
           branch(x) == IF ~Has(x, "if") THEN "none" ELSE IF accepts(x["if"]) THEN "then" ELSE "else"
           a(x) == Has(x, "enum") /\ ~\E v \in x["enum"] : PyEqual(data, v)
           b(x) == Has(x, "const") /\ ~PyEqual(data, x["const"])
           g(x) == Has(x, "anyOf") /\ ~\E s \in x["anyOf"] : accepts(s)
           h(x) == Has(x, "oneOf") /\ Cardinality({s \in x["oneOf"] : accepts(s)}) # 1
           l(x) == Has(x, "not") /\ accepts(x["not"])
           V(x) == [enum |-> a(x), const |-> b(x), anyOf |-> g(x), oneOf |-> h(x), not |-> l(x)]
           A(x) == CASE data.type = "dict" -> _validate_object(data, x)
                     [] data.type = "list" -> _validate_array(data, x)
                     [] data.type = "str" -> _validate_string(data, x)
                     [] data.type \in {"int", "float"} -> _validate_number(data, x)
                     [] OTHER -> {}
           subs(x) == Default(x, "allOf", {})
           B(x) == UNION {validate_nested(data, s) : s \in subs(x)}
           C(x) == IF Has(x, branch(x)) THEN validate_nested(data, x[branch(x)]) ELSE {}
           W(x) == Errors(V(x)) \cup A(x) \cup B(x) \cup C(x)
<1>1. \A k : Has(S, k) => Has(S2, k) /\ S2[k] = S[k]
  BY KeywordKept
<1>2. \A x : _validate_schema(data, x) = IF wrong(x) THEN {"type"} ELSE W(x)
  BY DEF _validate_schema
<1>3. wrong(S) => wrong(S2)
  BY <1>1
<1>4. /\ a(S) => a(S2)
      /\ b(S) => b(S2)
      /\ g(S) => g(S2)
      /\ h(S) => h(S2)
      /\ l(S) => l(S2)
  <2> HIDE DEF accepts
  <2>1. QED
    BY <1>1
<1>5. A(S) \subseteq A(S2)
  BY ObjectGrows, ArrayGrows, StringGrows, NumberGrows
<1>6. B(S) \subseteq B(S2)
  <2>1. subs(S) \subseteq subs(S2)
    BY KeywordKept
  <2> HIDE DEF subs
  <2>2. QED
    BY <2>1
<1>7. C(S) \subseteq C(S2)
  <2> HIDE DEF accepts
  <2>1. ~Has(S, "none") /\ ~Has(S2, "none")
    BY <1>1 DEF OneMore, Has
  <2>2. CASE ~Has(S, "if")
    BY <2>1, <2>2
  <2>3. CASE Has(S, "if")
    <3>1. branch(S2) = branch(S)
      BY <1>1, <2>3
    <3> HIDE DEF branch
    <3>2. QED
      BY <1>1, <3>1
  <2>4. QED
    BY <2>2, <2>3
<1> HIDE DEF a, b, g, h, l, A, B, C, wrong
<1>8. DOMAIN V(S) = DOMAIN V(S2) /\ \A k \in DOMAIN V(S) : V(S)[k] => V(S2)[k]
  BY <1>4
<1> HIDE DEF V
<1>9. Errors(V(S)) \subseteq Errors(V(S2))
  BY <1>8, ErrorsGrow
<1>10. W(S) \subseteq W(S2)
  BY <1>5, <1>6, <1>7, <1>9
<1> HIDE DEF W
<1>11. QED
  BY <1>2, <1>3, <1>10

\* structure.detect: a harmful fact more is a result that is no weaker.
LEMMA StructureMonotone ==
    ASSUME NEW c, NEW t, NEW f, Worse("structure", c, t, f)
    PROVE  NoWeaker(structure_detect(c, c.reply, schema_of(t)),
                    structure_detect(c, c.reply, schema_of(t \cup {f})))
<1> DEFINE u == t \cup {f}
           S == schema_of(t)
           S2 == schema_of(u)
           found(s) == IF ~c.enabled THEN {}
                       ELSE CASE expected_format(c) = "json" -> _validate_json(c.reply, s)
                              [] expected_format(c) = "xml" -> _validate_xml(c, c.reply)
                              [] OTHER -> {}
           d == IF c.action = "BLOCK" THEN "BLOCK" ELSE "WARN"
<1>1. f[1] \notin {"properties", "patternProperties"} /\ f \notin t
  BY DEF Worse, Harmful
<1>2. \A g, h \in u : g[1] = h[1] => g = h
  <2>1. \A g : Slot("structure", g) = <<"keyword", g[1]>>
    BY DEF Slot
  <2>2. \A g, h \in u : Slot("structure", g) = Slot("structure", h) => g = h
    BY DEF Worse, Sound
  <2> HIDE DEF u
  <2>3. QED
    BY <2>1, <2>2
<1>3. \A g \in u : g[1] # "none"
  BY DEF Worse, Sound, FactOK
<1>4. \A x \in {t, u} : \A g \in x : g[1] \in DOMAIN schema_of(x) /\ schema_of(x)[g[1]] = g[2]
  <2>1. ASSUME NEW x \in {t, u}, NEW g \in x
        PROVE  g[1] \in DOMAIN schema_of(x) /\ schema_of(x)[g[1]] = g[2]
    <3>1. x \subseteq u
      OBVIOUS
    <3>2. (CHOOSE h \in x : h[1] = g[1]) \in x /\ (CHOOSE h \in x : h[1] = g[1])[1] = g[1]
      <4>1. \E h \in x : h[1] = g[1]
        OBVIOUS
      <4>2. QED
        BY <4>1
    <3>3. (CHOOSE h \in x : h[1] = g[1]) = g
      <4> HIDE DEF u
      <4>1. QED
        BY <1>2, <3>1, <3>2
    <3>4. QED
      BY <3>3 DEF schema_of
  <2>2. QED
    BY <2>1
<1>5. \A x : \A k \in DOMAIN schema_of(x) : \E g \in x : g[1] = k
  BY DEF schema_of
<1>6. OneMore(S, S2, f[1])
  <2>1. ASSUME NEW k \in DOMAIN S PROVE k \in DOMAIN S2 /\ S2[k] = S[k]
    <3>1. PICK g \in t : g[1] = k
      BY <1>5
    <3>2. QED
      BY <1>4, <3>1
  <2>2. f[1] \notin DOMAIN S
    BY <1>1, <1>2, <1>5
  <2>3. DOMAIN S2 \subseteq DOMAIN S \cup {f[1]}
    BY <1>4, <1>5
  <2>4. "none" \notin DOMAIN S2
    BY <1>3, <1>5
  <2> HIDE DEF S, S2
  <2>5. QED
    BY <1>1, <2>1, <2>2, <2>3, <2>4 DEF OneMore
<1>7. found(S) # {} => found(S2) # {}
  <2> HIDE DEF S, S2
  <2>1. _validate_json(c.reply, S) # {} => _validate_json(c.reply, S2) # {}
    <3>1. DOMAIN S # {} => DOMAIN S2 # {}
      BY <1>6 DEF OneMore
    <3>2. _validate_schema(c.reply.parsed, S) # {} => _validate_schema(c.reply.parsed, S2) # {}
      BY <1>6, SchemaGrows
    <3>3. QED
      BY <3>1, <3>2 DEF _validate_json
  <2>2. QED
    BY <2>1
<1>8. \A s : structure_detect(c, c.reply, s) =
         IF found(s) = {} THEN Allowed ELSE DetectorResult(d, 30, HitsOf(found(s), "medium"))
  BY DEF structure_detect
<1>9. DECISION_PRECEDENCE[d] \in Nat /\ DECISION_PRECEDENCE["ALLOW"] = 0
  BY DEF DECISION_PRECEDENCE
<1> HIDE DEF found, S, S2, d
<1>10. /\ structure_detect(c, c.reply, S).decision = (IF found(S) = {} THEN "ALLOW" ELSE d)
       /\ structure_detect(c, c.reply, S).risk = (IF found(S) = {} THEN 0 ELSE 30)
       /\ structure_detect(c, c.reply, S2).decision = (IF found(S2) = {} THEN "ALLOW" ELSE d)
       /\ structure_detect(c, c.reply, S2).risk = (IF found(S2) = {} THEN 0 ELSE 30)
  BY <1>8, ResultFields
<1>11. NoWeaker(structure_detect(c, c.reply, S), structure_detect(c, c.reply, S2))
  BY <1>7, <1>9, <1>10 DEF NoWeaker
<1>12. QED
  BY <1>11 DEF S, S2

-----------------------------------------------------------------------------
(***************************************************************************)
(* The theorem about evidence.                                             *)
(***************************************************************************)

\* Every detector but pii: one more harmful fact never weakens the decision and
\* never lowers the risk.
LEMMA DetectMonotone ==
    ASSUME NEW r \in Detectors, r # "pii", NEW c, NEW t, NEW f, Worse(r, c, t, f)
    PROVE  NoWeaker(Detect(r, c, t), Detect(r, c, t \cup {f}))
<1>1. CASE r = "secrets"
  BY <1>1, SecretsMonotone DEF Detect
<1>3. CASE r = "structure"
  BY <1>3, StructureMonotone DEF Detect
<1>4. CASE r = "jailbreak"
  BY <1>4, JailbreakMonotone DEF Detect
<1>5. CASE r = "toxicity"
  BY <1>5, ToxicityMonotone DEF Detect
<1>6. CASE r = "topic"
  BY <1>6, TopicMonotone DEF Detect
<1>7. CASE r = "competitor"
  BY <1>7, CompetitorMonotone DEF Detect
<1>8. CASE r = "compliance"
  BY <1>8, ComplianceMonotone DEF Detect
<1>9. CASE r = "exfiltration"
  BY <1>9, ExfiltrationMonotone DEF Detect
<1>10. CASE r = "malicious_url"
  BY <1>10, MaliciousUrlMonotone DEF Detect
<1>11. CASE r = "language"
  BY <1>11, LanguageMonotone DEF Detect
<1>12. CASE r = "tools"
  BY <1>12, ToolsMonotone DEF Detect
<1>13. CASE r = "excessive_agency"
  BY <1>13, ExcessiveAgencyMonotone DEF Detect
<1>14. CASE r = "human_approval_gate"
  BY <1>14, ApprovalMonotone DEF Detect
<1>15. CASE r = "tool_permission_audit"
  BY <1>15, ToolPermissionMonotone DEF Detect
<1>16. CASE r = "mcp_manifest_scanner"
  BY <1>16, McpMonotone DEF Detect
<1>17. CASE r = "semantic_cache_integrity"
  BY <1>17, CacheMonotone DEF Detect
<1>18. CASE r = "tenant_scope_assertion"
  BY <1>18, TenantScopeMonotone DEF Detect
<1>19. CASE r = "hallucination"
  BY <1>19, HallucinationMonotone DEF Detect
<1>20. CASE r = "citation_integrity"
  BY <1>20, CitationMonotone DEF Detect
<1>21. CASE r = "retrieval_jamming"
  BY <1>21, JammingMonotone DEF Detect
<1>22. CASE r = "embedding_integrity"
  BY <1>22, EmbeddingMonotone DEF Detect
<1>23. CASE r = "corpus_poisoning_monitor"
  BY <1>23, CorpusMonotone DEF Detect
<1>24. CASE r = "reasoning_trace_disclosure"
  BY <1>24, TraceMonotone DEF Detect
<1>25. CASE r = "output_control_char_sanitizer"
  BY <1>25, ControlCharMonotone DEF Detect
<1>26. CASE r = "tool_output_injection"
  BY <1>26, ToolOutputMonotone DEF Detect
<1>27. CASE r = "retrieval_chunk_injection"
  BY <1>27, RetrievalChunkMonotone DEF Detect
<1>28. CASE r = "memory_write_poisoning"
  BY <1>28, MemoryWriteMonotone DEF Detect
<1>29. CASE r = "multimodal_injection"
  BY <1>29, MultimodalMonotone DEF Detect
<1>30. CASE r = "system_prompt_leakage"
  BY <1>30, SystemPromptMonotone DEF Detect
<1>31. CASE r = "document_metadata_leakage"
  BY <1>31, DocumentMonotone DEF Detect
<1>32. CASE r = "sensitive_business_data"
  BY <1>32, BusinessMonotone DEF Detect
<1>33. CASE r = "code_safety"
  BY <1>33, CodeSafetyMonotone DEF Detect
<1>34. CASE r = "bias"
  BY <1>34, BiasMonotone DEF Detect
<1>35. CASE r = "copyright"
  BY <1>35, CopyrightMonotone DEF Detect
<1>36. CASE r = "gibberish"
  BY <1>36, GibberishMonotone DEF Detect
<1>37. CASE r = "sentiment"
  BY <1>37, SentimentMonotone DEF Detect
<1>38. CASE r = "numerical_consistency"
  BY <1>38, NumericalMonotone DEF Detect
<1>39. QED
  BY <1>1, <1>3, <1>4, <1>5, <1>6, <1>7, <1>8, <1>9, <1>10, <1>11, <1>12, <1>13, <1>14, <1>15, <1>16, <1>17, <1>18, <1>19, <1>20, <1>21, <1>22, <1>23, <1>24, <1>25, <1>26, <1>27, <1>28, <1>29, <1>30, <1>31, <1>32, <1>33, <1>34, <1>35, <1>36, <1>37, <1>38 DEF Detectors

\* What grows is always a text of known facts, none of them twice.
TextInv ==
    /\ rule \in DOMAIN Settings
    /\ setting \in Settings[rule]
    /\ text \subseteq Facts[rule]
    /\ IsFiniteSet(text)
    /\ \A g, h \in text : Slot(rule, g) = Slot(rule, h) => g = h

\* The detector and its configuration are fixed, the text holds finitely many
\* facts that can be found, at most one of each slot.
THEOREM TextStays == RulesSpec => []TextInv
<1>1. RulesInit => TextInv
  BY FS_EmptySet DEF RulesInit, TextInv
<1>2. TextInv /\ [RulesNext]_rule_vars => TextInv'
  <2> SUFFICES ASSUME TextInv, [RulesNext]_rule_vars PROVE TextInv'
    OBVIOUS
  <2>1. CASE RulesNext
    <3>1. PICK f \in Facts[rule] : Grow(f)
      BY <2>1 DEF RulesNext
    <3>2. rule' = rule /\ setting' = setting /\ text' = text \cup {f}
      BY <3>1 DEF Grow
    <3>3. IsFiniteSet(text')
      BY <3>2, FS_AddElement DEF TextInv
    <3>4. \A g, h \in text' : Slot(rule, g) = Slot(rule, h) => g = h
      BY <3>1, <3>2 DEF TextInv, Grow
    <3>5. QED
      BY <3>2, <3>3, <3>4 DEF TextInv
  <2>2. CASE UNCHANGED rule_vars
    BY <2>2 DEF TextInv, rule_vars
  <2>3. QED
    BY <2>1, <2>2
<1>3. QED
  BY <1>1, <1>2, PTL DEF RulesSpec

\* What the assumption on the constants says of the text at hand.
LEMMA TextSound ==
    ASSUME TextInv PROVE Sound(rule, setting, text) /\ rule \in Detectors
  BY RulesAssumption DEF TextInv, Sound

\* The action property EvidenceMonotone, for every configuration and every text:
\* no harmful fact hides another from any of the 38 detectors (detect of each),
\* but for the risk where a full address takes the place of two simple ones.
THEOREM EvidenceOnlyGrows == RulesSpec => EvidenceMonotone
<1> DEFINE Step == \A f \in text' \ text :
                      Harmful(rule, setting, f) =>
                        LET before == Detect(rule, setting, text)
                            after == Detect(rule, setting, text')
                        IN  /\ DECISION_PRECEDENCE[after.decision] >= DECISION_PRECEDENCE[before.decision]
                            /\ after.risk >= before.risk \/ Absorbs(rule, f, text)
<1>1. TextInv /\ TextInv' /\ [RulesNext]_rule_vars => [Step]_rule_vars
  <2> SUFFICES ASSUME TextInv, TextInv', [RulesNext]_rule_vars PROVE [Step]_rule_vars
    OBVIOUS
  <2>1. CASE RulesNext
    <3>1. PICK f \in Facts[rule] : Grow(f)
      BY <2>1 DEF RulesNext
    <3>2. rule' = rule /\ setting' = setting /\ text' = text \cup {f}
      BY <3>1 DEF Grow
    <3>3. Sound(rule, setting, text) /\ Sound(rule, setting, text \cup {f}) /\ rule \in Detectors
      <4>1. Sound(rule, setting, text) /\ rule \in Detectors
        BY TextSound
      <4>2. Sound(rule, setting, text \cup {f})
        BY <3>2, RulesAssumption DEF TextInv, Sound
      <4>3. QED
        BY <4>1, <4>2
    <3>4. ASSUME NEW g \in text' \ text, Harmful(rule, setting, g)
          PROVE  /\ DECISION_PRECEDENCE[Detect(rule, setting, text').decision]
                      >= DECISION_PRECEDENCE[Detect(rule, setting, text).decision]
                 /\ \/ Detect(rule, setting, text').risk >= Detect(rule, setting, text).risk
                    \/ Absorbs(rule, g, text)
      <4>1. g = f /\ f \notin text
        BY <3>2
      <4>2. Worse(rule, setting, text, f)
        BY <3>3, <3>4, <4>1 DEF Worse
      <4>3. CASE rule = "pii"
        <5>1. \A x : Detect(rule, setting, x) = pii_detect(setting, x)
          BY <4>3 DEF Detect
        <5>2. QED
          BY <3>2, <4>1, <4>2, <4>3, <5>1, PiiMonotone
      <4>4. CASE rule # "pii"
        <5>1. NoWeaker(Detect(rule, setting, text), Detect(rule, setting, text'))
          BY <3>2, <3>3, <4>2, <4>4, DetectMonotone
        <5>2. QED
          BY <5>1 DEF NoWeaker
      <4>5. QED
        BY <4>3, <4>4
    <3>5. Step
      BY <3>4
    <3>6. QED
      BY <3>5
  <2>2. CASE UNCHANGED rule_vars
    BY <2>2
  <2>3. QED
    BY <2>1, <2>2
<1>2. QED
  BY <1>1, TextStays, PTL DEF RulesSpec, EvidenceMonotone

-----------------------------------------------------------------------------
(***************************************************************************)
(* Grounding and approvals.                                                *)
(***************************************************************************)

\* A finite set of integers has a greatest element.
LEMMA Greatest ==
    ASSUME NEW S, IsFiniteSet(S), S \subseteq Int, S # {}
    PROVE  \E x \in S : \A y \in S : x >= y
<1> DEFINE Q == {s \in SUBSET S : s = {} \/ \E x \in s : \A y \in s : x >= y}
<1>1. {} \in Q
  OBVIOUS
<1>2. ASSUME NEW s \in SUBSET S, s # {} PROVE \E x \in s : s \ {x} \in Q => s \in Q
  <2>1. PICK x : x \in s
    BY <1>2
  <2>2. ASSUME s \ {x} \in Q PROVE s \in Q
    <3>1. CASE s \ {x} = {}
      <4>0. x \in Int
        BY <2>1
      <4>1. \A y \in s : y = x
        BY <2>1, <3>1
      <4>2. \A y \in s : x >= y
        BY <4>0, <4>1
      <4>3. QED
        BY <2>1, <4>2
    <3>2. CASE s \ {x} # {}
      <4>1. PICK z \in s \ {x} : \A y \in s \ {x} : z >= y
        BY <2>2, <3>2
      <4>2. z \in Int /\ x \in Int
        BY <2>1
      <4>3. CASE z >= x
        BY <4>1, <4>3
      <4>4. CASE ~(z >= x)
        <5>1. \A y \in s : x >= y
          BY <4>1, <4>2, <4>4
        <5>2. QED
          BY <2>1, <5>1
      <4>5. QED
        BY <4>3, <4>4
    <3>3. QED
      BY <3>1, <3>2
  <2>3. QED
    BY <2>1, <2>2
<1> HIDE DEF Q
<1>3. SUBSET S \subseteq Q
  BY <1>1, <1>2, SetInduction
<1>4. S \in Q
  BY <1>3
<1>5. QED
  BY <1>4 DEF Q

\* hallucination: the best score over some passages is at least that of each.
LEMMA BestIsGreatest ==
    ASSUME NEW score, NEW S, IsFiniteSet(S), \A p \in S : score[p] \in Int
    PROVE  /\ Best(score, S) \in Int /\ Best(score, S) >= 0
           /\ \A p \in S : Best(score, S) >= score[p]
<1> DEFINE I == Image(score, S)
           V == {0} \cup I
<1>1. IsFiniteSet(I) /\ I \subseteq Int
  BY ImageFinite DEF Image
<1>2. Best(score, S) = Max(V)
  BY DEF Best, Image
<1>3. \A p \in S : score[p] \in I
  BY DEF Image
<1> HIDE DEF I
<1>4. IsFiniteSet(V) /\ V \subseteq Int /\ 0 \in V
  <2>1. IsFiniteSet({0})
    BY FS_Singleton
  <2>2. IsFiniteSet(V)
    BY <1>1, <2>1, FS_Union
  <2>3. QED
    BY <1>1, <2>2
<1>5. I \subseteq V
  OBVIOUS
<1> HIDE DEF V
<1>6. \E x \in V : \A y \in V : x >= y
  BY <1>4, Greatest
<1>7. Max(V) \in V /\ \A y \in V : Max(V) >= y
  BY <1>6 DEF Max
<1>8. QED
  BY <1>2, <1>3, <1>4, <1>5, <1>7

\* The passages tried on a claim include one that supports it, if there is any.
LEMMA SupportIsTried ==
    ASSUME NEW c, NEW m, c.passages \in Nat, c.min_entailment \in Int,
           \A p \in Passages(c) : m.entail[p] \in Int,
           \E p \in Passages(c) : m.entail[p] >= c.min_entailment
    PROVE  \E p \in tried_passages(c, m) : m.entail[p] >= c.min_entailment
<1> DEFINE short == _passage_shortlist(c, m)
           T == {p \in Passages(c) : m.entail[p] >= c.min_entailment}
<1>1. T \subseteq Nat /\ T # {}
  BY DEF Passages
<1>2. PICK p \in T : \A q \in T : p <= q
  <2> HIDE DEF T
  <2>1. QED
    BY <1>1, Least
<1>3. CASE \E q \in short : m.entail[q] >= c.min_entailment
  BY <1>3 DEF tried_passages
<1>4. CASE ~\E q \in short : m.entail[q] >= c.min_entailment
  <2>1. \A q \in {k \in Passages(c) : k < p} : ~(m.entail[q] >= c.min_entailment)
    <3>1. \A q \in Passages(c) : q \in Int
      BY DEF Passages
    <3>2. QED
      BY <1>2, <3>1
  <2>2. p \in Passages(c) \ short /\ m.entail[p] >= c.min_entailment
    BY <1>2, <1>4
  <2>3. ~\E q \in short \cup {k \in Passages(c) : k < p} : m.entail[q] >= c.min_entailment
    BY <1>4, <2>1
  <2>4. tried_passages(c, m) = short \cup {k \in Passages(c) \ short :
             ~\E q \in short \cup {j \in Passages(c) : j < k} : m.entail[q] >= c.min_entailment}
    BY DEF tried_passages
  <2> HIDE DEF short, T
  <2>5. QED
    BY <2>2, <2>3, <2>4
<1>5. QED
  BY <1>3, <1>4

\* hallucination: what is scored are passages, and finitely many.
LEMMA TriedArePassages ==
    ASSUME NEW c, NEW m, c.passages \in Nat
    PROVE  tried_passages(c, m) \subseteq Passages(c) /\ IsFiniteSet(tried_passages(c, m))
<1>1. IsFiniteSet(Passages(c))
  BY FS_Interval DEF Passages
<1>2. _passage_shortlist(c, m) \subseteq Passages(c)
  BY DEF _passage_shortlist, TopOf
<1>3. tried_passages(c, m) \subseteq Passages(c)
  BY <1>2 DEF tried_passages
<1>4. QED
  BY <1>1, <1>3, FS_Subset

\* hallucination: a claim with a supporting passage is not ungrounded.
LEMMA SupportedStands ==
    ASSUME NEW c, NEW m, c.passages \in Nat, c.min_entailment \in Int,
           Scores(c, m.entail), c.nli = "works",
           \E p \in Passages(c) : m.entail[p] >= c.min_entailment
    PROVE  claim_verdict(c, m) # "ungrounded"
<1> DEFINE tried == tried_passages(c, m)
           entail == Best(m.entail, tried)
           read == _nli_claim_score(c, m)
<1>1. tried \subseteq Passages(c) /\ IsFiniteSet(tried)
  BY TriedArePassages
<1>2. PICK p \in tried : m.entail[p] >= c.min_entailment
  BY SupportIsTried DEF Scores
<1>3. \A q \in tried : m.entail[q] \in Int
  BY <1>1 DEF Scores
<1>4. entail \in Int /\ entail >= 0 /\ entail >= m.entail[p]
  <2> HIDE DEF tried
  <2>1. QED
    BY <1>1, <1>3, BestIsGreatest
<1>5. entail >= c.min_entailment
  BY <1>2, <1>3, <1>4
<1>6. read.score = entail
  <2>1. ~(entail < c.min_entailment)
    BY <1>4, <1>5
  <2> DEFINE contra == IF m.labelled THEN Best(m.contra, tried) ELSE 0
             per_passage == [q \in Passages(c) |-> IF q \in tried THEN m.entail[q] ELSE 0]
             reverse == Best(m.reverse, TopOf(c, per_passage, AtLeast(1, c.top_k)))
             rescued == /\ c.reverse_rescue /\ entail < c.min_entailment
                        /\ contra < c.max_contradiction /\ reverse >= c.min_reverse
  <2>2. read = [score |-> IF rescued THEN Max({entail, reverse}) ELSE entail, contradiction |-> contra]
    BY DEF _nli_claim_score
  <2>3. ~rescued
    BY <2>1
  <2> HIDE DEF rescued, entail, reverse, contra, read
  <2>4. QED
    BY <2>2, <2>3
<1>7. claim_score(c, m) = read
  BY DEF claim_score
<1>8. ~_verifier_vetoes(c, m)
  <2>1. ~(read.score < c.min_entailment)
    <3> HIDE DEF read, entail
    <3>1. QED
      BY <1>4, <1>5, <1>6
  <2>2. QED
    BY <2>1 DEF _verifier_vetoes
<1>9. /\ ~(read.score < c.min_entailment)
      /\ ~(10 * read.score < 6 * c.min_entailment)
  <2> HIDE DEF read, entail
  <2>1. QED
    BY <1>4, <1>5, <1>6
<1> HIDE DEF read
<1>10. QED
  BY <1>7, <1>8, <1>9 DEF claim_verdict

\* The invariant SupportedClaimStands, for every number of passages and every size
\* of the shortlist: the passages beyond it are scored until one supports the claim
\* (hallucination._nli_claim_scores, _passage_shortlist).
THEOREM SupportedClaimsStand == RulesSpec => []SupportedClaimStands
<1>1. TextInv => SupportedClaimStands
  <2> SUFFICES ASSUME TextInv, rule = "hallucination", setting.nli = "works", NEW m \in text,
                      \E p \in Passages(setting) : m.entail[p] >= setting.min_entailment
               PROVE  claim_verdict(setting, m) # "ungrounded"
    BY DEF SupportedClaimStands
  <2>1. Sound(rule, setting, text)
    BY TextSound
  <2>2. SettingOK("hallucination", setting) /\ ReadingOK("hallucination", setting, m)
    BY <2>1 DEF Sound
  <2>3. setting.passages \in Nat /\ setting.min_entailment \in Int
    BY <2>2 DEF SettingOK
  <2>4. Scores(setting, m.entail)
    BY <2>2 DEF ReadingOK
  <2>5. QED
    BY <2>3, <2>4, SupportedStands
<1>2. QED
  BY <1>1, TextStays, PTL

\* A field of the metadata has one value.
LEMMA OneValue ==
    ASSUME NEW r \in {"human_approval_gate", "semantic_cache_integrity", "tenant_scope_assertion",
                      "gibberish"},
           NEW t, NEW kind, kind # "match", kind # "context",
           \A g, h \in t : Slot(r, g) = Slot(r, h) => g = h
    PROVE  \A v, w \in Evidence(t, kind) : v = w
<1>1. \A g : g.kind = kind => Slot(r, g) = <<"field", kind>>
  BY DEF Slot
<1>2. \A g, h \in t : g.kind = kind /\ h.kind = kind => g = h
  BY <1>1
<1>3. QED
  BY <1>2 DEF Evidence

\* The invariant ApprovalBound, for every plan and every token: a gated action is
\* let through only on a token for exactly the actions of this text
\* (human_approval_gate.detect).
THEOREM ApprovalIsBound == RulesSpec => []ApprovalBound
<1>1. TextInv => ApprovalBound
  <2> DEFINE c == setting
             t == text
             approver == IF Evidence(t, "approver") = {} THEN "" ELSE CHOOSE a \in Evidence(t, "approver") : TRUE
             at == CHOOSE n \in Evidence(t, "issued_at") : TRUE
             token == issue_approval_token(approval_action_hash(t), at, approver)
             cats == _gated_categories_in(c, t)
  <2> SUFFICES ASSUME TextInv, rule = "human_approval_gate", c.enabled, c.require_signed_approval,
                      \E m \in Matches(t) :
                         ~m.too_deep /\ m.category \in c.gated_categories \cap _COMPILED_ACTIONS,
                      human_approval_gate_detect(c, t).decision = "ALLOW"
               PROVE  \E k \in Evidence(t, "token") :
                         /\ k.action = Matches(t)
                         /\ Evidence(t, "issued_at") = {k.issued_at}
                         /\ Evidence(t, "approver") \subseteq {k.approver}
                         /\ c.max_age > 0 => c.now - k.issued_at <= c.max_age
    BY DEF ApprovalBound
  <2>1. cats # {}
    BY DEF _gated_categories_in, build_action_scan_text
  <2>2. _verify_signature(c, t) = {}
    <3> DEFINE hits == (IF c.require_signed_approval THEN _verify_signature(c, t) ELSE {})
                       \cup (IF ~approved(c, t) THEN HitsOf(cats, "high")
                             ELSE IF c.require_approver_identity /\ Evidence(t, "approver") = {}
                             THEN {Hit("anonymous_approval", "medium")} ELSE {})
    <3>1. human_approval_gate_detect(c, t) = BlockOrWarn(c.action = "BLOCK", hits)
      <4>1. human_approval_gate_detect(c, t) =
              IF ~c.enabled \/ cats = {} THEN Allowed ELSE BlockOrWarn(c.action = "BLOCK", hits)
        BY DEF human_approval_gate_detect
      <4> HIDE DEF cats, hits
      <4>2. QED
        BY <2>1, <4>1
    <3>2. hits = {}
      <4> HIDE DEF hits
      <4>1. QED
        BY <3>1 DEF BlockOrWarn, DetectorResult
    <3>3. _verify_signature(c, t) \subseteq hits
      OBVIOUS
    <3> HIDE DEF hits
    <3>4. QED
      BY <3>2, <3>3
  <2>3. Sound(rule, c, t)
    BY TextSound
  <2>4. /\ \A v, w \in Evidence(t, "issued_at") : v = w
        /\ \A v, w \in Evidence(t, "approver") : v = w
    BY <2>3, OneValue DEF Sound
  <2>5. \A v \in Evidence(t, "issued_at") : v \in Int
    <3>1. \A g \in t : FactOK("human_approval_gate", g)
      BY <2>3 DEF Sound
    <3>2. \A g \in t : g.kind = "issued_at" => g.value \in Int
      BY <3>1 DEF FactOK
    <3>3. QED
      BY <3>2 DEF Evidence
  <2>6. c.now \in Int /\ c.max_age \in Int
    BY <2>3 DEF Sound, SettingOK
  <2>7. /\ Evidence(t, "issued_at") # {} /\ token \in Evidence(t, "token")
        /\ ~(c.max_age > 0 /\ (c.now - at > c.max_age \/ c.now - at < -1))
    BY <2>2 DEF _verify_signature
  <2>8. at \in Evidence(t, "issued_at") /\ Evidence(t, "issued_at") = {at}
    <3>1. at \in Evidence(t, "issued_at")
      BY <2>7
    <3> HIDE DEF at
    <3>2. QED
      BY <2>4, <3>1
  <2>9. Evidence(t, "approver") \subseteq {approver}
    <3>1. Evidence(t, "approver") # {} => approver \in Evidence(t, "approver")
      OBVIOUS
    <3> HIDE DEF approver
    <3>2. QED
      BY <2>4, <3>1
  <2>10. token.action = Matches(t) /\ token.issued_at = at /\ token.approver = approver
    <3> HIDE DEF at, approver
    <3>1. QED
      BY DEF issue_approval_token, approval_action_hash
  <2>11. at \in Int
    BY <2>5, <2>8
  <2>12. c.max_age > 0 => c.now - at <= c.max_age
    <3>1. ~(c.max_age > 0 /\ c.now - at > c.max_age)
      BY <2>7
    <3> HIDE DEF at, token, approver
    <3>2. QED
      BY <2>6, <2>11, <3>1
  <2> HIDE DEF token, at, approver
  <2>13. QED
    BY <2>7, <2>8, <2>9, <2>10, <2>12
<1>2. QED
  BY <1>1, TextStays, PTL

-----------------------------------------------------------------------------
(***************************************************************************)
(* Replacing spans. The offsets are those of the text before any           *)
(* replacement, so the argument is that the text before the leftmost span  *)
(* replaced so far is untouched.                                           *)
(***************************************************************************)

\* The cells of a text in which r stands for the cells a + 1 to b of w.
Shape(v, w, a, b, r) ==
    /\ v \in Seq(Nat)
    /\ b <= Len(w) => Len(v) = a + Len(r) + (Len(w) - b)
    /\ b > Len(w) => Len(v) = a + Len(r)
    /\ \A i \in 1 .. a : v[i] = w[i]
    /\ \A i \in a + 1 .. a + Len(r) : v[i] = r[i - a]
    /\ \A i \in a + Len(r) + 1 .. Len(v) : v[i] = w[i - a - Len(r) + b]

\* The start of a text, its middle and its end.
LEMMA Spliced ==
    ASSUME NEW w \in Seq(Nat), NEW r \in Seq(Nat), NEW a \in Nat, NEW b \in Nat,
           a <= Len(w), a < b, NEW v, v = Splice(w, a, b, r)
    PROVE  Shape(v, w, a, b, r)
<1> DEFINE head == SubSeq(w, 1, a)
           tail == SubSeq(w, b + 1, Len(w))
           rest == IF b <= Len(w) THEN Len(w) - b ELSE 0
           front == head \o r
<1>0. Len(w) \in Nat /\ Len(r) \in Nat /\ rest \in Nat
  OBVIOUS
<1>r. (b <= Len(w) => rest = Len(w) - b) /\ (b > Len(w) => rest = 0)
  BY <1>0
<1>1. head \in Seq(Nat) /\ Len(head) = a /\ \A i \in 1 .. a : head[i] = w[i]
  OBVIOUS
<1>2. tail \in Seq(Nat) /\ Len(tail) = rest /\ \A i \in 1 .. rest : tail[i] = w[b + i]
  <2>1. CASE b <= Len(w)
    BY <2>1
  <2>2. CASE ~(b <= Len(w))
    BY <2>2
  <2>3. QED
    BY <2>1, <2>2
<1>3. v = front \o tail
  <2>1. AtMost(Len(w), a) = a
    BY <1>0 DEF AtMost
  <2>2. QED
    BY <2>1, Zenon DEF Splice
<1> HIDE DEF head, tail, rest
<1>4. /\ front \in Seq(Nat) /\ Len(front) = a + Len(r)
      /\ \A i \in 1 .. a : front[i] = w[i]
      /\ \A i \in a + 1 .. a + Len(r) : front[i] = r[i - a]
  <2>1. /\ front \in Seq(Nat) /\ Len(front) = Len(head) + Len(r)
        /\ \A i \in 1 .. Len(head) + Len(r) :
              front[i] = IF i <= Len(head) THEN head[i] ELSE r[i - Len(head)]
    BY <1>1, ConcatProperties
  <2> HIDE DEF front
  <2>2. Len(front) = a + Len(r)
    BY <1>1, <2>1
  <2>3. ASSUME NEW i \in 1 .. a PROVE front[i] = w[i]
    <3>1. i \in 1 .. Len(head) + Len(r) /\ i <= Len(head)
      BY <1>0, <1>1
    <3>2. front[i] = head[i]
      BY <2>1, <3>1
    <3>3. QED
      BY <1>1, <3>2
  <2>4. ASSUME NEW i \in a + 1 .. a + Len(r) PROVE front[i] = r[i - a]
    <3>1. i \in 1 .. Len(head) + Len(r) /\ ~(i <= Len(head))
      BY <1>0, <1>1
    <3>2. front[i] = r[i - Len(head)]
      BY <2>1, <3>1
    <3>3. QED
      BY <1>1, <3>2
  <2>5. QED
    BY <2>1, <2>2, <2>3, <2>4
<1> HIDE DEF front
<1>5. /\ v \in Seq(Nat) /\ Len(v) = a + Len(r) + rest
      /\ \A i \in 1 .. a + Len(r) : v[i] = front[i]
      /\ \A i \in a + Len(r) + 1 .. Len(v) : v[i] = tail[i - (a + Len(r))]
  <2>1. /\ v \in Seq(Nat) /\ Len(v) = Len(front) + Len(tail)
        /\ \A i \in 1 .. Len(front) + Len(tail) :
              v[i] = IF i <= Len(front) THEN front[i] ELSE tail[i - Len(front)]
    <3>1. tail \in Seq(Nat) /\ front \in Seq(Nat)
      BY <1>2, <1>4
    <3>2. QED
      BY <1>3, <3>1, ConcatProperties
  <2>2. Len(v) = a + Len(r) + rest
    BY <1>2, <1>4, <2>1
  <2>3. ASSUME NEW i \in 1 .. a + Len(r) PROVE v[i] = front[i]
    <3>1. i \in 1 .. Len(front) + Len(tail) /\ i <= Len(front)
      BY <1>0, <1>2, <1>4
    <3>2. QED
      BY <2>1, <3>1
  <2>4. ASSUME NEW i \in a + Len(r) + 1 .. Len(v) PROVE v[i] = tail[i - (a + Len(r))]
    <3>1. i \in 1 .. Len(front) + Len(tail) /\ ~(i <= Len(front))
      BY <1>0, <1>2, <1>4, <2>2
    <3>2. v[i] = tail[i - Len(front)]
      BY <2>1, <3>1
    <3>3. QED
      BY <1>4, <3>2
  <2>5. QED
    BY <2>1, <2>2, <2>3, <2>4
<1>6. ASSUME NEW i \in a + Len(r) + 1 .. Len(v) PROVE v[i] = w[i - a - Len(r) + b]
  <2>1. i - (a + Len(r)) \in 1 .. rest /\ b + (i - (a + Len(r))) = i - a - Len(r) + b
    BY <1>0, <1>5
  <2>2. QED
    BY <1>2, <1>5, <2>1
<1>7. \A i \in 1 .. a : v[i] = w[i]
  BY <1>0, <1>4, <1>5
<1>8. \A i \in a + 1 .. a + Len(r) : v[i] = r[i - a]
  BY <1>0, <1>4, <1>5
<1>9. (b <= Len(w) => Len(v) = a + Len(r) + (Len(w) - b)) /\ (b > Len(w) => Len(v) = a + Len(r))
  <2>1. Len(v) = a + Len(r) + rest
    BY <1>5
  <2>2. CASE b <= Len(w)
    <3>1. rest = Len(w) - b
      BY <1>r, <2>2
    <3>2. Len(v) = a + Len(r) + (Len(w) - b)
      BY <2>1, <3>1
    <3>3. QED
      BY <1>0, <2>2, <3>2
  <2>3. CASE ~(b <= Len(w))
    <3>1. rest = 0
      BY <1>0, <1>r, <2>3
    <3>2. Len(v) = a + Len(r)
      BY <1>0, <2>1, <3>1
    <3>3. QED
      BY <2>3, <3>2
  <2>4. QED
    BY <2>2, <2>3
<1>10. v \in Seq(Nat)
  BY <1>5
<1>11. QED
  BY <1>6, <1>7, <1>8, <1>9, <1>10, Zenon DEF Shape

\* A text that is untouched up to cell k and shows no cell up to k after that.
UntouchedTo(k, w) ==
    /\ k <= Len(w)
    /\ \A i \in 1 .. k : w[i] = i
    /\ \A i \in k + 1 .. Len(w) : w[i] = 0 \/ w[i] > k

\* Spans replaced from the last to the first: ch takes the leftmost of a set,
\* rep is what is put in place of a span, g the text after a set of replacements.
Replaces(S, ch, rep, g) ==
    /\ IsFiniteSet(S)
    /\ \A m \in S : SpanOK(m)
    /\ \A m \in S : rep[m] \in Seq(Nat) /\ Range(rep[m]) \subseteq {0} \cup Cells(m)
    /\ \A s \in SUBSET S : s # {} => ch[s] \in s /\ \A n \in s : ch[s].start <= n.start
    /\ g[{}] = Original
    /\ \A s \in SUBSET S :
          s # {} => g[s] = Splice(g[s \ {ch[s]}], ch[s].start, ch[s].end, rep[ch[s]])

StartsFrom(s, k) == \A n \in s : k <= n.start

\* Replacing a span leaves the text before it untouched.
LEMMA SpliceUntouched ==
    ASSUME NEW w \in Seq(Nat), NEW r \in Seq(Nat), NEW a \in Nat, NEW b \in Nat, a < b,
           \A i \in 1 .. Len(r) : r[i] = 0 \/ r[i] > a,
           UntouchedTo(a, w), NEW v, v = Splice(w, a, b, r), NEW k \in Nat, k <= a
    PROVE  v \in Seq(Nat) /\ UntouchedTo(k, v)
<1>1. a <= Len(w) /\ Len(w) \in Nat /\ Len(r) \in Nat
  BY DEF UntouchedTo
<1>2. Shape(v, w, a, b, r)
  BY <1>1, Spliced
<1>3. v \in Seq(Nat) /\ Len(v) \in Nat
  <2>1. v \in Seq(Nat)
    BY <1>2, Zenon DEF Shape
  <2>2. QED
    BY <2>1
<1>4. a <= Len(v) /\ (b <= Len(w) => Len(v) = a + Len(r) + Len(w) - b)
                  /\ (b > Len(w) => Len(v) = a + Len(r))
  <2>1. /\ b <= Len(w) => Len(v) = a + Len(r) + (Len(w) - b)
        /\ b > Len(w) => Len(v) = a + Len(r)
    BY <1>2, Zenon DEF Shape
  <2>2. QED
    BY <1>1, <2>1
<1>5. ASSUME NEW i \in 1 .. a PROVE v[i] = i
  <2>1. v[i] = w[i]
    BY <1>2 DEF Shape
  <2>2. w[i] = i
    BY DEF UntouchedTo
  <2>3. QED
    BY <2>1, <2>2
<1>6. ASSUME NEW i \in 1 .. Len(v), i > a PROVE v[i] = 0 \/ v[i] > a
  <2>1. CASE i <= a + Len(r)
    <3>1. i \in a + 1 .. a + Len(r) /\ i - a \in 1 .. Len(r)
      BY <1>1, <1>6, <2>1
    <3>2. v[i] = r[i - a]
      BY <1>2, <3>1 DEF Shape
    <3>3. QED
      BY <3>1, <3>2
  <2>2. CASE ~(i <= a + Len(r))
    <3>1. i \in a + Len(r) + 1 .. Len(v) /\ i - a - Len(r) + b \in a + 1 .. Len(w)
      BY <1>1, <1>3, <1>4, <2>2
    <3>2. v[i] = w[i - a - Len(r) + b]
      BY <1>2, <3>1 DEF Shape
    <3>3. QED
      BY <3>1, <3>2 DEF UntouchedTo
  <2>3. QED
    BY <2>1, <2>2
<1>7. ASSUME NEW i \in k + 1 .. Len(v) PROVE v[i] = 0 \/ v[i] > k
  <2>1. i \in 1 .. Len(v) /\ v[i] \in Nat
    BY <1>3, ElementOfSeq
  <2>2. CASE i <= a
    BY <1>5, <2>1, <2>2
  <2>3. CASE ~(i <= a)
    <3>1. v[i] = 0 \/ v[i] > a
      BY <1>6, <2>1, <2>3
    <3>2. QED
      BY <2>1, <3>1
  <2>4. QED
    BY <2>2, <2>3
<1>8. QED
  BY <1>3, <1>4, <1>5, <1>7 DEF UntouchedTo

\* The same of a span and what is put in its place.
LEMMA OneReplaced ==
    ASSUME NEW w \in Seq(Nat), NEW m, SpanOK(m), NEW r \in Seq(Nat),
           Range(r) \subseteq {0} \cup Cells(m), UntouchedTo(m.start, w),
           NEW k \in Nat, k <= m.start
    PROVE  Splice(w, m.start, m.end, r) \in Seq(Nat) /\ UntouchedTo(k, Splice(w, m.start, m.end, r))
<1>1. m.start \in Nat /\ m.end \in Nat /\ m.start < m.end
  BY DEF SpanOK
<1>2. ASSUME NEW i \in 1 .. Len(r) PROVE r[i] = 0 \/ r[i] > m.start
  <2>1. r[i] \in Range(r)
    BY DEF Range
  <2>2. QED
    BY <1>1, <2>1 DEF Cells
<1>3. QED
  BY <1>1, <1>2, SpliceUntouched

\* A text in which nothing was replaced.
LEMMA OriginalUntouched ==
    ASSUME NEW k \in 0 .. TextLen
    PROVE  Original \in Seq(Nat) /\ Len(Original) = TextLen /\ UntouchedTo(k, Original)
<1>1. TextLen \in Nat
  BY RulesAssumption
<1>2. Original \in Seq(Nat) /\ Len(Original) = TextLen
  BY <1>1 DEF Original
<1>3. QED
  BY <1>1, <1>2 DEF Original, UntouchedTo

\* However many spans are replaced, and although they overlap, the text before
\* the first of them is untouched.
LEMMA ReplacedUntouched ==
    ASSUME NEW S, NEW ch, NEW rep, NEW g, Replaces(S, ch, rep, g), NEW s \in SUBSET S
    PROVE  /\ g[s] \in Seq(Nat)
           /\ \A k \in 0 .. TextLen : StartsFrom(s, k) => UntouchedTo(k, g[s])
<1> DEFINE Fine(z) == /\ g[z] \in Seq(Nat)
                      /\ \A k \in 0 .. TextLen : StartsFrom(z, k) => UntouchedTo(k, g[z])
           Q == {z \in SUBSET S : Fine(z)}
<1>0. TextLen \in Nat /\ IsFiniteSet(S)
  BY RulesAssumption DEF Replaces
<1>1. {} \in Q
  <2>1. 0 \in 0 .. TextLen
    BY <1>0
  <2>2. Original \in Seq(Nat) /\ \A k \in 0 .. TextLen : UntouchedTo(k, Original)
    BY <2>1, OriginalUntouched
  <2>3. g[{}] = Original
    BY DEF Replaces
  <2>4. QED
    BY <2>2, <2>3
<1>2. ASSUME NEW z \in SUBSET S, z # {} PROVE \E x \in z : z \ {x} \in Q => z \in Q
  <2> DEFINE m == ch[z]
             w == g[z \ {m}]
  <2>1. m \in z /\ m \in S /\ \A n \in z : m.start <= n.start
    BY <1>2 DEF Replaces
  <2>2. g[z] = Splice(w, m.start, m.end, rep[m])
    BY <1>2 DEF Replaces
  <2>3. SpanOK(m) /\ rep[m] \in Seq(Nat) /\ Range(rep[m]) \subseteq {0} \cup Cells(m)
    BY <2>1 DEF Replaces
  <2>4. ASSUME z \ {m} \in Q PROVE z \in Q
    <3>1. w \in Seq(Nat)
      BY <2>4
    <3>2. m.start \in 0 .. TextLen /\ 0 \in 0 .. TextLen /\ 0 <= m.start
      BY <1>0, <2>3 DEF SpanOK
    <3>3. StartsFrom(z \ {m}, m.start)
      BY <2>1 DEF StartsFrom
    <3>4. UntouchedTo(m.start, w)
      BY <2>4, <3>2, <3>3
    <3> HIDE DEF w, m
    <3>5. ASSUME NEW k \in Nat, k <= m.start PROVE g[z] \in Seq(Nat) /\ UntouchedTo(k, g[z])
      BY <2>2, <2>3, <3>1, <3>4, <3>5, OneReplaced
    <3>6. g[z] \in Seq(Nat)
      BY <3>2, <3>5
    <3>7. ASSUME NEW k \in 0 .. TextLen, StartsFrom(z, k) PROVE UntouchedTo(k, g[z])
      <4>1. k \in Nat /\ k <= m.start
        BY <1>0, <2>1, <3>7 DEF StartsFrom
      <4>2. QED
        BY <3>5, <4>1
    <3>8. QED
      BY <3>6, <3>7
  <2>5. QED
    BY <2>1, <2>4
<1> HIDE DEF Q
<1>3. SUBSET S \subseteq Q
  BY <1>0, <1>1, <1>2, SetInduction
<1>4. s \in Q
  BY <1>3
<1>5. QED
  BY <1>4 DEF Q

\* Cell j of v is one of w before a, one of r, or, moved, one of w after b.
Origin(v, w, a, b, r, j) ==
    \/ j <= a /\ v[j] = w[j]
    \/ a < j /\ j <= a + Len(r) /\ v[j] \in Range(r)
    \/ /\ j > a + Len(r) /\ j - a - Len(r) + b \in b + 1 .. Len(w)
       /\ v[j] = w[j - a - Len(r) + b]

\* Where a cell of a text with a replaced span comes from.
LEMMA SpliceCell ==
    ASSUME NEW w \in Seq(Nat), NEW r \in Seq(Nat), NEW a \in Nat, NEW b \in Nat, a < b,
           a <= Len(w), NEW v, v = Splice(w, a, b, r), NEW j \in 1 .. Len(v)
    PROVE  Origin(v, w, a, b, r, j)
<1>1. Len(w) \in Nat /\ Len(r) \in Nat
  OBVIOUS
<1>2. Shape(v, w, a, b, r)
  BY <1>1, Spliced
<1>3. v \in Seq(Nat)
  BY <1>2, Zenon DEF Shape
<1>4. /\ b <= Len(w) => Len(v) = a + Len(r) + (Len(w) - b)
      /\ b > Len(w) => Len(v) = a + Len(r)
  BY <1>2, Zenon DEF Shape
<1>5. j \in Nat /\ j >= 1 /\ j <= Len(v) /\ Len(v) \in Nat
  BY <1>3
<1>6. CASE j <= a
  <2>1. j \in 1 .. a
    BY <1>5, <1>6
  <2>2. v[j] = w[j]
    BY <1>2, <2>1, Zenon DEF Shape
  <2>3. QED
    BY <1>6, <2>2, Zenon DEF Origin
<1>7. CASE a < j /\ j <= a + Len(r)
  <2>1. j \in a + 1 .. a + Len(r) /\ j - a \in 1 .. Len(r)
    BY <1>1, <1>5, <1>7
  <2>2. v[j] = r[j - a]
    BY <1>2, <2>1, Zenon DEF Shape
  <2>3. v[j] \in Range(r)
    BY <2>1, <2>2 DEF Range
  <2>4. QED
    BY <1>7, <2>3, Zenon DEF Origin
<1>8. CASE j > a + Len(r)
  <2>1. j \in a + Len(r) + 1 .. Len(v)
    BY <1>1, <1>5, <1>8
  <2>2. v[j] = w[j - a - Len(r) + b]
    BY <1>2, <2>1, Zenon DEF Shape
  <2>3. b <= Len(w)
    BY <1>1, <1>4, <1>5, <1>8
  <2>4. Len(v) = a + Len(r) + (Len(w) - b)
    BY <1>4, <2>3
  <2>5. j - a - Len(r) + b \in b + 1 .. Len(w)
    BY <1>1, <1>5, <1>8, <2>3, <2>4
  <2>6. QED
    BY <1>8, <2>2, <2>5, Zenon DEF Origin
<1>9. QED
  BY <1>1, <1>5, <1>6, <1>7, <1>8

\* No other span touches m.
Isolated(m, s) == \A n \in s \ {m} : Disjoint(m, n)

\* The spans that are replaced before the leftmost one, when it is isolated,
\* start after it.
LEMMA FirstIsolated ==
    ASSUME NEW S, NEW ch, NEW rep, NEW g, Replaces(S, ch, rep, g), NEW s \in SUBSET S, s # {},
           NEW m, m = ch[s], Isolated(m, s)
    PROVE  UntouchedTo(m.end, g[s \ {m}]) /\ g[s \ {m}] \in Seq(Nat)
<1>1. m \in s /\ m \in S /\ \A n \in s : m.start <= n.start
  BY DEF Replaces
<1>2. SpanOK(m) /\ \A n \in s : SpanOK(n)
  BY <1>1 DEF Replaces
<1>3. TextLen \in Nat
  BY RulesAssumption
<1>4. m.end \in 0 .. TextLen
  BY <1>2, <1>3 DEF SpanOK
<1>5. ASSUME NEW n \in s \ {m} PROVE m.end <= n.start
  BY <1>1, <1>2 DEF SpanOK, Isolated, Disjoint
<1>6. StartsFrom(s \ {m}, m.end)
  BY <1>5 DEF StartsFrom
<1>7. s \ {m} \in SUBSET S
  OBVIOUS
<1>8. QED
  BY <1>4, <1>6, <1>7, ReplacedUntouched

\* Of a span that no other touches nothing is left but what its replacement shows.
LEMMA IsolatedGone ==
    ASSUME NEW S, NEW ch, NEW rep, NEW g, Replaces(S, ch, rep, g), NEW m \in S,
           NEW s \in SUBSET S, m \in s, Isolated(m, s)
    PROVE  Cells(m) \cap Range(g[s]) \subseteq Range(rep[m])
<1> DEFINE Gone(z) == m \in z /\ Isolated(m, z) => Cells(m) \cap Range(g[z]) \subseteq Range(rep[m])
           Q == {z \in SUBSET S : Gone(z)}
<1>0. IsFiniteSet(S) /\ SpanOK(m) /\ m.start \in Nat /\ m.end \in Nat /\ m.start < m.end
  BY DEF Replaces, SpanOK
<1>1. {} \in Q
  OBVIOUS
<1>2. ASSUME NEW z \in SUBSET S, z # {} PROVE \E x \in z : z \ {x} \in Q => z \in Q
  <2> DEFINE x == ch[z]
             w == g[z \ {x}]
             v == g[z]
  <2>1. x \in z /\ x \in S /\ \A n \in z : x.start <= n.start
    BY <1>2 DEF Replaces
  <2>2. v = Splice(w, x.start, x.end, rep[x])
    BY <1>2 DEF Replaces
  <2>3. /\ SpanOK(x) /\ x.start \in Nat /\ x.end \in Nat /\ x.start < x.end /\ x.start <= TextLen
        /\ rep[x] \in Seq(Nat) /\ Range(rep[x]) \subseteq {0} \cup Cells(x)
    BY <2>1, RulesAssumption DEF Replaces, SpanOK
  <2>4. ASSUME z \ {x} \in Q, m \in z, Isolated(m, z), NEW c \in Cells(m), c \in Range(v)
        PROVE  c \in Range(rep[m])
    <3>0. w \in Seq(Nat) /\ v \in Seq(Nat) /\ UntouchedTo(x.start, w)
      <4>1. z \ {x} \in SUBSET S
        OBVIOUS
      <4>2. StartsFrom(z \ {x}, x.start)
        BY <2>1 DEF StartsFrom
      <4>3. x.start \in 0 .. TextLen
        BY <2>3, RulesAssumption
      <4>4. QED
        BY <4>1, <4>2, <4>3, ReplacedUntouched
    <3>1. c \in Nat /\ m.start < c /\ c <= m.end
      BY <1>0 DEF Cells
    <3>2. PICK j \in 1 .. Len(v) : v[j] = c
      BY <2>4, <3>0 DEF Range
    <3> HIDE DEF v, w, x
    <3>3. x.start <= Len(w)
      BY <3>0 DEF UntouchedTo
    <3> DEFINE k == j - x.start - Len(rep[x]) + x.end
    <3>4. \/ j <= x.start /\ v[j] = w[j]
          \/ v[j] \in Range(rep[x])
          \/ k \in x.end + 1 .. Len(w) /\ v[j] = w[k]
      <4> DEFINE a == x.start
                 b == x.end
                 r == rep[x]
      <4>1. /\ a \in Nat /\ b \in Nat /\ a < b /\ a <= Len(w) /\ r \in Seq(Nat) /\ w \in Seq(Nat)
            /\ v = Splice(w, a, b, r)
        BY <2>2, <2>3, <3>0, <3>3
      <4>2. k = j - a - Len(r) + b
        OBVIOUS
      <4> HIDE DEF a, b, r, k
      <4>3. Origin(v, w, a, b, r, j)
        BY <4>1, SpliceCell
      <4>4. QED
        BY <4>2, <4>3, Zenon DEF a, b, r, Origin
    <3> HIDE DEF k
    <3>5. CASE x = m
      <4>1. UntouchedTo(m.end, w)
        BY <1>2, <2>4, <3>5, FirstIsolated DEF x, w
      <4>2. CASE j <= x.start /\ v[j] = w[j]
        <5>1. w[j] = j
          BY <2>3, <3>0, <4>2 DEF UntouchedTo
        <5>2. QED
          BY <1>0, <3>1, <3>2, <3>5, <4>2, <5>1
      <4>3. CASE k \in x.end + 1 .. Len(w) /\ v[j] = w[k]
        <5>1. w[k] = 0 \/ w[k] > m.end
          BY <3>5, <4>1, <4>3 DEF UntouchedTo
        <5>2. QED
          BY <1>0, <3>1, <3>2, <4>3, <5>1
      <4>4. QED
        BY <3>2, <3>4, <3>5, <4>2, <4>3
    <3>6. CASE x # m
      <4>1. x.end <= m.start
        BY <1>0, <2>1, <2>3, <2>4, <3>6 DEF Isolated, Disjoint
      <4>2. Isolated(m, z \ {x}) /\ m \in z \ {x}
        BY <2>4, <3>6 DEF Isolated
      <4>3. Cells(m) \cap Range(w) \subseteq Range(rep[m])
        BY <2>4, <4>2 DEF w
      <4>4. c \notin {0} \cup Cells(x)
        BY <1>0, <2>3, <3>1, <4>1 DEF Cells
      <4>5. c \in Range(w)
        <5>1. DOMAIN w = 1 .. Len(w)
          BY <3>0
        <5>2. CASE j <= x.start /\ v[j] = w[j]
          <6>1. j \in DOMAIN w
            BY <2>3, <3>0, <3>3, <5>1, <5>2
          <6>2. QED
            BY <3>2, <5>2, <6>1 DEF Range
        <5>3. CASE k \in x.end + 1 .. Len(w) /\ v[j] = w[k]
          <6>1. k \in DOMAIN w
            BY <2>3, <3>0, <5>1, <5>3
          <6>2. QED
            BY <3>2, <5>3, <6>1 DEF Range
        <5>4. QED
          BY <2>3, <3>2, <3>4, <4>4, <5>2, <5>3
      <4>6. QED
        BY <4>3, <4>5
    <3>7. QED
      BY <3>5, <3>6
  <2>5. QED
    BY <2>1, <2>4
<1> HIDE DEF Q
<1>3. SUBSET S \subseteq Q
  BY <1>0, <1>1, <1>2, SetInduction
<1>4. s \in Q
  BY <1>3
<1>5. QED
  BY <1>4 DEF Q

\* What is before a replaced span, and what is after it, stays.
LEMMA SplicePlace ==
    ASSUME NEW w \in Seq(Nat), NEW r \in Seq(Nat), NEW a \in Nat, NEW b \in Nat, a < b,
           a <= Len(w), NEW v, v = Splice(w, a, b, r), NEW p \in 1 .. Len(w), p <= a \/ p > b
    PROVE  v \in Seq(Nat) /\ w[p] \in Range(v)
<1>1. Len(w) \in Nat /\ Len(r) \in Nat
  OBVIOUS
<1>2. Shape(v, w, a, b, r)
  BY <1>1, Spliced
<1>3. v \in Seq(Nat)
  BY <1>2, Zenon DEF Shape
<1>4. /\ b <= Len(w) => Len(v) = a + Len(r) + (Len(w) - b)
      /\ b > Len(w) => Len(v) = a + Len(r)
  BY <1>2, Zenon DEF Shape
<1>5. DOMAIN v = 1 .. Len(v) /\ Len(v) \in Nat
  BY <1>3
<1>6. CASE p <= a
  <2>1. p \in 1 .. a
    BY <1>6
  <2>2. v[p] = w[p]
    BY <1>2, <2>1, Zenon DEF Shape
  <2>3. a <= Len(v)
    <3>1. CASE b <= Len(w)
      BY <1>1, <1>4, <3>1
    <3>2. CASE ~(b <= Len(w))
      BY <1>1, <1>4, <3>2
    <3>3. QED
      BY <3>1, <3>2
  <2>4. p \in DOMAIN v
    BY <1>5, <2>1, <2>3
  <2>5. QED
    BY <1>3, <2>2, <2>4 DEF Range
<1>7. CASE p > b
  <2> DEFINE q == p - b + a + Len(r)
  <2>1. b <= Len(w)
    BY <1>1, <1>7
  <2>2. Len(v) = a + Len(r) + (Len(w) - b)
    BY <1>4, <2>1
  <2>3. q \in a + Len(r) + 1 .. Len(v) /\ q \in 1 .. Len(v) /\ q - a - Len(r) + b = p
    BY <1>1, <1>5, <1>7, <2>2
  <2> HIDE DEF q
  <2>4. v[q] = w[q - a - Len(r) + b]
    BY <1>2, <2>3, Zenon DEF Shape
  <2>5. v[q] = w[p] /\ q \in DOMAIN v
    BY <1>5, <2>3, <2>4
  <2>6. QED
    BY <1>3, <2>5 DEF Range
<1>8. QED
  BY <1>6, <1>7

\* The cells outside some spans.
Outside(s) == {c \in 1 .. TextLen : \A m \in s : c \notin Cells(m)}

\* A text shows them all, in order.
Shows(s, w) ==
    /\ Outside(s) \subseteq Range(w)
    /\ \A i, j \in 1 .. Len(w) : i < j /\ w[i] \in Outside(s) /\ w[j] \in Outside(s) => w[i] < w[j]

Separate(s) == \A m, n \in s : m = n \/ Disjoint(m, n)

\* One more span replaced, before all others.
LEMMA OneMoreShows ==
    ASSUME NEW w \in Seq(Nat), NEW x, SpanOK(x), NEW r \in Seq(Nat),
           Range(r) \subseteq {0} \cup Cells(x), UntouchedTo(x.end, w),
           NEW v, v = Splice(w, x.start, x.end, r), v \in Seq(Nat),
           NEW s, x \in s, Shows(s \ {x}, w)
    PROVE  Shows(s, v)
<1> DEFINE a == x.start
           b == x.end
           O == Outside(s)
           k(j) == j - a - Len(r) + b
<1>1. /\ a \in Nat /\ b \in Nat /\ a < b /\ b <= Len(w) /\ a <= Len(w)
      /\ Len(w) \in Nat /\ Len(r) \in Nat /\ Len(v) \in Nat /\ v = Splice(w, a, b, r)
  BY DEF SpanOK, UntouchedTo
<1>2. O \subseteq Outside(s \ {x})
  BY DEF Outside
<1>3. ASSUME NEW c \in O PROVE c \in Nat /\ c > 0 /\ (c <= a \/ c > b) /\ c \notin Range(r)
  <2>1. c \in 1 .. TextLen /\ c \notin Cells(x)
    BY DEF Outside
  <2>2. c \in Nat /\ c > 0 /\ c # 0
    BY <2>1, RulesAssumption
  <2>3. c <= a \/ c > b
    BY <1>1, <2>1, <2>2 DEF Cells
  <2>4. QED
    BY <2>1, <2>2, <2>3
<1>4. /\ \A i \in 1 .. b : w[i] = i
      /\ \A i \in b + 1 .. Len(w) : w[i] = 0 \/ w[i] > b
  BY DEF UntouchedTo
<1>5. /\ O \subseteq Range(w)
      /\ \A i, j \in 1 .. Len(w) : i < j /\ w[i] \in O /\ w[j] \in O => w[i] < w[j]
  BY <1>2 DEF Shows
<1> HIDE DEF a, b, O
<1>6. ASSUME NEW c \in O PROVE c \in Range(v)
  <2>1. PICK p \in 1 .. Len(w) : w[p] = c
    <3>1. c \in Range(w) /\ DOMAIN w = 1 .. Len(w)
      BY <1>5
    <3>2. QED
      BY <3>1 DEF Range
  <2>2. p <= a \/ p > b
    <3>1. CASE p <= b
      <4>1. p = c
        BY <1>1, <1>4, <2>1, <3>1
      <4>2. QED
        BY <1>1, <1>3, <3>1, <4>1
    <3>2. CASE ~(p <= b)
      BY <1>1, <3>2
    <3>3. QED
      BY <3>1, <3>2
  <2>3. w[p] \in Range(v)
    BY <1>1, <2>2, SplicePlace
  <2>4. QED
    BY <2>1, <2>3
<1>7. ASSUME NEW i \in 1 .. Len(v), v[i] \in O
      PROVE  (i <= a /\ v[i] = i) \/ (i > a /\ k(i) \in b + 1 .. Len(w) /\ v[i] = w[k(i)] /\ v[i] > b)
  <2>1. Origin(v, w, a, b, r, i)
    BY <1>1, SpliceCell
  <2>2. CASE i <= a /\ v[i] = w[i]
    <3>1. i \in 1 .. b
      BY <1>1, <2>2
    <3>2. QED
      BY <1>4, <2>2, <3>1
  <2>3. CASE /\ i > a + Len(r) /\ i - a - Len(r) + b \in b + 1 .. Len(w)
             /\ v[i] = w[i - a - Len(r) + b]
    <3>1. i > a
      BY <1>1, <2>3
    <3>2. w[k(i)] = 0 \/ w[k(i)] > b
      BY <1>4, <2>3
    <3>3. v[i] # 0
      BY <1>3, <1>7
    <3>4. QED
      BY <2>3, <3>1, <3>2, <3>3
  <2>4. ~(v[i] \in Range(r))
    BY <1>3, <1>7
  <2>5. QED
    BY <2>1, <2>2, <2>3, <2>4, Zenon DEF Origin
<1>8. ASSUME NEW i \in 1 .. Len(v), NEW j \in 1 .. Len(v), i < j, v[i] \in O, v[j] \in O
      PROVE  v[i] < v[j]
  <2>0. v[i] \in Nat /\ v[j] \in Nat
    BY <1>3, <1>8
  <2>1. CASE i <= a /\ j <= a
    <3>1. v[i] = i /\ v[j] = j
      BY <1>1, <1>7, <1>8, <2>1
    <3>2. QED
      BY <1>8, <3>1
  <2>2. CASE i <= a /\ j > a
    <3>1. v[i] = i /\ v[j] > b
      <4>1. ~(i > a) /\ ~(j <= a)
        BY <1>1, <2>2
      <4>2. v[i] = i
        BY <1>7, <1>8, <4>1, Zenon
      <4>3. v[j] > b
        BY <1>7, <1>8, <4>1, Zenon
      <4>4. QED
        BY <4>2, <4>3
    <3>2. QED
      BY <1>1, <2>0, <2>2, <3>1
  <2>3. CASE i > a /\ j > a
    <3>1. /\ k(i) \in b + 1 .. Len(w) /\ v[i] = w[k(i)]
          /\ k(j) \in b + 1 .. Len(w) /\ v[j] = w[k(j)]
      <4>1. ~(i <= a) /\ ~(j <= a)
        BY <1>1, <2>3
      <4> HIDE DEF k
      <4>2. k(i) \in b + 1 .. Len(w) /\ v[i] = w[k(i)]
        BY <1>7, <1>8, <4>1, Zenon
      <4>3. k(j) \in b + 1 .. Len(w) /\ v[j] = w[k(j)]
        BY <1>7, <1>8, <4>1, Zenon
      <4>4. QED
        BY <4>2, <4>3
    <3>2. k(i) < k(j) /\ k(i) \in 1 .. Len(w) /\ k(j) \in 1 .. Len(w)
      <4>1. k(i) \in b + 1 .. Len(w) /\ k(j) \in b + 1 .. Len(w)
        BY <3>1, Zenon
      <4>2. k(i) < k(j)
        BY <1>1, <1>8
      <4> HIDE DEF k
      <4>3. QED
        BY <1>1, <4>1, <4>2
    <3> HIDE DEF k
    <3>3. QED
      BY <1>5, <1>8, <3>1, <3>2
  <2>4. QED
    BY <1>1, <1>8, <2>1, <2>2, <2>3
<1>9. QED
  BY <1>6, <1>8 DEF Shows, O

\* Spans that do not touch one another take nothing else out of the text.
LEMMA OutsideShown ==
    ASSUME NEW S, NEW ch, NEW rep, NEW g, Replaces(S, ch, rep, g), Separate(S)
    PROVE  Shows(S, g[S])
<1> DEFINE Q == {z \in SUBSET S : Shows(z, g[z])}
<1>0. IsFiniteSet(S)
  BY DEF Replaces
<1>1. {} \in Q
  <2>1. g[{}] = Original
    BY DEF Replaces
  <2>2. TextLen \in Nat
    BY RulesAssumption
  <2>3. 0 \in 0 .. TextLen
    BY <2>2
  <2>4. Len(Original) = TextLen
    BY <2>3, OriginalUntouched
  <2>5. Shows({}, Original)
    BY <2>2, <2>4 DEF Shows, Outside, Original, Range
  <2>6. QED
    BY <2>1, <2>5
<1>2. ASSUME NEW z \in SUBSET S, z # {} PROVE \E x \in z : z \ {x} \in Q => z \in Q
  <2> DEFINE x == ch[z]
             w == g[z \ {x}]
             v == g[z]
  <2>1. x \in z /\ x \in S
    BY <1>2 DEF Replaces
  <2>2. v = Splice(w, x.start, x.end, rep[x])
    BY <1>2 DEF Replaces
  <2>3. SpanOK(x) /\ rep[x] \in Seq(Nat) /\ Range(rep[x]) \subseteq {0} \cup Cells(x)
    BY <2>1 DEF Replaces
  <2>4. Isolated(x, z)
    BY <2>1 DEF Isolated, Separate
  <2>5. UntouchedTo(x.end, w) /\ w \in Seq(Nat) /\ v \in Seq(Nat)
    <3>1. UntouchedTo(x.end, w) /\ w \in Seq(Nat)
      <4> HIDE DEF x
      <4>1. x = ch[z]
        BY DEF x
      <4>2. QED
        BY <1>2, <2>4, <4>1, FirstIsolated
    <3>2. v \in Seq(Nat)
      BY ReplacedUntouched
    <3>3. QED
      BY <3>1, <3>2
  <2>6. ASSUME z \ {x} \in Q PROVE z \in Q
    <3>1. Shows(z \ {x}, w)
      BY <2>6
    <3>2. Shows(z, v)
      <4> HIDE DEF x, w, v
      <4>1. QED
        BY <2>1, <2>2, <2>3, <2>5, <3>1, OneMoreShows
    <3>3. QED
      BY <3>2
  <2>7. QED
    BY <2>1, <2>6
<1> HIDE DEF Q
<1>3. SUBSET S \subseteq Q
  BY <1>0, <1>1, <1>2, SetInduction
<1>4. S \in Q
  BY <1>3
<1>5. QED
  BY <1>4 DEF Q

-----------------------------------------------------------------------------
(***************************************************************************)
(* The three redactions.                                                   *)
(***************************************************************************)

\* A splice of texts is a text, even past the end of the first.
LEMMA SpliceWord ==
    ASSUME NEW w \in Seq(Nat), NEW r \in Seq(Nat), NEW a \in Nat, NEW b \in Nat
    PROVE  Splice(w, a, b, r) \in Seq(Nat)
<1> DEFINE c == AtMost(Len(w), a)
           head == SubSeq(w, 1, c)
           tail == SubSeq(w, b + 1, Len(w))
<1>0. Len(w) \in Nat
  OBVIOUS
<1>1. c \in Nat /\ c <= Len(w)
  BY <1>0 DEF AtMost
<1>2. head \in Seq(Nat)
  <2> HIDE DEF c
  <2>1. QED
    BY <1>1
<1>3. tail \in Seq(Nat)
  <2>1. CASE b + 1 <= Len(w)
    BY <2>1
  <2>2. CASE ~(b + 1 <= Len(w))
    BY <2>2
  <2>3. QED
    BY <2>1, <2>2
<1>4. Splice(w, a, b, r) = (head \o r) \o tail
  BY Zenon DEF Splice
<1> HIDE DEF head, tail
<1>5. QED
  BY <1>2, <1>3, <1>4, ConcatProperties

\* Spans that can be replaced from the last to the first.
Replaceable(S, ch, rep) ==
    /\ IsFiniteSet(S)
    /\ \A m \in S : SpanOK(m)
    /\ \A m \in S : rep[m] \in Seq(Nat) /\ Range(rep[m]) \subseteq {0} \cup Cells(m)
    /\ \A s \in SUBSET S : s # {} => ch[s] \in s /\ \A n \in s : ch[s].start <= n.start

SpliceFold(S, ch, rep, g) ==
    g = [s \in SUBSET S |->
            IF s = {} THEN Original
            ELSE Splice(g[s \ {ch[s]}], ch[s].start, ch[s].end, rep[ch[s]])]

\* Spans can be replaced one after the other.
LEMMA SpliceFoldExists ==
    ASSUME NEW S, NEW ch, NEW rep, Replaceable(S, ch, rep)
    PROVE  \E g : SpliceFold(S, ch, rep, g)
<1> DEFINE V == Seq(Nat)
           step == [m \in S |-> [w \in V |-> Splice(w, m.start, m.end, rep[m])]]
<1>1. ASSUME NEW m \in S, NEW w \in V
      PROVE  step[m][w] = Splice(w, m.start, m.end, rep[m]) /\ step[m][w] \in V
  <2>1. m.start \in Nat /\ m.end \in Nat /\ rep[m] \in Seq(Nat)
    BY DEF Replaceable, SpanOK
  <2>2. Splice(w, m.start, m.end, rep[m]) \in Seq(Nat)
    BY <2>1, SpliceWord
  <2>3. QED
    BY <2>2
<1>2. Original \in V
  BY RulesAssumption DEF Original
<1>3. \A s \in SUBSET S : s # {} => ch[s] \in s
  BY DEF Replaceable
<1> HIDE DEF step, V
<1>4. Foldable(S, ch, V, Original, step)
  BY <1>1, <1>2, <1>3 DEF Foldable, Replaceable
<1>5. PICK g \in [SUBSET S -> V] : IsFold(S, ch, Original, step, g)
  BY <1>4, FoldExists
<1>6. ASSUME NEW s \in SUBSET S, s # {}
      PROVE  step[ch[s]][g[s \ {ch[s]}]] = Splice(g[s \ {ch[s]}], ch[s].start, ch[s].end, rep[ch[s]])
  <2>1. ch[s] \in S /\ g[s \ {ch[s]}] \in V
    BY <1>3, <1>6
  <2>2. QED
    BY <1>1, <2>1
<1>7. SpliceFold(S, ch, rep, g)
  BY <1>5, <1>6 DEF IsFold, SpliceFold
<1>8. QED
  BY <1>7

\* The recursion of Splices, unfolded once.
LEMMA SpliceFoldReplaces ==
    ASSUME NEW S, NEW ch, NEW rep, NEW g, Replaceable(S, ch, rep), SpliceFold(S, ch, rep, g)
    PROVE  Replaces(S, ch, rep, g)
<1>1. g[{}] = Original
  BY DEF SpliceFold
<1>2. ASSUME NEW s \in SUBSET S, s # {}
      PROVE  g[s] = Splice(g[s \ {ch[s]}], ch[s].start, ch[s].end, rep[ch[s]])
  BY <1>2 DEF SpliceFold
<1>3. QED
  BY <1>1, <1>2 DEF Replaces, Replaceable

\* secrets._redact_text takes the spans from the last start to the first.
LEMMA LastSecretFirst ==
    ASSUME NEW S, IsFiniteSet(S), S # {}, \A m \in S : SpanOK(m) /\ position(m) \in Nat
    PROVE  last_secret(S) \in S /\ \A n \in S : last_secret(S).start <= n.start
<1> DEFINE starts == {m.start : m \in S}
<1>0. \A m \in S : m.start \in Nat
  BY DEF SpanOK
<1>1. PICK a \in starts : \A b \in starts : a <= b
  BY <1>0, Least
<1> DEFINE T == {m \in S : m.start = a}
           e == [m \in S |-> position(m)]
           I == Image(e, T)
<1>2. IsFiniteSet(T) /\ T # {}
  BY FS_Subset
<1>3. IsFiniteSet(I) /\ I \subseteq Int /\ I # {}
  <2>1. IsFiniteSet(I)
    BY <1>2, ImageFinite DEF Image
  <2>2. I \subseteq Int /\ I # {}
    BY <1>2 DEF Image
  <2>3. QED
    BY <2>1, <2>2
<1>4. PICK p \in I : \A q \in I : p >= q
  <2> HIDE DEF I
  <2>1. QED
    BY <1>3, Greatest
<1>5. PICK m \in T : position(m) = p
  BY <1>4 DEF Image
<1>6. \A n \in S : \/ m.start < n.start
                   \/ m.start = n.start /\ position(m) >= position(n)
  <2>1. SUFFICES ASSUME NEW n \in S PROVE m.start < n.start \/ (m.start = n.start /\ position(m) >= position(n))
    OBVIOUS
  <2>2. a <= n.start /\ m.start = a
    BY <1>1
  <2>3. CASE n.start = a
    <3>1. position(n) \in I
      <4>1. n \in T /\ e[n] = position(n)
        BY <2>3
      <4>2. QED
        BY <4>1 DEF Image
    <3>2. QED
      BY <1>4, <1>5, <2>2, <2>3, <3>1
  <2>4. CASE n.start # a
    BY <1>0, <2>2, <2>4
  <2>5. QED
    BY <2>3, <2>4
<1>7. /\ last_secret(S) \in S
      /\ \A n \in S : \/ last_secret(S).start < n.start
                      \/ last_secret(S).start = n.start /\ position(last_secret(S)) >= position(n)
  BY <1>6 DEF last_secret
<1> HIDE DEF T, starts
<1>8. QED
  BY <1>0, <1>7

\* leftmost is an element, and starts no later than the others.
LEMMA LeftmostIsFirst ==
    ASSUME NEW S, S # {}, \A m \in S : SpanOK(m)
    PROVE  leftmost(S) \in S /\ \A n \in S : leftmost(S).start <= n.start
<1> DEFINE starts == {m.start : m \in S}
<1>1. starts \subseteq Nat /\ starts # {}
  BY DEF SpanOK
<1>2. PICK a \in starts : \A b \in starts : a <= b
  BY <1>1, Least
<1>3. PICK m \in S : \A n \in S : m.start <= n.start
  BY <1>2
<1>4. QED
  BY <1>3 DEF leftmost

\* rightmost is an element, and starts no earlier than the others.
LEMMA RightmostIsLast ==
    ASSUME NEW S, IsFiniteSet(S), S # {}, \A m \in S : SpanOK(m)
    PROVE  rightmost(S) \in S /\ \A n \in S : n.start <= rightmost(S).start
<1> DEFINE e == [m \in S |-> m.start]
           I == Image(e, S)
<1>1. IsFiniteSet(I)
  BY ImageFinite DEF Image
<1>2. I \subseteq Int /\ I # {}
  BY DEF Image, SpanOK
<1>3. PICK a \in I : \A b \in I : a >= b
  <2> HIDE DEF I
  <2>1. QED
    BY <1>1, <1>2, Greatest
<1>4. PICK m \in S : m.start = a
  BY <1>3 DEF Image
<1>5. ASSUME NEW n \in S PROVE n.start <= m.start
  <2>1. n.start \in I
    BY DEF Image
  <2>2. QED
    BY <1>2, <1>3, <1>4, <2>1
<1>6. QED
  BY <1>4, <1>5 DEF rightmost

\* secrets._redact_text replaces spans from the last start to the first.
LEMMA SecretsReplaced ==
    ASSUME NEW S, IsFiniteSet(S), \A m \in S : SpanOK(m) /\ position(m) \in Nat
    PROVE  \E ch, rep, g :
              /\ Replaces(S, ch, rep, g)
              /\ secrets_redact_text(S) = g[S]
              /\ \A m \in S : rep[m] = <<0>>
<1> DEFINE ch == [s \in SUBSET S |-> last_secret(s)]
           rep == [m \in S |-> <<0>>]
           Folds(g) == g = [s \in SUBSET S |->
                              IF s = {} THEN Original
                              ELSE Splice(g[s \ {last_secret(s)}], last_secret(s).start,
                                          last_secret(s).end, <<0>>)]
           iter == CHOOSE g : Folds(g)
<1>1. secrets_redact_text(S) = iter[S]
  BY DEF secrets_redact_text, Splices, MapThenFoldSet, Token
<1>2. \A s \in SUBSET S : s # {} => ch[s] = last_secret(s) /\ ch[s] \in s /\ \A n \in s : ch[s].start <= n.start
  <2>1. SUFFICES ASSUME NEW s \in SUBSET S, s # {}
                 PROVE  last_secret(s) \in s /\ \A n \in s : last_secret(s).start <= n.start
    OBVIOUS
  <2>2. IsFiniteSet(s) /\ \A m \in s : SpanOK(m) /\ position(m) \in Nat
    BY FS_Subset
  <2>3. QED
    BY <2>1, <2>2, LastSecretFirst
<1>3. \A m \in S : rep[m] = <<0>> /\ rep[m] \in Seq(Nat) /\ Range(rep[m]) \subseteq {0} \cup Cells(m)
  BY DEF Range
<1> HIDE DEF ch, rep
<1>4. Replaceable(S, ch, rep)
  BY <1>2, <1>3 DEF Replaceable
<1>5. ASSUME NEW g, SpliceFold(S, ch, rep, g) PROVE Folds(g)
  <2>1. ASSUME NEW s \in SUBSET S, s # {}
        PROVE  Splice(g[s \ {ch[s]}], ch[s].start, ch[s].end, rep[ch[s]])
                 = Splice(g[s \ {last_secret(s)}], last_secret(s).start, last_secret(s).end, <<0>>)
    BY <1>2, <1>3, <2>1
  <2>2. QED
    BY <1>5, <2>1 DEF SpliceFold
<1>6. \E g : Folds(g)
  BY <1>4, <1>5, SpliceFoldExists
<1>7. Folds(iter)
  BY <1>6
<1> HIDE DEF iter
<1>8. SpliceFold(S, ch, rep, iter)
  <2>1. ASSUME NEW s \in SUBSET S, s # {}
        PROVE  Splice(iter[s \ {ch[s]}], ch[s].start, ch[s].end, rep[ch[s]])
                 = Splice(iter[s \ {last_secret(s)}], last_secret(s).start, last_secret(s).end, <<0>>)
    BY <1>2, <1>3, <2>1
  <2>2. QED
    BY <1>7, <2>1 DEF SpliceFold
<1>9. Replaces(S, ch, rep, iter)
  BY <1>4, <1>8, SpliceFoldReplaces
<1>10. QED
  BY <1>1, <1>3, <1>9

\* Spans taken one after the other unless they start before the end of one taken.
TakeOne(k, m) == IF \A n \in k : n.end <= m.start THEN k \cup {m} ELSE k

ApartFold(S, ch, g) ==
    g = [s \in SUBSET S |-> IF s = {} THEN {} ELSE TakeOne(g[s \ {ch[s]}], ch[s])]

\* Spans can be taken one after the other.
LEMMA ApartFoldExists ==
    ASSUME NEW S, IsFiniteSet(S), NEW ch, \A s \in SUBSET S : s # {} => ch[s] \in s
    PROVE  \E g : ApartFold(S, ch, g)
<1> DEFINE V == SUBSET S
           step == [m \in S |-> [k \in V |-> TakeOne(k, m)]]
<1>1. \A m \in S, k \in V : step[m][k] = TakeOne(k, m) /\ step[m][k] \in V
  BY DEF TakeOne
<1>2. {} \in V
  OBVIOUS
<1> HIDE DEF step, V
<1>3. Foldable(S, ch, V, {}, step)
  BY <1>1, <1>2 DEF Foldable
<1>4. PICK g \in [SUBSET S -> V] : IsFold(S, ch, {}, step, g)
  BY <1>3, FoldExists
<1>5. ASSUME NEW s \in SUBSET S, s # {} PROVE step[ch[s]][g[s \ {ch[s]}]] = TakeOne(g[s \ {ch[s]}], ch[s])
  <2>1. ch[s] \in S /\ g[s \ {ch[s]}] \in V
    BY <1>5
  <2>2. QED
    BY <1>1, <2>1
<1>6. ApartFold(S, ch, g)
  BY <1>4, <1>5 DEF IsFold, ApartFold
<1>7. QED
  BY <1>6

\* What is taken does not overlap, and what is not taken starts inside something
\* that was, and that came before it.
TakenApart(S, ch, s, k) ==
    /\ k \subseteq s /\ Separate(k)
    /\ \A m \in s \ k : \E n \in k : /\ m.start < n.end
                                     /\ \E z \in SUBSET S : m = ch[z] /\ n \in z

\* By induction on the spans taken: apart takes spans that do not overlap, and
\* leaves one out only for one it has taken before.
LEMMA ApartFoldTakes ==
    ASSUME NEW S, IsFiniteSet(S), NEW ch, \A s \in SUBSET S : s # {} => ch[s] \in s,
           \A m \in S : SpanOK(m), NEW g, ApartFold(S, ch, g)
    PROVE  TakenApart(S, ch, S, g[S])
<1> DEFINE Q == {s \in SUBSET S : TakenApart(S, ch, s, g[s])}
<1>1. {} \in Q
  <2>1. g[{}] = {}
    BY DEF ApartFold
  <2>2. QED
    BY <2>1 DEF TakenApart, Separate
<1>2. ASSUME NEW s \in SUBSET S, s # {} PROVE \E x \in s : s \ {x} \in Q => s \in Q
  <2> DEFINE x == ch[s]
             k == g[s \ {x}]
  <2>1. x \in s
    BY <1>2
  <2>2. g[s] = TakeOne(k, x)
    BY <1>2 DEF ApartFold
  <2>3. ASSUME s \ {x} \in Q PROVE s \in Q
    <3>1. TakenApart(S, ch, s \ {x}, k)
      BY <2>3
    <3> HIDE DEF k
    <3>2. CASE \A n \in k : n.end <= x.start
      <4>1. g[s] = k \cup {x}
        BY <2>2, <3>2 DEF TakeOne
      <4>2. Separate(k \cup {x})
        <5>1. \A n \in k : Disjoint(x, n) /\ Disjoint(n, x)
          BY <3>2 DEF Disjoint
        <5>2. QED
          BY <3>1, <5>1 DEF Separate, TakenApart
      <4>3. ASSUME NEW m \in s \ (k \cup {x})
            PROVE  \E j \in k \cup {x} : m.start < j.end /\ \E z \in SUBSET S : m = ch[z] /\ j \in z
        <5>1. m \in (s \ {x}) \ k
          OBVIOUS
        <5>2. PICK j \in k : m.start < j.end /\ \E z \in SUBSET S : m = ch[z] /\ j \in z
          BY <3>1, <5>1, Zenon DEF TakenApart
        <5>3. QED
          BY <5>2
      <4>4. k \cup {x} \subseteq s
        BY <2>1, <3>1 DEF TakenApart
      <4>5. TakenApart(S, ch, s, k \cup {x})
        BY <4>2, <4>3, <4>4, Zenon DEF TakenApart
      <4>6. QED
        BY <4>1, <4>5
    <3>3. CASE ~ \A n \in k : n.end <= x.start
      <4>1. g[s] = k
        BY <2>2, <3>3 DEF TakeOne
      <4>2. PICK n \in k : ~(n.end <= x.start)
        BY <3>3
      <4>3. x.start < n.end /\ n \in s
        <5>1. n \in s /\ n \in S /\ x \in S
          BY <2>1, <3>1, <4>2 DEF TakenApart
        <5>2. QED
          BY <4>2, <5>1 DEF SpanOK
      <4>4. \A m \in s \ k : m = x \/ m \in (s \ {x}) \ k
        OBVIOUS
      <4>5. ASSUME NEW m \in s \ k
            PROVE  \E j \in k : m.start < j.end /\ \E z \in SUBSET S : m = ch[z] /\ j \in z
        <5>1. CASE m = x
          BY <4>2, <4>3, <5>1
        <5>2. CASE m # x
          BY <3>1, <5>2 DEF TakenApart
        <5>3. QED
          BY <5>1, <5>2
      <4>6. QED
        BY <3>1, <4>1, <4>5 DEF TakenApart
    <3>4. QED
      BY <3>2, <3>3
  <2>4. QED
    BY <2>1, <2>3
<1> HIDE DEF Q
<1>3. SUBSET S \subseteq Q
  BY <1>1, <1>2, SetInduction
<1>4. S \in Q
  BY <1>3
<1>5. QED
  BY <1>4 DEF Q

\* The order in which pii._redact_pii walks the spans.
LEMMA LastSpanIsLast ==
    ASSUME NEW S, IsFiniteSet(S), S # {}, \A m \in S : SpanOK(m)
    PROVE  /\ last_span(S) \in S
           /\ \A n \in S : \/ n.start < last_span(S).start
                           \/ n.start = last_span(S).start /\ n.end >= last_span(S).end
<1>0. \A m \in S : m.start \in Nat /\ m.end \in Nat /\ walk(m.type) \in Nat
  BY DEF SpanOK, walk
<1>1. PICK x \in S : \A n \in S : n.start <= x.start
  BY RightmostIsLast
<1> DEFINE T == {m \in S : m.start = x.start}
           ends == {m.end : m \in T}
<1>2. PICK b \in ends : \A c \in ends : b <= c
  BY <1>0, Least
<1> DEFINE U == {m \in T : m.end = b}
           e == [m \in S |-> walk(m.type)]
           I == Image(e, U)
<1>3. IsFiniteSet(U) /\ U # {}
  BY FS_Subset
<1>4. IsFiniteSet(I) /\ I \subseteq Int /\ I # {}
  <2>1. IsFiniteSet(I)
    BY <1>3, ImageFinite DEF Image
  <2>2. I \subseteq Int /\ I # {}
    BY <1>0, <1>3 DEF Image
  <2>3. QED
    BY <2>1, <2>2
<1>5. PICK p \in I : \A q \in I : p >= q
  <2> HIDE DEF I
  <2>1. QED
    BY <1>4, Greatest
<1>6. PICK m \in U : walk(m.type) = p
  BY <1>5 DEF Image
<1>7. ASSUME NEW n \in S
      PROVE  \/ n.start < m.start
             \/ n.start = m.start /\ n.end > m.end
             \/ n.start = m.start /\ n.end = m.end /\ walk(n.type) <= walk(m.type)
  <2>1. n.start <= m.start /\ m.start = x.start /\ m.end = b /\ m \in S
    BY <1>1, <1>6
  <2>2. CASE n.start # m.start
    BY <1>0, <2>1, <2>2
  <2>3. CASE n.start = m.start /\ n.end # b
    <3>1. n.end \in ends
      BY <2>1, <2>3
    <3>2. b <= n.end
      BY <1>2, <3>1
    <3>3. QED
      BY <1>0, <2>1, <2>3, <3>2
  <2>4. CASE n.start = m.start /\ n.end = b
    <3>1. n \in U /\ e[n] = walk(n.type)
      BY <2>1, <2>4
    <3>2. walk(n.type) \in I
      BY <3>1 DEF Image
    <3>3. p >= walk(n.type)
      BY <1>5, <3>2
    <3>4. QED
      BY <1>0, <1>4, <1>6, <2>1, <2>4, <3>3
  <2>5. QED
    BY <2>2, <2>3, <2>4
<1>8. m \in S
  BY <1>6
<1> HIDE DEF U, T, ends
<1>9. /\ last_span(S) \in S
      /\ \A n \in S : \/ n.start < last_span(S).start
                      \/ n.start = last_span(S).start /\ n.end > last_span(S).end
                      \/ /\ n.start = last_span(S).start /\ n.end = last_span(S).end
                         /\ walk(n.type) <= walk(last_span(S).type)
  BY <1>7, <1>8 DEF last_span
<1>10. QED
  BY <1>0, <1>9

\* pii._redact_pii keeps spans that do not overlap; one that is dropped starts
\* inside a kept one that is before it, or as wide at the same start.
LEMMA KeptApart ==
    ASSUME NEW S, IsFiniteSet(S), \A m \in S : SpanOK(m)
    PROVE  /\ kept(S) \subseteq S /\ Separate(kept(S))
           /\ \A m \in S \ kept(S) :
                 \E n \in kept(S) : /\ m.start < n.end
                                    /\ n.start < m.start \/ (n.start = m.start /\ n.end >= m.end)
<1> DEFINE ch == [s \in SUBSET S |-> last_span(s)]
           Folds(g) == g = [s \in SUBSET S |->
                              IF s = {} THEN {}
                              ELSE IF \A n \in g[s \ {last_span(s)}] : n.end <= last_span(s).start
                                   THEN g[s \ {last_span(s)}] \cup {last_span(s)}
                                   ELSE g[s \ {last_span(s)}]]
           iter == CHOOSE g : Folds(g)
<1>1. kept(S) = iter[S]
  BY DEF kept, apart, MapThenFoldSet
<1>2. ASSUME NEW s \in SUBSET S, s # {}
      PROVE  /\ ch[s] \in s
             /\ \A n \in s : \/ n.start < ch[s].start
                             \/ n.start = ch[s].start /\ n.end >= ch[s].end
  <2>1. IsFiniteSet(s) /\ \A m \in s : SpanOK(m)
    BY FS_Subset
  <2>2. ch[s] = last_span(s)
    OBVIOUS
  <2>3. QED
    BY <1>2, <2>1, <2>2, LastSpanIsLast
<1>3. ASSUME NEW g PROVE ApartFold(S, ch, g) <=> Folds(g)
  BY DEF ApartFold, TakeOne
<1> HIDE DEF ch, Folds
<1>4. \E g : Folds(g)
  BY <1>2, <1>3, ApartFoldExists
<1>5. Folds(iter)
  BY <1>4
<1> HIDE DEF iter
<1>6. TakenApart(S, ch, S, iter[S])
  BY <1>2, <1>3, <1>5, ApartFoldTakes
<1> DEFINE k == iter[S]
<1>7. k \subseteq S /\ Separate(k)
  BY <1>6 DEF TakenApart
<1>8. ASSUME NEW m \in S \ k
      PROVE  \E n \in k : m.start < n.end /\ (n.start < m.start \/ (n.start = m.start /\ n.end >= m.end))
  <2> HIDE DEF k
  <2>1. PICK n \in k : m.start < n.end /\ \E z \in SUBSET S : m = ch[z] /\ n \in z
    BY <1>6 DEF TakenApart, k
  <2>2. PICK z \in SUBSET S : m = ch[z] /\ n \in z
    BY <2>1
  <2>3. n.start < m.start \/ (n.start = m.start /\ n.end >= m.end)
    BY <1>2, <2>2
  <2>4. QED
    BY <2>1, <2>3
<1>9. QED
  BY <1>1, <1>7, <1>8

\* re.sub takes the places of a phrase from the left; one that is not taken
\* overlaps one that is.
LEMMA PlacesApart ==
    ASSUME NEW S, IsFiniteSet(S), \A m \in S : SpanOK(m)
    PROVE  /\ apart(rightmost, S) \subseteq S /\ Separate(apart(rightmost, S))
           /\ \A m \in S : m \in apart(rightmost, S) \/ \E n \in apart(rightmost, S) : ~Disjoint(m, n)
<1> DEFINE ch == [s \in SUBSET S |-> rightmost(s)]
           Folds(g) == g = [s \in SUBSET S |->
                              IF s = {} THEN {}
                              ELSE IF \A n \in g[s \ {rightmost(s)}] : n.end <= rightmost(s).start
                                   THEN g[s \ {rightmost(s)}] \cup {rightmost(s)}
                                   ELSE g[s \ {rightmost(s)}]]
           iter == CHOOSE g : Folds(g)
<1>1. apart(rightmost, S) = iter[S]
  BY DEF apart, MapThenFoldSet
<1>2. ASSUME NEW s \in SUBSET S, s # {}
      PROVE  ch[s] \in s /\ \A n \in s : n.start <= ch[s].start
  <2>1. IsFiniteSet(s) /\ \A m \in s : SpanOK(m)
    BY FS_Subset
  <2>2. ch[s] = rightmost(s)
    OBVIOUS
  <2>3. QED
    BY <1>2, <2>1, <2>2, RightmostIsLast
<1>3. ASSUME NEW g PROVE ApartFold(S, ch, g) <=> Folds(g)
  BY DEF ApartFold, TakeOne
<1> HIDE DEF ch, Folds
<1>4. \E g : Folds(g)
  BY <1>2, <1>3, ApartFoldExists
<1>5. Folds(iter)
  BY <1>4
<1> HIDE DEF iter
<1>6. TakenApart(S, ch, S, iter[S])
  BY <1>2, <1>3, <1>5, ApartFoldTakes
<1> DEFINE k == iter[S]
<1>7. k \subseteq S /\ Separate(k)
  BY <1>6 DEF TakenApart
<1>8. ASSUME NEW m \in S, m \notin k PROVE \E n \in k : ~Disjoint(m, n)
  <2> HIDE DEF k
  <2>1. PICK n \in k : m.start < n.end /\ \E z \in SUBSET S : m = ch[z] /\ n \in z
    BY <1>6, <1>8 DEF TakenApart, k
  <2>2. PICK z \in SUBSET S : m = ch[z] /\ n \in z
    BY <2>1
  <2>3. n.start <= m.start /\ n \in S
    BY <1>2, <2>2
  <2>4. ~Disjoint(m, n)
    BY <2>1, <2>3 DEF Disjoint, SpanOK
  <2>5. QED
    BY <2>4
<1>9. QED
  BY <1>1, <1>7, <1>8

\* A match of personal data: what partial redaction shows in front and at the
\* back are parts of it.
PiiOK(m) ==
    SpanOK(m) /\ m.head \in Nat /\ m.tail \in Nat /\ m.head + m.tail <= m.end - m.start

\* A piece of the text has the cells between its ends.
LEMMA PieceShows ==
    ASSUME NEW a \in Nat, NEW b \in Nat, b <= TextLen
    PROVE  /\ SubSeq(Original, a + 1, b) \in Seq(Nat)
           /\ Range(SubSeq(Original, a + 1, b)) \subseteq a + 1 .. b
<1> DEFINE q == SubSeq(Original, a + 1, b)
<1>0. TextLen \in Nat
  BY RulesAssumption
<1>1. \A i \in a + 1 .. b : Original[i] \in Nat /\ Original[i] = i
  BY <1>0 DEF Original
<1>2. /\ q \in Seq(Nat) /\ Len(q) = IF a + 1 <= b THEN b - (a + 1) + 1 ELSE 0
      /\ \A i \in 1 .. (b - (a + 1) + 1) : q[i] = Original[a + 1 + i - 1]
  BY <1>1, SubSeqProperties
<1> HIDE DEF q
<1>3. ASSUME NEW i \in DOMAIN q PROVE q[i] \in a + 1 .. b
  <2>1. i \in 1 .. Len(q)
    BY <1>2
  <2>2. i \in 1 .. (b - (a + 1) + 1) /\ a + 1 + i - 1 \in a + 1 .. b
    BY <1>2, <2>1
  <2>3. QED
    BY <1>1, <1>2, <2>2
<1>4. QED
  BY <1>2, <1>3 DEF Range, q

\* What is put in place of personal data shows what its partial redaction shows,
\* nothing else of it and nothing of the rest of the text.
LEMMA ReplacementShows ==
    ASSUME NEW c, NEW m, PiiOK(m)
    PROVE  LET r == _get_redaction_replacement(c, m)
           IN  /\ r \in Seq(Nat)
               /\ Range(r) \subseteq {0} \cup Cells(m)
               /\ Range(r) \subseteq {0} \cup Shown(c, m)
<1> DEFINE h == shown_head(c, m)
           z == shown_tail(c, m)
           head == SubSeq(Original, m.start + 1, m.start + h)
           tail == SubSeq(Original, m.end - z + 1, m.end)
           front == head \o <<0>>
           r == front \o tail
<1>0. _get_redaction_replacement(c, m) = r
  BY DEF _get_redaction_replacement, Token
<1>1. m.start \in Nat /\ m.end \in Nat /\ m.start < m.end /\ m.end <= TextLen /\ TextLen \in Nat
  BY RulesAssumption DEF PiiOK, SpanOK
<1>2. h \in Nat /\ z \in Nat /\ h <= m.end - m.start /\ z <= m.end - m.start
  <2>1. m.head \in Nat /\ m.tail \in Nat /\ m.head <= m.end - m.start /\ m.tail <= m.end - m.start
    BY <1>1 DEF PiiOK
  <2>2. h \in {m.head, 0} /\ z \in {m.tail, 0}
    BY DEF shown_head, shown_tail
  <2> HIDE DEF h, z
  <2>3. QED
    BY <1>1, <2>1, <2>2
<1>3. Shown(c, m) = (m.start + 1 .. m.start + h) \cup (m.end - z + 1 .. m.end)
  BY DEF Shown
<1> HIDE DEF h, z
<1>4. head \in Seq(Nat) /\ Range(head) \subseteq m.start + 1 .. m.start + h
  <2>1. m.start + h \in Nat /\ m.start + h <= TextLen
    BY <1>1, <1>2
  <2>2. QED
    BY <1>1, <2>1, PieceShows
<1>5. tail \in Seq(Nat) /\ Range(tail) \subseteq m.end - z + 1 .. m.end
  <2>1. m.end - z \in Nat
    BY <1>1, <1>2
  <2>2. QED
    BY <1>1, <2>1, PieceShows
<1>6. Shown(c, m) \subseteq Cells(m)
  BY <1>1, <1>2, <1>3 DEF Cells
<1> HIDE DEF head, tail
<1>7. front \in Seq(Nat) /\ Range(front) \subseteq Range(head) \cup {0}
  <2>1. <<0>> \in Seq(Nat) /\ Len(<<0>>) = 1 /\ <<0>>[1] = 0
    OBVIOUS
  <2> DEFINE u == <<0>>
  <2>2. u \in Seq(Nat) /\ Range(u) = {0}
    BY <2>1 DEF Range
  <2> HIDE DEF u
  <2>3. head \o u \in Seq(Nat)
    BY <1>4, <2>2, ConcatProperties
  <2>4. Range(head \o u) = Range(head) \cup Range(u)
    BY <1>4, <2>2, RangeConcatenation
  <2>5. QED
    BY <2>2, <2>3, <2>4 DEF u
<1> HIDE DEF front
<1>8. r \in Seq(Nat) /\ Range(r) = Range(front) \cup Range(tail)
  BY <1>5, <1>7, RangeConcatenation
<1>9. Range(r) \subseteq {0} \cup Shown(c, m)
  BY <1>3, <1>4, <1>5, <1>7, <1>8
<1>10. QED
  BY <1>0, <1>6, <1>8, <1>9

\* pii._redact_pii replaces the kept spans from the last to the first.
LEMMA PiiReplaced ==
    ASSUME NEW c, NEW K, IsFiniteSet(K), \A m \in K : PiiOK(m)
    PROVE  \E ch, rep, g :
              /\ Replaces(K, ch, rep, g)
              /\ Splices(Original, LAMBDA m : _get_redaction_replacement(c, m), leftmost, K) = g[K]
              /\ \A m \in K : rep[m] = _get_redaction_replacement(c, m)
<1> DEFINE ch == [s \in SUBSET K |-> leftmost(s)]
           rep == [m \in K |-> _get_redaction_replacement(c, m)]
           Folds(g) == g = [s \in SUBSET K |->
                              IF s = {} THEN Original
                              ELSE Splice(g[s \ {leftmost(s)}], leftmost(s).start, leftmost(s).end,
                                          _get_redaction_replacement(c, leftmost(s)))]
           iter == CHOOSE g : Folds(g)
<1>0. \A m \in K : SpanOK(m)
  BY DEF PiiOK
<1>1. Splices(Original, LAMBDA m : _get_redaction_replacement(c, m), leftmost, K) = iter[K]
  BY DEF Splices, MapThenFoldSet
<1>2. \A s \in SUBSET K : s # {} => ch[s] = leftmost(s) /\ ch[s] \in s /\ \A n \in s : ch[s].start <= n.start
  <2>1. SUFFICES ASSUME NEW s \in SUBSET K, s # {}
                 PROVE  leftmost(s) \in s /\ \A n \in s : leftmost(s).start <= n.start
    OBVIOUS
  <2>2. \A m \in s : SpanOK(m)
    BY <1>0
  <2>3. QED
    BY <2>1, <2>2, LeftmostIsFirst
<1>3. \A m \in K : /\ rep[m] = _get_redaction_replacement(c, m)
                   /\ rep[m] \in Seq(Nat) /\ Range(rep[m]) \subseteq {0} \cup Cells(m)
  BY ReplacementShows
<1> HIDE DEF ch, rep
<1>4. Replaceable(K, ch, rep)
  BY <1>0, <1>2, <1>3 DEF Replaceable
<1>5. ASSUME NEW g PROVE SpliceFold(K, ch, rep, g) <=> Folds(g)
  <2>1. ASSUME NEW s \in SUBSET K, s # {}
        PROVE  Splice(g[s \ {ch[s]}], ch[s].start, ch[s].end, rep[ch[s]])
                 = Splice(g[s \ {leftmost(s)}], leftmost(s).start, leftmost(s).end,
                          _get_redaction_replacement(c, leftmost(s)))
    BY <1>2, <1>3, <2>1
  <2>2. QED
    BY <2>1 DEF SpliceFold
<1> HIDE DEF Folds
<1>6. \E g : Folds(g)
  BY <1>0, <1>4, <1>5, SpliceFoldExists
<1>7. Folds(iter)
  BY <1>6
<1> HIDE DEF iter
<1>8. Replaces(K, ch, rep, iter)
  BY <1>0, <1>4, <1>5, <1>7, SpliceFoldReplaces
<1>9. QED
  BY <1>1, <1>3, <1>8

\* The phrases of sensitive_business_data.detect, replaced by one token each; the
\* places do not overlap, so their order is of no consequence.
LEMMA PhrasesReplaced ==
    ASSUME NEW K, IsFiniteSet(K), \A m \in K : SpanOK(m)
    PROVE  \E ch, rep, g :
              /\ Replaces(K, ch, rep, g)
              /\ Splices(Original, LAMBDA m : <<Token>>, leftmost, K) = g[K]
              /\ \A m \in K : rep[m] = <<0>>
<1> DEFINE ch == [s \in SUBSET K |-> leftmost(s)]
           rep == [m \in K |-> <<0>>]
           Folds(g) == g = [s \in SUBSET K |->
                              IF s = {} THEN Original
                              ELSE Splice(g[s \ {leftmost(s)}], leftmost(s).start, leftmost(s).end, <<0>>)]
           iter == CHOOSE g : Folds(g)
<1>1. Splices(Original, LAMBDA m : <<Token>>, leftmost, K) = iter[K]
  BY DEF Splices, MapThenFoldSet, Token
<1>2. \A s \in SUBSET K : s # {} => ch[s] = leftmost(s) /\ ch[s] \in s /\ \A n \in s : ch[s].start <= n.start
  <2>1. SUFFICES ASSUME NEW s \in SUBSET K, s # {}
                 PROVE  leftmost(s) \in s /\ \A n \in s : leftmost(s).start <= n.start
    OBVIOUS
  <2>2. \A m \in s : SpanOK(m)
    OBVIOUS
  <2>3. QED
    BY <2>1, <2>2, LeftmostIsFirst
<1>3. \A m \in K : rep[m] = <<0>> /\ rep[m] \in Seq(Nat) /\ Range(rep[m]) \subseteq {0} \cup Cells(m)
  BY DEF Range
<1> HIDE DEF ch, rep
<1>4. Replaceable(K, ch, rep)
  BY <1>2, <1>3 DEF Replaceable
<1>5. ASSUME NEW g PROVE SpliceFold(K, ch, rep, g) <=> Folds(g)
  <2>1. ASSUME NEW s \in SUBSET K, s # {}
        PROVE  Splice(g[s \ {ch[s]}], ch[s].start, ch[s].end, rep[ch[s]])
                 = Splice(g[s \ {leftmost(s)}], leftmost(s).start, leftmost(s).end, <<0>>)
    BY <1>2, <1>3, <2>1
  <2>2. QED
    BY <2>1 DEF SpliceFold
<1> HIDE DEF Folds
<1>6. \E g : Folds(g)
  BY <1>4, <1>5, SpliceFoldExists
<1>7. Folds(iter)
  BY <1>6
<1> HIDE DEF iter
<1>8. Replaces(K, ch, rep, iter)
  BY <1>4, <1>5, <1>7, SpliceFoldReplaces
<1>9. QED
  BY <1>1, <1>3, <1>8

\* One phrase after the other: what is redacted does not overlap, and every place
\* of a phrase without blanks that was searched for is redacted or overlaps one
\* that was.
PhraseFold(P, D, g) ==
    g = [s \in SUBSET D |->
            IF s = {} THEN {}
            ELSE g[s \ {Max(s)}] \cup apart(rightmost, untouched(g[s \ {Max(s)}], P[Max(s)]))]

Searched(P, s, k) ==
    /\ Separate(k)
    /\ \A m \in k : \E i \in s : m \in P[i]
    /\ \A i \in s : \A m \in P[i] : m.blanks = {} => m \in k \/ \E n \in k : ~Disjoint(m, n)

\* Two spans overlap or not, whichever is named first.
LEMMA DisjointSym ==
    ASSUME NEW m, NEW n PROVE Disjoint(m, n) <=> Disjoint(n, m)
  BY DEF Disjoint

\* sensitive_business_data.detect: one phrase more is searched for, in the text that
\* the earlier replacements have left.
LEMMA SearchOne ==
    ASSUME NEW P, NEW s, NEW k, NEW i, NEW all, IsFiniteSet(all), \A m \in all : SpanOK(m),
           P[i] \subseteq all, Searched(P, s, k)
    PROVE  /\ apart(rightmost, untouched(k, P[i])) \subseteq all
           /\ Searched(P, s \cup {i}, k \cup apart(rightmost, untouched(k, P[i])))
<1> DEFINE U == untouched(k, P[i])
           T == apart(rightmost, U)
<1>1. U \subseteq P[i] /\ \A m \in U : \A n \in k : Disjoint(m, n)
  BY DEF untouched, Disjoint
<1>2. \A m \in P[i] : m.blanks = {} => m \in U \/ \E n \in k : ~Disjoint(m, n)
  BY DEF untouched, Disjoint
<1> HIDE DEF U
<1>3. IsFiniteSet(U) /\ U \subseteq all
  BY <1>1, FS_Subset
<1>4. T \subseteq U /\ Separate(T) /\ \A m \in U : m \in T \/ \E n \in T : ~Disjoint(m, n)
  BY <1>3, PlacesApart
<1> HIDE DEF T
<1>5. Separate(k \cup T)
  <2>1. SUFFICES ASSUME NEW m \in k \cup T, NEW n \in k \cup T PROVE m = n \/ Disjoint(m, n)
    BY DEF Separate
  <2>2. CASE m \in k /\ n \in k
    BY <2>2 DEF Searched, Separate
  <2>3. CASE m \in T /\ n \in T
    BY <1>4, <2>3 DEF Separate
  <2>4. CASE m \in T /\ n \in k
    BY <1>1, <1>4, <2>4
  <2>5. CASE m \in k /\ n \in T
    <3>1. Disjoint(n, m)
      BY <1>1, <1>4, <2>5
    <3>2. QED
      BY <3>1, DisjointSym
  <2>6. QED
    BY <2>2, <2>3, <2>4, <2>5
<1>6. \A m \in k \cup T : \E j \in s \cup {i} : m \in P[j]
  BY <1>1, <1>4 DEF Searched
<1>7. ASSUME NEW j \in s \cup {i}, NEW m \in P[j], m.blanks = {}
      PROVE  m \in k \cup T \/ \E n \in k \cup T : ~Disjoint(m, n)
  <2>1. CASE j \in s
    BY <1>7, <2>1 DEF Searched
  <2>2. CASE j = i
    BY <1>2, <1>4, <1>7, <2>2
  <2>3. QED
    BY <2>1, <2>2
<1>8. QED
  BY <1>3, <1>4, <1>5, <1>6, <1>7 DEF Searched, T, U

\* The places sensitive_business_data.detect may redact: where the text has the
\* blanks of a phrase.
Places(found) == {replaced_span(m) : m \in {n \in found : n.from < n.to}}

\* They are spans of the text, and finitely many.
LEMMA PlacesOK ==
    ASSUME NEW found, IsFiniteSet(found), \A m \in found : SpanOK(m) /\ PlaceOK(m)
    PROVE  IsFiniteSet(Places(found)) /\ \A k \in Places(found) : SpanOK(k)
<1> DEFINE F == {n \in found : n.from < n.to}
           e == [m \in F |-> replaced_span(m)]
<1>1. IsFiniteSet(F)
  BY FS_Subset
<1>2. Places(found) = Image(e, F)
  BY DEF Places, Image
<1>3. ASSUME NEW m \in F PROVE SpanOK(replaced_span(m))
  <2>1. SpanOK(m) /\ PlaceOK(m) /\ m.from < m.to
    BY <1>3
  <2>2. replaced_span(m).start = m.from /\ replaced_span(m).end = m.to
    BY DEF replaced_span
  <2>3. /\ m.from \in Nat /\ m.to \in Nat /\ m.to <= TextLen
    BY <2>1 DEF PlaceOK, SpanOK
  <2>4. QED
    BY <2>1, <2>2, <2>3 DEF SpanOK
<1>4. \A k \in Places(found) : SpanOK(k)
  BY <1>3 DEF Places
<1> HIDE DEF F, e
<1>5. IsFiniteSet(Image(e, F))
  BY <1>1, ImageFinite DEF Image
<1>6. QED
  BY <1>2, <1>4, <1>5

\* sensitive_business_data.detect, whatever the order of the set of phrases: the
\* places redacted do not overlap, and a place without blanks that is not redacted
\* overlaps one that is.
LEMMA PhrasesSearched ==
    ASSUME NEW c, NEW found, IsFiniteSet(found), \A m \in found : SpanOK(m) /\ PlaceOK(m),
           c.order \in Seq(Range(c.order)), \A m \in found : m.phrase \in Range(c.order)
    PROVE  /\ IsFiniteSet(redacted_phrases(c, found))
           /\ Separate(redacted_phrases(c, found))
           /\ redacted_phrases(c, found) \subseteq Places(found)
           /\ \A m \in Places(found) :
                 m.blanks = {} => \/ m \in redacted_phrases(c, found)
                                  \/ \E n \in redacted_phrases(c, found) : ~Disjoint(m, n)
<1> DEFINE D == DOMAIN c.order
           all == Places(found)
           P == [i \in D |-> phrase_spans(found, c.order[i])]
           Folds(g) == g = [s \in SUBSET D |->
                              IF s = {} THEN {}
                              ELSE g[s \ {Max(s)}]
                                    \cup apart(rightmost, untouched(g[s \ {Max(s)}],
                                                    phrase_spans(found, c.order[Max(s)])))]
           iter == CHOOSE g : Folds(g)
<1>1. redacted_phrases(c, found) = iter[D]
  BY DEF redacted_phrases, FoldLeft, MapThenFoldSet
<1>2. D = 1 .. Len(c.order) /\ Len(c.order) \in Nat
  BY LenProperties
<1>3. IsFiniteSet(D) /\ D \subseteq Int
  BY <1>2, FS_Interval
<1>4. ASSUME NEW s \in SUBSET D, s # {} PROVE Max(s) \in s
  <2>1. IsFiniteSet(s) /\ s \subseteq Int
    BY <1>3, FS_Subset
  <2>2. \E x \in s : \A y \in s : x >= y
    BY <1>4, <2>1, Greatest
  <2>3. QED
    BY <2>2 DEF Max
<1>5. IsFiniteSet(all) /\ \A m \in all : SpanOK(m)
  BY PlacesOK
<1>6. /\ \A i \in D : P[i] = phrase_spans(found, c.order[i]) /\ P[i] \subseteq all
      /\ \A m \in all : \E i \in D : m \in P[i]
  <2>1. ASSUME NEW i \in D
        PROVE  P[i] = phrase_spans(found, c.order[i]) /\ P[i] \subseteq all
    BY DEF phrase_spans, Places
  <2>2. ASSUME NEW k \in all PROVE \E i \in D : k \in P[i]
    <3>1. PICK m \in found : m.from < m.to /\ k = replaced_span(m)
      BY DEF Places
    <3>2. PICK i \in D : c.order[i] = m.phrase
      BY DEF Range
    <3>3. QED
      BY <3>1, <3>2 DEF phrase_spans
  <2>3. QED
    BY <2>1, <2>2
<1>7. ASSUME NEW g PROVE PhraseFold(P, D, g) <=> Folds(g)
  <2> HIDE DEF P, D
  <2>1. ASSUME NEW s \in SUBSET D, s # {} PROVE P[Max(s)] = phrase_spans(found, c.order[Max(s)])
    BY <1>4, <1>6, <2>1
  <2>2. QED
    BY <2>1 DEF PhraseFold
<1> HIDE DEF Folds, P, D, all
<1>8. \E g : PhraseFold(P, D, g)
  <2> DEFINE V == SUBSET all
             ch == [s \in SUBSET D |-> Max(s)]
             step == [i \in D |-> [k \in V |-> k \cup apart(rightmost, untouched(k, P[i]))]]
  <2>1. \A s \in SUBSET D : s # {} => ch[s] = Max(s) /\ ch[s] \in s
    BY <1>4
  <2>2. ASSUME NEW i \in D, NEW k \in V
        PROVE  step[i][k] = k \cup apart(rightmost, untouched(k, P[i])) /\ step[i][k] \in V
    <3>1. untouched(k, P[i]) \subseteq all
      BY <1>6 DEF untouched
    <3>2. IsFiniteSet(untouched(k, P[i])) /\ \A m \in untouched(k, P[i]) : SpanOK(m)
      BY <1>5, <3>1, FS_Subset
    <3>3. apart(rightmost, untouched(k, P[i])) \subseteq untouched(k, P[i])
      BY <3>2, PlacesApart
    <3>4. QED
      BY <3>1, <3>3
  <2>3. {} \in V
    OBVIOUS
  <2> HIDE DEF V, ch, step
  <2>4. Foldable(D, ch, V, {}, step)
    BY <1>3, <2>1, <2>2, <2>3 DEF Foldable
  <2>5. PICK g \in [SUBSET D -> V] : IsFold(D, ch, {}, step, g)
    BY <2>4, FoldExists
  <2>6. ASSUME NEW s \in SUBSET D, s # {}
        PROVE  step[ch[s]][g[s \ {ch[s]}]]
                 = g[s \ {Max(s)}] \cup apart(rightmost, untouched(g[s \ {Max(s)}], P[Max(s)]))
    <3>1. ch[s] = Max(s) /\ ch[s] \in D /\ g[s \ {ch[s]}] \in V
      BY <2>1, <2>6
    <3>2. QED
      BY <2>2, <3>1
  <2>7. PhraseFold(P, D, g)
    BY <2>5, <2>6 DEF IsFold, PhraseFold
  <2>8. QED
    BY <2>7
<1>9. PhraseFold(P, D, iter)
  <2>1. \E g : Folds(g)
    BY <1>7, <1>8
  <2>2. Folds(iter)
    BY <2>1
  <2> HIDE DEF iter
  <2>3. QED
    BY <1>7, <2>2
<1> HIDE DEF iter
<1> DEFINE Q == {s \in SUBSET D : iter[s] \subseteq all /\ Searched(P, s, iter[s])}
<1>10. {} \in Q
  <2>1. iter[{}] = {}
    BY <1>9 DEF PhraseFold
  <2>2. QED
    BY <2>1 DEF Searched, Separate
<1>11. ASSUME NEW s \in SUBSET D, s # {} PROVE \E x \in s : s \ {x} \in Q => s \in Q
  <2> DEFINE i == Max(s)
             z == s \ {i}
  <2>1. i \in s /\ i \in D /\ z \cup {i} = s /\ P[i] \subseteq all
    BY <1>4, <1>6, <1>11
  <2>2. iter[s] = iter[z] \cup apart(rightmost, untouched(iter[z], P[i]))
    BY <1>9, <1>11 DEF PhraseFold
  <2> HIDE DEF i, z
  <2>3. ASSUME z \in Q PROVE s \in Q
    <3>1. iter[z] \subseteq all /\ Searched(P, z, iter[z])
      BY <2>3
    <3>2. /\ apart(rightmost, untouched(iter[z], P[i])) \subseteq all
          /\ Searched(P, z \cup {i}, iter[z] \cup apart(rightmost, untouched(iter[z], P[i])))
      BY <1>5, <2>1, <3>1, SearchOne
    <3>3. QED
      BY <2>1, <2>2, <3>1, <3>2
  <2>4. QED
    BY <2>1, <2>3 DEF z
<1> HIDE DEF Q
<1>12. SUBSET D \subseteq Q
  BY <1>3, <1>10, <1>11, SetInduction
<1>13. iter[D] \subseteq all /\ Searched(P, D, iter[D])
  BY <1>12 DEF Q
<1> DEFINE R == iter[D]
<1>14. IsFiniteSet(R) /\ Separate(R)
  BY <1>5, <1>13, FS_Subset DEF Searched
<1>15. R \subseteq all
  BY <1>13
<1>16. ASSUME NEW m \in all, m.blanks = {} PROVE m \in R \/ \E n \in R : ~Disjoint(m, n)
  BY <1>6, <1>13, <1>16 DEF Searched
<1> HIDE DEF R
<1>17. QED
  BY <1>1, <1>14, <1>15, <1>16 DEF R, all

\* Of a span that no other touches nothing is left.
Clean(marks, left) ==
    \A m \in marks : Isolated(m, marks) => Cells(m) \cap Range(left) \subseteq {}

\* Of personal data that no other straddles there is left what a partial
\* redaction shows of a span around it.
PiiCleaned(c, marks, left) ==
    \A m \in marks :
        (\A n \in marks \ {m} : Disjoint(m, n) \/ Within(m, n) \/ Within(n, m))
            => Cells(m) \cap Range(left) \subseteq UNION {Shown(c, n) : n \in {k \in marks : Within(m, k)}}

\* Of a phrase that is replaced as it was found, and that no other touches,
\* nothing is left.
PhrasesCleaned(marks, left) ==
    \A m \in marks :
        Isolated(m, marks) /\ m.blanks = {} => Cells(m) \cap Range(left) \subseteq {}

\* secrets._redact_text: an isolated secret is gone, and when none overlap the rest
\* of the text is there.
LEMMA SecretsClean ==
    ASSUME NEW S, IsFiniteSet(S), \A m \in S : SpanOK(m) /\ position(m) \in Nat
    PROVE  /\ Clean(S, secrets_redact_text(S))
           /\ secrets_redact_text(S) \in Seq(Nat)
           /\ Separate(S) => Shows(S, secrets_redact_text(S))
<1>1. PICK ch, rep, g : /\ Replaces(S, ch, rep, g)
                        /\ secrets_redact_text(S) = g[S]
                        /\ \A m \in S : rep[m] = <<0>>
  BY SecretsReplaced
<1>2. ASSUME NEW m \in S, Isolated(m, S) PROVE Cells(m) \cap Range(g[S]) \subseteq {}
  <2>1. Cells(m) \cap Range(g[S]) \subseteq Range(rep[m])
    BY <1>1, <1>2, IsolatedGone
  <2>2. Range(rep[m]) = {0}
    BY <1>1 DEF Range
  <2>3. 0 \notin Cells(m)
    BY DEF Cells, SpanOK
  <2>4. QED
    BY <2>1, <2>2, <2>3
<1>3. Clean(S, g[S])
  BY <1>2 DEF Clean
<1>4. Separate(S) => Shows(S, g[S])
  BY <1>1, OutsideShown
<1>5. g[S] \in Seq(Nat)
  BY <1>1, ReplacedUntouched
<1>6. QED
  BY <1>1, <1>3, <1>4, <1>5

\* A span within another has no cell outside it.
LEMMA WithinCells ==
    ASSUME NEW m, NEW n, SpanOK(m), SpanOK(n), Within(m, n)
    PROVE  Cells(m) \subseteq Cells(n)
  BY DEF SpanOK, Within, Cells

\* A text that shows what is outside few spans shows what is outside many.
LEMMA MoreOutside ==
    ASSUME NEW s, NEW z, NEW w, Shows(s, w), Outside(z) \subseteq Outside(s)
    PROVE  Shows(z, w)
  BY DEF Shows

\* The text in which the spans of K have been replaced.
PiiText(c, K) == Splices(Original, LAMBDA m : _get_redaction_replacement(c, m), leftmost, K)

\* pii._redact_pii: what nests in other personal data is gone with it, and the rest
\* of the text is there, although spans straddle.
LEMMA PiiClean ==
    ASSUME NEW c, NEW S, IsFiniteSet(S), \A m \in S : PiiOK(m), NEW left, left = PiiText(c, kept(S))
    PROVE  PiiCleaned(c, S, left) /\ left \in Seq(Nat) /\ Shows(S, left)
<1> DEFINE K == kept(S)
<1>0. \A m \in S : SpanOK(m)
  BY DEF PiiOK
<1>1. /\ K \subseteq S /\ Separate(K)
      /\ \A m \in S \ K : \E n \in K : /\ m.start < n.end
                                       /\ n.start < m.start \/ (n.start = m.start /\ n.end >= m.end)
  BY <1>0, KeptApart
<1> HIDE DEF K
<1>2. IsFiniteSet(K) /\ \A m \in K : SpanOK(m) /\ PiiOK(m)
  BY <1>0, <1>1, FS_Subset
<1>3. PICK ch, rep, g :
          /\ Replaces(K, ch, rep, g)
          /\ Splices(Original, LAMBDA m : _get_redaction_replacement(c, m), leftmost, K) = g[K]
          /\ \A m \in K : rep[m] = _get_redaction_replacement(c, m)
  BY <1>2, PiiReplaced
<1>4. left = g[K]
  BY <1>3 DEF K, PiiText
<1>5. ASSUME NEW m \in K PROVE Cells(m) \cap Range(left) \subseteq Shown(c, m)
  <2>1. Isolated(m, K)
    BY <1>1 DEF Isolated, Separate
  <2>2. Cells(m) \cap Range(left) \subseteq Range(rep[m])
    BY <1>2, <1>3, <1>4, <2>1, IsolatedGone
  <2>3. Range(rep[m]) \subseteq {0} \cup Shown(c, m)
    BY <1>2, <1>3, ReplacementShows
  <2>4. 0 \notin Cells(m)
    BY <1>2 DEF Cells, SpanOK
  <2>5. QED
    BY <2>2, <2>3, <2>4
<1>6. ASSUME NEW m \in S,
             \A n \in S \ {m} : Disjoint(m, n) \/ Within(m, n) \/ Within(n, m)
      PROVE  \E n \in S : Within(m, n) /\ Cells(m) \cap Range(left) \subseteq Shown(c, n)
  <2>0. SpanOK(m)
    BY <1>0
  <2>1. CASE m \in K
    <3>1. Within(m, m)
      BY <2>0 DEF Within, SpanOK
    <3>2. QED
      BY <1>5, <2>1, <3>1
  <2>2. CASE m \notin K
    <3>1. PICK n \in K : /\ m.start < n.end
                         /\ n.start < m.start \/ (n.start = m.start /\ n.end >= m.end)
      BY <1>1, <2>2
    <3>2. n \in S \ {m} /\ SpanOK(n)
      BY <1>0, <1>1, <2>2
    <3>3. Within(m, n)
      BY <1>6, <2>0, <3>1, <3>2 DEF Within, Disjoint, SpanOK
    <3>4. Cells(m) \subseteq Cells(n)
      BY <2>0, <3>2, <3>3, WithinCells
    <3>5. Cells(n) \cap Range(left) \subseteq Shown(c, n)
      BY <1>5
    <3>6. QED
      BY <3>2, <3>3, <3>4, <3>5
  <2>3. QED
    BY <2>1, <2>2
<1>7. PiiCleaned(c, S, left)
  BY <1>6 DEF PiiCleaned
<1>8. Shows(K, left)
  BY <1>1, <1>2, <1>3, <1>4, OutsideShown
<1>9. Outside(S) \subseteq Outside(K)
  BY <1>1 DEF Outside
<1>10. left \in Seq(Nat)
  BY <1>3, <1>4, ReplacedUntouched
<1>11. Shows(S, left)
  BY <1>8, <1>9, MoreOutside
<1>12. QED
  BY <1>7, <1>10, <1>11

\* sensitive_business_data.detect: a place that no other touches is gone, and the
\* rest of the text is there.
LEMMA PhrasesClean ==
    ASSUME NEW c, NEW found, IsFiniteSet(found), \A m \in found : SpanOK(m) /\ PlaceOK(m),
           c.order \in Seq(Range(c.order)), \A m \in found : m.phrase \in Range(c.order),
           c.text = Original, c.token = Token
    PROVE  LET left == redact_phrases(c, found)
               S == Places(found)
           IN  PhrasesCleaned(S, left) /\ left \in Seq(Nat) /\ Shows(S, left)
<1> DEFINE K == redacted_phrases(c, found)
           S == Places(found)
<1>1. /\ IsFiniteSet(K) /\ Separate(K) /\ K \subseteq S
      /\ \A m \in S : m.blanks = {} => m \in K \/ \E n \in K : ~Disjoint(m, n)
  BY PhrasesSearched, Zenon
<1>2. redact_phrases(c, found) = Splices(Original, LAMBDA m : <<Token>>, leftmost, K)
  BY DEF redact_phrases, Splices, MapThenFoldSet
<1>3. \A m \in S : SpanOK(m)
  BY PlacesOK
<1> HIDE DEF K, S
<1>4. PICK ch, rep, g :
          /\ Replaces(K, ch, rep, g)
          /\ Splices(Original, LAMBDA m : <<Token>>, leftmost, K) = g[K]
          /\ \A m \in K : rep[m] = <<0>>
  BY <1>1, <1>3, PhrasesReplaced
<1>5. ASSUME NEW m \in S, Isolated(m, S), m.blanks = {}
      PROVE  Cells(m) \cap Range(g[K]) \subseteq {}
  <2>1. \A k \in K : Disjoint(m, k) \/ k = m
    BY <1>1, <1>5 DEF Isolated
  <2>2. m \in K
    BY <1>1, <1>5, <2>1
  <2>3. Isolated(m, K)
    BY <2>1 DEF Isolated
  <2>4. \A k \in K : SpanOK(k)
    BY <1>1, <1>3
  <2>5. Cells(m) \cap Range(g[K]) \subseteq Range(rep[m])
    BY <1>1, <1>4, <2>2, <2>3, <2>4, IsolatedGone
  <2>6. Range(rep[m]) = {0}
    <3>1. rep[m] = <<0>>
      BY <1>4, <2>2
    <3>2. Range(<<0>>) = {0}
      BY DEF Range
    <3>3. QED
      BY <3>1, <3>2
  <2>7. 0 \notin Cells(m)
    BY <1>3 DEF Cells, SpanOK
  <2>8. QED
    BY <2>5, <2>6, <2>7
<1>6. PhrasesCleaned(S, g[K])
  BY <1>5 DEF PhrasesCleaned
<1>7. Shows(K, g[K])
  <2>1. \A k \in K : SpanOK(k)
    BY <1>1, <1>3
  <2>2. QED
    BY <1>1, <1>4, <2>1, OutsideShown
<1>8. Outside(S) \subseteq Outside(K)
  BY <1>1 DEF Outside
<1>9. g[K] \in Seq(Nat)
  BY <1>1, <1>3, <1>4, ReplacedUntouched
<1>10. Shows(S, g[K])
  BY <1>7, <1>8, MoreOutside
<1>11. QED
  BY <1>2, <1>4, <1>6, <1>9, <1>10 DEF S

\* The same of what secrets.detect returns.
LEMMA SecretsRedacted ==
    ASSUME NEW c, NEW t, Sound("secrets", c, t), secrets_detect(c, t).decision = "REDACT"
    PROVE  LET left == secrets_detect(c, t).sanitized_text
               S == secret_spans(c, t)
           IN  left \in Seq(Nat) /\ Clean(S, left) /\ (Separate(S) => Shows(S, left))
<1> DEFINE S == secret_spans(c, t)
           found == IF c.enabled THEN S ELSE {}
           hits == HitsOf(found, "high")
<1>1. S \subseteq t
  BY DEF secret_spans, _detect_base64_secrets
<1>2. IsFiniteSet(S) /\ \A m \in S : SpanOK(m) /\ position(m) \in Nat
  BY <1>1, FS_Subset DEF Sound, FactOK
<1>3. secrets_detect(c, t) = IF found = {} THEN Allowed
                             ELSE IF c.action = "REDACT"
                                  THEN Rewritten("REDACT", 100, hits, secrets_redact_text(found))
                                  ELSE DetectorResult("BLOCK", 100, hits)
  BY DEF secrets_detect
<1>4. found # {} /\ c.action = "REDACT"
  <2> HIDE DEF found, hits
  <2>1. QED
    BY <1>3, ResultFields
<1>5. found = S
  BY <1>4
<1> HIDE DEF found, hits, S
<1>6. secrets_detect(c, t).sanitized_text = secrets_redact_text(S)
  BY <1>3, <1>4, <1>5, ResultFields
<1>7. QED
  BY <1>2, <1>6, SecretsClean DEF S

\* The same of what pii.detect returns.
LEMMA PiiRedacted ==
    ASSUME NEW c, NEW t, Sound("pii", c, t), pii_detect(c, t).decision = "REDACT"
    PROVE  LET left == pii_detect(c, t).sanitized_text
               S == {m \in t : /\ _is_type_enabled(c, m) /\ is_pii(c, t, m)
                               /\ _get_type_action(c, m) = "REDACT"}
           IN  left \in Seq(Nat) /\ Shows(S, left) /\ PiiCleaned(c, S, left)
<1> DEFINE found == IF c.enabled THEN {m \in t : _is_type_enabled(c, m) /\ is_pii(c, t, m)} ELSE {}
           hits == {Hit(m, pii_types[m.type]) : m \in found}
           actions == {_get_type_action(c, m) : m \in found}
           S == {m \in t : /\ _is_type_enabled(c, m) /\ is_pii(c, t, m)
                           /\ _get_type_action(c, m) = "REDACT"}
           B == {m \in found : _get_type_action(c, m) = "REDACT"}
           risk == calculate_risk_score(hits)
<1>1. pii_detect(c, t) =
        IF "BLOCK" \in actions THEN DetectorResult("BLOCK", risk, hits)
        ELSE IF "REDACT" \in actions THEN Rewritten("REDACT", risk, hits, _redact_pii(c, found))
        ELSE DetectorResult("ALLOW", risk, hits)
  <2>1. pii_detect(c, t) =
          CASE "BLOCK" \in actions -> DetectorResult("BLOCK", risk, hits)
            [] "BLOCK" \notin actions /\ "REDACT" \in actions ->
                  Rewritten("REDACT", risk, hits, _redact_pii(c, found))
            [] OTHER -> DetectorResult("ALLOW", risk, hits)
    BY DEF pii_detect
  <2> HIDE DEF found, hits, actions, risk
  <2>2. QED
    BY <2>1
<1>2. "BLOCK" \notin actions /\ "REDACT" \in actions
  <2> HIDE DEF found, hits, actions, risk
  <2>1. QED
    BY <1>1, ResultFields
<1>3. c.enabled
  BY <1>2
<1>4. B = S
  BY <1>3
<1>5. _redact_pii(c, found) = PiiText(c, kept(B))
  BY DEF _redact_pii, PiiText
<1>6. pii_detect(c, t).sanitized_text = _redact_pii(c, found)
  <2> HIDE DEF found, hits, actions, risk
  <2>1. QED
    BY <1>1, <1>2, ResultFields
<1>7. IsFiniteSet(S) /\ \A m \in S : PiiOK(m)
  <2>1. IsFiniteSet(t) /\ \A m \in t : FactOK("pii", m)
    BY DEF Sound
  <2>2. \A m \in t : PiiOK(m)
    BY <2>1 DEF FactOK, PiiOK
  <2>3. S \subseteq t
    OBVIOUS
  <2> HIDE DEF S
  <2>4. QED
    BY <2>1, <2>2, <2>3, FS_Subset
<1> DEFINE left == pii_detect(c, t).sanitized_text
<1> HIDE DEF found, hits, actions, risk, S, B
<1>8. left = PiiText(c, kept(S))
  BY <1>4, <1>5, <1>6
<1> HIDE DEF left
<1>9. PiiCleaned(c, S, left) /\ left \in Seq(Nat) /\ Shows(S, left)
  BY <1>7, <1>8, PiiClean
<1>10. QED
  BY <1>9, Zenon DEF S, left

\* The same of what sensitive_business_data.detect returns.
LEMMA BusinessRedacted ==
    ASSUME NEW c, NEW t, Sound("sensitive_business_data", c, t),
           sensitive_business_data_detect(c, t).decision = "REDACT"
    PROVE  LET left == sensitive_business_data_detect(c, t).sanitized_text
               S == Places(active_phrases(c, t))
           IN  left \in Seq(Nat) /\ PhrasesCleaned(S, left) /\ Shows(S, left)
<1> DEFINE S == active_phrases(c, t)
           hits == HitsOf({m.category : m \in S}, c.severity)
           risk == calculate_risk_score(hits)
           d == IF c.action \in {"BLOCK", "REDACT"} /\ risk >= c.block_threshold
                THEN c.action ELSE "WARN"
           off == ~c.enabled \/ "approved" \in Contexts(t) \/ hits = {}
           new == IF d = "REDACT" THEN redact_phrases(c, S) ELSE <<>>
<1>1. sensitive_business_data_detect(c, t) = IF off THEN Allowed ELSE Rewritten(d, risk, hits, new)
  BY DEF sensitive_business_data_detect
<1>2. S \subseteq t /\ \A m \in S : m.kind = "match"
  BY DEF active_phrases, Matches
<1>3. IsFiniteSet(S) /\ \A m \in S : SpanOK(m) /\ PlaceOK(m) /\ m.phrase \in Range(c.order)
  BY <1>2, FS_Subset DEF Sound, FactOK, ReadingOK
<1>4. c.text = Original /\ c.token = Token
  BY DEF Sound, SettingOK
<1> HIDE DEF hits, risk, d, off, new
<1>5. ~off /\ d = "REDACT"
  BY <1>1, ResultFields
<1>6. S # {}
  BY <1>5 DEF off, hits, HitsOf
<1>7. c.order \in Seq(Range(c.order))
  BY <1>2, <1>6 DEF Sound, ReadingOK
<1>8. sensitive_business_data_detect(c, t).sanitized_text = redact_phrases(c, S)
  BY <1>1, <1>5, ResultFields DEF new
<1> HIDE DEF S
<1>9. QED
  BY <1>3, <1>4, <1>7, <1>8, PhrasesClean DEF S

\* Two ways to name the cells outside some spans.
LEMMA OutsideIs ==
    ASSUME NEW s PROVE (1 .. TextLen) \ UNION {Cells(m) : m \in s} = Outside(s)
  BY DEF Outside

\* What Shows says of the positions of a text.
LEMMA ShowsOrder ==
    ASSUME NEW s, NEW left \in Seq(Nat), Shows(s, left)
    PROVE  /\ Outside(s) \subseteq Range(left)
           /\ \A i, j \in DOMAIN left :
                 i < j /\ {left[i], left[j]} \subseteq Outside(s) => left[i] < left[j]
<1>1. DOMAIN left = 1 .. Len(left)
  OBVIOUS
<1>2. QED
  BY <1>1 DEF Shows

\* The invariant RedactionComplete, for every length of the text, every set of
\* matches and every order of the phrases (secrets._redact_text, pii._redact_pii,
\* sensitive_business_data.detect).
THEOREM RedactionsAreComplete == RulesSpec => []RedactionComplete
<1>1. TextInv => RedactionComplete
  <2> SUFFICES ASSUME TextInv, rule \in {"secrets", "pii", "sensitive_business_data"},
                      redaction(rule, setting, text).decision = "REDACT"
               PROVE  LET left == redaction(rule, setting, text).sanitized_text
                          marks == Redacted(rule, setting, text)
                          outside == (1 .. TextLen) \ UNION {Cells(m) : m \in marks}
                      IN  /\ \A m \in marks :
                                Alone(rule, m, marks)
                                  => Cells(m) \cap Range(left) \subseteq Ends(rule, setting, m, marks)
                          /\ (rule # "secrets" \/ \A m, n \in marks : m = n \/ Disjoint(m, n))
                                => /\ outside \subseteq Range(left)
                                   /\ \A i, j \in DOMAIN left :
                                         i < j /\ {left[i], left[j]} \subseteq outside => left[i] < left[j]
    BY DEF RedactionComplete
  <2> DEFINE left == redaction(rule, setting, text).sanitized_text
             marks == Redacted(rule, setting, text)
  <2>0. Sound(rule, setting, text)
    BY TextSound
  <2>1. /\ left \in Seq(Nat) /\ (rule # "secrets" \/ Separate(marks) => Shows(marks, left))
        /\ \A m \in marks : Alone(rule, m, marks)
              => Cells(m) \cap Range(left) \subseteq Ends(rule, setting, m, marks)
    <3>1. CASE rule = "secrets"
      <4>1. redaction(rule, setting, text) = secrets_detect(setting, text)
        BY <3>1 DEF redaction
      <4>2. marks = secret_spans(setting, text)
        BY <3>1 DEF Redacted
      <4>3. left \in Seq(Nat) /\ Clean(marks, left) /\ (Separate(marks) => Shows(marks, left))
        BY <2>0, <3>1, <4>1, <4>2, SecretsRedacted
      <4> HIDE DEF left, marks
      <4>4. ASSUME NEW m \in marks, Alone(rule, m, marks)
            PROVE  Cells(m) \cap Range(left) \subseteq Ends(rule, setting, m, marks)
        <5>1. Isolated(m, marks)
          BY <3>1, <4>4 DEF Alone, Isolated
        <5>2. QED
          BY <4>3, <5>1 DEF Clean
      <4>5. QED
        BY <3>1, <4>3, <4>4
    <3>2. CASE rule = "pii"
      <4>1. redaction(rule, setting, text) = pii_detect(setting, text)
        BY <3>2 DEF redaction
      <4>2. marks = {m \in text : /\ _is_type_enabled(setting, m) /\ is_pii(setting, text, m)
                                  /\ _get_type_action(setting, m) = "REDACT"}
        BY <3>2 DEF Redacted
      <4>3. left \in Seq(Nat) /\ PiiCleaned(setting, marks, left) /\ Shows(marks, left)
        BY <2>0, <3>2, <4>1, <4>2, PiiRedacted
      <4> HIDE DEF left, marks
      <4>4. ASSUME NEW m \in marks, Alone(rule, m, marks)
            PROVE  Cells(m) \cap Range(left) \subseteq Ends(rule, setting, m, marks)
        <5>1. \A n \in marks \ {m} : Disjoint(m, n) \/ Within(m, n) \/ Within(n, m)
          BY <4>4 DEF Alone
        <5>2. Ends(rule, setting, m, marks)
                = UNION {Shown(setting, n) : n \in {k \in marks : Within(m, k)}}
          BY <3>2 DEF Ends
        <5>3. QED
          BY <4>3, <5>1, <5>2 DEF PiiCleaned
      <4>5. QED
        BY <4>3, <4>4
    <3>3. CASE rule = "sensitive_business_data"
      <4>1. redaction(rule, setting, text) = sensitive_business_data_detect(setting, text)
        BY <3>3 DEF redaction
      <4>2. marks = Places(active_phrases(setting, text))
        BY <3>3 DEF Redacted, Places
      <4>3. left \in Seq(Nat) /\ PhrasesCleaned(marks, left) /\ Shows(marks, left)
        BY <2>0, <3>3, <4>1, <4>2, BusinessRedacted
      <4> HIDE DEF left, marks
      <4>4. ASSUME NEW m \in marks, Alone(rule, m, marks)
            PROVE  Cells(m) \cap Range(left) \subseteq Ends(rule, setting, m, marks)
        <5>1. Isolated(m, marks) /\ m.blanks = {}
          BY <3>3, <4>4 DEF Alone, Isolated
        <5>2. QED
          BY <4>3, <5>1 DEF PhrasesCleaned
      <4>5. QED
        BY <4>3, <4>4
    <3>4. QED
      BY <3>1, <3>2, <3>3
  <2> HIDE DEF left, marks
  <2>3. ASSUME rule # "secrets" \/ \A m, n \in marks : m = n \/ Disjoint(m, n)
        PROVE  /\ Outside(marks) \subseteq Range(left)
               /\ \A i, j \in DOMAIN left :
                     i < j /\ {left[i], left[j]} \subseteq Outside(marks) => left[i] < left[j]
    <3>1. Shows(marks, left)
      BY <2>1, <2>3 DEF Separate
    <3>2. QED
      BY <2>1, <3>1, ShowsOrder
  <2>4. (1 .. TextLen) \ UNION {Cells(m) : m \in marks} = Outside(marks)
    BY OutsideIs
  <2>5. QED
    BY <2>1, <2>3, <2>4 DEF left, marks
<1>2. QED
  BY <1>1, TextStays, PTL

-----------------------------------------------------------------------------
(***************************************************************************)
(* The streaming evaluator.                                                *)
(***************************************************************************)
USE DEF blocked

(***************************************************************************)
(* The inductive invariant.                                                *)
(***************************************************************************)

\* While the stream is open the next character to release is the first one
\* buffered; only a blocked flush drops text.
Position ==
    /\ released <= start
    /\ released = start \/ (pc = "flushed" /\ blocked)
    /\ pc = "flushed" /\ ~blocked => start = full
    /\ pc = "flushed" /\ blocked => released < full
    /\ blocked => released < full
    /\ windows = releases + (IF blocked THEN 1 ELSE 0)

\* A released character lies in a cleared window that reaches overlap + 1
\* characters to its right, or, after flush, to the end of the text.
Covered ==
    \A i \in 0 .. released - 1 :
        \E w \in cleared :
            /\ w.from <= i
            /\ \/ i + overlap + 1 <= w.to
               \/ pc = "flushed" /\ w.to = full

\* No cleared window holds a whole blocked span.
ClearedAreClean ==
    \A w \in cleared, s \in spans : ~Inside(s, w.from, w.to)

IInv == TypeOK /\ Position /\ Covered /\ ClearedAreClean

\* __init__ clamps the overlap to half a window, so a window always advances.
LEMMA Sizes ==
    /\ window_size \in Nat \ {0}
    /\ overlap \in Nat
    /\ advance \in Nat \ {0}
    /\ advance + overlap = window_size
<1>1. window_size \in Nat \ {0}
  BY StreamAssumption DEF window_size
<1>2. window_size \div 2 \in Nat /\ window_size \div 2 < window_size
  BY <1>1, SMT
<1>3. QED
  BY <1>1, <1>2, StreamAssumption DEF overlap, advance

\* The initial states satisfy the invariant.
LEMMA InitIInv == Init => IInv
  BY StreamAssumption
     DEF Init, IInv, TypeOK, Position, Covered, ClearedAreClean

\* Appending a chunk preserves the invariant.
LEMMA PushStep ==
    ASSUME IInv, NEW n \in 0 .. MaxText, Push(n)
    PROVE  IInv'
<1> USE StreamAssumption, Sizes DEF Push
<1>1. TypeOK'
  BY DEF IInv, TypeOK
<1>2. Position'
  BY DEF IInv, TypeOK, Position
<1>3. Covered'
  BY DEF IInv, TypeOK, Covered
<1>4. ClearedAreClean'
  BY DEF IInv, TypeOK, ClearedAreClean, Inside
<1>5. QED
  BY <1>1, <1>2, <1>3, <1>4 DEF IInv

\* Evaluating one full window preserves the invariant: the characters released
\* by it have overlap + 1 characters of the window to their right.
LEMMA PushWindowStep ==
    ASSUME IInv, NEW v \in Verdict, PushWindow(v)
    PROVE  IInv'
<1> USE StreamAssumption, Sizes DEF PushWindow, evaluate_window, release
<1> DEFINE new == [from |-> start, to |-> start + window_size, verdict |-> v]
<1>0. new \in Window /\ start + window_size <= full
  BY DEF IInv, TypeOK, Window
<1>1. TypeOK'
  <2>1. CASE v = "BLOCK"
    BY <2>1 DEF IInv, TypeOK
  <2>2. CASE v # "BLOCK"
    BY <2>2, <1>0 DEF IInv, TypeOK, Position
  <2>3. QED
    BY <2>1, <2>2
<1>2. Position'
  BY DEF IInv, TypeOK, Position
<1>3. Covered'
  <2>1. CASE v = "BLOCK"
    BY <2>1 DEF IInv, TypeOK, Covered
  <2>2. CASE v # "BLOCK"
    <3> SUFFICES ASSUME NEW i \in 0 .. released' - 1
                 PROVE  \E w \in cleared' : w.from <= i /\ i + overlap + 1 <= w.to
      BY DEF Covered
    <3>1. CASE i < released
      <4>1. PICK w \in cleared : w.from <= i /\ i + overlap + 1 <= w.to
        BY <3>1 DEF IInv, TypeOK, Covered
      <4>2. QED
        BY <2>2, <4>1
    <3>2. CASE i >= released
      <4>1. new.from <= i /\ i + overlap + 1 <= new.to
        BY <2>2, <3>2 DEF IInv, TypeOK, Position
      <4>2. QED
        BY <2>2, <4>1
    <3>3. QED
      BY <3>1, <3>2 DEF IInv, TypeOK
  <2>3. QED
    BY <2>1, <2>2
<1>4. ClearedAreClean'
  BY DEF IInv, TypeOK, ClearedAreClean, MayDecide, Inside
<1>5. QED
  BY <1>1, <1>2, <1>3, <1>4 DEF IInv

\* Leaving push preserves the invariant.
LEMMA PushReturnsStep ==
    ASSUME IInv, PushReturns
    PROVE  IInv'
  BY DEF PushReturns, IInv, TypeOK, Position, Covered, ClearedAreClean, Inside

\* Flushing preserves the invariant: the tail is one window to the end.
LEMMA FlushStep ==
    ASSUME IInv, NEW v \in Verdict, Flush(v)
    PROVE  IInv'
<1> USE StreamAssumption, Sizes DEF Flush, evaluate_window, release
<1> DEFINE tail == [from |-> start, to |-> full, verdict |-> v]
<1>0. tail \in Window
  BY DEF IInv, TypeOK, Window
<1>1. TypeOK'
  <2>1. CASE full > start /\ ~blocked /\ v # "BLOCK"
    BY <2>1, <1>0 DEF IInv, TypeOK, Position
  <2>2. CASE ~(full > start /\ ~blocked /\ v # "BLOCK")
    BY <2>2 DEF IInv, TypeOK
  <2>3. QED
    BY <2>1, <2>2
<1>2. Position'
  BY DEF IInv, TypeOK, Position
<1>3. Covered'
  <2> SUFFICES ASSUME NEW i \in 0 .. released' - 1
               PROVE  \E w \in cleared' :
                         /\ w.from <= i
                         /\ i + overlap + 1 <= w.to \/ w.to = full
    BY DEF Covered
  <2>1. CASE i < released
    <3>1. PICK w \in cleared : w.from <= i /\ i + overlap + 1 <= w.to
      BY <2>1 DEF IInv, TypeOK, Covered
    <3>2. QED
      BY <3>1
  <2>2. CASE i >= released
    <3>1. full > start /\ ~blocked /\ v # "BLOCK"
      BY <2>2 DEF IInv, TypeOK
    <3>2. tail.from <= i /\ tail.to = full /\ tail \in cleared'
      BY <2>2, <3>1 DEF IInv, TypeOK, Position
    <3>3. QED
      BY <3>2
  <2>3. QED
    BY <2>1, <2>2 DEF IInv, TypeOK
<1>4. ClearedAreClean'
  BY DEF IInv, TypeOK, ClearedAreClean, MayDecide, Inside
<1>5. QED
  BY <1>1, <1>2, <1>3, <1>4 DEF IInv

\* The inductive invariant holds in every reachable state.
THEOREM Invariance == Spec => []IInv
<1>1. Init => IInv
  BY InitIInv
<1>2. IInv /\ [Next]_vars => IInv'
  <2> SUFFICES ASSUME IInv, [Next]_vars PROVE IInv'
    OBVIOUS
  <2>1. CASE UNCHANGED vars
    BY <2>1 DEF vars, IInv, TypeOK, Position, Covered, ClearedAreClean, Inside
  <2>2. QED
    BY <2>1, PushStep, PushWindowStep, PushReturnsStep, FlushStep DEF Next
<1>3. QED
  BY <1>1, <1>2, PTL DEF Spec

\* Type correctness of the streaming evaluator.
THEOREM TypeCorrect == Spec => []TypeOK
<1>1. IInv => TypeOK
  BY DEF IInv
<1>2. QED
  BY <1>1, Invariance, PTL

\* Whatever the window, the overlap and the chunks, a span of at most
\* overlap + 1 characters is evaluated whole before any of it is released.
THEOREM ShortSpansCovered == Spec => []ShortSpansSeenWhole
<1>1. IInv => ShortSpansSeenWhole
  <2> SUFFICES ASSUME IInv, NEW i \in 0 .. released - 1,
                      NEW n \in 1 .. overlap + 1, i + n <= full
               PROVE  \E w \in cleared : w.from <= i /\ i + n <= w.to
    BY DEF ShortSpansSeenWhole
  <2>1. PICK w \in cleared :
           w.from <= i /\ (i + overlap + 1 <= w.to \/ w.to = full)
    BY DEF IInv, Covered
  <2>2. w.to \in Nat
    BY DEF IInv, TypeOK, Window
  <2>3. i + n <= w.to
    BY <2>1, <2>2, Sizes DEF IInv, TypeOK
  <2>4. QED
    BY <2>1, <2>3
<1>2. QED
  BY <1>1, Invariance, PTL

\* Nothing of a blocked span of at most overlap + 1 characters is released.
THEOREM ShortSpansNeverLeak == Spec => []NoShortLeak
<1>1. IInv => NoShortLeak
  <2> SUFFICES ASSUME IInv, NEW s \in spans, s.length <= overlap + 1,
                      s.at + s.length <= full, released > s.at
               PROVE  FALSE
    BY StreamAssumption DEF NoShortLeak, IInv, TypeOK, Span
  <2>0. s \in Span
    BY StreamAssumption DEF IInv, TypeOK
  <2>1. PICK w \in cleared :
           w.from <= s.at /\ (s.at + overlap + 1 <= w.to \/ w.to = full)
    BY <2>0 DEF IInv, Covered, TypeOK, Span
  <2>2. w.to \in Nat
    BY DEF IInv, TypeOK, Window
  <2>3. Inside(s, w.from, w.to)
    BY <2>0, <2>1, <2>2, Sizes DEF Inside, Span
  <2>4. QED
    BY <2>3 DEF IInv, ClearedAreClean
<1>2. QED
  BY <1>1, Invariance, PTL

\* The done summary tells ALLOW from BLOCK truthfully.
THEOREM Summary == Spec => []SummaryTruthful
<1>1. IInv => SummaryTruthful
  BY DEF IInv, TypeOK, Position, SummaryTruthful
<1>2. QED
  BY <1>1, Invariance, PTL

\* The released text is a prefix of the text, one verdict per release.
THEOREM Prefix == Spec => []ReleasedIsPrefix
<1>1. IInv => ReleasedIsPrefix
  BY DEF IInv, TypeOK, Position, ReleasedIsPrefix
<1>2. QED
  BY <1>1, Invariance, PTL

\* After a BLOCK neither push nor flush releases anything.
THEOREM Blocked == Spec => BlockIsFinal
<1>1. [Next]_vars => [blocked => blocked' /\ released' = released]_vars
  BY DEF Next, vars, Push, PushWindow, PushReturns, Flush
<1>2. QED
  BY <1>1, PTL DEF Spec, BlockIsFinal

=============================================================================
