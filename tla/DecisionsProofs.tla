------------------------- MODULE DecisionsProofs -------------------------
(***************************************************************************)
(* Proofs about Decisions, for every well-formed configuration and every   *)
(* request: what a route selects is a candidate that may run where it is   *)
(* sent, router and policy agree on what is approved, private data stays   *)
(* where it may be, a configuration that passes validation routes what it  *)
(* declares, what the verifier accepts is clean, the two doors read one    *)
(* request alike unless its nested objects are read otherwise, a quote has *)
(* the route of the plan unless one of the two is long, a bill is at least *)
(* what was reported, and what an adapter makes of its own task is what    *)
(* the recipe of the task accepts.                                         *)
(***************************************************************************)
EXTENDS Decisions, FiniteSetTheorems, WellFoundedInduction, TLAPS

-----------------------------------------------------------------------------
(* Orders *)

\* A nonempty set of numbers has a least member.
LEMMA LeastExists ==
    ASSUME NEW S, S \subseteq Nat, S # {}
    PROVE  \E x \in S : \A y \in S : x <= y
<1> DEFINE R == OpToRel(<, Nat)
<1>1. IsWellFoundedOn(R, Nat)
  BY NatLessThanWellFounded
<1>2. \E x \in S : \A y \in S : ~ (<<y, x>> \in R)
  <2> HIDE DEF R
  <2> QED  BY <1>1, WFMin
<1>3. \E x \in S : \A y \in S : ~ (y < x)
  BY <1>2 DEF OpToRel
<1> QED  BY <1>3

\* The members with the least key, ahead of the others.
LEMMA LeastByKey ==
    ASSUME NEW S, S # {}, NEW f, \A x \in S : f[x] \in Nat
    PROVE  \E T :
              /\ T \subseteq S /\ T # {}
              /\ \A x \in T, y \in S : f[x] < f[y] \/ (f[x] = f[y] /\ y \in T)
<1> DEFINE K == {f[x] : x \in S}
<1>1. PICK n \in K : \A k \in K : n <= k
  <2>1. K \subseteq Nat /\ K # {}
    OBVIOUS
  <2> HIDE DEF K
  <2> QED  BY <2>1, LeastExists
<1> DEFINE T == {x \in S : f[x] = n}
<1>2. T \subseteq S /\ T # {}
  BY <1>1
<1>3. ASSUME NEW x \in T, NEW y \in S
      PROVE  f[x] < f[y] \/ (f[x] = f[y] /\ y \in T)
  <2>1. f[x] = n /\ n <= f[y] /\ f[y] \in Nat /\ n \in Nat
    BY <1>1
  <2> QED  BY <2>1
<1> QED  BY <1>2, <1>3

\* The smaller and the larger of two numbers.
LEMMA AtMostFacts ==
    ASSUME NEW a \in Int, NEW b \in Int
    PROVE  AtMost(a, b) = IF a <= b THEN a ELSE b
  BY DEF AtMost, Min

LEMMA AtLeastFacts ==
    ASSUME NEW a \in Int, NEW b \in Int
    PROVE  AtLeast(a, b) = IF a >= b THEN a ELSE b
  BY DEF AtLeast, Max

-----------------------------------------------------------------------------
(* Candidates *)

\* The candidates of a task type are made of its rules, which resolve, and
\* are told apart by their ids.
Candidates(conf, task_type) == {Candidate(conf, r) : r \in MatchingRules(conf, task_type)}

IsCandidateOf(c, conf, rule) ==
    /\ rule \in conf.rules
    /\ ResolutionErrors(conf, rule) = {}
    /\ c.id = rule.id
    /\ c.priority = rule.priority
    /\ c.backend_id = BackendOf(conf, rule)
    /\ c.backend_id \in DOMAIN conf.backends
    /\ c.backend_class = conf.backends[c.backend_id].class
    /\ c.cost = conf.backends[c.backend_id].cost
    /\ c.worker_id = WorkerOf(conf, rule, c.backend_id)
    /\ c.verifier_recipe_id = conf.verifier_mapping[rule.task_type]

\* A rule that resolves names a backend of the registry.
LEMMA ResolvedBackend ==
    ASSUME NEW conf, NEW rule, ResolutionErrors(conf, rule) = {}
    PROVE  BackendOf(conf, rule) \in DOMAIN conf.backends
  BY DEF ResolutionErrors

LEMMA CandidateFields ==
    ASSUME NEW conf, NEW rule \in conf.rules, ResolutionErrors(conf, rule) = {}
    PROVE  IsCandidateOf(Candidate(conf, rule), conf, rule)
  BY ResolvedBackend DEF Candidate, IsCandidateOf

LEMMA CandidatesFacts ==
    ASSUME NEW conf, WellFormed(conf), NEW task_type,
           \A rule \in MatchingRules(conf, task_type) : ResolutionErrors(conf, rule) = {}
    PROVE  /\ \A c \in Candidates(conf, task_type) :
                 /\ \E rule \in MatchingRules(conf, task_type) : IsCandidateOf(c, conf, rule)
                 /\ c.id \in Nat /\ c.priority \in Nat \ {0}
                 /\ c.backend_id \in Nat /\ c.cost \in Nat
           /\ \A c, d \in Candidates(conf, task_type) : c.id = d.id => c = d
<1>1. \A rule \in MatchingRules(conf, task_type) :
          rule \in conf.rules /\ IsCandidateOf(Candidate(conf, rule), conf, rule)
  BY CandidateFields DEF MatchingRules
<1>2. ASSUME NEW c \in Candidates(conf, task_type)
      PROVE  /\ \E rule \in MatchingRules(conf, task_type) : IsCandidateOf(c, conf, rule)
             /\ c.id \in Nat /\ c.priority \in Nat \ {0}
             /\ c.backend_id \in Nat /\ c.cost \in Nat
  <2>1. PICK rule \in MatchingRules(conf, task_type) : c = Candidate(conf, rule)
    BY DEF Candidates
  <2>2. rule \in conf.rules /\ IsCandidateOf(c, conf, rule)
    BY <1>1, <2>1
  <2>3. /\ c.id \in Nat /\ c.priority \in Nat \ {0}
        /\ c.backend_id \in Nat /\ c.cost \in Nat
    BY <2>2 DEF IsCandidateOf, WellFormed
  <2> QED  BY <2>2, <2>3
<1>3. ASSUME NEW c \in Candidates(conf, task_type), NEW d \in Candidates(conf, task_type),
             c.id = d.id
      PROVE  c = d
  <2>1. PICK r \in MatchingRules(conf, task_type), s \in MatchingRules(conf, task_type) :
            c = Candidate(conf, r) /\ d = Candidate(conf, s)
    BY DEF Candidates
  <2>2. r \in conf.rules /\ s \in conf.rules /\ r.id = s.id
    BY <1>1, <1>3, <2>1 DEF IsCandidateOf
  <2>3. r = s
    BY <2>2 DEF WellFormed
  <2> QED  BY <2>1, <2>3
<1> QED  BY <1>2, <1>3

-----------------------------------------------------------------------------
(* Scores *)

\* A task type asks for at most three capabilities; the fit is the share of
\* them that a backend has.
LEMMA CapabilityFitIsInt ==
    ASSUME NEW unit, unit.task_type \in SupportedTasks, NEW backend
    PROVE  CapabilityFit(unit, backend) \in Nat /\ CapabilityFit(unit, backend) <= 3000
<1> DEFINE R == RequiredCapabilities(unit)
           n == Cardinality(R \cap Capabilities(backend))
           m == Cardinality(R)
<1>1. R # {} /\ \E a, b, c : R = {a, b, c}
  <2>1. \A t \in SupportedTasks :
            /\ TaskDefaults[t].capabilities # {}
            /\ \E a, b, c : TaskDefaults[t].capabilities = {a, b, c}
    <3> DEFINE caps(t) == TaskDefaults[t].capabilities
    <3>1. /\ caps("url_check") =
                {"browser_fetch", "deterministic_local", "deterministic_local"}
          /\ caps("dedup") =
                {"deterministic_local", "data_extraction", "data_extraction"}
          /\ caps("webpage_extraction") =
                {"browser_fetch", "data_extraction", "structured_output"}
          /\ caps("topic_classification") =
                {"structured_output", "fast_reasoning", "fast_reasoning"}
          /\ caps("claim_extraction") =
                {"strong_reasoning", "structured_output", "data_extraction"}
      BY DEF TaskDefaults
    <3>2. SupportedTasks = {"url_check", "dedup", "webpage_extraction",
                            "topic_classification", "claim_extraction"}
      BY DEF SupportedTasks, TaskDefaults
    <3>3. ASSUME NEW t \in SupportedTasks
          PROVE  \E a, b, c : caps(t) = {a, b, c}
      <4> HIDE DEF caps
      <4>1. \/ t = "url_check" \/ t = "dedup" \/ t = "webpage_extraction"
            \/ t = "topic_classification" \/ t = "claim_extraction"
        BY <3>2
      <4>2. CASE t = "url_check"
        BY <4>2, <3>1
      <4>3. CASE t = "dedup"
        BY <4>3, <3>1
      <4>4. CASE t = "webpage_extraction"
        BY <4>4, <3>1
      <4>5. CASE t = "topic_classification"
        BY <4>5, <3>1
      <4>6. CASE t = "claim_extraction"
        BY <4>6, <3>1
      <4> QED  BY <4>1, <4>2, <4>3, <4>4, <4>5, <4>6
    <3>4. ASSUME NEW S, \E a, b, c : S = {a, b, c}
          PROVE  S # {}
      BY <3>4
    <3> QED  BY <3>3, <3>4
  <2> QED  BY <2>1 DEF RequiredCapabilities
<1>2. IsFiniteSet(R)
  <2>1. PICK a, b, c : R = {a, b, c}
    BY <1>1
  <2>2. IsFiniteSet({a}) /\ IsFiniteSet({b}) /\ IsFiniteSet({c})
    BY FS_Singleton
  <2>3. IsFiniteSet({a} \cup {b})
    BY <2>2, FS_Union
  <2>4. IsFiniteSet(({a} \cup {b}) \cup {c})
    BY <2>2, <2>3, FS_Union
  <2>5. R = ({a} \cup {b}) \cup {c}
    BY <2>1
  <2> QED  BY <2>4, <2>5
<1>3. m \in 1 .. 3
  <2>1. m \in Nat
    BY <1>2, FS_CardinalityType
  <2>2. m # 0
    BY <1>1, <1>2, FS_EmptySet
  <2>3. PICK a, b, c : R = {a, b, c}
    BY <1>1
  <2>4. \A x : IsFiniteSet({x}) /\ Cardinality({x}) = 1
    BY FS_Singleton
  <2>5. IsFiniteSet({a} \cup {b}) /\ Cardinality({a} \cup {b}) <= 2
    <3>1. {a} \cap {b} = {} \/ {a} \cap {b} = {a}
      OBVIOUS
    <3>2. Cardinality({a} \cap {b}) \in {0, 1}
      BY <2>4, <3>1, FS_EmptySet
    <3>3. IsFiniteSet({a}) /\ IsFiniteSet({b})
      BY <2>4
    <3>4. /\ IsFiniteSet({a} \cup {b})
          /\ Cardinality({a} \cup {b}) =
                 Cardinality({a}) + Cardinality({b}) - Cardinality({a} \cap {b})
      BY <3>3, FS_Union
    <3>5. Cardinality({a}) = 1 /\ Cardinality({b}) = 1
      BY <2>4
    <3> QED  BY <3>2, <3>4, <3>5
  <2>6. m <= 3
    <3> DEFINE S == {a} \cup {b}
    <3>1. R = S \cup {c}
      BY <2>3
    <3>2. IsFiniteSet(S) /\ Cardinality(S) <= 2
      BY <2>5
    <3> HIDE DEF S
    <3>3. Cardinality(S) \in Nat
      BY <3>2, FS_CardinalityType
    <3>4. Cardinality(S \cap {c}) \in Nat
      <4>1. IsFiniteSet(S \cap {c})
        BY <3>2, FS_Intersection
      <4> QED  BY <4>1, FS_CardinalityType
    <3>5. Cardinality(S \cup {c}) = Cardinality(S) + Cardinality({c}) - Cardinality(S \cap {c})
      BY <2>4, <3>2, FS_Union
    <3>6. Cardinality({c}) = 1
      BY <2>4
    <3> QED  BY <3>1, <3>2, <3>3, <3>4, <3>5, <3>6
  <2> QED  BY <2>1, <2>2, <2>6
<1>4. n \in Nat /\ n <= m
  <2>1. IsFiniteSet(R \cap Capabilities(backend))
    BY <1>2, FS_Intersection
  <2>2. R \cap Capabilities(backend) \subseteq R
    OBVIOUS
  <2> QED  BY <1>2, <2>1, <2>2, FS_CardinalityType, FS_Subset
<1>5. CapabilityFit(unit, backend) = (3000 * n) \div m
  BY DEF CapabilityFit
<1> HIDE DEF n, m, R
<1>6. (3000 * n) \div m \in Nat /\ (3000 * n) \div m <= 3000
  <2>1. CASE m = 1
    BY <1>4, <2>1
  <2>2. CASE m = 2
    BY <1>4, <2>2
  <2>3. CASE m = 3
    BY <1>4, <2>3
  <2> QED  BY <1>3, <2>1, <2>2, <2>3
<1> QED  BY <1>5, <1>6

LEMMA QualityFitIsInt ==
    ASSUME NEW unit, NEW backend
    PROVE  /\ QualityFit(unit, backend) \in Int
           /\ 830 <= QualityFit(unit, backend) /\ QualityFit(unit, backend) <= 1805
<1> DEFINE difficulty == DifficultyOrder[TaskDefaults[unit.task_type].difficulty]
           required == CASE difficulty <= 1 -> 0 [] difficulty = 2 -> 1 [] OTHER -> 2
           tier == ModelTier(backend)
           local == difficulty <= 1 /\ "deterministic_local" \in Capabilities(backend)
           few == difficulty <= 2 /\ backend.class = "browser_fetch"
<1>1. required \in 0 .. 2
  OBVIOUS
<1>2. tier = None \/ tier \in 1 .. 3
  BY DEF ModelTier
<1>3. TierFit(unit, backend) =
          IF tier = None THEN CASE local -> 95 [] ~ local /\ few -> 80 [] OTHER -> 45
          ELSE IF tier >= required THEN AtMost(100, 82 + 7 * (tier - required))
               ELSE AtLeast(25, 72 - 18 * (required - tier))
  BY DEF TierFit
<1>4. /\ TierFit(unit, backend) \in Int
      /\ 25 <= TierFit(unit, backend) /\ TierFit(unit, backend) <= 100
  <2> HIDE DEF tier, required, local, few
  <2>1. CASE tier = None
    BY <2>1, <1>3
  <2>2. CASE tier # None
    <3>1. tier \in 1 .. 3
      BY <2>2, <1>2
    <3>2. ASSUME tier >= required
          PROVE  LET fit == AtMost(100, 82 + 7 * (tier - required))
                 IN  fit \in Int /\ 25 <= fit /\ fit <= 100
      <4> DEFINE n == 82 + 7 * (tier - required)
      <4>1. n \in Int /\ 25 <= n
        BY <1>1, <3>1, <3>2
      <4> HIDE DEF n
      <4>2. AtMost(100, n) = IF 100 <= n THEN 100 ELSE n
        BY <4>1, AtMostFacts
      <4>3. AtMost(100, n) \in Int /\ 25 <= AtMost(100, n) /\ AtMost(100, n) <= 100
        BY <4>1, <4>2
      <4> QED  BY <4>3 DEF n
    <3>3. ASSUME ~ (tier >= required)
          PROVE  LET fit == AtLeast(25, 72 - 18 * (required - tier))
                 IN  fit \in Int /\ 25 <= fit /\ fit <= 100
      <4> DEFINE n == 72 - 18 * (required - tier)
      <4>1. n \in Int /\ n <= 100
        BY <1>1, <3>1, <3>3
      <4> HIDE DEF n
      <4>2. AtLeast(25, n) = IF 25 >= n THEN 25 ELSE n
        BY <4>1, AtLeastFacts
      <4>3. AtLeast(25, n) \in Int /\ 25 <= AtLeast(25, n) /\ AtLeast(25, n) <= 100
        BY <4>1, <4>2
      <4> QED  BY <4>3 DEF n
    <3>4. TierFit(unit, backend) =
              IF tier >= required THEN AtMost(100, 82 + 7 * (tier - required))
              ELSE AtLeast(25, 72 - 18 * (required - tier))
      BY <1>3, <2>2
    <3> QED  BY <3>2, <3>3, <3>4
  <2> QED  BY <2>1, <2>2
<1>5. (IF unit.task_type \in backend.tasks THEN 425 ELSE 275) \in {275, 425}
  OBVIOUS
<1>6. QualityFit(unit, backend) = 11 * TierFit(unit, backend)
          + (IF unit.task_type \in backend.tasks THEN 425 ELSE 275) + 280
  BY DEF QualityFit
<1> DEFINE extra == IF unit.task_type \in backend.tasks THEN 425 ELSE 275
           fit == TierFit(unit, backend)
<1> HIDE DEF extra, fit
<1> QED  BY <1>4, <1>5, <1>6 DEF extra, fit

LEMMA OtherFitsAreInt ==
    ASSUME NEW unit, NEW backend, NEW cost
    PROVE  CostFit(cost) \in Int /\ LatencyFit(backend) \in Int
           /\ Uncertainty(unit, backend) \in Int
<1>1. CostFit(cost) \in Int
  BY DEF CostFit
<1>2. LatencyFit(backend) \in Int
  BY DEF LatencyFit
<1>3. Confidence(unit) \in Int
  BY DEF Confidence
<1> DEFINE unknown == IF backend.latency = None THEN 300 ELSE 0
<1>4. unknown \in Int
  OBVIOUS
<1>5. Uncertainty(unit, backend) =
          AtMost(2500, 300 + 12 * (100 - Confidence(unit)) + unknown + 400)
  BY DEF Uncertainty
<1>6. Uncertainty(unit, backend) \in Int
  <2> DEFINE confidence == Confidence(unit)
             raw == 300 + 12 * (100 - confidence) + unknown + 400
  <2>1. raw \in Int
    <3> HIDE DEF unknown, confidence
    <3> QED  BY <1>3, <1>4 DEF confidence
  <2>2. Uncertainty(unit, backend) = AtMost(2500, raw)
    BY <1>5
  <2> HIDE DEF raw
  <2> QED  BY <2>1, <2>2, AtMostFacts
<1> QED  BY <1>1, <1>2, <1>6

\* A score is a number of 1/10000.
LEMMA ScoreBounds ==
    ASSUME NEW conf, NEW unit, unit.task_type \in SupportedTasks, NEW route,
           NEW c, c.priority \in Nat
    PROVE  Score(conf, unit, route, c) \in Nat /\ Score(conf, unit, route, c) <= 10000
<1> DEFINE backend == conf.backends[c.backend_id]
           sum == CapabilityFit(unit, backend) + 2500 + QualityFit(unit, backend)
                  + CostFit(c.cost) + LatencyFit(backend) + 1000
           late == AtMost(800, 400 * (c.priority - 1))
           net == sum - Uncertainty(unit, backend) - late
<1>1. sum \in Int
  <2>1. CapabilityFit(unit, backend) \in Int
    BY CapabilityFitIsInt
  <2>2. QualityFit(unit, backend) \in Int
    BY QualityFitIsInt
  <2>3. CostFit(c.cost) \in Int /\ LatencyFit(backend) \in Int
    BY OtherFitsAreInt
  <2> HIDE DEF backend
  <2> QED  BY <2>1, <2>2, <2>3
<1>2. Uncertainty(unit, backend) \in Int
  BY OtherFitsAreInt
<1>3. late \in Int
  BY AtMostFacts
<1>4. net \in Int
  <2> HIDE DEF backend, sum, late
  <2> QED  BY <1>1, <1>2, <1>3
<1>5. Score(conf, unit, route, c) =
          IF ~ Passes(conf, unit, route, c) THEN 0 ELSE AtLeast(0, AtMost(10000, net))
  BY DEF Score
<1> HIDE DEF net
<1>6. AtMost(10000, net) = IF 10000 <= net THEN 10000 ELSE net
  BY <1>4, AtMostFacts
<1>7. /\ AtLeast(0, AtMost(10000, net)) \in Nat
      /\ AtLeast(0, AtMost(10000, net)) <= 10000
  <2> DEFINE low == AtMost(10000, net)
  <2>1. low \in Int /\ low <= 10000
    BY <1>4, <1>6
  <2> HIDE DEF low
  <2>2. AtLeast(0, low) = IF 0 >= low THEN 0 ELSE low
    BY <2>1, AtLeastFacts
  <2>3. CASE 0 >= low
    BY <2>2, <2>3 DEF low
  <2>4. CASE ~ (0 >= low)
    <3>1. AtLeast(0, low) = low
      BY <2>2, <2>4
    <3>2. low \in Nat /\ low <= 10000
      BY <2>1, <2>4
    <3> QED  BY <3>1, <3>2 DEF low
  <2> QED  BY <2>3, <2>4
<1> QED  BY <1>5, <1>7

-----------------------------------------------------------------------------
(* The selection *)

\* Candidates with what the scorer and the normalizer compare.
Comparable(S) ==
    /\ \A c \in S : /\ c.id \in Nat /\ c.priority \in Nat \ {0}
                    /\ c.backend_id \in Nat /\ c.cost \in Nat
    /\ \A c, d \in S : c.id = d.id => c = d

\* The normalizer picks one of the candidates.
LEMMA BaselineFirst ==
    ASSUME NEW S, S # {}, Comparable(S)
    PROVE  First(S, BaselineBefore) \in S
<1> DEFINE f1 == [c \in S |-> c.priority]
           f2 == [c \in S |-> c.backend_id]
           f3 == [c \in S |-> c.id]
<1>1. \A c \in S : f1[c] \in Nat /\ f2[c] \in Nat /\ f3[c] \in Nat
  BY DEF Comparable
<1> HIDE DEF f1, f2, f3
<1>2. PICK T1 :
        /\ T1 \subseteq S /\ T1 # {}
        /\ \A x \in T1, y \in S : f1[x] < f1[y] \/ (f1[x] = f1[y] /\ y \in T1)
  BY <1>1, LeastByKey
<1>3. PICK T2 :
        /\ T2 \subseteq T1 /\ T2 # {}
        /\ \A x \in T2, y \in T1 : f2[x] < f2[y] \/ (f2[x] = f2[y] /\ y \in T2)
  <2>1. T1 # {} /\ \A x \in T1 : f2[x] \in Nat
    BY <1>1, <1>2
  <2> QED  BY <2>1, LeastByKey
<1>4. PICK T3 :
        /\ T3 \subseteq T2 /\ T3 # {}
        /\ \A x \in T3, y \in T2 : f3[x] < f3[y] \/ (f3[x] = f3[y] /\ y \in T3)
  <2>1. T2 # {} /\ \A x \in T2 : f3[x] \in Nat
    BY <1>1, <1>2, <1>3
  <2> QED  BY <2>1, LeastByKey
<1>5. PICK x \in T3 : TRUE
  BY <1>4
<1>6. ASSUME NEW y \in S \ {x}
      PROVE  BaselineBefore(x, y)
  <2>1. x \in S /\ y \in S /\ x \in T1 /\ x \in T2
    BY <1>2, <1>3, <1>4
  <2>2. /\ f1[x] = x.priority /\ f1[y] = y.priority
        /\ f2[x] = x.backend_id /\ f2[y] = y.backend_id
        /\ f3[x] = x.id /\ f3[y] = y.id
    BY <2>1 DEF f1, f2, f3
  <2>3. f3[x] # f3[y]
    BY <2>1, <2>2 DEF Comparable
  <2>4. \/ f1[x] < f1[y]
        \/ f1[x] = f1[y] /\ y \in T1
    BY <1>2, <2>1
  <2>5. y \in T1 => f2[x] < f2[y] \/ (f2[x] = f2[y] /\ y \in T2)
    BY <1>3, <2>1
  <2>6. y \in T2 => f3[x] < f3[y]
    BY <1>4, <2>3
  <2> QED  BY <2>2, <2>4, <2>5, <2>6 DEF BaselineBefore
<1>7. \E z \in S : \A y \in S \ {z} : BaselineBefore(z, y)
  BY <1>2, <1>3, <1>4, <1>6
<1> QED  BY <1>7 DEF First

\* Five keys of numbers, of which the last tells all members apart.
AreKeys(S, f1, f2, f3, f4, f5) ==
    /\ \A x \in S : /\ f1[x] \in Nat /\ f2[x] \in Nat /\ f3[x] \in Nat
                    /\ f4[x] \in Nat /\ f5[x] \in Nat
    /\ \A x, y \in S : f5[x] = f5[y] => x = y

AheadBy(f1, f2, f3, f4, f5, x, y) ==
    \/ f1[x] < f1[y]
    \/ f1[x] = f1[y] /\ f2[x] < f2[y]
    \/ f1[x] = f1[y] /\ f2[x] = f2[y] /\ f3[x] < f3[y]
    \/ f1[x] = f1[y] /\ f2[x] = f2[y] /\ f3[x] = f3[y] /\ f4[x] < f4[y]
    \/ /\ f1[x] = f1[y] /\ f2[x] = f2[y] /\ f3[x] = f3[y]
       /\ f4[x] = f4[y] /\ f5[x] < f5[y]

\* A member is ahead of all others by the first key in which it differs.
LEMMA LeastByKeys ==
    ASSUME NEW S, S # {}, NEW f1, NEW f2, NEW f3, NEW f4, NEW f5,
           AreKeys(S, f1, f2, f3, f4, f5)
    PROVE  \E x \in S : \A y \in S \ {x} : AheadBy(f1, f2, f3, f4, f5, x, y)
<1> USE DEF AreKeys
<1>1. PICK T1 :
        /\ T1 \subseteq S /\ T1 # {}
        /\ \A x \in T1, y \in S : f1[x] < f1[y] \/ (f1[x] = f1[y] /\ y \in T1)
  BY LeastByKey
<1>2. PICK T2 :
        /\ T2 \subseteq T1 /\ T2 # {}
        /\ \A x \in T2, y \in T1 : f2[x] < f2[y] \/ (f2[x] = f2[y] /\ y \in T2)
  <2>1. T1 # {} /\ \A x \in T1 : f2[x] \in Nat
    BY <1>1
  <2> QED  BY <2>1, LeastByKey
<1>3. PICK T3 :
        /\ T3 \subseteq T2 /\ T3 # {}
        /\ \A x \in T3, y \in T2 : f3[x] < f3[y] \/ (f3[x] = f3[y] /\ y \in T3)
  <2>1. T2 # {} /\ \A x \in T2 : f3[x] \in Nat
    BY <1>1, <1>2
  <2> QED  BY <2>1, LeastByKey
<1>4. PICK T4 :
        /\ T4 \subseteq T3 /\ T4 # {}
        /\ \A x \in T4, y \in T3 : f4[x] < f4[y] \/ (f4[x] = f4[y] /\ y \in T4)
  <2>1. T3 # {} /\ \A x \in T3 : f4[x] \in Nat
    BY <1>1, <1>2, <1>3
  <2> QED  BY <2>1, LeastByKey
<1>5. PICK T5 :
        /\ T5 \subseteq T4 /\ T5 # {}
        /\ \A x \in T5, y \in T4 : f5[x] < f5[y] \/ (f5[x] = f5[y] /\ y \in T5)
  <2>1. T4 # {} /\ \A x \in T4 : f5[x] \in Nat
    BY <1>1, <1>2, <1>3, <1>4
  <2> QED  BY <2>1, LeastByKey
<1>6. PICK x \in T5 : TRUE
  BY <1>5
<1>7. x \in S /\ x \in T1 /\ x \in T2 /\ x \in T3 /\ x \in T4
  BY <1>1, <1>2, <1>3, <1>4, <1>5
<1>8. ASSUME NEW y \in S \ {x}
      PROVE  /\ f1[x] < f1[y] \/ (f1[x] = f1[y] /\ y \in T1)
             /\ y \in T1 => f2[x] < f2[y] \/ (f2[x] = f2[y] /\ y \in T2)
             /\ y \in T2 => f3[x] < f3[y] \/ (f3[x] = f3[y] /\ y \in T3)
             /\ y \in T3 => f4[x] < f4[y] \/ (f4[x] = f4[y] /\ y \in T4)
             /\ y \in T4 => f5[x] < f5[y]
  <2>1. f1[x] < f1[y] \/ (f1[x] = f1[y] /\ y \in T1)
    BY <1>1, <1>7
  <2>2. y \in T1 => f2[x] < f2[y] \/ (f2[x] = f2[y] /\ y \in T2)
    BY <1>2, <1>7
  <2>3. y \in T2 => f3[x] < f3[y] \/ (f3[x] = f3[y] /\ y \in T3)
    BY <1>3, <1>7
  <2>4. y \in T3 => f4[x] < f4[y] \/ (f4[x] = f4[y] /\ y \in T4)
    BY <1>4, <1>7
  <2>5. y \in T4 => f5[x] < f5[y]
    BY <1>5, <1>7
  <2> QED  BY <2>1, <2>2, <2>3, <2>4, <2>5
<1> QED  BY <1>7, <1>8 DEF AheadBy

\* What the sort of the scores compares, in turn.
Ahead(conf, unit, route, c, d) ==
    LET passes(x) == Passes(conf, unit, route, x)
        score(x) == Score(conf, unit, route, x)
    IN  \/ passes(c) /\ ~ passes(d)
        \/ /\ passes(c) <=> passes(d)
           /\ \/ score(c) > score(d)
              \/ /\ score(c) = score(d)
                 /\ \/ c.priority < d.priority
                    \/ c.priority = d.priority /\ c.cost < d.cost
                    \/ c.priority = d.priority /\ c.cost = d.cost /\ c.id < d.id

LEMMA RankedIsAhead ==
    ASSUME NEW conf, NEW unit, unit.task_type \in SupportedTasks, NEW route,
           NEW c, c.id \in Nat, c.priority \in Nat, c.cost \in Nat,
           NEW d, d.id \in Nat, d.priority \in Nat, d.cost \in Nat
    PROVE  RankedBefore(conf, unit, route, c, d) <=> Ahead(conf, unit, route, c, d)
<1> DEFINE pc == Passes(conf, unit, route, c)
           pd == Passes(conf, unit, route, d)
           sc == Score(conf, unit, route, c)
           sd == Score(conf, unit, route, d)
           kc == << IF pc THEN 0 ELSE 1, 0 - sc, c.priority, c.cost, c.id >>
           kd == << IF pd THEN 0 ELSE 1, 0 - sd, d.priority, d.cost, d.id >>
<1>1. sc \in Nat
  BY ScoreBounds
<1>2. sd \in Nat
  BY ScoreBounds
<1>3. RankedBefore(conf, unit, route, c, d)
          <=> \E i \in 1 .. 5 : kc[i] < kd[i] /\ \A j \in 1 .. i - 1 : kc[j] = kd[j]
  BY DEF RankedBefore
<1>4. Ahead(conf, unit, route, c, d)
          <=> \/ pc /\ ~ pd
              \/ /\ pc <=> pd
                 /\ \/ sc > sd
                    \/ /\ sc = sd
                       /\ \/ c.priority < d.priority
                          \/ c.priority = d.priority /\ c.cost < d.cost
                          \/ c.priority = d.priority /\ c.cost = d.cost /\ c.id < d.id
  BY DEF Ahead
<1>5. /\ kc[1] = (IF pc THEN 0 ELSE 1) /\ kc[2] = 0 - sc /\ kc[3] = c.priority
      /\ kc[4] = c.cost /\ kc[5] = c.id
      /\ kd[1] = (IF pd THEN 0 ELSE 1) /\ kd[2] = 0 - sd /\ kd[3] = d.priority
      /\ kd[4] = d.cost /\ kd[5] = d.id
  OBVIOUS
<1> HIDE DEF kc, kd, pc, pd, sc, sd
<1>6. (\E i \in 1 .. 5 : kc[i] < kd[i] /\ \A j \in 1 .. i - 1 : kc[j] = kd[j])
          <=> \/ kc[1] < kd[1]
              \/ kc[1] = kd[1] /\ kc[2] < kd[2]
              \/ kc[1] = kd[1] /\ kc[2] = kd[2] /\ kc[3] < kd[3]
              \/ kc[1] = kd[1] /\ kc[2] = kd[2] /\ kc[3] = kd[3] /\ kc[4] < kd[4]
              \/ /\ kc[1] = kd[1] /\ kc[2] = kd[2] /\ kc[3] = kd[3] /\ kc[4] = kd[4]
                 /\ kc[5] < kd[5]
  <2> DEFINE at(i) == kc[i] < kd[i] /\ \A j \in 1 .. i - 1 : kc[j] = kd[j]
  <2>1. (\E i \in 1 .. 5 : at(i)) <=> at(1) \/ at(2) \/ at(3) \/ at(4) \/ at(5)
    <3> HIDE DEF at
    <3>1. 1 .. 5 = {1, 2, 3, 4, 5}
      OBVIOUS
    <3> QED  BY <3>1
  <2>2. /\ 1 .. 1 - 1 = {} /\ 1 .. 2 - 1 = {1} /\ 1 .. 3 - 1 = {1, 2}
        /\ 1 .. 4 - 1 = {1, 2, 3} /\ 1 .. 5 - 1 = {1, 2, 3, 4}
    OBVIOUS
  <2> QED  BY <2>1, <2>2
<1>7. (IF pc THEN 0 ELSE 1) < (IF pd THEN 0 ELSE 1) <=> pc /\ ~ pd
  OBVIOUS
<1>8. (IF pc THEN 0 ELSE 1) = (IF pd THEN 0 ELSE 1) <=> (pc <=> pd)
  OBVIOUS
<1>9. (0 - sc < 0 - sd <=> sc > sd) /\ (0 - sc = 0 - sd <=> sc = sd)
  BY <1>1, <1>2
<1> QED  BY <1>3, <1>4, <1>5, <1>6, <1>7, <1>8, <1>9

\* The first of the ranked scores is one of the candidates, and ahead of all
\* others.
LEMMA RankedFirst ==
    ASSUME NEW conf, NEW unit, unit.task_type \in SupportedTasks, NEW route,
           NEW S, S # {}, Comparable(S)
    PROVE  LET best == First(S, LAMBDA c, d : RankedBefore(conf, unit, route, c, d))
           IN  /\ best \in S
               /\ \A y \in S \ {best} : RankedBefore(conf, unit, route, best, y)
<1> DEFINE f1 == [c \in S |-> IF Passes(conf, unit, route, c) THEN 0 ELSE 1]
           f2 == [c \in S |-> 10000 - Score(conf, unit, route, c)]
           f3 == [c \in S |-> c.priority]
           f4 == [c \in S |-> c.cost]
           f5 == [c \in S |-> c.id]
<1>1. \A c \in S : /\ f1[c] \in Nat /\ f2[c] \in Nat /\ f3[c] \in Nat
                   /\ f4[c] \in Nat /\ f5[c] \in Nat
  <2> SUFFICES ASSUME NEW c \in S
               PROVE  /\ f1[c] \in Nat /\ f2[c] \in Nat /\ f3[c] \in Nat
                      /\ f4[c] \in Nat /\ f5[c] \in Nat
    OBVIOUS
  <2>1. c.priority \in Nat /\ c.cost \in Nat /\ c.id \in Nat
    BY DEF Comparable
  <2>2. 10000 - Score(conf, unit, route, c) \in Nat
    <3> DEFINE score == Score(conf, unit, route, c)
    <3>1. score \in Nat /\ score <= 10000
      BY <2>1, ScoreBounds
    <3> HIDE DEF score
    <3>2. 10000 - score \in Nat
      BY <3>1
    <3> QED  BY <3>2 DEF score
  <2> QED  BY <2>1, <2>2
<1> HIDE DEF f1, f2, f3, f4, f5
<1>2. AreKeys(S, f1, f2, f3, f4, f5)
  <2>1. \A x, y \in S : f5[x] = f5[y] => x = y
    BY DEF Comparable, f5
  <2> QED  BY <1>1, <2>1 DEF AreKeys
<1>3. PICK x \in S : \A y \in S \ {x} : AheadBy(f1, f2, f3, f4, f5, x, y)
  BY <1>2, LeastByKeys
<1>4. ASSUME NEW y \in S \ {x}
      PROVE  RankedBefore(conf, unit, route, x, y)
  <2> DEFINE px == Passes(conf, unit, route, x)
             py == Passes(conf, unit, route, y)
             sx == Score(conf, unit, route, x)
             sy == Score(conf, unit, route, y)
  <2>1. /\ x.id \in Nat /\ x.priority \in Nat /\ x.cost \in Nat
        /\ y.id \in Nat /\ y.priority \in Nat /\ y.cost \in Nat
    BY DEF Comparable
  <2>2. sx \in Nat
    BY <2>1, ScoreBounds
  <2>3. sy \in Nat
    BY <2>1, ScoreBounds
  <2>4. /\ f1[x] = (IF px THEN 0 ELSE 1) /\ f1[y] = (IF py THEN 0 ELSE 1)
        /\ f2[x] = 10000 - sx /\ f2[y] = 10000 - sy
        /\ f3[x] = x.priority /\ f3[y] = y.priority
        /\ f4[x] = x.cost /\ f4[y] = y.cost /\ f5[x] = x.id /\ f5[y] = y.id
    BY DEF f1, f2, f3, f4, f5
  <2>5. AheadBy(f1, f2, f3, f4, f5, x, y)
    BY <1>3
  <2> HIDE DEF px, py, sx, sy
  <2>6. /\ f1[x] < f1[y] => px /\ ~ py
        /\ f1[x] = f1[y] => (px <=> py)
        /\ f2[x] < f2[y] => sx > sy
        /\ f2[x] = f2[y] => sx = sy
    BY <2>2, <2>3, <2>4
  <2>7. Ahead(conf, unit, route, x, y)
    BY <2>4, <2>5, <2>6 DEF AheadBy, Ahead, px, py, sx, sy
  <2> QED  BY <2>1, <2>7, RankedIsAhead
<1>5. \E z \in S : \A y \in S \ {z} : RankedBefore(conf, unit, route, z, y)
  BY <1>4
<1> QED  BY <1>5 DEF First

\* Whatever comes after a candidate that passes passes only if it does too.
LEMMA PassesFirst ==
    ASSUME NEW conf, NEW unit, NEW route, NEW c, NEW d,
           RankedBefore(conf, unit, route, c, d), Passes(conf, unit, route, d)
    PROVE  Passes(conf, unit, route, c)
<1> DEFINE key(z) == << IF Passes(conf, unit, route, z) THEN 0 ELSE 1,
                        0 - Score(conf, unit, route, z), z.priority, z.cost, z.id >>
           kc == key(c)
           kd == key(d)
<1>1. PICK i \in 1 .. 5 : kc[i] < kd[i] /\ \A j \in 1 .. i - 1 : kc[j] = kd[j]
  BY DEF RankedBefore
<1>2. kd[1] = 0
  OBVIOUS
<1>3. kc[1] = IF Passes(conf, unit, route, c) THEN 0 ELSE 1
  OBVIOUS
<1> HIDE DEF kc, kd
<1>4. CASE i = 1
  BY <1>1, <1>2, <1>3, <1>4
<1>5. CASE i # 1
  <2>1. 1 \in 1 .. i - 1
    BY <1>5
  <2> QED  BY <1>1, <1>2, <1>3, <2>1
<1> QED  BY <1>4, <1>5

-----------------------------------------------------------------------------
(* Plans *)

\* A plan is made only if every rule of the task resolves, there is one, and
\* the task has a verifier.
LEMMA GenerationFacts ==
    ASSUME NEW conf, NEW task_type, GenerationErrors(conf, task_type) = {}
    PROVE  /\ \A rule \in MatchingRules(conf, task_type) : ResolutionErrors(conf, rule) = {}
           /\ MatchingRules(conf, task_type) # {}
           /\ conf.verifier_mapping[task_type] # None
<1>1. UNION {ResolutionErrors(conf, rule) : rule \in MatchingRules(conf, task_type)} = {}
  BY DEF GenerationErrors
<1>2. {e \in {"no_candidates", "no_verifier"} :
          \/ e = "no_candidates" /\ MatchingRules(conf, task_type) = {}
          \/ e = "no_verifier" /\ conf.verifier_mapping[task_type] = None} = {}
  BY DEF GenerationErrors
<1> QED  BY <1>1, <1>2

LEMMA CandidatesComparable ==
    ASSUME NEW conf, WellFormed(conf), NEW task_type,
           GenerationErrors(conf, task_type) = {}
    PROVE  Candidates(conf, task_type) # {} /\ Comparable(Candidates(conf, task_type))
<1>1. Candidates(conf, task_type) # {}
  BY GenerationFacts DEF Candidates
<1>2. Comparable(Candidates(conf, task_type))
  BY GenerationFacts, CandidatesFacts DEF Comparable
<1> QED  BY <1>1, <1>2

\* What the selection of a plan is when its candidates are told apart by ids.
LEMMA SelectedById ==
    ASSUME NEW route, NEW c \in route.candidates, Comparable(route.candidates),
           route.selected = c.id
    PROVE  Selected(route) = c
  BY DEF Selected, Comparable

\* The parts of a plan.
LEMMA BaselineParts ==
    ASSUME NEW conf, NEW unit
    PROVE  /\ BaselinePlan(conf, unit).task_type = unit.task_type
           /\ BaselinePlan(conf, unit).task_level = unit.task_level
           /\ BaselinePlan(conf, unit).candidates = Candidates(conf, unit.task_type)
           /\ BaselinePlan(conf, unit).verifier_recipe_id = conf.verifier_mapping[unit.task_type]
           /\ BaselinePlan(conf, unit).selected =
                  First(Candidates(conf, unit.task_type), BaselineBefore).id
  BY DEF BaselinePlan, Candidates

LEMMA PlanParts ==
    ASSUME NEW conf, NEW unit
    PROVE  /\ PlanRoute(conf, unit).task_type = unit.task_type
           /\ PlanRoute(conf, unit).task_level = unit.task_level
           /\ PlanRoute(conf, unit).candidates = Candidates(conf, unit.task_type)
           /\ PlanRoute(conf, unit).verifier_recipe_id = conf.verifier_mapping[unit.task_type]
           /\ PlanRoute(conf, unit).selected =
                  IF conf.scored THEN ScoredSelection(conf, unit, BaselinePlan(conf, unit))
                  ELSE BaselinePlan(conf, unit).selected
<1> DEFINE base == BaselinePlan(conf, unit)
           best == ScoredSelection(conf, unit, base)
<1>1. base = [task_type |-> unit.task_type, task_level |-> unit.task_level,
              candidates |-> Candidates(conf, unit.task_type),
              selected |-> base.selected,
              verifier_recipe_id |-> conf.verifier_mapping[unit.task_type]]
  BY DEF BaselinePlan, Candidates
<1>2. PlanRoute(conf, unit) = IF conf.scored THEN [base EXCEPT !.selected = best] ELSE base
  BY DEF PlanRoute
<1> HIDE DEF base, best
<1>3. CASE conf.scored
  <2>1. PlanRoute(conf, unit) = [base EXCEPT !.selected = best]
    BY <1>2, <1>3
  <2> QED  BY <1>1, <1>3, <2>1 DEF base, best
<1>4. CASE ~ conf.scored
  <2>1. PlanRoute(conf, unit) = base
    BY <1>2, <1>4
  <2> QED  BY <1>1, <1>4, <2>1 DEF base
<1> QED  BY <1>3, <1>4

\* A plan selects one of its candidates: the best one if one passes.
LEMMA SelectedFacts ==
    ASSUME NEW conf, WellFormed(conf),
           NEW unit, unit.task_type \in SupportedTasks,
           GenerationErrors(conf, unit.task_type) = {}
    PROVE  LET base == BaselinePlan(conf, unit)
               c == Selected(PlanRoute(conf, unit))
           IN  /\ c \in Candidates(conf, unit.task_type)
               /\ c.id = PlanRoute(conf, unit).selected
               /\ conf.scored =>
                    \A d \in Candidates(conf, unit.task_type) :
                        Passes(conf, unit, base, d) => Passes(conf, unit, base, c)
<1> DEFINE base == BaselinePlan(conf, unit)
           route == PlanRoute(conf, unit)
           S == Candidates(conf, unit.task_type)
           best == First(S, LAMBDA c, d : RankedBefore(conf, unit, base, c, d))
           first == First(S, BaselineBefore)
<1>1. S # {} /\ Comparable(S)
  BY CandidatesComparable
<1>2. first \in S
  BY <1>1, BaselineFirst
<1>3. best \in S /\ \A y \in S \ {best} : RankedBefore(conf, unit, base, best, y)
  BY <1>1, RankedFirst
<1>4. /\ base.candidates = S /\ base.selected = first.id
      /\ route.candidates = S
      /\ route.selected = IF conf.scored THEN ScoredSelection(conf, unit, base)
                          ELSE base.selected
  BY BaselineParts, PlanParts
<1>5. ScoredSelection(conf, unit, base) =
          IF \E c \in S : Passes(conf, unit, base, c) THEN best.id ELSE first.id
  BY <1>4 DEF ScoredSelection
<1> HIDE DEF base, route, S, best, first
<1>6. CASE conf.scored /\ \E c \in S : Passes(conf, unit, base, c)
  <2>1. route.selected = best.id
    BY <1>4, <1>5, <1>6
  <2>2. Selected(route) = best
    BY <1>1, <1>3, <1>4, <2>1, SelectedById
  <2>3. \A d \in S : Passes(conf, unit, base, d) => Passes(conf, unit, base, best)
    BY <1>3, PassesFirst
  <2> QED  BY <1>3, <2>1, <2>2, <2>3 DEF base, route, S
<1>7. CASE ~ (conf.scored /\ \E c \in S : Passes(conf, unit, base, c))
  <2>1. route.selected = first.id
    BY <1>4, <1>5, <1>7
  <2>2. Selected(route) = first
    BY <1>1, <1>2, <1>4, <2>1, SelectedById
  <2> QED  BY <1>2, <1>7, <2>1, <2>2 DEF base, route, S
<1> QED  BY <1>6, <1>7

\* What a plan that is made says of what it selects.
LEMMA PlanFacts ==
    ASSUME NEW conf, WellFormed(conf),
           NEW unit, unit.task_type \in SupportedTasks,
           RouteErrors(conf, unit) = {}
    PROVE  LET c == Selected(PlanRoute(conf, unit))
           IN  /\ GenerationErrors(conf, unit.task_type) = {}
               /\ ValidationErrors(conf, BaselinePlan(conf, unit)) = {}
               /\ c \in Candidates(conf, unit.task_type)
               /\ \E rule \in MatchingRules(conf, unit.task_type) : IsCandidateOf(c, conf, rule)
               /\ \A d \in Candidates(conf, unit.task_type) :
                     /\ d.backend_class \notin conf.routebook_forbidden
                     /\ d.backend_class \in GatewayClasses => d.worker_id = Gateway
<1>1. GenerationErrors(conf, unit.task_type) = {}
  BY DEF RouteErrors
<1>2. ValidationErrors(conf, BaselinePlan(conf, unit)) = {}
  BY DEF RouteErrors
<1>3. Selected(PlanRoute(conf, unit)) \in Candidates(conf, unit.task_type)
  BY <1>1, SelectedFacts
<1>4. \E rule \in MatchingRules(conf, unit.task_type) :
          IsCandidateOf(Selected(PlanRoute(conf, unit)), conf, rule)
  BY <1>1, <1>3, GenerationFacts, CandidatesFacts
<1>5. ASSUME NEW d \in Candidates(conf, unit.task_type)
      PROVE  /\ d.backend_class \notin conf.routebook_forbidden
             /\ d.backend_class \in GatewayClasses => d.worker_id = Gateway
  <2> DEFINE base == BaselinePlan(conf, unit)
  <2>1. d \in base.candidates
    BY BaselineParts
  <2> HIDE DEF base
  <2>2. "forbidden_class" \notin ValidationErrors(conf, base)
        /\ "worker_direct_api" \notin ValidationErrors(conf, base)
    BY <1>2 DEF base
  <2> QED  BY <2>1, <2>2 DEF ValidationErrors
<1> QED  BY <1>1, <1>2, <1>3, <1>4, <1>5

-----------------------------------------------------------------------------
(* The inductive invariant: what is known of each variable by stage *)

Planned == {"planned", "error", "denied", "assigned", "completed", "verified", "billed"}
Submissions == {"submitted", "unroutable"} \cup Planned
Reported == {"verified", "billed"}

\* A work unit that either door makes.
IsWork(unit) ==
    /\ unit.task_type \in SupportedTasks
    /\ unit.task_level \in {"L0", "L1", "L2"}
    /\ unit.privacy_level = "private"

ConfigInv ==
    /\ disk \in DOMAIN Config
    /\ loaded # None => loaded \in DOMAIN Config
    /\ stage \in {"idle", "refused"} \cup Submissions
    /\ stage \in Submissions => judge \in DOMAIN Config /\ IsWork(work)

\* The files do not change once a request is submitted: the plan is that of
\* the files as they are.
PlanInv ==
    /\ stage \in Planned => RouteErrors(Config[disk], work) = {}
                            /\ plan = PlanRoute(Config[disk], work)
    /\ stage \notin Planned => plan = None

DecisionInv ==
    /\ decision \in {None, "approved", "denied"}
    /\ stage \notin Planned => decision = None
    /\ stage = "planned" => decision = None
    /\ decision = "approved" => PolicyFailures(Config[judge], work, plan) = {}
    /\ decision = "denied" =>
          stage = "denied" /\ PolicyFailures(Config[judge], work, plan) # {}

ReportInv ==
    /\ stage \in Reported =>
          LET checks == Checks(plan.task_type, result.envelope, decision)
          IN  report = [checks |-> checks,
                        recommendation |-> Recommendation(plan.task_type, checks)]
    /\ stage \notin Reported => report = None
    /\ stage \in {"completed"} \cup Reported /\ result.own =>
          result.envelope = Executed(Selected(plan).backend_class, work,
                                     Selected(plan).worker_id)

DecisionsInv == ConfigInv /\ PlanInv /\ DecisionInv /\ ReportInv

LEMMA DecisionsInvInit == Init => DecisionsInv
  BY DecisionsAssumption
  DEF Init, DecisionsInv, ConfigInv, PlanInv, DecisionInv, ReportInv, Submissions,
         Planned, Reported

\* What both doors make is a work unit of a supported task.
LEMMA WorkUnitFacts ==
    ASSUME NEW t \in SupportedTasks, NEW inline
    PROVE  IsWork(WorkUnit(t, inline))
<1> DEFINE level == [url_check |-> "L0", dedup |-> "L1", webpage_extraction |-> "L1",
                     topic_classification |-> "L1", claim_extraction |-> "L2"]
<1>1. level[t] \in {"L0", "L1", "L2"}
  BY DEF SupportedTasks, TaskDefaults
<1>2. /\ WorkUnit(t, inline).task_type = t
      /\ WorkUnit(t, inline).task_level = level[t]
      /\ WorkUnit(t, inline).privacy_level = "private"
  BY DEF WorkUnit
<1> QED  BY <1>1, <1>2 DEF IsWork

LEMMA IngressTask ==
    ASSUME NEW r, IngressErrors(r) = {}
    PROVE  TaskTypeOf(r) \in SupportedTasks
  BY DEF IngressErrors

LEMMA ServerTask ==
    ASSUME NEW r, ServerErrors(r) = {}
    PROVE  r.payload.task_type \in SupportedTasks
  BY DEF ServerErrors

\* Every action keeps the invariant.
LEMMA DecisionsInvStep ==
    ASSUME DecisionsInv, [Next]_vars
    PROVE  DecisionsInv'
<1> USE DEF DecisionsInv, ConfigInv, PlanInv, DecisionInv, ReportInv, Submissions,
            Planned, Reported
<1> USE DecisionsAssumption
<1>1. CASE StartServer
  BY <1>1 DEF StartServer
<1>2. CASE EditConfig
  BY <1>2 DEF EditConfig
<1>3. CASE \E r \in Requests : EstimateRoute(r)
  BY <1>3 DEF EstimateRoute
<1>4. ASSUME NEW r \in Requests, SubmitToAdapter(r)
      PROVE  DecisionsInv'
  <2>1. CASE IngressErrors(r) # {}
    BY <1>4, <2>1 DEF SubmitToAdapter
  <2>2. CASE IngressErrors(r) = {}
    <3>1. IsWork(work')
      BY <1>4, <2>2, IngressTask, WorkUnitFacts DEF SubmitToAdapter
    <3> QED  BY <1>4, <2>2, <3>1 DEF SubmitToAdapter
  <2> QED  BY <2>1, <2>2
<1>5. ASSUME NEW r \in Requests, SubmitToServer(r)
      PROVE  DecisionsInv'
  <2>1. CASE ServerErrors(r) # {}
    BY <1>5, <2>1 DEF SubmitToServer
  <2>2. CASE ServerErrors(r) = {}
    <3>1. IsWork(work')
      BY <1>5, <2>2, ServerTask, WorkUnitFacts DEF SubmitToServer
    <3> QED  BY <1>5, <2>2, <3>1 DEF SubmitToServer
  <2> QED  BY <2>1, <2>2
<1>6. CASE Plan
  BY <1>6 DEF Plan
<1>7. CASE Judge
  <2> DEFINE failures == PolicyFailures(Config[judge], work, plan)
  <2>1. /\ stage = "planned"
        /\ UNCHANGED << disk, edited, loaded, request, quote, work, judge, plan, result,
                        report, entry >>
        /\ \/ stage' = "error" /\ UNCHANGED decision
           \/ stage' = "denied" /\ decision' = "denied" /\ failures # {}
           \/ stage' = "assigned" /\ decision' = "approved" /\ failures = {}
    BY <1>7 DEF Judge
  <2>2. CASE stage' = "error" /\ UNCHANGED decision
    BY <2>1, <2>2
  <2>3. CASE stage' = "denied" /\ decision' = "denied" /\ failures # {}
    BY <2>1, <2>3
  <2>4. CASE stage' = "assigned" /\ decision' = "approved" /\ failures = {}
    BY <2>1, <2>4
  <2> QED  BY <2>1, <2>2, <2>3, <2>4
<1>8. CASE ExecuteByWorker
  BY <1>8 DEF ExecuteByWorker, ResultOfAdapter
<1>9. CASE ExecuteByGateway
  BY <1>9 DEF ExecuteByGateway, ResultOfAdapter
<1>10. CASE ExecutionRefused
  BY <1>10 DEF ExecutionRefused
<1>11. CASE ReturnOther
  BY <1>11 DEF ReturnOther
<1>12. CASE Verify
  BY <1>12 DEF Verify
<1>13. CASE Bill
  BY <1>13 DEF Bill
<1>14. CASE UNCHANGED vars
  BY <1>14 DEF vars
<1> QED  BY <1>1, <1>2, <1>3, <1>4, <1>5, <1>6, <1>7, <1>8, <1>9, <1>10, <1>11, <1>12,
            <1>13, <1>14 DEF Next

\* Every reachable state of the decisions satisfies the invariant.
LEMMA DecisionsInvariant == Spec => []DecisionsInv
<1>1. Init => DecisionsInv
  BY DecisionsInvInit
<1>2. DecisionsInv /\ [Next]_vars => DecisionsInv'
  BY DecisionsInvStep
<1> QED  BY <1>1, <1>2, PTL DEF Spec

-----------------------------------------------------------------------------
(* Router and policy *)

\* What the resolver has looked at, of a rule that it resolves.
LEMMA ResolutionFacts ==
    ASSUME NEW conf, NEW rule, ResolutionErrors(conf, rule) = {}
    PROVE  LET b == BackendOf(conf, rule)
               w == WorkerOf(conf, rule, b)
           IN  /\ b \in DOMAIN conf.backends
               /\ conf.allowed_ids # {} => b \in conf.allowed_ids
               /\ conf.allowed_classes # {} =>
                      conf.backends[b].class \in conf.allowed_classes
               /\ w \in DOMAIN conf.workers
               /\ Supports(conf, w, b)
<1> DEFINE b == BackendOf(conf, rule)
           w == WorkerOf(conf, rule, b)
           noId == conf.allowed_ids # {} /\ b \notin conf.allowed_ids
           noClass == conf.allowed_classes # {}
                      /\ conf.backends[b].class \notin conf.allowed_classes
           noWorker == w \notin DOMAIN conf.workers
           unable == w \in DOMAIN conf.workers /\ ~ Supports(conf, w, b)
<1>1. b \in DOMAIN conf.backends
  BY ResolvedBackend
<1>2. /\ "id_not_allowed" \notin ResolutionErrors(conf, rule)
      /\ "class_not_allowed" \notin ResolutionErrors(conf, rule)
      /\ "worker_unknown" \notin ResolutionErrors(conf, rule)
      /\ "unsupported" \notin ResolutionErrors(conf, rule)
  OBVIOUS
<1>3. /\ noId => "id_not_allowed" \in ResolutionErrors(conf, rule)
      /\ noClass => "class_not_allowed" \in ResolutionErrors(conf, rule)
      /\ noWorker => "worker_unknown" \in ResolutionErrors(conf, rule)
      /\ unable => "unsupported" \in ResolutionErrors(conf, rule)
  BY <1>1 DEF ResolutionErrors
<1> QED  BY <1>1, <1>2, <1>3

\* What the policy has looked at, of a plan that it approves.
LEMMA ApprovalFacts ==
    ASSUME NEW conf, NEW unit, NEW route, PolicyFailures(conf, unit, route) = {}
    PROVE  /\ Selected(route).backend_id \in conf.allowed_ids
           /\ Selected(route).backend_class \in conf.allowed_classes \ conf.forbidden
<1> DEFINE c == Selected(route)
<1>1. /\ c.backend_id \notin conf.allowed_ids =>
            "backend_allowlist" \in PolicyFailures(conf, unit, route)
      /\ c.backend_class \notin conf.allowed_classes =>
            "backend_class_allowlist" \in PolicyFailures(conf, unit, route)
      /\ c.backend_class \in conf.forbidden =>
            "forbidden_backend_class" \in PolicyFailures(conf, unit, route)
  BY DEF PolicyFailures
<1> QED  BY <1>1

\* A plan, once it is made.
LEMMA PlannedFacts ==
    ASSUME DecisionsInv, stage \in Planned
    PROVE  LET conf == Config[disk]
               c == Selected(plan)
           IN  /\ disk \in DOMAIN Config /\ judge \in DOMAIN Config
               /\ WellFormed(conf)
               /\ IsWork(work)
               /\ plan = PlanRoute(conf, work)
               /\ plan.candidates = Candidates(conf, work.task_type)
               /\ plan.task_type = work.task_type
               /\ plan.task_level = work.task_level
               /\ plan.verifier_recipe_id = work.task_type
               /\ c \in plan.candidates
               /\ \A d \in plan.candidates :
                     /\ d.backend_class \notin conf.routebook_forbidden
                     /\ d.backend_class \in GatewayClasses => d.worker_id = Gateway
               /\ \E rule \in MatchingRules(conf, work.task_type) :
                     /\ IsCandidateOf(c, conf, rule)
                     /\ ResolutionErrors(conf, rule) = {}
<1> DEFINE conf == Config[disk]
           c == Selected(plan)
<1>1. /\ disk \in DOMAIN Config /\ judge \in DOMAIN Config
      /\ IsWork(work)
      /\ RouteErrors(conf, work) = {}
      /\ plan = PlanRoute(conf, work)
  BY DEF DecisionsInv, ConfigInv, PlanInv, Submissions
<1>2. WellFormed(conf)
  BY <1>1, DecisionsAssumption
<1>3. work.task_type \in SupportedTasks
  BY <1>1 DEF IsWork
<1> HIDE DEF conf
<1>4. /\ plan.candidates = Candidates(conf, work.task_type)
      /\ plan.task_type = work.task_type
      /\ plan.task_level = work.task_level
      /\ plan.verifier_recipe_id = conf.verifier_mapping[work.task_type]
  BY <1>1, PlanParts
<1>5. /\ GenerationErrors(conf, work.task_type) = {}
      /\ c \in Candidates(conf, work.task_type)
      /\ \E rule \in MatchingRules(conf, work.task_type) : IsCandidateOf(c, conf, rule)
      /\ \A d \in Candidates(conf, work.task_type) :
            /\ d.backend_class \notin conf.routebook_forbidden
            /\ d.backend_class \in GatewayClasses => d.worker_id = Gateway
  BY <1>1, <1>2, <1>3, PlanFacts
<1>6. conf.verifier_mapping[work.task_type] = work.task_type
  BY <1>2, <1>3, <1>5, GenerationFacts DEF WellFormed
<1>7. \E rule \in MatchingRules(conf, work.task_type) :
          IsCandidateOf(c, conf, rule) /\ ResolutionErrors(conf, rule) = {}
  BY <1>5, GenerationFacts
<1> QED  BY <1>1, <1>2, <1>4, <1>5, <1>6, <1>7 DEF conf

\* What the router allows of the candidate that a plan selects.
LEMMA RouterAllows ==
    ASSUME DecisionsInv, stage \in Planned
    PROVE  LET conf == Config[disk]
               c == Selected(plan)
           IN  /\ conf.allowed_ids # {} => c.backend_id \in conf.allowed_ids
               /\ conf.allowed_classes # {} => c.backend_class \in conf.allowed_classes
               /\ c.backend_class \notin conf.routebook_forbidden
<1> DEFINE conf == Config[disk]
           c == Selected(plan)
<1>1. PICK rule \in MatchingRules(conf, work.task_type) :
          IsCandidateOf(c, conf, rule) /\ ResolutionErrors(conf, rule) = {}
  BY PlannedFacts
<1>2. c \in plan.candidates
      /\ \A d \in plan.candidates : d.backend_class \notin conf.routebook_forbidden
  BY PlannedFacts
<1> HIDE DEF conf, c
<1>3. /\ c.backend_id = BackendOf(conf, rule)
      /\ c.backend_class = conf.backends[c.backend_id].class
  BY <1>1 DEF IsCandidateOf
<1>4. /\ conf.allowed_ids # {} => BackendOf(conf, rule) \in conf.allowed_ids
      /\ conf.allowed_classes # {} =>
            conf.backends[BackendOf(conf, rule)].class \in conf.allowed_classes
  BY <1>1, ResolutionFacts
<1> QED  BY <1>2, <1>3, <1>4 DEF conf, c

\* Whatever was edited between the start of the server and the plan, a backend
\* that is approved is on the lists that the server loaded and on those that
\* the router read; and with one configuration the policy denies only for
\* what the router does not look at.
THEOREM RouterAgreesWithPolicy == Spec => []PolicyAndRouterAgree
<1>1. DecisionsInv => ApprovedByBoth
  <2> SUFFICES ASSUME DecisionsInv, decision = "approved"
               PROVE  ApprovedByBoth
    BY DEF ApprovedByBoth
  <2>1. stage \in Planned /\ PolicyFailures(Config[judge], work, plan) = {}
    BY DecisionsAssumption DEF DecisionsInv, DecisionInv
  <2> QED  BY <2>1, ApprovalFacts, RouterAllows DEF ApprovedByBoth
<1>2. DecisionsInv => DeniedByConfig
  <2> SUFFICES ASSUME DecisionsInv, decision = "denied", judge = disk
               PROVE  DeniedByConfig
    BY DEF DeniedByConfig
  <2> DEFINE conf == Config[disk]
             c == Selected(plan)
  <2>1. stage \in Planned /\ PolicyFailures(conf, work, plan) # {}
    BY DEF DecisionsInv, DecisionInv, Planned
  <2>2. /\ plan.verifier_recipe_id = work.task_type
        /\ work.task_type \in SupportedTasks
        /\ c.backend_class \in GatewayClasses => c.worker_id = Gateway
    BY <2>1, PlannedFacts DEF IsWork
  <2>3. plan.verifier_recipe_id # None
    BY <2>2, DecisionsAssumption
  <2>4. /\ conf.allowed_ids # {} => c.backend_id \in conf.allowed_ids
        /\ conf.allowed_classes # {} => c.backend_class \in conf.allowed_classes
        /\ c.backend_class \notin conf.routebook_forbidden
    BY <2>1, RouterAllows
  <2> HIDE DEF conf
  <2>5. \/ c.backend_id \notin conf.allowed_ids
        \/ c.backend_class \notin conf.allowed_classes
        \/ c.backend_class \in conf.forbidden
        \/ "float_micros" \in TextsOf(work.inline)
    BY <2>1, <2>2, <2>3 DEF PolicyFailures
  <2>6. \/ conf.allowed_ids = {} \/ conf.allowed_classes = {}
        \/ c.backend_class \in conf.forbidden \ conf.routebook_forbidden
        \/ "float_micros" \in TextsOf(work.inline)
    BY <2>4, <2>5
  <2> QED  BY <2>6 DEF DeniedByConfig, conf
<1> QED  BY <1>1, <1>2, DecisionsInvariant, PTL DEF PolicyAndRouterAgree

-----------------------------------------------------------------------------
(* Placement *)

\* The first of some numbers is one of them.
LEMMA FirstNumber ==
    ASSUME NEW S, S \subseteq Nat, S # {}
    PROVE  First(S, <) \in S
<1>1. PICK x \in S : \A y \in S : x <= y
  BY LeastExists
<1>2. \A y \in S \ {x} : x < y
  BY <1>1
<1>3. \E z \in S : \A y \in S \ {z} : z < y
  BY <1>2
<1> QED  BY <1>3 DEF First

\* A local backend is sent to the gateway only where a rule says so.
LEMMA GatewayOnlyByRule ==
    ASSUME NEW conf, WellFormed(conf), NEW rule, NEW b,
           conf.backends[b].class \notin GatewayClasses,
           WorkerOf(conf, rule, b) = Gateway
    PROVE  rule.worker_id = Gateway
<1> DEFINE able == {w \in DOMAIN conf.workers \ {Gateway} : Supports(conf, w, b)}
<1>1. WorkerOf(conf, rule, b) = IF rule.worker_id # None THEN rule.worker_id ELSE First(able, <)
  BY DEF WorkerOf
<1>2. CASE rule.worker_id # None
  BY <1>1, <1>2
<1>3. CASE rule.worker_id = None
  <2>1. First(able, <) = Gateway
    BY <1>1, <1>3
  <2>2. able \subseteq Nat
    BY DEF WellFormed
  <2>3. CASE able = {}
    <3>1. First(able, <) = None
      BY <2>3 DEF First
    <3> QED  BY <2>1, <3>1, DecisionsAssumption
  <2>4. CASE able # {}
    <3>1. First(able, <) \in Nat
      BY <2>2, <2>4, FirstNumber
    <3> QED  BY <2>1, <3>1, DecisionsAssumption
  <2> QED  BY <2>3, <2>4
<1> QED  BY <1>2, <1>3

\* An approved assignment is at a worker that declares its backend and its
\* class; models of a provider are at the gateway, local backends elsewhere
\* unless a rule names the gateway; and the plan has the verifier of its task.
THEOREM PlacementIsRight == Spec => []ApprovedIsPlaced
<1>1. DecisionsInv => ApprovedIsPlaced
  <2> SUFFICES ASSUME DecisionsInv, decision = "approved"
               PROVE  ApprovedIsPlaced
    BY DEF ApprovedIsPlaced
  <2> DEFINE conf == Config[disk]
             c == Selected(plan)
  <2>1. stage \in Planned
    BY DecisionsAssumption DEF DecisionsInv, DecisionInv
  <2>2. /\ WellFormed(conf)
        /\ c.backend_class \in GatewayClasses => c.worker_id = Gateway
        /\ plan.verifier_recipe_id = plan.task_type
    BY <2>1, PlannedFacts
  <2>3. PICK rule \in MatchingRules(conf, work.task_type) :
            IsCandidateOf(c, conf, rule) /\ ResolutionErrors(conf, rule) = {}
    BY <2>1, PlannedFacts
  <2> HIDE DEF conf, c
  <2>4. /\ rule \in conf.rules
        /\ c.id = rule.id
        /\ c.backend_id = BackendOf(conf, rule)
        /\ c.backend_class = conf.backends[c.backend_id].class
        /\ c.worker_id = WorkerOf(conf, rule, c.backend_id)
    BY <2>3 DEF IsCandidateOf
  <2>5. c.worker_id \in DOMAIN conf.workers /\ Supports(conf, c.worker_id, c.backend_id)
    BY <2>3, <2>4, ResolutionFacts
  <2>6. c.worker_id = Gateway /\ c.backend_class \notin GatewayClasses =>
            rule.worker_id = Gateway
    BY <2>2, <2>4, GatewayOnlyByRule
  <2> QED  BY <2>2, <2>4, <2>5, <2>6 DEF ApprovedIsPlaced, conf, c
<1> QED  BY <1>1, DecisionsInvariant, PTL

-----------------------------------------------------------------------------
(* Private data *)

\* What the preflight makes of a unit above L0 in which it finds private data
\* only: it may run, at its own level, where sensitive data is allowed.
LEMMA PrivateUnit ==
    ASSUME NEW unit, IsWork(unit), unit.signals = {"private_data"}, unit.task_level # "L0"
    PROVE  /\ PreflightAllows(unit) /\ ~ RawSecret(unit)
           /\ EffectivePrivacy(unit) = "sensitive"
           /\ EffectiveLevel(unit) = unit.task_level
<1>1. ~ RawSecret(unit) /\ PrivateData(unit) /\ PreflightAllows(unit)
  BY DEF RawSecret, PrivateData, PreflightAllows
<1>2. EffectivePrivacy(unit) = "sensitive"
  BY <1>1 DEF EffectivePrivacy, Raised, PrivacyOrder, IsWork
<1>3. EffectiveLevel(unit) = Raised(unit.task_level, "L1", LevelOrder)
  <2> DEFINE secret == RawSecret(unit)
             private == PrivateData(unit)
             target == CASE secret -> "L2" [] ~ secret /\ private -> "L1"
                         [] OTHER -> IF Difficulty(unit) \in {"high", "expert"} THEN "L2"
                                     ELSE unit.task_level
  <2>1. EffectiveLevel(unit) = Raised(unit.task_level, target, LevelOrder)
    BY DEF EffectiveLevel
  <2>2. target = "L1"
    <3> HIDE DEF secret, private
    <3>1. ~ secret /\ private
      BY <1>1 DEF secret, private
    <3> QED  BY <3>1
  <2> QED  BY <2>1, <2>2
<1>4. Raised(unit.task_level, "L1", LevelOrder) = unit.task_level
  BY DEF Raised, LevelOrder, IsWork
<1> QED  BY <1>1, <1>2, <1>3, <1>4

\* Input that the preflight takes for private data goes to a backend that may
\* have sensitive data, is up and supports the task, if the plan has one:
\* no price, latency or priority outweighs a filter.
THEOREM PrivateDataIsKept == Spec => []PrivateDataStays
<1> DEFINE conf == Config[disk]
           base == BaselinePlan(conf, work)
           fit(c) == /\ "sensitive" \in conf.backends[c.backend_id].privacy
                     /\ conf.backends[c.backend_id].health # "unhealthy"
                     /\ work.task_type \in conf.backends[c.backend_id].tasks
<1>1. DecisionsInv => PrivateDataStays
  <2> SUFFICES ASSUME DecisionsInv, plan # None, conf.scored,
                      work.signals = {"private_data"}, work.task_level # "L0",
                      NEW d \in plan.candidates, fit(d)
               PROVE  fit(Selected(plan))
    BY DEF PrivateDataStays
  <2>1. stage \in Planned
    BY DEF DecisionsInv, PlanInv
  <2>2. /\ WellFormed(conf) /\ IsWork(work)
        /\ plan = PlanRoute(conf, work)
        /\ plan.candidates = Candidates(conf, work.task_type)
        /\ d.backend_class \notin conf.routebook_forbidden
        /\ d.backend_class \in GatewayClasses => d.worker_id = Gateway
    BY <2>1, PlannedFacts
  <2>3. GenerationErrors(conf, work.task_type) = {} /\ work.task_type \in SupportedTasks
    BY <2>1 DEF DecisionsInv, PlanInv, ConfigInv, Submissions, IsWork, RouteErrors
  <2>4. /\ PreflightAllows(work) /\ ~ RawSecret(work)
        /\ EffectivePrivacy(work) = "sensitive"
        /\ EffectiveLevel(work) = work.task_level
    BY <2>2, PrivateUnit
  <2>5. d.verifier_recipe_id # None
    <3>1. PICK rule \in MatchingRules(conf, work.task_type) : IsCandidateOf(d, conf, rule)
      BY <2>2, <2>3, GenerationFacts, CandidatesFacts
    <3>2. d.verifier_recipe_id = conf.verifier_mapping[work.task_type]
      BY <3>1 DEF IsCandidateOf, MatchingRules
    <3> QED  BY <2>3, <3>2, GenerationFacts
  <2>6. base.task_level = work.task_level
    BY BaselineParts
  <2>7. ~ (LevelOrder[base.task_level] < LevelOrder[EffectiveLevel(work)])
    BY <2>2, <2>4, <2>6 DEF LevelOrder, IsWork
  <2>8. Passes(conf, work, base, d)
    <3> HIDE DEF conf, base
    <3> QED  BY <2>2, <2>4, <2>5, <2>7 DEF Passes, FailedFilters, Available, conf
  <2>9. Passes(conf, work, base, Selected(plan))
    BY <2>2, <2>3, <2>8, SelectedFacts
  <2> HIDE DEF conf, base
  <2>10. FailedFilters(conf, work, base, Selected(plan)) = {}
    BY <2>9 DEF Passes
  <2>11. /\ "privacy_boundary_allowed" \notin FailedFilters(conf, work, base, Selected(plan))
         /\ "capacity_health" \notin FailedFilters(conf, work, base, Selected(plan))
         /\ "task_type_supported" \notin FailedFilters(conf, work, base, Selected(plan))
    BY <2>10
  <2> QED  BY <2>4, <2>11 DEF FailedFilters, Available
<1> QED  BY <1>1, DecisionsInvariant, PTL

-----------------------------------------------------------------------------
(* The verdict *)

Warnings ==
    {<< "url_status", "needs_review" >>, << "dedup_overmerge", "needs_review" >>,
     << "topic_confidence", "needs_review" >>, << "webpage_prompt_injection", "needs_review" >>}

\* what fails for any task type
CommonFailures ==
    {<< "secret_redaction", "failed" >>, << "output_hash_valid", "failed" >>,
     << "result_hash_valid", "failed" >>, << "output_schema", "failed" >>,
     << "policy_linkage", "failed" >>}

TaskFailures ==
    {"url_policy_safety", "url_timeout", "url_status", "dedup_exact", "topic_label_enum",
     "topic_confidence_range", "claim_source_ref", "claim_entity", "claim_text",
     "claim_type_enum", "claim_confidence_range", "claim_evidence_hint", "webpage_empty"}
    \X {"failed"}

\* The least of a set of numbers.
LEMMA MinFacts ==
    ASSUME NEW S, S \subseteq Nat, S # {}
    PROVE  Min(S) \in S /\ \A i \in S : Min(S) <= i
<1>1. \E x \in S : \A y \in S : x <= y
  BY LeastExists
<1> QED  BY <1>1 DEF Min

\* The rules of the recommendation: those that accept look for a warning, and
\* come after those for what fails for any task type.
LEMMA RuleFacts ==
    ASSUME NEW recipe
    PROVE  /\ DOMAIN Rules(recipe) = 1 .. 15
           /\ \A i \in 1 .. 15 : Rules(recipe)[i][2] \in Accepts =>
                  i \in {6, 8, 11, 15} /\ Rules(recipe)[i][1] \subseteq Warnings
           /\ \A c \in CommonFailures : \E i \in 1 .. 4 : c \in Rules(recipe)[i][1]
           /\ \A c \in TaskFailures : \E i \in 1 .. 15 : c \in Rules(recipe)[i][1]
           /\ \A c \in Warnings : \E i \in 1 .. 15 : c \in Rules(recipe)[i][1]
           /\ \A i \in {1, 2} : Rules(recipe)[i][2] = "quarantine"
           /\ << "secret_redaction", "failed" >> \in Rules(recipe)[1][1]
           /\ << "output_hash_valid", "failed" >> \in Rules(recipe)[2][1]
           /\ << "result_hash_valid", "failed" >> \in Rules(recipe)[2][1]
<1> DEFINE rule == Rules(recipe)
<1>1. /\ DOMAIN rule = 1 .. 15
      /\ rule[1] = << {<< "secret_redaction", "failed" >>}, "quarantine" >>
      /\ rule[2] = << {<< "output_hash_valid", "failed" >>, << "result_hash_valid", "failed" >>},
                      "quarantine" >>
      /\ rule[3] = << {<< "output_schema", "failed" >>},
                      IF recipe = "dedup" THEN "reject" ELSE "retry" >>
      /\ rule[4] = << {<< "policy_linkage", "failed" >>, << "url_policy_safety", "failed" >>},
                      "quarantine" >>
      /\ rule[5] = << {<< "url_timeout", "failed" >>}, "retry" >>
      /\ rule[6] = << {<< "url_status", "needs_review" >>}, "accept_with_warning" >>
      /\ rule[7] = << {<< "url_status", "failed" >>}, "reject" >>
      /\ rule[8] = << {<< "dedup_overmerge", "needs_review" >>}, "accept_with_warning" >>
      /\ rule[9] = << {<< "dedup_exact", "failed" >>}, "reject" >>
      /\ rule[10] = << {<< "topic_label_enum", "failed" >>,
                        << "topic_confidence_range", "failed" >>}, "retry" >>
      /\ rule[11] = << {<< "topic_confidence", "needs_review" >>}, "accept_with_warning" >>
      /\ rule[12] = << {<< "claim_source_ref", "failed" >>}, "fallback" >>
      /\ rule[13] = << {<< "claim_entity", "failed" >>, << "claim_text", "failed" >>,
                        << "claim_type_enum", "failed" >>,
                        << "claim_confidence_range", "failed" >>,
                        << "claim_evidence_hint", "failed" >>}, "retry" >>
      /\ rule[14] = << {<< "webpage_empty", "failed" >>}, "fallback" >>
      /\ rule[15] = << {<< "webpage_prompt_injection", "needs_review" >>},
                       "accept_with_warning" >>
  BY DEF Rules
<1> HIDE DEF rule
<1>2. ASSUME NEW i \in 1 .. 15, rule[i][2] \in Accepts
      PROVE  i \in {6, 8, 11, 15} /\ rule[i][1] \subseteq Warnings
  <2>1. i \in {1, 2, 3, 4, 5, 7, 9, 10, 12, 13, 14} => rule[i][2] \notin Accepts
    BY <1>1 DEF Accepts
  <2>2. i \in {6, 8, 11, 15}
    BY <1>2, <2>1
  <2>3. rule[i][1] \subseteq Warnings
    BY <1>1, <2>2 DEF Warnings
  <2> QED  BY <2>2, <2>3
<1>3. \A c \in CommonFailures : \E i \in 1 .. 4 : c \in rule[i][1]
  <2>1. /\ << "secret_redaction", "failed" >> \in rule[1][1]
        /\ << "output_hash_valid", "failed" >> \in rule[2][1]
        /\ << "result_hash_valid", "failed" >> \in rule[2][1]
        /\ << "output_schema", "failed" >> \in rule[3][1]
        /\ << "policy_linkage", "failed" >> \in rule[4][1]
    BY <1>1
  <2>2. {1, 2, 3, 4} \subseteq 1 .. 4
    OBVIOUS
  <2> QED  BY <2>1, <2>2 DEF CommonFailures
<1>4. ASSUME NEW c \in TaskFailures
      PROVE  \E i \in 1 .. 15 : c \in rule[i][1]
  <2>1. PICK n \in {"url_policy_safety", "url_timeout", "url_status", "dedup_exact",
                    "topic_label_enum", "topic_confidence_range", "claim_source_ref",
                    "claim_entity", "claim_text", "claim_type_enum",
                    "claim_confidence_range", "claim_evidence_hint", "webpage_empty"} :
            c = << n, "failed" >>
    BY DEF TaskFailures
  <2>2. /\ << "url_policy_safety", "failed" >> \in rule[4][1]
        /\ << "url_timeout", "failed" >> \in rule[5][1]
        /\ << "url_status", "failed" >> \in rule[7][1]
        /\ << "dedup_exact", "failed" >> \in rule[9][1]
        /\ << "topic_label_enum", "failed" >> \in rule[10][1]
        /\ << "topic_confidence_range", "failed" >> \in rule[10][1]
        /\ << "claim_source_ref", "failed" >> \in rule[12][1]
        /\ << "claim_entity", "failed" >> \in rule[13][1]
        /\ << "claim_text", "failed" >> \in rule[13][1]
        /\ << "claim_type_enum", "failed" >> \in rule[13][1]
        /\ << "claim_confidence_range", "failed" >> \in rule[13][1]
        /\ << "claim_evidence_hint", "failed" >> \in rule[13][1]
        /\ << "webpage_empty", "failed" >> \in rule[14][1]
    BY <1>1
  <2>3. {4, 5, 7, 9, 10, 12, 13, 14} \subseteq 1 .. 15
    OBVIOUS
  <2> QED  BY <2>1, <2>2, <2>3
<1>5. \A c \in Warnings : \E i \in 1 .. 15 : c \in rule[i][1]
  <2>1. /\ << "url_status", "needs_review" >> \in rule[6][1]
        /\ << "dedup_overmerge", "needs_review" >> \in rule[8][1]
        /\ << "topic_confidence", "needs_review" >> \in rule[11][1]
        /\ << "webpage_prompt_injection", "needs_review" >> \in rule[15][1]
    BY <1>1
  <2>2. {6, 8, 11, 15} \subseteq 1 .. 15
    OBVIOUS
  <2> QED  BY <2>1, <2>2 DEF Warnings
<1>6. /\ \A i \in {1, 2} : rule[i][2] = "quarantine"
      /\ << "secret_redaction", "failed" >> \in rule[1][1]
      /\ << "output_hash_valid", "failed" >> \in rule[2][1]
      /\ << "result_hash_valid", "failed" >> \in rule[2][1]
  BY <1>1
<1> QED  BY <1>1, <1>2, <1>3, <1>4, <1>5, <1>6 DEF rule

\* What the recommendation says of the checks that it is made of.
LEMMA RecommendationFacts ==
    ASSUME NEW recipe, NEW checks
    PROVE  /\ Recommendation(recipe, checks) \in Accepts =>
                 /\ CommonFailures \cap checks = {}
                 /\ Warnings \cap checks # {}
                    \/ (TaskFailures \cap checks = {} /\ Warnings \cap checks = {})
           /\ (\E i \in {1, 2} : Rules(recipe)[i][1] \cap checks # {}) =>
                 Recommendation(recipe, checks) = "quarantine"
<1> DEFINE rule == Rules(recipe)
           hits == {i \in 1 .. 15 : rule[i][1] \cap checks # {}}
           m == Min(hits)
<1>1. /\ Recommendation(recipe, checks) = IF hits = {} THEN "accept" ELSE rule[m][2]
  BY RuleFacts DEF Recommendation
<1>2. \A i \in 1 .. 15 : i \in hits <=> \E c \in checks : c \in rule[i][1]
  OBVIOUS
<1>3. hits # {} => /\ m \in hits /\ m \in 1 .. 15
                   /\ \A i \in hits : m <= i
  <2>1. hits \subseteq Nat /\ hits \subseteq 1 .. 15
    OBVIOUS
  <2> HIDE DEF hits
  <2> QED  BY <2>1, MinFacts
<1> HIDE DEF hits, m, rule
<1>4. /\ \A i \in 1 .. 15 : rule[i][2] \in Accepts =>
            i \in {6, 8, 11, 15} /\ rule[i][1] \subseteq Warnings
      /\ \A c \in CommonFailures : \E i \in 1 .. 4 : c \in rule[i][1]
      /\ \A c \in TaskFailures : \E i \in 1 .. 15 : c \in rule[i][1]
      /\ \A c \in Warnings : \E i \in 1 .. 15 : c \in rule[i][1]
      /\ \A i \in {1, 2} : rule[i][2] = "quarantine"
  BY RuleFacts DEF rule
<1>5. ASSUME Recommendation(recipe, checks) \in Accepts, hits = {}
      PROVE  /\ CommonFailures \cap checks = {} /\ TaskFailures \cap checks = {}
             /\ Warnings \cap checks = {}
  <2>1. \A i \in 1 .. 15 : \A c \in checks : c \notin rule[i][1]
    BY <1>2, <1>5
  <2>2. 1 .. 4 \subseteq 1 .. 15
    OBVIOUS
  <2> QED  BY <1>4, <2>1, <2>2
<1>6. ASSUME Recommendation(recipe, checks) \in Accepts, hits # {}
      PROVE  CommonFailures \cap checks = {} /\ Warnings \cap checks # {}
  <2>1. m \in {6, 8, 11, 15} /\ rule[m][1] \subseteq Warnings
    BY <1>1, <1>3, <1>4, <1>6
  <2>2. \A i \in 1 .. 4 : i \notin hits
    <3>1. m > 4
      BY <2>1
    <3> QED  BY <1>3, <1>6, <2>1, <3>1
  <2>3. CommonFailures \cap checks = {}
    <3>1. \A i \in 1 .. 4 : i \in 1 .. 15
      OBVIOUS
    <3> QED  BY <1>2, <1>4, <2>2, <3>1
  <2>4. \E c \in checks : c \in rule[m][1]
    BY <1>2, <1>3, <1>6
  <2> QED  BY <2>1, <2>3, <2>4
<1>7. ASSUME NEW i \in {1, 2}, rule[i][1] \cap checks # {}
      PROVE  Recommendation(recipe, checks) = "quarantine"
  <2>1. i \in hits
    BY <1>2, <1>7
  <2>2. m \in {1, 2}
    <3>1. m \in 1 .. 15 /\ m <= i
      BY <1>3, <2>1
    <3> QED  BY <3>1
  <2> QED  BY <1>1, <1>4, <2>1, <2>2
<1> QED  BY <1>5, <1>6, <1>7 DEF rule

\* The checks of a task fail, or there is one warning.
LEMMA TaskChecksShape ==
    ASSUME NEW recipe \in SupportedTasks, NEW output
    PROVE  \/ TaskChecks(recipe, output) \subseteq TaskFailures
           \/ \E w \in Warnings : TaskChecks(recipe, output) = {w}
<1>1. \/ UrlChecks(output) \subseteq TaskFailures
      \/ UrlChecks(output) = {<< "url_status", "needs_review" >>}
  <2> DEFINE denied == Truthy(output, "private_ip_denied") \/ Truthy(output, "redirect_denied")
             late == Truthy(output, "timed_out")
             code == Field(output, "status_code")
             fine == (code = None /\ Field(output, "ok") = TRUE) \/ code \in 200 .. 299
             review == code \in 400 .. 499
             rest == IF fine THEN {} ELSE IF review THEN {<< "url_status", "needs_review" >>}
                     ELSE {<< "url_status", "failed" >>}
  <2>1. UrlChecks(output) =
            CASE denied -> {<< "url_policy_safety", "failed" >>}
              [] ~ denied /\ late -> {<< "url_timeout", "failed" >>}
              [] OTHER -> rest
    BY DEF UrlChecks
  <2> HIDE DEF denied, late, rest
  <2>2. \/ UrlChecks(output) = {<< "url_policy_safety", "failed" >>}
        \/ UrlChecks(output) = {<< "url_timeout", "failed" >>}
        \/ UrlChecks(output) = rest
    BY <2>1
  <2>3. \/ rest = {} \/ rest = {<< "url_status", "needs_review" >>}
        \/ rest = {<< "url_status", "failed" >>}
    <3> HIDE DEF fine, review
    <3> QED  BY DEF rest
  <2> QED  BY <2>2, <2>3 DEF TaskFailures
<1>2. \/ DedupChecks(output) \subseteq TaskFailures
      \/ DedupChecks(output) = {<< "dedup_overmerge", "needs_review" >>}
  BY DEF DedupChecks, TaskFailures
<1>3. \/ TopicChecks(output) \subseteq TaskFailures
      \/ TopicChecks(output) = {<< "topic_confidence", "needs_review" >>}
  BY DEF TopicChecks, TaskFailures
<1>4. \/ WebpageChecks(output) \subseteq TaskFailures
      \/ WebpageChecks(output) = {<< "webpage_prompt_injection", "needs_review" >>}
  BY DEF WebpageChecks, TaskFailures
<1>5. ASSUME NEW claim
      PROVE  ClaimChecks(output, claim) \subseteq TaskFailures
  <2> DEFINE named == {"claim_text", "claim_entity", "claim_type_enum", "claim_confidence_range",
                       "claim_source_ref", "claim_evidence_hint"} \X {"failed"}
  <2>1. named \subseteq TaskFailures /\ << "claim_entity", "failed" >> \in named
    BY DEF TaskFailures
  <2>2. \/ ClaimChecks(output, claim) = {<< "claim_entity", "failed" >>}
        \/ ClaimChecks(output, claim) \subseteq named
    <3>1. CASE ~ Usable(claim)
      BY <3>1, Zenon DEF ClaimChecks
    <3>2. CASE Usable(claim)
      BY <3>2, Zenon DEF ClaimChecks
    <3> QED  BY <3>1, <3>2
  <2> HIDE DEF named
  <2> QED  BY <2>1, <2>2
<1> DEFINE claims == IF Field(output, "claims") \in {None, Malformed, Blank, << >>}
                     THEN {<< "claim_entity", "failed" >>}
                     ELSE UNION {ClaimChecks(output, output.claims[i]) :
                                    i \in DOMAIN output.claims}
<1>6. claims \subseteq TaskFailures
  <2>1. {<< "claim_entity", "failed" >>} \subseteq TaskFailures
    BY DEF TaskFailures
  <2>2. UNION {ClaimChecks(output, output.claims[i]) : i \in DOMAIN output.claims}
            \subseteq TaskFailures
    BY <1>5
  <2> QED  BY <2>1, <2>2
<1>7. TaskChecks(recipe, output) =
          CASE recipe = "url_check" -> UrlChecks(output)
            [] recipe = "dedup" -> DedupChecks(output)
            [] recipe = "topic_classification" -> TopicChecks(output)
            [] recipe = "claim_extraction" -> claims
            [] OTHER -> WebpageChecks(output)
  BY DEF TaskChecks
<1> HIDE DEF claims
<1>8. \/ TaskChecks(recipe, output) = UrlChecks(output)
      \/ TaskChecks(recipe, output) = DedupChecks(output)
      \/ TaskChecks(recipe, output) = TopicChecks(output)
      \/ TaskChecks(recipe, output) = claims
      \/ TaskChecks(recipe, output) = WebpageChecks(output)
  BY <1>7
<1>9. /\ << "url_status", "needs_review" >> \in Warnings
      /\ << "dedup_overmerge", "needs_review" >> \in Warnings
      /\ << "topic_confidence", "needs_review" >> \in Warnings
      /\ << "webpage_prompt_injection", "needs_review" >> \in Warnings
  BY DEF Warnings
<1> QED  BY <1>1, <1>2, <1>3, <1>4, <1>6, <1>8, <1>9

\* The checks that every task type has.
LEMMA CommonChecksShape ==
    ASSUME NEW recipe, NEW envelope, NEW verdict
    PROVE  HashChecks(envelope) \cup PolicyChecks(verdict) \cup SecretChecks(envelope)
           \cup SchemaChecks(recipe, envelope.output) \subseteq CommonFailures
<1>1. HashChecks(envelope) \subseteq CommonFailures
  BY DEF HashChecks, CommonFailures
<1>2. PolicyChecks(verdict) \subseteq CommonFailures
  BY DEF PolicyChecks, CommonFailures
<1>3. SecretChecks(envelope) \subseteq CommonFailures
  BY DEF SecretChecks, CommonFailures
<1>4. SchemaChecks(recipe, envelope.output) \subseteq {<< "output_schema", "failed" >>}
  BY DEF SchemaChecks
<1>5. << "output_schema", "failed" >> \in CommonFailures
  BY DEF CommonFailures
<1> QED  BY <1>1, <1>2, <1>3, <1>4, <1>5

\* What is accepted has at most one check that does not pass, a warning.
LEMMA AcceptedChecks ==
    ASSUME NEW recipe \in SupportedTasks, NEW envelope, NEW verdict,
           Recommendation(recipe, Checks(recipe, envelope, verdict)) \in Accepts
    PROVE  Checks(recipe, envelope, verdict) \subseteq Warnings
<1> DEFINE common == HashChecks(envelope) \cup PolicyChecks(verdict) \cup SecretChecks(envelope)
                     \cup SchemaChecks(recipe, envelope.output)
           task == TaskChecks(recipe, envelope.output)
           checks == Checks(recipe, envelope, verdict)
<1>1. checks = common \cup task
  BY DEF Checks
<1>2. common \subseteq CommonFailures
  BY CommonChecksShape
<1>3. task \subseteq TaskFailures \/ \E w \in Warnings : task = {w}
  BY TaskChecksShape
<1>4. /\ CommonFailures \cap checks = {}
      /\ Warnings \cap checks # {}
         \/ (TaskFailures \cap checks = {} /\ Warnings \cap checks = {})
  BY RecommendationFacts
<1>5. TaskFailures \cap Warnings = {}
  BY DEF TaskFailures, Warnings
<1> HIDE DEF common, task, checks
<1>6. common = {}
  BY <1>1, <1>2, <1>4
<1>7. checks = task
  BY <1>1, <1>6
<1>8. CASE task \subseteq TaskFailures
  <2>1. Warnings \cap checks = {}
    BY <1>5, <1>7, <1>8
  <2> QED  BY <1>4, <1>7, <1>8, <2>1 DEF checks
<1>9. CASE \E w \in Warnings : task = {w}
  BY <1>7, <1>9 DEF checks
<1> QED  BY <1>3, <1>8, <1>9

\* A failure that an adapter reports has no output to speak of.
LEMMA FailedOutput ==
    ASSUME NEW class, NEW unit, NEW worker,
           Executed(class, unit, worker).status = "failed"
    PROVE  Executed(class, unit, worker).output = [ok |-> FALSE]
<1>1. \A s, o, e, k : Envelope(s, o, e, k).status = s /\ Envelope(s, o, e, k).output = o
  BY DEF Envelope
<1>2. \A s, o : /\ LocalEnvelope(s, o).status = s /\ LocalEnvelope(s, o).output = o
                /\ GatewayEnvelope(s, o).status = s /\ GatewayEnvelope(s, o).output = o
  BY <1>1 DEF LocalEnvelope, GatewayEnvelope
<1> DEFINE e == Executed(class, unit, worker)
           model == ApiModelGateway(unit.task_type, unit.inline, worker)
<1>3. LocalTool(unit.inline).status = "failed" => LocalTool(unit.inline).output = Failure
  BY <1>2 DEF LocalTool
<1>4. LocalScript(unit.inline).status # "failed"
  <2>1. \E o : LocalScript(unit.inline) = LocalEnvelope("succeeded", o)
    BY Zenon DEF LocalScript
  <2> QED  BY <1>2, <2>1
<1>5. BrowserFetch(unit.inline).status = "failed" => BrowserFetch(unit.inline).output = Failure
  <2>1. \/ BrowserFetch(unit.inline) = LocalEnvelope("failed", Failure)
        \/ \E o : BrowserFetch(unit.inline) = LocalEnvelope("succeeded", o)
    BY Zenon DEF BrowserFetch
  <2> QED  BY <1>2, <2>1
<1>6. model.status = "failed" => model.output = Failure
  <2>1. \/ model = GatewayEnvelope("succeeded", Topic(unit.inline))
        \/ model = GatewayEnvelope("succeeded", Claims(unit.inline))
        \/ model = GatewayEnvelope("failed", Failure)
    BY DEF ApiModelGateway
  <2> HIDE DEF model
  <2> QED  BY <1>2, <2>1
<1>7. /\ PrimaryModelGateway.output = Failure
      /\ UnsupportedBackend.output = Failure
  BY <1>2 DEF PrimaryModelGateway, UnsupportedBackend
<1>8. \/ e = LocalTool(unit.inline)
      \/ e = LocalScript(unit.inline)
      \/ e = BrowserFetch(unit.inline)
      \/ e = model
      \/ e = PrimaryModelGateway
      \/ e = UnsupportedBackend
  BY DEF Executed
<1> HIDE DEF e, model
<1>9. e.status = "failed"
  BY DEF e
<1>10. e.output = Failure
  BY <1>3, <1>4, <1>5, <1>6, <1>7, <1>8, <1>9
<1> QED  BY <1>10 DEF e, Failure

\* An output like that fails a check of every recipe.
LEMMA FailedOutputFails ==
    ASSUME NEW recipe \in SupportedTasks, NEW envelope, NEW verdict,
           envelope.output = [ok |-> FALSE]
    PROVE  ~ Checks(recipe, envelope, verdict) \subseteq Warnings
<1> DEFINE output == [ok |-> FALSE]
<1>1. CASE recipe # "url_check"
  <2> DEFINE required == [url_check |-> {"ok"}, dedup |-> {"unique_items", "duplicate_count"},
                          webpage_extraction |-> {"extracted"},
                          topic_classification |-> {"label", "confidence"},
                          claim_extraction |-> {"claims"}][recipe]
  <2>1. \E k \in required : k # "ok"
    BY <1>1 DEF SupportedTasks, TaskDefaults
  <2>2. \E k \in required : ~ Present(output, k)
    BY <2>1 DEF Present
  <2>3. << "output_schema", "failed" >> \in SchemaChecks(recipe, output)
    <3> HIDE DEF output
    <3> QED  BY <2>2 DEF SchemaChecks
  <2>4. << "output_schema", "failed" >> \in Checks(recipe, envelope, verdict)
    BY <2>3 DEF Checks
  <2>5. << "output_schema", "failed" >> \notin Warnings
    BY DEF Warnings
  <2> QED  BY <2>4, <2>5
<1>2. CASE recipe = "url_check"
  <2>1. \/ << "url_policy_safety", "failed" >> \in UrlChecks(output)
        \/ << "url_timeout", "failed" >> \in UrlChecks(output)
        \/ << "url_status", "failed" >> \in UrlChecks(output)
    <3> DEFINE denied == Truthy(output, "private_ip_denied") \/ Truthy(output, "redirect_denied")
               late == Truthy(output, "timed_out")
               code == Field(output, "status_code")
               fine == (code = None /\ Field(output, "ok") = TRUE) \/ code \in 200 .. 299
               review == code \in 400 .. 499
               rest == IF fine THEN {} ELSE IF review THEN {<< "url_status", "needs_review" >>}
                       ELSE {<< "url_status", "failed" >>}
    <3>1. UrlChecks(output) =
              CASE denied -> {<< "url_policy_safety", "failed" >>}
                [] ~ denied /\ late -> {<< "url_timeout", "failed" >>}
                [] OTHER -> rest
      BY DEF UrlChecks
    <3>2. code = None /\ Field(output, "ok") = FALSE
      BY DEF Field
    <3>3. code \notin 200 .. 299 /\ code \notin 400 .. 499
      BY <3>2, DecisionsAssumption
    <3>4. ~ fine /\ ~ review
      BY <3>2, <3>3
    <3> HIDE DEF denied, late, fine, review
    <3>5. rest = {<< "url_status", "failed" >>}
      BY <3>4
    <3> HIDE DEF rest
    <3>6. \/ UrlChecks(output) = {<< "url_policy_safety", "failed" >>}
          \/ UrlChecks(output) = {<< "url_timeout", "failed" >>}
          \/ UrlChecks(output) = rest
      BY <3>1
    <3> QED  BY <3>5, <3>6
  <2>2. TaskChecks(recipe, output) = UrlChecks(output)
    BY <1>2 DEF TaskChecks
  <2>3. UrlChecks(output) \subseteq Checks(recipe, envelope, verdict)
    BY <2>2 DEF Checks
  <2>4. /\ << "url_policy_safety", "failed" >> \notin Warnings
        /\ << "url_timeout", "failed" >> \notin Warnings
        /\ << "url_status", "failed" >> \notin Warnings
    BY DEF Warnings
  <2> QED  BY <2>1, <2>3, <2>4
<1> QED  BY <1>1, <1>2

\* What is wrong with an envelope is among its checks.
LEMMA WrongIsChecked ==
    ASSUME NEW recipe, NEW envelope, NEW verdict
    PROVE  LET checks == Checks(recipe, envelope, verdict)
           IN  /\ ~ envelope.output_hash_valid => << "output_hash_valid", "failed" >> \in checks
               /\ ~ envelope.result_hash_valid => << "result_hash_valid", "failed" >> \in checks
               /\ verdict # "approved" => << "policy_linkage", "failed" >> \in checks
               /\ (\E v \in EnvelopeStrings(envelope) : LooksSecret(v)) =>
                     << "secret_redaction", "failed" >> \in checks
<1>1. /\ ~ envelope.output_hash_valid =>
            << "output_hash_valid", "failed" >> \in HashChecks(envelope)
      /\ ~ envelope.result_hash_valid =>
            << "result_hash_valid", "failed" >> \in HashChecks(envelope)
  BY DEF HashChecks
<1>2. verdict # "approved" => << "policy_linkage", "failed" >> \in PolicyChecks(verdict)
  BY DEF PolicyChecks
<1>3. (\E v \in EnvelopeStrings(envelope) : LooksSecret(v)) =>
          << "secret_redaction", "failed" >> \in SecretChecks(envelope)
  BY DEF SecretChecks
<1> QED  BY <1>1, <1>2, <1>3 DEF Checks

\* A report, once it is made.
LEMMA ReportedFacts ==
    ASSUME DecisionsInv, report # None
    PROVE  LET checks == Checks(work.task_type, result.envelope, decision)
           IN  /\ stage \in Reported
               /\ work.task_type \in SupportedTasks
               /\ report.checks = checks
               /\ report.recommendation = Recommendation(work.task_type, checks)
<1>1. stage \in Reported /\ stage \in Planned
  BY DEF DecisionsInv, ReportInv, Reported, Planned
<1>2. work.task_type \in SupportedTasks /\ plan.task_type = work.task_type
  BY <1>1, PlannedFacts DEF IsWork
<1> QED  BY <1>1, <1>2 DEF DecisionsInv, ReportInv

\* Acting on a recommendation is safe whichever of several failed checks
\* decides it: what is accepted is clean, what was tampered with or shows a
\* secret is quarantined, and no failure of an adapter is accepted.
THEOREM VerdictsAreSafe == Spec => []VerdictIsSafe
<1> DEFINE recipe == work.task_type
           envelope == result.envelope
           checks == Checks(recipe, envelope, decision)
<1>1. DecisionsInv => AcceptedIsClean
  <2> SUFFICES ASSUME DecisionsInv, report # None, report.recommendation \in Accepts
               PROVE  AcceptedIsClean
    BY DEF AcceptedIsClean
  <2>1. checks \subseteq Warnings
    BY ReportedFacts, AcceptedChecks
  <2>2. \A c \in checks : c[2] # "failed"
    <3> HIDE DEF checks
    <3> QED  BY <2>1 DEF Warnings
  <2>3. /\ << "output_hash_valid", "failed" >> \notin checks
        /\ << "result_hash_valid", "failed" >> \notin checks
        /\ << "policy_linkage", "failed" >> \notin checks
        /\ << "secret_redaction", "failed" >> \notin checks
    <3> HIDE DEF checks
    <3> QED  BY <2>1 DEF Warnings
  <2>4. /\ envelope.output_hash_valid /\ envelope.result_hash_valid
        /\ decision = "approved"
        /\ \A v \in EnvelopeStrings(envelope) : ~ LooksSecret(v)
    BY <2>3, WrongIsChecked
  <2>5. report.checks = checks
    BY ReportedFacts
  <2> QED  BY <2>2, <2>4, <2>5 DEF AcceptedIsClean
<1>2. DecisionsInv => TamperedIsQuarantined
  <2> SUFFICES ASSUME DecisionsInv, report # None, report.recommendation # "quarantine"
               PROVE  TamperedIsQuarantined
    BY DEF TamperedIsQuarantined
  <2>1. report.recommendation = Recommendation(recipe, checks)
    BY ReportedFacts
  <2>2. \A i \in {1, 2} : Rules(recipe)[i][1] \cap checks = {}
    BY <2>1, RecommendationFacts
  <2>3. /\ << "output_hash_valid", "failed" >> \notin checks
        /\ << "result_hash_valid", "failed" >> \notin checks
        /\ << "secret_redaction", "failed" >> \notin checks
    <3> HIDE DEF checks
    <3> QED  BY <2>2, RuleFacts
  <2> QED  BY <2>3, WrongIsChecked DEF TamperedIsQuarantined
<1>3. DecisionsInv => FailureNotAccepted
  <2> SUFFICES ASSUME DecisionsInv, report # None, result.own, envelope.status = "failed",
                      report.recommendation \in Accepts
               PROVE  FALSE
    BY DEF FailureNotAccepted
  <2>1. checks \subseteq Warnings
    BY ReportedFacts, AcceptedChecks
  <2>2. envelope = Executed(Selected(plan).backend_class, work, Selected(plan).worker_id)
    BY ReportedFacts DEF DecisionsInv, ReportInv
  <2>3. envelope.output = [ok |-> FALSE]
    BY <2>2, FailedOutput
  <2> QED  BY <2>1, <2>3, ReportedFacts, FailedOutputFails
<1> QED  BY <1>1, <1>2, <1>3, DecisionsInvariant, PTL DEF VerdictIsSafe

-----------------------------------------------------------------------------
(* Validated configurations *)

\* What the validators rule out of what the resolver raises.
LEMMA ValidatedResolution ==
    ASSUME NEW conf, WellFormed(conf), NEW rule \in conf.rules,
           ConfigIssues(conf) = {}, RoutebookIssues(conf) = {}
    PROVE  ResolutionErrors(conf, rule) \subseteq
               {"class_mismatch", "class_not_allowed", "class_unknown", "worker_unknown",
                "unsupported"}
<1> DEFINE b == BackendOf(conf, rule)
           w == WorkerOf(conf, rule, b)
<1>1. "backend_id_unknown" \notin RoutebookIssues(conf)
  OBVIOUS
<1>2. rule.backend_id \in DOMAIN conf.backends
  BY <1>1 DEF RoutebookIssues
<1>3. b = rule.backend_id
  BY <1>2, DecisionsAssumption DEF BackendOf, WellFormed
<1>4. /\ "execution_location_invalid" \notin RegistryIssues(conf)
      /\ "backend_id_not_allowed" \notin RegistryIssues(conf)
  BY DEF ConfigIssues
<1>5. /\ LocationValid(conf.backends[b])
      /\ conf.allowed_ids # {} => b \in conf.allowed_ids
  BY <1>2, <1>3, <1>4 DEF RegistryIssues
<1> HIDE DEF b, w
<1>6. b \in DOMAIN conf.backends
  BY <1>2, <1>3
<1>7. ASSUME NEW e \in ResolutionErrors(conf, rule)
      PROVE  e \notin {"backend_unknown", "id_not_allowed", "location"}
  BY <1>5, <1>6, <1>7 DEF ResolutionErrors, b
<1>8. ResolutionErrors(conf, rule) \subseteq
          {"backend_unknown", "class_mismatch", "id_not_allowed", "class_not_allowed",
           "class_unknown", "location", "worker_unknown", "unsupported"}
  BY DEF ResolutionErrors
<1> QED  BY <1>7, <1>8

\* What the validation of a plan whose rules all resolve may still raise.
LEMMA ValidatedPlan ==
    ASSUME NEW conf, WellFormed(conf),
           NEW unit, unit.task_type \in SupportedTasks,
           GenerationErrors(conf, unit.task_type) = {}
    PROVE  ValidationErrors(conf, BaselinePlan(conf, unit)) \subseteq
               {"forbidden_class", "forbidden_shape"}
<1> DEFINE base == BaselinePlan(conf, unit)
           S == Candidates(conf, unit.task_type)
<1>1. /\ base.candidates = S
      /\ base.task_type = unit.task_type
      /\ base.verifier_recipe_id = conf.verifier_mapping[unit.task_type]
      /\ base.selected = First(S, BaselineBefore).id
  BY BaselineParts
<1>2. First(S, BaselineBefore) \in S
  BY CandidatesComparable, BaselineFirst
<1>3. ASSUME NEW c \in S
      PROVE  /\ c.backend_id \in DOMAIN conf.backends
             /\ c.backend_class = conf.backends[c.backend_id].class
             /\ c.backend_class \in GatewayClasses => c.worker_id = Gateway
             /\ c.verifier_recipe_id = conf.verifier_mapping[unit.task_type]
  <2>1. PICK rule \in MatchingRules(conf, unit.task_type) : IsCandidateOf(c, conf, rule)
    BY GenerationFacts, CandidatesFacts
  <2>2. /\ c.backend_id \in DOMAIN conf.backends
        /\ c.backend_class = conf.backends[c.backend_id].class
        /\ c.worker_id = WorkerOf(conf, rule, c.backend_id)
        /\ c.verifier_recipe_id = conf.verifier_mapping[unit.task_type]
    BY <2>1 DEF IsCandidateOf, MatchingRules
  <2> QED  BY <2>2 DEF WorkerOf
<1>4. conf.verifier_mapping[unit.task_type] # None
  BY GenerationFacts
<1> HIDE DEF base, S
<1>5. base.selected \in {c.id : c \in base.candidates}
  BY <1>1, <1>2
<1>6. ASSUME NEW e \in ValidationErrors(conf, base)
      PROVE  e \in {"forbidden_class", "forbidden_shape"}
  BY <1>1, <1>3, <1>4, <1>5, <1>6 DEF ValidationErrors
<1> QED  BY <1>6 DEF base

\* A configuration that both validators pass leaves a supported task without
\* a route only for what neither of them looks at.
THEOREM ValidatedConfigsRoute == Spec => []ValidatedRoutes
<1>1. DecisionsInv => ValidatedRoutes
  <2> DEFINE conf == Config[disk]
             ignored == {"class_mismatch", "class_not_allowed", "class_unknown",
                         "worker_unknown", "unsupported", "no_candidates",
                         "forbidden_class", "forbidden_shape"}
  <2> SUFFICES ASSUME DecisionsInv, stage = "unroutable",
                      ConfigIssues(conf) = {}, RoutebookIssues(conf) = {}
               PROVE  RouteErrors(conf, work) \subseteq ignored
    BY DEF ValidatedRoutes
  <2>1. WellFormed(conf) /\ work.task_type \in SupportedTasks
    BY DecisionsAssumption DEF DecisionsInv, ConfigInv, Submissions, IsWork
  <2> HIDE DEF conf
  <2>2. conf.verifier_mapping[work.task_type] # None
    <3>1. "verifier_missing" \notin RoutebookIssues(conf)
      OBVIOUS
    <3> QED  BY <2>1, <3>1 DEF RoutebookIssues
  <2>3. GenerationErrors(conf, work.task_type) \subseteq ignored
    <3>1. \A rule \in MatchingRules(conf, work.task_type) :
              ResolutionErrors(conf, rule) \subseteq ignored
      BY <2>1, ValidatedResolution DEF MatchingRules
    <3>2. "no_candidates" \in ignored
      OBVIOUS
    <3> HIDE DEF ignored
    <3> QED  BY <2>2, <3>1, <3>2 DEF GenerationErrors
  <2>4. CASE GenerationErrors(conf, work.task_type) # {}
    BY <2>3, <2>4 DEF RouteErrors
  <2>5. CASE GenerationErrors(conf, work.task_type) = {}
    <3>1. ValidationErrors(conf, BaselinePlan(conf, work)) \subseteq ignored
      BY <2>1, <2>5, ValidatedPlan
    <3> QED  BY <2>5, <3>1 DEF RouteErrors
  <2> QED  BY <2>4, <2>5
<1> QED  BY <1>1, DecisionsInvariant, PTL

-----------------------------------------------------------------------------
(* The two doors *)

\* The texts of the defaults.
LEMMA DefaultsAreTexts ==
    /\ DefaultTopicLabels \in Seq(Texts) /\ DefaultClaimTypes \in Seq(Texts)
    /\ "src_claim_1" \in Texts /\ "TokenBank" \in Texts /\ "" \in Texts
<1>1. ToSet(DefaultTopicLabels) \subseteq Texts /\ ToSet(DefaultClaimTypes) \subseteq Texts
  BY ValuesAssumption
<1>2. DefaultTopicLabels \in Seq(Texts)
  BY <1>1 DEF ToSet, DefaultTopicLabels
<1>3. DefaultClaimTypes \in Seq(Texts)
  BY <1>1 DEF ToSet, DefaultClaimTypes
<1> QED  BY <1>2, <1>3, ValuesAssumption

\* Texts and lists of texts are of the type of their field.
LEMMA TextsAreUsable ==
    /\ \A v \in Texts : Usable(v)
    /\ \A v \in Seq(Texts) : Usable(v)
<1>1. \A absent \in {None, Malformed, Blank} : absent \notin Texts /\ absent \notin Seq(Texts)
  BY ValuesAssumption
<1> QED  BY <1>1 DEF Usable

\* The value of a field, unless it is empty or of another type.
Filled(key, v) == IF Usable(v) /\ IsTrue(key, v) THEN v ELSE None

LEMMA FilledFacts ==
    /\ \A key : Filled(key, None) = None
    /\ \A key, v : Filled(key, v) # None <=> Usable(v) /\ IsTrue(key, v)
    /\ \A key, v : ~ IsTrue(key, v) => Filled(key, v) = None
    /\ \A fields, key : Given(fields, key) = Filled(key, Field(fields, key))
<1>1. ~ Usable(None)
  BY DEF Usable
<1>2. ASSUME NEW fields, NEW key
      PROVE  Given(fields, key) = Filled(key, Field(fields, key))
  <2>1. CASE key \in DOMAIN fields
    BY <2>1, Zenon DEF Given, Filled, Field, NonEmpty
  <2>2. CASE key \notin DOMAIN fields
    BY <1>1, <2>2, Zenon DEF Given, Filled, Field
  <2> QED  BY <2>1, <2>2
<1> QED  BY <1>1, <1>2 DEF Filled

DefaultKeys == {"allowed_labels", "allowed_claim_types", "source_id"}

\* The defaults that submission fills in.
DefaultsOf(task) ==
    CASE task = "topic_classification" -> [allowed_labels |-> DefaultTopicLabels]
      [] task = "claim_extraction" ->
            [allowed_claim_types |-> DefaultClaimTypes, source_id |-> "src_claim_1"]
      [] OTHER -> << >>

\* They are of the type of their field, are not empty, and say what the topics
\* and the claims may be: none is a text, a page or a list.
LEMMA DefaultFacts ==
    ASSUME NEW task
    PROVE  /\ DOMAIN DefaultsOf(task) \subseteq DefaultKeys
           /\ \A k \in DOMAIN DefaultsOf(task) :
                 /\ NonEmpty(DefaultsOf(task), k)
                 /\ DefaultsOf(task)[k] \in IF k \in Lists THEN Seq(Texts) ELSE Texts
                 /\ \/ k = "allowed_labels" /\ DefaultsOf(task)[k] = DefaultTopicLabels
                    \/ k = "allowed_claim_types" /\ DefaultsOf(task)[k] = DefaultClaimTypes
                    \/ k = "source_id" /\ DefaultsOf(task)[k] = "src_claim_1"
           /\ task = "claim_extraction" => "source_id" \in DOMAIN DefaultsOf(task)
<1> DEFINE labels == [allowed_labels |-> DefaultTopicLabels]
           types == [allowed_claim_types |-> DefaultClaimTypes, source_id |-> "src_claim_1"]
           default == DefaultsOf(task)
           Is(k, v) == \/ k = "allowed_labels" /\ v = DefaultTopicLabels
                       \/ k = "allowed_claim_types" /\ v = DefaultClaimTypes
                       \/ k = "source_id" /\ v = "src_claim_1"
<1>1. default = labels \/ default = types \/ default = << >>
  <2>1. \/ task = "topic_classification" \/ task = "claim_extraction"
        \/ task \notin {"topic_classification", "claim_extraction"}
    OBVIOUS
  <2> HIDE DEF labels, types
  <2> QED  BY <2>1 DEF DefaultsOf, labels, types
<1>2. /\ DOMAIN labels = {"allowed_labels"}
      /\ labels["allowed_labels"] = DefaultTopicLabels
      /\ DOMAIN types = {"allowed_claim_types", "source_id"}
      /\ types["allowed_claim_types"] = DefaultClaimTypes
      /\ types["source_id"] = "src_claim_1"
  OBVIOUS
<1>3. task = "claim_extraction" => default = types
  BY DEF DefaultsOf
<1> HIDE DEF labels, types, default
<1>4. \A k \in DOMAIN default : Is(k, default[k]) /\ k \in DefaultKeys
  BY <1>1, <1>2 DEF DefaultKeys
<1>5. /\ DefaultTopicLabels # << >> /\ DefaultClaimTypes # << >> /\ "src_claim_1" # ""
  BY DEF DefaultTopicLabels, DefaultClaimTypes
<1>6. ASSUME NEW k, NEW v, Is(k, v)
      PROVE  /\ v \in IF k \in Lists THEN Seq(Texts) ELSE Texts
             /\ Usable(v) /\ v # (IF k \in Lists THEN << >> ELSE "")
  <2> HIDE DEF Is
  <2>1. CASE k = "allowed_labels" /\ v = DefaultTopicLabels
    BY <1>5, <2>1, DefaultsAreTexts, TextsAreUsable DEF Lists
  <2>2. CASE k = "allowed_claim_types" /\ v = DefaultClaimTypes
    BY <1>5, <2>2, DefaultsAreTexts, TextsAreUsable DEF Lists
  <2>3. CASE k = "source_id" /\ v = "src_claim_1"
    BY <1>5, <2>3, DefaultsAreTexts, TextsAreUsable DEF Lists
  <2> QED  BY <1>6, <2>1, <2>2, <2>3 DEF Is
<1>7. \A k, v : Is(k, v) => Usable(v) /\ IsTrue(k, v)
  BY <1>6 DEF IsTrue, Usable
<1>8. \A k \in DOMAIN default : NonEmpty(default, k)
  <2> HIDE DEF Is
  <2> QED  BY <1>4, <1>7 DEF NonEmpty
<1>9. \A k \in DOMAIN default : default[k] \in IF k \in Lists THEN Seq(Texts) ELSE Texts
  <2> HIDE DEF Is
  <2> QED  BY <1>4, <1>6
<1> QED  BY <1>2, <1>3, <1>4, <1>8, <1>9 DEF default

\* What a submission holds: what it is given, and defaults for what of that is
\* missing or empty.
LEMMA SubmittedParts ==
    ASSUME NEW task, NEW inline
    PROVE  LET default == DefaultsOf(task)
               given == {k \in DOMAIN inline : k \notin DOMAIN default \/ NonEmpty(inline, k)}
               full == Submitted(task, inline)
           IN  /\ DOMAIN full = given \cup DOMAIN default
               /\ \A k \in given : full[k] = inline[k]
               /\ \A k \in DOMAIN default \ given : full[k] = default[k]
<1> DEFINE default == DefaultsOf(task)
           given == {k \in DOMAIN inline : k \notin DOMAIN default \/ NonEmpty(inline, k)}
<1>1. Submitted(task, inline) = [k \in given \cup DOMAIN default |->
                                    IF k \in given THEN inline[k] ELSE default[k]]
  BY DEF Submitted, DefaultsOf
<1> HIDE DEF given, default
<1> QED  BY <1>1 DEF given, default

\* A submission gives what it was given, and the default for the rest.
LEMMA SubmittedGives ==
    ASSUME NEW task, NEW inline, NEW key
    PROVE  Given(Submitted(task, inline), key) =
               IF Given(inline, key) # None THEN Given(inline, key)
               ELSE Given(DefaultsOf(task), key)
<1> DEFINE default == DefaultsOf(task)
           given == {k \in DOMAIN inline : k \notin DOMAIN default \/ NonEmpty(inline, k)}
           full == Submitted(task, inline)
<1>1. /\ DOMAIN full = given \cup DOMAIN default
      /\ \A k \in given : full[k] = inline[k]
      /\ \A k \in DOMAIN default \ given : full[k] = default[k]
  BY SubmittedParts
<1>2. \A k \in DOMAIN default : NonEmpty(default, k)
  BY DefaultFacts
<1>3. \A f, k : NonEmpty(f, k) => f[k] # None
  BY DEF NonEmpty, Usable
<1>4. \A f, g, k : f[k] = g[k] => (NonEmpty(f, k) <=> NonEmpty(g, k))
  BY DEF NonEmpty
<1> HIDE DEF full, default
<1>5. CASE key \in DOMAIN inline /\ NonEmpty(inline, key)
  <2>1. key \in given /\ full[key] = inline[key]
    BY <1>1, <1>5
  <2> QED  BY <1>1, <1>3, <1>4, <1>5, <2>1 DEF Given, full
<1>6. CASE ~ (key \in DOMAIN inline /\ NonEmpty(inline, key)) /\ key \in DOMAIN default
  <2>1. key \notin given /\ full[key] = default[key] /\ key \in DOMAIN full
    BY <1>1, <1>6
  <2> QED  BY <1>2, <1>4, <1>6, <2>1 DEF Given, full, default
<1>7. CASE ~ (key \in DOMAIN inline /\ NonEmpty(inline, key)) /\ key \notin DOMAIN default
  <2>1. key \in DOMAIN full => key \in DOMAIN inline /\ full[key] = inline[key]
    BY <1>1, <1>7
  <2>2. ~ (key \in DOMAIN full /\ NonEmpty(full, key))
    BY <1>4, <1>7, <2>1
  <2> QED  BY <1>7, <2>2 DEF Given, full, default
<1> QED  BY <1>5, <1>6, <1>7

\* What the adapter's door gives, but for the source of a claim, and what the
\* server's door gives for the fields of its task.
LEMMA DoorsGive ==
    ASSUME NEW r, NEW k
    PROVE  /\ k \in TaskKeys(TaskTypeOf(r)) =>
                 \/ Given(InlineInput(r), k) = Given(PayloadFields(r), k)
                 \/ /\ TaskTypeOf(r) = "claim_extraction" /\ k = "source_id"
                    /\ Given(PayloadFields(r), k) = None
                    /\ Given(InlineInput(r), k) = "src_claim_1"
           /\ k \in TaskKeys(r.payload.task_type) =>
                 Given(ServerInput(r), k) = Filled(k, ServerField(r.payload, k))
<1>1. ASSUME k \in TaskKeys(TaskTypeOf(r))
      PROVE  \/ Given(InlineInput(r), k) = Given(PayloadFields(r), k)
             \/ /\ TaskTypeOf(r) = "claim_extraction" /\ k = "source_id"
                /\ Given(PayloadFields(r), k) = None
                /\ Given(InlineInput(r), k) = "src_claim_1"
  <2> DEFINE fields == PayloadFields(r)
             task == TaskTypeOf(r)
             extra == IF task = "claim_extraction" THEN {"source_id"} ELSE {}
             given == {x \in TaskKeys(task) \cap DOMAIN fields : Usable(fields[x])}
             inline == InlineInput(r)
  <2>1. inline = [x \in given \cup extra |-> IF x \in given THEN fields[x] ELSE "src_claim_1"]
    BY DEF InlineInput
  <2>2. /\ DOMAIN inline = given \cup extra
        /\ k \in given => inline[k] = fields[k]
        /\ k \in extra /\ k \notin given => inline[k] = "src_claim_1"
    <3> HIDE DEF given, extra, inline
    <3> QED  BY <2>1
  <2>3. k \in given <=> k \in DOMAIN fields /\ Usable(fields[k])
    BY <1>1
  <2>4. k \in extra => task = "claim_extraction" /\ k = "source_id"
    OBVIOUS
  <2> HIDE DEF given, extra, inline, fields, task
  <2>5. CASE k \in given
    <3>1. Given(inline, k) = Given(fields, k)
      BY <2>2, <2>3, <2>5 DEF Given, NonEmpty
    <3> QED  BY <3>1 DEF inline, fields
  <2>6. CASE k \notin given
    <3>1. Given(fields, k) = None
      BY <2>3, <2>6 DEF Given, NonEmpty
    <3>2. CASE k \in extra
      <4>1. inline[k] = "src_claim_1" /\ k = "source_id" /\ task = "claim_extraction"
        BY <2>2, <2>4, <2>6, <3>2
      <4>2. Usable("src_claim_1")
        BY DefaultsAreTexts, TextsAreUsable
      <4>3. IsTrue("source_id", "src_claim_1")
        BY <4>2 DEF IsTrue, Usable, Lists
      <4>4. Given(inline, k) = "src_claim_1"
        BY <2>2, <3>2, <4>1, <4>2, <4>3 DEF Given, NonEmpty
      <4> QED  BY <3>1, <4>1, <4>4 DEF inline, fields, task
    <3>3. CASE k \notin extra
      <4>1. k \notin DOMAIN inline
        BY <2>2, <2>6, <3>3
      <4> QED  BY <3>1, <4>1 DEF Given, inline, fields
    <3> QED  BY <3>2, <3>3
  <2> QED  BY <2>5, <2>6
<1>2. ASSUME k \in TaskKeys(r.payload.task_type)
      PROVE  Given(ServerInput(r), k) = Filled(k, ServerField(r.payload, k))
  <2> DEFINE payload == r.payload
             inline == ServerInput(r)
             D == {x \in TaskKeys(payload.task_type) : Usable(ServerField(payload, x))}
  <2>1. inline = [x \in D |-> ServerField(payload, x)]
    BY DEF ServerInput
  <2>2. k \in D <=> Usable(ServerField(payload, k))
    BY <1>2
  <2> HIDE DEF D, inline, payload
  <2>3. DOMAIN inline = D /\ (k \in D => inline[k] = ServerField(payload, k))
    BY <2>1
  <2>4. CASE k \in D
    BY <2>2, <2>3, <2>4 DEF Given, NonEmpty, Filled, payload, inline
  <2>5. CASE k \notin D
    BY <2>2, <2>3, <2>5 DEF Given, Filled, payload, inline
  <2> QED  BY <2>4, <2>5
<1> QED  BY <1>1, <1>2

\* What the two doors find in a payload for a field is the same unless they
\* look for it in different places, and then only one of them finds something.
LEMMA DoorsFind ==
    ASSUME NEW r, r.payload.kind = "object", NEW k
    PROVE  LET a == Given(PayloadFields(r), k)
               s == Filled(k, ServerField(r.payload, k))
           IN  IF ReadOtherwise(r.payload, k)
               THEN (a = None /\ s # None) \/ (a # None /\ s = None)
               ELSE a = s
<1> DEFINE payload == r.payload
           top == payload.fields
           nested == NestedFields(payload)
           merged == PayloadFields(r)
           a == Given(merged, k)
           s == Filled(k, ServerField(payload, k))
           n == Given(nested, k)
<1>1. merged = [x \in DOMAIN nested \cup DOMAIN top |->
                   IF x \in DOMAIN top THEN top[x] ELSE nested[x]]
  BY DEF PayloadFields
<1>2. Field(merged, k) = IF k \in DOMAIN top THEN top[k] ELSE Field(nested, k)
  <2> HIDE DEF merged, nested, top
  <2> QED  BY <1>1 DEF Field
<1>3. n # None <=> k \in DOMAIN nested /\ NonEmpty(nested, k)
  <2> HIDE DEF nested
  <2> QED  BY DEF Given, NonEmpty, Usable
<1>4. a = Filled(k, IF k \in DOMAIN top THEN top[k] ELSE Field(nested, k))
      /\ n = Filled(k, Field(nested, k))
  BY <1>2, FilledFacts
<1>5. ServerField(payload, k) =
          IF IsTrue(k, Field(top, k)) THEN Field(top, k)
          ELSE IF payload.inline_input = None THEN None ELSE Field(payload.inline_input, k)
  BY DEF ServerField
<1>6. /\ k \in DOMAIN top => Field(top, k) = top[k]
      /\ k \notin DOMAIN top => Field(top, k) = None
      /\ ~ IsTrue(k, None)
  BY DEF Field, IsTrue
<1>7. ReadOtherwise(payload, k) <=>
          /\ n # None
          /\ IF payload.inline_input # None
             THEN k \in DOMAIN top /\ ~ IsTrue(k, top[k])
             ELSE k \notin DOMAIN top
  BY <1>3 DEF ReadOtherwise
<1>8. payload.inline_input # None => nested = payload.inline_input
  BY DEF NestedFields
<1> HIDE DEF payload, top, nested, merged, a, s, n
<1>9. CASE payload.inline_input # None /\ k \in DOMAIN top
  <2>1. CASE IsTrue(k, top[k])
    BY <1>4, <1>5, <1>6, <1>7, <1>9, <2>1 DEF s, payload, a, merged
  <2>2. CASE ~ IsTrue(k, top[k])
    <3>1. a = None
      BY <1>4, <1>9, <2>2, FilledFacts
    <3>2. s = n
      BY <1>4, <1>5, <1>6, <1>8, <1>9, <2>2 DEF s
    <3> QED  BY <1>7, <1>9, <2>2, <3>1, <3>2 DEF s, payload, a, merged
  <2> QED  BY <2>1, <2>2
<1>10. CASE payload.inline_input # None /\ k \notin DOMAIN top
  <2>1. a = n /\ s = n
    BY <1>4, <1>5, <1>6, <1>8, <1>10 DEF s
  <2> QED  BY <1>7, <1>10, <2>1 DEF s, payload, a, merged
<1>11. CASE payload.inline_input = None /\ k \in DOMAIN top
  <2>1. a = Filled(k, top[k])
    BY <1>4, <1>11
  <2>2. s = a
    <3>1. CASE IsTrue(k, top[k])
      BY <1>5, <1>6, <1>11, <2>1, <3>1 DEF s
    <3>2. CASE ~ IsTrue(k, top[k])
      BY <1>5, <1>6, <1>11, <2>1, <3>2, FilledFacts DEF s
    <3> QED  BY <3>1, <3>2
  <2> QED  BY <1>7, <1>11, <2>2 DEF s, payload, a, merged
<1>12. CASE payload.inline_input = None /\ k \notin DOMAIN top
  <2>1. a = n
    BY <1>4, <1>12
  <2>2. s = None
    BY <1>5, <1>6, <1>12, FilledFacts DEF s
  <2> QED  BY <1>7, <1>12, <2>1, <2>2 DEF s, payload, a, merged
<1> QED  BY <1>9, <1>10, <1>11, <1>12

\* A request that both doors let in as one task becomes one work unit, up to
\* empty fields, where they look for the same fields in the same places; where
\* they do not, only one of them finds a value, and they differ unless the
\* other fills in a default.
THEOREM DoorsMakeOneInput == Spec => []DoorsAgree
<1>1. DoorsAgree
  <2>1. SUFFICES ASSUME request.payload.task_type = TaskTypeOf(request),
                        ServerErrors(request) = {},
                        NEW k \in TaskKeys(TaskTypeOf(request))
                 PROVE  LET task == TaskTypeOf(request)
                            adapter == Submitted(task, InlineInput(request))
                            server == Submitted(task, ServerInput(request))
                        IN  IF ReadOtherwise(request.payload, k)
                            THEN \/ Given(adapter, k) # Given(server, k)
                                 \/ k \in DefaultKeys
                            ELSE Given(adapter, k) = Given(server, k)
    BY DEF DoorsAgree, DefaultKeys
  <2> DEFINE task == TaskTypeOf(request)
             adapter == Given(Submitted(task, InlineInput(request)), k)
             server == Given(Submitted(task, ServerInput(request)), k)
             a == Given(PayloadFields(request), k)
             s == Filled(k, ServerField(request.payload, k))
             default == Given(DefaultsOf(task), k)
             Filling(v) == IF v # None THEN v ELSE default
  <2>2. request.payload.kind = "object"
    BY <2>1 DEF ServerErrors
  <2>3. IF ReadOtherwise(request.payload, k)
        THEN (a = None /\ s # None) \/ (a # None /\ s = None)
        ELSE a = s
    BY <2>2, DoorsFind
  <2>4. server = Filling(s)
    BY <2>1, SubmittedGives, DoorsGive
  <2>5. task = "claim_extraction" /\ k = "source_id" => default = "src_claim_1"
    BY DefaultFacts DEF Given
  <2>6. adapter = Filling(a)
    <3>1. adapter = Filling(Given(InlineInput(request), k))
      BY SubmittedGives
    <3>2. "src_claim_1" # None
      BY DefaultsAreTexts, TextsAreUsable DEF Usable
    <3>3. \/ Given(InlineInput(request), k) = a
          \/ /\ task = "claim_extraction" /\ k = "source_id"
             /\ a = None /\ Given(InlineInput(request), k) = "src_claim_1"
      BY DoorsGive
    <3> HIDE DEF task, adapter, a, default
    <3> QED  BY <2>5, <3>1, <3>2, <3>3
  <2>7. k \notin DefaultKeys => default = None
    BY DefaultFacts DEF Given
  <2> HIDE DEF task, adapter, server, a, s, default
  <2>8. IF ReadOtherwise(request.payload, k)
        THEN adapter # server \/ k \in DefaultKeys
        ELSE adapter = server
    BY <2>3, <2>4, <2>6, <2>7
  <2> QED  BY <2>8 DEF adapter, server, task
<1> QED  BY <1>1, PTL

-----------------------------------------------------------------------------
(* Monotone scores *)

\* A rule of the improved configuration.
Raise(rule, c) == [rule EXCEPT !.priority = IF rule.id = c.id THEN 1 ELSE rule.priority]

LEMMA RaiseParts ==
    ASSUME NEW conf, WellFormed(conf), NEW c, NEW rule \in conf.rules
    PROVE  /\ Raise(rule, c).id = rule.id
           /\ Raise(rule, c).task_type = rule.task_type
           /\ Raise(rule, c).backend_id = rule.backend_id
           /\ Raise(rule, c).backend_class = rule.backend_class
           /\ Raise(rule, c).worker_id = rule.worker_id
           /\ Raise(rule, c).priority = IF rule.id = c.id THEN 1 ELSE rule.priority
<1>1. {"id", "task_type", "backend_id", "backend_class", "worker_id", "priority"}
          \subseteq DOMAIN rule
  BY DEF WellFormed
<1> QED  BY <1>1 DEF Raise

\* A backend of the improved configuration differs from what it was in cost
\* and health.
AsBefore(old, new) ==
    /\ new.class = old.class /\ new.tasks = old.tasks
    /\ new.privacy = old.privacy /\ new.latency = old.latency

LEMMA ImprovedParts ==
    ASSUME NEW conf, WellFormed(conf), NEW c, c.backend_id \in DOMAIN conf.backends
    PROVE  LET better == Improved(conf, c)
           IN  /\ better.workers = conf.workers
               /\ better.scored = conf.scored
               /\ better.verifier_mapping = conf.verifier_mapping
               /\ better.routebook_forbidden = conf.routebook_forbidden
               /\ better.rules = {Raise(rule, c) : rule \in conf.rules}
               /\ DOMAIN better.backends = DOMAIN conf.backends
               /\ \A b \in DOMAIN conf.backends : b # c.backend_id =>
                     better.backends[b] = conf.backends[b]
               /\ AsBefore(conf.backends[c.backend_id], better.backends[c.backend_id])
               /\ better.backends[c.backend_id].cost = 0
               /\ better.backends[c.backend_id].health = "healthy"
<1> DEFINE better == Improved(conf, c)
           b == c.backend_id
           old == conf.backends[b]
           free == [old EXCEPT !.cost = 0]
           new == [free EXCEPT !.health = "healthy"]
           backends == [conf.backends EXCEPT ![b] = new]
           rules == {Raise(rule, c) : rule \in conf.rules}
<1>1. better = [[conf EXCEPT !.backends = backends] EXCEPT !.rules = rules]
  BY DEF Improved, Raise
<1>2. /\ {"backends", "workers", "rules", "verifier_mapping", "routebook_forbidden", "scored"}
             \subseteq DOMAIN conf
      /\ {"class", "tasks", "cost", "privacy", "health", "latency"} \subseteq DOMAIN old
  BY DEF WellFormed
<1>3. AsBefore(old, new) /\ new.cost = 0 /\ new.health = "healthy"
  <2> HIDE DEF old
  <2> QED  BY <1>2 DEF AsBefore
<1>4. /\ DOMAIN backends = DOMAIN conf.backends
      /\ backends[b] = new
      /\ \A x \in DOMAIN conf.backends : x # b => backends[x] = conf.backends[x]
  <2> HIDE DEF new
  <2> QED  OBVIOUS
<1> HIDE DEF new, backends, rules
<1>5. /\ better.workers = conf.workers /\ better.scored = conf.scored
      /\ better.verifier_mapping = conf.verifier_mapping
      /\ better.routebook_forbidden = conf.routebook_forbidden
      /\ better.rules = rules /\ better.backends = backends
  BY <1>1, <1>2
<1> HIDE DEF better
<1> QED  BY <1>3, <1>4, <1>5 DEF better, rules

\* Rules resolve as before: neither cost, health nor priority has a say in it.
LEMMA ImprovedResolves ==
    ASSUME NEW conf, WellFormed(conf), NEW c, c.backend_id \in DOMAIN conf.backends,
           NEW rule \in conf.rules, BackendOf(conf, rule) \in DOMAIN conf.backends
    PROVE  LET b == BackendOf(conf, rule)
           IN  /\ BackendOf(Improved(conf, c), Raise(rule, c)) = b
               /\ Improved(conf, c).backends[b].class = conf.backends[b].class
               /\ WorkerOf(Improved(conf, c), Raise(rule, c), b) = WorkerOf(conf, rule, b)
<1> DEFINE better == Improved(conf, c)
           raised == Raise(rule, c)
           b == BackendOf(conf, rule)
<1>1. /\ raised.task_type = rule.task_type /\ raised.backend_id = rule.backend_id
      /\ raised.backend_class = rule.backend_class /\ raised.worker_id = rule.worker_id
  BY RaiseParts
<1>2. /\ DOMAIN better.backends = DOMAIN conf.backends
      /\ better.workers = conf.workers
      /\ \A x \in DOMAIN conf.backends :
            /\ better.backends[x].class = conf.backends[x].class
            /\ better.backends[x].tasks = conf.backends[x].tasks
  BY ImprovedParts DEF AsBefore
<1> HIDE DEF better, raised
<1>3. BackendOf(better, raised) = b
  <2> DEFINE first(T) == First(T, <)
             new == {x \in DOMAIN better.backends :
                        /\ better.backends[x].class = raised.backend_class
                        /\ raised.task_type \in better.backends[x].tasks}
             old == {x \in DOMAIN conf.backends :
                        /\ conf.backends[x].class = rule.backend_class
                        /\ rule.task_type \in conf.backends[x].tasks}
  <2>1. new = old
    BY <1>1, <1>2
  <2>2. /\ BackendOf(better, raised) = IF raised.backend_id # None THEN raised.backend_id
                                       ELSE first(new)
        /\ BackendOf(conf, rule) = IF rule.backend_id # None THEN rule.backend_id
                                   ELSE first(old)
    BY DEF BackendOf
  <2> HIDE DEF first, new, old
  <2> QED  BY <1>1, <2>1, <2>2
<1>4. better.backends[b].class = conf.backends[b].class
  BY <1>2
<1>5. WorkerOf(better, raised, b) = WorkerOf(conf, rule, b)
  <2> HIDE DEF b
  <2> DEFINE first(T) == First(T, <)
             new == {w \in DOMAIN better.workers \ {Gateway} : Supports(better, w, b)}
             old == {w \in DOMAIN conf.workers \ {Gateway} : Supports(conf, w, b)}
  <2>1. new = old
    BY <1>2, <1>4 DEF Supports
  <2>2. /\ WorkerOf(better, raised, b) =
              IF better.backends[b].class \in GatewayClasses THEN Gateway
              ELSE IF raised.worker_id # None THEN raised.worker_id ELSE first(new)
        /\ WorkerOf(conf, rule, b) =
              IF conf.backends[b].class \in GatewayClasses THEN Gateway
              ELSE IF rule.worker_id # None THEN rule.worker_id ELSE first(old)
    BY DEF WorkerOf
  <2> HIDE DEF first, new, old
  <2> QED  BY <1>1, <1>4, <2>1, <2>2
<1> QED  BY <1>3, <1>4, <1>5 DEF better, raised

\* What becomes of candidate d when candidate c is improved.
IsImproved(new, d, c) ==
    /\ new.id = d.id
    /\ new.backend_id = d.backend_id
    /\ new.backend_class = d.backend_class
    /\ new.worker_id = d.worker_id
    /\ new.verifier_recipe_id = d.verifier_recipe_id
    /\ new.priority = IF d.id = c.id THEN 1 ELSE d.priority
    /\ new.cost = IF d.backend_id = c.backend_id THEN 0 ELSE d.cost

LEMMA ImprovedCandidate ==
    ASSUME NEW conf, WellFormed(conf), NEW c, c.backend_id \in DOMAIN conf.backends,
           NEW rule \in conf.rules, BackendOf(conf, rule) \in DOMAIN conf.backends
    PROVE  IsImproved(Candidate(Improved(conf, c), Raise(rule, c)), Candidate(conf, rule), c)
<1> DEFINE better == Improved(conf, c)
           raised == Raise(rule, c)
           b == BackendOf(conf, rule)
           d == Candidate(conf, rule)
           new == Candidate(better, raised)
<1>1. /\ d.id = rule.id /\ d.backend_id = b /\ d.backend_class = conf.backends[b].class
      /\ d.worker_id = WorkerOf(conf, rule, b) /\ d.priority = rule.priority
      /\ d.cost = conf.backends[b].cost
      /\ d.verifier_recipe_id = conf.verifier_mapping[rule.task_type]
  BY DEF Candidate
<1>2. LET x == BackendOf(better, raised)
      IN  /\ new.id = raised.id /\ new.backend_id = x
          /\ new.backend_class = better.backends[x].class
          /\ new.worker_id = WorkerOf(better, raised, x) /\ new.priority = raised.priority
          /\ new.cost = better.backends[x].cost
          /\ new.verifier_recipe_id = better.verifier_mapping[raised.task_type]
  BY DEF Candidate
<1>3. /\ BackendOf(better, raised) = b
      /\ better.backends[b].class = conf.backends[b].class
      /\ WorkerOf(better, raised, b) = WorkerOf(conf, rule, b)
  BY ImprovedResolves
<1>4. /\ raised.id = rule.id /\ raised.task_type = rule.task_type
      /\ raised.priority = IF rule.id = c.id THEN 1 ELSE rule.priority
  BY RaiseParts
<1>5. /\ better.verifier_mapping = conf.verifier_mapping
      /\ better.backends[b].cost = IF b = c.backend_id THEN 0 ELSE conf.backends[b].cost
  BY ImprovedParts
<1> HIDE DEF better, raised, d, new, b
<1>6. IsImproved(new, d, c)
  BY <1>1, <1>2, <1>3, <1>4, <1>5 DEF IsImproved
<1> QED  BY <1>6 DEF better, raised, d, new

\* The candidates of the improved configuration are those of the other,
\* improved, and told apart by their ids.
LEMMA ImprovedCandidates ==
    ASSUME NEW conf, WellFormed(conf), NEW task_type,
           GenerationErrors(conf, task_type) = {},
           NEW c \in Candidates(conf, task_type)
    PROVE  LET S == Candidates(conf, task_type)
               T == Candidates(Improved(conf, c), task_type)
           IN  /\ \A d \in S : \E new \in T : IsImproved(new, d, c)
               /\ \A new \in T : \E d \in S : IsImproved(new, d, c)
               /\ \A x, y \in T : x.id = y.id => x = y
<1> DEFINE better == Improved(conf, c)
           R == MatchingRules(conf, task_type)
           S == Candidates(conf, task_type)
           T == Candidates(better, task_type)
<1>1. c.backend_id \in DOMAIN conf.backends
  BY GenerationFacts, CandidatesFacts DEF IsCandidateOf
<1>2. \A rule \in R : rule \in conf.rules /\ BackendOf(conf, rule) \in DOMAIN conf.backends
  BY GenerationFacts, ResolvedBackend DEF MatchingRules
<1>3. \A rule \in R : IsImproved(Candidate(better, Raise(rule, c)), Candidate(conf, rule), c)
  BY <1>1, <1>2, ImprovedCandidate
<1>4. MatchingRules(better, task_type) = {Raise(rule, c) : rule \in R}
  <2>1. better.rules = {Raise(rule, c) : rule \in conf.rules}
    BY <1>1, ImprovedParts
  <2>2. \A rule \in conf.rules : Raise(rule, c).task_type = rule.task_type
    BY RaiseParts
  <2> HIDE DEF better
  <2> QED  BY <2>1, <2>2 DEF MatchingRules
<1> HIDE DEF better, R
<1>5. /\ S = {Candidate(conf, rule) : rule \in R}
      /\ T = {Candidate(better, Raise(rule, c)) : rule \in R}
  BY <1>4 DEF Candidates, R
<1> HIDE DEF S, T
<1>6. ASSUME NEW x \in T, NEW y \in T, x.id = y.id
      PROVE  x = y
  <2>1. PICK r \in R, s \in R : x = Candidate(better, Raise(r, c))
                                /\ y = Candidate(better, Raise(s, c))
    BY <1>5
  <2>2. x.id = Candidate(conf, r).id /\ y.id = Candidate(conf, s).id
    BY <1>3, <2>1 DEF IsImproved
  <2>3. x.id = r.id /\ y.id = s.id
    BY <2>2 DEF Candidate
  <2>4. r = s
    BY <1>2, <1>6, <2>3 DEF WellFormed
  <2> QED  BY <2>1, <2>4
<1>7. /\ \A d \in S : \E new \in T : IsImproved(new, d, c)
      /\ \A new \in T : \E d \in S : IsImproved(new, d, c)
  BY <1>3, <1>5
<1> QED  BY <1>6, <1>7 DEF better, S, T

\* A candidate that may run passes the filters as before.
LEMMA ImprovedPasses ==
    ASSUME NEW conf, WellFormed(conf), NEW c, c.backend_id \in DOMAIN conf.backends,
           Available(conf.backends[c.backend_id]),
           NEW d, d.backend_id \in DOMAIN conf.backends,
           NEW new, IsImproved(new, d, c), NEW unit,
           NEW base, NEW route, base.task_level = route.task_level
    PROVE  Passes(Improved(conf, c), unit, route, new) <=> Passes(conf, unit, base, d)
<1> DEFINE better == Improved(conf, c)
           old == conf.backends[d.backend_id]
           now == better.backends[new.backend_id]
<1>1. /\ now.tasks = old.tasks /\ now.privacy = old.privacy
      /\ better.routebook_forbidden = conf.routebook_forbidden
      /\ Available(now) <=> Available(old)
  <2>1. CASE d.backend_id = c.backend_id
    BY <2>1, ImprovedParts DEF AsBefore, Available, IsImproved
  <2>2. CASE d.backend_id # c.backend_id
    BY <2>2, ImprovedParts DEF IsImproved
  <2> QED  BY <2>1, <2>2
<1>2. /\ new.verifier_recipe_id = d.verifier_recipe_id
      /\ new.backend_class = d.backend_class /\ new.worker_id = d.worker_id
  BY DEF IsImproved
<1> HIDE DEF better
<1>3. FailedFilters(better, unit, route, new) = FailedFilters(conf, unit, base, d)
  BY <1>1, <1>2 DEF FailedFilters
<1> QED  BY <1>3 DEF Passes, better

\* The score of a candidate before it is clamped.
Net(unit, backend, cost, priority) ==
    (CapabilityFit(unit, backend) + 2500 + QualityFit(unit, backend)
     + CostFit(cost) + LatencyFit(backend) + 1000) - Uncertainty(unit, backend)
    - AtMost(800, 400 * (priority - 1))

Clamped(net) == AtLeast(0, AtMost(10000, net))

LEMMA ScoreIsClamped ==
    ASSUME NEW conf, NEW unit, NEW route, NEW c, Passes(conf, unit, route, c)
    PROVE  Score(conf, unit, route, c) =
               Clamped(Net(unit, conf.backends[c.backend_id], c.cost, c.priority))
  BY DEF Score, Net, Clamped

LEMMA ClampedIsMonotone ==
    ASSUME NEW a \in Int, NEW b \in Int, a <= b
    PROVE  Clamped(a) <= Clamped(b)
<1> DEFINE low == IF 10000 <= a THEN 10000 ELSE a
           high == IF 10000 <= b THEN 10000 ELSE b
<1>1. AtMost(10000, a) = low /\ AtMost(10000, b) = high
  BY AtMostFacts
<1>2. low \in Int /\ high \in Int /\ low <= high
  OBVIOUS
<1> HIDE DEF low, high
<1>3. /\ AtLeast(0, low) = IF 0 >= low THEN 0 ELSE low
      /\ AtLeast(0, high) = IF 0 >= high THEN 0 ELSE high
  BY <1>2, AtLeastFacts
<1> QED  BY <1>1, <1>2, <1>3 DEF Clamped

\* Being free, healthy and first in priority does not lower a score.
LEMMA NetIsMonotone ==
    ASSUME NEW unit, unit.task_type \in SupportedTasks, NEW old, NEW new, AsBefore(old, new),
           new = old \/ new.health = "healthy",
           NEW cost \in Nat, NEW lower \in Nat, lower = 0 \/ lower = cost,
           old.latency \in Nat \cup {None},
           NEW p \in Nat \ {0}, NEW q \in Nat \ {0}, q <= p
    PROVE  /\ Net(unit, old, cost, p) \in Int
           /\ Net(unit, new, lower, q) \in Int
           /\ Net(unit, old, cost, p) <= Net(unit, new, lower, q)
<1>1. Capabilities(new) = Capabilities(old) /\ ModelTier(new) = ModelTier(old)
  BY DEF Capabilities, ModelTier, AsBefore
<1>2. CapabilityFit(unit, new) = CapabilityFit(unit, old) /\ CapabilityFit(unit, old) \in Int
  BY <1>1, CapabilityFitIsInt DEF CapabilityFit
<1>3. QualityFit(unit, new) = QualityFit(unit, old) /\ QualityFit(unit, old) \in Int
  <2>1. TierFit(unit, new) = TierFit(unit, old)
    BY <1>1 DEF TierFit, AsBefore
  <2>2. QualityFit(unit, new) = QualityFit(unit, old)
    BY <2>1 DEF QualityFit, AsBefore
  <2> QED  BY <2>2, QualityFitIsInt
<1>4. Uncertainty(unit, new) = Uncertainty(unit, old) /\ Uncertainty(unit, old) \in Int
  <2>1. Uncertainty(unit, new) = Uncertainty(unit, old)
    BY DEF Uncertainty, AsBefore
  <2> QED  BY <2>1, OtherFitsAreInt
<1>5. /\ CostFit(cost) \in Int /\ CostFit(lower) \in Int
      /\ CostFit(cost) <= CostFit(lower)
  BY DEF CostFit
<1>6. /\ LatencyFit(old) \in Int /\ LatencyFit(new) \in Int
      /\ LatencyFit(old) <= LatencyFit(new)
  <2>1. CASE new = old
    BY <2>1, OtherFitsAreInt
  <2>2. CASE new.health = "healthy"
    <3> DEFINE at == old.latency
               quick == IF at <= 500 THEN 475 ELSE IF at <= 2000 THEN 375 ELSE 225
               fit == IF at = None THEN 325 ELSE quick
    <3>1. LatencyFit(new) = fit
      BY <2>2 DEF LatencyFit, AsBefore
    <3>2. LatencyFit(old) = 225 \/ LatencyFit(old) = fit
      BY DEF LatencyFit
    <3>3. fit \in Int /\ 225 <= fit
      OBVIOUS
    <3> HIDE DEF fit
    <3> QED  BY <3>1, <3>2, <3>3
  <2> QED  BY <2>1, <2>2
<1> DEFINE lateOld == AtMost(800, 400 * (p - 1))
           lateNew == AtMost(800, 400 * (q - 1))
<1>7. lateOld \in Int /\ lateNew \in Int /\ lateNew <= lateOld
  <2>1. 400 * (p - 1) \in Int /\ 400 * (q - 1) \in Int /\ 400 * (q - 1) <= 400 * (p - 1)
    OBVIOUS
  <2>2. /\ lateOld = IF 800 <= 400 * (p - 1) THEN 800 ELSE 400 * (p - 1)
        /\ lateNew = IF 800 <= 400 * (q - 1) THEN 800 ELSE 400 * (q - 1)
    BY <2>1, AtMostFacts
  <2> HIDE DEF lateOld, lateNew
  <2> QED  BY <2>1, <2>2
<1>8. /\ Net(unit, old, cost, p) =
            (CapabilityFit(unit, old) + 2500 + QualityFit(unit, old)
             + CostFit(cost) + LatencyFit(old) + 1000) - Uncertainty(unit, old) - lateOld
      /\ Net(unit, new, lower, q) =
            (CapabilityFit(unit, new) + 2500 + QualityFit(unit, new)
             + CostFit(lower) + LatencyFit(new) + 1000) - Uncertainty(unit, new) - lateNew
  BY DEF Net
<1> HIDE DEF lateOld, lateNew
<1> QED  BY <1>2, <1>3, <1>4, <1>5, <1>6, <1>7, <1>8

\* Of comparable candidates only one is ahead of all others.
LEMMA RankedFirstIs ==
    ASSUME NEW conf, NEW unit, unit.task_type \in SupportedTasks, NEW route,
           NEW S, Comparable(S), NEW x \in S,
           \A y \in S \ {x} : Ahead(conf, unit, route, x, y)
    PROVE  First(S, LAMBDA c, d : RankedBefore(conf, unit, route, c, d)) = x
<1> DEFINE best == First(S, LAMBDA c, d : RankedBefore(conf, unit, route, c, d))
<1>1. best \in S /\ \A y \in S \ {best} : RankedBefore(conf, unit, route, best, y)
  BY RankedFirst
<1> HIDE DEF best
<1>2. SUFFICES ASSUME best # x PROVE FALSE
  BY DEF best
<1>3. /\ x.id \in Nat /\ x.priority \in Nat /\ x.cost \in Nat
      /\ best.id \in Nat /\ best.priority \in Nat /\ best.cost \in Nat
  BY <1>1 DEF Comparable
<1>4. RankedBefore(conf, unit, route, best, x)
  BY <1>1, <1>2
<1>5. Ahead(conf, unit, route, best, x) /\ Ahead(conf, unit, route, x, best)
  BY <1>1, <1>2, <1>3, <1>4, RankedIsAhead
<1> DEFINE sb == Score(conf, unit, route, best)
           sx == Score(conf, unit, route, x)
<1>6. sb \in Nat
  BY <1>3, ScoreBounds
<1>7. sx \in Nat
  BY <1>3, ScoreBounds
<1>8. sb > sx \/ sb = sx
  BY <1>5, <1>6, <1>7 DEF Ahead
<1>9. sx > sb \/ sb = sx
  BY <1>5, <1>6, <1>7 DEF Ahead
<1>10. sx = sb
  <2> HIDE DEF sb, sx
  <2> QED  BY <1>6, <1>7, <1>8, <1>9
<1>11. ~ (sx > sb) /\ ~ (sb > sx)
  <2> HIDE DEF sb, sx
  <2> QED  BY <1>6, <1>7, <1>10
<1>12. /\ \/ x.priority < best.priority
          \/ x.priority = best.priority /\ x.cost < best.cost
          \/ x.priority = best.priority /\ x.cost = best.cost /\ x.id < best.id
       /\ \/ best.priority < x.priority
          \/ best.priority = x.priority /\ best.cost < x.cost
          \/ best.priority = x.priority /\ best.cost = x.cost /\ best.id < x.id
  BY <1>5, <1>10, <1>11 DEF Ahead
<1> QED  BY <1>3, <1>12

\* A candidate that is ahead stays ahead when it is improved, whether the
\* other shares its backend or not.
LEMMA StaysAhead ==
    ASSUME NEW conf, WellFormed(conf), NEW unit, unit.task_type \in SupportedTasks,
           NEW base, NEW route, base.task_level = route.task_level,
           NEW S, Comparable(S), NEW c \in S, NEW d \in S, d # c,
           c.backend_id \in DOMAIN conf.backends, c.cost = conf.backends[c.backend_id].cost,
           d.backend_id \in DOMAIN conf.backends, d.cost = conf.backends[d.backend_id].cost,
           Passes(conf, unit, base, c), Ahead(conf, unit, base, c, d),
           NEW x, IsImproved(x, c, c), NEW y, IsImproved(y, d, c)
    PROVE  Ahead(Improved(conf, c), unit, route, x, y)
<1> DEFINE better == Improved(conf, c)
           oc == conf.backends[c.backend_id]
           od == conf.backends[d.backend_id]
           nc == better.backends[c.backend_id]
           nd == better.backends[d.backend_id]
           sc == Score(conf, unit, base, c)
           sd == Score(conf, unit, base, d)
           sx == Score(better, unit, route, x)
           sy == Score(better, unit, route, y)
<1>1. /\ c.id \in Nat /\ c.priority \in Nat \ {0} /\ c.cost \in Nat
      /\ d.id \in Nat /\ d.priority \in Nat \ {0} /\ d.cost \in Nat
      /\ c.id # d.id
  BY DEF Comparable
<1>2. /\ x.id = c.id /\ x.backend_id = c.backend_id /\ x.priority = 1 /\ x.cost = 0
      /\ y.id = d.id /\ y.backend_id = d.backend_id /\ y.priority = d.priority
      /\ y.cost = IF d.backend_id = c.backend_id THEN 0 ELSE d.cost
  BY <1>1 DEF IsImproved
<1>3. Available(oc)
  BY DEF Passes, FailedFilters
<1>4. Passes(better, unit, route, x)
  BY <1>3, ImprovedPasses
<1>5. Passes(better, unit, route, y) <=> Passes(conf, unit, base, d)
  BY <1>3, ImprovedPasses
<1>6. CASE ~ Passes(conf, unit, base, d)
  BY <1>4, <1>5, <1>6 DEF Ahead
<1>7. CASE Passes(conf, unit, base, d)
  <2>1. /\ sc = Clamped(Net(unit, oc, c.cost, c.priority))
        /\ sd = Clamped(Net(unit, od, d.cost, d.priority))
        /\ sx = Clamped(Net(unit, nc, 0, 1))
        /\ sy = Clamped(Net(unit, nd, y.cost, d.priority))
    BY <1>2, <1>4, <1>5, <1>7, ScoreIsClamped
  <2>2. sc \in Nat /\ sd \in Nat /\ sx \in Nat /\ sy \in Nat
    <3>1. sc \in Nat
      BY <1>1, ScoreBounds
    <3>2. sd \in Nat
      BY <1>1, ScoreBounds
    <3>3. sx \in Nat
      BY <1>2, ScoreBounds
    <3>4. sy \in Nat
      BY <1>1, <1>2, ScoreBounds
    <3> QED  BY <3>1, <3>2, <3>3, <3>4
  <2>3. /\ AsBefore(oc, nc) /\ nc.health = "healthy"
        /\ oc.latency \in Nat \cup {None}
        /\ nc.latency = oc.latency
        /\ AsBefore(nc, nc)
        /\ d.backend_id # c.backend_id => nd = od
    BY ImprovedParts DEF AsBefore, WellFormed
  <2>4. /\ \/ sc > sd
           \/ /\ sc = sd
              /\ \/ c.priority < d.priority
                 \/ c.priority = d.priority /\ c.cost < d.cost
                 \/ c.priority = d.priority /\ c.cost = d.cost /\ c.id < d.id
    BY <1>7 DEF Ahead
  <2> HIDE DEF better, oc, od, nc, nd, sc, sd, sx, sy
  <2>5. /\ \/ sx > sy
           \/ /\ sx = sy
              /\ \/ 1 < d.priority
                 \/ 1 = d.priority /\ 0 < y.cost
                 \/ 1 = d.priority /\ 0 = y.cost /\ c.id < d.id
    <3>1. CASE d.backend_id # c.backend_id
      <4>1. /\ Net(unit, oc, c.cost, c.priority) \in Int /\ Net(unit, nc, 0, 1) \in Int
            /\ Net(unit, oc, c.cost, c.priority) <= Net(unit, nc, 0, 1)
        BY <1>1, <2>3, NetIsMonotone
      <4>2. sc <= sx
        BY <2>1, <4>1, ClampedIsMonotone
      <4>3. sy = sd /\ y.cost = d.cost
        BY <1>2, <2>1, <2>3, <3>1
      <4> QED  BY <1>1, <2>2, <2>4, <4>2, <4>3
    <3>2. CASE d.backend_id = c.backend_id
      <4>1. nd = nc /\ od = oc /\ y.cost = 0 /\ d.cost = c.cost
        BY <1>2, <3>2 DEF nd, nc, od, oc
      <4>2. /\ Net(unit, nc, 0, d.priority) \in Int /\ Net(unit, nc, 0, 1) \in Int
            /\ Net(unit, nc, 0, d.priority) <= Net(unit, nc, 0, 1)
        BY <1>1, <2>3, NetIsMonotone
      <4>3. sy <= sx
        BY <2>1, <4>1, <4>2, ClampedIsMonotone
      <4>4. CASE d.priority # 1
        BY <1>1, <2>2, <4>3, <4>4
      <4>5. CASE d.priority = 1
        <5>1. /\ Net(unit, oc, c.cost, c.priority) \in Int /\ Net(unit, oc, c.cost, 1) \in Int
              /\ Net(unit, oc, c.cost, c.priority) <= Net(unit, oc, c.cost, 1)
          <6>1. AsBefore(oc, oc)
            BY DEF AsBefore
          <6> QED  BY <1>1, <2>3, <6>1, NetIsMonotone
        <5>2. sc <= sd
          BY <2>1, <4>1, <4>5, <5>1, ClampedIsMonotone
        <5>3. sc = sd /\ ~ (sc > sd)
          BY <2>2, <2>4, <5>2
        <5>4. c.id < d.id
          BY <1>1, <2>4, <4>1, <4>5, <5>3
        <5>5. sy = sx
          BY <2>1, <4>1, <4>5
        <5> QED  BY <4>1, <4>5, <5>4, <5>5
      <4> QED  BY <4>4, <4>5
    <3> QED  BY <3>1, <3>2
  <2> QED  BY <1>2, <1>4, <1>5, <1>7, <2>5 DEF Ahead, sx, sy, better
<1> QED  BY <1>6, <1>7

\* A selected candidate that passes is selected again once it is improved.
LEMMA ImprovedSelection ==
    ASSUME NEW conf, WellFormed(conf), conf.scored,
           NEW unit, unit.task_type \in SupportedTasks,
           GenerationErrors(conf, unit.task_type) = {},
           Passes(conf, unit, PlanRoute(conf, unit), Selected(PlanRoute(conf, unit)))
    PROVE  PlanRoute(Improved(conf, Selected(PlanRoute(conf, unit))), unit).selected
               = PlanRoute(conf, unit).selected
<1> DEFINE base == BaselinePlan(conf, unit)
           c == Selected(PlanRoute(conf, unit))
           better == Improved(conf, c)
           route == BaselinePlan(better, unit)
           S == Candidates(conf, unit.task_type)
           T == Candidates(better, unit.task_type)
           best == First(S, LAMBDA a, b : RankedBefore(conf, unit, base, a, b))
           first == First(T, LAMBDA a, b : RankedBefore(better, unit, route, a, b))
<1>1. S # {} /\ Comparable(S)
  BY CandidatesComparable
<1>2. c \in S /\ c.id = PlanRoute(conf, unit).selected
  BY SelectedFacts
<1>3. Passes(conf, unit, base, c)
  <2>1. base.task_level = PlanRoute(conf, unit).task_level
    BY BaselineParts, PlanParts
  <2> HIDE DEF base, c
  <2> QED  BY <2>1 DEF Passes, FailedFilters, c
<1>4. \A d \in S : /\ d.backend_id \in DOMAIN conf.backends
                   /\ d.cost = conf.backends[d.backend_id].cost
  BY GenerationFacts, CandidatesFacts DEF IsCandidateOf
<1>5. \A d \in S \ {c} : Ahead(conf, unit, base, c, d)
  <2>1. best \in S /\ \A d \in S \ {best} : RankedBefore(conf, unit, base, best, d)
    BY <1>1, RankedFirst
  <2>2. best.id = c.id
    <3>1. base.candidates = S
      BY BaselineParts
    <3>2. PlanRoute(conf, unit).selected = ScoredSelection(conf, unit, base)
      BY PlanParts
    <3>3. ScoredSelection(conf, unit, base) =
              IF \E d \in S : Passes(conf, unit, base, d) THEN best.id ELSE base.selected
      BY <3>1 DEF ScoredSelection
    <3> HIDE DEF base, c, S, best
    <3> QED  BY <1>2, <1>3, <3>2, <3>3
  <2> HIDE DEF base, c, S, best
  <2>3. best = c
    BY <1>1, <1>2, <2>1, <2>2 DEF Comparable
  <2>4. ASSUME NEW d \in S \ {c}
        PROVE  Ahead(conf, unit, base, c, d)
    <3>1. RankedBefore(conf, unit, base, c, d)
      BY <2>1, <2>3
    <3>2. /\ c.id \in Nat /\ c.priority \in Nat /\ c.cost \in Nat
          /\ d.id \in Nat /\ d.priority \in Nat /\ d.cost \in Nat
      BY <1>1, <1>2 DEF Comparable
    <3> QED  BY <3>1, <3>2, RankedIsAhead
  <2> QED  BY <2>4
<1>6. /\ better.scored
      /\ base.task_level = route.task_level
      /\ route.candidates = T
      /\ PlanRoute(better, unit).selected = ScoredSelection(better, unit, route)
  <2>1. better.scored
    BY <1>2, <1>4, ImprovedParts
  <2>2. base.task_level = route.task_level /\ route.candidates = T
    BY BaselineParts
  <2> HIDE DEF better
  <2> QED  BY <2>1, <2>2, PlanParts
<1>7. /\ \A d \in S : \E new \in T : IsImproved(new, d, c)
      /\ \A new \in T : \E d \in S : IsImproved(new, d, c)
      /\ \A a, b \in T : a.id = b.id => a = b
  BY <1>2, ImprovedCandidates
<1>8. PICK x \in T : IsImproved(x, c, c)
  BY <1>2, <1>7
<1>9. ScoredSelection(better, unit, route) =
          IF \E d \in T : Passes(better, unit, route, d) THEN first.id ELSE route.selected
  BY <1>6 DEF ScoredSelection
<1> HIDE DEF base, c, better, route, S, T, best
<1>10. Comparable(T)
  <2>1. ASSUME NEW new \in T
        PROVE  /\ new.id \in Nat /\ new.priority \in Nat \ {0}
               /\ new.backend_id \in Nat /\ new.cost \in Nat
    <3>1. PICK d \in S : IsImproved(new, d, c)
      BY <1>7
    <3>2. /\ d.id \in Nat /\ d.priority \in Nat \ {0}
          /\ d.backend_id \in Nat /\ d.cost \in Nat
      BY <1>1 DEF Comparable
    <3> QED  BY <3>1, <3>2 DEF IsImproved
  <2> QED  BY <1>7, <2>1 DEF Comparable
<1>11. ASSUME NEW y \in T \ {x}
       PROVE  Ahead(better, unit, route, x, y)
  <2>1. PICK d \in S : IsImproved(y, d, c)
    BY <1>7
  <2>2. d # c
    BY <1>7, <1>8, <2>1 DEF IsImproved
  <2>3. Ahead(conf, unit, base, c, d)
    BY <1>5, <2>2
  <2> QED  BY <1>1, <1>2, <1>3, <1>4, <1>6, <1>8, <2>1, <2>2, <2>3, StaysAhead DEF better
<1>12. first = x
  BY <1>10, <1>11, RankedFirstIs
<1>13. Passes(better, unit, route, x)
  <2>1. Available(conf.backends[c.backend_id])
    BY <1>3 DEF Passes, FailedFilters
  <2> QED  BY <1>2, <1>3, <1>4, <1>6, <1>8, <2>1, ImprovedPasses DEF better
<1> HIDE DEF first
<1>14. PlanRoute(better, unit).selected = x.id
  BY <1>6, <1>9, <1>12, <1>13
<1>15. x.id = c.id
  BY <1>8 DEF IsImproved
<1> QED  BY <1>2, <1>14, <1>15 DEF better, c

\* Whatever the other backends and rules are, making the selected backend free
\* and healthy and its rule the first does not lose it the selection.
THEOREM ScoringIsMonotone == Spec => []ImprovementKeepsRoute
<1>1. DecisionsInv => ImprovementKeepsRoute
  <2> DEFINE conf == Config[disk]
  <2> SUFFICES ASSUME DecisionsInv, plan # None, conf.scored,
                      Passes(conf, work, plan, Selected(plan))
               PROVE  PlanRoute(Improved(conf, Selected(plan)), work).selected = plan.selected
    BY DEF ImprovementKeepsRoute
  <2>1. /\ RouteErrors(conf, work) = {} /\ plan = PlanRoute(conf, work)
        /\ stage \in Submissions
    BY DEF DecisionsInv, PlanInv, Submissions
  <2>2. WellFormed(conf) /\ work.task_type \in SupportedTasks
    BY <2>1, DecisionsAssumption DEF DecisionsInv, ConfigInv, IsWork
  <2> HIDE DEF conf
  <2>3. GenerationErrors(conf, work.task_type) = {}
    BY <2>1, <2>2, PlanFacts
  <2> QED  BY <2>1, <2>2, <2>3, ImprovedSelection
<1> QED  BY <1>1, DecisionsInvariant, PTL

-----------------------------------------------------------------------------
(* Folds.  A fold of the community modules is a function that an equation  *)
(* describes; that there is one is proved here, by its least counterexample.*)

\* pick chooses an element of every nonempty subset of S.
Picks(pick, S) == \A s \in SUBSET S : s # {} => pick[s] \in s

\* g[s] is the fold of step over s, for every subset s of S.
IsFold(g, S, V, base, step, pick) ==
    /\ g \in [SUBSET S -> V]
    /\ \A s \in SUBSET S :
          g[s] = IF s = {} THEN base ELSE step[pick[s]][g[s \ {pick[s]}]]

\* What holds of the empty set, and of a set if it holds of the set without
\* the element picked from it, holds of every subset of a finite set.
LEMMA PickInduction ==
    ASSUME NEW S, IsFiniteSet(S), NEW pick, Picks(pick, S),
           NEW P, {} \in P,
           \A s \in SUBSET S : s # {} /\ s \ {pick[s]} \in P => s \in P
    PROVE  SUBSET S \subseteq P
<1> DEFINE rest == (SUBSET S) \ P
           sizes == {Cardinality(s) : s \in rest}
<1>1. \A s \in SUBSET S : IsFiniteSet(s) /\ Cardinality(s) \in Nat
  BY FS_Subset, FS_CardinalityType
<1>2. SUFFICES ASSUME rest # {} PROVE FALSE
  OBVIOUS
<1>3. sizes \subseteq Nat /\ sizes # {}
  BY <1>1, <1>2
<1>4. PICK n \in sizes : \A m \in sizes : n <= m
  <2> HIDE DEF sizes
  <2> QED  BY <1>3, LeastExists
<1>5. PICK s \in rest : Cardinality(s) = n
  OBVIOUS
<1>6. s # {} /\ pick[s] \in s
  BY DEF Picks
<1>7. Cardinality(s \ {pick[s]}) = Cardinality(s) - 1
  BY <1>1, <1>6, FS_RemoveElement
<1>8. s \ {pick[s]} \in rest
  BY <1>6
<1>9. n \in Nat /\ n <= n - 1
  BY <1>1, <1>4, <1>5, <1>7, <1>8
<1> QED  BY <1>9

\* The equations of a fold over a finite set have a solution: over the subsets
\* of at most n elements for every n, by extending it from n to n + 1.
LEMMA FoldExists ==
    ASSUME NEW S, IsFiniteSet(S), NEW pick, Picks(pick, S),
           NEW V, NEW base \in V, NEW step \in [S -> [V -> V]]
    PROVE  \E g : IsFold(g, S, V, base, step, pick)
<1> DEFINE T(n) == {s \in SUBSET S : Cardinality(s) <= n}
           Next1(g, s) == IF s = {} THEN base ELSE step[pick[s]][g[s \ {pick[s]}]]
           Solves(g, n) == /\ g \in [T(n) -> V]
                           /\ \A s \in T(n) : g[s] = Next1(g, s)
           missing == {n \in Nat : ~ \E g : Solves(g, n)}
<1>1. \A s \in SUBSET S :
         /\ IsFiniteSet(s) /\ Cardinality(s) \in Nat
         /\ Cardinality(s) <= Cardinality(S)
  BY FS_Subset, FS_CardinalityType
<1>2. \A s \in SUBSET S : s # {} =>
          /\ pick[s] \in S /\ s \ {pick[s]} \in SUBSET S
          /\ Cardinality(s \ {pick[s]}) = Cardinality(s) - 1
  BY <1>1, FS_RemoveElement DEF Picks
<1>3. \A s \in SUBSET S : Cardinality(s) = 0 <=> s = {}
  BY <1>1, FS_EmptySet
<1>4. missing = {}
  <2>1. SUFFICES ASSUME missing # {} PROVE FALSE
    OBVIOUS
  <2>2. PICK n \in missing : \A m \in missing : n <= m
    <3>1. missing \subseteq Nat
      OBVIOUS
    <3> HIDE DEF missing
    <3> QED  BY <2>1, <3>1, LeastExists
  <2>3. n \in Nat /\ ~ \E g : Solves(g, n)
    OBVIOUS
  <2>4. n # 0
    <3>1. SUFFICES ASSUME n = 0 PROVE FALSE
      OBVIOUS
    <3>2. T(0) = {{}}
      BY <1>1, <1>3, FS_EmptySet
    <3> DEFINE g == [s \in T(0) |-> base]
    <3>3. Solves(g, 0)
      BY <3>2
    <3> QED  BY <3>1, <3>3, <2>3
  <2>5. n - 1 \in Nat /\ n - 1 \notin missing
    <3> HIDE DEF missing, Solves
    <3> QED  BY <2>2, <2>3, <2>4
  <2>6. PICK g : Solves(g, n - 1)
    BY <2>5
  <2> DEFINE h == [s \in T(n) |-> Next1(g, s)]
  <2>7. \A s \in T(n) : s # {} => s \ {pick[s]} \in T(n - 1) /\ s \ {pick[s]} \in T(n)
    BY <1>1, <1>2, <2>3
  <2>8. h \in [T(n) -> V]
    <3>1. ASSUME NEW s \in T(n), s # {} PROVE Next1(g, s) \in V
      <4>1. g[s \ {pick[s]}] \in V
        BY <2>6, <2>7, <3>1
      <4>2. pick[s] \in S
        BY <1>2, <3>1
      <4>3. step[pick[s]] \in [V -> V]
        BY <4>2
      <4>4. Next1(g, s) = step[pick[s]][g[s \ {pick[s]}]]
        BY <3>1
      <4> HIDE DEF Next1, T
      <4> QED  BY <4>1, <4>3, <4>4
    <3>2. \A s \in T(n) : Next1(g, s) \in V
      <4>1. Next1(g, {}) = base
        OBVIOUS
      <4> HIDE DEF Next1, T
      <4> QED  BY <3>1, <4>1
    <3> HIDE DEF Next1, T
    <3> QED  BY <3>2
  <2>9. \A s \in T(n - 1) : s \in T(n) /\ h[s] = g[s]
    <3>1. \A s \in T(n - 1) : s \in T(n)
      BY <1>1, <2>3
    <3>2. \A s \in T(n - 1) : g[s] = Next1(g, s)
      BY <2>6
    <3> HIDE DEF Next1, T
    <3> QED  BY <3>1, <3>2
  <2>10. \A s \in T(n) : h[s] = Next1(h, s)
    <3>1. ASSUME NEW s \in T(n) PROVE Next1(g, s) = Next1(h, s)
      <4>1. s # {} => h[s \ {pick[s]}] = g[s \ {pick[s]}]
        <5> HIDE DEF h, T
        <5> QED  BY <2>7, <2>9
      <4> HIDE DEF h, T
      <4> QED  BY <4>1
    <3>2. \A s \in T(n) : h[s] = Next1(g, s)
      <4> HIDE DEF Next1, T
      <4> QED  OBVIOUS
    <3> HIDE DEF h, Next1, T
    <3> QED  BY <3>1, <3>2
  <2>11. Solves(h, n)
    <3> HIDE DEF h, Next1, T
    <3> QED  BY <2>8, <2>10
  <2> HIDE DEF Solves
  <2> QED  BY <2>3, <2>11
<1>5. Cardinality(S) \in Nat /\ T(Cardinality(S)) = SUBSET S
  BY <1>1
<1>6. PICK g : Solves(g, Cardinality(S))
  BY <1>4, <1>5
<1> QED  BY <1>5, <1>6 DEF IsFold

\* sum[s] is the sum of f over s, for every subset s of D.
IsSum(sum, f, D) ==
    sum = [s \in SUBSET D |->
              IF s = {} THEN 0
              ELSE f[CHOOSE x \in s : TRUE] + sum[s \ {CHOOSE x \in s : TRUE}]]

\* There is a sum of numbers over a finite set.
LEMMA SumExists ==
    ASSUME NEW D, IsFiniteSet(D), NEW f \in [D -> Nat]
    PROVE  \E sum : IsSum(sum, f, D)
<1> DEFINE pick == [s \in SUBSET D |-> CHOOSE x \in s : TRUE]
           step == [x \in D |-> [v \in Nat |-> f[x] + v]]
<1>1. Picks(pick, D)
  BY DEF Picks
<1>2. step \in [D -> [Nat -> Nat]]
  OBVIOUS
<1>3. \A s \in SUBSET D : pick[s] = CHOOSE x \in s : TRUE
  OBVIOUS
<1>4. \A x \in D, v \in Nat : step[x][v] = f[x] + v
  OBVIOUS
<1> HIDE DEF pick, step
<1>5. PICK g : IsFold(g, D, Nat, 0, step, pick)
  BY <1>1, <1>2, FoldExists
<1>6. \A s \in SUBSET D :
          g[s] = IF s = {} THEN 0 ELSE f[pick[s]] + g[s \ {pick[s]}]
  <2>1. ASSUME NEW s \in SUBSET D, s # {}
        PROVE  step[pick[s]][g[s \ {pick[s]}]] = f[pick[s]] + g[s \ {pick[s]}]
    <3>1. pick[s] \in D /\ g[s \ {pick[s]}] \in Nat
      BY <1>1, <1>5, <2>1 DEF Picks, IsFold
    <3> QED  BY <1>4, <3>1
  <2> QED  BY <1>5, <2>1 DEF IsFold
<1>7. g = [s \in SUBSET D |-> IF s = {} THEN 0 ELSE f[pick[s]] + g[s \ {pick[s]}]]
  <2>1. g \in [SUBSET D -> Nat]
    BY <1>5 DEF IsFold
  <2> QED  BY <1>6, <2>1
<1>8. IsSum(g, f, D)
  BY <1>3, <1>7 DEF IsSum
<1> QED  BY <1>8

\* A sum is a number, and it does not matter which element is taken first.
LEMMA SumFacts ==
    ASSUME NEW D, IsFiniteSet(D), NEW f \in [D -> Nat], NEW sum, IsSum(sum, f, D)
    PROVE  \A s \in SUBSET D :
              /\ sum[s] \in Nat
              /\ s = {} => sum[s] = 0
              /\ \A x \in s : sum[s] = f[x] + sum[s \ {x}]
<1> DEFINE pick == [s \in SUBSET D |-> CHOOSE x \in s : TRUE]
<1>1. Picks(pick, D)
  BY DEF Picks
<1>2. \A s \in SUBSET D :
          sum[s] = IF s = {} THEN 0 ELSE f[pick[s]] + sum[s \ {pick[s]}]
  BY DEF IsSum
<1> HIDE DEF pick
<1>3. \A s \in SUBSET D : sum[s] \in Nat
  <2> DEFINE P == {s \in SUBSET D : sum[s] \in Nat}
  <2>1. {} \in P
    BY <1>2
  <2>2. \A s \in SUBSET D : s # {} /\ s \ {pick[s]} \in P => s \in P
    <3>1. SUFFICES ASSUME NEW s \in SUBSET D, s # {}, s \ {pick[s]} \in P
                   PROVE  sum[s] \in Nat
      OBVIOUS
    <3>2. f[pick[s]] \in Nat
      BY <1>1, <3>1 DEF Picks
    <3> QED  BY <1>2, <3>1, <3>2
  <2>3. SUBSET D \subseteq P
    <3> HIDE DEF P
    <3> QED  BY <1>1, <2>1, <2>2, PickInduction
  <2> QED  BY <2>3
<1> DEFINE Free(s) == \A x \in s : sum[s] = f[x] + sum[s \ {x}]
           bound == {s \in SUBSET D : ~ Free(s)}
           sizes == {Cardinality(s) : s \in bound}
<1>4. bound = {}
  <2>1. SUFFICES ASSUME bound # {} PROVE FALSE
    OBVIOUS
  <2>2. \A s \in SUBSET D : IsFiniteSet(s) /\ Cardinality(s) \in Nat
    BY FS_Subset, FS_CardinalityType
  <2>3. PICK n \in sizes : \A m \in sizes : n <= m
    <3>1. sizes \subseteq Nat /\ sizes # {}
      BY <2>1, <2>2
    <3> HIDE DEF sizes
    <3> QED  BY <3>1, LeastExists
  <2>4. PICK s \in bound : Cardinality(s) = n
    OBVIOUS
  <2>5. s \in SUBSET D /\ ~ Free(s)
    OBVIOUS
  <2>6. PICK x \in s : sum[s] # f[x] + sum[s \ {x}]
    BY <2>5
  <2> DEFINE y == pick[s]
  <2>7. y \in s /\ sum[s] = f[y] + sum[s \ {y}] /\ y # x
    BY <1>1, <1>2, <2>5, <2>6 DEF Picks
  <2> HIDE DEF y
  <2>8. \A z \in s : s \ {z} \in SUBSET D /\ Free(s \ {z})
    <3>1. SUFFICES ASSUME NEW z \in s, s \ {z} \in bound PROVE FALSE
      BY <2>5
    <3>2. Cardinality(s \ {z}) = n - 1
      BY <2>2, <2>4, <2>5, FS_RemoveElement
    <3>3. n \in Nat /\ n <= n - 1
      BY <2>2, <2>3, <2>4, <2>5, <3>1, <3>2
    <3> QED  BY <3>3
  <2>9. sum[s \ {y}] = f[x] + sum[(s \ {y}) \ {x}]
    BY <2>6, <2>7, <2>8
  <2>10. sum[s \ {x}] = f[y] + sum[(s \ {x}) \ {y}]
    BY <2>6, <2>7, <2>8
  <2>11. (s \ {y}) \ {x} = (s \ {x}) \ {y}
    OBVIOUS
  <2>12. f[x] \in Nat /\ f[y] \in Nat /\ sum[(s \ {x}) \ {y}] \in Nat
    BY <1>3, <2>5, <2>6, <2>7
  <2> DEFINE c == sum[(s \ {x}) \ {y}]
  <2>13. sum[s] = f[y] + (f[x] + c) /\ sum[s \ {x}] = f[y] + c
    BY <2>7, <2>9, <2>10, <2>11
  <2>14. f[x] \in Nat /\ f[y] \in Nat /\ c \in Nat
    BY <2>12
  <2> HIDE DEF c
  <2> QED  BY <2>6, <2>13, <2>14
<1>5. \A s \in SUBSET D : Free(s)
  BY <1>4
<1> QED  BY <1>2, <1>3, <1>5

\* The sum over usage records is a sum in this sense.
LEMMA SumOfIsSum ==
    ASSUME NEW records, IsFiniteSet(DOMAIN records), NEW field,
           \A i \in DOMAIN records : records[i][field] \in Int
    PROVE  \E f, sum :
              /\ f \in [DOMAIN records -> Nat]
              /\ IsSum(sum, f, DOMAIN records)
              /\ SumOf(records, field) = sum[DOMAIN records]
              /\ \A i \in DOMAIN records : f[i] = NonNegativeInt(records[i][field])
<1> DEFINE D == DOMAIN records
           f == [i \in D |-> NonNegativeInt(records[i][field])]
           Is(it) == it = [s \in SUBSET D |->
                             IF s = {} THEN 0
                             ELSE NonNegativeInt(records[CHOOSE x \in s : TRUE][field])
                                  + it[s \ {CHOOSE x \in s : TRUE}]]
           sum == CHOOSE it : Is(it)
<1>1. SumOf(records, field) = sum[D]
  BY DEF SumOf, FoldSeq, FoldFunction, FoldFunctionOnSet, MapThenFoldSet
<1>2. f \in [D -> Nat]
  BY DEF NonNegativeInt
<1>3. \A it : Is(it) <=> IsSum(it, f, D)
  <2>1. \A s \in SUBSET D : s # {} =>
            f[CHOOSE x \in s : TRUE] = NonNegativeInt(records[CHOOSE x \in s : TRUE][field])
    OBVIOUS
  <2> HIDE DEF f, D
  <2> QED  BY <2>1 DEF IsSum
<1>4. IsSum(sum, f, D)
  <2>1. PICK g : IsSum(g, f, D)
    <3> HIDE DEF f
    <3> QED  BY <1>2, SumExists
  <2>2. Is(g)
    <3> HIDE DEF Is, f, D
    <3> QED  BY <1>3, <2>1
  <2>3. Is(sum)
    <3> HIDE DEF Is, f, D
    <3> QED  BY <2>2
  <2> HIDE DEF Is, f, D, sum
  <2> QED  BY <1>3, <2>3
<1>5. \A i \in D : f[i] = NonNegativeInt(records[i][field])
  OBVIOUS
<1> HIDE DEF f, sum
<1> QED  BY <1>1, <1>2, <1>4, <1>5

\* What the sum over usage records is at least.
LEMMA SumOfFacts ==
    ASSUME NEW records, IsFiniteSet(DOMAIN records), NEW field,
           \A i \in DOMAIN records : records[i][field] \in Int
    PROVE  /\ SumOf(records, field) \in Nat
           /\ \A i \in DOMAIN records :
                 NonNegativeInt(records[i][field]) <= SumOf(records, field)
<1>1. PICK f, sum :
         /\ f \in [DOMAIN records -> Nat]
         /\ IsSum(sum, f, DOMAIN records)
         /\ SumOf(records, field) = sum[DOMAIN records]
         /\ \A i \in DOMAIN records : f[i] = NonNegativeInt(records[i][field])
  BY SumOfIsSum
<1> DEFINE D == DOMAIN records
<1>2. IsFiniteSet(D) /\ IsSum(sum, f, D) /\ f \in [D -> Nat]
  BY <1>1
<1> HIDE DEF D
<1>3. sum[D] \in Nat
  BY <1>2, SumFacts
<1>4. ASSUME NEW i \in D PROVE f[i] <= sum[D]
  <2>1. D \ {i} \in SUBSET D /\ D \in SUBSET D
    OBVIOUS
  <2>2. sum[D \ {i}] \in Nat
    BY <1>2, <2>1, SumFacts
  <2>3. sum[D] = f[i] + sum[D \ {i}]
    BY <1>2, <2>1, SumFacts
  <2>4. f[i] \in Nat
    BY <1>2
  <2> QED  BY <2>2, <2>3, <2>4
<1> QED  BY <1>1, <1>3, <1>4 DEF D

-----------------------------------------------------------------------------
(* Where what is there comes from: the request, the quote and the bill *)

\* The work units that the two doors make of a request.
HostUnit(r) == WorkUnit(TaskTypeOf(r), Submitted(TaskTypeOf(r), InlineInput(r)))
ServerUnit(r) ==
    WorkUnit(r.payload.task_type, Submitted(r.payload.task_type, ServerInput(r)))

\* A work unit is made of a request that one of the doors lets in.
WorkInv ==
    stage \in Submissions =>
        /\ request \in Requests
        /\ \/ IngressErrors(request) = {} /\ work = HostUnit(request)
           \/ ServerErrors(request) = {} /\ work = ServerUnit(request)

\* A quote is of the files as they are: nothing edits them after it.
QuoteInv ==
    quote # None =>
        LET conf == Config[disk]
            unit == WorkUnit(TaskTypeOf(request), InlineInput(request))
        IN  /\ request \in Requests /\ IngressErrors(request) = {}
            /\ RouteErrors(conf, unit) = {}
            /\ quote = [selected |-> EstimatedPlan(conf, unit).selected,
                        cost |-> CostEstimate(conf, unit, PlanRoute(conf, unit))]

\* What is billed has the figures of a body, of which the bill is made.
BillInv ==
    /\ stage \in {"completed"} \cup Reported => IsBody(result.envelope)
    /\ stage = "billed" => entry = UsageFigures(result.envelope)
    /\ stage # "billed" => entry = None

\* What was assigned was approved.
ApprovalInv == stage \in {"assigned", "completed"} \cup Reported => decision = "approved"

\* The second part of the inductive invariant, next to DecisionsInv.
HistoryInv == WorkInv /\ QuoteInv /\ BillInv /\ ApprovalInv

\* It holds at the start.
LEMMA HistoryInvInit == Init => HistoryInv
  BY DEF Init, HistoryInv, WorkInv, QuoteInv, BillInv, ApprovalInv, Submissions, Planned, Reported

\* What an adapter makes is a body.
LEMMA ExecutedIsBody ==
    ASSUME NEW class, NEW unit, NEW worker
    PROVE  IsBody(Executed(class, unit, worker))
<1>1. ASSUME NEW status, NEW output, NEW estimated \in Int, NEW source \in CostSources
      PROVE  IsBody(Envelope(status, output, estimated, source))
  <2> DEFINE record == [estimated_cost_micros |-> estimated, actual_cost_micros |-> 0,
                        input_units |-> 0, output_units |-> 0, cost_source |-> source]
  <2>1. record \in UsageRecords
    BY DEF UsageRecords
  <2>2. /\ Envelope(status, output, estimated, source).usage_records = << record >>
        /\ Envelope(status, output, estimated, source).actual_cost_micros = 0
        /\ Envelope(status, output, estimated, source).cost_estimate_micros = estimated
    BY DEF Envelope
  <2> HIDE DEF record
  <2>3. << record >> \in Seq(UsageRecords)
    BY <2>1
  <2> QED  BY <2>2, <2>3 DEF IsBody, UsageRecords
<1>2. ASSUME NEW status, NEW output
      PROVE  IsBody(LocalEnvelope(status, output)) /\ IsBody(GatewayEnvelope(status, output))
  <2>1. IsBody(Envelope(status, output, 0, "zero_internal_phase0"))
    BY <1>1 DEF CostSources
  <2>2. IsBody(Envelope(status, output, 1000, "estimated"))
    BY <1>1 DEF CostSources
  <2> QED  BY <2>1, <2>2 DEF LocalEnvelope, GatewayEnvelope
<1>3. \E status, output :
          \/ Executed(class, unit, worker) = LocalEnvelope(status, output)
          \/ Executed(class, unit, worker) = GatewayEnvelope(status, output)
  <2>1. \E status, output : LocalTool(unit.inline) = LocalEnvelope(status, output)
    BY DEF LocalTool
  <2>2. \E status, output : LocalScript(unit.inline) = LocalEnvelope(status, output)
    BY DEF LocalScript
  <2>3. \E status, output : BrowserFetch(unit.inline) = LocalEnvelope(status, output)
    BY DEF BrowserFetch
  <2>4. \E status, output :
            ApiModelGateway(unit.task_type, unit.inline, worker) = GatewayEnvelope(status, output)
    BY DEF ApiModelGateway
  <2>5. \E status, output : PrimaryModelGateway = GatewayEnvelope(status, output)
    BY DEF PrimaryModelGateway
  <2>6. \E status, output : UnsupportedBackend = LocalEnvelope(status, output)
    BY DEF UnsupportedBackend
  <2> QED  BY <2>1, <2>2, <2>3, <2>4, <2>5, <2>6 DEF Executed
<1> QED  BY <1>2, <1>3

\* Every action keeps it, next to the invariant of the stages.
LEMMA HistoryInvStep ==
    ASSUME DecisionsInv, HistoryInv, [Next]_vars
    PROVE  HistoryInv'
<1> USE DEF HistoryInv, WorkInv, QuoteInv, BillInv, ApprovalInv, Submissions, Planned, Reported
<1> USE ValuesAssumption
<1>1. CASE StartServer
  BY <1>1 DEF StartServer
<1>2. CASE EditConfig
  BY <1>2 DEF EditConfig
<1>3. ASSUME NEW r \in Requests, EstimateRoute(r)
      PROVE  HistoryInv'
  BY <1>3 DEF EstimateRoute
<1>4. ASSUME NEW r \in Requests, SubmitToAdapter(r)
      PROVE  HistoryInv'
  <2>1. CASE IngressErrors(r) # {}
    BY <1>4, <2>1 DEF SubmitToAdapter
  <2>2. CASE IngressErrors(r) = {}
    BY <1>4, <2>2 DEF SubmitToAdapter, HostUnit
  <2> QED  BY <2>1, <2>2
<1>5. ASSUME NEW r \in Requests, SubmitToServer(r)
      PROVE  HistoryInv'
  <2>1. CASE ServerErrors(r) # {}
    BY <1>5, <2>1 DEF SubmitToServer
  <2>2. CASE ServerErrors(r) = {}
    BY <1>5, <2>2 DEF SubmitToServer, ServerUnit
  <2> QED  BY <2>1, <2>2
<1>6. CASE Plan
  BY <1>6 DEF Plan
<1>7. CASE Judge
  <2>1. /\ stage = "planned" /\ stage' \in {"error", "denied", "assigned"}
        /\ stage' = "assigned" => decision' = "approved"
        /\ UNCHANGED << disk, edited, loaded, request, quote, work, judge, plan, result,
                        report, entry >>
    BY <1>7 DEF Judge
  <2> QED  BY <2>1
<1>8. CASE ExecuteByWorker
  BY <1>8, ExecutedIsBody DEF ExecuteByWorker, ResultOfAdapter
<1>9. CASE ExecuteByGateway
  BY <1>9, ExecutedIsBody DEF ExecuteByGateway, ResultOfAdapter
<1>10. CASE ExecutionRefused
  BY <1>10 DEF ExecutionRefused
<1>11. CASE ReturnOther
  <2>1. work.task_type \in SupportedTasks
    BY <1>11 DEF ReturnOther, DecisionsInv, ConfigInv, IsWork
  <2>2. PICK e \in Returned[work.task_type] : result' = [envelope |-> e, own |-> FALSE]
    BY <1>11 DEF ReturnOther
  <2>3. IsBody(e)
    BY <2>1
  <2>4. IsBody(result'.envelope)
    BY <2>2, <2>3
  <2> QED  BY <1>11, <2>4 DEF ReturnOther
<1>12. CASE Verify
  BY <1>12 DEF Verify
<1>13. CASE Bill
  BY <1>13 DEF Bill
<1>14. CASE UNCHANGED vars
  BY <1>14 DEF vars
<1> QED  BY <1>1, <1>2, <1>3, <1>4, <1>5, <1>6, <1>7, <1>8, <1>9, <1>10, <1>11, <1>12,
            <1>13, <1>14 DEF Next

\* Every reachable state satisfies it too.
LEMMA HistoryInvariant == Spec => [](DecisionsInv /\ HistoryInv)
<1>1. Init => HistoryInv
  BY HistoryInvInit
<1>2. DecisionsInv /\ HistoryInv /\ [Next]_vars => HistoryInv'
  BY HistoryInvStep
<1> QED  BY <1>1, <1>2, DecisionsInvariant, PTL DEF Spec

\* A bill is at least what a worker reports, in its envelope and over its
\* usage records, is not negative, and is called not applicable only when it
\* is zero: for every result body that a worker may return.
THEOREM BillsAreFair == Spec => []BilledFairly
<1>1. DecisionsInv /\ HistoryInv => BilledFairly
  <2>1. SUFFICES ASSUME HistoryInv, entry # None PROVE BilledFairly
    BY DEF BilledFairly
  <2> DEFINE body == result.envelope
             records == body.usage_records
             sum(field) == SumOf(records, field)
  <2>2. IsBody(body) /\ entry = UsageFigures(body)
    BY <2>1 DEF HistoryInv, BillInv, Reported
  <2>3. records \in Seq(UsageRecords) /\ DOMAIN records = 1 .. Len(records)
    BY <2>2 DEF IsBody, UsageRecords
  <2>4. IsFiniteSet(DOMAIN records)
    BY <2>3, FS_Interval
  <2>5. \A i \in DOMAIN records :
            /\ records[i]["estimated_cost_micros"] \in Int
            /\ records[i]["actual_cost_micros"] \in Int
            /\ records[i]["input_units"] \in Int /\ records[i]["output_units"] \in Int
    <3>1. ASSUME NEW i \in DOMAIN records PROVE records[i] \in UsageRecords
      BY <2>3
    <3> HIDE DEF records
    <3> QED  BY <3>1 DEF UsageRecords
  <2>6. body.actual_cost_micros \in Int /\ body.cost_estimate_micros \in Int
    BY <2>2 DEF IsBody
  <2> HIDE DEF records
  <2>7. /\ sum("estimated_cost_micros") \in Nat /\ sum("actual_cost_micros") \in Nat
        /\ sum("input_units") \in Nat /\ sum("output_units") \in Nat
    BY <2>4, <2>5, SumOfFacts
  <2>8. \A i \in DOMAIN records :
            NonNegativeInt(records[i]["actual_cost_micros"]) <= sum("actual_cost_micros")
    BY <2>4, <2>5, SumOfFacts
  <2> DEFINE actual == CostOf(body, "actual_cost_micros", "actual_cost_micros")
             estimated == CostOf(body, "cost_estimate_micros", "estimated_cost_micros")
  <2>9. /\ actual = Larger(NonNegativeInt(body.actual_cost_micros), sum("actual_cost_micros"))
        /\ estimated = Larger(NonNegativeInt(body.cost_estimate_micros),
                              sum("estimated_cost_micros"))
    BY DEF CostOf, records
  <2>10. entry.total_tokens = sum("input_units") + sum("output_units")
    BY <2>2 DEF UsageFigures, TotalTokens, records
  <2>11. /\ entry.billable_cost_micros = IF ProviderReported(body) THEN actual ELSE estimated
         /\ entry.cost_source = "not_applicable" => ~ ProviderReported(body) /\ ~ (estimated > 0)
    BY <2>2 DEF UsageFigures, BillableCost, CostSource
  <2>12. ~ ProviderReported(body) => ~ (actual > 0)
    BY DEF ProviderReported
  <2> HIDE DEF sum, actual, estimated
  <2>13. /\ actual \in Nat /\ estimated \in Nat
         /\ actual >= body.actual_cost_micros /\ actual >= sum("actual_cost_micros")
    BY <2>6, <2>7, <2>9 DEF Larger, NonNegativeInt
  <2>14. ASSUME NEW i \in DOMAIN records PROVE actual >= records[i].actual_cost_micros
    <3>1. /\ records[i]["actual_cost_micros"] \in Int
          /\ NonNegativeInt(records[i]["actual_cost_micros"]) <= sum("actual_cost_micros")
      BY <2>5, <2>8
    <3>2. /\ NonNegativeInt(records[i]["actual_cost_micros"])
                 >= records[i]["actual_cost_micros"]
          /\ NonNegativeInt(records[i]["actual_cost_micros"]) \in Nat
      BY <3>1 DEF NonNegativeInt
    <3> QED  BY <2>7, <2>13, <3>1, <3>2
  <2>15. /\ entry.billable_cost_micros \in Nat /\ entry.billable_cost_micros >= actual
         /\ entry.cost_source = "not_applicable" => entry.billable_cost_micros = 0
    BY <2>11, <2>12, <2>13
  <2>16. /\ entry.billable_cost_micros >= body.actual_cost_micros
         /\ \A i \in DOMAIN records :
               entry.billable_cost_micros >= records[i].actual_cost_micros
    BY <2>5, <2>6, <2>13, <2>14, <2>15
  <2> QED  BY <2>7, <2>10, <2>15, <2>16 DEF BilledFairly, records
<1> QED  BY <1>1, HistoryInvariant, PTL

-----------------------------------------------------------------------------
(* Estimates *)

\* Work units that the filters of the scorer cannot tell apart.
Alike(u, v) ==
    /\ u.task_type = v.task_type /\ u.task_level = v.task_level
    /\ u.privacy_level = v.privacy_level /\ u.signals = v.signals
    /\ EffectiveLevel(u) = EffectiveLevel(v)

\* What a score loses by the confidence of the analysis.
Doubt(unit) == 12 * (100 - Confidence(unit))

\* What a candidate loses by its uncertainty is below the bound, and so are
\* all the parts of a score: none is cut off.
LEMMA NetBounds ==
    ASSUME NEW unit, unit.task_type \in SupportedTasks, NEW backend,
           NEW cost, NEW p \in Nat \ {0}
    PROVE  /\ Uncertainty(unit, backend) =
                  700 + Doubt(unit) + (IF backend.latency = None THEN 300 ELSE 0)
           /\ Doubt(unit) \in Int
           /\ Net(unit, backend, cost, p) \in Nat
           /\ Net(unit, backend, cost, p) < 10000
<1> DEFINE unknown == IF backend.latency = None THEN 300 ELSE 0
           doubt == Doubt(unit)
           late == AtMost(800, 400 * (p - 1))
<1>1. doubt \in {120, 216, 360}
  <2>1. Confidence(unit) \in {90, 82, 70}
    BY DEF Confidence
  <2> QED  BY <2>1 DEF Doubt
<1>2. unknown \in {0, 300}
  OBVIOUS
<1>3. Uncertainty(unit, backend) = AtMost(2500, 300 + doubt + unknown + 400)
  BY DEF Uncertainty, Doubt
<1> HIDE DEF unknown, doubt
<1>4. Uncertainty(unit, backend) = 700 + doubt + unknown
  <2> DEFINE raw == 300 + doubt + unknown + 400
  <2>1. raw \in Int /\ raw < 2500 /\ raw = 700 + doubt + unknown
    BY <1>1, <1>2
  <2>2. Uncertainty(unit, backend) = AtMost(2500, raw)
    BY <1>3
  <2> HIDE DEF raw
  <2> QED  BY <2>1, <2>2, AtMostFacts
<1>5. late \in Nat /\ late <= 800
  <2>1. 400 * (p - 1) \in Nat
    OBVIOUS
  <2>2. late = IF 800 <= 400 * (p - 1) THEN 800 ELSE 400 * (p - 1)
    BY <2>1, AtMostFacts
  <2> HIDE DEF late
  <2> QED  BY <2>1, <2>2
<1>6. CapabilityFit(unit, backend) \in Nat /\ CapabilityFit(unit, backend) <= 3000
  BY CapabilityFitIsInt
<1>7. /\ QualityFit(unit, backend) \in Int
      /\ 830 <= QualityFit(unit, backend) /\ QualityFit(unit, backend) <= 1805
  BY QualityFitIsInt
<1>8. CostFit(cost) \in Int /\ 250 <= CostFit(cost) /\ CostFit(cost) <= 1000
  BY DEF CostFit
<1>9. /\ LatencyFit(backend) \in Int
      /\ 225 <= LatencyFit(backend) /\ LatencyFit(backend) <= 475
  <2>1. LatencyFit(backend) \in {225, 325, 375, 475}
    BY DEF LatencyFit
  <2> QED  BY <2>1
<1> DEFINE net == Net(unit, backend, cost, p)
<1>10. net = (CapabilityFit(unit, backend) + 2500 + QualityFit(unit, backend)
              + CostFit(cost) + LatencyFit(backend) + 1000)
             - Uncertainty(unit, backend) - late
  BY DEF Net
<1> HIDE DEF late, net
<1>11. net \in Nat /\ net < 10000
  BY <1>1, <1>2, <1>4, <1>5, <1>6, <1>7, <1>8, <1>9, <1>10
<1> QED  BY <1>1, <1>4, <1>11 DEF unknown, doubt, net

\* Units that are alike pass the same filters, and their scores differ by the
\* confidence in their analyses, for every candidate alike.
LEMMA AlikeScores ==
    ASSUME NEW conf, NEW u, NEW v, Alike(u, v), u.task_type \in SupportedTasks,
           NEW p, NEW q, p.task_level = q.task_level, NEW c, c.priority \in Nat \ {0}
    PROVE  /\ Passes(conf, u, p, c) <=> Passes(conf, v, q, c)
           /\ Passes(conf, u, p, c) =>
                 Score(conf, u, p, c) + Doubt(u) = Score(conf, v, q, c) + Doubt(v)
           /\ ~ Passes(conf, u, p, c) =>
                 Score(conf, u, p, c) = 0 /\ Score(conf, v, q, c) = 0
<1> USE DEF Alike
<1>1. RawSecret(u) = RawSecret(v) /\ PrivateData(u) = PrivateData(v)
  BY DEF RawSecret, PrivateData
<1>2. EffectivePrivacy(u) = EffectivePrivacy(v)
  BY <1>1 DEF EffectivePrivacy
<1>3. PreflightAllows(u) = PreflightAllows(v)
  BY <1>1 DEF PreflightAllows
<1>4. FailedFilters(conf, u, p, c) = FailedFilters(conf, v, q, c)
  BY <1>1, <1>2, <1>3 DEF FailedFilters
<1>5. Passes(conf, u, p, c) <=> Passes(conf, v, q, c)
  BY <1>4 DEF Passes
<1>6. ASSUME Passes(conf, u, p, c)
      PROVE  Score(conf, u, p, c) + Doubt(u) = Score(conf, v, q, c) + Doubt(v)
  <2> DEFINE backend == conf.backends[c.backend_id]
             a == Net(u, backend, c.cost, c.priority)
             b == Net(v, backend, c.cost, c.priority)
             late == AtMost(800, 400 * (c.priority - 1))
  <2>1. v.task_type \in SupportedTasks /\ Passes(conf, v, q, c)
    BY <1>5, <1>6
  <2>2. Score(conf, u, p, c) = Clamped(a) /\ Score(conf, v, q, c) = Clamped(b)
    BY <1>6, <2>1, ScoreIsClamped
  <2>3. /\ CapabilityFit(u, backend) = CapabilityFit(v, backend)
        /\ QualityFit(u, backend) = QualityFit(v, backend)
    <3> HIDE DEF backend
    <3>1. RequiredCapabilities(u) = RequiredCapabilities(v)
      BY DEF RequiredCapabilities
    <3>2. TierFit(u, backend) = TierFit(v, backend)
      BY DEF TierFit
    <3> QED  BY <3>1, <3>2 DEF CapabilityFit, QualityFit
  <2>4. /\ a = (CapabilityFit(u, backend) + 2500 + QualityFit(u, backend)
                + CostFit(c.cost) + LatencyFit(backend) + 1000)
               - Uncertainty(u, backend) - late
        /\ b = (CapabilityFit(v, backend) + 2500 + QualityFit(v, backend)
                + CostFit(c.cost) + LatencyFit(backend) + 1000)
               - Uncertainty(v, backend) - late
    BY DEF Net
  <2> HIDE DEF backend
  <2>5. /\ Uncertainty(u, backend) =
               700 + Doubt(u) + (IF backend.latency = None THEN 300 ELSE 0)
        /\ Doubt(u) \in Int /\ a \in Nat /\ a < 10000
    BY NetBounds
  <2>6. /\ Uncertainty(v, backend) =
               700 + Doubt(v) + (IF backend.latency = None THEN 300 ELSE 0)
        /\ Doubt(v) \in Int /\ b \in Nat /\ b < 10000
    BY <2>1, NetBounds
  <2>7. CapabilityFit(u, backend) \in Int /\ QualityFit(u, backend) \in Int
    BY CapabilityFitIsInt, QualityFitIsInt
  <2>8. CostFit(c.cost) \in Int /\ LatencyFit(backend) \in Int
    BY OtherFitsAreInt
  <2>9. late \in Int
    BY AtMostFacts
  <2> HIDE DEF a, b, late
  <2>10. a + Doubt(u) = b + Doubt(v)
    BY <2>3, <2>4, <2>5, <2>6, <2>7, <2>8, <2>9
  <2>11. ASSUME NEW n \in Nat, n < 10000 PROVE Clamped(n) = n
    <3>1. AtMost(10000, n) = n
      BY <2>11, AtMostFacts
    <3>2. AtLeast(0, n) = n
      BY <2>11, AtLeastFacts
    <3> QED  BY <3>1, <3>2 DEF Clamped
  <2>12. Clamped(a) = a /\ Clamped(b) = b
    BY <2>5, <2>6, <2>11
  <2> QED  BY <2>2, <2>10, <2>12
<1>7. ASSUME ~ Passes(conf, u, p, c)
      PROVE  Score(conf, u, p, c) = 0 /\ Score(conf, v, q, c) = 0
  BY <1>5, <1>7 DEF Score
<1> QED  BY <1>5, <1>6, <1>7

\* A candidate that is ahead for one of them is ahead for the other.
LEMMA AlikeAhead ==
    ASSUME NEW conf, NEW u, NEW v, Alike(u, v), u.task_type \in SupportedTasks,
           NEW p, NEW q, p.task_level = q.task_level,
           NEW c, c.priority \in Nat \ {0}, NEW d, d.priority \in Nat \ {0},
           Ahead(conf, u, p, c, d)
    PROVE  Ahead(conf, v, q, c, d)
<1> DEFINE su(x) == Score(conf, u, p, x)
           sv(x) == Score(conf, v, q, x)
<1>1. v.task_type \in SupportedTasks
  BY DEF Alike
<1>2. /\ su(c) \in Nat /\ su(d) \in Nat /\ sv(c) \in Nat /\ sv(d) \in Nat
  BY <1>1, ScoreBounds
<1>3. /\ Passes(conf, u, p, c) <=> Passes(conf, v, q, c)
      /\ Passes(conf, u, p, c) => su(c) + Doubt(u) = sv(c) + Doubt(v)
      /\ ~ Passes(conf, u, p, c) => su(c) = 0 /\ sv(c) = 0
  BY AlikeScores
<1>4. /\ Passes(conf, u, p, d) <=> Passes(conf, v, q, d)
      /\ Passes(conf, u, p, d) => su(d) + Doubt(u) = sv(d) + Doubt(v)
      /\ ~ Passes(conf, u, p, d) => su(d) = 0 /\ sv(d) = 0
  BY AlikeScores
<1>5. Doubt(u) \in Int /\ Doubt(v) \in Int
  <2>1. Confidence(u) \in Int /\ Confidence(v) \in Int
    BY DEF Confidence
  <2> QED  BY <2>1 DEF Doubt
<1>6. CASE Passes(conf, u, p, c) /\ ~ Passes(conf, u, p, d)
  BY <1>3, <1>4, <1>6 DEF Ahead
<1>7. CASE ~ (Passes(conf, u, p, c) /\ ~ Passes(conf, u, p, d))
  <2>1. /\ Passes(conf, u, p, c) <=> Passes(conf, u, p, d)
        /\ \/ su(c) > su(d)
           \/ /\ su(c) = su(d)
              /\ \/ c.priority < d.priority
                 \/ c.priority = d.priority /\ c.cost < d.cost
                 \/ c.priority = d.priority /\ c.cost = d.cost /\ c.id < d.id
    BY <1>7 DEF Ahead
  <2>2. (su(c) > su(d) <=> sv(c) > sv(d)) /\ (su(c) = su(d) <=> sv(c) = sv(d))
    <3> HIDE DEF su, sv
    <3> QED  BY <1>2, <1>3, <1>4, <1>5, <2>1
  <2> QED  BY <1>3, <1>4, <2>1, <2>2 DEF Ahead
<1> QED  BY <1>6, <1>7

\* ... and so the same candidate is selected for them, whatever was before.
LEMMA AlikeSelection ==
    ASSUME NEW conf, NEW u, NEW v, Alike(u, v), u.task_type \in SupportedTasks,
           NEW p, NEW q, p.task_level = q.task_level, p.candidates = q.candidates,
           p.candidates # {}, Comparable(p.candidates),
           p.selected = q.selected \/ \E c \in p.candidates : Passes(conf, u, p, c)
    PROVE  ScoredSelection(conf, u, p) = ScoredSelection(conf, v, q)
<1> DEFINE S == p.candidates
           bestU == First(S, LAMBDA c, d : RankedBefore(conf, u, p, c, d))
           bestV == First(S, LAMBDA c, d : RankedBefore(conf, v, q, c, d))
<1>1. /\ ScoredSelection(conf, u, p) =
             IF \E c \in S : Passes(conf, u, p, c) THEN bestU.id ELSE p.selected
      /\ ScoredSelection(conf, v, q) =
             IF \E c \in S : Passes(conf, v, q, c) THEN bestV.id ELSE q.selected
  BY DEF ScoredSelection
<1>2. v.task_type \in SupportedTasks
  BY DEF Alike
<1>3. bestU \in S /\ \A y \in S \ {bestU} : RankedBefore(conf, u, p, bestU, y)
  BY RankedFirst
<1> HIDE DEF S, bestU
<1>4. \A y \in S \ {bestU} : Ahead(conf, v, q, bestU, y)
  <2>1. SUFFICES ASSUME NEW y \in S \ {bestU} PROVE Ahead(conf, v, q, bestU, y)
    OBVIOUS
  <2>2. /\ bestU.id \in Nat /\ bestU.priority \in Nat \ {0} /\ bestU.cost \in Nat
        /\ y.id \in Nat /\ y.priority \in Nat \ {0} /\ y.cost \in Nat
    BY <1>3 DEF Comparable, S
  <2>3. RankedBefore(conf, u, p, bestU, y)
    BY <1>3
  <2>4. Ahead(conf, u, p, bestU, y)
    BY <2>2, <2>3, RankedIsAhead
  <2> QED  BY <2>2, <2>4, AlikeAhead
<1>5. bestV = bestU
  <2>1. Comparable(S)
    BY DEF S
  <2> QED  BY <1>2, <1>3, <1>4, <2>1, RankedFirstIs
<1> HIDE DEF bestV
<1>6. \A c \in S : Passes(conf, u, p, c) <=> Passes(conf, v, q, c)
  <2>1. \A c \in S : c.priority \in Nat \ {0}
    BY DEF Comparable, S
  <2> QED  BY <2>1, AlikeScores
<1> QED  BY <1>1, <1>5, <1>6 DEF S

\* Scoring a scored plan once more changes nothing.
LEMMA ScoredTwice ==
    ASSUME NEW conf, WellFormed(conf), conf.scored,
           NEW unit, unit.task_type \in SupportedTasks,
           GenerationErrors(conf, unit.task_type) = {}
    PROVE  EstimatedPlan(conf, unit).selected = PlanRoute(conf, unit).selected
<1> DEFINE base == BaselinePlan(conf, unit)
           route == PlanRoute(conf, unit)
           S == Candidates(conf, unit.task_type)
<1>1. S # {} /\ Comparable(S)
  BY CandidatesComparable
<1>2. /\ base.candidates = S /\ route.candidates = S
      /\ base.task_level = route.task_level
      /\ route.selected = ScoredSelection(conf, unit, base)
  BY BaselineParts, PlanParts
<1>3. EstimatedPlan(conf, unit).selected = ScoredSelection(conf, unit, route)
  <2>1. route = [task_type |-> route.task_type, task_level |-> route.task_level,
                 candidates |-> route.candidates, selected |-> route.selected,
                 verifier_recipe_id |-> route.verifier_recipe_id]
    BY DEF PlanRoute, BaselinePlan
  <2>2. EstimatedPlan(conf, unit) =
            [route EXCEPT !.selected = ScoredSelection(conf, unit, route)]
    BY DEF EstimatedPlan
  <2> HIDE DEF route
  <2> QED  BY <2>1, <2>2
<1> HIDE DEF base, route, S
<1>4. Alike(unit, unit)
  BY DEF Alike
<1>5. CASE \E c \in S : Passes(conf, unit, base, c)
  <2>1. ScoredSelection(conf, unit, base) = ScoredSelection(conf, unit, route)
    BY <1>1, <1>2, <1>4, <1>5, AlikeSelection
  <2> QED  BY <1>2, <1>3, <2>1 DEF route
<1>6. CASE ~ \E c \in S : Passes(conf, unit, base, c)
  <2>1. \A c \in S : ~ Passes(conf, unit, route, c)
    <3>1. \A c \in S : c.priority \in Nat \ {0}
      BY <1>1 DEF Comparable
    <3> QED  BY <1>2, <1>4, <1>6, <3>1, AlikeScores
  <2>2. ScoredSelection(conf, unit, route) = route.selected
    BY <1>2, <2>1 DEF ScoredSelection
  <2> QED  BY <1>3, <2>2 DEF route
<1> QED  BY <1>5, <1>6

\* Units that are alike get the same route.
LEMMA AlikeRoutes ==
    ASSUME NEW conf, WellFormed(conf), conf.scored,
           NEW u, NEW v, Alike(u, v), u.task_type \in SupportedTasks,
           GenerationErrors(conf, u.task_type) = {}
    PROVE  PlanRoute(conf, u).selected = PlanRoute(conf, v).selected
<1> DEFINE p == BaselinePlan(conf, u)
           q == BaselinePlan(conf, v)
           S == Candidates(conf, u.task_type)
<1>1. S # {} /\ Comparable(S)
  BY CandidatesComparable
<1>2. u.task_type = v.task_type /\ u.task_level = v.task_level
  BY DEF Alike
<1>3. /\ p.candidates = S /\ q.candidates = S /\ p.task_level = q.task_level
      /\ p.selected = q.selected
      /\ PlanRoute(conf, u).selected = ScoredSelection(conf, u, p)
      /\ PlanRoute(conf, v).selected = ScoredSelection(conf, v, q)
  BY <1>2, BaselineParts, PlanParts
<1> HIDE DEF p, q, S
<1>4. ScoredSelection(conf, u, p) = ScoredSelection(conf, v, q)
  BY <1>1, <1>3, AlikeSelection
<1> QED  BY <1>3, <1>4

\* What a door makes of a payload: fields of the task, of their types.
IsInline(task, inline) ==
    /\ DOMAIN inline \subseteq TaskKeys(task)
    /\ \A k \in DOMAIN inline : inline[k] \in IF k \in Lists THEN Seq(Texts) ELSE Texts

\* Neither door lets a value in that is neither a text nor a list of texts.
LEMMA InputsAreInline ==
    ASSUME NEW r \in Requests
    PROVE  /\ IsInline(TaskTypeOf(r), InlineInput(r))
           /\ IsInline(r.payload.task_type, ServerInput(r))
<1> DEFINE payload == r.payload
           nested == NestedFields(payload)
           fields == PayloadFields(r)
<1>1. IsPayload(payload.fields)
  BY ValuesAssumption
<1>2. payload.inline_input # None => IsPayload(payload.inline_input)
  BY ValuesAssumption
<1>3. payload.input # None => IsPayload(payload.input)
  BY ValuesAssumption
<1>4. IsPayload(<< >>)
  BY DEF IsPayload
<1>5. IsPayload(nested)
  BY <1>2, <1>3, <1>4 DEF NestedFields
<1>6. \/ fields = [k \in DOMAIN nested \cup DOMAIN payload.fields |->
                      IF k \in DOMAIN payload.fields THEN payload.fields[k] ELSE nested[k]]
      \/ fields = payload.fields
      \/ fields = << >>
  BY DEF PayloadFields
<1>7. \A k, v : v \in (IF k \in Lists THEN Seq(Texts) ELSE Texts) \cup {Malformed, Blank, None}
                /\ Usable(v) => v \in IF k \in Lists THEN Seq(Texts) ELSE Texts
  BY DEF Usable
<1> HIDE DEF payload, nested, fields
<1>8. IsPayload(fields)
  BY <1>1, <1>4, <1>5, <1>6 DEF IsPayload
<1>9. IsInline(TaskTypeOf(r), InlineInput(r))
  <2> DEFINE task == TaskTypeOf(r)
             extra == IF task = "claim_extraction" THEN {"source_id"} ELSE {}
             given == {k \in TaskKeys(task) \cap DOMAIN fields : Usable(fields[k])}
             inline == InlineInput(r)
  <2>1. inline = [k \in given \cup extra |-> IF k \in given THEN fields[k] ELSE "src_claim_1"]
    BY DEF InlineInput, fields
  <2>2. extra \subseteq TaskKeys(task) /\ \A k \in extra : k = "source_id"
    BY DEF TaskKeys
  <2>3. \A k \in given : /\ k \in TaskKeys(task)
                         /\ fields[k] \in IF k \in Lists THEN Seq(Texts) ELSE Texts
    BY <1>7, <1>8 DEF IsPayload
  <2>4. "src_claim_1" \in Texts /\ "source_id" \notin Lists
    BY DefaultsAreTexts DEF Lists
  <2> HIDE DEF task, extra, given, inline
  <2>5. /\ DOMAIN inline = given \cup extra
        /\ \A k \in given : inline[k] = fields[k]
        /\ \A k \in DOMAIN inline \ given : inline[k] = "src_claim_1"
    BY <2>1
  <2>6. IsInline(task, inline)
    BY <2>2, <2>3, <2>4, <2>5 DEF IsInline
  <2> QED  BY <2>6 DEF task, inline
<1>10. IsInline(payload.task_type, ServerInput(r))
  <2> DEFINE D == {k \in TaskKeys(payload.task_type) : Usable(ServerField(payload, k))}
             inline == ServerInput(r)
  <2>1. inline = [k \in D |-> ServerField(payload, k)]
    BY DEF ServerInput, payload
  <2>2. ASSUME NEW k \in D
        PROVE  ServerField(payload, k) \in IF k \in Lists THEN Seq(Texts) ELSE Texts
    <3>1. \A f : IsPayload(f) => Field(f, k) \in
              (IF k \in Lists THEN Seq(Texts) ELSE Texts) \cup {Malformed, Blank, None}
      BY DEF IsPayload, Field
    <3>2. \/ ServerField(payload, k) = Field(payload.fields, k)
          \/ ServerField(payload, k) = None
          \/ /\ payload.inline_input # None
             /\ ServerField(payload, k) = Field(payload.inline_input, k)
      BY DEF ServerField
    <3>3. ServerField(payload, k) # None
      BY DEF Usable
    <3>4. Usable(ServerField(payload, k))
      BY <2>2
    <3> QED  BY <1>1, <1>2, <1>7, <3>1, <3>2, <3>3, <3>4
  <2>3. D \subseteq TaskKeys(payload.task_type)
    OBVIOUS
  <2> HIDE DEF D, inline
  <2>4. IsInline(payload.task_type, inline)
    BY <2>1, <2>2, <2>3 DEF IsInline
  <2> QED  BY <2>4 DEF inline
<1> QED  BY <1>9, <1>10 DEF payload

\* Submission keeps what it is given, but for the fields that say what the
\* topics and the claims may be, which it may give their defaults.
LEMMA SubmittedFacts ==
    ASSUME NEW task, NEW inline, IsInline(task, inline)
    PROVE  /\ IsInline(task, Submitted(task, inline))
           /\ \A k : k \notin DefaultKeys =>
                 /\ k \in DOMAIN Submitted(task, inline) <=> k \in DOMAIN inline
                 /\ k \in DOMAIN inline => Submitted(task, inline)[k] = inline[k]
<1> DEFINE default == DefaultsOf(task)
           given == {k \in DOMAIN inline : k \notin DOMAIN default \/ NonEmpty(inline, k)}
           full == Submitted(task, inline)
<1>1. /\ DOMAIN full = given \cup DOMAIN default
      /\ \A k \in given : full[k] = inline[k]
      /\ \A k \in DOMAIN default \ given : full[k] = default[k]
  BY SubmittedParts
<1>2. /\ DOMAIN default \subseteq DefaultKeys
      /\ \A k \in DOMAIN default : default[k] \in IF k \in Lists THEN Seq(Texts) ELSE Texts
  BY DefaultFacts
<1>3. DOMAIN default \subseteq TaskKeys(task)
  <2>1. CASE task = "topic_classification"
    BY <2>1 DEF DefaultsOf, TaskKeys
  <2>2. CASE task = "claim_extraction"
    BY <2>2 DEF DefaultsOf, TaskKeys
  <2>3. CASE task \notin {"topic_classification", "claim_extraction"}
    BY <2>3 DEF DefaultsOf
  <2> QED  BY <2>1, <2>2, <2>3
<1>4. /\ given \subseteq DOMAIN inline
      /\ \A k \in DOMAIN inline : k \notin DOMAIN default => k \in given
  OBVIOUS
<1> HIDE DEF default, given, full
<1>5. IsInline(task, full)
  BY <1>1, <1>2, <1>3, <1>4 DEF IsInline
<1>6. \A k : k \notin DefaultKeys =>
          /\ k \in DOMAIN full <=> k \in DOMAIN inline
          /\ k \in DOMAIN inline => full[k] = inline[k]
  BY <1>1, <1>2, <1>4
<1> QED  BY <1>5, <1>6 DEF full

\* What the scan finds in the value of a field.
ValueSignals(key, v) == UNION {SignalsOf(t) : t \in IF key \in Lists THEN Range(v) ELSE {v}}

\* It finds what it finds in an input in a field that is not empty.
LEMMA SignalsAreGiven ==
    ASSUME NEW task, NEW inline, IsInline(task, inline), NEW s
    PROVE  s \in WorkUnit(task, inline).signals <=>
               \E k \in TaskKeys(task) : /\ Given(inline, k) # None
                                         /\ s \in ValueSignals(k, Given(inline, k))
<1>1. WorkUnit(task, inline).signals = UNION {SignalsOf(v) : v \in TextsOf(inline)}
  BY DEF WorkUnit
<1>2. s \in WorkUnit(task, inline).signals <=>
          \E k \in DOMAIN inline : s \in ValueSignals(k, inline[k])
  BY <1>1 DEF TextsOf, ValueSignals
<1>3. ASSUME NEW k \in DOMAIN inline, s \in ValueSignals(k, inline[k])
      PROVE  Given(inline, k) = inline[k] /\ inline[k] # None
  <2>1. inline[k] \in IF k \in Lists THEN Seq(Texts) ELSE Texts
    BY DEF IsInline
  <2>2. Usable(inline[k])
    BY <2>1, TextsAreUsable
  <2>3. inline[k] # (IF k \in Lists THEN << >> ELSE "")
    <3>1. CASE k \in Lists
      <4>1. PICK t \in Range(inline[k]) : s \in SignalsOf(t)
        BY <1>3, <3>1 DEF ValueSignals
      <4>2. Range(<< >>) = {}
        BY DEF Range
      <4> QED  BY <3>1, <4>1, <4>2
    <3>2. CASE k \notin Lists
      <4>1. s \in SignalsOf(inline[k])
        BY <1>3, <3>2 DEF ValueSignals
      <4>2. SignalsOf("") = {}
        BY DEF SignalsOf
      <4> QED  BY <3>2, <4>1, <4>2
    <3> QED  BY <3>1, <3>2
  <2>4. NonEmpty(inline, k)
    BY <2>2, <2>3 DEF NonEmpty, IsTrue, Usable
  <2> QED  BY <2>2, <2>4 DEF Given, Usable
<1>4. \A k : Given(inline, k) # None => k \in DOMAIN inline /\ Given(inline, k) = inline[k]
  BY DEF Given
<1>5. DOMAIN inline \subseteq TaskKeys(task)
  BY DEF IsInline
<1> QED  BY <1>2, <1>3, <1>4, <1>5

\* It finds nothing in the defaults.
LEMMA DefaultsAreHarmless ==
    ASSUME NEW task, NEW k, Given(DefaultsOf(task), k) # None
    PROVE  ValueSignals(k, Given(DefaultsOf(task), k)) = {}
<1> DEFINE v == Given(DefaultsOf(task), k)
<1>1. \/ k = "allowed_labels" /\ v = DefaultTopicLabels
      \/ k = "allowed_claim_types" /\ v = DefaultClaimTypes
      \/ k = "source_id" /\ v = "src_claim_1"
  BY DefaultFacts DEF Given
<1> HIDE DEF v
<1>2. /\ Range(DefaultTopicLabels) =
             {"engineering", "finance", "policy", "science", "general"}
      /\ Range(DefaultClaimTypes) = {"factual", "metric", "policy", "product", "other"}
  BY DEF Range, DefaultTopicLabels, DefaultClaimTypes
<1>3. \A t \in {"engineering", "finance", "policy", "science", "general", "factual", "metric",
                "product", "other", "src_claim_1"} : SignalsOf(t) = {}
  BY DEF SignalsOf
<1>4. \A t \in (IF k \in Lists THEN Range(v) ELSE {v}) :
          t \in {"engineering", "finance", "policy", "science", "general", "factual",
                 "metric", "product", "other", "src_claim_1"}
  BY <1>1, <1>2 DEF Lists
<1>5. ValueSignals(k, v) = {}
  BY <1>3, <1>4 DEF ValueSignals
<1> QED  BY <1>5 DEF v

\* Inputs that give the same but for defaults show the same.
LEMMA SameSignals ==
    ASSUME NEW task, NEW inline, IsInline(task, inline),
           NEW other, IsInline(task, other),
           \A k \in TaskKeys(task) : Given(other, k) = Given(Submitted(task, inline), k)
    PROVE  WorkUnit(task, inline).signals = WorkUnit(task, other).signals
<1> DEFINE In(f, k, s) == Given(f, k) # None /\ s \in ValueSignals(k, Given(f, k))
<1>1. ASSUME NEW s, NEW k \in TaskKeys(task)
      PROVE  In(inline, k, s) <=> In(other, k, s)
  <2>1. Given(other, k) = IF Given(inline, k) # None THEN Given(inline, k)
                          ELSE Given(DefaultsOf(task), k)
    BY SubmittedGives
  <2>2. Given(DefaultsOf(task), k) # None => s \notin ValueSignals(k, Given(DefaultsOf(task), k))
    BY DefaultsAreHarmless
  <2> QED  BY <2>1, <2>2
<1>2. \A s : s \in WorkUnit(task, inline).signals <=> \E k \in TaskKeys(task) : In(inline, k, s)
  BY SignalsAreGiven
<1>3. \A s : s \in WorkUnit(task, other).signals <=> \E k \in TaskKeys(task) : In(other, k, s)
  BY SignalsAreGiven
<1>4. \A s : s \in WorkUnit(task, inline).signals <=> s \in WorkUnit(task, other).signals
  <2> HIDE DEF In
  <2> QED  BY <1>1, <1>2, <1>3
<1>5. \A f : WorkUnit(task, f).signals = UNION {SignalsOf(v) : v \in TextsOf(f)}
  BY DEF WorkUnit
<1> DEFINE A == UNION {SignalsOf(v) : v \in TextsOf(inline)}
           B == UNION {SignalsOf(v) : v \in TextsOf(other)}
<1>6. \A s : s \in A <=> s \in B
  BY <1>4, <1>5
<1> HIDE DEF A, B
<1>7. A = B
  BY <1>6
<1> QED  BY <1>5, <1>7 DEF A, B

\* The numbers of a finite function add up to a number.
LEMMA SumFunctionIsNat ==
    ASSUME NEW D, IsFiniteSet(D), NEW f \in [D -> Nat]
    PROVE  SumFunction(f) \in Nat
<1> DEFINE Is(it) == it = [s \in SUBSET D |->
                             IF s = {} THEN 0
                             ELSE f[CHOOSE x \in s : TRUE] + it[s \ {CHOOSE x \in s : TRUE}]]
           sum == CHOOSE it : Is(it)
<1>1. SumFunction(f) = sum[D]
  BY DEF SumFunction, SumFunctionOnSet, FoldFunctionOnSet, MapThenFoldSet
<1>2. PICK g : IsSum(g, f, D)
  BY SumExists
<1>3. Is(g)
  BY <1>2 DEF IsSum
<1>4. Is(sum)
  <2> HIDE DEF Is
  <2> QED  BY <1>3
<1>5. IsSum(sum, f, D)
  <2> HIDE DEF sum
  <2> QED  BY <1>4 DEF IsSum
<1> HIDE DEF sum
<1>6. sum[D] \in Nat
  BY <1>5, SumFacts
<1> QED  BY <1>1, <1>6

\* A task has finitely many fields.
LEMMA KeysAreFinite == \A task : IsFiniteSet(TaskKeys(task))
<1> DEFINE A == {"url"} \cup {"items"}
           B == {"html"} \cup {"text"}
           C == {"title"} \cup {"allowed_labels"}
           E == {"source_id"} \cup {"entity"}
           F == {"allowed_claim_types"}
           all == (A \cup B) \cup ((C \cup E) \cup F)
<1>1. \A x : IsFiniteSet({x})
  BY FS_Singleton
<1>2. \A S, T : IsFiniteSet(S) /\ IsFiniteSet(T) => IsFiniteSet(S \cup T)
  BY FS_Union
<1>3. IsFiniteSet(A) /\ IsFiniteSet(B) /\ IsFiniteSet(C) /\ IsFiniteSet(E) /\ IsFiniteSet(F)
  BY <1>1, <1>2
<1>4. all = {"url", "items", "html", "text", "title", "allowed_labels", "source_id", "entity",
             "allowed_claim_types"}
  OBVIOUS
<1> HIDE DEF A, B, C, E, F
<1>5. IsFiniteSet(all)
  BY <1>2, <1>3
<1> HIDE DEF all
<1>6. \A task : TaskKeys(task) \subseteq all
  BY <1>4 DEF TaskKeys
<1> QED  BY <1>5, <1>6, FS_Subset

\* What is measured of an input is a number.
LEMMA CharsAreNat ==
    ASSUME NEW task, NEW inline, IsInline(task, inline)
    PROVE  WorkUnit(task, inline).chars \in Nat
<1>1. \A v : Length(v) \in Nat
  BY DEF Length
<1>2. ASSUME NEW k \in DOMAIN inline PROVE FieldChars(inline, k) \in Nat
  <2>1. CASE k \in Lists
    <3> DEFINE D == DOMAIN inline[k]
               f == [i \in D |-> Length(inline[k][i]) + 3]
    <3>1. inline[k] \in Seq(Texts)
      BY <2>1 DEF IsInline
    <3>2. IsFiniteSet(D)
      <4>1. D = 1 .. Len(inline[k]) /\ Len(inline[k]) \in Nat
        BY <3>1
      <4> QED  BY <4>1, FS_Interval
    <3>3. f \in [D -> Nat]
      <4>1. \A i \in D : Length(inline[k][i]) + 3 \in Nat
        BY <1>1
      <4> QED  BY <4>1
    <3>4. FieldChars(inline, k) = 10 + SumFunction(f)
      BY <2>1 DEF FieldChars
    <3> HIDE DEF D, f
    <3>5. SumFunction(f) \in Nat
      BY <3>2, <3>3, SumFunctionIsNat
    <3> QED  BY <3>4, <3>5
  <2>2. CASE k \notin Lists
    <3>1. FieldChars(inline, k) = 10 + Length(inline[k])
      BY <2>2 DEF FieldChars
    <3> QED  BY <1>1, <3>1
  <2> QED  BY <2>1, <2>2
<1> DEFINE D == DOMAIN inline
           f == [k \in D |-> FieldChars(inline, k)]
           rest == IF task = "claim_extraction"
                   THEN 40 + Length(inline.text) + Length(inline.source_id) ELSE 2
<1>3. IsFiniteSet(D)
  BY KeysAreFinite, FS_Subset DEF IsInline
<1>4. f \in [D -> Nat]
  BY <1>2
<1>5. WorkUnit(task, inline).chars = SumFunction(f) + rest
  BY DEF WorkUnit, InlineChars
<1>6. rest \in Nat
  BY <1>1
<1> HIDE DEF D, f, rest
<1>7. SumFunction(f) \in Nat
  BY <1>3, <1>4, SumFunctionIsNat
<1> QED  BY <1>5, <1>6, <1>7

\* What the analysis estimates are numbers.
LEMMA TokensAreInt ==
    ASSUME NEW task \in SupportedTasks, NEW inline, IsInline(task, inline)
    PROVE  /\ InputTokens(WorkUnit(task, inline)) \in Int
           /\ OutputTokens(WorkUnit(task, inline)) \in Int
           /\ EstimatedTokens(WorkUnit(task, inline)) \in Int
<1> DEFINE unit == WorkUnit(task, inline)
           text == IF Field(inline, "text") \in {None, ""} THEN Field(inline, "html")
                   ELSE inline.text
<1>1. unit.chars \in Nat
  BY CharsAreNat
<1>2. /\ unit.task_type = task
      /\ unit.items = IF "items" \in DOMAIN inline THEN Len(inline.items) ELSE None
      /\ unit.text = IF text = None THEN None ELSE Length(text)
  BY DEF WorkUnit
<1> HIDE DEF unit, text
<1>3. unit.items \in Nat \/ unit.items = None
  <2>1. "items" \in DOMAIN inline => inline["items"] \in Seq(Texts)
    BY DEF IsInline, Lists
  <2> QED  BY <1>2, <2>1
<1>4. unit.text \in Nat \/ unit.text = None
  <2>1. Length(text) \in Nat
    BY DEF Length
  <2> QED  BY <1>2, <2>1
<1>5. InputTokens(unit) \in Int
  <2>1. Ceiling(unit.chars, 4) \in Int
    BY <1>1 DEF Ceiling
  <2> HIDE DEF Ceiling
  <2>2. AtLeast(1, Ceiling(unit.chars, 4)) \in Int
    BY <2>1, AtLeastFacts
  <2> QED  BY <2>2 DEF InputTokens
<1> DEFINE flat == [url_check |-> 64, dedup |-> 128, webpage_extraction |-> 512,
                    topic_classification |-> 96, claim_extraction |-> 512]
<1>6. flat[task] \in Int
  BY DEF SupportedTasks, TaskDefaults
<1> HIDE DEF flat
<1>7. ASSUME unit.task_type = "dedup", unit.items # None
      PROVE  OutputTokens(unit) \in Int
  <2>1. OutputTokens(unit) = AtLeast(128, unit.items * 12)
    BY <1>7 DEF OutputTokens
  <2>2. unit.items * 12 \in Int
    BY <1>3, <1>7
  <2> QED  BY <2>1, <2>2, AtLeastFacts
<1>8. ASSUME unit.task_type \in {"claim_extraction", "webpage_extraction"}, unit.text # None
      PROVE  OutputTokens(unit) \in Int
  <2> DEFINE n == Ceiling(unit.text,
                          IF unit.task_type = "claim_extraction" THEN 12 ELSE 16)
  <2>1. OutputTokens(unit) = AtLeast(512, AtMost(2048, n))
    BY <1>8 DEF OutputTokens
  <2>2. n \in Int
    BY <1>4, <1>8 DEF Ceiling
  <2> HIDE DEF n
  <2>3. AtMost(2048, n) \in Int
    BY <2>2, AtMostFacts
  <2>4. AtLeast(512, AtMost(2048, n)) \in Int
    BY <2>3, AtLeastFacts
  <2> QED  BY <2>1, <2>4
<1>9. ASSUME ~ (unit.task_type = "dedup" /\ unit.items # None),
             ~ (unit.task_type \in {"claim_extraction", "webpage_extraction"}
                /\ unit.text # None)
      PROVE  OutputTokens(unit) \in Int
  <2>1. OutputTokens(unit) = flat[task]
    BY <1>2, <1>9 DEF OutputTokens, flat
  <2> QED  BY <2>1, <1>6
<1>10. OutputTokens(unit) \in Int
  BY <1>7, <1>8, <1>9
<1> QED  BY <1>5, <1>10 DEF EstimatedTokens, unit

\* A cost estimate is a range around what is expected.
LEMMA EstimateIsRange ==
    ASSUME NEW name \in DOMAIN Config, NEW task \in SupportedTasks,
           NEW inline, IsInline(task, inline),
           RouteErrors(Config[name], WorkUnit(task, inline)) = {}
    PROVE  LET unit == WorkUnit(task, inline)
               estimate == CostEstimate(Config[name], unit, PlanRoute(Config[name], unit))
           IN  estimate.min <= estimate.expected /\ estimate.expected <= estimate.max
<1> DEFINE conf == Config[name]
           unit == WorkUnit(task, inline)
           c == Selected(PlanRoute(conf, unit))
           token_cost == InputTokens(unit) * conf.prices[c.backend_id].input
                         + OutputTokens(unit) * conf.prices[c.backend_id].output
           expected == AtLeast(c.cost, token_cost)
           estimate == CostEstimate(conf, unit, PlanRoute(conf, unit))
<1>1. WellFormed(conf)
  BY DecisionsAssumption
<1>2. unit.task_type = task
  BY DEF WorkUnit
<1>3. InputTokens(unit) \in Int /\ OutputTokens(unit) \in Int
  BY TokensAreInt
<1>4. estimate = [min |-> IF expected = 0 THEN 0 ELSE AtLeast(1, Ceiling(expected, 2)),
                  expected |-> expected, max |-> expected * 2]
  BY DEF CostEstimate
<1> HIDE DEF unit
<1>5. c.cost \in Nat /\ c.backend_id \in DOMAIN conf.backends
  <2>1. \E rule \in MatchingRules(conf, unit.task_type) : IsCandidateOf(c, conf, rule)
    BY <1>1, <1>2, PlanFacts DEF unit
  <2> HIDE DEF c
  <2> QED  BY <1>1, <2>1 DEF IsCandidateOf, WellFormed
<1>6. /\ conf.prices[c.backend_id].input \in Int
      /\ conf.prices[c.backend_id].output \in Int
  BY <1>5, ValuesAssumption
<1> HIDE DEF c, conf
<1>7. token_cost \in Int
  BY <1>3, <1>6
<1> HIDE DEF token_cost
<1>8. expected \in Nat
  BY <1>5, <1>7, AtLeastFacts
<1> HIDE DEF expected
<1>9. Ceiling(expected, 2) \in Int /\ (expected # 0 => Ceiling(expected, 2) <= expected)
  BY <1>8 DEF Ceiling
<1>10. AtLeast(1, Ceiling(expected, 2)) =
           IF 1 >= Ceiling(expected, 2) THEN 1 ELSE Ceiling(expected, 2)
  BY <1>9, AtLeastFacts
<1>11. estimate.min <= estimate.expected /\ estimate.expected <= estimate.max
  BY <1>4, <1>8, <1>9, <1>10
<1> QED  BY <1>11 DEF conf, unit

\* The unit that a request is estimated with
EstimateUnit(r) == WorkUnit(TaskTypeOf(r), InlineInput(r))

\* The depth of an input raises no level, its length does from one threshold
\* on, and what the scan finds overrides both.
LEMMA LevelFacts ==
    ASSUME NEW task \in SupportedTasks, NEW inline, IsInline(task, inline)
    PROVE  LET unit == WorkUnit(task, inline)
               high == Long(unit) \/ TaskDefaults[task].difficulty = "high"
               target == IF RawSecret(unit) THEN "L2"
                         ELSE IF PrivateData(unit) THEN "L1"
                         ELSE IF high THEN "L2" ELSE unit.task_level
           IN  EffectiveLevel(unit) = Raised(unit.task_level, target, LevelOrder)
<1> DEFINE unit == WorkUnit(task, inline)
           base == TaskDefaults[task].difficulty
           n == EstimatedTokens(unit)
           middle == n \in 16000 .. 31999
           target == CASE n >= 32000 -> "expert"
                       [] middle -> "high"
                       [] n < 16000 /\ unit.depth >= 6 -> "medium"
                       [] OTHER -> base
<1>1. n \in Int
  BY TokensAreInt
<1>2. unit.task_type = task
  BY DEF WorkUnit
<1>3. base \in {"easy", "medium", "high"}
  BY DEF SupportedTasks, TaskDefaults
<1>4. Difficulty(unit) = Raised(base, target, DifficultyOrder)
  BY <1>2 DEF Difficulty
<1> HIDE DEF unit, n, base
<1>5. middle <=> 16000 <= n /\ n <= 31999
  BY <1>1
<1> HIDE DEF middle
<1>6. /\ n >= 32000 => target = "expert"
      /\ n < 32000 /\ n >= 16000 => target = "high"
      /\ n < 16000 => target \in {"medium", base}
  <2>1. ASSUME n >= 32000 PROVE target = "expert"
    BY <1>5, <1>1, <2>1
  <2>2. ASSUME n < 32000, n >= 16000 PROVE target = "high"
    <3>1. middle /\ ~ (n >= 32000)
      BY <1>5, <1>1, <2>2
    <3> QED  BY <1>1, <2>2, <3>1
  <2>3. ASSUME n < 16000 PROVE target \in {"medium", base}
    <3>1. ~ middle /\ ~ (n >= 32000)
      BY <1>5, <1>1, <2>3
    <3> QED  BY <2>3, <3>1
  <2> QED  BY <2>1, <2>2, <2>3
<1> HIDE DEF target
<1>7. /\ DifficultyOrder["easy"] = 1 /\ DifficultyOrder["medium"] = 2
      /\ DifficultyOrder["high"] = 3 /\ DifficultyOrder["expert"] = 4
  BY DEF DifficultyOrder
<1>8. Difficulty(unit) \in {"high", "expert"} <=> n >= 16000 \/ base = "high"
  <2>1. CASE n >= 16000
    <3>1. target \in {"high", "expert"}
      BY <1>1, <1>6, <2>1
    <3> QED  BY <1>3, <1>4, <1>7, <2>1, <3>1 DEF Raised
  <2>2. CASE ~ (n >= 16000)
    <3>1. target \in {"medium", base}
      BY <1>1, <1>6, <2>2
    <3> QED  BY <1>3, <1>4, <1>7, <2>2, <3>1 DEF Raised
  <2> QED  BY <2>1, <2>2
<1>9. Long(unit) <=> n >= 16000
  BY DEF Long, n
<1>10. EffectiveLevel(unit) =
          Raised(unit.task_level,
                 IF RawSecret(unit) THEN "L2"
                 ELSE IF PrivateData(unit) THEN "L1"
                 ELSE IF Difficulty(unit) \in {"high", "expert"} THEN "L2"
                 ELSE unit.task_level, LevelOrder)
  BY DEF EffectiveLevel
<1> QED  BY <1>8, <1>9, <1>10 DEF unit, base

\* Nothing passes for a unit whose level is raised above that of its plan.
LEMMA RaisedPassesNothing ==
    ASSUME NEW conf, NEW unit,
           LevelOrder[unit.task_level] < LevelOrder[EffectiveLevel(unit)]
    PROVE  ScoredSelection(conf, unit, BaselinePlan(conf, unit)) =
               BaselinePlan(conf, unit).selected
<1> DEFINE base == BaselinePlan(conf, unit)
<1>1. base.task_level = unit.task_level
  BY BaselineParts
<1> HIDE DEF base
<1>2. \A c : "task_level_not_downgraded" \in FailedFilters(conf, unit, base, c)
  BY <1>1 DEF FailedFilters
<1>3. \A c : ~ Passes(conf, unit, base, c)
  BY <1>2 DEF Passes
<1> QED  BY <1>3 DEF ScoredSelection, base

\* A unit of the same input, but for defaults and what is empty, has the same
\* level, unless only one of the two is long: then that one is raised above
\* its plan.
LEMMA SameInputLevels ==
    ASSUME NEW task \in SupportedTasks, NEW inline, IsInline(task, inline),
           NEW other, IsInline(task, other),
           \A k \in TaskKeys(task) : Given(other, k) = Given(Submitted(task, inline), k)
    PROVE  LET u == WorkUnit(task, inline)
               v == WorkUnit(task, other)
               long == IF Long(v) THEN v ELSE u
           IN  \/ Alike(u, v)
               \/ /\ Long(u) # Long(v)
                  /\ LevelOrder[long.task_level] < LevelOrder[EffectiveLevel(long)]
<1> DEFINE u == WorkUnit(task, inline)
           v == WorkUnit(task, other)
           level == [url_check |-> "L0", dedup |-> "L1", webpage_extraction |-> "L1",
                     topic_classification |-> "L1", claim_extraction |-> "L2"]
           Target(x) == IF RawSecret(x) THEN "L2"
                        ELSE IF PrivateData(x) THEN "L1"
                        ELSE IF Long(x) \/ TaskDefaults[task].difficulty = "high"
                        THEN "L2" ELSE x.task_level
<1>1. /\ u.task_type = task /\ v.task_type = task
      /\ u.task_level = level[task] /\ v.task_level = level[task]
      /\ u.privacy_level = v.privacy_level
  BY DEF WorkUnit
<1>2. u.signals = v.signals
  BY SameSignals
<1>3. RawSecret(u) = RawSecret(v) /\ PrivateData(u) = PrivateData(v)
  BY <1>2 DEF RawSecret, PrivateData
<1>4. /\ EffectiveLevel(u) = Raised(u.task_level, Target(u), LevelOrder)
      /\ EffectiveLevel(v) = Raised(v.task_level, Target(v), LevelOrder)
  BY LevelFacts
<1>5. TaskDefaults[task].difficulty = "high" \/ level[task] \in {"L0", "L1"}
  BY DEF SupportedTasks, TaskDefaults
<1>6. LevelOrder["L0"] = 0 /\ LevelOrder["L1"] = 1 /\ LevelOrder["L2"] = 2
  BY DEF LevelOrder
<1>7. Long(u) \in BOOLEAN /\ Long(v) \in BOOLEAN
  BY DEF Long
<1> HIDE DEF u, v, level
<1>8. CASE Target(u) = Target(v)
  <2>1. EffectiveLevel(u) = EffectiveLevel(v)
    BY <1>1, <1>4, <1>8
  <2> QED  BY <1>1, <1>2, <2>1 DEF Alike, u, v
<1>9. CASE Target(u) # Target(v)
  <2>1. /\ ~ RawSecret(u) /\ ~ PrivateData(u) /\ ~ RawSecret(v) /\ ~ PrivateData(v)
        /\ TaskDefaults[task].difficulty # "high"
    BY <1>1, <1>3, <1>9
  <2>2. (Long(u) /\ ~ Long(v)) \/ (Long(v) /\ ~ Long(u))
    BY <1>1, <1>9, <2>1
  <2> DEFINE long == IF Long(v) THEN v ELSE u
  <2>3. Target(long) = "L2" /\ EffectiveLevel(long) = Raised(long.task_level, Target(long), LevelOrder)
    BY <1>4, <2>1, <2>2
  <2>4. long.task_level \in {"L0", "L1"}
    BY <1>1, <1>5, <2>1
  <2> HIDE DEF long, Target
  <2>5. LevelOrder[long.task_level] < LevelOrder[EffectiveLevel(long)]
    BY <1>6, <2>3, <2>4 DEF Raised
  <2> QED  BY <2>2, <2>5 DEF long, u, v
<1> QED  BY <1>8, <1>9

\* A host that asks for an estimate and submits the same request, at a door
\* that reads the same input, gets the route it was quoted, unless only one of
\* quote and submission is long, and then that one is of the baseline; and the
\* quoted cost is a range around what is expected: for every configuration and
\* every request.
THEOREM QuotesArePlans == Spec => []QuoteIsPlan
<1>1. DecisionsInv /\ HistoryInv => QuoteIsPlan
  <2>1. SUFFICES ASSUME DecisionsInv, HistoryInv, quote # None
                 PROVE  QuoteIsPlan
    BY DEF QuoteIsPlan
  <2> DEFINE conf == Config[disk]
             task == TaskTypeOf(request)
             inline == InlineInput(request)
             unit == EstimateUnit(request)
             base == BaselinePlan(conf, work).selected
  <2>2. disk \in DOMAIN Config /\ WellFormed(conf)
    BY <2>1, DecisionsAssumption DEF DecisionsInv, ConfigInv
  <2>3. /\ request \in Requests /\ IngressErrors(request) = {}
        /\ RouteErrors(conf, unit) = {}
        /\ quote = [selected |-> EstimatedPlan(conf, unit).selected,
                    cost |-> CostEstimate(conf, unit, PlanRoute(conf, unit))]
    BY <2>1 DEF HistoryInv, QuoteInv, EstimateUnit
  <2>4. task \in SupportedTasks
    BY <2>3, IngressTask
  <2>5. unit.task_type = task /\ unit = WorkUnit(task, inline)
    BY DEF EstimateUnit, WorkUnit
  <2>6. GenerationErrors(conf, unit.task_type) = {}
    BY <2>2, <2>3, <2>4, <2>5, PlanFacts
  <2>7. IsInline(task, inline)
    BY <2>3, InputsAreInline
  <2>8. quote.cost.min <= quote.cost.expected /\ quote.cost.expected <= quote.cost.max
    <3> DEFINE cost == CostEstimate(conf, unit, PlanRoute(conf, unit))
    <3>1. cost.min <= cost.expected /\ cost.expected <= cost.max
      BY <2>2, <2>3, <2>4, <2>7, EstimateIsRange DEF EstimateUnit
    <3>2. quote.cost = cost
      BY <2>3
    <3> HIDE DEF cost
    <3> QED  BY <3>1, <3>2
  <2>9. ASSUME plan # None, conf.scored, plan.task_type = task,
               \A k \in TaskKeys(task) :
                   Given(work.inline, k) = Given(Submitted(task, inline), k)
        PROVE  \/ plan.selected = quote.selected
               \/ /\ Long(unit) # Long(work)
                  /\ (IF Long(work) THEN plan.selected ELSE quote.selected) = base
    <3>1. stage \in Planned /\ plan = PlanRoute(conf, work)
      BY <2>1, <2>9 DEF DecisionsInv, PlanInv
    <3>2. work.task_type = task
      BY <2>9, <3>1, PlanParts
    <3>3. \/ IngressErrors(request) = {} /\ work = HostUnit(request)
          \/ ServerErrors(request) = {} /\ work = ServerUnit(request)
      BY <2>1, <3>1 DEF HistoryInv, WorkInv, Submissions
    <3> DEFINE other == work.inline
    <3>4. IsInline(task, other) /\ work = WorkUnit(task, other)
      <4>1. CASE work = HostUnit(request)
        <5>1. work = WorkUnit(task, Submitted(task, inline))
          BY <4>1 DEF HostUnit
        <5>2. other = Submitted(task, inline)
          BY <5>1 DEF WorkUnit
        <5>3. IsInline(task, Submitted(task, inline))
          BY <2>7, SubmittedFacts
        <5> HIDE DEF other, task, inline
        <5> QED  BY <5>1, <5>2, <5>3
      <4>2. CASE work = ServerUnit(request)
        <5> DEFINE full == Submitted(request.payload.task_type, ServerInput(request))
        <5>1. work = WorkUnit(request.payload.task_type, full)
          BY <4>2 DEF ServerUnit
        <5>2. request.payload.task_type = task
          BY <3>2, <5>1 DEF WorkUnit
        <5>3. other = full
          BY <5>1 DEF WorkUnit
        <5>4. IsInline(request.payload.task_type, full)
          BY <2>3, InputsAreInline, SubmittedFacts
        <5> HIDE DEF other, task, full
        <5> QED  BY <5>1, <5>2, <5>3, <5>4
      <4> QED  BY <3>3, <4>1, <4>2
    <3>5. \A k \in TaskKeys(task) : Given(other, k) = Given(Submitted(task, inline), k)
      BY <2>9
    <3>6. EstimatedPlan(conf, unit).selected = PlanRoute(conf, unit).selected
      <4> HIDE DEF conf, unit
      <4> QED  BY <2>2, <2>4, <2>5, <2>6, <2>9, ScoredTwice
    <3>7. quote.selected = PlanRoute(conf, unit).selected
      BY <2>3, <3>6
    <3>8. plan.selected = PlanRoute(conf, work).selected
      BY <3>1
    <3> DEFINE long == IF Long(work) THEN work ELSE unit
    <3> HIDE DEF conf, task, inline, unit, other
    <3>9. \/ Alike(unit, work)
          \/ /\ Long(unit) # Long(work)
             /\ LevelOrder[long.task_level] < LevelOrder[EffectiveLevel(long)]
      BY <2>4, <2>5, <2>7, <3>4, <3>5, SameInputLevels
    <3>10. CASE Alike(unit, work)
      <4>1. PlanRoute(conf, unit).selected = PlanRoute(conf, work).selected
        BY <2>2, <2>4, <2>5, <2>6, <2>9, <3>10, AlikeRoutes
      <4> QED  BY <3>7, <3>8, <4>1
    <3>11. CASE /\ Long(unit) # Long(work)
                /\ LevelOrder[long.task_level] < LevelOrder[EffectiveLevel(long)]
      <4>1. ScoredSelection(conf, long, BaselinePlan(conf, long)) =
                BaselinePlan(conf, long).selected
        <5> HIDE DEF long
        <5> QED  BY <3>11, RaisedPassesNothing
      <4>2. PlanRoute(conf, long).selected = BaselinePlan(conf, long).selected
        <5> HIDE DEF long
        <5> QED  BY <2>9, <4>1, PlanParts
      <4>3. BaselinePlan(conf, long).selected = base
        <5>1. long.task_type = work.task_type
          BY <2>5, <3>2
        <5> HIDE DEF long
        <5> QED  BY <5>1, BaselineParts
      <4>4. (IF Long(work) THEN plan.selected ELSE quote.selected)
                = PlanRoute(conf, long).selected
        BY <3>7, <3>8
      <4> HIDE DEF long, base
      <4> QED  BY <3>11, <4>2, <4>3, <4>4
    <3> QED  BY <3>9, <3>10, <3>11
  <2> QED  BY <2>5, <2>8, <2>9 DEF QuoteIsPlan
<1> QED  BY <1>1, HistoryInvariant, PTL

-----------------------------------------------------------------------------
(* What an adapter makes of its own task *)

\* The largest of a part of 1 .. n is a member of it.
LEMMA MaxFacts ==
    ASSUME NEW n \in Nat, NEW S, S \subseteq 1 .. n, S # {}
    PROVE  Max(S) \in S
<1> DEFINE below == {n - x : x \in S}
<1>1. below \subseteq Nat /\ below # {}
  <2>1. ASSUME NEW x \in S PROVE n - x \in Nat
    <3>1. x \in 1 .. n
      OBVIOUS
    <3> QED  BY <3>1
  <2> QED  BY <2>1
<1>2. PICK d \in below : \A e \in below : d <= e
  <2> HIDE DEF below
  <2> QED  BY <1>1, LeastExists
<1>3. PICK x \in S : d = n - x
  BY <1>2
<1>4. ASSUME NEW y \in S
      PROVE  x >= y
  <2>1. n - y \in below
    OBVIOUS
  <2>2. d <= n - y
    BY <1>2, <2>1
  <2>3. x \in Int /\ y \in Int
    OBVIOUS
  <2> HIDE DEF below
  <2> QED  BY <1>3, <2>2, <2>3
<1>5. \A y \in S : x >= y
  BY <1>4
<1> QED  BY <1>5 DEF Max

\* A fold over a list takes its last element first.
LastFirst(items) == [s \in SUBSET DOMAIN items |-> Max(s)]

\* That is a way to pick an element of every subset of its domain.
LEMMA LastFirstPicks ==
    ASSUME NEW items, DOMAIN items = 1 .. Len(items), Len(items) \in Nat
    PROVE  /\ IsFiniteSet(DOMAIN items) /\ Cardinality(DOMAIN items) = Len(items)
           /\ Picks(LastFirst(items), DOMAIN items)
           /\ \A s \in SUBSET DOMAIN items : LastFirst(items)[s] = Max(s)
<1> DEFINE n == Len(items)
<1>1. IsFiniteSet(DOMAIN items) /\ Cardinality(DOMAIN items) = Len(items)
  <2>1. n \in Nat /\ DOMAIN items = 1 .. n
    OBVIOUS
  <2> HIDE DEF n
  <2>2. IsFiniteSet(1 .. n) /\ Cardinality(1 .. n) = IF 1 > n THEN 0 ELSE n - 1 + 1
    BY <2>1, FS_Interval
  <2>3. Cardinality(1 .. n) = n
    BY <2>1, <2>2
  <2> QED  BY <2>1, <2>2, <2>3 DEF n
<1>2. ASSUME NEW s \in SUBSET DOMAIN items, s # {}
      PROVE  Max(s) \in s
  BY <1>2, MaxFacts
<1> QED  BY <1>1, <1>2 DEF LastFirst, Picks

\* The script's list is a list of texts, no longer than the one it is given.
LEMMA UniqueFacts ==
    ASSUME NEW items \in Seq(Texts)
    PROVE  Unique(items) \in Seq(Texts) /\ Len(Unique(items)) <= Len(items)
<1> DEFINE D == DOMAIN items
           pick == LastFirst(items)
           Add(x, v) == IF Contains(v, x) THEN v ELSE Append(v, x)
           Is(it) == it = [s \in SUBSET D |->
                             IF s = {} THEN << >> ELSE Add(items[Max(s)], it[s \ {Max(s)}])]
           list == CHOOSE it : Is(it)
           step == [i \in D |-> [v \in Seq(Texts) |-> Add(items[i], v)]]
<1>1. Unique(items) = list[D]
  BY DEF Unique, FoldLeft, MapThenFoldSet
<1>2. /\ IsFiniteSet(D) /\ Cardinality(D) = Len(items) /\ Picks(pick, D)
      /\ \A s \in SUBSET D : pick[s] = Max(s)
  BY LastFirstPicks
<1>3. ASSUME NEW i \in D, NEW v \in Seq(Texts)
      PROVE  Add(items[i], v) \in Seq(Texts) /\ Len(Add(items[i], v)) <= Len(v) + 1
  OBVIOUS
<1>4. /\ step \in [D -> [Seq(Texts) -> Seq(Texts)]]
      /\ \A i \in D, v \in Seq(Texts) : step[i][v] = Add(items[i], v)
  <2> HIDE DEF Add, D
  <2> QED  BY <1>3
<1> HIDE DEF D, pick, step, Add
<1>5. PICK g : IsFold(g, D, Seq(Texts), << >>, step, pick)
  <2>1. << >> \in Seq(Texts)
    OBVIOUS
  <2> QED  BY <1>2, <1>4, <2>1, FoldExists
<1>6. Is(g)
  <2>1. ASSUME NEW s \in SUBSET D
        PROVE  g[s] = IF s = {} THEN << >> ELSE Add(items[Max(s)], g[s \ {Max(s)}])
    <3>1. CASE s = {}
      BY <1>5, <3>1 DEF IsFold
    <3>2. CASE s # {}
      <4>1. pick[s] \in D /\ pick[s] = Max(s) /\ s \ {pick[s]} \in SUBSET D
        BY <1>2, <3>2 DEF Picks
      <4>2. g[s \ {pick[s]}] \in Seq(Texts) /\ g[s] = step[pick[s]][g[s \ {pick[s]}]]
        BY <1>5, <3>2, <4>1 DEF IsFold
      <4> QED  BY <1>4, <3>2, <4>1, <4>2
    <3> QED  BY <3>1, <3>2
  <2>2. g \in [SUBSET D -> Seq(Texts)]
    BY <1>5 DEF IsFold
  <2> QED  BY <2>1, <2>2
<1>7. Is(list)
  <2> HIDE DEF Is
  <2> QED  BY <1>6
<1> HIDE DEF list
<1>8. \A s \in SUBSET D :
          list[s] = IF s = {} THEN << >> ELSE Add(items[pick[s]], list[s \ {pick[s]}])
  <2>1. \A s \in SUBSET D :
            list[s] = IF s = {} THEN << >> ELSE Add(items[Max(s)], list[s \ {Max(s)}])
    BY <1>7
  <2>2. SUFFICES ASSUME NEW s \in SUBSET D
                 PROVE  list[s] = IF s = {} THEN << >>
                                  ELSE Add(items[pick[s]], list[s \ {pick[s]}])
    BY Zenon
  <2> QED  BY <1>2, <2>1
<1> DEFINE P == {s \in SUBSET D : list[s] \in Seq(Texts) /\ Len(list[s]) <= Cardinality(s)}
<1>9. {} \in P
  <2>1. {} \in SUBSET D /\ Cardinality({}) = 0
    BY FS_EmptySet
  <2>2. list[{}] = << >>
    BY <1>8, <2>1
  <2>3. Len(<< >>) = 0
    OBVIOUS
  <2>4. list[{}] \in Seq(Texts) /\ Len(list[{}]) <= Cardinality({})
    BY <2>1, <2>2, <2>3
  <2> QED  BY <2>1, <2>4
<1>10. ASSUME NEW s \in SUBSET D, s # {}, s \ {pick[s]} \in P
       PROVE  s \in P
  <2> DEFINE x == pick[s]
             rest == list[s \ {x}]
  <2>1. x \in s /\ x \in D
    BY <1>2, <1>10 DEF Picks
  <2>2. IsFiniteSet(s)
    BY <1>2, FS_Subset
  <2>3. Cardinality(s) \in Nat /\ Cardinality(s \ {x}) = Cardinality(s) - 1
    BY <2>1, <2>2, FS_CardinalityType, FS_RemoveElement
  <2>4. rest \in Seq(Texts) /\ Len(rest) <= Cardinality(s \ {x})
    BY <1>10
  <2>5. list[s] = Add(items[x], rest)
    BY <1>8, <1>10
  <2>6. list[s] \in Seq(Texts) /\ Len(list[s]) <= Len(rest) + 1
    <3> HIDE DEF x, rest
    <3> QED  BY <1>3, <2>1, <2>4, <2>5
  <2>7. Len(rest) \in Nat /\ Len(list[s]) \in Nat
    <3> HIDE DEF rest
    <3> QED  BY <2>4, <2>6
  <2> DEFINE n == Cardinality(s)
             r == Len(rest)
             l == Len(list[s])
  <2>8. n \in Nat /\ r \in Nat /\ l \in Nat /\ l <= r + 1 /\ r <= n - 1
    BY <2>3, <2>4, <2>6, <2>7
  <2>9. l <= n
    <3> HIDE DEF n, r, l
    <3> QED  BY <2>8
  <2> QED  BY <2>6, <2>9
<1>11. SUBSET D \subseteq P
  <2>1. IsFiniteSet(D) /\ Picks(pick, D)
    BY <1>2
  <2> HIDE DEF P
  <2> QED  BY <2>1, <1>9, <1>10, PickInduction
<1>12. D \in P
  BY <1>11
<1> QED  BY <1>1, <1>2, <1>12

\* The types that are known of those that are given are known types.
LEMMA KnownClaimTypesFacts ==
    ASSUME NEW given \in Seq(Texts)
    PROVE  KnownClaimTypes(given) \in Seq(ToSet(DefaultClaimTypes))
<1> DEFINE D == DOMAIN given
           V == Seq(ToSet(DefaultClaimTypes))
           pick == LastFirst(given)
           Add(t, v) == IF Contains(DefaultClaimTypes, t) THEN Append(v, t) ELSE v
           Is(it) == it = [s \in SUBSET D |->
                             IF s = {} THEN << >> ELSE Add(given[Max(s)], it[s \ {Max(s)}])]
           list == CHOOSE it : Is(it)
           step == [i \in D |-> [v \in V |-> Add(given[i], v)]]
<1>1. KnownClaimTypes(given) = list[D]
  BY DEF KnownClaimTypes, FoldLeft, MapThenFoldSet
<1>2. /\ IsFiniteSet(D) /\ Picks(pick, D)
      /\ \A s \in SUBSET D : pick[s] = Max(s)
  BY LastFirstPicks
<1>3. ASSUME NEW i \in D, NEW v \in V
      PROVE  Add(given[i], v) \in V
  <2>1. Contains(DefaultClaimTypes, given[i]) => given[i] \in ToSet(DefaultClaimTypes)
    BY DEF Contains, ToSet, DefaultClaimTypes
  <2> HIDE DEF D
  <2> QED  BY <2>1
<1>4. /\ step \in [D -> [V -> V]]
      /\ \A i \in D, v \in V : step[i][v] = Add(given[i], v)
  <2> HIDE DEF Add, D, V
  <2> QED  BY <1>3
<1>5. << >> \in V
  OBVIOUS
<1> HIDE DEF D, pick, step, Add, V
<1>6. PICK g : IsFold(g, D, V, << >>, step, pick)
  BY <1>2, <1>4, <1>5, FoldExists
<1>7. Is(g)
  <2>1. ASSUME NEW s \in SUBSET D
        PROVE  g[s] = IF s = {} THEN << >> ELSE Add(given[Max(s)], g[s \ {Max(s)}])
    <3>1. CASE s = {}
      BY <1>6, <3>1 DEF IsFold
    <3>2. CASE s # {}
      <4>1. pick[s] \in D /\ pick[s] = Max(s) /\ s \ {pick[s]} \in SUBSET D
        BY <1>2, <3>2 DEF Picks
      <4>2. g[s \ {pick[s]}] \in V /\ g[s] = step[pick[s]][g[s \ {pick[s]}]]
        BY <1>6, <3>2, <4>1 DEF IsFold
      <4> QED  BY <1>4, <3>2, <4>1, <4>2
    <3> QED  BY <3>1, <3>2
  <2>2. g \in [SUBSET D -> V]
    BY <1>6 DEF IsFold
  <2> QED  BY <2>1, <2>2
<1>8. Is(list)
  <2> HIDE DEF Is
  <2> QED  BY <1>7
<1> HIDE DEF list
<1> DEFINE P == {s \in SUBSET D : list[s] \in V}
<1>9. {} \in P
  BY <1>5, <1>8
<1>10. ASSUME NEW s \in SUBSET D, s # {}, s \ {pick[s]} \in P
       PROVE  s \in P
  <2>1. pick[s] \in D /\ pick[s] = Max(s)
    BY <1>2, <1>10 DEF Picks
  <2>2. list[s] = Add(given[pick[s]], list[s \ {pick[s]}])
    BY <1>8, <1>10, <2>1
  <2> QED  BY <1>3, <1>10, <2>1, <2>2
<1>11. SUBSET D \subseteq P
  <2> HIDE DEF P
  <2> QED  BY <1>2, <1>9, <1>10, PickInduction
<1>12. D \in P
  BY <1>11
<1> QED  BY <1>1, <1>12 DEF V

\* The page shows what may be an instruction to a model.
Marker == << "webpage_prompt_injection", "needs_review" >>

\* Nothing to complain of, or only that: the verifier accepts.
LEMMA MarkerIsAccepted ==
    ASSUME NEW recipe, NEW checks, checks \subseteq {Marker}
    PROVE  Recommendation(recipe, checks) \in Accepts
<1> DEFINE rule == Rules(recipe)
           hits == {i \in 1 .. 15 : rule[i][1] \cap checks # {}}
           m == Min(hits)
<1>1. Recommendation(recipe, checks) = IF hits = {} THEN "accept" ELSE rule[m][2]
  BY RuleFacts DEF Recommendation
<1>2. /\ rule[15] = << {Marker}, "accept_with_warning" >>
      /\ Marker \notin rule[1][1] /\ Marker \notin rule[2][1] /\ Marker \notin rule[3][1]
      /\ Marker \notin rule[4][1] /\ Marker \notin rule[5][1] /\ Marker \notin rule[6][1]
      /\ Marker \notin rule[7][1] /\ Marker \notin rule[8][1] /\ Marker \notin rule[9][1]
      /\ Marker \notin rule[10][1] /\ Marker \notin rule[11][1] /\ Marker \notin rule[12][1]
      /\ Marker \notin rule[13][1] /\ Marker \notin rule[14][1]
  BY DEF Rules, Marker
<1> HIDE DEF rule
<1>3. hits \subseteq {15}
  <2>1. ASSUME NEW i \in hits PROVE i = 15
    <3>1. i \in 1 .. 15 /\ Marker \in rule[i][1]
      OBVIOUS
    <3> QED  BY <1>2, <3>1
  <2> QED  BY <2>1
<1>4. hits # {} => m \in hits
  <2>1. hits \subseteq Nat
    OBVIOUS
  <2> HIDE DEF hits
  <2> QED  BY <2>1, MinFacts
<1> HIDE DEF hits, m
<1>5. hits # {} => rule[m][2] = "accept_with_warning"
  <2>1. hits # {} => m = 15
    BY <1>3, <1>4
  <2>2. rule[15][2] = "accept_with_warning"
    BY <1>2
  <2> QED  BY <2>1, <2>2
<1> QED  BY <1>1, <1>5 DEF Accepts

\* An output that its recipe accepts.
Fits(recipe, output) ==
    SchemaChecks(recipe, output) = {} /\ TaskChecks(recipe, output) \subseteq {Marker}

\* Texts, lists of texts, numbers and truth values are of the type of a field,
\* and a field that is not there is not of another type.
LEMMA UsableFacts ==
    /\ \A v \in Texts \cup Int \cup BOOLEAN : Usable(v)
    /\ \A s \in Seq(Texts) : Usable(s)
    /\ \A s \in Seq(ClaimRecords) : Usable(s)
    /\ \A c \in ClaimRecords : Usable(c)
    /\ \A output, k : Mistyped(output, k) <=> k \in DOMAIN output /\ ~ Usable(output[k])
    /\ None # TRUE /\ Malformed # TRUE
<1>1. \A v \in Texts \cup Int \cup BOOLEAN : v \notin {None, Malformed, Blank}
  BY ValuesAssumption
<1>2. \A absent \in {None, Malformed, Blank} :
          absent \notin Seq(Texts) /\ absent \notin ClaimRecords /\ absent \notin Seq(ClaimRecords)
  BY ValuesAssumption
<1>3. \A output, k : Mistyped(output, k) <=> k \in DOMAIN output /\ ~ Usable(output[k])
  BY DEF Mistyped, Present
<1>4. TRUE \in BOOLEAN
  OBVIOUS
<1> QED  BY <1>1, <1>2, <1>3, <1>4 DEF Usable

\* What is made of a URL passes the recipe for it, whatever the URL is.
LEMMA UrlFits ==
    ASSUME NEW url
    PROVE  Fits("url_check", [ok |-> TRUE, tool |-> "url_check", url |-> url])
<1> DEFINE output == [ok |-> TRUE, tool |-> "url_check", url |-> url]
<1>1. /\ DOMAIN output = {"ok", "tool", "url"} /\ output["ok"] = TRUE
  OBVIOUS
<1> HIDE DEF output
<1>2. Usable(TRUE) /\ None # TRUE /\ None # Malformed
  BY UsableFacts, ValuesAssumption
<1>3. /\ Field(output, "ok") = TRUE /\ Present(output, "ok") /\ ~ Mistyped(output, "ok")
      /\ \A k \in {"status_code", "final_url", "timed_out", "private_ip_denied",
                   "redirect_denied"} : Field(output, k) = None /\ ~ Mistyped(output, k)
  BY <1>1, <1>2, UsableFacts DEF Field, Present
<1>4. SchemaChecks("url_check", output) = {}
  BY <1>3 DEF SchemaChecks
<1>5. UrlChecks(output) = {}
  <2>1. \A k \in {"private_ip_denied", "redirect_denied", "timed_out"} : ~ Truthy(output, k)
    BY <1>2, <1>3 DEF Truthy
  <2> DEFINE rest == IF (Field(output, "status_code") = None /\ Field(output, "ok") = TRUE)
                        \/ Field(output, "status_code") \in 200 .. 299 THEN {}
                     ELSE IF Field(output, "status_code") \in 400 .. 499
                          THEN {<< "url_status", "needs_review" >>}
                          ELSE {<< "url_status", "failed" >>}
             denied == Truthy(output, "private_ip_denied") \/ Truthy(output, "redirect_denied")
  <2>2. rest = {}
    BY <1>3
  <2>3. UrlChecks(output) =
            CASE denied -> {<< "url_policy_safety", "failed" >>}
              [] ~ denied /\ Truthy(output, "timed_out") -> {<< "url_timeout", "failed" >>}
              [] OTHER -> rest
    BY DEF UrlChecks
  <2> HIDE DEF rest
  <2> QED  BY <2>1, <2>2, <2>3
<1>6. TaskChecks("url_check", output) = UrlChecks(output)
  BY DEF TaskChecks
<1> QED  BY <1>4, <1>5, <1>6 DEF Fits, output

\* A list of texts with a count passes.
LEMMA DedupFits ==
    ASSUME NEW unique \in Seq(Texts), NEW n \in Int
    PROVE  Fits("dedup", [ok |-> TRUE, tool |-> "dedup", unique_items |-> unique,
                          duplicate_count |-> n])
<1> DEFINE output == [ok |-> TRUE, tool |-> "dedup", unique_items |-> unique,
                      duplicate_count |-> n]
<1>1. /\ DOMAIN output = {"ok", "tool", "unique_items", "duplicate_count"}
      /\ output["unique_items"] = unique /\ output["duplicate_count"] = n
  OBVIOUS
<1> HIDE DEF output
<1>2. None # Malformed /\ None # TRUE /\ Usable(unique) /\ Usable(n)
  BY UsableFacts, ValuesAssumption
<1>3. /\ Present(output, "unique_items") /\ ~ Mistyped(output, "unique_items")
      /\ Present(output, "duplicate_count") /\ ~ Mistyped(output, "duplicate_count")
      /\ Field(output, "duplicate_count") = n
      /\ Field(output, "overmerge_detected") = None /\ ~ Mistyped(output, "overmerge_detected")
  BY <1>1, <1>2, UsableFacts DEF Field, Present
<1>4. SchemaChecks("dedup", output) = {}
  BY <1>3 DEF SchemaChecks
<1>5. DedupChecks(output) = {}
  BY <1>2, <1>3 DEF DedupChecks, Truthy
<1>6. TaskChecks("dedup", output) = DedupChecks(output)
  BY DEF TaskChecks
<1> QED  BY <1>4, <1>5, <1>6 DEF Fits, output

\* A page that shows something passes, with a warning when it is flagged.
LEMMA WebpageFits ==
    ASSUME NEW extracted, extracted \notin {None, Malformed, Blank, {}}, NEW flag \in BOOLEAN
    PROVE  Fits("webpage_extraction",
                [ok |-> TRUE, tool |-> "webpage_extraction", extracted |-> extracted,
                 prompt_injection_detected |-> flag])
<1> DEFINE output == [ok |-> TRUE, tool |-> "webpage_extraction", extracted |-> extracted,
                      prompt_injection_detected |-> flag]
<1>1. /\ DOMAIN output = {"ok", "tool", "extracted", "prompt_injection_detected"}
      /\ output["extracted"] = extracted /\ output["prompt_injection_detected"] = flag
  OBVIOUS
<1> HIDE DEF output
<1>2. Usable(flag) /\ Usable(extracted)
  <2>1. Usable(flag)
    BY UsableFacts
  <2> QED  BY <2>1 DEF Usable
<1>3. /\ Field(output, "extracted") = extracted /\ Present(output, "extracted")
      /\ ~ Mistyped(output, "extracted") /\ ~ Mistyped(output, "prompt_injection_detected")
      /\ ~ Mistyped(output, "untrusted_content")
  BY <1>1, <1>2, UsableFacts DEF Field, Present
<1>4. SchemaChecks("webpage_extraction", output) = {}
  BY <1>3 DEF SchemaChecks
<1>5. WebpageChecks(output) \subseteq {Marker}
  BY <1>3 DEF WebpageChecks, Marker
<1>6. TaskChecks("webpage_extraction", output) = WebpageChecks(output)
  BY DEF TaskChecks
<1> QED  BY <1>4, <1>5, <1>6 DEF Fits, output

\* A topic among the labels passes with the confidence that the adapter has.
LEMMA TopicFits ==
    ASSUME NEW labels \in Seq(Texts), NEW label, Contains(labels, label),
           NEW confidence \in 65 .. 100
    PROVE  Fits("topic_classification",
                [ok |-> TRUE, label |-> label, confidence |-> confidence,
                 allowed_labels |-> labels])
<1> DEFINE output == [ok |-> TRUE, label |-> label, confidence |-> confidence,
                      allowed_labels |-> labels]
<1>1. /\ DOMAIN output = {"ok", "label", "confidence", "allowed_labels"}
      /\ output["label"] = label /\ output["confidence"] = confidence
      /\ output["allowed_labels"] = labels
  OBVIOUS
<1> HIDE DEF output
<1>2. Usable(label) /\ Usable(confidence) /\ Usable(labels)
  <2>1. label \in Texts
    BY DEF Contains
  <2>2. confidence \in Int
    OBVIOUS
  <2> QED  BY <2>1, <2>2, UsableFacts
<1>3. /\ Field(output, "label") = label /\ Present(output, "label")
      /\ Field(output, "confidence") = confidence /\ Present(output, "confidence")
      /\ Field(output, "allowed_labels") = labels
      /\ ~ Mistyped(output, "label") /\ ~ Mistyped(output, "confidence")
      /\ ~ Mistyped(output, "allowed_labels")
  BY <1>1, <1>2, UsableFacts DEF Field, Present
<1>4. \A v \in Members(labels) : Usable(v)
  <2>1. \A v \in Range(labels) : v \in Texts
    BY DEF Range
  <2> QED  BY <1>2, <2>1, UsableFacts DEF Members
<1>5. SchemaChecks("topic_classification", output) = {}
  BY <1>3, <1>4 DEF SchemaChecks
<1>6. TopicChecks(output) = {}
  <2>1. InRange(confidence) /\ ~ (confidence < 65)
    BY DEF InRange
  <2> QED  BY <1>3, <2>1 DEF TopicChecks
<1>7. TaskChecks("topic_classification", output) = TopicChecks(output)
  BY DEF TaskChecks
<1> QED  BY <1>5, <1>6, <1>7 DEF Fits, output

\* A text with something in it.
IsFilled(text) == text \in Texts /\ text # ""

\* A member of a list that is filled from a set.
LEMMA MemberFacts ==
    ASSUME NEW S, NEW list \in Seq(S), NEW x
    PROVE  Contains(list, x) <=> x \in ToSet(list)
<1>1. DOMAIN list = 1 .. Len(list)
  OBVIOUS
<1> QED  BY <1>1 DEF Contains, ToSet

\* ... is one of the set.
LEMMA MemberIsOf ==
    ASSUME NEW S, NEW list \in Seq(S), NEW x, Contains(list, x)
    PROVE  x \in S
  BY DEF Contains


\* A claim of a known type with a text, an entity and the source that the
\* output names passes.
LEMMA ClaimFits ==
    ASSUME NEW types \in Seq(ToSet(DefaultClaimTypes)), NEW type, Contains(types, type),
           NEW text, IsFilled(text), NEW entity, IsFilled(entity), NEW source, IsFilled(source)
    PROVE  Fits("claim_extraction",
                [ok |-> TRUE,
                 claims |-> << [claim_text |-> text, entity |-> entity, claim_type |-> type,
                                confidence |-> 86, source_post_refs |-> << source >>,
                                evidence_hint |-> text] >>,
                 source_ids |-> << source >>, allowed_claim_types |-> types])
<1> DEFINE claim == [claim_text |-> text, entity |-> entity, claim_type |-> type,
                     confidence |-> 86, source_post_refs |-> << source >>,
                     evidence_hint |-> text]
           claims == << claim >>
           sources == << source >>
           output == [ok |-> TRUE, claims |-> claims, source_ids |-> sources,
                      allowed_claim_types |-> types]
<1>1. /\ DOMAIN output = {"ok", "claims", "source_ids", "allowed_claim_types"}
      /\ output["claims"] = claims /\ output["source_ids"] = sources
      /\ output["allowed_claim_types"] = types
  OBVIOUS
<1>2. /\ DOMAIN claim = {"claim_text", "entity", "claim_type", "confidence",
                         "source_post_refs", "evidence_hint"}
      /\ claim["claim_text"] = text /\ claim["entity"] = entity /\ claim["claim_type"] = type
      /\ claim["confidence"] = 86 /\ claim["source_post_refs"] = sources
      /\ claim["evidence_hint"] = text
  OBVIOUS
<1>3. type \in ToSet(DefaultClaimTypes) /\ type \in Range(types)
      /\ Contains(DefaultClaimTypes, type) /\ type \in Texts
  <2>1. type \in ToSet(DefaultClaimTypes)
    BY MemberIsOf
  <2>2. type \in Range(types)
    <3>1. DOMAIN types = 1 .. Len(types)
      OBVIOUS
    <3> QED  BY <3>1 DEF Contains, Range
  <2>3. Contains(DefaultClaimTypes, type)
    BY <2>1, DefaultsAreTexts, MemberFacts
  <2>4. type \in Texts
    BY <2>1, ValuesAssumption
  <2> QED  BY <2>1, <2>2, <2>3, <2>4
<1>4. /\ sources \in Seq(Texts) /\ Range(sources) = {source}
  <2>1. source \in Texts
    BY DEF IsFilled
  <2>2. DOMAIN sources = {1} /\ sources[1] = source
    OBVIOUS
  <2>3. sources \in Seq(Texts)
    BY <2>1
  <2> HIDE DEF sources
  <2> QED  BY <2>2, <2>3 DEF Range
<1>5. claim \in ClaimRecords
  <2>1. 86 \in Int /\ << source >> \in Seq(Texts)
    BY <1>4
  <2> QED  BY <1>3, <2>1 DEF ClaimRecords, IsFilled
<1>6. claims \in Seq(ClaimRecords) /\ claims # << >> /\ DOMAIN claims = {1}
      /\ claims[1] = claim /\ Range(claims) = {claim}
  <2> HIDE DEF claim
  <2>1. claims \in Seq(ClaimRecords) /\ claims # << >> /\ DOMAIN claims = {1}
        /\ claims[1] = claim
    BY <1>5
  <2> QED  BY <2>1 DEF Range
<1> HIDE DEF output, claims, claim, sources
<1>7. /\ Usable(claims) /\ Usable(claim) /\ Usable(types) /\ Usable(sources)
      /\ Usable(text) /\ Usable(entity) /\ Usable(type) /\ Usable(86) /\ Usable(source)
      /\ \A v \in Range(types) : Usable(v)
  <2>1. Usable(claims) /\ Usable(claim) /\ Usable(sources)
    BY <1>4, <1>5, <1>6, UsableFacts
  <2>2. ToSet(DefaultClaimTypes) \subseteq Texts
    BY ValuesAssumption
  <2>3. types \in Seq(Texts)
    BY <2>2
  <2>4. Usable(types)
    BY <2>3, UsableFacts
  <2>5. \A v \in Range(types) : v \in Texts
    BY <2>3 DEF Range
  <2>6. /\ text \in Texts /\ entity \in Texts /\ type \in Texts /\ source \in Texts
    BY <1>3 DEF IsFilled
  <2>7. 86 \in Int
    OBVIOUS
  <2>8. /\ Usable(text) /\ Usable(entity) /\ Usable(type) /\ Usable(source)
        /\ \A v \in Range(types) : Usable(v)
    BY <2>5, <2>6, UsableFacts
  <2>9. Usable(86)
    BY <2>7, UsableFacts
  <2> QED  BY <2>1, <2>4, <2>8, <2>9
<1>8. /\ Field(output, "claims") = claims /\ Present(output, "claims")
      /\ Field(output, "source_ids") = sources
      /\ Field(output, "allowed_claim_types") = types
      /\ output.claims = claims
      /\ \A k \in {"claims", "source_ids", "allowed_claim_types"} : ~ Mistyped(output, k)
  BY <1>1, <1>7, UsableFacts DEF Field, Present
<1>9. /\ Field(claim, "claim_text") = text /\ Field(claim, "entity") = entity
      /\ Field(claim, "claim_type") = type /\ claim.claim_type = type
      /\ Field(claim, "confidence") = 86 /\ claim.confidence = 86
      /\ Field(claim, "source_post_refs") = sources
      /\ Field(claim, "evidence_hint") = text /\ claim.claim_text = text
      /\ \A k \in {"claim_text", "entity", "claim_type", "confidence", "source_post_refs",
                   "evidence_hint"} : ~ Mistyped(claim, k)
  BY <1>2, <1>7, UsableFacts DEF Field
<1>10. InRange(86)
  BY DEF InRange
<1>11. /\ Members(claims) = {claim} /\ Members(sources) = {source}
       /\ Members(types) = Range(types) /\ StringsIn(sources) = {source}
  <2>1. /\ Members(claims) = {claim} /\ Members(sources) = {source}
        /\ Members(types) = Range(types)
    BY <1>4, <1>6, <1>7 DEF Members
  <2> QED  BY <1>7, <2>1 DEF StringsIn, IsFilled
<1>12. SchemaChecks("claim_extraction", output) = {}
  <2>1. ~ ClaimMistyped(claim)
    BY <1>3, <1>7, <1>9, <1>10, <1>11 DEF ClaimMistyped
  <2>2. \A c \in Members(Field(output, "claims")) : ~ ClaimMistyped(c)
    BY <1>8, <1>11, <2>1
  <2>3. \A k \in {"source_ids", "allowed_claim_types"} :
            \A v \in Members(Field(output, k)) : Usable(v)
    BY <1>7, <1>8, <1>11
  <2> QED  BY <1>8, <2>2, <2>3 DEF SchemaChecks
<1>13. type \in AllowedClaimTypes(output)
  BY <1>3, <1>8, <1>11 DEF AllowedClaimTypes
<1>14. /\ SourceRefs(claim) = {source} /\ RefsAllowed({source}, output)
  <2>1. {source} # {}
    OBVIOUS
  <2> QED  BY <1>8, <1>9, <1>11, <2>1 DEF SourceRefs, RefsAllowed
<1>15. ClaimChecks(output, claim) = {}
  <2>1. /\ IsTrue("claim_text", text) /\ IsTrue("entity", entity) /\ ~ RequiredMissing(text)
    <3>1. "claim_text" \notin Lists /\ "entity" \notin Lists
      BY DEF Lists
    <3> QED  BY <1>7, <3>1 DEF IsTrue, RequiredMissing, Usable, IsFilled
  <2>2. {source} # {}
    OBVIOUS
  <2> QED  BY <1>7, <1>9, <1>10, <1>13, <1>14, <2>1, <2>2 DEF ClaimChecks
<1>16. TaskChecks("claim_extraction", output) = {}
  <2>1. TaskChecks("claim_extraction", output) =
            IF Field(output, "claims") \in {None, Malformed, Blank, << >>}
            THEN {<< "claim_entity", "failed" >>}
            ELSE UNION {ClaimChecks(output, output.claims[i]) : i \in DOMAIN output.claims}
    BY DEF TaskChecks
  <2>2. Field(output, "claims") \notin {None, Malformed, Blank, << >>}
    BY <1>6, <1>7, <1>8 DEF Usable
  <2>3. TaskChecks("claim_extraction", output) =
            UNION {ClaimChecks(output, claims[i]) : i \in DOMAIN claims}
    BY <1>8, <2>1, <2>2
  <2>4. \A i \in DOMAIN claims : ClaimChecks(output, claims[i]) = {}
    BY <1>6, <1>15
  <2> QED  BY <2>3, <2>4
<1> QED  BY <1>12, <1>16 DEF Fits, output, claims, claim, sources

\* What the doors let in has the field that its task is about: a page has a
\* URL, claims have a text.
HasRequired(task, inline) ==
    /\ task = "webpage_extraction" => "url" \in DOMAIN inline
    /\ task = "claim_extraction" => "text" \in DOMAIN inline /\ IsFilled(inline["text"])

\* A required field that is not missing is one of the input.
LEMMA RequiredFacts ==
    ASSUME NEW v, ~ RequiredMissing(v)
    PROVE  Usable(v) /\ v # "" /\ v # None
  BY DEF RequiredMissing, Usable

\* The door of the host adapter.
LEMMA HostHasRequired ==
    ASSUME NEW r \in Requests, IngressErrors(r) = {}
    PROVE  HasRequired(TaskTypeOf(r), InlineInput(r))
<1> DEFINE task == TaskTypeOf(r)
           inline == InlineInput(r)
           fields == PayloadFields(r)
           given == {k \in TaskKeys(task) \cap DOMAIN fields : Usable(fields[k])}
           extra == IF task = "claim_extraction" THEN {"source_id"} ELSE {}
<1>1. IsInline(task, inline)
  BY InputsAreInline
<1>2. /\ task = "webpage_extraction" => ~ RequiredMissing(Field(fields, "url"))
      /\ task = "claim_extraction" => ~ RequiredMissing(Field(fields, "text"))
  <2>1. /\ task = "webpage_extraction" /\ RequiredMissing(Field(fields, "url")) =>
              "url" \in IngressErrors(r)
        /\ task = "claim_extraction" /\ RequiredMissing(Field(fields, "text")) =>
              "text" \in IngressErrors(r)
    BY IngressTask DEF IngressErrors
  <2> QED  BY <2>1
<1>3. inline = [k \in given \cup extra |-> IF k \in given THEN fields[k] ELSE "src_claim_1"]
  BY DEF InlineInput
<1>4. /\ "text" \in TaskKeys("claim_extraction") /\ "url" \in TaskKeys("webpage_extraction")
      /\ "text" \notin Lists
  BY DEF TaskKeys, Lists
<1>5. \A k \in TaskKeys(task) : ~ RequiredMissing(Field(fields, k)) =>
          k \in given /\ fields[k] # ""
  BY RequiredFacts DEF Field
<1> HIDE DEF task, inline, fields, given, extra
<1>6. \A k \in given : k \in DOMAIN inline /\ inline[k] = fields[k]
  BY <1>3
<1>7. task = "webpage_extraction" => "url" \in DOMAIN inline
  BY <1>2, <1>4, <1>5, <1>6
<1>8. task = "claim_extraction" => "text" \in DOMAIN inline /\ inline["text"] # ""
  BY <1>2, <1>4, <1>5, <1>6
<1> QED  BY <1>1, <1>4, <1>7, <1>8 DEF HasRequired, IsFilled, IsInline, inline, task

\* The door of the server.
LEMMA ServerHasRequired ==
    ASSUME NEW r \in Requests, ServerErrors(r) = {}
    PROVE  HasRequired(r.payload.task_type, ServerInput(r))
<1> DEFINE task == r.payload.task_type
           inline == ServerInput(r)
           field(k) == ServerField(r.payload, k)
<1>1. IsInline(task, inline)
  BY InputsAreInline
<1>2. /\ task = "webpage_extraction" => ~ RequiredMissing(field("url"))
      /\ task = "claim_extraction" => ~ RequiredMissing(field("text"))
  <2>1. /\ task = "webpage_extraction" /\ RequiredMissing(field("url")) =>
              "url" \in ServerErrors(r)
        /\ task = "claim_extraction" /\ RequiredMissing(field("text")) =>
              "text" \in ServerErrors(r)
    BY ServerTask DEF ServerErrors
  <2> QED  BY <2>1
<1>3. inline = [k \in {k \in TaskKeys(task) : Usable(field(k))} |-> field(k)]
  BY DEF ServerInput
<1>4. /\ "text" \in TaskKeys("claim_extraction") /\ "url" \in TaskKeys("webpage_extraction")
      /\ "text" \notin Lists
  BY DEF TaskKeys, Lists
<1> HIDE DEF task, inline, field
<1>5. \A k \in TaskKeys(task) : ~ RequiredMissing(field(k)) =>
          k \in DOMAIN inline /\ inline[k] # ""
  BY <1>3, RequiredFacts
<1>6. task = "webpage_extraction" => "url" \in DOMAIN inline
  BY <1>2, <1>4, <1>5
<1>7. task = "claim_extraction" => "text" \in DOMAIN inline /\ inline["text"] # ""
  BY <1>2, <1>4, <1>5
<1> QED  BY <1>1, <1>4, <1>6, <1>7 DEF HasRequired, IsFilled, IsInline, inline, task

\* The input of a work unit has it too, and claims have a source: submission
\* adds defaults, and only adds them.
LEMMA WorkFacts ==
    ASSUME DecisionsInv, WorkInv, stage \in Submissions
    PROVE  /\ IsInline(work.task_type, work.inline)
           /\ HasRequired(work.task_type, work.inline)
           /\ work.task_type = "claim_extraction" =>
                 "source_id" \in DOMAIN work.inline /\ IsFilled(work.inline["source_id"])
<1>1. request \in Requests
      /\ \/ IngressErrors(request) = {} /\ work = HostUnit(request)
         \/ ServerErrors(request) = {} /\ work = ServerUnit(request)
  BY DEF WorkInv
<1>2. PICK task, inline :
          /\ IsInline(task, inline) /\ HasRequired(task, inline)
          /\ work = WorkUnit(task, Submitted(task, inline))
  <2>1. CASE IngressErrors(request) = {} /\ work = HostUnit(request)
    BY <1>1, <2>1, InputsAreInline, HostHasRequired DEF HostUnit
  <2>2. CASE ServerErrors(request) = {} /\ work = ServerUnit(request)
    BY <1>1, <2>2, InputsAreInline, ServerHasRequired DEF ServerUnit
  <2> QED  BY <1>1, <2>1, <2>2
<1> DEFINE full == Submitted(task, inline)
           default == DefaultsOf(task)
           given == {k \in DOMAIN inline : k \notin DOMAIN default \/ NonEmpty(inline, k)}
<1>3. IsInline(task, full)
  BY <1>2, SubmittedFacts
<1>4. \A k \in {"text", "url"} : /\ k \in DOMAIN full <=> k \in DOMAIN inline
                                 /\ k \in DOMAIN inline => full[k] = inline[k]
  <2>1. "text" \notin DefaultKeys /\ "url" \notin DefaultKeys
    BY DEF DefaultKeys
  <2> QED  BY <1>2, <2>1, SubmittedFacts
<1>5. work.task_type = task /\ work.inline = full
  BY <1>2 DEF WorkUnit
<1>6. task = "claim_extraction" => "source_id" \in DOMAIN full /\ full["source_id"] # ""
  <2>1. /\ DOMAIN full = given \cup DOMAIN default
        /\ \A k \in given : full[k] = inline[k]
        /\ \A k \in DOMAIN default \ given : full[k] = default[k]
    BY SubmittedParts
  <2>2. task = "claim_extraction" =>
            "source_id" \in DOMAIN default /\ default["source_id"] = "src_claim_1"
    BY DEF DefaultsOf
  <2>3. "source_id" \in given /\ "source_id" \in DOMAIN default => inline["source_id"] # ""
    <3>1. "source_id" \notin Lists
      BY DEF Lists
    <3> QED  BY <3>1 DEF NonEmpty, IsTrue
  <2> HIDE DEF full, default, given
  <2> QED  BY <2>1, <2>2, <2>3
<1> HIDE DEF full
<1>7. task = "claim_extraction" => IsFilled(full["source_id"])
  <2>1. "source_id" \notin Lists
    BY DEF Lists
  <2> QED  BY <1>3, <1>6, <2>1 DEF IsInline, IsFilled
<1> QED  BY <1>2, <1>3, <1>4, <1>5, <1>6, <1>7 DEF HasRequired
\* An envelope that its adapter did not fail.
IsSound(envelope, recipe) ==
    /\ envelope.output_hash_valid /\ envelope.result_hash_valid
    /\ envelope.status = "failed" \/ Fits(recipe, envelope.output)

\* The hashes of an envelope are those of what it holds.
LEMMA EnvelopeIsSound ==
    ASSUME NEW status, NEW output, NEW recipe, status = "failed" \/ Fits(recipe, output)
    PROVE  /\ IsSound(LocalEnvelope(status, output), recipe)
           /\ IsSound(GatewayEnvelope(status, output), recipe)
  BY DEF IsSound, LocalEnvelope, GatewayEnvelope, Envelope

\* The tool fails or checks a URL.
LEMMA LocalToolIsSound ==
    ASSUME NEW inline
    PROVE  IsSound(LocalTool(inline), "url_check")
  BY UrlFits, EnvelopeIsSound DEF LocalTool

\* The script leaves no more items than it was given.
LEMMA LocalScriptIsSound ==
    ASSUME NEW task, NEW inline, IsInline(task, inline)
    PROVE  IsSound(LocalScript(inline), "dedup")
<1> DEFINE items == IF "items" \in DOMAIN inline THEN inline.items ELSE << >>
           unique == Unique(items)
<1>1. items \in Seq(Texts)
  <2>1. "items" \in Lists
    BY DEF Lists
  <2> QED  BY <2>1 DEF IsInline
<1> HIDE DEF items
<1>2. unique \in Seq(Texts) /\ Len(unique) <= Len(items)
  BY <1>1, UniqueFacts
<1> HIDE DEF unique
<1>3. Len(items) - Len(unique) \in Int
  BY <1>1, <1>2
<1>4. Fits("dedup", [ok |-> TRUE, tool |-> "dedup", unique_items |-> unique,
                     duplicate_count |-> Len(items) - Len(unique)])
  BY <1>2, <1>3, DedupFits
<1>5. LocalScript(inline) =
          LocalEnvelope("succeeded",
              [ok |-> TRUE, tool |-> "dedup", unique_items |-> unique,
               duplicate_count |-> Len(items) - Len(unique)])
  BY DEF LocalScript, items, unique
<1> QED  BY <1>4, <1>5, EnvelopeIsSound

\* The browser fails or shows at least the URL.
LEMMA BrowserFetchIsSound ==
    ASSUME NEW task, NEW inline, IsInline(task, inline), "url" \in DOMAIN inline
    PROVE  IsSound(BrowserFetch(inline), "webpage_extraction")
<1> DEFINE source == IF "html" \in DOMAIN inline THEN inline.html ELSE Field(inline, "text")
           shown == IF source = "" THEN Field(inline, "text") ELSE source
           title == Field(inline, "title")
           extracted == {inline.url, shown, title} \ {None, ""}
           flag == source = "injection"
<1>1. CASE Field(inline, "url") # "http"
  <2>1. BrowserFetch(inline) = LocalEnvelope("failed", Failure)
    BY <1>1 DEF BrowserFetch
  <2> QED  BY <2>1, EnvelopeIsSound
<1>2. CASE Field(inline, "url") = "http"
  <2>1. /\ "url" \notin Lists /\ "html" \notin Lists /\ "text" \notin Lists
        /\ "title" \notin Lists
    BY DEF Lists
  <2>2. \A k \in {"url", "html", "text", "title"} :
            Field(inline, k) \in Texts \cup {None}
    BY <2>1 DEF Field, IsInline
  <2>3. "http" \in Texts /\ inline.url = "http" /\ "http" # None
    BY <1>2, <2>1, UsableFacts DEF Field, IsInline, Usable
  <2>4. shown \in Texts \cup {None} /\ title \in Texts \cup {None}
    BY <2>2 DEF Field
  <2> HIDE DEF source, shown, title
  <2>5. extracted \notin {None, Malformed, Blank, {}}
    <3>1. "http" \in extracted
      BY <2>3
    <3>2. extracted \subseteq Texts
      BY <2>3, <2>4
    <3> DEFINE s == IF shown \in {None, ""} THEN "http" ELSE shown
               t == IF title \in {None, ""} THEN "http" ELSE title
    <3>3. s \in Texts /\ t \in Texts
      BY <2>3, <2>4
    <3>4. extracted = {"http", s, t}
      BY <2>3, <2>4
    <3> HIDE DEF s, t, extracted
    <3>5. extracted # None /\ extracted # Malformed /\ extracted # Blank
      BY <2>3, <3>3, <3>4, ValuesAssumption
    <3> QED  BY <3>1, <3>5
  <2>6. flag \in BOOLEAN
    OBVIOUS
  <2>7. BrowserFetch(inline) =
            LocalEnvelope("succeeded",
                [ok |-> TRUE, tool |-> "webpage_extraction", extracted |-> extracted,
                 prompt_injection_detected |-> flag])
    BY <1>2 DEF BrowserFetch, source, shown, title
  <2> HIDE DEF extracted, flag
  <2> QED  BY <2>5, <2>6, <2>7, WebpageFits, EnvelopeIsSound
<1> QED  BY <1>1, <1>2

\* The labels of a topic are those of the host, unless it gives none.
LEMMA TopicFitsRecipe ==
    ASSUME NEW task, NEW inline, IsInline(task, inline)
    PROVE  Fits("topic_classification", Topic(inline))
<1> DEFINE given == Field(inline, "allowed_labels")
           labels == IF given \in {None, << >>} THEN DefaultTopicLabels ELSE given
           hit == inline.text = "code" /\ Contains(labels, "engineering")
           label == IF hit THEN "engineering" ELSE labels[1]
           confidence == IF hit THEN 88 ELSE 72
<1>1. given \in Seq(Texts) \cup {None}
  <2>1. "allowed_labels" \in Lists
    BY DEF Lists
  <2> QED  BY <2>1 DEF Field, IsInline
<1> HIDE DEF given
<1>2. labels \in Seq(Texts) /\ labels # << >>
  <2>1. DefaultTopicLabels # << >>
    BY DEF DefaultTopicLabels
  <2>2. DefaultTopicLabels \in Seq(Texts)
    BY DefaultsAreTexts
  <2> QED  BY <1>1, <2>1, <2>2
<1> HIDE DEF labels
<1>3. Contains(labels, labels[1])
  <2>1. 1 \in 1 .. Len(labels)
    BY <1>2
  <2> QED  BY <2>1 DEF Contains
<1>4. Contains(labels, label)
  <2>1. hit => Contains(labels, "engineering")
    OBVIOUS
  <2> HIDE DEF hit
  <2> QED  BY <1>3, <2>1
<1>5. confidence \in 65 .. 100
  <2> HIDE DEF hit
  <2> QED  OBVIOUS
<1>6. Topic(inline) = [ok |-> TRUE, label |-> label, confidence |-> confidence,
                       allowed_labels |-> labels]
  BY DEF Topic, labels, given
<1> HIDE DEF label, confidence
<1> QED  BY <1>2, <1>4, <1>5, <1>6, TopicFits

\* The types of a claim are the known ones of those given, or the default.
LEMMA ClaimsFitRecipe ==
    ASSUME NEW inline, IsInline("claim_extraction", inline),
           HasRequired("claim_extraction", inline),
           "source_id" \in DOMAIN inline, IsFilled(inline["source_id"])
    PROVE  Fits("claim_extraction", Claims(inline))
<1> DEFINE known == IF Field(inline, "allowed_claim_types") = None THEN << >>
                    ELSE KnownClaimTypes(inline.allowed_claim_types)
           types == IF known = << >> THEN DefaultClaimTypes ELSE known
           preferred == IF inline.text = "code" THEN "product" ELSE "factual"
           source == IF "source_id" \in DOMAIN inline THEN inline.source_id ELSE "src_claim_1"
           entity == IF Field(inline, "entity") \in {None, ""} THEN "TokenBank"
                     ELSE inline.entity
           type == IF Contains(types, preferred) THEN preferred ELSE types[1]
           text == inline.text
<1>1. known \in Seq(ToSet(DefaultClaimTypes))
  <2>1. "allowed_claim_types" \in Lists
    BY DEF Lists
  <2>2. Field(inline, "allowed_claim_types") # None => inline.allowed_claim_types \in Seq(Texts)
    BY <2>1 DEF Field, IsInline
  <2> QED  BY <2>2, KnownClaimTypesFacts
<1> HIDE DEF known
<1>2. types \in Seq(ToSet(DefaultClaimTypes)) /\ types # << >>
  <2>1. DefaultClaimTypes # << >>
    BY DEF DefaultClaimTypes
  <2>2. DefaultClaimTypes \in Seq(ToSet(DefaultClaimTypes))
    BY DEF DefaultClaimTypes, ToSet
  <2> QED  BY <1>1, <2>1, <2>2
<1> HIDE DEF types
<1>3. Contains(types, type)
  <2>1. 1 \in 1 .. Len(types)
    BY <1>2
  <2>2. Contains(types, types[1])
    BY <2>1 DEF Contains
  <2> HIDE DEF preferred
  <2> QED  BY <2>2
<1>4. IsFilled(source)
  OBVIOUS
<1>5. IsFilled(entity)
  <2>1. IsFilled("TokenBank")
    BY DefaultsAreTexts DEF IsFilled
  <2>2. "entity" \notin Lists
    BY DEF Lists
  <2>3. Field(inline, "entity") \notin {None, ""} => IsFilled(inline.entity)
    BY <2>2 DEF Field, IsInline, IsFilled
  <2> QED  BY <2>1, <2>3
<1>6. IsFilled(text)
  BY DEF HasRequired
<1>7. Claims(inline) =
          [ok |-> TRUE,
           claims |-> << [claim_text |-> text, entity |-> entity, claim_type |-> type,
                          confidence |-> 86, source_post_refs |-> << source >>,
                          evidence_hint |-> text] >>,
           source_ids |-> << source >>, allowed_claim_types |-> types]
  BY DEF Claims, types, known
<1> HIDE DEF type, source, entity, text
<1> QED  BY <1>2, <1>3, <1>4, <1>5, <1>6, <1>7, ClaimFits

\* What the gateways make of their two tasks; a worker's is a failure.
LEMMA GatewayIsSound ==
    ASSUME NEW task \in {"topic_classification", "claim_extraction"}, NEW worker,
           NEW inline, IsInline(task, inline), HasRequired(task, inline),
           task = "claim_extraction" =>
              "source_id" \in DOMAIN inline /\ IsFilled(inline["source_id"])
    PROVE  IsSound(ApiModelGateway(task, inline, worker), task)
           /\ IsSound(PrimaryModelGateway, task)
<1>1. IsSound(PrimaryModelGateway, task)
  BY EnvelopeIsSound DEF PrimaryModelGateway
<1>2. \/ /\ task = "topic_classification"
         /\ ApiModelGateway(task, inline, worker) = GatewayEnvelope("succeeded", Topic(inline))
      \/ /\ task = "claim_extraction"
         /\ ApiModelGateway(task, inline, worker) = GatewayEnvelope("succeeded", Claims(inline))
      \/ ApiModelGateway(task, inline, worker) = GatewayEnvelope("failed", Failure)
  BY DEF ApiModelGateway
<1>3. IsSound(GatewayEnvelope("failed", Failure), task)
  BY EnvelopeIsSound
<1>4. CASE /\ task = "topic_classification"
           /\ ApiModelGateway(task, inline, worker)
                  = GatewayEnvelope("succeeded", Topic(inline))
  <2>1. Fits(task, Topic(inline))
    BY <1>4, TopicFitsRecipe
  <2>2. IsSound(GatewayEnvelope("succeeded", Topic(inline)), task)
    BY <2>1, EnvelopeIsSound
  <2> QED  BY <1>1, <1>4, <2>2
<1>5. CASE /\ task = "claim_extraction"
           /\ ApiModelGateway(task, inline, worker)
                  = GatewayEnvelope("succeeded", Claims(inline))
  <2>1. Fits(task, Claims(inline))
    BY <1>5, ClaimsFitRecipe
  <2>2. IsSound(GatewayEnvelope("succeeded", Claims(inline)), task)
    BY <2>1, EnvelopeIsSound
  <2> QED  BY <1>1, <1>5, <2>2
<1> QED  BY <1>1, <1>2, <1>3, <1>4, <1>5

\* Adapters and recipes agree on the shape of an output: what an adapter makes
\* of a unit of its own task, for any input that a door lets in, passes the
\* recipe of the task, unless it failed or echoes what looks like a secret.
THEOREM AdaptersFitRecipes == Spec => []OwnOutputAccepted
<1>1. DecisionsInv /\ HistoryInv => OwnOutputAccepted
  <2> DEFINE class == Selected(plan).backend_class
             worker == Selected(plan).worker_id
             task == work.task_type
             envelope == result.envelope
             fits == [url_check |-> {"local_tool"}, dedup |-> {"local_script"},
                      webpage_extraction |-> {"browser_fetch"},
                      topic_classification |-> GatewayClasses,
                      claim_extraction |-> GatewayClasses]
  <2>1. SUFFICES ASSUME DecisionsInv, HistoryInv, report # None, result.own,
                        envelope.status # "failed", class \in fits[task],
                        \A v \in EnvelopeStrings(envelope) : ~ LooksSecret(v)
                 PROVE  report.recommendation \in Accepts
    BY DEF OwnOutputAccepted
  <2> DEFINE checks == Checks(task, envelope, decision)
  <2>2. /\ stage \in Reported /\ task \in SupportedTasks
        /\ report.recommendation = Recommendation(task, checks)
    BY <2>1, ReportedFacts
  <2>3. /\ envelope = Executed(class, work, worker) /\ decision = "approved"
        /\ stage \in Submissions
    BY <2>1, <2>2
    DEF DecisionsInv, ReportInv, HistoryInv, ApprovalInv, Reported, Submissions, Planned
  <2>4. /\ IsInline(task, work.inline) /\ HasRequired(task, work.inline)
        /\ task = "claim_extraction" =>
              "source_id" \in DOMAIN work.inline /\ IsFilled(work.inline["source_id"])
    BY <2>1, <2>3, WorkFacts DEF HistoryInv
  <2>5. IsSound(envelope, task)
    <3>1. \/ task = "url_check" \/ task = "dedup" \/ task = "webpage_extraction"
          \/ task = "topic_classification" \/ task = "claim_extraction"
      BY <2>2 DEF SupportedTasks, TaskDefaults
    <3> HIDE DEF class, worker, envelope
    <3>2. CASE task = "url_check"
      <4>1. class = "local_tool"
        BY <2>1, <3>2
      <4>2. envelope = LocalTool(work.inline)
        BY <2>3, <4>1 DEF Executed
      <4> QED  BY <3>2, <4>2, LocalToolIsSound
    <3>3. CASE task = "dedup"
      <4>1. class = "local_script"
        BY <2>1, <3>3
      <4>2. envelope = LocalScript(work.inline)
        BY <2>3, <4>1 DEF Executed
      <4> QED  BY <2>4, <3>3, <4>2, LocalScriptIsSound
    <3>4. CASE task = "webpage_extraction"
      <4>1. class = "browser_fetch"
        BY <2>1, <3>4
      <4>2. envelope = BrowserFetch(work.inline)
        BY <2>3, <4>1 DEF Executed
      <4> QED  BY <2>4, <3>4, <4>2, BrowserFetchIsSound DEF HasRequired
    <3>5. CASE task \in {"topic_classification", "claim_extraction"}
      <4>1. class \in {"api_model_gateway", "primary_model_gateway"}
        BY <2>1, <3>5 DEF GatewayClasses
      <4>2. \/ envelope = ApiModelGateway(task, work.inline, worker)
            \/ envelope = PrimaryModelGateway
        BY <2>3, <4>1 DEF Executed
      <4>3. IsSound(ApiModelGateway(task, work.inline, worker), task)
            /\ IsSound(PrimaryModelGateway, task)
        BY <2>4, <3>5, GatewayIsSound
      <4> QED  BY <4>2, <4>3
    <3> QED  BY <3>1, <3>2, <3>3, <3>4, <3>5
  <2>6. Fits(task, envelope.output)
    BY <2>1, <2>5 DEF IsSound
  <2>7. HashChecks(envelope) = {}
    BY <2>5 DEF IsSound, HashChecks
  <2>8. PolicyChecks(decision) = {} /\ SecretChecks(envelope) = {}
    BY <2>1, <2>3 DEF PolicyChecks, SecretChecks
  <2>9. checks \subseteq {Marker}
    BY <2>6, <2>7, <2>8 DEF Checks, Fits
  <2> HIDE DEF checks
  <2> QED  BY <2>2, <2>9, MarkerIsAccepted
<1> QED  BY <1>1, HistoryInvariant, PTL
=============================================================================
