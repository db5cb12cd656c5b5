-------------------------- MODULE HostPipelineProofs --------------------------
(***************************************************************************)
(* Proofs about HostPipeline: whatever requests end early and however they *)
(* interleave, work is handed out only with an approval on record, a       *)
(* summary speaks of a report that is stored, and what the host is shown   *)
(* as succeeded is a verified result.                                      *)
(***************************************************************************)
EXTENDS HostPipeline, TLAPS, WellFoundedInduction

Result == [work_unit : WorkUnits, attempt : {1, 2}, body : Bodies, late : BOOLEAN,
           created_at : Nat]

\* A request, when results has domain D and the clock shows n.
RequestOK(q, D, n) ==
    \/ q = Idle
    \/ q \in [step : {"commit"}, work_unit : WorkUnits, attempt : {1, 2}, body : Bodies,
              late : BOOLEAN, created_at : 1 .. n, reply : {"worker"}]
    \/ q \in [step : {"verify"}, result : D, reply : {"worker", "host"}]
    \/ q \in [step : {"summary"}, result : D, reply : {"worker", "host"},
              generated_at : 1 .. n]

-----------------------------------------------------------------------------
(* The newest summary and result *)

\* A nonempty set with bounded times has a newest member.
LEMMA NewestExists ==
    ASSUME NEW S, S # {}, NEW at, NEW n \in Nat, \A x \in S : at[x] \in 0 .. n
    PROVE  \E x \in S : \A y \in S : at[y] <= at[x]
<1> DEFINE R == OpToRel(<, Nat)
           T == {n - at[x] : x \in S}
<1>1. T \subseteq Nat /\ T # {}
  OBVIOUS
<1>2. IsWellFoundedOn(R, Nat)
  BY NatLessThanWellFounded
<1>3. \E m \in T : \A k \in T : ~ (<<k, m>> \in R)
  <2> HIDE DEF R, T
  <2> QED  BY <1>1, <1>2, WFMin
<1>4. PICK x \in S : \A k \in T : ~ (<<k, n - at[x]>> \in R)
  BY <1>3
<1>5. \A y \in S : n - at[y] \in T /\ n - at[y] \in Nat /\ n - at[x] \in Nat
  OBVIOUS
<1>6. \A y \in S : ~ (n - at[y] < n - at[x])
  BY <1>4, <1>5 DEF OpToRel
<1> QED  BY <1>6

\* get_host_result_summary shows a summary of the work unit it is asked for.
LEMMA NewestSummaryIsOne ==
    ASSUME TypeOK, NEW w \in WorkUnits, SummariesOf(w) # {}
    PROVE  NewestSummary(w) \in SummariesOf(w)
<1>1. \A i \in SummariesOf(w) : summaries[i] \in 0 .. clock
  BY DEF TypeOK, SummariesOf
<1>2. clock \in Nat
  BY DEF TypeOK
<1>3. \E i \in SummariesOf(w) : \A j \in SummariesOf(w) : summaries[j] <= summaries[i]
  BY <1>1, <1>2, NewestExists
<1> QED  BY <1>3 DEF NewestSummary, Newest

LEMMA ResultFacts ==
    ASSUME TypeOK, NEW i \in DOMAIN results
    PROVE  /\ results[i].work_unit \in WorkUnits
           /\ results[i].attempt \in {1, 2}
           /\ results[i].body \in Bodies
           /\ results[i].late \in BOOLEAN
           /\ results[i].created_at \in Nat
           /\ results[i].created_at <= clock
<1>1. results \in Seq(Result) /\ results[i].created_at <= clock
  BY DEF TypeOK, Result
<1>2. results[i] \in Result
  BY <1>1
<1> QED  BY <1>1, <1>2 DEF Result

\* The newest result of a work unit is one of its results.
LEMMA NewestResultIsOne ==
    ASSUME TypeOK, NEW w \in WorkUnits, ResultsOf(w) # {}
    PROVE  NewestResult(w) \in ResultsOf(w)
<1> DEFINE at == [i \in DOMAIN results |-> results[i].created_at]
<1>1. clock \in Nat
  BY DEF TypeOK
<1>2. \A i \in ResultsOf(w) : at[i] = results[i].created_at /\ at[i] \in 0 .. clock
  BY <1>1, ResultFacts DEF ResultsOf
<1>3. \E i \in ResultsOf(w) : \A j \in ResultsOf(w) : at[j] <= at[i]
  <2> HIDE DEF at
  <2> QED  BY <1>1, <1>2, NewestExists
<1>4. \E i \in ResultsOf(w) : \A j \in ResultsOf(w) :
         results[j].created_at <= results[i].created_at
  BY <1>2, <1>3
<1> QED  BY <1>4 DEF NewestResult, Newest

-----------------------------------------------------------------------------
(* Types *)

\* A request in progress is about a result that is recorded or that it brings.
LEMMA RequestFacts ==
    ASSUME TypeOK, NEW r \in Requests
    PROVE  /\ request[r].step \in {"idle", "commit", "verify", "summary"}
           /\ request[r].step = "idle" <=> request[r] = Idle
           /\ request[r].step = "commit" =>
                 /\ request[r].work_unit \in WorkUnits
                 /\ request[r].attempt \in {1, 2}
                 /\ request[r].body \in Bodies
                 /\ request[r].late \in BOOLEAN
                 /\ request[r].created_at \in 1 .. clock
                 /\ request[r].reply = "worker"
           /\ request[r].step \in {"verify", "summary"} =>
                 /\ request[r].result \in DOMAIN results
                 /\ request[r].reply \in {"worker", "host"}
           /\ request[r].step = "summary" => request[r].generated_at \in 1 .. clock
<1>1. RequestOK(request[r], DOMAIN results, clock)
  BY DEF TypeOK, RequestOK
<1> QED  BY <1>1 DEF RequestOK, Idle

\* An action that replaces one request.
LEMMA RequestUpdate ==
    ASSUME TypeOK, NEW r \in Requests, NEW q, request' = [request EXCEPT ![r] = q],
           clock' \in {clock, clock + 1}, DOMAIN results \subseteq DOMAIN results',
           RequestOK(q, DOMAIN results', clock')
    PROVE  /\ DOMAIN request' = Requests /\ clock' \in Nat
           /\ \A x \in Requests : request'[x] = IF x = r THEN q ELSE request[x]
           /\ \A x \in Requests : RequestOK(request'[x], DOMAIN results', clock')
<1>1. /\ DOMAIN request' = Requests /\ clock \in Nat /\ clock' \in Nat
      /\ 1 .. clock \subseteq 1 .. clock'
  BY DEF TypeOK
<1>2. \A x \in Requests : RequestOK(request[x], DOMAIN results, clock)
  BY DEF TypeOK, RequestOK
<1>3. \A x \in Requests : request'[x] = IF x = r THEN q ELSE request[x]
  BY DEF TypeOK
<1>4. ASSUME NEW x \in Requests
      PROVE  RequestOK(request[x], DOMAIN results', clock')
  BY <1>1, <1>2 DEF RequestOK
<1> QED  BY <1>1, <1>3, <1>4

\* An action that is about submissions, executions or reading only.
LEMMA TypeFrame ==
    ASSUME TypeOK, UNCHANGED <<results, reports, summaries, request, clock, retried_at>>,
           rows' \in [WorkUnits -> SUBSET Tables],
           submit' \in [WorkUnits -> Stages],
           attempts' \in [WorkUnits -> 0 .. 2],
           lease' \in [WorkUnits -> SUBSET {1, 2}],
           spooled' \in [WorkUnits -> SUBSET {1, 2}],
           shown' \in [WorkUnits -> Nat \cup {None}],
           errors' \in 0 .. MaxErrors
    PROVE  TypeOK'
  BY DEF TypeOK, Idle

LEMMA SubmissionTyped ==
    ASSUME TypeOK, NEW w \in WorkUnits, Submission(w)
    PROVE  TypeOK'
<1> USE PipelineAssumption
<1> DEFINE Kept ==
      /\ rows' \in [WorkUnits -> SUBSET Tables] /\ submit' \in [WorkUnits -> Stages]
      /\ attempts' \in [WorkUnits -> 0 .. 2] /\ lease' = lease
      /\ errors' \in 0 .. MaxErrors
      /\ UNCHANGED <<results, reports, summaries, request, clock, shown, spooled,
                     retried_at>>
<1>1. Kept
  <2>1. ASSUME NEW here, NEW new \in SUBSET Tables, NEW next \in Stages,
               Stage(w, here, new, next), lease' = lease,
               attempts' \in [WorkUnits -> 0 .. 2]
        PROVE  Kept
    BY <2>1 DEF TypeOK, Stage
  <2>2. CASE SubmissionEnds(w)
    BY <2>2 DEF TypeOK, SubmissionEnds, Stages
  <2>3. ASSUME NEW decision \in {"approved", "denied"}, PersistPolicyDecision(w, decision)
        PROVE  Kept
    BY <2>3, <2>1 DEF PersistPolicyDecision, TypeOK, Tables, Stages
  <2>4. CASE PersistWorkUnit(w) \/ CreateAttempt(w)
    BY <2>4, <2>1 DEF PersistWorkUnit, CreateAttempt, TypeOK, Tables, Stages
  <2>5. ASSUME NEW mark \in {{}, {"own_recipe"}}, PersistRoutePlan(w, mark)
        PROVE  Kept
    BY <2>5, <2>1 DEF PersistRoutePlan, TypeOK, Tables, Stages
  <2>6. CASE CreateAssignment(w)
    <3>1. attempts' \in [WorkUnits -> 0 .. 2] /\ lease' = lease
      BY <2>6 DEF CreateAssignment, TypeOK
    <3> QED  BY <2>1, <2>6, <3>1 DEF CreateAssignment, Tables, Stages
  <2> QED  BY <2>2, <2>3, <2>4, <2>5, <2>6 DEF Submission
<1>2. /\ lease' \in [WorkUnits -> SUBSET {1, 2}]
      /\ spooled' \in [WorkUnits -> SUBSET {1, 2}]
      /\ shown' \in [WorkUnits -> Nat \cup {None}]
  BY <1>1 DEF TypeOK
<1> QED  BY <1>1, <1>2, TypeFrame

\* What submit_result carries into its transaction.
LEMMA ReadFacts ==
    ASSUME TypeOK, NEW w \in WorkUnits, NEW a \in 1 .. attempts[w], NEW r \in Requests,
           NEW body \in Bodies, ReadLateness(r, w, a, body)
    PROVE  /\ \A x \in Requests : request'[x] = IF x = r
                 THEN [step |-> "commit", work_unit |-> w, attempt |-> a, body |-> body,
                       late |-> NewerAttemptExists(w, a), created_at |-> clock + 1,
                       reply |-> "worker"]
                 ELSE request[x]
           /\ DOMAIN request' = Requests /\ clock' = clock + 1 /\ clock \in Nat
           /\ clock' \in Nat
           /\ \A x \in Requests : RequestOK(request'[x], DOMAIN results', clock')
           /\ UNCHANGED <<rows, submit, attempts, retried_at, lease, results, reports,
                          summaries, shown, errors>>
<1> DEFINE q == [step |-> "commit", work_unit |-> w, attempt |-> a, body |-> body,
                 late |-> NewerAttemptExists(w, a), created_at |-> clock + 1,
                 reply |-> "worker"]
<1>1. /\ request' = [request EXCEPT ![r] = q] /\ clock' = clock + 1
      /\ UNCHANGED <<rows, submit, attempts, retried_at, lease, results, reports,
                     summaries, shown, errors>>
  BY DEF ReadLateness
<1>2. clock \in Nat /\ attempts[w] \in 0 .. 2
  BY DEF TypeOK
<1>3. RequestOK(q, DOMAIN results', clock')
  BY <1>1, <1>2 DEF RequestOK, NewerAttemptExists
<1> HIDE DEF q
<1>4. /\ DOMAIN request' = Requests /\ clock' \in Nat
      /\ \A x \in Requests : request'[x] = IF x = r THEN q ELSE request[x]
      /\ \A x \in Requests : RequestOK(request'[x], DOMAIN results', clock')
  BY <1>1, <1>3, RequestUpdate
<1> QED  BY <1>1, <1>2, <1>4 DEF q

LEMMA ExecutionTyped ==
    ASSUME TypeOK, NEW w \in WorkUnits, Execution(w)
    PROVE  TypeOK'
<1> USE PipelineAssumption
<1>0. attempts[w] \in 0 .. 2 /\ clock \in Nat
  BY DEF TypeOK
<1>1. CASE Retry(w)
  <2>1. /\ attempts' \in [WorkUnits -> 0 .. 2]
        /\ retried_at' \in [WorkUnits -> Nat]
        /\ clock' = clock + 1
        /\ UNCHANGED <<rows, submit, lease, results, spooled, reports, summaries,
                       request, shown, errors>>
    BY <1>0, <1>1 DEF TypeOK, Retry
  <2>2. \A i \in DOMAIN results : results[i].created_at <= clock'
    BY <1>0, <2>1, ResultFacts
  <2>3. \A i \in DOMAIN summaries : summaries[i] \in 1 .. clock'
    BY <1>0, <2>1 DEF TypeOK
  <2>4. \A x \in Requests : RequestOK(request'[x], DOMAIN results', clock')
    <3>1. 1 .. clock \subseteq 1 .. clock'
      BY <1>0, <2>1
    <3> QED  BY <2>1, <3>1 DEF TypeOK, RequestOK
  <2>5. /\ reports' \subseteq DOMAIN results' /\ DOMAIN summaries' \subseteq DOMAIN results'
        /\ DOMAIN request' = Requests /\ clock' \in Nat
    BY <1>0, <2>1 DEF TypeOK
  <2> QED  BY <2>1, <2>2, <2>3, <2>4, <2>5 DEF TypeOK, RequestOK
<1>2. ASSUME NEW a \in 1 .. attempts[w], Accept(w, a)
      PROVE  TypeOK'
  <2>1. lease' \in [WorkUnits -> SUBSET {1, 2}]
    BY <1>0, <1>2 DEF TypeOK, Accept
  <2> QED  BY <1>2, <2>1 DEF TypeOK, Accept
<1>3. ASSUME NEW a \in 1 .. attempts[w], NEW r \in Requests, NEW body \in Bodies,
             ReadLateness(r, w, a, body),
             spooled' \in [WorkUnits -> SUBSET {1, 2}]
      PROVE  TypeOK'
  <2>1. /\ DOMAIN request' = Requests /\ clock' = clock + 1
        /\ \A x \in Requests : RequestOK(request'[x], DOMAIN results', clock')
        /\ UNCHANGED <<rows, submit, attempts, retried_at, lease, results, reports,
                       summaries, shown, errors>>
    BY <1>3, ReadFacts
  <2>2. \A i \in DOMAIN results : results[i].created_at <= clock'
    BY <1>0, <2>1, ResultFacts
  <2>3. \A i \in DOMAIN summaries : summaries[i] \in 1 .. clock'
    BY <1>0, <2>1 DEF TypeOK
  <2> QED  BY <1>0, <1>3, <2>1, <2>2, <2>3 DEF TypeOK, RequestOK
<1>4. ASSUME NEW a \in 1 .. attempts[w], NEW r \in Requests, ReplayResult(r, w, a)
      PROVE  TypeOK'
  <2>1. spooled' \in [WorkUnits -> SUBSET {1, 2}]
    BY <1>4 DEF ReplayResult, TypeOK
  <2> QED  BY <1>3, <1>4, <2>1 DEF ReplayResult, Bodies
<1>5. ASSUME NEW a \in 1 .. attempts[w], NEW r \in Requests, NEW body \in Bodies \ {"bare"},
             SubmitResult(r, w, a, body)
      PROVE  TypeOK'
  <2>1. spooled' \in [WorkUnits -> SUBSET {1, 2}]
    BY <1>5 DEF SubmitResult, TypeOK
  <2> QED  BY <1>3, <1>5, <2>1 DEF SubmitResult
<1> QED  BY <1>1, <1>2, <1>4, <1>5 DEF Execution

\* The transaction of submit_result appends what the request carries.
LEMMA CommitFacts ==
    ASSUME TypeOK, NEW r \in Requests, CommitResult(r)
    PROVE  /\ results' \in Seq(Result)
           /\ DOMAIN results' = DOMAIN results \cup {Len(results) + 1}
           /\ Len(results) + 1 \notin DOMAIN results
           /\ \A i \in DOMAIN results : results'[i] = results[i]
           /\ LET new == results'[Len(results) + 1] IN
                 /\ new.work_unit = request[r].work_unit
                 /\ new.attempt = request[r].attempt
                 /\ new.body = request[r].body
                 /\ new.late = request[r].late
                 /\ new.created_at = request[r].created_at
           /\ \A x \in Requests : request'[x] = IF x = r
                 THEN [step |-> "verify", result |-> Len(results) + 1, reply |-> "worker"]
                 ELSE request[x]
<1>1. results \in Seq(Result) /\ clock \in Nat /\ DOMAIN request = Requests
  BY DEF TypeOK, Result
<1> DEFINE new == [work_unit |-> request[r].work_unit, attempt |-> request[r].attempt,
                   body |-> request[r].body, late |-> request[r].late,
                   created_at |-> request[r].created_at]
<1>2. new \in Result
  BY <1>1, RequestFacts DEF CommitResult, Result
<1>3. results' = Append(results, new)
  BY DEF CommitResult
<1>4. \A x \in Requests : request'[x] = IF x = r
         THEN [step |-> "verify", result |-> Len(results) + 1, reply |-> "worker"]
         ELSE request[x]
  BY <1>1 DEF CommitResult
<1>5. /\ new.work_unit = request[r].work_unit
      /\ new.attempt = request[r].attempt
      /\ new.body = request[r].body
      /\ new.late = request[r].late
      /\ new.created_at = request[r].created_at
  OBVIOUS
<1> HIDE DEF new
<1>6. /\ results' \in Seq(Result)
      /\ DOMAIN results' = DOMAIN results \cup {Len(results) + 1}
      /\ Len(results) + 1 \notin DOMAIN results
      /\ \A i \in DOMAIN results : results'[i] = results[i]
      /\ results'[Len(results) + 1] = new
  BY <1>1, <1>2, <1>3
<1> QED  BY <1>4, <1>5, <1>6

LEMMA CommitTyped ==
    ASSUME TypeOK, NEW r \in Requests, CommitResult(r)
    PROVE  TypeOK'
<1> DEFINE q == [step |-> "verify", result |-> Len(results) + 1, reply |-> "worker"]
<1>1. /\ results' \in Seq(Result)
      /\ DOMAIN results' = DOMAIN results \cup {Len(results) + 1}
      /\ \A i \in DOMAIN results : results'[i] = results[i]
      /\ results'[Len(results) + 1].created_at = request[r].created_at
  BY CommitFacts
<1>2. /\ request' = [request EXCEPT ![r] = q] /\ clock' = clock /\ clock \in Nat
      /\ UNCHANGED <<rows, submit, attempts, retried_at, lease, spooled, reports,
                     summaries, shown, errors>>
  BY DEF CommitResult, TypeOK
<1>3. RequestOK(q, DOMAIN results', clock')
  BY <1>1 DEF RequestOK
<1>4. DOMAIN request' = Requests
      /\ \A x \in Requests : RequestOK(request'[x], DOMAIN results', clock')
  <2> HIDE DEF q
  <2> QED  BY <1>1, <1>2, <1>3, RequestUpdate
<1>5. \A i \in DOMAIN results' : results'[i].created_at <= clock
  BY <1>1, <1>2, ResultFacts, RequestFacts DEF CommitResult
<1>6. reports' \subseteq DOMAIN results' /\ DOMAIN summaries' \subseteq DOMAIN results'
  BY <1>1, <1>2 DEF TypeOK
<1> QED  BY <1>1, <1>2, <1>4, <1>5, <1>6 DEF TypeOK, Result, RequestOK

LEMMA RequestTyped ==
    ASSUME TypeOK, NEW r \in Requests,
           \/ Finalize(r) \/ RequestEnds(r)
           \/ \E w \in WorkUnits : ReadAndFinalize(r, w)
    PROVE  TypeOK'
<1> USE PipelineAssumption
<1>0. clock \in Nat
  BY DEF TypeOK
<1>1. ASSUME NEW q, request' = [request EXCEPT ![r] = q],
             clock' \in {clock, clock + 1}, results' = results,
             RequestOK(q, DOMAIN results, clock')
      PROVE  /\ DOMAIN request' = Requests /\ clock' \in Nat
             /\ \A x \in Requests : RequestOK(request'[x], DOMAIN results', clock')
             /\ \A i \in DOMAIN results' : results'[i].created_at <= clock'
             /\ results' \in Seq(Result)
  <2>1. results \in Seq(Result)
    BY DEF TypeOK, Result
  <2>2. \A i \in DOMAIN results' : results'[i].created_at <= clock'
    BY <1>0, <1>1, ResultFacts
  <2>3. RequestOK(q, DOMAIN results', clock') /\ DOMAIN results \subseteq DOMAIN results'
    BY <1>1
  <2>4. /\ DOMAIN request' = Requests /\ clock' \in Nat
        /\ \A x \in Requests : RequestOK(request'[x], DOMAIN results', clock')
    BY <1>1, <2>3, RequestUpdate
  <2> QED  BY <1>1, <2>1, <2>2, <2>4
<1>2. RequestOK(Idle, DOMAIN results, clock)
  BY DEF RequestOK
<1>3. CASE NothingToVerify(r)
  <2>1. /\ DOMAIN request' = Requests
        /\ \A x \in Requests : RequestOK(request'[x], DOMAIN results', clock')
    BY <1>1, <1>2, <1>3 DEF NothingToVerify
  <2> QED  BY <1>3, <2>1 DEF NothingToVerify, TypeOK, RequestOK
<1>4. CASE PersistVerifierReport(r)
  <2> DEFINE q == [step |-> "summary", result |-> request[r].result,
                   reply |-> request[r].reply, generated_at |-> clock + 1]
  <2>1. request[r].result \in DOMAIN results /\ request[r].reply \in {"worker", "host"}
    BY <1>4, RequestFacts DEF PersistVerifierReport
  <2>2. clock' = clock + 1 /\ request' = [request EXCEPT ![r] = q] /\ results' = results
    BY <1>4 DEF PersistVerifierReport
  <2>3. RequestOK(q, DOMAIN results, clock')
    BY <1>0, <2>1, <2>2 DEF RequestOK
  <2>4. /\ DOMAIN request' = Requests /\ clock' \in Nat
        /\ \A x \in Requests : RequestOK(request'[x], DOMAIN results', clock')
        /\ \A i \in DOMAIN results' : results'[i].created_at <= clock'
    <3> HIDE DEF q
    <3> QED  BY <1>1, <2>2, <2>3
  <2>5. reports' \subseteq DOMAIN results
    BY <1>4, <2>1 DEF PersistVerifierReport, TypeOK
  <2>6. \A i \in DOMAIN summaries : summaries[i] \in 1 .. clock'
    BY <1>0, <2>2 DEF TypeOK
  <2> QED  BY <1>4, <2>4, <2>5, <2>6 DEF PersistVerifierReport, TypeOK, RequestOK
<1>5. CASE PersistSummary(r)
  <2>1. /\ request[r].result \in DOMAIN results
        /\ request[r].generated_at \in 1 .. clock
    BY <1>5, RequestFacts DEF PersistSummary
  <2>2. /\ DOMAIN request' = Requests
        /\ \A x \in Requests : RequestOK(request'[x], DOMAIN results', clock')
    BY <1>1, <1>2, <1>5 DEF PersistSummary
  <2>3. /\ DOMAIN summaries' \subseteq DOMAIN results
        /\ \A i \in DOMAIN summaries' : summaries'[i] \in 1 .. clock
    BY <1>5, <2>1 DEF PersistSummary, TypeOK
  <2>4. request[r].result \in Nat
    BY <2>1 DEF TypeOK
  <2>5. shown' \in [WorkUnits -> Nat \cup {None}]
    BY <1>5, <2>4 DEF PersistSummary, TypeOK
  <2> QED  BY <1>5, <2>2, <2>3, <2>5 DEF PersistSummary, TypeOK, RequestOK
<1>6. CASE RequestEnds(r)
  <2>1. /\ DOMAIN request' = Requests
        /\ \A x \in Requests : RequestOK(request'[x], DOMAIN results', clock')
    BY <1>1, <1>2, <1>6 DEF RequestEnds
  <2>2. Carried(r).attempt \in {1, 2}
    BY <1>6, RequestFacts, ResultFacts DEF RequestEnds, Carried
  <2>3. spooled' \in [WorkUnits -> SUBSET {1, 2}]
    BY <1>6, <2>2 DEF RequestEnds, TypeOK
  <2>4. errors' \in 0 .. MaxErrors
    BY <1>6 DEF RequestEnds, TypeOK
  <2> QED  BY <1>6, <2>1, <2>3, <2>4 DEF RequestEnds, TypeOK, RequestOK
<1>7. ASSUME NEW w \in WorkUnits, ReadAndFinalize(r, w)
      PROVE  TypeOK'
  <2> DEFINE q == [step |-> "verify", result |-> NewestResult(w), reply |-> "host"]
  <2>1. NewestResult(w) \in DOMAIN results
    BY <1>7, NewestResultIsOne DEF ReadAndFinalize, ResultsOf
  <2>2. /\ RequestOK(q, DOMAIN results, clock) /\ request' = [request EXCEPT ![r] = q]
        /\ clock' = clock /\ results' = results
    BY <1>7, <2>1 DEF ReadAndFinalize, RequestOK
  <2>3. /\ DOMAIN request' = Requests
        /\ \A x \in Requests : RequestOK(request'[x], DOMAIN results', clock')
    <3> HIDE DEF q
    <3> QED  BY <1>1, <2>2
  <2> QED  BY <1>7, <2>3 DEF ReadAndFinalize, TypeOK, RequestOK
<1> QED  BY <1>3, <1>4, <1>5, <1>6, <1>7 DEF Finalize

LEMMA InitTyped == Init => TypeOK
  BY PipelineAssumption DEF Init, TypeOK, Stages

LEMMA StepTyped == TypeOK /\ [Next]_vars => TypeOK'
<1> SUFFICES ASSUME TypeOK, [Next]_vars
             PROVE  TypeOK'
  OBVIOUS
<1>1. CASE UNCHANGED vars
  BY <1>1 DEF vars, TypeOK
<1>2. ASSUME NEW w \in WorkUnits, ReadSummary(w)
      PROVE  TypeOK'
  <2>1. NewestSummary(w) \in Nat
    <3>1. NewestSummary(w) \in DOMAIN results
      BY <1>2, NewestSummaryIsOne DEF ReadSummary, SummariesOf, TypeOK
    <3> QED  BY <3>1 DEF TypeOK
  <2>2. shown' \in [WorkUnits -> Nat \cup {None}]
    BY <1>2, <2>1 DEF ReadSummary, TypeOK
  <2> QED  BY <1>2, <2>2 DEF ReadSummary, TypeOK
<1> QED
  BY <1>1, <1>2, SubmissionTyped, ExecutionTyped, CommitTyped, RequestTyped DEF Next

\* Types of the tables and requests; in particular a decision is approved or
\* denied, and reports and summaries are of results that exist.
THEOREM PipelineTypes == Spec => []TypeOK
  BY InitTyped, StepTyped, PTL DEF Spec

-----------------------------------------------------------------------------
(* Work is approved *)

Routed == {"work_unit", "route_plan"}

\* The rows of a work unit, without the mark of its plan.
Base(w) == rows[w] \ {"own_recipe"}

\* What a submission has left behind when it is at a stage, and what it takes
\* for there to be attempts.
StageInv ==
    \A w \in WorkUnits :
        /\ submit[w] = "start" => rows[w] = {}
        /\ submit[w] = "route" => rows[w] = {"work_unit"}
        /\ submit[w] = "policy" => Base(w) = Routed
        /\ submit[w] = "attempt" => Base(w) = Routed \cup {"approved"}
        /\ submit[w] = "assignment" => Base(w) = Routed \cup {"approved", "attempt"}
        /\ submit[w] # "ended" => attempts[w] = 0
        /\ attempts[w] > 0 => "assignment" \in rows[w]
        /\ rows[w] \cap {"attempt", "assignment"} # {} =>
              Routed \cup {"approved"} \subseteq rows[w] /\ "denied" \notin rows[w]

\* Leases are of attempts; outputs, requests and results are of leases, and a
\* result that was read in time is of the newest attempt, or older than it.
InTime(record) ==
    /\ record.attempt \in lease[record.work_unit]
    /\ record.late \/ record.attempt = attempts[record.work_unit]
                   \/ record.created_at < retried_at[record.work_unit]

LeaseInv ==
    /\ \A w \in WorkUnits :
          lease[w] \subseteq 1 .. attempts[w] /\ spooled[w] \subseteq lease[w]
    /\ \A i \in DOMAIN results : InTime(results[i])
    /\ \A r \in Requests : request[r].step = "commit" => InTime(request[r])

LEMMA StageIsApproved == TypeOK /\ StageInv /\ LeaseInv => WorkIsApproved
<1> SUFFICES ASSUME TypeOK, StageInv, LeaseInv
             PROVE  WorkIsApproved
  OBVIOUS
<1>1. ASSUME NEW w \in WorkUnits, ResultsOf(w) # {}
      PROVE  attempts[w] > 0
  <2>1. attempts[w] \in 0 .. 2
    BY DEF TypeOK
  <2>2. PICK i \in DOMAIN results : results[i].work_unit = w
    BY <1>1 DEF ResultsOf
  <2>3. results[i].attempt \in lease[w] /\ lease[w] \subseteq 1 .. attempts[w]
    BY <2>2 DEF LeaseInv, InTime
  <2> QED  BY <2>1, <2>3
<1> QED  BY <1>1 DEF StageInv, WorkIsApproved, Routed

LEMMA SubmissionStage ==
    ASSUME TypeOK, StageInv, NEW w \in WorkUnits, Submission(w)
    PROVE  StageInv'
<1>0. /\ rows \in [WorkUnits -> SUBSET Tables] /\ submit \in [WorkUnits -> Stages]
      /\ attempts \in [WorkUnits -> 0 .. 2]
  BY DEF TypeOK
<1> USE DEF Base
<1>2. \A x \in WorkUnits \ {w} :
         rows'[x] = rows[x] /\ submit'[x] = submit[x] /\ attempts'[x] = attempts[x]
  BY <1>0 DEF Submission, PersistWorkUnit, PersistRoutePlan, PersistPolicyDecision,
         CreateAttempt, CreateAssignment, SubmissionEnds, Stage
<1>3. CASE SubmissionEnds(w)
  BY <1>0, <1>2, <1>3 DEF SubmissionEnds, StageInv
<1>4. ASSUME NEW here, NEW new, NEW next, Stage(w, here, new, next)
      PROVE  /\ submit[w] = here /\ submit'[w] = next
             /\ rows'[w] = rows[w] \cup new
  BY <1>0, <1>4 DEF Stage
<1>5. CASE PersistWorkUnit(w)
  <2>1. /\ submit[w] = "start" /\ submit'[w] = "route"
        /\ rows'[w] = rows[w] \cup {"work_unit"} /\ attempts' = attempts
    BY <1>4, <1>5 DEF PersistWorkUnit
  <2> QED  BY <1>2, <2>1 DEF StageInv
<1>6. ASSUME NEW mark \in {{}, {"own_recipe"}}, PersistRoutePlan(w, mark)
      PROVE  StageInv'
  <2>1. /\ submit[w] = "route" /\ submit'[w] = "policy"
        /\ rows'[w] = rows[w] \cup ({"route_plan"} \cup mark) /\ attempts' = attempts
    BY <1>4, <1>6 DEF PersistRoutePlan
  <2>2. rows[w] = {"work_unit"} /\ attempts[w] = 0
    BY <2>1 DEF StageInv
  <2>3. Base(w)' = Routed
    BY <2>1, <2>2 DEF Routed
  <2> QED  BY <1>2, <2>1, <2>2, <2>3 DEF StageInv, Routed
<1>7. ASSUME NEW decision \in {"approved", "denied"}, PersistPolicyDecision(w, decision)
      PROVE  StageInv'
  <2>1. /\ submit[w] = "policy" /\ rows'[w] = rows[w] \cup {decision}
        /\ submit'[w] = IF decision = "approved" THEN "attempt" ELSE "ended"
        /\ attempts' = attempts
    BY <1>4, <1>7 DEF PersistPolicyDecision
  <2>2. Base(w)' = Routed \cup {decision} /\ attempts[w] = 0
    BY <2>1 DEF StageInv, Routed
  <2> QED  BY <1>2, <2>1, <2>2 DEF StageInv, Routed
<1>8. CASE CreateAttempt(w)
  <2>1. /\ submit[w] = "attempt" /\ submit'[w] = "assignment"
        /\ rows'[w] = rows[w] \cup {"attempt"} /\ attempts' = attempts
    BY <1>4, <1>8 DEF CreateAttempt
  <2>2. Base(w)' = Routed \cup {"approved", "attempt"} /\ attempts[w] = 0
    BY <2>1 DEF StageInv, Routed
  <2> QED  BY <1>2, <2>1, <2>2 DEF StageInv, Routed
<1>9. CASE CreateAssignment(w)
  <2>1. /\ submit[w] = "assignment" /\ submit'[w] = "ended"
        /\ rows'[w] = rows[w] \cup {"assignment"} /\ attempts'[w] = 1
    BY <1>0, <1>4, <1>9 DEF CreateAssignment
  <2>2. Base(w)' = Routed \cup {"approved", "attempt", "assignment"}
    BY <2>1 DEF StageInv, Routed
  <2> QED  BY <1>2, <2>1, <2>2 DEF StageInv, Routed
<1> QED  BY <1>3, <1>5, <1>6, <1>7, <1>8, <1>9 DEF Submission

LEMMA StepStage == TypeOK /\ StageInv /\ [Next]_vars => StageInv'
<1> SUFFICES ASSUME TypeOK, StageInv, [Next]_vars
             PROVE  StageInv'
  OBVIOUS
<1>1. ASSUME UNCHANGED <<rows, submit, attempts>>
      PROVE  StageInv'
  BY <1>1 DEF StageInv, Base
<1>2. ASSUME NEW w \in WorkUnits, Execution(w)
      PROVE  StageInv'
  <2>1. CASE Retry(w)
    <3>1. /\ UNCHANGED <<rows, submit>>
          /\ attempts[w] = 1 /\ attempts'[w] = 2
          /\ \A x \in WorkUnits \ {w} : attempts'[x] = attempts[x]
      BY <2>1 DEF Retry, TypeOK
    <3> QED  BY <3>1 DEF StageInv, Base
  <2>2. CASE ~ Retry(w)
    <3>1. UNCHANGED <<rows, submit, attempts>>
      BY <1>2, <2>2 DEF Execution, Accept, ReplayResult, SubmitResult, ReadLateness
    <3> QED  BY <1>1, <3>1
  <2> QED  BY <2>1, <2>2
<1>3. ASSUME UNCHANGED vars \/ \E w \in WorkUnits : ReadSummary(w)
      PROVE  StageInv'
  BY <1>1, <1>3 DEF vars, ReadSummary
<1>4. ASSUME NEW r \in Requests,
             \/ CommitResult(r) \/ Finalize(r) \/ RequestEnds(r)
             \/ \E w \in WorkUnits : ReadAndFinalize(r, w)
      PROVE  StageInv'
  BY <1>1, <1>4 DEF CommitResult, Finalize, NothingToVerify, PersistVerifierReport,
         PersistSummary, RequestEnds, ReadAndFinalize
<1> QED  BY <1>2, <1>3, <1>4, SubmissionStage DEF Next

-----------------------------------------------------------------------------
(* Results are of leases, and in time or late *)

\* Leases, attempts and the time of the retry stay.
LEMMA LeaseFrame ==
    ASSUME TypeOK, LeaseInv, UNCHANGED <<attempts, retried_at, lease>>,
           \A w \in WorkUnits : spooled'[w] \subseteq lease[w],
           \A i \in DOMAIN results' :
              \/ i \in DOMAIN results /\ results'[i] = results[i]
              \/ InTime(results'[i]),
           \A r \in Requests : request'[r].step = "commit" =>
              \/ request'[r] = request[r]
              \/ InTime(request'[r])
    PROVE  LeaseInv'
  BY DEF LeaseInv, InTime

LEMMA ExecutionLease ==
    ASSUME TypeOK, LeaseInv, NEW w \in WorkUnits, Execution(w)
    PROVE  LeaseInv'
<1>0. /\ attempts \in [WorkUnits -> 0 .. 2] /\ retried_at \in [WorkUnits -> Nat]
      /\ lease \in [WorkUnits -> SUBSET {1, 2}] /\ spooled \in [WorkUnits -> SUBSET {1, 2}]
      /\ clock \in Nat
  BY DEF TypeOK
<1>1. CASE Retry(w)
  <2>1. /\ UNCHANGED <<lease, results, spooled, request>>
        /\ attempts[w] = 1 /\ attempts'[w] = 2 /\ retried_at'[w] = clock + 1
        /\ \A x \in WorkUnits \ {w} :
              attempts'[x] = attempts[x] /\ retried_at'[x] = retried_at[x]
    BY <1>0, <1>1 DEF Retry
  <2>2. \A x \in WorkUnits : lease'[x] \subseteq 1 .. attempts'[x] /\ spooled'[x] \subseteq lease'[x]
    BY <1>0, <2>1 DEF LeaseInv
  <2>3. ASSUME NEW i \in DOMAIN results
        PROVE  InTime(results[i])'
    <3>1. /\ results[i].work_unit \in WorkUnits /\ results[i].created_at \in Nat
          /\ results[i].created_at <= clock /\ InTime(results[i])
      BY ResultFacts DEF LeaseInv
    <3>2. CASE results[i].work_unit = w
      BY <1>0, <2>1, <3>1, <3>2 DEF InTime
    <3>3. CASE results[i].work_unit # w
      BY <2>1, <3>1, <3>3 DEF InTime
    <3> QED  BY <3>2, <3>3
  <2>4. ASSUME NEW r \in Requests, request[r].step = "commit"
        PROVE  InTime(request[r])'
    <3>1. /\ request[r].work_unit \in WorkUnits /\ request[r].created_at \in 1 .. clock
          /\ InTime(request[r])
      BY <2>4, RequestFacts DEF LeaseInv
    <3>2. CASE request[r].work_unit = w
      BY <1>0, <2>1, <3>1, <3>2 DEF InTime
    <3>3. CASE request[r].work_unit # w
      BY <2>1, <3>1, <3>3 DEF InTime
    <3> QED  BY <3>2, <3>3
  <2> QED  BY <2>1, <2>2, <2>3, <2>4 DEF LeaseInv
<1>2. ASSUME NEW a \in 1 .. attempts[w], Accept(w, a)
      PROVE  LeaseInv'
  <2>1. /\ UNCHANGED <<attempts, retried_at, results, spooled, request>>
        /\ \A x \in WorkUnits : lease[x] \subseteq lease'[x]
        /\ \A x \in WorkUnits : lease'[x] \subseteq 1 .. attempts[x]
    BY <1>0, <1>2 DEF Accept, LeaseInv
  <2>2. ASSUME NEW record, record.work_unit \in WorkUnits, InTime(record)
        PROVE  record.attempt \in lease'[record.work_unit]
    BY <2>1, <2>2 DEF InTime
  <2>3. \A i \in DOMAIN results : InTime(results[i])'
    BY <2>1, ResultFacts DEF LeaseInv, InTime
  <2>4. \A r \in Requests : request[r].step = "commit" => InTime(request[r])'
    BY <2>1, RequestFacts DEF LeaseInv, InTime
  <2> QED  BY <2>1, <2>3, <2>4 DEF LeaseInv
<1>3. ASSUME NEW a \in 1 .. attempts[w], NEW r \in Requests, NEW body \in Bodies,
             ReadLateness(r, w, a, body), a \in lease[w],
             \A x \in WorkUnits : spooled'[x] \subseteq spooled[x]
      PROVE  LeaseInv'
  <2> DEFINE q == [step |-> "commit", work_unit |-> w, attempt |-> a, body |-> body,
                   late |-> NewerAttemptExists(w, a), created_at |-> clock + 1,
                   reply |-> "worker"]
  <2>1. /\ \A x \in Requests : request'[x] = IF x = r THEN q ELSE request[x]
        /\ UNCHANGED <<attempts, retried_at, lease, results>>
    BY <1>3, ReadFacts
  <2>2. q.late \/ q.attempt = attempts[w]
    <3>1. attempts[w] \in 0 .. 2
      BY <1>0
    <3>2. NewerAttemptExists(w, a) \/ a = attempts[w]
      BY <3>1 DEF NewerAttemptExists
    <3>3. q.late = NewerAttemptExists(w, a) /\ q.attempt = a
      BY Zenon
    <3> HIDE DEF q
    <3> QED  BY <3>2, <3>3, Zenon
  <2>3. q.work_unit = w /\ q.attempt \in lease[w]
    BY <1>3
  <2>5. InTime(q)
    BY <2>2, <2>3 DEF InTime
  <2>4. \A x \in WorkUnits : spooled'[x] \subseteq lease[x]
    BY <1>3 DEF LeaseInv
  <2> HIDE DEF q
  <2> QED  BY <2>1, <2>4, <2>5, LeaseFrame
<1>4. ASSUME NEW a \in 1 .. attempts[w], NEW r \in Requests, ReplayResult(r, w, a)
      PROVE  LeaseInv'
  <2>1. a \in lease[w] /\ \A x \in WorkUnits : spooled'[x] \subseteq spooled[x]
    BY <1>0, <1>4 DEF ReplayResult, LeaseInv
  <2> QED  BY <1>3, <1>4, <2>1 DEF ReplayResult, Bodies
<1>5. ASSUME NEW a \in 1 .. attempts[w], NEW r \in Requests, NEW body \in Bodies \ {"bare"},
             SubmitResult(r, w, a, body)
      PROVE  LeaseInv'
  BY <1>3, <1>5 DEF SubmitResult
<1> QED  BY <1>1, <1>2, <1>4, <1>5 DEF Execution

LEMMA RequestLease ==
    ASSUME TypeOK, LeaseInv, NEW r \in Requests,
           \/ CommitResult(r) \/ Finalize(r) \/ RequestEnds(r)
           \/ \E w \in WorkUnits : ReadAndFinalize(r, w)
    PROVE  LeaseInv'
<1>0. /\ DOMAIN request = Requests
      /\ \A w \in WorkUnits : spooled[w] \subseteq lease[w]
      /\ spooled \in [WorkUnits -> SUBSET {1, 2}]
  BY DEF TypeOK, LeaseInv
<1>1. UNCHANGED <<attempts, retried_at, lease>>
  BY DEF CommitResult, Finalize, NothingToVerify, PersistVerifierReport, PersistSummary,
         RequestEnds, ReadAndFinalize
<1>2. CASE CommitResult(r)
  <2>1. InTime(request[r])
    BY <1>2 DEF CommitResult, LeaseInv
  <2>2. InTime(results'[Len(results) + 1])
    BY <1>2, <2>1, CommitFacts DEF InTime
  <2>3. \A i \in DOMAIN results' :
           \/ i \in DOMAIN results /\ results'[i] = results[i]
           \/ InTime(results'[i])
    BY <1>2, <2>2, CommitFacts
  <2>4. \A x \in Requests : request'[x].step = "commit" => request'[x] = request[x]
    BY <1>2, CommitFacts
  <2>5. spooled' = spooled
    BY <1>2 DEF CommitResult
  <2> QED  BY <1>0, <1>1, <2>3, <2>4, <2>5, LeaseFrame
<1>3. CASE ~ CommitResult(r)
  <2>1. results' = results
    BY <1>3 DEF Finalize, NothingToVerify, PersistVerifierReport, PersistSummary,
           RequestEnds, ReadAndFinalize
  <2>2. \A x \in Requests : request'[x].step = "commit" => request'[x] = request[x]
    BY <1>0, <1>3 DEF Finalize, NothingToVerify, PersistVerifierReport, PersistSummary,
           RequestEnds, ReadAndFinalize, Idle
  <2>3. \A w \in WorkUnits : spooled'[w] \subseteq lease[w]
    <3>1. CASE RequestEnds(r)
      <4>1. /\ Carried(r).work_unit \in WorkUnits
            /\ Carried(r).attempt \in lease[Carried(r).work_unit]
        <5>1. CASE request[r].step = "commit"
          BY <5>1, RequestFacts DEF Carried, LeaseInv, InTime
        <5>2. CASE request[r].step # "commit"
          <6>1. request[r].result \in DOMAIN results
            BY <3>1, <5>2, RequestFacts DEF RequestEnds
          <6> QED  BY <5>2, <6>1, ResultFacts DEF Carried, LeaseInv, InTime
        <5> QED  BY <5>1, <5>2
      <4> QED  BY <1>0, <3>1, <4>1 DEF RequestEnds
    <3>2. CASE ~ RequestEnds(r)
      BY <1>0, <1>3, <3>2 DEF Finalize, NothingToVerify, PersistVerifierReport,
         PersistSummary, ReadAndFinalize
    <3> QED  BY <3>1, <3>2
  <2> QED  BY <1>1, <2>1, <2>2, <2>3, LeaseFrame
<1> QED  BY <1>2, <1>3

LEMMA StepLease == TypeOK /\ StageInv /\ LeaseInv /\ [Next]_vars => LeaseInv'
<1> SUFFICES ASSUME TypeOK, StageInv, LeaseInv, [Next]_vars
             PROVE  LeaseInv'
  OBVIOUS
<1>1. CASE UNCHANGED vars \/ \E w \in WorkUnits : ReadSummary(w)
  BY <1>1 DEF vars, ReadSummary, LeaseInv, InTime
<1>2. ASSUME NEW w \in WorkUnits, Submission(w)
      PROVE  LeaseInv'
  <2>1. UNCHANGED <<lease, results, spooled, request, retried_at>>
    BY <1>2 DEF Submission, PersistWorkUnit, PersistRoutePlan, PersistPolicyDecision,
         CreateAttempt, CreateAssignment, SubmissionEnds, Stage
  <2>2. \A x \in WorkUnits : attempts'[x] = attempts[x] \/ (lease[x] = {} /\ spooled[x] = {})
    <3>1. CASE CreateAssignment(w)
      <4>1. attempts[w] = 0
        BY <3>1 DEF CreateAssignment, Stage, StageInv
      <4>2. 1 .. attempts[w] = {}
        BY <4>1
      <4>3. lease[w] = {} /\ spooled[w] = {}
        BY <4>2 DEF LeaseInv
      <4>4. \A x \in WorkUnits : x # w => attempts'[x] = attempts[x]
        BY <3>1 DEF CreateAssignment, TypeOK
      <4> QED  BY <4>3, <4>4
    <3>2. CreateAssignment(w) \/ attempts' = attempts
      BY <1>2 DEF Submission, PersistWorkUnit, PersistRoutePlan, PersistPolicyDecision,
         CreateAttempt, SubmissionEnds
    <3> QED  BY <3>1, <3>2
  <2>3. \A i \in DOMAIN results : InTime(results[i])'
    BY <2>1, <2>2, ResultFacts DEF LeaseInv, InTime
  <2>4. \A r \in Requests : request[r].step = "commit" => InTime(request[r])'
    BY <2>1, <2>2, RequestFacts DEF LeaseInv, InTime
  <2>5. \A x \in WorkUnits :
           lease'[x] \subseteq 1 .. attempts'[x] /\ spooled'[x] \subseteq lease'[x]
    BY <2>1, <2>2 DEF LeaseInv
  <2> QED  BY <2>1, <2>3, <2>4, <2>5 DEF LeaseInv
<1> QED  BY <1>1, <1>2, ExecutionLease, RequestLease DEF Next

LEMMA InitStage == Init => StageInv /\ LeaseInv
  BY DEF Init, StageInv, LeaseInv, Base, Idle

\* No work is handed out unless it was routed and the policy approved it,
\* for any number of work units, requests and errors.
THEOREM OnlyApprovedWork == Spec => []WorkIsApproved
<1>1. Init => TypeOK /\ StageInv /\ LeaseInv
  BY InitTyped, InitStage
<1>2. TypeOK /\ StageInv /\ LeaseInv /\ [Next]_vars => (TypeOK /\ StageInv /\ LeaseInv)'
  BY StepTyped, StepStage, StepLease
<1> QED  BY <1>1, <1>2, StageIsApproved, PTL DEF Spec

-----------------------------------------------------------------------------
(* Summaries speak of stored reports *)

\* A request that is to write a summary has stored the report.
ReportInv ==
    /\ SummaryHasReport
    /\ \A r \in Requests : request[r].step = "summary" => request[r].result \in reports

\* What the host was shown is a stored summary of the work unit it asked for.
ShownInv ==
    \A w \in WorkUnits : shown[w] # None =>
        shown[w] \in DOMAIN summaries /\ results[shown[w]].work_unit = w

\* Results stay as they are.
LEMMA ResultsGrow ==
    ASSUME TypeOK, [Next]_vars
    PROVE  /\ DOMAIN results \subseteq DOMAIN results'
           /\ \A i \in DOMAIN results : results'[i] = results[i]
<1>1. CASE \E r \in Requests : CommitResult(r)
  BY <1>1, CommitFacts
<1>2. CASE ~ \E r \in Requests : CommitResult(r)
  <2>1. results' = results
    <3>1. ASSUME NEW w \in WorkUnits, Submission(w)
          PROVE  results' = results
      BY <3>1 DEF Submission, PersistWorkUnit, PersistRoutePlan, PersistPolicyDecision,
         CreateAttempt, CreateAssignment, SubmissionEnds, Stage
    <3>2. ASSUME NEW w \in WorkUnits, Execution(w)
          PROVE  results' = results
      BY <3>2 DEF Execution, Retry, Accept, ReplayResult, SubmitResult, ReadLateness
    <3>3. ASSUME NEW r \in Requests, Finalize(r) \/ RequestEnds(r)
          PROVE  results' = results
      BY <3>3 DEF Finalize, NothingToVerify, PersistVerifierReport, PersistSummary, RequestEnds
    <3>4. ASSUME NEW r \in Requests, NEW w \in WorkUnits,
                 ReadSummary(w) \/ ReadAndFinalize(r, w)
          PROVE  results' = results
      BY <3>4 DEF ReadSummary, ReadAndFinalize
    <3>5. ASSUME NEW w \in WorkUnits, ReadSummary(w)
          PROVE  results' = results
      BY <3>5 DEF ReadSummary
    <3> QED  BY <1>2, <3>1, <3>2, <3>3, <3>4, <3>5 DEF Next, vars
  <2> QED  BY <2>1
<1> QED  BY <1>1, <1>2

\* An action that leaves reports, summaries and what was shown alone, and
\* starts no summary.
LEMMA SummaryFrame ==
    ASSUME TypeOK, ReportInv, ShownInv, [Next]_vars,
           UNCHANGED <<reports, summaries, shown>>,
           \A r \in Requests : request'[r].step = "summary" => request'[r] = request[r]
    PROVE  ReportInv' /\ ShownInv'
<1>1. /\ DOMAIN results \subseteq DOMAIN results'
      /\ \A i \in DOMAIN results : results'[i] = results[i]
  BY ResultsGrow
<1>2. reports \subseteq DOMAIN results /\ DOMAIN summaries \subseteq DOMAIN results
  BY DEF TypeOK
<1> QED  BY <1>1, <1>2 DEF ReportInv, SummaryHasReport, ShownInv

LEMMA StepSummary ==
    TypeOK /\ ReportInv /\ ShownInv /\ [Next]_vars => ReportInv' /\ ShownInv'
<1> SUFFICES ASSUME TypeOK, ReportInv, ShownInv, [Next]_vars
             PROVE  ReportInv' /\ ShownInv'
  OBVIOUS
<1>0. DOMAIN request = Requests /\ shown \in [WorkUnits -> Nat \cup {None}]
  BY DEF TypeOK
<1>1. CASE UNCHANGED vars \/ \E w \in WorkUnits : Submission(w)
  <2>1. UNCHANGED <<reports, summaries, shown, request>>
    BY <1>1 DEF vars, Submission, PersistWorkUnit, PersistRoutePlan,
         PersistPolicyDecision, CreateAttempt, CreateAssignment, SubmissionEnds, Stage
  <2> QED  BY <2>1, SummaryFrame
<1>2. ASSUME NEW w \in WorkUnits, Execution(w)
      PROVE  ReportInv' /\ ShownInv'
  <2>1. UNCHANGED <<reports, summaries, shown>>
    BY <1>2 DEF Execution, Retry, Accept, ReplayResult, SubmitResult, ReadLateness
  <2>2. \A q \in Requests : request'[q].step = "summary" => request'[q] = request[q]
    BY <1>0, <1>2 DEF Execution, Retry, Accept, ReplayResult, SubmitResult, ReadLateness
  <2> QED  BY <2>1, <2>2, SummaryFrame
<1>3. ASSUME NEW r \in Requests,
             \/ CommitResult(r) \/ NothingToVerify(r) \/ RequestEnds(r)
             \/ \E w \in WorkUnits : ReadAndFinalize(r, w)
      PROVE  ReportInv' /\ ShownInv'
  <2>1. UNCHANGED <<reports, summaries, shown>>
    BY <1>3 DEF CommitResult, NothingToVerify, RequestEnds, ReadAndFinalize
  <2>2. \A q \in Requests : request'[q].step = "summary" => request'[q] = request[q]
    BY <1>0, <1>3 DEF CommitResult, NothingToVerify, RequestEnds, ReadAndFinalize, Idle
  <2> QED  BY <2>1, <2>2, SummaryFrame
<1>4. ASSUME NEW r \in Requests, PersistVerifierReport(r)
      PROVE  ReportInv' /\ ShownInv'
  <2>1. /\ reports' = reports \cup {request[r].result}
        /\ results[request[r].result].body # "bare"
        /\ UNCHANGED <<results, summaries, shown>>
    BY <1>4 DEF PersistVerifierReport, Verifiable
  <2>2. \A q \in Requests : request'[q] = IF q = r
           THEN [step |-> "summary", result |-> request[r].result,
                 reply |-> request[r].reply, generated_at |-> clock + 1]
           ELSE request[q]
    BY <1>0, <1>4 DEF PersistVerifierReport
  <2>3. \A q \in Requests : request'[q].step = "summary" => request'[q].result \in reports'
    BY <2>1, <2>2 DEF ReportInv
  <2> QED  BY <2>1, <2>3 DEF ReportInv, ShownInv, SummaryHasReport
<1>5. ASSUME NEW r \in Requests, PersistSummary(r)
      PROVE  ReportInv' /\ ShownInv'
  <2> DEFINE i == request[r].result
  <2>1. i \in reports /\ i \in DOMAIN results /\ results[i].work_unit \in WorkUnits
    BY <1>5, RequestFacts, ResultFacts DEF PersistSummary, ReportInv
  <2>2. /\ DOMAIN summaries' = DOMAIN summaries \cup {i}
        /\ UNCHANGED <<results, reports>>
    BY <1>5 DEF PersistSummary
  <2>3. \A w \in WorkUnits :
           shown'[w] = shown[w] \/ (shown'[w] = i /\ results[i].work_unit = w)
    BY <1>0, <1>5, <2>1 DEF PersistSummary
  <2>4. \A q \in Requests : request'[q].step = "summary" => request'[q] = request[q]
    BY <1>0, <1>5 DEF PersistSummary, Idle
  <2>5. ReportInv'
    BY <2>1, <2>2, <2>4 DEF ReportInv, SummaryHasReport
  <2>6. ShownInv'
    BY <2>2, <2>3 DEF ShownInv
  <2> QED  BY <2>5, <2>6
<1>6. ASSUME NEW w \in WorkUnits, ReadSummary(w)
      PROVE  ReportInv' /\ ShownInv'
  <2>1. NewestSummary(w) \in DOMAIN summaries /\ results[NewestSummary(w)].work_unit = w
    BY <1>6, NewestSummaryIsOne DEF ReadSummary, SummariesOf
  <2>2. \A x \in WorkUnits : shown'[x] = IF x = w THEN NewestSummary(w) ELSE shown[x]
    BY <1>0, <1>6 DEF ReadSummary
  <2>3. UNCHANGED <<results, reports, summaries, request>>
    BY <1>6 DEF ReadSummary
  <2>4. ReportInv'
    BY <2>3 DEF ReportInv, SummaryHasReport
  <2>5. ShownInv'
    BY <2>1, <2>2, <2>3 DEF ShownInv
  <2> QED  BY <2>4, <2>5
<1> QED  BY <1>1, <1>2, <1>3, <1>4, <1>5, <1>6 DEF Next, Finalize

LEMMA InitSummary == Init => ReportInv /\ ShownInv
  BY DEF Init, ReportInv, ShownInv, SummaryHasReport, Idle

PipelineInv == TypeOK /\ StageInv /\ LeaseInv /\ ReportInv /\ ShownInv

LEMMA InvariantHolds == Spec => []PipelineInv
<1>1. Init => PipelineInv
  BY InitTyped, InitStage, InitSummary DEF PipelineInv
<1>2. PipelineInv /\ [Next]_vars => PipelineInv'
  BY StepTyped, StepStage, StepLease, StepSummary DEF PipelineInv
<1> QED  BY <1>1, <1>2, PTL DEF Spec

\* A summary is committed only after the report it speaks of, and only for a
\* result the verifier could read.
THEOREM SummariesHaveReports == Spec => []SummaryHasReport
<1>1. PipelineInv => SummaryHasReport
  BY DEF PipelineInv, ReportInv
<1> QED  BY <1>1, InvariantHolds, PTL

\* What the host is shown as succeeded is a result of its own work unit with
\* the verifier's report on record, of an attempt that was approved, leased and
\* the newest when submit_result looked.
THEOREM SuccessIsVerified == Spec => []SucceededIsVerified
<1>1. PipelineInv => SucceededIsVerified
  <2> SUFFICES ASSUME PipelineInv, NEW w \in WorkUnits, shown[w] # None,
                      SummaryStatus(shown[w]) = "succeeded"
               PROVE  LET result == results[shown[w]]
                      IN  /\ shown[w] \in reports
                          /\ result.work_unit = w
                          /\ "approved" \in rows[w]
                          /\ result.attempt \in lease[w]
                          /\ \/ result.attempt = attempts[w]
                             \/ result.created_at < retried_at[w]
    BY DEF SucceededIsVerified
  <2>1. /\ shown[w] \in DOMAIN summaries /\ results[shown[w]].work_unit = w
        /\ shown[w] \in reports /\ shown[w] \in DOMAIN results
    BY DEF PipelineInv, ShownInv, ReportInv, SummaryHasReport, TypeOK
  <2>2. ~ results[shown[w]].late
    BY DEF SummaryStatus, EnvelopeQuarantined
  <2>3. "approved" \in rows[w]
    BY <2>1, StageIsApproved DEF PipelineInv, WorkIsApproved, ResultsOf
  <2>4. InTime(results[shown[w]])
    BY <2>1 DEF PipelineInv, LeaseInv
  <2> QED  BY <2>1, <2>2, <2>3, <2>4 DEF InTime
<1> QED  BY <1>1, InvariantHolds, PTL

\* Once the host has been given a summary it is never told pending again.
THEOREM NeverWithdrawn == Spec => ShownIsNotWithdrawn
<1>1. PipelineInv /\ PipelineInv' /\ [Next]_vars =>
        [\A w \in WorkUnits : shown[w] # None =>
            shown'[w] # None /\ SummariesOf(w)' # {}]_vars
  <2> SUFFICES ASSUME PipelineInv, PipelineInv', [Next]_vars,
                      NEW w \in WorkUnits, shown[w] # None
               PROVE  shown'[w] # None /\ SummariesOf(w)' # {}
    OBVIOUS
  <2>1. shown'[w] # None
    <3>1. shown \in [WorkUnits -> Nat \cup {None}]
      BY DEF PipelineInv, TypeOK
    <3>0. None \notin DOMAIN results
      BY PipelineAssumption DEF PipelineInv, TypeOK
    <3>2. ASSUME NEW x \in WorkUnits, ReadSummary(x)
          PROVE  shown'[w] # None
      <4>1. NewestSummary(x) \in SummariesOf(x)
        BY <3>2, NewestSummaryIsOne DEF ReadSummary, PipelineInv
      <4>2. NewestSummary(x) # None
        BY <3>0, <4>1 DEF SummariesOf, PipelineInv, TypeOK
      <4> QED  BY <3>1, <3>2, <4>2 DEF ReadSummary
    <3>3. ASSUME NEW r \in Requests, PersistSummary(r)
          PROVE  shown'[w] # None
      <4>1. request[r].result \in DOMAIN results
        BY <3>3, RequestFacts DEF PersistSummary, PipelineInv
      <4>2. request[r].result # None
        BY <3>0, <4>1
      <4> QED  BY <3>1, <3>3, <4>2 DEF PersistSummary
    <3>4. CASE /\ ~ \E x \in WorkUnits : ReadSummary(x)
               /\ ~ \E r \in Requests : PersistSummary(r)
      <4>1. ASSUME NEW x \in WorkUnits, Submission(x)
            PROVE  shown' = shown
        BY <4>1 DEF Submission, PersistWorkUnit, PersistRoutePlan, PersistPolicyDecision,
           CreateAttempt, CreateAssignment, SubmissionEnds, Stage
      <4>2. ASSUME NEW x \in WorkUnits, Execution(x)
            PROVE  shown' = shown
        BY <4>2 DEF Execution, Retry, Accept, ReplayResult, SubmitResult, ReadLateness
      <4>3. ASSUME NEW r \in Requests,
                   \/ CommitResult(r)
                   \/ Finalize(r) /\ ~ PersistSummary(r)
                   \/ RequestEnds(r)
                   \/ \E x \in WorkUnits : ReadAndFinalize(r, x)
            PROVE  shown' = shown
        BY <4>3 DEF CommitResult, Finalize, NothingToVerify, PersistVerifierReport,
           RequestEnds, ReadAndFinalize
      <4>4. shown' = shown
        BY <3>4, <4>1, <4>2, <4>3 DEF Next, vars
      <4> QED  BY <4>4
    <3> QED  BY <3>2, <3>3, <3>4
  <2>2. ShownInv'
    BY DEF PipelineInv
  <2>3. shown'[w] \in DOMAIN summaries' /\ results'[shown'[w]].work_unit = w
    BY <2>1, <2>2 DEF ShownInv
  <2> QED  BY <2>1, <2>3 DEF SummariesOf
<1> QED  BY <1>1, InvariantHolds, PTL DEF Spec, ShownIsNotWithdrawn

===============================================================================
