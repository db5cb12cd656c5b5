----------------------------- MODULE MCScheduler -----------------------------
(***************************************************************************)
(* Model-checking instance of Scheduler: handlers, attempt ids and         *)
(* assignment ids are interchangeable.  A history variable tells the       *)
(* behaviours in which requests overlap from those in which they are       *)
(* served one after the other, in which the tests that the handlers make   *)
(* before their transactions still hold in them.                           *)
(***************************************************************************)
EXTENDS Scheduler, TLC

VARIABLE overlapped  \* two requests have been in progress at the same time

IdSymmetry ==
    Permutations(AttemptIds) \cup Permutations(AssignmentIds)
        \cup Permutations(Handlers)

Busy == {h \in Handlers : req[h] # Idle}

\* Two requests are in progress, or one of a single step is served during
\* another.
Overlap ==
    \/ \E g, h \in Busy' : g # h
    \/ Busy # {} /\ req' = req /\ tables' # tables

MCInit == Init /\ overlapped = FALSE

MCNext == Next /\ overlapped' = (overlapped \/ Overlap)

MCSpec == MCInit /\ [][MCNext]_<<vars, overlapped>>

\* Bound: a third attempt, which another can share its number with, is
\* scheduled only as long as nothing is assigned.
AttemptsBound == Cardinality(DOMAIN attempts) < 3 \/ assignments = << >>

-----------------------------------------------------------------------------
(* Properties of requests that do not overlap *)

\* Late-result quarantine: a result stays out of result_quarantine only while
\* no newer attempt of its work unit exists, unless another request was served
\* between the test of submit_result and its transaction.
LateResultsQuarantined ==
    [][\A r \in results' \ results :
          ~ IsHeld(r)' => ~ IsLate(r.assignment) \/ overlapped]_vars

\* The attempts of a work unit are numbered from 1 without a gap, however the
\* requests that schedule them interleave, and no number is given twice, so
\* that one attempt is the newest, unless requests have overlapped: two
\* retries that read the same maximum (next_attempt_number) share a number,
\* and neither makes the other late.
AttemptsNumbered ==
    \A a \in DOMAIN attempts :
        LET w == attempts[a].work_unit
            n == attempts[a].attempt_number
        IN  /\ \/ n = 1
               \/ \E b \in AttemptsOf(w) : attempts[b].attempt_number = n - 1
            /\ \A b \in AttemptsOf(w) \ {a} :
                  attempts[b].attempt_number # n \/ overlapped

=============================================================================
