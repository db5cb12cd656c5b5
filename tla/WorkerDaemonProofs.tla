-------------------------- MODULE WorkerDaemonProofs --------------------------
(***************************************************************************)
(* Proofs about WorkerDaemon: the composition is a scheduler, so that what *)
(* SchedulerProofs shows holds in it; the lease keeps any number of        *)
(* daemons from executing an assignment twice and spooled results          *)
(* acceptable; and a result leaves the spool only when the scheduler has   *)
(* recorded it.                                                            *)
(***************************************************************************)
EXTENDS WorkerDaemon, SchedulerProofs

-----------------------------------------------------------------------------
(* The actions of the composition, grouped by what they do to the scheduler *)

\* Between two requests.
LocalAction(d) ==
    \/ Start(d) \/ RemoveEntry(d) \/ ReplayDone(d)
    \/ PollNothing(d) \/ NextRound(d) \/ AcceptRefused(d)
    \/ SpoolOutput(d) \/ ExecuteRaises(d) \/ Timeout(d)
    \/ Crash(d) \/ Shutdown(d)
    \/ \E kind \in {"succeeded", "failed"} : Execute(d, kind)
    \/ \E asg \in AssignmentIds : PollAssignment(d, asg)

SendAction(d, h) ==
    \/ \E asg \in AssignmentIds : SendReplay(d, h, asg)
    \/ SendAccept(d, h) \/ SendProgress(d, h) \/ SendSubmit(d, h)

AnswerAction(d, h) ==
    \/ Accepted(d, h) \/ Progressed(d, h) \/ Submitted(d, h)
    \/ SubmittedWithError(d, h) \/ Conflict(d, h) \/ ServerError(d, h)

\* A step is one of these, or the host's, or of a handler nobody waits for.
LEMMA SystemSplit ==
    ASSUME [SystemNext]_systemVars
    PROVE  \/ UNCHANGED systemVars
           \/ Tick /\ UNCHANGED daemonVars
           \/ \E d \in Daemons : LocalAction(d)
           \/ \E d \in Daemons, h \in Handlers : SendAction(d, h)
           \/ \E d \in Daemons, h \in Handlers : AnswerAction(d, h)
           \/ \E h \in Handlers : UnreadAnswer(h) \/ HostNext(h)
  BY DEF SystemNext, DaemonStep, FaultStep, Answer, LocalAction, SendAction,
         AnswerAction

-----------------------------------------------------------------------------
(* The composition takes steps of the scheduler *)

Core == Typed /\ LeaseInv

\* What a token test that succeeded says about the token.
LEMMA TokenIsGrant ==
    ASSUME Core, NEW asg \in DOMAIN assignments, NEW token,
           VerifyLeaseToken(assignments[asg].lease_token, token)
    PROVE  token \in 0 .. grants[asg]
  BY DEF Core, Typed, TypeOK, IsTable, LeaseInv, VerifyLeaseToken

\* The requests daemons send are requests of the scheduler.
LEMMA SendIsStep ==
    ASSUME Core, NEW d \in Daemons, NEW h \in Handlers,
           SendAction(d, h),
           job[d] \in Job
    PROVE  StartStep(h)
  <1> USE DaemonAssumption
  <1>0. DOMAIN assignments \subseteq AssignmentIds
    BY DEF Core, Typed, TypeOK, IsTable
  <1>1. ASSUME NEW asg \in AssignmentIds, SendReplay(d, h, asg)
        PROVE  StartStep(h)
    <2>1. replays[d][asg] \in 0 .. grants[asg]
      BY <1>1, TokenIsGrant DEF SendReplay, StartSubmit
    <2>. QED  BY <1>1, <2>1 DEF SendReplay, StartStep, ResultKinds
  <1>2. CASE SendAccept(d, h)
    <2>1. job[d].assignment \in AssignmentIds
      BY <1>0, <1>2 DEF SendAccept, StartAccept
    <2>. QED  BY <1>2, <2>1 DEF SendAccept, StartStep
  <1>3. CASE SendProgress(d, h)
    <2> DEFINE asg == job[d].assignment
    <2>1. asg \in DOMAIN assignments /\ assignments[asg].lease_version \in Nat
      BY <1>3 DEF SendProgress, StartProgress, Core, Typed, TypeOK, IsTable,
                  AssignmentRow
    <2>2. job[d].version \in 1 .. MaxLeaseVersion
      BY <1>3, <2>1, BoundsAssumption DEF SendProgress, StartProgress
    <2>3. job[d].token \in 0 .. grants[asg]
      BY <1>3, TokenIsGrant DEF SendProgress, StartProgress
    <2>. QED  BY <1>0, <1>3, <2>1, <2>2, <2>3 DEF SendProgress, StartStep
  <1>4. CASE SendSubmit(d, h)
    <2> DEFINE asg == job[d].assignment
    <2>1. asg \in DOMAIN assignments
      BY <1>4 DEF SendSubmit, StartSubmit
    <2>2. job[d].token \in 0 .. grants[asg] /\ job[d].kind \in ResultKinds
      BY <1>4, TokenIsGrant DEF SendSubmit, StartSubmit, Job
    <2>. QED  BY <1>0, <1>4, <2>1, <2>2 DEF SendSubmit, StartStep
  <1>. QED  BY <1>1, <1>2, <1>3, <1>4 DEF SendAction

\* A recorded result has a number within the bound of the scheduler.
LEMMA SubmitNumber ==
    ASSUME NEW h \in Handlers, NEW n, CommitSubmit(h, n)
    PROVE  n \in 0 .. MaxReplays
  BY BoundsAssumption DEF CommitSubmit, FreshResultKey

\* What the daemons do between two requests leaves the control plane alone.
LEMMA LocalStep ==
    ASSUME NEW d \in Daemons,
           LocalAction(d)
    PROVE  UNCHANGED vars
  BY DEF LocalAction, Start, RemoveEntry, ReplayDone, PollNothing, NextRound,
         AcceptRefused,
         SpoolOutput, ExecuteRaises, Timeout, Crash, Shutdown, Execute,
         PollAssignment

\* Answers and host steps are steps of the scheduler.
LEMMA AnswerIsStep ==
    ASSUME NEW h \in Handlers,
           \/ \E d \in Daemons : AnswerAction(d, h)
           \/ UnreadAnswer(h)
    PROVE  \/ CommitAccept(h)
           \/ CommitProgress(h)
           \/ \E n \in 0 .. MaxReplays : CommitSubmit(h, n)
           \/ RequestFails(h)
  BY SubmitNumber
  DEF AnswerAction, Accepted, Progressed, Submitted, SubmittedWithError,
                      Conflict, ServerError, UnreadAnswer

\* Every step of the composition is a step of the scheduler or leaves it alone.
LEMMA SystemStepIsStep ==
    ASSUME Core, job \in [Daemons -> Job], [SystemNext]_systemVars
    PROVE  [Next]_vars
  <1>1. CASE UNCHANGED systemVars
    BY <1>1 DEF systemVars
  <1>2. CASE Tick
    BY <1>2 DEF Next
  <1>3. ASSUME NEW h \in Handlers, StartStep(h) PROVE Next
    BY <1>3 DEF StartStep, Next, AttemptNext, AssignmentNext
  <1>4. ASSUME NEW h \in Handlers, HostNext(h) PROVE Next
    BY <1>4, DaemonAssumption
    DEF HostNext, HostStarts, HostCommits, Next, AttemptNext, AssignmentNext
  <1>5. ASSUME NEW h \in Handlers,
               \/ CommitAccept(h)
               \/ CommitProgress(h)
               \/ \E n \in 0 .. MaxReplays : CommitSubmit(h, n)
               \/ RequestFails(h)
        PROVE  Next
    BY <1>5 DEF Next
  <1>. QED
    BY <1>1, <1>2, <1>3, <1>4, <1>5, SystemSplit, LocalStep, SendIsStep,
       AnswerIsStep

-----------------------------------------------------------------------------
(* Types *)

\* Exit keeps types.
LEMMA ExitTyped ==
    ASSUME SystemTypeOK, NEW d \in Daemons, Exit(d)
    PROVE  /\ phase' \in [Daemons -> Phases]
           /\ job' \in [Daemons -> Job]
           /\ call' \in [Daemons -> SUBSET Handlers]
           /\ \A e \in Daemons : IsTable(replays'[e], AssignmentIds, Nat)
  <1>1. NoJob \in Job
    BY DEF NoJob, Job, ResultKinds
  <1>2. IsTable(NoFiles, AssignmentIds, Nat)
    BY DEF NoFiles, IsTable
  <1>. QED
    BY <1>1, <1>2 DEF Exit, Goto, EndCall, SystemTypeOK, Phases

\* An error answer keeps types.
LEMMA ErrorTyped ==
    ASSUME SystemTypeOK, NEW d \in Daemons, ErrorAnswer(d)
    PROVE  /\ phase' \in [Daemons -> Phases]
           /\ job' \in [Daemons -> Job]
           /\ call' \in [Daemons -> SUBSET Handlers]
           /\ \A e \in Daemons : IsTable(replays'[e], AssignmentIds, Nat)
  <1>1. CASE phase[d] = "submit"
    BY <1>1 DEF ErrorAnswer, Goto, EndCall, SystemTypeOK, Phases
  <1>2. CASE phase[d] # "submit"
    BY <1>2, ExitTyped DEF ErrorAnswer
  <1>. QED  BY <1>1, <1>2

\* Working on an assignment is a job.
LEMMA JobTyped ==
    ASSUME NEW asg \in AssignmentIds
    PROVE  JobOn(asg) \in Job /\ JobOn(asg).assignment = asg
  BY DEF JobOn, NoJob, Job, ResultKinds

\* A fault is counted.
LEMMA FaultTyped ==
    ASSUME SystemTypeOK, NEW kind, Fault(kind)
    PROVE  faults' \in 0 .. MaxFaults
  BY DaemonAssumption DEF SystemTypeOK, Fault

\* A directory without one of its files is a directory.
LEMMA WithoutTyped ==
    ASSUME NEW table, IsTable(table, AssignmentIds, Nat), NEW key
    PROVE  IsTable(Without(table, key), AssignmentIds, Nat)
  BY DEF IsTable, Without

\* Who handles an assignment handles one that exists.
JobsExist ==
    \A d \in Daemons :
        phase[d] \in {"accept", "execute", "progress", "submit", "spool"} =>
            job[d].assignment \in DOMAIN assignments

\* A daemon that waits, waits for its own request, and nobody else does.
CallInv ==
    \A d \in Daemons, h \in Handlers : h \in call[d] =>
        /\ \A e \in Daemons \ {d} : h \notin call[e]
        /\ \/ /\ phase[d] = "accept"
              /\ req[h].op = "accept"
              /\ req[h].assignment = job[d].assignment
           \/ phase[d] = "progress" /\ req[h].op = "progress"
           \/ phase[d] \in {"submit", "replay"} /\ req[h].op = "submit"

\* Steps of a daemon keep types.
LEMMA LocalTyped ==
    ASSUME Core, SystemTypeOK, JobsExist, NEW d \in Daemons,
           LocalAction(d)
    PROVE  SystemTypeOK'
  <1>0. DOMAIN assignments \subseteq AssignmentIds
    BY DEF Core, Typed, TypeOK, IsTable
  <1>1. CASE Start(d)
    BY <1>1 DEF Start, Goto, SystemTypeOK, Phases
  <1>2. CASE RemoveEntry(d)
    <2>1. NoJob \in Job
      BY DEF NoJob, Job, ResultKinds
    <2>2. /\ IsTable(spool', AssignmentIds, Nat)
          /\ \A e \in Daemons : IsTable(replays'[e], AssignmentIds, Nat)
      BY <1>2, WithoutTyped DEF RemoveEntry, SystemTypeOK
    <2>. QED
      BY <1>2, <2>1, <2>2 DEF RemoveEntry, Goto, SystemTypeOK, Phases
  <1>3. CASE ReplayDone(d) \/ PollNothing(d) \/ NextRound(d)
    BY <1>3 DEF ReplayDone, PollNothing, NextRound, Goto, SystemTypeOK, Phases
  <1>4. CASE AcceptRefused(d) \/ Shutdown(d)
    BY <1>4, ExitTyped DEF AcceptRefused, Shutdown, SystemTypeOK
  <1>5. CASE Timeout(d) \/ Crash(d)
    BY <1>5, ExitTyped, FaultTyped DEF Timeout, Crash, SystemTypeOK
  <1>6. CASE ExecuteRaises(d)
    <2>0. job[d].assignment \in AssignmentIds
      BY <1>0, <1>6 DEF ExecuteRaises, At, JobsExist
    <2>1. executed' \in [AssignmentIds -> Nat]
      BY <1>6, <2>0 DEF ExecuteRaises, SystemTypeOK
    <2>. QED
      BY <1>6, <2>1, ExitTyped, FaultTyped DEF ExecuteRaises, SystemTypeOK
  <1>7. CASE SpoolOutput(d)
    <2>1. job[d].assignment \in AssignmentIds /\ job[d].token \in Nat
      BY <1>0, <1>7 DEF SpoolOutput, At, JobsExist, SystemTypeOK, Job
    <2>2. IsTable(spool', AssignmentIds, Nat)
      BY <1>7, <2>1 DEF SpoolOutput, Insert, IsTable, SystemTypeOK
    <2>. QED  BY <1>7, <2>2, ExitTyped DEF SpoolOutput, SystemTypeOK
  <1>8. ASSUME NEW kind \in {"succeeded", "failed"}, Execute(d, kind)
        PROVE  SystemTypeOK'
    <2>0. job[d].assignment \in AssignmentIds
      BY <1>0, <1>8 DEF Execute, At, JobsExist
    <2>1. executed' \in [AssignmentIds -> Nat]
      BY <1>8, <2>0 DEF Execute, SystemTypeOK
    <2>2. job' \in [Daemons -> Job]
      BY <1>8 DEF Execute, SystemTypeOK, Job, ResultKinds
    <2>. QED  BY <1>8, <2>1, <2>2 DEF Execute, Goto, SystemTypeOK, Phases
  <1>9. ASSUME NEW asg \in AssignmentIds, PollAssignment(d, asg)
        PROVE  SystemTypeOK'
    BY <1>9, JobTyped DEF PollAssignment, Goto, SystemTypeOK, Phases
  <1>. QED  BY <1>1, <1>2, <1>3, <1>4, <1>5, <1>6, <1>7, <1>8, <1>9
           DEF LocalAction

\* The answer of accept tells the daemon its token and its version.
LEMMA AcceptedFacts ==
    ASSUME Core, Core', SystemTypeOK, JobsExist, CallInv,
           NEW d \in Daemons, NEW h \in Handlers, Accepted(d, h)
    PROVE  /\ phase[d] = "accept"
           /\ req[h].assignment = job[d].assignment
           /\ job[d].assignment \in DOMAIN assignments
           /\ job[d].assignment \in AssignmentIds
           /\ grants[job[d].assignment] = 0
           /\ grants'[job[d].assignment] = 1
           /\ job' = [job EXCEPT ![d] = job'[d]]
           /\ job'[d] \in Job
           /\ job'[d].assignment = job[d].assignment
           /\ job'[d].token = 1
  <1> DEFINE asg == job[d].assignment
  <1>1. req[h].op = "accept" /\ LeaseVersionMatches(req[h].assignment, 0)
    BY DEF Accepted, CommitAccept
  <1>2. phase[d] = "accept" /\ req[h].assignment = asg
    <2>1. h \in call[d]
      BY DEF Accepted, Waits
    <2>. QED  BY <1>1, <2>1 DEF CallInv
  <1>3. asg \in DOMAIN assignments /\ asg \in AssignmentIds
    BY <1>2 DEF JobsExist, Core, Typed, TypeOK, IsTable
  <1>4. grants[asg] = 0
    BY <1>1, <1>2, <1>3 DEF LeaseVersionMatches, Core, LeaseInv
  <1>5. grants'[asg] = 1
    <2>1. grants' = [grants EXCEPT ![asg] = @ + 1]
      BY <1>2 DEF Accepted, CommitAccept
    <2>2. grants \in [AssignmentIds -> Nat]
      BY DEF Core, Typed, TypeOK
    <2> HIDE DEF asg
    <2>. QED  BY <1>3, <1>4, <2>1, <2>2
  <1>6. assignments'[asg].lease_version \in Nat
    <2>1. asg \in DOMAIN assignments'
      BY <1>2, <1>3 DEF Accepted, CommitAccept
    <2>. QED  BY <2>1 DEF Core, Typed, TypeOK, IsTable, AssignmentRow
  <1>7. PICK v \in Nat :
           job' = [job EXCEPT ![d].token = 1, ![d].version = v]
    BY <1>5, <1>6 DEF Accepted
  <1> HIDE DEF asg
  <1>8. /\ job' = [job EXCEPT ![d] = job'[d]]
        /\ job'[d] \in Job
        /\ job'[d].assignment = job[d].assignment
        /\ job'[d].token = 1
    <2>1. job \in [Daemons -> Job]
      BY DEF SystemTypeOK
    <2>2. /\ job'[d] = [job[d] EXCEPT !.token = 1, !.version = v]
          /\ \A e \in Daemons \ {d} : job'[e] = job[e]
          /\ job' \in [Daemons -> Job]
      BY <1>7, <2>1 DEF Job
    <2>. QED  BY <2>1, <2>2 DEF Job
  <1>. QED  BY <1>2, <1>3, <1>4, <1>5, <1>8 DEF asg

\* Every step keeps the types of the daemons.
LEMMA SystemStepTyped ==
    ASSUME Core, Core', SystemTypeOK, JobsExist, CallInv,
           [SystemNext]_systemVars
    PROVE  SystemTypeOK'
  <1>1. CASE UNCHANGED daemonVars
    BY <1>1 DEF daemonVars, SystemTypeOK
  <1>2. ASSUME NEW d \in Daemons, NEW h \in Handlers,
               SendAction(d, h)
        PROVE  SystemTypeOK'
    <2>1. call' \in [Daemons -> SUBSET Handlers]
      BY <1>2
      DEF SendAction, SendReplay, SendAccept, SendProgress, SendSubmit, Send,
                  SystemTypeOK
    <2>2. job' \in [Daemons -> Job]
      BY <1>2, JobTyped
      DEF SendAction, SendReplay, SendAccept, SendProgress, SendSubmit,
                  SystemTypeOK
    <2>3. UNCHANGED <<phase, replays, spool, executed, faults>>
      BY <1>2 DEF SendAction, SendReplay, SendAccept, SendProgress, SendSubmit
    <2>. QED  BY <2>1, <2>2, <2>3 DEF SystemTypeOK
  <1>3. ASSUME NEW d \in Daemons, NEW h \in Handlers, Accepted(d, h)
        PROVE  SystemTypeOK'
    <2>1. job' \in [Daemons -> Job]
      BY <1>3, AcceptedFacts DEF SystemTypeOK
    <2>. QED
      BY <1>3, <2>1 DEF Accepted, Goto, EndCall, SystemTypeOK, Phases
  <1>4. ASSUME NEW d \in Daemons, NEW h \in Handlers,
               Progressed(d, h) \/ Submitted(d, h)
        PROVE  SystemTypeOK'
    <2>1. NoJob \in Job
      BY DEF NoJob, Job, ResultKinds
    <2>2. /\ phase' \in [Daemons -> Phases]
          /\ call' \in [Daemons -> SUBSET Handlers]
          /\ UNCHANGED <<replays, spool, executed, faults>>
      BY <1>4 DEF Progressed, Submitted, Goto, EndCall, SystemTypeOK, Phases
    <2>3. job' \in [Daemons -> Job]
      BY <1>4, <2>1 DEF Progressed, Submitted, SystemTypeOK
    <2>. QED  BY <2>2, <2>3 DEF SystemTypeOK
  <1>5. ASSUME NEW d \in Daemons, NEW h \in Handlers,
               \/ SubmittedWithError(d, h) \/ Conflict(d, h)
               \/ ServerError(d, h)
        PROVE  SystemTypeOK'
    <2>1. ErrorAnswer(d) /\ UNCHANGED <<spool, executed>>
      BY <1>5 DEF SubmittedWithError, Conflict, ServerError
    <2>2. faults' \in 0 .. MaxFaults
      BY <1>5, FaultTyped
      DEF SubmittedWithError, Conflict, ServerError, SystemTypeOK
    <2>. QED  BY <2>1, <2>2, ErrorTyped DEF SystemTypeOK
  <1>6. ASSUME NEW h \in Handlers, UnreadAnswer(h) \/ HostNext(h)
        PROVE  UNCHANGED daemonVars
    BY <1>6 DEF UnreadAnswer, HostNext
  <1>7. UNCHANGED systemVars => UNCHANGED daemonVars
    BY DEF systemVars
  <1>. QED
    BY <1>1, <1>2, <1>3, <1>4, <1>5, <1>6, <1>7, SystemSplit, LocalTyped
    DEF AnswerAction

-----------------------------------------------------------------------------
(* Calls *)

\* A step that touches only handlers nobody else waits for, and after which
\* the daemons it moves do not wait, keeps CallInv.
LEMMA CallFrame ==
    ASSUME CallInv, NEW S \in SUBSET Handlers, NEW D \in SUBSET Daemons,
           \A g \in Handlers \ S : req'[g] = req[g],
           \A e \in Daemons \ D : /\ phase'[e] = phase[e]
                                   /\ job'[e] = job[e]
                                   /\ call'[e] = call[e]
                                   /\ call[e] \cap S = {},
           \A d \in D : call'[d] = {}
    PROVE  CallInv'
  <1> SUFFICES ASSUME NEW d \in Daemons, NEW h \in Handlers, h \in call'[d]
               PROVE  /\ \A e \in Daemons \ {d} : h \notin call'[e]
                      /\ \/ /\ phase'[d] = "accept"
                            /\ req'[h].op = "accept"
                            /\ req'[h].assignment = job'[d].assignment
                         \/ phase'[d] = "progress" /\ req'[h].op = "progress"
                         \/ /\ phase'[d] \in {"submit", "replay"}
                            /\ req'[h].op = "submit"
    BY DEF CallInv
  <1>1. d \in Daemons \ D /\ h \in call[d] /\ h \notin S
    OBVIOUS
  <1>2. req'[h] = req[h] /\ phase'[d] = phase[d] /\ job'[d] = job[d]
    BY <1>1
  <1>3. \A e \in Daemons : call'[e] \subseteq call[e]
    OBVIOUS
  <1>. QED  BY <1>1, <1>2, <1>3 DEF CallInv

\* Whatever a local step does to its daemon, the others stay as they are.
LEMMA LocalMoves ==
    ASSUME SystemTypeOK, NEW d \in Daemons,
           LocalAction(d)
    PROVE  /\ call'[d] = {}
           /\ \A e \in Daemons \ {d} : /\ phase'[e] = phase[e]
                                        /\ job'[e] = job[e]
                                        /\ call'[e] = call[e]
  <1>1. CASE \/ AcceptRefused(d) \/ SpoolOutput(d) \/ ExecuteRaises(d)
             \/ Timeout(d) \/ Crash(d) \/ Shutdown(d)
    <2>1. Exit(d)
      BY <1>1 DEF AcceptRefused, SpoolOutput, ExecuteRaises, Timeout, Crash,
                  Shutdown
    <2>. QED  BY <2>1 DEF Exit, Goto, EndCall, SystemTypeOK
  <1>2. CASE \/ Start(d) \/ RemoveEntry(d) \/ ReplayDone(d)
             \/ PollNothing(d) \/ NextRound(d)
    BY <1>2 DEF Start, RemoveEntry, ReplayDone, PollNothing, NextRound, At,
                Goto, SystemTypeOK
  <1>3. ASSUME NEW kind \in {"succeeded", "failed"}, Execute(d, kind)
        PROVE  /\ call'[d] = {}
               /\ \A e \in Daemons \ {d} : /\ phase'[e] = phase[e]
                                            /\ job'[e] = job[e]
                                            /\ call'[e] = call[e]
    BY <1>3 DEF Execute, At, Goto, SystemTypeOK
  <1>4. ASSUME NEW asg \in AssignmentIds, PollAssignment(d, asg)
        PROVE  /\ call'[d] = {}
               /\ \A e \in Daemons \ {d} : /\ phase'[e] = phase[e]
                                            /\ job'[e] = job[e]
                                            /\ call'[e] = call[e]
    BY <1>4 DEF PollAssignment, At, Goto, SystemTypeOK
  <1>. QED  BY <1>1, <1>2, <1>3, <1>4 DEF LocalAction

\* So does an answer.
LEMMA AnswerMoves ==
    ASSUME SystemTypeOK, NEW d \in Daemons, NEW h \in Handlers,
           AnswerAction(d, h)
    PROVE  /\ h \in call[d]
           /\ call'[d] = {}
           /\ \A e \in Daemons \ {d} : /\ phase'[e] = phase[e]
                                        /\ job'[e] = job[e]
                                        /\ call'[e] = call[e]
  <1>1. CASE Accepted(d, h) \/ Progressed(d, h)
    BY <1>1 DEF Accepted, Progressed, Waits, Goto, EndCall, SystemTypeOK
  <1>2. CASE Submitted(d, h)
    BY <1>2 DEF Submitted, Waits, Goto, EndCall, SystemTypeOK
  <1>3. CASE \/ SubmittedWithError(d, h) \/ Conflict(d, h)
             \/ ServerError(d, h)
    <2>1. ErrorAnswer(d) /\ h \in call[d]
      BY <1>3 DEF SubmittedWithError, Conflict, ServerError, Waits
    <2>. QED  BY <2>1 DEF ErrorAnswer, Exit, Goto, EndCall, SystemTypeOK
  <1>. QED  BY <1>1, <1>2, <1>3 DEF AnswerAction

\* A request is ended, or begun, by the handler that serves it.
LEMMA OneHandler ==
    ASSUME Typed, NEW h \in Handlers,
           (\E r : Serve(h, r)) \/ Done(h)
    PROVE  \A g \in Handlers \ {h} : req'[g] = req[g]
  BY DEF Typed, TypeOK, Serve, Done

\* Nobody waits for a handler that is idle or serves the host.
LEMMA HostAlone ==
    ASSUME Core, CallInv, NEW h \in Handlers, HostNext(h)
    PROVE  /\ UNCHANGED daemonVars
           /\ \A e \in Daemons : h \notin call[e]
           /\ \A g \in Handlers \ {h} : req'[g] = req[g]
  <1>1. CASE HostStarts(h)
    <2>1. StartStep(h) /\ req[h].op = "idle"
      BY <1>1, DaemonAssumption
      DEF HostStarts, StartStep, StartFirstAttempt, ScheduleRetry,
          ReadAttemptNumber, StartAssign, StartSweep, IsIdle
    <2>2. \A g \in Handlers \ {h} : req'[g] = req[g]
      BY <2>1, StartStepFacts, OneHandler DEF Core
    <2>. QED  BY <2>1, <2>2 DEF HostNext, CallInv
  <1>2. CASE HostCommits(h)
    <2>1. Done(h) /\ req[h].op \in {"create_attempt", "assign", "sweep"}
      BY <1>2 DEF HostCommits, CommitAttempt, CommitAssign, CommitSweep
    <2>. QED  BY <2>1, OneHandler DEF HostNext, CallInv, Core
  <1>. QED  BY <1>1, <1>2 DEF HostNext

\* Every step keeps CallInv.
LEMMA StepCalls ==
    ASSUME Core, SystemTypeOK, CallInv, [SystemNext]_systemVars
    PROVE  CallInv'
  <1>1. CASE UNCHANGED systemVars
    BY <1>1 DEF systemVars, vars, daemonVars, CallInv
  <1>2. CASE Tick /\ UNCHANGED daemonVars
    BY <1>2 DEF Tick, daemonVars, CallInv
  <1>3. ASSUME NEW d \in Daemons, UNCHANGED vars, call'[d] = {},
               \A e \in Daemons \ {d} : /\ phase'[e] = phase[e]
                                        /\ job'[e] = job[e]
                                        /\ call'[e] = call[e]
        PROVE  CallInv'
    <2>1. \A g \in Handlers \ {} : req'[g] = req[g]
      BY <1>3 DEF vars
    <2>2. \A e \in Daemons \ {d} : /\ phase'[e] = phase[e]
                                    /\ job'[e] = job[e]
                                    /\ call'[e] = call[e]
                                    /\ call[e] \cap {} = {}
      BY <1>3
    <2>3. \A e \in {d} : call'[e] = {}
      BY <1>3
    <2>. QED
      BY <2>1, <2>2, <2>3, CallFrame, {} \in SUBSET Handlers,
         {d} \in SUBSET Daemons
  <1>4. ASSUME NEW d \in Daemons, NEW h \in Handlers,
               AnswerAction(d, h)
        PROVE  CallInv'
    <2>1. Done(h)
      BY <1>4, AnswerIsStep
      DEF CommitAccept, CommitProgress, CommitSubmit, RequestFails
    <2>2. \A e \in Daemons \ {d} : call[e] \cap {h} = {}
      BY <1>4, AnswerMoves DEF CallInv
    <2> DEFINE S == {h}
               D == {d}
    <2>3. S \in SUBSET Handlers /\ D \in SUBSET Daemons
      OBVIOUS
    <2>4. \A g \in Handlers \ S : req'[g] = req[g]
      BY <2>1, OneHandler DEF Core
    <2>5. \A e \in Daemons \ D : /\ phase'[e] = phase[e]
                                 /\ job'[e] = job[e]
                                 /\ call'[e] = call[e]
                                 /\ call[e] \cap S = {}
      BY <1>4, <2>2, AnswerMoves
    <2>6. \A e \in D : call'[e] = {}
      BY <1>4, AnswerMoves
    <2> HIDE DEF S, D
    <2>. QED  BY <2>3, <2>4, <2>5, <2>6, CallFrame
  <1>5. ASSUME NEW h \in Handlers, UnreadAnswer(h) \/ HostNext(h)
        PROVE  CallInv'
    <2>1. CASE UnreadAnswer(h)
      <3>1. Done(h) /\ UNCHANGED daemonVars
        BY <2>1
        DEF UnreadAnswer, CommitAccept, CommitProgress, CommitSubmit,
            RequestFails
      <3>2. \A e \in Daemons : call[e] \cap {h} = {}
        BY <2>1 DEF UnreadAnswer, Waits
      <3>3. \A g \in Handlers \ {h} : req'[g] = req[g]
        BY <3>1, OneHandler DEF Core
      <3>. QED
        BY <3>1, <3>2, <3>3, CallFrame, {h} \in SUBSET Handlers,
           {} \in SUBSET Daemons DEF daemonVars
    <2>2. CASE HostNext(h)
      <3>1. \A e \in Daemons : call[e] \cap {h} = {}
        BY <2>2, HostAlone
      <3>. QED
        BY <2>2, <3>1, HostAlone, CallFrame, {h} \in SUBSET Handlers,
           {} \in SUBSET Daemons DEF daemonVars
    <2>. QED  BY <1>5, <2>1, <2>2
  <1>6. ASSUME NEW d \in Daemons, NEW h \in Handlers,
               SendAction(d, h)
        PROVE  CallInv'
    <2>1. /\ req[h].op = "idle"
          /\ \E r : Serve(h, r)
          /\ call' = [call EXCEPT ![d] = {h}]
          /\ phase' = phase
          /\ \A e \in Daemons \ {d} : job'[e] = job[e]
      BY <1>6
      DEF SendAction, SendReplay, SendAccept, SendProgress, SendSubmit,
          StartSubmit,
          StartAccept, StartProgress, IsIdle, Send, SystemTypeOK
    <2>2. \A e \in Daemons : h \notin call[e]
      BY <2>1 DEF CallInv
    <2>3. \A g \in Handlers \ {h} : req'[g] = req[g]
      BY <2>1, OneHandler DEF Core
    <2>4. \/ /\ phase[d] = "accept"
             /\ req'[h].op = "accept"
             /\ req'[h].assignment = job'[d].assignment
          \/ phase[d] = "progress" /\ req'[h].op = "progress"
          \/ phase[d] \in {"submit", "replay"} /\ req'[h].op = "submit"
      BY <1>6
      DEF SendAction, SendReplay, SendAccept, SendProgress, SendSubmit,
          StartSubmit,
          StartAccept, StartProgress, Serve, At, Core, Typed, TypeOK
    <2>5. call'[d] = {h} /\ \A e \in Daemons \ {d} : call'[e] = call[e]
      BY <2>1 DEF SystemTypeOK
    <2>. QED  BY <2>1, <2>2, <2>3, <2>4, <2>5 DEF CallInv
  <1>. QED
    BY <1>1, <1>2, <1>3, <1>4, <1>5, <1>6, SystemSplit, LocalStep, LocalMoves

-----------------------------------------------------------------------------
(* Tokens *)

\* No token is taken back.
LEMMA GrantsGrow ==
    ASSUME Typed, [Next]_vars
    PROVE  \A asg \in AssignmentIds : grants'[asg] >= grants[asg]
  <1>0. grants \in [AssignmentIds -> Nat]
    BY DEF Typed, TypeOK
  <1>1. ASSUME NEW h \in Handlers, StartStep(h) PROVE grants' = grants
    BY <1>1, StartStepFacts
  <1>2. ASSUME NEW h \in Handlers,
               \/ \E a \in AttemptIds : CommitAttempt(h, a)
               \/ \E asg \in AssignmentIds : CommitAssign(h, asg)
               \/ \E asg \in AssignmentIds, wk \in Workers :
                     RejectAssignment(h, asg, wk)
               \/ CommitProgress(h)
               \/ \E n \in 0 .. MaxReplays : CommitSubmit(h, n)
               \/ CommitSweep(h)
               \/ RequestFails(h)
        PROVE  grants' = grants
    BY <1>2 DEF CommitAttempt, CommitAssign, RejectAssignment, CommitProgress,
                CommitSubmit, CommitSweep, RequestFails
  <1>3. UNCHANGED vars \/ Tick => grants' = grants
    BY DEF vars, Tick
  <1>4. ASSUME NEW h \in Handlers, CommitAccept(h)
        PROVE  \A asg \in AssignmentIds : grants'[asg] >= grants[asg]
    <2> DEFINE asg == req[h].assignment
    <2>1. grants' = [grants EXCEPT ![asg] = @ + 1]
      BY <1>4 DEF CommitAccept
    <2> HIDE DEF asg
    <2>. QED  BY <1>0, <2>1
  <1>5. ASSUME grants' = grants
        PROVE  \A asg \in AssignmentIds : grants'[asg] >= grants[asg]
    BY <1>0, <1>5
  <1>. QED  BY <1>1, <1>2, <1>3, <1>4, <1>5, NextSplit

\* The assignment is the worker's, and its only token has been handed out.
HasToken(asg) ==
    /\ asg \in DOMAIN assignments
    /\ assignments[asg].worker = Worker
    /\ grants[asg] = 1

IsOurs(asg) == asg \in DOMAIN assignments /\ assignments[asg].worker = Worker

Working == {"execute", "progress", "submit", "spool"}

\* A daemon past accept, and a file of the spool, hold that token.
TokenInv ==
    /\ \A d \in Daemons :
          /\ phase[d] = "accept" => IsOurs(job[d].assignment)
          /\ phase[d] \in Working =>
                HasToken(job[d].assignment) /\ job[d].token = 1
    /\ \A asg \in DOMAIN spool : HasToken(asg) /\ spool[asg] = 1

\* So the assignments they handle exist.
LEMMA TokenJobs == ASSUME TokenInv PROVE JobsExist
  BY DEF TokenInv, JobsExist, Working, IsOurs, HasToken

\* Neither is lost in a step.
LEMMA TokenIsStable ==
    ASSUME Core, Core', [Next]_vars, NEW asg
    PROVE  /\ IsOurs(asg) => IsOurs(asg)'
           /\ HasToken(asg) => HasToken(asg)'
  <1>1. KeepsIdentity /\ \A b \in AssignmentIds : grants'[b] >= grants[b]
    BY StepKeepsIdentity, GrantsGrow DEF Core
  <1>2. IsOurs(asg) => IsOurs(asg)'
    BY <1>1 DEF IsOurs, KeepsIdentity
  <1>3. ASSUME HasToken(asg) PROVE HasToken(asg)'
    <2>1. asg \in AssignmentIds /\ grants[asg] = 1
      BY <1>3 DEF HasToken, Core, Typed, TypeOK, IsTable
    <2>2. grants'[asg] >= 1 /\ grants'[asg] <= 1 /\ grants'[asg] \in Nat
      BY <1>1, <2>1 DEF Core, LeaseInv, Typed, TypeOK
    <2>. QED  BY <1>1, <1>3, <2>2 DEF HasToken, KeepsIdentity
  <1>. QED  BY <1>2, <1>3

\* What a step may do to the work of a daemon.
WorkMoves(d) ==
    \/ phase'[d] \notin Working \cup {"accept"}
    \/ /\ phase'[d] = "accept"
       /\ IsOurs(job'[d].assignment)
    \/ /\ phase'[d] \in Working
       /\ phase[d] \in Working
       /\ job'[d].assignment = job[d].assignment
       /\ job'[d].token = job[d].token
    \/ /\ phase'[d] = "execute"
       /\ HasToken(job[d].assignment)'
       /\ job'[d].token = 1

SpoolMoves ==
    \A asg \in DOMAIN spool' :
        \/ asg \in DOMAIN spool /\ spool'[asg] = spool[asg]
        \/ HasToken(asg) /\ spool'[asg] = 1

\* Steps that move work and spool this way keep TokenInv.
LEMMA TokenFrame ==
    ASSUME Core, Core', [Next]_vars, TokenInv, SpoolMoves,
           \A d \in Daemons : WorkMoves(d)
    PROVE  TokenInv'
  <1>1. ASSUME NEW d \in Daemons
        PROVE  /\ phase'[d] = "accept" => IsOurs(job[d].assignment)'
               /\ phase'[d] \in Working =>
                     HasToken(job[d].assignment)' /\ job'[d].token = 1
    BY TokenIsStable DEF WorkMoves, TokenInv, Working
  <1>2. ASSUME NEW asg \in DOMAIN spool'
        PROVE  HasToken(asg)' /\ spool'[asg] = 1
    BY TokenIsStable DEF SpoolMoves, TokenInv
  <1>. QED  BY <1>1, <1>2 DEF TokenInv, Working

\* A daemon whose phase and job stay keeps its work.
LEMMA StaysMoves ==
    ASSUME TokenInv, NEW d \in Daemons, phase'[d] = phase[d], job'[d] = job[d]
    PROVE  WorkMoves(d)
  BY DEF WorkMoves, TokenInv, Working

\* Leaving run() ends the work of the daemon.
LEMMA ExitMoves ==
    ASSUME SystemTypeOK, NEW d \in Daemons, Exit(d)
    PROVE  phase'[d] = "down" /\ WorkMoves(d)
  BY DEF Exit, Goto, SystemTypeOK, WorkMoves, Working

\* Local steps of a daemon handle its work and the spool with its token.
LEMMA LocalWork ==
    ASSUME SystemTypeOK, TokenInv, NEW d \in Daemons,
           LocalAction(d)
    PROVE  WorkMoves(d) /\ SpoolMoves
  <1>1. CASE \/ Start(d) \/ ReplayDone(d) \/ PollNothing(d) \/ NextRound(d)
    BY <1>1 DEF Start, ReplayDone, PollNothing, NextRound, Goto, SystemTypeOK,
                WorkMoves, Working, SpoolMoves
  <1>2. CASE RemoveEntry(d)
    BY <1>2 DEF RemoveEntry, Without, Goto, SystemTypeOK, WorkMoves, Working,
                SpoolMoves
  <1>3. CASE \/ AcceptRefused(d) \/ ExecuteRaises(d) \/ Timeout(d)
             \/ Crash(d) \/ Shutdown(d)
    BY <1>3, ExitMoves DEF AcceptRefused, ExecuteRaises, Timeout, Crash,
                           Shutdown, SpoolMoves
  <1>4. CASE SpoolOutput(d)
    <2>1. HasToken(job[d].assignment) /\ job[d].token = 1
      BY <1>4 DEF SpoolOutput, At, TokenInv, Working
    <2>2. SpoolMoves
      BY <1>4, <2>1 DEF SpoolOutput, Insert, SpoolMoves
    <2>. QED  BY <1>4, <2>2, ExitMoves DEF SpoolOutput
  <1>5. ASSUME NEW kind \in {"succeeded", "failed"}, Execute(d, kind)
        PROVE  WorkMoves(d) /\ SpoolMoves
    <2>1. /\ phase[d] = "execute"
          /\ phase'[d] = "progress"
          /\ spool' = spool
      BY <1>5 DEF Execute, At, Goto, SystemTypeOK
    <2>2. /\ job'[d].assignment = job[d].assignment
          /\ job'[d].token = job[d].token
      BY <1>5 DEF Execute, SystemTypeOK, Job
    <2>. QED  BY <2>1, <2>2 DEF WorkMoves, Working, SpoolMoves
  <1>6. ASSUME NEW asg \in AssignmentIds, PollAssignment(d, asg)
        PROVE  WorkMoves(d) /\ SpoolMoves
    <2>1. /\ phase'[d] = "accept"
          /\ job'[d].assignment = asg
          /\ spool' = spool
          /\ IsOurs(asg)
      BY <1>6, JobTyped
      DEF PollAssignment, Pollable, IsOurs, Goto, SystemTypeOK
    <2>. QED  BY <2>1 DEF WorkMoves, Working, SpoolMoves
  <1>. QED  BY <1>1, <1>2, <1>3, <1>4, <1>5, <1>6 DEF LocalAction

\* So do answers; that of accept hands out the token.
LEMMA AnswerWork ==
    ASSUME Core, Core', [Next]_vars, SystemTypeOK, CallInv, TokenInv,
           NEW d \in Daemons, NEW h \in Handlers,
           AnswerAction(d, h)
    PROVE  WorkMoves(d) /\ spool' = spool
  <1>1. CASE Accepted(d, h)
    <2> DEFINE asg == job[d].assignment
    <2>1. /\ phase[d] = "accept"
          /\ grants'[asg] = 1
          /\ job'[d].assignment = asg
          /\ job'[d].token = 1
      BY <1>1, TokenJobs, AcceptedFacts
    <2>2. asg \in DOMAIN assignments' /\ assignments'[asg].worker = Worker
      BY <2>1, StepKeepsIdentity
      DEF TokenInv, IsOurs, Core, KeepsIdentity
    <2>3. HasToken(job[d].assignment)'
      BY <2>1, <2>2 DEF HasToken
    <2>4. phase'[d] = "execute" /\ spool' = spool
      BY <1>1 DEF Accepted, Goto, SystemTypeOK
    <2>. QED  BY <2>1, <2>3, <2>4 DEF WorkMoves
  <1>2. CASE Progressed(d, h)
    <2>1. phase[d] = "progress"
      BY <1>2 DEF Progressed, CommitProgress, Waits, CallInv
    <2>. QED
      BY <1>2, <2>1 DEF Progressed, Goto, SystemTypeOK, WorkMoves, Working
  <1>3. CASE Submitted(d, h)
    BY <1>3 DEF Submitted, Goto, SystemTypeOK, WorkMoves, Working
  <1>4. CASE SubmittedWithError(d, h) \/ Conflict(d, h) \/ ServerError(d, h)
    <2>1. ErrorAnswer(d) /\ spool' = spool
      BY <1>4 DEF SubmittedWithError, Conflict, ServerError
    <2>2. CASE phase[d] = "submit"
      BY <2>1, <2>2 DEF ErrorAnswer, Goto, SystemTypeOK, WorkMoves, Working
    <2>3. CASE phase[d] # "submit"
      BY <2>1, <2>3, ExitMoves DEF ErrorAnswer
    <2>. QED  BY <2>1, <2>2, <2>3
  <1>. QED  BY <1>1, <1>2, <1>3, <1>4 DEF AnswerAction

\* Every step keeps TokenInv.
LEMMA StepTokens ==
    ASSUME Core, Core', [Next]_vars, SystemTypeOK, CallInv, TokenInv,
           [SystemNext]_systemVars
    PROVE  TokenInv'
  <1> USE StaysMoves, TokenFrame
  <1>1. CASE UNCHANGED daemonVars
    BY <1>1 DEF daemonVars, SpoolMoves
  <1>2. ASSUME NEW d \in Daemons, WorkMoves(d), SpoolMoves,
               \A e \in Daemons \ {d} :
                  phase'[e] = phase[e] /\ job'[e] = job[e]
        PROVE  TokenInv'
    BY <1>2
  <1>3. ASSUME NEW d \in Daemons, NEW h \in Handlers,
               SendAction(d, h)
        PROVE  TokenInv'
    <2>1. phase' = phase /\ spool' = spool
      BY <1>3 DEF SendAction, SendReplay, SendAccept, SendProgress, SendSubmit
    <2>2. CASE job' = job
      BY <2>1, <2>2 DEF SpoolMoves
    <2>3. ASSUME NEW asg \in AssignmentIds, SendReplay(d, h, asg)
          PROVE  TokenInv'
      <3>1. phase'[d] = "replay"
        BY <2>1, <2>3 DEF SendReplay, At
      <3>2. WorkMoves(d) /\ SpoolMoves
        BY <2>1, <3>1 DEF WorkMoves, Working, SpoolMoves
      <3>3. \A e \in Daemons \ {d} : phase'[e] = phase[e] /\ job'[e] = job[e]
        BY <2>1, <2>3 DEF SendReplay, SystemTypeOK
      <3>. QED  BY <1>2, <3>2, <3>3
    <2>. QED
      BY <1>3, <2>2, <2>3 DEF SendAction, SendAccept, SendProgress, SendSubmit
  <1>4. ASSUME NEW h \in Handlers, UnreadAnswer(h) \/ HostNext(h)
        PROVE  UNCHANGED daemonVars
    BY <1>4 DEF UnreadAnswer, HostNext
  <1>5. UNCHANGED systemVars => UNCHANGED daemonVars
    BY DEF systemVars
  <1>6. ASSUME NEW d \in Daemons, NEW h \in Handlers,
               AnswerAction(d, h)
        PROVE  TokenInv'
    BY <1>2, <1>6, AnswerMoves, AnswerWork DEF SpoolMoves
  <1>7. ASSUME NEW d \in Daemons,
               LocalAction(d)
        PROVE  TokenInv'
    BY <1>2, <1>7, LocalMoves, LocalWork
  <1>. QED  BY <1>1, <1>3, <1>4, <1>5, <1>6, <1>7, SystemSplit

-----------------------------------------------------------------------------
(* Executions *)

\* Two daemons never execute one assignment, nobody executes what has been
\* executed, and what has been executed had its token.
ExecInv ==
    /\ \A asg \in AssignmentIds :
          executed[asg] = 0 \/ (executed[asg] = 1 /\ grants[asg] = 1)
    /\ \A d \in Daemons : phase[d] = "execute" =>
          /\ executed[job[d].assignment] = 0
          /\ \A e \in Daemons \ {d} :
                phase[e] = "execute" => job[e].assignment # job[d].assignment

\* A step that neither grants a token nor executes keeps ExecInv.
LEMMA ExecFrame ==
    ASSUME Core, Core', [Next]_vars, ExecInv, executed' = executed,
           \A e \in Daemons : phase'[e] = "execute" =>
               phase[e] = "execute" /\ job'[e].assignment = job[e].assignment
    PROVE  ExecInv'
  <1>1. ASSUME NEW asg \in AssignmentIds, grants[asg] = 1
        PROVE  grants'[asg] = 1
    <2>1. grants'[asg] >= 1 /\ grants'[asg] <= 1 /\ grants'[asg] \in Nat
      BY <1>1, GrantsGrow DEF Core, LeaseInv, Typed, TypeOK
    <2>. QED  BY <2>1
  <1>. QED  BY <1>1 DEF ExecInv

\* An execution uses up the right to execute.
LEMMA ExecuteOnce ==
    ASSUME Core, SystemTypeOK, TokenInv, ExecInv, NEW d \in Daemons,
           phase[d] = "execute", phase'[d] # "execute", grants' = grants,
           executed' = [executed EXCEPT ![job[d].assignment] = @ + 1],
           \A e \in Daemons \ {d} : phase'[e] = phase[e] /\ job'[e] = job[e]
    PROVE  ExecInv'
  <1> DEFINE asg == job[d].assignment
  <1>1. asg \in AssignmentIds /\ grants[asg] = 1 /\ executed[asg] = 0
    BY DEF TokenInv, Working, HasToken, Core, Typed, TypeOK, IsTable, ExecInv
  <1>2. /\ executed'[asg] = 1
        /\ \A b \in AssignmentIds \ {asg} : executed'[b] = executed[b]
    BY <1>1 DEF SystemTypeOK
  <1>3. \A e \in Daemons : phase'[e] = "execute" =>
           /\ e # d
           /\ phase[e] = "execute"
           /\ job'[e] = job[e]
           /\ job[e].assignment \in AssignmentIds
           /\ job[e].assignment # asg
    BY DEF TokenInv, Working, HasToken, Core, Typed, TypeOK, IsTable, ExecInv
  <1> HIDE DEF asg
  <1>. QED  BY <1>1, <1>2, <1>3 DEF ExecInv

\* The winner of accept is the first to execute.
LEMMA AcceptedExec ==
    ASSUME Core, Core', [Next]_vars, SystemTypeOK, CallInv, TokenInv, ExecInv,
           NEW d \in Daemons, NEW h \in Handlers, Accepted(d, h)
    PROVE  ExecInv'
  <1> DEFINE asg == job[d].assignment
  <1>1. /\ asg \in AssignmentIds
        /\ grants[asg] = 0
        /\ job'[d].assignment = asg
    BY TokenJobs, AcceptedFacts
  <1>2. executed[asg] = 0 /\ executed' = executed
    BY <1>1 DEF ExecInv, Accepted
  <1>3. \A e \in Daemons \ {d} : /\ phase'[e] = phase[e]
                                 /\ job'[e] = job[e]
                                 /\ phase[e] = "execute" =>
                                       job[e].assignment # asg
    BY <1>1, AnswerMoves DEF AnswerAction, TokenInv, Working, HasToken
  <1>4. \A b \in AssignmentIds : grants[b] = 1 => grants'[b] = 1
    BY GrantsGrow DEF Core, LeaseInv, Typed, TypeOK
  <1> HIDE DEF asg
  <1>. QED  BY <1>1, <1>2, <1>3, <1>4 DEF ExecInv

\* Every step keeps ExecInv.
LEMMA StepExec ==
    ASSUME Core, Core', [Next]_vars, SystemTypeOK, CallInv, TokenInv, ExecInv,
           [SystemNext]_systemVars
    PROVE  ExecInv'
  <1>1. ASSUME NEW d \in Daemons, executed' = executed,
               phase'[d] # "execute",
               \A e \in Daemons \ {d} :
                  phase'[e] = phase[e] /\ job'[e] = job[e]
        PROVE  ExecInv'
    BY <1>1, ExecFrame
  <1>2. CASE UNCHANGED daemonVars
    BY <1>2, ExecFrame DEF daemonVars
  <1>3. ASSUME NEW d \in Daemons,
               \/ Start(d) \/ RemoveEntry(d) \/ ReplayDone(d)
               \/ PollNothing(d) \/ NextRound(d) \/ AcceptRefused(d)
               \/ SpoolOutput(d) \/ Timeout(d) \/ Crash(d) \/ Shutdown(d)
               \/ \E asg \in AssignmentIds : PollAssignment(d, asg)
        PROVE  ExecInv'
    <2>1. executed' = executed /\ phase'[d] # "execute"
      BY <1>3
      DEF Start, RemoveEntry, ReplayDone, PollNothing, NextRound,
          AcceptRefused, SpoolOutput, Timeout, Crash, Shutdown,
          PollAssignment, Exit, Goto, SystemTypeOK
    <2>. QED  BY <1>1, <1>3, <2>1, LocalMoves DEF LocalAction
  <1>4. ASSUME NEW d \in Daemons,
               \/ ExecuteRaises(d)
               \/ \E kind \in {"succeeded", "failed"} : Execute(d, kind)
        PROVE  ExecInv'
    <2>1. /\ phase[d] = "execute"
          /\ phase'[d] # "execute"
          /\ grants' = grants
          /\ executed' = [executed EXCEPT ![job[d].assignment] = @ + 1]
      BY <1>4 DEF ExecuteRaises, Execute, At, Exit, Goto, SystemTypeOK, vars
    <2>. QED  BY <1>4, <2>1, LocalMoves, ExecuteOnce DEF LocalAction
  <1>5. ASSUME NEW d \in Daemons, NEW h \in Handlers,
               \/ Progressed(d, h) \/ Submitted(d, h)
               \/ SubmittedWithError(d, h) \/ Conflict(d, h)
               \/ ServerError(d, h)
        PROVE  ExecInv'
    <2>1. executed' = executed
      BY <1>5 DEF Progressed, Submitted, SubmittedWithError, Conflict,
                  ServerError
    <2>2. CASE Progressed(d, h) \/ Submitted(d, h)
      <3>1. phase'[d] # "execute"
        BY <2>2 DEF Progressed, Submitted, Goto, SystemTypeOK
      <3>. QED  BY <1>1, <1>5, <2>1, <3>1, AnswerMoves DEF AnswerAction
    <2>3. CASE \/ SubmittedWithError(d, h) \/ Conflict(d, h)
               \/ ServerError(d, h)
      <3>1. ErrorAnswer(d)
        BY <2>3 DEF SubmittedWithError, Conflict, ServerError
      <3>2. phase'[d] # "execute"
        BY <3>1 DEF ErrorAnswer, Exit, Goto, SystemTypeOK
      <3>. QED  BY <1>1, <1>5, <2>1, <3>2, AnswerMoves DEF AnswerAction
    <2>. QED  BY <1>5, <2>2, <2>3
  <1>6. ASSUME NEW d \in Daemons, NEW h \in Handlers,
               SendAction(d, h)
        PROVE  ExecInv'
    <2>1. phase' = phase /\ executed' = executed /\ phase[d] # "execute"
      BY <1>6
      DEF SendAction, SendReplay, SendAccept, SendProgress, SendSubmit, At
    <2>2. \A e \in Daemons \ {d} : job'[e] = job[e]
      BY <1>6 DEF SendAction, SendReplay, SendAccept, SendProgress, SendSubmit,
                  SystemTypeOK
    <2>. QED  BY <1>1, <2>1, <2>2
  <1>7. ASSUME NEW h \in Handlers, UnreadAnswer(h) \/ HostNext(h)
        PROVE  UNCHANGED daemonVars
    BY <1>7 DEF UnreadAnswer, HostNext
  <1>8. UNCHANGED systemVars => UNCHANGED daemonVars
    BY DEF systemVars
  <1>. QED
    BY <1>2, <1>3, <1>4, <1>5, <1>6, <1>7, <1>8, SystemSplit, AcceptedExec
    DEF LocalAction, AnswerAction

-----------------------------------------------------------------------------
(* Theorems *)

\* The inductive invariant of the composition.
SystemInv == Core /\ SystemTypeOK /\ CallInv /\ TokenInv /\ ExecInv

\* It holds when no daemon has been started.
LEMMA SystemInitInv == SystemInit => SystemInv
  <1> SUFFICES ASSUME SystemInit PROVE SystemInv
    OBVIOUS
  <1>1. Core
    BY InitTyped DEF SystemInit, Init, LeaseInv, Idle, Core
  <1>2. SystemTypeOK
    <2>1. NoJob \in Job /\ IsTable(NoFiles, AssignmentIds, Nat)
      BY DEF NoJob, Job, ResultKinds, NoFiles, IsTable
    <2>2. 0 \in 0 .. MaxFaults
      BY DaemonAssumption
    <2>. QED  BY <2>1, <2>2 DEF SystemInit, SystemTypeOK, Phases
  <1>3. CallInv /\ TokenInv /\ ExecInv
    BY DEF SystemInit, CallInv, TokenInv, ExecInv, Working, NoFiles
  <1>. QED  BY <1>1, <1>2, <1>3 DEF SystemInv

\* Every step keeps it and is a step of the scheduler.
LEMMA SystemStepInv ==
    SystemInv /\ [SystemNext]_systemVars => SystemInv' /\ [Next]_vars
  <1> SUFFICES ASSUME SystemInv, [SystemNext]_systemVars
               PROVE  SystemInv' /\ [Next]_vars
    OBVIOUS
  <1>1. [Next]_vars
    BY SystemStepIsStep DEF SystemInv, SystemTypeOK
  <1>2. Core'
    BY <1>1, StepTyped, StepLease DEF SystemInv, Core
  <1>3. SystemTypeOK' /\ CallInv' /\ TokenInv' /\ ExecInv'
    BY <1>1, <1>2, TokenJobs, SystemStepTyped, StepCalls, StepTokens, StepExec
    DEF SystemInv
  <1>. QED  BY <1>1, <1>2, <1>3 DEF SystemInv

\* Daemons send only requests the scheduler takes and every answer is one it
\* gives: the composition behaves like the scheduler of Scheduler, so that
\* its theorems hold here.
THEOREM SystemIsScheduler == SystemSpec => Spec
  <1>1. SystemInit => Init
    BY DEF SystemInit
  <1>. QED
    BY <1>1, SystemInitInv, SystemStepInv, PTL DEF SystemSpec, Spec

\* Types of the daemons, the spool and the counters.
THEOREM SystemTypes == SystemSpec => []SystemTypeOK
  <1>1. SystemInv => SystemTypeOK
    BY DEF SystemInv
  <1>. QED  BY <1>1, SystemInitInv, SystemStepInv, PTL DEF SystemSpec

\* However many daemons share a worker id, whatever answers are lost and
\* whenever they end, no assignment is executed twice.
THEOREM ExecutesOnce == SystemSpec => []ExecutedOnce
  <1>1. SystemInv => ExecutedOnce
    BY DEF SystemInv, ExecInv, ExecutedOnce
  <1>. QED  BY <1>1, SystemInitInv, SystemStepInv, PTL DEF SystemSpec

\* A file of the spool carries the token of its assignment for as long as it
\* is there: submit_result does not refuse its replay.
THEOREM SpoolStaysAcceptable == SystemSpec => []SpoolAcceptable
  <1>1. SystemInv => SpoolAcceptable
    BY DEF SystemInv, Core, LeaseInv, TokenInv, HasToken, SpoolAcceptable,
           VerifyLeaseToken
  <1>. QED  BY <1>1, SystemInitInv, SystemStepInv, PTL DEF SystemSpec

-----------------------------------------------------------------------------
(* Replays *)

\* A daemon that replays waits for the submission of the entry it works on,
\* and goes to remove an entry only when a result of it is recorded.
ReplayInv ==
    \A d \in Daemons :
        /\ \A h \in call[d] :
              phase[d] = "replay" => req[h].assignment = job[d].assignment
        /\ phase[d] = "remove" => HasResult(job[d].assignment)

\* What a step may do to the replay of a daemon.
ReplayMoves(d) ==
    \/ /\ phase'[d] = phase[d] /\ job'[d] = job[d] /\ call'[d] = call[d]
       /\ \A h \in call[d] : req'[h] = req[h]
    \/ phase'[d] # "remove" /\ call'[d] = {}
    \/ /\ phase'[d] \notin {"remove", "replay"}
    \/ /\ phase'[d] = "replay"
       /\ \A h \in call'[d] : req'[h].assignment = job'[d].assignment
    \/ /\ call'[d] = {}
       /\ \E r \in results' : r.assignment = job'[d].assignment

\* Steps that move every replay this way keep ReplayInv: no result is deleted.
LEMMA ReplayFrame ==
    ASSUME Core, [Next]_vars, SystemTypeOK, ReplayInv, \A d \in Daemons : ReplayMoves(d)
    PROVE  ReplayInv'
  <1>1. results \subseteq results'
    BY StepKeepsIdentity DEF Core, KeepsIdentity
  <1>2. ASSUME NEW asg, HasResult(asg) PROVE HasResult(asg)'
    BY <1>1, <1>2 DEF HasResult
  <1> SUFFICES ASSUME NEW d \in Daemons
               PROVE  /\ \A h \in call'[d] :
                            phase'[d] = "replay" => req'[h].assignment = job'[d].assignment
                      /\ phase'[d] = "remove" => HasResult(job[d].assignment)'
    BY DEF ReplayInv
  <1>3. CASE /\ phase'[d] = phase[d] /\ job'[d] = job[d] /\ call'[d] = call[d]
             /\ \A h \in call[d] : req'[h] = req[h]
    <2>1. phase[d] = "remove" => HasResult(job[d].assignment)'
      <3> SUFFICES ASSUME phase[d] = "remove" PROVE HasResult(job[d].assignment)'
        OBVIOUS
      <3>1. \E r \in results : r.assignment = job[d].assignment
        BY DEF ReplayInv, HasResult
      <3> QED  BY <1>1, <1>3, <3>1 DEF HasResult
    <2>2. \A h \in call'[d] :
              phase'[d] = "replay" => req'[h].assignment = job'[d].assignment
      BY <1>3 DEF ReplayInv
    <2> QED  BY <1>3, <2>1, <2>2
  <1>4. CASE \/ phase'[d] # "remove" /\ call'[d] = {}
             \/ phase'[d] \notin {"remove", "replay"}
             \/ /\ phase'[d] = "replay"
                /\ \A h \in call'[d] : req'[h].assignment = job'[d].assignment
             \/ /\ call'[d] = {}
                /\ \E r \in results' : r.assignment = job'[d].assignment
    BY <1>4 DEF HasResult
  <1> QED  BY <1>3, <1>4 DEF ReplayMoves

\* Between two requests no daemon goes to remove an entry.
LEMMA LocalReplay ==
    ASSUME SystemTypeOK, NEW d \in Daemons, LocalAction(d)
    PROVE  phase'[d] # "remove"
  <1>1. CASE \/ AcceptRefused(d) \/ SpoolOutput(d) \/ ExecuteRaises(d)
             \/ Timeout(d) \/ Crash(d) \/ Shutdown(d)
    <2>1. Exit(d)
      BY <1>1 DEF AcceptRefused, SpoolOutput, ExecuteRaises, Timeout, Crash, Shutdown
    <2> QED  BY <2>1 DEF Exit, Goto, SystemTypeOK
  <1>2. CASE \/ Start(d) \/ RemoveEntry(d) \/ ReplayDone(d)
             \/ PollNothing(d) \/ NextRound(d)
    BY <1>2 DEF Start, RemoveEntry, ReplayDone, PollNothing, NextRound, Goto,
                SystemTypeOK
  <1>3. ASSUME \/ \E kind \in {"succeeded", "failed"} : Execute(d, kind)
               \/ \E asg \in AssignmentIds : PollAssignment(d, asg)
        PROVE  phase'[d] # "remove"
    BY <1>3 DEF Execute, PollAssignment, Goto, SystemTypeOK
  <1> QED  BY <1>1, <1>2, <1>3 DEF LocalAction

\* A replay goes on with the entry it listed.
LEMMA SendsReplay ==
    ASSUME Core, SystemTypeOK, CallInv, NEW d \in Daemons, NEW h \in Handlers,
           SendAction(d, h)
    PROVE  \A e \in Daemons : ReplayMoves(e)
  <1>1. /\ req[h].op = "idle"
        /\ \E r : Serve(h, r)
        /\ call' = [call EXCEPT ![d] = {h}]
        /\ phase' = phase
        /\ \A e \in Daemons \ {d} : job'[e] = job[e]
    BY DEF SendAction, SendReplay, SendAccept, SendProgress, SendSubmit, StartSubmit,
           StartAccept, StartProgress, IsIdle, Send, SystemTypeOK
  <1>2. \A e \in Daemons : h \notin call[e]
    BY <1>1 DEF CallInv
  <1>3. \A g \in Handlers \ {h} : req'[g] = req[g]
    BY <1>1, OneHandler DEF Core
  <1>4. call'[d] = {h} /\ \A e \in Daemons \ {d} : call'[e] = call[e]
    BY <1>1 DEF SystemTypeOK
  <1>5. \A e \in Daemons : call[e] \subseteq Handlers
    BY DEF SystemTypeOK
  <1>6. ASSUME NEW e \in Daemons \ {d} PROVE ReplayMoves(e)
    BY <1>1, <1>2, <1>3, <1>4, <1>5 DEF ReplayMoves
  <1>7. ReplayMoves(d)
    <2>1. ASSUME NEW asg \in AssignmentIds, SendReplay(d, h, asg)
          PROVE  ReplayMoves(d)
      <3>1. phase'[d] = "replay" /\ job'[d].assignment = asg
        BY <1>1, <2>1, JobTyped DEF SendReplay, At, SystemTypeOK
      <3>2. req'[h].assignment = asg
        BY <2>1 DEF SendReplay, StartSubmit, Serve, Core, Typed, TypeOK
      <3> QED  BY <1>4, <3>1, <3>2 DEF ReplayMoves
    <2>2. CASE SendAccept(d, h) \/ SendProgress(d, h) \/ SendSubmit(d, h)
      BY <1>1, <2>2 DEF SendAccept, SendProgress, SendSubmit, At, ReplayMoves
    <2> QED  BY <2>1, <2>2 DEF SendAction
  <1> QED  BY <1>6, <1>7

\* Only the answer to a replayed submission leads to the removal, and it comes
\* with the result.
LEMMA AnswersReplay ==
    ASSUME Core, SystemTypeOK, CallInv, ReplayInv, NEW d \in Daemons, NEW h \in Handlers,
           AnswerAction(d, h)
    PROVE  \A e \in Daemons : ReplayMoves(e)
  <1>1. /\ h \in call[d] /\ call'[d] = {}
        /\ \A e \in Daemons \ {d} : /\ phase'[e] = phase[e]
                                    /\ job'[e] = job[e]
                                    /\ call'[e] = call[e]
    BY AnswerMoves
  <1>2. \A e \in Daemons \ {d} : h \notin call[e]
    BY <1>1 DEF CallInv
  <1>3. Done(h)
    BY AnswerIsStep DEF CommitAccept, CommitProgress, CommitSubmit, RequestFails
  <1>4. \A g \in Handlers \ {h} : req'[g] = req[g]
    BY <1>3, OneHandler DEF Core
  <1>5. \A e \in Daemons : call[e] \subseteq Handlers
    BY DEF SystemTypeOK
  <1>6. ASSUME NEW e \in Daemons \ {d} PROVE ReplayMoves(e)
    BY <1>1, <1>2, <1>4, <1>5 DEF ReplayMoves
  <1>7. ReplayMoves(d)
    <2>1. CASE Submitted(d, h) /\ phase[d] = "replay"
      <3>1. job' = job /\ req[h].assignment = job[d].assignment
        BY <1>1, <2>1 DEF Submitted, ReplayInv
      <3>2. PICK n : CommitSubmit(h, n)
        BY <2>1 DEF Submitted
      <3> DEFINE new == [assignment |-> req[h].assignment, kind |-> req[h].kind, n |-> n,
                         status |-> ResultStatus(req[h].kind, req[h].late)]
      <3>3. new \in results' /\ new.assignment = req[h].assignment
        BY <3>2 DEF CommitSubmit
      <3> HIDE DEF new
      <3> QED  BY <1>1, <3>1, <3>3 DEF ReplayMoves
    <2>2. CASE Submitted(d, h) /\ phase[d] # "replay"
      BY <2>2 DEF Submitted, Goto, SystemTypeOK, ReplayMoves
    <2>3. CASE Accepted(d, h) \/ Progressed(d, h)
      BY <2>3 DEF Accepted, Progressed, Goto, SystemTypeOK, ReplayMoves
    <2>4. CASE SubmittedWithError(d, h) \/ Conflict(d, h) \/ ServerError(d, h)
      <3>1. ErrorAnswer(d)
        BY <2>4 DEF SubmittedWithError, Conflict, ServerError
      <3>2. phase'[d] \in {"spool", "down"}
        BY <3>1 DEF ErrorAnswer, Exit, Goto, SystemTypeOK
      <3> QED  BY <3>2 DEF ReplayMoves
    <2> QED  BY <2>1, <2>2, <2>3, <2>4 DEF AnswerAction
  <1> QED  BY <1>6, <1>7

LEMMA StepReplay ==
    ASSUME SystemInv, ReplayInv, [Next]_vars, [SystemNext]_systemVars
    PROVE  ReplayInv'
  <1>0. Core /\ SystemTypeOK /\ CallInv
    BY DEF SystemInv
  <1>1. SUFFICES \A e \in Daemons : ReplayMoves(e)
    BY <1>0, ReplayFrame
  <1>2. CASE UNCHANGED <<req, daemonVars>>
    BY <1>2 DEF daemonVars, ReplayMoves
  <1>3. ASSUME NEW h \in Handlers, UnreadAnswer(h) \/ HostNext(h)
        PROVE  \A e \in Daemons : ReplayMoves(e)
    <2>1. CASE UnreadAnswer(h)
      <3>1. Done(h) /\ UNCHANGED daemonVars /\ \A e \in Daemons : h \notin call[e]
        BY <2>1 DEF UnreadAnswer, CommitAccept, CommitProgress, CommitSubmit, RequestFails,
                    Waits
      <3>2. \A g \in Handlers \ {h} : req'[g] = req[g]
        BY <1>0, <3>1, OneHandler DEF Core
      <3>3. \A e \in Daemons : \A g \in call[e] : req'[g] = req[g]
        BY <1>0, <3>1, <3>2 DEF SystemTypeOK
      <3> QED  BY <3>1, <3>3 DEF daemonVars, ReplayMoves
    <2>2. CASE HostNext(h)
      <3>1. \A e \in Daemons : \A g \in call[e] : req'[g] = req[g]
        BY <1>0, <2>2, HostAlone DEF SystemTypeOK
      <3>2. UNCHANGED daemonVars
        BY <1>0, <2>2, HostAlone
      <3> QED  BY <3>1, <3>2 DEF daemonVars, ReplayMoves
    <2> QED  BY <1>3, <2>1, <2>2
  <1>4. ASSUME NEW d \in Daemons, LocalAction(d)
        PROVE  \A e \in Daemons : ReplayMoves(e)
    <2>1. req' = req
      BY <1>4, LocalStep DEF vars
    <2> QED  BY <1>0, <1>4, <2>1, LocalMoves, LocalReplay DEF ReplayMoves
  <1>5. UNCHANGED systemVars \/ (Tick /\ UNCHANGED daemonVars) =>
            UNCHANGED <<req, daemonVars>>
    BY DEF systemVars, vars, Tick
  <1> QED
    BY <1>0, <1>2, <1>3, <1>4, <1>5, SystemSplit, SendsReplay, AnswersReplay

\* However many daemons share the spool and whatever answers are lost, an
\* entry leaves it only when a result of its assignment is recorded.
THEOREM RemovalFollowsResult == SystemSpec => RemovedOnlyWhenRecorded
  <1> DEFINE Kept == \A asg \in DOMAIN spool : asg \notin DOMAIN spool' => HasResult(asg)
  <1>1. SystemInit => ReplayInv
    BY DEF SystemInit, ReplayInv
  <1>2. SystemInv /\ ReplayInv /\ [SystemNext]_systemVars => ReplayInv'
    BY SystemStepInv, StepReplay
  <1>3. SystemInv /\ ReplayInv /\ [SystemNext]_systemVars => [Kept]_systemVars
    <2> SUFFICES ASSUME SystemInv, ReplayInv, [SystemNext]_systemVars,
                        NEW asg \in DOMAIN spool, asg \notin DOMAIN spool'
                 PROVE  HasResult(asg)
      OBVIOUS
    <2>1. spool' # spool
      OBVIOUS
    <2>2. PICK d \in Daemons : RemoveEntry(d) \/ SpoolOutput(d)
      <3>1. ASSUME NEW d \in Daemons, NEW h \in Handlers, SendAction(d, h)
            PROVE  spool' = spool
        BY <3>1 DEF SendAction, SendReplay, SendAccept, SendProgress, SendSubmit
      <3>2. ASSUME NEW d \in Daemons, NEW h \in Handlers, AnswerAction(d, h)
            PROVE  spool' = spool
        BY <3>2 DEF AnswerAction, Accepted, Progressed, Submitted, SubmittedWithError,
                    Conflict, ServerError
      <3>3. ASSUME NEW h \in Handlers, UnreadAnswer(h) \/ HostNext(h)
            PROVE  spool' = spool
        BY <3>3 DEF UnreadAnswer, HostNext, daemonVars
      <3>4. UNCHANGED systemVars \/ UNCHANGED daemonVars => spool' = spool
        BY DEF systemVars, daemonVars
      <3>5. ASSUME NEW d \in Daemons, LocalAction(d), spool' # spool
            PROVE  RemoveEntry(d) \/ SpoolOutput(d)
        BY <3>5 DEF LocalAction, Start, ReplayDone, PollNothing, NextRound, AcceptRefused,
                    ExecuteRaises, Timeout, Crash, Shutdown, Execute, PollAssignment
      <3> QED  BY <2>1, <3>1, <3>2, <3>3, <3>4, <3>5, SystemSplit
    <2>3. asg = job[d].assignment /\ phase[d] = "remove"
      BY <2>2 DEF RemoveEntry, SpoolOutput, Without, Insert, At
    <2> QED  BY <2>3 DEF ReplayInv
  <1> HIDE DEF Kept
  <1>4. SystemSpec => [][Kept]_systemVars
    BY <1>1, <1>2, <1>3, SystemInitInv, SystemStepInv, PTL DEF SystemSpec
  <1> QED  BY <1>4 DEF Kept, RemovedOnlyWhenRecorded

=============================================================================
