----------------------------- MODULE WorkerDaemon -----------------------------
(***************************************************************************)
(* The worker daemon (src/tokenbank/worker) composed with the scheduler.   *)
(*                                                                         *)
(* A daemon replays its spool, polls, accepts, executes, reports progress  *)
(* and submits, one HTTP request at a time.  A request is a request of     *)
(* Scheduler served by some handler; the daemon waits for the answer, which *)
(* may be an error or never come.  When the client gives up waiting, the   *)
(* handler does not: it may still commit, with nobody left to read its     *)
(* answer.  Every exception ends the daemon; only an HTTP error answer to  *)
(* the submission of a result is preceded by a write to the spool.  Daemons *)
(* are processes started with the same configuration, hence with one worker *)
(* id and one spool directory.                                             *)
(***************************************************************************)
EXTENDS Scheduler

CONSTANTS
    Daemons,       \* processes started with the configuration of Worker
    Worker,        \* its worker_id
    NoAssignment,  \* a daemon that handles nothing
    Faults,        \* kinds of faults that may happen
    MaxFaults      \* bound: faults

FaultKinds == {"timeout", "crash", "error", "raise"}

ASSUME DaemonAssumption ==
    /\ IsFiniteSet(Daemons)
    /\ Worker \in Workers
    /\ NoAssignment \notin AssignmentIds
    /\ Faults \subseteq FaultKinds
    /\ MaxFaults \in Nat

VARIABLES
    phase,     \* what each daemon does
    job,       \* the assignment it handles and what it was told about it
    call,      \* the handler whose answer it waits for, as a set
    replays,   \* the spool entries it has listed and not yet replayed
    spool,     \* files of the spool directory: token (hash) by assignment
    executed,  \* executions of each assignment
    faults     \* faults so far

daemonVars == <<phase, job, call, replays, spool, executed, faults>>
systemVars == <<vars, daemonVars>>

-----------------------------------------------------------------------------
Phases == {"down", "replay", "remove", "poll", "accept", "execute",
           "progress", "submit", "spool", "idle"}

Job == [assignment: AssignmentIds \cup {NoAssignment}, token: Nat,
        version: Nat, kind: ResultKinds]

NoJob == [assignment |-> NoAssignment, token |-> 0, version |-> 0,
          kind |-> "failed"]

JobOn(asg) == [NoJob EXCEPT !.assignment = asg]

NoFiles == [asg \in {} |-> 0]
Without(table, key) == [k \in DOMAIN table \ {key} |-> table[k]]

\* Type invariant of the daemons: where each is in its loop (run_once and
\* handle_assignment of worker/daemon.py), what it was told of its assignment,
\* and that the spool holds one file per assignment.
SystemTypeOK ==
    /\ phase \in [Daemons -> Phases]
    /\ job \in [Daemons -> Job]
    /\ call \in [Daemons -> SUBSET Handlers]
    /\ \A d \in Daemons : IsTable(replays[d], AssignmentIds, Nat)
    /\ IsTable(spool, AssignmentIds, Nat)
    /\ executed \in [AssignmentIds -> Nat]
    /\ faults \in 0 .. MaxFaults

SystemInit ==
    /\ Init
    /\ phase = [d \in Daemons |-> "down"]
    /\ job = [d \in Daemons |-> NoJob]
    /\ call = [d \in Daemons |-> {}]
    /\ replays = [d \in Daemons |-> NoFiles]
    /\ spool = NoFiles
    /\ executed = [asg \in AssignmentIds |-> 0]
    /\ faults = 0

-----------------------------------------------------------------------------
(* Helpers *)

At(d, p) == phase[d] = p /\ call[d] = {}
Goto(d, p) == phase' = [phase EXCEPT ![d] = p]
Send(d, h) == call' = [call EXCEPT ![d] = {h}]
EndCall(d) == call' = [call EXCEPT ![d] = {}]
Waits(d, h) == h \in call[d]

Fault(kind) ==
    /\ kind \in Faults
    /\ faults < MaxFaults
    /\ faults' = faults + 1

\* An exception leaves run(): the process ends and forgets what it held.
Exit(d) ==
    /\ Goto(d, "down")
    /\ EndCall(d)
    /\ job' = [job EXCEPT ![d] = NoJob]
    /\ replays' = [replays EXCEPT ![d] = NoFiles]

ErrorAnswer_RemovesEntry(d) ==
    IF phase[d] \in {"submit", "replay"}
    THEN /\ Goto(d, IF phase[d] = "submit" THEN "spool" ELSE "remove")
         /\ EndCall(d)
         /\ UNCHANGED <<job, replays>>
    ELSE Exit(d)

\* ControlPlaneRequestError: handle_assignment catches it around
\* submit_result, where it first writes the spool; elsewhere nobody does.
ErrorAnswer(d) ==
    IF phase[d] = "submit"
    THEN /\ Goto(d, "spool")
         /\ EndCall(d)
         /\ UNCHANGED <<job, replays>>
    ELSE Exit(d)

-----------------------------------------------------------------------------
(* The daemon *)

Start_NoReplay(d) ==
    /\ At(d, "down")
    /\ Goto(d, "poll")
    /\ UNCHANGED <<vars, job, call, replays, spool, executed, faults>>

\* A process is started: register, list the spool.
Start(d) ==
    /\ At(d, "down")
    /\ Goto(d, "replay")
    /\ replays' = [replays EXCEPT ![d] = spool]
    /\ UNCHANGED <<vars, job, call, spool, executed, faults>>

\* Submits a listed entry: the bare output with the hash of the token.  The
\* order is that of the file names, which are random ids.
SendReplay(d, h, asg) ==
    /\ At(d, "replay")
    /\ asg \in DOMAIN replays[d]
    /\ StartSubmit(h, asg, Worker, replays[d][asg], "replay")
    /\ Send(d, h)
    /\ job' = [job EXCEPT ![d] = JobOn(asg)]
    /\ UNCHANGED <<phase, replays, spool, executed, faults>>

\* The answer is here: the file goes.
RemoveEntry(d) ==
    LET asg == job[d].assignment IN
    /\ At(d, "remove")
    /\ spool' = Without(spool, asg)
    /\ replays' = [replays EXCEPT ![d] = Without(@, asg)]
    /\ job' = [job EXCEPT ![d] = NoJob]
    /\ Goto(d, "replay")
    /\ UNCHANGED <<vars, call, executed, faults>>

ReplayDone(d) ==
    /\ At(d, "replay")
    /\ DOMAIN replays[d] = {}
    /\ Goto(d, "poll")
    /\ UNCHANGED <<vars, job, call, replays, spool, executed, faults>>

\* The status poll_next_assignment selects.
PollableStatuses == {"created"}

Pollable(asg) ==
    /\ asg \in DOMAIN assignments
    /\ assignments[asg].worker = Worker
    /\ assignments[asg].status \in PollableStatuses

\* The code answers with the oldest such row; here it may be any of them.
PollAssignment(d, asg) ==
    /\ At(d, "poll")
    /\ Pollable(asg)
    /\ job' = [job EXCEPT ![d] = JobOn(asg)]
    /\ Goto(d, "accept")
    /\ UNCHANGED <<vars, call, replays, spool, executed, faults>>

PollNothing(d) ==
    /\ At(d, "poll")
    /\ \A asg \in AssignmentIds : ~ Pollable(asg)
    /\ Goto(d, "idle")
    /\ UNCHANGED <<vars, job, call, replays, spool, executed, faults>>

\* The pause between two rounds of run() is over: heartbeat, next poll.
NextRound(d) ==
    /\ At(d, "idle")
    /\ Goto(d, "poll")
    /\ UNCHANGED <<vars, job, call, replays, spool, executed, faults>>

\* SIGTERM is looked at between two rounds only; run_once has one round.
Shutdown(d) ==
    /\ At(d, "idle")
    /\ Exit(d)
    /\ UNCHANGED <<vars, spool, executed, faults>>

SendAccept(d, h) ==
    /\ At(d, "accept")
    /\ StartAccept(h, job[d].assignment, Worker)
    /\ Send(d, h)
    /\ UNCHANGED <<phase, job, replays, spool, executed, faults>>

\* Somebody else was faster: 409 before any transaction.
AcceptRefused(d) ==
    /\ At(d, "accept")
    /\ assignments[job[d].assignment].status \notin AcceptableStatuses
    /\ Exit(d)
    /\ UNCHANGED <<vars, spool, executed, faults>>

\* The adapter returns an envelope.
Execute(d, kind) ==
    LET asg == job[d].assignment IN
    /\ At(d, "execute")
    /\ kind \in {"succeeded", "failed"}
    /\ executed' = [executed EXCEPT ![asg] = @ + 1]
    /\ job' = [job EXCEPT ![d].kind = kind]
    /\ Goto(d, "progress")
    /\ UNCHANGED <<vars, call, replays, spool, faults>>

\* A forbidden backend, an adapter that raises, a full disk.
ExecuteRaises(d) ==
    /\ At(d, "execute")
    /\ Fault("raise")
    /\ executed' = [executed EXCEPT ![job[d].assignment] = @ + 1]
    /\ Exit(d)
    /\ UNCHANGED <<vars, spool>>

SendProgress(d, h) ==
    /\ At(d, "progress")
    /\ StartProgress(h, job[d].assignment, Worker, job[d].token, job[d].version)
    /\ Send(d, h)
    /\ UNCHANGED <<phase, job, replays, spool, executed, faults>>

SendSubmit(d, h) ==
    /\ At(d, "submit")
    /\ StartSubmit(h, job[d].assignment, Worker, job[d].token, job[d].kind)
    /\ Send(d, h)
    /\ UNCHANGED <<phase, job, replays, spool, executed, faults>>

\* ResultSpool.write_completed, then the exception goes on.
SpoolOutput(d) ==
    /\ At(d, "spool")
    /\ spool' = Insert(spool, job[d].assignment, job[d].token)
    /\ Exit(d)
    /\ UNCHANGED <<vars, executed, faults>>

\* No answer in time: an httpx exception, which nobody catches.  The handler
\* keeps the request.
Timeout(d) ==
    /\ call[d] # {}
    /\ Fault("timeout")
    /\ Exit(d)
    /\ UNCHANGED <<vars, spool, executed>>

\* The process ends, or a request does not get through, or register, heartbeat
\* or poll fails, which ends it too.
Crash(d) ==
    /\ phase[d] # "down"
    /\ Fault("crash")
    /\ Exit(d)
    /\ UNCHANGED <<vars, spool, executed>>

-----------------------------------------------------------------------------
(* Answers *)

Accepted(d, h) ==
    LET asg == job[d].assignment IN
    /\ Waits(d, h)
    /\ CommitAccept(h)
    /\ job' = [job EXCEPT ![d].token = grants'[asg],
                          ![d].version = assignments'[asg].lease_version]
    /\ Goto(d, "execute")
    /\ EndCall(d)
    /\ UNCHANGED <<replays, spool, executed, faults>>

Progressed_NextRound(d, h) ==
    /\ Waits(d, h)
    /\ CommitProgress(h)
    /\ Goto(d, "idle")
    /\ EndCall(d)
    /\ UNCHANGED <<job, replays, spool, executed, faults>>

Progressed(d, h) ==
    /\ Waits(d, h)
    /\ CommitProgress(h)
    /\ Goto(d, "submit")
    /\ EndCall(d)
    /\ UNCHANGED <<job, replays, spool, executed, faults>>

\* A fresh id for a replay, the hash of the content for an envelope.
NextResultNumber(h) ==
    IF req[h].kind = "replay"
    THEN 1 + Cardinality({r \in results : /\ r.assignment = req[h].assignment
                                          /\ r.kind = "replay"})
    ELSE 0

Submitted(d, h) ==
    /\ Waits(d, h)
    /\ CommitSubmit(h, NextResultNumber(h))
    /\ Goto(d, IF phase[d] = "replay" THEN "remove" ELSE "idle")
    /\ EndCall(d)
    /\ job' = IF phase[d] = "replay" THEN job ELSE [job EXCEPT ![d] = NoJob]
    /\ UNCHANGED <<replays, spool, executed, faults>>

\* The result is recorded and the verification that follows in the same
\* request raises: the answer is an error.
SubmittedWithError(d, h) ==
    /\ Waits(d, h)
    /\ CommitSubmit(h, NextResultNumber(h))
    /\ Fault("error")
    /\ ErrorAnswer(d)
    /\ UNCHANGED <<spool, executed>>

\* The lease_version of the row is not the one the request expects.
Conflicts(h) ==
    \/ req[h].op = "accept" /\ ~ LeaseVersionMatches(req[h].assignment, 0)
    \/ /\ req[h].op = "progress"
       /\ ~ LeaseVersionMatches(req[h].assignment, req[h].expected)

Conflict(d, h) ==
    /\ Waits(d, h)
    /\ Conflicts(h)
    /\ RequestFails(h)
    /\ ErrorAnswer(d)
    /\ UNCHANGED <<spool, executed, faults>>

\* A locked database, a refused BEGIN, any other exception in the handler.
ServerError(d, h) ==
    /\ Waits(d, h)
    /\ RequestFails(h)
    /\ Fault("error")
    /\ ErrorAnswer(d)
    /\ UNCHANGED <<spool, executed>>

\* The handler of a daemon that no longer waits.
UnreadAnswer(h) ==
    /\ \A d \in Daemons : ~ Waits(d, h)
    /\ \/ CommitAccept(h)
       \/ CommitProgress(h)
       \/ req[h].op = "submit" /\ CommitSubmit(h, NextResultNumber(h))
       \/ Conflicts(h) /\ RequestFails(h)
    /\ UNCHANGED daemonVars

-----------------------------------------------------------------------------
(* The rest of the control plane.  Rows are created one at a time and only  *)
(* while the pools of ids last; Scheduler has the races between them.       *)

NoneServes(op) == \A h \in Handlers : req[h].op # op

HostStarts(h) ==
    \/ \E w \in WorkUnits : StartFirstAttempt(h, w)
    \/ \E a \in AttemptIds :
          /\ NoneServes("create_attempt")
          /\ AttemptIds \ DOMAIN attempts # {}
          /\ ScheduleRetry(h, a)
    \/ \E a \in AttemptIds :
          /\ NoneServes("assign")
          /\ AssignmentIds \ DOMAIN assignments # {}
          /\ StartAssign(h, a, Worker)
    \/ StartSweep(h)

HostCommits(h) ==
    \/ \E a \in AttemptIds : CommitAttempt(h, a)
    \/ \E asg \in AssignmentIds : CommitAssign(h, asg)
    \/ CommitSweep(h)

HostNext(h) == (HostStarts(h) \/ HostCommits(h)) /\ UNCHANGED daemonVars

DaemonStep(d) ==
    \/ Start(d)
    \/ RemoveEntry(d)
    \/ ReplayDone(d)
    \/ PollNothing(d)
    \/ NextRound(d)
    \/ AcceptRefused(d)
    \/ SpoolOutput(d)
    \/ \E kind \in {"succeeded", "failed"} : Execute(d, kind)
    \/ \E asg \in AssignmentIds : PollAssignment(d, asg)
    \/ \E h \in Handlers :
          \/ \E asg \in AssignmentIds : SendReplay(d, h, asg)
          \/ SendAccept(d, h)
          \/ SendProgress(d, h)
          \/ SendSubmit(d, h)

Answer(h) ==
    \/ UnreadAnswer(h)
    \/ \E d \in Daemons :
          \/ Accepted(d, h)
          \/ Progressed(d, h)
          \/ Submitted(d, h)
          \/ Conflict(d, h)

FaultStep(d) ==
    \/ ExecuteRaises(d)
    \/ Timeout(d)
    \/ Crash(d)
    \/ \E h \in Handlers : SubmittedWithError(d, h) \/ ServerError(d, h)

SystemNext ==
    \/ \E d \in Daemons : DaemonStep(d) \/ FaultStep(d) \/ Shutdown(d)
    \/ \E h \in Handlers : Answer(h) \/ HostNext(h)
    \/ Tick /\ UNCHANGED daemonVars

SystemSpec == SystemInit /\ [][SystemNext]_systemVars

\* The loop of a daemon goes on and a daemon that ended is started again; a
\* handler finishes what it serves.  Nothing is assumed of the host, of the
\* sweeper, of the clock or of faults.
FairSystemSpec ==
    /\ SystemSpec
    /\ \A d \in Daemons : WF_systemVars(DaemonStep(d))
    /\ \A h \in Handlers : WF_systemVars(Answer(h) \/ (HostCommits(h) /\ UNCHANGED daemonVars))

-----------------------------------------------------------------------------
(* Properties *)

\* No assignment is executed twice, by however many daemons, whatever answers
\* are lost and whenever processes end: the lease stands between poll and
\* execution.
ExecutedOnce == \A asg \in AssignmentIds : executed[asg] <= 1

\* A spooled result stays acceptable: its token is the one the assignment is
\* leased under, whatever has happened to the lease since, so that
\* submit_result never refuses a replay and one entry cannot block the others
\* behind it for good.
SpoolAcceptable ==
    \A asg \in DOMAIN spool :
        /\ asg \in DOMAIN assignments
        /\ assignments[asg].worker = Worker
        /\ VerifyLeaseToken(assignments[asg].lease_token, spool[asg])

HasResult(asg) == \E r \in results : r.assignment = asg

\* An entry leaves the spool only when a result of its assignment is recorded.
RemovedOnlyWhenRecorded ==
    [][\A asg \in DOMAIN spool : asg \notin DOMAIN spool' => HasResult(asg)]_systemVars

\* A submission that fails while the process lives is spooled first.
SubmitFailureIsSpooled ==
    [][\A d \in Daemons :
          /\ phase[d] = "submit"
          /\ phase'[d] = "down"
          => job[d].assignment \in DOMAIN spool']_systemVars

\* Every spooled result is eventually recorded and removed.
SpoolDrains ==
    \A asg \in AssignmentIds :
        asg \in DOMAIN spool ~> asg \notin DOMAIN spool /\ HasResult(asg)

Waiting(asg) ==
    asg \in DOMAIN assignments /\ assignments[asg].status = "created"

\* Unless a fault happens every assignment eventually has a result, even if
\* the sweeper expires its lease meanwhile: a submission does not look at the
\* status.
WorkFinishes ==
    \A asg \in AssignmentIds :
        Waiting(asg) ~> HasResult(asg) \/ faults > 0

=============================================================================
