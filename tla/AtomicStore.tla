----------------------------- MODULE AtomicStore -----------------------------
(***************************************************************************)
(* What the control plane promises its callers about state and events: a   *)
(* request is answered exactly once; one that is answered ok has both its  *)
(* state change and its event row in the database from that moment on, and *)
(* any other request leaves nothing behind.                                *)
(***************************************************************************)
EXTENDS Naturals

CONSTANT Requests

VARIABLES
    changes,    \* requests whose state change is durable
    announced,  \* requests whose event_outbox row is durable
    outcome     \* what became of each request

store == <<changes, announced, outcome>>

Init ==
    /\ changes = {}
    /\ announced = {}
    /\ outcome = [r \in Requests |-> "pending"]

Succeed(r) ==
    /\ outcome[r] = "pending"
    /\ changes' = changes \cup {r}
    /\ announced' = announced \cup {r}
    /\ outcome' = [outcome EXCEPT ![r] = "ok"]

Fail(r) ==
    /\ outcome[r] = "pending"
    /\ outcome' = [outcome EXCEPT ![r] = "error"]
    /\ UNCHANGED <<changes, announced>>

\* The process ends: nobody who is waiting gets an answer.
Crash ==
    /\ outcome' = [r \in Requests |->
          IF outcome[r] = "pending" THEN "lost" ELSE outcome[r]]
    /\ UNCHANGED <<changes, announced>>

Next ==
    \/ \E r \in Requests : Succeed(r) \/ Fail(r)
    \/ Crash

Spec == Init /\ [][Next]_store

=============================================================================
