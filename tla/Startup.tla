------------------------------- MODULE Startup -------------------------------
(***************************************************************************)
(* The start of the control plane and its capacity registry                *)
(* (src/tokenbank/db/bootstrap.py, app/lifespan.py, app/bootstrap.py,      *)
(* capacity, app/routers/workers.py and capacity.py).                      *)
(*                                                                         *)
(* The server and every command-line tool begin alike: they migrate the    *)
(* database and rebuild the projection capacity_nodes from the worker      *)
(* manifests of the configuration, overridden by the stored ones.  A       *)
(* migration script runs statement by statement, each committed at once,   *)
(* and its version is recorded after it.  A rebuild reads the manifests    *)
(* first and replaces the projection in a transaction of its own.          *)
(***************************************************************************)
EXTENDS Naturals, Sequences, FiniteSets

CONSTANTS
    Threads,    \* processes and request threads
    Workers,
    Gateway,    \* the id of the control-plane gateway worker
    Manifests,  \* bodies a worker manifest can have
    Config,     \* the worker manifests of the configuration
    ClassOf,    \* backend_class of each backend id of the configuration
    Scripts,    \* the migrations: for each statement, whether it fails when
                \* it is run a second time (ALTER TABLE ADD COLUMN)
    None,
    MaxEnds,    \* bound: processes that end before they are through
    MaxUpserts  \* bound: registrations

VARIABLES
    applied,   \* statements run, as <<version, position>>
    recorded,  \* versions in schema_migrations
    stored,    \* worker_manifests: worker -> body or None
    nodes,     \* capacity_nodes: worker -> body or None
    serving,   \* the server is up
    thread,    \* what each thread does next
    ended,     \* bound: processes ended early so far
    upserts,   \* bound: registrations so far
    started,   \* history: some process has begun
    stale      \* history: a registration overtook a rebuild

vars == <<applied, recorded, stored, nodes, serving, thread, ended, upserts,
          started, stale>>

Versions == 1 .. Len(Scripts)
Statements == UNION {{v} \X DOMAIN Scripts[v] : v \in Versions}
GatewayClasses == {"api_model_gateway", "primary_model_gateway"}
LocalClasses == {"browser_fetch", "local_script", "local_tool"}

ASSUME StartupAssumption ==
    /\ Gateway \in Workers
    /\ None \notin Manifests
    /\ Config \in [Workers -> Manifests \cup {None}]
    /\ Scripts \in Seq(Seq(BOOLEAN))
    /\ MaxEnds \in Nat /\ MaxUpserts \in Nat

Idle == [step |-> "idle", for |-> "nothing"]

Init ==
    /\ applied = {}
    /\ recorded = {}
    /\ stored = [w \in Workers |-> None]
    /\ nodes = [w \in Workers |-> None]
    /\ serving = FALSE
    /\ thread = [t \in Threads |-> Idle]
    /\ ended = 0
    /\ upserts = 0
    /\ started = FALSE
    /\ stale = FALSE

Goto(t, state) == thread' = [thread EXCEPT ![t] = state]

-----------------------------------------------------------------------------
(* Migrations: apply_migrations *)

NextVersion_NotLast(existing, v, for) ==
    LET missing == {x \in v .. Len(Scripts) - 1 : x \notin existing}
    IN  IF missing = {} THEN [step |-> "read", for |-> for]
        ELSE [step |-> "migrate", for |-> for, existing |-> existing, at |-> 1,
              version |-> CHOOSE x \in missing : \A y \in missing : x <= y]

\* The first statement of the next version that is not among the versions
\* read at the beginning, or the rebuild if there is none.
NextVersion(existing, v, for) ==
    LET missing == {x \in v .. Len(Scripts) : x \notin existing}
    IN  IF missing = {} THEN [step |-> "read", for |-> for]
        ELSE [step |-> "migrate", for |-> for, existing |-> existing, at |-> 1,
              version |-> CHOOSE x \in missing : \A y \in missing : x <= y]

\* initialize_database of the server (lifespan) or of a tool
\* (_control_plane_context)
Begin(t, for) ==
    /\ thread[t] = Idle
    /\ for = "server" => ~ serving /\ \A x \in Threads : thread[x].for # "server"
    /\ Goto(t, NextVersion(recorded, 1, for))
    /\ started' = TRUE
    /\ UNCHANGED <<applied, recorded, stored, nodes, serving, ended, upserts, stale>>

Fails(v, k) == Scripts[v][k] /\ <<v, k>> \in applied

\* executescript runs the next statement.
RunStatement(t) ==
    /\ thread[t].step = "migrate"
    /\ thread[t].at <= Len(Scripts[thread[t].version])
    /\ ~ Fails(thread[t].version, thread[t].at)
    /\ applied' = applied \cup {<<thread[t].version, thread[t].at>>}
    /\ Goto(t, [thread[t] EXCEPT !.at = @ + 1])
    /\ UNCHANGED <<recorded, stored, nodes, serving, ended, upserts, started, stale>>

RecordVersion_BeforeScript(t) ==
    /\ thread[t].step = "migrate"
    /\ thread[t].at = Len(Scripts[thread[t].version])
    /\ thread[t].version \notin recorded
    /\ recorded' = recorded \cup {thread[t].version}
    /\ Goto(t, NextVersion(thread[t].existing, thread[t].version + 1, thread[t].for))
    /\ UNCHANGED <<applied, stored, nodes, serving, ended, upserts, started, stale>>

\* INSERT INTO schema_migrations
RecordVersion(t) ==
    /\ thread[t].step = "migrate"
    /\ thread[t].at > Len(Scripts[thread[t].version])
    /\ thread[t].version \notin recorded
    /\ recorded' = recorded \cup {thread[t].version}
    /\ Goto(t, NextVersion(thread[t].existing, thread[t].version + 1, thread[t].for))
    /\ UNCHANGED <<applied, stored, nodes, serving, ended, upserts, started, stale>>

\* A column that exists already or a version that is recorded already: the
\* statement raises and the process ends.
MigrationRaises(t) ==
    /\ thread[t].step = "migrate"
    /\ IF thread[t].at <= Len(Scripts[thread[t].version])
       THEN Fails(thread[t].version, thread[t].at)
       ELSE thread[t].version \in recorded
    /\ Goto(t, Idle)
    /\ UNCHANGED <<applied, recorded, stored, nodes, serving, ended, upserts, started,
                   stale>>

-----------------------------------------------------------------------------
(* The capacity registry *)

\* validate_gateway_worker and validate_worker_local_backend for one backend
PairingValid(w, manifest, backend) ==
    /\ backend \in DOMAIN ClassOf
    /\ ClassOf[backend] \in LocalClasses \/ (ClassOf[backend] \in GatewayClasses /\ w = Gateway)
    /\ ClassOf[backend] \in manifest.backend_classes

\* _validate_registry_pairing
RegistryValid(view) ==
    \/ DOMAIN ClassOf = {}
    \/ \A w \in Workers : view[w] # None =>
          \A backend \in view[w].backend_ids : PairingValid(w, view[w], backend)

ManifestsInForce_ConfigFirst ==
    [w \in Workers |-> IF Config[w] = None THEN stored[w] ELSE Config[w]]

\* rebuild_capacity_projection_from_config_and_db: stored manifests override
\* those of the configuration.
ManifestsInForce == [w \in Workers |-> IF stored[w] = None THEN Config[w] ELSE stored[w]]

\* A rebuild is on its way that has read its manifests.
Rebuilding == {t \in Threads : thread[t].step = "write"}

\* register_worker: the manifest is committed first, then the rebuild begins.
Register(t, w, manifest) ==
    /\ serving
    /\ thread[t] = Idle
    /\ upserts < MaxUpserts
    /\ stored' = [stored EXCEPT ![w] = manifest]
    /\ upserts' = upserts + 1
    /\ Goto(t, [step |-> "read", for |-> "request"])
    /\ stale' = (stale \/ Rebuilding # {})
    /\ UNCHANGED <<applied, recorded, nodes, serving, ended, started>>

\* rebuild_capacity_registry, the internal endpoint
RebuildRequested(t) ==
    /\ serving
    /\ thread[t] = Idle
    /\ Goto(t, [step |-> "read", for |-> "request"])
    /\ UNCHANGED <<applied, recorded, stored, nodes, serving, ended, upserts, started,
                   stale>>

\* The manifests are read and can be paired with the backends.
ReadManifests(t) ==
    /\ thread[t].step = "read"
    /\ RegistryValid(ManifestsInForce)
    /\ Goto(t, [step |-> "write", for |-> thread[t].for, view |-> ManifestsInForce])
    /\ UNCHANGED <<applied, recorded, stored, nodes, serving, ended, upserts, started,
                   stale>>

\* They cannot: the request answers with an error, the process does not start.
ReadRaises(t) ==
    /\ thread[t].step = "read"
    /\ ~ RegistryValid(ManifestsInForce)
    /\ Goto(t, Idle)
    /\ UNCHANGED <<applied, recorded, stored, nodes, serving, ended, upserts, started,
                   stale>>

WriteProjection_OnChange(t) ==
    /\ thread[t].step = "write"
    /\ nodes' = thread[t].view
    /\ serving' = (serving \/ (thread[t].for = "server" /\ nodes # thread[t].view))
    /\ Goto(t, Idle)
    /\ UNCHANGED <<applied, recorded, stored, ended, upserts, started, stale>>

\* rebuild_capacity_nodes: DELETE what is not in the view, upsert the rest
WriteProjection(t) ==
    /\ thread[t].step = "write"
    /\ nodes' = thread[t].view
    /\ serving' = (serving \/ thread[t].for = "server")
    /\ Goto(t, Idle)
    /\ UNCHANGED <<applied, recorded, stored, ended, upserts, started, stale>>

\* A tool is interrupted.
ToolEnds(t) ==
    /\ thread[t].for = "tool"
    /\ ended < MaxEnds
    /\ ended' = ended + 1
    /\ Goto(t, Idle)
    /\ UNCHANGED <<applied, recorded, stored, nodes, serving, upserts, started, stale>>

\* The server's process ends, and with it its start or all its requests.
ServerEnds ==
    /\ serving \/ \E t \in Threads : thread[t].for = "server"
    /\ ended < MaxEnds
    /\ ended' = ended + 1
    /\ serving' = FALSE
    /\ thread' = [t \in Threads |-> IF thread[t].for = "tool" THEN thread[t] ELSE Idle]
    /\ UNCHANGED <<applied, recorded, stored, nodes, upserts, started, stale>>

Continue(t) ==
    \/ RunStatement(t) \/ RecordVersion(t) \/ MigrationRaises(t)
    \/ ReadManifests(t) \/ ReadRaises(t) \/ WriteProjection(t)

Next ==
    \/ \E t \in Threads :
          \/ \E for \in {"server", "tool"} : Begin(t, for)
          \/ Continue(t)
          \/ \E w \in Workers, manifest \in Manifests : Register(t, w, manifest)
          \/ RebuildRequested(t)
          \/ ToolEnds(t)
    \/ ServerEnds

\* Processes go on, and the operator starts a server that is down again.
Fairness ==
    /\ \A t \in Threads : WF_vars(Continue(t))
    /\ SF_vars(\E t \in Threads : Begin(t, "server"))

Spec == Init /\ [][Next]_vars /\ Fairness

-----------------------------------------------------------------------------
(* Properties *)

\* Types; in particular a process is at a statement of a script it found
\* missing, or at its end, and never past it.
TypeOK ==
    /\ applied \subseteq Statements
    /\ recorded \subseteq Versions
    /\ stored \in [Workers -> Manifests \cup {None}]
    /\ nodes \in [Workers -> Manifests \cup {None}]
    /\ serving \in BOOLEAN
    /\ DOMAIN thread = Threads
    /\ \A t \in Threads :
          \/ thread[t] = Idle
          \/ /\ thread[t] \in [step : {"migrate"}, for : {"server", "tool"},
                                existing : SUBSET recorded, at : Nat, version : Versions]
             /\ thread[t].at \in 1 .. Len(Scripts[thread[t].version]) + 1
          \/ thread[t] \in [step : {"read"}, for : {"server", "tool", "request"}]
          \/ thread[t] \in [step : {"write"}, for : {"server", "tool", "request"},
                            view : [Workers -> Manifests \cup {None}]]
    /\ ended \in 0 .. MaxEnds /\ upserts \in 0 .. MaxUpserts
    /\ started \in BOOLEAN /\ stale \in BOOLEAN

\* A version is recorded only when every statement of its script has been run
\* and every version before it is recorded, although the script commits
\* statement by statement and two processes can run it at the same time.
RecordedIsComplete ==
    \A v \in recorded :
        /\ \A k \in DOMAIN Scripts[v] : <<v, k>> \in applied
        /\ \A x \in 1 .. v : x \in recorded

Quiet == \A t \in Threads : thread[t] = Idle

\* Processes that start at the same time can make each other fail, but one of
\* them completes the schema: only a process that ended in the middle leaves
\* it incomplete.
StartsMigrate == Quiet /\ started /\ ended = 0 => recorded = Versions

\* The server never serves on a schema that is incomplete, nor with a
\* projection that holds a worker paired with a backend it may not have,
\* whatever manifests have been registered.
ServesSoundRegistry ==
    /\ serving => recorded = Versions
    /\ DOMAIN ClassOf # {} =>
          \A w \in Workers : nodes[w] # None =>
              \A backend \in nodes[w].backend_ids :
                  /\ ClassOf[backend] \in nodes[w].backend_classes
                  /\ ClassOf[backend] \in GatewayClasses => w = Gateway

\* capacity_nodes does not drift from the manifests: when nothing is on its
\* way, every worker is projected from its stored manifest, or from that of
\* the configuration if none is stored, unless a registration overtook a
\* rebuild or the manifests cannot be paired with the backends.  A server that
\* ended between a manifest and its rebuild has caught up when it serves again.
ProjectionIsCurrent ==
    Quiet /\ serving /\ ~ stale /\ RegistryValid(ManifestsInForce) =>
        \A w \in Workers : nodes[w] = IF stored[w] # None THEN stored[w] ELSE Config[w]

\* A script that can no longer be run, and no process is far enough in it to
\* complete it.
Torn ==
    \E v \in Versions \ recorded : \E k \in DOMAIN Scripts[v] :
        /\ Fails(v, k)
        /\ \A t \in Threads :
              thread[t].step = "migrate" /\ thread[t].version = v => thread[t].at <= k

\* A server that is started again and again comes up after every end, unless
\* an interrupted migration has left a script that cannot be repeated or the
\* stored manifests cannot be paired.
ServerComesUp ==
    <>[](~ Torn /\ RegistryValid(ManifestsInForce)) => []<>serving

=============================================================================
