---------------------------- MODULE StartupProofs ----------------------------
(***************************************************************************)
(* Proofs about Startup: a recorded migration is a complete one, however   *)
(* many processes run the scripts at the same time and end in the middle;  *)
(* starts that nobody ends leave the schema complete; what is served is a  *)
(* full schema and a registry whose pairings hold, and it does not drift   *)
(* from the manifests.                                                     *)
(***************************************************************************)
EXTENDS Startup, TLAPS, WellFoundedInduction

-----------------------------------------------------------------------------
(* The next migration *)

\* A nonempty set of numbers has a least member.
LEMMA LeastExists ==
    ASSUME NEW S, S \subseteq Nat, S # {}
    PROVE  \E x \in S : \A y \in S : x <= y
<1> DEFINE R == OpToRel(<, Nat)
<1>1. IsWellFoundedOn(R, Nat)
  BY NatLessThanWellFounded
<1>2. \E x \in S : \A y \in S : ~ (<<y, x>> \in R)
  <2> HIDE DEF R
  <2> QED  BY <1>1, WFMin
<1>3. \E x \in S : \A y \in S : ~ (y < x)
  BY <1>2 DEF OpToRel
<1> QED  BY <1>3

LEMMA ScriptFacts ==
    /\ Len(Scripts) \in Nat
    /\ Versions = 1 .. Len(Scripts)
    /\ \A v \in Versions : Len(Scripts[v]) \in Nat /\ DOMAIN Scripts[v] = 1 .. Len(Scripts[v])
<1>1. Scripts \in Seq(Seq(BOOLEAN))
  BY StartupAssumption
<1>2. \A v \in Versions : Scripts[v] \in Seq(BOOLEAN)
  BY <1>1 DEF Versions
<1> QED  BY <1>1, <1>2 DEF Versions

\* apply_migrations goes to the first version that was missing when it
\* began, or ends when there is none.
LEMMA NextVersionFacts ==
    ASSUME NEW existing, NEW v \in Nat \ {0}, NEW for, NEW next,
           next = NextVersion(existing, v, for)
    PROVE  \/ /\ next = [step |-> "read", for |-> for]
              /\ \A x \in Versions : v <= x => x \in existing
           \/ \E w \in Versions :
                 /\ next = [step |-> "migrate", for |-> for, existing |-> existing,
                            at |-> 1, version |-> w]
                 /\ v <= w /\ w \notin existing
                 /\ \A x \in Versions : v <= x /\ x < w => x \in existing
<1> DEFINE missing == {x \in v .. Len(Scripts) : x \notin existing}
           least == CHOOSE x \in missing : \A y \in missing : x <= y
<1>0. Len(Scripts) \in Nat /\ Versions = 1 .. Len(Scripts)
  BY ScriptFacts
<1>1. CASE missing = {}
  <2>1. next = [step |-> "read", for |-> for]
    BY <1>1 DEF NextVersion
  <2>2. \A x \in Versions : v <= x => x \in existing
    BY <1>0, <1>1
  <2> QED  BY <2>1, <2>2
<1>2. CASE missing # {}
  <2>1. missing \subseteq Nat
    OBVIOUS
  <2>2. \E x \in missing : \A y \in missing : x <= y
    <3> HIDE DEF missing
    <3> QED  BY <1>2, <2>1, LeastExists
  <2>3. least \in missing /\ \A y \in missing : least <= y
    <3> HIDE DEF missing
    <3> QED  BY <2>2
  <2>4. next = [step |-> "migrate", for |-> for, existing |-> existing, at |-> 1,
                version |-> least]
    BY <1>2 DEF NextVersion
  <2> HIDE DEF least
  <2>5. /\ least \in Versions /\ v <= least /\ least \notin existing
        /\ \A x \in Versions : v <= x /\ x < least => x \in existing
    BY <1>0, <2>3
  <2> QED  BY <2>4, <2>5
<1> QED  BY <1>1, <1>2

-----------------------------------------------------------------------------
(* What a thread knows *)

\* The type of a thread when the versions in rec are recorded.
Typed(s, rec) ==
    \/ s = Idle
    \/ /\ s \in [step : {"migrate"}, for : {"server", "tool"},
                 existing : SUBSET rec, at : Nat, version : Versions]
       /\ s.at \in 1 .. Len(Scripts[s.version]) + 1
    \/ s \in [step : {"read"}, for : {"server", "tool", "request"}]
    \/ s \in [step : {"write"}, for : {"server", "tool", "request"},
              view : [Workers -> Manifests \cup {None}]]

\* A thread in a script has run the statements before the one it is at, and
\* the versions before it are recorded; a thread past the migrations has all
\* versions recorded; a view to be written has passed the validation.
Ready(s, rec, app) ==
    /\ s.step = "migrate" =>
          /\ \A x \in Versions : x < s.version => x \in rec
          /\ \A k \in 1 .. Len(Scripts[s.version]) : k < s.at => <<s.version, k>> \in app
    /\ s.step \in {"read", "write"} => Versions \subseteq rec
    /\ s.step = "write" => RegistryValid(s.view)

StartupInv ==
    /\ RecordedIsComplete
    /\ \A t \in Threads : Ready(thread[t], recorded, applied)
    /\ serving => Versions \subseteq recorded
    /\ RegistryValid(nodes)

LEMMA IdleFacts ==
    ASSUME NEW rec, NEW app
    PROVE  Typed(Idle, rec) /\ Ready(Idle, rec, app)
  BY DEF Typed, Ready, Idle

LEMMA ThreadsTyped == ASSUME TypeOK PROVE \A t \in Threads : Typed(thread[t], recorded)
  BY DEF TypeOK, Typed

\* Tables only grow, so what a thread knows stays true.
LEMMA Monotone ==
    ASSUME NEW s, NEW rec, NEW rec2, NEW app, NEW app2, rec \subseteq rec2,
           app \subseteq app2, Typed(s, rec), Ready(s, rec, app)
    PROVE  Typed(s, rec2) /\ Ready(s, rec2, app2)
<1>1. Typed(s, rec2)
  BY DEF Typed
<1>2. Ready(s, rec2, app2)
  BY DEF Ready
<1> QED  BY <1>1, <1>2

\* An action that takes thread t to state s, or ends some threads.
LEMMA ThreadStep ==
    ASSUME TypeOK, StartupInv,
           applied \subseteq applied', recorded \subseteq recorded',
           DOMAIN thread' = Threads,
           \A x \in Threads :
              \/ thread'[x] = thread[x]
              \/ /\ Typed(thread'[x], recorded')
                 /\ Ready(thread'[x], recorded', applied')
    PROVE  /\ DOMAIN thread' = Threads
           /\ \A x \in Threads : /\ Typed(thread'[x], recorded')
                                 /\ Ready(thread'[x], recorded', applied')
<1>1. \A x \in Threads : Typed(thread[x], recorded) /\ Ready(thread[x], recorded, applied)
  BY ThreadsTyped DEF StartupInv
<1> QED  BY <1>1, Monotone

LEMMA GotoStep ==
    ASSUME TypeOK, StartupInv, NEW t \in Threads, NEW s, Goto(t, s),
           applied \subseteq applied', recorded \subseteq recorded',
           Typed(s, recorded'), Ready(s, recorded', applied')
    PROVE  /\ DOMAIN thread' = Threads
           /\ \A x \in Threads : /\ Typed(thread'[x], recorded')
                                 /\ Ready(thread'[x], recorded', applied')
<1>1. DOMAIN thread' = Threads /\ \A x \in Threads : thread'[x] = thread[x] \/ thread'[x] = s
  BY DEF Goto, TypeOK
<1> QED  BY <1>1, ThreadStep

\* What the next version leads to is typed and ready.
LEMMA NextVersionReady ==
    ASSUME NEW existing, NEW v \in Nat \ {0}, NEW for \in {"server", "tool"},
           NEW rec, NEW app, existing \subseteq rec,
           \A x \in Versions : x < v => x \in rec,
           NEW s, s = NextVersion(existing, v, for)
    PROVE  Typed(s, rec) /\ Ready(s, rec, app)
<1>0. Versions \subseteq Nat
  BY ScriptFacts
<1>1. CASE /\ s = [step |-> "read", for |-> for]
           /\ \A x \in Versions : v <= x => x \in existing
  <2>1. Versions \subseteq rec
    BY <1>0, <1>1
  <2> QED  BY <1>1, <2>1 DEF Typed, Ready
<1>2. ASSUME NEW w \in Versions,
             s = [step |-> "migrate", for |-> for, existing |-> existing,
                  at |-> 1, version |-> w],
             \A x \in Versions : v <= x /\ x < w => x \in existing
      PROVE  Typed(s, rec) /\ Ready(s, rec, app)
  <2>1. \A x \in Versions : x < w => x \in rec
    BY <1>0, <1>2
  <2>2. Len(Scripts[w]) \in Nat
    BY ScriptFacts
  <2>3. /\ s.step = "migrate" /\ s.version = w /\ s.at = 1
        /\ s \in [step : {"migrate"}, for : {"server", "tool"},
                 existing : SUBSET rec, at : Nat, version : Versions]
    BY <1>2
  <2>4. s.at \in 1 .. Len(Scripts[s.version]) + 1
    BY <2>2, <2>3
  <2>5. \A k \in 1 .. Len(Scripts[s.version]) : ~ (k < s.at)
    BY <2>2, <2>3
  <2> QED  BY <2>1, <2>3, <2>4, <2>5 DEF Typed, Ready
<1> QED  BY <1>1, <1>2, NextVersionFacts

-----------------------------------------------------------------------------
(* The steps *)

\* The variables beside the threads and the history.
TablesTyped ==
    /\ applied \subseteq Statements
    /\ recorded \subseteq Versions
    /\ stored \in [Workers -> Manifests \cup {None}]
    /\ nodes \in [Workers -> Manifests \cup {None}]
    /\ serving \in BOOLEAN
    /\ ended \in 0 .. MaxEnds /\ upserts \in 0 .. MaxUpserts
    /\ started \in BOOLEAN /\ stale \in BOOLEAN

\* Conclusion of a step from what it does to threads and to tables.
LEMMA Conclude ==
    ASSUME TablesTyped',
           DOMAIN thread' = Threads,
           \A x \in Threads : /\ Typed(thread'[x], recorded')
                              /\ Ready(thread'[x], recorded', applied'),
           RecordedIsComplete', serving' => Versions \subseteq recorded',
           RegistryValid(nodes')
    PROVE  TypeOK' /\ StartupInv'
<1>1. TypeOK'
  BY DEF TypeOK, TablesTyped, Typed
<1>2. StartupInv'
  BY DEF StartupInv
<1> QED  BY <1>1, <1>2

LEMMA TypeSplit == ASSUME TypeOK PROVE TablesTyped /\ DOMAIN thread = Threads
  BY DEF TypeOK, TablesTyped

\* Steps that change no table and take a thread to s.
LEMMA QuietStep ==
    ASSUME TypeOK, StartupInv, NEW t \in Threads, NEW s, Goto(t, s),
           Typed(s, recorded), Ready(s, recorded, applied),
           UNCHANGED <<applied, recorded, nodes>>,
           stored' \in [Workers -> Manifests \cup {None}],
           serving' = serving \/ serving' = FALSE,
           ended' \in 0 .. MaxEnds, upserts' \in 0 .. MaxUpserts,
           started' \in BOOLEAN, stale' \in BOOLEAN
    PROVE  TypeOK' /\ StartupInv'
<1>1. /\ DOMAIN thread' = Threads
      /\ \A x \in Threads : /\ Typed(thread'[x], recorded')
                            /\ Ready(thread'[x], recorded', applied')
  BY GotoStep
<1>2. TablesTyped'
  BY TypeSplit DEF TablesTyped
<1>3. RecordedIsComplete'
  BY DEF StartupInv, RecordedIsComplete
<1>4. (serving' => Versions \subseteq recorded') /\ RegistryValid(nodes')
  BY DEF StartupInv
<1> QED  BY <1>1, <1>2, <1>3, <1>4, Conclude

LEMMA BeginStep ==
    ASSUME TypeOK, StartupInv, NEW t \in Threads, NEW for \in {"server", "tool"},
           Begin(t, for)
    PROVE  TypeOK' /\ StartupInv'
<1>1. PICK s : s = NextVersion(recorded, 1, for)
  OBVIOUS
<1>2. \A x \in Versions : x < 1 => x \in recorded
  BY ScriptFacts
<1>3. Typed(s, recorded) /\ Ready(s, recorded, applied)
  BY <1>1, <1>2, NextVersionReady
<1>4. /\ Goto(t, s) /\ started' = TRUE
      /\ UNCHANGED <<applied, recorded, stored, nodes, serving, ended, upserts, stale>>
  BY <1>1 DEF Begin
<1> QED  BY <1>3, <1>4, QuietStep, TypeSplit DEF TablesTyped

LEMMA MigratingFacts ==
    ASSUME TypeOK, NEW t \in Threads, thread[t].step = "migrate"
    PROVE  /\ thread[t] \in [step : {"migrate"}, for : {"server", "tool"},
                             existing : SUBSET recorded, at : Nat, version : Versions]
           /\ thread[t].at \in 1 .. Len(Scripts[thread[t].version]) + 1
  BY DEF TypeOK, Idle

\* A statement is run: nobody knows less, and the thread knows one more.
LEMMA RunStep ==
    ASSUME TypeOK, StartupInv, NEW t \in Threads, RunStatement(t)
    PROVE  TypeOK' /\ StartupInv'
<1>1. PICK v, k, s : v = thread[t].version /\ k = thread[t].at
                     /\ s = [thread[t] EXCEPT !.at = @ + 1]
  OBVIOUS
<1>2. /\ thread[t].step = "migrate" /\ k <= Len(Scripts[v]) /\ applied' = applied \cup {<<v, k>>}
      /\ Goto(t, s)
      /\ UNCHANGED <<recorded, stored, nodes, serving, ended, upserts, started, stale>>
  BY <1>1 DEF RunStatement
<1>3. /\ thread[t] \in [step : {"migrate"}, for : {"server", "tool"},
                        existing : SUBSET recorded, at : Nat, version : Versions]
      /\ k \in 1 .. Len(Scripts[v]) + 1
  BY <1>1, <1>2, MigratingFacts
<1>4. v \in Versions /\ Len(Scripts[v]) \in Nat /\ DOMAIN Scripts[v] = 1 .. Len(Scripts[v])
  BY <1>1, <1>3, ScriptFacts
<1>5. /\ s \in [step : {"migrate"}, for : {"server", "tool"},
                existing : SUBSET recorded, at : Nat, version : Versions]
      /\ s.version = v /\ s.at = k + 1 /\ s.step = "migrate"
  BY <1>1, <1>3
<1>6. Typed(s, recorded')
  <2>1. s.at \in 1 .. Len(Scripts[s.version]) + 1
    BY <1>2, <1>3, <1>4, <1>5
  <2> QED  BY <1>2, <1>5, <2>1 DEF Typed
<1>7. Ready(s, recorded', applied')
  <2>1. /\ \A x \in Versions : x < v => x \in recorded
        /\ \A j \in 1 .. Len(Scripts[v]) : j < k => <<v, j>> \in applied
    BY <1>1, <1>2 DEF StartupInv, Ready
  <2>2. \A j \in 1 .. Len(Scripts[v]) : j < k + 1 => <<v, j>> \in applied'
    BY <1>2, <1>3, <1>4, <2>1
  <2> QED  BY <1>2, <1>5, <2>1, <2>2 DEF Ready
<1>8. /\ DOMAIN thread' = Threads
      /\ \A x \in Threads : /\ Typed(thread'[x], recorded')
                            /\ Ready(thread'[x], recorded', applied')
  BY <1>2, <1>6, <1>7, GotoStep
<1>9. TablesTyped'
  <2>1. <<v, k>> \in Statements
    BY <1>2, <1>3, <1>4 DEF Statements
  <2> QED  BY <1>2, <2>1, TypeSplit DEF TablesTyped
<1>10. RecordedIsComplete'
  BY <1>2 DEF StartupInv, RecordedIsComplete
<1>11. (serving' => Versions \subseteq recorded') /\ RegistryValid(nodes')
  BY <1>2 DEF StartupInv
<1> QED  BY <1>8, <1>9, <1>10, <1>11, Conclude

\* A version is recorded at the end of its script.
LEMMA RecordStep ==
    ASSUME TypeOK, StartupInv, NEW t \in Threads, RecordVersion(t)
    PROVE  TypeOK' /\ StartupInv'
<1>1. PICK v, k, s : v = thread[t].version /\ k = thread[t].at
                     /\ s = NextVersion(thread[t].existing, thread[t].version + 1, thread[t].for)
  OBVIOUS
<1>2. /\ thread[t].step = "migrate" /\ k > Len(Scripts[v]) /\ recorded' = recorded \cup {v}
      /\ Goto(t, s)
      /\ UNCHANGED <<applied, stored, nodes, serving, ended, upserts, started, stale>>
  BY <1>1 DEF RecordVersion
<1>3. /\ v \in Versions /\ k \in Nat /\ thread[t].existing \subseteq recorded
      /\ thread[t].for \in {"server", "tool"}
  BY <1>1, <1>2, MigratingFacts
<1>4. /\ Versions \subseteq Nat \ {0} /\ Versions = 1 .. Len(Scripts) /\ Len(Scripts) \in Nat
      /\ Len(Scripts[v]) \in Nat /\ DOMAIN Scripts[v] = 1 .. Len(Scripts[v])
  BY <1>3, ScriptFacts
<1>5. /\ \A x \in Versions : x < v => x \in recorded
      /\ \A j \in 1 .. Len(Scripts[v]) : j < k => <<v, j>> \in applied
  BY <1>1, <1>2 DEF StartupInv, Ready
<1>6. \A x \in Versions : x < v + 1 => x \in recorded'
  BY <1>2, <1>3, <1>4, <1>5
<1>7. Typed(s, recorded') /\ Ready(s, recorded', applied')
  <2>1. v + 1 \in Nat \ {0} /\ thread[t].existing \subseteq recorded'
    BY <1>2, <1>3, <1>4
  <2>2. s = NextVersion(thread[t].existing, v + 1, thread[t].for)
    BY <1>1
  <2> QED  BY <1>3, <1>6, <2>1, <2>2, NextVersionReady
<1>8. /\ DOMAIN thread' = Threads
      /\ \A x \in Threads : /\ Typed(thread'[x], recorded')
                            /\ Ready(thread'[x], recorded', applied')
  BY <1>2, <1>7, GotoStep
<1>9. TablesTyped'
  BY <1>2, <1>3, TypeSplit DEF TablesTyped
<1>10. RecordedIsComplete'
  <2>1. \A j \in DOMAIN Scripts[v] : <<v, j>> \in applied
    BY <1>2, <1>3, <1>4, <1>5
  <2>2. \A x \in 1 .. v : x \in recorded'
    BY <1>3, <1>4, <1>6
  <2> QED  BY <1>2, <2>1, <2>2 DEF StartupInv, RecordedIsComplete
<1>11. (serving' => Versions \subseteq recorded') /\ RegistryValid(nodes')
  BY <1>2 DEF StartupInv
<1> QED  BY <1>8, <1>9, <1>10, <1>11, Conclude

LEMMA InForceTyped == ASSUME TypeOK PROVE ManifestsInForce \in [Workers -> Manifests \cup {None}]
  BY StartupAssumption DEF TypeOK, ManifestsInForce

\* The projection is replaced by a view that was validated.
LEMMA WriteStep ==
    ASSUME TypeOK, StartupInv, NEW t \in Threads, WriteProjection(t)
    PROVE  TypeOK' /\ StartupInv'
<1>1. /\ thread[t].step = "write" /\ nodes' = thread[t].view
      /\ serving' = (serving \/ thread[t].for = "server") /\ Goto(t, Idle)
      /\ UNCHANGED <<applied, recorded, stored, ended, upserts, started, stale>>
  BY DEF WriteProjection
<1>2. RegistryValid(thread[t].view) /\ Versions \subseteq recorded
  BY <1>1 DEF StartupInv, Ready
<1>3. thread[t].view \in [Workers -> Manifests \cup {None}]
  BY <1>1 DEF TypeOK, Idle
<1>4. /\ DOMAIN thread' = Threads
      /\ \A x \in Threads : /\ Typed(thread'[x], recorded')
                            /\ Ready(thread'[x], recorded', applied')
  BY <1>1, IdleFacts, GotoStep
<1>5. serving' \in BOOLEAN
  BY <1>1
<1>6. TablesTyped'
  BY <1>1, <1>3, <1>5, TypeSplit DEF TablesTyped
<1>7. RecordedIsComplete'
  BY <1>1 DEF StartupInv, RecordedIsComplete
<1>8. (serving' => Versions \subseteq recorded') /\ RegistryValid(nodes')
  BY <1>1, <1>2
<1> QED  BY <1>4, <1>6, <1>7, <1>8, Conclude

\* A request finds all versions recorded, because the server is up.
LEMMA RequestStep ==
    ASSUME TypeOK, StartupInv, NEW t \in Threads,
           \/ RebuildRequested(t)
           \/ \E w \in Workers, manifest \in Manifests : Register(t, w, manifest)
    PROVE  TypeOK' /\ StartupInv'
<1> DEFINE s == [step |-> "read", for |-> "request"]
<1>1. /\ serving /\ Goto(t, s)
      /\ UNCHANGED <<applied, recorded, nodes, serving, ended, started>>
  BY DEF RebuildRequested, Register
<1>2. Typed(s, recorded) /\ Ready(s, recorded, applied)
  BY <1>1 DEF Typed, Ready, StartupInv
<1>3. upserts \in 0 .. MaxUpserts /\ stale \in BOOLEAN /\ ended \in 0 .. MaxEnds
      /\ started \in BOOLEAN /\ stored \in [Workers -> Manifests \cup {None}]
  BY DEF TypeOK
<1>4. CASE RebuildRequested(t)
  <2>1. UNCHANGED <<stored, upserts, stale>>
    BY <1>4 DEF RebuildRequested
  <2> HIDE DEF s
  <2> QED  BY <1>1, <1>2, <1>3, <2>1, QuietStep
<1>5. ASSUME NEW w \in Workers, NEW manifest \in Manifests, Register(t, w, manifest)
      PROVE  TypeOK' /\ StartupInv'
  <2>1. stored' \in [Workers -> Manifests \cup {None}]
    BY <1>3, <1>5 DEF Register
  <2>2. upserts' \in 0 .. MaxUpserts
    BY <1>3, <1>5, StartupAssumption DEF Register
  <2>3. stale' \in BOOLEAN
    BY <1>5 DEF Register
  <2> HIDE DEF s
  <2> QED  BY <1>1, <1>2, <1>3, <2>1, <2>2, <2>3, QuietStep
<1> QED  BY <1>4, <1>5

LEMMA ReadStep ==
    ASSUME TypeOK, StartupInv, NEW t \in Threads, ReadManifests(t)
    PROVE  TypeOK' /\ StartupInv'
<1>1. PICK s : s = [step |-> "write", for |-> thread[t].for, view |-> ManifestsInForce]
  OBVIOUS
<1>2. /\ thread[t].step = "read" /\ RegistryValid(ManifestsInForce) /\ Goto(t, s)
      /\ UNCHANGED <<applied, recorded, stored, nodes, serving, ended, upserts, started,
                     stale>>
  BY <1>1 DEF ReadManifests
<1>3. thread[t].for \in {"server", "tool", "request"}
  BY <1>2 DEF TypeOK, Idle
<1>4. Versions \subseteq recorded
  BY <1>2 DEF StartupInv, Ready
<1>5. Typed(s, recorded)
  BY <1>1, <1>3, InForceTyped DEF Typed
<1>6. s.step = "write" /\ s.view = ManifestsInForce
  BY <1>1
<1>7. Ready(s, recorded, applied)
  BY <1>2, <1>4, <1>6 DEF Ready
<1> QED  BY <1>2, <1>5, <1>7, QuietStep, TypeSplit DEF TablesTyped

\* A thread gives up.
LEMMA GiveUpStep ==
    ASSUME TypeOK, StartupInv, NEW t \in Threads,
           MigrationRaises(t) \/ ReadRaises(t) \/ ToolEnds(t)
    PROVE  TypeOK' /\ StartupInv'
<1>1. /\ Goto(t, Idle)
      /\ UNCHANGED <<applied, recorded, stored, nodes, serving, upserts, started, stale>>
  BY DEF MigrationRaises, ReadRaises, ToolEnds
<1>2. ended' \in 0 .. MaxEnds
  BY StartupAssumption DEF MigrationRaises, ReadRaises, ToolEnds, TypeOK
<1> QED  BY <1>1, <1>2, IdleFacts, QuietStep, TypeSplit DEF TablesTyped

LEMMA ServerEndsStep ==
    ASSUME TypeOK, StartupInv, ServerEnds
    PROVE  TypeOK' /\ StartupInv'
<1>1. /\ thread' = [t \in Threads |-> IF thread[t].for = "tool" THEN thread[t] ELSE Idle]
      /\ serving' = FALSE
      /\ UNCHANGED <<applied, recorded, stored, nodes, upserts, started, stale>>
  BY DEF ServerEnds
<1>2. ended' \in 0 .. MaxEnds
  BY StartupAssumption DEF ServerEnds, TypeOK
<1>3. DOMAIN thread' = Threads /\ \A x \in Threads : thread'[x] = thread[x] \/ thread'[x] = Idle
  BY <1>1
<1>4. \A x \in Threads : /\ Typed(thread'[x], recorded')
                          /\ Ready(thread'[x], recorded', applied')
  BY <1>1, <1>3, IdleFacts, ThreadStep
<1>5. TablesTyped'
  BY <1>1, <1>2, TypeSplit DEF TablesTyped
<1>6. RecordedIsComplete'
  BY <1>1 DEF StartupInv, RecordedIsComplete
<1>7. (serving' => Versions \subseteq recorded') /\ RegistryValid(nodes')
  BY <1>1 DEF StartupInv
<1> QED  BY <1>3, <1>4, <1>5, <1>6, <1>7, Conclude

LEMMA StartupStep == TypeOK /\ StartupInv /\ [Next]_vars => TypeOK' /\ StartupInv'
<1> SUFFICES ASSUME TypeOK, StartupInv, [Next]_vars
             PROVE  TypeOK' /\ StartupInv'
  OBVIOUS
<1>1. CASE UNCHANGED vars
  <2>1. TypeOK'
    BY <1>1 DEF vars, TypeOK
  <2>2. StartupInv'
    BY <1>1 DEF vars, StartupInv, RecordedIsComplete
  <2> QED  BY <2>1, <2>2
<1>2. ASSUME NEW t \in Threads, Continue(t)
      PROVE  TypeOK' /\ StartupInv'
  BY <1>2, RunStep, RecordStep, GiveUpStep, ReadStep, WriteStep DEF Continue
<1> QED
  BY <1>1, <1>2, BeginStep, RequestStep, GiveUpStep, ServerEndsStep DEF Next

LEMMA StartupInit == Init => TypeOK /\ StartupInv
<1> SUFFICES ASSUME Init
             PROVE  TypeOK /\ StartupInv
  OBVIOUS
<1>1. TypeOK
  <2>1. serving \in BOOLEAN /\ started \in BOOLEAN /\ stale \in BOOLEAN
    BY DEF Init
  <2>2. ended \in 0 .. MaxEnds /\ upserts \in 0 .. MaxUpserts
    BY StartupAssumption DEF Init
  <2>3. /\ stored \in [Workers -> Manifests \cup {None}]
        /\ nodes \in [Workers -> Manifests \cup {None}]
    BY DEF Init
  <2>4. DOMAIN thread = Threads /\ \A t \in Threads : thread[t] = Idle
    BY DEF Init
  <2>5. applied \subseteq Statements /\ recorded \subseteq Versions
    BY DEF Init
  <2> QED  BY <2>1, <2>2, <2>3, <2>4, <2>5 DEF TypeOK
<1>2. \A t \in Threads : Ready(thread[t], recorded, applied)
  BY IdleFacts DEF Init
<1>3. RegistryValid(nodes)
  BY DEF Init, RegistryValid
<1>4. RecordedIsComplete /\ ~ serving
  BY DEF Init, RecordedIsComplete
<1> QED  BY <1>1, <1>2, <1>3, <1>4 DEF StartupInv

LEMMA StartupHolds == Spec => [](TypeOK /\ StartupInv)
  BY StartupInit, StartupStep, PTL DEF Spec

\* Types; in particular a process is at a statement of a script it found
\* missing, or at its end, and never past it.
THEOREM StartupTypes == Spec => []TypeOK
  BY StartupHolds, PTL

\* A version is recorded only when every statement of its script has been run
\* and every version before it is recorded: for any scripts, any number of
\* processes that run them at the same time, and any that end in the middle.
THEOREM RecordedMigrationsAreComplete == Spec => []RecordedIsComplete
<1>1. TypeOK /\ StartupInv => RecordedIsComplete
  BY DEF StartupInv
<1> QED  BY <1>1, StartupHolds, PTL

\* The server never serves on a schema that is incomplete, nor with a
\* projection that pairs a worker with a backend it may not have.
THEOREM ServedRegistryIsSound == Spec => []ServesSoundRegistry
<1>1. TypeOK /\ StartupInv => ServesSoundRegistry
  <2> SUFFICES ASSUME TypeOK, StartupInv
               PROVE  ServesSoundRegistry
    OBVIOUS
  <2>1. serving => recorded = Versions
    BY DEF TypeOK, StartupInv
  <2>2. ASSUME DOMAIN ClassOf # {}, NEW w \in Workers, nodes[w] # None,
               NEW backend \in nodes[w].backend_ids
        PROVE  /\ ClassOf[backend] \in nodes[w].backend_classes
               /\ ClassOf[backend] \in GatewayClasses => w = Gateway
    <3>1. PairingValid(w, nodes[w], backend)
      BY <2>2 DEF StartupInv, RegistryValid
    <3> QED  BY <3>1 DEF PairingValid, GatewayClasses, LocalClasses
  <2> QED  BY <2>1, <2>2 DEF ServesSoundRegistry
<1> QED  BY <1>1, StartupHolds, PTL

-----------------------------------------------------------------------------
(* The projection follows the manifests *)

NoRequest == \A t \in Threads : thread[t].for # "request"

\* While no registration has overtaken a rebuild, every rebuild that has read
\* its manifests read those in force, and a server whose manifests can be
\* paired has projected them, or a request is on its way that will.
CurrentInv ==
    ~ stale =>
        /\ \A t \in Threads : thread[t].step = "write" => thread[t].view = ManifestsInForce
        /\ serving /\ RegistryValid(ManifestsInForce) /\ NoRequest =>
              nodes = ManifestsInForce

\* A step of thread t that leaves the tables and the server alone.
LEMMA CurrentGoto ==
    ASSUME TypeOK, CurrentInv, NEW t \in Threads, NEW s, Goto(t, s),
           UNCHANGED <<stored, nodes, serving, stale>>,
           s.step = "write" => s.view = ManifestsInForce,
           thread[t].for = "request" =>
              s.for = "request" \/ ~ RegistryValid(ManifestsInForce)
    PROVE  CurrentInv'
<1>1. thread'[t] = s /\ \A x \in Threads : x # t => thread'[x] = thread[x]
  BY DEF Goto, TypeOK
<1>2. ManifestsInForce' = ManifestsInForce
  BY DEF ManifestsInForce
<1>3. RegistryValid(ManifestsInForce)' <=> RegistryValid(ManifestsInForce)
  BY <1>2 DEF RegistryValid
<1>4. NoRequest' /\ RegistryValid(ManifestsInForce) => NoRequest
  BY <1>1 DEF NoRequest
<1>5. ASSUME ~ stale', NEW x \in Threads, thread'[x].step = "write"
      PROVE  thread'[x].view = ManifestsInForce'
  BY <1>1, <1>2, <1>5 DEF CurrentInv
<1>6. ASSUME ~ stale', serving', RegistryValid(ManifestsInForce)', NoRequest'
      PROVE  nodes' = ManifestsInForce'
  BY <1>2, <1>3, <1>4, <1>6 DEF CurrentInv
<1> QED  BY <1>5, <1>6 DEF CurrentInv

\* Where the migrations lead, and for whom.
LEMMA NextVersionFor ==
    ASSUME NEW existing, NEW v \in Nat \ {0}, NEW for, NEW next,
           next = NextVersion(existing, v, for)
    PROVE  next.step # "write" /\ next.for = for
  BY NextVersionFacts

LEMMA CurrentStep == TypeOK /\ CurrentInv /\ [Next]_vars => CurrentInv'
<1> SUFFICES ASSUME TypeOK, CurrentInv, [Next]_vars
             PROVE  CurrentInv'
  OBVIOUS
<1>1. CASE UNCHANGED vars
  <2>1. ManifestsInForce' = ManifestsInForce
    BY <1>1 DEF vars, ManifestsInForce
  <2>2. /\ RegistryValid(ManifestsInForce)' <=> RegistryValid(ManifestsInForce)
        /\ NoRequest' <=> NoRequest
    BY <1>1, <2>1 DEF vars, RegistryValid, NoRequest
  <2> QED  BY <1>1, <2>1, <2>2 DEF vars, CurrentInv
<1>2. ASSUME NEW t \in Threads, NEW for \in {"server", "tool"}, Begin(t, for)
      PROVE  CurrentInv'
  <2>1. PICK s : s = NextVersion(recorded, 1, for)
    OBVIOUS
  <2>2. /\ thread[t] = Idle /\ Goto(t, s)
        /\ UNCHANGED <<stored, nodes, serving, stale>>
    BY <1>2, <2>1 DEF Begin
  <2>3. s.step # "write" /\ thread[t].for # "request"
    BY <2>1, <2>2, NextVersionFor DEF Idle
  <2> QED  BY <2>2, <2>3, CurrentGoto
<1>3. ASSUME NEW t \in Threads, RunStatement(t)
      PROVE  CurrentInv'
  <2>1. PICK s : s = [thread[t] EXCEPT !.at = @ + 1]
    OBVIOUS
  <2>2. /\ thread[t].step = "migrate" /\ Goto(t, s)
        /\ UNCHANGED <<stored, nodes, serving, stale>>
    BY <1>3, <2>1 DEF RunStatement
  <2>3. s.step # "write" /\ thread[t].for # "request"
    BY <2>1, <2>2, MigratingFacts
  <2> QED  BY <2>2, <2>3, CurrentGoto
<1>4. ASSUME NEW t \in Threads, RecordVersion(t)
      PROVE  CurrentInv'
  <2>1. PICK s : s = NextVersion(thread[t].existing, thread[t].version + 1, thread[t].for)
    OBVIOUS
  <2>2. /\ thread[t].step = "migrate" /\ Goto(t, s)
        /\ UNCHANGED <<stored, nodes, serving, stale>>
    BY <1>4, <2>1 DEF RecordVersion
  <2>3. thread[t].for # "request" /\ thread[t].version + 1 \in Nat \ {0}
    BY <2>2, MigratingFacts, ScriptFacts
  <2>4. s.step # "write"
    BY <2>1, <2>3, NextVersionFor
  <2> QED  BY <2>2, <2>3, <2>4, CurrentGoto
<1>5. ASSUME NEW t \in Threads, MigrationRaises(t) \/ ReadRaises(t) \/ ToolEnds(t)
      PROVE  CurrentInv'
  <2>1. Goto(t, Idle) /\ UNCHANGED <<stored, nodes, serving, stale>>
    BY <1>5 DEF MigrationRaises, ReadRaises, ToolEnds
  <2>2. thread[t].for = "request" => ~ RegistryValid(ManifestsInForce)
    BY <1>5, MigratingFacts DEF MigrationRaises, ReadRaises, ToolEnds
  <2>3. Idle.step # "write"
    BY DEF Idle
  <2> QED  BY <2>1, <2>2, <2>3, CurrentGoto
<1>6. ASSUME NEW t \in Threads, ReadManifests(t)
      PROVE  CurrentInv'
  <2>1. PICK s : s = [step |-> "write", for |-> thread[t].for, view |-> ManifestsInForce]
    OBVIOUS
  <2>2. Goto(t, s) /\ UNCHANGED <<stored, nodes, serving, stale>>
    BY <1>6, <2>1 DEF ReadManifests
  <2>3. s.view = ManifestsInForce /\ s.for = thread[t].for
    BY <2>1
  <2> QED  BY <2>2, <2>3, CurrentGoto
<1>7. ASSUME NEW t \in Threads, WriteProjection(t)
      PROVE  CurrentInv'
  <2>1. /\ thread[t].step = "write" /\ nodes' = thread[t].view /\ Goto(t, Idle)
        /\ UNCHANGED <<stored, stale>>
    BY <1>7 DEF WriteProjection
  <2>2. ManifestsInForce' = ManifestsInForce
    BY <2>1 DEF ManifestsInForce
  <2>3. \A x \in Threads : thread'[x] = thread[x] \/ thread'[x].step # "write"
    BY <2>1 DEF Goto, Idle, TypeOK
  <2> QED  BY <2>1, <2>2, <2>3 DEF CurrentInv
<1>8. ASSUME NEW t \in Threads, NEW w \in Workers, NEW manifest \in Manifests,
             Register(t, w, manifest)
      PROVE  CurrentInv'
  <2>1. /\ Goto(t, [step |-> "read", for |-> "request"])
        /\ stale' = (stale \/ Rebuilding # {})
    BY <1>8 DEF Register
  <2>2. /\ thread'[t] = [step |-> "read", for |-> "request"]
        /\ \A x \in Threads : x # t => thread'[x] = thread[x]
    BY <2>1 DEF Goto, TypeOK
  <2>3. ~ NoRequest'
    BY <2>2 DEF NoRequest
  <2>4. ~ stale' => Rebuilding = {}
    BY <2>1
  <2>5. Rebuilding = {} => \A x \in Threads : thread'[x].step # "write"
    BY <2>2 DEF Rebuilding
  <2> QED  BY <2>3, <2>4, <2>5 DEF CurrentInv
<1>9. ASSUME NEW t \in Threads, RebuildRequested(t)
      PROVE  CurrentInv'
  <2>1. PICK s : s = [step |-> "read", for |-> "request"]
    OBVIOUS
  <2>2. Goto(t, s) /\ UNCHANGED <<stored, nodes, serving, stale>>
    BY <1>9, <2>1 DEF RebuildRequested
  <2>3. s.step # "write" /\ s.for = "request"
    BY <2>1
  <2> QED  BY <2>2, <2>3, CurrentGoto
<1>10. ASSUME ServerEnds
       PROVE  CurrentInv'
  <2>1. /\ thread' = [t \in Threads |-> IF thread[t].for = "tool" THEN thread[t] ELSE Idle]
        /\ ~ serving' /\ UNCHANGED <<stored, stale>>
    BY <1>10 DEF ServerEnds
  <2>2. ManifestsInForce' = ManifestsInForce
    BY <2>1 DEF ManifestsInForce
  <2>3. \A x \in Threads : thread'[x] = thread[x] \/ thread'[x].step # "write"
    BY <2>1 DEF Idle
  <2> QED  BY <2>1, <2>2, <2>3 DEF CurrentInv
<1>11. ASSUME NEW t \in Threads, Continue(t)
       PROVE  CurrentInv'
  BY <1>3, <1>4, <1>5, <1>6, <1>7, <1>11 DEF Continue
<1> QED  BY <1>1, <1>2, <1>5, <1>8, <1>9, <1>10, <1>11 DEF Next

LEMMA CurrentInit == Init => CurrentInv
  BY DEF Init, CurrentInv, Idle

\* capacity_nodes does not drift from the manifests: for any number of
\* processes, workers and registrations, when nothing is on its way, every
\* worker is projected from its stored manifest, or from that of the
\* configuration, unless a registration overtook a rebuild.
THEOREM CurrentProjection == Spec => []ProjectionIsCurrent
<1>1. CurrentInv => ProjectionIsCurrent
  <2> SUFFICES ASSUME CurrentInv, Quiet, serving, ~ stale,
                      RegistryValid(ManifestsInForce), NEW w \in Workers
               PROVE  nodes[w] = IF stored[w] # None THEN stored[w] ELSE Config[w]
    BY DEF ProjectionIsCurrent
  <2>1. NoRequest
    BY DEF Quiet, NoRequest, Idle
  <2>2. nodes = ManifestsInForce
    BY <2>1 DEF CurrentInv
  <2> QED  BY <2>2 DEF ManifestsInForce
<1>2. Spec => []CurrentInv
  BY StartupHolds, CurrentInit, CurrentStep, PTL DEF Spec
<1> QED  BY <1>1, <1>2, PTL

-----------------------------------------------------------------------------
(* Somebody completes the schema *)

\* A statement is run only when the versions before its own are recorded.
InOrder(rec, app) == \A p \in app : \A x \in Versions : x < p[1] => x \in rec

\* A process that nothing can stop before it records its version: the version
\* is not recorded, and no other process has run a statement it has still to
\* run.
Leads(s, rec, app) ==
    /\ s.step = "migrate"
    /\ s.version \notin rec
    /\ \A p \in app : p[1] = s.version => p[2] < s.at

\* Processes that run a script at the same time fail each other, but never
\* the one that is furthest in the first version that is missing.
LeaderInv ==
    /\ InOrder(recorded, applied)
    /\ ~ started => Quiet /\ ~ serving /\ recorded = {} /\ applied = {}
    /\ started /\ ended = 0 =>
          \/ Versions \subseteq recorded
          \/ \E t \in Threads : Leads(thread[t], recorded, applied)

\* A step of thread t that changes no table keeps the leader, unless t is it.
LEMMA LeaderGoto ==
    ASSUME TypeOK, LeaderInv, NEW t \in Threads, NEW s, Goto(t, s), started,
           UNCHANGED <<applied, recorded, started>>,
           (ended' = ended /\ ~ Leads(thread[t], recorded, applied)) \/ ended' # 0
    PROVE  LeaderInv'
<1>1. \A x \in Threads : x # t => thread'[x] = thread[x]
  BY DEF Goto, TypeOK
<1>2. InOrder(recorded, applied)'
  BY DEF LeaderInv, InOrder
<1>3. ASSUME ended' = 0
      PROVE  \/ Versions \subseteq recorded'
             \/ \E x \in Threads : Leads(thread'[x], recorded', applied')
  <2>1. \/ Versions \subseteq recorded
        \/ \E x \in Threads : Leads(thread[x], recorded, applied)
    BY <1>3 DEF LeaderInv
  <2>2. ASSUME NEW x \in Threads, Leads(thread[x], recorded, applied)
        PROVE  Leads(thread'[x], recorded', applied')
    BY <1>1, <1>3, <2>2
  <2> QED  BY <2>1, <2>2
<1> QED  BY <1>2, <1>3 DEF LeaderInv

LEMMA BusyIsStarted ==
    ASSUME LeaderInv, serving \/ \E t \in Threads : thread[t] # Idle
    PROVE  started
  BY DEF LeaderInv, Quiet

\* The first process leads; a later one changes nothing for the leader.
LEMMA LeaderBegin ==
    ASSUME TypeOK, LeaderInv, NEW t \in Threads, NEW for \in {"server", "tool"},
           Begin(t, for)
    PROVE  LeaderInv'
<1>1. PICK s : s = NextVersion(recorded, 1, for)
  OBVIOUS
<1>2. /\ thread[t] = Idle /\ Goto(t, s) /\ started' = TRUE
      /\ UNCHANGED <<applied, recorded, ended>>
  BY <1>1 DEF Begin
<1>3. CASE started
  <2>1. ~ Leads(thread[t], recorded, applied)
    BY <1>2 DEF Leads, Idle
  <2>2. UNCHANGED started
    BY <1>2, <1>3 DEF TypeOK
  <2> QED  BY <1>2, <1>3, <2>1, <2>2, LeaderGoto
<1>4. CASE ~ started
  <2>1. recorded' = {} /\ applied' = {} /\ thread'[t] = s
    BY <1>2, <1>4 DEF LeaderInv, Goto, TypeOK
  <2>2. InOrder(recorded, applied)'
    BY <2>1 DEF InOrder
  <2>3. Versions \subseteq recorded' \/ Leads(thread'[t], recorded', applied')
    <3>1. recorded = {} /\ Versions \subseteq Nat \ {0} /\ 1 \in Nat \ {0}
      BY <1>2, <2>1, ScriptFacts
    <3>2. CASE \A x \in Versions : 1 <= x => x \in recorded
      BY <3>1, <3>2
    <3>3. ASSUME NEW w \in Versions,
                 s = [step |-> "migrate", for |-> for, existing |-> recorded,
                      at |-> 1, version |-> w]
          PROVE  Leads(thread'[t], recorded', applied')
      BY <2>1, <3>3 DEF Leads
    <3> QED  BY <1>1, <2>1, <3>1, <3>2, <3>3, NextVersionFacts
  <2> QED  BY <1>2, <2>2, <2>3 DEF LeaderInv
<1> QED  BY <1>3, <1>4

\* A process that runs a statement the leader has still to run takes the lead.
LEMMA LeaderRun ==
    ASSUME TypeOK, StartupInv, LeaderInv, NEW t \in Threads, RunStatement(t)
    PROVE  LeaderInv'
<1>1. PICK v, k, s : v = thread[t].version /\ k = thread[t].at
                     /\ s = [thread[t] EXCEPT !.at = @ + 1]
  OBVIOUS
<1>2. /\ thread[t].step = "migrate" /\ applied' = applied \cup {<<v, k>>}
      /\ Goto(t, s) /\ UNCHANGED <<recorded, ended, started>>
  BY <1>1 DEF RunStatement
<1>3. /\ thread[t] \in [step : {"migrate"}, for : {"server", "tool"},
                        existing : SUBSET recorded, at : Nat, version : Versions]
      /\ v \in Versions /\ k \in Nat /\ v \in Nat
  BY <1>1, <1>2, MigratingFacts, ScriptFacts
<1>4. s.step = "migrate" /\ s.version = v /\ s.at = k + 1
  BY <1>1, <1>3
<1>5. thread'[t] = s /\ \A x \in Threads : x # t => thread'[x] = thread[x]
  BY <1>2 DEF Goto, TypeOK
<1>6. InOrder(recorded, applied)'
  <2>1. \A x \in Versions : x < v => x \in recorded
    BY <1>1, <1>2 DEF StartupInv, Ready
  <2> QED  BY <1>2, <2>1 DEF LeaderInv, InOrder
<1>7. started
  BY <1>2, BusyIsStarted DEF Idle
<1>8. ASSUME NEW u \in Threads, Leads(thread[u], recorded, applied)
      PROVE  \E x \in Threads : Leads(thread'[x], recorded', applied')
  <2>1. thread[u].at \in Nat /\ thread[u].step = "migrate"
    BY <1>8, MigratingFacts DEF Leads
  <2>2. \A p \in applied : p[2] \in Nat
    <3>1. \A w \in Versions : DOMAIN Scripts[w] \subseteq Nat
      BY ScriptFacts
    <3> QED  BY <3>1 DEF TypeOK, Statements
  <2>3. CASE thread[u].version = v /\ thread[u].at <= k
    <3>1. \A p \in applied' : p[1] = v => p[2] < k + 1
      BY <1>2, <1>3, <1>8, <2>1, <2>2, <2>3 DEF Leads
    <3>2. v \notin recorded'
      BY <1>2, <1>8, <2>3 DEF Leads
    <3>3. Leads(s, recorded', applied')
      BY <1>4, <3>1, <3>2 DEF Leads
    <3> QED  BY <1>5, <3>3
  <2>4. CASE thread[u].version # v \/ k < thread[u].at
    <3>1. u # t
      BY <1>1, <1>3, <2>4
    <3>2. Leads(thread[u], recorded', applied')
      BY <1>2, <1>8, <2>4 DEF Leads
    <3> QED  BY <1>5, <3>1, <3>2
  <2> QED  BY <1>3, <2>1, <2>3, <2>4
<1> QED  BY <1>2, <1>6, <1>7, <1>8 DEF LeaderInv

\* A process that records a version has made the first missing one its next,
\* and nobody has run a statement of that.
LEMMA LeaderRecord ==
    ASSUME TypeOK, StartupInv, LeaderInv, NEW t \in Threads, RecordVersion(t)
    PROVE  LeaderInv'
<1>1. PICK v, old, s : /\ v = thread[t].version /\ old = thread[t].existing
                       /\ s = NextVersion(old, v + 1, thread[t].for)
  OBVIOUS
<1>2. /\ thread[t].step = "migrate" /\ v \notin recorded
      /\ recorded' = recorded \cup {v}
      /\ Goto(t, s) /\ UNCHANGED <<applied, ended, started>>
  BY <1>1 DEF RecordVersion
<1>3. /\ v \in Versions /\ old \subseteq recorded
      /\ Versions \subseteq Nat \ {0} /\ v + 1 \in Nat \ {0}
  BY <1>1, <1>2, MigratingFacts, ScriptFacts
<1>4. \A x \in Versions : x < v => x \in recorded
  BY <1>1, <1>2 DEF StartupInv, Ready
<1>5. InOrder(recorded, applied)'
  BY <1>2 DEF LeaderInv, InOrder
<1>6. started /\ thread'[t] = s
  BY <1>2, BusyIsStarted DEF Idle, Goto, TypeOK
<1>7. CASE \A x \in Versions : v + 1 <= x => x \in old
  <2>1. \A x \in Versions : x < v \/ x = v \/ v + 1 <= x
    BY <1>3
  <2>2. Versions \subseteq recorded'
    BY <1>2, <1>3, <1>4, <1>7, <2>1
  <2> QED  BY <1>2, <1>5, <1>6, <2>2 DEF LeaderInv
<1>8. ASSUME NEW w \in Versions, v + 1 <= w, s.step = "migrate", s.version = w
      PROVE  LeaderInv'
  <2>1. v < w /\ v \in 1 .. w
    BY <1>3, <1>8
  <2>2. w \notin recorded'
    BY <1>2, <1>3, <2>1 DEF StartupInv, RecordedIsComplete
  <2>3. \A p \in applied' : p[1] # w
    BY <1>2, <1>3, <2>1 DEF LeaderInv, InOrder
  <2>4. Leads(thread'[t], recorded', applied')
    BY <1>6, <1>8, <2>2, <2>3 DEF Leads
  <2> QED  BY <1>2, <1>5, <1>6, <2>4 DEF LeaderInv
<1>9. \/ \A x \in Versions : v + 1 <= x => x \in old
      \/ \E w \in Versions : v + 1 <= w /\ s.step = "migrate" /\ s.version = w
  <2> DEFINE n == v + 1
  <2>1. n \in Nat \ {0} /\ s = NextVersion(old, n, thread[t].for)
    BY <1>1, <1>3
  <2> HIDE DEF n
  <2>2. \/ \A x \in Versions : n <= x => x \in old
        \/ \E w \in Versions : n <= w /\ s.step = "migrate" /\ s.version = w
    BY <2>1, NextVersionFacts
  <2> QED  BY <2>2 DEF n
<1> QED  BY <1>7, <1>8, <1>9

\* The leader's statements do not fail.
LEMMA LeaderRaises ==
    ASSUME TypeOK, LeaderInv, NEW t \in Threads, MigrationRaises(t)
    PROVE  LeaderInv'
<1>1. /\ thread[t].step = "migrate" /\ Goto(t, Idle)
      /\ UNCHANGED <<applied, recorded, started, ended>>
  BY DEF MigrationRaises
<1>2. ~ Leads(thread[t], recorded, applied)
  <2>1. thread[t].at \in Nat
    BY <1>1, MigratingFacts
  <2>2. \/ <<thread[t].version, thread[t].at>> \in applied
        \/ thread[t].version \in recorded
    BY DEF MigrationRaises, Fails
  <2>3. ASSUME NEW n \in Nat
        PROVE  ~ (n < n)
    OBVIOUS
  <2> QED  BY <2>1, <2>2, <2>3 DEF Leads
<1>3. started
  BY <1>1, BusyIsStarted DEF Idle
<1> QED  BY <1>1, <1>2, <1>3, LeaderGoto

\* Threads past the migrations, and ends.
LEMMA LeaderOther ==
    ASSUME TypeOK, LeaderInv, NEW t \in Threads,
           \/ ReadManifests(t) \/ ReadRaises(t) \/ WriteProjection(t)
           \/ RebuildRequested(t) \/ ToolEnds(t)
           \/ \E w \in Workers, manifest \in Manifests : Register(t, w, manifest)
    PROVE  LeaderInv'
<1>1. PICK s : Goto(t, s)
  BY DEF ReadManifests, ReadRaises, WriteProjection, RebuildRequested, ToolEnds, Register
<1>2. UNCHANGED <<applied, recorded, started>>
  BY DEF ReadManifests, ReadRaises, WriteProjection, RebuildRequested, ToolEnds, Register
<1>3. serving \/ thread[t] # Idle
  BY DEF ReadManifests, ReadRaises, WriteProjection, RebuildRequested, ToolEnds, Register,
         Idle
<1>4. started
  BY <1>3, BusyIsStarted
<1>5. (ended' = ended /\ ~ Leads(thread[t], recorded, applied)) \/ ended' # 0
  <2>1. CASE ToolEnds(t)
    BY <2>1, StartupAssumption DEF ToolEnds, TypeOK
  <2>2. CASE ~ ToolEnds(t)
    BY <2>2 DEF ReadManifests, ReadRaises, WriteProjection, RebuildRequested, Register,
                Leads, Idle
  <2> QED  BY <2>1, <2>2
<1> QED  BY <1>1, <1>2, <1>4, <1>5, LeaderGoto

LEMMA LeaderStep == TypeOK /\ StartupInv /\ LeaderInv /\ [Next]_vars => LeaderInv'
<1> SUFFICES ASSUME TypeOK, StartupInv, LeaderInv, [Next]_vars
             PROVE  LeaderInv'
  OBVIOUS
<1>1. CASE UNCHANGED vars
  BY <1>1 DEF vars, LeaderInv, InOrder, Quiet, Leads
<1>2. ASSUME NEW t \in Threads, Continue(t)
      PROVE  LeaderInv'
  BY <1>2, LeaderRun, LeaderRecord, LeaderRaises, LeaderOther DEF Continue
<1>3. ASSUME ServerEnds
      PROVE  LeaderInv'
  <2>1. started
    BY <1>3, BusyIsStarted DEF ServerEnds, Idle
  <2>2. ended' # 0 /\ UNCHANGED <<applied, recorded, started>>
    BY <1>3 DEF ServerEnds, TypeOK
  <2> QED  BY <2>1, <2>2 DEF LeaderInv, InOrder
<1> QED  BY <1>1, <1>2, <1>3, LeaderBegin, LeaderOther DEF Next

LEMMA LeaderInit == Init => LeaderInv
  BY DEF Init, LeaderInv, InOrder, Quiet

\* For any scripts and any number of processes that start at the same time
\* and make each other fail, one of them completes the schema: only a process
\* that ended in the middle leaves it incomplete.
THEOREM SchemaIsCompleted == Spec => []StartsMigrate
<1>1. TypeOK /\ LeaderInv => StartsMigrate
  <2> SUFFICES ASSUME TypeOK, LeaderInv, Quiet, started, ended = 0
               PROVE  recorded = Versions
    BY DEF StartsMigrate
  <2>1. \A t \in Threads : ~ Leads(thread[t], recorded, applied)
    BY DEF Quiet, Leads, Idle
  <2> QED  BY <2>1 DEF LeaderInv, TypeOK
<1>2. Spec => []LeaderInv
  BY StartupHolds, LeaderInit, LeaderStep, PTL DEF Spec
<1> QED  BY <1>1, <1>2, StartupHolds, PTL

=============================================================================
