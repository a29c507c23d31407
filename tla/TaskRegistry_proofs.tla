------------------------- MODULE TaskRegistry_proofs -------------------------
(***************************************************************************)
(* For any number of tasks, clients, permits and ticks: no admission or    *)
(* worker permit is lost or returned twice, no job is executed twice, and  *)
(* the answers that clients get about a registered task are true and       *)
(* always the same.                                                        *)
(***************************************************************************)
EXTENDS TaskRegistry, FiniteSetTheorems, TLAPS

-----------------------------------------------------------------------------
(* The inductive invariant, in parts. *)

Types ==
  /\ now \in Nat
  /\ create \in [Tasks -> {"new", "registered", "created", "refused"}]
  /\ registry \in SUBSET Tasks
  /\ deadline \in [Tasks -> Nat]
  /\ state \in [Tasks -> States]
  /\ result \in [Tasks -> Results \cup {None}]
  /\ encoded \in [Tasks -> Bodies \cup {None}]
  /\ admission \in Nat
  /\ queue \in Seq(Tasks)
  /\ hand \in Tasks \cup {None}
  /\ permits \in Nat
  /\ run \in [Tasks -> Permitted \cup {"none", "ended"}]
  /\ poll \in [Clients -> [task : Tasks \cup {None}, outcome : Bodies \cup {None}]]
  /\ told \in [Tasks -> SUBSET Bodies]

(* Before it is created a task is nowhere but in the registry. *)
Uncreated == \A t \in Tasks :
  /\ create[t] = "new" => t \notin registry
  /\ create[t] # "created" => /\ run[t] = "none"
                              /\ t # hand
                              /\ \A i \in DOMAIN queue : queue[i] # t

AdmissionInv == /\ IsFiniteSet(Living)
                /\ admission + Cardinality(Living) = AdmissionCap

PermitsInv == /\ IsFiniteSet(Executing)
              /\ permits + Cardinality(Executing) = WorkerCap

(* The result is set once, before the state that announces it. *)
ResultInv == \A t \in Tasks :
  /\ run[t] \in {"none", "spawned", "found", "exec"} => result[t] = None
  /\ run[t] \in {"none", "spawned", "found"} => state[t] = "QUEUED"
  /\ run[t] = "exec" => state[t] = "PROCESSING"
  /\ run[t] = "set" => state[t] = "PROCESSING" /\ result[t] # None
  /\ state[t] = "READY" => result[t] = "value"
  /\ state[t] = "FAILED" => result[t] \in Results

(* What a client was told or is about to be told about t is true of it. *)
TrueOf(t, b) == /\ create[t] # "new"
                /\ IF b = "expired" THEN ~Alive(t) ELSE result[t] = b

ToldInv == \A t \in Tasks :
  /\ told[t] \subseteq {encoded[t]}
  /\ encoded[t] # None => TrueOf(t, encoded[t])
  /\ \A c \in Clients : poll[c].task = t => poll[c].outcome \in Bodies /\ TrueOf(t, poll[c].outcome)

RegistryInv == Types /\ Uncreated /\ Once /\ AdmissionInv /\ PermitsInv /\ ResultInv /\ ToldInv

LEMMA RegistryInit == Init => RegistryInv
<1> SUFFICES ASSUME Init PROVE RegistryInv
  OBVIOUS
<1> USE RegistryAssumption DEF Init
<1>1. Types
  BY DEF Types, States, Permitted, Referring
<1>2. Uncreated /\ Once
  BY DEF Uncreated, Once
<1>3. Living = {} /\ Executing = {}
  BY DEF Living, Referred, Executing, Permitted, Referring
<1>4. AdmissionInv /\ PermitsInv
  BY <1>3, FS_EmptySet DEF AdmissionInv, PermitsInv
<1>5. ResultInv /\ ToldInv
  BY DEF ResultInv, ToldInv, States
<1>6. QED
  BY <1>1, <1>2, <1>4, <1>5 DEF RegistryInv

-----------------------------------------------------------------------------
(* The types and the result need no other part than themselves; a permit   *)
(* that is returned is a natural number as it was.                         *)
LEMMA TypesStep == RegistryInv /\ [Next]_vars => Types'
<1> SUFFICES ASSUME RegistryInv, [Next]_vars PROVE Types'
  OBVIOUS
<1> USE RegistryAssumption DEF RegistryInv, Types
<1>1. CASE Tick
  BY <1>1 DEF Tick, recVars, queueVars, clientVars
<1>2. CASE Receive
  BY <1>2 DEF Receive, recVars, clientVars
<1>3. CASE Spawn
  BY <1>3 DEF Spawn, recVars, clientVars, Permitted
<1>4. ASSUME NEW t \in Tasks, Admit(t) PROVE Types'
  <2>1. CASE admission = 0
    <3>1. create' \in [Tasks -> {"new", "registered", "created", "refused"}]
      <4>1. create' = [create EXCEPT ![t] = "refused"]
        BY <1>4, <2>1 DEF Admit
      <4>2. create \in [Tasks -> {"new", "registered", "created", "refused"}]
        OBVIOUS
      <4>3. QED
        BY <4>1, <4>2
    <3>2. UNCHANGED <<now, registry, recVars, admission, queueVars, permits, run, clientVars>>
      BY <1>4, <2>1 DEF Admit, recVars
    <3>3. QED
      BY <3>1, <3>2 DEF recVars, queueVars, clientVars
  <2>2. CASE admission # 0
    <3>1. admission - 1 \in Nat /\ now + Ttl \in Nat
      BY <2>2
    <3>2. admission' \in Nat /\ registry' \in SUBSET Tasks /\ deadline' \in [Tasks -> Nat]
      BY <1>4, <2>2, <3>1 DEF Admit
    <3>3. QED
      BY <1>4, <2>2, <3>2 DEF Admit, queueVars, clientVars
  <2>3. QED
    BY <2>1, <2>2
<1>5. ASSUME NEW t \in Tasks, Enqueue(t) PROVE Types'
  <2>1. CASE Len(queue) < AdmissionCap
    <3>1. create' = [create EXCEPT ![t] = "created"] /\ queue' = Append(queue, t)
      BY <1>5, <2>1 DEF Enqueue
    <3>2. create' \in [Tasks -> {"new", "registered", "created", "refused"}]
      BY <3>1
    <3>3. queue' \in Seq(Tasks)
      BY <3>1
    <3>4. QED
      BY <1>5, <2>1, <3>2, <3>3 DEF Enqueue, recVars, clientVars
  <2>2. CASE ~(Len(queue) < AdmissionCap)
    <3>1. admission' \in Nat
      BY <1>5, <2>2 DEF Enqueue, Released
    <3>2. QED
      BY <1>5, <2>2, <3>1 DEF Enqueue, recVars, clientVars
  <2>3. QED
    BY <2>1, <2>2
<1>6. ASSUME NEW t \in Tasks, RunStep(t) PROVE Types'
  <2>1. CASE Find(t)
    BY <2>1 DEF Find, Goto, recVars, queueVars, clientVars, Permitted, Referring
  <2>2. CASE Skip(t)
    BY <2>2 DEF Skip, Goto, recVars, queueVars, clientVars
  <2>3. CASE Process(t)
    BY <2>3 DEF Process, Goto, queueVars, clientVars, Permitted, Referring, States
  <2>4. CASE Finish(t)
    BY <2>4 DEF Finish, Goto, queueVars, clientVars, Permitted, Referring, Results
  <2>5. CASE Store(t)
    BY <2>5 DEF Store, Goto, queueVars, clientVars, Permitted, Referring, States
  <2>6. CASE Leave(t)
    BY <2>6 DEF Leave, Goto, recVars, queueVars, clientVars, Released
  <2>7. QED
    BY <1>6, <2>1, <2>2, <2>3, <2>4, <2>5, <2>6 DEF RunStep
<1>7. ASSUME NEW t \in Tasks, Sweep(t) PROVE Types'
  BY <1>7 DEF Sweep, recVars, queueVars, clientVars, Released
<1>8. ASSUME NEW c \in Clients, NEW t \in Tasks, Ask(c, t) PROVE Types'
  <2>1. Outcome(t) \in Bodies
    BY <1>8 DEF Ask, Outcome, ResultInv, States, Bodies, Results
  <2>2. QED
    BY <1>8, <2>1 DEF Ask, recVars, queueVars
<1>9. ASSUME NEW c \in Clients, Answer(c) PROVE Types'
  <2>1. poll[c].task \in Tasks /\ poll[c].outcome \in Bodies
    BY <1>9 DEF Answer, ToldInv
  <2>2. Encode(poll[c].task, poll[c].outcome) \in Bodies
    BY <2>1 DEF Encode
  <2>3. encoded' \in [Tasks -> Bodies \cup {None}]
    BY <1>9, <2>1, <2>2 DEF Answer
  <2>4. told' \in [Tasks -> SUBSET Bodies]
    <3>1. CASE poll[c].task \in registry
      <4>1. encoded'[poll[c].task] \in Bodies
        <5>1. encoded' = [encoded EXCEPT ![poll[c].task] = Encode(poll[c].task, poll[c].outcome)]
          BY <1>9, <3>1 DEF Answer
        <5>2. QED
          BY <2>1, <2>2, <5>1
      <4>2. told' = [told EXCEPT ![poll[c].task] = @ \cup {encoded'[poll[c].task]}]
        BY <1>9, <3>1 DEF Answer
      <4>3. QED
        BY <2>1, <4>1, <4>2
    <3>2. CASE poll[c].task \notin registry
      BY <1>9, <3>2 DEF Answer
    <3>3. QED
      BY <3>1, <3>2
  <2>5. poll' \in [Clients -> [task : Tasks \cup {None}, outcome : Bodies \cup {None}]]
    <3>1. [task |-> None, outcome |-> None] \in [task : Tasks \cup {None}, outcome : Bodies \cup {None}]
      OBVIOUS
    <3>2. QED
      BY <1>9, <3>1 DEF Answer
  <2>6. QED
    BY <1>9, <2>3, <2>4, <2>5 DEF Answer, queueVars
<1>10. CASE UNCHANGED vars
  BY <1>10 DEF vars, recVars, queueVars, clientVars
<1>11. QED
  BY <1>1, <1>2, <1>3, <1>4, <1>5, <1>6, <1>7, <1>8, <1>9, <1>10 DEF Next

-----------------------------------------------------------------------------
(* What a step of an execution leaves alone, and where it may be. *)
LEMMA RunStepFrame ==
  ASSUME Types, NEW t \in Tasks, RunStep(t)
  PROVE  /\ UNCHANGED <<now, create, registry, deadline, encoded, queue, hand, poll, told>>
         /\ run[t] \in Permitted /\ run'[t] \in Referring \cup {"ended"}
         /\ run' = [run EXCEPT ![t] = run'[t]]
<1> USE DEF Types, Goto, queueVars, clientVars, recVars, Permitted, Referring
<1>1. CASE Find(t)
  BY <1>1 DEF Find
<1>2. CASE Skip(t)
  BY <1>2 DEF Skip
<1>3. CASE Process(t)
  BY <1>3 DEF Process
<1>4. CASE Finish(t)
  BY <1>4 DEF Finish
<1>5. CASE Store(t)
  BY <1>5 DEF Store
<1>6. CASE Leave(t)
  BY <1>6 DEF Leave
<1>7. QED
  BY <1>1, <1>2, <1>3, <1>4, <1>5, <1>6 DEF RunStep

(* A job moves from the queue to the hand to its execution: only Enqueue,  *)
(* Receive and Spawn move it, each to a place where it was not.            *)
LEMMA OnceStep == RegistryInv /\ [Next]_vars => (Uncreated /\ Once)'
<1> SUFFICES ASSUME RegistryInv, [Next]_vars PROVE (Uncreated /\ Once)'
  OBVIOUS
<1>0. Types /\ Uncreated /\ Once
  BY DEF RegistryInv
<1>a. ASSUME UNCHANGED <<create, registry, queue, hand, run>> PROVE (Uncreated /\ Once)'
  BY <1>0, <1>a DEF Uncreated, Once
<1>1. CASE Tick
  BY <1>1, <1>a DEF Tick, queueVars
<1>2. CASE Receive
  <2> DEFINE n == Len(queue)
  <2>1. n \in Nat \ {0} /\ DOMAIN queue = 1 .. n /\ \A i \in 1 .. n : queue[i] \in Tasks
    BY <1>0, <1>2 DEF Receive, Types
  <2>2. DOMAIN queue' = 1 .. n - 1 /\ \A i \in 1 .. n - 1 : queue'[i] = queue[i + 1]
    BY <1>0, <1>2, <2>1 DEF Receive, Types
  <2>3. hand' = queue[1] /\ UNCHANGED <<create, registry, run>>
    BY <1>0, <1>2 DEF Receive, Types
  <2> HIDE DEF n
  <2>4. 1 \in 1 .. n /\ \A i \in 1 .. n - 1 : i + 1 \in 1 .. n /\ i + 1 # 1
    BY <2>1
  <2>5. \A i, j \in 1 .. n - 1 : i + 1 = j + 1 => i = j
    BY <2>1
  <2>6. Uncreated'
    BY <1>0, <2>1, <2>2, <2>3, <2>4 DEF Uncreated
  <2>7. Once'
    <3>1. \A i, j \in 1 .. n - 1 : queue'[i] = queue'[j] => i = j
      <4>1. \A i, j \in 1 .. n : queue[i] = queue[j] => i = j
        BY <1>0, <2>1 DEF Once
      <4>2. QED
        BY <2>2, <2>4, <2>5, <4>1
    <3>2. \A i \in 1 .. n - 1 : queue'[i] # hand'
      BY <1>0, <2>1, <2>2, <2>3, <2>4 DEF Once
    <3>3. \A t \in Tasks : run[t] # "none" => t # hand' /\ \A i \in 1 .. n - 1 : queue'[i] # t
      BY <1>0, <2>1, <2>2, <2>3, <2>4 DEF Once
    <3>4. QED
      BY <2>2, <2>3, <2>6, <3>1, <3>2, <3>3 DEF Once, Uncreated
  <2>8. QED
    BY <2>6, <2>7
<1>3. CASE Spawn
  <2>1. \A t \in Tasks : run'[t] = IF t = hand THEN "spawned" ELSE run[t]
    BY <1>0, <1>3 DEF Spawn, Types
  <2>2. hand' = None /\ UNCHANGED <<create, registry, queue>> /\ None \notin Tasks /\ hand \in Tasks
    BY <1>3, RegistryAssumption DEF Spawn
  <2>3. \A i \in DOMAIN queue : queue[i] \in Tasks
    BY <1>0 DEF Types
  <2>4. Uncreated'
    BY <1>0, <2>1, <2>2 DEF Uncreated
  <2>5. Once'
    BY <1>0, <2>1, <2>2, <2>3 DEF Once
  <2>6. QED
    BY <2>4, <2>5
<1>4. ASSUME NEW t \in Tasks, Admit(t) PROVE (Uncreated /\ Once)'
  <2>1. create'[t] \in {"refused", "registered"} /\ create[t] = "new"
    BY <1>0, <1>4 DEF Admit, Types
  <2>2. \A u \in Tasks : u # t => create'[u] = create[u] /\ (u \in registry' <=> u \in registry)
    BY <1>0, <1>4 DEF Admit, Types
  <2>3. UNCHANGED <<queue, hand, run>>
    BY <1>4 DEF Admit, queueVars
  <2>4. Uncreated'
    BY <1>0, <2>1, <2>2, <2>3 DEF Uncreated
  <2>5. Once'
    BY <1>0, <2>1, <2>2, <2>3 DEF Once
  <2>6. QED
    BY <2>4, <2>5
<1>5. ASSUME NEW t \in Tasks, Enqueue(t) PROVE (Uncreated /\ Once)'
  <2>1. create'[t] \in {"refused", "created"} /\ create[t] = "registered"
    BY <1>0, <1>5 DEF Enqueue, Types
  <2>2. \A u \in Tasks : u # t => create'[u] = create[u] /\ (u \in registry' <=> u \in registry)
    BY <1>0, <1>5 DEF Enqueue, Types
  <2>3. UNCHANGED <<hand, run>>
    BY <1>5 DEF Enqueue
  <2>4. run[t] = "none" /\ t # hand /\ \A i \in DOMAIN queue : queue[i] # t
    BY <1>0, <2>1 DEF Uncreated
  <2>5. CASE queue' = queue /\ create'[t] = "refused"
    <3>1. Uncreated'
      BY <1>0, <2>1, <2>2, <2>3, <2>4, <2>5 DEF Uncreated
    <3>2. Once'
      BY <1>0, <2>1, <2>2, <2>3, <2>4, <2>5 DEF Once
    <3>3. QED
      BY <3>1, <3>2
  <2>6. CASE queue' = Append(queue, t) /\ create'[t] = "created"
    <3> DEFINE n == Len(queue)
    <3>1. n \in Nat /\ DOMAIN queue = 1 .. n /\ DOMAIN queue' = 1 .. n + 1
      BY <1>0, <2>6 DEF Types
    <3>2. queue'[n + 1] = t /\ \A i \in 1 .. n : queue'[i] = queue[i]
      BY <1>0, <2>6 DEF Types
    <3> HIDE DEF n
    <3>3. \A i \in 1 .. n + 1 : i # n + 1 => i \in 1 .. n
      BY <3>1
    <3>4. Uncreated'
      BY <1>0, <2>1, <2>2, <2>3, <2>4, <2>6, <3>1, <3>2, <3>3 DEF Uncreated
    <3>5. Once'
      BY <1>0, <2>1, <2>2, <2>3, <2>4, <2>6, <3>1, <3>2, <3>3 DEF Once
    <3>6. QED
      BY <3>4, <3>5
  <2>7. QED
    BY <1>0, <1>5, <2>5, <2>6 DEF Enqueue, Types
<1>6. ASSUME NEW t \in Tasks, RunStep(t) PROVE (Uncreated /\ Once)'
  <2>1. UNCHANGED <<create, registry, queue, hand>>
    BY <1>0, <1>6, RunStepFrame
  <2>2. \A u \in Tasks : run'[u] = "none" <=> run[u] = "none"
    BY <1>0, <1>6, RunStepFrame DEF Types, Permitted, Referring
  <2>3. Uncreated'
    BY <1>0, <2>1, <2>2 DEF Uncreated
  <2>4. Once'
    BY <1>0, <2>1, <2>2 DEF Once
  <2>5. QED
    BY <2>3, <2>4
<1>7. ASSUME NEW t \in Tasks, Sweep(t) PROVE (Uncreated /\ Once)'
  <2>1. UNCHANGED <<create, queue, hand, run>> /\ registry' = registry \ {t}
    BY <1>7 DEF Sweep, queueVars
  <2>2. QED
    BY <1>0, <2>1 DEF Uncreated, Once
<1>8. ASSUME NEW c \in Clients, NEW t \in Tasks, Ask(c, t) PROVE (Uncreated /\ Once)'
  BY <1>8, <1>a DEF Ask, queueVars
<1>9. ASSUME NEW c \in Clients, Answer(c) PROVE (Uncreated /\ Once)'
  BY <1>9, <1>a DEF Answer, queueVars
<1>10. CASE UNCHANGED vars
  BY <1>10, <1>a DEF vars, queueVars
<1>11. QED
  BY <1>1, <1>2, <1>3, <1>4, <1>5, <1>6, <1>7, <1>8, <1>9, <1>10 DEF Next

-----------------------------------------------------------------------------
(* A record is born with a permit taken, and the step that drops the last  *)
(* reference returns one; no other step changes either.                    *)
LEMMA AdmissionStep == RegistryInv /\ [Next]_vars => AdmissionInv'
<1> SUFFICES ASSUME RegistryInv, [Next]_vars PROVE AdmissionInv'
  OBVIOUS
<1>0. Types /\ Uncreated /\ Once /\ AdmissionInv /\ AdmissionCap \in Nat
  BY RegistryAssumption DEF RegistryInv
<1>a. ASSUME Living' = Living, admission' = admission PROVE AdmissionInv'
  BY <1>0, <1>a DEF AdmissionInv
<1>b. ASSUME UNCHANGED <<registry, run, admission>> PROVE AdmissionInv'
  BY <1>a, <1>b DEF Living, Referred
<1>c. ASSUME NEW t \in Living, Living' = Living \ {t}, admission' = admission + 1 PROVE AdmissionInv'
  <2>1. IsFiniteSet(Living') /\ Cardinality(Living') = Cardinality(Living) - 1 /\ Cardinality(Living) \in Nat
    BY <1>0, <1>c, FS_RemoveElement, FS_CardinalityType DEF AdmissionInv
  <2>2. QED
    BY <1>0, <1>c, <2>1 DEF AdmissionInv, Types
(* A step of one task that leaves the other records referred to as before. *)
<1>d. ASSUME NEW t \in Tasks, NEW refers \in BOOLEAN,
             \A u \in Tasks \ {t} : Referred(u)' <=> Referred(u),
             Referred(t)' <=> Referred(t) /\ refers,
             admission' = Released(t, refers)
      PROVE  AdmissionInv'
  <2>1. CASE Referred(t) /\ ~refers
    <3>1. t \in Living /\ Living' = Living \ {t} /\ admission' = admission + 1
      BY <1>d, <2>1 DEF Living, Released
    <3>2. QED
      BY <1>c, <3>1
  <2>2. CASE ~(Referred(t) /\ ~refers)
    BY <1>a, <1>d, <2>2 DEF Living, Released
  <2>3. QED
    BY <2>1, <2>2
<1>1. CASE Tick
  BY <1>1, <1>b DEF Tick
<1>2. CASE Receive
  BY <1>2, <1>b DEF Receive
<1>3. CASE Spawn
  <2>1. run[hand] = "none" /\ hand \in Tasks
    BY <1>0, <1>3 DEF Spawn, Once
  <2>2. \A u \in Tasks : Referred(u)' <=> Referred(u)
    BY <1>0, <1>3, <2>1 DEF Spawn, Types, Referred, Referring
  <2>3. QED
    BY <1>3, <1>a, <2>2 DEF Spawn, Living
<1>4. ASSUME NEW t \in Tasks, Admit(t) PROVE AdmissionInv'
  <2>1. t \notin Living
    BY <1>0, <1>4 DEF Admit, Uncreated, Living, Referred, Referring
  <2>2. CASE admission = 0
    BY <1>4, <1>b, <2>2 DEF Admit
  <2>3. CASE admission # 0
    <3>1. Living' = Living \cup {t} /\ admission' = admission - 1
      BY <1>4, <2>3 DEF Admit, Living, Referred
    <3>2. IsFiniteSet(Living') /\ Cardinality(Living') = Cardinality(Living) + 1 /\ Cardinality(Living) \in Nat
      BY <1>0, <2>1, <3>1, FS_AddElement, FS_CardinalityType DEF AdmissionInv
    <3>3. QED
      BY <1>0, <2>3, <3>1, <3>2 DEF AdmissionInv, Types
  <2>4. QED
    BY <2>2, <2>3
<1>5. ASSUME NEW t \in Tasks, Enqueue(t) PROVE AdmissionInv'
  <2>1. CASE Len(queue) < AdmissionCap
    BY <1>5, <1>b, <2>1 DEF Enqueue
  <2>2. CASE ~(Len(queue) < AdmissionCap)
    <3>1. run' = run /\ run[t] = "none" /\ registry' = registry \ {t} /\ admission' = Released(t, FALSE)
      BY <1>0, <1>5, <2>2 DEF Enqueue, Uncreated
    <3>2. \A u \in Tasks \ {t} : Referred(u)' <=> Referred(u)
      BY <3>1 DEF Referred
    <3>3. ~Referred(t)'
      BY <3>1 DEF Referred, Referring
    <3>4. QED
      BY <1>d, <3>1, <3>2, <3>3
  <2>3. QED
    BY <2>1, <2>2
<1>6. ASSUME NEW t \in Tasks, RunStep(t) PROVE AdmissionInv'
  <2>1. registry' = registry /\ \A u \in Tasks \ {t} : Referred(u)' <=> Referred(u)
    BY <1>0, <1>6, RunStepFrame DEF Types, Referred
  <2>2. CASE Leave(t)
    <3>1. (Referred(t)' <=> Referred(t) /\ t \in registry) /\ admission' = Released(t, t \in registry)
      BY <1>0, <2>1, <2>2 DEF Leave, Goto, Types, Referred, Referring
    <3>2. (t \in registry) \in BOOLEAN
      OBVIOUS
    <3>3. QED
      BY <1>d, <2>1, <3>1, <3>2
  <2>3. CASE Find(t)
    <3>1. Referred(t)' /\ Referred(t) /\ admission' = admission
      BY <1>0, <2>3 DEF Find, Goto, Types, Referred, Referring
    <3>2. QED
      BY <1>a, <2>1, <3>1 DEF Living
  <2>4. CASE Skip(t)
    <3>1. (Referred(t)' <=> Referred(t)) /\ admission' = admission
      BY <1>0, <2>4 DEF Skip, Goto, Types, Referred, Referring
    <3>2. QED
      BY <1>a, <2>1, <3>1 DEF Living
  <2>5. CASE Process(t) \/ Finish(t) \/ Store(t)
    <3>1. Referred(t)' /\ Referred(t) /\ admission' = admission
      BY <1>0, <2>5 DEF Process, Finish, Store, Goto, Types, Referred, Referring
    <3>2. QED
      BY <1>a, <2>1, <3>1 DEF Living
  <2>6. QED
    BY <1>6, <2>2, <2>3, <2>4, <2>5 DEF RunStep
<1>7. ASSUME NEW t \in Tasks, Sweep(t) PROVE AdmissionInv'
  <2>1. run' = run /\ registry' = registry \ {t} /\ admission' = Released(t, run[t] \in Referring)
    BY <1>7 DEF Sweep
  <2>2. \A u \in Tasks \ {t} : Referred(u)' <=> Referred(u)
    BY <2>1 DEF Referred
  <2>3. (Referred(t)' <=> Referred(t) /\ run[t] \in Referring) /\ (run[t] \in Referring) \in BOOLEAN
    BY <2>1 DEF Referred
  <2>4. QED
    BY <1>d, <2>1, <2>2, <2>3
<1>8. ASSUME NEW c \in Clients, NEW t \in Tasks, Ask(c, t) PROVE AdmissionInv'
  BY <1>8, <1>b DEF Ask
<1>9. ASSUME NEW c \in Clients, Answer(c) PROVE AdmissionInv'
  BY <1>9, <1>b DEF Answer
<1>10. CASE UNCHANGED vars
  BY <1>10, <1>b DEF vars
<1>11. QED
  BY <1>1, <1>2, <1>3, <1>4, <1>5, <1>6, <1>7, <1>8, <1>9, <1>10 DEF Next

(* An execution takes a worker permit when it is spawned and returns it    *)
(* when it ends.                                                           *)
LEMMA PermitsStep == RegistryInv /\ [Next]_vars => PermitsInv'
<1> SUFFICES ASSUME RegistryInv, [Next]_vars PROVE PermitsInv'
  OBVIOUS
<1>0. Types /\ Once /\ PermitsInv /\ WorkerCap \in Nat
  BY RegistryAssumption DEF RegistryInv
<1>a. ASSUME Executing' = Executing, permits' = permits PROVE PermitsInv'
  BY <1>0, <1>a DEF PermitsInv
<1>b. ASSUME UNCHANGED <<run, permits>> PROVE PermitsInv'
  BY <1>a, <1>b DEF Executing
<1>1. CASE Spawn
  <2>1. Executing' = Executing \cup {hand} /\ hand \notin Executing /\ permits' = permits - 1 /\ permits > 0
    BY <1>0, <1>1 DEF Spawn, Once, Types, Executing, Permitted, Referring
  <2>2. IsFiniteSet(Executing') /\ Cardinality(Executing') = Cardinality(Executing) + 1 /\ Cardinality(Executing) \in Nat
    BY <1>0, <2>1, FS_AddElement, FS_CardinalityType DEF PermitsInv
  <2>3. QED
    BY <1>0, <2>1, <2>2 DEF PermitsInv, Types
<1>2. ASSUME NEW t \in Tasks, RunStep(t) PROVE PermitsInv'
  <2>1. CASE Skip(t) \/ Leave(t)
    <3>1. t \in Executing /\ Executing' = Executing \ {t} /\ permits' = permits + 1
      BY <1>0, <2>1 DEF Skip, Leave, Goto, Types, Executing, Permitted, Referring
    <3>2. IsFiniteSet(Executing') /\ Cardinality(Executing') = Cardinality(Executing) - 1 /\ Cardinality(Executing) \in Nat
      BY <1>0, <3>1, FS_RemoveElement, FS_CardinalityType DEF PermitsInv
    <3>3. QED
      BY <1>0, <3>1, <3>2 DEF PermitsInv, Types
  <2>2. CASE Find(t) \/ Process(t) \/ Finish(t) \/ Store(t)
    <3>1. run[t] \in Permitted /\ run'[t] \in Permitted /\ run' = [run EXCEPT ![t] = run'[t]] /\ permits' = permits
      BY <1>0, <2>2 DEF Find, Process, Finish, Store, Goto, Types, Permitted, Referring
    <3>2. Executing' = Executing
      BY <1>0, <3>1 DEF Types, Executing
    <3>3. QED
      BY <1>a, <3>1, <3>2
  <2>3. QED
    BY <1>2, <2>1, <2>2 DEF RunStep
<1>3. CASE Tick \/ Receive
  BY <1>3, <1>b DEF Tick, Receive
<1>4. ASSUME NEW t \in Tasks, Admit(t) \/ Enqueue(t) \/ Sweep(t) PROVE PermitsInv'
  BY <1>4, <1>b DEF Admit, Enqueue, Sweep
<1>5. ASSUME NEW c \in Clients, Answer(c) \/ \E t \in Tasks : Ask(c, t) PROVE PermitsInv'
  BY <1>5, <1>b DEF Answer, Ask
<1>6. CASE UNCHANGED vars
  BY <1>6, <1>b DEF vars
<1>7. QED
  BY <1>1, <1>2, <1>3, <1>4, <1>5, <1>6 DEF Next

-----------------------------------------------------------------------------
(* The state follows the execution, and the result is there before it.     *)
LEMMA ResultStep == RegistryInv /\ [Next]_vars => ResultInv'
<1> SUFFICES ASSUME RegistryInv, [Next]_vars PROVE ResultInv'
  OBVIOUS
<1>0. Types /\ Once /\ ResultInv
  BY DEF RegistryInv
<1>a. ASSUME UNCHANGED <<state, result, run>> PROVE ResultInv'
  BY <1>0, <1>a DEF ResultInv
<1>1. CASE Spawn
  <2>1. \A t \in Tasks : run'[t] = IF t = hand THEN "spawned" ELSE run[t]
    BY <1>0, <1>1 DEF Spawn, Types
  <2>2. hand \in Tasks /\ run[hand] = "none" /\ UNCHANGED <<state, result>>
    BY <1>0, <1>1 DEF Spawn, Once, recVars
  <2>3. QED
    BY <1>0, <2>1, <2>2 DEF ResultInv
<1>2. ASSUME NEW t \in Tasks, RunStep(t) PROVE ResultInv'
  <2>1. CASE Find(t) \/ Skip(t) \/ Leave(t)
    <3>1. UNCHANGED <<state, result>>
      BY <2>1 DEF Find, Skip, Leave, recVars
    <3>2. \/ run[t] = "spawned" /\ run' = [run EXCEPT ![t] = "found"]
          \/ run' = [run EXCEPT ![t] = "ended"]
      BY <2>1 DEF Find, Skip, Leave, Goto
    <3>3. QED
      BY <1>0, <3>1, <3>2 DEF Types, ResultInv
  <2>2. CASE Process(t)
    BY <1>0, <2>2 DEF Process, Goto, Types, ResultInv
  <2>3. CASE Finish(t)
    <3>1. PICK r \in Results : result' = [result EXCEPT ![t] = r]
      BY <2>3 DEF Finish, Results
    <3>2. r # None
      BY DEF Results, None
    <3>3. state' = state /\ run[t] = "exec" /\ run' = [run EXCEPT ![t] = "set"]
      BY <2>3 DEF Finish, Goto
    <3>4. QED
      BY <1>0, <3>1, <3>2, <3>3 DEF Types, ResultInv
  <2>4. CASE Store(t)
    <3>1. result' = result /\ run[t] = "set" /\ run' = [run EXCEPT ![t] = "stored"] /\ result[t] \in Results
      BY <1>0, <2>4 DEF Store, Goto, Types, ResultInv
    <3>2. state' = [state EXCEPT ![t] = IF result[t] = "value" THEN "READY" ELSE "FAILED"]
      BY <2>4 DEF Store
    <3>3. QED
      BY <1>0, <3>1, <3>2 DEF Types, ResultInv
  <2>5. QED
    BY <1>2, <2>1, <2>2, <2>3, <2>4 DEF RunStep
<1>3. CASE Tick \/ Receive
  BY <1>3, <1>a DEF Tick, Receive, recVars
<1>4. ASSUME NEW t \in Tasks, Admit(t) \/ Enqueue(t) \/ Sweep(t) PROVE ResultInv'
  BY <1>4, <1>a DEF Admit, Enqueue, Sweep, recVars
<1>5. ASSUME NEW c \in Clients, Answer(c) \/ \E t \in Tasks : Ask(c, t) PROVE ResultInv'
  BY <1>5, <1>a DEF Answer, Ask, recVars
<1>6. CASE UNCHANGED vars
  BY <1>6, <1>a DEF vars, recVars
<1>7. QED
  BY <1>1, <1>2, <1>3, <1>4, <1>5, <1>6 DEF Next

(* What is once true of a task stays true: its deadline is fixed when it   *)
(* is registered, the clock only advances, a result is set once.           *)
LEMMA TrueStays ==
  ASSUME RegistryInv, [Next]_vars, NEW t \in Tasks, NEW b \in Bodies, TrueOf(t, b)
  PROVE  TrueOf(t, b)'
<1>0. Types /\ Types' /\ ResultInv
  BY TypesStep DEF RegistryInv
<1> DEFINE Kept == create'[t] # "new" /\ deadline'[t] = deadline[t] /\ now' >= now
           SetOnce == result[t] # None => result'[t] = result[t]
<1>1. Kept
  <2> USE DEF TrueOf, Types, recVars
  <2>1. CASE Tick \/ Receive \/ Spawn
    BY <1>0, <2>1 DEF Tick, Receive, Spawn
  <2>2. ASSUME NEW u \in Tasks, Admit(u) PROVE Kept
    BY <1>0, <2>2 DEF Admit
  <2>3. ASSUME NEW u \in Tasks, Enqueue(u) PROVE Kept
    <3>1. UNCHANGED <<now, deadline>> /\ create'[u] # "new" /\ \A v \in Tasks \ {u} : create'[v] = create[v]
      BY <1>0, <2>3 DEF Enqueue
    <3>2. QED
      BY <1>0, <3>1
  <2>4. ASSUME NEW u \in Tasks, RunStep(u) PROVE Kept
    BY <1>0, <2>4, RunStepFrame
  <2>5. ASSUME NEW u \in Tasks, Sweep(u) PROVE Kept
    BY <1>0, <2>5 DEF Sweep
  <2>6. ASSUME NEW c \in Clients, Answer(c) \/ \E u \in Tasks : Ask(c, u) PROVE Kept
    BY <1>0, <2>6 DEF Answer, Ask
  <2>7. CASE UNCHANGED vars
    BY <1>0, <2>7 DEF vars
  <2>8. QED
    BY <2>1, <2>2, <2>3, <2>4, <2>5, <2>6, <2>7 DEF Next
<1>2. SetOnce
  <2> USE DEF Types, recVars
  <2>1. CASE Tick \/ Receive \/ Spawn \/ UNCHANGED vars
    BY <1>0, <2>1 DEF Tick, Receive, Spawn, vars
  <2>2. ASSUME NEW u \in Tasks, Admit(u) \/ Enqueue(u) \/ Sweep(u) PROVE SetOnce
    BY <1>0, <2>2 DEF Admit, Enqueue, Sweep
  <2>3. ASSUME NEW u \in Tasks, RunStep(u) PROVE SetOnce
    <3>1. CASE Finish(u)
      <4>1. run[u] = "exec" /\ \E r \in Results : result' = [result EXCEPT ![u] = r]
        BY <3>1 DEF Finish, Goto, Results
      <4>2. result[u] = None
        BY <1>0, <4>1 DEF ResultInv
      <4>3. QED
        BY <1>0, <4>1, <4>2
    <3>2. CASE Find(u) \/ Skip(u) \/ Process(u) \/ Store(u) \/ Leave(u)
      BY <3>2 DEF Find, Skip, Process, Store, Leave
    <3>3. QED
      BY <2>3, <3>1, <3>2 DEF RunStep
  <2>4. ASSUME NEW c \in Clients, Answer(c) \/ \E u \in Tasks : Ask(c, u) PROVE SetOnce
    BY <1>0, <2>4 DEF Answer, Ask
  <2>5. QED
    BY <2>1, <2>2, <2>3, <2>4 DEF Next
<1>3. b # None
  BY DEF Bodies, None
<1>4. now \in Nat /\ now' \in Nat /\ deadline[t] \in Nat
  BY <1>0 DEF Types
<1>5. QED
  BY <1>1, <1>2, <1>3, <1>4 DEF TrueOf, Alive

(* The answer that was encoded first is the one that stays. *)
LEMMA ToldStep == RegistryInv /\ [Next]_vars => ToldInv'
<1> SUFFICES ASSUME RegistryInv, [Next]_vars PROVE ToldInv'
  OBVIOUS
<1>0. Types /\ ResultInv /\ Uncreated /\ ToldInv /\ None \notin Tasks /\ None \notin Bodies
  BY RegistryAssumption DEF RegistryInv, Bodies, None
<1>t. \A t \in Tasks : \A b \in Bodies : TrueOf(t, b) => TrueOf(t, b)'
  BY TrueStays
<1>e. \A t \in Tasks : encoded[t] # None => \E b \in Bodies : b = encoded[t] /\ TrueOf(t, b)'
  <2> SUFFICES ASSUME NEW t \in Tasks, encoded[t] # None
               PROVE  \E b \in Bodies : b = encoded[t] /\ TrueOf(t, b)'
    OBVIOUS
  <2>1. encoded[t] \in Bodies /\ TrueOf(t, encoded[t])
    BY <1>0 DEF Types, ToldInv
  <2>2. PICK b \in Bodies : b = encoded[t]
    BY <2>1
  <2>3. TrueOf(t, b)'
    BY <1>t, <2>1, <2>2
  <2>4. QED
    BY <2>2, <2>3
<1>p. \A t \in Tasks, c \in Clients :
        poll[c].task = t => \E b \in Bodies : b = poll[c].outcome /\ TrueOf(t, b)'
  <2> SUFFICES ASSUME NEW t \in Tasks, NEW c \in Clients, poll[c].task = t
               PROVE  \E b \in Bodies : b = poll[c].outcome /\ TrueOf(t, b)'
    OBVIOUS
  <2>1. poll[c].outcome \in Bodies /\ TrueOf(t, poll[c].outcome)
    BY <1>0 DEF ToldInv
  <2>2. PICK b \in Bodies : b = poll[c].outcome
    BY <2>1
  <2>3. TrueOf(t, b)'
    BY <1>t, <2>1, <2>2
  <2>4. QED
    BY <2>2, <2>3
<1>a. ASSUME UNCHANGED <<encoded, poll, told>> PROVE ToldInv'
  <2> SUFFICES ASSUME NEW t \in Tasks
               PROVE  /\ told'[t] \subseteq {encoded'[t]}
                      /\ encoded'[t] # None => TrueOf(t, encoded[t])'
                      /\ \A c \in Clients : poll'[c].task = t =>
                           poll'[c].outcome \in Bodies /\ TrueOf(t, poll[c].outcome)'
    BY DEF ToldInv
  <2>1. told'[t] \subseteq {encoded'[t]}
    BY <1>0, <1>a DEF ToldInv
  <2>2. encoded'[t] # None => TrueOf(t, encoded[t])'
    BY <1>a, <1>e DEF TrueOf, Alive
  <2>3. ASSUME NEW c \in Clients, poll'[c].task = t
        PROVE  poll'[c].outcome \in Bodies /\ TrueOf(t, poll[c].outcome)'
    BY <1>a, <1>p, <2>3 DEF TrueOf, Alive
  <2>4. QED
    BY <2>1, <2>2, <2>3
<1>1. CASE Tick \/ Receive \/ Spawn
  BY <1>1, <1>a DEF Tick, Receive, Spawn, recVars, clientVars
<1>2. ASSUME NEW t \in Tasks, Admit(t) \/ Enqueue(t) \/ Sweep(t) PROVE ToldInv'
  BY <1>2, <1>a DEF Admit, Enqueue, Sweep, recVars, clientVars
<1>3. ASSUME NEW t \in Tasks, RunStep(t) PROVE ToldInv'
  BY <1>0, <1>3, <1>a, RunStepFrame
<1>4. ASSUME NEW c \in Clients, NEW t \in Tasks, Ask(c, t) PROVE ToldInv'
  <2>1. poll' = [poll EXCEPT ![c] = [task |-> t, outcome |-> Outcome(t)]]
    BY <1>4 DEF Ask
  <2>2. UNCHANGED <<now, create, deadline, result, encoded, told>>
    BY <1>4 DEF Ask, recVars
  <2>3. Outcome(t) \in Bodies /\ TrueOf(t, Outcome(t))
    <3>1. create[t] = "created" /\ Outcome(t) # "processing" /\ state[t] \in States
      BY <1>0, <1>4 DEF Ask, Types
    <3>2. now \in Nat /\ deadline[t] \in Nat
      BY <1>0 DEF Types
    <3>3. CASE state[t] \in {"QUEUED", "PROCESSING"}
      BY <3>1, <3>3 DEF Outcome, TrueOf, Bodies
    <3>4. CASE state[t] = "FAILED"
      BY <1>0, <3>1, <3>4 DEF Outcome, TrueOf, Bodies, Results, ResultInv
    <3>5. CASE state[t] = "READY"
      <4>1. result[t] = "value" /\ (now > deadline[t] => ~Alive(t))
        BY <1>0, <3>2, <3>5 DEF ResultInv, Alive
      <4>2. Outcome(t) = IF now > deadline[t] THEN "expired" ELSE "value"
        BY <3>5, <4>1 DEF Outcome
      <4>3. QED
        BY <3>1, <4>1, <4>2 DEF TrueOf, Bodies
    <3>6. QED
      BY <3>1, <3>3, <3>4, <3>5 DEF States
  <2>4. PICK b \in Bodies : b = Outcome(t) /\ TrueOf(t, b)'
    BY <2>2, <2>3 DEF TrueOf, Alive
  <2> SUFFICES ASSUME NEW u \in Tasks
               PROVE  /\ told'[u] \subseteq {encoded'[u]}
                      /\ encoded'[u] # None => TrueOf(u, encoded[u])'
                      /\ \A d \in Clients : poll'[d].task = u =>
                           poll'[d].outcome \in Bodies /\ TrueOf(u, poll[d].outcome)'
    BY DEF ToldInv
  <2>5. told'[u] \subseteq {encoded'[u]}
    BY <1>0, <2>2 DEF ToldInv
  <2>6. encoded'[u] # None => TrueOf(u, encoded[u])'
    BY <2>2, <1>e DEF TrueOf, Alive
  <2>7. ASSUME NEW d \in Clients, poll'[d].task = u
        PROVE  poll'[d].outcome \in Bodies /\ TrueOf(u, poll[d].outcome)'
    <3>1. CASE d = c
      <4>1. poll'[d] = [task |-> t, outcome |-> Outcome(t)]
        BY <1>0, <2>1, <3>1 DEF Types
      <4>2. u = t /\ poll'[d].outcome = b
        BY <2>4, <2>7, <4>1
      <4>3. QED
        BY <2>4, <4>2 DEF TrueOf, Alive
    <3>2. CASE d # c
      <4>1. poll'[d] = poll[d]
        BY <1>0, <2>1, <3>2 DEF Types
      <4>2. QED
        BY <1>p, <2>7, <4>1 DEF TrueOf, Alive
    <3>3. QED
      BY <3>1, <3>2
  <2>8. QED
    BY <2>5, <2>6, <2>7
<1>5. ASSUME NEW c \in Clients, Answer(c) PROVE ToldInv'
  <2>0. poll[c].task \in Tasks /\ poll[c].outcome \in Bodies
    BY <1>0, <1>5 DEF Answer, Types, ToldInv
  <2>1. PICK t \in Tasks, o \in Bodies : t = poll[c].task /\ o = poll[c].outcome
    BY <2>0
  <2>2. poll' = [poll EXCEPT ![c] = [task |-> None, outcome |-> None]]
    BY <1>5 DEF Answer
  <2>3. CASE t \notin registry
    <3>1. UNCHANGED <<encoded, told>>
      BY <1>5, <2>1, <2>3 DEF Answer
    <3>2. \A u \in Tasks, d \in Clients : poll'[d].task = u => poll'[d] = poll[d]
      BY <1>0, <2>2 DEF Types
    <3> SUFFICES ASSUME NEW u \in Tasks
                 PROVE  /\ told'[u] \subseteq {encoded'[u]}
                        /\ encoded'[u] # None => TrueOf(u, encoded[u])'
                        /\ \A d \in Clients : poll'[d].task = u =>
                             poll'[d].outcome \in Bodies /\ TrueOf(u, poll[d].outcome)'
      BY DEF ToldInv
    <3>3. told'[u] \subseteq {encoded'[u]}
      BY <1>0, <3>1 DEF ToldInv
    <3>4. encoded'[u] # None => TrueOf(u, encoded[u])'
      BY <1>e, <3>1 DEF TrueOf, Alive
    <3>5. ASSUME NEW d \in Clients, poll'[d].task = u
          PROVE  poll'[d].outcome \in Bodies /\ TrueOf(u, poll[d].outcome)'
      BY <1>p, <3>2, <3>5 DEF TrueOf, Alive
    <3>6. QED
      BY <3>3, <3>4, <3>5
  <2>4. CASE t \in registry
    <3>1. /\ encoded' = [encoded EXCEPT ![t] = Encode(t, o)]
          /\ told' = [told EXCEPT ![t] = @ \cup {encoded'[t]}]
      BY <1>5, <2>1, <2>4 DEF Answer
    <3>2. \E b \in Bodies : b = Encode(t, o) /\ TrueOf(t, b)'
      <4>1. CASE encoded[t] = None
        <5>1. Encode(t, o) = o
          BY <4>1 DEF Encode
        <5>2. PICK b \in Bodies : b = o /\ TrueOf(t, b)'
          BY <1>p, <2>1
        <5>3. QED
          BY <5>1, <5>2
      <4>2. CASE encoded[t] # None
        <5>1. Encode(t, o) = encoded[t]
          BY <4>2 DEF Encode
        <5>2. PICK b \in Bodies : b = encoded[t] /\ TrueOf(t, b)'
          BY <1>e, <2>1, <4>2
        <5>3. QED
          BY <5>1, <5>2
      <4>3. QED
        BY <4>1, <4>2
    <3>3. PICK e \in Bodies : e = Encode(t, o) /\ TrueOf(t, e)'
      BY <3>2
    <3>4. told[t] \subseteq {e}
      BY <1>0, <2>1, <3>3 DEF Encode, ToldInv, Types
    <3>5. \A u \in Tasks, d \in Clients : poll'[d].task = u => poll'[d] = poll[d]
      BY <1>0, <2>2 DEF Types
    <3>6. encoded'[t] = e /\ told'[t] \subseteq {e}
      BY <1>0, <2>1, <3>1, <3>3, <3>4 DEF Types
    <3>7. \A u \in Tasks : u # t => encoded'[u] = encoded[u] /\ told'[u] = told[u]
      BY <1>0, <3>1 DEF Types
    <3> SUFFICES ASSUME NEW u \in Tasks
                 PROVE  /\ told'[u] \subseteq {encoded'[u]}
                        /\ encoded'[u] # None => TrueOf(u, encoded[u])'
                        /\ \A d \in Clients : poll'[d].task = u =>
                             poll'[d].outcome \in Bodies /\ TrueOf(u, poll[d].outcome)'
      BY DEF ToldInv
    <3>8. told'[u] \subseteq {encoded'[u]}
      BY <1>0, <3>6, <3>7 DEF ToldInv
    <3>9. encoded'[u] # None => TrueOf(u, encoded[u])'
      <4>1. CASE u = t
        BY <3>3, <3>6, <4>1 DEF TrueOf, Alive
      <4>2. CASE u # t
        BY <1>e, <3>7, <4>2 DEF TrueOf, Alive
      <4>3. QED
        BY <4>1, <4>2
    <3>10. ASSUME NEW d \in Clients, poll'[d].task = u
           PROVE  poll'[d].outcome \in Bodies /\ TrueOf(u, poll[d].outcome)'
      BY <1>p, <3>5, <3>10 DEF TrueOf, Alive
    <3>11. QED
      BY <3>8, <3>9, <3>10
  <2>5. QED
    BY <2>3, <2>4
<1>6. CASE UNCHANGED vars
  BY <1>6, <1>a DEF vars, recVars, clientVars
<1>7. QED
  BY <1>1, <1>2, <1>3, <1>4, <1>5, <1>6 DEF Next

-----------------------------------------------------------------------------
THEOREM RegistryInvariant == Spec => []RegistryInv
<1>1. RegistryInv /\ [Next]_vars => RegistryInv'
  BY TypesStep, OnceStep, AdmissionStep, PermitsStep, ResultStep, ToldStep DEF RegistryInv
<1>2. QED
  BY RegistryInit, <1>1, PTL DEF Spec

LEMMA RegistryTypes == RegistryInv => TypeOK
<1> SUFFICES ASSUME RegistryInv PROVE TypeOK
  OBVIOUS
<1>1. Cardinality(Living) \in Nat /\ Cardinality(Executing) \in Nat
  BY FS_CardinalityType DEF RegistryInv, AdmissionInv, PermitsInv
<1>2. admission \in 0 .. AdmissionCap /\ permits \in 0 .. WorkerCap
  BY <1>1, RegistryAssumption DEF RegistryInv, AdmissionInv, PermitsInv, Types
<1>3. QED
  BY <1>2 DEF RegistryInv, Types, TypeOK

(* The records are well typed, and every permit is free or held: an        *)
(* admission permit by one living record, a worker permit by one execution *)
(* (task.rs:74, api.rs:61-173).                                            *)
THEOREM PermitsAreAccounted == Spec => []Accounted
<1>1. RegistryInv => AdmissionAccounted /\ PermitsAccounted
  BY DEF RegistryInv, AdmissionInv, PermitsInv, AdmissionAccounted, PermitsAccounted
<1>2. QED
  BY <1>1, RegistryTypes, RegistryInvariant, PTL DEF Accounted

(* No task is executed twice, none that create_task refused (api.rs:90-122). *)
THEOREM ExecutedOnce == Spec => []Once
<1>1. RegistryInv => Once
  BY DEF RegistryInv
<1>2. QED
  BY <1>1, RegistryInvariant, PTL

(* The terminal answers given about a registered task are all one answer,  *)
(* however the polls interleave with its end and with each other.          *)
LEMMA AllAnswersAgree == RegistryInv => OneAnswer
<1> SUFFICES ASSUME RegistryInv, NEW t \in Tasks PROVE Cardinality(told[t]) <= 1
  BY DEF OneAnswer
<1>1. told[t] \subseteq {encoded[t]}
  BY DEF RegistryInv, ToldInv
<1>2. told[t] = {} \/ told[t] = {encoded[t]}
  BY <1>1
<1>3. Cardinality({}) = 0 /\ Cardinality({encoded[t]}) = 1
  BY FS_EmptySet, FS_Singleton
<1>4. QED
  BY <1>2, <1>3

(* What a client was told is what the execution did.                       *)
LEMMA AnswersAreTrue == RegistryInv => AnswersTrue
<1> SUFFICES ASSUME RegistryInv, NEW t \in Tasks, NEW b \in Bodies, b \in told[t]
             PROVE  IF b = "expired" THEN ~Alive(t) ELSE result[t] = b
  BY DEF AnswersTrue
<1>1. encoded[t] = b /\ b # None
  BY DEF RegistryInv, ToldInv, Bodies, None
<1>2. TrueOf(t, b)
  BY <1>1 DEF RegistryInv, ToldInv
<1>3. QED
  BY <1>2 DEF TrueOf

(* All clients that poll a registered task are told one and the same true  *)
(* answer, however the polls interleave with its end (task.rs:94-130,      *)
(* api.rs:625-674).                                                        *)
THEOREM ClientsToldTheTruth == Spec => []OneTrueAnswer
<1>1. RegistryInv => OneTrueAnswer
  BY AllAnswersAgree, AnswersAreTrue DEF OneTrueAnswer
<1>2. QED
  BY <1>1, RegistryInvariant, PTL
=============================================================================
