---------------------------- MODULE WorkersProofs ----------------------------
(***************************************************************************)
(* What holds of Workers for any number of workers, admin requests and     *)
(* changes of the endpoint: a job runs in one worker at a time, catalogs   *)
(* go forward, and a check that comes late does not undo a newer verdict.  *)
(***************************************************************************)
EXTENDS Workers, FiniteSetTheorems, TLAPS

(***************************************************************************)
(* The lock of a job                                                       *)
(***************************************************************************)
Stage == {"idle", "locked", "starts", "works", "release", "broken"}

LockType ==
  /\ lock \in [Job -> Worker \cup {Nobody}]
  /\ due \in [Job -> BOOLEAN]
  /\ lost \subseteq Job
  /\ run \in [Worker -> [Job -> Stage]]

\* Unless a session was lost, a worker within a run of a job has its lock, be it in
\* a session that is broken, and who starts it found it due.
Holding ==
  \A j \in Job \ lost, w \in Worker :
    /\ run[w][j] # "idle" => lock[j] = w
    /\ run[w][j] = "starts" => due[j]

LockInv == LockType /\ Holding

\* A worker goes on with a job.
LEMMA AdvanceIs ==
  ASSUME LockType, NEW w \in Worker, NEW j \in Job, NEW from, NEW to \in Stage, Advance(w, j, from, to)
  PROVE  /\ run[w][j] = from /\ run'[w][j] = to /\ run' \in [Worker -> [Job -> Stage]]
         /\ \A v \in Worker, i \in Job : v # w \/ i # j => run'[v][i] = run[v][i]
  BY DEF LockType, Advance, RunsTo

\* What a session that ends leaves.
LEMMA SessionEndsIs ==
  ASSUME LockType, NEW w \in Worker, NEW j \in Job, SessionEnds(w, j)
  PROVE  /\ lock' \in [Job -> Worker \cup {Nobody}]
         /\ \A i \in Job : i # j => lock'[i] = lock[i]
  BY DEF LockType, SessionEnds

\* Jobs come to be without a loss when no other worker is in them.
LEMMA SettlesIs ==
  ASSUME NEW ws, NEW js, Settles(ws, js), NEW j \in Job, j \notin lost'
  PROVE  j \notin lost \/ (j \in js /\ \A v \in Worker \ ws : run[v][j] = "idle")
  BY DEF Settles

\* Every step of the maintenance jobs keeps the lock with who runs the job.
LEMMA LockStep ==
  ASSUME LockInv, MaintenanceNext
  PROVE  LockInv'
<1> USE DEF LockInv
<1>a. Nobody \notin Worker
  BY WorkersAssumption
<1>1. ASSUME NEW w \in Worker, NEW j \in Job, Acquire(w, j) \/ AcquireFails(w, j)
      PROVE  LockInv'
  <2>1. PICK to \in {"locked", "broken"} : Advance(w, j, "idle", to)
    BY <1>1 DEF Acquire, AcquireFails
  <2>2. lock[j] = Nobody /\ lock' = [lock EXCEPT ![j] = w] /\ UNCHANGED <<due, lost>>
    BY <1>1 DEF Acquire, AcquireFails
  <2>3. /\ run'[w][j] = to /\ run' \in [Worker -> [Job -> Stage]]
        /\ \A v \in Worker, i \in Job : v # w \/ i # j => run'[v][i] = run[v][i]
    BY <2>1, AdvanceIs DEF Stage
  <2>4. LockType'
    BY <2>2, <2>3 DEF LockType
  <2>5. Holding'
    BY <1>a, <2>2, <2>3 DEF Holding, LockType
  <2> QED
    BY <2>4, <2>5
<1>2. ASSUME NEW w \in Worker, NEW j \in Job,
             LooksIfDue(w, j) \/ StartFails(w, j) \/ Finishes(w, j) \/ ReleaseFails(w, j)
      PROVE  LockInv'
  <2>1. PICK from \in Stage \ {"idle"}, to \in Stage \ {"idle"} :
          Advance(w, j, from, to) /\ (to = "starts" => due[j])
    BY <1>2 DEF LooksIfDue, StartFails, Finishes, ReleaseFails, Stage
  <2>2. UNCHANGED <<lock, due, lost>>
    BY <1>2 DEF LooksIfDue, StartFails, Finishes, ReleaseFails
  <2>3. /\ run[w][j] = from /\ run'[w][j] = to /\ run' \in [Worker -> [Job -> Stage]]
        /\ \A v \in Worker, i \in Job : v # w \/ i # j => run'[v][i] = run[v][i]
    BY <2>1, AdvanceIs
  <2>4. LockType'
    BY <2>2, <2>3 DEF LockType
  <2>5. Holding'
    BY <2>1, <2>2, <2>3 DEF Holding
  <2> QED
    BY <2>4, <2>5
<1>3. ASSUME NEW w \in Worker, NEW j \in Job, Starts(w, j)
      PROVE  LockInv'
  <2>1. due' = [due EXCEPT ![j] = FALSE] /\ UNCHANGED <<lock, lost>> /\ Advance(w, j, "starts", "works")
    BY <1>3 DEF Starts
  <2>2. /\ run[w][j] = "starts" /\ run'[w][j] = "works" /\ run' \in [Worker -> [Job -> Stage]]
        /\ \A v \in Worker, i \in Job : v # w \/ i # j => run'[v][i] = run[v][i]
    BY <2>1, AdvanceIs DEF Stage
  <2>3. LockType'
    BY <2>1, <2>2 DEF LockType
  <2>4. \A v \in Worker : j \notin lost /\ v # w => run[v][j] = "idle"
    BY <2>2 DEF Holding
  <2>5. Holding'
    BY <2>1, <2>2, <2>4 DEF Holding, LockType
  <2> QED
    BY <2>3, <2>5
<1>4. ASSUME NEW w \in Worker, NEW j \in Job, Release(w, j) \/ Invalidate(w, j)
      PROVE  LockInv'
  <2>1. PICK from \in {"release", "broken"} : Advance(w, j, from, "idle")
    BY <1>4 DEF Release, Invalidate
  <2>2. SessionEnds(w, j) /\ Settles({w}, {j}) /\ due' = due
    BY <1>4 DEF Release, Invalidate
  <2>3. /\ run[w][j] = from /\ run'[w][j] = "idle" /\ run' \in [Worker -> [Job -> Stage]]
        /\ \A v \in Worker, i \in Job : v # w \/ i # j => run'[v][i] = run[v][i]
    BY <2>1, AdvanceIs DEF Stage
  <2>4. LockType'
    BY <2>2, <2>3, SessionEndsIs DEF LockType, Settles
  <2>5. ASSUME NEW i \in Job \ lost', NEW v \in Worker, run'[v][i] # "idle"
        PROVE  lock'[i] = v /\ (run'[v][i] = "starts" => due'[i])
    <3>1. v # w \/ i # j
      BY <2>3, <2>5
    <3>2. run[v][i] = run'[v][i]
      BY <2>3, <3>1
    <3>3. i \notin lost
      BY <2>2, <2>5, <3>1, <3>2, SettlesIs
    <3>4. lock[i] = v /\ (run[v][i] = "starts" => due[i])
      BY <2>5, <3>2, <3>3 DEF Holding
    <3>5. i # j
      BY <2>1, <2>3, <3>1, <3>3, <3>4 DEF Holding
    <3> QED
      BY <2>2, <3>2, <3>4, <3>5, SessionEndsIs
  <2> QED
    BY <2>4, <2>5 DEF Holding
<1>5. ASSUME NEW w \in Worker, NEW j \in Job, SessionLost(w, j)
      PROVE  LockInv'
  BY <1>5 DEF SessionLost, LockType, Holding
<1>6. ASSUME NEW j \in Job, FallsDue(j)
      PROVE  LockInv'
  BY <1>6 DEF FallsDue, LockType, Holding
<1>7. ASSUME NEW w \in Worker, WorkerDies(w)
      PROVE  LockInv'
  <2>1. /\ lock' = [j \in Job |-> IF lock[j] = w THEN Nobody ELSE lock[j]]
        /\ run' = [run EXCEPT ![w] = [j \in Job |-> "idle"]]
        /\ Settles({w}, Job) /\ due' = due
    BY <1>7 DEF WorkerDies
  <2>2. LockType'
    BY <2>1 DEF LockType, Stage, Settles
  <2>3. ASSUME NEW i \in Job \ lost', NEW v \in Worker, run'[v][i] # "idle"
        PROVE  lock'[i] = v /\ (run'[v][i] = "starts" => due'[i])
    <3>1. v # w /\ run'[v][i] = run[v][i]
      BY <2>1, <2>3 DEF LockType
    <3>2. i \notin lost
      BY <2>1, <2>3, <3>1, SettlesIs
    <3> QED
      BY <2>1, <2>3, <3>1, <3>2 DEF Holding
  <2> QED
    BY <2>2, <2>3 DEF Holding
<1> QED
  BY <1>1, <1>2, <1>3, <1>4, <1>5, <1>6, <1>7 DEF MaintenanceNext, Proceed, Mishap

\* The worker processes run their jobs as Maintenance has it.
LEMMA Maintains ==
  ASSUME Next
  PROVE  MaintenanceNext \/ UNCHANGED maintenanceVars
<1>1. "health" \in Job
  BY DEF Job
<1>2. ASSUME NEW w \in Worker,
             Locks(w) \/ LocksInError(w) \/ Proceeds(w) \/ Unlocks(w) \/ GoesWrong(w) \/ Concludes(w)
               \/ Breaks(w) \/ Dies(w)
      PROVE  MaintenanceNext
  BY <1>1, <1>2 DEF Locks, LocksInError, Proceeds, Unlocks, GoesWrong, Concludes, Breaks, Dies,
                    MaintenanceNext, Proceed, Mishap
<1>3. TimePasses => MaintenanceNext
  BY <1>1 DEF TimePasses, MaintenanceNext
<1>4. ASSUME NEW w \in Worker, Comes(w) \/ Refreshes(w) \/ Probes(w)
      PROVE  UNCHANGED maintenanceVars
  BY <1>4 DEF Comes, Refreshes, Probes, jobVars, maintenanceVars
<1>5. ASSUME NEW a \in Admin, Administers(a) \/ AdminUpdates(a)
      PROVE  UNCHANGED maintenanceVars
  BY <1>5 DEF Administers, AdminUpdates, jobVars, maintenanceVars
<1>6. ASSUME NEW e \in Endpoint, Flips(e)
      PROVE  UNCHANGED maintenanceVars
  BY <1>6 DEF Flips, jobVars, maintenanceVars
<1> QED
  BY <1>2, <1>3, <1>4, <1>5, <1>6 DEF Next

\* It holds of every reachable state.
LEMMA LockInvariant == Spec => []LockInv
<1>1. Init => LockInv
  BY DEF Init, MaintenanceInit, LockInv, LockType, Holding, Stage
<1>2. LockInv /\ [Next]_vars => LockInv'
  <2>1. LockInv /\ UNCHANGED maintenanceVars => LockInv'
    BY DEF LockInv, LockType, Holding, maintenanceVars
  <2>2. UNCHANGED vars => UNCHANGED maintenanceVars
    BY DEF vars, jobVars, maintenanceVars
  <2> QED
    BY <2>1, <2>2, Maintains, LockStep
<1> QED
  BY <1>1, <1>2, PTL DEF Spec

\* A job is in one worker at a time and starts only if it is due, as long as no
\* session is lost: neither errors around the lock nor deaths let a second one in.
THEOREM JobsInOneWorker == Spec => []OneAtATime
<1>1. LockInv => OneAtATime
  <2> SUFFICES ASSUME LockInv, NEW j \in Job \ lost
               PROVE  /\ Cardinality({w \in Worker : run[w][j] \in {"locked", "starts", "works"}}) <= 1
                      /\ \A w \in Worker : run[w][j] = "starts" => due[j]
    BY DEF OneAtATime
  <2> DEFINE in == {w \in Worker : run[w][j] \in {"locked", "starts", "works"}}
  <2>1. \A w \in in : w = lock[j]
    BY DEF LockInv, Holding
  <2>2. in = {} \/ in = {lock[j]}
    BY <2>1
  <2>3. Cardinality({}) = 0 /\ Cardinality({lock[j]}) = 1
    BY FS_EmptySet, FS_Singleton
  <2> HIDE DEF in
  <2>4. Cardinality(in) <= 1
    BY <2>2, <2>3
  <2> QED
    BY <2>4 DEF LockInv, Holding, in
<1> QED
  BY <1>1, LockInvariant, PTL

(***************************************************************************)
(* Catalogs, probes and verdicts                                           *)
(***************************************************************************)
Health == {"unknown", "healthy", "unhealthy"}

ProbeState ==
  [pc : {"idle", "reload", "begin"}]
    \cup [pc : {"ping"}, endpoint : Endpoint, earlier : SUBSET Worker]
    \cup [pc : {"record"}, ok : BOOLEAN, earlier : SUBSET Worker]
    \cup [pc : {"mark"}, ok : BOOLEAN, saw : Health]

HealthType ==
  /\ row \in [endpoint : Endpoint, health : Health]
  /\ newer \subseteq Worker
  /\ config \in [Worker -> Endpoint \cup {NoConfig}]
  /\ load \in [Prober -> Endpoint \cup {NoLoad}]
  /\ probe \in [Prober -> ProbeState]
  /\ up \subseteq Endpoint /\ outdated \subseteq Prober /\ solid \in BOOLEAN

\* What goes on goes on in a process that serves; an admin loads the catalog
\* between the update and the probe, and a check does not.
Homes ==
  /\ \A x \in Prober : config[Home(x)] = NoConfig => probe[x].pc = "idle" /\ load[x] = NoLoad
  /\ \A a \in Admin : load[a] # NoLoad => probe[a].pc = "reload"
  /\ \A w \in Worker : probe[w].pc \in {"idle", "ping", "record"}

\* A catalog is not ahead of the row, nor of what is being loaded.
Ordered ==
  /\ \A w \in Worker : config[w] # NoConfig => config[w] <= row.endpoint
  /\ \A x \in Prober : load[x] # NoLoad => config[Home(x)] <= load[x] /\ load[x] <= row.endpoint

\* The loads of a process take turns.
OneLoad == \A x, y \in Prober : load[x] # NoLoad /\ load[y] # NoLoad /\ Home(x) = Home(y) => x = y

\* A probe under way saw no later changes than those that began before it.
Noted ==
  /\ outdated \subseteq Probing
  /\ \A x \in Prober : probe[x].pc \in {"ping", "record"} =>
       /\ probe[x].earlier \subseteq Checks
       /\ x \in outdated => probe[x].earlier \subseteq outdated

\* A probe that no change has overtaken is of the endpoint its process has, and its
\* answer still right.
Timely ==
  \A x \in Prober \ outdated :
    /\ probe[x].pc = "ping" => probe[x].endpoint = config[Home(x)]
    /\ probe[x].pc \in {"record", "mark"} => probe[x].ok = (config[Home(x)] \in up)

\* Only checks that began after the last change are newer than a solid verdict.
Solid == solid => Current /\ Right /\ newer \cap outdated = {}

HealthInv == HealthType /\ Homes /\ Ordered /\ OneLoad /\ Noted /\ Timely /\ Solid

\* The steps of Workers, as Health has them.
HealthNext ==
  \/ \E x \in Prober : ReadsCatalog(x) \/ InstallsCatalog(x) \/ Answers(x)
  \/ \E w \in Worker :
       \/ config[w] = NoConfig /\ FirstCatalog(w)
       \/ CheckBegins(w) \/ Records(w) \/ GivesUp(w) \/ ProcessDies(w)
  \/ \E a \in Admin : Updates(a) \/ Pings(a) \/ Reads(a) \/ Marks(a)
  \/ \E e \in Endpoint : HostFlips(e)

\* The workers and admins keep the context as Health has it.
LEMMA Watches ==
  ASSUME Next
  PROVE  HealthNext \/ UNCHANGED healthVars
<1>0. Worker \subseteq Prober /\ Admin \subseteq Prober
  BY DEF Prober
<1>1. ASSUME NEW w \in Worker, Locks(w) \/ LocksInError(w) \/ Proceeds(w) \/ Unlocks(w) \/ GoesWrong(w)
      PROVE  UNCHANGED healthVars
  BY <1>1 DEF Locks, LocksInError, Proceeds, Unlocks, GoesWrong, ctxVars, healthVars
<1>2. ASSUME NEW w \in Worker, Comes(w) \/ Refreshes(w) \/ Probes(w)
      PROVE  HealthNext
  BY <1>0, <1>2 DEF Comes, Refreshes, Probes, Up, HealthNext
<1>3. ASSUME NEW w \in Worker, Concludes(w) \/ Breaks(w) \/ Dies(w)
      PROVE  HealthNext
  BY <1>3 DEF Concludes, Breaks, Dies, HealthNext
<1>4. TimePasses => UNCHANGED healthVars
  BY DEF TimePasses, ctxVars, healthVars
<1>5. ASSUME NEW a \in Admin, Administers(a) \/ AdminUpdates(a)
      PROVE  HealthNext
  BY <1>0, <1>5 DEF Administers, AdminUpdates, AdminStep, HealthNext
<1>6. ASSUME NEW e \in Endpoint, Flips(e)
      PROVE  HealthNext
  BY <1>6 DEF Flips, HealthNext
<1> QED
  BY <1>1, <1>2, <1>3, <1>4, <1>5, <1>6 DEF Next

\* Processes are workers, each its own.
LEMMA HomeType ==
  /\ \A x \in Prober : Home(x) \in Worker
  /\ \A w \in Worker : w \in Prober /\ w \notin Admin /\ Home(w) = w
  /\ \A a \in Admin : a \in Prober /\ a \notin Worker /\ Home(a) = ProcOf[a]
  /\ NoConfig \notin Endpoint /\ NoLoad \notin Endpoint
  /\ MaxMoves \in Nat /\ Endpoint \subseteq Int
  BY WorkersAssumption DEF HealthAssumption, Home, Prober, Endpoint

\* The stages of a probe and what each carries.
LEMMA ProbeIs ==
  ASSUME HealthType, NEW x \in Prober
  PROVE  /\ probe[x].pc \in {"idle", "reload", "begin", "ping", "record", "mark"}
         /\ probe[x].pc \in {"idle", "reload", "begin"} => probe[x] = [pc |-> probe[x].pc]
         /\ probe[x].pc = "ping" =>
              /\ probe[x] = [pc |-> "ping", endpoint |-> probe[x].endpoint, earlier |-> probe[x].earlier]
              /\ probe[x].endpoint \in Endpoint /\ probe[x].earlier \subseteq Worker
         /\ probe[x].pc = "record" =>
              /\ probe[x] = [pc |-> "record", ok |-> probe[x].ok, earlier |-> probe[x].earlier]
              /\ probe[x].ok \in BOOLEAN /\ probe[x].earlier \subseteq Worker
         /\ probe[x].pc = "mark" =>
              /\ probe[x] = [pc |-> "mark", ok |-> probe[x].ok, saw |-> probe[x].saw]
              /\ probe[x].ok \in BOOLEAN /\ probe[x].saw \in Health
<1>1. probe[x] \in ProbeState
  BY DEF HealthType
<1> QED
  BY <1>1 DEF ProbeState

\* What is left of the probes when those of xs are over.
LEMMA ProbeOverIs ==
  ASSUME HealthType, NEW xs \in SUBSET Prober, ProbeOver(xs)
  PROVE  /\ probe' \in [Prober -> ProbeState] /\ outdated' = outdated \ xs
         /\ \A y \in xs : probe'[y].pc = "idle"
         /\ \A y \in Prober \ xs :
              /\ probe'[y].pc = probe[y].pc
              /\ probe[y].pc \in {"ping", "record"} => probe'[y].earlier = probe[y].earlier \ xs
              /\ probe[y].pc = "ping" => probe'[y].endpoint = probe[y].endpoint
              /\ probe[y].pc \in {"record", "mark"} => probe'[y].ok = probe[y].ok
<1>1. outdated' = outdated \ xs /\ \A y \in xs : probe'[y] = NoProbe
  BY DEF ProbeOver
<1>2. ASSUME NEW y \in Prober \ xs
      PROVE  /\ probe'[y] \in ProbeState
             /\ probe'[y].pc = probe[y].pc
             /\ probe[y].pc \in {"ping", "record"} => probe'[y].earlier = probe[y].earlier \ xs
             /\ probe[y].pc = "ping" => probe'[y].endpoint = probe[y].endpoint
             /\ probe[y].pc \in {"record", "mark"} => probe'[y].ok = probe[y].ok
  <2>1. probe'[y] = IF "earlier" \in DOMAIN probe[y]
                      THEN [probe[y] EXCEPT !.earlier = probe[y].earlier \ xs] ELSE probe[y]
    BY DEF ProbeOver
  <2>2. CASE probe[y].pc \in {"idle", "reload", "begin"}
    <3>1. probe'[y] = probe[y]
      BY <2>1, <2>2, ProbeIs
    <3> QED
      BY <2>2, <3>1 DEF HealthType
  <2>3. CASE probe[y].pc = "ping"
    <3>1. PICK e \in Endpoint, s \in SUBSET Worker : probe[y] = [pc |-> "ping", endpoint |-> e, earlier |-> s]
      BY <2>3, ProbeIs
    <3>2. probe'[y] = [pc |-> "ping", endpoint |-> e, earlier |-> s \ xs]
      BY <2>1, <3>1
    <3>3. probe'[y] \in [pc : {"ping"}, endpoint : Endpoint, earlier : SUBSET Worker]
      BY <3>2
    <3> QED
      BY <3>1, <3>2, <3>3 DEF ProbeState
  <2>4. CASE probe[y].pc = "record"
    <3>1. PICK b \in BOOLEAN, s \in SUBSET Worker : probe[y] = [pc |-> "record", ok |-> b, earlier |-> s]
      BY <2>4, ProbeIs
    <3>2. probe'[y] = [pc |-> "record", ok |-> b, earlier |-> s \ xs]
      BY <2>1, <3>1
    <3>3. probe'[y] \in [pc : {"record"}, ok : BOOLEAN, earlier : SUBSET Worker]
      BY <3>2
    <3> QED
      BY <3>1, <3>2, <3>3 DEF ProbeState
  <2>5. CASE probe[y].pc = "mark"
    <3>1. PICK b \in BOOLEAN, h \in Health : probe[y] = [pc |-> "mark", ok |-> b, saw |-> h]
      BY <2>5, ProbeIs
    <3>2. probe'[y] = probe[y]
      BY <2>1, <3>1
    <3> QED
      BY <2>5, <3>2 DEF HealthType
  <2> QED
    BY <2>2, <2>3, <2>4, <2>5, ProbeIs
<1>3. probe' = [y \in Prober |-> probe'[y]]
  BY DEF ProbeOver
<1>4. NoProbe \in ProbeState /\ NoProbe.pc = "idle"
  BY DEF NoProbe, ProbeState
<1> QED
  BY <1>1, <1>2, <1>3, <1>4

\* Every step of Health keeps the types.
LEMMA HealthTypeStep ==
  ASSUME HealthInv, HealthNext
  PROVE  HealthType'
<1> USE DEF HealthInv
<1>h. HealthType
  OBVIOUS
<1>1. ASSUME NEW x \in Prober, ReadsCatalog(x)
      PROVE  HealthType'
  <2>1. row.endpoint \in Endpoint
    BY <1>h DEF HealthType
  <2> QED
    BY <1>h, <1>1, <2>1 DEF HealthType, ReadsCatalog
<1>2. ASSUME NEW x \in Prober, InstallsCatalog(x)
      PROVE  HealthType'
  <2>1. load[x] \in Endpoint /\ Home(x) \in Worker /\ Probing \subseteq Prober
    BY <1>h, <1>2, HomeType DEF HealthType, InstallsCatalog, Probing
  <2>2. config' \in [Worker -> Endpoint \cup {NoConfig}] /\ load' \in [Prober -> Endpoint \cup {NoLoad}]
    BY <1>h, <1>2, <2>1 DEF HealthType, InstallsCatalog
  <2>r. x \in Admin => probe[x].pc = "reload"
    BY <1>2 DEF InstallsCatalog, Homes
  <2>3. x \in Admin => probe[x] = [pc |-> "reload"]
    BY <1>h, <2>r, ProbeIs
  <2>4. x \in Admin => [probe[x] EXCEPT !.pc = "begin"] = [pc |-> "begin"]
    BY <2>3
  <2>5. [pc |-> "begin"] \in ProbeState
    BY DEF ProbeState
  <2>6. CASE x \in Admin
    <3>1. probe' = [probe EXCEPT ![x] = [probe[x] EXCEPT !.pc = "begin"]]
      BY <1>2, <2>6 DEF InstallsCatalog
    <3>2. probe' \in [Prober -> ProbeState]
      BY <1>h, <2>4, <2>5, <2>6, <3>1 DEF HealthType
    <3> QED
      BY <1>h, <1>2, <2>1, <2>2, <3>2 DEF HealthType, InstallsCatalog, Changes
  <2>7. CASE x \notin Admin
    <3>1. probe' \in [Prober -> ProbeState]
      BY <1>h, <1>2, <2>7 DEF HealthType, InstallsCatalog
    <3> QED
      BY <1>h, <1>2, <2>1, <2>2, <3>1 DEF HealthType, InstallsCatalog, Changes
  <2> QED
    BY <2>6, <2>7
<1>3. ASSUME NEW w \in Worker, FirstCatalog(w)
      PROVE  HealthType'
  <2>1. row.endpoint \in Endpoint
    BY <1>h DEF HealthType
  <2> QED
    BY <1>h, <1>3, <2>1 DEF HealthType, FirstCatalog
<1>4. ASSUME NEW w \in Worker, CheckBegins(w)
      PROVE  HealthType'
  <2>1. config[w] \in Endpoint /\ Checks \subseteq Worker
    BY <1>h, <1>4 DEF HealthType, CheckBegins, Checks
  <2>2. [pc |-> "ping", endpoint |-> config[w], earlier |-> Checks] \in ProbeState
    BY <2>1 DEF ProbeState
  <2> QED
    BY <1>h, <1>4, <2>2 DEF HealthType, CheckBegins
<1>5. ASSUME NEW x \in Prober, Answers(x)
      PROVE  HealthType'
  <2>1. probe[x].earlier \subseteq Worker
    BY <1>h, <1>5, ProbeIs DEF Answers, ProbeAt
  <2>2. [pc |-> "record", ok |-> probe[x].endpoint \in up, earlier |-> probe[x].earlier] \in ProbeState
    BY <2>1 DEF ProbeState
  <2> QED
    BY <1>h, <1>5, <2>2 DEF HealthType, Answers
<1>6. ASSUME NEW w \in Worker, Records(w)
      PROVE  HealthType'
  <2>1. {w} \in SUBSET Prober
    BY DEF Prober
  <2>2. probe' \in [Prober -> ProbeState] /\ outdated' \subseteq Prober
    BY <1>h, <1>6, <2>1, ProbeOverIs DEF Records, HealthType
  <2>3. Verdict(probe[w].ok) \in Health
    BY DEF Verdict, Health
  <2>4. row' \in [endpoint : Endpoint, health : Health] /\ newer' \subseteq Worker
    BY <1>h, <1>6, <2>3 DEF Records, HealthType
  <2>5. solid' \in BOOLEAN
    BY <1>h, <1>6 DEF Records, HealthType
  <2> QED
    BY <1>h, <1>6, <2>2, <2>4, <2>5 DEF HealthType, Records
<1>7. ASSUME NEW w \in Worker, GivesUp(w)
      PROVE  HealthType'
  <2>1. {w} \in SUBSET Prober
    BY DEF Prober
  <2>2. probe' \in [Prober -> ProbeState] /\ outdated' \subseteq Prober
    BY <1>h, <1>7, <2>1, ProbeOverIs DEF GivesUp, HealthType
  <2> QED
    BY <1>h, <1>7, <2>2 DEF HealthType, GivesUp
<1>8. ASSUME NEW w \in Worker, ProcessDies(w)
      PROVE  HealthType'
  <2> DEFINE mine == {x \in Prober : Home(x) = w}
  <2>1. mine \in SUBSET Prober /\ ProbeOver(mine)
    BY <1>8 DEF ProcessDies
  <2> HIDE DEF mine
  <2>2. probe' \in [Prober -> ProbeState] /\ outdated' \subseteq Prober
    BY <1>h, <2>1, ProbeOverIs DEF HealthType
  <2> QED
    BY <1>h, <1>8, <2>2 DEF HealthType, ProcessDies
<1>9. ASSUME NEW a \in Admin, Updates(a)
      PROVE  HealthType'
  <2>1. [pc |-> "reload"] \in ProbeState
    BY DEF ProbeState
  <2>2. row' \in [endpoint : Endpoint, health : Health]
    BY <1>h, <1>9, HomeType DEF HealthType, Updates, Endpoint
  <2>3. outdated' \subseteq Prober /\ solid' \in BOOLEAN
    BY <1>h, <1>9 DEF HealthType, Updates, Changes, Probing
  <2> QED
    BY <1>h, <1>9, <2>1, <2>2, <2>3 DEF HealthType, Updates
<1>10. ASSUME NEW a \in Admin, Pings(a)
       PROVE  HealthType'
  <2>1. config[ProcOf[a]] \in Endpoint
    BY <1>h, <1>10, HomeType DEF HealthType, Homes, Pings, ProbeAt
  <2>2. [pc |-> "ping", endpoint |-> config[ProcOf[a]], earlier |-> {}] \in ProbeState
    BY <2>1 DEF ProbeState
  <2> QED
    BY <1>h, <1>10, <2>2 DEF HealthType, Pings
<1>11. ASSUME NEW a \in Admin, Reads(a)
       PROVE  HealthType'
  <2>1. probe[a].ok \in BOOLEAN /\ row.health \in Health
    BY <1>h, <1>11, ProbeIs, HomeType DEF Reads, ProbeAt, HealthType
  <2>2. [pc |-> "mark", ok |-> probe[a].ok, saw |-> row.health] \in ProbeState
    BY <2>1 DEF ProbeState
  <2> QED
    BY <1>h, <1>11, <2>2 DEF HealthType, Reads
<1>12. ASSUME NEW a \in Admin, Marks(a)
       PROVE  HealthType'
  <2>1. {a} \in SUBSET Prober
    BY DEF Prober
  <2>2. probe' \in [Prober -> ProbeState] /\ outdated' \subseteq Prober
    BY <1>h, <1>12, <2>1, ProbeOverIs DEF Marks, HealthType
  <2>3. Verdict(probe[a].ok) \in Health
    BY DEF Verdict, Health
  <2>4. row' \in [endpoint : Endpoint, health : Health]
    BY <1>h, <1>12, <2>3 DEF Marks, HealthType
  <2>5. solid' \in BOOLEAN
    BY <1>h, <1>12 DEF Marks, HealthType
  <2> QED
    BY <1>h, <1>12, <2>2, <2>4, <2>5 DEF HealthType, Marks
<1>13. ASSUME NEW e \in Endpoint, HostFlips(e)
       PROVE  HealthType'
  BY <1>h, <1>13 DEF HealthType, HostFlips, Changes, Probing
<1> QED
  BY <1>1, <1>2, <1>3, <1>4, <1>5, <1>6, <1>7, <1>8, <1>9, <1>10, <1>11, <1>12, <1>13 DEF HealthNext

\* What an admin's load leaves of the admin's probe.
LEMMA InstallsIs ==
  ASSUME HealthInv, NEW x \in Prober, InstallsCatalog(x)
  PROVE  /\ load[x] \in Endpoint /\ Home(x) \in Worker /\ config[Home(x)] \in Endpoint
         /\ x \in Admin => probe[x].pc = "reload" /\ probe'[x].pc = "begin"
         /\ \A y \in Prober : y # x \/ x \notin Admin => probe'[y] = probe[y]
<1> USE DEF HealthInv
<1>1. load[x] \in Endpoint /\ Home(x) \in Worker /\ config[Home(x)] \in Endpoint
  BY HomeType DEF HealthType, InstallsCatalog, Homes
<1>r. x \in Admin => probe[x].pc = "reload"
  BY DEF InstallsCatalog, Homes
<1>2. x \in Admin => probe[x] = [pc |-> "reload"]
  BY <1>r, ProbeIs
<1>3. x \in Admin => [probe[x] EXCEPT !.pc = "begin"] = [pc |-> "begin"]
  BY <1>2
<1>4. x \in Admin => probe' = [probe EXCEPT ![x] = [probe[x] EXCEPT !.pc = "begin"]]
  BY DEF InstallsCatalog
<1>5. x \in Admin => probe' = [probe EXCEPT ![x] = [pc |-> "begin"]]
  BY <1>3, <1>4
<1>6. x \notin Admin => probe' = probe
  BY DEF InstallsCatalog
<1> QED
  BY <1>1, <1>r, <1>2, <1>5, <1>6 DEF HealthType

\* The other steps leave the catalogs and their loads; what they begin, they begin
\* where there is a catalog.
LEMMA CatalogsKept ==
  ASSUME HealthInv, HealthNext,
         \A x \in Prober : ~ReadsCatalog(x) /\ ~InstallsCatalog(x),
         \A w \in Worker : ~(config[w] = NoConfig /\ FirstCatalog(w)) /\ ~ProcessDies(w)
  PROVE  /\ UNCHANGED <<config, load>> /\ row.endpoint <= row'.endpoint
         /\ \A x \in Prober :
              /\ probe'[x].pc # "idle" => probe[x].pc # "idle" \/ config[Home(x)] # NoConfig
              /\ x \in Admin /\ probe[x].pc = "reload" => probe'[x].pc = "reload"
              /\ x \in Worker => probe'[x].pc \in {"idle", "ping", "record"}
<1> USE DEF HealthInv
<1>h. HealthType /\ row.endpoint \in Int
  BY HomeType DEF HealthType
<1>w. \A w \in Worker : w \in Prober /\ w \notin Admin /\ probe[w].pc \in {"idle", "ping", "record"}
  BY HomeType DEF Homes
<1> DEFINE Kept ==
      /\ UNCHANGED <<config, load>> /\ row.endpoint <= row'.endpoint
      /\ \A x \in Prober :
           /\ probe'[x].pc # "idle" => probe[x].pc # "idle" \/ config[Home(x)] # NoConfig
           /\ x \in Admin /\ probe[x].pc = "reload" => probe'[x].pc = "reload"
           /\ x \in Worker => probe'[x].pc \in {"idle", "ping", "record"}
<1>1. ASSUME NEW w \in Worker, CheckBegins(w)
      PROVE  Kept
  BY <1>h, <1>w, <1>1, HomeType DEF HealthType, CheckBegins, ProbeAt
<1>2. ASSUME NEW x \in Prober, Answers(x)
      PROVE  Kept
  BY <1>h, <1>w, <1>2 DEF HealthType, Answers, ProbeAt
<1>3. ASSUME NEW w \in Worker, Records(w) \/ GivesUp(w)
      PROVE  Kept
  <2>1. {w} \in SUBSET Prober /\ ProbeOver({w}) /\ UNCHANGED <<config, load>>
    BY <1>3 DEF Prober, Records, GivesUp
  <2>2. row'.endpoint = row.endpoint
    BY <1>h, <1>w, <1>3 DEF Records, GivesUp, HealthType
  <2>3. w \notin Admin
    BY HomeType
  <2> QED
    BY <1>h, <1>w, <2>1, <2>2, <2>3, ProbeOverIs
<1>4. ASSUME NEW a \in Admin, Updates(a)
      PROVE  Kept
  <2>1. row.endpoint <= row'.endpoint
    BY <1>h, <1>w, <1>4 DEF Updates, HealthType
  <2> QED
    BY <1>h, <1>w, <1>4, <2>1, HomeType DEF Updates, HealthType, ProbeAt
<1>5. ASSUME NEW a \in Admin, Pings(a) \/ Reads(a)
      PROVE  Kept
  BY <1>h, <1>w, <1>5 DEF Pings, Reads, HealthType, ProbeAt
<1>6. ASSUME NEW a \in Admin, Marks(a)
      PROVE  Kept
  <2>1. {a} \in SUBSET Prober /\ ProbeOver({a}) /\ UNCHANGED <<config, load>>
    BY <1>6 DEF Prober, Marks
  <2>2. row'.endpoint = row.endpoint /\ probe[a].pc = "mark"
    BY <1>h, <1>w, <1>6 DEF Marks, HealthType, ProbeAt
  <2> QED
    BY <1>h, <1>w, <2>1, <2>2, ProbeOverIs
<1>7. ASSUME NEW e \in Endpoint, HostFlips(e)
      PROVE  Kept
  BY <1>h, <1>w, <1>7 DEF HostFlips
<1> QED
  BY <1>1, <1>2, <1>3, <1>4, <1>5, <1>6, <1>7 DEF HealthNext

\* The catalogs: how they and their loads stand to the row and to what goes on.
LEMMA CatalogStep ==
  ASSUME HealthInv, HealthNext
  PROVE  (Homes /\ Ordered /\ OneLoad)'
<1> USE DEF HealthInv
<1>h. HealthType /\ row.endpoint \in Int
  BY HomeType DEF HealthType
<1>1. ASSUME NEW x \in Prober, ReadsCatalog(x)
      PROVE  (Homes /\ Ordered /\ OneLoad)'
  <2>1. /\ row' = row /\ config' = config /\ probe' = probe /\ config[Home(x)] # NoConfig
        /\ load'[x] = row.endpoint /\ \A y \in Prober : y # x => load'[y] = load[y]
    BY <1>h, <1>1 DEF HealthType, ReadsCatalog
  <2>2. \A y \in Prober : Home(y) = Home(x) => load[y] = NoLoad
    BY <1>1 DEF ReadsCatalog, CatalogFree
  <2>3. x \in Admin => probe[x].pc = "reload"
    BY <1>1 DEF ReadsCatalog, ProbeAt
  <2>4. Homes'
    BY <2>1, <2>3 DEF Homes, Prober
  <2>5. Ordered'
    BY <1>h, <2>1, HomeType DEF Ordered
  <2>6. OneLoad'
    BY <2>1, <2>2 DEF OneLoad
  <2> QED
    BY <2>4, <2>5, <2>6
<1>2. ASSUME NEW x \in Prober, InstallsCatalog(x)
      PROVE  (Homes /\ Ordered /\ OneLoad)'
  <2>1. load[x] # NoLoad /\ load[x] \in Endpoint /\ Home(x) \in Worker /\ config[Home(x)] \in Endpoint
    BY <1>2, InstallsIs DEF InstallsCatalog
  <2>2. /\ row' = row /\ config'[Home(x)] = load[x] /\ load'[x] = NoLoad
        /\ \A w \in Worker : w # Home(x) => config'[w] = config[w]
        /\ \A y \in Prober : y # x => load'[y] = load[y]
    BY <1>h, <1>2, <2>1 DEF HealthType, InstallsCatalog
  <2>3. \A y \in Prober : y # x /\ Home(y) = Home(x) => load[y] = NoLoad
    BY <2>1 DEF OneLoad
  <2>4. \A y \in Prober : (y = x /\ x \in Admin) \/ probe'[y] = probe[y]
    BY <1>2, InstallsIs
  <2>5. Homes'
    BY <2>1, <2>2, <2>4, HomeType DEF Homes
  <2>6. Ordered'
    BY <1>h, <2>1, <2>2, <2>3, HomeType DEF Ordered
  <2>7. OneLoad'
    BY <2>2 DEF OneLoad
  <2> QED
    BY <2>5, <2>6, <2>7
<1>3. ASSUME NEW w \in Worker, config[w] = NoConfig, FirstCatalog(w)
      PROVE  (Homes /\ Ordered /\ OneLoad)'
  <2>1. /\ UNCHANGED <<row, load, probe>> /\ config'[w] = row.endpoint
        /\ \A v \in Worker : v # w => config'[v] = config[v]
    BY <1>h, <1>3 DEF HealthType, FirstCatalog
  <2>2. \A y \in Prober : Home(y) = w => load[y] = NoLoad
    BY <1>3 DEF Homes
  <2>3. Homes'
    BY <1>3, <2>1, HomeType DEF Homes
  <2>4. Ordered'
    BY <1>h, <2>1, <2>2, HomeType DEF Ordered
  <2> QED
    BY <2>1, <2>3, <2>4 DEF OneLoad
<1>4. ASSUME NEW w \in Worker, ProcessDies(w)
      PROVE  (Homes /\ Ordered /\ OneLoad)'
  <2> DEFINE mine == {x \in Prober : Home(x) = w}
  <2>1. mine \in SUBSET Prober /\ ProbeOver(mine)
    BY <1>4 DEF ProcessDies
  <2>2. /\ row' = row /\ config'[w] = NoConfig
        /\ \A v \in Worker : v # w => config'[v] = config[v]
        /\ \A x \in Prober : load'[x] = IF Home(x) = w THEN NoLoad ELSE load[x]
    BY <1>h, <1>4 DEF HealthType, ProcessDies
  <2>3. \A x \in Prober : IF Home(x) = w THEN probe'[x].pc = "idle" ELSE probe'[x].pc = probe[x].pc
    <3> HIDE DEF mine
    <3>1. /\ \A x \in mine : probe'[x].pc = "idle"
          /\ \A x \in Prober \ mine : probe'[x].pc = probe[x].pc
      BY <1>h, <2>1, ProbeOverIs
    <3> QED
      BY <3>1 DEF mine
  <2>4. Homes'
    BY <2>2, <2>3, HomeType DEF Homes
  <2>5. Ordered'
    BY <2>2, HomeType DEF Ordered
  <2>6. OneLoad'
    BY <2>2 DEF OneLoad
  <2> QED
    BY <2>4, <2>5, <2>6
<1>5. CASE /\ \A x \in Prober : ~ReadsCatalog(x) /\ ~InstallsCatalog(x)
           /\ \A w \in Worker : ~(config[w] = NoConfig /\ FirstCatalog(w)) /\ ~ProcessDies(w)
  <2>1. /\ UNCHANGED <<config, load>> /\ row.endpoint <= row'.endpoint
        /\ \A x \in Prober :
             /\ probe'[x].pc # "idle" => probe[x].pc # "idle" \/ config[Home(x)] # NoConfig
             /\ x \in Admin /\ probe[x].pc = "reload" => probe'[x].pc = "reload"
             /\ x \in Worker => probe'[x].pc \in {"idle", "ping", "record"}
    BY <1>5, CatalogsKept
  <2>2. row'.endpoint \in Int
    BY HealthTypeStep, HomeType DEF HealthType
  <2>3. Homes'
    BY <2>1, HomeType DEF Homes
  <2>4. Ordered'
    <3>1. \A w \in Worker : config[w] # NoConfig => config[w] \in Int
      BY <1>h, HomeType DEF HealthType
    <3>2. \A x \in Prober : load[x] # NoLoad => load[x] \in Int
      BY <1>h, HomeType DEF HealthType
    <3> QED
      BY <1>h, <2>1, <2>2, <3>1, <3>2, HomeType DEF Ordered
  <2> QED
    BY <2>1, <2>3, <2>4 DEF OneLoad
<1> QED
  BY <1>1, <1>2, <1>3, <1>4, <1>5

\* The probes of xs are over; the others are as good as they were.
LEMMA OverStep ==
  ASSUME HealthInv, NEW xs \in SUBSET Prober, ProbeOver(xs), up' = up,
         \A y \in Prober \ xs : config'[Home(y)] = config[Home(y)]
  PROVE  Noted' /\ Timely'
<1> USE DEF HealthInv
<1>1. /\ outdated' = outdated \ xs
      /\ \A y \in xs : probe'[y].pc = "idle"
      /\ \A y \in Prober \ xs :
           /\ probe'[y].pc = probe[y].pc
           /\ probe[y].pc \in {"ping", "record"} => probe'[y].earlier = probe[y].earlier \ xs
           /\ probe[y].pc = "ping" => probe'[y].endpoint = probe[y].endpoint
           /\ probe[y].pc \in {"record", "mark"} => probe'[y].ok = probe[y].ok
  BY ProbeOverIs
<1>2. Probing' = Probing \ xs /\ Checks' = Checks \ xs
  BY <1>1 DEF Probing, Checks
<1>3. Noted'
  BY <1>1, <1>2 DEF Noted
<1>4. Timely'
  BY <1>1 DEF Timely
<1> QED
  BY <1>3, <1>4

\* What probes under way note of each other, and how they stand to what changes.
LEMMA ProbeStep ==
  ASSUME HealthInv, HealthNext
  PROVE  Noted' /\ Timely'
<1> USE DEF HealthInv
<1>h. HealthType /\ Checks \subseteq Probing /\ Probing \subseteq Prober
  BY DEF Checks, Probing
<1>1. ASSUME NEW x \in Prober, ReadsCatalog(x)
      PROVE  Noted' /\ Timely'
  BY <1>1 DEF ReadsCatalog, Noted, Timely, Probing, Checks
<1>2. ASSUME NEW x \in Prober, InstallsCatalog(x)
      PROVE  Noted' /\ Timely'
  <2>1. /\ Home(x) \in Worker /\ \A y \in Prober : (y = x /\ x \in Admin) \/ probe'[y] = probe[y]
        /\ x \in Admin => probe[x].pc = "reload" /\ probe'[x].pc = "begin"
    BY <1>2, InstallsIs
  <2>2. Probing' = Probing /\ Checks' = Checks
    BY <2>1 DEF Probing, Checks
  <2>3. \/ outdated' = Probing
        \/ outdated' = outdated /\ config' = config
    BY <1>h, <1>2 DEF InstallsCatalog, Changes, HealthType
  <2>4. Noted'
    BY <1>h, <2>1, <2>2, <2>3 DEF Noted
  <2>5. Timely'
    <3>1. up' = up
      BY <1>2 DEF InstallsCatalog
    <3> QED
      BY <2>1, <2>2, <2>3, <3>1 DEF Timely, Probing
  <2> QED
    BY <2>4, <2>5
<1>3. ASSUME NEW w \in Worker, config[w] = NoConfig, FirstCatalog(w)
      PROVE  Noted' /\ Timely'
  <2>1. UNCHANGED <<probe, outdated, up>> /\ \A v \in Worker : v # w => config'[v] = config[v]
    BY <1>h, <1>3 DEF HealthType, FirstCatalog
  <2>2. \A y \in Prober : Home(y) = w => probe[y].pc = "idle"
    BY <1>3 DEF Homes
  <2> QED
    BY <2>1, <2>2, HomeType DEF Noted, Timely, Probing, Checks
<1>4. ASSUME NEW w \in Worker, CheckBegins(w)
      PROVE  Noted' /\ Timely'
  <2>1. /\ UNCHANGED <<outdated, up, config>> /\ w \in Prober /\ Home(w) = w
        /\ probe[w].pc = "idle" /\ probe'[w].pc = "ping"
        /\ probe'[w].endpoint = config[w] /\ probe'[w].earlier = Checks
        /\ \A y \in Prober : y # w => probe'[y] = probe[y]
    BY <1>h, <1>4, HomeType DEF HealthType, CheckBegins, ProbeAt
  <2>2. Probing' = Probing \cup {w} /\ Checks' = Checks \cup {w} /\ w \notin outdated
    BY <2>1 DEF Probing, Checks, Noted
  <2>3. Noted'
    BY <2>1, <2>2 DEF Noted
  <2>4. Timely'
    BY <2>1 DEF Timely
  <2> QED
    BY <2>3, <2>4
<1>5. ASSUME NEW x \in Prober, Answers(x)
      PROVE  Noted' /\ Timely'
  <2>1. /\ UNCHANGED <<outdated, up, config>>
        /\ probe[x].pc = "ping" /\ probe'[x].pc = "record"
        /\ probe'[x].earlier = probe[x].earlier
        /\ probe'[x].ok = (probe[x].endpoint \in up)
        /\ \A y \in Prober : y # x => probe'[y] = probe[y]
    BY <1>h, <1>5 DEF HealthType, Answers, ProbeAt
  <2>2. Probing' = Probing /\ Checks' = Checks
    BY <2>1 DEF Probing, Checks
  <2>3. Noted'
    BY <2>1, <2>2 DEF Noted
  <2>4. Timely'
    BY <2>1 DEF Timely
  <2> QED
    BY <2>3, <2>4
<1>6. ASSUME NEW w \in Worker, Records(w) \/ GivesUp(w)
      PROVE  Noted' /\ Timely'
  <2>1. {w} \in SUBSET Prober /\ ProbeOver({w}) /\ UNCHANGED <<config, up>>
    BY <1>6 DEF Prober, Records, GivesUp
  <2> QED
    BY <2>1, OverStep
<1>7. ASSUME NEW w \in Worker, ProcessDies(w)
      PROVE  Noted' /\ Timely'
  <2> DEFINE mine == {x \in Prober : Home(x) = w}
  <2>1. mine \in SUBSET Prober /\ ProbeOver(mine) /\ up' = up
    BY <1>7 DEF ProcessDies
  <2>2. \A y \in Prober \ mine : config'[Home(y)] = config[Home(y)]
    BY <1>h, <1>7, HomeType DEF ProcessDies, HealthType
  <2> HIDE DEF mine
  <2> QED
    BY <2>1, <2>2, OverStep
<1>8. ASSUME NEW a \in Admin, Updates(a)
      PROVE  Noted' /\ Timely'
  <2>1. /\ UNCHANGED <<up, config>> /\ a \in Prober
        /\ outdated' = outdated \/ outdated' = Probing
        /\ probe[a].pc = "idle" /\ probe'[a].pc = "reload"
        /\ \A y \in Prober : y # a => probe'[y] = probe[y]
    BY <1>h, <1>8, HomeType DEF HealthType, Updates, Changes, ProbeAt
  <2>2. Probing' = Probing \cup {a} /\ Checks' = Checks
    BY <2>1, HomeType DEF Probing, Checks
  <2>3. Noted'
    BY <1>h, <2>1, <2>2 DEF Noted
  <2>4. Timely'
    <3>1. \A y \in Prober : y # a /\ y \notin Probing => probe'[y].pc = "idle"
      BY <2>1 DEF Probing
    <3> QED
      BY <2>1, <3>1 DEF Timely
  <2> QED
    BY <2>3, <2>4
<1>9. ASSUME NEW a \in Admin, Pings(a)
      PROVE  Noted' /\ Timely'
  <2>1. /\ UNCHANGED <<up, config>> /\ a \in Prober /\ Home(a) = ProcOf[a]
        /\ outdated' = outdated \ {a}
        /\ probe[a].pc = "begin" /\ probe'[a].pc = "ping"
        /\ probe'[a].endpoint = config[ProcOf[a]] /\ probe'[a].earlier = {}
        /\ \A y \in Prober : y # a => probe'[y] = probe[y]
    BY <1>h, <1>9, HomeType DEF HealthType, Pings, ProbeAt
  <2>2. Probing' = Probing /\ Checks' = Checks /\ a \notin Checks
    BY <2>1, HomeType DEF Probing, Checks
  <2>3. Noted'
    BY <2>1, <2>2 DEF Noted
  <2>4. Timely'
    BY <2>1 DEF Timely
  <2> QED
    BY <2>3, <2>4
<1>10. ASSUME NEW a \in Admin, Reads(a)
       PROVE  Noted' /\ Timely'
  <2>1. /\ UNCHANGED <<outdated, up, config>> /\ a \in Prober
        /\ probe[a].pc = "record" /\ probe'[a].pc = "mark" /\ probe'[a].ok = probe[a].ok
        /\ \A y \in Prober : y # a => probe'[y] = probe[y]
    BY <1>h, <1>10, HomeType DEF HealthType, Reads, ProbeAt
  <2>2. Probing' = Probing /\ Checks' = Checks
    BY <2>1 DEF Probing, Checks
  <2>3. Noted'
    BY <2>1, <2>2 DEF Noted
  <2>4. Timely'
    BY <2>1 DEF Timely
  <2> QED
    BY <2>3, <2>4
<1>11. ASSUME NEW a \in Admin, Marks(a)
       PROVE  Noted' /\ Timely'
  <2>1. {a} \in SUBSET Prober /\ ProbeOver({a}) /\ UNCHANGED <<config, up>>
    BY <1>11 DEF Prober, Marks
  <2> QED
    BY <2>1, OverStep
<1>12. ASSUME NEW e \in Endpoint, HostFlips(e)
       PROVE  Noted' /\ Timely'
  <2>1. outdated' = Probing /\ UNCHANGED <<probe, config>>
    BY <1>12 DEF HostFlips, Changes
  <2> QED
    BY <1>h, <2>1 DEF Noted, Timely, Probing, Checks
<1> QED
  BY <1>1, <1>2, <1>3, <1>4, <1>5, <1>6, <1>7, <1>8, <1>9, <1>10, <1>11, <1>12 DEF HealthNext

\* A verdict is solid until something changes, and what is newer can only confirm it.
LEMMA SolidStep ==
  ASSUME HealthInv, HealthNext
  PROVE  Solid'
<1> USE DEF HealthInv
<1>h. HealthType
  OBVIOUS
<1>1. ASSUME NEW x \in Prober, ReadsCatalog(x) \/ Answers(x)
      PROVE  Solid'
  BY <1>1 DEF ReadsCatalog, Answers, Solid, Current, Right
<1>2. ASSUME NEW x \in Prober, InstallsCatalog(x)
      PROVE  Solid'
  <2>1. CASE load[x] = config[Home(x)]
    <3>1. UNCHANGED <<row, newer, config, up, outdated, solid>>
      BY <1>h, <1>2, <2>1 DEF InstallsCatalog, HealthType
    <3> QED
      BY <3>1 DEF Solid, Current, Right
  <2>2. CASE load[x] # config[Home(x)]
    BY <1>2, <2>2 DEF InstallsCatalog, Changes, Solid
  <2> QED
    BY <2>1, <2>2
<1>3. ASSUME NEW w \in Worker, config[w] = NoConfig, FirstCatalog(w)
      PROVE  Solid'
  BY <1>h, <1>3 DEF FirstCatalog, HealthType, Solid, Current, Right
<1>4. ASSUME NEW w \in Worker, CheckBegins(w)
      PROVE  Solid'
  <2>1. w \notin outdated
    BY <1>4 DEF CheckBegins, ProbeAt, Noted, Probing
  <2> QED
    BY <1>4, <2>1 DEF CheckBegins, Solid, Current, Right
<1>5. ASSUME NEW w \in Worker, Records(w)
      PROVE  Solid'
  <2>1. probe[w].pc = "record" /\ outdated' = outdated \ {w} /\ UNCHANGED <<config, up>>
    BY <1>5 DEF Records, ProbeAt, ProbeOver
  <2>2. CASE ~Wins(w)
    BY <1>5, <2>1, <2>2 DEF Records, Solid, Current, Right
  <2>3. CASE Wins(w) /\ solid'
    <3>1. /\ row' = [row EXCEPT !.health = Verdict(probe[w].ok)]
          /\ newer' = {v \in newer \cap Checks : v # w /\ w \in probe[v].earlier}
          /\ solid \/ (w \notin outdated /\ Current)
      BY <1>5, <2>3 DEF Records
    <3>2. w \notin outdated /\ Current
      BY <2>3, <3>1 DEF Wins, Solid
    <3>3. config[w] = row.endpoint
      BY <2>1, <3>2, HomeType DEF Homes, Current
    <3>4. probe[w].ok = (row.endpoint \in up)
      BY <2>1, <3>2, <3>3, HomeType DEF Timely
    <3>5. row'.endpoint = row.endpoint /\ row'.health = Verdict(row.endpoint \in up)
      BY <1>h, <3>1, <3>4 DEF HealthType
    <3>6. Current' /\ Right'
      BY <2>1, <3>2, <3>5 DEF Current, Right
    <3>7. \A v \in newer' : v \notin outdated
      BY <3>1, <3>2, HomeType DEF Checks, Probing, Homes, Noted
    <3> QED
      BY <2>1, <3>6, <3>7 DEF Solid
  <2> QED
    BY <2>2, <2>3 DEF Solid
<1>6. ASSUME NEW w \in Worker, GivesUp(w)
      PROVE  Solid'
  BY <1>6 DEF GivesUp, ProbeOver, Solid, Current, Right
<1>7. ASSUME NEW w \in Worker, ProcessDies(w)
      PROVE  Solid'
  <2>1. newer' \subseteq newer /\ outdated' \subseteq outdated /\ UNCHANGED <<row, up, solid>>
    BY <1>7 DEF ProcessDies, ProbeOver
  <2>2. \A v \in Worker : config'[v] \in {config[v], NoConfig}
    BY <1>h, <1>7 DEF ProcessDies, HealthType
  <2> QED
    BY <2>1, <2>2 DEF Solid, Current, Right
<1>8. ASSUME NEW a \in Admin, Updates(a)
      PROVE  Solid'
  BY <1>8 DEF Updates, Changes, Solid, Current, Right
<1>9. ASSUME NEW a \in Admin, Pings(a) \/ Reads(a)
      PROVE  Solid'
  BY <1>9 DEF Pings, Reads, Solid, Current, Right
<1>10. ASSUME NEW a \in Admin, Marks(a)
       PROVE  Solid'
  <2>1. /\ probe[a].pc = "mark" /\ newer' = {} /\ UNCHANGED <<config, up>>
        /\ solid' => solid /\ a \notin outdated
    BY <1>10 DEF Marks, ProbeAt
  <2>2. CASE Verdict(probe[a].ok) = probe[a].saw
    BY <1>10, <2>1, <2>2 DEF Marks, Solid, Current, Right
  <2>3. CASE Verdict(probe[a].ok) # probe[a].saw /\ solid'
    <3>1. row' = [row EXCEPT !.health = Verdict(probe[a].ok)] /\ a \notin outdated /\ Current
      BY <1>10, <2>1, <2>3 DEF Marks, Solid
    <3>2. config[Home(a)] = row.endpoint
      BY <2>1, <3>1, HomeType DEF Homes, Current
    <3>3. probe[a].ok = (row.endpoint \in up)
      BY <2>1, <3>1, <3>2, HomeType DEF Timely
    <3>4. row'.endpoint = row.endpoint /\ row'.health = Verdict(row.endpoint \in up)
      BY <1>h, <3>1, <3>3 DEF HealthType
    <3> QED
      BY <2>1, <3>1, <3>4 DEF Solid, Current, Right
  <2> QED
    BY <2>2, <2>3 DEF Solid
<1>11. ASSUME NEW e \in Endpoint, HostFlips(e)
       PROVE  Solid'
  BY <1>11 DEF HostFlips, Changes, Solid
<1> QED
  BY <1>1, <1>2, <1>3, <1>4, <1>5, <1>6, <1>7, <1>8, <1>9, <1>10, <1>11 DEF HealthNext

\* All this holds of every reachable state.
LEMMA HealthInvariant == Spec => []HealthInv
<1>1. Init => HealthInv
  <2> SUFFICES ASSUME HealthInit
               PROVE  HealthInv
    BY DEF Init
  <2>1. /\ row.endpoint = 0 /\ row.health \in Health
        /\ row = [endpoint |-> row.endpoint, health |-> row.health]
    BY DEF HealthInit, Health
  <2>2. 0 \in Endpoint /\ row \in [endpoint : Endpoint, health : Health]
    BY <2>1, HomeType DEF Endpoint
  <2>3. \A x \in Prober : probe[x].pc = "idle" /\ probe[x] \in ProbeState
    BY DEF HealthInit, NoProbe, ProbeState
  <2>4. HealthType
    BY <2>2, <2>3 DEF HealthInit, HealthType
  <2> QED
    BY <2>3, <2>4, HomeType DEF HealthInit, HealthInv, Homes, Ordered, OneLoad, Noted, Timely, Solid
<1>2. HealthInv /\ [Next]_vars => HealthInv'
  <2>1. HealthInv /\ HealthNext => HealthInv'
    BY HealthTypeStep, CatalogStep, ProbeStep, SolidStep DEF HealthInv
  <2>2. HealthInv /\ UNCHANGED healthVars => HealthInv'
    BY DEF healthVars, HealthInv, HealthType, Homes, Ordered, OneLoad, Noted, Timely, Solid,
           Current, Right, Probing, Checks
  <2>3. UNCHANGED vars => UNCHANGED healthVars
    BY DEF vars, ctxVars, healthVars
  <2> QED
    BY <2>1, <2>2, <2>3, Watches
<1> QED
  BY <1>1, <1>2, PTL DEF Spec

\* What a check that began after the last change found stays in the row, however
\* late the checks that began before it come: health_checked_at keeps them out.
THEOREM LateChecksLose == Spec => []StaleProbeLoses
<1>1. HealthInv => StaleProbeLoses
  BY DEF HealthInv, Solid, StaleProbeLoses
<1> QED
  BY <1>1, HealthInvariant, PTL

\* A process never goes back to a catalog older than the one it has: loads of one
\* process take turns, and each installs what it read in its turn.
THEOREM CatalogsGoForward == Spec => CatalogForward
<1> DEFINE Forward == \A w \in Worker : NoConfig \notin {config[w], config'[w]} => config[w] <= config'[w]
<1>1. ASSUME HealthInv, HealthNext
      PROVE  Forward
  <2> USE <1>1 DEF HealthInv
  <2>1. \A w \in Worker : config[w] # NoConfig => config[w] \in Int
    BY HomeType DEF HealthType
  <2>2. ASSUME NEW x \in Prober, InstallsCatalog(x)
        PROVE  Forward
    <3>1. load[x] # NoLoad /\ Home(x) \in Worker /\ config' = [config EXCEPT ![Home(x)] = load[x]]
      BY <2>2, HomeType DEF InstallsCatalog
    <3>2. config[Home(x)] <= load[x]
      BY <3>1 DEF Ordered
    <3>3. config'[Home(x)] = load[x] /\ \A w \in Worker : w # Home(x) => config'[w] = config[w]
      BY <3>1 DEF HealthType
    <3> QED
      BY <2>1, <3>2, <3>3
  <2>3. ASSUME NEW w \in Worker, (config[w] = NoConfig /\ FirstCatalog(w)) \/ ProcessDies(w)
        PROVE  Forward
    <3>1. NoConfig \in {config[w], config'[w]} /\ \A v \in Worker : v # w => config'[v] = config[v]
      BY <2>3 DEF FirstCatalog, ProcessDies, HealthType
    <3> QED
      BY <2>1, <3>1
  <2>4. ASSUME NEW x \in Prober, ReadsCatalog(x)
        PROVE  Forward
    BY <2>1, <2>4 DEF ReadsCatalog
  <2>5. CASE /\ \A x \in Prober : ~ReadsCatalog(x) /\ ~InstallsCatalog(x)
             /\ \A w \in Worker : ~(config[w] = NoConfig /\ FirstCatalog(w)) /\ ~ProcessDies(w)
    BY <2>1, <2>5, CatalogsKept
  <2> QED
    BY <2>2, <2>3, <2>4, <2>5
<1>2. HealthInv /\ [Next]_vars => [Forward]_healthVars
  <2>1. UNCHANGED vars => UNCHANGED healthVars
    BY DEF vars, ctxVars, healthVars
  <2> QED
    BY <1>1, <2>1, Watches
<1> QED
  BY <1>2, HealthInvariant, PTL DEF Spec, CatalogForward

=============================================================================
