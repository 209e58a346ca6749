-------------------------- MODULE LifecycleProofs --------------------------
(***************************************************************************)
(* What holds of Lifecycle for every set of instances and processes, every *)
(* number of resources per instance and every value of the time limits.    *)
(***************************************************************************)
EXTENDS Lifecycle, TLAPS

\* The bounds of the saturating ages are what they are meant to be.
LEMMA Bounds ==
  /\ AgeCap \in Nat /\ BornCap \in Nat /\ Horizon \in Nat /\ HostCap \in Nat
  /\ TtlMin \in Int /\ TtlMin < 0 /\ TtlMin < Span
  /\ \A a \in Age : Older(a, AgeCap) \in Age
  /\ \A a \in 0 .. BornCap : Older(a, BornCap) \in 0 .. BornCap
  /\ \A a \in 0 .. Horizon : Older(a, Horizon) \in 0 .. Horizon
  /\ \A a \in HostAge : Older(a, HostCap) \in HostAge
  /\ 0 \in Age /\ 0 \in HostAge /\ 0 \in 0 .. BornCap /\ 0 \in 0 .. Horizon
  /\ Absent \notin HostAge
  /\ Span \in TtlMin .. Span
<1>1. /\ AgeCap \in Nat /\ BornCap \in Nat /\ Horizon \in Nat /\ HostCap \in Nat
      /\ TtlMin \in Int /\ TtlMin < 0 /\ TtlMin < Span
      /\ Span \in TtlMin .. Span
  BY LifecycleAssumption, SiteAssumption DEF AgeCap, BornCap, HostCap, TtlMin
<1>2. ASSUME NEW cap \in Nat, NEW a \in 0 .. cap
      PROVE  Older(a, cap) \in 0 .. cap
  BY DEF Older, Min2
<1>3. QED
  BY <1>1, <1>2 DEF Age, HostAge, Absent

\* Taking resources away leaves the type of docker intact, and removes exactly
\* the named resources of the one instance.
LEMMA WithoutType ==
  ASSUME docker \in [Instance -> [Member -> HostAge \cup {Absent}]],
         NEW i \in Instance, NEW ms
  PROVE  /\ Without(i, ms) \in [Instance -> [Member -> HostAge \cup {Absent}]]
         /\ \A k \in Instance \ {i} : Without(i, ms)[k] = docker[k]
         /\ \A m \in Member : Without(i, ms)[i][m] = IF m \in ms THEN Absent ELSE docker[i][m]
  BY DEF Without

\* A version bump keeps the type of the scans' memory.
LEMMA BumpType ==
  ASSUME seen \in [Job -> SUBSET Instance], NEW i, Bump(i)
  PROVE  seen' \in [Job -> SUBSET Instance]
<1>1. \A j \in Job : seen[j] \ {i} \in SUBSET Instance
  OBVIOUS
<1>2. QED
  BY <1>1 DEF Bump

(***************************************************************************)
(* Type correctness                                                        *)
(***************************************************************************)

\* Every step of a create request keeps the types.
LEMMA HandlerTypes ==
  ASSUME TypeOK, NEW i \in Instance, HandlerStep(i)
  PROVE  TypeOK'
<1> USE LifecycleAssumption DEF TypeOK, Goto, dockerVars, jobVars, passVars, HandlerPC
<1>0. 0 \in Age /\ 0 \in HostAge /\ 0 \in 0 .. BornCap /\ Span \in TtlMin .. Span
  BY Bounds
<1>1. CASE Reserve(i)
  <2>1. NewRow \in Row
    BY <1>0 DEF NewRow, Row
  <2>2. QED
    BY <1>1, <2>1 DEF Reserve
<1>2. CASE StartCreating(i) \/ ContextsFail(i) \/ VolumesFail(i) \/ PortMissing(i) \/ FinalizationFails(i)
  <2>1. /\ UNCHANGED <<row, history, docker, late, made, undo, work, seen, site, opened, alive, orphans, lag>>
        /\ \E pc \in HandlerPC : handler' = [handler EXCEPT ![i] = pc]
    BY <1>2 DEF StartCreating, ContextsFail, VolumesFail, PortMissing, FinalizationFails
  <2>2. handler[i] \notin {"idle", "reserved", "creating"} => handler'[i] \notin {"idle", "reserved", "creating"}
    BY <1>2 DEF StartCreating, ContextsFail, VolumesFail, PortMissing, FinalizationFails
  <2>3. QED
    BY <2>1, <2>2
<1>3. CASE CreateOk(i)
  <2> DEFINE m == made[i] + 1
  <2>1. m \in Member
    BY <1>3 DEF CreateOk, Member
  <2>2. /\ docker' = [docker EXCEPT ![i][m] = 0]
        /\ made' = [made EXCEPT ![i] = m]
        /\ handler' = [handler EXCEPT ![i] = IF m = Units THEN "created" ELSE "creating"]
        /\ UNCHANGED <<row, history, late, undo, work, seen, site, opened, alive, orphans, lag>>
    BY <1>3 DEF CreateOk
  <2>3. docker' \in [Instance -> [Member -> HostAge \cup {Absent}]]
    BY <1>0, <2>1, <2>2
  <2>4. made' \in [Instance -> 0 .. Units]
    <3>1. m \in 0 .. Units
      BY <2>1 DEF Member
    <3>2. QED
      BY <2>2, <3>1
  <2>5. \A k \in Instance : handler'[k] \in {"idle", "reserved", "creating"} => made'[k] < Units
    <3>1. m # Units => m < Units
      BY <2>1 DEF Member
    <3>2. TAKE k \in Instance
    <3>3. CASE k = i
      BY <2>2, <3>1, <3>3
    <3>4. CASE k # i
      BY <2>2, <3>4
    <3>5. QED
      BY <3>3, <3>4
  <2>6. handler' \in [Instance -> HandlerPC]
    BY <2>2
  <2>7. QED
    BY <2>2, <2>3, <2>4, <2>5, <2>6
<1>4. CASE CreateFails(i)
  <2>1. made[i] + 1 \in Member
    BY <1>4 DEF CreateFails, Member
  <2>2. docker' \in [Instance -> [Member -> HostAge \cup {Absent}]]
    BY <1>4, WithoutType DEF CreateFails
  <2>3. late' \in [Instance -> SUBSET Member]
    BY <1>4, <2>1 DEF CreateFails
  <2>4. QED
    BY <1>4, <2>2, <2>3 DEF CreateFails
<1>5. CASE MarkRunning(i)
  <2>1. row[i] \in Row
    BY <1>5 DEF MarkRunning, InState, Exists
  <2>2. [row[i] EXCEPT !.state = "running", !.slot = FALSE, !.age = 0] \in Row
    BY <1>0, <2>1 DEF Row
  <2>3. QED
    BY <1>5, <2>2, BumpType DEF MarkRunning
<1>6. CASE MarkCleanupPending(i)
  <2>1. CASE InState(i, "provisioning")
    <3>1. row[i] \in Row
      BY <2>1 DEF InState, Exists
    <3>2. [row[i] EXCEPT !.state = "cleanup_pending", !.age = 0] \in Row
      BY <1>0, <3>1 DEF Row
    <3>3. row' = [row EXCEPT ![i] = [row[i] EXCEPT !.state = "cleanup_pending", !.age = 0]]
      BY <1>6, <2>1, <3>1 DEF MarkCleanupPending
    <3>4. row' \in [Instance -> Row \cup {NoRow}]
      BY <3>2, <3>3
    <3>5. seen' \in [Job -> SUBSET Instance]
      BY <1>6, <2>1, BumpType DEF MarkCleanupPending
    <3>6. QED
      BY <1>6, <3>4, <3>5 DEF MarkCleanupPending
  <2>2. CASE ~InState(i, "provisioning")
    BY <1>6, <2>2 DEF MarkCleanupPending
  <2>3. QED
    BY <2>1, <2>2
<1>7. CASE UndoList(i)
  BY <1>7 DEF UndoList, Present
<1>8. CASE UndoRemove(i)
  BY <1>8, WithoutType DEF UndoRemove
<1>9. CASE UndoDelete(i)
  BY <1>9, BumpType DEF UndoDelete
<1>10. CASE UndoFails(i)
  BY <1>10, WithoutType DEF UndoFails
<1>11. CASE HandlerDies(i)
  BY <1>11 DEF HandlerDies
<1>12. QED
  BY <1>1, <1>2, <1>3, <1>4, <1>5, <1>6, <1>7, <1>8, <1>9, <1>10, <1>11 DEF HandlerStep

\* Every step of a Docker host keeps the types.
LEMMA DockerTypes ==
  ASSUME TypeOK, NEW i \in Instance, DockerStep(i)
  PROVE  TypeOK'
<1> USE Bounds DEF TypeOK, handlerVars, jobVars, passVars
<1>1. PICK m \in Member : LateCreate(i, m) \/ LateDrop(i, m) \/ ContainerExits(i, m)
  BY DEF DockerStep
<1>2. CASE LateCreate(i, m)
  BY <1>2 DEF LateCreate
<1>3. CASE LateDrop(i, m)
  BY <1>3 DEF LateDrop
<1>4. CASE ContainerExits(i, m)
  BY <1>4, WithoutType DEF ContainerExits
<1>5. QED
  BY <1>1, <1>2, <1>3, <1>4

\* A timer step keeps the state and the lease of the row it updates.
LEMMA TimerRow ==
  ASSUME TypeOK, NEW i \in Instance, TimerStep(i)
  PROVE  /\ Exists(i) /\ row[i] \in Row
         /\ \E r \in Row : /\ row' = [row EXCEPT ![i] = r]
                           /\ r.state = row[i].state /\ r.op = row[i].op
<1> USE Bounds, LifecycleAssumption DEF TypeOK
<1>1. Exists(i) /\ row[i] \in Row
  BY DEF TimerStep, Renew, ExtendByAdmin, ShortenAfterSolve, InState, Exists
<1>2. CASE Renew(i)
  <2> DEFINE r == [row[i] EXCEPT !.ttl = Span, !.renewals = row[i].renewals + 1, !.age = 0]
  <2>1. row[i].renewals + 1 \in 0 .. MaxRenewals
    BY <1>1, <1>2 DEF Renew, Row
  <2>2. r \in Row /\ r.state = row[i].state /\ r.op = row[i].op
    BY <1>1, <2>1 DEF Row
  <2>3. row' = [row EXCEPT ![i] = r]
    BY <1>2 DEF Renew
  <2>4. QED
    BY <1>1, <2>2, <2>3
<1>3. CASE ExtendByAdmin(i)
  <2> DEFINE r == [row[i] EXCEPT !.ttl = Span, !.age = 0]
  <2>1. r \in Row /\ r.state = row[i].state /\ r.op = row[i].op
    BY <1>1 DEF Row
  <2>2. row' = [row EXCEPT ![i] = r]
    BY <1>3 DEF ExtendByAdmin
  <2>3. QED
    BY <1>1, <2>1, <2>2
<1>4. CASE ShortenAfterSolve(i)
  <2> DEFINE least(d) == Min2(row[i].ttl, Max2(PostSolve - d, TtlMin))
  <2>0. PICK d \in 0 .. row[i].born :
          row' = [row EXCEPT ![i].ttl = Min2(@, Max2(PostSolve - d, TtlMin)),
                             ![i].solved = TRUE, ![i].age = Min2(d, AgeCap)]
    BY <1>4 DEF ShortenAfterSolve
  <2> DEFINE r == [row[i] EXCEPT !.ttl = least(d), !.solved = TRUE, !.age = Min2(d, AgeCap)]
  <2>1. row' = [row EXCEPT ![i] = r]
    BY <2>0
  <2>2. d \in Nat /\ row[i].ttl \in TtlMin .. Span
    BY <1>1, Bounds DEF Row
  <2>3. Min2(d, AgeCap) \in Age
    BY <2>2, Bounds DEF Min2, Age
  <2>4. least(d) \in TtlMin .. Span
    BY <2>2, Bounds, LifecycleAssumption DEF Min2, Max2
  <2>5. r \in Row /\ r.state = row[i].state /\ r.op = row[i].op
    BY <1>1, <2>3, <2>4 DEF Row
  <2>6. QED
    BY <1>1, <2>1, <2>5
<1>5. QED
  BY <1>2, <1>3, <1>4 DEF TimerStep

\* Every timer step keeps the types.
LEMMA TimerTypes ==
  ASSUME TypeOK, NEW i \in Instance, TimerStep(i)
  PROVE  TypeOK'
<1> USE DEF TypeOK, dockerVars, handlerVars, passVars
<1>1. seen' \in [Job -> SUBSET Instance]
  BY BumpType DEF TimerStep, Renew, ExtendByAdmin, ShortenAfterSolve
<1>2. PICK r \in Row : row' = [row EXCEPT ![i] = r]
  BY TimerRow
<1>3. QED
  BY <1>1, <1>2 DEF TimerStep, Renew, ExtendByAdmin, ShortenAfterSolve

\* The tasks that the actions assign.
LEMMA TaskTypes ==
  /\ \A w \in WorkPC : At(w) \in Task
  /\ \A w \in WorkPC, i \in Instance, ms \in SUBSET Member : On(w, i, ms) \in Task
BY DEF Task, At, On

\* Without with no instance to act on changes nothing.
LEMMA WithoutNobody ==
  ASSUME docker \in [Instance -> [Member -> HostAge \cup {Absent}]],
         NEW i, NEW ms
  PROVE  Without(i, ms) \in [Instance -> [Member -> HostAge \cup {Absent}]]
<1>1. CASE i \in Instance
  BY <1>1, WithoutType
<1>2. CASE i \notin Instance
  BY <1>2 DEF Without
<1>3. QED
  BY <1>1, <1>2

\* A claim hands the row to cleanup, with the claiming process as the holder.
LEMMA ClaimRow ==
  ASSUME TypeOK, NEW p \in Proc, NEW i \in Instance, Exists(i), Claim(p, i)
  PROVE  \E r \in Row : /\ row' = [row EXCEPT ![i] = r]
                        /\ r.state = "cleanup_pending" /\ r.op = p
<1> DEFINE r == [row[i] EXCEPT !.state = "cleanup_pending", !.op = p, !.age = 0]
<1>1. row[i] \in Row
  BY DEF TypeOK, Exists
<1>2. r \in Row /\ r.state = "cleanup_pending" /\ r.op = p
  BY <1>1, Bounds DEF Row
<1>3. row' = [row EXCEPT ![i].state = "cleanup_pending", ![i].op = p, ![i].age = 0]
  BY DEF Claim
<1>4. row \in [Instance -> Row \cup {NoRow}]
  BY DEF TypeOK
<1>5. row' = [row EXCEPT ![i] = r]
  BY <1>3, <1>4
<1>6. QED
  BY <1>2, <1>5

\* Claiming a row keeps the types.
LEMMA ClaimTypes ==
  ASSUME TypeOK, NEW p \in Proc, NEW i \in Instance, Exists(i), Claim(p, i)
  PROVE  /\ row' \in [Instance -> Row \cup {NoRow}]
         /\ work' \in [Proc -> Task]
         /\ seen' \in [Job -> SUBSET Instance]
<1>1. row' \in [Instance -> Row \cup {NoRow}]
  <2>1. PICK r \in Row : row' = [row EXCEPT ![i] = r]
    BY ClaimRow
  <2>2. row \in [Instance -> Row \cup {NoRow}]
    BY DEF TypeOK
  <2>3. QED
    BY <2>1, <2>2
<1>2. On("claimed", i, {}) \in Task
  BY TaskTypes DEF WorkPC
<1>3. QED
  BY <1>1, <1>2, BumpType DEF Claim, TypeOK

\* Every step of a cleaning process keeps the types.
LEMMA CleanTypes ==
  ASSUME TypeOK, NEW p \in Proc, CleanStep(p)
  PROVE  TypeOK'
<1> USE DEF WorkPC
<1>1. CASE \E i \in Instance : WebClaim(p, i)
  BY <1>1, ClaimTypes DEF WebClaim, TypeOK, dockerVars, handlerVars, passVars
<1>2. CASE List(p)
  <2>1. \A w \in WorkPC : ListAs(p, w) => work' \in [Proc -> Task]
    <3> TAKE w \in WorkPC
    <3>1. On(w, work[p].target, Present(work[p].target)) \in Task
      BY DEF On, Present, TypeOK, Task
    <3>2. QED
      BY <3>1 DEF ListAs, TypeOK
  <2>2. QED
    BY <1>2, <2>1 DEF List, TypeOK, dockerVars, handlerVars, jobVars, passVars
<1>3. CASE Remove(p)
  <2>1. On("removed", work[p].target, {}) \in Task
    BY DEF On, TypeOK, Task
  <2>2. work' \in [Proc -> Task]
    BY <1>3, <2>1 DEF Remove, TypeOK
  <2>3. docker' \in [Instance -> [Member -> HostAge \cup {Absent}]]
    BY <1>3, WithoutNobody DEF Remove, TypeOK
  <2>4. QED
    BY <1>3, <2>2, <2>3 DEF Remove, TypeOK, handlerVars, jobVars, passVars
<1>4. Resume(p) \in Task
  BY TaskTypes DEF Resume
<1>5. CASE Delete(p)
  <2>1. work' \in [Proc -> Task]
    BY <1>4, <1>5 DEF Delete, TypeOK
  <2>2. row' \in [Instance -> Row \cup {NoRow}] /\ history' \in [Instance -> {"none", "open", "stopped"}]
    BY <1>5 DEF Delete, TypeOK
  <2>3. seen' \in [Job -> SUBSET Instance]
    BY <1>5, BumpType DEF Delete, TypeOK
  <2>4. QED
    BY <1>5, <2>1, <2>2, <2>3 DEF Delete, TypeOK, dockerVars, handlerVars, passVars
<1>6. CASE CleanFails(p)
  <2> DEFINE i == work[p].target
  <2>1. work' \in [Proc -> Task]
    BY <1>4, <1>6 DEF CleanFails, TypeOK
  <2>2. docker' \in [Instance -> [Member -> HostAge \cup {Absent}]]
    BY <1>6, WithoutNobody DEF CleanFails, TypeOK
  <2>3. row' \in [Instance -> Row \cup {NoRow}]
    <3>1. CASE InState(i, "cleanup_pending") /\ row[i].op = p /\ i \in Instance
      <4>1. row[i] \in Row
        BY <3>1 DEF InState, Exists, TypeOK
      <4>2. [row[i] EXCEPT !.op = Nobody, !.age = 0] \in Row
        BY <4>1, Bounds DEF Row
      <4>3. row' = [row EXCEPT ![i] = [row[i] EXCEPT !.op = Nobody, !.age = 0]]
        BY <1>6, <3>1 DEF CleanFails, TypeOK
      <4>4. QED
        BY <4>2, <4>3 DEF TypeOK
    <3>2. CASE ~(InState(i, "cleanup_pending") /\ row[i].op = p)
      BY <1>6, <3>2 DEF CleanFails, TypeOK
    <3>3. CASE i \notin Instance
      <4>1. row' = row \/ row' = [row EXCEPT ![i].op = Nobody, ![i].age = 0]
        BY <1>6 DEF CleanFails
      <4>2. QED
        BY <3>3, <4>1 DEF TypeOK
    <3>4. QED
      BY <3>1, <3>2, <3>3
  <2>4. QED
    BY <1>6, <2>1, <2>2, <2>3 DEF CleanFails, TypeOK, handlerVars, jobVars, passVars
<1>7. CASE ProcDies(p)
  <2>1. work' \in [Proc -> Task]
    BY <1>7, TaskTypes DEF ProcDies, TypeOK, Idle
  <2>2. /\ seen' \in [Job -> SUBSET Instance] /\ alive' \in [Job -> SUBSET Instance]
        /\ orphans' \in [Job -> SUBSET Instance] /\ lag' \in [Job -> 0 .. MaxLag]
        /\ opened' \in [Job -> 0 .. Horizon] /\ site' \in Site
    <3>1. CASE p \in Job
      <4>1. /\ seen' = [seen EXCEPT ![p] = {}] /\ alive' = [alive EXCEPT ![p] = {}]
            /\ orphans' = [orphans EXCEPT ![p] = {}] /\ lag' = [lag EXCEPT ![p] = 0]
            /\ opened' = [opened EXCEPT ![p] = 0] /\ site' = site
        BY <1>7, <3>1 DEF ProcDies
      <4>2. 0 \in 0 .. MaxLag /\ 0 \in 0 .. Horizon
        BY LifecycleAssumption, Bounds
      <4>3. QED
        BY <4>1, <4>2 DEF TypeOK
    <3>2. CASE p \notin Job
      BY <1>7, <3>2 DEF ProcDies, TypeOK, jobVars, passVars
    <3>3. QED
      BY <3>1, <3>2
  <2>3. QED
    BY <1>7, <2>1, <2>2 DEF ProcDies, TypeOK, dockerVars, handlerVars
<1>8. QED
  BY <1>1, <1>2, <1>3, <1>5, <1>6, <1>7 DEF CleanStep

\* Every step of a maintenance worker keeps the types.
LEMMA JobTypes ==
  ASSUME TypeOK, NEW j \in Job, JobStep(j)
  PROVE  TypeOK'
<1> USE DEF dockerVars, handlerVars, passVars, WorkPC, Proc
<1>1. 0 \in 0 .. MaxLag /\ 0 \in 0 .. Horizon
  BY LifecycleAssumption, Bounds
<1>2. ASSUME NEW w \in WorkPC
      PROVE  [work EXCEPT ![j] = At(w)] \in [Proc -> Task]
  BY <1>2, TaskTypes DEF TypeOK
<1>3. ASSUME NEW i \in Instance, JobClaim(j, i)
      PROVE  TypeOK'
  <2>1. Exists(i)
    BY <1>3 DEF JobClaim, Due, InState
  <2>2. QED
    BY <1>3, <2>1, ClaimTypes DEF JobClaim, TypeOK
<1>4. ASSUME NEW i \in Instance, JobSkip(j, i)
      PROVE  TypeOK'
  <2>1. seen' \in [Job -> SUBSET Instance]
    BY <1>4 DEF JobSkip, TypeOK
  <2>2. QED
    BY <1>4, <2>1 DEF JobSkip, TypeOK
<1>5. ASSUME NEW i \in Instance, OrphanRecheck(j, i)
      PROVE  TypeOK'
  <2>1. On("reaping", i, {}) \in Task
    BY TaskTypes
  <2>2. work' \in [Proc -> Task]
    BY <1>5, <2>1 DEF OrphanRecheck, TypeOK
  <2>3. orphans' \in [Job -> SUBSET Instance]
    BY <1>5 DEF OrphanRecheck, TypeOK
  <2>4. QED
    BY <1>5, <2>2, <2>3 DEF OrphanRecheck, TypeOK
<1>6. CASE Begin(j) \/ Scan(j)
  <2>1. Live \in SUBSET Instance
    BY DEF Live
  <2>2. CASE Begin(j)
    BY <1>1, <1>2, <2>1, <2>2 DEF Begin, TypeOK
  <2>3. CASE Scan(j)
    BY <1>1, <1>2, <2>3 DEF Scan, TypeOK
  <2>4. QED
    BY <1>6, <2>2, <2>3
<1>7. CASE OrphanSnapshot(j)
  BY <1>1, <1>2, <1>7 DEF OrphanSnapshot, Live, TypeOK
<1>8. CASE OrphanList(j)
  BY <1>1, <1>2, <1>8 DEF OrphanList, TypeOK
<1>9. CASE Reap(j)
  BY <1>2, <1>9, WithoutNobody DEF Reap, TypeOK, jobVars, passVars
<1>10. CASE ReapFails(j)
  BY <1>2, <1>10, WithoutNobody DEF ReapFails, TypeOK, jobVars, passVars
<1>11. CASE JobDone(j)
  BY <1>1, <1>2, <1>11 DEF JobDone, Idle, TypeOK, jobVars, passVars
<1>12. QED
  BY <1>3, <1>4, <1>5, <1>6, <1>7, <1>8, <1>9, <1>10, <1>11 DEF JobStep

\* The passing of time keeps the types.
LEMMA TickTypes ==
  ASSUME TypeOK, Tick
  PROVE  TypeOK'
<1>1. row' \in [Instance -> Row \cup {NoRow}]
  <2>1. ASSUME NEW i \in Instance, Exists(i)
        PROVE  [row[i] EXCEPT !.age = Older(@, AgeCap), !.born = Older(@, BornCap),
                              !.ttl = Max2(@ - 1, TtlMin)] \in Row
    <3>1. /\ row[i] \in Row /\ row[i].age \in Age /\ row[i].born \in 0 .. BornCap
          /\ row[i].ttl \in TtlMin .. Span
      BY <2>1 DEF TypeOK, Exists, Row
    <3>2. /\ Older(row[i].age, AgeCap) \in Age /\ Older(row[i].born, BornCap) \in 0 .. BornCap
          /\ Max2(row[i].ttl - 1, TtlMin) \in TtlMin .. Span
      BY <3>1, Bounds, LifecycleAssumption DEF Max2
    <3>3. QED
      BY <3>1, <3>2 DEF Row
  <2>2. QED
    BY <2>1 DEF Tick
<1>2. docker' \in [Instance -> [Member -> HostAge \cup {Absent}]]
  <2>1. ASSUME NEW i \in Instance, NEW m \in Member
        PROVE  (IF docker[i][m] = Absent THEN Absent ELSE Older(docker[i][m], HostCap)) \in HostAge \cup {Absent}
    BY Bounds DEF TypeOK
  <2>2. QED
    BY <2>1 DEF Tick
<1>3. lag' \in [Job -> 0 .. MaxLag]
  <2>1. ASSUME NEW j \in Job
        PROVE  (IF Lagging(j) THEN lag[j] + 1 ELSE 0) \in 0 .. MaxLag
    <3>1. MaxLag \in Nat /\ lag[j] \in 0 .. MaxLag
      BY LifecycleAssumption DEF TypeOK
    <3>2. Lagging(j) => lag[j] < MaxLag
      BY DEF Tick
    <3>3. QED
      BY <3>1, <3>2
  <2>2. QED
    BY <2>1 DEF Tick
<1>4. opened' \in [Job -> 0 .. Horizon]
  BY Bounds DEF Tick, TypeOK
<1>5. QED
  BY <1>1, <1>2, <1>3, <1>4 DEF Tick, TypeOK, handlerVars

\* The types are inductive.
LEMMA TypeStep ==
  ASSUME TypeOK, [Next]_vars
  PROVE  TypeOK'
<1>1. CASE UNCHANGED vars
  BY <1>1 DEF vars, TypeOK
<1>2. CASE Next
  BY <1>2, HandlerTypes, DockerTypes, TimerTypes, CleanTypes, JobTypes, TickTypes DEF Next
<1>3. QED
  BY <1>1, <1>2

\* The types hold initially.
LEMMA TypeInit == Init => TypeOK
<1>1. Idle \in Task
  BY TaskTypes DEF Idle, WorkPC
<1>2. QED
  BY <1>1, Bounds, LifecycleAssumption DEF Init, TypeOK, HandlerPC

\* The types hold in every reachable state.
THEOREM TypeCorrect == Spec => []TypeOK
  BY TypeInit, TypeStep, PTL DEF Spec

=============================================================================
