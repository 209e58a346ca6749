-------------------------- MODULE LifecycleSafety --------------------------
(***************************************************************************)
(* The safety properties of Lifecycle, for every value of its constants.   *)
(* First what any step can do to the row, the resources, the request and   *)
(* the processes; then the inductive invariants; then the theorems.        *)
(***************************************************************************)
EXTENDS LifecycleProofs

(***************************************************************************)
(* The effects of a step                                                   *)
(***************************************************************************)

\* A step either leaves the program counter of a request alone or is one of
\* that request's own.
LEMMA HandlerEffect ==
  ASSUME TypeOK, Next, NEW i \in Instance
  PROVE  (handler'[i] = handler[i] /\ made'[i] = made[i] /\ undo'[i] = undo[i]) \/ HandlerStep(i)
<1> USE DEF TypeOK
<1>1. ASSUME NEW k \in Instance, HandlerStep(k), k # i
      PROVE  handler'[i] = handler[i] /\ made'[i] = made[i] /\ undo'[i] = undo[i]
  BY <1>1 DEF HandlerStep, Goto, Reserve, StartCreating, ContextsFail, VolumesFail, CreateOk,
              CreateFails, PortMissing, MarkRunning, FinalizationFails, MarkCleanupPending,
              UndoList, UndoRemove, UndoDelete, UndoFails, HandlerDies
<1>2. ASSUME NEW k \in Instance, DockerStep(k) \/ TimerStep(k)
      PROVE  UNCHANGED handlerVars
  BY <1>2 DEF DockerStep, LateCreate, LateDrop, ContainerExits,
              TimerStep, Renew, ExtendByAdmin, ShortenAfterSolve
<1>3. ASSUME NEW p \in Proc, CleanStep(p)
      PROVE  UNCHANGED handlerVars
  BY <1>3 DEF CleanStep, WebClaim, List, Remove, Delete, CleanFails, ProcDies
<1>4. ASSUME NEW j \in Job, JobStep(j)
      PROVE  UNCHANGED handlerVars
  BY <1>4 DEF JobStep, JobClaim, JobSkip, OrphanRecheck, Begin, Scan, OrphanSnapshot, OrphanList,
              Reap, ReapFails, JobDone
<1>5. Tick => UNCHANGED handlerVars
  BY DEF Tick
<1>6. QED
  BY <1>1, <1>2, <1>3, <1>4, <1>5 DEF Next, handlerVars

\* A step either leaves the task of a process alone or is one of that process.
LEMMA WorkEffect ==
  ASSUME TypeOK, Next, NEW p \in Proc
  PROVE  work'[p] = work[p] \/ CleanStep(p) \/ (p \in Job /\ JobStep(p))
<1> USE DEF TypeOK
<1>1. ASSUME NEW k \in Instance, HandlerStep(k)
      PROVE  work' = work
  BY <1>1 DEF HandlerStep, Reserve, StartCreating, ContextsFail, VolumesFail, CreateOk,
              CreateFails, PortMissing, MarkRunning, FinalizationFails, MarkCleanupPending,
              UndoList, UndoRemove, UndoDelete, UndoFails, HandlerDies
<1>2. ASSUME NEW k \in Instance, DockerStep(k) \/ TimerStep(k)
      PROVE  work' = work
  BY <1>2 DEF DockerStep, LateCreate, LateDrop, ContainerExits,
              TimerStep, Renew, ExtendByAdmin, ShortenAfterSolve
<1>3. ASSUME NEW q \in Proc, CleanStep(q), q # p
      PROVE  work'[p] = work[p]
  BY <1>3 DEF CleanStep, WebClaim, Claim, List, ListAs, Remove, Delete, CleanFails, ProcDies
<1>4. ASSUME NEW j \in Job, JobStep(j), j # p
      PROVE  work'[p] = work[p]
  BY <1>4 DEF JobStep, JobClaim, Claim, JobSkip, OrphanRecheck, Begin, Scan, OrphanSnapshot, OrphanList,
              Reap, ReapFails, JobDone
<1>5. Tick => work' = work
  BY DEF Tick
<1>6. QED
  BY <1>1, <1>2, <1>3, <1>4, <1>5 DEF Next

\* What remains of a row that a step updates in place: state and lease.
Keeps(i, s, o) == row'[i] \in Row /\ row'[i].state = s /\ row'[i].op = o

\* A finalization updates the row in place.
LEMMA MarkRunningRow ==
  ASSUME TypeOK, NEW i \in Instance, MarkRunning(i)
  PROVE  Exists(i) /\ row[i] \in Row /\ Keeps(i, "running", row[i].op)
<1>1. row[i] \in Row
  BY DEF MarkRunning, InState, Exists, TypeOK
<1>2. row' = [row EXCEPT ![i] = [row[i] EXCEPT !.state = "running", !.slot = FALSE, !.age = 0]]
  BY DEF MarkRunning, TypeOK
<1>3. [row[i] EXCEPT !.state = "running", !.slot = FALSE, !.age = 0] \in Row
  BY <1>1, Bounds DEF Row
<1>4. Keeps(i, "running", row[i].op)
  BY <1>1, <1>2, <1>3 DEF Keeps, Row, TypeOK
<1>5. QED
  BY <1>1, <1>4 DEF MarkRunning, InState

\* A step leaves a row alone, or creates it, or starts it, or hands it to
\* cleanup, or gives it to a cleaner, or updates its timers, or gives up its
\* lease, or deletes it: by the request's undo or by the holder of the lease.
LEMMA RowEffect ==
  ASSUME TypeOK, Next, NEW i \in Instance
  PROVE  \/ row'[i] = row[i]
         \/ Reserve(i) /\ row'[i] = NewRow
         \/ Exists(i) /\ row[i] \in Row /\ MarkRunning(i) /\ Keeps(i, "running", row[i].op)
         \/ Exists(i) /\ row[i] \in Row /\ MarkCleanupPending(i) /\ Keeps(i, "cleanup_pending", row[i].op)
         \/ Exists(i) /\ row[i] \in Row /\ \E p \in Proc :
              /\ WebClaim(p, i) \/ (p \in Job /\ JobClaim(p, i))
              /\ Keeps(i, "cleanup_pending", p)
         \/ Exists(i) /\ row[i] \in Row /\ Keeps(i, row[i].state, row[i].op)
         \/ Exists(i) /\ row[i] \in Row /\ row[i].state = "cleanup_pending"
            /\ Keeps(i, row[i].state, Nobody)
            /\ \E p \in Proc : CleanFails(p) /\ work[p].target = i /\ row[i].op = p
         \/ Exists(i) /\ row'[i] = NoRow /\ UndoDelete(i)
         \/ /\ Exists(i) /\ row'[i] = NoRow
            /\ \E p \in Proc : Delete(p) /\ work[p].target = i /\ row[i].op = p
<1>1. row' \in [Instance -> Row \cup {NoRow}]
  BY TypeStep DEF TypeOK
<1>2. Exists(i) => row[i] \in Row
  BY DEF Exists, TypeOK
<1>3. ASSUME NEW k \in Instance, HandlerStep(k)
      PROVE  \/ row'[i] = row[i]
             \/ Reserve(i) /\ row'[i] = NewRow
             \/ Exists(i) /\ MarkRunning(i) /\ Keeps(i, "running", row[i].op)
             \/ Exists(i) /\ MarkCleanupPending(i) /\ Keeps(i, "cleanup_pending", row[i].op)
             \/ Exists(i) /\ row'[i] = NoRow /\ UndoDelete(i)
  <2>1. CASE Reserve(k) \/ UndoDelete(k)
    BY <2>1 DEF Reserve, UndoDelete, Exists, TypeOK
  <2>2. CASE MarkRunning(k)
    <3>1. CASE k = i
      BY <2>2, <3>1, MarkRunningRow
    <3>2. CASE k # i
      BY <2>2, <3>2 DEF MarkRunning, TypeOK
    <3>3. QED
      BY <3>1, <3>2
  <2>3. CASE MarkCleanupPending(k)
    <3>1. CASE InState(k, "provisioning")
      <4>1. row[k] \in Row
        BY <3>1 DEF InState, Exists, TypeOK
      <4>2. row' = [row EXCEPT ![k] = [row[k] EXCEPT !.state = "cleanup_pending", !.age = 0]]
        BY <2>3, <3>1 DEF MarkCleanupPending, TypeOK
      <4>3. [row[k] EXCEPT !.state = "cleanup_pending", !.age = 0] \in Row
        BY <4>1, Bounds DEF Row
      <4>4. QED
        BY <2>3, <3>1, <4>1, <4>2, <4>3 DEF Keeps, Row, TypeOK, InState
    <3>2. CASE ~InState(k, "provisioning")
      BY <2>3, <3>2 DEF MarkCleanupPending
    <3>3. QED
      BY <3>1, <3>2
  <2>4. CASE ~(Reserve(k) \/ UndoDelete(k) \/ MarkRunning(k) \/ MarkCleanupPending(k))
    BY <1>3, <2>4 DEF HandlerStep, StartCreating, ContextsFail, VolumesFail, CreateOk, CreateFails,
              PortMissing, FinalizationFails, UndoList, UndoRemove, UndoFails, HandlerDies
  <2>5. QED
    BY <2>1, <2>2, <2>3, <2>4
<1>4. ASSUME NEW k \in Instance, DockerStep(k)
      PROVE  row' = row
  BY <1>4 DEF DockerStep, LateCreate, LateDrop, ContainerExits
<1>5. ASSUME NEW k \in Instance, TimerStep(k)
      PROVE  row'[i] = row[i] \/ (Exists(i) /\ Keeps(i, row[i].state, row[i].op))
  BY <1>5, TimerRow DEF Keeps, TypeOK
<1>6. ASSUME NEW p \in Proc, CleanStep(p)
      PROVE  \/ row'[i] = row[i]
             \/ Exists(i) /\ WebClaim(p, i) /\ Keeps(i, "cleanup_pending", p)
             \/ /\ Exists(i) /\ row[i].state = "cleanup_pending" /\ Keeps(i, row[i].state, Nobody)
                /\ CleanFails(p) /\ work[p].target = i /\ row[i].op = p
             \/ /\ Exists(i) /\ row'[i] = NoRow
                /\ Delete(p) /\ work[p].target = i /\ row[i].op = p
  <2>1. CASE \E k \in Instance : WebClaim(p, k)
    <3>1. PICK k \in Instance : WebClaim(p, k)
      BY <2>1
    <3>2. PICK r \in Row : /\ row' = [row EXCEPT ![k] = r]
                           /\ r.state = "cleanup_pending" /\ r.op = p
      BY <3>1, ClaimRow DEF WebClaim
    <3>3. QED
      BY <3>1, <3>2 DEF WebClaim, Keeps, TypeOK
  <2>2. CASE Delete(p)
    BY <2>2 DEF Delete, TypeOK
  <2>3. CASE CleanFails(p)
    <3>1. CASE work[p].target = i /\ InState(i, "cleanup_pending") /\ row[i].op = p
      <4>1. row' = [row EXCEPT ![i] = [row[i] EXCEPT !.op = Nobody, !.age = 0]]
        BY <2>3, <3>1 DEF CleanFails, TypeOK
      <4>2. row[i] \in Row
        BY <1>2, <3>1 DEF InState
      <4>3. [row[i] EXCEPT !.op = Nobody, !.age = 0] \in Row
        BY <4>2, Bounds DEF Row
      <4>4. QED
        BY <2>3, <3>1, <4>1, <4>2, <4>3 DEF Keeps, Row, TypeOK, InState
    <3>2. CASE ~(work[p].target = i /\ InState(i, "cleanup_pending") /\ row[i].op = p)
      BY <2>3, <3>2 DEF CleanFails, TypeOK
    <3>3. QED
      BY <3>1, <3>2
  <2>4. CASE List(p) \/ Remove(p) \/ ProcDies(p)
    BY <2>4 DEF List, Remove, ProcDies
  <2>5. QED
    BY <1>6, <2>1, <2>2, <2>3, <2>4 DEF CleanStep
<1>7. ASSUME NEW j \in Job, JobStep(j)
      PROVE  row'[i] = row[i] \/ (Exists(i) /\ JobClaim(j, i) /\ Keeps(i, "cleanup_pending", j))
  <2>1. CASE \E k \in Instance : JobClaim(j, k)
    <3>1. PICK k \in Instance : JobClaim(j, k)
      BY <2>1
    <3>2. Exists(k)
      BY <3>1 DEF JobClaim, Due, InState
    <3>3. PICK r \in Row : /\ row' = [row EXCEPT ![k] = r]
                           /\ r.state = "cleanup_pending" /\ r.op = j
      BY <3>1, <3>2, ClaimRow DEF JobClaim, Proc
    <3>4. QED
      BY <3>1, <3>2, <3>3 DEF Keeps, TypeOK
  <2>2. CASE ~\E k \in Instance : JobClaim(j, k)
    BY <1>7, <2>2 DEF JobStep, JobSkip, OrphanRecheck, Begin, Scan, OrphanSnapshot, OrphanList,
                      Reap, ReapFails, JobDone
  <2>3. QED
    BY <2>1, <2>2
<1>8. Tick => row'[i] = row[i] \/ (Exists(i) /\ Keeps(i, row[i].state, row[i].op))
  <2>1. ASSUME Tick, Exists(i)
        PROVE  Keeps(i, row[i].state, row[i].op)
    <3> DEFINE r == [row[i] EXCEPT !.age = Older(row[i].age, AgeCap),
                                   !.born = Older(row[i].born, BornCap),
                                   !.ttl = Max2(row[i].ttl - 1, TtlMin)]
    <3>1. row'[i] = r
      BY <2>1 DEF Tick
    <3>2. row[i].age \in Age /\ row[i].born \in 0 .. BornCap /\ row[i].ttl \in TtlMin .. Span
      BY <1>2, <2>1 DEF Row
    <3>3. /\ Older(row[i].age, AgeCap) \in Age /\ Older(row[i].born, BornCap) \in 0 .. BornCap
          /\ Max2(row[i].ttl - 1, TtlMin) \in TtlMin .. Span
      BY <3>2, Bounds, LifecycleAssumption DEF Max2
    <3>4. r \in Row /\ r.state = row[i].state /\ r.op = row[i].op
      BY <1>2, <2>1, <3>3 DEF Row
    <3>5. QED
      BY <3>1, <3>4 DEF Keeps
  <2>2. ASSUME Tick, ~Exists(i)
        PROVE  row'[i] = row[i]
    BY <2>2 DEF Tick, Exists
  <2>3. QED
    BY <2>1, <2>2
<1>9. CASE \E k \in Instance : HandlerStep(k)
  BY <1>2, <1>3, <1>9
<1>10. CASE \E k \in Instance : DockerStep(k) \/ TimerStep(k)
  BY <1>2, <1>4, <1>5, <1>10
<1>11. CASE \E p \in Proc : CleanStep(p)
  BY <1>2, <1>6, <1>11
<1>12. CASE \E j \in Job : JobStep(j)
  BY <1>2, <1>7, <1>12 DEF Proc
<1>13. CASE Tick
  BY <1>2, <1>8, <1>13
<1>14. QED
  BY <1>9, <1>10, <1>11, <1>12, <1>13 DEF Next

\* Without takes away exactly the named resources of the one instance.
LEMMA WithoutPresent ==
  ASSUME TypeOK, NEW i \in Instance, NEW k, NEW ms, docker' = Without(k, ms)
  PROVE  /\ Present(i)' \subseteq Present(i)
         /\ k = i => Present(i)' = Present(i) \ ms
         /\ k # i => docker'[i] = docker[i] /\ Present(i)' = Present(i)
<1>1. CASE k = i
  BY <1>1, WithoutType DEF Present, TypeOK
<1>2. CASE k # i
  BY <1>2 DEF Without, Present, TypeOK
<1>3. QED
  BY <1>1, <1>2

\* A step adds resources only as a create request's next call or as a late one,
\* and only a failing or dying request leaves calls that may still complete.
LEMMA GrowthEffect ==
  ASSUME TypeOK, Next, NEW i \in Instance
  PROVE  /\ \/ Present(i)' \subseteq Present(i)
            \/ handler[i] = "creating"
            \/ late[i] # {}
         /\ \/ late'[i] \subseteq late[i]
            \/ handler'[i] \in {"ambiguous", "dead"}
<1> USE DEF TypeOK
<1>1. ASSUME NEW k \in Instance, HandlerStep(k)
      PROVE  /\ Present(i)' \subseteq Present(i) \/ handler[i] = "creating"
             /\ late'[i] \subseteq late[i] \/ handler'[i] \in {"ambiguous", "dead"}
  <2>1. CASE CreateOk(k)
    BY <2>1 DEF CreateOk, Present
  <2>2. CASE CreateFails(k)
    BY <2>2, WithoutPresent DEF CreateFails, Goto
  <2>3. CASE UndoRemove(k)
    BY <2>3, WithoutPresent DEF UndoRemove, Goto
  <2>4. CASE UndoFails(k)
    BY <2>4, WithoutPresent DEF UndoFails
  <2>5. CASE HandlerDies(k)
    BY <2>5 DEF HandlerDies, Present
  <2>6. CASE ~(CreateOk(k) \/ CreateFails(k) \/ UndoRemove(k) \/ UndoFails(k) \/ HandlerDies(k))
    <3>1. docker' = docker /\ late' = late
      BY <1>1, <2>6 DEF HandlerStep, Reserve, StartCreating, ContextsFail, VolumesFail, PortMissing,
           MarkRunning, FinalizationFails, MarkCleanupPending, UndoList, UndoDelete, dockerVars
    <3>2. QED
      BY <3>1 DEF Present
  <2>7. QED
    BY <2>1, <2>2, <2>3, <2>4, <2>5, <2>6
<1>2. ASSUME NEW k \in Instance, DockerStep(k)
      PROVE  /\ Present(i)' \subseteq Present(i) \/ late[i] # {}
             /\ late'[i] \subseteq late[i]
  <2>1. PICK m \in Member : LateCreate(k, m) \/ LateDrop(k, m) \/ ContainerExits(k, m)
    BY <1>2 DEF DockerStep
  <2>2. CASE LateCreate(k, m)
    BY <2>2 DEF LateCreate, Present
  <2>3. CASE LateDrop(k, m)
    BY <2>3 DEF LateDrop, Present
  <2>4. CASE ContainerExits(k, m)
    BY <2>4, WithoutPresent DEF ContainerExits
  <2>5. QED
    BY <2>1, <2>2, <2>3, <2>4
<1>3. ASSUME NEW k \in Instance, TimerStep(k)
      PROVE  Present(i)' = Present(i) /\ late' = late
  BY <1>3 DEF TimerStep, Renew, ExtendByAdmin, ShortenAfterSolve, Present, dockerVars
<1>4. ASSUME NEW p \in Proc, CleanStep(p)
      PROVE  Present(i)' \subseteq Present(i) /\ late' = late
  <2>1. CASE Remove(p)
    BY <2>1, WithoutPresent DEF Remove
  <2>2. CASE CleanFails(p)
    BY <2>2, WithoutPresent DEF CleanFails
  <2>3. CASE ~(Remove(p) \/ CleanFails(p))
    BY <1>4, <2>3 DEF CleanStep, WebClaim, List, Delete, ProcDies, Present, dockerVars
  <2>4. QED
    BY <2>1, <2>2, <2>3
<1>5. ASSUME NEW j \in Job, JobStep(j)
      PROVE  Present(i)' \subseteq Present(i) /\ late' = late
  <2>1. CASE Reap(j)
    BY <2>1, WithoutPresent DEF Reap
  <2>2. CASE ReapFails(j)
    BY <2>2, WithoutPresent DEF ReapFails
  <2>3. CASE ~(Reap(j) \/ ReapFails(j))
    BY <1>5, <2>3 DEF JobStep, JobClaim, JobSkip, OrphanRecheck, Begin, Scan, OrphanSnapshot, OrphanList,
                      JobDone, Present, dockerVars
  <2>4. QED
    BY <2>1, <2>2, <2>3
<1>6. Tick => Present(i)' = Present(i) /\ late' = late
  <2>1. ASSUME Tick, NEW m \in Member
        PROVE  docker'[i][m] # Absent <=> docker[i][m] # Absent
    <3>1. docker'[i][m] = IF docker[i][m] = Absent THEN Absent ELSE Older(docker[i][m], HostCap)
      BY <2>1 DEF Tick
    <3>2. docker[i][m] # Absent => docker[i][m] \in HostAge
      OBVIOUS
    <3>3. QED
      BY <3>1, <3>2, Bounds
  <2>2. QED
    BY <2>1 DEF Tick, Present
<1>7. QED
  BY <1>1, <1>2, <1>3, <1>4, <1>5, <1>6 DEF Next

\* A step takes resources only if one stops by itself, if a create request
\* fails or undoes itself, if a process is at the removal, or if a worker reaps.
LEMMA RemovalEffect ==
  ASSUME TypeOK, Next, NEW i \in Instance
  PROVE  \/ Present(i) \subseteq Present(i)'
         \/ \E m \in Member : ContainerExits(i, m)
         \/ handler[i] \in {"creating", "undo", "undoing", "removed"}
         \/ \E p \in Proc : work[p].target = i /\ work[p].pc \in {"claimed", "listed"}
         \/ \E j \in Job : work[j].target = i /\ (Reap(j) \/ ReapFails(j))
<1> USE DEF TypeOK
<1>1. ASSUME NEW k \in Instance, HandlerStep(k)
      PROVE  \/ Present(i) \subseteq Present(i)'
             \/ handler[i] \in {"creating", "undo", "undoing", "removed"}
  <2>1. CASE CreateOk(k)
    BY <2>1, Bounds DEF CreateOk, Present, Absent
  <2>2. CASE CreateFails(k) \/ UndoRemove(k) \/ UndoFails(k)
    <3>1. handler[k] \in {"creating", "undo", "undoing", "removed"}
      BY <2>2 DEF CreateFails, UndoRemove, UndoFails, Goto
    <3>2. \E ms : docker' = Without(k, ms)
      BY <2>2 DEF CreateFails, UndoRemove, UndoFails
    <3>3. CASE k # i
      BY <3>2, <3>3, WithoutPresent
    <3>4. QED
      BY <3>1, <3>3
  <2>3. CASE ~(CreateOk(k) \/ CreateFails(k) \/ UndoRemove(k) \/ UndoFails(k))
    BY <1>1, <2>3 DEF HandlerStep, Reserve, StartCreating, ContextsFail, VolumesFail, PortMissing,
         MarkRunning, FinalizationFails, MarkCleanupPending, UndoList, UndoDelete, HandlerDies,
         dockerVars, Present
  <2>4. QED
    BY <2>1, <2>2, <2>3
<1>2. ASSUME NEW k \in Instance, DockerStep(k)
      PROVE  Present(i) \subseteq Present(i)' \/ \E m \in Member : ContainerExits(i, m)
  <2>1. PICK m \in Member : LateCreate(k, m) \/ LateDrop(k, m) \/ ContainerExits(k, m)
    BY <1>2 DEF DockerStep
  <2>2. CASE LateCreate(k, m)
    BY <2>2, Bounds DEF LateCreate, Present, Absent
  <2>3. CASE LateDrop(k, m)
    BY <2>3 DEF LateDrop, Present
  <2>4. CASE ContainerExits(k, m)
    BY <2>4, WithoutPresent DEF ContainerExits
  <2>5. QED
    BY <2>1, <2>2, <2>3, <2>4
<1>3. ASSUME NEW k \in Instance, TimerStep(k)
      PROVE  Present(i)' = Present(i)
  BY <1>3 DEF TimerStep, Renew, ExtendByAdmin, ShortenAfterSolve, Present, dockerVars
<1>4. ASSUME NEW p \in Proc, CleanStep(p)
      PROVE  \/ Present(i) \subseteq Present(i)'
             \/ work[p].target = i /\ work[p].pc \in {"claimed", "listed"}
  <2>1. CASE Remove(p) \/ CleanFails(p)
    BY <2>1, WithoutPresent DEF Remove, CleanFails
  <2>2. CASE ~(Remove(p) \/ CleanFails(p))
    BY <1>4, <2>2 DEF CleanStep, WebClaim, List, Delete, ProcDies, Present, dockerVars
  <2>3. QED
    BY <2>1, <2>2
<1>5. ASSUME NEW j \in Job, JobStep(j)
      PROVE  \/ Present(i) \subseteq Present(i)'
             \/ work[j].target = i /\ (Reap(j) \/ ReapFails(j))
  <2>1. CASE Reap(j) \/ ReapFails(j)
    BY <2>1, WithoutPresent DEF Reap, ReapFails
  <2>2. CASE ~(Reap(j) \/ ReapFails(j))
    BY <1>5, <2>2 DEF JobStep, JobClaim, JobSkip, OrphanRecheck, Begin, Scan, OrphanSnapshot, OrphanList,
                      JobDone, Present, dockerVars
  <2>3. QED
    BY <2>1, <2>2
<1>6. Tick => Present(i)' = Present(i)
  <2>1. ASSUME Tick, NEW m \in Member
        PROVE  docker'[i][m] # Absent <=> docker[i][m] # Absent
    <3>1. docker'[i][m] = IF docker[i][m] = Absent THEN Absent ELSE Older(docker[i][m], HostCap)
      BY <2>1 DEF Tick
    <3>2. docker[i][m] # Absent => docker[i][m] \in HostAge
      OBVIOUS
    <3>3. QED
      BY <3>1, <3>2, Bounds
  <2>2. QED
    BY <2>1 DEF Present
<1>7. QED
  BY <1>1, <1>2, <1>3, <1>4, <1>5, <1>6 DEF Next, Proc

(***************************************************************************)
(* The invariants                                                          *)
(***************************************************************************)

\* A request that has begun has begun.
LEMMA Begun ==
  ASSUME TypeOK, Next, NEW i \in Instance, handler'[i] = "idle"
  PROVE  handler[i] = "idle" /\ ~Reserve(i)
<1>1. HandlerStep(i) => handler'[i] # "idle"
  BY DEF TypeOK, HandlerStep, Goto, Reserve, StartCreating, ContextsFail, VolumesFail, CreateOk,
         CreateFails, PortMissing, MarkRunning, FinalizationFails, MarkCleanupPending,
         UndoList, UndoRemove, UndoDelete, UndoFails, HandlerDies
<1>2. QED
  BY <1>1, HandlerEffect DEF HandlerStep

\* A deleted row does not come back, for Reserve begins a request.
LEMMA Gone ==
  ASSUME TypeOK, Next, NEW i \in Instance, ~Exists(i), handler[i] # "idle"
  PROVE  ~Exists(i)'
BY RowEffect DEF Exists, Reserve, Goto

\* A row that is pending cleanup stays pending until it is gone.
LEMMA Pending ==
  ASSUME TypeOK, Fresh, Next, NEW i \in Instance, InState(i, "cleanup_pending"), Exists(i)'
  PROVE  row'[i].state = "cleanup_pending"
<1>1. ~Reserve(i)
  BY DEF Reserve, Goto, Fresh, InState
<1>2. ~MarkRunning(i)
  BY DEF MarkRunning, InState
<1>3. QED
  BY <1>1, <1>2, RowEffect DEF Keeps, InState, Exists

\* Fresh is kept by every step.
LEMMA FreshStep ==
  ASSUME TypeOK, Fresh, Next
  PROVE  Fresh'
<1> SUFFICES ASSUME NEW i \in Instance, handler'[i] = "idle"
             PROVE  ~Exists(i)' /\ Present(i)' = {} /\ late'[i] = {}
  BY DEF Fresh
<1>1. handler[i] = "idle" /\ ~Reserve(i)
  BY Begun
<1>2. ~Exists(i) /\ Present(i) = {} /\ late[i] = {}
  BY <1>1 DEF Fresh
<1>3. ~Exists(i)'
  BY <1>1, <1>2, RowEffect DEF Exists
<1>4. Present(i)' = {} /\ late'[i] = {}
  BY <1>1, <1>2, GrowthEffect
<1>5. QED
  BY <1>3, <1>4

\* Ownership is kept by every step.
LEMMA OwnershipStep ==
  ASSUME TypeOK, Fresh, Ownership, Next
  PROVE  Ownership'
<1>1. ASSUME NEW i \in Instance, Exists(i)', row'[i].op # Nobody
      PROVE  row'[i].state = "cleanup_pending"
  <2>1. row'[i] = row[i] => row'[i].state = "cleanup_pending"
    BY <1>1 DEF Ownership, Exists
  <2>2. row'[i] # NewRow
    BY <1>1 DEF NewRow
  <2>3. MarkRunning(i) => row[i].op = Nobody
    BY DEF MarkRunning, InState, Ownership
  <2>4. QED
    BY <1>1, <2>1, <2>2, <2>3, RowEffect DEF Keeps, Exists, Ownership
<1>2. ASSUME NEW p \in Proc, work'[p].pc \in {"claimed", "listed", "removed"}
      PROVE  /\ work'[p].target \in Instance
             /\ handler'[work'[p].target] # "idle"
             /\ Exists(work[p].target)' => row'[work'[p].target].state = "cleanup_pending"
  <2>1. ASSUME NEW i \in Instance, handler[i] # "idle", work'[p].target = i,
               Exists(i) => row[i].state = "cleanup_pending"
        PROVE  /\ handler'[i] # "idle"
               /\ Exists(i)' => row'[i].state = "cleanup_pending"
    BY <2>1, Begun, Gone, Pending DEF InState
  <2>2. ASSUME NEW i \in Instance, Exists(i), Claim(p, i), UNCHANGED handlerVars
        PROVE  /\ work'[p].target = i
               /\ handler'[i] # "idle"
               /\ Exists(i)' => row'[i].state = "cleanup_pending"
    <3>1. work'[p].target = i
      BY <2>2 DEF Claim, On, TypeOK
    <3>2. handler'[i] # "idle"
      BY <2>2 DEF Fresh, handlerVars
    <3>3. row'[i].state = "cleanup_pending"
      BY <2>2, ClaimRow DEF TypeOK
    <3>4. QED
      BY <3>1, <3>2, <3>3
  <2>3. CASE work'[p] = work[p]
    BY <1>2, <2>1, <2>3 DEF Ownership
  <2>4. CASE CleanStep(p)
    <3>1. CASE \E i \in Instance : WebClaim(p, i)
      BY <2>2, <3>1 DEF WebClaim
    <3>2. CASE List(p) \/ Remove(p)
      <4>1. work'[p].target = work[p].target /\ work[p].pc \in {"claimed", "listed"}
        BY <1>2, <3>2 DEF List, ListAs, Remove, On, TypeOK
      <4>2. QED
        BY <2>1, <4>1 DEF Ownership
    <3>3. CASE Delete(p) \/ CleanFails(p) \/ ProcDies(p)
      <4>1. work'[p].pc \in {"scan", "idle"}
        BY <3>3 DEF Delete, CleanFails, ProcDies, Resume, At, Idle, TypeOK
      <4>2. QED
        BY <1>2, <4>1
    <3>4. QED
      BY <2>4, <3>1, <3>2, <3>3 DEF CleanStep
  <2>5. CASE p \in Job /\ JobStep(p)
    <3>1. CASE \E i \in Instance : JobClaim(p, i)
      BY <2>2, <3>1 DEF JobClaim, Due, InState
    <3>2. CASE ~\E i \in Instance : JobClaim(p, i)
      <4>1. work'[p] = work[p] \/ work'[p].pc \in {"begun", "scan", "snapshot", "orphans", "reaping", "idle"}
        BY <2>5, <3>2 DEF JobStep, JobSkip, OrphanRecheck, Begin, Scan, OrphanSnapshot, OrphanList, Reap,
             ReapFails, JobDone, Idle, At, On, TypeOK
      <4>2. QED
        BY <1>2, <2>3, <4>1
    <3>3. QED
      BY <3>1, <3>2
  <2>6. QED
    BY <2>3, <2>4, <2>5, WorkEffect
<1>3. QED
  BY <1>1, <1>2 DEF Ownership, Exists

\* The age of a resource: unless time passes a step leaves it alone or creates
\* the resource, and time adds at most one.
LEMMA AgeEffect ==
  ASSUME TypeOK, Next, NEW i \in Instance, NEW m \in Member, m \in Present(i)'
  PROVE  /\ docker'[i][m] \in HostAge
         /\ \/ docker'[i][m] = 0
            \/ m \in Present(i) /\ docker'[i][m] = docker[i][m]
            \/ Tick /\ m \in Present(i) /\ docker'[i][m] <= docker[i][m] + 1
<1>1. docker'[i][m] # Absent
  BY DEF Present
<1>2. docker'[i][m] \in HostAge
  BY <1>1, TypeStep DEF TypeOK
<1>3. ASSUME docker' = docker
      PROVE  m \in Present(i) /\ docker'[i][m] = docker[i][m]
  BY <1>1, <1>3 DEF Present
<1>4. ASSUME NEW k, NEW ms, docker' = Without(k, ms)
      PROVE  m \in Present(i) /\ docker'[i][m] = docker[i][m]
  <2>1. docker'[i][m] = docker[i][m]
    <3>1. CASE k = i
      BY <1>1, <1>4, <3>1, WithoutType DEF TypeOK
    <3>2. CASE k # i
      BY <1>4, <3>2 DEF Without, TypeOK
    <3>3. QED
      BY <3>1, <3>2
  <2>2. QED
    BY <1>1, <2>1 DEF Present
<1>5. ASSUME NEW k \in Instance, NEW n \in Member, docker' = [docker EXCEPT ![k][n] = 0]
      PROVE  docker'[i][m] = 0 \/ (m \in Present(i) /\ docker'[i][m] = docker[i][m])
  BY <1>1, <1>5 DEF Present, TypeOK
<1>6. ASSUME NEW k \in Instance, HandlerStep(k)
      PROVE  docker'[i][m] = 0 \/ (m \in Present(i) /\ docker'[i][m] = docker[i][m])
  <2>1. CASE CreateOk(k)
    <3>1. made[k] + 1 \in Member
      <4>1. made[k] \in 0 .. Units /\ made[k] < Units
        BY <2>1 DEF CreateOk, TypeOK
      <4>2. QED
        BY <4>1, LifecycleAssumption DEF Member
    <3>2. docker' = [docker EXCEPT ![k][made[k] + 1] = 0]
      BY <2>1 DEF CreateOk
    <3>3. QED
      BY <1>5, <3>1, <3>2
  <2>2. CASE CreateFails(k) \/ UndoRemove(k) \/ UndoFails(k)
    BY <1>4, <2>2 DEF CreateFails, UndoRemove, UndoFails
  <2>3. CASE ~(CreateOk(k) \/ CreateFails(k) \/ UndoRemove(k) \/ UndoFails(k))
    BY <1>3, <1>6, <2>3 DEF HandlerStep, Reserve, StartCreating, ContextsFail, VolumesFail,
         PortMissing, MarkRunning, FinalizationFails, MarkCleanupPending, UndoList, UndoDelete,
         HandlerDies, dockerVars
  <2>4. QED
    BY <2>1, <2>2, <2>3
<1>7. ASSUME NEW k \in Instance, DockerStep(k)
      PROVE  docker'[i][m] = 0 \/ (m \in Present(i) /\ docker'[i][m] = docker[i][m])
  <2>1. PICK n \in Member : LateCreate(k, n) \/ LateDrop(k, n) \/ ContainerExits(k, n)
    BY <1>7 DEF DockerStep
  <2>2. QED
    BY <1>3, <1>4, <1>5, <2>1 DEF LateCreate, LateDrop, ContainerExits
<1>8. ASSUME NEW k \in Instance, TimerStep(k)
      PROVE  docker' = docker
  BY <1>8 DEF TimerStep, Renew, ExtendByAdmin, ShortenAfterSolve, dockerVars
<1>9. ASSUME NEW p \in Proc, CleanStep(p)
      PROVE  m \in Present(i) /\ docker'[i][m] = docker[i][m]
  <2>1. CASE Remove(p) \/ CleanFails(p)
    BY <1>4, <2>1 DEF Remove, CleanFails
  <2>2. CASE ~(Remove(p) \/ CleanFails(p))
    BY <1>3, <1>9, <2>2 DEF CleanStep, WebClaim, List, Delete, ProcDies, dockerVars
  <2>3. QED
    BY <2>1, <2>2
<1>10. ASSUME NEW j \in Job, JobStep(j)
       PROVE  m \in Present(i) /\ docker'[i][m] = docker[i][m]
  <2>1. CASE Reap(j) \/ ReapFails(j)
    BY <1>4, <2>1 DEF Reap, ReapFails
  <2>2. CASE ~(Reap(j) \/ ReapFails(j))
    BY <1>3, <1>10, <2>2 DEF JobStep, JobClaim, JobSkip, OrphanRecheck, Begin, Scan, OrphanSnapshot,
                             OrphanList, JobDone, dockerVars
  <2>3. QED
    BY <2>1, <2>2
<1>11. ASSUME Tick
       PROVE  m \in Present(i) /\ docker'[i][m] <= docker[i][m] + 1
  <2>1. docker'[i][m] = IF docker[i][m] = Absent THEN Absent ELSE Older(docker[i][m], HostCap)
    BY <1>11 DEF Tick
  <2>2. docker[i][m] # Absent
    BY <1>1, <2>1
  <2>3. docker[i][m] \in HostAge
    BY <2>2 DEF TypeOK
  <2>4. QED
    BY <2>1, <2>2, <2>3, Bounds DEF Present, Older, Min2, HostAge
<1>12. QED
  BY <1>2, <1>3, <1>6, <1>7, <1>8, <1>9, <1>10, <1>11 DEF Next

\* The part of a pass in which its transaction ages.
Early(j) == work[j].pc \in {"begun", "scan", "claimed", "listed", "removed"}

\* What a step does to the snapshot, the clocks and the orphans of worker j.
PassKept(j) ==
  /\ alive'[j] = alive[j]
  /\ opened'[j] = opened[j] \/ (Tick /\ opened'[j] >= opened[j])
  /\ Early(j)' => Early(j) \/ ~Repeatable
  /\ work'[j].pc = "snapshot" => work[j].pc = "snapshot" /\ (lag'[j] = lag[j] \/ Tick)
  /\ orphans'[j] \subseteq orphans[j] \/ OrphanList(j)

PassOver(j) == work'[j].pc = "idle" /\ orphans'[j] = {}

LEMMA PassEffect ==
  ASSUME TypeOK, Next, NEW j \in Job
  PROVE  /\ site' = site
         /\ \/ PassKept(j)
            \/ PassOver(j)
            \/ Begin(j)
            \/ OrphanSnapshot(j)
<1> USE DEF TypeOK
<1>1. j \in Proc
  BY DEF Proc
<1>2. ASSUME UNCHANGED passVars, work'[j] = work[j]
      PROVE  site' = site /\ PassKept(j)
  BY <1>2 DEF passVars, PassKept, Early
<1>3. ASSUME NEW k \in Instance, HandlerStep(k) \/ DockerStep(k) \/ TimerStep(k)
      PROVE  UNCHANGED passVars /\ work'[j] = work[j]
  BY <1>3 DEF HandlerStep, Reserve, StartCreating, ContextsFail, VolumesFail, CreateOk,
       CreateFails, PortMissing, MarkRunning, FinalizationFails, MarkCleanupPending,
       UndoList, UndoRemove, UndoDelete, UndoFails, HandlerDies, jobVars,
       DockerStep, LateCreate, LateDrop, ContainerExits,
       TimerStep, Renew, ExtendByAdmin, ShortenAfterSolve
<1>4. ASSUME NEW p \in Proc, CleanStep(p)
      PROVE  site' = site /\ (PassKept(j) \/ PassOver(j))
  <2>1. CASE ProcDies(p)
    <3>1. site' = site
      BY <2>1 DEF ProcDies, jobVars, passVars
    <3>2. CASE p = j
      BY <1>1, <2>1, <3>1, <3>2 DEF ProcDies, PassOver, Idle, At
    <3>3. CASE p # j
      <4>1. work'[j] = work[j] /\ alive'[j] = alive[j] /\ opened'[j] = opened[j]
        BY <1>1, <2>1, <3>3 DEF ProcDies, jobVars, passVars
      <4>2. lag'[j] = lag[j] /\ orphans'[j] = orphans[j]
        BY <1>1, <2>1, <3>3 DEF ProcDies, jobVars, passVars
      <4>3. QED
        BY <3>1, <4>1, <4>2 DEF PassKept, Early
    <3>4. QED
      BY <3>2, <3>3
  <2>2. CASE ~ProcDies(p)
    <3>1. UNCHANGED passVars
      BY <1>4, <2>2 DEF CleanStep, WebClaim, List, Remove, Delete, CleanFails, jobVars
    <3>2. CASE p # j
      <4>1. work'[j] = work[j]
        BY <1>1, <1>4, <3>2 DEF CleanStep, WebClaim, Claim, List, ListAs, Remove, Delete, CleanFails,
             ProcDies
      <4>2. QED
        BY <1>2, <3>1, <4>1
    <3>3. CASE p = j
      <4>1. ~\E i \in Instance : WebClaim(p, i)
        BY <3>3, LifecycleAssumption DEF WebClaim
      <4>2. work'[j].pc # "snapshot" /\ (Early(j)' => Early(j))
        BY <1>1, <1>4, <2>2, <3>3, <4>1 DEF CleanStep, List, ListAs, Remove, Delete, CleanFails, Resume,
             At, On, Early
      <4>3. QED
        BY <3>1, <4>2 DEF passVars, PassKept
    <3>4. QED
      BY <3>2, <3>3
  <2>3. QED
    BY <2>1, <2>2
<1>5. ASSUME NEW q \in Job, JobStep(q)
      PROVE  /\ site' = site
             /\ PassKept(j) \/ PassOver(j) \/ Begin(j) \/ OrphanSnapshot(j)
  <2>1. site' = site
    BY <1>5 DEF JobStep, JobClaim, JobSkip, OrphanRecheck, Begin, Scan, OrphanSnapshot, OrphanList,
         Reap, ReapFails, JobDone, jobVars, passVars
  <2>2. CASE q # j
    <3>1. work'[j] = work[j] /\ alive'[j] = alive[j] /\ opened'[j] = opened[j]
      BY <1>1, <1>5, <2>2 DEF JobStep, JobClaim, Claim, JobSkip, OrphanRecheck, Begin, Scan,
           OrphanSnapshot, OrphanList, Reap, ReapFails, JobDone, jobVars, passVars
    <3>2. lag'[j] = lag[j] /\ orphans'[j] = orphans[j]
      BY <1>1, <1>5, <2>2 DEF JobStep, JobClaim, JobSkip, OrphanRecheck, Begin, Scan,
           OrphanSnapshot, OrphanList, Reap, ReapFails, JobDone, jobVars, passVars
    <3>3. QED
      BY <2>1, <3>1, <3>2 DEF PassKept, Early
  <2>3. CASE q = j /\ JobDone(j)
    BY <1>1, <2>1, <2>3 DEF JobDone, PassOver, Idle, At
  <2>4. CASE q = j /\ \E i \in Instance : JobClaim(j, i)
    <3>1. UNCHANGED passVars /\ work[j].pc = "scan"
      BY <2>4 DEF JobClaim
    <3>2. work'[j].pc = "claimed"
      BY <1>1, <2>4 DEF JobClaim, Claim, On
    <3>3. QED
      BY <3>1, <3>2 DEF passVars, PassKept, Early
  <2>5. CASE q = j /\ \E i \in Instance : JobSkip(j, i)
    BY <1>2, <2>5 DEF JobSkip
  <2>6. CASE q = j /\ \E i \in Instance : OrphanRecheck(j, i)
    <3>1. /\ alive'[j] = alive[j] /\ opened'[j] = opened[j] /\ orphans'[j] \subseteq orphans[j]
          /\ work[j].pc = "orphans"
      BY <2>6 DEF OrphanRecheck
    <3>2. work'[j].pc \in {"orphans", "reaping"}
      BY <1>1, <2>6 DEF OrphanRecheck, On
    <3>3. QED
      BY <2>1, <3>1, <3>2 DEF PassKept, Early
  <2>7. CASE q = j /\ Scan(j)
    <3>1. alive'[j] = alive[j] /\ opened'[j] = opened[j] /\ orphans'[j] = orphans[j]
      BY <2>7 DEF Scan
    <3>2. work'[j].pc = "scan" /\ (Repeatable => work[j].pc = "begun")
      BY <1>1, <2>7 DEF Scan, At
    <3>3. QED
      BY <2>1, <3>1, <3>2 DEF PassKept, Early
  <2>8. CASE q = j /\ OrphanList(j)
    <3>1. alive'[j] = alive[j] /\ opened'[j] = opened[j]
      BY <2>8 DEF OrphanList
    <3>2. work'[j].pc = "orphans"
      BY <1>1, <2>8 DEF OrphanList, At
    <3>3. QED
      BY <2>1, <2>8, <3>1, <3>2 DEF PassKept, Early
  <2>9. CASE q = j /\ (Reap(j) \/ ReapFails(j))
    <3>1. alive'[j] = alive[j] /\ opened'[j] = opened[j] /\ orphans'[j] = orphans[j]
      BY <2>9 DEF Reap, ReapFails, jobVars, passVars
    <3>2. work'[j].pc = "orphans"
      BY <1>1, <2>9 DEF Reap, ReapFails, At
    <3>3. QED
      BY <2>1, <3>1, <3>2 DEF PassKept, Early
  <2>10. QED
    BY <1>5, <2>1, <2>2, <2>3, <2>4, <2>5, <2>6, <2>7, <2>8, <2>9 DEF JobStep
<1>6. ASSUME Tick
      PROVE  site' = site /\ PassKept(j)
  <2>1. opened[j] \in 0 .. Horizon /\ Horizon \in Nat
    BY SiteAssumption
  <2>2. opened'[j] = IF Ageing(j) THEN Older(opened[j], Horizon) ELSE opened[j]
    BY <1>6 DEF Tick
  <2>3. opened'[j] >= opened[j]
    BY <2>1, <2>2 DEF Older, Min2
  <2>4. QED
    BY <1>6, <2>3 DEF Tick, PassKept, Early
<1>7. QED
  BY <1>2, <1>3, <1>4, <1>5, <1>6 DEF Next

\* Snapshot is kept by every step.
LEMMA SnapshotStep ==
  ASSUME TypeOK, Fresh, Snapshot, Next
  PROVE  Snapshot'
<1> DEFINE Clock(j) == IF work[j].pc = "snapshot" THEN lag[j] ELSE 0
<1>1. ASSUME NEW j \in Job, NEW i \in Instance, Repeatable', i \notin alive'[j],
             Early(j)' \/ work'[j].pc = "snapshot"
      PROVE  GoneFor(i)' \/ YoungerThan(j, i, Clock(j))'
  <2>1. Repeatable
    BY <1>1, PassEffect DEF Repeatable
  <2>2. ~PassOver(j)
    BY <1>1 DEF PassOver, Early
  <2>3. GoneFor(i) => GoneFor(i)'
    BY Begun, Gone DEF GoneFor, Exists
  <2>4. lag[j] \in Nat /\ lag'[j] \in Nat /\ opened[j] \in 0 .. Horizon /\ opened'[j] \in 0 .. Horizon
    BY TypeStep, LifecycleAssumption DEF TypeOK
  <2>5. CASE Begin(j)
    <3>1. docker' = docker /\ row' = row /\ handler' = handler /\ alive'[j] = Live
      BY <2>5 DEF Begin, dockerVars, handlerVars, TypeOK
    <3>2. ~Exists(i)
      BY <1>1, <3>1 DEF Live
    <3>3. CASE handler[i] = "idle"
      BY <3>1, <3>3 DEF Fresh, Present, YoungerThan
    <3>4. CASE handler[i] # "idle"
      BY <3>1, <3>2, <3>4 DEF GoneFor, Exists
    <3>5. QED
      BY <3>3, <3>4
  <2>6. CASE OrphanSnapshot(j)
    <3>1. /\ docker' = docker /\ opened' = opened /\ alive'[j] = alive[j] /\ lag'[j] = 0
          /\ work[j].pc = "scan" /\ work'[j].pc = "snapshot"
      BY <2>1, <2>6 DEF OrphanSnapshot, dockerVars, At, Proc, TypeOK
    <3>2. GoneFor(i) \/ YoungerThan(j, i, 0)
      BY <1>1, <2>1, <3>1 DEF Snapshot
    <3>3. QED
      BY <2>3, <3>1, <3>2 DEF YoungerThan, Present
  <2>7. CASE PassKept(j)
    <3>1. Early(j)' => Early(j)
      BY <2>1, <2>7 DEF PassKept
    <3>2. GoneFor(i) \/ YoungerThan(j, i, Clock(j))
      BY <1>1, <2>1, <2>7, <3>1 DEF PassKept, Snapshot, Early
    <3>3. ASSUME opened'[j] # Horizon, NEW m \in Present(i)', YoungerThan(j, i, Clock(j))
          PROVE  docker'[i][m] - Clock(j)' <= opened'[j]
      <4>1. m \in Member
        BY DEF Present
      <4>2. opened[j] # Horizon
        BY <2>4, <2>7, <3>3 DEF PassKept
      <4>3. CASE docker'[i][m] = 0
        BY <2>4, <4>3
      <4>4. CASE m \in Present(i) /\ docker'[i][m] = docker[i][m] /\ ~Tick
        <5>1. docker[i][m] - Clock(j) <= opened[j]
          BY <3>3, <4>2, <4>4 DEF YoungerThan
        <5>2. opened'[j] = opened[j]
          BY <2>7, <4>4 DEF PassKept
        <5>3. Clock(j)' = Clock(j)
          BY <1>1, <2>7, <3>1, <4>4 DEF PassKept, Early
        <5>4. QED
          BY <4>4, <5>1, <5>2, <5>3
      <4>5. CASE Tick /\ m \in Present(i) /\ docker'[i][m] <= docker[i][m] + 1
        <5>1. docker[i][m] - Clock(j) <= opened[j]
          BY <3>3, <4>2, <4>5 DEF YoungerThan
        <5>2. docker[i][m] \in HostAge /\ docker'[i][m] \in HostAge
          BY <4>1, <4>5, AgeEffect, TypeStep DEF TypeOK, Present
        <5>3. work' = work
          BY <4>5 DEF Tick
        <5>4. CASE work[j].pc = "snapshot"
          <6>1. lag'[j] = lag[j] + 1
            BY <4>5, <5>4 DEF Tick, Lagging
          <6>2. opened'[j] = opened[j]
            BY <4>5, <5>4 DEF Tick, Ageing
          <6>3. QED
            BY <2>4, <4>5, <5>1, <5>2, <5>3, <5>4, <6>1, <6>2 DEF HostAge
        <5>5. CASE Early(j)
          <6>1. opened'[j] = opened[j] + 1
            BY <2>1, <2>4, <3>3, <4>5, <5>5 DEF Tick, Ageing, Early, Older, Min2
          <6>2. QED
            BY <2>4, <4>5, <5>1, <5>2, <5>3, <5>5, <6>1 DEF HostAge, Early
        <5>6. QED
          BY <1>1, <5>3, <5>4, <5>5 DEF Early
      <4>6. \/ docker'[i][m] = 0
            \/ m \in Present(i) /\ docker'[i][m] = docker[i][m]
            \/ Tick /\ m \in Present(i) /\ docker'[i][m] <= docker[i][m] + 1
        BY <4>1, AgeEffect
      <4>7. CASE m \in Present(i) /\ docker'[i][m] = docker[i][m] /\ Tick
        <5>1. docker[i][m] \in HostAge
          BY <4>1, <4>7 DEF TypeOK, Present
        <5>2. QED
          BY <4>5, <4>7, <5>1, Bounds DEF HostAge
      <4>8. QED
        BY <4>3, <4>4, <4>5, <4>6, <4>7
    <3>4. QED
      BY <2>3, <3>2, <3>3 DEF YoungerThan
  <2>8. QED
    BY <2>2, <2>5, <2>6, <2>7, PassEffect
<1>2. QED
  BY <1>1 DEF Snapshot, Early

\* A stale pass stays stale to its end.
LEMMA StaleStep ==
  ASSUME TypeOK, Next, NEW j \in Job, Stale(j)
  PROVE  Stale(j)' \/ PassOver(j)
<1>1. /\ opened[j] \in Int /\ opened'[j] \in Int
      /\ site.skew \in Int /\ Safety \in Int
  BY TypeStep, SiteAssumption, LifecycleAssumption DEF TypeOK
<1>2. site' = site
  BY PassEffect
<1>3. Begin(j) \/ OrphanSnapshot(j) => opened'[j] = opened[j]
  BY DEF Begin, OrphanSnapshot
<1>4. PassKept(j) => opened'[j] >= opened[j]
  BY <1>1 DEF PassKept
<1>5. PassOver(j) \/ opened'[j] >= opened[j]
  BY <1>1, <1>3, <1>4, PassEffect
<1>6. opened'[j] >= opened[j] => Stale(j)'
  BY <1>1, <1>2 DEF Stale, Repeatable
<1>7. QED
  BY <1>5, <1>6

\* What a pass lists as an orphan has no row, or the pass is stale.
LEMMA ListedOrphan ==
  ASSUME TypeOK, Fresh, Snapshot, NEW j \in Job, NEW i \in Instance, OrphanList(j), Orphaned(j, i)
  PROVE  handler[i] # "idle" /\ (Repeatable => ~Exists(i) \/ Stale(j))
<1>1. Present(i) # {} /\ i \notin alive[j] /\ work[j].pc = "snapshot"
  BY DEF OrphanList, Orphaned
<1>2. handler[i] # "idle"
  BY <1>1 DEF Fresh
<1>3. ASSUME Repeatable, Exists(i)
      PROVE  Stale(j)
  <2>1. YoungerThan(j, i, lag[j])
    BY <1>1, <1>3 DEF Snapshot, GoneFor
  <2>2. /\ site \in Site /\ site.skew \in Int /\ opened[j] \in Int /\ lag[j] \in Int
        /\ Safety \in Int /\ Horizon \in Int
    BY SiteAssumption, LifecycleAssumption DEF TypeOK
  <2>3. CASE opened[j] = Horizon
    BY <1>3, <2>2, <2>3, SiteAssumption DEF Stale
  <2>4. CASE opened[j] # Horizon
    <3>1. PICK m \in Present(i) : TRUE
      BY <1>1
    <3>2. docker[i][m] - lag[j] <= opened[j]
      BY <2>1, <2>4 DEF YoungerThan
    <3>3. docker[i][m] + site.skew - lag[j] >= Safety
      BY DEF Orphaned, SeenAge
    <3>4. docker[i][m] \in Int
      BY Bounds DEF Present, HostAge, TypeOK
    <3>5. QED
      BY <1>3, <2>2, <3>2, <3>3, <3>4 DEF Stale
  <2>5. QED
    BY <2>3, <2>4
<1>4. QED
  BY <1>2, <1>3

\* Orphanage is kept by every step.
LEMMA OrphanageStep ==
  ASSUME TypeOK, Fresh, Snapshot, Ownership, Orphanage, Next
  PROVE  Orphanage'
<1>1. ASSUME NEW j \in Job, NEW i \in Instance, i \in orphans'[j]
      PROVE  handler'[i] # "idle" /\ (Repeatable' => ~Exists(i)' \/ Stale(j)')
  <2>1. ~PassOver(j)
    BY <1>1 DEF PassOver
  <2>2. i \in orphans[j] \/ (OrphanList(j) /\ Orphaned(j, i))
    <3>1. Begin(j) \/ OrphanSnapshot(j) => orphans' = orphans
      BY DEF Begin, OrphanSnapshot
    <3>2. OrphanList(j) => Orphaned(j, i)
      BY <1>1 DEF OrphanList, TypeOK
    <3>3. QED
      BY <1>1, <2>1, <3>1, <3>2, PassEffect DEF PassKept
  <2>3. handler[i] # "idle" /\ (Repeatable => ~Exists(i) \/ Stale(j))
    BY <2>2, ListedOrphan DEF Orphanage
  <2>4. QED
    BY <2>1, <2>3, Begun, Gone, StaleStep, PassEffect DEF Repeatable, Exists
<1>2. ASSUME NEW p \in Proc, work'[p].pc \in {"reaping", "reaplisted"}
      PROVE  /\ p \in Job
             /\ work'[p].target \in Instance
             /\ GoneFor(work[p].target)' \/ Stale(p)'
  <2>1. ASSUME NEW i \in Instance, p \in Job, GoneFor(i) \/ Stale(p)
        PROVE  GoneFor(i)' \/ Stale(p)'
    <3>1. ~PassOver(p)
      BY <1>2 DEF PassOver
    <3>2. QED
      BY <2>1, <3>1, Begun, Gone, StaleStep DEF GoneFor, Exists
  <2>2. CASE work'[p] = work[p]
    BY <1>2, <2>1, <2>2 DEF Orphanage, GoneFor, Exists
  <2>3. CASE CleanStep(p)
    <3>1. CASE List(p)
      <4>1. work'[p].target = work[p].target /\ work[p].pc = "reaping"
        BY <1>2, <3>1 DEF List, ListAs, On, TypeOK
      <4>2. QED
        BY <2>1, <4>1 DEF Orphanage, GoneFor, Exists
    <3>2. CASE ~List(p)
      <4>1. CASE \E i \in Instance : WebClaim(p, i)
        BY <1>2, <4>1 DEF WebClaim, Claim, On, TypeOK
      <4>2. CASE Remove(p)
        BY <1>2, <4>2 DEF Remove, On, TypeOK
      <4>3. CASE Delete(p) \/ CleanFails(p) \/ ProcDies(p)
        BY <1>2, <4>3 DEF Delete, CleanFails, ProcDies, Resume, At, Idle, TypeOK
      <4>4. QED
        BY <2>3, <3>2, <4>1, <4>2, <4>3 DEF CleanStep
    <3>3. QED
      BY <3>1, <3>2
  <2>4. CASE p \in Job /\ JobStep(p)
    <3>1. CASE \E i \in Instance : OrphanRecheck(p, i)
      <4>1. PICK i \in Instance : OrphanRecheck(p, i)
        BY <3>1
      <4>2. handler[i] # "idle"
        BY <2>4, <4>1 DEF OrphanRecheck, Orphanage
      <4>3. CASE Known(p, i)
        BY <2>2, <4>1, <4>3 DEF OrphanRecheck
      <4>4. CASE ~Known(p, i)
        <5>1. work'[p].target = i
          BY <4>1, <4>4 DEF OrphanRecheck, On, TypeOK
        <5>2. ~Exists(i) \/ Stale(p)
          BY <2>4, <4>1, <4>4 DEF OrphanRecheck, Known, Orphanage
        <5>3. QED
          BY <2>1, <2>4, <4>2, <5>1, <5>2 DEF GoneFor, Exists
      <4>5. QED
        BY <4>3, <4>4
    <3>2. CASE ~\E i \in Instance : OrphanRecheck(p, i)
      <4>1. CASE \E i \in Instance : JobClaim(p, i)
        BY <1>2, <4>1 DEF JobClaim, Claim, On, TypeOK
      <4>2. CASE \E i \in Instance : JobSkip(p, i)
        BY <2>2, <4>2 DEF JobSkip
      <4>3. CASE \/ Begin(p) \/ Scan(p) \/ OrphanSnapshot(p) \/ OrphanList(p)
                \/ Reap(p) \/ ReapFails(p) \/ JobDone(p)
        BY <1>2, <4>3 DEF Begin, Scan, OrphanSnapshot, OrphanList, Reap, ReapFails, JobDone, At, Idle, TypeOK
      <4>4. QED
        BY <2>4, <3>2, <4>1, <4>2, <4>3 DEF JobStep
    <3>3. QED
      BY <3>1, <3>2
  <2>5. QED
    BY <2>2, <2>3, <2>4, WorkEffect
<1>3. QED
  BY <1>1, <1>2 DEF Orphanage, GoneFor, Exists

\* The invariant that carries the safety of the lifecycle is inductive.
LEMMA SafeInit == Init => SafeInv
<1> SUFFICES ASSUME Init
             PROVE  SafeInv
  OBVIOUS
<1>1. TypeOK
  BY TypeInit
<1>2. \A p \in Proc : work[p].pc = "idle"
  BY DEF Init, Idle, At
<1>3. Fresh /\ Ownership
  BY <1>2 DEF Init, Fresh, Ownership, Exists, Present
<1>4. Snapshot
  BY <1>2 DEF Snapshot, Proc
<1>5. Orphanage
  BY <1>2 DEF Init, Orphanage
<1>6. QED
  BY <1>1, <1>3, <1>4, <1>5 DEF SafeInv

LEMMA SafeStep ==
  ASSUME SafeInv, [Next]_vars
  PROVE  SafeInv'
<1>1. CASE UNCHANGED vars
  BY <1>1, TypeStep DEF vars, SafeInv, Fresh, Ownership, Snapshot, Orphanage, GoneFor, YoungerThan,
       Stale, Repeatable, Exists, Present
<1>2. CASE Next
  BY <1>2, TypeStep, FreshStep, OwnershipStep, SnapshotStep, OrphanageStep DEF SafeInv
<1>3. QED
  BY <1>1, <1>2

LEMMA SafeAlways == Spec => []SafeInv
BY SafeInit, SafeStep, PTL DEF Spec

(***************************************************************************)
(* The theorems                                                            *)
(***************************************************************************)

\* A process that claimed a row can count on it until it is finished.
THEOREM ClaimStaysFinal == Spec => []ClaimIsFinal
<1>1. SafeInv => ClaimIsFinal
  BY DEF SafeInv, Ownership, ClaimIsFinal
<1>2. QED
  BY <1>1, SafeAlways, PTL

\* An orphan pass removes resources only of instances that are gone for good,
\* whatever the database gives it to read and however far its host's clock is off,
\* unless with repeatable reads it took longer than the two allow.
THEOREM ReapingIsSafe == Spec => []ReapsOnlyTheDead
<1>1. SafeInv => ReapsOnlyTheDead
  BY DEF SafeInv, Orphanage, GoneFor, ReapsOnlyTheDead, Proc
<1>2. QED
  BY <1>1, SafeAlways, PTL

\* State only moves forward, and an id is never reused.
THEOREM StateMovesForward == Spec => NoResurrection
<1>1. ASSUME SafeInv, Next, NEW i \in Instance
      PROVE  /\ InState(i, "running") => ~InState(i, "provisioning")'
             /\ InState(i, "cleanup_pending") => (Exists(i) => row[i].state = "cleanup_pending")'
             /\ handler[i] # "idle" /\ ~Exists(i) => ~Exists(i)'
  <2>1. ASSUME InState(i, "running")
        PROVE  ~InState(i, "provisioning")'
    <3>1. ~Reserve(i)
      BY <1>1, <2>1 DEF Reserve, Goto, SafeInv, Fresh, InState
    <3>2. QED
      BY <1>1, <2>1, <3>1, RowEffect DEF SafeInv, Keeps, InState, Exists
  <2>2. InState(i, "cleanup_pending") => (Exists(i) => row[i].state = "cleanup_pending")'
    BY <1>1, Pending DEF SafeInv
  <2>3. handler[i] # "idle" /\ ~Exists(i) => ~Exists(i)'
    BY <1>1, Gone DEF SafeInv
  <2>4. QED
    BY <2>1, <2>2, <2>3
<1>2. ASSUME UNCHANGED vars, NEW i \in Instance
      PROVE  /\ InState(i, "running") => ~InState(i, "provisioning")'
             /\ InState(i, "cleanup_pending") => (Exists(i) => row[i].state = "cleanup_pending")'
             /\ handler[i] # "idle" /\ ~Exists(i) => ~Exists(i)'
  BY <1>2 DEF vars, InState, Exists
<1>3. SafeInv /\ [Next]_vars =>
        [ \A i \in Instance :
            /\ InState(i, "running") => ~InState(i, "provisioning")'
            /\ InState(i, "cleanup_pending") => (Exists(i) => row[i].state = "cleanup_pending")'
            /\ handler[i] # "idle" /\ ~Exists(i) => ~Exists(i)' ]_vars
  BY <1>1, <1>2
<1>4. QED
  BY <1>3, SafeAlways, PTL DEF Spec, NoResurrection

\* No step of the program takes a resource from a running instance, but for a
\* stale orphan pass.
THEOREM RunningIsLeftAlone == Spec => RunningKeepsResources
<1>1. ASSUME SafeInv, Next, NEW i \in Instance, InState(i, "running"), handler[i] = "done"
      PROVE  \/ Present(i) \subseteq Present(i)'
             \/ \E m \in Member : ContainerExits(i, m)
             \/ \E j \in Job : Stale(j) /\ work[j].target = i /\ (Reap(j) \/ ReapFails(j))
  <2>1. ASSUME NEW p \in Proc, work[p].target = i
        PROVE  work[p].pc \notin {"claimed", "listed"}
    BY <1>1, <2>1 DEF SafeInv, Ownership, InState
  <2>2. ASSUME NEW j \in Job, work[j].target = i, Reap(j) \/ ReapFails(j)
        PROVE  Stale(j)
    <3>1. work[j].pc \in {"reaping", "reaplisted"}
      BY <2>2 DEF Reap, ReapFails
    <3>2. QED
      BY <1>1, <2>2, <3>1 DEF SafeInv, Orphanage, GoneFor, InState, Proc
  <2>3. QED
    BY <1>1, <2>1, <2>2, RemovalEffect DEF SafeInv
<1>2. ASSUME UNCHANGED vars, NEW i \in Instance
      PROVE  Present(i) \subseteq Present(i)'
  BY <1>2 DEF vars, Present
<1>3. SafeInv /\ [Next]_vars =>
        [ \A i \in Instance :
            InState(i, "running") /\ handler[i] = "done" =>
              \/ Present(i) \subseteq Present(i)'
              \/ \E m \in Member : ContainerExits(i, m)
              \/ \E j \in Job : Stale(j) /\ work[j].target = i /\ (Reap(j) \/ ReapFails(j)) ]_vars
  BY <1>1, <1>2
<1>4. QED
  BY <1>3, SafeAlways, PTL DEF Spec, RunningKeepsResources

\* A worker takes an instance only if it is due when it takes it.
THEOREM JobsAreHonest == Spec => JobTakesOnlyDue
<1>1. ASSUME SafeInv, Next, NEW i \in Instance, NEW j \in Job,
             Exists(i), row[i].op # j, Exists(i)', row'[i].op = j
      PROVE  \/ row[i].state = "running" /\ row[i].ttl < 0
             \/ row[i].state = "provisioning" /\ row[i].age > Provision + Safety
             \/ row[i].state = "cleanup_pending" /\ row[i].age > Safety
  <2>1. ~Reserve(i)
    BY <1>1 DEF Reserve, Goto, SafeInv, Fresh
  <2>2. j # Nobody
    BY LifecycleAssumption
  <2>3. PICK p \in Proc : WebClaim(p, i) \/ (p \in Job /\ JobClaim(p, i))
    BY <1>1, <2>1, <2>2, RowEffect DEF SafeInv, Keeps, Exists
  <2>4. p = j
    BY <1>1, <2>3, ClaimRow DEF SafeInv, TypeOK, WebClaim, JobClaim
  <2>5. Due(i, lag[j])
    BY <2>3, <2>4, LifecycleAssumption DEF JobClaim, WebClaim
  <2>6. /\ lag[j] \in Int /\ lag[j] >= 0 /\ row[i].ttl \in Int /\ row[i].age \in Int
        /\ Provision \in Int /\ Safety \in Int
    BY <1>1, LifecycleAssumption, Bounds DEF SafeInv, TypeOK, Exists, Row, Age
  <2>7. QED
    BY <2>5, <2>6 DEF Due, InState
<1>2. ASSUME UNCHANGED vars, NEW i \in Instance, NEW j \in Job,
             Exists(i), row[i].op # j, Exists(i)', row'[i].op = j
      PROVE  FALSE
  BY <1>2 DEF vars
<1>3. SafeInv /\ [Next]_vars =>
        [ \A i \in Instance, j \in Job :
            Exists(i) /\ row[i].op # j /\ Exists(i)' /\ row'[i].op = j =>
              \/ row[i].state = "running" /\ row[i].ttl < 0
              \/ row[i].state = "provisioning" /\ row[i].age > Provision + Safety
              \/ row[i].state = "cleanup_pending" /\ row[i].age > Safety ]_vars
  BY <1>1, <1>2
<1>4. QED
  BY <1>3, SafeAlways, PTL DEF Spec, JobTakesOnlyDue

\* A lease ends by its holder, or when it has gone stale.
THEOREM LeasesAreRespected == Spec => LeaseRespected
<1>1. ASSUME SafeInv, Next, NEW i \in Instance, NEW p \in Proc, Exists(i), row[i].op = p
      PROVE  /\ Exists(i)' /\ row'[i].op # p => row[i].age > Lease \/ work'[p] # work[p]
             /\ ~Exists(i)' => work'[p] # work[p] \/ handler[i] = "removed"
  <2>1. ~Reserve(i)
    BY <1>1 DEF Reserve, Goto, SafeInv, Fresh
  <2>2. p # Nobody
    BY LifecycleAssumption DEF Proc
  <2>3. ASSUME NEW q \in Proc, WebClaim(q, i) \/ (q \in Job /\ JobClaim(q, i))
        PROVE  row[i].age > Lease
    BY <1>1, <2>2, <2>3 DEF WebClaim, JobClaim, Claim, Claimable
  <2>4. CleanFails(p) \/ Delete(p) => work'[p] # work[p]
    <3>1. CleanFails(p) \/ Delete(p) => work'[p].pc \in {"scan", "idle"}
      BY <1>1 DEF CleanFails, Delete, Resume, At, SafeInv, TypeOK
    <3>2. CleanFails(p) \/ Delete(p) => work[p].pc \in {"claimed", "listed", "removed"}
      BY DEF CleanFails, Delete
    <3>3. QED
      BY <3>1, <3>2
  <2>5. UndoDelete(i) => handler[i] = "removed"
    BY DEF UndoDelete, Goto
  <2>6. QED
    BY <1>1, <2>1, <2>3, <2>4, <2>5, NoRowAssumption, RowEffect DEF SafeInv, Keeps, Exists
<1>2. ASSUME UNCHANGED vars, NEW i \in Instance, NEW p \in Proc, Exists(i), row[i].op = p
      PROVE  Exists(i)' /\ row'[i].op = p
  BY <1>2 DEF vars, Exists
<1>3. SafeInv /\ [Next]_vars =>
        [ \A i \in Instance, p \in Proc :
            Exists(i) /\ row[i].op = p =>
              /\ Exists(i)' /\ row'[i].op # p => row[i].age > Lease \/ work'[p] # work[p]
              /\ ~Exists(i)' => work'[p] # work[p] \/ handler[i] = "removed" ]_vars
  BY <1>1, <1>2
<1>4. QED
  BY <1>3, SafeAlways, PTL DEF Spec, LeaseRespected

\* A request whose undo is complete has ended, and Reserve begins one.
LEMMA Undone ==
  ASSUME TypeOK, Next, NEW i \in Instance, handler[i] = "undone"
  PROVE  handler'[i] = "undone"
<1>1. ~HandlerStep(i)
  BY DEF HandlerStep, Goto, Reserve, StartCreating, ContextsFail, VolumesFail, CreateOk,
         CreateFails, PortMissing, MarkRunning, FinalizationFails, MarkCleanupPending,
         UndoList, UndoRemove, UndoDelete, UndoFails, HandlerDies
<1>2. QED
  BY <1>1, HandlerEffect

\* The history of an instance is written when it is started and when it is deleted.
LEMMA HistoryEffect ==
  ASSUME TypeOK, Next, NEW i \in Instance
  PROVE  \/ history'[i] = history[i]
         \/ Exists(i) /\ Exists(i)'
         \/ Exists(i) /\ history'[i] # "open"
<1> USE DEF TypeOK
<1>1. ASSUME NEW k \in Instance, HandlerStep(k)
      PROVE  history'[i] = history[i] \/ (k = i /\ MarkRunning(i))
  BY <1>1 DEF HandlerStep, Reserve, StartCreating, ContextsFail, VolumesFail, CreateOk, CreateFails,
       PortMissing, MarkRunning, FinalizationFails, MarkCleanupPending, UndoList, UndoRemove,
       UndoDelete, UndoFails, HandlerDies
<1>2. MarkRunning(i) => Exists(i) /\ Exists(i)'
  <2> SUFFICES ASSUME MarkRunning(i)
               PROVE  Exists(i) /\ Exists(i)'
    OBVIOUS
  <2>1. Exists(i)
    BY DEF MarkRunning, InState
  <2>2. row'[i] # NoRow
    BY <2>1, NoRowAssumption, MarkRunningRow DEF Keeps
  <2>3. QED
    BY <2>1, <2>2 DEF Exists
<1>3. ASSUME NEW k \in Instance, DockerStep(k) \/ TimerStep(k)
      PROVE  history' = history
  BY <1>3 DEF DockerStep, LateCreate, LateDrop, ContainerExits,
              TimerStep, Renew, ExtendByAdmin, ShortenAfterSolve
<1>4. ASSUME NEW p \in Proc, CleanStep(p)
      PROVE  history'[i] = history[i] \/ (Exists(i) /\ history'[i] # "open")
  <2>1. CASE Delete(p)
    BY <2>1 DEF Delete
  <2>2. CASE ~Delete(p)
    BY <1>4, <2>2 DEF CleanStep, WebClaim, List, Remove, CleanFails, ProcDies
  <2>3. QED
    BY <2>1, <2>2
<1>5. ASSUME NEW j \in Job, JobStep(j)
      PROVE  history' = history
  BY <1>5 DEF JobStep, JobClaim, JobSkip, OrphanRecheck, Begin, Scan, OrphanSnapshot, OrphanList,
              Reap, ReapFails, JobDone
<1>6. Tick => history' = history
  BY DEF Tick
<1>7. QED
  BY <1>1, <1>2, <1>3, <1>4, <1>5, <1>6 DEF Next

\* Undoing is kept by every step.
LEMMA UndoingStep ==
  ASSUME TypeOK, Fresh, Undoing, Next
  PROVE  Undoing'
<1> SUFFICES ASSUME NEW i \in Instance
             PROVE  /\ late'[i] # {} => handler'[i] \in {"ambiguous", "failed", "dead"}
                    /\ handler'[i] = "undoing" => Present(i)' \subseteq undo'[i]
                    /\ handler'[i] \in {"removed", "undone"} => Present(i)' = {}
  BY DEF Undoing
<1>1. ASSUME late'[i] # {}
      PROVE  handler'[i] \in {"ambiguous", "failed", "dead"}
  <2>1. CASE late[i] = {}
    BY <1>1, <2>1, GrowthEffect
  <2>2. CASE late[i] # {}
    <3>1. handler[i] \in {"ambiguous", "failed", "dead"}
      BY <2>2 DEF Undoing
    <3>2. HandlerStep(i) => MarkCleanupPending(i) \/ HandlerDies(i)
      BY <3>1 DEF HandlerStep, Goto, Reserve, StartCreating, ContextsFail, VolumesFail, CreateOk,
           CreateFails, PortMissing, MarkRunning, FinalizationFails, UndoList, UndoRemove,
           UndoDelete, UndoFails
    <3>3. MarkCleanupPending(i) \/ HandlerDies(i) => handler'[i] \in {"failed", "dead"}
      BY DEF MarkCleanupPending, Goto, HandlerDies, TypeOK
    <3>4. QED
      BY <3>1, <3>2, <3>3, HandlerEffect
  <2>3. QED
    BY <2>1, <2>2
<1>2. ASSUME handler[i] \in {"done", "undo", "undoing", "removed", "undone"}
      PROVE  Present(i)' \subseteq Present(i)
  BY <1>2, GrowthEffect DEF Undoing
<1>3. ASSUME handler'[i] = "undoing"
      PROVE  Present(i)' \subseteq undo'[i]
  <2>1. HandlerStep(i) => UndoList(i)
    BY <1>3 DEF HandlerStep, Goto, Reserve, StartCreating, ContextsFail, VolumesFail, CreateOk,
         CreateFails, PortMissing, MarkRunning, FinalizationFails, MarkCleanupPending, UndoRemove,
         UndoDelete, UndoFails, HandlerDies, TypeOK
  <2>2. UndoList(i) => Present(i)' \subseteq undo'[i]
    BY DEF UndoList, Present, dockerVars, TypeOK
  <2>3. ASSUME handler'[i] = handler[i], undo'[i] = undo[i]
        PROVE  Present(i)' \subseteq undo'[i]
    BY <1>2, <1>3, <2>3 DEF Undoing
  <2>4. QED
    BY <2>1, <2>2, <2>3, HandlerEffect
<1>4. ASSUME handler'[i] \in {"removed", "undone"}
      PROVE  Present(i)' = {}
  <2>1. HandlerStep(i) => UndoRemove(i) \/ UndoDelete(i)
    BY <1>4 DEF HandlerStep, Goto, Reserve, StartCreating, ContextsFail, VolumesFail, CreateOk,
         CreateFails, PortMissing, MarkRunning, FinalizationFails, MarkCleanupPending, UndoList,
         UndoFails, HandlerDies, TypeOK
  <2>2. UndoRemove(i) => Present(i)' = {}
    BY WithoutPresent DEF UndoRemove, Goto, Undoing
  <2>3. UndoDelete(i) => Present(i)' = {}
    BY DEF UndoDelete, Goto, Undoing, Present, dockerVars
  <2>4. handler'[i] = handler[i] => Present(i)' = {}
    BY <1>2, <1>4 DEF Undoing
  <2>5. QED
    BY <2>1, <2>2, <2>3, <2>4, HandlerEffect
<1>5. QED
  BY <1>1, <1>3, <1>4

\* A request is done by finalizing, on a row without a holder.
LEMMA Done ==
  ASSUME TypeOK, Fresh, Ownership, Undoing, Next, NEW i \in Instance, handler'[i] = "done"
  PROVE  \/ handler[i] = "done" /\ Present(i)' \subseteq Present(i)
         \/ MarkRunning(i) /\ Exists(i)' /\ row'[i].op = Nobody
<1>1. HandlerStep(i) => MarkRunning(i)
  BY DEF HandlerStep, Goto, Reserve, StartCreating, ContextsFail, VolumesFail, CreateOk,
         CreateFails, PortMissing, FinalizationFails, MarkCleanupPending, UndoList, UndoRemove,
         UndoDelete, UndoFails, HandlerDies, TypeOK
<1>2. MarkRunning(i) => Exists(i)' /\ row'[i].op = Nobody
  BY MarkRunningRow, NoRowAssumption DEF MarkRunning, InState, Ownership, Keeps, Exists
<1>3. handler[i] = "done" => Present(i)' \subseteq Present(i)
  BY GrowthEffect DEF Undoing
<1>4. QED
  BY <1>1, <1>2, <1>3, HandlerEffect

\* Holding is kept by every step.
LEMMA HoldingStep ==
  ASSUME TypeOK, Fresh, Ownership, Undoing, Holding, Next
  PROVE  Holding'
<1> SUFFICES ASSUME NEW i \in Instance, NEW p \in Proc,
                    handler'[i] = "done", Exists(i)', row'[i].op = p, work'[p].target = i
             PROVE  /\ work'[p].pc = "listed" => Present(i)' \subseteq work'[p].listed
                    /\ work'[p].pc = "removed" => Present(i)' = {}
  BY DEF Holding
<1>1. p # Nobody
  BY LifecycleAssumption DEF Proc
<1>2. handler[i] = "done" /\ Present(i)' \subseteq Present(i)
  BY <1>1, Done
<1>3. ~Reserve(i) /\ ~MarkRunning(i)
  BY <1>2 DEF Reserve, MarkRunning, Goto
<1>4. (Exists(i) /\ row[i].op = p) \/ Claim(p, i)
  <2>1. ASSUME NEW q \in Proc, WebClaim(q, i) \/ JobClaim(q, i), Keeps(i, "cleanup_pending", q)
        PROVE  Claim(p, i)
    <3>1. q = p
      BY <2>1 DEF Keeps
    <3>2. QED
      BY <2>1, <3>1 DEF WebClaim, JobClaim
  <2>2. QED
    BY <1>1, <1>3, <2>1, RowEffect DEF Keeps, Exists
<1>5. CASE Claim(p, i)
  BY <1>5 DEF Claim, On, TypeOK
<1>6. CASE Exists(i) /\ row[i].op = p
  <2>1. CASE work'[p] = work[p]
    BY <1>2, <1>6, <2>1 DEF Holding
  <2>2. CASE CleanStep(p)
    <3>1. CASE List(p)
      <4>1. work'[p].target = work[p].target /\ work'[p].listed = Present(work[p].target)
        BY <3>1 DEF List, ListAs, On, TypeOK
      <4>2. work'[p].pc \in {"listed", "reaplisted"}
        BY <3>1 DEF List, ListAs, On, TypeOK
      <4>3. QED
        BY <1>2, <4>1, <4>2
    <3>2. CASE Remove(p)
      <4>1. work[p].target = i /\ work'[p].pc = "removed" /\ work[p].pc = "listed"
        BY <3>2 DEF Remove, On, TypeOK
      <4>2. Present(i)' = Present(i) \ work[p].listed
        BY <3>2, <4>1, WithoutPresent DEF Remove
      <4>3. Present(i) \subseteq work[p].listed
        BY <1>2, <1>6, <4>1 DEF Holding
      <4>4. QED
        BY <4>1, <4>2, <4>3
    <3>3. CASE \E k \in Instance : WebClaim(p, k)
      BY <3>3 DEF WebClaim, Claim, On, TypeOK
    <3>4. CASE Delete(p) \/ CleanFails(p) \/ ProcDies(p)
      BY <3>4 DEF Delete, CleanFails, ProcDies, Resume, At, Idle, TypeOK
    <3>5. QED
      BY <2>2, <3>1, <3>2, <3>3, <3>4 DEF CleanStep
  <2>3. CASE p \in Job /\ JobStep(p)
    <3>1. CASE \E k \in Instance : JobClaim(p, k)
      BY <3>1 DEF JobClaim, Claim, On, TypeOK
    <3>2. CASE \E k \in Instance : JobSkip(p, k)
      BY <2>1, <3>2 DEF JobSkip
    <3>3. CASE \E k \in Instance : OrphanRecheck(p, k)
      BY <2>1, <2>3, <3>3 DEF OrphanRecheck, On, TypeOK
    <3>4. CASE \/ Begin(p) \/ Scan(p) \/ OrphanSnapshot(p) \/ OrphanList(p)
              \/ Reap(p) \/ ReapFails(p) \/ JobDone(p)
      BY <3>4 DEF Begin, Scan, OrphanSnapshot, OrphanList, Reap, ReapFails, JobDone, At, Idle, TypeOK
    <3>5. QED
      BY <2>3, <3>1, <3>2, <3>3, <3>4 DEF JobStep
  <2>4. QED
    BY <2>1, <2>2, <2>3, WorkEffect
<1>7. QED
  BY <1>4, <1>5, <1>6

\* CleanDeletion is kept by every step.
LEMMA CleanDeletionStep ==
  ASSUME TypeOK, Fresh, Ownership, Undoing, Holding, CleanDeletion, Next
  PROVE  CleanDeletion'
<1> SUFFICES ASSUME NEW i \in Instance, handler'[i] \in {"done", "undone"}, ~Exists(i)'
             PROVE  Present(i)' = {}
  BY DEF CleanDeletion
<1>1. CASE handler'[i] = "undone"
  BY <1>1, UndoingStep DEF Undoing
<1>2. CASE handler'[i] = "done"
  <2>1. handler[i] = "done" /\ Present(i)' \subseteq Present(i)
    BY <1>2, Done
  <2>2. CASE ~Exists(i)
    BY <2>1, <2>2 DEF CleanDeletion
  <2>3. CASE Exists(i)
    <3>1. ~UndoDelete(i)
      BY <2>1 DEF UndoDelete, Goto
    <3>2. PICK p \in Proc : Delete(p) /\ work[p].target = i /\ row[i].op = p
      <4>1. ~Reserve(i)
        BY <2>1 DEF Reserve, Goto
      <4>2. QED
        BY <2>3, <3>1, <4>1, NoRowAssumption, RowEffect DEF Keeps, Exists
    <3>3. work[p].pc = "removed"
      BY <3>2 DEF Delete
    <3>4. Present(i) = {}
      BY <2>1, <2>3, <3>2, <3>3 DEF Holding
    <3>5. QED
      BY <2>1, <3>4
  <2>4. QED
    BY <2>2, <2>3
<1>3. QED
  BY <1>1, <1>2

\* HistoryStopped is kept by every step.
LEMMA HistoryStep ==
  ASSUME TypeOK, Fresh, HistoryStopped, Next
  PROVE  HistoryStopped'
<1> SUFFICES ASSUME NEW i \in Instance, ~Exists(i)', handler'[i] # "undone"
             PROVE  history'[i] # "open"
  BY DEF HistoryStopped
<1>1. CASE ~Exists(i)
  BY <1>1, Undone, HistoryEffect DEF HistoryStopped
<1>2. CASE Exists(i)
  <2>1. ~UndoDelete(i)
    BY DEF UndoDelete, Goto, TypeOK
  <2>2. ~Reserve(i)
    BY <1>2 DEF Reserve, Goto, Fresh
  <2>3. PICK p \in Proc : Delete(p) /\ work[p].target = i /\ row[i].op = p
    BY <1>2, <2>1, <2>2, NoRowAssumption, RowEffect DEF Keeps, Exists
  <2>4. history' = [history EXCEPT ![i] = IF @ = "open" THEN "stopped" ELSE @]
    BY <1>2, <2>3 DEF Delete
  <2>5. QED
    BY <2>4 DEF TypeOK
<1>3. QED
  BY <1>1, <1>2

\* The history of a started instance is stopped with its row.
THEOREM HistoryIsStopped == Spec => []HistoryStopped
<1>1. Init => HistoryStopped
  BY DEF Init, HistoryStopped
<1>2. SafeInv /\ HistoryStopped /\ [Next]_vars => HistoryStopped'
  <2>1. SafeInv /\ HistoryStopped /\ Next => HistoryStopped'
    BY HistoryStep DEF SafeInv
  <2>2. HistoryStopped /\ UNCHANGED vars => HistoryStopped'
    BY DEF vars, HistoryStopped, Exists
  <2>3. QED
    BY <2>1, <2>2
<1>3. QED
  BY <1>1, <1>2, SafeAlways, PTL DEF Spec

\* Deleting the row of an instance whose creation ended without ambiguity means
\* that nothing is left of it.
THEOREM DeletionIsClean == Spec => []CleanDeletion
<1>1. Init => CleanInv
  BY SafeInit DEF Init, CleanInv, Undoing, Holding, CleanDeletion, Present, Idle, At
<1>2. CleanInv /\ [Next]_vars => CleanInv'
  <2>1. CleanInv /\ Next => CleanInv'
    BY SafeStep, UndoingStep, HoldingStep, CleanDeletionStep DEF CleanInv, SafeInv
  <2>2. CleanInv /\ UNCHANGED vars => CleanInv'
    <3>1. CleanInv /\ UNCHANGED vars => SafeInv'
      BY SafeStep DEF CleanInv
    <3>2. CleanInv /\ UNCHANGED vars => (Undoing /\ Holding /\ CleanDeletion)'
      BY DEF CleanInv, vars, Undoing, Holding, CleanDeletion, Present, Exists
    <3>3. QED
      BY <3>1, <3>2 DEF CleanInv
  <2>3. QED
    BY <2>1, <2>2
<1>3. CleanInv => CleanDeletion
  BY DEF CleanInv
<1>4. QED
  BY <1>1, <1>2, <1>3, PTL DEF Spec

=============================================================================
