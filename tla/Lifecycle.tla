----------------------------- MODULE Lifecycle -----------------------------
(***************************************************************************)
(* The life of one logical instance: its row of container_instances, the   *)
(* Docker resources that carry its label, the create request that owns its *)
(* provision token, and the processes that clean up: web requests running  *)
(* cleanup_instance, and maintenance workers running                       *)
(* _kill_expired_containers_inner and then _reconcile_orphans.             *)
(*                                                                         *)
(* Every method of InstanceCoordinator is one database transaction and is  *)
(* one action here.  A worker's own lookups share one transaction, which   *)
(* may see the rows as of its first query.  Every call to a Docker host is *)
(* at least one action of its own, so that all transactions interleave     *)
(* with all Docker calls.                                                  *)
(*                                                                         *)
(* An Instance is an id.  An id is a fresh uuid chosen by one create       *)
(* request, together with a fresh provision token, so the model names the  *)
(* request, the id and the provision token by the same value.              *)
(*                                                                         *)
(* Time.  A stored timestamp appears as its age, which saturates where no  *)
(* condition tells larger ages apart, and an expiry time as what is left   *)
(* of it.  A worker that compares with a clock value it read earlier       *)
(* carries the lag since that reading.                                     *)
(***************************************************************************)
EXTENDS Integers, FiniteSets

CONSTANTS
  Instance,     \* instance ids, one per create request
  Web,          \* request handlers that run cleanup_instance
  Job,          \* maintenance workers (one, unless the named lock is lost)
  Units,        \* labelled Docker resources of an instance, created in order
  NoRow,        \* the row does not exist
  Nobody,       \* operation_token IS NULL; also: no target
  Lease,        \* claim_operation's stale_after_seconds
  Safety,       \* RECONCILE_SAFETY_AGE_SECONDS
  Provision,    \* provision_timeout_seconds
  Span,         \* expires - now right after a reservation or a renewal
  PostSolve,    \* post_solve_expiry_seconds
  MaxRenewals,  \* resolve_max_renewals
  Site,         \* the databases and Docker hosts there may be
  MaxLag,       \* bound: longest time between a worker's clock reading and its use
  Horizon       \* bound: no orphan pass tells greater ages apart

ASSUME LifecycleAssumption ==
  /\ Units \in Nat \ {0}
  /\ Lease \in Nat \ {0} /\ Safety \in Nat \ {0} /\ Provision \in Nat \ {0}
  /\ Span \in Nat \ {0} /\ PostSolve \in Nat
  /\ MaxRenewals \in Nat /\ MaxLag \in Nat
  /\ Web \cap Job = {}
  /\ Nobody \notin Web \cup Job \cup Instance

\* A site is what its database gives a transaction to read, and how far the clock
\* of its Docker host runs behind (ahead if negative).
ASSUME SiteAssumption ==
  /\ Site \subseteq [isolation : {"committed", "repeatable"}, skew : Int]
  /\ Horizon \in Nat /\ \A s \in Site : Horizon >= Safety - s.skew

Proc   == Web \cup Job
Member == 1 .. Units

Min2(a, b) == IF a < b THEN a ELSE b
Max2(a, b) == IF a > b THEN a ELSE b

\* Where the clocks saturate: no condition tells larger values apart.
AgeCap  == Safety + Provision + MaxLag + 1   \* of a row
BornCap == PostSolve + MaxLag + 1            \* since a row was created
HostCap == Horizon + MaxLag                  \* of a resource
TtlMin  == -(MaxLag + 1)
Age     == 0 .. AgeCap
HostAge == 0 .. HostCap
Older(a, cap) == Min2(a + 1, cap)
Absent == -1

VARIABLES
  row,      \* container_instances
  history,  \* container_history of the instance: none, open or stopped
  docker,   \* age of each labelled resource on the Docker host, or Absent
  late,     \* resources whose create call timed out but may still complete
  handler,  \* program counter of the create request
  made,     \* how many of the request's create calls have returned
  undo,     \* the resources that the request's own undo listed
  work,     \* what each cleaning process does: pc, target, listed resources
  site,     \* the database and the Docker host
  seen,     \* rows a worker's scan selected whose state_version is unchanged
  opened,   \* time from a worker's first query to its clock reading for orphans
  alive,    \* active_instance_ids of a worker's orphan pass
  orphans,  \* instance ids a worker's orphan pass has yet to visit
  lag       \* time since a worker read the clock

handlerVars == <<handler, made, undo>>
dockerVars == <<docker, late>>
passVars == <<site, opened, alive, orphans, lag>>
jobVars == <<seen, passVars>>
vars == <<row, history, docker, late, handler, made, undo, work,
          site, seen, opened, alive, orphans, lag>>

(***************************************************************************)
(* Rows                                                                    *)
(***************************************************************************)
Row == [state    : {"provisioning", "running", "cleanup_pending"},
        op       : Proc \cup {Nobody},     \* operation_token
        slot     : BOOLEAN,                \* create_slot IS NOT NULL
        age      : Age,                    \* now - updated_at
        born     : 0 .. BornCap,           \* now - created_at
        ttl      : TtlMin .. Span,         \* expires - now
        renewals : 0 .. MaxRenewals,
        solved   : BOOLEAN]                \* solved_at IS NOT NULL

ASSUME NoRowAssumption == NoRow \notin Row

NewRow == [state |-> "provisioning", op |-> Nobody, slot |-> TRUE, age |-> 0, born |-> 0,
           ttl |-> Span, renewals |-> 0, solved |-> FALSE]

Exists(i) == row[i] # NoRow
InState(i, s) == Exists(i) /\ row[i].state = s

Present(i) == {m \in Member : docker[i][m] # Absent}

\* The lookups of a pass share one transaction, for the coordinator's methods
\* have sessions of their own: with repeatable reads they all see the rows as
\* of its first query (the default of MySQL and MariaDB), else as they are.
Repeatable == site.isolation = "repeatable"

\* A state_version bump: it is compared only for equality with the value that
\* a scan read, so it removes the row from what the scans may still claim.
Bump(i) == seen' = [j \in Job |-> seen[j] \ {i}]

Without(i, ms) == [docker EXCEPT ![i] = [m \in Member |-> IF m \in ms THEN Absent ELSE @[m]]]

\* A process without a target, and one with a target.
At(pc) == [pc |-> pc, target |-> Nobody, listed |-> {}]
On(pc, i, ms) == [pc |-> pc, target |-> i, listed |-> ms]

Idle == At("idle")

Init ==
  /\ row = [i \in Instance |-> NoRow]
  /\ history = [i \in Instance |-> "none"]
  /\ docker = [i \in Instance |-> [m \in Member |-> Absent]]
  /\ late = [i \in Instance |-> {}]
  /\ handler = [i \in Instance |-> "idle"]
  /\ made = [i \in Instance |-> 0]
  /\ undo = [i \in Instance |-> {}]
  /\ work = [p \in Proc |-> Idle]
  /\ site \in Site
  /\ seen = [j \in Job |-> {}]
  /\ opened = [j \in Job |-> 0]
  /\ alive = [j \in Job |-> {}]
  /\ orphans = [j \in Job |-> {}]
  /\ lag = [j \in Job |-> 0]

(***************************************************************************)
(* The create request                                                      *)
(***************************************************************************)
Goto(i, from, to) == handler[i] = from /\ handler' = [handler EXCEPT ![i] = to]

\* reserve_instance committed a fresh row (Placement models how it gets there).
Reserve(i) ==
  /\ Goto(i, "idle", "reserved")
  /\ row' = [row EXCEPT ![i] = NewRow]
  /\ UNCHANGED <<history, dockerVars, made, undo, work, jobVars>>

\* The contexts were loaded and the volumes resolved; Docker calls begin.
StartCreating(i) ==
  /\ Goto(i, "reserved", "creating")
  /\ UNCHANGED <<row, history, dockerVars, made, undo, work, jobVars>>

\* load_docker_contexts failed: the outcome counts as ambiguous external io.
ContextsFail(i) ==
  /\ Goto(i, "reserved", "ambiguous")
  /\ UNCHANGED <<row, history, dockerVars, made, undo, work, jobVars>>

\* A required volume is missing on the host: nothing was created, undo.
VolumesFail(i) ==
  /\ Goto(i, "reserved", "undo")
  /\ UNCHANGED <<row, history, dockerVars, made, undo, work, jobVars>>

\* The next create call of create_container or create_stack returned.
CreateOk(i) ==
  LET m == made[i] + 1
  IN /\ handler[i] = "creating"
     /\ docker' = [docker EXCEPT ![i][m] = 0]
     /\ made' = [made EXCEPT ![i] = m]
     /\ handler' = [handler EXCEPT ![i] = IF m = Units THEN "created" ELSE "creating"]
     /\ UNCHANGED <<row, history, late, undo, work, jobVars>>

\* The next create call raised.  A call that timed out can still complete.  A
\* stack first runs kill_stack, which stops what it can and ignores errors.
CreateFails(i) ==
  LET m == made[i] + 1
  IN /\ Goto(i, "creating", "ambiguous")
     /\ \E l \in {{}, {m}} : late' = [late EXCEPT ![i] = l]
     /\ \E killed \in SUBSET Present(i) :
          /\ Units = 1 => killed = {}
          /\ docker' = Without(i, killed)
     /\ UNCHANGED <<row, history, made, undo, work, jobVars>>

\* The published port of the entry container cannot be determined.
PortMissing(i) ==
  /\ Goto(i, "created", "undo")
  /\ UNCHANGED <<row, history, dockerVars, made, undo, work, jobVars>>

\* Mutant: mark_running matches on the tokens but not on the state.
MarkRunningAnyState(i) ==
  /\ handler[i] = "created"
  /\ Exists(i)
  /\ row' = [row EXCEPT ![i].state = "running", ![i].slot = FALSE, ![i].age = 0]
  /\ history' = [history EXCEPT ![i] = "open"]
  /\ \E pc \in {"done", "undo"} : handler' = [handler EXCEPT ![i] = pc]
  /\ Bump(i)
  /\ UNCHANGED <<dockerVars, made, undo, work, passVars>>

\* mark_running: the reservation is still ours and provisioning.  The commit
\* may be acknowledged, or take effect and raise all the same.
MarkRunning(i) ==
  /\ handler[i] = "created"
  /\ InState(i, "provisioning")
  /\ row' = [row EXCEPT ![i].state = "running", ![i].slot = FALSE, ![i].age = 0]
  /\ history' = [history EXCEPT ![i] = "open"]
  /\ \E pc \in {"done", "undo"} : handler' = [handler EXCEPT ![i] = pc]
  /\ Bump(i)
  /\ UNCHANGED <<dockerVars, made, undo, work, passVars>>

\* mark_running found the reservation changed (returned None) or raised.
FinalizationFails(i) ==
  /\ Goto(i, "created", "undo")
  /\ UNCHANGED <<row, history, dockerVars, made, undo, work, jobVars>>

\* mark_cleanup_pending, in its ambiguous and in its last-resort use.
MarkCleanupPending(i) ==
  /\ Goto(i, "ambiguous", "failed")
  /\ IF InState(i, "provisioning")
       THEN /\ row' = [row EXCEPT ![i].state = "cleanup_pending", ![i].age = 0]
            /\ Bump(i)
       ELSE UNCHANGED <<row, seen>>
  /\ UNCHANGED <<history, dockerVars, made, undo, work, passVars>>

\* _cleanup_failed_reservation, unambiguous: force_remove_resources_by_label
\* lists the labelled resources ...
UndoList(i) ==
  /\ Goto(i, "undo", "undoing")
  /\ undo' = [undo EXCEPT ![i] = Present(i)]
  /\ UNCHANGED <<row, history, dockerVars, made, work, jobVars>>

\* ... removes each of them ...
UndoRemove(i) ==
  /\ Goto(i, "undoing", "removed")
  /\ docker' = Without(i, undo[i])
  /\ undo' = [undo EXCEPT ![i] = {}]
  /\ UNCHANGED <<row, history, late, made, work, jobVars>>

\* ... and delete_after_confirmed_cleanup drops the row by provision token,
\* whatever its state, leaving the history record alone.
UndoDelete(i) ==
  /\ Goto(i, "removed", "undone")
  /\ row' = [row EXCEPT ![i] = NoRow]
  /\ Bump(i)
  /\ UNCHANGED <<history, dockerVars, made, undo, work, passVars>>

\* The host or the database failed on the way: some listed resources may be gone.
UndoFails(i) ==
  /\ handler[i] \in {"undo", "undoing", "removed"}
  /\ handler' = [handler EXCEPT ![i] = "ambiguous"]
  /\ \E gone \in SUBSET undo[i] : docker' = Without(i, gone)
  /\ undo' = [undo EXCEPT ![i] = {}]
  /\ UNCHANGED <<row, history, late, made, work, jobVars>>

\* The serving process dies, or an exception escapes create_container.
HandlerDies(i) ==
  /\ handler[i] \in {"reserved", "creating", "created", "ambiguous", "undo", "undoing", "removed"}
  /\ handler' = [handler EXCEPT ![i] = "dead"]
  /\ \E l \in SUBSET Member :
       /\ l \subseteq (IF handler[i] = "creating" THEN {made[i] + 1} ELSE {})
       /\ late' = [late EXCEPT ![i] = l]
  /\ undo' = [undo EXCEPT ![i] = {}]
  /\ UNCHANGED <<row, history, docker, made, work, jobVars>>

(***************************************************************************)
(* The Docker host                                                         *)
(***************************************************************************)

\* A create call that the client gave up on completes after all ...
LateCreate(i, m) ==
  /\ m \in late[i]
  /\ late' = [late EXCEPT ![i] = @ \ {m}]
  /\ docker' = [docker EXCEPT ![i][m] = 0]
  /\ UNCHANGED <<row, history, handlerVars, work, jobVars>>

\* ... or never does.
LateDrop(i, m) ==
  /\ m \in late[i]
  /\ late' = [late EXCEPT ![i] = @ \ {m}]
  /\ UNCHANGED <<row, history, docker, handlerVars, work, jobVars>>

\* A container stops; it was started with auto_remove.
ContainerExits(i, m) ==
  /\ m \in Present(i)
  /\ docker' = Without(i, {m})
  /\ UNCHANGED <<row, history, late, handlerVars, work, jobVars>>

(***************************************************************************)
(* Timers of a running instance                                            *)
(***************************************************************************)

\* renew_container: the entry container answers, then renew.
Renew(i) ==
  /\ InState(i, "running")
  /\ Present(i) # {}
  /\ ~row[i].solved
  /\ row[i].ttl > 0
  /\ row[i].renewals < MaxRenewals
  /\ row' = [row EXCEPT ![i].ttl = Span, ![i].renewals = @ + 1, ![i].age = 0]
  /\ Bump(i)
  /\ UNCHANGED <<history, dockerVars, handlerVars, work, passVars>>

\* Mutant: the extension is added to what is left.
ExtendByAdding(i) ==
  /\ InState(i, "running")
  /\ row' = [row EXCEPT ![i].ttl = @ + Span, ![i].age = 0]
  /\ Bump(i)
  /\ UNCHANGED <<history, dockerVars, handlerVars, work, passVars>>

\* extend_by_admin
ExtendByAdmin(i) ==
  /\ InState(i, "running")
  /\ row[i].ttl < Span
  /\ row' = [row EXCEPT ![i].ttl = Span, ![i].age = 0]
  /\ Bump(i)
  /\ UNCHANGED <<history, dockerVars, handlerVars, work, passVars>>

\* shorten_after_solve, from the solve itself or from reconcile_solved_instances
\* some time d after it; updated_at becomes the time of the solve, which may be
\* before the last update but not before the row was created.
ShortenAfterSolve(i) ==
  /\ InState(i, "running")
  /\ ~row[i].solved
  /\ \E d \in 0 .. row[i].born :
       row' = [row EXCEPT ![i].ttl = Min2(@, Max2(PostSolve - d, TtlMin)),
                          ![i].solved = TRUE, ![i].age = Min2(d, AgeCap)]
  /\ Bump(i)
  /\ UNCHANGED <<history, dockerVars, handlerVars, work, passVars>>

(***************************************************************************)
(* Cleaning: the steps that cleanup_instance and the worker share          *)
(***************************************************************************)

\* Mutant: no lease, the latest claim wins.
ClaimableAlways(i) == TRUE

\* claim_operation's lease: nobody holds the row, or the holder went stale.
Claimable(i) == row[i].op = Nobody \/ row[i].age > Lease

\* Mutant: the claim takes the token and leaves the state to the deletion.
ClaimKeepsState(p, i) ==
  /\ Claimable(i)
  /\ row' = [row EXCEPT ![i].op = p, ![i].age = 0]
  /\ work' = [work EXCEPT ![p] = On("claimed", i, {})]
  /\ Bump(i)

Claim(p, i) ==
  /\ Claimable(i)
  /\ row' = [row EXCEPT ![i].state = "cleanup_pending", ![i].op = p, ![i].age = 0]
  /\ work' = [work EXCEPT ![p] = On("claimed", i, {})]
  /\ Bump(i)

\* Where a process goes once it is finished with its target.
Resume(p) == At(IF p \in Job THEN "scan" ELSE "idle")

\* cleanup_instance: a user's stop or a finding that the container is gone
\* (through kill_container), an admin's cleanup, or a purge.
WebClaim(p, i) ==
  /\ p \in Web
  /\ work[p].pc = "idle"
  /\ Exists(i)
  /\ Claim(p, i)
  /\ UNCHANGED <<history, dockerVars, handlerVars, passVars>>

\* force_remove_resources_by_label lists the labelled resources ...
ListAs(p, pc) ==
  LET i == work[p].target IN work' = [work EXCEPT ![p] = On(pc, i, Present(i))]

List(p) ==
  /\ \/ work[p].pc = "claimed" /\ ListAs(p, "listed")
     \/ work[p].pc = "reaping" /\ ListAs(p, "reaplisted")
  /\ UNCHANGED <<row, history, dockerVars, handlerVars, jobVars>>

\* ... and removes each of them.
Remove(p) ==
  /\ work[p].pc = "listed"
  /\ docker' = Without(work[p].target, work[p].listed)
  /\ work' = [work EXCEPT ![p] = On("removed", @.target, {})]
  /\ UNCHANGED <<row, history, late, handlerVars, jobVars>>

\* Mutant: the deletion forgets the history records.
DeleteForgetsHistory(p) ==
  LET i == work[p].target
  IN /\ work[p].pc = "removed"
     /\ IF Exists(i) /\ row[i].op = p
          THEN row' = [row EXCEPT ![i] = NoRow] /\ Bump(i)
          ELSE UNCHANGED <<row, seen>>
     /\ work' = [work EXCEPT ![p] = Resume(p)]
     /\ UNCHANGED <<history, dockerVars, handlerVars, passVars>>

\* delete_after_confirmed_cleanup with the operation token of the claim.
Delete(p) ==
  LET i == work[p].target
  IN /\ work[p].pc = "removed"
     /\ IF Exists(i) /\ row[i].op = p
          THEN /\ row' = [row EXCEPT ![i] = NoRow]
               /\ history' = [history EXCEPT ![i] = IF @ = "open" THEN "stopped" ELSE @]
               /\ Bump(i)
          ELSE UNCHANGED <<row, history, seen>>
     /\ work' = [work EXCEPT ![p] = Resume(p)]
     /\ UNCHANGED <<dockerVars, handlerVars, passVars>>

\* Mutant: a failed removal is logged and the deletion goes ahead.
CleanFailsSilently(p) ==
  /\ work[p].pc \in {"claimed", "listed"}
  /\ \E gone \in SUBSET work[p].listed : docker' = Without(work[p].target, gone)
  /\ work' = [work EXCEPT ![p] = On("removed", @.target, {})]
  /\ UNCHANGED <<row, history, late, handlerVars, jobVars>>

\* The Docker call raised after removing some of what it listed, and
\* release_operation gives the lease up if it is still ours.
CleanFails(p) ==
  LET i == work[p].target
  IN /\ work[p].pc \in {"claimed", "listed"}
     /\ \E gone \in SUBSET work[p].listed : docker' = Without(i, gone)
     /\ IF InState(i, "cleanup_pending") /\ row[i].op = p
          THEN row' = [row EXCEPT ![i].op = Nobody, ![i].age = 0]
          ELSE UNCHANGED row
     /\ work' = [work EXCEPT ![p] = Resume(p)]
     /\ UNCHANGED <<history, late, handlerVars, jobVars>>

\* The process dies, or a database call raises and ends the request or the
\* worker's pass.  The lease stays in the row.
ProcDies(p) ==
  /\ work[p].pc # "idle"
  /\ work' = [work EXCEPT ![p] = Idle]
  /\ IF p \in Job
       THEN /\ seen' = [seen EXCEPT ![p] = {}]
            /\ opened' = [opened EXCEPT ![p] = 0]
            /\ alive' = [alive EXCEPT ![p] = {}]
            /\ orphans' = [orphans EXCEPT ![p] = {}]
            /\ lag' = [lag EXCEPT ![p] = 0]
            /\ UNCHANGED site
       ELSE UNCHANGED jobVars
  /\ UNCHANGED <<row, history, dockerVars, handlerVars>>

(***************************************************************************)
(* The maintenance worker                                                  *)
(***************************************************************************)

\* Mutant: a reservation is due as soon as its deadline has passed.
DueAtDeadline(i, l) ==
  \/ InState(i, "running") /\ row[i].ttl + l < 0
  \/ InState(i, "cleanup_pending") /\ row[i].age > Safety + l
  \/ InState(i, "provisioning") /\ row[i].age > Provision + l

\* Mutant: rows that are already pending cleanup are left to whoever holds them.
DueUnlessPending(i, l) ==
  \/ InState(i, "running") /\ row[i].ttl + l < 0
  \/ InState(i, "provisioning") /\ row[i].age > Provision + Safety + l

\* Mutant: reservations are left to their requests.
DueUnlessProvisioning(i, l) ==
  \/ InState(i, "running") /\ row[i].ttl + l < 0
  \/ InState(i, "cleanup_pending") /\ row[i].age > Safety + l

\* Mutant: only instances that were never solved expire.
DueUnlessSolved(i, l) ==
  \/ InState(i, "running") /\ row[i].ttl + l < 0 /\ ~row[i].solved
  \/ InState(i, "cleanup_pending") /\ row[i].age > Safety + l
  \/ InState(i, "provisioning") /\ row[i].age > Provision + Safety + l

\* What the scan selects, and what the claim demands again, as of a cutoff
\* that was the current time l ago.  A provisioning row has been untouched
\* since it was reserved, so that its provision_deadline is Provision after
\* its updated_at.
Due(i, l) ==
  \/ InState(i, "running") /\ row[i].ttl + l < 0
  \/ InState(i, "cleanup_pending") /\ row[i].age > Safety + l
  \/ InState(i, "provisioning") /\ row[i].age > Provision + Safety + l

Live == {i \in Instance : Exists(i)}

\* _kill_expired_containers_inner runs its first query, for a setting or for the
\* solved instances.  With repeatable reads it sees the rows as of now from here
\* on; without, this query tells it nothing about them.
Begin(j) ==
  /\ j \in Job
  /\ Repeatable
  /\ work[j].pc = "idle"
  /\ work' = [work EXCEPT ![j] = At("begun")]
  /\ seen' = [seen EXCEPT ![j] = Live]
  /\ alive' = [alive EXCEPT ![j] = Live]
  /\ UNCHANGED <<row, history, dockerVars, handlerVars, site, opened, orphans, lag>>

\* It reads the clock and selects rows.  (A row that changed since a snapshot may
\* be selected too, but its state_version or its age is not what a claim demands.)
Scan(j) ==
  /\ j \in Job
  /\ work[j].pc = IF Repeatable THEN "begun" ELSE "idle"
  /\ work' = [work EXCEPT ![j] = At("scan")]
  /\ seen' = [seen EXCEPT ![j] = {i \in Instance : Due(i, 0) /\ (Repeatable => i \in @)}]
  /\ lag' = [lag EXCEPT ![j] = 0]
  /\ UNCHANGED <<row, history, dockerVars, handlerVars, site, opened, alive, orphans>>

\* claim_operation with expected_state_version and maintenance_cutoff.
JobClaim(j, i) ==
  /\ j \in Job
  /\ work[j].pc = "scan"
  /\ i \in seen[j]
  /\ Due(i, lag[j])
  /\ Claim(j, i)
  /\ UNCHANGED <<history, dockerVars, handlerVars, passVars>>

\* The claim matched no row: the loop goes on.
JobSkip(j, i) ==
  /\ j \in Job
  /\ work[j].pc = "scan"
  /\ i \in seen[j]
  /\ ~(Due(i, lag[j]) /\ Claimable(i))
  /\ seen' = [seen EXCEPT ![j] = @ \ {i}]
  /\ UNCHANGED <<row, history, dockerVars, handlerVars, work, passVars>>

\* _reconcile_orphans selects the ids of all rows and reads the clock ...
OrphanSnapshot(j) ==
  /\ j \in Job
  /\ work[j].pc = "scan"
  /\ seen[j] = {}
  /\ work' = [work EXCEPT ![j] = At("snapshot")]
  /\ alive' = [alive EXCEPT ![j] = IF Repeatable THEN @ ELSE Live]
  /\ lag' = [lag EXCEPT ![j] = 0]
  /\ UNCHANGED <<row, history, dockerVars, handlerVars, site, seen, opened, orphans>>

\* ... lists the labelled resources of a host, keeps the instances that had no
\* row and whose youngest resource is old enough by the host's clock, and
\* disregards those with a creation time in the future ...
SeenAge(i, m, l) == docker[i][m] + site.skew - l

\* Mutant: the age comparison is the wrong way round.
OrphanedWhenYoung(j, i) ==
  /\ i \notin alive[j]
  /\ Present(i) # {}
  /\ \A m \in Present(i) : SeenAge(i, m, lag[j]) \in 0 .. Safety

Orphaned(j, i) ==
  /\ i \notin alive[j]
  /\ Present(i) # {}
  /\ \A m \in Present(i) : SeenAge(i, m, lag[j]) >= Safety

OrphanList(j) ==
  /\ j \in Job
  /\ work[j].pc = "snapshot"
  /\ work' = [work EXCEPT ![j] = At("orphans")]
  /\ orphans' = [orphans EXCEPT ![j] = {i \in Instance : Orphaned(j, i)}]
  /\ lag' = [lag EXCEPT ![j] = 0]
  /\ UNCHANGED <<row, history, dockerVars, handlerVars, site, seen, opened, alive>>

\* Mutant: the pass trusts its snapshot and does not look the row up again.
OrphanNoRecheck(j, i) ==
  /\ j \in Job
  /\ work[j].pc = "orphans"
  /\ i \in orphans[j]
  /\ orphans' = [orphans EXCEPT ![j] = @ \ {i}]
  /\ work' = [work EXCEPT ![j] = On("reaping", i, {})]
  /\ UNCHANGED <<row, history, dockerVars, handlerVars, site, seen, opened, alive, lag>>

\* ... looks the row up once more before it removes anything ...
Known(j, i) == IF Repeatable THEN i \in alive[j] ELSE Exists(i)

OrphanRecheck(j, i) ==
  /\ j \in Job
  /\ work[j].pc = "orphans"
  /\ i \in orphans[j]
  /\ orphans' = [orphans EXCEPT ![j] = @ \ {i}]
  /\ IF Known(j, i)
       THEN UNCHANGED work
       ELSE work' = [work EXCEPT ![j] = On("reaping", i, {})]
  /\ UNCHANGED <<row, history, dockerVars, handlerVars, site, seen, opened, alive, lag>>

\* ... removes what force_remove_resources_by_label lists, or fails on the way,
\* and goes on with the next orphan.
Reap(j) ==
  /\ work[j].pc = "reaplisted"
  /\ docker' = Without(work[j].target, work[j].listed)
  /\ work' = [work EXCEPT ![j] = At("orphans")]
  /\ UNCHANGED <<row, history, late, handlerVars, jobVars>>

ReapFails(j) ==
  /\ work[j].pc \in {"reaping", "reaplisted"}
  /\ \E gone \in SUBSET work[j].listed : docker' = Without(work[j].target, gone)
  /\ work' = [work EXCEPT ![j] = At("orphans")]
  /\ UNCHANGED <<row, history, late, handlerVars, jobVars>>

\* The pass is over, and db.session.remove ends its transaction.
JobDone(j) ==
  /\ j \in Job
  /\ work[j].pc = "orphans"
  /\ orphans[j] = {}
  /\ work' = [work EXCEPT ![j] = Idle]
  /\ opened' = [opened EXCEPT ![j] = 0]
  /\ alive' = [alive EXCEPT ![j] = {}]
  /\ UNCHANGED <<row, history, dockerVars, handlerVars, site, seen, orphans, lag>>

(***************************************************************************)
(* Time                                                                    *)
(***************************************************************************)

\* Does worker j still need the clock value it read?
Lagging(j) == \/ seen[j] # {} /\ work[j].pc # "begun"
              \/ work[j].pc = "snapshot"

\* Is worker j in a transaction that may get too old for its orphan pass?
Ageing(j) == Repeatable /\ work[j].pc \in {"begun", "scan", "claimed", "listed", "removed"}

Tick ==
  /\ \A j \in Job : Lagging(j) => lag[j] < MaxLag
  /\ row' = [i \in Instance |->
               IF Exists(i)
                 THEN [row[i] EXCEPT !.age = Older(@, AgeCap), !.born = Older(@, BornCap),
                                     !.ttl = Max2(@ - 1, TtlMin)]
                 ELSE NoRow]
  /\ docker' = [i \in Instance |-> [m \in Member |->
                  IF docker[i][m] = Absent THEN Absent ELSE Older(docker[i][m], HostCap)]]
  /\ lag' = [j \in Job |-> IF Lagging(j) THEN lag[j] + 1 ELSE 0]
  /\ opened' = [j \in Job |-> IF Ageing(j) THEN Older(opened[j], Horizon) ELSE opened[j]]
  /\ UNCHANGED <<history, late, handlerVars, work, site, seen, alive, orphans>>

----------------------------------------------------------------------------
HandlerStep(i) ==
  \/ Reserve(i) \/ StartCreating(i) \/ ContextsFail(i) \/ VolumesFail(i)
  \/ CreateOk(i) \/ CreateFails(i) \/ PortMissing(i)
  \/ MarkRunning(i) \/ FinalizationFails(i) \/ MarkCleanupPending(i)
  \/ UndoList(i) \/ UndoRemove(i) \/ UndoDelete(i) \/ UndoFails(i) \/ HandlerDies(i)

DockerStep(i) == \E m \in Member : LateCreate(i, m) \/ LateDrop(i, m) \/ ContainerExits(i, m)

TimerStep(i) == Renew(i) \/ ExtendByAdmin(i) \/ ShortenAfterSolve(i)

CleanStep(p) ==
  \/ \E i \in Instance : WebClaim(p, i)
  \/ List(p) \/ Remove(p) \/ Delete(p) \/ CleanFails(p) \/ ProcDies(p)

JobStep(j) ==
  \/ \E i \in Instance : JobClaim(j, i) \/ JobSkip(j, i) \/ OrphanRecheck(j, i)
  \/ Begin(j) \/ Scan(j) \/ OrphanSnapshot(j) \/ OrphanList(j) \/ Reap(j) \/ ReapFails(j) \/ JobDone(j)

Next ==
  \/ \E i \in Instance : HandlerStep(i) \/ DockerStep(i) \/ TimerStep(i)
  \/ \E p \in Proc : CleanStep(p)
  \/ \E j \in Job : JobStep(j)
  \/ Tick

Spec == Init /\ [][Next]_vars

(***************************************************************************)
(* Properties                                                              *)
(***************************************************************************)

\* The states of each variable.
HandlerPC == {"idle", "reserved", "creating", "created", "done", "ambiguous", "failed",
              "undo", "undoing", "removed", "undone", "dead"}
WorkPC == {"idle", "claimed", "listed", "removed",
           "begun", "scan", "snapshot", "orphans", "reaping", "reaplisted"}
Task == [pc : WorkPC, target : Instance \cup {Nobody}, listed : SUBSET Member]

TypeOK ==
  /\ row \in [Instance -> Row \cup {NoRow}]
  /\ history \in [Instance -> {"none", "open", "stopped"}]
  /\ docker \in [Instance -> [Member -> HostAge \cup {Absent}]]
  /\ late \in [Instance -> SUBSET Member]
  /\ handler \in [Instance -> HandlerPC]
  /\ made \in [Instance -> 0 .. Units]
  /\ \A i \in Instance : handler[i] \in {"idle", "reserved", "creating"} => made[i] < Units
  /\ undo \in [Instance -> SUBSET Member]
  /\ work \in [Proc -> Task]
  /\ site \in Site
  /\ seen \in [Job -> SUBSET Instance]
  /\ opened \in [Job -> 0 .. Horizon]
  /\ alive \in [Job -> SUBSET Instance]
  /\ orphans \in [Job -> SUBSET Instance]
  /\ lag \in [Job -> 0 .. MaxLag]

\* Once the create request has ended with an answer that is not ambiguous - the
\* instance was started, or its creation was undone - the row is deleted only
\* when no labelled resource is left on the Docker host, whoever deletes it and
\* however many processes clean up at once.
CleanDeletion ==
  \A i \in Instance :
    handler[i] \in {"done", "undone"} /\ ~Exists(i) => Present(i) = {}

\* The history of a started instance is stopped when its row is gone, whichever
\* of the competing cleaners deleted it; only the request's own undo, which
\* follows a mark_running that committed and raised, leaves it open.
HistoryStopped ==
  \A i \in Instance :
    ~Exists(i) /\ handler[i] # "undone" => history[i] # "open"

\* A process that claimed a row can count on it: until it is finished, the row
\* is pending cleanup or gone, even if its own lease went stale and the create
\* request, which knows the provision token, meanwhile wants to finalize.
ClaimIsFinal ==
  \A p \in Proc :
    work[p].pc \in {"claimed", "listed", "removed"} =>
      LET i == work[p].target
      IN Exists(i) => row[i].state = "cleanup_pending"

\* The one orphan pass that cannot tell: its transaction rereads a snapshot, and
\* so much time passed since that an instance reserved meanwhile can look old
\* enough by the clock of its host.
Stale(j) == Repeatable /\ opened[j] + site.skew >= Safety

\* An orphan pass removes resources only of an instance whose row is gone for
\* good, although it decides on a snapshot of the rows, on ages by another
\* machine's clock and on a lookup that is past when the removal runs: whenever
\* the lookup reads current rows, and with repeatable reads as long as expiry did
\* not hold the pass up for the safety age, less what the host's clock is behind.
ReapsOnlyTheDead ==
  \A j \in Job :
    work[j].pc \in {"reaping", "reaplisted"} =>
      \/ ~Exists(work[j].target) /\ handler[work[j].target] # "idle"
      \/ Stale(j)

\* No step of ours takes a resource from a running instance: neither a cleaner
\* that outlived its lease, nor a worker's pass, nor an orphan pass, unless that
\* is stale.  (The request's own undo after a finalization that raised is the
\* other exception.)
RunningKeepsResources ==
  [][ \A i \in Instance :
        InState(i, "running") /\ handler[i] = "done" =>
          \/ Present(i) \subseteq Present(i)'
          \/ \E m \in Member : ContainerExits(i, m)
          \/ \E j \in Job : Stale(j) /\ work[j].target = i /\ (Reap(j) \/ ReapFails(j)) ]_vars

\* State only moves forward: a row that is pending cleanup never runs again and
\* a running one never returns to provisioning; an id is never reused.
NoResurrection ==
  [][ \A i \in Instance :
        /\ InState(i, "running") => ~InState(i, "provisioning")'
        /\ InState(i, "cleanup_pending") => (Exists(i) => row[i].state = "cleanup_pending")'
        /\ handler[i] # "idle" /\ ~Exists(i) => ~Exists(i)' ]_vars

\* A maintenance worker takes a running instance only if it has expired now, and
\* a provisioning one only when its deadline has long passed, although it picked
\* the row on an earlier reading of the clock and of the row.
JobTakesOnlyDue ==
  [][ \A i \in Instance, j \in Job :
        Exists(i) /\ row[i].op # j /\ Exists(i)' /\ row'[i].op = j =>
          \/ row[i].state = "running" /\ row[i].ttl < 0
          \/ row[i].state = "provisioning" /\ row[i].age > Provision + Safety
          \/ row[i].state = "cleanup_pending" /\ row[i].age > Safety ]_vars

\* A lease is taken over only from a holder that left it untouched for longer
\* than the lease, and a row is deleted by operation token only by the process
\* whose token it holds.
LeaseRespected ==
  [][ \A i \in Instance, p \in Proc :
        Exists(i) /\ row[i].op = p =>
          /\ Exists(i)' /\ row'[i].op # p => row[i].age > Lease \/ work'[p] # work[p]
          /\ ~Exists(i)' => work'[p] # work[p] \/ handler[i] = "removed" ]_vars

\* coordination.py:539, "docker absence must precede release of create
\* admission": a create slot that is given up by deleting its row is given up
\* when nothing with the instance's label is left on the host.
AbsenceBeforeAdmission ==
  [][ \A i \in Instance :
        Exists(i) /\ row[i].slot /\ ~Exists(i)' => Present(i) = {} ]_vars

(***************************************************************************)
(* Fairness and liveness                                                   *)
(***************************************************************************)

\* A step with which a process gets on with a cleanup ...
Cleans(p) == List(p) \/ Remove(p) \/ Delete(p)

\* ... and a worker with its pass.
Works(j) ==
  \/ \E i \in Instance : JobClaim(j, i) \/ JobSkip(j, i) \/ OrphanRecheck(j, i)
  \/ Begin(j) \/ Scan(j) \/ Cleans(j)
  \/ OrphanSnapshot(j) \/ OrphanList(j) \/ Reap(j) \/ JobDone(j)

\* A worker dies or a Docker host fails it (a death with which a pass is over, or
\* a failure after the last removal, is no different from getting on).
JobFault(j) == (ProcDies(j) \/ CleanFails(j) \/ ReapFails(j)) /\ ~Works(j)

\* A cleanup request dies, a Docker host fails it, or it took so long that
\* another process has taken its lease over.
WebFault(w) ==
  \/ (ProcDies(w) \/ CleanFails(w)) /\ ~Cleans(w)
  \/ LET i == work[w].target IN Delete(w) /\ Exists(i) /\ row[i].op # w

\* Time passes.  A worker that is started gets on, the scheduler starts it again
\* after every pass, and from some point on it neither dies nor finds a host
\* unreachable.  A cleanup request gets on too, and from some point on none fails
\* or outlasts its lease: release_operation makes the row young again, so that
\* one request after another that fails would keep it from the worker for good.
\* A create call that timed out completes or is given up.  Nothing is assumed of
\* create requests, nor that there is any cleanup request.
Fairness ==
  /\ WF_vars(Tick)
  /\ \A i \in Instance, m \in Member : WF_vars(LateCreate(i, m) \/ LateDrop(i, m))
  /\ \A j \in Job : WF_vars(Works(j)) /\ <>[][~JobFault(j)]_vars
  /\ \A w \in Web : WF_vars(Cleans(w)) /\ <>[][~WebFault(w)]_vars

FairSpec == Spec /\ Fairness

\* A row that is pending cleanup, with or without a holder that died, is
\* eventually deleted.
CleanupCompletes == \A i \in Instance : InState(i, "cleanup_pending") ~> ~Exists(i)

\* A reservation whose request died, or that went on for too long, is resolved.
ProvisioningEnds ==
  \A i \in Instance : InState(i, "provisioning") ~> InState(i, "running") \/ ~Exists(i)

\* An instance that has expired is cleaned up unless an admin extends it.
ExpiredIsCleaned ==
  \A i \in Instance :
    InState(i, "running") /\ row[i].ttl < 0 ~> ~Exists(i) \/ row[i].ttl >= 0

\* Resources that outlive their row - created late, or by a request that died -
\* do not stay on the host for good.
OrphansReaped ==
  \A i \in Instance : ~Exists(i) /\ Present(i) # {} ~> Present(i) = {}

(***************************************************************************)
(* What makes the safety properties inductive                              *)
(***************************************************************************)

\* An id that was not used yet has neither a row nor resources.
Fresh ==
  \A i \in Instance :
    handler[i] = "idle" => ~Exists(i) /\ Present(i) = {} /\ late[i] = {}

\* A lease is held only on a row that is pending cleanup, and a process works
\* only on rows that are pending cleanup or gone.
Ownership ==
  /\ \A i \in Instance :
       Exists(i) /\ row[i].op # Nobody => row[i].state = "cleanup_pending"
  /\ \A p \in Proc :
       work[p].pc \in {"claimed", "listed", "removed"} =>
         /\ work[p].target \in Instance
         /\ handler[work[p].target] # "idle"
         /\ Exists(work[p].target) => row[work[p].target].state = "cleanup_pending"

\* What a snapshot does not show is gone for good, or is younger than the
\* snapshot: the difference is not told apart beyond the horizon.
GoneFor(i) == ~Exists(i) /\ handler[i] # "idle"
YoungerThan(j, i, l) == opened[j] = Horizon \/ \A m \in Present(i) : docker[i][m] - l <= opened[j]

Snapshot ==
  \A j \in Job, i \in Instance :
    Repeatable /\ i \notin alive[j] =>
      /\ work[j].pc \in {"begun", "scan", "claimed", "listed", "removed"} =>
           GoneFor(i) \/ YoungerThan(j, i, 0)
      /\ work[j].pc = "snapshot" => GoneFor(i) \/ YoungerThan(j, i, lag[j])

\* An orphan pass visits only ids that were used, and removes what has no row,
\* or it is stale.
Orphanage ==
  /\ \A j \in Job, i \in Instance :
       i \in orphans[j] =>
         /\ handler[i] # "idle"
         /\ Repeatable => ~Exists(i) \/ Stale(j)
  /\ \A p \in Proc :
       work[p].pc \in {"reaping", "reaplisted"} =>
         /\ p \in Job
         /\ work[p].target \in Instance
         /\ GoneFor(work[p].target) \/ Stale(p)

\* Resources appear late only after an ambiguous failure, and a request's undo
\* removes all there is.
Undoing ==
  \A i \in Instance :
    /\ late[i] # {} => handler[i] \in {"ambiguous", "failed", "dead"}
    /\ handler[i] = "undoing" => Present(i) \subseteq undo[i]
    /\ handler[i] \in {"removed", "undone"} => Present(i) = {}

\* The holder of the lease of an instance that was started has listed all that
\* is left of it, and has removed all that it listed.
Holding ==
  \A i \in Instance, p \in Proc :
    handler[i] = "done" /\ Exists(i) /\ row[i].op = p /\ work[p].target = i =>
      /\ work[p].pc = "listed" => Present(i) \subseteq work[p].listed
      /\ work[p].pc = "removed" => Present(i) = {}

SafeInv == TypeOK /\ Fresh /\ Ownership /\ Snapshot /\ Orphanage
CleanInv == SafeInv /\ Undoing /\ Holding /\ CleanDeletion

=============================================================================
