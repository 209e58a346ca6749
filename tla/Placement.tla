----------------------------- MODULE Placement -----------------------------
(***************************************************************************)
(* How an instance gets its place: InstanceCoordinator.reserve_instance,   *)
(* run by several create requests at once, next to the admin routes that   *)
(* add, update, retire and delete Docker contexts.                         *)
(*                                                                         *)
(* Every query of a reservation attempt is a step, since at the isolation  *)
(* levels in use another transaction may commit between two of them.  The  *)
(* update of the context row, the insert and the commit are one step: the  *)
(* update holds the lock of the context row, and the database checks the   *)
(* unique constraints as it inserts.                                       *)
(*                                                                         *)
(* The order in which the candidate contexts are tried is left open: the   *)
(* ranking by weight and load decides which context is preferred, never    *)
(* which ones are allowed.                                                 *)
(***************************************************************************)
EXTENDS Integers, FiniteSets

CONSTANTS
  Request, OwnerOf, ChallengeOf, Eligible, Context, Host, Limits, Creates,
  NoRow, NoSlot,   \* all of them as in Admission
  Keep,            \* the value of a field that an update request leaves alone
  Admin,           \* admin requests on contexts, each served over and over
  Attempts,        \* max_attempts of the retry loop
  BusyRetries      \* SQLITE_BUSY_RETRIES

ASSUME PlacementAssumption ==
  /\ Limits \subseteq Nat \ {0} /\ Limits # {}
  /\ Creates \subseteq Nat \ {0} /\ Creates # {}
  /\ Eligible \in [Request -> SUBSET Context]
  /\ NoSlot \notin Nat
  /\ Attempts \in Nat \ {0} /\ BusyRetries \in Nat

VARIABLES
  ctx,       \* docker_contexts: state, health_state and hostname
  version,   \* docker_contexts: placement_version
  inst,      \* container_instances
  answer,    \* what reserve_instance returned or raised
  req,       \* a create request in reserve_instance
  admin      \* an admin request on a context

vars == <<ctx, version, inst, answer, req, admin>>

Promise == INSTANCE Admission

(***************************************************************************)
(* Requests in progress                                                    *)
(***************************************************************************)
RequestPC == {"idle", "owner", "quota", "contexts", "slots", "commit", "last", "over"}

\* A context as an attempt read it, and a create slot that looked free on it.
Candidate == Context \X Host
NoChoice  == [at |-> <<>>, slot |-> NoSlot]
Choice    == [at : Candidate, slot : Promise!CreateSlot] \cup {NoChoice}

RequestState ==
  [pc     : RequestPC,
   limit  : Limits \cup {0},         \* max_instances
   most   : Creates \cup {0},        \* max_concurrent_creates
   quota  : Promise!QuotaSlot,
   left   : SUBSET Candidate,        \* ranked contexts that were not tried yet
   choice : Choice,
   tries  : 0 .. Attempts,
   busy   : 0 .. BusyRetries]

Resting == [pc |-> "idle", limit |-> 0, most |-> 0, quota |-> 0, left |-> {},
            choice |-> NoChoice, tries |-> 0, busy |-> 0]

(***************************************************************************)
(* Admin requests in progress                                              *)
(***************************************************************************)
Settable == {"active", "draining", "disabled"}

\* What an update request sets; Keep for a field that it does not mention.
Updates == [state : Settable \cup {Keep}, host : Host \cup {Keep}]

\* An update with the row as it read it (the version if it changes the endpoint).
UpdateState == [pc : {"probe", "update"}, ctx : Context,
                was : [state : Settable \cup {"retired_orphaned"}, host : Host],
                version : Nat, new : Updates]

DeleteState == [pc : {"retire", "delete"}, ctx : Context]

Quiet == [pc |-> "idle"]

Blank(h) == [state |-> "absent", health |-> "unhealthy", host |-> h]

Init ==
  /\ ctx \in [Context -> {[state |-> "active", health |-> "healthy", host |-> h] : h \in Host}
                         \cup {Blank(h) : h \in Host}]
  /\ version = [c \in Context |-> 0]
  /\ inst = [r \in Request |-> NoRow]
  /\ answer = [r \in Request |-> "none"]
  /\ req = [r \in Request |-> Resting]
  /\ admin = [a \in Admin |-> Quiet]

(***************************************************************************)
(* reserve_instance                                                        *)
(***************************************************************************)
Move(r, from, to) == req[r].pc = from /\ req' = [req EXCEPT ![r].pc = to]

\* The request is over: an answer was returned or raised.
Ends(r, a) ==
  /\ answer' = [answer EXCEPT ![r] = a]
  /\ req' = [req EXCEPT ![r] = [Resting EXCEPT !.pc = "over"]]

\* Mutant: a failed attempt is not counted.
NextAttemptUncounted(r, b) ==
  /\ req' = [req EXCEPT ![r] = [@ EXCEPT !.pc = IF req[r].tries + 1 = Attempts THEN "last" ELSE "owner",
                                         !.quota = 0, !.left = {}, !.choice = NoChoice, !.busy = b]]
  /\ UNCHANGED answer

\* The attempt was rolled back; the loop goes on, or the attempts are used up.
NextAttempt(r, b) ==
  LET n == req[r].tries + 1
  IN /\ req' = [req EXCEPT ![r] = [@ EXCEPT !.pc = IF n = Attempts THEN "last" ELSE "owner",
                                            !.quota = 0, !.left = {}, !.choice = NoChoice,
                                            !.tries = n, !.busy = b]]
     /\ UNCHANGED answer

\* create_container reads the settings, which an admin may change at any time
\* and which therefore differ between requests, and calls reserve_instance.  No
\* eligible context at all is turned down before the first attempt.
Start(r) ==
  /\ req[r].pc = "idle"
  /\ \E l \in Limits, k \in Creates :
       req' = [req EXCEPT ![r].pc = IF Eligible[r] = {} THEN "over" ELSE "owner",
                          ![r].limit = l, ![r].most = k]
  /\ answer' = IF Eligible[r] = {} THEN [answer EXCEPT ![r] = "unavailable"] ELSE answer
  /\ UNCHANGED <<ctx, version, inst, admin>>

\* _existing_reservation
FindExisting(r) ==
  /\ req[r].pc = "owner"
  /\ IF Promise!Twins(r) # {}
       THEN Ends(r, "existing")
       ELSE Move(r, "owner", "quota") /\ UNCHANGED answer
  /\ UNCHANGED <<ctx, version, inst, admin>>

\* Mutant: the limit itself counts as a slot.
PickQuotaSlotInclusive(r) ==
  LET free == 0 .. req[r].limit \ Promise!QuotaTaken(OwnerOf[r])
  IN /\ req[r].pc = "quota"
     /\ \/ free = {} /\ Ends(r, "quota")
        \/ \E q \in free :
             /\ \A x \in free : q <= x
             /\ req' = [req EXCEPT ![r].pc = "contexts", ![r].quota = q]
             /\ UNCHANGED answer
     /\ UNCHANGED <<ctx, version, inst, admin>>

\* _pick_quota_slot: the lowest slot below the limit that looks free.
PickQuotaSlot(r) ==
  LET free == 0 .. req[r].limit - 1 \ Promise!QuotaTaken(OwnerOf[r])
  IN /\ req[r].pc = "quota"
     /\ \/ free = {} /\ Ends(r, "quota")
        \/ \E q \in free :
             /\ \A x \in free : q <= x
             /\ req' = [req EXCEPT ![r].pc = "contexts", ![r].quota = q]
             /\ UNCHANGED answer
     /\ UNCHANGED <<ctx, version, inst, admin>>

\* _ranked_contexts: the contexts that are active and healthy now.
RankContexts(r) ==
  LET open == {c \in Eligible[r] : Promise!Open(c)}
  IN /\ req[r].pc = "contexts"
     /\ IF open = {}
          THEN Ends(r, "unavailable")
          ELSE /\ req' = [req EXCEPT ![r].pc = "slots",
                                     ![r].left = {<<c, ctx[c].host>> : c \in open}]
               /\ UNCHANGED answer
     /\ UNCHANGED <<ctx, version, inst, admin>>

\* _pick_create_slot, one context of the ranking: a slot that looks free is
\* chosen at random, and without one the next context is tried.
PickCreateSlot(r) ==
  /\ req[r].pc = "slots"
  /\ \E p \in req[r].left :
       LET free == 0 .. req[r].most - 1 \ Promise!SlotsTaken(p[1])
       IN \/ /\ \E s \in free :
                  req' = [req EXCEPT ![r].pc = "commit", ![r].left = {},
                                     ![r].choice = [at |-> p, slot |-> s]]
             /\ UNCHANGED answer
          \/ /\ free = {} /\ req[r].left # {p}
             /\ req' = [req EXCEPT ![r].left = @ \ {p}]
             /\ UNCHANGED answer
          \/ /\ free = {} /\ req[r].left = {p}
             /\ Ends(r, "busy")
  /\ UNCHANGED <<ctx, version, inst, admin>>

\* Mutant: the update of the context row has no conditions but the id.
BumpsById(r) == TRUE

\* _bump_placement_version finds the context as the attempt read it, and open.
Bumps(r) ==
  LET at == req[r].choice.at
  IN Promise!Open(at[1]) /\ ctx[at[1]].host = at[2]

\* Mutant: the constraint on owner and challenge is missing.
UniqueButTwins(r) ==
  LET c == req[r].choice.at[1]
  IN /\ req[r].quota \notin Promise!QuotaTaken(OwnerOf[r])
     /\ req[r].choice.slot \notin Promise!SlotsTaken(c)

\* Mutant: the constraint on owner and quota slot is missing.
UniqueButQuota(r) ==
  LET c == req[r].choice.at[1]
  IN /\ Promise!Twins(r) = {}
     /\ req[r].choice.slot \notin Promise!SlotsTaken(c)

\* Mutant: the constraint on context and create slot is missing.
UniqueButSlot(r) ==
  /\ Promise!Twins(r) = {}
  /\ req[r].quota \notin Promise!QuotaTaken(OwnerOf[r])

\* The three unique constraints of container_instances hold after the insert.
Unique(r) ==
  LET c == req[r].choice.at[1]
  IN /\ Promise!Twins(r) = {}
     /\ req[r].quota \notin Promise!QuotaTaken(OwnerOf[r])
     /\ req[r].choice.slot \notin Promise!SlotsTaken(c)

\* The context row is updated, the instance inserted and both are committed.
\* The connection may fail after the commit, which is then not acknowledged.
Commit(r) ==
  LET c == req[r].choice.at[1]
  IN /\ req[r].pc = "commit"
     /\ Bumps(r) /\ Unique(r)
     /\ version' = [version EXCEPT ![c] = @ + 1]
     /\ inst' = [inst EXCEPT ![r] = [ctx |-> c, quota |-> req[r].quota, slot |-> req[r].choice.slot]]
     /\ \E a \in {"created", "error"} : answer' = [answer EXCEPT ![r] = a]
     /\ req' = [req EXCEPT ![r] = [Resting EXCEPT !.pc = "over",
                                                     !.limit = req[r].limit, !.most = req[r].most]]
     /\ UNCHANGED <<ctx, admin>>

\* The context changed, or a constraint was violated: rolled back, try again.
CommitConflict(r) ==
  /\ req[r].pc = "commit"
  /\ ~(Bumps(r) /\ Unique(r))
  /\ NextAttempt(r, req[r].busy)
  /\ UNCHANGED <<ctx, version, inst, admin>>

\* A query fails: "locked" is retried some times, anything else is raised.
DatabaseFails(r) ==
  /\ req[r].pc \in {"owner", "quota", "contexts", "slots", "commit"}
  /\ \/ req[r].busy < BusyRetries /\ NextAttempt(r, req[r].busy + 1)
     \/ Ends(r, "error")
  /\ UNCHANGED <<ctx, version, inst, admin>>

\* The attempts are used up: one last look for a row of the same owner.
LastLook(r) ==
  /\ req[r].pc = "last"
  /\ Ends(r, IF Promise!Twins(r) # {} THEN "existing" ELSE "busy")
  /\ UNCHANGED <<ctx, version, inst, admin>>

(***************************************************************************)
(* What becomes of a row (Lifecycle has the details)                       *)
(***************************************************************************)

\* mark_running gives the create slot back.
MarkRunning(r) ==
  /\ inst[r] # NoRow
  /\ inst[r].slot # NoSlot
  /\ inst' = [inst EXCEPT ![r].slot = NoSlot]
  /\ UNCHANGED <<ctx, version, answer, req, admin>>

\* delete_after_confirmed_cleanup
DeleteRow(r) ==
  /\ inst[r] # NoRow
  /\ inst' = [inst EXCEPT ![r] = NoRow]
  /\ UNCHANGED <<ctx, version, answer, req, admin>>

(***************************************************************************)
(* Contexts                                                                *)
(***************************************************************************)

\* A probe of the host changes health_state.
Probe(c) ==
  /\ Promise!Listed(c)
  /\ ctx' = [ctx EXCEPT ![c].health = IF @ = "healthy" THEN "unhealthy" ELSE "healthy"]
  /\ UNCHANGED <<version, inst, answer, req, admin>>

\* route_api_add_context: a name that is not taken.
AddContext(c) ==
  /\ ctx[c].state = "absent"
  /\ \E s \in Settable, h \in Host :
       ctx' = [ctx EXCEPT ![c] = [state |-> s, health |-> "unhealthy", host |-> h]]
  /\ UNCHANGED <<version, inst, answer, req, admin>>

EndpointChanges(was, new) == new.host \notin {Keep, was.host}

\* The value of a field after the update.
Set(new, old) == IF new = Keep THEN old ELSE new

\* route_api_update_context reads the row and validates the request: a retired
\* context stays retired, and the endpoint changes only while the context is
\* parked and stays parked.
UpdateRead(a, c) ==
  /\ admin[a].pc = "idle"
  /\ Promise!Listed(c)
  /\ \E new \in Updates :
       LET moves == EndpointChanges(ctx[c], new)
       IN /\ ctx[c].state = "retired_orphaned" => new.state = Keep
          /\ moves => {ctx[c].state, Set(new.state, ctx[c].state)} \subseteq Promise!Parked
          /\ admin' = [admin EXCEPT ![a] =
                         [pc |-> IF moves THEN "probe" ELSE "update", ctx |-> c,
                          was |-> [state |-> ctx[c].state, host |-> ctx[c].host],
                          version |-> IF moves THEN version[c] ELSE 0, new |-> new]]
  /\ UNCHANGED <<ctx, version, inst, answer, req>>

\* _endpoint_change_conflict: no rows, and no labelled resources on the host.
\* Rows or resources, or a host that does not answer, end the request.
EndpointCheck(a) ==
  /\ admin[a].pc = "probe"
  /\ \/ /\ Promise!RowsOn(admin[a].ctx) = {}
        /\ admin' = [admin EXCEPT ![a].pc = "update"]
     \/ admin' = [admin EXCEPT ![a] = Quiet]
  /\ UNCHANGED <<ctx, version, inst, answer, req>>

\* Mutant: nothing is validated again.
StillValidUnchecked(a) == Promise!Listed(admin[a].ctx)

\* Mutant: the endpoint is compared again, its references are not.
StillValidEndpoint(a) ==
  LET c   == admin[a].ctx
      new == admin[a].new
  IN /\ Promise!Listed(c)
     /\ new.host # Keep => ctx[c].host = admin[a].was.host
     /\ ctx[c].state = "retired_orphaned" => new.state = Keep

\* The checks made again once the context row is locked.
StillValid(a) ==
  LET c   == admin[a].ctx
      was == admin[a].was
      new == admin[a].new
  IN /\ Promise!Listed(c)
     /\ new.host # Keep => ctx[c].host = was.host
     /\ EndpointChanges(was, new) =>
          ctx[c].state = was.state /\ version[c] = admin[a].version /\ Promise!RowsOn(c) = {}
     /\ ctx[c].state = "retired_orphaned" => new.state = Keep

\* The fields of the request are set, or the request is turned down with 404,
\* 409, 400 or 500.
UpdateCommit(a) ==
  LET c   == admin[a].ctx
      new == admin[a].new
  IN /\ admin[a].pc = "update"
     /\ admin' = [admin EXCEPT ![a] = Quiet]
     /\ \/ /\ StillValid(a)
           /\ ctx' = [ctx EXCEPT ![c].state = Set(new.state, @), ![c].host = Set(new.host, @)]
        \/ UNCHANGED ctx
     /\ UNCHANGED <<version, inst, answer, req>>

\* route_api_delete_context reads what refers to the context.  It deletes the
\* record if nothing does and the host answers, and else retires it, if forced.
DeleteRead(a, c) ==
  /\ admin[a].pc = "idle"
  /\ Promise!Listed(c)
  /\ \E pc \in {"delete", "retire"} :
       /\ pc = "delete" => Promise!RowsOn(c) = {}
       /\ admin' = [admin EXCEPT ![a] = [pc |-> pc, ctx |-> c]]
  /\ UNCHANGED <<ctx, version, inst, answer, req>>

\* Mutant: the foreign key of container_instances does not restrict deletes.
DeletableAlways(c) == Promise!Listed(c)

\* The foreign key of container_instances restricts deletes.
Deletable(c) == Promise!Listed(c) /\ Promise!RowsOn(c) = {}

DeleteCommit(a) ==
  /\ admin[a].pc \in {"delete", "retire"}
  /\ admin' = [admin EXCEPT ![a] = Quiet]
  /\ \/ /\ admin[a].pc = "delete" /\ Deletable(admin[a].ctx)
        /\ ctx' = [ctx EXCEPT ![admin[a].ctx].state = "deleted", ![admin[a].ctx].health = "unhealthy"]
     \/ /\ admin[a].pc = "retire" /\ Promise!Listed(admin[a].ctx)
        /\ ctx' = [ctx EXCEPT ![admin[a].ctx].state = "retired_orphaned"]
     \/ UNCHANGED ctx
  /\ UNCHANGED <<version, inst, answer, req>>

----------------------------------------------------------------------------
Reserves(r) ==
  \/ Start(r) \/ FindExisting(r) \/ PickQuotaSlot(r) \/ RankContexts(r) \/ PickCreateSlot(r)
  \/ Commit(r) \/ CommitConflict(r) \/ DatabaseFails(r) \/ LastLook(r)

Administers(a) ==
  \/ \E c \in Context : UpdateRead(a, c) \/ DeleteRead(a, c)
  \/ EndpointCheck(a) \/ UpdateCommit(a) \/ DeleteCommit(a)

Next ==
  \/ \E r \in Request : Reserves(r) \/ MarkRunning(r) \/ DeleteRow(r)
  \/ \E c \in Context : Probe(c) \/ AddContext(c)
  \/ \E a \in Admin : Administers(a)

Spec == Init /\ [][Next]_vars

(***************************************************************************)
(* Properties                                                              *)
(***************************************************************************)

\* The states of each variable.
TypeOK ==
  /\ ctx \in [Context -> Promise!ContextRow]
  /\ version \in [Context -> Nat]
  /\ inst \in [Request -> Promise!InstanceRow \cup {NoRow}]
  /\ answer \in [Request -> Promise!Answer]
  /\ req \in [Request -> RequestState]
  /\ \A r \in Request : req[r].pc \notin {"last", "over"} => req[r].tries < Attempts
  /\ admin \in [Admin -> UpdateState \cup DeleteState \cup {Quiet}]

\* The retry loop and the admin routes implement admission: every answer is true
\* at one instant, every row is granted as if in one step.
ImplementsAdmission == Promise!AdmissionSpec

\* An owner never has two instances of one challenge.
OneInstancePerChallenge == \A r \in Promise!Rows : Promise!Twins(r) = {r}

\* However many requests of an owner race, and whatever limits they read, one of
\* the owner's instances was reserved under a limit that allows them all, and no
\* two are of one challenge.
QuotaHeld ==
  /\ OneInstancePerChallenge
  /\ \A r \in Promise!Rows :
       LET mine == Promise!RowsOf(OwnerOf[r])
       IN \E x \in mine : Cardinality(mine) <= req[x].limit

\* The same of the creates in progress on a Docker context.
AdmissionBounded ==
  \A c \in Context :
    LET creating == {r \in Promise!RowsOn(c) : inst[r].slot # NoSlot}
    IN creating # {} => \E x \in creating : Cardinality(creating) <= req[x].most

\* Every row refers to a context that exists, and whose endpoint is still the one
\* for which the request placed it, whatever two admins do to it meanwhile.
EndpointPinned ==
  [][ \A r \in Request :
        /\ r \notin Promise!Rows /\ r \in Promise!Rows' =>
             /\ inst'[r].ctx \in Eligible[r]
             /\ Promise!Open(inst'[r].ctx)
             /\ ctx[inst'[r].ctx].host = req[r].choice.at[2]
        /\ r \in Promise!Rows /\ r \in Promise!Rows' =>
             LET c == inst[r].ctx IN Promise!Listed(c)' /\ ctx'[c].host = ctx[c].host ]_vars

\* A retired context is never used again, although requests that read it before
\* it was retired commit afterwards.
RetiredForGood ==
  [][ \A c \in Context :
        ctx[c].state = "retired_orphaned" =>
          ctx'[c].state \in {"retired_orphaned", "deleted"} /\ ctx'[c].host = ctx[c].host ]_vars

\* messages.py:9, "you can only spawn {maximum} containers at a time": a request
\* is let past the quota only if its owner has fewer instances than the limit.
LimitEnforced ==
  [][ \A r \in Request :
        req[r].pc = "quota" /\ req'[r].pc = "contexts" =>
          Cardinality(Promise!RowsOf(OwnerOf[r])) < req[r].limit ]_vars

\* Every create request is served step by step.  Nothing is assumed of the
\* admins, of the probes or of what becomes of the rows.
FairSpec == Spec /\ \A r \in Request : WF_vars(Reserves(r) /\ req[r].pc # "idle")

\* Every request is answered, however often others get in its way.
Answered == \A r \in Request : req[r].pc # "idle" ~> answer[r] # "none"

(***************************************************************************)
(* What makes the safety properties inductive                              *)
(***************************************************************************)

\* A request has no row and no answer until it is over; while it runs it knows
\* its limits, and it considers only contexts that its challenge allows.
Serving ==
  \A r \in Request :
    /\ req[r].pc # "over" => answer[r] = "none" /\ inst[r] = NoRow
    /\ req[r].pc \notin {"idle", "over"} => req[r].limit \in Limits /\ req[r].most \in Creates
    /\ req[r].left \subseteq Eligible[r] \X Host
    /\ req[r].pc = "commit" => req[r].choice # NoChoice /\ req[r].choice.at[1] \in Eligible[r]

\* A request that moves an endpoint found the context parked and leaves it so.
Validated ==
  \A a \in Admin :
    admin[a].pc \in {"probe", "update"} =>
      LET was == admin[a].was
          new == admin[a].new
      IN EndpointChanges(was, new) =>
           {was.state, Set(new.state, was.state)} \subseteq Promise!Parked

\* Rows refer to contexts that exist.
Anchored == \A r \in Promise!Rows : Promise!Listed(inst[r].ctx)

PlaceInv == TypeOK /\ Serving /\ Validated /\ Anchored

=============================================================================
