----------------------------- MODULE Admission -----------------------------
(***************************************************************************)
(* What admission promises: each create request gets one answer, and that  *)
(* answer was true at one instant while the request was running.  A granted *)
(* request takes, in a single step, a row with a quota slot of its owner    *)
(* and a create slot of a Docker context that is open at that instant.      *)
(* A context keeps its endpoint, and its record, as long as rows refer to  *)
(* it, and a retired context is never used again.                          *)
(*                                                                         *)
(* Placement, the retry loop of reserve_instance next to the routes that   *)
(* administer contexts, implements this specification.                     *)
(***************************************************************************)
EXTENDS Integers, FiniteSets

CONSTANTS
  Request,      \* create requests; also the id of the instance each may reserve
  OwnerOf,      \* owner_key of a request
  ChallengeOf,  \* challenge of a request
  Eligible,     \* contexts that satisfy the challenge's prerequisites
  Context,      \* records of docker_contexts
  Host,         \* endpoints
  Limits,       \* values of max_containers_per_user that requests may read
  Creates,      \* values of max_concurrent_creates that requests may read
  NoRow,        \* no row of container_instances
  NoSlot        \* create_slot IS NULL

VARIABLES
  ctx,     \* docker_contexts
  inst,    \* container_instances
  answer   \* what a create request was told

abstractVars == <<ctx, inst, answer>>

QuotaSlot  == UNION {0 .. l - 1 : l \in Limits}
CreateSlot == UNION {0 .. k - 1 : k \in Creates}

ContextRow == [state  : {"absent", "active", "draining", "disabled", "retired_orphaned", "deleted"},
               health : {"healthy", "unhealthy"},
               host   : Host]

InstanceRow == [ctx : Context, quota : QuotaSlot, slot : CreateSlot \cup {NoSlot}]

Answer == {"none", "created", "existing", "quota", "unavailable", "busy", "error"}

(***************************************************************************)
(* Contexts and rows                                                       *)
(***************************************************************************)
Listed(c) == ctx[c].state \notin {"absent", "deleted"}
Open(c)   == ctx[c].state = "active" /\ ctx[c].health = "healthy"
Parked    == {"draining", "disabled"}

Rows       == {r \in Request : inst[r] # NoRow}
RowsOf(o)  == {r \in Rows : OwnerOf[r] = o}
RowsOn(c)  == {r \in Rows : inst[r].ctx = c}
Twins(r)   == {x \in RowsOf(OwnerOf[r]) : ChallengeOf[x] = ChallengeOf[r]}

QuotaTaken(o)  == {inst[x].quota : x \in RowsOf(o)}
SlotsTaken(c)  == {inst[x].slot : x \in RowsOn(c)} \ {NoSlot}

(***************************************************************************)
(* Requests                                                                *)
(***************************************************************************)
Tell(r, a) == answer[r] = "none" /\ answer' = [answer EXCEPT ![r] = a]

\* A row is granted; the request is told so unless the database fails it.
Grant(r) ==
  /\ UNCHANGED ctx
  /\ \E a \in {"created", "error"} : Tell(r, a)
  /\ Twins(r) = {}
  /\ \E c \in Eligible[r], q \in QuotaSlot, s \in CreateSlot :
       /\ Open(c)
       /\ q \notin QuotaTaken(OwnerOf[r])
       /\ s \notin SlotsTaken(c)
       /\ inst' = [inst EXCEPT ![r] = [ctx |-> c, quota |-> q, slot |-> s]]

\* A request is turned down for a reason that holds as it is told.
Refuse(r) ==
  /\ UNCHANGED <<ctx, inst>>
  /\ \/ Tell(r, "existing") /\ Twins(r) # {}
     \/ Tell(r, "quota") /\ \E l \in Limits : 0 .. l - 1 \subseteq QuotaTaken(OwnerOf[r])
     \/ Tell(r, "unavailable") /\ \A c \in Eligible[r] : ~Open(c)
     \/ Tell(r, "busy")
     \/ Tell(r, "error")

\* The instance is running and gives its create slot back, or its row is gone.
Release(r) ==
  /\ UNCHANGED <<ctx, answer>>
  /\ r \in Rows
  /\ \/ inst' = [inst EXCEPT ![r].slot = NoSlot]
     \/ inst' = [inst EXCEPT ![r] = NoRow]

(***************************************************************************)
(* Contexts                                                                *)
(***************************************************************************)
Administer(c) ==
  /\ UNCHANGED <<inst, answer>>
  /\ \E new \in ContextRow :
       /\ ctx' = [ctx EXCEPT ![c] = new]
       /\ new.state # "absent"
       /\ new.state = "deleted" => RowsOn(c) = {} /\ new.host = ctx[c].host
       /\ ctx[c].state = "deleted" => new.state = "deleted"
       /\ ctx[c].state = "retired_orphaned" => new.state \in {"retired_orphaned", "deleted"}
       /\ Listed(c) /\ new.host # ctx[c].host =>
            RowsOn(c) = {} /\ ctx[c].state \in Parked /\ new.state \in Parked

AdmissionInit ==
  /\ ctx \in [Context -> ContextRow]
  /\ inst = [r \in Request |-> NoRow]
  /\ answer = [r \in Request |-> "none"]

AdmissionNext ==
  \/ \E r \in Request : Grant(r) \/ Refuse(r) \/ Release(r)
  \/ \E c \in Context : Administer(c)

AdmissionSpec == AdmissionInit /\ [][AdmissionNext]_abstractVars

=============================================================================
