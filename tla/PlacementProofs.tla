-------------------------- MODULE PlacementProofs --------------------------
(***************************************************************************)
(* Placement for every set of requests, contexts, hosts and admins and all *)
(* limits: its variables have their types, and it implements Admission.    *)
(* What a request or an admin relies on about contexts follows from that.  *)
(***************************************************************************)
EXTENDS Placement, TLAPS

\* The slots below a limit are slots.
LEMMA Slots ==
  /\ \A l \in Limits : 0 .. l - 1 \subseteq Promise!QuotaSlot
  /\ \A k \in Creates : 0 .. k - 1 \subseteq Promise!CreateSlot
  /\ 0 \in Promise!QuotaSlot
<1>1. PICK l \in Limits : TRUE
  BY PlacementAssumption
<1>2. 0 \in 0 .. l - 1
  BY <1>1, PlacementAssumption
<1> QED
  BY <1>1, <1>2 DEF Promise!QuotaSlot, Promise!CreateSlot

\* NoChoice is no candidate with a slot.
LEMMA Choices ==
  ASSUME NEW x \in Choice, x # NoChoice
  PROVE  /\ x.at \in Candidate /\ x.slot \in Promise!CreateSlot
         /\ x.at[1] \in Context /\ x.at[2] \in Host
  BY DEF Choice, Candidate

\* A request that rests or is over has a state of the right type.
LEMMA RestingType ==
  ASSUME NEW l \in Limits \cup {0}, NEW k \in Creates \cup {0}
  PROVE  /\ Resting \in RequestState
         /\ [Resting EXCEPT !.pc = "over", !.limit = l, !.most = k] \in RequestState
         /\ [Resting EXCEPT !.pc = "over"] \in RequestState
<1>1. NoChoice \in Choice
  BY DEF Choice
<1>2. 0 \in 0 .. Attempts /\ 0 \in 0 .. BusyRetries
  BY PlacementAssumption
<1>3. 0 \in Promise!QuotaSlot
  BY Slots
<1>4. {} \in SUBSET Candidate
  OBVIOUS
<1> HIDE DEF NoChoice
<1> QED
  BY <1>1, <1>2, <1>3, <1>4 DEF Resting, RequestState, RequestPC

\* Writing one entry of req with a state of the right type keeps its type.
LEMMA ReqType ==
  ASSUME TypeOK, NEW r \in Request, NEW s \in RequestState,
         s.pc \notin {"last", "over"} => s.tries < Attempts,
         req' = [req EXCEPT ![r] = s]
  PROVE  /\ req' \in [Request -> RequestState]
         /\ \A x \in Request : req'[x].pc \notin {"last", "over"} => req'[x].tries < Attempts
  BY DEF TypeOK

\* The answer and the end of a request.
LEMMA EndsType ==
  ASSUME TypeOK, NEW r \in Request, NEW a \in Promise!Answer, Ends(r, a)
  PROVE  /\ req' \in [Request -> RequestState]
         /\ \A x \in Request : req'[x].pc \notin {"last", "over"} => req'[x].tries < Attempts
         /\ answer' \in [Request -> Promise!Answer]
<1>1. [Resting EXCEPT !.pc = "over"] \in RequestState
  BY RestingType, PlacementAssumption
<1>2. [Resting EXCEPT !.pc = "over"].pc = "over"
  BY DEF Resting
<1>3. req' = [req EXCEPT ![r] = [Resting EXCEPT !.pc = "over"]]
  BY DEF Ends
<1>4. answer' \in [Request -> Promise!Answer]
  BY DEF Ends, TypeOK
<1> QED
  BY <1>1, <1>2, <1>3, <1>4, ReqType

\* The next attempt.
LEMMA NextAttemptType ==
  ASSUME TypeOK, NEW r \in Request, NEW b \in 0 .. BusyRetries, NextAttempt(r, b),
         req[r].pc \in {"owner", "quota", "contexts", "slots", "commit"}
  PROVE  /\ req' \in [Request -> RequestState]
         /\ \A x \in Request : req'[x].pc \notin {"last", "over"} => req'[x].tries < Attempts
<1> DEFINE n == req[r].tries + 1
           s == [req[r] EXCEPT !.pc = IF n = Attempts THEN "last" ELSE "owner",
                               !.quota = 0, !.left = {}, !.choice = NoChoice,
                               !.tries = n, !.busy = b]
<1>1. req[r] \in RequestState /\ req[r].tries < Attempts
  BY DEF TypeOK
<1>2. n \in 0 .. Attempts /\ (n = Attempts \/ n < Attempts)
  BY <1>1, PlacementAssumption DEF RequestState
<1>3. 0 \in Promise!QuotaSlot /\ {} \in SUBSET Candidate /\ NoChoice \in Choice
  BY Slots DEF Choice
<1>4. s \in RequestState
  <2> HIDE DEF n, NoChoice
  <2> QED BY <1>1, <1>2, <1>3 DEF RequestState, RequestPC
<1>5. s.pc \notin {"last", "over"} => s.tries < Attempts
  BY <1>1, <1>2 DEF RequestState
<1>6. req' = [req EXCEPT ![r] = s]
  BY DEF NextAttempt
<1> QED
  BY <1>4, <1>5, <1>6, ReqType

\* A rank in the loop and the choice of a slot keep a request's type.
LEMMA ChoiceType ==
  ASSUME NEW p \in Candidate, NEW s \in Promise!CreateSlot
  PROVE  [at |-> p, slot |-> s] \in Choice
  BY DEF Choice

\* Every step of a create request keeps the types.
LEMMA RequestTypes ==
  ASSUME TypeOK, Serving, NEW r \in Request, Reserves(r)
  PROVE  TypeOK'
<1> DEFINE ReqOK == /\ req' \in [Request -> RequestState]
                    /\ \A x \in Request :
                         req'[x].pc \notin {"last", "over"} => req'[x].tries < Attempts
<1>1. req[r] \in RequestState /\ (req[r].pc \notin {"last", "over"} => req[r].tries < Attempts)
  BY DEF TypeOK
<1>2. {"existing", "quota", "unavailable", "busy", "error", "created"} \subseteq Promise!Answer
  BY DEF Promise!Answer
<1>3. CASE Start(r)
  <2>1. PICK l \in Limits, k \in Creates :
          req' = [req EXCEPT ![r].pc = IF Eligible[r] = {} THEN "over" ELSE "owner",
                             ![r].limit = l, ![r].most = k]
    BY <1>3 DEF Start
  <2> DEFINE s == [req[r] EXCEPT !.pc = IF Eligible[r] = {} THEN "over" ELSE "owner",
                                 !.limit = l, !.most = k]
  <2>2. s \in RequestState /\ s.tries = req[r].tries /\ req[r].tries < Attempts
    BY <1>1, <1>3 DEF RequestState, RequestPC, Start
  <2>3. ReqOK
    <3>1. req \in [Request -> RequestState]
      BY DEF TypeOK
    <3>2. req' = [req EXCEPT ![r] = s]
      BY <2>1, <3>1
    <3> QED
      BY <2>2, <3>2, ReqType
  <2>4. answer' \in [Request -> Promise!Answer]
    BY <1>2, <1>3 DEF Start, TypeOK
  <2> QED
    BY <1>3, <2>3, <2>4 DEF Start, TypeOK
<1>4. CASE FindExisting(r)
  <2>1. CASE Promise!Twins(r) # {}
    BY <1>2, <1>4, <2>1, EndsType DEF FindExisting, TypeOK
  <2>2. CASE Promise!Twins(r) = {}
    <3>1. req' = [req EXCEPT ![r] = [req[r] EXCEPT !.pc = "quota"]]
      BY <1>4, <2>2 DEF FindExisting, Move
    <3>2. [req[r] EXCEPT !.pc = "quota"] \in RequestState /\ req[r].tries < Attempts
      BY <1>1, <1>4 DEF RequestState, RequestPC, FindExisting
    <3>3. ReqOK
      BY <1>1, <3>1, <3>2, ReqType DEF RequestState
    <3> QED
      BY <1>4, <2>2, <3>3 DEF FindExisting, TypeOK
  <2> QED
    BY <2>1, <2>2
<1>5. CASE PickQuotaSlot(r)
  <2> DEFINE free == 0 .. req[r].limit - 1 \ Promise!QuotaTaken(OwnerOf[r])
  <2>1. CASE Ends(r, "quota")
    BY <1>2, <1>5, <2>1, EndsType DEF PickQuotaSlot, TypeOK
  <2>2. CASE ~Ends(r, "quota")
    <3>1. PICK q \in free : req' = [req EXCEPT ![r].pc = "contexts", ![r].quota = q]
      BY <1>5, <2>2 DEF PickQuotaSlot
    <3>2. q \in Promise!QuotaSlot
      <4>1. req[r].limit \in Limits \/ req[r].limit = 0
        BY <1>1 DEF RequestState
      <4>2. CASE req[r].limit = 0
        BY <3>1, <4>2
      <4>3. CASE req[r].limit \in Limits
        BY <3>1, <4>3, Slots
      <4> QED
        BY <4>1, <4>2, <4>3
    <3> DEFINE s == [req[r] EXCEPT !.pc = "contexts", !.quota = q]
    <3>3. s \in RequestState /\ s.tries < Attempts
      BY <1>1, <1>5, <3>2 DEF RequestState, RequestPC, PickQuotaSlot
    <3>4. req' = [req EXCEPT ![r] = s]
      BY <3>1 DEF TypeOK
    <3>5. ReqOK
      BY <3>3, <3>4, ReqType
    <3> QED
      BY <1>5, <2>2, <3>5 DEF PickQuotaSlot, TypeOK
  <2> QED
    BY <2>1, <2>2
<1>6. CASE RankContexts(r)
  <2> DEFINE open == {c \in Eligible[r] : Promise!Open(c)}
             left == {<<c, ctx[c].host>> : c \in open}
             s == [req[r] EXCEPT !.pc = "slots", !.left = left]
  <2>1. CASE open = {}
    BY <1>2, <1>6, <2>1, EndsType DEF RankContexts, TypeOK
  <2>2. CASE open # {}
    <3>1. left \subseteq Candidate
      BY PlacementAssumption DEF Candidate, TypeOK, Promise!ContextRow
    <3>2. s \in RequestState /\ s.tries < Attempts
      <4> HIDE DEF left
      <4> QED BY <1>1, <1>6, <3>1 DEF RequestState, RequestPC, RankContexts
    <3>3. req' = [req EXCEPT ![r] = s]
      BY <1>6, <2>2 DEF RankContexts, TypeOK
    <3>4. ReqOK
      <4> HIDE DEF s
      <4> QED BY <3>2, <3>3, ReqType
    <3> QED
      BY <1>6, <2>2, <3>4 DEF RankContexts, TypeOK
  <2> QED
    BY <2>1, <2>2
<1>7. CASE PickCreateSlot(r)
  <2>1. CASE Ends(r, "busy")
    BY <1>2, <1>7, <2>1, EndsType DEF PickCreateSlot, TypeOK
  <2>2. CASE ~Ends(r, "busy")
    <3>1. PICK p \in req[r].left :
            \/ \E s \in 0 .. req[r].most - 1 :
                 req' = [req EXCEPT ![r].pc = "commit", ![r].left = {},
                                    ![r].choice = [at |-> p, slot |-> s]]
            \/ req' = [req EXCEPT ![r].left = @ \ {p}]
      BY <1>7, <2>2 DEF PickCreateSlot
    <3>2. p \in Candidate
      BY <1>1 DEF RequestState
    <3>3. CASE req' = [req EXCEPT ![r].left = @ \ {p}]
      <4> DEFINE s == [req[r] EXCEPT !.left = @ \ {p}]
      <4>1. s \in RequestState /\ s.tries < Attempts
        BY <1>1, <1>7 DEF RequestState, PickCreateSlot
      <4>2. req' = [req EXCEPT ![r] = s]
        BY <3>3
      <4>3. ReqOK
        BY <4>1, <4>2, ReqType
      <4> QED
        BY <1>7, <2>2, <4>3 DEF PickCreateSlot, TypeOK
    <3>4. ASSUME NEW f \in 0 .. req[r].most - 1,
                 req' = [req EXCEPT ![r].pc = "commit", ![r].left = {},
                                    ![r].choice = [at |-> p, slot |-> f]]
          PROVE  TypeOK'
      <4> DEFINE s == [req[r] EXCEPT !.pc = "commit", !.left = {}, !.choice = [at |-> p, slot |-> f]]
      <4>1. f \in Promise!CreateSlot
        <5>1. req[r].most \in Creates \/ req[r].most = 0
          BY <1>1 DEF RequestState
        <5>2. CASE req[r].most = 0
          BY <3>4, <5>2
        <5>3. CASE req[r].most \in Creates
          BY <3>4, <5>3, Slots
        <5> QED
          BY <5>1, <5>2, <5>3
      <4>2. [at |-> p, slot |-> f] \in Choice
        BY <3>2, <4>1, ChoiceType
      <4>3. s \in RequestState /\ s.tries < Attempts
        BY <1>1, <1>7, <4>2 DEF RequestState, RequestPC, PickCreateSlot
      <4>4. req' = [req EXCEPT ![r] = s]
        BY <3>4 DEF TypeOK
      <4>5. ReqOK
        BY <4>3, <4>4, ReqType
      <4> QED
        BY <1>7, <2>2, <4>5 DEF PickCreateSlot, TypeOK
    <3> QED
      BY <3>1, <3>3, <3>4
  <2> QED
    BY <2>1, <2>2
<1>8. CASE Commit(r)
  <2> DEFINE c == req[r].choice.at[1]
             i == [ctx |-> c, quota |-> req[r].quota, slot |-> req[r].choice.slot]
             s == [Resting EXCEPT !.pc = "over", !.limit = req[r].limit, !.most = req[r].most]
  <2>1. req[r].choice \in Choice /\ req[r].choice # NoChoice
    BY <1>1, <1>8 DEF Serving, Commit, RequestState
  <2>2. c \in Context /\ req[r].choice.slot \in Promise!CreateSlot
    BY <2>1, Choices
  <2>3. i \in Promise!InstanceRow
    <3> HIDE DEF c
    <3> QED BY <1>1, <2>2 DEF Promise!InstanceRow, RequestState
  <2>4. s \in RequestState /\ s.pc = "over"
    BY <1>1, RestingType DEF RequestState, Resting
  <2>5. req' = [req EXCEPT ![r] = s]
    BY <1>8 DEF Commit
  <2>6. ReqOK
    <3> HIDE DEF s
    <3> QED BY <2>4, <2>5, ReqType
  <2>7. inst' \in [Request -> Promise!InstanceRow \cup {NoRow}]
    <3>1. inst' = [inst EXCEPT ![r] = i]
      BY <1>8 DEF Commit
    <3> HIDE DEF i
    <3> QED BY <2>3, <3>1 DEF TypeOK
  <2>8. version' \in [Context -> Nat]
    BY <1>8, <2>2 DEF Commit, TypeOK
  <2>9. answer' \in [Request -> Promise!Answer]
    BY <1>2, <1>8 DEF Commit, TypeOK
  <2> QED
    BY <1>8, <2>6, <2>7, <2>8, <2>9 DEF Commit, TypeOK
<1>9. CASE CommitConflict(r)
  <2>1. req[r].busy \in 0 .. BusyRetries
    BY <1>1 DEF RequestState
  <2>2. ReqOK
    BY <1>9, <2>1, NextAttemptType DEF CommitConflict
  <2> QED
    BY <1>9, <2>2 DEF CommitConflict, NextAttempt, TypeOK
<1>10. CASE DatabaseFails(r)
  <2>1. CASE Ends(r, "error")
    BY <1>2, <1>10, <2>1, EndsType DEF DatabaseFails, TypeOK
  <2>2. CASE req[r].busy < BusyRetries /\ NextAttempt(r, req[r].busy + 1)
    <3>1. req[r].busy + 1 \in 0 .. BusyRetries
      BY <1>1, <2>2, PlacementAssumption DEF RequestState
    <3>2. ReqOK
      BY <1>10, <2>2, <3>1, NextAttemptType DEF DatabaseFails
    <3> QED
      BY <1>10, <2>2, <3>2 DEF DatabaseFails, NextAttempt, TypeOK
  <2> QED
    BY <1>10, <2>1, <2>2 DEF DatabaseFails
<1>11. CASE LastLook(r)
  BY <1>2, <1>11, EndsType DEF LastLook, TypeOK
<1> QED
  BY <1>3, <1>4, <1>5, <1>6, <1>7, <1>8, <1>9, <1>10, <1>11 DEF Reserves

\* Writing one entry of ctx with a row of the right type keeps its type.
LEMMA CtxType ==
  ASSUME TypeOK, NEW c \in Context, NEW n \in Promise!ContextRow, ctx' = [ctx EXCEPT ![c] = n]
  PROVE  ctx' \in [Context -> Promise!ContextRow]
  BY DEF TypeOK

\* Rows of contexts with other fields.
LEMMA RowTypes ==
  ASSUME NEW n \in Promise!ContextRow, NEW h \in Host,
         NEW st \in Settable \cup {"retired_orphaned", "deleted"}, NEW he \in {"healthy", "unhealthy"}
  PROVE  /\ [n EXCEPT !.health = he] \in Promise!ContextRow
         /\ [n EXCEPT !.state = st] \in Promise!ContextRow
         /\ [n EXCEPT !.state = st, !.host = h] \in Promise!ContextRow
         /\ [n EXCEPT !.state = st, !.health = he] \in Promise!ContextRow
         /\ [state |-> st, health |-> he, host |-> h] \in Promise!ContextRow
  BY DEF Promise!ContextRow, Settable

\* What a probe or a new context writes: a row of the right type.
LEMMA ContextWrites ==
  ASSUME TypeOK, NEW c \in Context, Probe(c) \/ AddContext(c)
  PROVE  ctx' \in [Context -> Promise!ContextRow]
<1>1. ctx[c] \in Promise!ContextRow
  BY DEF TypeOK
<1>2. CASE Probe(c)
  <2>1. PICK he \in {"healthy", "unhealthy"} : ctx' = [ctx EXCEPT ![c].health = he]
    BY <1>2 DEF Probe
  <2>2. PICK h \in Host : TRUE
    BY <1>1 DEF Promise!ContextRow
  <2>3. [ctx[c] EXCEPT !.health = he] \in Promise!ContextRow
    BY <1>1, RowTypes DEF Promise!ContextRow, Settable
  <2> QED
    BY <2>1, <2>3, CtxType
<1>3. CASE AddContext(c)
  <2>1. PICK st \in Settable, h \in Host :
          ctx' = [ctx EXCEPT ![c] = [state |-> st, health |-> "unhealthy", host |-> h]]
    BY <1>3 DEF AddContext
  <2>2. [state |-> st, health |-> "unhealthy", host |-> h] \in Promise!ContextRow
    BY <1>1, RowTypes
  <2> QED
    BY <2>1, <2>2, CtxType
<1> QED
  BY <1>2, <1>3

\* What an admin request writes: a row of the right type.
LEMMA AdminCommits ==
  ASSUME TypeOK, NEW a \in Admin, UpdateCommit(a) \/ DeleteCommit(a)
  PROVE  ctx' \in [Context -> Promise!ContextRow]
<1>1. CASE UpdateCommit(a)
  <2> DEFINE k == admin[a].ctx
             new == admin[a].new
             n == [ctx[k] EXCEPT !.state = Set(new.state, ctx[k].state),
                                 !.host = Set(new.host, ctx[k].host)]
  <2>1. admin[a] \in UpdateState
    BY <1>1 DEF TypeOK, UpdateCommit, DeleteState, Quiet
  <2>2. k \in Context /\ new \in Updates /\ ctx[k] \in Promise!ContextRow
    BY <2>1 DEF UpdateState, TypeOK
  <2>3. CASE UNCHANGED ctx
    BY <2>3 DEF TypeOK
  <2>4. CASE ctx' # ctx
    <3>1. StillValid(a) /\ ctx' = [ctx EXCEPT ![k].state = Set(new.state, @), ![k].host = Set(new.host, @)]
      BY <1>1, <2>4 DEF UpdateCommit
    <3>2. Set(new.state, ctx[k].state) \in Settable \cup {"retired_orphaned"}
      BY <2>2, <3>1 DEF StillValid, Promise!Listed, Set, Updates, Promise!ContextRow, Settable
    <3>3. Set(new.host, ctx[k].host) \in Host
      BY <2>2 DEF Set, Updates, Promise!ContextRow
    <3>4. n \in Promise!ContextRow
      <4> HIDE DEF new, k
      <4> QED BY <2>2, <3>2, <3>3, RowTypes
    <3>5. ctx' = [ctx EXCEPT ![k] = n]
      <4>1. ctx \in [Context -> Promise!ContextRow]
        BY DEF TypeOK
      <4> HIDE DEF new, k
      <4> QED BY <2>2, <3>1, <4>1
    <3> HIDE DEF n, k
    <3> QED
      BY <2>2, <3>4, <3>5, CtxType
  <2> QED
    BY <2>3, <2>4
<1>2. CASE DeleteCommit(a)
  <2> DEFINE k == admin[a].ctx
  <2>1. k \in Context /\ ctx[k] \in Promise!ContextRow
    BY <1>2 DEF TypeOK, DeleteCommit, UpdateState, DeleteState, Quiet
  <2>2. PICK h \in Host : TRUE
    BY <2>1 DEF Promise!ContextRow
  <2>3. CASE UNCHANGED ctx
    BY <2>3 DEF TypeOK
  <2>4. CASE ctx' = [ctx EXCEPT ![k].state = "deleted", ![k].health = "unhealthy"]
    <3> DEFINE n == [ctx[k] EXCEPT !.state = "deleted", !.health = "unhealthy"]
    <3>1. n \in Promise!ContextRow
      BY <2>1, <2>2, RowTypes
    <3>2. ctx' = [ctx EXCEPT ![k] = n]
      BY <2>1, <2>4 DEF TypeOK
    <3> HIDE DEF n, k
    <3> QED
      BY <2>1, <3>1, <3>2, CtxType
  <2>5. CASE ctx' = [ctx EXCEPT ![k].state = "retired_orphaned"]
    <3> DEFINE n == [ctx[k] EXCEPT !.state = "retired_orphaned"]
    <3>1. n \in Promise!ContextRow
      BY <2>1, <2>2, RowTypes
    <3>2. ctx' = [ctx EXCEPT ![k] = n]
      BY <2>1, <2>5 DEF TypeOK
    <3> HIDE DEF n, k
    <3> QED
      BY <2>1, <3>1, <3>2, CtxType
  <2> QED
    BY <1>2, <2>3, <2>4, <2>5 DEF DeleteCommit
<1> QED
  BY <1>1, <1>2

\* What an admin request notes down has the right type.
LEMMA AdminWrites ==
  ASSUME TypeOK, NEW a \in Admin, Administers(a)
  PROVE  admin' \in [Admin -> UpdateState \cup DeleteState \cup {Quiet}]
<1>1. ASSUME NEW c \in Context, UpdateRead(a, c)
      PROVE  admin' \in [Admin -> UpdateState \cup DeleteState \cup {Quiet}]
  <2>1. PICK new \in Updates :
          LET moves == EndpointChanges(ctx[c], new)
          IN admin' = [admin EXCEPT ![a] =
                         [pc |-> IF moves THEN "probe" ELSE "update", ctx |-> c,
                          was |-> [state |-> ctx[c].state, host |-> ctx[c].host],
                          version |-> IF moves THEN version[c] ELSE 0, new |-> new]]
    BY <1>1 DEF UpdateRead
  <2>2. ctx[c].state \in Settable \cup {"retired_orphaned"} /\ ctx[c].host \in Host
    BY <1>1 DEF UpdateRead, Promise!Listed, TypeOK, Promise!ContextRow, Settable
  <2>3. version[c] \in Nat
    BY DEF TypeOK
  <2> DEFINE moves == EndpointChanges(ctx[c], new)
             s == [pc |-> IF moves THEN "probe" ELSE "update", ctx |-> c,
                   was |-> [state |-> ctx[c].state, host |-> ctx[c].host],
                   version |-> IF moves THEN version[c] ELSE 0, new |-> new]
  <2>4. s \in UpdateState
    <3> HIDE DEF moves
    <3> QED BY <2>2, <2>3 DEF UpdateState
  <2>5. admin' = [admin EXCEPT ![a] = s]
    BY <2>1
  <2> HIDE DEF s
  <2> QED
    BY <2>4, <2>5 DEF TypeOK
<1>2. CASE EndpointCheck(a)
  <2>1. admin[a] \in UpdateState
    BY <1>2 DEF TypeOK, EndpointCheck, DeleteState, Quiet
  <2>2. [admin[a] EXCEPT !.pc = "update"] \in UpdateState
    BY <2>1 DEF UpdateState
  <2> QED
    BY <1>2, <2>2 DEF EndpointCheck, TypeOK
<1>3. CASE UpdateCommit(a) \/ DeleteCommit(a)
  BY <1>3 DEF UpdateCommit, DeleteCommit, TypeOK
<1>4. ASSUME NEW c \in Context, DeleteRead(a, c)
      PROVE  admin' \in [Admin -> UpdateState \cup DeleteState \cup {Quiet}]
  BY <1>4 DEF DeleteRead, DeleteState, TypeOK
<1> QED
  BY <1>1, <1>2, <1>3, <1>4 DEF Administers

\* Every step keeps the types.
LEMMA TypeStep == TypeOK /\ Serving /\ [Next]_vars => TypeOK'
<1> SUFFICES ASSUME TypeOK, Serving, [Next]_vars
             PROVE  TypeOK'
  OBVIOUS
<1>1. ASSUME NEW r \in Request, Reserves(r)
      PROVE  TypeOK'
  BY <1>1, RequestTypes
<1>2. ASSUME NEW r \in Request, MarkRunning(r)
      PROVE  TypeOK'
  <2>1. inst[r] \in Promise!InstanceRow
    BY <1>2 DEF MarkRunning, TypeOK
  <2>2. [inst[r] EXCEPT !.slot = NoSlot] \in Promise!InstanceRow
    BY <2>1 DEF Promise!InstanceRow
  <2> QED
    BY <1>2, <2>2 DEF MarkRunning, TypeOK
<1>3. ASSUME NEW r \in Request, DeleteRow(r)
      PROVE  TypeOK'
  BY <1>3 DEF DeleteRow, TypeOK
<1>4. ASSUME NEW c \in Context, Probe(c) \/ AddContext(c)
      PROVE  TypeOK'
  BY <1>4, ContextWrites DEF Probe, AddContext, TypeOK
<1>5. ASSUME NEW a \in Admin, Administers(a)
      PROVE  TypeOK'
  <2>1. ctx' \in [Context -> Promise!ContextRow]
    BY <1>5, AdminCommits DEF Administers, UpdateRead, EndpointCheck, DeleteRead, TypeOK
  <2>2. admin' \in [Admin -> UpdateState \cup DeleteState \cup {Quiet}]
    BY <1>5, AdminWrites
  <2>3. UNCHANGED <<version, inst, answer, req>>
    BY <1>5 DEF Administers, UpdateRead, EndpointCheck, UpdateCommit, DeleteRead, DeleteCommit
  <2> QED
    BY <2>1, <2>2, <2>3 DEF TypeOK
<1>6. CASE UNCHANGED vars
  BY <1>6 DEF vars, TypeOK
<1> QED
  BY <1>1, <1>2, <1>3, <1>4, <1>5, <1>6 DEF Next

\* The initial states have the types.
LEMMA TypeInit == Init => TypeOK
<1> SUFFICES ASSUME Init
             PROVE  TypeOK
  OBVIOUS
<1>1. ctx \in [Context -> Promise!ContextRow]
  BY DEF Init, Blank, Promise!ContextRow
<1>2. req \in [Request -> RequestState]
  BY RestingType, PlacementAssumption DEF Init
<1>3. \A r \in Request : req[r].tries < Attempts
  BY PlacementAssumption DEF Init, Resting
<1>4. answer \in [Request -> Promise!Answer]
  BY DEF Init, Promise!Answer
<1> QED
  BY <1>1, <1>2, <1>3, <1>4 DEF Init, TypeOK

\* A request that ends is over, and has no candidates left.
LEMMA EndsOver ==
  ASSUME TypeOK, NEW r \in Request, NEW a, Ends(r, a)
  PROVE  /\ req'[r].pc = "over" /\ req'[r].left = {}
         /\ \A x \in Request \ {r} : req'[x] = req[x] /\ answer'[x] = answer[x]
<1>1. req' = [req EXCEPT ![r] = [Resting EXCEPT !.pc = "over"]]
  BY DEF Ends
<1>2. [Resting EXCEPT !.pc = "over"].pc = "over" /\ [Resting EXCEPT !.pc = "over"].left = {}
  BY DEF Resting
<1> QED
  BY <1>1, <1>2 DEF TypeOK, Ends

\* A request that tries again keeps its limits, and has no candidates.
LEMMA NextAttemptServes ==
  ASSUME TypeOK, NEW r \in Request, NEW b, NextAttempt(r, b)
  PROVE  /\ req'[r].pc \in {"last", "owner"} /\ req'[r].left = {}
         /\ req'[r].limit = req[r].limit /\ req'[r].most = req[r].most
         /\ \A x \in Request \ {r} : req'[x] = req[x] /\ answer'[x] = answer[x]
         /\ answer'[r] = answer[r]
<1>1. req[r] \in RequestState
  BY DEF TypeOK
<1> QED
  BY <1>1 DEF NextAttempt, TypeOK, RequestState

\* Every step of a create request keeps what is true of all of them.
LEMMA RequestServes ==
  ASSUME TypeOK, Serving, NEW r \in Request, Reserves(r)
  PROVE  Serving'
<1>1. ASSUME \A x \in Request \ {r} : /\ req'[x] = req[x] /\ answer'[x] = answer[x]
                                      /\ inst'[x] = inst[x],
             req'[r].pc # "over" => answer'[r] = "none" /\ inst'[r] = NoRow,
             req'[r].pc \notin {"idle", "over"} => req'[r].limit \in Limits /\ req'[r].most \in Creates,
             req'[r].left \subseteq Eligible[r] \X Host,
             req'[r].pc = "commit" => req'[r].choice # NoChoice /\ req'[r].choice.at[1] \in Eligible[r]
      PROVE  Serving'
  BY <1>1 DEF Serving
<1>2. req[r] \in RequestState /\ req \in [Request -> RequestState]
  BY DEF TypeOK
<1>3. /\ req[r].pc # "over" => answer[r] = "none" /\ inst[r] = NoRow
      /\ req[r].pc \notin {"idle", "over"} => req[r].limit \in Limits /\ req[r].most \in Creates
      /\ req[r].left \subseteq Eligible[r] \X Host
  BY DEF Serving
<1>4. ASSUME NEW a, Ends(r, a), UNCHANGED inst
      PROVE  Serving'
  BY <1>4, EndsOver DEF Serving
<1>5. ASSUME NEW b, NextAttempt(r, b), UNCHANGED inst,
             req[r].pc \in {"owner", "quota", "contexts", "slots", "commit"}
      PROVE  Serving'
  BY <1>5, NextAttemptServes DEF Serving
<1>6. CASE Start(r)
  <2>1. PICK l \in Limits, k \in Creates :
          req' = [req EXCEPT ![r].pc = IF Eligible[r] = {} THEN "over" ELSE "owner",
                             ![r].limit = l, ![r].most = k]
    BY <1>6 DEF Start
  <2>2. /\ req'[r].limit = l /\ req'[r].most = k /\ req'[r].left = req[r].left
        /\ req'[r].pc = IF Eligible[r] = {} THEN "over" ELSE "owner"
        /\ \A x \in Request \ {r} : req'[x] = req[x]
    BY <1>2, <2>1 DEF RequestState
  <2>3. UNCHANGED inst /\ answer[r] = "none" /\ inst[r] = NoRow
    BY <1>3, <1>6 DEF Start
  <2>4. /\ Eligible[r] # {} => answer' = answer
        /\ \A x \in Request \ {r} : answer'[x] = answer[x]
    BY <1>6 DEF Start, TypeOK
  <2> QED
    BY <1>1, <1>3, <2>2, <2>3, <2>4
<1>7. CASE FindExisting(r) /\ Promise!Twins(r) = {}
  <2>1. req' = [req EXCEPT ![r].pc = "quota"] /\ UNCHANGED <<inst, answer>> /\ req[r].pc = "owner"
    BY <1>7 DEF FindExisting, Move
  <2> QED
    BY <1>1, <1>2, <1>3, <2>1 DEF RequestState
<1>8. CASE PickQuotaSlot(r) /\ ~Ends(r, "quota")
  <2>1. PICK q : req' = [req EXCEPT ![r].pc = "contexts", ![r].quota = q]
    BY <1>8 DEF PickQuotaSlot
  <2>2. UNCHANGED <<inst, answer>> /\ req[r].pc = "quota"
    BY <1>8 DEF PickQuotaSlot
  <2> QED
    BY <1>1, <1>2, <1>3, <2>1, <2>2 DEF RequestState
<1>9. CASE RankContexts(r) /\ {c \in Eligible[r] : Promise!Open(c)} # {}
  <2> DEFINE left == {<<c, ctx[c].host>> : c \in {c \in Eligible[r] : Promise!Open(c)}}
  <2>1. req' = [req EXCEPT ![r].pc = "slots", ![r].left = left]
    BY <1>9 DEF RankContexts
  <2>2. UNCHANGED <<inst, answer>> /\ req[r].pc = "contexts"
    BY <1>9 DEF RankContexts
  <2>3. left \subseteq Eligible[r] \X Host
    BY PlacementAssumption DEF TypeOK, Promise!ContextRow
  <2> HIDE DEF left
  <2> QED
    BY <1>1, <1>2, <1>3, <2>1, <2>2, <2>3 DEF RequestState
<1>10. CASE PickCreateSlot(r) /\ ~Ends(r, "busy")
  <2>1. PICK p \in req[r].left :
          \/ \E s \in 0 .. req[r].most - 1 :
               req' = [req EXCEPT ![r].pc = "commit", ![r].left = {},
                                  ![r].choice = [at |-> p, slot |-> s]]
          \/ req' = [req EXCEPT ![r].left = @ \ {p}]
    BY <1>10 DEF PickCreateSlot
  <2>2. UNCHANGED <<inst, answer>> /\ req[r].pc = "slots"
    BY <1>10 DEF PickCreateSlot
  <2>3. CASE req' = [req EXCEPT ![r].left = @ \ {p}]
    BY <1>1, <1>2, <1>3, <2>2, <2>3 DEF RequestState
  <2>4. ASSUME NEW s \in 0 .. req[r].most - 1,
               req' = [req EXCEPT ![r].pc = "commit", ![r].left = {},
                                  ![r].choice = [at |-> p, slot |-> s]]
        PROVE  Serving'
    <3> DEFINE choice == [at |-> p, slot |-> s]
    <3>1. choice.slot # NoChoice.slot
      <4>1. req[r].most \in Nat
        BY <1>3, <2>2, PlacementAssumption
      <4>2. s \in Nat
        BY <4>1, <2>4
      <4> QED
        BY <4>2, PlacementAssumption DEF NoChoice
    <3>2. choice.at[1] \in Eligible[r]
      BY <1>3
    <3>3. req' = [req EXCEPT ![r] = [req[r] EXCEPT !.pc = "commit", !.left = {}, !.choice = choice]]
      BY <1>2, <2>4 DEF RequestState
    <3>4. /\ req'[r].choice = choice /\ req'[r].left = {} /\ req'[r].limit = req[r].limit
          /\ req'[r].most = req[r].most /\ req'[r].pc = "commit"
      <4> HIDE DEF choice
      <4> QED BY <1>2, <3>3 DEF RequestState
    <3>5. \A x \in Request \ {r} : req'[x] = req[x]
      BY <1>2, <3>3
    <3>6. choice # NoChoice
      BY <3>1
    <3> HIDE DEF choice
    <3> QED
      BY <1>1, <1>3, <2>2, <3>2, <3>4, <3>5, <3>6
  <2> QED
    BY <2>1, <2>3, <2>4
<1>11. CASE Commit(r)
  <2> DEFINE s == [Resting EXCEPT !.pc = "over", !.limit = req[r].limit, !.most = req[r].most]
  <2>1. s.pc = "over" /\ s.left = {}
    BY DEF Resting
  <2>2. req' = [req EXCEPT ![r] = s]
    BY <1>11 DEF Commit
  <2>3. \A x \in Request \ {r} : answer'[x] = answer[x] /\ inst'[x] = inst[x]
    BY <1>11 DEF Commit, TypeOK
  <2> HIDE DEF s
  <2> QED
    BY <1>1, <1>2, <2>1, <2>2, <2>3
<1>12. CASE FindExisting(r) /\ Promise!Twins(r) # {}
  BY <1>4, <1>12 DEF FindExisting
<1>13. CASE RankContexts(r) /\ {c \in Eligible[r] : Promise!Open(c)} = {}
  BY <1>4, <1>13 DEF RankContexts
<1>14. CASE PickQuotaSlot(r) /\ Ends(r, "quota")
  BY <1>4, <1>14 DEF PickQuotaSlot
<1>15. CASE PickCreateSlot(r) /\ Ends(r, "busy")
  BY <1>4, <1>15 DEF PickCreateSlot
<1>16. CASE CommitConflict(r)
  BY <1>5, <1>16 DEF CommitConflict
<1>17. CASE DatabaseFails(r)
  BY <1>4, <1>5, <1>17 DEF DatabaseFails
<1>18. CASE LastLook(r)
  BY <1>4, <1>18 DEF LastLook
<1> QED
  BY <1>6, <1>7, <1>8, <1>9, <1>10, <1>11, <1>12, <1>13, <1>14, <1>15, <1>16, <1>17, <1>18
     DEF Reserves

\* Every step keeps what is true of the requests.
LEMMA ServingStep == TypeOK /\ Serving /\ [Next]_vars => Serving'
<1> SUFFICES ASSUME TypeOK, Serving, [Next]_vars
             PROVE  Serving'
  OBVIOUS
<1>1. ASSUME NEW r \in Request, Reserves(r)
      PROVE  Serving'
  BY <1>1, RequestServes
<1>2. ASSUME NEW r \in Request, MarkRunning(r) \/ DeleteRow(r)
      PROVE  Serving'
  BY <1>2 DEF MarkRunning, DeleteRow, Serving, TypeOK
<1>3. ASSUME UNCHANGED <<inst, answer, req>>
      PROVE  Serving'
  BY <1>3 DEF Serving
<1>4. ASSUME NEW c \in Context, Probe(c) \/ AddContext(c)
      PROVE  Serving'
  BY <1>3, <1>4 DEF Probe, AddContext
<1>5. ASSUME NEW a \in Admin, Administers(a)
      PROVE  Serving'
  BY <1>3, <1>5 DEF Administers, UpdateRead, EndpointCheck, UpdateCommit, DeleteRead, DeleteCommit
<1> QED
  BY <1>1, <1>2, <1>3, <1>4, <1>5 DEF Next, vars

\* Every step keeps what is true of the admin requests.
LEMMA ValidatedStep == TypeOK /\ Validated /\ [Next]_vars => Validated'
<1> SUFFICES ASSUME TypeOK, Validated, [Next]_vars
             PROVE  Validated'
  OBVIOUS
<1> DEFINE Parks(s) == EndpointChanges(s.was, s.new) =>
                         {s.was.state, Set(s.new.state, s.was.state)} \subseteq Promise!Parked
<1>1. ASSUME NEW a \in Admin, \A x \in Admin \ {a} : admin'[x] = admin[x],
             admin'[a].pc \in {"probe", "update"} => Parks(admin'[a])
      PROVE  Validated'
  BY <1>1 DEF Validated
<1>2. CASE UNCHANGED admin
  BY <1>2 DEF Validated
<1>3. ASSUME NEW a \in Admin, NEW c \in Context, UpdateRead(a, c)
      PROVE  Validated'
  <2>1. PICK new \in Updates :
          LET moves == EndpointChanges(ctx[c], new)
          IN /\ moves => {ctx[c].state, Set(new.state, ctx[c].state)} \subseteq Promise!Parked
             /\ admin' = [admin EXCEPT ![a] =
                            [pc |-> IF moves THEN "probe" ELSE "update", ctx |-> c,
                             was |-> [state |-> ctx[c].state, host |-> ctx[c].host],
                             version |-> IF moves THEN version[c] ELSE 0, new |-> new]]
    BY <1>3 DEF UpdateRead
  <2>2. /\ admin'[a].was = [state |-> ctx[c].state, host |-> ctx[c].host]
        /\ admin'[a].new = new
        /\ \A x \in Admin \ {a} : admin'[x] = admin[x]
    BY <2>1 DEF TypeOK
  <2>3. EndpointChanges(admin'[a].was, new) <=> EndpointChanges(ctx[c], new)
    BY <2>2 DEF EndpointChanges
  <2> QED
    BY <1>1, <2>1, <2>2, <2>3
<1>4. ASSUME NEW a \in Admin, EndpointCheck(a)
      PROVE  Validated'
  <2>1. admin[a] \in UpdateState
    BY <1>4 DEF TypeOK, EndpointCheck, DeleteState, Quiet
  <2>2. Parks(admin[a])
    BY <1>4 DEF Validated, EndpointCheck
  <2>3. CASE admin' = [admin EXCEPT ![a].pc = "update"]
    <3>1. admin'[a].was = admin[a].was /\ admin'[a].new = admin[a].new
      BY <2>1, <2>3 DEF TypeOK, UpdateState
    <3>2. \A x \in Admin \ {a} : admin'[x] = admin[x]
      BY <2>3 DEF TypeOK
    <3> QED
      BY <1>1, <2>2, <3>1, <3>2
  <2>4. CASE admin' = [admin EXCEPT ![a] = Quiet]
    BY <1>1, <2>4 DEF TypeOK, Quiet
  <2> QED
    BY <1>4, <2>3, <2>4 DEF EndpointCheck
<1>5. ASSUME NEW a \in Admin, UpdateCommit(a) \/ DeleteCommit(a)
      PROVE  Validated'
  <2>1. admin' = [admin EXCEPT ![a] = Quiet]
    BY <1>5 DEF UpdateCommit, DeleteCommit
  <2> QED
    BY <1>1, <2>1 DEF TypeOK, Quiet
<1>6. ASSUME NEW a \in Admin, NEW c \in Context, DeleteRead(a, c)
      PROVE  Validated'
  <2>1. PICK pc \in {"delete", "retire"} : admin' = [admin EXCEPT ![a] = [pc |-> pc, ctx |-> c]]
    BY <1>6 DEF DeleteRead
  <2> QED
    BY <1>1, <2>1 DEF TypeOK
<1>7. ASSUME NEW r \in Request, Reserves(r) \/ MarkRunning(r) \/ DeleteRow(r)
      PROVE  UNCHANGED admin
  BY <1>7 DEF Reserves, Start, FindExisting, PickQuotaSlot, RankContexts, PickCreateSlot, Commit,
              CommitConflict, DatabaseFails, LastLook, MarkRunning, DeleteRow
<1> QED
  BY <1>2, <1>3, <1>4, <1>5, <1>6, <1>7
     DEF Next, Administers, Probe, AddContext, vars

\* How a request ends is a refusal that admission allows.
LEMMA EndsRefuses ==
  ASSUME TypeOK, Serving, NEW r \in Request, req[r].pc # "over", NEW a, Ends(r, a),
         UNCHANGED <<ctx, inst>>,
         \/ a = "existing" /\ Promise!Twins(r) # {}
         \/ a = "quota" /\ \E l \in Limits : 0 .. l - 1 \subseteq Promise!QuotaTaken(OwnerOf[r])
         \/ a = "unavailable" /\ \A c \in Eligible[r] : ~Promise!Open(c)
         \/ a \in {"busy", "error"}
  PROVE  Promise!Refuse(r)
<1>1. Promise!Tell(r, a)
  BY DEF Promise!Tell, Ends, Serving
<1> QED
  BY <1>1 DEF Promise!Refuse

\* Every step of a create request is a grant, a refusal or invisible.
LEMMA RequestAdmits ==
  ASSUME TypeOK, Serving, NEW r \in Request, Reserves(r)
  PROVE  Promise!Grant(r) \/ Promise!Refuse(r) \/ UNCHANGED Promise!abstractVars
<1>1. CASE Start(r)
  <2>1. CASE Eligible[r] = {}
    <3>1. answer[r] = "none" /\ answer' = [answer EXCEPT ![r] = "unavailable"]
      BY <1>1, <2>1 DEF Start, Serving
    <3> QED
      BY <1>1, <2>1, <3>1 DEF Start, Promise!Refuse, Promise!Tell
  <2>2. CASE Eligible[r] # {}
    BY <1>1, <2>2 DEF Start, Promise!abstractVars
  <2> QED
    BY <2>1, <2>2
<1>2. CASE FindExisting(r)
  BY <1>2, EndsRefuses DEF FindExisting, Promise!abstractVars
<1>3. CASE PickQuotaSlot(r)
  <2>1. CASE Ends(r, "quota") /\ 0 .. req[r].limit - 1 \ Promise!QuotaTaken(OwnerOf[r]) = {}
    <3>1. req[r].limit \in Limits /\ req[r].pc # "over"
      BY <1>3 DEF PickQuotaSlot, Serving
    <3>2. 0 .. req[r].limit - 1 \subseteq Promise!QuotaTaken(OwnerOf[r])
      BY <2>1
    <3>3. UNCHANGED <<ctx, inst>>
      BY <1>3 DEF PickQuotaSlot
    <3> QED
      BY <2>1, <3>1, <3>2, <3>3, EndsRefuses
  <2>2. CASE UNCHANGED answer
    BY <1>3, <2>2 DEF PickQuotaSlot, Promise!abstractVars
  <2> QED
    BY <1>3, <2>1, <2>2 DEF PickQuotaSlot
<1>4. CASE RankContexts(r)
  <2>1. CASE {c \in Eligible[r] : Promise!Open(c)} = {}
    <3>1. \A c \in Eligible[r] : ~Promise!Open(c)
      BY <2>1
    <3>2. Ends(r, "unavailable") /\ UNCHANGED <<ctx, inst>> /\ req[r].pc # "over"
      BY <1>4, <2>1 DEF RankContexts
    <3> QED
      BY <3>1, <3>2, EndsRefuses
  <2>2. CASE {c \in Eligible[r] : Promise!Open(c)} # {}
    BY <1>4, <2>2 DEF RankContexts, Promise!abstractVars
  <2> QED
    BY <2>1, <2>2
<1>5. CASE PickCreateSlot(r)
  <2>1. CASE Ends(r, "busy")
    BY <1>5, <2>1, EndsRefuses DEF PickCreateSlot
  <2>2. CASE UNCHANGED answer
    BY <1>5, <2>2 DEF PickCreateSlot, Promise!abstractVars
  <2> QED
    BY <1>5, <2>1, <2>2 DEF PickCreateSlot
<1>6. CASE Commit(r)
  <2> DEFINE c == req[r].choice.at[1]
             q == req[r].quota
             s == req[r].choice.slot
  <2>1. answer[r] = "none" /\ c \in Eligible[r] /\ req[r].choice # NoChoice
    BY <1>6 DEF Commit, Serving
  <2>2. q \in Promise!QuotaSlot /\ s \in Promise!CreateSlot
    BY <2>1, Choices DEF TypeOK, RequestState
  <2>3. Promise!Open(c) /\ q \notin Promise!QuotaTaken(OwnerOf[r]) /\ s \notin Promise!SlotsTaken(c)
    BY <1>6 DEF Commit, Bumps, Unique
  <2>4. inst' = [inst EXCEPT ![r] = [ctx |-> c, quota |-> q, slot |-> s]] /\ UNCHANGED ctx
    BY <1>6 DEF Commit
  <2>5. \E a \in {"created", "error"} : Promise!Tell(r, a)
    BY <1>6, <2>1 DEF Commit, Promise!Tell
  <2>6. Promise!Twins(r) = {}
    BY <1>6 DEF Commit, Unique
  <2> HIDE DEF c, q, s
  <2> QED
    BY <2>1, <2>2, <2>3, <2>4, <2>5, <2>6 DEF Promise!Grant
<1>7. CASE CommitConflict(r)
  BY <1>7 DEF CommitConflict, NextAttempt, Promise!abstractVars
<1>8. CASE DatabaseFails(r)
  <2>1. CASE Ends(r, "error")
    BY <1>8, <2>1, EndsRefuses DEF DatabaseFails
  <2>2. CASE UNCHANGED answer
    BY <1>8, <2>2 DEF DatabaseFails, Promise!abstractVars
  <2> QED
    BY <1>8, <2>1, <2>2 DEF DatabaseFails, NextAttempt
<1>9. CASE LastLook(r)
  BY <1>9, EndsRefuses DEF LastLook
<1> QED
  BY <1>1, <1>2, <1>3, <1>4, <1>5, <1>6, <1>7, <1>8, <1>9 DEF Reserves

\* Every step of an admin request administers a context, or is invisible.
LEMMA AdminAdministers ==
  ASSUME TypeOK, Validated, TypeOK', NEW a \in Admin, Administers(a)
  PROVE  (\E c \in Context : Promise!Administer(c)) \/ UNCHANGED Promise!abstractVars
<1> DEFINE c == admin[a].ctx
<1>1. UNCHANGED <<inst, answer>>
  BY DEF Administers, UpdateRead, EndpointCheck, UpdateCommit, DeleteRead, DeleteCommit
<1>2. CASE UNCHANGED ctx
  BY <1>1, <1>2 DEF Promise!abstractVars
<1>3. ASSUME c \in Context, ctx' = [ctx EXCEPT ![c] = ctx'[c]],
             ctx'[c].state # "absent",
             ctx'[c].state = "deleted" => Promise!RowsOn(c) = {} /\ ctx'[c].host = ctx[c].host,
             ctx[c].state = "deleted" => ctx'[c].state = "deleted",
             ctx[c].state = "retired_orphaned" => ctx'[c].state \in {"retired_orphaned", "deleted"},
             Promise!Listed(c) /\ ctx'[c].host # ctx[c].host =>
               /\ Promise!RowsOn(c) = {}
               /\ ctx[c].state \in Promise!Parked /\ ctx'[c].state \in Promise!Parked
      PROVE  Promise!Administer(c)
  <2>1. ctx'[c] \in Promise!ContextRow
    BY <1>3 DEF TypeOK
  <2> HIDE DEF c
  <2> QED
    BY <1>1, <1>3, <2>1 DEF Promise!Administer
<1>4. CASE UpdateCommit(a) /\ ~UNCHANGED ctx
  <2> DEFINE new == admin[a].new
             was == admin[a].was
  <2>1. admin[a] \in UpdateState
    BY <1>4 DEF UpdateCommit, TypeOK, DeleteState, Quiet
  <2>2. c \in Context /\ new \in Updates
    BY <2>1 DEF UpdateState
  <2>3. StillValid(a)
    BY <1>4 DEF UpdateCommit
  <2>4. ctx[c] \in Promise!ContextRow /\ ctx \in [Context -> Promise!ContextRow]
    BY <2>2 DEF TypeOK
  <2>5. ctx' = [ctx EXCEPT ![c] = [ctx[c] EXCEPT !.state = Set(new.state, @), !.host = Set(new.host, @)]]
    BY <1>4, <2>4 DEF UpdateCommit, Promise!ContextRow
  <2>6. ctx'[c].state = Set(new.state, ctx[c].state) /\ ctx'[c].host = Set(new.host, ctx[c].host)
    BY <2>2, <2>4, <2>5 DEF Promise!ContextRow
  <2>7. Promise!Listed(c) /\ (ctx[c].state = "retired_orphaned" => new.state = Keep)
    BY <2>3 DEF StillValid
  <2>8. ctx'[c].state # "absent" /\ ctx'[c].state # "deleted"
    BY <2>2, <2>6, <2>7 DEF Set, Promise!Listed, Updates, Settable
  <2>9. ctx[c].state = "retired_orphaned" => ctx'[c].state = "retired_orphaned"
    BY <2>6, <2>7 DEF Set
  <2>10. ASSUME ctx'[c].host # ctx[c].host
         PROVE  /\ Promise!RowsOn(c) = {}
                /\ ctx[c].state \in Promise!Parked /\ ctx'[c].state \in Promise!Parked
    <3>1. new.host # Keep /\ new.host # ctx[c].host
      BY <2>6, <2>10 DEF Set
    <3>2. ctx[c].host = was.host
      BY <2>3, <3>1 DEF StillValid
    <3>3. EndpointChanges(was, new)
      BY <3>1, <3>2 DEF EndpointChanges
    <3>4. ctx[c].state = was.state /\ Promise!RowsOn(c) = {}
      BY <2>3, <3>3 DEF StillValid
    <3>5. {was.state, Set(new.state, was.state)} \subseteq Promise!Parked
      BY <1>4, <3>3 DEF Validated, UpdateCommit
    <3> QED
      BY <2>6, <3>4, <3>5
  <2>11. ctx' = [ctx EXCEPT ![c] = ctx'[c]]
    BY <2>2, <2>4, <2>5
  <2> HIDE DEF c, new, was
  <2> QED
    BY <1>3, <2>2, <2>7, <2>8, <2>9, <2>10, <2>11 DEF Promise!Listed
<1>5. CASE DeleteCommit(a) /\ ~UNCHANGED ctx
  <2>1. c \in Context
    BY <1>5 DEF DeleteCommit, TypeOK, UpdateState, DeleteState, Quiet
  <2>2. ctx[c] \in Promise!ContextRow /\ ctx \in [Context -> Promise!ContextRow]
    BY <2>1 DEF TypeOK
  <2>3. CASE /\ Deletable(c)
             /\ ctx' = [ctx EXCEPT ![c].state = "deleted", ![c].health = "unhealthy"]
    <3>1. ctx' = [ctx EXCEPT ![c] = [ctx[c] EXCEPT !.state = "deleted", !.health = "unhealthy"]]
      BY <2>2, <2>3 DEF Promise!ContextRow
    <3>2. ctx'[c].state = "deleted" /\ ctx'[c].host = ctx[c].host
      BY <2>1, <2>2, <3>1 DEF Promise!ContextRow
    <3>3. ctx' = [ctx EXCEPT ![c] = ctx'[c]]
      BY <2>1, <2>2, <3>1
    <3> HIDE DEF c
    <3> QED
      BY <1>3, <2>1, <2>3, <3>2, <3>3 DEF Deletable
  <2>4. CASE Promise!Listed(c) /\ ctx' = [ctx EXCEPT ![c].state = "retired_orphaned"]
    <3>1. ctx'[c].state = "retired_orphaned" /\ ctx'[c].host = ctx[c].host
      BY <2>1, <2>2, <2>4 DEF Promise!ContextRow
    <3>2. ctx' = [ctx EXCEPT ![c] = ctx'[c]]
      BY <2>1, <2>2, <2>4
    <3> HIDE DEF c
    <3> QED
      BY <1>3, <2>1, <2>4, <3>1, <3>2 DEF Promise!Listed
  <2> QED
    BY <1>5, <2>3, <2>4 DEF DeleteCommit
<1> QED
  BY <1>2, <1>4, <1>5 DEF Administers, UpdateRead, EndpointCheck, DeleteRead

\* A probe, or a context that is added, administers that context.
LEMMA ContextAdministers ==
  ASSUME TypeOK, TypeOK', NEW c \in Context, Probe(c) \/ AddContext(c)
  PROVE  Promise!Administer(c)
<1>1. ctx[c] \in Promise!ContextRow /\ ctx'[c] \in Promise!ContextRow
      /\ ctx \in [Context -> Promise!ContextRow]
  BY DEF TypeOK
<1>2. CASE Probe(c)
  <2>1. PICK h : ctx' = [ctx EXCEPT ![c] = [ctx[c] EXCEPT !.health = h]]
    BY <1>2 DEF Probe
  <2>2. ctx'[c].state = ctx[c].state /\ ctx'[c].host = ctx[c].host
    BY <1>1, <2>1 DEF Promise!ContextRow
  <2>3. ctx' = [ctx EXCEPT ![c] = ctx'[c]]
    BY <1>1, <2>1
  <2> QED
    BY <1>1, <1>2, <2>2, <2>3 DEF Probe, Promise!Administer, Promise!Listed
<1>3. CASE AddContext(c)
  <2>1. PICK s \in Settable, h \in Host :
          ctx' = [ctx EXCEPT ![c] = [state |-> s, health |-> "unhealthy", host |-> h]]
    BY <1>3 DEF AddContext
  <2>2. ctx'[c].state \in Settable /\ ctx' = [ctx EXCEPT ![c] = ctx'[c]]
    BY <1>1, <2>1
  <2> QED
    BY <1>1, <1>3, <2>2 DEF AddContext, Settable, Promise!Administer, Promise!Listed
<1> QED
  BY <1>2, <1>3

\* Every step of Placement is a step of Admission or leaves its variables alone.
LEMMA Refines ==
  TypeOK /\ Serving /\ Validated /\ TypeOK' /\ [Next]_vars
    => [Promise!AdmissionNext]_(Promise!abstractVars)
<1> SUFFICES ASSUME TypeOK, Serving, Validated, TypeOK', [Next]_vars
             PROVE  Promise!AdmissionNext \/ UNCHANGED Promise!abstractVars
  OBVIOUS
<1>1. ASSUME NEW r \in Request, Reserves(r)
      PROVE  Promise!AdmissionNext \/ UNCHANGED Promise!abstractVars
  BY <1>1, RequestAdmits DEF Promise!AdmissionNext
<1>2. ASSUME NEW r \in Request, MarkRunning(r) \/ DeleteRow(r)
      PROVE  Promise!AdmissionNext
  BY <1>2 DEF MarkRunning, DeleteRow, Promise!AdmissionNext, Promise!Release, Promise!Rows
<1>3. ASSUME NEW c \in Context, Probe(c) \/ AddContext(c)
      PROVE  Promise!AdmissionNext
  BY <1>3, ContextAdministers DEF Promise!AdmissionNext
<1>4. ASSUME NEW a \in Admin, Administers(a)
      PROVE  Promise!AdmissionNext \/ UNCHANGED Promise!abstractVars
  BY <1>4, AdminAdministers DEF Promise!AdmissionNext
<1>5. CASE UNCHANGED vars
  BY <1>5 DEF vars, Promise!abstractVars
<1> QED
  BY <1>1, <1>2, <1>3, <1>4, <1>5 DEF Next

\* What admission allows keeps the contexts of all rows on record.
LEMMA AnchoredStep ==
  TypeOK /\ Anchored /\ [Promise!AdmissionNext]_(Promise!abstractVars) => Anchored'
<1> SUFFICES ASSUME TypeOK, Anchored,
                    Promise!AdmissionNext \/ UNCHANGED Promise!abstractVars,
                    NEW x \in Request, inst'[x] # NoRow
             PROVE  Promise!Listed(inst[x].ctx)'
  BY DEF Anchored, Promise!Rows
<1>1. CASE UNCHANGED Promise!abstractVars
  BY <1>1 DEF Anchored, Promise!abstractVars, Promise!Rows, Promise!Listed
<1>2. ASSUME NEW r \in Request, Promise!Grant(r)
      PROVE  Promise!Listed(inst[x].ctx)'
  <2>1. PICK c \in Eligible[r], q \in Promise!QuotaSlot, s \in Promise!CreateSlot :
          /\ Promise!Open(c)
          /\ inst' = [inst EXCEPT ![r] = [ctx |-> c, quota |-> q, slot |-> s]]
    BY <1>2 DEF Promise!Grant
  <2>2. UNCHANGED ctx
    BY <1>2 DEF Promise!Grant
  <2>3. CASE x = r
    BY <2>1, <2>2, <2>3 DEF TypeOK, Promise!Open, Promise!Listed
  <2>4. CASE x # r
    BY <2>1, <2>2, <2>4 DEF TypeOK, Anchored, Promise!Rows, Promise!Listed
  <2> QED
    BY <2>3, <2>4
<1>3. ASSUME NEW r \in Request, Promise!Refuse(r)
      PROVE  Promise!Listed(inst[x].ctx)'
  BY <1>3 DEF Promise!Refuse, Anchored, Promise!Rows, Promise!Listed
<1>4. ASSUME NEW r \in Request, Promise!Release(r)
      PROVE  Promise!Listed(inst[x].ctx)'
  <2>1. inst[x] # NoRow /\ inst'[x].ctx = inst[x].ctx
    <3>1. CASE inst' = [inst EXCEPT ![r].slot = NoSlot]
      <4>1. inst[r] \in Promise!InstanceRow
        BY <1>4 DEF TypeOK, Promise!Release, Promise!Rows
      <4> QED
        BY <1>4, <3>1, <4>1 DEF TypeOK, Promise!Release, Promise!Rows, Promise!InstanceRow
    <3>2. CASE inst' = [inst EXCEPT ![r] = NoRow]
      BY <3>2 DEF TypeOK
    <3> QED
      BY <1>4, <3>1, <3>2 DEF Promise!Release
  <2> QED
    BY <1>4, <2>1 DEF Promise!Release, Anchored, Promise!Rows, Promise!Listed
<1>5. ASSUME NEW c \in Context, Promise!Administer(c)
      PROVE  Promise!Listed(inst[x].ctx)'
  <2>1. PICK new \in Promise!ContextRow :
          /\ ctx' = [ctx EXCEPT ![c] = new] /\ new.state # "absent"
          /\ new.state = "deleted" => Promise!RowsOn(c) = {}
    BY <1>5 DEF Promise!Administer
  <2>2. UNCHANGED inst /\ x \in Promise!Rows /\ Promise!Listed(inst[x].ctx)
    BY <1>5 DEF Promise!Administer, Anchored, Promise!Rows
  <2>3. CASE inst[x].ctx = c
    BY <2>1, <2>2, <2>3 DEF TypeOK, Promise!RowsOn, Promise!Listed
  <2>4. CASE inst[x].ctx # c
    BY <2>1, <2>2, <2>4 DEF TypeOK, Promise!Listed
  <2> QED
    BY <2>3, <2>4
<1> QED
  BY <1>1, <1>2, <1>3, <1>4, <1>5 DEF Promise!AdmissionNext

LEMMA PlaceInitially == Init => PlaceInv
<1> SUFFICES ASSUME Init
             PROVE  PlaceInv
  OBVIOUS
<1>1. TypeOK
  BY TypeInit
<1>2. Serving
  BY DEF Init, Serving, Resting
<1>3. Validated
  BY DEF Init, Validated, Quiet
<1>4. Anchored
  BY DEF Init, Anchored, Promise!Rows
<1> QED
  BY <1>1, <1>2, <1>3, <1>4 DEF PlaceInv

LEMMA PlaceStep ==
  PlaceInv /\ [Next]_vars => PlaceInv' /\ [Promise!AdmissionNext]_(Promise!abstractVars)
  BY TypeStep, ServingStep, ValidatedStep, Refines, AnchoredStep DEF PlaceInv

\* The invariant on which everything else rests.
THEOREM Placed == Spec => []PlaceInv
  BY PlaceInitially, PlaceStep, PTL DEF Spec

\* Whatever the number of requests, contexts and admins and whatever the limits,
\* the variables of the reservation loop and of the admin routes keep their
\* types: a row never has a slot outside the limits, an attempt never runs
\* after the attempts are used up.
THEOREM PlacementTypes == Spec => []TypeOK
  BY Placed, PTL DEF PlaceInv

\* The retry loop of reserve_instance and the admin routes implement admission:
\* each answer is true at one instant, each row is granted as if in one step.
THEOREM Admits == Spec => ImplementsAdmission
<1>1. Init => Promise!AdmissionInit
  BY TypeInit DEF Init, TypeOK, Promise!AdmissionInit
<1> QED
  BY <1>1, PlaceInitially, PlaceStep, PTL DEF Spec, ImplementsAdmission, Promise!AdmissionSpec

\* A retired context is never used again, although requests that read it before
\* it was retired commit afterwards: route_api_update_context checks again.
THEOREM RetiredStays == Spec => RetiredForGood
<1>1. PlaceInv /\ [Next]_vars =>
        [ \A c \in Context :
            ctx[c].state = "retired_orphaned" =>
              ctx'[c].state \in {"retired_orphaned", "deleted"} /\ ctx'[c].host = ctx[c].host ]_vars
  <2> SUFFICES ASSUME PlaceInv, [Next]_vars, NEW d \in Context,
                      ctx[d].state = "retired_orphaned"
               PROVE  /\ ctx'[d].state \in {"retired_orphaned", "deleted"}
                      /\ ctx'[d].host = ctx[d].host
    OBVIOUS
  <2>1. TypeOK
    BY DEF PlaceInv
  <2>2. CASE UNCHANGED ctx
    BY <2>2
  <2>3. ASSUME NEW c \in Context, Promise!Administer(c)
        PROVE  /\ ctx'[d].state \in {"retired_orphaned", "deleted"}
               /\ ctx'[d].host = ctx[d].host
    <3>1. CASE c = d
      BY <2>1, <2>3, <3>1 DEF TypeOK, Promise!Administer, Promise!Listed, Promise!Parked
    <3>2. CASE c # d
      BY <2>1, <2>3, <3>2 DEF TypeOK, Promise!Administer
    <3> QED
      BY <3>1, <3>2
  <2> QED
    BY <2>2, <2>3, PlaceStep
       DEF Promise!AdmissionNext, Promise!abstractVars, Promise!Grant, Promise!Refuse, Promise!Release
<1> QED
  BY <1>1, Placed, PTL DEF Spec, RetiredForGood

\* However many requests of an owner race, at most one of them per challenge has
\* a row: the unique constraint decides, whatever each of them read before.
THEOREM OneInstance == Spec => []OneInstancePerChallenge
<1>1. Init => OneInstancePerChallenge
  BY DEF Init, OneInstancePerChallenge, Promise!Rows
<1>2. PlaceInv /\ OneInstancePerChallenge /\ [Next]_vars => OneInstancePerChallenge'
  <2> SUFFICES ASSUME PlaceInv, OneInstancePerChallenge, [Next]_vars,
                      NEW x \in Request, NEW y \in Request,
                      inst'[x] # NoRow, inst'[y] # NoRow,
                      OwnerOf[x] = OwnerOf[y], ChallengeOf[x] = ChallengeOf[y]
               PROVE  x = y
    BY DEF OneInstancePerChallenge, Promise!Twins, Promise!RowsOf, Promise!Rows
  <2>1. TypeOK
    BY DEF PlaceInv
  <2>2. inst[x] # NoRow /\ inst[y] # NoRow => x = y
    BY DEF OneInstancePerChallenge, Promise!Twins, Promise!RowsOf, Promise!Rows
  <2>3. CASE UNCHANGED inst
    BY <2>2, <2>3
  <2>4. ASSUME NEW r \in Request, Promise!Release(r)
        PROVE  x = y
    <3>1. inst[r] # NoRow /\ \A z \in Request \ {r} : inst'[z] = inst[z]
      BY <2>1, <2>4 DEF TypeOK, Promise!Release, Promise!Rows
    <3> QED
      BY <2>2, <3>1
  <2>5. ASSUME NEW r \in Request, Promise!Grant(r)
        PROVE  x = y
    <3>1. \A z \in Request \ {r} : inst'[z] = inst[z]
      BY <2>1, <2>5 DEF TypeOK, Promise!Grant
    <3>2. \A z \in Request : OwnerOf[z] = OwnerOf[r] /\ ChallengeOf[z] = ChallengeOf[r] => inst[z] = NoRow
      BY <2>5 DEF Promise!Grant, Promise!Twins, Promise!RowsOf, Promise!Rows
    <3> QED
      BY <2>2, <3>1, <3>2
  <2> QED
    BY <2>3, <2>4, <2>5, PlaceStep
       DEF Promise!AdmissionNext, Promise!abstractVars, Promise!Refuse, Promise!Administer
<1> QED
  BY <1>1, <1>2, Placed, PTL DEF Spec

\* A row is placed on the endpoint that its request chose, and that endpoint and
\* the record of its context stay while the row exists, whatever two admins do.
THEOREM EndpointStays == Spec => EndpointPinned
<1>1. ASSUME TypeOK, Serving, [Next]_vars, NEW r \in Request,
             r \notin Promise!Rows, r \in Promise!Rows'
      PROVE  /\ inst'[r].ctx \in Eligible[r]
             /\ Promise!Open(inst'[r].ctx)
             /\ ctx[inst'[r].ctx].host = req[r].choice.at[2]
  <2>1. ASSUME NEW x \in Request, Reserves(x), ~Commit(x)
        PROVE  UNCHANGED inst
    BY <2>1 DEF Reserves, Start, FindExisting, PickQuotaSlot, RankContexts, PickCreateSlot,
                CommitConflict, DatabaseFails, LastLook
  <2>2. ASSUME NEW a \in Admin, Administers(a)
        PROVE  UNCHANGED inst
    BY <2>2 DEF Administers, UpdateRead, EndpointCheck, UpdateCommit, DeleteRead, DeleteCommit
  <2>3. ASSUME NEW c \in Context, Probe(c) \/ AddContext(c)
        PROVE  UNCHANGED inst
    BY <2>3 DEF Probe, AddContext
  <2>4. ~UNCHANGED inst
    BY <1>1 DEF Promise!Rows
  <2>5. ASSUME NEW x \in Request, MarkRunning(x) \/ DeleteRow(x)
        PROVE  FALSE
    BY <1>1, <2>5 DEF MarkRunning, DeleteRow, TypeOK, Promise!Rows
  <2>6. PICK x \in Request : Commit(x)
    BY <1>1, <2>1, <2>2, <2>3, <2>4, <2>5 DEF Next, vars
  <2> DEFINE c == req[x].choice.at[1]
  <2>7. inst' = [inst EXCEPT ![x] = [ctx |-> c, quota |-> req[x].quota, slot |-> req[x].choice.slot]]
    BY <2>6 DEF Commit
  <2>8. inst'[x].ctx = c /\ \A z \in Request \ {x} : inst'[z] = inst[z]
    <3> HIDE DEF c
    <3> QED BY <1>1, <2>7 DEF TypeOK
  <2>9. x = r
    BY <1>1, <2>8 DEF Promise!Rows
  <2>10. c \in Eligible[x] /\ Promise!Open(c) /\ ctx[c].host = req[x].choice.at[2]
    BY <1>1, <2>6 DEF Commit, Bumps, Serving
  <2> HIDE DEF c
  <2> QED
    BY <2>8, <2>9, <2>10
<1>2. ASSUME PlaceInv, [Next]_vars, NEW r \in Request, r \in Promise!Rows, r \in Promise!Rows'
      PROVE  Promise!Listed(inst[r].ctx)' /\ ctx'[inst[r].ctx].host = ctx[inst[r].ctx].host
  <2> DEFINE d == inst[r].ctx
  <2>1. TypeOK /\ Promise!Listed(d)
    BY <1>2 DEF PlaceInv, Anchored
  <2>2. Promise!Listed(inst[r].ctx)'
    <3>1. PlaceInv'
      BY <1>2, PlaceStep
    <3> QED
      BY <1>2, <3>1 DEF PlaceInv, Anchored
  <2>3. CASE UNCHANGED ctx
    BY <2>2, <2>3
  <2>4. ASSUME NEW c \in Context, Promise!Administer(c)
        PROVE  ctx'[d].host = ctx[d].host
    <3>1. PICK new \in Promise!ContextRow :
            /\ ctx' = [ctx EXCEPT ![c] = new]
            /\ Promise!Listed(c) /\ new.host # ctx[c].host => Promise!RowsOn(c) = {}
      BY <2>4 DEF Promise!Administer
    <3>2. CASE d = c
      <4>1. Promise!RowsOn(c) # {}
        BY <1>2, <3>2 DEF Promise!RowsOn
      <4>2. new.host = ctx[c].host
        BY <2>1, <3>1, <3>2, <4>1
      <4> HIDE DEF d
      <4> QED
        BY <2>1, <3>1, <3>2, <4>2 DEF TypeOK
    <3>3. CASE d # c
      <4>1. d \in Context
        BY <1>2, <2>1 DEF TypeOK, Promise!Rows, Promise!InstanceRow
      <4> HIDE DEF d
      <4> QED
        BY <2>1, <3>1, <3>3 DEF TypeOK
    <3> QED
      BY <3>2, <3>3
  <2> QED
    BY <1>2, <2>2, <2>3, <2>4, PlaceStep
       DEF Promise!AdmissionNext, Promise!abstractVars, Promise!Grant, Promise!Refuse, Promise!Release
<1>3. PlaceInv /\ [Next]_vars =>
        [ \A r \in Request :
            /\ r \notin Promise!Rows /\ r \in Promise!Rows' =>
                 /\ inst'[r].ctx \in Eligible[r]
                 /\ Promise!Open(inst'[r].ctx)
                 /\ ctx[inst'[r].ctx].host = req[r].choice.at[2]
            /\ r \in Promise!Rows /\ r \in Promise!Rows' =>
                 LET c == inst[r].ctx IN Promise!Listed(c)' /\ ctx'[c].host = ctx[c].host ]_vars
  BY <1>1, <1>2 DEF PlaceInv
<1> QED
  BY <1>3, Placed, PTL DEF Spec, EndpointPinned

=============================================================================
