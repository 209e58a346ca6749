-------------------------- MODULE PlacementSafety --------------------------
(***************************************************************************)
(* The limits of Placement for every number of requests: slots are below   *)
(* the limit that their request read and differ from each other, and so    *)
(* there can be only as many of them as some limit allows.                 *)
(***************************************************************************)
EXTENDS PlacementProofs, FiniteSetTheorems

\* The slots that a request chose, and those of its row, are below its limits.
Numbers(r) ==
  /\ req[r].pc \in {"contexts", "slots", "commit"} => req[r].quota < req[r].limit
  /\ req[r].pc = "commit" => req[r].choice.slot < req[r].most
  /\ inst[r] # NoRow =>
       /\ inst[r].quota < req[r].limit
       /\ inst[r].slot # NoSlot => inst[r].slot < req[r].most

Numbered == \A r \in Request : Numbers(r)

\* No two rows have the same quota slot of an owner, or create slot of a context.
Unalike ==
  \A x, y \in Promise!Rows :
    \/ x = y
    \/ /\ OwnerOf[x] = OwnerOf[y] => inst[x].quota # inst[y].quota
       /\ inst[x].ctx = inst[y].ctx /\ inst[x].slot # NoSlot => inst[x].slot # inst[y].slot

\* The invariant from which the limits follow.
LimitInv == Numbered /\ Unalike /\ IsFiniteSet(Promise!Rows)

\* With distinct numbers, each below a bound of its own, one of the bounds is
\* at least how many numbers there are.
LEMMA Bounded ==
  ASSUME NEW S, IsFiniteSet(S), S # {}, NEW f \in [S -> Nat], NEW bound \in [S -> Nat],
         \A x \in S : f[x] < bound[x],
         \A x, y \in S : x # y => f[x] # f[y]
  PROVE  \E x \in S : Cardinality(S) <= bound[x]
<1> DEFINE n == Cardinality(S)
<1>1. n \in Nat
  BY FS_CardinalityType
<1> HIDE DEF n
<1>2. SUFFICES ASSUME \A x \in S : bound[x] < n
               PROVE  FALSE
  BY <1>1 DEF n
<1>3. \A x \in S : f[x] \in 0 .. n - 2
  BY <1>1, <1>2
<1>4. f \in Injection(S, 0 .. n - 2)
  BY <1>3 DEF Injection, IsInjective
<1>5. PICK x \in S : f[x] < n - 1
  BY <1>1, <1>2
<1>6. n >= 2
  BY <1>1, <1>5
<1>7. IsFiniteSet(0 .. n - 2) /\ Cardinality(0 .. n - 2) = n - 1
  <2>1. 0 \in Int /\ n - 2 \in Int /\ ~(0 > n - 2)
    BY <1>1, <1>6
  <2>2. IsFiniteSet(0 .. n - 2) /\ Cardinality(0 .. n - 2) = n - 2 - 0 + 1
    BY <2>1, FS_Interval
  <2> QED
    BY <1>1, <2>2
<1>8. n <= Cardinality(0 .. n - 2)
  BY <1>4, <1>7, FS_Injection DEF n
<1> QED
  BY <1>1, <1>7, <1>8

\* The limits of a request, and the slots of a row, are numbers.
LEMMA Numerals ==
  ASSUME TypeOK, NEW r \in Request
  PROVE  /\ req[r].limit \in Nat /\ req[r].most \in Nat /\ req[r].quota \in Nat
         /\ inst[r] # NoRow => inst[r].quota \in Nat /\ inst[r].slot \in Nat \cup {NoSlot}
<1>1. Promise!QuotaSlot \subseteq Nat /\ Promise!CreateSlot \subseteq Nat
  BY PlacementAssumption DEF Promise!QuotaSlot, Promise!CreateSlot
<1>2. req[r] \in RequestState /\ (inst[r] # NoRow => inst[r] \in Promise!InstanceRow)
  BY DEF TypeOK
<1>3. Limits \cup {0} \subseteq Nat /\ Creates \cup {0} \subseteq Nat
  BY PlacementAssumption
<1>4. req[r].limit \in Nat /\ req[r].most \in Nat /\ req[r].quota \in Nat
  BY <1>1, <1>2, <1>3 DEF RequestState
<1>5. inst[r] # NoRow => inst[r].quota \in Nat /\ inst[r].slot \in Nat \cup {NoSlot}
  BY <1>1, <1>2 DEF Promise!InstanceRow
<1> QED
  BY <1>4, <1>5

\* Every step of a create request keeps its slots below its limits.
LEMMA RequestNumbers ==
  ASSUME TypeOK, Serving, Numbered, NEW r \in Request, Reserves(r)
  PROVE  Numbered'
<1>1. ASSUME \A x \in Request \ {r} : req'[x] = req[x] /\ inst'[x] = inst[x], Numbers(r)'
      PROVE  Numbered'
  BY <1>1 DEF Numbered, Numbers
<1>2. /\ req[r] \in RequestState /\ req \in [Request -> RequestState]
      /\ req[r].limit \in Nat /\ req[r].most \in Nat /\ Numbers(r)
      /\ req[r].pc # "over" => inst[r] = NoRow
      /\ req[r].pc \notin {"idle", "over"} => req[r].limit \in Limits /\ req[r].most \in Creates
  BY Numerals DEF TypeOK, Serving, Numbered
<1>3. ASSUME NEW a, Ends(r, a), UNCHANGED inst, req[r].pc # "over"
      PROVE  Numbered'
  BY <1>1, <1>2, <1>3, EndsOver DEF Numbers
<1>4. ASSUME NEW b, NextAttempt(r, b), UNCHANGED inst, req[r].pc # "over"
      PROVE  Numbered'
  BY <1>1, <1>2, <1>4, NextAttemptServes DEF Numbers
<1>5. CASE Start(r)
  <2>1. PICK l, k : req' = [req EXCEPT ![r].pc = IF Eligible[r] = {} THEN "over" ELSE "owner",
                                       ![r].limit = l, ![r].most = k]
    BY <1>5 DEF Start
  <2>2. req'[r].pc \in {"over", "owner"} /\ \A x \in Request \ {r} : req'[x] = req[x]
    BY <1>2, <2>1 DEF RequestState
  <2>3. UNCHANGED inst /\ inst[r] = NoRow
    BY <1>2, <1>5 DEF Start
  <2> QED
    BY <1>1, <2>2, <2>3 DEF Numbers
<1>6. CASE FindExisting(r) /\ Promise!Twins(r) = {}
  <2>1. req' = [req EXCEPT ![r].pc = "quota"] /\ UNCHANGED inst /\ inst[r] = NoRow
    BY <1>2, <1>6 DEF FindExisting, Move
  <2>2. req'[r].pc = "quota" /\ \A x \in Request \ {r} : req'[x] = req[x]
    BY <1>2, <2>1 DEF RequestState
  <2> QED
    BY <1>1, <2>1, <2>2 DEF Numbers
<1>7. CASE PickQuotaSlot(r) /\ ~Ends(r, "quota")
  <2>1. PICK q \in 0 .. req[r].limit - 1 : req' = [req EXCEPT ![r].pc = "contexts", ![r].quota = q]
    BY <1>7 DEF PickQuotaSlot
  <2>2. UNCHANGED inst /\ inst[r] = NoRow
    BY <1>2, <1>7 DEF PickQuotaSlot
  <2>3. /\ req'[r].pc = "contexts" /\ req'[r].quota = q /\ req'[r].limit = req[r].limit
        /\ \A x \in Request \ {r} : req'[x] = req[x]
    BY <1>2, <2>1 DEF RequestState
  <2> QED
    BY <1>1, <1>2, <2>1, <2>2, <2>3 DEF Numbers
<1>8. CASE RankContexts(r) /\ {c \in Eligible[r] : Promise!Open(c)} # {}
  <2>1. PICK left : req' = [req EXCEPT ![r].pc = "slots", ![r].left = left]
    BY <1>8 DEF RankContexts
  <2>2. UNCHANGED inst /\ inst[r] = NoRow /\ req[r].quota < req[r].limit
    BY <1>2, <1>8 DEF RankContexts, Numbers
  <2>3. /\ req'[r].pc = "slots" /\ req'[r].quota = req[r].quota /\ req'[r].limit = req[r].limit
        /\ \A x \in Request \ {r} : req'[x] = req[x]
    BY <1>2, <2>1 DEF RequestState
  <2> QED
    BY <1>1, <2>2, <2>3 DEF Numbers
<1>9. CASE PickCreateSlot(r) /\ ~Ends(r, "busy")
  <2>1. PICK p \in req[r].left :
          \/ \E s \in 0 .. req[r].most - 1 :
               req' = [req EXCEPT ![r].pc = "commit", ![r].left = {},
                                  ![r].choice = [at |-> p, slot |-> s]]
          \/ req' = [req EXCEPT ![r].left = @ \ {p}]
    BY <1>9 DEF PickCreateSlot
  <2>2. UNCHANGED inst /\ inst[r] = NoRow /\ req[r].pc = "slots" /\ req[r].quota < req[r].limit
    BY <1>2, <1>9 DEF PickCreateSlot, Numbers
  <2>3. CASE req' = [req EXCEPT ![r].left = @ \ {p}]
    <3>1. /\ req'[r].pc = "slots" /\ req'[r].quota = req[r].quota /\ req'[r].limit = req[r].limit
          /\ \A x \in Request \ {r} : req'[x] = req[x]
      BY <1>2, <2>2, <2>3 DEF RequestState
    <3> QED
      BY <1>1, <2>2, <3>1 DEF Numbers
  <2>4. ASSUME NEW s \in 0 .. req[r].most - 1,
               req' = [req EXCEPT ![r].pc = "commit", ![r].left = {},
                                  ![r].choice = [at |-> p, slot |-> s]]
        PROVE  Numbered'
    <3> DEFINE choice == [at |-> p, slot |-> s]
    <3>1. req' = [req EXCEPT ![r] = [req[r] EXCEPT !.pc = "commit", !.left = {}, !.choice = choice]]
      BY <1>2, <2>4 DEF RequestState
    <3>2. choice.slot < req[r].most
      BY <1>2, <2>4
    <3> HIDE DEF choice
    <3>3. /\ req'[r].choice = choice /\ req'[r].quota = req[r].quota
          /\ req'[r].limit = req[r].limit /\ req'[r].most = req[r].most
          /\ \A x \in Request \ {r} : req'[x] = req[x]
      BY <1>2, <3>1 DEF RequestState
    <3> QED
      BY <1>1, <2>2, <3>2, <3>3 DEF Numbers
  <2> QED
    BY <2>1, <2>3, <2>4
<1>10. CASE Commit(r)
  <2> DEFINE new == [ctx |-> req[r].choice.at[1], quota |-> req[r].quota, slot |-> req[r].choice.slot]
             s == [Resting EXCEPT !.pc = "over", !.limit = req[r].limit, !.most = req[r].most]
  <2>1. s.pc = "over" /\ s.limit = req[r].limit /\ s.most = req[r].most
    BY DEF Resting
  <2>2. req' = [req EXCEPT ![r] = s] /\ inst' = [inst EXCEPT ![r] = new]
    BY <1>10 DEF Commit
  <2>3. new.quota < req[r].limit /\ new.slot < req[r].most
    BY <1>2, <1>10 DEF Commit, Numbers
  <2> HIDE DEF s, new
  <2>4. /\ req'[r] = s /\ inst'[r] = new
        /\ \A x \in Request \ {r} : req'[x] = req[x] /\ inst'[x] = inst[x]
    BY <2>2 DEF TypeOK
  <2> QED
    BY <1>1, <2>1, <2>3, <2>4 DEF Numbers
<1>11. CASE FindExisting(r) /\ Promise!Twins(r) # {}
  BY <1>3, <1>11 DEF FindExisting
<1>12. CASE RankContexts(r) /\ {c \in Eligible[r] : Promise!Open(c)} = {}
  BY <1>3, <1>12 DEF RankContexts
<1>13. CASE PickQuotaSlot(r) /\ Ends(r, "quota")
  BY <1>3, <1>13 DEF PickQuotaSlot
<1>14. CASE PickCreateSlot(r) /\ Ends(r, "busy")
  BY <1>3, <1>14 DEF PickCreateSlot
<1>15. CASE CommitConflict(r)
  BY <1>4, <1>15 DEF CommitConflict
<1>16. CASE DatabaseFails(r)
  BY <1>3, <1>4, <1>16 DEF DatabaseFails
<1>17. CASE LastLook(r)
  BY <1>3, <1>17 DEF LastLook
<1> QED
  BY <1>5, <1>6, <1>7, <1>8, <1>9, <1>10, <1>11, <1>12, <1>13, <1>14, <1>15, <1>16, <1>17
     DEF Reserves

\* Every step keeps the slots below the limits.
LEMMA NumberedStep == TypeOK /\ Serving /\ Numbered /\ [Next]_vars => Numbered'
<1> SUFFICES ASSUME TypeOK, Serving, Numbered, [Next]_vars
             PROVE  Numbered'
  OBVIOUS
<1>1. ASSUME NEW r \in Request, Reserves(r)
      PROVE  Numbered'
  BY <1>1, RequestNumbers
<1>2. ASSUME NEW r \in Request, MarkRunning(r) \/ DeleteRow(r)
      PROVE  Numbered'
  <2>1. UNCHANGED req /\ inst[r] # NoRow /\ Numbers(r)
    BY <1>2 DEF MarkRunning, DeleteRow, Numbered
  <2>2. CASE inst' = [inst EXCEPT ![r] = NoRow]
    BY <2>1, <2>2 DEF TypeOK, Numbered, Numbers
  <2>3. CASE inst' = [inst EXCEPT ![r].slot = NoSlot]
    <3>1. inst[r] \in Promise!InstanceRow
      BY <2>1 DEF TypeOK
    <3>2. inst'[r].slot = NoSlot /\ inst'[r].quota = inst[r].quota
      BY <2>3, <3>1 DEF TypeOK, Promise!InstanceRow
    <3>3. \A x \in Request \ {r} : inst'[x] = inst[x]
      BY <2>3 DEF TypeOK
    <3> QED
      BY <2>1, <3>2, <3>3 DEF Numbered, Numbers
  <2> QED
    BY <1>2, <2>2, <2>3 DEF MarkRunning, DeleteRow
<1>3. ASSUME UNCHANGED <<inst, req>>
      PROVE  Numbered'
  BY <1>3 DEF Numbered, Numbers
<1>4. ASSUME NEW c \in Context, Probe(c) \/ AddContext(c)
      PROVE  Numbered'
  BY <1>3, <1>4 DEF Probe, AddContext
<1>5. ASSUME NEW a \in Admin, Administers(a)
      PROVE  Numbered'
  BY <1>3, <1>5 DEF Administers, UpdateRead, EndpointCheck, UpdateCommit, DeleteRead, DeleteCommit
<1> QED
  BY <1>1, <1>2, <1>3, <1>4, <1>5 DEF Next, vars

\* What admission allows keeps the slots of the rows apart, and the rows finite.
LEMMA UnalikeStep ==
  TypeOK /\ Unalike /\ IsFiniteSet(Promise!Rows) /\ [Promise!AdmissionNext]_(Promise!abstractVars)
    => Unalike' /\ IsFiniteSet(Promise!Rows)'
<1> SUFFICES ASSUME TypeOK, Unalike, IsFiniteSet(Promise!Rows),
                    Promise!AdmissionNext \/ UNCHANGED Promise!abstractVars
             PROVE  Unalike' /\ IsFiniteSet(Promise!Rows')
  OBVIOUS
<1>1. CASE UNCHANGED inst
  BY <1>1 DEF Unalike, Promise!Rows
<1>2. ASSUME NEW r \in Request, Promise!Grant(r)
      PROVE  Unalike' /\ IsFiniteSet(Promise!Rows')
  <2>1. PICK c \in Eligible[r], q \in Promise!QuotaSlot, s \in Promise!CreateSlot :
          /\ q \notin Promise!QuotaTaken(OwnerOf[r]) /\ s \notin Promise!SlotsTaken(c)
          /\ inst' = [inst EXCEPT ![r] = [ctx |-> c, quota |-> q, slot |-> s]]
    BY <1>2 DEF Promise!Grant
  <2>2. /\ inst'[r] = [ctx |-> c, quota |-> q, slot |-> s]
        /\ \A x \in Request \ {r} : inst'[x] = inst[x]
    BY <2>1 DEF TypeOK
  <2>3. \A x \in Promise!Rows : OwnerOf[x] = OwnerOf[r] => inst[x].quota # q
    BY <2>1 DEF Promise!QuotaTaken, Promise!RowsOf
  <2>4. \A x \in Promise!Rows : inst[x].ctx = c /\ inst[x].slot # NoSlot => inst[x].slot # s
    BY <2>1 DEF Promise!SlotsTaken, Promise!RowsOn
  <2>5. Promise!Rows' \subseteq Promise!Rows \cup {r}
    BY <2>2 DEF Promise!Rows
  <2>6. IsFiniteSet(Promise!Rows')
    BY <2>5, FS_AddElement, FS_Subset
  <2>7. Unalike'
    BY <2>2, <2>3, <2>4 DEF Unalike, Promise!Rows
  <2> QED
    BY <2>6, <2>7
<1>3. ASSUME NEW r \in Request, Promise!Release(r)
      PROVE  Unalike' /\ IsFiniteSet(Promise!Rows')
  <2>1. r \in Promise!Rows /\ \A x \in Request \ {r} : inst'[x] = inst[x]
    BY <1>3 DEF Promise!Release, TypeOK
  <2>2. Promise!Rows' \subseteq Promise!Rows
    BY <2>1 DEF Promise!Rows
  <2>3. inst'[r] # NoRow =>
          inst'[r].ctx = inst[r].ctx /\ inst'[r].quota = inst[r].quota /\ inst'[r].slot = NoSlot
    <3>1. CASE inst' = [inst EXCEPT ![r].slot = NoSlot]
      <4>1. inst[r] \in Promise!InstanceRow
        BY <2>1 DEF TypeOK, Promise!Rows
      <4> QED
        BY <3>1, <4>1 DEF TypeOK, Promise!InstanceRow
    <3>2. CASE inst' = [inst EXCEPT ![r] = NoRow]
      BY <3>2 DEF TypeOK
    <3> QED
      BY <1>3, <3>1, <3>2 DEF Promise!Release
  <2>4. IsFiniteSet(Promise!Rows')
    BY <2>2, FS_Subset
  <2>5. Unalike'
    BY <2>1, <2>2, <2>3 DEF Unalike, Promise!Rows
  <2> QED
    BY <2>4, <2>5
<1> QED
  BY <1>1, <1>2, <1>3
     DEF Promise!AdmissionNext, Promise!abstractVars, Promise!Refuse, Promise!Administer

\* It holds in every reachable state.
LEMMA Limited == Spec => [](PlaceInv /\ LimitInv)
<1>1. Init => LimitInv
  <2> SUFFICES ASSUME Init
               PROVE  LimitInv
    OBVIOUS
  <2>1. Promise!Rows = {}
    BY DEF Init, Promise!Rows
  <2>2. Numbered
    BY DEF Init, Resting, Numbered, Numbers
  <2> QED
    BY <2>1, <2>2, FS_EmptySet DEF LimitInv, Unalike
<1>2. PlaceInv /\ LimitInv /\ [Next]_vars => PlaceInv' /\ LimitInv'
  BY PlaceStep, NumberedStep, UnalikeStep DEF PlaceInv, LimitInv
<1> QED
  BY <1>1, <1>2, PlaceInitially, PTL DEF Spec

\* However many requests of an owner race, and whatever limits they read, one of
\* the owner's instances was reserved under a limit that allows them all, and no
\* two are of one challenge.
THEOREM QuotaIsHeld == Spec => []QuotaHeld
<1>1. PlaceInv /\ LimitInv /\ OneInstancePerChallenge => QuotaHeld
  <2> SUFFICES ASSUME PlaceInv, LimitInv, OneInstancePerChallenge, NEW r \in Promise!Rows
               PROVE  \E x \in Promise!RowsOf(OwnerOf[r]) :
                        Cardinality(Promise!RowsOf(OwnerOf[r])) <= req[x].limit
    BY DEF QuotaHeld
  <2> DEFINE S == Promise!RowsOf(OwnerOf[r])
             f == [x \in S |-> inst[x].quota]
             bound == [x \in S |-> req[x].limit]
  <2>1. S \subseteq Promise!Rows /\ S # {} /\ Promise!Rows \subseteq Request
    BY DEF Promise!RowsOf, Promise!Rows
  <2>2. IsFiniteSet(S)
    BY <2>1, FS_Subset DEF LimitInv
  <2>3. \A x \in S : inst[x].quota \in Nat /\ req[x].limit \in Nat /\ inst[x].quota < req[x].limit
    BY <2>1, Numerals DEF PlaceInv, LimitInv, Numbered, Numbers, Promise!Rows
  <2>4. \A x, y \in S : x # y => inst[x].quota # inst[y].quota
    BY <2>1 DEF LimitInv, Unalike, Promise!RowsOf
  <2> HIDE DEF S
  <2>5. f \in [S -> Nat] /\ bound \in [S -> Nat]
    BY <2>3
  <2>6. (\A x \in S : f[x] < bound[x]) /\ (\A x, y \in S : x # y => f[x] # f[y])
    BY <2>3, <2>4
  <2>7. \A x \in S : bound[x] = req[x].limit
    OBVIOUS
  <2> HIDE DEF f, bound
  <2>8. \E x \in S : Cardinality(S) <= bound[x]
    BY <2>1, <2>2, <2>5, <2>6, Bounded
  <2> QED
    BY <2>7, <2>8 DEF S
<1> QED
  BY <1>1, Limited, OneInstance, PTL

\* The same of the creates in progress on a Docker context.
THEOREM AdmissionIsBounded == Spec => []AdmissionBounded
<1>1. PlaceInv /\ LimitInv => AdmissionBounded
  <2> SUFFICES ASSUME PlaceInv, LimitInv, NEW c \in Context,
                      {r \in Promise!RowsOn(c) : inst[r].slot # NoSlot} # {}
               PROVE  \E x \in {r \in Promise!RowsOn(c) : inst[r].slot # NoSlot} :
                        Cardinality({r \in Promise!RowsOn(c) : inst[r].slot # NoSlot}) <= req[x].most
    BY DEF AdmissionBounded
  <2> DEFINE S == {r \in Promise!RowsOn(c) : inst[r].slot # NoSlot}
             f == [x \in S |-> inst[x].slot]
             bound == [x \in S |-> req[x].most]
  <2>1. S \subseteq Promise!Rows /\ S # {} /\ Promise!Rows \subseteq Request
    BY DEF Promise!RowsOn, Promise!Rows
  <2>2. IsFiniteSet(S)
    BY <2>1, FS_Subset DEF LimitInv
  <2>3. \A x \in S : inst[x].slot \in Nat /\ req[x].most \in Nat /\ inst[x].slot < req[x].most
    BY <2>1, Numerals DEF PlaceInv, LimitInv, Numbered, Numbers, Promise!Rows
  <2>4. \A x, y \in S : x # y => inst[x].slot # inst[y].slot
    BY <2>1 DEF LimitInv, Unalike, Promise!RowsOn
  <2> HIDE DEF S
  <2>5. f \in [S -> Nat] /\ bound \in [S -> Nat]
    BY <2>3
  <2>6. (\A x \in S : f[x] < bound[x]) /\ (\A x, y \in S : x # y => f[x] # f[y])
    BY <2>3, <2>4
  <2>7. \A x \in S : bound[x] = req[x].most
    OBVIOUS
  <2> HIDE DEF f, bound
  <2>8. \E x \in S : Cardinality(S) <= bound[x]
    BY <2>1, <2>2, <2>5, <2>6, Bounded
  <2> QED
    BY <2>7, <2>8 DEF S
<1> QED
  BY <1>1, Limited, PTL

=============================================================================
