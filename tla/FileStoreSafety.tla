--------------------------- MODULE FileStoreSafety ---------------------------
(***************************************************************************)
(* That the store follows the site from one owner mode to the other, that  *)
(* requests made in advance yield to downloads, and that downloads without *)
(* the lock get what is published, for all values of the constants.        *)
(***************************************************************************)
EXTENDS FileStoreProofs

(***************************************************************************)
(* Requests                                                                *)
(***************************************************************************)

\* A request that knows its owner, before its job is ready.
Chosen == {"enter", "lock", "reconcile", "switch", "decide", "look", "admit"}

Keeps(r) == req[r].pc \in Chosen /\ req'[r].key = req[r].key /\ req'[r].observed = req[r].observed

\* Where a request comes from, wherever it is.
LEMMA RequestMoves ==
  ASSUME TypeOK, NEW r \in Request, Requests(r) \/ Dies(r)
  PROVE  /\ \A q \in Request \ {r} : req'[q] = req[q]
         /\ req'[r].pc \in Chosen => Keeps(r) \/ Identify(r)
         /\ req'[r].pc = "identify" => Observe(r)
         /\ req'[r].pc = "switch" => Reconcile(r) /\ ~Outdated(r)
         /\ req'[r].pc = "decide" => Switch(r) \/ (Lock(r) /\ ModeCurrent(r))
         /\ req'[r].pc = "reconcile" => Lock(r)
         /\ req'[r].pc = "admit" => Retire(r) /\ Queueing(r)
         /\ req'[r].pc = "open" => Look(r)
         /\ req'[r].pc = "again" => Open(r)
         /\ req'[r].pc = "confirm" => Again(r)
<1> USE DEF Keeps, Chosen
<1>1. CASE Observe(r) \/ Identify(r) \/ Look(r) \/ Open(r) \/ Again(r) \/ Confirm(r)
  BY <1>1, MoveIs
<1>2. CASE Enter(r)
  BY <1>2, GotIs, GotoIs, OverIs DEF Enter, Keyed
<1>3. CASE Lock(r)
  <2>1. CASE Over(r)
    BY <2>1, OverIs
  <2>2. CASE Goto(r, IF ModeCurrent(r) THEN "decide" ELSE "reconcile")
    <3>1. CASE ModeCurrent(r)
      BY <1>3, <2>2, <3>1, GotoIs DEF Lock, Keyed
    <3>2. CASE ~ModeCurrent(r)
      BY <1>3, <2>2, <3>2, GotoIs DEF Lock, Keyed
    <3> QED
      BY <3>1, <3>2
  <2> QED
    BY <1>3, <2>1, <2>2 DEF Lock
<1>4. CASE Reconcile(r)
  <2>1. CASE Outdated(r)
    BY <1>4, <2>1, OverIs DEF Reconcile
  <2>2. CASE ~Outdated(r)
    BY <1>4, <2>2, GotoIs DEF Reconcile, Keyed
  <2> QED
    BY <2>1, <2>2
<1>5. CASE Switch(r)
  BY <1>5, GotoIs DEF Switch, Keyed
<1>6. CASE Reuse(r)
  BY <1>6, GotIs DEF Reuse, Keyed
<1>7. CASE Retire(r)
  <2>1. Over(r) \/ Queueing(r)
    BY <1>7 DEF Retire, Queueing
  <2>2. req[r].pc = "decide"
    BY <1>7 DEF Retire
  <2> QED
    BY <1>7, <2>1, <2>2, OverIs, QueueingIs
<1>8. CASE Admit(r)
  BY <1>8, OverIs DEF Admit
<1>9. CASE Dies(r)
  BY <1>9, OverIs DEF Dies
<1> QED
  BY <1>1, <1>2, <1>3, <1>4, <1>5, <1>6, <1>7, <1>8, <1>9 DEF Requests

\* Nobody else touches a request.
LEMMA OthersKeepRequests ==
  ASSUME Next, ~\E r \in Request : Requests(r) \/ Dies(r)
  PROVE  req' = req /\ demand' = demand /\ mode' = mode
<1> USE DEF modeVars
<1>1. Administers \/ Erases \/ SpaceChanges \/ (\E k \in Key : Ripen(k)) => req' = req /\ demand' = demand /\ mode' = mode
  BY DEF Administers, RetireObsolete, SetRecipe, AdminDone, AdminDies, RetryFailed, ChangeSetting,
         Erases, EraseFiles, EraseJob, SpaceChanges, Ripen
<1>2. Works \/ Raises \/ GivesUp \/ Unanswered \/ WorkerDies => req' = req /\ demand' = demand /\ mode' = mode
  BY DEF Works, Begin, Recover, Tidy, Tidied, Collects, Claim, Prepare, Prepared, Collected, Generate, Raises,
         Publish, Rename, Ready, Fail, GivesUp, Unanswered, WorkerDies
<1> QED
  BY <1>1, <1>2 DEF Next

\* The demand and the mode change under the lock only.
LEMMA DemandMode ==
  ASSUME TypeOK, LockInv, NEW r \in Request, Requests(r) \/ Dies(r)
  PROVE  /\ demand' \in {demand, demand + 1} /\ setting' = setting
         /\ demand' # demand => holder = r
         /\ mode' = mode \/ (/\ Switch(r) /\ holder = r /\ mode.kind # KindFor(r) /\ mode'.kind = KindFor(r)
                             /\ demand' = demand + 1)
         /\ Switch(r) => mode'.kind = KindFor(r)
<1> USE DEF modeVars, siteVars
<1>1. holder = r <=> req[r].pc \in Locked
  BY DEF LockInv, Doing
<1>2. CASE Switch(r)
  BY <1>1, <1>2 DEF Switch, Locked
<1>3. CASE Reuse(r) \/ Admit(r)
  BY <1>1, <1>3 DEF Reuse, Admit, Locked, Switch
<1>4. CASE Dies(r)
  BY <1>4 DEF Dies, Switch
<1>5. CASE Observe(r) \/ Identify(r) \/ Enter(r) \/ Lock(r) \/ Reconcile(r) \/ Retire(r)
           \/ Look(r) \/ Open(r) \/ Again(r) \/ Confirm(r)
  BY <1>5 DEF Observe, Identify, Enter, Lock, Reconcile, Retire, Look, Open, Again, Confirm, Switch
<1> QED
  BY <1>2, <1>3, <1>4, <1>5 DEF Requests

\* While a request holds the lock, the others wait, give up or read.
LEMMA UnderLock ==
  ASSUME TypeOK, LockInv, Next, NEW r \in Request, holder = r, ~(Requests(r) \/ Dies(r))
  PROVE  /\ UNCHANGED <<recipe, demand, mode, cache, holder>> /\ req'[r] = req[r]
         /\ doomed' \subseteq doomed /\ \A k \in doomed : k \in doomed' \/ job'[k] = NoJob
         /\ \A k \in Key : job'[k] = job[k] \/ Ripens(k) \/ (k \in doomed /\ job'[k] = NoJob)
         /\ \A k \in Key : art'[k] # NoArt /\ art'[k].whole => Complete(k)
<1> USE DEF modeVars, lockVars, siteVars
<1>a. r \notin {Nobody, Admin, Worker}
  BY FileAssumption
<1>b. /\ work.at.pc \notin Locking /\ retiring = {}
      /\ \A q \in Request \ {r} : req[q].pc \notin Locked
  BY <1>a DEF LockInv, Doing
<1>c. ASSUME UNCHANGED job
      PROVE  \A k \in Key : job'[k] = job[k] \/ Ripens(k) \/ (k \in doomed /\ job'[k] = NoJob)
  BY <1>c
<1>d. ASSUME UNCHANGED art
      PROVE  \A k \in Key : art'[k] # NoArt /\ art'[k].whole => Complete(k)
  BY <1>d DEF Complete
<1>1. ASSUME NEW q \in Request \ {r}, Requests(q) \/ Dies(q)
      PROVE  /\ UNCHANGED <<recipe, job, art, demand, mode, cache, holder, doomed>> /\ req'[r] = req[r]
  <2>1. req'[r] = req[r]
    BY <1>1, RequestMoves
  <2>2. ~Reconcile(q) /\ ~Switch(q) /\ ~Reuse(q) /\ ~Retire(q) /\ ~Admit(q) /\ ~Dies(q)
    BY <1>b DEF Reconcile, Switch, Reuse, Retire, Admit, Dies, Locked
  <2>3. UNCHANGED <<recipe, job, art, demand, mode, cache, holder, doomed>>
    BY <1>1, <1>a, <2>2 DEF Requests, Observe, Identify, Enter, Lock, Look, Open, Again, Confirm
  <2> QED
    BY <2>1, <2>3
<1>2. ASSUME Administers
      PROVE  UNCHANGED <<recipe, job, art, demand, mode, cache, holder, doomed, req>>
  <2>1. ~AdminDone /\ ~AdminDies /\ ~RetryFailed
    BY <1>a DEF AdminDone, AdminDies, RetryFailed
  <2>2. \A c \in Challenge : ~RetireObsolete(c) /\ \A new \in Offered : ~SetRecipe(c, new)
    BY <1>a, <1>b DEF RetireObsolete, SetRecipe
  <2> QED
    BY <1>2, <2>1, <2>2 DEF Administers, ChangeSetting
<1>3. ASSUME Works \/ Raises \/ GivesUp \/ Unanswered \/ WorkerDies
      PROVE  /\ UNCHANGED <<recipe, job, demand, mode, cache, holder, doomed, req>>
             /\ \A k \in Key : art'[k] # NoArt /\ art'[k].whole => Complete(k)
  <2>1. ~Recover /\ ~Tidy /\ ~Claim /\ ~Prepared /\ ~Publish /\ ~Fail
    BY <1>a DEF Recover, Tidy, Collects, Claim, Prepared, Publish, Fail
  <2>2. ~Tidied /\ ~Collected /\ ~Rename /\ ~Ready
    BY <1>b DEF Tidied, Collected, Rename, Ready, WorkerAt, Locking
  <2>3. CASE Begin \/ Generate \/ Raises \/ GivesUp \/ Unanswered
    BY <1>d, <2>3 DEF Begin, Generate, Raises, GivesUp, Unanswered
  <2>4. CASE WorkerDies
    BY <1>a, <1>d, <2>4 DEF WorkerDies
  <2>5. CASE Prepare
    <3> DEFINE x == work.at.key
    <3>1. art' = [art EXCEPT ![x] = IF art[x].whole THEN [art[x] EXCEPT !.whole = FALSE] ELSE NoArt]
      BY <2>5 DEF Prepare
    <3>2. x \in Key /\ art[x] \in Files
      BY <2>5, WorkFields DEF Prepare, WorkerAt, Engaged, TypeOK
    <3>3. ~[art[x] EXCEPT !.whole = FALSE].whole
      BY <3>2 DEF Files
    <3>4. \A k \in Key : art'[k] # NoArt /\ art'[k].whole => Complete(k)
      BY <3>1, <3>2, <3>3 DEF Complete, TypeOK
    <3> QED
      BY <2>5, <3>4 DEF Prepare
  <2> QED
    BY <1>3, <2>1, <2>2, <2>3, <2>4, <2>5 DEF Works
<1>4. ASSUME NEW x \in doomed, EraseFiles(x)
      PROVE  /\ UNCHANGED <<recipe, job, demand, mode, cache, holder, doomed, req>>
             /\ \A k \in Key : art'[k] # NoArt /\ art'[k].whole => Complete(k)
  <2>1. x \in Key /\ art' = [art EXCEPT ![x] = [art[x] EXCEPT !.whole = FALSE]] /\ art[x] # NoArt
    BY <1>4 DEF EraseFiles, TypeOK, Complete
  <2>2. ~[art[x] EXCEPT !.whole = FALSE].whole
    BY <2>1 DEF TypeOK, Files
  <2>3. \A k \in Key : art'[k] # NoArt /\ art'[k].whole => Complete(k)
    BY <2>1, <2>2 DEF Complete, TypeOK
  <2> QED
    BY <1>4, <2>3 DEF EraseFiles
<1>5. ASSUME NEW x \in doomed, EraseJob(x)
      PROVE  /\ UNCHANGED <<recipe, demand, mode, cache, holder, req>> /\ doomed' = doomed \ {x}
             /\ job' = [job EXCEPT ![x] = NoJob]
             /\ \A k \in Key : art'[k] # NoArt /\ art'[k].whole => Complete(k)
  BY <1>5 DEF EraseJob, TypeOK, Complete
<1>6. ASSUME NEW x \in doomed, EraseJob(x)
      PROVE  /\ doomed' \subseteq doomed /\ \A k \in doomed : k \in doomed' \/ job'[k] = NoJob
             /\ \A k \in Key : job'[k] = job[k] \/ Ripens(k) \/ (k \in doomed /\ job'[k] = NoJob)
  BY <1>5, <1>6 DEF TypeOK
<1>7. ASSUME NEW x \in Key, Ripen(x)
      PROVE  /\ UNCHANGED <<recipe, art, demand, mode, cache, holder, doomed, req>>
             /\ \A k \in Key : job'[k] = job[k] \/ Ripens(k) \/ (k \in doomed /\ job'[k] = NoJob)
  <2>1. UNCHANGED <<recipe, art, demand, mode, cache, holder, doomed, req>> /\ \A k \in Key \ {x} : job'[k] = job[k]
    BY <1>7 DEF Ripen, TypeOK
  <2>2. job'[x] = job[x] \/ Ripens(x)
    BY <1>7, RipenIs
  <2> QED
    BY <2>1, <2>2
<1>8. CASE SpaceChanges
  BY <1>8, <1>c, <1>d DEF SpaceChanges
<1>9. Administers \/ Erases \/ Works \/ Raises \/ GivesUp \/ Unanswered \/ WorkerDies \/ SpaceChanges
        \/ (\E k \in Key : Ripen(k)) \/ (\E q \in Request \ {r} : Requests(q) \/ Dies(q))
  BY DEF Next
<1> QED
  BY <1>1, <1>2, <1>3, <1>4, <1>5, <1>6, <1>7, <1>8, <1>9, <1>c, <1>d DEF Erases

(***************************************************************************)
(* The order of downloads                                                  *)
(***************************************************************************)

\* No job and no request is ahead of the demand.
OrderInv ==
  /\ \A k \in Jobs : job[k].order <= demand
  /\ \A r \in Request : req[r].pc \in Chosen \cup {"identify"} => req[r].observed <= demand

\* The demand only grows.
LEMMA DemandGrows ==
  ASSUME TypeOK, LockInv, Next
  PROVE  demand' \in {demand, demand + 1} /\ demand \in Nat /\ demand' \in Nat /\ demand <= demand'
<1>1. demand \in Nat
  BY DEF TypeOK
<1>2. demand' \in {demand, demand + 1}
  BY DemandMode, OthersKeepRequests
<1> QED
  BY <1>1, <1>2

\* Orders are drawn from the demand, which is written first.
LEMMA OrderStep ==
  ASSUME FileInv, FileInv', OrderInv, Next
  PROVE  OrderInv'
<1>1. TypeInv /\ TypeOK /\ LockInv /\ AtHand /\ TypeOK'
  BY AtHandHolds DEF FileInv, WorkInv, TypeInv
<1>2. demand \in Nat /\ demand' \in Nat /\ demand <= demand'
  BY <1>1, DemandGrows
<1>3. ASSUME NEW k \in Key, job'[k] # NoJob
      PROVE  job'[k].order <= demand'
  <2>1. Life(k)
    BY <1>1, Lives
  <2>2. job'[k].order \in Nat
    BY <1>1, <1>3 DEF TypeOK, JobRow
  <2>3. CASE k \in Jobs /\ job'[k].order = job[k].order
    BY <1>2, <2>2, <2>3 DEF OrderInv
  <2>4. CASE Promoted(k)
    BY <1>2, <2>4 DEF Promoted
  <2>5. CASE Admitted(k)
    BY <1>2, <2>5 DEF Admitted
  <2>6. \/ k \in Jobs /\ job'[k].order = job[k].order
        \/ Promoted(k) \/ Admitted(k)
    BY <1>3, <2>1 DEF Life, Ripens, Interrupted, Fails, PassedOver, TakenUp, Finishes, Requeued, Erased, Alike, In, Jobs
  <2> QED
    BY <2>3, <2>4, <2>5, <2>6
<1>4. ASSUME NEW r \in Request, req'[r].pc \in Chosen \cup {"identify"}
      PROVE  req'[r].observed <= demand'
  <2>1. CASE req'[r] = req[r]
    <3>1. req[r].observed \in Nat /\ req[r].observed <= demand
      BY <1>1, <1>4, <2>1, ReqFields DEF OrderInv, Chosen, Keyed
    <3> QED
      BY <1>2, <2>1, <3>1
  <2>2. CASE Requests(r) \/ Dies(r)
    <3>1. CASE Observe(r)
      BY <1>1, <1>2, <1>4, <3>1, MoveIs DEF Chosen
    <3>2. CASE Identify(r)
      <4>1. req'[r].observed = req[r].observed /\ req[r].pc = "identify"
        BY <1>1, <3>2, MoveIs DEF Identify
      <4>2. req[r].observed \in Nat /\ req[r].observed <= demand
        BY <1>1, <4>1, ReqFields DEF OrderInv
      <4> QED
        BY <1>2, <4>1, <4>2
    <3>3. CASE Keeps(r)
      <4>1. req'[r].observed = req[r].observed /\ req[r].pc \in Chosen
        BY <3>3 DEF Keeps
      <4>2. req[r].observed \in Nat /\ req[r].observed <= demand
        BY <1>1, <4>1, ReqFields DEF OrderInv, Chosen, Keyed
      <4> QED
        BY <1>2, <4>1, <4>2
    <3> QED
      BY <1>1, <1>4, <2>2, <3>1, <3>2, <3>3, RequestMoves
  <2>3. CASE \E q \in Request \ {r} : Requests(q) \/ Dies(q)
    BY <1>1, <2>1, <2>3, RequestMoves
  <2>4. CASE ~\E q \in Request : Requests(q) \/ Dies(q)
    BY <2>1, <2>4, OthersKeepRequests
  <2> QED
    BY <2>2, <2>3, <2>4
<1> QED
  BY <1>3, <1>4 DEF OrderInv, Jobs

(***************************************************************************)
(* The owner mode                                                          *)
(***************************************************************************)

Finished(k) == job[k].state = "failed" /\ job[k].obsolete

\* A request in the mode of teams knows that the site has changed; one in the mode
\* of users that comes after the store has followed knows too little to take it
\* back; and who switches the mode has retired the jobs of the other.
ModeOf(r) ==
  /\ req[r].pc \in Chosen /\ KindFor(r) = "team" => setting = "team"
  /\ req[r].pc \in Chosen /\ KindFor(r) = "user" /\ mode.kind = "team" => req[r].observed < demand
  /\ req[r].pc \in {"decide", "admit"} => mode.kind = KindFor(r)
  /\ req[r].pc = "switch" =>
       /\ demand > req[r].observed => mode.kind = KindFor(r)
       /\ \A k \in Alien(KindFor(r)) : k \in doomed \/ Finished(k)

ModeInv ==
  /\ mode.kind = "team" => setting = "team"
  /\ \A r \in Request : ModeOf(r)
  /\ OneMode

\* A job that is over stays so, or is removed.
LEMMA FinishedStays ==
  ASSUME FileInv, Next, NEW k \in Key, k \in Jobs, Finished(k), ~Admitted(k)
  PROVE  k \notin Jobs' \/ Finished(k)'
<1>1. TypeInv /\ LockInv /\ AtHand /\ Publishing
  BY AtHandHolds DEF FileInv, WorkInv, TypeInv
<1>2. Life(k)
  BY <1>1, Lives
<1>3. k \notin In({"running", "queued"})
  BY DEF Finished, In
<1>4. ~Finishes(k)
  BY <1>1, <1>3 DEF Finishes, Ready, WorkerAt, Publishing, Mine, In
<1>5. ~Ripens(k) /\ ~Interrupted(k) /\ ~Fails(k) /\ ~PassedOver(k) /\ ~TakenUp(k)
  BY <1>3 DEF Ripens, Interrupted, Fails, PassedOver, TakenUp, In
<1>6. ~Requeued(k)
  BY DEF Requeued, Finished
<1>7. job'[k] = job[k] \/ Promoted(k) \/ job'[k] = NoJob
  BY <1>2, <1>4, <1>5, <1>6 DEF Life, Erased
<1> QED
  BY <1>7 DEF Promoted, Finished, Jobs

\* The owner of a request is of the mode of the site when it looked.
LEMMA KindIs ==
  ASSUME TypeOK, NEW r \in Request
  PROVE  /\ req[r].pc \in Chosen => KindFor(r) \in Kind
         /\ Identify(r) => KindFor(r)' = setting
         /\ Keeps(r) => KindFor(r)' = KindFor(r)
<1>1. req[r].pc \in Chosen => KindFor(r) \in Kind
  BY ReqFields, FileAssumption DEF Chosen, Keyed, Key, KindFor
<1>2. Identify(r) => KindFor(r)' = setting
  BY MoveIs, FileAssumption DEF KindFor, TypeOK
<1> QED
  BY <1>1, <1>2 DEF Keeps, KindFor

\* The site changes its mode once.
LEMMA SettingStays ==
  ASSUME TypeOK, Next
  PROVE  /\ setting' = setting \/ setting' = "team"
         /\ (\E r \in Request : Requests(r) \/ Dies(r)) => setting' = setting
<1> USE DEF siteVars
<1>1. Administers => setting' = setting \/ setting' = "team"
  BY DEF Administers, RetireObsolete, SetRecipe, AdminDone, AdminDies, RetryFailed, ChangeSetting
<1>2. Erases \/ SpaceChanges \/ (\E k \in Key : Ripen(k)) => setting' = setting
  BY DEF Erases, EraseFiles, EraseJob, SpaceChanges, Ripen
<1>3. Works \/ Raises \/ GivesUp \/ Unanswered \/ WorkerDies => setting' = setting
  BY DEF Works, Begin, Recover, Tidy, Tidied, Collects, Claim, Prepare, Prepared, Collected, Generate, Raises,
         Publish, Rename, Ready, Fail, GivesUp, Unanswered, WorkerDies
<1>4. ASSUME NEW r \in Request, Requests(r) \/ Dies(r)
      PROVE  setting' = setting
  BY <1>4 DEF Requests, Dies, Observe, Identify, Enter, Lock, Reconcile, Switch, Reuse, Retire, Admit,
         Look, Open, Again, Confirm
<1> QED
  BY <1>1, <1>2, <1>3, <1>4 DEF Next

\* A request that goes on, whoever moves.
LEMMA ChosenMoves ==
  ASSUME TypeOK, LockInv, Next, NEW r \in Request, req'[r].pc \in Chosen
  PROVE  \/ Keeps(r)
         \/ Identify(r)
<1>1. CASE Requests(r) \/ Dies(r)
  BY <1>1, RequestMoves
<1>2. CASE ~(Requests(r) \/ Dies(r))
  <2>1. req'[r] = req[r]
    BY <1>2, RequestMoves, OthersKeepRequests
  <2> QED
    BY <2>1 DEF Keeps
<1> QED
  BY <1>1, <1>2

\* How the mode changes.
LEMMA ModeMoves ==
  ASSUME TypeOK, LockInv, Next
  PROVE  \/ mode' = mode
         \/ \E q \in Request : /\ Switch(q) /\ holder = q /\ mode.kind # KindFor(q) /\ mode'.kind = KindFor(q)
                               /\ demand' = demand + 1 /\ setting' = setting
<1>1. CASE \E q \in Request : Requests(q) \/ Dies(q)
  BY <1>1, DemandMode
<1>2. CASE ~\E q \in Request : Requests(q) \/ Dies(q)
  BY <1>2, OthersKeepRequests
<1> QED
  BY <1>1, <1>2

\* The mode of teams is for good.
LEMMA ModeForward ==
  ASSUME TypeOK, LockInv, ModeInv, Next, mode.kind = "team"
  PROVE  mode'.kind = "team"
<1>1. SUFFICES ASSUME NEW q \in Request, Switch(q), mode.kind # KindFor(q), mode'.kind = KindFor(q)
               PROVE  FALSE
  BY ModeMoves
<1>2. req[q].pc = "switch" /\ req[q].pc \in Chosen
  BY <1>1 DEF Switch, Chosen
<1>3. KindFor(q) = "user"
  BY <1>1, <1>2, KindIs DEF Kind
<1>4. req[q].observed < demand
  BY <1>2, <1>3 DEF ModeInv, ModeOf
<1>5. req[q].observed \in Nat /\ demand \in Nat
  BY <1>2, ReqFields DEF Keyed, TypeOK
<1>6. demand > req[q].observed
  BY <1>4, <1>5
<1> QED
  BY <1>1, <1>2, <1>6 DEF ModeInv, ModeOf

\* Each request.
LEMMA ModeOfStep ==
  ASSUME FileInv, FileInv', OrderInv, ModeInv, Next, NEW r \in Request, mode'.kind = "team" => setting' = "team"
  PROVE  ModeOf(r)'
<1>a. TypeInv /\ TypeOK /\ LockInv /\ AtHand /\ TypeOK'
  BY AtHandHolds DEF FileInv, WorkInv, TypeInv
<1>b. demand \in Nat /\ demand' \in Nat /\ demand <= demand'
  BY <1>a, DemandGrows
<1>c. holder = r <=> req[r].pc \in Locked
  BY <1>a DEF LockInv, Doing
<1>d. setting' = setting \/ setting' = "team"
  BY <1>a, SettingStays
<1>1. ASSUME req'[r].pc \in Chosen, KindFor(r)' = "team"
      PROVE  setting' = "team"
  <2>1. CASE Keeps(r)
    <3>1. req[r].pc \in Chosen /\ KindFor(r) = "team"
      BY <1>1, <1>a, <2>1, KindIs DEF Keeps
    <3> QED
      BY <1>d, <3>1 DEF ModeInv, ModeOf
  <2>2. CASE Identify(r)
    BY <1>1, <1>a, <1>d, <2>2, KindIs
  <2> QED
    BY <1>1, <1>a, <2>1, <2>2, ChosenMoves
<1>2. ASSUME req'[r].pc \in Chosen, KindFor(r)' = "user", mode'.kind = "team"
      PROVE  req'[r].observed < demand'
  <2>1. CASE Keeps(r)
    <3>1. req[r].pc \in Chosen /\ KindFor(r) = "user" /\ req'[r].observed = req[r].observed
      BY <1>2, <1>a, <2>1, KindIs DEF Keeps
    <3>2. req[r].observed \in Nat /\ req[r].observed <= demand
      BY <1>a, <3>1, ReqFields DEF OrderInv, Chosen, Keyed
    <3>3. CASE mode' = mode
      BY <1>2, <1>b, <3>1, <3>2, <3>3 DEF ModeInv, ModeOf
    <3>4. CASE mode' # mode
      BY <1>a, <1>b, <3>1, <3>2, <3>4, ModeMoves
    <3> QED
      BY <3>3, <3>4
  <2>2. CASE Identify(r)
    <3>1. KindFor(r)' = setting /\ setting = "user"
      BY <1>2, <1>a, <2>2, KindIs
    <3>2. setting' = setting
      BY <1>a, <2>2, SettingStays DEF Requests
    <3> QED
      BY <1>2, <3>1, <3>2
  <2> QED
    BY <1>2, <1>a, <2>1, <2>2, ChosenMoves
<1>3. ASSUME req'[r].pc \in {"decide", "admit"}
      PROVE  mode'.kind = KindFor(r)'
  <2>1. CASE Requests(r) \/ Dies(r)
    <3>1. Keeps(r) /\ KindFor(r)' = KindFor(r)
      <4>1. ~Identify(r)
        BY <1>3, <1>a, MoveIs
      <4> QED
        BY <1>3, <1>a, <2>1, <4>1, RequestMoves, KindIs DEF Chosen
    <3>2. CASE Switch(r)
      BY <1>a, <2>1, <3>1, <3>2, DemandMode
    <3>3. CASE Lock(r) /\ ModeCurrent(r)
      <4>1. mode' = mode
        BY <3>3 DEF Lock, modeVars
      <4> QED
        BY <3>1, <3>3, <4>1 DEF ModeCurrent
    <3>4. CASE Retire(r)
      <4>1. mode' = mode /\ req[r].pc = "decide"
        BY <3>4 DEF Retire, modeVars
      <4> QED
        BY <3>1, <4>1 DEF ModeInv, ModeOf
    <3> QED
      BY <1>3, <1>a, <2>1, <3>2, <3>3, <3>4, RequestMoves
  <2>2. CASE ~(Requests(r) \/ Dies(r))
    <3>1. req'[r] = req[r]
      BY <1>a, <2>2, RequestMoves, OthersKeepRequests
    <3>2. holder = r
      BY <1>3, <1>c, <3>1 DEF Locked
    <3>3. mode' = mode
      BY <1>a, <2>2, <3>2, UnderLock
    <3> QED
      BY <1>3, <3>1, <3>3 DEF ModeInv, ModeOf, KindFor
  <2> QED
    BY <2>1, <2>2
<1>4. ASSUME req'[r].pc = "switch"
      PROVE  /\ demand' > req'[r].observed => mode'.kind = KindFor(r)'
             /\ \A k \in Alien(KindFor(r))' : k \in doomed' \/ Finished(k)'
  <2>1. CASE Requests(r) \/ Dies(r)
    <3>1. Reconcile(r) /\ ~Outdated(r) /\ Keeps(r) /\ KindFor(r)' = KindFor(r)
      <4>1. ~Identify(r)
        BY <1>4, <1>a, MoveIs
      <4> QED
        BY <1>4, <1>a, <2>1, <4>1, RequestMoves, KindIs DEF Chosen
    <3>2. mode' = mode /\ demand' = demand /\ req'[r].observed = req[r].observed
      BY <3>1 DEF Reconcile, modeVars, Keeps
    <3>3. demand' > req'[r].observed => mode'.kind = KindFor(r)'
      BY <3>1, <3>2 DEF Outdated
    <3> DEFINE alien == Alien(KindFor(r))
    <3>4. job' = Mark(alien, TRUE) /\ doomed' = alien \ In({"running"})
      BY <3>1 DEF Reconcile
    <3>5. ASSUME NEW k \in Alien(KindFor(r))'
          PROVE  k \in doomed' \/ Finished(k)'
      <4>1. k \in Key /\ job'[k] # NoJob /\ KindOf[k.owner] # KindFor(r)
        BY <3>1, <3>5 DEF Alien, Jobs
      <4>2. CASE k \in alien \cap In({"running"})
        <5>1. job'[k].state = "failed" /\ job'[k].obsolete
          <6>1. job'[k] = [job[k] EXCEPT !.state = "failed", !.changed = TRUE, !.obsolete = job[k].obsolete \/ TRUE]
            BY <3>4, <4>1, <4>2 DEF Mark
          <6>2. job[k] \in JobRow
            BY <1>a, <4>1, <4>2 DEF In, Jobs, TypeOK
          <6> QED
            BY <6>1, <6>2 DEF JobRow
        <5> QED
          BY <5>1 DEF Finished
      <4>3. CASE k \notin alien \cap In({"running"})
        <5>1. job'[k] = job[k]
          BY <3>4, <4>1, <4>3 DEF Mark
        <5>2. k \in alien
          BY <4>1, <5>1 DEF Alien, Jobs
        <5> QED
          BY <3>4, <4>3, <5>2
      <4> QED
        BY <4>2, <4>3
    <3> QED
      BY <3>3, <3>5
  <2>2. CASE ~(Requests(r) \/ Dies(r))
    <3>1. req'[r] = req[r] /\ req[r].pc = "switch"
      BY <1>4, <1>a, <2>2, RequestMoves, OthersKeepRequests
    <3>2. holder = r
      BY <1>c, <3>1 DEF Locked
    <3>3. mode' = mode /\ demand' = demand /\ KindFor(r)' = KindFor(r)
      BY <1>a, <2>2, <3>1, <3>2, UnderLock DEF KindFor
    <3>4. demand' > req'[r].observed => mode'.kind = KindFor(r)'
      BY <3>1, <3>3 DEF ModeInv, ModeOf
    <3>5. ASSUME NEW k \in Alien(KindFor(r))'
          PROVE  k \in doomed' \/ Finished(k)'
      <4>1. k \in Key /\ job'[k] # NoJob /\ KindOf[k.owner] # KindFor(r)
        BY <3>3, <3>5 DEF Alien, Jobs
      <4>2. job'[k] = job[k] \/ Ripens(k)
        BY <1>a, <2>2, <3>2, <4>1, UnderLock
      <4>3. k \in Jobs /\ k \in Alien(KindFor(r))
        BY <4>1, <4>2 DEF Ripens, Alike, Alien, Jobs
      <4>4. k \in doomed \/ Finished(k)
        BY <3>1, <4>3 DEF ModeInv, ModeOf
      <4>5. k \in doomed => k \in doomed'
        BY <1>a, <2>2, <3>2, <4>1, UnderLock
      <4>6. Finished(k) => Finished(k)'
        BY <4>2 DEF Ripens, In, Finished
      <4> QED
        BY <4>4, <4>5, <4>6
    <3> QED
      BY <3>4, <3>5
  <2> QED
    BY <2>1, <2>2
<1> QED
  BY <1>1, <1>2, <1>3, <1>4 DEF ModeOf

\* Requests on their way from before the change of the mode are refused, or find the new one.
LEMMA ModeStep ==
  ASSUME FileInv, FileInv', OrderInv, ModeInv, Next
  PROVE  ModeInv'
<1>a. TypeInv /\ TypeOK /\ LockInv /\ AtHand
  BY AtHandHolds DEF FileInv, WorkInv, TypeInv
<1>1. mode'.kind = "team" => setting' = "team"
  <2>1. CASE mode' = mode
    BY <1>a, <2>1, SettingStays DEF ModeInv
  <2>2. ASSUME NEW q \in Request, Switch(q), mode'.kind = KindFor(q), setting' = setting
        PROVE  mode'.kind = "team" => setting' = "team"
    BY <2>2 DEF ModeInv, ModeOf, Switch, Chosen
  <2> QED
    BY <1>a, <2>1, <2>2, ModeMoves
<1>2. \A r \in Request : ModeOf(r)'
  BY <1>1, ModeOfStep
<1>3. OneMode'
  <2>1. SUFFICES ASSUME NEW k \in Key, job'[k] # NoJob, KindOf[k.owner] # mode'.kind
                 PROVE  Finished(k)'
    BY DEF OneMode, Alien, Jobs, Finished
  <2>2. CASE mode' = mode
    <3>1. ~Admitted(k)
      <4> SUFFICES ASSUME NEW q \in Request, Admit(q), k = req[q].key
                   PROVE  FALSE
        BY DEF Admitted
      <4>1. req[q].pc = "admit"
        BY DEF Admit
      <4> QED
        BY <2>1, <2>2, <4>1 DEF ModeInv, ModeOf, KindFor
    <3>2. k \in Jobs
      BY <1>a, <2>1, <3>1, Lives, StillThere DEF Jobs
    <3>3. Finished(k)
      BY <2>1, <2>2, <3>2 DEF ModeInv, OneMode, Alien, Finished
    <3> QED
      BY <2>1, <3>1, <3>2, <3>3, FinishedStays DEF Jobs
  <2>3. ASSUME NEW q \in Request, Switch(q), mode'.kind = KindFor(q)
        PROVE  Finished(k)'
    <3>1. job' = job /\ doomed = {} /\ req[q].pc = "switch"
      BY <2>3 DEF Switch
    <3>2. k \in Alien(KindFor(q))
      BY <2>1, <2>3, <3>1 DEF Alien, Jobs
    <3>3. Finished(k)
      BY <3>1, <3>2 DEF ModeInv, ModeOf
    <3> QED
      BY <3>1, <3>3 DEF Finished
  <2> QED
    BY <1>a, <2>2, <2>3, ModeMoves
<1> QED
  BY <1>1, <1>2, <1>3 DEF ModeInv

StoreInv == FileInv /\ OrderInv /\ ModeInv

\* All this holds of every reachable state.
LEMMA StoreInvariant == Spec => []StoreInv
<1>1. Init => OrderInv /\ ModeInv
  <2> SUFFICES ASSUME Init
               PROVE  OrderInv /\ ModeInv
    OBVIOUS
  <2>1. Jobs = {} /\ mode.kind = "none" /\ \A r \in Request : req[r].pc = "idle"
    BY DEF Init, Jobs, NoMode, Quiet
  <2>2. OrderInv
    BY <2>1 DEF OrderInv, Chosen
  <2>3. ModeInv
    BY <2>1 DEF ModeInv, ModeOf, OneMode, Alien, Chosen
  <2> QED
    BY <2>2, <2>3
<1>2. FileInv /\ FileInv' /\ OrderInv /\ ModeInv /\ [Next]_vars => OrderInv' /\ ModeInv'
  <2>1. OrderInv /\ ModeInv /\ UNCHANGED vars => OrderInv' /\ ModeInv'
    BY DEF OrderInv, ModeInv, ModeOf, OneMode, Alien, Jobs, Finished, KindFor, vars, modeVars, lockVars, siteVars
  <2> QED
    BY <2>1, OrderStep, ModeStep
<1> QED
  BY <1>1, <1>2, FileInvariant, PTL DEF StoreInv, Spec

\* A job of the mode that is over has failed for good, whatever was under way
\* when the store followed the site.
THEOREM JobsOfOneMode == Spec => []OneMode
  BY StoreInvariant, PTL DEF StoreInv, ModeInv

\* The store follows the site once, and no request that found its owner before
\* the change takes it back.
THEOREM ModeIsForGood == Spec => ModeSettles
<1>1. StoreInv /\ [Next]_vars => [mode.kind = "team" => mode'.kind = "team"]_vars
  <2>1. StoreInv /\ Next => (mode.kind = "team" => mode'.kind = "team")
    BY ModeForward DEF StoreInv, FileInv, TypeInv
  <2> QED
    BY <2>1
<1> QED
  BY <1>1, StoreInvariant, PTL DEF Spec, ModeSettles

(***************************************************************************)
(* Requests in advance and downloads                                       *)
(***************************************************************************)

\* Whoever holds the lock asks for the recipe that is in force, and what it is
\* about to queue is not a job that can be used.
Yields(r) ==
  /\ req[r].pc \in Locked => Fits(req[r].key)
  /\ req[r].pc = "admit" => ~Reusable(req[r].key)

YieldInv == \A r \in Request : Yields(r)

\* What retiring does to the jobs.
LEMMA RetireMarks ==
  ASSUME TypeOK, NEW r \in Request, Retire(r), NEW k \in Key, k \notin SameIdentity(req[r].key),
         k.challenge = req[r].key.challenge => k.recipe = req[r].key.recipe
  PROVE  job'[k] = job[k]
<1> DEFINE others == {x \in Jobs : x.challenge = req[r].key.challenge /\ x.recipe # req[r].key.recipe} \ In({"ready"})
           rest   == SameIdentity(req[r].key) \ others
<1>1. \/ UNCHANGED job
      \/ job' = [x \in Key |-> IF x \in others THEN Mark(others, FALSE)[x] ELSE Mark(rest, TRUE)[x]]
  BY DEF Retire
<1>2. k \notin others /\ k \notin rest
  OBVIOUS
<1> HIDE DEF others, rest
<1>3. Mark(rest, TRUE)[k] = job[k]
  BY <1>2, Marked
<1> QED
  BY <1>1, <1>2, <1>3

\* A job that cannot be used is not made usable by time or by what others remove.
LEMMA StillUnusable ==
  ASSUME TypeOK, NEW k \in Key, ~Reusable(k), job'[k] = job[k] \/ Ripens(k) \/ job'[k] = NoJob,
         art'[k] # NoArt /\ art'[k].whole => Complete(k)
  PROVE  ~Reusable(k)'
<1>1. CASE job'[k] = job[k]
  BY <1>1 DEF Reusable, Complete
<1>2. ~Ripens(k)
  BY DEF Ripens, In, Jobs, Reusable
<1>3. CASE job'[k] = NoJob
  BY <1>3 DEF Reusable
<1> QED
  BY <1>1, <1>2, <1>3

\* What a request in advance knows of downloads stays true while it has the lock.
LEMMA YieldStep ==
  ASSUME TypeOK, LockInv, YieldInv, Next, NEW r \in Request
  PROVE  Yields(r)'
<1>a. holder = r <=> req[r].pc \in Locked
  BY DEF LockInv, Doing
<1>1. CASE Requests(r) \/ Dies(r)
  <2> SUFFICES ASSUME req'[r].pc \in Locked
               PROVE  Yields(r)'
    BY DEF Yields, Locked
  <2>1. recipe' = recipe
    BY <1>1 DEF Requests, Dies, Observe, Identify, Enter, Lock, Reconcile, Switch, Reuse, Retire, Admit,
                Look, Open, Again, Confirm
  <2>2. Keeps(r)
    <3>1. ~Identify(r)
      BY MoveIs DEF Locked
    <3> QED
      BY <1>1, <3>1, RequestMoves DEF Chosen, Locked
  <2>3. Fits(req[r].key)
    <3>1. CASE Lock(r)
      <4>1. CASE Over(r)
        BY <4>1, OverIs DEF Locked
      <4> QED
        BY <3>1, <4>1 DEF Lock
    <3>2. CASE Reconcile(r) \/ Switch(r) \/ Retire(r)
      BY <3>2 DEF YieldInv, Yields, Reconcile, Switch, Retire, Locked
    <3> QED
      BY <1>1, <3>1, <3>2, RequestMoves DEF Locked
  <2>4. Fits(req[r].key)'
    BY <2>1, <2>2, <2>3 DEF Fits, Keeps
  <2>5. ASSUME req'[r].pc = "admit"
        PROVE  ~Reusable(req[r].key)'
    <3>1. Retire(r)
      BY <1>1, <2>5, RequestMoves
    <3>2. ~Reusable(req[r].key) /\ art' = art /\ req[r].pc = "decide"
      BY <3>1 DEF Retire
    <3>3. req[r].key \in Key
      BY <3>2, ReqFields DEF Keyed
    <3>4. job'[req[r].key] = job[req[r].key]
      BY <3>1, <3>3, RetireMarks DEF SameIdentity
    <3>5. req'[r].key = req[r].key
      BY <2>2 DEF Keeps
    <3> QED
      BY <3>2, <3>4, <3>5 DEF Reusable, Complete
  <2> QED
    BY <2>4, <2>5 DEF Yields
<1>2. CASE ~(Requests(r) \/ Dies(r))
  <2>1. req'[r] = req[r]
    BY <1>2, RequestMoves, OthersKeepRequests
  <2>2. CASE req[r].pc \notin Locked
    BY <2>1, <2>2 DEF Yields, Locked
  <2>3. CASE req[r].pc \in Locked
    <3> DEFINE k == req[r].key
    <3>1. k \in Key
      BY <2>3, ReqFields DEF Locked, Keyed
    <3>2. /\ recipe' = recipe
          /\ job'[k] = job[k] \/ Ripens(k) \/ job'[k] = NoJob
          /\ art'[k] # NoArt /\ art'[k].whole => Complete(k)
      BY <1>a, <1>2, <2>3, <3>1, UnderLock
    <3>3. Fits(k) /\ (req[r].pc = "admit" => ~Reusable(k))
      BY <2>3 DEF YieldInv, Yields
    <3>4. Fits(k)'
      BY <2>1, <3>2, <3>3 DEF Fits
    <3>5. ~Reusable(k) => ~Reusable(k)'
      <4>1. req'[r].key = req[r].key
        BY <2>1
      <4> QED
        BY <3>1, <3>2, <4>1, StillUnusable DEF Reusable, Complete
    <3> QED
      BY <2>1, <3>3, <3>4, <3>5 DEF Yields
  <2> QED
    BY <2>2, <2>3
<1> QED
  BY <1>1, <1>2

\* It holds of every reachable state.
LEMMA YieldInvariant == Spec => []YieldInv
<1>1. Init => YieldInv
  BY DEF Init, Quiet, YieldInv, Yields, Locked
<1>2. StoreInv /\ YieldInv /\ [Next]_vars => YieldInv'
  <2>1. YieldInv /\ UNCHANGED vars => YieldInv'
    BY DEF YieldInv, Yields, Reusable, Complete, Fits, vars
  <2>2. StoreInv => TypeOK /\ LockInv
    BY DEF StoreInv, FileInv, TypeInv
  <2> QED
    BY <2>1, <2>2, YieldStep DEF YieldInv
<1> QED
  BY <1>1, <1>2, StoreInvariant, PTL DEF Spec

\* A request in advance, step by step, and a job that a download asked for since
\* it looked at the demand.
Spared(k) == job'[k] # NoJob /\ job'[k].state = job[k].state /\ k \notin doomed'

\* No step of a request in advance is at the expense of a job that a download wants.
LEMMA DownloadsSpared ==
  ASSUME StoreInv, YieldInv, Next, NEW r \in Background, holder = r, NEW k \in Jobs, Wanted(k, r)
  PROVE  Spared(k)
<1>a. TypeOK /\ LockInv /\ OrderInv /\ r \in Request
  BY FileAssumption DEF StoreInv, FileInv, TypeInv
<1>b. req[r].pc \in Locked
  BY <1>a DEF LockInv, Doing
<1>c. k \in Key /\ job[k] # NoJob /\ k \notin doomed /\ ~job[k].background /\ ~job[k].obsolete /\ Fits(k)
      /\ Reusable(k) /\ job[k].order > req[r].observed /\ job[k].state \in {"queued", "running", "ready"}
  BY DEF Wanted, Jobs, In
<1>d. demand > req[r].observed
  <2>1. job[k] \in JobRow
    BY <1>a, <1>c DEF TypeOK
  <2>2. job[k].order \in Nat /\ demand \in Nat /\ req[r].observed \in Nat
    BY <1>a, <1>b, <2>1, ReqFields DEF JobRow, TypeOK, Locked, Keyed
  <2>3. job[k].order <= demand
    BY <1>a DEF OrderInv
  <2> QED
    BY <1>c, <2>2, <2>3
<1>e. ASSUME UNCHANGED job, doomed' \subseteq doomed
      PROVE  Spared(k)
  BY <1>c, <1>e DEF Spared
<1>1. CASE Reconcile(r)
  <2>1. Outdated(r)
    BY <1>d DEF Outdated
  <2> QED
    BY <1>1, <1>e, <2>1 DEF Reconcile, Unlock
<1>2. CASE Switch(r)
  BY <1>2, <1>e DEF Switch, lockVars
<1>3. CASE Reuse(r)
  BY <1>3, <1>e DEF Reuse, Promotes, Unlock
<1>4. CASE Retire(r)
  <2> DEFINE key    == req[r].key
             others == {x \in Jobs : x.challenge = key.challenge /\ x.recipe # key.recipe} \ In({"ready"})
             mine   == SameIdentity(key)
             gone   == ((others \cup mine) \ In({"running"})) \cup (others \cap mine)
  <2>1. CASE Contested(r)
    BY <1>4, <1>e, <2>1 DEF Retire, Unlock
  <2>2. CASE ~Contested(r)
    <3>1. k \notin mine
      BY <1>c, <2>2 DEF Contested, Pending, In, Jobs
    <3>2. k.challenge = key.challenge => k.recipe = key.recipe
      BY <1>a, <1>b, <1>c DEF YieldInv, Yields, Fits
    <3>3. k \notin gone
      BY <3>1, <3>2
    <3>4. job'[k] = job[k]
      BY <1>4, <1>a, <1>c, <3>1, <3>2, RetireMarks
    <3>5. k \notin Collectable(job')
      BY <1>c, <3>4 DEF Collectable
    <3>6. doomed' \subseteq gone \cup Collectable(job')
      BY <1>4, <2>2 DEF Retire
    <3> QED
      BY <1>c, <3>3, <3>4, <3>5, <3>6 DEF Spared
  <2> QED
    BY <2>1, <2>2
<1>5. CASE Admit(r)
  <2>1. k # req[r].key
    BY <1>5, <1>a, <1>c DEF YieldInv, Yields, Admit
  <2>2. job'[k] = job[k]
    BY <1>5, <1>a, <1>c, <2>1 DEF Admit, TypeOK
  <2>3. doomed' = doomed
    BY <1>5 DEF Admit, Unlock
  <2> QED
    BY <1>c, <2>2, <2>3 DEF Spared
<1>6. CASE Dies(r)
  BY <1>6, <1>e DEF Dies
<1>7. CASE ~(Requests(r) \/ Dies(r))
  <2>1. job'[k] = job[k] \/ Ripens(k)
    BY <1>7, <1>a, <1>c, UnderLock
  <2>2. doomed' \subseteq doomed
    BY <1>7, <1>a, UnderLock
  <2>3. job'[k] # NoJob /\ job'[k].state = job[k].state
    BY <1>c, <2>1 DEF Ripens, Alike, In
  <2> QED
    BY <1>c, <2>2, <2>3 DEF Spared
<1>8. ~Observe(r) /\ ~Identify(r) /\ ~Enter(r) /\ ~Lock(r) /\ ~Look(r) /\ ~Open(r) /\ ~Again(r) /\ ~Confirm(r)
  BY <1>b DEF Locked, Observe, Identify, Enter, Lock, Look, Open, Again, Confirm
<1> QED
  BY <1>1, <1>2, <1>3, <1>4, <1>5, <1>6, <1>7, <1>8 DEF Requests

\* A request in advance, however long ago it read its owner, neither retires nor
\* removes what a download asked for since.
THEOREM RequestsInAdvanceYield == Spec => BackgroundYields
<1> DEFINE A == \A r \in Background : holder = r =>
                  \A k \in Jobs : Wanted(k, r) =>
                    job'[k] # NoJob /\ job'[k].state = job[k].state /\ k \notin doomed'
<1>1. StoreInv /\ YieldInv /\ [Next]_vars => [A]_vars
  <2>1. StoreInv /\ YieldInv /\ Next => A
    BY DownloadsSpared DEF Spared
  <2> QED
    BY <2>1
<1>2. BackgroundYields <=> [][A]_vars
  BY DEF BackgroundYields
<1> HIDE DEF A
<1> QED
  BY <1>1, <1>2, StoreInvariant, YieldInvariant, PTL DEF Spec

(***************************************************************************)
(* Downloads without the lock                                              *)
(***************************************************************************)

\* The files under a key whose job is ready are those of the job.
Genuine == \A k \in In({"ready"}) : art[k] # NoArt => art[k].gen = job[k].gen

\* A download that has read a job that was ready: the key is not being made
\* again with the same token, and while it has this token the file that was
\* opened is the job's.
Reads(r) ==
  LET k == req[r].key
  IN /\ req[r].pc \in {"open", "again"} =>
          /\ req[r].current.state = "ready" /\ req[r].current.gen \in Gen
          /\ k \in In({"running"}) => job[k].gen # req[r].current.gen
     /\ req[r].pc = "again" /\ k \in In({"ready"}) /\ job[k].gen = req[r].current.gen =>
          req[r].file = req[r].current.gen

DownInv == Genuine /\ \A r \in Request : Reads(r)

\* A job that is ready was so, or has been published.
LEMMA StillReady ==
  ASSUME FileInv, Next, NEW k \in Key, k \in In({"ready"})'
  PROVE  \/ k \in In({"ready"}) /\ job'[k].gen = job[k].gen
         \/ /\ Finishes(k) /\ k \in In({"running"}) /\ job'[k].gen = job[k].gen
            /\ job[k].gen = work.at.gen /\ work.at.pc = "ready"
<1>1. TypeInv /\ LockInv /\ AtHand /\ Publishing
  BY AtHandHolds DEF FileInv, WorkInv, TypeInv
<1>2. Life(k)
  BY <1>1, Lives
<1>3. k \in Key /\ job'[k] # NoJob /\ job'[k].state = "ready"
  BY DEF In, Jobs
<1>4. CASE job'[k] = job[k]
  BY <1>3, <1>4 DEF In, Jobs
<1>5. CASE Promoted(k)
  BY <1>3, <1>5 DEF Promoted, In
<1>6. CASE Finishes(k)
  BY <1>1, <1>6 DEF Finishes, Alike, Ready, WorkerAt, Publishing, Mine
<1>7. ~Ripens(k) /\ ~Interrupted(k) /\ ~Fails(k) /\ ~PassedOver(k) /\ ~TakenUp(k) /\ ~Requeued(k)
      /\ ~Admitted(k) /\ ~Erased(k)
  BY <1>3 DEF Ripens, Interrupted, Fails, PassedOver, TakenUp, Requeued, Admitted, Erased
<1> QED
  BY <1>2, <1>4, <1>5, <1>6, <1>7 DEF Life

\* A job is ready only with the files of its generation in place.
LEMMA GenuineStep ==
  ASSUME FileInv, Genuine, Next
  PROVE  Genuine'
<1>1. TypeOK /\ Publishing /\ Placed
  BY DEF FileInv, WorkInv, TypeInv
<1> SUFFICES ASSUME NEW k \in Key, k \in In({"ready"})', art'[k] # NoArt
             PROVE  art'[k].gen = job'[k].gen
  BY DEF Genuine, In, Jobs
<1>2. CASE k \in In({"ready"}) /\ job'[k].gen = job[k].gen
  <2>1. ~(Rename /\ k = work.at.key)
    BY <1>1, <1>2 DEF Rename, WorkerAt, Publishing, Mine, In
  <2>2. art[k] # NoArt /\ art'[k].gen = art[k].gen
    BY <1>1, <2>1, ArtSource
  <2> QED
    BY <1>2, <2>2 DEF Genuine
<1>3. CASE Finishes(k) /\ job'[k].gen = job[k].gen /\ job[k].gen = work.at.gen /\ work.at.pc = "ready"
  <2>1. art' = art /\ k = work.at.key
    BY <1>3 DEF Finishes, Ready
  <2>2. art[k] = [gen |-> work.at.gen, whole |-> TRUE]
    BY <1>1, <1>3, <2>1 DEF Placed
  <2> QED
    BY <1>3, <2>1, <2>2
<1> QED
  BY <1>2, <1>3, StillReady

\* What a download has read and opened stays genuine, or it will see the change.
LEMMA ReadsStep ==
  ASSUME FileInv, DownInv, Next, NEW r \in Request
  PROVE  Reads(r)'
<1>a. TypeInv /\ TypeOK /\ LockInv /\ AtHand /\ Tokens
  BY AtHandHolds DEF FileInv, WorkInv, TypeInv
<1>1. CASE req'[r] = req[r]
  <2> SUFFICES ASSUME req[r].pc \in {"open", "again"}
               PROVE  Reads(r)'
    BY <1>1 DEF Reads
  <2> DEFINE k == req[r].key
  <2>1. k \in Key /\ req'[r].key = k
    BY <1>a, <1>1, ReqFields
  <2>2. /\ req[r].current.state = "ready" /\ req[r].current.gen \in Gen
        /\ k \in In({"running"}) => job[k].gen # req[r].current.gen
    BY DEF DownInv, Reads
  <2>3. ASSUME k \in In({"running"})'
        PROVE  job'[k].gen # req[r].current.gen
    <3>1. Life(k)
      BY <1>a, <2>1, Lives
    <3>2. CASE k \in In({"running"}) /\ job'[k].gen = job[k].gen
      BY <2>2, <3>2
    <3>3. CASE TakenUp(k)
      BY <3>3 DEF TakenUp, Fresh
    <3> QED
      BY <1>1, <2>1, <2>3, <3>1, <3>2, <3>3, StillRunning DEF In, Jobs
  <2>4. ASSUME req[r].pc = "again", k \in In({"ready"})', job'[k].gen = req[r].current.gen
        PROVE  req[r].file = req[r].current.gen
    <3>1. CASE k \in In({"ready"}) /\ job'[k].gen = job[k].gen
      BY <2>4, <3>1 DEF DownInv, Reads
    <3>2. CASE k \in In({"running"}) /\ job'[k].gen = job[k].gen
      BY <2>2, <2>4, <3>2
    <3> QED
      BY <1>1, <2>1, <2>4, <3>1, <3>2, StillReady DEF In, Jobs
  <2> QED
    BY <1>1, <2>1, <2>2, <2>3, <2>4 DEF Reads, In, Jobs
<1>2. CASE Requests(r) \/ Dies(r)
  <2>1. CASE Look(r) /\ req'[r].pc = "open"
    <3>1. /\ req'[r].key = req[r].key /\ req[r].key \in In({"ready"}) /\ req'[r].current = job[req[r].key]
          /\ job' = job
      BY <1>a, <2>1, MoveIs
    <3>2. job[req[r].key].gen \in Gen
      BY <1>a, <3>1 DEF Tokens, In
    <3> QED
      BY <2>1, <3>1, <3>2 DEF Reads, In, Jobs
  <2>2. CASE Open(r) /\ req'[r].pc = "again"
    <3>1. /\ req'[r].key = req[r].key /\ art[req[r].key] # NoArt /\ req'[r].current = req[r].current
          /\ req'[r].file = art[req[r].key].gen /\ job' = job /\ req[r].pc = "open"
      BY <1>a, <2>2, MoveIs DEF Open
    <3>2. req[r].key \in In({"ready"}) => art[req[r].key].gen = job[req[r].key].gen
      BY <3>1 DEF DownInv, Genuine
    <3> QED
      BY <2>2, <3>1, <3>2 DEF DownInv, Reads, In, Jobs
  <2>3. CASE req'[r].pc \notin {"open", "again"}
    BY <2>3 DEF Reads
  <2> QED
    BY <1>a, <1>2, <2>1, <2>2, <2>3, RequestMoves
<1>3. CASE ~(Requests(r) \/ Dies(r))
  BY <1>a, <1>1, <1>3, RequestMoves, OthersKeepRequests
<1> QED
  BY <1>2, <1>3

\* Both hold of every reachable state.
LEMMA DownInvariant == Spec => []DownInv
<1>1. Init => DownInv
  BY DEF Init, Quiet, DownInv, Genuine, Reads, In, Jobs
<1>2. FileInv /\ DownInv /\ [Next]_vars => DownInv'
  <2>1. DownInv /\ UNCHANGED vars => DownInv'
    BY DEF DownInv, Genuine, Reads, In, Jobs, vars
  <2>2. FileInv /\ DownInv /\ Next => DownInv'
    BY GenuineStep, ReadsStep DEF DownInv
  <2> QED
    BY <2>1, <2>2
<1> QED
  BY <1>1, <1>2, FileInvariant, PTL DEF Spec

(***************************************************************************)
(* The refinement                                                          *)
(***************************************************************************)

Pub(k) == IF job[k] # NoJob /\ job[k].state = "ready" THEN job[k].gen ELSE NoGen
Had(r) == IF req[r].pc = "confirm" THEN <<req[r].key, req[r].file>> ELSE <<>>

Published == [k \in Key |-> Pub(k)]
Handle    == [r \in Request |-> Had(r)]

\* The steps of the promise in terms of the mapping.
LEMMA Promises ==
  /\ Published = [k \in Key |-> NoGen] /\ Handle = [r \in Request |-> <<>>] => Abstract!DownloadInit
  /\ \A k \in Key, g \in Gen : Published[k] = NoGen /\ Published' = [Published EXCEPT ![k] = g] /\ Handle' = Handle
                                 => Abstract!Publish(k, g)
  /\ \A k \in Key : Published' = [Published EXCEPT ![k] = NoGen] /\ Handle' = Handle => Abstract!Withdraw(k)
  /\ \A r \in Request, k \in Key :
       /\ Handle[r] = <<>> /\ Published[k] # NoGen
       /\ Handle' = [Handle EXCEPT ![r] = <<k, Published[k]>>] /\ Published' = Published
       => Abstract!Take(r, k)
  /\ \A r \in Request : Handle' = [Handle EXCEPT ![r] = <<>>] /\ Published' = Published => Abstract!Drop(r)
  /\ Published' = Published /\ Handle' = Handle => UNCHANGED Abstract!downloadVars
<1> USE DEF Published, Handle, Pub, Had
<1> QED
  BY DEF Abstract!DownloadInit, Abstract!Publish, Abstract!Withdraw, Abstract!Take, Abstract!Drop,
         Abstract!NoHandle, Abstract!downloadVars

\* What becomes of what is published under a key.
LEMMA PubMoves ==
  ASSUME FileInv, Next, NEW k \in Key
  PROVE  \/ Pub(k)' = Pub(k)
         \/ Finishes(k) /\ Pub(k) = NoGen /\ Pub(k)' \in Gen
         \/ Erased(k) /\ Pub(k)' = NoGen
         \/ Admitted(k) /\ Pub(k)' = NoGen
<1>1. TypeInv /\ LockInv /\ AtHand /\ Tokens
  BY AtHandHolds DEF FileInv, WorkInv, TypeInv
<1>2. CASE k \in In({"ready"})'
  <2>1. CASE k \in In({"ready"}) /\ job'[k].gen = job[k].gen
    BY <1>2, <2>1 DEF Pub, In, Jobs
  <2>2. CASE Finishes(k) /\ k \in In({"running"}) /\ job'[k].gen = job[k].gen
    BY <1>1, <1>2, <2>2 DEF Pub, In, Jobs, Tokens
  <2> QED
    BY <1>2, <2>1, <2>2, StillReady
<1>3. CASE k \notin In({"ready"})'
  <2>1. Pub(k)' = NoGen
    BY <1>3 DEF Pub, In, Jobs
  <2>2. CASE k \notin In({"ready"})
    BY <2>1, <2>2 DEF Pub, In, Jobs
  <2>3. CASE k \in In({"ready"})
    <3>1. Life(k)
      BY <1>1, Lives
    <3>2. job'[k] # job[k]
      BY <1>3, <2>3 DEF In, Jobs
    <3>3. ~Promoted(k)
      BY <2>3 DEF Promoted, Promotes, Pending, In
    <3>4. ~Finishes(k)
      BY <1>3 DEF Finishes, Alike, In, Jobs
    <3>5. ~Ripens(k) /\ ~Interrupted(k) /\ ~Fails(k) /\ ~PassedOver(k) /\ ~TakenUp(k) /\ ~Requeued(k)
      BY <2>3 DEF Ripens, Interrupted, Fails, PassedOver, TakenUp, Requeued, In
    <3> QED
      BY <2>1, <3>1, <3>2, <3>3, <3>4, <3>5 DEF Life
  <2> QED
    BY <2>2, <2>3
<1> QED
  BY <1>2, <1>3

\* What becomes of what a download has in hand.
LEMMA HadMoves ==
  ASSUME StoreInv, DownInv, Next
  PROVE  \/ Handle' = Handle
         \/ \E r \in Request : /\ Again(r) /\ Pub(req[r].key) # NoGen /\ req[r].key \in Key
                               /\ Handle[r] = <<>>
                               /\ Handle' = [Handle EXCEPT ![r] = <<req[r].key, Pub(req[r].key)>>]
         \/ \E r \in Request : Confirm(r) /\ Handle' = [Handle EXCEPT ![r] = <<>>]
<1>a. TypeOK /\ LockInv
  BY DEF StoreInv, FileInv, TypeInv
<1>1. CASE ~\E r \in Request : Requests(r) \/ Dies(r)
  BY <1>1, OthersKeepRequests DEF Handle, Had
<1>2. ASSUME NEW r \in Request, Requests(r) \/ Dies(r)
      PROVE  \/ Handle' = Handle
             \/ /\ Again(r) /\ Pub(req[r].key) # NoGen /\ req[r].key \in Key /\ Handle[r] = <<>>
                /\ Handle' = [Handle EXCEPT ![r] = <<req[r].key, Pub(req[r].key)>>]
             \/ Confirm(r) /\ Handle' = [Handle EXCEPT ![r] = <<>>]
  <2>1. \A q \in Request \ {r} : Had(q)' = Had(q)
    BY <1>a, <1>2, RequestMoves DEF Had
  <2>2. Handle' = [Handle EXCEPT ![r] = Had(r)']
    <3> HIDE DEF Had
    <3> QED
      BY <2>1 DEF Handle
  <2>3. CASE Confirm(r)
    <3>1. Had(r)' = <<>>
      BY <1>a, <2>3, MoveIs DEF Had
    <3> QED
      BY <2>2, <2>3, <3>1
  <2>4. CASE Again(r) /\ req'[r].pc = "confirm"
    <3> DEFINE k == req[r].key
    <3>1. /\ req'[r].key = k /\ req'[r].file = req[r].file /\ job[k] = req[r].current
          /\ req[r].pc = "again"
      BY <1>a, <2>4, MoveIs DEF Again
    <3>2. k \in Key /\ req[r].current \in JobRow
      BY <1>a, <3>1, ReqFields
    <3>3. req[r].current.state = "ready" /\ req[r].current.gen \in Gen
      BY <3>1 DEF DownInv, Reads
    <3>4. k \in In({"ready"})
      BY <3>1, <3>2, <3>3, NoneAssumption DEF In, Jobs
    <3>5. req[r].file = job[k].gen
      BY <3>1, <3>4 DEF DownInv, Reads
    <3>6. Pub(k) = job[k].gen /\ Pub(k) # NoGen
      BY <3>1, <3>3, <3>4, FileAssumption DEF Pub, In, Jobs
    <3>7. Had(r)' = <<k, Pub(k)>> /\ Handle[r] = <<>>
      BY <2>4, <3>1, <3>5, <3>6 DEF Had, Handle
    <3> QED
      BY <2>2, <2>4, <3>2, <3>6, <3>7
  <2>5. CASE ~Confirm(r) /\ req'[r].pc # "confirm"
    <3>1. req[r].pc # "confirm"
      <4>1. Dies(r) => req[r].pc \in Locked
        BY <1>a DEF Dies, LockInv, Doing
      <4> QED
        BY <1>2, <2>5, <4>1 DEF Locked, Requests, Observe, Identify, Enter, Lock, Reconcile, Switch, Reuse,
                                Retire, Admit, Look, Open, Again
    <3>2. Had(r)' = Had(r)
      BY <2>5, <3>1 DEF Had
    <3>3. \A q \in Request : Had(q)' = Had(q)
      BY <2>1, <3>2
    <3> HIDE DEF Had
    <3> QED
      BY <3>3 DEF Handle
  <2> QED
    BY <1>a, <1>2, <2>3, <2>4, <2>5, RequestMoves
<1> QED
  BY <1>1, <1>2

\* Each step of the store is a step of the promise or none.
LEMMA DownloadStep ==
  ASSUME StoreInv, DownInv, Next
  PROVE  Abstract!DownloadNext \/ UNCHANGED Abstract!downloadVars
<1>a. FileInv /\ TypeOK /\ LockInv
  BY DEF StoreInv, FileInv, TypeInv
<1>b. ASSUME NEW k \in Key, NEW g, Pub(k)' = g, \A x \in Key \ {k} : job'[x] = job[x]
      PROVE  Published' = [Published EXCEPT ![k] = g]
  <2>1. \A x \in Key \ {k} : Pub(x)' = Pub(x)
    BY <1>b DEF Pub
  <2> QED
    BY <1>b, <2>1 DEF Published
<1>c. ASSUME \A k \in Key : Pub(k)' = Pub(k)
      PROVE  Published' = Published
  BY <1>c DEF Published
<1>1. ASSUME NEW k \in Key, NEW g \in Gen, Finishes(k), Pub(k) = NoGen, Pub(k)' = g
      PROVE  Abstract!DownloadNext
  <2>1. /\ req' = req
        /\ \A x \in Key \ {k} : job'[x] = job[x]
    BY <1>a, <1>1 DEF Finishes, Ready, TypeOK
  <2>2. Handle' = Handle
    BY <2>1 DEF Handle, Had
  <2>3. Published[k] = NoGen
    BY <1>1 DEF Published
  <2>4. Published' = [Published EXCEPT ![k] = g]
    BY <1>1, <1>b, <2>1
  <2>5. Abstract!Publish(k, g)
    BY <1>1, <2>2, <2>3, <2>4, Promises
  <2> QED
    BY <1>1, <2>5 DEF Abstract!DownloadNext
<1>2. ASSUME NEW k \in Key, Erased(k) \/ Admitted(k), Pub(k)' = NoGen
      PROVE  Abstract!DownloadNext
  <2>1. \A x \in Key \ {k} : job'[x] = job[x]
    <3>1. CASE Erased(k)
      BY <1>a, <3>1 DEF Erased, EraseJob, TypeOK
    <3>2. CASE Admitted(k)
      BY <1>a, <3>2 DEF Admitted, Admit, TypeOK
    <3> QED
      BY <1>2, <3>1, <3>2
  <2>2. Handle' = Handle
    <3>1. CASE Erased(k)
      BY <3>1 DEF Erased, EraseJob, Handle, Had
    <3>2. ASSUME NEW r \in Request, Admit(r)
          PROVE  Handle' = Handle
      <4>1. /\ req[r].pc = "admit" /\ req'[r].pc = "over"
            /\ \A q \in Request \ {r} : req'[q] = req[q]
        BY <1>a, <3>2, OverIs DEF Admit
      <4>2. \A q \in Request : Had(q)' = Had(q)
        BY <4>1 DEF Had
      <4> HIDE DEF Had
      <4> QED
        BY <4>2 DEF Handle
    <3> QED
      BY <1>2, <3>1, <3>2 DEF Admitted
  <2>3. Published' = [Published EXCEPT ![k] = NoGen]
    BY <1>2, <1>b, <2>1
  <2>4. Abstract!Withdraw(k)
    BY <2>2, <2>3, Promises
  <2> QED
    BY <2>4 DEF Abstract!DownloadNext
<1>3. CASE \A k \in Key : Pub(k)' = Pub(k)
  <2>1. Published' = Published
    BY <1>3, <1>c
  <2>2. CASE Handle' = Handle
    BY <2>1, <2>2, Promises
  <2>3. ASSUME NEW r \in Request, Confirm(r), Handle' = [Handle EXCEPT ![r] = <<>>]
        PROVE  Abstract!DownloadNext
    <3>1. Abstract!Drop(r)
      BY <2>1, <2>3, Promises
    <3> QED
      BY <3>1 DEF Abstract!DownloadNext
  <2>4. ASSUME NEW r \in Request, NEW k \in Key, Pub(k) # NoGen, Handle[r] = <<>>,
               Handle' = [Handle EXCEPT ![r] = <<k, Pub(k)>>]
        PROVE  Abstract!DownloadNext
    <3>1. Published[k] = Pub(k)
      BY DEF Published
    <3>2. Abstract!Take(r, k)
      BY <2>1, <2>4, <3>1, Promises
    <3> QED
      BY <3>2 DEF Abstract!DownloadNext
  <2> QED
    BY <2>2, <2>3, <2>4, HadMoves
<1> QED
  BY <1>a, <1>1, <1>2, <1>3, PubMoves

\* The store begins as Downloads does, with nothing published.
LEMMA DownloadStart == Init => Abstract!DownloadInit
<1> SUFFICES ASSUME Init
             PROVE  Abstract!DownloadInit
  OBVIOUS
<1>1. Published = [k \in Key |-> NoGen]
  BY DEF Init, Published, Pub
<1>2. Handle = [r \in Request |-> <<>>]
  BY DEF Init, Quiet, Handle, Had
<1> QED
  BY <1>1, <1>2, Promises

\* A download without the lock gets the very generation that is published under
\* its key at one instant of the download, whole, whatever the worker, admins
\* and other requests do meanwhile.
THEOREM DownloadsArePublished == Spec => ImplementsDownloads
<1>1. StoreInv /\ DownInv /\ [Next]_vars => [Abstract!DownloadNext]_(Abstract!downloadVars)
  <2>1. UNCHANGED vars => UNCHANGED Abstract!downloadVars
    <3>1. UNCHANGED vars => Published' = Published /\ Handle' = Handle
      BY DEF vars, Published, Handle, Pub, Had
    <3> QED
      BY <3>1, Promises
  <2> QED
    BY <2>1, DownloadStep
<1> QED
  BY <1>1, DownloadStart, StoreInvariant, DownInvariant, PTL DEF Spec, ImplementsDownloads, Abstract!DownloadSpec

=============================================================================
