--------------------------- MODULE FileStoreProofs ---------------------------
(***************************************************************************)
(* What holds of FileStore for all sets of challenges, recipes, owners,    *)
(* requests and tokens, and all limits.                                    *)
(***************************************************************************)
EXTENDS FileStore, FiniteSetTheorems, TLAPS

(***************************************************************************)
(* Types                                                                   *)
(***************************************************************************)

\* The fields of a job keep their types under the updates the actions make.
LEMMA RowUpdate ==
  ASSUME NEW j \in JobRow, NEW s \in {"queued", "running", "ready", "failed"},
         NEW a \in 0 .. Attempts, NEW g \in Gen, NEW n \in Nat, NEW c \in BOOLEAN, NEW d \in BOOLEAN
  PROVE  /\ [j EXCEPT !.state = s, !.changed = c, !.due = d] \in JobRow
         /\ [j EXCEPT !.state = s, !.changed = c] \in JobRow
         /\ [j EXCEPT !.state = s, !.changed = c, !.obsolete = j.obsolete \/ d] \in JobRow
         /\ [j EXCEPT !.state = s, !.attempts = a, !.due = d] \in JobRow
         /\ [j EXCEPT !.state = s, !.gen = g, !.attempts = a] \in JobRow
         /\ [j EXCEPT !.background = c, !.order = n] \in JobRow
         /\ [j EXCEPT !.due = d] \in JobRow
  BY DEF JobRow

\* What a request has in hand at a point of its way.
LEMMA ReqFields ==
  ASSUME TypeOK, NEW r \in Request
  PROVE  /\ req[r].pc \in Keyed \cup {"admit"} => req[r].key \in Key /\ req[r].observed \in Nat
         /\ req[r].pc = "identify" => req[r].recipe \in Recipe /\ req[r].observed \in Nat
         /\ req[r].pc = "admit" => req[r].gen \in Gen \cup {NoGen}
         /\ req[r].pc \in {"open", "again"} => req[r].key \in Key /\ req[r].current \in JobRow
         /\ req[r].pc \in {"again", "confirm"} => req[r].key \in Key /\ req[r].file \in Gen
         /\ req[r].pc \in Keyed \cup {"idle", "over", "sent", "identify", "admit", "open", "again", "confirm"}
  BY DEF TypeOK, ReqState, Keyed

\* A request goes on with what it has.
LEMMA GotoType ==
  ASSUME TypeOK, NEW r \in Request, req[r].pc \in Keyed, NEW pc \in Keyed, Goto(r, pc)
  PROVE  req' \in [Request -> ReqState]
<1>1. req[r] \in [pc : Keyed, observed : Nat, key : Key]
  BY DEF TypeOK, ReqState, Keyed
<1>2. [req[r] EXCEPT !.pc = pc] \in [pc : Keyed, observed : Nat, key : Key]
  BY <1>1
<1>3. [req[r] EXCEPT !.pc = pc] \in ReqState
  BY <1>2 DEF ReqState
<1> QED
  BY <1>3 DEF TypeOK, Goto

\* A request that is over.
LEMMA OverType ==
  ASSUME TypeOK, NEW r \in Request, Over(r)
  PROVE  req' \in [Request -> ReqState]
<1>1. [pc |-> "over"] \in ReqState
  BY DEF ReqState
<1> QED
  BY <1>1 DEF TypeOK, Over

\* A request that gets a job has it in hand, or is over.
LEMMA GotType ==
  ASSUME TypeOK, NEW r \in Request, req[r].pc \in Keyed, Got(r)
  PROVE  req' \in [Request -> ReqState]
  BY GotoType, OverType DEF Got, Keyed

\* Marked jobs have the types of jobs, and the others are as before.
LEMMA MarkType ==
  ASSUME TypeOK, NEW set, NEW b \in BOOLEAN
  PROVE  Mark(set, b) \in [Key -> JobRow \cup {NoJob}]
<1>1. ASSUME NEW k \in In({"running"})
      PROVE  [job[k] EXCEPT !.state = "failed", !.changed = TRUE, !.obsolete = job[k].obsolete \/ b] \in JobRow
  <2>1. job[k] \in JobRow
    BY DEF TypeOK, In, Jobs
  <2> QED
    BY <2>1 DEF JobRow
<1> QED
  BY <1>1 DEF Mark, TypeOK

\* Attempts that may still be made are counted below the limit.
Counted == \A k \in In({"queued"}) : job[k].attempts < Attempts

TypeInv == TypeOK /\ Counted

\* The outcome of a failed attempt.
LEMMA FailedType ==
  ASSUME TypeOK, NEW k \in In({"running"})
  PROVE  /\ Failed(k) \in [Key -> JobRow \cup {NoJob}]
         /\ \A x \in Key \ {k} : Failed(k)[x] = job[x]
         /\ Failed(k)[k] # NoJob
         /\ Failed(k)[k].state \in {"queued", "failed"}
         /\ Failed(k)[k].state = "queued" => job[k].attempts < Attempts
         /\ Failed(k)[k].attempts = job[k].attempts /\ Failed(k)[k].gen = job[k].gen
         /\ Failed(k)[k].background = job[k].background /\ Failed(k)[k].order = job[k].order
         /\ Failed(k)[k].obsolete = job[k].obsolete
<1> DEFINE over == job[k].attempts >= Attempts \/ ~Fits(k)
           row  == [job[k] EXCEPT !.state = IF over THEN "failed" ELSE "queued", !.changed = ~Fits(k), !.due = FALSE]
<1>1. k \in Key /\ job[k] \in JobRow
  BY DEF TypeOK, In, Jobs
<1>2. row \in JobRow
  BY <1>1 DEF JobRow, Fits
<1>3. Failed(k) = [job EXCEPT ![k] = row]
  BY DEF Failed
<1>4. Attempts \in Nat /\ job[k].attempts \in Nat
  BY <1>1, FileAssumption DEF JobRow
<1>5. /\ row.state \in {"queued", "failed"} /\ (row.state = "queued" => job[k].attempts < Attempts)
      /\ row.attempts = job[k].attempts /\ row.gen = job[k].gen /\ row.background = job[k].background
      /\ row.order = job[k].order /\ row.obsolete = job[k].obsolete
  BY <1>1, <1>4 DEF JobRow
<1> HIDE DEF row
<1> QED
  BY <1>1, <1>2, <1>3, <1>5, NoneAssumption DEF TypeOK

\* Marked jobs have failed and are otherwise the same.
LEMMA Marked ==
  ASSUME TypeOK, NEW set, NEW b \in BOOLEAN, NEW k \in Key
  PROVE  /\ k \notin set \cap In({"running"}) => Mark(set, b)[k] = job[k]
         /\ k \in set \cap In({"running"}) =>
              LET row == Mark(set, b)[k]
              IN /\ row # NoJob /\ row.state = "failed" /\ row.changed
                 /\ row.attempts = job[k].attempts /\ row.gen = job[k].gen
                 /\ row.background = job[k].background /\ row.order = job[k].order
                 /\ (job[k].obsolete => row.obsolete) /\ (b => row.obsolete)
<1>1. k \notin set \cap In({"running"}) => Mark(set, b)[k] = job[k]
  BY DEF Mark
<1>2. ASSUME k \in set \cap In({"running"})
      PROVE  LET row == Mark(set, b)[k]
             IN /\ row # NoJob /\ row.state = "failed" /\ row.changed
                /\ row.attempts = job[k].attempts /\ row.gen = job[k].gen
                /\ row.background = job[k].background /\ row.order = job[k].order
                /\ (job[k].obsolete => row.obsolete) /\ (b => row.obsolete)
  <2>1. job[k] \in JobRow
    BY <1>2 DEF TypeOK, In, Jobs
  <2>2. Mark(set, b)[k] = [job[k] EXCEPT !.state = "failed", !.changed = TRUE, !.obsolete = job[k].obsolete \/ b]
    BY <1>2 DEF Mark
  <2>3. Mark(set, b)[k] # NoJob
    <3>1. Mark(set, b)[k] \in JobRow
      BY <2>1, <2>2 DEF JobRow
    <3> QED
      BY <3>1, NoneAssumption
  <2> QED
    BY <2>1, <2>2, <2>3 DEF JobRow
<1> QED
  BY <1>1, <1>2

\* Two kinds of marks, which leave what is queued to be so.
LEMMA MarkCounted ==
  ASSUME TypeOK, Counted, NEW a, NEW b, NEW x \in BOOLEAN, NEW y \in BOOLEAN,
         \/ job' = Mark(a, x)
         \/ job' = [k \in Key |-> IF k \in a THEN Mark(a, x)[k] ELSE Mark(b, y)[k]]
  PROVE  job' \in [Key -> JobRow \cup {NoJob}] /\ Counted'
<1>1. Mark(a, x) \in [Key -> JobRow \cup {NoJob}] /\ Mark(b, y) \in [Key -> JobRow \cup {NoJob}]
  BY MarkType
<1>2. job' \in [Key -> JobRow \cup {NoJob}]
  BY <1>1
<1>3. ASSUME NEW k \in In({"queued"})'
      PROVE  job'[k] = job[k]
  <2>1. k \in Key /\ job'[k] # NoJob /\ job'[k].state = "queued"
    BY <1>3 DEF In, Jobs
  <2>2. job'[k] = Mark(a, x)[k] \/ job'[k] = Mark(b, y)[k]
    BY <2>1
  <2> QED
    BY <2>1, <2>2, Marked
<1> QED
  BY <1>2, <1>3 DEF Counted, In, Jobs

\* Every step of a request keeps the types.
LEMMA RequestTypes ==
  ASSUME TypeInv, NEW r \in Request, Requests(r) \/ Dies(r)
  PROVE  TypeInv'
<1> USE DEF TypeInv, TypeOK, Counted, modeVars, lockVars, siteVars
<1>1. CASE Observe(r)
  <2>1. req' \in [Request -> ReqState]
    <3> DEFINE c == Asks[r].challenge
               s == [pc |-> "identify", recipe |-> recipe[c], observed |-> demand]
    <3>1. CASE Over(r)
      BY <3>1, OverType
    <3>2. CASE recipe[c] # NoRecipe /\ req' = [req EXCEPT ![r] = s]
      <4>1. recipe[c] \in Recipe
        BY <3>2, FileAssumption
      <4>2. s \in ReqState
        BY <4>1 DEF ReqState
      <4> QED
        BY <3>2, <4>2
    <3> QED
      BY <1>1, <3>1, <3>2 DEF Observe
  <2> QED
    BY <1>1, <2>1 DEF Observe, In, Jobs
<1>2. CASE Identify(r)
  <2> DEFINE k == [challenge |-> Asks[r].challenge, owner |-> Asks[r].as[setting],
                   print |-> Asks[r].print, recipe |-> req[r].recipe]
             s == [pc |-> "enter", observed |-> req[r].observed, key |-> k]
  <2>1. req[r].recipe \in Recipe /\ req[r].observed \in Nat
    BY <1>2, ReqFields DEF Identify
  <2>2. k \in Key
    BY <2>1, FileAssumption DEF Key
  <2>3. s \in ReqState
    <3> HIDE DEF k
    <3> QED
      BY <2>1, <2>2 DEF ReqState, Keyed
  <2>4. req' = [req EXCEPT ![r] = s]
    BY <1>2 DEF Identify
  <2>5. req' \in [Request -> ReqState]
    BY <2>3, <2>4
  <2> QED
    BY <1>2, <2>5 DEF Identify, In, Jobs
<1>3. CASE Enter(r)
  <2>1. req' \in [Request -> ReqState]
    BY <1>3, GotoType, GotType, OverType DEF Enter, Keyed
  <2> QED
    BY <1>3, <2>1 DEF Enter, In, Jobs
<1>4. CASE Lock(r)
  <2>1. req' \in [Request -> ReqState]
    BY <1>4, GotoType, OverType DEF Lock, Keyed
  <2> QED
    BY <1>4, <2>1 DEF Lock, In, Jobs
<1>5. CASE Reconcile(r)
  <2>1. req' \in [Request -> ReqState]
    BY <1>5, GotoType, OverType DEF Reconcile, Keyed
  <2>2. job' \in [Key -> JobRow \cup {NoJob}] /\ Counted'
    <3>1. CASE UNCHANGED job
      BY <3>1 DEF In, Jobs
    <3>2. CASE job' = Mark(Alien(KindFor(r)), TRUE)
      <4> HIDE DEF TypeInv, TypeOK, Counted
      <4>1. TypeOK /\ Counted
        BY DEF TypeInv
      <4> QED
        BY <3>2, <4>1, MarkCounted
    <3> QED
      BY <1>5, <3>1, <3>2 DEF Reconcile
  <2>3. holder' \in Request \cup {Nobody, Admin, Worker} /\ doomed' \subseteq Key /\ retiring' \subseteq Challenge
    BY <1>5 DEF Reconcile, Unlock, Alien, Jobs
  <2> QED
    BY <1>5, <2>1, <2>2, <2>3 DEF Reconcile
<1>6. CASE Switch(r)
  <2>1. req' \in [Request -> ReqState]
    BY <1>6, GotoType DEF Switch, Keyed
  <2>2. KindFor(r) \in Kind
    BY <1>6, ReqFields, FileAssumption DEF Switch, KindFor, Key, Keyed
  <2>3. mode' \in [kind : Kind \cup {"none"}, at : Nat] /\ demand' \in Nat
    BY <1>6, <2>2 DEF Switch
  <2> QED
    BY <1>6, <2>1, <2>3 DEF Switch, In, Jobs
<1>7. CASE Reuse(r)
  <2> DEFINE k == req[r].key
  <2>1. req' \in [Request -> ReqState]
    BY <1>7, GotType DEF Reuse, Keyed
  <2>2. k \in Key /\ job[k] # NoJob /\ job[k] \in JobRow
    BY <1>7, ReqFields DEF Reuse, Reusable, Keyed
  <2>3. demand' \in Nat /\ job' \in [Key -> JobRow \cup {NoJob}] /\ Counted'
    <3>1. CASE UNCHANGED <<demand, job>>
      BY <3>1 DEF In, Jobs
    <3>2. CASE demand' = demand + 1 /\ job' = [job EXCEPT ![k].background = FALSE, ![k].order = demand + 1]
      <4> DEFINE row == [job[k] EXCEPT !.background = FALSE, !.order = demand + 1]
      <4>0. demand + 1 \in Nat
        OBVIOUS
      <4>1. row \in JobRow /\ row.state = job[k].state /\ row.attempts = job[k].attempts
        BY <2>2, <4>0 DEF JobRow
      <4>2. job' = [job EXCEPT ![k] = row]
        BY <3>2
      <4> HIDE DEF row
      <4> QED
        BY <2>2, <3>2, <4>1, <4>2 DEF In, Jobs
    <3> QED
      BY <1>7, <3>1, <3>2 DEF Reuse
  <2> QED
    BY <1>7, <2>1, <2>3 DEF Reuse, Unlock
<1>8. CASE Retire(r)
  <2> DEFINE k == req[r].key
             s == [pc |-> "admit", key |-> k, observed |-> req[r].observed,
                   gen |-> IF job[k] = NoJob THEN NoGen ELSE job[k].gen]
  <2>1. k \in Key /\ req[r].observed \in Nat
    BY <1>8, ReqFields DEF Retire, Keyed
  <2>2. s.gen \in Gen \cup {NoGen}
    <3>1. job[k] \in JobRow \cup {NoJob}
      BY <2>1 DEF TypeOK
    <3> QED
      BY <3>1 DEF JobRow
  <2>3. s \in ReqState
    BY <2>1, <2>2 DEF ReqState
  <2>4. req' \in [Request -> ReqState]
    BY <1>8, <2>3, OverType DEF Retire
  <2>5. job' \in [Key -> JobRow \cup {NoJob}] /\ Counted'
    <3>1. CASE UNCHANGED job
      BY <3>1 DEF In, Jobs
    <3>2. CASE ~UNCHANGED job
      <4> DEFINE others == {x \in Jobs : x.challenge = k.challenge /\ x.recipe # k.recipe} \ In({"ready"})
                 rest   == SameIdentity(k) \ others
      <4>1. job' = [x \in Key |-> IF x \in others THEN Mark(others, FALSE)[x] ELSE Mark(rest, TRUE)[x]]
        BY <1>8, <3>2 DEF Retire
      <4> HIDE DEF TypeInv, TypeOK, Counted, others, rest
      <4>2. TypeOK /\ Counted
        BY DEF TypeInv
      <4> QED
        BY <4>1, <4>2, MarkCounted
    <3> QED
      BY <3>1, <3>2
  <2>6. holder' \in Request \cup {Nobody, Admin, Worker} /\ doomed' \subseteq Key /\ retiring' \subseteq Challenge
    BY <1>8 DEF Retire, Unlock, SameIdentity, Collectable, Jobs
  <2> QED
    BY <1>8, <2>4, <2>5, <2>6 DEF Retire
<1>9. CASE Admit(r)
  <2> DEFINE k == req[r].key
             before == r \in Background
             order == IF before THEN 0 ELSE demand + 1
             row == [state |-> "queued", attempts |-> 0, gen |-> req[r].gen, background |-> before,
                     order |-> order, changed |-> FALSE, obsolete |-> FALSE, due |-> TRUE]
  <2>1. k \in Key /\ req[r].gen \in Gen \cup {NoGen}
    BY <1>9, ReqFields DEF Admit
  <2>2. 0 \in 0 .. Attempts /\ 0 < Attempts
    BY FileAssumption
  <2>3. row \in JobRow
    BY <2>1, <2>2 DEF JobRow
  <2>4. req' \in [Request -> ReqState]
    BY <1>9, OverType DEF Admit
  <2>5. demand' \in Nat /\ job' \in [Key -> JobRow \cup {NoJob}] /\ Counted'
    <3>1. CASE UNCHANGED <<job, demand>>
      BY <3>1 DEF In, Jobs
    <3>2. CASE job' = [job EXCEPT ![k] = row] /\ demand' = IF before THEN demand ELSE order
      BY <2>1, <2>2, <2>3, <3>2 DEF In, Jobs
    <3> QED
      BY <1>9, <3>1, <3>2 DEF Admit
  <2> QED
    BY <1>9, <2>4, <2>5 DEF Admit, Unlock
<1>10. CASE Look(r)
  <2> DEFINE k == req[r].key
             s == [pc |-> "open", key |-> k, current |-> job[k]]
  <2>1. k \in Key
    BY <1>10, ReqFields DEF Look, Keyed
  <2>2. job[k] # NoJob => s \in ReqState
    BY <2>1 DEF ReqState
  <2>3. req' \in [Request -> ReqState]
    BY <1>10, <2>2, OverType DEF Look
  <2> QED
    BY <1>10, <2>3 DEF Look, In, Jobs
<1>11. CASE Open(r)
  <2> DEFINE k == req[r].key
             s == [pc |-> "again", key |-> k, current |-> req[r].current, file |-> art[k].gen]
  <2>1. k \in Key /\ req[r].current \in JobRow
    BY <1>11, ReqFields DEF Open
  <2>2. ASSUME art[k] # NoArt PROVE s \in ReqState
    <3>1. art[k].gen \in Gen
      BY <2>1, <2>2 DEF Files
    <3> QED
      BY <2>1, <3>1 DEF ReqState
  <2>3. req' \in [Request -> ReqState]
    BY <1>11, <2>2, OverType DEF Open
  <2> QED
    BY <1>11, <2>3 DEF Open, In, Jobs
<1>12. CASE Again(r)
  <2>1. req[r].key \in Key /\ req[r].file \in Gen
    BY <1>12, ReqFields DEF Again
  <2>2. [pc |-> "confirm", key |-> req[r].key, file |-> req[r].file] \in ReqState
    BY <2>1 DEF ReqState
  <2>3. req' \in [Request -> ReqState]
    BY <1>12, <2>2, OverType DEF Again
  <2> QED
    BY <1>12, <2>3 DEF Again, In, Jobs
<1>13. CASE Confirm(r)
  <2>1. [pc |-> "sent"] \in ReqState
    BY DEF ReqState
  <2>2. req' \in [Request -> ReqState]
    BY <1>13, <2>1, OverType DEF Confirm
  <2> QED
    BY <1>13, <2>2 DEF Confirm, In, Jobs
<1>14. CASE Dies(r)
  <2>1. req' \in [Request -> ReqState]
    BY <1>14, OverType DEF Dies
  <2> QED
    BY <1>14, <2>1 DEF Dies, In, Jobs
<1> QED
  BY <1>1, <1>2, <1>3, <1>4, <1>5, <1>6, <1>7, <1>8, <1>9, <1>10, <1>11, <1>12, <1>13, <1>14 DEF Requests

\* Every step of an admin, a removal and the passage of time keep the types.
LEMMA AdminTypes ==
  ASSUME TypeInv, Administers \/ Erases \/ SpaceChanges \/ \E k \in Key : Ripen(k)
  PROVE  TypeInv'
<1> USE DEF TypeInv, TypeOK, Counted, modeVars, lockVars, siteVars
<1>1. ASSUME NEW c \in Challenge, RetireObsolete(c)
      PROVE  TypeInv'
  <2> DEFINE others == {x \in Jobs : x.challenge = c /\ ~Fits(x)} \ In({"ready"})
  <2>1. job' \in [Key -> JobRow \cup {NoJob}] /\ Counted'
    <3>1. job' = Mark(others, FALSE)
      BY <1>1 DEF RetireObsolete
    <3> HIDE DEF TypeInv, TypeOK, Counted, others
    <3>2. TypeOK /\ Counted
      BY DEF TypeInv
    <3> QED
      BY <3>1, <3>2, MarkCounted
  <2> QED
    BY <1>1, <2>1 DEF RetireObsolete, Jobs
<1>2. ASSUME NEW c \in Challenge, NEW new \in Offered, SetRecipe(c, new)
      PROVE  TypeInv'
  BY <1>2, FileAssumption DEF SetRecipe, In, Jobs
<1>3. CASE AdminDone \/ AdminDies
  BY <1>3 DEF AdminDone, AdminDies, Unlock, In, Jobs
<1>4. CASE RetryFailed
  <2>1. PICK again \in SUBSET In({"failed"}) :
          job' = [k \in Key |-> IF k \in again
                                  THEN [job[k] EXCEPT !.state = "queued", !.attempts = 0, !.due = TRUE]
                                  ELSE job[k]]
    BY <1>4 DEF RetryFailed
  <2>2. 0 \in 0 .. Attempts /\ 0 < Attempts
    BY FileAssumption
  <2>3. ASSUME NEW k \in again
        PROVE  /\ [job[k] EXCEPT !.state = "queued", !.attempts = 0, !.due = TRUE] \in JobRow
               /\ [job[k] EXCEPT !.state = "queued", !.attempts = 0, !.due = TRUE].attempts = 0
    <3>1. job[k] \in JobRow
      BY <2>1, <2>3 DEF In, Jobs
    <3> QED
      BY <2>2, <3>1 DEF JobRow
  <2>4. job' \in [Key -> JobRow \cup {NoJob}] /\ Counted'
    BY <2>1, <2>2, <2>3 DEF In, Jobs
  <2> QED
    BY <1>4, <2>4 DEF RetryFailed
<1>5. CASE ChangeSetting \/ SpaceChanges
  BY <1>5 DEF ChangeSetting, SpaceChanges, Kind, In, Jobs
<1>6. ASSUME NEW k \in doomed, EraseFiles(k)
      PROVE  TypeInv'
  <2>1. k \in Key /\ art[k] \in Files
    BY <1>6 DEF EraseFiles, Complete
  <2>2. [art[k] EXCEPT !.whole = FALSE] \in Files
    BY <2>1 DEF Files
  <2>3. art' = [art EXCEPT ![k] = [art[k] EXCEPT !.whole = FALSE]]
    BY <1>6 DEF EraseFiles
  <2>4. art' \in [Key -> Files \cup {NoArt}]
    BY <2>1, <2>2, <2>3
  <2> QED
    BY <1>6, <2>4 DEF EraseFiles, In, Jobs
<1>7. ASSUME NEW k \in doomed, EraseJob(k)
      PROVE  TypeInv'
  BY <1>7 DEF EraseJob, In, Jobs
<1>8. ASSUME NEW k \in Key, Ripen(k)
      PROVE  TypeInv'
  <2> DEFINE row == [job[k] EXCEPT !.due = TRUE]
  <2>1. job[k] \in JobRow
    BY <1>8 DEF Ripen, In, Jobs
  <2>2. row \in JobRow /\ row.state = job[k].state /\ row.attempts = job[k].attempts
    BY <2>1 DEF JobRow
  <2>3. job' = [job EXCEPT ![k] = row]
    BY <1>8 DEF Ripen
  <2> HIDE DEF row
  <2>4. job' \in [Key -> JobRow \cup {NoJob}] /\ Counted'
    <3>1. job' \in [Key -> JobRow \cup {NoJob}]
      BY <2>2, <2>3
    <3>2. k \in In({"queued"}) /\ job'[k] = row /\ \A x \in Key \ {k} : job'[x] = job[x]
      BY <1>8, <2>3 DEF Ripen
    <3>3. row.attempts < Attempts
      BY <2>2, <3>2
    <3> QED
      BY <3>1, <3>2, <3>3 DEF In, Jobs
  <2> QED
    BY <1>8, <2>4 DEF Ripen
<1> QED
  BY <1>1, <1>2, <1>3, <1>4, <1>5, <1>6, <1>7, <1>8 DEF Administers, Erases

Idling == {"off", "recover", "tidy", "claim"}

\* What the worker has in hand at a point of its run.
LEMMA WorkFields ==
  ASSUME TypeOK
  PROVE  /\ work.at.pc \in Engaged \cup Idling /\ work.due \in BOOLEAN
         /\ work.at.pc \in Engaged => /\ work.at.key \in Key /\ work.at.gen \in Gen
                                      /\ work.at.attempts \in 0 .. Attempts
         /\ work.at.pc \in Idling => work.at.gen = NoGen
  BY DEF TypeOK, Run, Engaged, Idling

\* The worker goes on with what it has.
LEMMA StepType ==
  ASSUME TypeOK, NEW pc, Step(pc), {work.at.pc, pc} \subseteq Engaged \/ {work.at.pc, pc} \subseteq Idling
  PROVE  /\ work' \in [at : Run, due : BOOLEAN]
         /\ work'.at.pc = pc /\ work'.due = work.due
         /\ work'.at.key = work.at.key /\ work'.at.gen = work.at.gen /\ work'.at.attempts = work.at.attempts
<1> DEFINE new == [work.at EXCEPT !.pc = pc]
<1>1. /\ new \in Run /\ new.pc = pc
      /\ new.key = work.at.key /\ new.gen = work.at.gen /\ new.attempts = work.at.attempts
  BY DEF TypeOK, Run, Engaged, Idling
<1>2. work' = [work EXCEPT !.at = new]
  BY DEF Step
<1> HIDE DEF new
<1> QED
  BY <1>1, <1>2 DEF TypeOK

\* A run that is over.
LEMMA RestType ==
  ASSUME TypeOK
  PROVE  /\ Rest => /\ work' \in [at : Run, due : BOOLEAN] /\ work'.at.pc = "off"
                    /\ work'.at.gen = NoGen /\ work'.due = work.due
         /\ RestAndDue => /\ work' \in [at : Run, due : BOOLEAN] /\ work'.at.pc = "off"
                          /\ work'.at.gen = NoGen /\ work'.due
<1>1. Resting \in Run /\ Resting.pc = "off" /\ Resting.gen = NoGen
  BY DEF Resting, Run
<1> HIDE DEF Resting
<1>2. ASSUME Rest
      PROVE  work' \in [at : Run, due : BOOLEAN] /\ work'.at = Resting /\ work'.due = work.due
  BY <1>1, <1>2 DEF Rest, TypeOK
<1>3. ASSUME RestAndDue
      PROVE  work' \in [at : Run, due : BOOLEAN] /\ work'.at = Resting /\ work'.due
  BY <1>1, <1>3 DEF RestAndDue
<1> QED
  BY <1>1, <1>2, <1>3

\* Jobs of an old recipe that a claim passes over fail, and the rest are as before.
Passed(set) ==
  [x \in Key |-> IF x \in set THEN [job[x] EXCEPT !.state = "failed", !.changed = TRUE] ELSE job[x]]

\* Passing over queued jobs keeps the types of jobs, and leaves the others.
LEMMA PassedType ==
  ASSUME TypeOK, Counted, NEW set, set \subseteq In({"queued"})
  PROVE  /\ Passed(set) \in [Key -> JobRow \cup {NoJob}]
         /\ \A x \in Key \ set : Passed(set)[x] = job[x]
         /\ \A x \in set : LET row == Passed(set)[x]
                           IN /\ row # NoJob /\ row.state = "failed" /\ row.changed
                              /\ row.attempts = job[x].attempts /\ row.gen = job[x].gen
                              /\ row.background = job[x].background /\ row.order = job[x].order
                              /\ row.obsolete = job[x].obsolete
<1>1. ASSUME NEW x \in set
      PROVE  LET row == [job[x] EXCEPT !.state = "failed", !.changed = TRUE]
             IN /\ x \in Key /\ row \in JobRow /\ row.state = "failed" /\ row.changed
                /\ row.attempts = job[x].attempts /\ row.gen = job[x].gen
                /\ row.background = job[x].background /\ row.order = job[x].order
                /\ row.obsolete = job[x].obsolete
  <2>1. x \in Key /\ job[x] \in JobRow
    BY DEF In, Jobs, TypeOK
  <2> QED
    BY <2>1 DEF JobRow
<1>2. Passed(set) \in [Key -> JobRow \cup {NoJob}]
  BY <1>1 DEF Passed, TypeOK
<1>3. \A x \in set : Passed(set)[x] # NoJob
  BY <1>1, NoneAssumption DEF Passed
<1> QED
  BY <1>1, <1>2, <1>3 DEF Passed

\* What the worker claims: a job of the present recipe that is due, for which it
\* makes a token of its own.
Claims(k, g, set) ==
  /\ k \in In({"queued"}) \ set /\ g \in Gen /\ Fresh(g) /\ set \subseteq In({"queued"})
  /\ job' = [Passed(set) EXCEPT ![k] = [@ EXCEPT !.state = "running", !.gen = g, !.attempts = job[k].attempts + 1]]
  /\ work' = [work EXCEPT !.at = [pc |-> "prepare", key |-> k, gen |-> g, attempts |-> job[k].attempts + 1]]

\* A claim finds a job, or none.
LEMMA ClaimCases ==
  ASSUME TypeOK, Counted, Claim
  PROVE  /\ work.at.pc = "claim" /\ holder = Nobody
         /\ UNCHANGED <<recipe, art, demand, modeVars, lockVars, req, siteVars>>
         /\ \/ Rest /\ \E set \in SUBSET In({"queued"}) : job' = Passed(set)
            \/ \E k, g, set : Claims(k, g, set)
<1> DEFINE ripe  == {k \in In({"queued"}) : job[k].due}
           stale == {k \in ripe : ~Fits(k)}
<1>1. CASE Rest /\ job' = Passed(stale)
  BY <1>1 DEF Claim, WorkerAt
<1>2. ASSUME NEW k \in ripe \ stale, NEW g \in Gen, NEW set \in SUBSET stale, Fresh(g),
             job' = [Passed(set) EXCEPT ![k] = [@ EXCEPT !.state = "running", !.gen = g, !.attempts = job[k].attempts + 1]],
             work' = [work EXCEPT !.at = [pc |-> "prepare", key |-> k, gen |-> g,
                                          attempts |-> job[k].attempts + 1]]
      PROVE  Claims(k, g, set)
  BY <1>2 DEF Claims
<1>3. \/ Rest /\ job' = Passed(stale)
      \/ \E k \in ripe \ stale, g \in Gen, set \in SUBSET stale :
           /\ Fresh(g)
           /\ job' = [Passed(set) EXCEPT ![k] = [@ EXCEPT !.state = "running", !.gen = g, !.attempts = job[k].attempts + 1]]
           /\ work' = [work EXCEPT !.at = [pc |-> "prepare", key |-> k, gen |-> g,
                                           attempts |-> job[k].attempts + 1]]
  BY DEF Claim, Passed
<1>4. /\ work.at.pc = "claim" /\ holder = Nobody
      /\ UNCHANGED <<recipe, art, demand, modeVars, lockVars, req, siteVars>>
  BY DEF Claim, WorkerAt
<1> HIDE DEF ripe, stale
<1> QED
  BY <1>1, <1>2, <1>3, <1>4

\* The job that is claimed runs, with one more attempt and the new token.
LEMMA ClaimsRow ==
  ASSUME TypeOK, Counted, NEW k, NEW g, NEW set, Claims(k, g, set)
  PROVE  /\ k \in Key /\ job'[k] \in JobRow /\ job'[k] # NoJob /\ job'[k].state = "running" /\ job'[k].gen = g
         /\ job'[k].attempts = job[k].attempts + 1
         /\ job'[k].order = job[k].order /\ job'[k].background = job[k].background
         /\ job'[k].obsolete = job[k].obsolete
         /\ job[k].attempts + 1 \in 0 .. Attempts
<1> DEFINE n   == job[k].attempts + 1
           p   == Passed(set)[k]
           row == [p EXCEPT !.state = "running", !.gen = g, !.attempts = n]
<1>1. k \in Key /\ job[k] # NoJob /\ job[k].state = "queued" /\ job[k] \in JobRow /\ g \in Gen
  BY DEF Claims, In, Jobs, TypeOK
<1>2. n \in 0 .. Attempts
  <2>1. job[k].attempts \in 0 .. Attempts /\ job[k].attempts < Attempts
    BY <1>1 DEF Counted, In, Jobs, JobRow
  <2> QED
    BY <2>1, FileAssumption
<1>3. /\ row \in JobRow /\ row.state = "running" /\ row.gen = g /\ row.attempts = n
      /\ row.order = job[k].order /\ row.background = job[k].background /\ row.obsolete = job[k].obsolete
  <2>1. p = job[k]
    BY <1>1, PassedType DEF Claims
  <2> HIDE DEF p
  <2> QED
    BY <1>1, <1>2, <2>1 DEF JobRow
<1>4. Passed(set) \in [Key -> JobRow \cup {NoJob}]
  BY PassedType DEF Claims
<1>5. job' = [Passed(set) EXCEPT ![k] = row]
  BY Zenon DEF Claims
<1> HIDE DEF row
<1>6. job'[k] = row
  BY <1>1, <1>4, <1>5
<1> QED
  BY <1>1, <1>2, <1>3, <1>6, NoneAssumption

\* A claim of one job does to the others what passing over does.
LEMMA ClaimsOthers ==
  ASSUME TypeOK, Counted, NEW k, NEW g, NEW set, Claims(k, g, set), NEW x \in Key, x # k
  PROVE  job'[x] = Passed(set)[x]
<1>1. Passed(set) \in [Key -> JobRow \cup {NoJob}]
  BY PassedType DEF Claims
<1>2. \E row : job' = [Passed(set) EXCEPT ![k] = row]
  BY Zenon DEF Claims
<1> QED
  BY <1>1, <1>2

\* A claim keeps the types of jobs and of the worker.
LEMMA ClaimsType ==
  ASSUME TypeOK, Counted, NEW k, NEW g, NEW set, Claims(k, g, set)
  PROVE  job' \in [Key -> JobRow \cup {NoJob}] /\ work' \in [at : Run, due : BOOLEAN]
<1> DEFINE n  == job[k].attempts + 1
           at == [pc |-> "prepare", key |-> k, gen |-> g, attempts |-> n]
<1>1. k \in Key /\ job'[k] \in JobRow /\ n \in 0 .. Attempts /\ g \in Gen
  <2>1. g \in Gen
    BY DEF Claims
  <2> QED
    BY <2>1, ClaimsRow
<1>2. Passed(set) \in [Key -> JobRow \cup {NoJob}]
  BY PassedType DEF Claims
<1>3. PICK row : job' = [Passed(set) EXCEPT ![k] = row]
  BY Zenon DEF Claims
<1>4. job' \in [Key -> JobRow \cup {NoJob}]
  <2>1. job'[k] = row
    BY <1>1, <1>2, <1>3
  <2> QED
    BY <1>1, <1>2, <1>3, <2>1
<1>5. at \in Run
  <2> HIDE DEF n
  <2> QED
    BY <1>1 DEF Run, Engaged
<1>6. work' = [work EXCEPT !.at = at]
  BY Zenon DEF Claims
<1> HIDE DEF at
<1> QED
  BY <1>4, <1>5, <1>6 DEF TypeOK

\* What the worker then has in hand.
LEMMA ClaimsWork ==
  ASSUME TypeOK, Counted, NEW k, NEW g, NEW set, Claims(k, g, set)
  PROVE  /\ work'.at.pc = "prepare" /\ work'.at.key = k /\ work'.at.gen = g
         /\ work'.at.attempts = job[k].attempts + 1 /\ work'.due = work.due
         /\ k \in In({"queued"}) \ set /\ set \in SUBSET In({"queued"}) /\ g \in Gen /\ Fresh(g)
<1> DEFINE at == [pc |-> "prepare", key |-> k, gen |-> g, attempts |-> job[k].attempts + 1]
<1>1. work' = [work EXCEPT !.at = at]
  BY Zenon DEF Claims
<1>2. at.pc = "prepare" /\ at.key = k /\ at.gen = g /\ at.attempts = job[k].attempts + 1
  OBVIOUS
<1> HIDE DEF at
<1>3. work'.at = at /\ work'.due = work.due
  BY <1>1 DEF TypeOK
<1> QED
  BY <1>2, <1>3 DEF Claims

\* Failures leave counted what is queued.
LEMMA FailedCounted ==
  ASSUME TypeOK, Counted, NEW k \in In({"running"}), job' = Failed(k)
  PROVE  job' \in [Key -> JobRow \cup {NoJob}] /\ Counted'
<1>1. job' \in [Key -> JobRow \cup {NoJob}]
  BY FailedType
<1>2. ASSUME NEW x \in In({"queued"})'
      PROVE  job'[x].attempts < Attempts
  <2>1. x \in Key /\ job'[x] # NoJob /\ job'[x].state = "queued"
    BY <1>2 DEF In, Jobs
  <2>2. CASE x = k
    BY <2>1, <2>2, FailedType
  <2>3. CASE x # k
    <3>1. job'[x] = job[x]
      BY <2>1, <2>3, FailedType
    <3> QED
      BY <2>1, <3>1 DEF Counted, In, Jobs
  <2> QED
    BY <2>2, <2>3
<1> QED
  BY <1>1, <1>2 DEF Counted

\* What passing over does to the jobs that are counted.
LEMMA ClaimCounted ==
  ASSUME TypeOK, Counted, Claim
  PROVE  /\ job' \in [Key -> JobRow \cup {NoJob}] /\ Counted'
         /\ work' \in [at : Run, due : BOOLEAN]
<1>1. ASSUME NEW set \in SUBSET In({"queued"}), NEW x \in Key,
             Passed(set)[x] # NoJob, Passed(set)[x].state = "queued"
      PROVE  job[x] # NoJob /\ job[x].state = "queued" /\ Passed(set)[x] = job[x]
  BY <1>1, PassedType
<1>2. ASSUME NEW set \in SUBSET In({"queued"}), job' = Passed(set), Rest
      PROVE  job' \in [Key -> JobRow \cup {NoJob}] /\ Counted' /\ work' \in [at : Run, due : BOOLEAN]
  <2>1. job' \in [Key -> JobRow \cup {NoJob}]
    BY <1>2, PassedType
  <2>2. Counted'
    BY <1>1, <1>2 DEF Counted, In, Jobs
  <2> QED
    BY <1>2, <2>1, <2>2, RestType
<1>3. ASSUME NEW k, NEW g, NEW set, Claims(k, g, set)
      PROVE  job' \in [Key -> JobRow \cup {NoJob}] /\ Counted' /\ work' \in [at : Run, due : BOOLEAN]
  <2>1. set \in SUBSET In({"queued"})
    BY <1>3 DEF Claims
  <2>2. Counted'
    <3>1. ASSUME NEW x \in In({"queued"})'
          PROVE  x \in In({"queued"}) /\ job'[x] = job[x]
      <4>1. x \in Key /\ job'[x] # NoJob /\ job'[x].state = "queued"
        BY <3>1 DEF In, Jobs
      <4>2. x # k
        BY <1>3, <4>1, ClaimsRow
      <4>3. job'[x] = Passed(set)[x]
        BY <1>3, <4>1, <4>2, ClaimsOthers
      <4> QED
        BY <1>1, <2>1, <4>1, <4>3 DEF In, Jobs
    <3> QED
      BY <3>1 DEF Counted
  <2> QED
    BY <1>3, <2>2, ClaimsType
<1> QED
  BY <1>2, <1>3, ClaimCases

\* What the worker publishes is there.
AtHand == work.at.pc \in {"rename", "ready"} => job[work.at.key] # NoJob

\* Every step of the worker keeps the types.
LEMMA WorkerTypes ==
  ASSUME TypeInv, AtHand, Works \/ Raises \/ GivesUp \/ Unanswered \/ WorkerDies
  PROVE  TypeInv'
<1> USE DEF modeVars, lockVars, siteVars
<1>a. TypeOK /\ Counted
  BY DEF TypeInv
<1>b. ASSUME UNCHANGED <<recipe, art, demand, mode, cache, req, setting, space>>,
             job' \in [Key -> JobRow \cup {NoJob}], Counted', work' \in [at : Run, due : BOOLEAN],
             holder' \in Request \cup {Nobody, Admin, Worker}, doomed' \subseteq Key, retiring' \subseteq Challenge
      PROVE  TypeInv'
  BY <1>a, <1>b DEF TypeInv, TypeOK
<1>c. ASSUME UNCHANGED job
      PROVE  job' \in [Key -> JobRow \cup {NoJob}] /\ Counted'
  BY <1>a, <1>c DEF TypeOK, Counted, In, Jobs
<1>d. ASSUME UNCHANGED <<holder, doomed, retiring>>
      PROVE  holder' \in Request \cup {Nobody, Admin, Worker} /\ doomed' \subseteq Key /\ retiring' \subseteq Challenge
  BY <1>a, <1>d DEF TypeOK
<1>e. ASSUME Unlock, doomed' \subseteq Key
      PROVE  holder' \in Request \cup {Nobody, Admin, Worker} /\ doomed' \subseteq Key /\ retiring' \subseteq Challenge
  BY <1>a, <1>e DEF TypeOK, Unlock
<1>f. doomed \subseteq Key /\ retiring \subseteq Challenge
  BY <1>a DEF TypeOK
<1>1. CASE Begin
  <2>1. work' \in [at : Run, due : BOOLEAN]
    <3>1. PICK due \in {TRUE, work.due} :
            work' = [at |-> [Resting EXCEPT !.pc = IF due THEN "recover" ELSE "claim"], due |-> due]
      BY <1>1 DEF Begin
    <3>2. \A pc \in {"recover", "claim"} : [Resting EXCEPT !.pc = pc] \in Run
      BY DEF Resting, Run
    <3> QED
      BY <1>a, <3>1, <3>2 DEF TypeOK
  <2> QED
    BY <1>1, <1>b, <1>c, <1>d, <2>1 DEF Begin
<1>2. CASE Recover
  <2>1. job' \in [Key -> JobRow \cup {NoJob}] /\ Counted'
    BY <1>2, <1>a, FailedCounted DEF Recover
  <2>2. work' \in [at : Run, due : BOOLEAN]
    BY <1>2, <1>a DEF Recover, TypeOK
  <2> QED
    BY <1>2, <1>b, <1>d, <2>1, <2>2 DEF Recover
<1>3. CASE Tidy
  <2>1. work' \in [at : Run, due : BOOLEAN]
    BY <1>3, <1>a, StepType DEF Tidy, Collects, WorkerAt, Idling
  <2> QED
    BY <1>3, <1>b, <1>c, <1>f, <2>1 DEF Tidy, Collects, Collectable
<1>4. CASE Tidied
  <2>1. work' \in [at : Run, due : BOOLEAN]
    BY <1>4, <1>a DEF Tidied, WorkerAt, TypeOK, Run, Engaged
  <2> QED
    BY <1>4, <1>b, <1>c, <1>e, <1>f, <2>1 DEF Tidied, Unlock
<1>5. CASE Claim
  <2>1. job' \in [Key -> JobRow \cup {NoJob}] /\ Counted' /\ work' \in [at : Run, due : BOOLEAN]
    BY <1>5, <1>a, ClaimCounted
  <2> QED
    BY <1>5, <1>b, <1>d, <2>1 DEF Claim
<1>6. CASE Prepare
  <2> DEFINE k == work.at.key
  <2>1. k \in Key /\ art[k] \in Files
    BY <1>6, <1>a, WorkFields DEF Prepare, WorkerAt, Engaged, TypeOK
  <2>2. [art[k] EXCEPT !.whole = FALSE] \in Files
    BY <2>1 DEF Files
  <2>3. art' \in [Key -> Files \cup {NoArt}]
    <3>1. art' = [art EXCEPT ![k] = IF art[k].whole THEN [art[k] EXCEPT !.whole = FALSE] ELSE NoArt]
      BY <1>6 DEF Prepare
    <3> QED
      BY <1>a, <2>1, <2>2, <3>1 DEF TypeOK
  <2> QED
    BY <1>6, <1>a, <1>c, <2>3 DEF Prepare, TypeInv, TypeOK
<1>7. CASE Prepared
  <2>1. work' \in [at : Run, due : BOOLEAN]
    BY <1>7, <1>a, StepType DEF Prepared, Collects, WorkerAt, Engaged
  <2> QED
    BY <1>7, <1>b, <1>c, <1>f, <2>1 DEF Prepared, Collects, Collectable
<1>8. CASE Collected
  <2>1. work' \in [at : Run, due : BOOLEAN]
    BY <1>8, <1>a, StepType DEF Collected, WorkerAt, Engaged
  <2> QED
    BY <1>8, <1>b, <1>c, <1>e, <1>f, <2>1 DEF Collected, Unlock
<1>9. CASE Generate
  <2>1. work' \in [at : Run, due : BOOLEAN]
    BY <1>9, <1>a, StepType DEF Generate, WorkerAt, Engaged
  <2> QED
    BY <1>9, <1>b, <1>c, <1>d, <2>1 DEF Generate
<1>10. CASE Raises
  <2>1. work.at.pc \in Engaged /\ work.at \in [pc : Engaged, key : Key, gen : Gen, attempts : 0 .. Attempts]
    BY <1>10, <1>a DEF Raises, TypeOK, Run, Engaged
  <2>2. [work.at EXCEPT !.pc = "fail"] \in Run
    BY <2>1 DEF Run, Engaged
  <2>3. work' \in [at : Run, due : BOOLEAN]
    BY <1>10, <2>2 DEF Raises
  <2> QED
    BY <1>10, <1>b, <1>c, <1>d, <2>3 DEF Raises
<1>11. CASE Publish
  <2>1. work' \in [at : Run, due : BOOLEAN]
    BY <1>11, <1>a, StepType DEF Publish, WorkerAt, Engaged
  <2> QED
    BY <1>11, <1>b, <1>c, <1>f, <2>1 DEF Publish
<1>12. CASE Rename
  <2>1. work' \in [at : Run, due : BOOLEAN]
    BY <1>12, <1>a, StepType DEF Rename, WorkerAt, Engaged
  <2>2. work.at.key \in Key /\ work.at.gen \in Gen
    BY <1>12, <1>a, WorkFields DEF Rename, WorkerAt, Engaged
  <2>3. art' \in [Key -> Files \cup {NoArt}]
    BY <1>12, <1>a, <2>2 DEF Rename, TypeOK, Files
  <2> QED
    BY <1>12, <1>a, <1>c, <2>1, <2>3 DEF Rename, TypeInv, TypeOK
<1>13. CASE Ready
  <2> DEFINE k   == work.at.key
             row == [job[k] EXCEPT !.state = "ready", !.changed = FALSE]
  <2>1. job' \in [Key -> JobRow \cup {NoJob}] /\ Counted'
    <3>1. k \in Key
      BY <1>13, <1>a, WorkFields DEF Ready, WorkerAt, Engaged
    <3>2. job' = [job EXCEPT ![k] = row]
      BY <1>13 DEF Ready
    <3>3. job[k] # NoJob => row \in JobRow /\ row.state = "ready"
      <4>1. job[k] # NoJob => job[k] \in JobRow
        BY <1>a, <3>1 DEF TypeOK
      <4> QED
        BY <4>1 DEF JobRow
    <3>4. job[k] # NoJob
      <4>1. work.at.pc = "ready"
        BY <1>13 DEF Ready, WorkerAt
      <4> QED
        BY <4>1 DEF AtHand
    <3> HIDE DEF row
    <3> QED
      BY <1>a, <3>1, <3>2, <3>3, <3>4 DEF TypeOK, Counted, In, Jobs
  <2> QED
    BY <1>13, <1>a, <1>b, <1>e, <1>f, <2>1, RestType DEF Ready, Unlock
<1>14. CASE Fail
  <2>1. job' \in [Key -> JobRow \cup {NoJob}] /\ Counted'
    <3>1. CASE ~Claimed
      BY <1>14, <1>c, <3>1 DEF Fail
    <3>2. CASE Claimed
      <4>1. work.at.key \in In({"running"})
        BY <1>14, <1>a, <3>2, WorkFields DEF Fail, WorkerAt, Engaged, Claimed, In, Jobs
      <4> QED
        BY <1>14, <1>a, <3>2, <4>1, FailedCounted DEF Fail
    <3> QED
      BY <3>1, <3>2
  <2> QED
    BY <1>14, <1>a, <1>b, <1>d, <2>1, RestType DEF Fail
<1>15. CASE GivesUp
  BY <1>15, <1>a, <1>b, <1>c, <1>d, RestType DEF GivesUp
<1>16. CASE WorkerDies
  BY <1>16, <1>a, <1>b, <1>c, <1>d, <1>f, RestType DEF WorkerDies
<1>17. CASE Unanswered
  BY <1>17, <1>a, <1>b, <1>c, <1>d, RestType DEF Unanswered
<1> QED
  BY <1>1, <1>2, <1>3, <1>4, <1>5, <1>6, <1>7, <1>8, <1>9, <1>10, <1>11, <1>12, <1>13, <1>14, <1>15, <1>16,
     <1>17 DEF Works

(***************************************************************************)
(* The lock                                                                *)
(***************************************************************************)

\* What becomes of a request.
LEMMA GotoIs ==
  ASSUME TypeOK, NEW r \in Request, req[r].pc \in Keyed, NEW pc \in Keyed, Goto(r, pc)
  PROVE  /\ req'[r].pc = pc /\ req'[r].key = req[r].key /\ req'[r].observed = req[r].observed
         /\ \A q \in Request \ {r} : req'[q] = req[q]
<1>1. req[r] \in [pc : Keyed, observed : Nat, key : Key]
  BY DEF TypeOK, ReqState, Keyed
<1>2. req' = [req EXCEPT ![r] = [req[r] EXCEPT !.pc = pc]]
  BY DEF Goto
<1>3. req'[r] = [req[r] EXCEPT !.pc = pc] /\ \A q \in Request \ {r} : req'[q] = req[q]
  BY <1>2 DEF TypeOK
<1> QED
  BY <1>1, <1>3

\* A request that is over leaves the other requests.
LEMMA OverIs ==
  ASSUME TypeOK, NEW r \in Request, Over(r)
  PROVE  req'[r].pc = "over" /\ \A q \in Request \ {r} : req'[q] = req[q]
  BY DEF TypeOK, Over

\* So does one that gets its job, which keeps its key and what it observed.
LEMMA GotIs ==
  ASSUME TypeOK, NEW r \in Request, req[r].pc \in Keyed, Got(r)
  PROVE  /\ \/ req'[r].pc = "over"
            \/ req'[r].pc = "look" /\ req'[r].key = req[r].key /\ req'[r].observed = req[r].observed
         /\ \A q \in Request \ {r} : req'[q] = req[q]
  BY GotoIs, OverIs DEF Got, Keyed

\* And so does any other move of a request.
LEMMA SetIs ==
  ASSUME TypeOK, NEW r \in Request, NEW s, req' = [req EXCEPT ![r] = s]
  PROVE  req'[r] = s /\ \A q \in Request \ {r} : req'[q] = req[q]
  BY DEF TypeOK

\* What a request has in hand after a step without the lock, if it goes on.
LEMMA MoveIs ==
  ASSUME TypeOK, NEW r \in Request
  PROVE  /\ Observe(r) => \/ req'[r].pc = "over"
                          \/ req'[r].pc = "identify" /\ req'[r].observed = demand
         /\ Identify(r) => /\ req'[r].pc = "enter" /\ req'[r].observed = req[r].observed
                           /\ req'[r].key.owner = Asks[r].as[setting]
         /\ Look(r) => \/ req'[r].pc = "over"
                       \/ /\ req'[r].pc = "open" /\ req'[r].key = req[r].key
                          /\ req[r].key \in In({"ready"}) /\ req'[r].current = job[req[r].key]
         /\ Open(r) => \/ req'[r].pc = "over"
                       \/ /\ req'[r].pc = "again" /\ req'[r].key = req[r].key /\ art[req[r].key] # NoArt
                          /\ req'[r].current = req[r].current /\ req'[r].file = art[req[r].key].gen
         /\ Again(r) => \/ req'[r].pc = "over"
                        \/ /\ req'[r].pc = "confirm" /\ req'[r].key = req[r].key
                           /\ req'[r].file = req[r].file /\ job[req[r].key] = req[r].current
         /\ Confirm(r) => req'[r].pc \in {"over", "sent"}
         /\ Observe(r) \/ Identify(r) \/ Look(r) \/ Open(r) \/ Again(r) \/ Confirm(r) =>
              /\ UNCHANGED <<recipe, job, art, demand, mode, cache, holder, doomed, retiring, work, setting, space>>
              /\ \A q \in Request \ {r} : req'[q] = req[q]
<1> USE DEF modeVars, lockVars, siteVars
<1>1. ASSUME Observe(r)
      PROVE  /\ \/ req'[r].pc = "over"
                \/ req'[r].pc = "identify" /\ req'[r].observed = demand
             /\ \A q \in Request \ {r} : req'[q] = req[q]
  <2> DEFINE s == [pc |-> "identify", recipe |-> recipe[Asks[r].challenge], observed |-> demand]
  <2>1. Over(r) \/ req' = [req EXCEPT ![r] = s]
    BY <1>1 DEF Observe
  <2>2. s.pc = "identify" /\ s.observed = demand
    OBVIOUS
  <2> HIDE DEF s
  <2> QED
    BY <2>1, <2>2, OverIs, SetIs
<1>2. ASSUME Identify(r)
      PROVE  /\ req'[r].pc = "enter" /\ req'[r].observed = req[r].observed
             /\ req'[r].key.owner = Asks[r].as[setting]
             /\ \A q \in Request \ {r} : req'[q] = req[q]
  <2> DEFINE s == [pc |-> "enter", observed |-> req[r].observed,
                   key |-> [challenge |-> Asks[r].challenge, owner |-> Asks[r].as[setting],
                            print |-> Asks[r].print, recipe |-> req[r].recipe]]
  <2>1. req' = [req EXCEPT ![r] = s]
    BY <1>2 DEF Identify
  <2>2. s.pc = "enter" /\ s.observed = req[r].observed /\ s.key.owner = Asks[r].as[setting]
    OBVIOUS
  <2> HIDE DEF s
  <2> QED
    BY <2>1, <2>2, SetIs
<1>3. ASSUME Look(r)
      PROVE  /\ \/ req'[r].pc = "over"
                \/ /\ req'[r].pc = "open" /\ req'[r].key = req[r].key
                   /\ req[r].key \in In({"ready"}) /\ req'[r].current = job[req[r].key]
             /\ \A q \in Request \ {r} : req'[q] = req[q]
  <2> DEFINE k == req[r].key
             s == [pc |-> "open", key |-> k, current |-> job[k]]
  <2>1. Over(r) \/ (req' = [req EXCEPT ![r] = s] /\ job[k] # NoJob /\ job[k].state = "ready")
    BY <1>3 DEF Look
  <2>2. s.pc = "open" /\ s.key = k /\ s.current = job[k]
    OBVIOUS
  <2>3. k \in Key
    BY <1>3, ReqFields DEF Look, Keyed
  <2> HIDE DEF s
  <2> QED
    BY <2>1, <2>2, <2>3, OverIs, SetIs DEF In, Jobs
<1>4. ASSUME Open(r)
      PROVE  /\ \/ req'[r].pc = "over"
                \/ /\ req'[r].pc = "again" /\ req'[r].key = req[r].key /\ art[req[r].key] # NoArt
                   /\ req'[r].current = req[r].current /\ req'[r].file = art[req[r].key].gen
             /\ \A q \in Request \ {r} : req'[q] = req[q]
  <2> DEFINE k == req[r].key
             s == [pc |-> "again", key |-> k, current |-> req[r].current, file |-> art[k].gen]
  <2>1. Over(r) \/ (req' = [req EXCEPT ![r] = s] /\ art[k] # NoArt)
    BY <1>4 DEF Open
  <2>2. s.pc = "again" /\ s.key = k /\ s.current = req[r].current /\ s.file = art[k].gen
    OBVIOUS
  <2> HIDE DEF s
  <2> QED
    BY <2>1, <2>2, OverIs, SetIs
<1>5. ASSUME Again(r)
      PROVE  /\ \/ req'[r].pc = "over"
                \/ /\ req'[r].pc = "confirm" /\ req'[r].key = req[r].key
                   /\ req'[r].file = req[r].file /\ job[req[r].key] = req[r].current
             /\ \A q \in Request \ {r} : req'[q] = req[q]
  <2> DEFINE k == req[r].key
             s == [pc |-> "confirm", key |-> k, file |-> req[r].file]
  <2>1. Over(r) \/ (req' = [req EXCEPT ![r] = s] /\ job[k] = req[r].current)
    BY <1>5 DEF Again
  <2>2. s.pc = "confirm" /\ s.key = k /\ s.file = req[r].file
    OBVIOUS
  <2> HIDE DEF s
  <2> QED
    BY <2>1, <2>2, OverIs, SetIs
<1>6. ASSUME Confirm(r)
      PROVE  req'[r].pc \in {"over", "sent"} /\ \A q \in Request \ {r} : req'[q] = req[q]
  <2>1. Over(r) \/ req' = [req EXCEPT ![r] = [pc |-> "sent"]]
    BY <1>6 DEF Confirm
  <2> QED
    BY <2>1, OverIs, SetIs
<1>7. Observe(r) \/ Identify(r) \/ Look(r) \/ Open(r) \/ Again(r) \/ Confirm(r) =>
        UNCHANGED <<recipe, job, art, demand, mode, cache, holder, doomed, retiring, work, setting, space>>
  BY DEF Observe, Identify, Look, Open, Again, Confirm
<1> QED
  BY <1>1, <1>2, <1>3, <1>4, <1>5, <1>6, <1>7

\* A request whose job is about to be queued.
Queueing(r) ==
  req' = [req EXCEPT ![r] = [pc |-> "admit", key |-> req[r].key, observed |-> req[r].observed,
                             gen |-> IF job[req[r].key] = NoJob THEN NoGen ELSE job[req[r].key].gen]]

\* A request that goes on to the queue notes the generation its job has.
LEMMA QueueingIs ==
  ASSUME TypeOK, NEW r \in Request, Queueing(r)
  PROVE  /\ req'[r].pc = "admit" /\ req'[r].key = req[r].key /\ req'[r].observed = req[r].observed
         /\ req'[r].gen = IF job[req[r].key] = NoJob THEN NoGen ELSE job[req[r].key].gen
         /\ \A q \in Request \ {r} : req'[q] = req[q]
<1> DEFINE g == IF job[req[r].key] = NoJob THEN NoGen ELSE job[req[r].key].gen
           s == [pc |-> "admit", key |-> req[r].key, observed |-> req[r].observed, gen |-> g]
<1>1. req' = [req EXCEPT ![r] = s]
  BY DEF Queueing
<1>2. s.pc = "admit" /\ s.key = req[r].key /\ s.observed = req[r].observed /\ s.gen = g
  OBVIOUS
<1> HIDE DEF s
<1> QED
  BY <1>1, <1>2, SetIs

Locked  == {"reconcile", "switch", "decide", "admit"}
Locking == {"tidy", "collect", "rename", "ready"}

\* Who holds the lock is where the lock is held, and jobs are being removed only there.
Doing(r) == holder = r <=> req[r].pc \in Locked
LockInv ==
  /\ \A r \in Request : Doing(r)
  /\ holder = Worker <=> work.at.pc \in Locking
  /\ doomed # {} => \/ holder = Admin /\ retiring = {}
                    \/ work.at.pc \in {"tidy", "collect"}
                    \/ \E r \in Request : req[r].pc \in {"switch", "admit"}
  /\ retiring # {} => holder = Admin

\* Each step of a request.
LEMMA RequestLock ==
  ASSUME TypeOK, LockInv, NEW r \in Request, Requests(r) \/ Dies(r)
  PROVE  LockInv'
<1> USE DEF modeVars, lockVars, siteVars
<1>a. r \notin {Nobody, Admin, Worker} /\ holder \in Request \cup {Nobody, Admin, Worker}
      /\ Nobody \notin Request /\ Nobody # Worker /\ Nobody # Admin
  BY FileAssumption DEF TypeOK
<1>b. ASSUME \A q \in Request \ {r} : req'[q] = req[q], UNCHANGED <<holder, doomed, retiring, work>>,
             req[r].pc \in Locked <=> req'[r].pc \in Locked,
             doomed # {} => req[r].pc \notin {"switch", "admit"} \/ req'[r].pc \in {"switch", "admit"}
      PROVE  LockInv'
  BY <1>b DEF LockInv, Doing
<1>c. ASSUME \A q \in Request \ {r} : req'[q] = req[q], UNCHANGED <<retiring, work>>,
             holder = r, holder' = Nobody, req'[r].pc \notin Locked, doomed' = {}
      PROVE  LockInv'
  BY <1>a, <1>c DEF LockInv, Doing
<1>d. ASSUME \A q \in Request \ {r} : req'[q] = req[q], UNCHANGED <<holder, retiring, work>>,
             holder = r, req'[r].pc \in {"switch", "admit"}
      PROVE  LockInv'
  BY <1>a, <1>d DEF LockInv, Doing, Locked
<1>e. holder = r <=> req[r].pc \in Locked
  BY DEF LockInv, Doing
<1>f. req[r].pc \in {"reconcile", "decide"} => doomed = {}
  BY <1>a, <1>e DEF LockInv, Doing, Locked, Locking
<1>1. CASE Observe(r)
  BY <1>1, <1>b, MoveIs DEF Observe, Locked
<1>2. CASE Identify(r)
  BY <1>2, <1>b, MoveIs DEF Identify, Locked
<1>3. CASE Enter(r)
  BY <1>3, <1>b, GotIs, GotoIs, OverIs DEF Enter, Locked, Keyed
<1>4. CASE Lock(r)
  <2>1. CASE Over(r) /\ UNCHANGED holder
    BY <1>4, <1>b, <2>1, OverIs DEF Lock, Locked
  <2>2. CASE holder = Nobody /\ holder' = r /\ Goto(r, IF ModeCurrent(r) THEN "decide" ELSE "reconcile")
    <3>1. req'[r].pc \in {"decide", "reconcile"} /\ \A q \in Request \ {r} : req'[q] = req[q]
      BY <1>4, <2>2, GotoIs DEF Lock, Keyed
    <3> QED
      BY <1>4, <1>a, <2>2, <3>1 DEF Lock, LockInv, Doing, Locked
  <2> QED
    BY <1>4, <2>1, <2>2 DEF Lock
<1>5. CASE Reconcile(r)
  <2>1. CASE Over(r) /\ Unlock
    BY <1>5, <1>c, <1>e, <1>f, <2>1, OverIs DEF Reconcile, Locked, Unlock
  <2>2. CASE Goto(r, "switch") /\ UNCHANGED <<holder, retiring>>
    BY <1>5, <1>d, <1>e, <2>2, GotoIs DEF Reconcile, Locked, Keyed
  <2> QED
    BY <1>5, <2>1, <2>2 DEF Reconcile
<1>6. CASE Switch(r)
  BY <1>6, <1>b, GotoIs DEF Switch, Locked, Keyed
<1>7. CASE Reuse(r)
  BY <1>7, <1>c, <1>e, <1>f, GotIs DEF Reuse, Locked, Keyed, Unlock
<1>8. CASE Retire(r)
  <2>1. CASE Over(r) /\ Unlock
    BY <1>8, <1>c, <1>e, <1>f, <2>1, OverIs DEF Retire, Locked, Unlock
  <2>2. CASE Queueing(r) /\ UNCHANGED <<holder, retiring>>
    BY <1>8, <1>d, <1>e, <2>2, QueueingIs DEF Retire, Locked
  <2> QED
    BY <1>8, <2>1, <2>2 DEF Retire, Queueing
<1>9. CASE Admit(r)
  BY <1>9, <1>c, <1>e, OverIs DEF Admit, Locked, Unlock
<1>10. CASE Look(r)
  BY <1>10, <1>b, MoveIs DEF Look, Locked
<1>11. CASE Open(r)
  BY <1>11, <1>b, MoveIs DEF Open, Locked
<1>12. CASE Again(r)
  BY <1>12, <1>b, MoveIs DEF Again, Locked
<1>13. CASE Confirm(r)
  BY <1>13, <1>b, MoveIs DEF Confirm, Locked
<1>14. CASE Dies(r)
  BY <1>14, <1>c, OverIs DEF Dies, Locked
<1> QED
  BY <1>1, <1>2, <1>3, <1>4, <1>5, <1>6, <1>7, <1>8, <1>9, <1>10, <1>11, <1>12, <1>13, <1>14 DEF Requests

\* Each step of an admin, a removal, the worker and the passage of time.
LEMMA OtherLock ==
  ASSUME TypeOK, Counted, LockInv,
         \/ Administers \/ Erases \/ SpaceChanges \/ \E k \in Key : Ripen(k)
         \/ Works \/ Raises \/ GivesUp \/ Unanswered \/ WorkerDies
  PROVE  LockInv'
<1> USE DEF modeVars, lockVars, siteVars
<1>a. /\ holder \in Request \cup {Nobody, Admin, Worker}
      /\ {Nobody, Admin, Worker} \cap Request = {} /\ Nobody # Worker /\ Nobody # Admin /\ Admin # Worker
  BY FileAssumption DEF TypeOK
<1>b. ASSUME UNCHANGED <<holder, retiring, req>>, work' = work \/ work'.at.pc = work.at.pc,
             doomed' \subseteq doomed
      PROVE  LockInv'
  BY <1>b DEF LockInv, Doing
<1>c. ASSUME UNCHANGED <<holder, doomed, retiring, req>>, work.at.pc \notin Locking, work'.at.pc \notin Locking
      PROVE  LockInv'
  BY <1>c DEF LockInv, Doing, Locking
<1>d. ASSUME holder = Nobody, holder' \in {Admin, Worker}, UNCHANGED <<retiring, req>>,
             holder' = Worker <=> work'.at.pc \in Locking,
             doomed' = {} \/ work'.at.pc \in {"tidy", "collect"}
      PROVE  LockInv'
  BY <1>a, <1>d DEF LockInv, Doing
<1>e. ASSUME holder \in {Admin, Worker}, holder' = Nobody, UNCHANGED req,
             work'.at.pc \notin Locking, doomed' = {}, retiring' = {}
      PROVE  LockInv'
  BY <1>a, <1>e DEF LockInv, Doing
<1>f. work.at.pc \in Locking => retiring = {}
  BY <1>a DEF LockInv
<1>1. ASSUME NEW c \in Challenge, RetireObsolete(c)
      PROVE  LockInv'
  BY <1>1, <1>a DEF RetireObsolete, LockInv, Doing
<1>2. ASSUME NEW c \in Challenge, NEW new \in Offered, SetRecipe(c, new)
      PROVE  LockInv'
  <2>1. doomed = {}
    BY <1>2, <1>a DEF SetRecipe, LockInv, Doing, Locked, Locking
  <2> QED
    BY <1>2, <1>a, <2>1 DEF SetRecipe, LockInv, Doing
<1>3. CASE AdminDone \/ AdminDies
  BY <1>3, <1>a, <1>e DEF AdminDone, AdminDies, Unlock, LockInv
<1>4. CASE RetryFailed \/ ChangeSetting \/ SpaceChanges \/ \E k \in Key : Ripen(k)
  BY <1>4, <1>b DEF RetryFailed, ChangeSetting, SpaceChanges, Ripen
<1>5. CASE Erases
  BY <1>5, <1>b DEF Erases, EraseFiles, EraseJob
<1>6. CASE Begin
  <2>1. work'.at.pc \in {"recover", "claim"}
    BY <1>6 DEF Begin, Resting
  <2> QED
    BY <1>6, <1>c, <2>1 DEF Begin, WorkerAt, Locking
<1>7. CASE Recover \/ Prepare
  BY <1>7, <1>b DEF Recover, Prepare
<1>8. CASE Tidy
  <2>1. work'.at.pc = "tidy"
    BY <1>8, StepType DEF Tidy, Collects, WorkerAt, Idling
  <2> QED
    BY <1>8, <1>d, <2>1 DEF Tidy, Collects, Locking
<1>9. CASE Tidied
  <2>1. work'.at.pc = "claim"
    BY <1>9 DEF Tidied, TypeOK, Run
  <2> QED
    BY <1>9, <1>e, <1>f, <2>1 DEF Tidied, WorkerAt, Unlock, Locking, LockInv
<1>10. CASE Claim
  <2>1. work'.at.pc \in {"off", "prepare"}
    <3>1. Rest => work'.at.pc = "off"
      BY RestType
    <3>2. ASSUME NEW k, NEW g, NEW set, Claims(k, g, set)
          PROVE  work'.at.pc = "prepare"
      BY <3>2, ClaimsWork
    <3> QED
      BY <1>10, <3>1, <3>2, ClaimCases
  <2> QED
    BY <1>10, <1>c, <2>1 DEF Claim, WorkerAt, Locking
<1>11. CASE Prepared
  <2>1. work'.at.pc = "collect"
    BY <1>11, StepType DEF Prepared, Collects, WorkerAt, Engaged
  <2> QED
    BY <1>11, <1>d, <2>1 DEF Prepared, Collects, Locking
<1>12. CASE Collected
  <2>1. work'.at.pc = "generate"
    BY <1>12, StepType DEF Collected, WorkerAt, Engaged
  <2> QED
    BY <1>12, <1>e, <1>f, <2>1 DEF Collected, WorkerAt, Unlock, Locking, LockInv
<1>13. CASE Generate
  <2>1. work'.at.pc = "publish"
    BY <1>13, StepType DEF Generate, WorkerAt, Engaged
  <2> QED
    BY <1>13, <1>c, <2>1 DEF Generate, WorkerAt, Locking
<1>14. CASE Raises
  <2>1. work'.at.pc = "fail"
    BY <1>14 DEF Raises, TypeOK, Run, Engaged
  <2>2. work.at.pc \notin Locking
    BY <1>14 DEF Raises, LockInv
  <2> QED
    BY <1>14, <1>c, <2>1, <2>2 DEF Raises, Locking
<1>15. CASE Publish
  <2>1. work'.at.pc = "rename"
    BY <1>15, StepType DEF Publish, WorkerAt, Engaged
  <2>2. doomed = {}
    BY <1>15, <1>a DEF Publish, WorkerAt, LockInv, Doing, Locked
  <2> QED
    BY <1>15, <1>d, <2>1, <2>2 DEF Publish, Locking
<1>16. CASE Rename
  <2>1. work'.at.pc = "ready"
    BY <1>16, StepType DEF Rename, WorkerAt, Engaged
  <2> QED
    BY <1>16, <2>1 DEF Rename, WorkerAt, LockInv, Doing, Locking
<1>17. CASE Ready
  <2>1. work'.at.pc = "off"
    BY <1>17, RestType DEF Ready
  <2>2. doomed = {} /\ holder = Worker
    BY <1>17, <1>a DEF Ready, WorkerAt, LockInv, Doing, Locked, Locking
  <2> QED
    BY <1>17, <1>e, <1>f, <2>1, <2>2 DEF Ready, WorkerAt, Unlock, Locking
<1>18. CASE Fail
  <2>1. work'.at.pc = "off"
    BY <1>18, RestType DEF Fail
  <2> QED
    BY <1>18, <1>c, <2>1 DEF Fail, WorkerAt, Locking
<1>19. CASE GivesUp
  <2>1. work'.at.pc = "off"
    BY <1>19, RestType DEF GivesUp
  <2> QED
    BY <1>19, <1>c, <2>1 DEF GivesUp, Locking
<1>20. CASE WorkerDies
  <2>1. work'.at.pc = "off"
    BY <1>20, RestType DEF WorkerDies
  <2>2. CASE holder = Worker
    BY <1>20, <1>e, <1>f, <2>1, <2>2 DEF WorkerDies, Locking, LockInv
  <2>3. CASE holder # Worker
    BY <1>20, <1>c, <2>1, <2>3 DEF WorkerDies, Locking, LockInv
  <2> QED
    BY <2>2, <2>3
<1>21. CASE Unanswered
  <2>1. work'.at.pc = "off"
    BY <1>21, RestType DEF Unanswered
  <2> QED
    BY <1>21, <1>c, <2>1 DEF Unanswered, WorkerAt, Locking
<1> QED
  BY <1>1, <1>2, <1>3, <1>4, <1>5, <1>6, <1>7, <1>8, <1>9, <1>10, <1>11, <1>12, <1>13, <1>14, <1>15,
     <1>16, <1>17, <1>18, <1>19, <1>20, <1>21 DEF Administers, Works

(***************************************************************************)
(* The life of a job                                                       *)
(***************************************************************************)

Alike(k) ==
  /\ k \in Jobs /\ job'[k] # NoJob
  /\ job'[k].gen = job[k].gen /\ job'[k].background = job[k].background /\ job'[k].order = job[k].order

\* The steps that change a job: time passes, ...
Ripens(k) ==
  /\ Ripen(k) /\ Alike(k) /\ k \in In({"queued"}) /\ job'[k].state = "queued"
  /\ job'[k].attempts = job[k].attempts /\ job'[k].obsolete = job[k].obsolete /\ job'[k].changed = job[k].changed

\* ... a request or an admin retires it while it runs, ...
Interrupted(k) ==
  /\ \/ \E r \in Request : holder = r /\ (Reconcile(r) \/ Retire(r))
     \/ holder = Admin /\ \E c \in Challenge : RetireObsolete(c)
  /\ Alike(k) /\ k \in In({"running"}) /\ job'[k].state = "failed"
  /\ job'[k].attempts = job[k].attempts /\ (job[k].obsolete => job'[k].obsolete)

\* ... an attempt has failed, ...
Fails(k) ==
  /\ Recover \/ (Fail /\ Claimed /\ k = work.at.key)
  /\ Alike(k) /\ k \in In({"running"}) /\ job'[k].state \in {"queued", "failed"}
  /\ job'[k].attempts = job[k].attempts /\ job'[k].obsolete = job[k].obsolete

\* ... a claim passes it over, ...
PassedOver(k) ==
  /\ Claim
  /\ Alike(k) /\ k \in In({"queued"}) /\ job'[k].state = "failed"
  /\ job'[k].attempts = job[k].attempts /\ job'[k].obsolete = job[k].obsolete

\* ... or takes it up, ...
TakenUp(k) ==
  /\ Claim /\ k \in In({"queued"}) /\ job'[k] # NoJob /\ job'[k].state = "running"
  /\ work'.at.pc = "prepare" /\ work'.at.key = k /\ work'.due = work.due
  /\ job'[k].gen \in Gen /\ Fresh(job'[k].gen) /\ work'.at.gen = job'[k].gen
  /\ job'[k].attempts = job[k].attempts + 1 /\ work'.at.attempts = job'[k].attempts
  /\ job'[k].background = job[k].background /\ job'[k].order = job[k].order
  /\ job'[k].obsolete = job[k].obsolete

\* ... the worker has published it, ...
Finishes(k) ==
  /\ Ready /\ k = work.at.key /\ Alike(k) /\ job'[k].state = "ready"
  /\ job'[k].obsolete = job[k].obsolete

\* ... a download asks for it, ...
Promoted(k) ==
  /\ \E r \in Request : holder = r /\ Reuse(r) /\ k = req[r].key /\ Promotes(r)
  /\ k \in Jobs /\ job'[k] # NoJob /\ ~job'[k].background
  /\ job'[k].order = demand + 1 /\ demand' = demand + 1
  /\ job'[k].state = job[k].state /\ job'[k].gen = job[k].gen /\ job'[k].attempts = job[k].attempts
  /\ job'[k].obsolete = job[k].obsolete /\ job'[k].changed = job[k].changed

\* ... an admin retries it, ...
Requeued(k) ==
  /\ RetryFailed /\ Alike(k) /\ k \in In({"failed"}) /\ ~job[k].obsolete
  /\ KindOf[k.owner] = mode.kind
  /\ job'[k].state = "queued" /\ ~job'[k].obsolete

\* ... a request queues it, ...
Admitted(k) ==
  /\ \E r \in Request :
       /\ holder = r /\ Admit(r) /\ k = req[r].key /\ ~Full(r)
       /\ job'[k] # NoJob /\ job'[k].state = "queued" /\ ~job'[k].obsolete
       /\ job'[k].background = (r \in Background) /\ job'[k].gen = req[r].gen
       /\ IF r \in Background THEN job'[k].order = 0 /\ demand' = demand
                              ELSE job'[k].order = demand + 1 /\ demand' = demand + 1

\* ... and whoever holds the lock removes it.
Erased(k) == k \in doomed /\ EraseJob(k) /\ ~Complete(k) /\ job'[k] = NoJob /\ art'[k] = NoArt

Life(k) ==
  \/ job'[k] = job[k]
  \/ Ripens(k) \/ Interrupted(k) \/ Fails(k) \/ PassedOver(k) \/ TakenUp(k) \/ Finishes(k)
  \/ Promoted(k) \/ Requeued(k) \/ Admitted(k) \/ Erased(k)

\* Each of them.
LEMMA RipenIs ==
  ASSUME TypeOK, NEW x \in Key, Ripen(x), NEW k \in Key
  PROVE  job'[k] = job[k] \/ Ripens(k)
<1> DEFINE row == [job[x] EXCEPT !.due = TRUE]
<1>1. job[x] \in JobRow /\ x \in In({"queued"}) /\ x \in Jobs /\ job[x].state = "queued"
  BY DEF Ripen, In, Jobs, TypeOK
<1>2. /\ row \in JobRow /\ row.state = job[x].state /\ row.attempts = job[x].attempts
      /\ row.gen = job[x].gen /\ row.background = job[x].background /\ row.order = job[x].order
      /\ row.obsolete = job[x].obsolete /\ row.changed = job[x].changed
  BY <1>1 DEF JobRow
<1>3. job' = [job EXCEPT ![x] = row]
  BY DEF Ripen
<1> HIDE DEF row
<1>4. k # x => job'[k] = job[k]
  BY <1>3 DEF TypeOK
<1>5. k = x => job'[k] = row /\ job'[k] # NoJob
  BY <1>2, <1>3, NoneAssumption DEF TypeOK
<1>6. k = x => Ripens(k)
  BY <1>1, <1>2, <1>5 DEF Ripens, Alike
<1> QED
  BY <1>4, <1>6

\* Marking changes a job only if it runs, into a failed one.
LEMMA MarkLife ==
  ASSUME TypeOK, NEW k \in Key, NEW a, NEW b, NEW x \in BOOLEAN, NEW y \in BOOLEAN,
         \/ job' = Mark(a, x)
         \/ job' = [q \in Key |-> IF q \in a THEN Mark(a, x)[q] ELSE Mark(b, y)[q]]
  PROVE  \/ job'[k] = job[k]
         \/ /\ Alike(k) /\ k \in In({"running"}) /\ job'[k].state = "failed"
            /\ job'[k].attempts = job[k].attempts /\ (job[k].obsolete => job'[k].obsolete)
<1> DEFINE Marks(row) == /\ k \in In({"running"}) /\ row # NoJob /\ row.state = "failed"
                         /\ row.gen = job[k].gen /\ row.background = job[k].background /\ row.order = job[k].order
                         /\ row.attempts = job[k].attempts /\ (job[k].obsolete => row.obsolete)
<1>1. ASSUME NEW set, NEW z \in BOOLEAN
      PROVE  Mark(set, z)[k] = job[k] \/ Marks(Mark(set, z)[k])
  <2>1. CASE k \notin set \cap In({"running"})
    BY <2>1, Marked
  <2>2. CASE k \in set \cap In({"running"})
    BY <2>2, Marked
  <2> QED
    BY <2>1, <2>2
<1>2. job'[k] = Mark(a, x)[k] \/ job'[k] = Mark(b, y)[k]
  OBVIOUS
<1>3. job'[k] = job[k] \/ Marks(job'[k])
  <2> HIDE DEF Marks
  <2> QED
    BY <1>1, <1>2
<1> QED
  BY <1>3 DEF Alike, In

\* Requests take jobs from one stage of their life to another.
LEMMA RequestLife ==
  ASSUME TypeOK, LockInv, NEW r \in Request, Requests(r) \/ Dies(r), NEW k \in Key
  PROVE  Life(k)
<1>a. holder = r <=> req[r].pc \in Locked
  BY DEF LockInv, Doing
<1>1. CASE Reconcile(r)
  <2>1. CASE UNCHANGED job
    BY <2>1 DEF Life
  <2>2. CASE job' = Mark(Alien(KindFor(r)), TRUE)
    <3>1. holder = r
      BY <1>1, <1>a DEF Reconcile, Locked
    <3>2. job'[k] = job[k] \/ ( /\ Alike(k) /\ k \in In({"running"}) /\ job'[k].state = "failed"
                                /\ job'[k].attempts = job[k].attempts /\ (job[k].obsolete => job'[k].obsolete))
      BY <2>2, MarkLife
    <3> QED
      BY <1>1, <3>1, <3>2 DEF Life, Interrupted
  <2> QED
    BY <1>1, <2>1, <2>2 DEF Reconcile
<1>2. CASE Retire(r)
  <2>1. CASE UNCHANGED job
    BY <2>1 DEF Life
  <2>2. CASE ~UNCHANGED job
    <3> DEFINE others == {x \in Jobs : x.challenge = req[r].key.challenge /\ x.recipe # req[r].key.recipe} \ In({"ready"})
               rest   == SameIdentity(req[r].key) \ others
    <3>1. job' = [x \in Key |-> IF x \in others THEN Mark(others, FALSE)[x] ELSE Mark(rest, TRUE)[x]]
      BY <1>2, <2>2 DEF Retire
    <3>2. holder = r
      BY <1>2, <1>a DEF Retire, Locked
    <3> HIDE DEF others, rest
    <3>3. job'[k] = job[k] \/ ( /\ Alike(k) /\ k \in In({"running"}) /\ job'[k].state = "failed"
                                /\ job'[k].attempts = job[k].attempts /\ (job[k].obsolete => job'[k].obsolete))
      BY <3>1, MarkLife
    <3> QED
      BY <1>2, <3>2, <3>3 DEF Life, Interrupted
  <2> QED
    BY <2>1, <2>2
<1>3. CASE Reuse(r)
  <2> DEFINE x   == req[r].key
             row == [job[x] EXCEPT !.background = FALSE, !.order = demand + 1]
  <2>1. CASE UNCHANGED job
    BY <2>1 DEF Life
  <2>2. CASE ~UNCHANGED job
    <3>1. Promotes(r) /\ demand' = demand + 1 /\ job' = [job EXCEPT ![x] = row]
      BY <1>3, <2>2 DEF Reuse
    <3>2. x \in Key /\ x \in Jobs /\ job[x] \in JobRow /\ holder = r
      <4>1. req[r].pc = "decide" /\ job[x] # NoJob
        BY <1>3 DEF Reuse, Reusable
      <4>2. x \in Key
        BY <4>1, ReqFields DEF Keyed
      <4> QED
        BY <1>a, <4>1, <4>2 DEF Locked, Jobs, TypeOK
    <3>3. /\ row \in JobRow /\ ~row.background /\ row.order = demand + 1 /\ row.state = job[x].state
          /\ row.gen = job[x].gen /\ row.attempts = job[x].attempts /\ row.obsolete = job[x].obsolete
          /\ row.changed = job[x].changed
      <4>1. demand + 1 \in Nat
        BY DEF TypeOK
      <4> QED
        BY <3>2, <4>1 DEF JobRow
    <3> HIDE DEF row
    <3>4. k # x => job'[k] = job[k]
      BY <3>1 DEF TypeOK
    <3>5. k = x => job'[k] = row /\ job'[k] # NoJob
      BY <3>1, <3>2, <3>3, NoneAssumption DEF TypeOK
    <3>6. k = x => Promoted(k)
      BY <1>3, <3>1, <3>2, <3>3, <3>5 DEF Promoted
    <3> QED
      BY <3>4, <3>6 DEF Life
  <2> QED
    BY <2>1, <2>2
<1>4. CASE Admit(r)
  <2> DEFINE x   == req[r].key
             before == r \in Background
             order  == IF before THEN 0 ELSE demand + 1
             row == [state |-> "queued", attempts |-> 0, gen |-> req[r].gen, background |-> before,
                     order |-> order, changed |-> FALSE, obsolete |-> FALSE, due |-> TRUE]
  <2>1. CASE Full(r)
    BY <1>4, <2>1 DEF Admit, Life
  <2>2. CASE ~Full(r)
    <3>1. job' = [job EXCEPT ![x] = row] /\ demand' = IF before THEN demand ELSE order
      BY <1>4, <2>2 DEF Admit
    <3>2. x \in Key /\ holder = r /\ req[r].gen \in Gen \cup {NoGen}
      BY <1>4, <1>a, ReqFields DEF Admit, Locked, Keyed
    <3>3. /\ row \in JobRow /\ row.background = before /\ row.order = order /\ row.state = "queued"
          /\ row.gen = req[r].gen /\ ~row.obsolete
      <4>1. order \in Nat /\ 0 \in 0 .. Attempts
        BY FileAssumption DEF TypeOK
      <4> QED
        BY <3>2, <4>1 DEF JobRow
    <3> HIDE DEF row
    <3>4. k # x => job'[k] = job[k]
      BY <3>1 DEF TypeOK
    <3>5. k = x => job'[k] = row /\ job'[k] # NoJob
      BY <3>1, <3>2, <3>3, NoneAssumption DEF TypeOK
    <3>6. k = x => Admitted(k)
      BY <1>4, <2>2, <3>1, <3>2, <3>3, <3>5 DEF Admitted
    <3> QED
      BY <3>4, <3>6 DEF Life
  <2> QED
    BY <2>1, <2>2
<1>5. ASSUME ~Reconcile(r), ~Retire(r), ~Reuse(r), ~Admit(r)
      PROVE  job' = job
  BY <1>5 DEF Requests, Dies, Observe, Identify, Enter, Lock, Switch, Look, Open, Again, Confirm
<1> QED
  BY <1>1, <1>2, <1>3, <1>4, <1>5 DEF Life

\* So do admins, the disk and time ...
LEMMA AdminLife ==
  ASSUME TypeOK, LockInv, Administers \/ Erases \/ SpaceChanges \/ \E x \in Key : Ripen(x), NEW k \in Key
  PROVE  Life(k)
<1>1. ASSUME NEW c \in Challenge, RetireObsolete(c)
      PROVE  Life(k)
  <2> DEFINE others == {x \in Jobs : x.challenge = c /\ ~Fits(x)} \ In({"ready"})
  <2>1. job' = Mark(others, FALSE)
    BY <1>1 DEF RetireObsolete
  <2>2. holder = Admin
    BY <1>1 DEF RetireObsolete, LockInv
  <2> HIDE DEF others
  <2>3. job'[k] = job[k] \/ ( /\ Alike(k) /\ k \in In({"running"}) /\ job'[k].state = "failed"
                              /\ job'[k].attempts = job[k].attempts /\ (job[k].obsolete => job'[k].obsolete))
    BY <2>1, MarkLife
  <2> QED
    BY <1>1, <2>2, <2>3 DEF Life, Interrupted
<1>2. CASE RetryFailed
  <2>1. PICK again \in SUBSET In({"failed"}) :
          /\ \A x \in again : ~job[x].obsolete /\ KindOf[x.owner] = mode.kind
          /\ job' = [x \in Key |-> IF x \in again
                                  THEN [job[x] EXCEPT !.state = "queued", !.attempts = 0, !.due = TRUE]
                                  ELSE job[x]]
    BY <1>2 DEF RetryFailed
  <2>2. CASE k \notin again
    BY <2>1, <2>2 DEF Life
  <2>3. CASE k \in again
    <3> DEFINE row == [job[k] EXCEPT !.state = "queued", !.attempts = 0, !.due = TRUE]
    <3>1. job[k] \in JobRow /\ k \in In({"failed"}) /\ k \in Jobs
      BY <2>1, <2>3 DEF In, Jobs, TypeOK
    <3>2. 0 \in 0 .. Attempts
      BY FileAssumption
    <3>3. /\ row \in JobRow /\ row.state = "queued" /\ row.gen = job[k].gen /\ row.order = job[k].order
          /\ row.background = job[k].background /\ row.obsolete = job[k].obsolete
      BY <3>1, <3>2 DEF JobRow
    <3>4. job'[k] = row
      BY <2>1, <2>3
    <3> HIDE DEF row
    <3>5. job'[k] # NoJob
      BY <3>3, <3>4, NoneAssumption
    <3>6. ~row.obsolete
      BY <2>1, <2>3, <3>3
    <3> QED
      BY <1>2, <2>1, <2>3, <3>1, <3>3, <3>4, <3>5, <3>6 DEF Life, Requeued, Alike
  <2> QED
    BY <2>2, <2>3
<1>3. ASSUME NEW x \in doomed, EraseJob(x)
      PROVE  Life(k)
  <2>1. x \in Key /\ ~Complete(x) /\ job' = [job EXCEPT ![x] = NoJob] /\ art' = [art EXCEPT ![x] = NoArt]
    BY <1>3 DEF EraseJob, TypeOK
  <2>2. CASE k = x
    BY <1>3, <2>1, <2>2 DEF Life, Erased, TypeOK
  <2>3. CASE k # x
    BY <2>1, <2>3 DEF Life, TypeOK
  <2> QED
    BY <2>2, <2>3
<1>4. ASSUME NEW x \in Key, Ripen(x)
      PROVE  Life(k)
  BY <1>4, RipenIs DEF Life
<1>5. ASSUME NEW x \in doomed, EraseFiles(x)
      PROVE  job' = job
  BY <1>5 DEF EraseFiles
<1>6. ASSUME NEW c \in Challenge, NEW new \in Offered, SetRecipe(c, new)
      PROVE  job' = job
  BY <1>6 DEF SetRecipe
<1>7. CASE AdminDone \/ AdminDies \/ ChangeSetting \/ SpaceChanges
  BY <1>7 DEF AdminDone, AdminDies, ChangeSetting, SpaceChanges, Life
<1> QED
  BY <1>1, <1>2, <1>3, <1>4, <1>5, <1>6, <1>7 DEF Administers, Erases, Life

\* ... and the worker.
LEMMA WorkerLife ==
  ASSUME TypeOK, Counted, AtHand, Works \/ Raises \/ GivesUp \/ Unanswered \/ WorkerDies, NEW k \in Key
  PROVE  Life(k)
<1>1. ASSUME NEW x \in In({"running"}), job' = Failed(x), Recover \/ (Fail /\ Claimed /\ x = work.at.key)
      PROVE  Life(k)
  <2>1. x \in Key /\ x \in Jobs
    BY DEF In, Jobs
  <2>2. CASE k # x
    BY <1>1, <2>2, FailedType DEF Life
  <2>3. CASE k = x
    <3>1. /\ job'[k] # NoJob /\ job'[k].state \in {"queued", "failed"}
          /\ job'[k].attempts = job[k].attempts /\ job'[k].gen = job[k].gen
          /\ job'[k].background = job[k].background /\ job'[k].order = job[k].order
          /\ job'[k].obsolete = job[k].obsolete
      BY <1>1, <2>3, FailedType
    <3> QED
      BY <1>1, <2>1, <2>3, <3>1 DEF Life, Fails, Alike
  <2> QED
    BY <2>2, <2>3
<1>2. CASE Recover
  BY <1>1, <1>2 DEF Recover
<1>3. CASE Fail
  <2>1. CASE ~Claimed
    BY <1>3, <2>1 DEF Fail, Life
  <2>2. CASE Claimed
    <3>1. work.at.key \in In({"running"})
      BY <1>3, <2>2, WorkFields DEF Fail, WorkerAt, Engaged, Claimed, In, Jobs
    <3> QED
      BY <1>1, <1>3, <2>2, <3>1 DEF Fail
  <2> QED
    BY <2>1, <2>2
<1>4. CASE Claim
  <2>1. ASSUME NEW set \in SUBSET In({"queued"}), job'[k] = Passed(set)[k]
        PROVE  Life(k)
    <3>1. CASE k \notin set
      BY <2>1, <3>1, PassedType DEF Life
    <3>2. CASE k \in set
      <4>1. k \in In({"queued"}) /\ k \in Jobs
        BY <3>2 DEF In
      <4> QED
        BY <1>4, <2>1, <3>2, <4>1, PassedType DEF Life, PassedOver, Alike
    <3> QED
      BY <3>1, <3>2
  <2>2. ASSUME NEW x, NEW g, NEW set, Claims(x, g, set)
        PROVE  Life(k)
    <3>1. CASE k # x
      <4>1. job'[k] = Passed(set)[k] /\ set \in SUBSET In({"queued"})
        BY <2>2, <3>1, ClaimsOthers, ClaimsWork
      <4> QED
        BY <2>1, <4>1
    <3>2. CASE k = x
      <4>1. /\ work'.at.pc = "prepare" /\ work'.at.key = k /\ work'.at.gen = g
            /\ work'.at.attempts = job[k].attempts + 1 /\ work'.due = work.due
            /\ k \in In({"queued"}) /\ g \in Gen /\ Fresh(g)
        BY <2>2, <3>2, ClaimsWork
      <4>2. /\ job'[k] # NoJob /\ job'[k].state = "running" /\ job'[k].gen = g
            /\ job'[k].attempts = job[k].attempts + 1
            /\ job'[k].order = job[k].order /\ job'[k].background = job[k].background
            /\ job'[k].obsolete = job[k].obsolete
        BY <2>2, <3>2, ClaimsRow
      <4> QED
        BY <1>4, <4>1, <4>2 DEF Life, TakenUp
    <3> QED
      BY <3>1, <3>2
  <2> QED
    BY <1>4, <2>1, <2>2, ClaimCases
<1>5. CASE Ready
  <2> DEFINE x   == work.at.key
             row == [job[x] EXCEPT !.state = "ready", !.changed = FALSE]
  <2>1. x \in Key /\ job[x] # NoJob
    BY <1>5, WorkFields DEF Ready, WorkerAt, Engaged, AtHand
  <2>2. job[x] \in JobRow
    BY <2>1 DEF TypeOK
  <2>3. /\ row \in JobRow /\ row.state = "ready" /\ row.gen = job[x].gen /\ row.order = job[x].order
        /\ row.background = job[x].background /\ row.obsolete = job[x].obsolete
    BY <2>2 DEF JobRow
  <2>4. job' = [job EXCEPT ![x] = row]
    BY <1>5 DEF Ready
  <2> HIDE DEF row
  <2>5. k # x => job'[k] = job[k]
    BY <2>4 DEF TypeOK
  <2>6. k = x => job'[k] = row /\ job'[k] # NoJob
    BY <2>3, <2>4, NoneAssumption DEF TypeOK
  <2>7. k = x => Finishes(k)
    BY <1>5, <2>1, <2>3, <2>6 DEF Finishes, Alike, Jobs
  <2> QED
    BY <2>5, <2>7 DEF Life
<1>6. ASSUME ~Recover, ~Fail, ~Claim, ~Ready
      PROVE  job' = job
  BY <1>6 DEF Works, Begin, Tidy, Tidied, Collects, Prepare, Prepared, Collected, Generate, Raises, Publish,
     Rename, GivesUp, Unanswered, WorkerDies
<1> QED
  BY <1>2, <1>3, <1>4, <1>5, <1>6 DEF Life

\* Every step takes every job from one stage of its life to another, or leaves it.
LEMMA Lives ==
  ASSUME TypeInv, LockInv, AtHand, Next, NEW k \in Key
  PROVE  Life(k)
<1>1. TypeOK /\ Counted
  BY DEF TypeInv
<1>2. ASSUME NEW r \in Request, Requests(r) \/ Dies(r)
      PROVE  Life(k)
  BY <1>1, <1>2, RequestLife
<1>3. CASE Administers \/ Erases \/ SpaceChanges \/ \E x \in Key : Ripen(x)
  BY <1>1, <1>3, AdminLife
<1>4. CASE Works \/ Raises \/ GivesUp \/ Unanswered \/ WorkerDies
  BY <1>1, <1>4, WorkerLife
<1> QED
  BY <1>2, <1>3, <1>4 DEF Next

(***************************************************************************)
(* The worker                                                              *)
(***************************************************************************)

\* A job that runs after a step ran before it, or was claimed.
LEMMA StillRunning ==
  ASSUME NEW k \in Key, Life(k), k \in In({"running"})'
  PROVE  \/ k \in In({"running"}) /\ job'[k].gen = job[k].gen /\ job'[k].attempts = job[k].attempts
         \/ TakenUp(k)
<1>1. k \in Key /\ job'[k] # NoJob /\ job'[k].state = "running"
  BY DEF In, Jobs
<1>2. CASE job'[k] = job[k]
  BY <1>1, <1>2 DEF In, Jobs
<1>3. CASE Promoted(k)
  BY <1>1, <1>3 DEF Promoted, In
<1>4. ~Ripens(k) /\ ~Interrupted(k) /\ ~Fails(k) /\ ~PassedOver(k) /\ ~Finishes(k) /\ ~Requeued(k)
      /\ ~Admitted(k) /\ ~Erased(k)
  BY <1>1 DEF Ripens, Interrupted, Fails, PassedOver, Finishes, Requeued, Admitted, Erased
<1> QED
  BY <1>2, <1>3, <1>4 DEF Life

SameRun ==
  /\ work'.at.key = work.at.key /\ work'.at.gen = work.at.gen /\ work'.at.attempts = work.at.attempts
  /\ work'.due = work.due

EndOfRun == work'.at.pc = "off" /\ work'.at.gen = NoGen

\* What the worker has in hand after each of its steps.
LEMMA WorkMoves ==
  ASSUME TypeOK, Counted, AtHand
  PROVE  /\ Begin => /\ work.at.pc = "off" /\ work'.at.pc \in {"recover", "claim"} /\ work'.at.gen = NoGen
                     /\ work.due => work'.due
         /\ Tidy => work.at.pc = "recover" /\ work'.at.pc = "tidy" /\ SameRun
         /\ Tidied => work.at.pc = "tidy" /\ work'.at.pc = "claim" /\ work'.at.gen = NoGen
         /\ Claim => /\ work.at.pc = "claim"
                     /\ \/ EndOfRun /\ work'.due = work.due
                        \/ TakenUp(work'.at.key) /\ work'.at.key \in Key
         /\ Prepared => work.at.pc = "prepare" /\ work'.at.pc = "collect" /\ SameRun
         /\ Collected => work.at.pc = "collect" /\ work'.at.pc = "generate" /\ SameRun
         /\ Generate => work.at.pc = "generate" /\ work'.at.pc = "publish" /\ SameRun
         /\ Publish => work.at.pc = "publish" /\ work'.at.pc = "rename" /\ SameRun
         /\ Rename => work.at.pc = "rename" /\ work'.at.pc = "ready" /\ SameRun
         /\ Raises => /\ work.at.pc \in Engaged /\ work'.at.pc = "fail" /\ work'.due
                      /\ work'.at.key = work.at.key /\ work'.at.gen = work.at.gen
                      /\ work'.at.attempts = work.at.attempts
         /\ Ready => work.at.pc = "ready" /\ EndOfRun /\ work'.due = work.due
         /\ Fail => work.at.pc = "fail" /\ EndOfRun /\ work'.due = work.due
         /\ GivesUp => /\ work.at.pc \in {"recover", "claim", "fail"} /\ EndOfRun
                       /\ (work.due => work'.due) /\ (work.at.pc = "fail" => work'.due)
         /\ WorkerDies => EndOfRun /\ work'.due
         /\ Unanswered => work.at.pc = "recover" /\ EndOfRun /\ work'.due = work.due
         /\ Recover => work.at.pc = "recover"
         /\ Prepare => work.at.pc = "prepare"
         /\ Recover \/ Prepare \/ Administers \/ Erases \/ SpaceChanges \/ (\E k \in Key : Ripen(k))
              \/ (\E r \in Request : Requests(r) \/ Dies(r)) => work' = work
<1> USE DEF WorkerAt
<1>1. Begin => /\ work.at.pc = "off" /\ work'.at.pc \in {"recover", "claim"} /\ work'.at.gen = NoGen
               /\ work.due => work'.due
  <2> SUFFICES ASSUME Begin
               PROVE  /\ work.at.pc = "off" /\ work'.at.pc \in {"recover", "claim"} /\ work'.at.gen = NoGen
                      /\ work.due => work'.due
    OBVIOUS
  <2>1. PICK due \in {TRUE, work.due} :
          work' = [at |-> [Resting EXCEPT !.pc = IF due THEN "recover" ELSE "claim"], due |-> due]
    BY DEF Begin
  <2>2. work'.due = due /\ work'.at = [Resting EXCEPT !.pc = IF due THEN "recover" ELSE "claim"]
    BY <2>1
  <2>3. work.due => work'.due
    BY <2>1, <2>2
  <2>4. work'.at.pc \in {"recover", "claim"} /\ work'.at.gen = NoGen
    BY <2>2 DEF Resting
  <2> QED
    BY <2>3, <2>4 DEF Begin
<1>2. Tidy => work.at.pc = "recover" /\ work'.at.pc = "tidy" /\ SameRun
  BY StepType DEF Tidy, Collects, Idling, SameRun
<1>3. Tidied => work.at.pc = "tidy" /\ work'.at.pc = "claim" /\ work'.at.gen = NoGen
  BY DEF Tidied, TypeOK, Run, Engaged
<1>4. ASSUME Claim
      PROVE  /\ work.at.pc = "claim"
             /\ \/ EndOfRun /\ work'.due = work.due
                \/ TakenUp(work'.at.key) /\ work'.at.key \in Key
  <2>1. work.at.pc = "claim"
    BY <1>4 DEF Claim
  <2>2. Rest => EndOfRun /\ work'.due = work.due
    BY RestType DEF EndOfRun
  <2>3. ASSUME NEW k, NEW g, NEW set, Claims(k, g, set)
        PROVE  TakenUp(k) /\ work'.at.key = k /\ k \in Key
    <3>1. k \in In({"queued"}) /\ k \in Key /\ work'.at.key = k
      BY <2>3, ClaimsWork DEF In, Jobs
    <3>2. job'[k].state = "running"
      BY <2>3, ClaimsRow
    <3>3. Life(k)
      BY <1>4, <3>1, WorkerLife DEF Works
    <3>4. k \in In({"running"})'
      <4>1. job'[k] # NoJob
        BY <2>3, ClaimsRow
      <4> QED
        BY <3>1, <3>2, <4>1 DEF In, Jobs
    <3>5. k \notin In({"running"})
      BY <3>1 DEF In
    <3> QED
      BY <3>1, <3>3, <3>4, <3>5, StillRunning
  <2> QED
    BY <1>4, <2>1, <2>2, <2>3, ClaimCases
<1>5. /\ Prepared => work.at.pc = "prepare" /\ work'.at.pc = "collect" /\ SameRun
      /\ Collected => work.at.pc = "collect" /\ work'.at.pc = "generate" /\ SameRun
      /\ Generate => work.at.pc = "generate" /\ work'.at.pc = "publish" /\ SameRun
  BY StepType DEF Prepared, Collects, Collected, Generate, Engaged, SameRun
<1>6. /\ Publish => work.at.pc = "publish" /\ work'.at.pc = "rename" /\ SameRun
      /\ Rename => work.at.pc = "rename" /\ work'.at.pc = "ready" /\ SameRun
  BY StepType DEF Publish, Rename, Engaged, SameRun
<1>7. ASSUME Raises
      PROVE  /\ work.at.pc \in Engaged /\ work'.at.pc = "fail" /\ work'.due
             /\ work'.at.key = work.at.key /\ work'.at.gen = work.at.gen
             /\ work'.at.attempts = work.at.attempts
  BY <1>7 DEF Raises, TypeOK, Run, Engaged
<1>8. /\ Ready => work.at.pc = "ready" /\ EndOfRun /\ work'.due = work.due
      /\ Fail => work.at.pc = "fail" /\ EndOfRun /\ work'.due = work.due
      /\ WorkerDies => EndOfRun /\ work'.due
      /\ Unanswered => work.at.pc = "recover" /\ EndOfRun /\ work'.due = work.due
  BY RestType DEF Ready, Fail, WorkerDies, Unanswered, EndOfRun
<1>9. GivesUp => /\ work.at.pc \in {"recover", "claim", "fail"} /\ EndOfRun
                 /\ (work.due => work'.due) /\ (work.at.pc = "fail" => work'.due)
  BY RestType DEF GivesUp, EndOfRun
<1>10. /\ Recover => work.at.pc = "recover"
       /\ Prepare => work.at.pc = "prepare"
       /\ Recover \/ Prepare => work' = work
  BY DEF Recover, Prepare
<1>11. Administers \/ Erases \/ SpaceChanges \/ (\E k \in Key : Ripen(k)) => work' = work
  BY DEF Administers, RetireObsolete, SetRecipe, AdminDone, AdminDies, RetryFailed, ChangeSetting,
         Erases, EraseFiles, EraseJob, SpaceChanges, Ripen
<1>12. ASSUME NEW r \in Request, Requests(r) \/ Dies(r)
       PROVE  work' = work
  BY <1>12 DEF Requests, Dies, Observe, Identify, Enter, Lock, Reconcile, Switch, Reuse, Retire, Admit,
         Look, Open, Again, Confirm
<1> HIDE DEF WorkerAt
<1> QED
  BY <1>1, <1>2, <1>3, <1>4, <1>5, <1>6, <1>7, <1>8, <1>9, <1>10, <1>11, <1>12

\* The job that runs is the worker's.
Mine(k) == k \in In({"running"}) /\ job[k].gen = work.at.gen

Tokens     == \A k \in In({"running", "ready"}) : job[k].gen \in Gen
Alone      == work.at.pc = "tidy" => In({"running"}) = {}
Publishing == work.at.pc \in {"rename", "ready"} => Mine(work.at.key)
Attempting == work.at.pc \in Engaged /\ Mine(work.at.key) => job[work.at.key].attempts = work.at.attempts
Placed     == work.at.pc = "ready" => art[work.at.key] = [gen |-> work.at.gen, whole |-> TRUE]

WorkInv == Tokens /\ Alone /\ Publishing /\ Attempting /\ Placed

FileInv == TypeInv /\ LockInv /\ WorkInv /\ NoOrphans /\ NoneForgotten

\* What is known of the job the worker publishes covers what its types need.
LEMMA AtHandHolds ==
  ASSUME Publishing
  PROVE  AtHand
  BY DEF Publishing, AtHand, Mine, In, Jobs

\* Files change only where the worker prepares or renames, or something is removed.
LEMMA ArtKept ==
  ASSUME Next, ~Erases, ~Prepare, ~Rename
  PROVE  art' = art
<1>1. ASSUME NEW r \in Request, Requests(r) \/ Dies(r)
      PROVE  art' = art
  BY <1>1 DEF Requests, Dies, Observe, Identify, Enter, Lock, Reconcile, Switch, Reuse, Retire, Admit,
         Look, Open, Again, Confirm
<1>2. Administers \/ SpaceChanges \/ (\E k \in Key : Ripen(k)) => art' = art
  BY DEF Administers, RetireObsolete, SetRecipe, AdminDone, AdminDies, RetryFailed, ChangeSetting,
         SpaceChanges, Ripen
<1>3. Works \/ Raises \/ GivesUp \/ Unanswered \/ WorkerDies => art' = art
  BY DEF Works, Begin, Recover, Tidy, Tidied, Collects, Claim, Prepared, Collected, Generate, Raises, Publish,
         Ready, Fail, GivesUp, Unanswered, WorkerDies
<1> QED
  BY <1>1, <1>2, <1>3 DEF Next

\* Files come from the worker.
LEMMA ArtSource ==
  ASSUME TypeOK, Next, NEW k \in Key, art'[k] # NoArt
  PROVE  \/ Rename /\ k = work.at.key /\ art'[k] = [gen |-> work.at.gen, whole |-> TRUE]
         \/ ~(Rename /\ k = work.at.key) /\ art[k] # NoArt /\ art'[k].gen = art[k].gen
<1>1. Rename => work' # work /\ work.at.pc = "rename"
  BY StepType DEF Rename, WorkerAt, Engaged
<1>2. CASE Prepare
  <2> DEFINE x == work.at.key
  <2>1. art' = [art EXCEPT ![x] = IF art[x].whole THEN [art[x] EXCEPT !.whole = FALSE] ELSE NoArt]
    BY <1>2 DEF Prepare
  <2>2. art[k] # NoArt => art[k] \in Files
    BY DEF TypeOK
  <2>3. ~Rename
    BY <1>1, <1>2 DEF Prepare, WorkerAt
  <2>4. CASE k = x
    <3>1. art[k] # NoArt /\ art'[k] = [art[k] EXCEPT !.whole = FALSE]
      BY <1>2, <2>1, <2>4 DEF Prepare, TypeOK
    <3>2. [art[k] EXCEPT !.whole = FALSE].gen = art[k].gen
      BY <2>2, <3>1 DEF Files
    <3> QED
      BY <2>3, <3>1, <3>2
  <2>5. CASE k # x
    BY <2>1, <2>3, <2>5 DEF TypeOK
  <2> QED
    BY <2>4, <2>5
<1>3. CASE Rename
  <2>1. art' = [art EXCEPT ![work.at.key] = [gen |-> work.at.gen, whole |-> TRUE]]
    BY <1>3 DEF Rename
  <2> QED
    BY <1>3, <2>1 DEF TypeOK
<1>4. ASSUME NEW x \in doomed, EraseFiles(x)
      PROVE  ~Rename /\ art[k] # NoArt /\ art'[k].gen = art[k].gen
  <2>1. x \in Key /\ art' = [art EXCEPT ![x] = [art[x] EXCEPT !.whole = FALSE]] /\ work' = work /\ art[x] # NoArt
    BY <1>4 DEF EraseFiles, TypeOK, Complete
  <2>2. art[x] \in Files
    BY <2>1 DEF TypeOK
  <2>3. [art[x] EXCEPT !.whole = FALSE].gen = art[x].gen
    BY <2>2 DEF Files
  <2>4. ~Rename
    BY <1>1, <2>1
  <2> QED
    BY <2>1, <2>3, <2>4 DEF TypeOK
<1>5. ASSUME NEW x \in doomed, EraseJob(x)
      PROVE  ~Rename /\ art[k] # NoArt /\ art'[k].gen = art[k].gen
  <2>1. x \in Key /\ art' = [art EXCEPT ![x] = NoArt] /\ work' = work
    BY <1>5 DEF EraseJob, TypeOK
  <2> QED
    BY <1>1, <2>1 DEF TypeOK
<1>6. CASE ~Erases /\ ~Prepare /\ ~Rename
  BY <1>6, ArtKept
<1> QED
  BY <1>2, <1>3, <1>4, <1>5, <1>6 DEF Erases

\* A job has the token it was claimed with.
LEMMA TokensStep ==
  ASSUME FileInv, Next
  PROVE  Tokens'
<1>1. TypeInv /\ TypeOK /\ Counted /\ LockInv /\ AtHand /\ Tokens /\ Publishing
  BY AtHandHolds DEF FileInv, WorkInv, TypeInv
<1> SUFFICES ASSUME NEW k \in Key, job'[k] # NoJob, job'[k].state \in {"running", "ready"}
             PROVE  job'[k].gen \in Gen
  BY DEF Tokens, In, Jobs
<1>2. Life(k)
  BY <1>1, Lives
<1>3. CASE job'[k] = job[k]
  BY <1>1, <1>3 DEF Tokens, In, Jobs
<1>4. CASE Promoted(k)
  BY <1>1, <1>4 DEF Promoted, Tokens, In
<1>5. CASE TakenUp(k)
  BY <1>5 DEF TakenUp
<1>6. CASE Finishes(k)
  <2>1. work.at.pc = "ready" /\ k = work.at.key /\ job'[k].gen = job[k].gen
    BY <1>6 DEF Finishes, Ready, WorkerAt, Alike
  <2>2. k \in In({"running"})
    BY <1>1, <2>1 DEF Publishing, Mine
  <2> QED
    BY <1>1, <2>1, <2>2 DEF Tokens, In
<1>7. ~Ripens(k) /\ ~Interrupted(k) /\ ~Fails(k) /\ ~PassedOver(k) /\ ~Requeued(k) /\ ~Admitted(k) /\ ~Erased(k)
  BY DEF Ripens, Interrupted, Fails, PassedOver, Requeued, Admitted, Erased
<1> QED
  BY <1>2, <1>3, <1>4, <1>5, <1>6, <1>7 DEF Life

\* While the worker removes files in maintenance no job runs.
LEMMA AloneStep ==
  ASSUME FileInv, Next
  PROVE  Alone'
<1>1. TypeInv /\ TypeOK /\ Counted /\ LockInv /\ AtHand /\ Alone
  BY AtHandHolds DEF FileInv, WorkInv, TypeInv
<1> SUFFICES ASSUME work'.at.pc = "tidy", NEW k \in Key, k \in In({"running"})'
             PROVE  FALSE
  BY DEF Alone, In, Jobs
<1>2. Tidy \/ work' = work
  BY <1>1, WorkMoves DEF Next, Works, EndOfRun, TakenUp
<1>3. ~TakenUp(k)
  BY DEF TakenUp
<1>4. Life(k)
  BY <1>1, Lives
<1>5. k \in In({"running"})
  BY <1>3, <1>4, StillRunning
<1> QED
  BY <1>1, <1>2, <1>5 DEF Alone, Tidy

\* Nobody else changes the job that is being published.
LEMMA PublishingStep ==
  ASSUME FileInv, Next
  PROVE  Publishing'
<1>1. TypeInv /\ TypeOK /\ Counted /\ LockInv /\ AtHand /\ Publishing
  BY AtHandHolds DEF FileInv, WorkInv, TypeInv
<1> DEFINE k == work'.at.key
<1> SUFFICES ASSUME work'.at.pc \in {"rename", "ready"}
             PROVE  k \in In({"running"})' /\ job'[k].gen = work'.at.gen
  BY DEF Publishing, Mine
<1>2. Publish \/ Rename \/ work' = work
  BY <1>1, WorkMoves DEF Next, Works, EndOfRun, TakenUp
<1>3. CASE Publish
  <2>1. job' = job /\ SameRun /\ Claimed
    BY <1>1, <1>3, WorkMoves DEF Publish
  <2>2. k \in Key
    BY <1>1, <1>3, <2>1, WorkFields DEF SameRun, Publish, WorkerAt, Engaged
  <2> QED
    BY <2>1, <2>2 DEF Claimed, SameRun, In, Jobs
<1>4. CASE Rename
  <2>1. job' = job /\ SameRun /\ work.at.pc = "rename"
    BY <1>1, <1>4, WorkMoves DEF Rename
  <2> QED
    BY <1>1, <2>1 DEF Publishing, Mine, SameRun, In, Jobs
<1>5. CASE work' = work
  <2>1. Mine(k) /\ k \in Key /\ job[k].state = "running"
    BY <1>1, <1>5 DEF Publishing, Mine, In, Jobs
  <2>2. holder = Worker /\ doomed = {}
    <3>1. holder = Worker
      BY <1>1, <1>5 DEF LockInv, Locking
    <3>2. holder # Admin /\ holder \notin Request
      BY <3>1, FileAssumption
    <3> QED
      BY <1>1, <1>5, <3>1, <3>2 DEF LockInv, Doing, Locked
  <2>3. Life(k)
    BY <1>1, <2>1, Lives
  <2>4. ~Interrupted(k) /\ ~Promoted(k) /\ ~Admitted(k) /\ ~Erased(k)
    BY <2>2, FileAssumption DEF Interrupted, Promoted, Admitted, Erased
  <2>5. ~Ripens(k) /\ ~PassedOver(k) /\ ~TakenUp(k) /\ ~Requeued(k)
    BY <2>1 DEF Ripens, PassedOver, TakenUp, Requeued, In
  <2>6. ~Fails(k) /\ ~Finishes(k)
    BY <1>1, <1>5, WorkMoves DEF Fails, Finishes, EndOfRun
  <2>7. job'[k] = job[k]
    BY <2>3, <2>4, <2>5, <2>6 DEF Life
  <2> QED
    BY <1>5, <2>1, <2>7 DEF Mine, In, Jobs
<1> QED
  BY <1>2, <1>3, <1>4, <1>5

\* The worker's job has the attempts it was claimed with.
LEMMA AttemptingStep ==
  ASSUME FileInv, Next
  PROVE  Attempting'
<1>1. TypeInv /\ TypeOK /\ Counted /\ LockInv /\ AtHand /\ Attempting
  BY AtHandHolds DEF FileInv, WorkInv, TypeInv
<1> DEFINE k == work'.at.key
<1> SUFFICES ASSUME work'.at.pc \in Engaged, k \in In({"running"})', job'[k].gen = work'.at.gen
             PROVE  job'[k].attempts = work'.at.attempts
  BY DEF Attempting, Mine
<1>2. k \in Key
  BY DEF In, Jobs
<1>3. Life(k)
  BY <1>1, <1>2, Lives
<1>4. CASE TakenUp(k)
  BY <1>4 DEF TakenUp
<1>5. CASE ~TakenUp(k)
  <2>1. k \in In({"running"}) /\ job'[k].gen = job[k].gen /\ job'[k].attempts = job[k].attempts
    BY <1>2, <1>3, <1>5, StillRunning
  <2>2. /\ work.at.pc \in Engaged
        /\ work'.at.key = work.at.key /\ work'.at.gen = work.at.gen /\ work'.at.attempts = work.at.attempts
    BY <1>1, <1>5, WorkMoves DEF Next, Works, EndOfRun, SameRun, Engaged
  <2> QED
    BY <1>1, <2>1, <2>2 DEF Attempting, Mine
<1> QED
  BY <1>4, <1>5

\* What the worker has renamed stays until it has written the job.
LEMMA PlacedStep ==
  ASSUME FileInv, Next
  PROVE  Placed'
<1>1. TypeInv /\ TypeOK /\ Counted /\ LockInv /\ AtHand /\ Placed
  BY AtHandHolds DEF FileInv, WorkInv, TypeInv
<1> SUFFICES ASSUME work'.at.pc = "ready"
             PROVE  art'[work'.at.key] = [gen |-> work'.at.gen, whole |-> TRUE]
  BY DEF Placed
<1>2. Rename \/ work' = work
  BY <1>1, WorkMoves DEF Next, Works, EndOfRun, TakenUp
<1>3. CASE Rename
  <2>1. SameRun /\ art' = [art EXCEPT ![work.at.key] = [gen |-> work.at.gen, whole |-> TRUE]]
    BY <1>1, <1>3, WorkMoves DEF Rename
  <2>2. work.at.key \in Key
    BY <1>1, <1>3, WorkFields DEF Rename, WorkerAt, Engaged
  <2> QED
    BY <1>1, <2>1, <2>2 DEF SameRun, TypeOK
<1>4. CASE work' = work
  <2>1. doomed = {}
    <3>1. holder = Worker
      BY <1>1, <1>4 DEF LockInv, Locking
    <3>2. holder # Admin /\ holder \notin Request
      BY <3>1, FileAssumption
    <3> QED
      BY <1>1, <1>4, <3>1, <3>2 DEF LockInv, Doing, Locked
  <2>2. ~Prepare /\ ~Rename
    BY <1>1, <1>4, WorkMoves
  <2>3. art' = art
    BY <2>1, <2>2, ArtKept DEF Erases
  <2> QED
    BY <1>1, <1>4, <2>3 DEF Placed
<1> QED
  BY <1>2, <1>3, <1>4

\* The files under a key have a job.
LEMMA NoOrphansStep ==
  ASSUME FileInv, Next
  PROVE  NoOrphans'
<1>1. TypeInv /\ TypeOK /\ Counted /\ LockInv /\ AtHand /\ Publishing /\ NoOrphans
  BY AtHandHolds DEF FileInv, WorkInv, TypeInv
<1> SUFFICES ASSUME NEW k \in Key, art'[k] # NoArt, job'[k] = NoJob
             PROVE  FALSE
  BY DEF NoOrphans
<1>2. Life(k)
  BY <1>1, Lives
<1>3. job'[k] = job[k]
  BY <1>2 DEF Life, Ripens, Interrupted, Fails, PassedOver, TakenUp, Finishes, Promoted, Requeued, Admitted,
              Erased, Alike
<1>4. art[k] # NoArt \/ (Rename /\ k = work.at.key)
  BY <1>1, ArtSource
<1>5. CASE Rename /\ k = work.at.key
  BY <1>1, <1>3, <1>5 DEF Rename, WorkerAt, Publishing, Mine, In, Jobs
<1> QED
  BY <1>1, <1>3, <1>4, <1>5 DEF NoOrphans

\* A job that runs is the worker's, or maintenance is due.
LEMMA NoneForgottenStep ==
  ASSUME FileInv, Next
  PROVE  NoneForgotten'
<1>1. TypeInv /\ TypeOK /\ Counted /\ LockInv /\ AtHand /\ Tokens /\ Publishing /\ Attempting /\ Alone /\ NoneForgotten
  BY AtHandHolds DEF FileInv, WorkInv, TypeInv
<1> SUFFICES ASSUME NEW k \in Key, k \in In({"running"})', ~work'.due
             PROVE  work'.at.key = k /\ work'.at.gen = job'[k].gen
  BY DEF NoneForgotten, In, Jobs
<1>2. Life(k)
  BY <1>1, Lives
<1>3. CASE TakenUp(k)
  BY <1>3 DEF TakenUp
<1>4. CASE ~TakenUp(k)
  <2>1. k \in In({"running"}) /\ job'[k].gen = job[k].gen
    BY <1>2, <1>4, StillRunning
  <2>2. job[k].gen \in Gen /\ job[k].gen # NoGen
    BY <1>1, <2>1, FileAssumption DEF Tokens, In
  <2>3. work.due \/ (work.at.key = k /\ work.at.gen = job[k].gen)
    BY <1>1, <2>1 DEF NoneForgotten
  <2>4. CASE work.due
    <3>1. Tidied \/ work' = work \/ SameRun
      BY <1>1, <1>4, <2>4, WorkMoves DEF Next, Works, TakenUp
    <3>2. Tidied => In({"running"}) = {}
      BY <1>1, WorkMoves DEF Alone
    <3> QED
      BY <2>1, <2>4, <3>1, <3>2 DEF SameRun
  <2>5. CASE ~work.due
    <3>1. work.at.key = k /\ work.at.gen = job[k].gen /\ work.at.pc \in Engaged
      BY <1>1, <2>2, <2>3, <2>5, WorkFields
    <3>2. Mine(k) /\ job[k].attempts = work.at.attempts
      BY <1>1, <2>1, <3>1 DEF Mine, Attempting
    <3>3. ~Ready
      <4> SUFFICES ASSUME Ready PROVE FALSE
        OBVIOUS
      <4>1. job' = [job EXCEPT ![k] = [job[k] EXCEPT !.state = "ready", !.changed = FALSE]]
        BY <3>1 DEF Ready
      <4>2. job[k] \in JobRow
        BY <2>1 DEF In, Jobs, TypeOK, TypeInv, FileInv
      <4>3. job'[k].state = "ready"
        BY <1>1, <4>1, <4>2 DEF TypeOK, JobRow
      <4> QED
        BY <4>3 DEF In
    <3>4. ~Fail
      <4> SUFFICES ASSUME Fail PROVE FALSE
        OBVIOUS
      <4>1. Claimed
        BY <2>1, <3>1, <3>2 DEF Claimed, In, Jobs
      <4>2. job' = Failed(k)
        BY <3>1, <4>1 DEF Fail
      <4>3. job'[k].state \in {"queued", "failed"}
        BY <1>1, <2>1, <4>2, FailedType
      <4> QED
        BY <4>3 DEF In
    <3>5. work' = work \/ SameRun
      BY <1>1, <1>4, <2>5, <3>1, <3>3, <3>4, WorkMoves DEF Next, Works, Engaged
    <3> QED
      BY <2>1, <3>1, <3>5 DEF SameRun
  <2> QED
    BY <2>3, <2>4, <2>5
<1> QED
  BY <1>3, <1>4

\* A step that changes nothing.
LEMMA StutterStep ==
  ASSUME FileInv, UNCHANGED vars
  PROVE  FileInv'
<1> USE DEF vars, modeVars, lockVars, siteVars
<1>1. TypeInv' /\ LockInv'
  BY DEF FileInv, TypeInv, TypeOK, Counted, LockInv, Doing, In, Jobs
<1>2. WorkInv'
  BY DEF FileInv, WorkInv, Tokens, Alone, Publishing, Attempting, Placed, Mine, In, Jobs
<1>3. NoOrphans' /\ NoneForgotten'
  BY DEF FileInv, NoOrphans, NoneForgotten, In, Jobs
<1> QED
  BY <1>1, <1>2, <1>3 DEF FileInv

\* At first there is no job.
LEMMA FileInit ==
  ASSUME Init
  PROVE  FileInv
<1> USE DEF Init, Quiet, Resting, NoMode
<1>1. TypeInv
  <2>1. Quiet \in ReqState /\ Resting \in Run
    BY DEF ReqState, Run
  <2>2. Counted
    BY DEF Counted, In, Jobs
  <2>3. TypeOK
    BY <2>1, FileAssumption DEF TypeOK
  <2> QED
    BY <2>2, <2>3 DEF TypeInv
<1>2. LockInv
  BY FileAssumption DEF LockInv, Doing, Locked, Locking
<1>3. WorkInv
  BY DEF WorkInv, Tokens, Alone, Publishing, Attempting, Placed, In, Jobs, Engaged
<1>4. NoOrphans /\ NoneForgotten
  BY DEF NoOrphans, NoneForgotten, In, Jobs
<1> QED
  BY <1>1, <1>2, <1>3, <1>4 DEF FileInv

\* Every step keeps the invariant.
LEMMA FileStep ==
  ASSUME FileInv, [Next]_vars
  PROVE  FileInv'
<1>1. TypeInv /\ TypeOK /\ Counted /\ LockInv /\ AtHand
  BY AtHandHolds DEF FileInv, WorkInv, TypeInv
<1>2. CASE Next
  <2>1. TypeInv'
    BY <1>1, <1>2, RequestTypes, AdminTypes, WorkerTypes DEF Next
  <2>2. LockInv'
    BY <1>1, <1>2, RequestLock, OtherLock DEF Next
  <2>3. WorkInv'
    BY <1>2, TokensStep, AloneStep, PublishingStep, AttemptingStep, PlacedStep DEF WorkInv
  <2> QED
    BY <1>2, <2>1, <2>2, <2>3, NoOrphansStep, NoneForgottenStep DEF FileInv
<1> QED
  BY <1>2, StutterStep

\* All this holds of every reachable state.
LEMMA FileInvariant == Spec => []FileInv
<1>1. Init => FileInv
  BY FileInit
<1>2. FileInv /\ [Next]_vars => FileInv'
  BY FileStep
<1> QED
  BY <1>1, <1>2, PTL DEF Spec

\* The state of the store has its type: no step reads a field that is not there,
\* though requests, admins and the worker change jobs under each other.
THEOREM FileTypes == Spec => []TypeOK
  BY FileInvariant, PTL DEF FileInv, TypeInv

\* The files under a key have a job, whoever dies between two writes.
THEOREM FilesHaveJobs == Spec => []NoOrphans
  BY FileInvariant, PTL DEF FileInv

\* A job that runs is the worker's, or maintenance is due and will find it.
THEOREM RunningIsFound == Spec => []NoneForgotten
  BY FileInvariant, PTL DEF FileInv

(***************************************************************************)
(* The queue                                                               *)
(***************************************************************************)

InAdvance == {k \in Pending : job[k].background}

QueueInv == IsFiniteSet(Jobs) /\ QueueBounded

\* What is in the queue was there, or was queued in this step.
LEMMA StillPending ==
  ASSUME NEW k \in Key, Life(k), k \in Pending'
  PROVE  \/ k \in Pending /\ (job'[k].background => job[k].background)
         \/ Requeued(k) \/ Admitted(k)
<1>1. job'[k] # NoJob /\ job'[k].state \in {"queued", "running"}
  BY DEF Pending, In, Jobs
<1>2. CASE job'[k] = job[k]
  BY <1>1, <1>2 DEF Pending, In, Jobs
<1>3. CASE Promoted(k)
  BY <1>1, <1>3 DEF Promoted, Pending, In
<1>4. CASE Ripens(k) \/ Fails(k) \/ TakenUp(k)
  BY <1>4 DEF Ripens, Fails, TakenUp, Alike, Pending, In
<1>5. ~Interrupted(k) /\ ~PassedOver(k) /\ ~Finishes(k) /\ ~Erased(k)
  BY <1>1 DEF Interrupted, PassedOver, Finishes, Erased
<1> QED
  BY <1>2, <1>3, <1>4, <1>5 DEF Life

\* A job that is there was there, or was queued in this step.
LEMMA StillThere ==
  ASSUME NEW k \in Key, Life(k), k \in Jobs'
  PROVE  k \in Jobs \/ Admitted(k)
  BY DEF Life, Jobs, Ripens, Interrupted, Fails, PassedOver, TakenUp, Finishes, Promoted, Requeued, Erased, Alike, In

\* A smaller set has no more elements.
LEMMA Fewer ==
  ASSUME NEW S, NEW T, IsFiniteSet(T), S \subseteq T
  PROVE  /\ IsFiniteSet(S) /\ Cardinality(S) \in Nat /\ Cardinality(T) \in Nat
         /\ Cardinality(S) <= Cardinality(T)
  BY FS_Subset, FS_CardinalityType

\* Whoever adds to the queue has counted it under the lock.
LEMMA QueueStep ==
  ASSUME FileInv, QueueInv, Next
  PROVE  QueueInv'
<1>1. TypeInv /\ TypeOK /\ LockInv /\ AtHand
  BY AtHandHolds DEF FileInv, WorkInv, TypeInv
<1>2. \A k \in Key : Life(k)
  BY <1>1, Lives
<1>3. /\ IsFiniteSet(Pending) /\ IsFiniteSet(InAdvance) /\ InAdvance \subseteq Pending
      /\ Cardinality(Pending) \in Nat /\ Cardinality(InAdvance) \in Nat
      /\ Cardinality(Pending) <= MaxPending /\ Cardinality(InAdvance) <= MaxPending \div 2
  <2>1. Pending \subseteq Jobs /\ InAdvance \subseteq Pending
    BY DEF Pending, In, InAdvance
  <2> QED
    BY <2>1, Fewer DEF QueueInv, QueueBounded, InAdvance
<1>4. MaxPending \in Nat /\ MaxPending \div 2 \in Nat /\ MaxPending \div 2 <= MaxPending
  BY FileAssumption
<1>5. /\ Jobs' \subseteq Key /\ Pending' \subseteq Jobs' /\ InAdvance' \subseteq Pending'
      /\ \A k \in InAdvance' : k \in Pending' /\ job'[k].background
      /\ \A k \in Pending' : job'[k].background => k \in InAdvance'
  BY DEF Jobs, Pending, In, InAdvance
<1>6. SUFFICES /\ IsFiniteSet(Jobs') /\ Cardinality(Pending') <= MaxPending
               /\ Cardinality(InAdvance') <= MaxPending \div 2
  BY DEF QueueInv, QueueBounded, InAdvance
<1>7. ASSUME NEW r \in Request, Admit(r), ~Full(r)
      PROVE  /\ IsFiniteSet(Jobs') /\ Cardinality(Pending') <= MaxPending
             /\ Cardinality(InAdvance') <= MaxPending \div 2
  <2> DEFINE x == req[r].key
  <2>1. ~RetryFailed /\ \A q \in Request : Admit(q) => q = r
    <3>1. holder = r /\ \A q \in Request : Admit(q) => holder = q
      BY <1>1, <1>7 DEF Admit, LockInv, Doing, Locked
    <3>2. RetryFailed => holder = Nobody
      BY DEF RetryFailed
    <3> QED
      BY <3>1, <3>2, FileAssumption
  <2>2. \A k \in Key : Admitted(k) => k = x /\ job'[k].background = (r \in Background)
    BY <2>1 DEF Admitted
  <2>3. \A k \in Key : ~Requeued(k)
    BY <2>1 DEF Requeued
  <2>4. Jobs' \subseteq Jobs \cup {x}
    BY <1>2, <1>5, <2>2, StillThere
  <2>5. Pending' \subseteq Pending \cup {x}
    BY <1>2, <1>5, <2>2, <2>3, StillPending
  <2>6. IsFiniteSet(Jobs')
    <3>1. IsFiniteSet(Jobs \cup {x})
      BY FS_AddElement DEF QueueInv
    <3> QED
      BY <2>4, <3>1, Fewer
  <2>7. Cardinality(Pending') <= Cardinality(Pending) + 1 /\ Cardinality(Pending') \in Nat /\ IsFiniteSet(Pending')
    <3>1. IsFiniteSet(Pending \cup {x}) /\ Cardinality(Pending \cup {x}) <= Cardinality(Pending) + 1
      BY <1>3, FS_AddElement
    <3> QED
      BY <1>3, <2>5, <3>1, Fewer
  <2>8. CASE r \in Background
    <3>1. Cardinality(Pending) < MaxPending \div 2
      BY <1>3, <1>4, <1>7, <2>8 DEF Full
    <3>2. Cardinality(InAdvance') <= Cardinality(Pending') /\ Cardinality(InAdvance') \in Nat
      BY <1>5, <2>7, Fewer
    <3> QED
      BY <1>3, <1>4, <2>6, <2>7, <3>1, <3>2
  <2>9. CASE r \notin Background
    <3>1. Cardinality(Pending) < MaxPending
      BY <1>3, <1>4, <1>7, <2>9 DEF Full
    <3>2. InAdvance' \subseteq InAdvance
      <4> SUFFICES ASSUME NEW k \in InAdvance'
                   PROVE  k \in InAdvance
        OBVIOUS
      <4>1. k \in Key /\ k \in Pending' /\ job'[k].background
        BY <1>5
      <4>2. ~Admitted(k)
        BY <2>2, <2>9, <4>1
      <4>3. k \in Pending /\ job[k].background
        BY <1>2, <2>3, <4>1, <4>2, StillPending
      <4> QED
        BY <4>3 DEF InAdvance
    <3>3. Cardinality(InAdvance') <= Cardinality(InAdvance) /\ Cardinality(InAdvance') \in Nat
      BY <1>3, <3>2, Fewer
    <3> QED
      BY <1>3, <1>4, <2>6, <2>7, <3>1, <3>3
  <2> QED
    BY <2>8, <2>9
<1>8. ASSUME RetryFailed
      PROVE  /\ IsFiniteSet(Jobs') /\ Cardinality(Pending') <= MaxPending
             /\ Cardinality(InAdvance') <= MaxPending \div 2
  <2>1. PICK again \in SUBSET In({"failed"}) :
          /\ Cardinality(Pending) + Cardinality(again) <= MaxPending
          /\ (\E k \in again : job[k].background) =>
               Cardinality(Pending) + Cardinality(again) <= MaxPending \div 2
          /\ job' = [k \in Key |-> IF k \in again
                                  THEN [job[k] EXCEPT !.state = "queued", !.attempts = 0, !.due = TRUE]
                                  ELSE job[k]]
    BY <1>8 DEF RetryFailed
  <2>2. \A k \in Key : ~Admitted(k)
    <3>1. \A q \in Request : Admit(q) => holder = q
      BY <1>1 DEF Admit, LockInv, Doing, Locked
    <3>2. holder = Nobody
      BY <1>8 DEF RetryFailed
    <3> QED
      BY <3>1, <3>2, FileAssumption DEF Admitted
  <2>3. Jobs' \subseteq Jobs
    BY <1>2, <1>5, <2>2, StillThere
  <2>4. \A k \in Key \ again : job'[k] = job[k]
    BY <2>1
  <2>5. \A k \in Pending' : k \in Pending \cup again /\ (job'[k].background => job[k].background)
    <3> SUFFICES ASSUME NEW k \in Pending'
                 PROVE  k \in Pending \cup again /\ (job'[k].background => job[k].background)
      OBVIOUS
    <3>1. k \in Key /\ Life(k) /\ ~Admitted(k)
      BY <1>2, <1>5, <2>2
    <3>2. CASE k \in Pending /\ (job'[k].background => job[k].background)
      BY <3>2
    <3>3. CASE Requeued(k)
      <4>1. job'[k].background = job[k].background /\ job'[k].state = "queued" /\ k \in In({"failed"})
        BY <3>3 DEF Requeued, Alike
      <4>2. job'[k] # job[k]
        BY <4>1 DEF In
      <4> QED
        BY <2>4, <3>1, <4>1, <4>2
    <3> QED
      BY <3>1, <3>2, <3>3, StillPending
  <2>6. IsFiniteSet(Jobs') /\ IsFiniteSet(again) /\ Cardinality(again) \in Nat
    BY <2>1, <2>3, Fewer DEF QueueInv, In
  <2>7. Cardinality(Pending') <= Cardinality(Pending) + Cardinality(again) /\ Cardinality(Pending') \in Nat
        /\ IsFiniteSet(Pending')
    <3>1. IsFiniteSet(Pending \cup again)
      BY <1>3, <2>6, FS_Union
    <3>2. Cardinality(Pending \cup again) <= Cardinality(Pending) + Cardinality(again)
      <4>1. Cardinality(Pending \cap again) \in Nat
        BY <1>3, Fewer
      <4>2. Cardinality(Pending \cup again) = Cardinality(Pending) + Cardinality(again) - Cardinality(Pending \cap again)
        BY <1>3, <2>6, FS_Union
      <4> QED
        BY <1>3, <2>6, <4>1, <4>2
    <3>3. Pending' \subseteq Pending \cup again
      BY <2>5
    <3> QED
      BY <1>3, <2>6, <3>1, <3>2, <3>3, Fewer
  <2>8. Cardinality(Pending') <= MaxPending
    <3>1. Cardinality(Pending) + Cardinality(again) <= MaxPending
      BY <2>1
    <3> QED
      BY <1>3, <1>4, <2>6, <2>7, <3>1
  <2>9. CASE \E k \in again : job[k].background
    <3>1. Cardinality(InAdvance') <= Cardinality(Pending') /\ Cardinality(InAdvance') \in Nat
      BY <1>5, <2>7, Fewer
    <3>2. Cardinality(Pending) + Cardinality(again) <= MaxPending \div 2
      BY <2>1, <2>9
    <3>3. Cardinality(InAdvance') <= MaxPending \div 2
      <4> DEFINE a == Cardinality(Pending)  b == Cardinality(again)  c == Cardinality(Pending')
                 d == Cardinality(InAdvance')  half == MaxPending \div 2
      <4>1. a \in Nat /\ b \in Nat /\ c \in Nat /\ d \in Nat /\ half \in Nat
            /\ a + b <= half /\ c <= a + b /\ d <= c
        BY <1>3, <1>4, <2>6, <2>7, <3>1, <3>2
      <4> HIDE DEF a, b, c, d, half
      <4>2. d <= half
        BY <4>1
      <4> QED
        BY <4>2 DEF d, half
    <3> QED
      BY <2>6, <2>8, <3>3
  <2>10. CASE ~\E k \in again : job[k].background
    <3>1. InAdvance' \subseteq InAdvance
      BY <1>5, <2>5, <2>10 DEF InAdvance
    <3>2. Cardinality(InAdvance') <= Cardinality(InAdvance) /\ Cardinality(InAdvance') \in Nat
      BY <1>3, <3>1, Fewer
    <3>3. Cardinality(InAdvance') <= MaxPending \div 2
      BY <1>3, <1>4, <3>2
    <3> QED
      BY <2>6, <2>8, <3>3
  <2> QED
    BY <2>9, <2>10
<1>9. ASSUME ~RetryFailed, ~\E r \in Request : Admit(r) /\ ~Full(r)
      PROVE  /\ IsFiniteSet(Jobs') /\ Cardinality(Pending') <= MaxPending
             /\ Cardinality(InAdvance') <= MaxPending \div 2
  <2>1. \A k \in Key : ~Requeued(k) /\ ~Admitted(k)
    BY <1>9 DEF Requeued, Admitted
  <2>2. Jobs' \subseteq Jobs
    BY <1>2, <1>5, <2>1, StillThere
  <2>3. Pending' \subseteq Pending /\ \A k \in Pending' : job'[k].background => job[k].background
    BY <1>2, <1>5, <2>1, StillPending
  <2>4. InAdvance' \subseteq InAdvance
    BY <1>5, <2>3 DEF InAdvance
  <2>5. IsFiniteSet(Jobs')
    BY <2>2, Fewer DEF QueueInv
  <2>6. Cardinality(Pending') <= Cardinality(Pending) /\ Cardinality(Pending') \in Nat
    BY <1>3, <2>3, Fewer
  <2>7. Cardinality(InAdvance') <= Cardinality(InAdvance) /\ Cardinality(InAdvance') \in Nat
    BY <1>3, <2>4, Fewer
  <2> QED
    BY <1>3, <1>4, <2>5, <2>6, <2>7
<1> QED
  BY <1>7, <1>8, <1>9

\* No interleaving of requests, made by players or in advance, and retries fills
\* the queue beyond max_pending, or its half with what is made in advance.
THEOREM QueueWithinLimits == Spec => []QueueBounded
<1>1. Init => QueueInv
  <2> SUFFICES ASSUME Init
               PROVE  QueueInv
    OBVIOUS
  <2>1. Jobs = {} /\ Pending = {} /\ {k \in Pending : job[k].background} = {}
    BY DEF Init, Jobs, Pending, In
  <2>2. MaxPending \in Nat /\ 0 <= MaxPending /\ 0 <= MaxPending \div 2
    BY FileAssumption
  <2> QED
    BY <2>1, <2>2, FS_EmptySet DEF QueueInv, QueueBounded
<1>2. FileInv /\ QueueInv /\ [Next]_vars => QueueInv'
  <2>1. QueueInv /\ UNCHANGED vars => QueueInv'
    BY DEF QueueInv, QueueBounded, Jobs, Pending, In, vars
  <2> QED
    BY <2>1, QueueStep
<1>3. QueueInv => QueueBounded
  BY DEF QueueInv
<1> QED
  BY <1>1, <1>2, <1>3, FileInvariant, PTL DEF Spec

=============================================================================
