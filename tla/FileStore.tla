----------------------------- MODULE FileStore -----------------------------
(***************************************************************************)
(* The store of personalized files (files/store.py): web processes request *)
(* and read files, admins change recipes, one worker generates.  All of    *)
(* them share a directory, a queue lock that never blocks, and the fact    *)
(* that a file is replaced by a rename.                                    *)
(*                                                                         *)
(* A method that holds the queue lock is one step if it writes one file,   *)
(* and several if it writes more: downloads read without the lock, and a   *)
(* process may die between two writes.                                     *)
(*                                                                         *)
(* Left out: the limits max_jobs and retention_seconds, which no caller    *)
(* sets, and jobs of earlier versions that have no generation.             *)
(***************************************************************************)
EXTENDS Integers, FiniteSets

CONSTANTS
  Challenge, Recipe,
  Offered,                   \* recipes that admins set, NoRecipe to delete one
  Fingerprint,               \* of the identity a file is made for
  Owner, KindOf,             \* "user" or "team", the prefix of an owner
  Request, Background,       \* requests for a file; those made in advance by files/prepare.py
  Asks,                      \* what each is for: challenge, print, and owner by kind
  Process, ProcOf,           \* web processes
  Gen, NoGen,                \* generation tokens
  NoRecipe, NoJob, NoArt, Nobody, Admin, Worker,
  MaxPending,                \* max_pending
  FirstMode,                 \* the owner mode of the site at first
  Attempts                   \* attempts after which a job has failed

Kind == {"user", "team"}

\* The key of a job is a hash of these.
Key == [challenge : Challenge, owner : Owner, print : Fingerprint, recipe : Recipe]

ASSUME FileAssumption ==
  /\ MaxPending \in Nat \ {0, 1} /\ Attempts \in Nat \ {0} /\ FirstMode \in Kind
  /\ Background \subseteq Request /\ Offered \subseteq Recipe \cup {NoRecipe}
  /\ NoGen \notin Gen
  /\ ProcOf \in [Request -> Process]
  /\ KindOf \in [Owner -> Kind]
  /\ Asks \in [Request -> [challenge : Challenge, print : Fingerprint, as : [Kind -> Owner]]]
  /\ \A r \in Request, x \in Kind : KindOf[Asks[r].as[x]] = x
  /\ Nobody \notin {Admin, Worker} /\ Admin # Worker /\ {Nobody, Admin, Worker} \cap Request = {}

JobRow == [state : {"queued", "running", "ready", "failed"}, attempts : 0 .. Attempts,
           gen : Gen \cup {NoGen}, background : BOOLEAN, order : Nat,
           changed  : BOOLEAN,    \* error is "configuration changed"
           obsolete : BOOLEAN,
           due      : BOOLEAN]    \* next_attempt has passed

\* The files of a job: whole, or a directory that lacks some.
Files == [gen : Gen, whole : BOOLEAN]

ASSUME NoneAssumption == NoJob \notin JobRow /\ NoArt \notin Files

VARIABLES
  recipe,   \* recipes/<challenge>.json
  job,      \* jobs/<key>.json
  art,      \* artifacts/<key>, a directory
  demand,   \* .demand-order.json, never below the order of a job
  mode,     \* .owner-mode.json, and the demand when it was written
  cache,    \* _owner_mode of the Store of a process
  holder,   \* of the queue lock
  doomed,   \* jobs that the holder of the lock is about to remove
  retiring, \* the challenge whose recipe an admin has changed
  req,      \* a request in progress
  work,     \* the worker
  setting,  \* the owner mode of the site
  space     \* enough disk space is available

vars == <<recipe, job, art, demand, mode, cache, holder, doomed, retiring, req, work, setting, space>>

lockVars == <<holder, doomed, retiring>>
modeVars == <<mode, cache>>
siteVars == <<setting, space>>

NoMode  == [kind |-> "none", at |-> 0]
Quiet   == [pc |-> "idle"]
Resting == [pc |-> "off", key |-> <<>>, gen |-> NoGen, attempts |-> 0]

\* What a request has in hand, and a run of the worker.
Keyed == {"enter", "lock", "reconcile", "switch", "decide", "look"}
ReqState ==
  [pc : {"idle", "over", "sent"}]
    \cup [pc : {"identify"}, recipe : Recipe, observed : Nat]
    \cup [pc : Keyed, observed : Nat, key : Key]
    \cup [pc : {"admit"}, observed : Nat, key : Key, gen : Gen \cup {NoGen}]
    \cup [pc : {"open"}, key : Key, current : JobRow]
    \cup [pc : {"again"}, key : Key, current : JobRow, file : Gen]
    \cup [pc : {"confirm"}, key : Key, file : Gen]

Engaged == {"prepare", "collect", "generate", "publish", "rename", "ready", "fail"}
Run ==
  [pc : {"off", "recover", "tidy", "claim"}, key : {<<>>}, gen : {NoGen}, attempts : {0}]
    \cup [pc : Engaged, key : Key, gen : Gen, attempts : 0 .. Attempts]

Init ==
  /\ recipe \in [Challenge -> Recipe \cup {NoRecipe}]
  /\ job = [k \in Key |-> NoJob]
  /\ art = [k \in Key |-> NoArt]
  /\ demand = 0 /\ mode = NoMode /\ cache = [p \in Process |-> NoMode]
  /\ holder = Nobody /\ doomed = {} /\ retiring = {}
  /\ req = [r \in Request |-> Quiet]
  /\ work = [at |-> Resting, due |-> TRUE]
  /\ setting = FirstMode /\ space = TRUE

(***************************************************************************)
(* Jobs                                                                    *)
(***************************************************************************)
Jobs       == {k \in Key : job[k] # NoJob}
In(states) == {k \in Jobs : job[k].state \in states}
Pending    == In({"queued", "running"})
Fits(k)    == recipe[k.challenge] = k.recipe
Alien(x)   == {k \in Jobs : KindOf[k.owner] # x}

Complete(k) == art[k] # NoArt /\ art[k].whole

Reusable(k) ==
  /\ job[k] # NoJob
  /\ ~(job[k].state = "failed" /\ job[k].changed)
  /\ job[k].state = "ready" => Complete(k)

\* Running jobs of a set are marked as failed; job' without the others is left
\* to the steps that remove them.
Mark(set, obsolete) ==
  [k \in Key |-> IF k \in set \cap In({"running"})
                   THEN [job[k] EXCEPT !.state = "failed", !.changed = TRUE,
                                       !.obsolete = @ \/ obsolete]
                   ELSE job[k]]

\* What _collect removes if these are the jobs.
Collectable(jobs) ==
  {k \in Key : /\ jobs[k] # NoJob /\ jobs[k].state \notin {"queued", "running"}
               /\ ~Fits(k) \/ jobs[k].obsolete}

\* Mutants of Failed: one attempt too many; attempts that are not counted.
FailedLate(k) ==
  LET over == job[k].attempts > Attempts \/ ~Fits(k)
  IN [job EXCEPT ![k] = [@ EXCEPT !.state = IF over THEN "failed" ELSE "queued",
                                  !.changed = ~Fits(k), !.due = FALSE]]

FailedAfresh(k) ==
  LET over == job[k].attempts >= Attempts \/ ~Fits(k)
  IN [job EXCEPT ![k] = [@ EXCEPT !.state = IF over THEN "failed" ELSE "queued", !.attempts = 0,
                                  !.changed = ~Fits(k), !.due = FALSE]]

\* The outcome of store.fail for the job that is running.
Failed(k) ==
  LET over == job[k].attempts >= Attempts \/ ~Fits(k)
  IN [job EXCEPT ![k] = [@ EXCEPT !.state = IF over THEN "failed" ELSE "queued",
                                  !.changed = ~Fits(k), !.due = FALSE]]

\* The holder of the lock removes a job: rmtree of the files, then the record.
EraseFiles(k) ==
  /\ k \in doomed /\ Complete(k)
  /\ art' = [art EXCEPT ![k].whole = FALSE]
  /\ UNCHANGED <<recipe, job, demand, modeVars, lockVars, req, work, siteVars>>

\* Mutant of EraseJob: the record goes before the files.
EraseJobFirst(k) ==
  /\ k \in doomed
  /\ job' = [job EXCEPT ![k] = NoJob]
  /\ IF job[k] = NoJob THEN art' = [art EXCEPT ![k] = NoArt] /\ doomed' = doomed \ {k}
                       ELSE UNCHANGED <<art, doomed>>
  /\ UNCHANGED <<recipe, demand, modeVars, holder, retiring, req, work, siteVars>>

EraseJob(k) ==
  /\ k \in doomed /\ ~Complete(k)
  /\ art' = [art EXCEPT ![k] = NoArt]
  /\ job' = [job EXCEPT ![k] = NoJob]
  /\ doomed' = doomed \ {k}
  /\ UNCHANGED <<recipe, demand, modeVars, holder, retiring, req, work, siteVars>>

(***************************************************************************)
(* Requests                                                                *)
(***************************************************************************)
KindFor(r)     == KindOf[req[r].key.owner]
ModeCurrent(r) == cache[ProcOf[r]] = mode /\ mode.kind = KindFor(r)

Goto(r, pc) == req' = [req EXCEPT ![r].pc = pc]
Over(r)     == req' = [req EXCEPT ![r] = [pc |-> "over"]]

\* The request got the job of its key; a download goes on with the file.
Got(r) ==
  IF job[req[r].key].state = "ready" /\ r \notin Background THEN Goto(r, "look") ELSE Over(r)

Unlock == holder' = Nobody /\ UNCHANGED <<doomed, retiring>>

\* The caller reads the recipe and the demand, in advance under the lock.
Observe(r) ==
  LET c == Asks[r].challenge
  IN /\ req[r].pc = "idle"
     /\ IF recipe[c] = NoRecipe \/ (r \in Background /\ holder # Nobody)
          THEN Over(r)
          ELSE req' = [req EXCEPT ![r] = [pc |-> "identify", recipe |-> recipe[c], observed |-> demand]]
     /\ UNCHANGED <<recipe, job, art, demand, modeVars, lockVars, work, siteVars>>

\* It then checks the mode of the site, on which the owner depends.
Identify(r) ==
  /\ req[r].pc = "identify"
  /\ req' = [req EXCEPT ![r] =
       [pc |-> "enter", observed |-> req[r].observed,
        key |-> [challenge |-> Asks[r].challenge, owner |-> Asks[r].as[setting],
                 print |-> Asks[r].print, recipe |-> req[r].recipe]]]
  /\ UNCHANGED <<recipe, job, art, demand, modeVars, lockVars, work, siteVars>>

Promotes(r) ==
  r \notin Background /\ job[req[r].key].background /\ req[r].key \in Pending

\* request, without the lock: a job that can be used as it is.
Enter(r) ==
  LET k == req[r].key
  IN /\ req[r].pc = "enter"
     /\ IF ~Fits(k) THEN Over(r)
        ELSE IF Reusable(k) /\ ~Promotes(r) /\ ModeCurrent(r) THEN Got(r)
        ELSE Goto(r, "lock")
     /\ UNCHANGED <<recipe, job, art, demand, modeVars, lockVars, work, siteVars>>

\* The lock is taken, unless it is busy or the recipe has changed.
Lock(r) ==
  /\ req[r].pc = "lock"
  /\ IF holder # Nobody \/ ~Fits(req[r].key)
       THEN Over(r) /\ UNCHANGED holder
       ELSE /\ holder' = r
            /\ Goto(r, IF ModeCurrent(r) THEN "decide" ELSE "reconcile")
  /\ UNCHANGED <<recipe, job, art, demand, modeVars, doomed, retiring, work, siteVars>>

\* Mutant of Outdated: only jobs of the other mode are in the way of a switch.
OutdatedByJobs(r) ==
  demand > req[r].observed /\ (r \in Background \/ Alien(KindFor(r)) # {})

\* A request that does not know the latest demand may not switch the mode.
Outdated(r) ==
  /\ demand > req[r].observed
  /\ r \in Background \/ mode.kind # KindFor(r) \/ Alien(KindFor(r)) # {}

\* _reconcile_owner_mode, which retires the jobs of the other mode ...
Reconcile(r) ==
  LET alien == Alien(KindFor(r))
  IN /\ req[r].pc = "reconcile"
     /\ IF Outdated(r)
          THEN Over(r) /\ Unlock /\ UNCHANGED job
          ELSE /\ job' = Mark(alien, TRUE)
               /\ doomed' = alien \ In({"running"})
               /\ Goto(r, "switch")
               /\ UNCHANGED <<holder, retiring>>
     /\ UNCHANGED <<recipe, art, demand, modeVars, work, siteVars>>

\* ... and records the new one.
Switch(r) ==
  /\ req[r].pc = "switch" /\ doomed = {}
  /\ IF mode.kind = KindFor(r)
       THEN UNCHANGED <<mode, demand>>
       ELSE /\ demand' = demand + 1
            /\ mode' = [kind |-> KindFor(r), at |-> demand + 1]
  /\ cache' = [cache EXCEPT ![ProcOf[r]] = mode']
  /\ Goto(r, "decide")
  /\ UNCHANGED <<recipe, job, art, lockVars, work, siteVars>>

SameIdentity(k) == {x \in Jobs : x.challenge = k.challenge /\ x.owner = k.owner /\ x # k}

\* Mutant of Contested: a file that is ready does not count.
ContestedByPending(r) ==
  \E x \in SameIdentity(req[r].key) : ~job[x].background /\ x \in Pending

\* A job made in advance does not displace a download of the same identity.
Contested(r) ==
  \E x \in SameIdentity(req[r].key) :
    /\ ~job[x].background
    /\ x \in Pending \/ (job[x].state = "ready" /\ job[x].order > req[r].observed)

\* The job can be used as it is, perhaps with the priority of a download.
Reuse(r) ==
  LET k == req[r].key
  IN /\ req[r].pc = "decide" /\ Reusable(k)
     /\ IF Promotes(r)
          THEN /\ demand' = demand + 1
               /\ job' = [job EXCEPT ![k].background = FALSE, ![k].order = demand + 1]
          ELSE UNCHANGED <<demand, job>>
     /\ Got(r) /\ Unlock
     /\ UNCHANGED <<recipe, art, modeVars, work, siteVars>>

\* _retire_obsolete and _retire_identity, and _collect if a job is obsolete.  A
\* running job that both retire is marked by the first, removed by the second.
Retire(r) ==
  LET k      == req[r].key
      others == {x \in Jobs : x.challenge = k.challenge /\ x.recipe # k.recipe} \ In({"ready"})
      mine   == SameIdentity(k)
      gone   == ((others \cup mine) \ In({"running"})) \cup (others \cap mine)
      marked == Mark(mine \ others, TRUE)
  IN /\ req[r].pc = "decide" /\ ~Reusable(k)
     /\ IF r \in Background /\ Contested(r)
          THEN Over(r) /\ Unlock /\ UNCHANGED job
          ELSE /\ job' = [x \in Key |-> IF x \in others THEN Mark(others, FALSE)[x] ELSE marked[x]]
               /\ doomed' = gone \cup (IF \E x \in Jobs \ gone : job'[x].obsolete
                                         THEN Collectable(job') ELSE {})
               /\ req' = [req EXCEPT ![r] = [pc |-> "admit", key |-> k, observed |-> req[r].observed,
                                             gen |-> IF job[k] = NoJob THEN NoGen ELSE job[k].gen]]
               /\ UNCHANGED <<holder, retiring>>
     /\ UNCHANGED <<recipe, art, demand, modeVars, work, siteVars>>

\* Mutant of Full: off by one.
FullInclusive(r) ==
  LET limit == IF r \in Background THEN MaxPending \div 2 ELSE MaxPending
  IN Cardinality(Pending) > limit

\* The queue has no room; half of it is for downloads only.
Full(r) ==
  LET limit == IF r \in Background THEN MaxPending \div 2 ELSE MaxPending
  IN Cardinality(Pending) >= limit

\* The job is queued.
Admit(r) ==
  LET before == r \in Background
      order  == IF before THEN 0 ELSE demand + 1
  IN /\ req[r].pc = "admit" /\ doomed = {}
     /\ IF Full(r)
          THEN UNCHANGED <<job, demand>>
          ELSE /\ job' = [job EXCEPT ![req[r].key] =
                            [state |-> "queued", attempts |-> 0, gen |-> req[r].gen, background |-> before,
                             order |-> order, changed |-> FALSE, obsolete |-> FALSE, due |-> TRUE]]
               /\ demand' = IF before THEN demand ELSE order
     /\ Over(r) /\ Unlock
     /\ UNCHANGED <<recipe, art, modeVars, work, siteVars>>

\* open_file, without the lock: the job and the recipe are read ...
Look(r) ==
  LET k == req[r].key
  IN /\ req[r].pc = "look"
     /\ IF job[k] # NoJob /\ job[k].state = "ready" /\ Fits(k)
          THEN req' = [req EXCEPT ![r] = [pc |-> "open", key |-> k, current |-> job[k]]]
          ELSE Over(r)
     /\ UNCHANGED <<recipe, job, art, demand, modeVars, lockVars, work, siteVars>>

\* ... the file is opened, which may be missing from a directory being removed ...
Open(r) ==
  LET k == req[r].key
  IN /\ req[r].pc = "open"
     /\ \/ /\ art[k] # NoArt
           /\ req' = [req EXCEPT ![r] = [pc |-> "again", key |-> k, current |-> req[r].current,
                                         file |-> art[k].gen]]
        \/ ~Complete(k) /\ Over(r)
     /\ UNCHANGED <<recipe, job, art, demand, modeVars, lockVars, work, siteVars>>

\* Mutant of Again: the job is not read again.
AgainUnread(r) ==
  /\ req[r].pc = "again"
  /\ req' = [req EXCEPT ![r] = [pc |-> "confirm", key |-> req[r].key, file |-> req[r].file]]
  /\ UNCHANGED <<recipe, job, art, demand, modeVars, lockVars, work, siteVars>>

\* ... and both are read again.
Again(r) ==
  LET k == req[r].key
  IN /\ req[r].pc = "again"
     /\ IF job[k] = req[r].current
          THEN req' = [req EXCEPT ![r] = [pc |-> "confirm", key |-> k, file |-> req[r].file]]
          ELSE Over(r)
     /\ UNCHANGED <<recipe, job, art, demand, modeVars, lockVars, work, siteVars>>

\* The file is sent to the player, or closed.
Confirm(r) ==
  /\ req[r].pc = "confirm"
  /\ IF Fits(req[r].key) THEN req' = [req EXCEPT ![r] = [pc |-> "sent"]] ELSE Over(r)
  /\ UNCHANGED <<recipe, job, art, demand, modeVars, lockVars, work, siteVars>>

\* The process dies, or a write fails, while it holds the lock; the demand may
\* have been written, and what is written after it not.
Dies(r) ==
  /\ holder = r
  /\ demand' = demand
     \/ /\ demand' = demand + 1 /\ doomed = {}
        /\ req[r].pc = "switch" \/ (req[r].pc \in {"decide", "admit"} /\ r \notin Background)
  /\ Over(r) /\ holder' = Nobody /\ doomed' = {}
  /\ UNCHANGED <<recipe, job, art, modeVars, retiring, work, siteVars>>

Requests(r) ==
  \/ Observe(r) \/ Identify(r) \/ Enter(r) \/ Lock(r) \/ Reconcile(r) \/ Switch(r)
  \/ Reuse(r) \/ Retire(r) \/ Admit(r) \/ Look(r) \/ Open(r) \/ Again(r) \/ Confirm(r)

(***************************************************************************)
(* Admins                                                                  *)
(***************************************************************************)

\* set_recipe and delete_recipe, which write the recipe first ...
SetRecipe(c, new) ==
  /\ holder = Nobody /\ recipe[c] # new
  /\ recipe' = [recipe EXCEPT ![c] = new]
  /\ holder' = Admin /\ retiring' = {c}
  /\ UNCHANGED <<job, art, demand, modeVars, doomed, req, work, siteVars>>

\* ... and then retire the jobs of the old one, but for files that are ready.
RetireObsolete(c) ==
  LET others == {x \in Jobs : x.challenge = c /\ ~Fits(x)} \ In({"ready"})
  IN /\ c \in retiring
     /\ job' = Mark(others, FALSE)
     /\ doomed' = others \ In({"running"})
     /\ retiring' = {}
     /\ UNCHANGED <<recipe, art, demand, modeVars, holder, req, work, siteVars>>

AdminDone ==
  /\ holder = Admin /\ retiring = {} /\ doomed = {}
  /\ Unlock
  /\ UNCHANGED <<recipe, job, art, demand, modeVars, req, work, siteVars>>

AdminDies ==
  /\ holder = Admin
  /\ holder' = Nobody /\ doomed' = {} /\ retiring' = {}
  /\ UNCHANGED <<recipe, job, art, demand, modeVars, req, work, siteVars>>

\* retry_failed, for the owners of the mode that the site had when the admin's
\* request read it: as many jobs as the queue and the disk have room for.
RetryFailed ==
  LET failed == {k \in In({"failed"}) : /\ job[k].attempts >= Attempts
                                        /\ ~job[k].changed /\ ~job[k].obsolete
                                        /\ KindOf[k.owner] = mode.kind /\ Fits(k)}
  IN /\ holder = Nobody /\ mode.kind \in {FirstMode, setting}
     /\ \E again \in SUBSET failed \ {{}} :
          LET n == Cardinality(Pending) + Cardinality(again)
          IN /\ n <= MaxPending
             /\ (\E k \in again : job[k].background) => n <= MaxPending \div 2
             /\ job' = [k \in Key |-> IF k \in again
                                        THEN [job[k] EXCEPT !.state = "queued", !.attempts = 0, !.due = TRUE]
                                        ELSE job[k]]
     /\ UNCHANGED <<recipe, art, demand, modeVars, lockVars, req, work, siteVars>>

\* The site changes its owner mode, at most once.
ChangeSetting ==
  /\ setting = "user" /\ setting' = "team"
  /\ UNCHANGED <<recipe, job, art, demand, modeVars, lockVars, req, work, space>>

(***************************************************************************)
(* The worker                                                              *)
(***************************************************************************)
WorkerAt(pc) == work.at.pc = pc
Step(pc)     == work' = [work EXCEPT !.at.pc = pc]

\* run_once ends, or raises.
Rest       == work' = [work EXCEPT !.at = Resting]

\* Mutant of RestAndDue: maintenance waits for its time.
RestOnly == work' = [work EXCEPT !.at = Resting]

RestAndDue == work' = [at |-> Resting, due |-> TRUE]

\* Nothing of the queue refers to this token, nor does any request or worker.
Fresh(g) ==
  /\ \A k \in Key : (job[k] # NoJob => job[k].gen # g) /\ (art[k] # NoArt => art[k].gen # g)
  /\ \A r \in Request :
       /\ req[r].pc = "admit" => req[r].gen # g
       /\ req[r].pc \in {"open", "again"} => req[r].current.gen # g
       /\ req[r].pc \in {"again", "confirm"} => req[r].file # g

\* run_once: maintenance if it is due, which it is at the latest every minute.
Begin ==
  /\ WorkerAt("off")
  /\ \E due \in {TRUE, work.due} :
       work' = [at |-> [Resting EXCEPT !.pc = IF due THEN "recover" ELSE "claim"], due |-> due]
  /\ UNCHANGED <<recipe, job, art, demand, modeVars, lockVars, req, siteVars>>

\* Docker does not answer cleanup_all, or cleanup of a job that was interrupted:
\* run_once raises before it fails such a job or claims one.  Maintenance stays due.
Unanswered ==
  /\ WorkerAt("recover")
  /\ Rest
  /\ UNCHANGED <<recipe, job, art, demand, modeVars, lockVars, req, siteVars>>

\* A job that is running was interrupted, since only one worker runs.
Recover ==
  /\ WorkerAt("recover") /\ holder = Nobody
  /\ \E k \in In({"running"}) : job' = Failed(k)
  /\ UNCHANGED <<recipe, art, demand, modeVars, lockVars, req, work, siteVars>>

\* collect, before a claim and before a generation.
Collects(pc) ==
  /\ holder = Nobody
  /\ holder' = Worker /\ doomed' = Collectable(job)
  /\ Step(pc)
  /\ UNCHANGED <<recipe, job, art, demand, modeVars, retiring, req, siteVars>>

Tidy == WorkerAt("recover") /\ In({"running"}) = {} /\ Collects("tidy")

Tidied ==
  /\ WorkerAt("tidy") /\ doomed = {}
  /\ Unlock
  /\ work' = [work EXCEPT !.at.pc = "claim", !.due = FALSE]
  /\ UNCHANGED <<recipe, job, art, demand, modeVars, req, siteVars>>

\* Downloads go first, in the order of their requests.
Precedes(x, k) ==
  \/ ~job[x].background /\ job[k].background
  \/ ~job[x].background /\ ~job[k].background /\ job[x].order < job[k].order

\* claim: jobs of an old recipe fail on the way to the first that can be made.
Claim ==
  LET ripe  == {k \in In({"queued"}) : job[k].due}
      stale == {k \in ripe : ~Fits(k)}
      failing(set) == [x \in Key |-> IF x \in set THEN [job[x] EXCEPT !.state = "failed", !.changed = TRUE]
                                               ELSE job[x]]
  IN /\ WorkerAt("claim") /\ holder = Nobody
     /\ \/ /\ ripe = stale \/ ~space
           /\ job' = failing(stale)
           /\ Rest
        \/ /\ space
           /\ \E k \in ripe \ stale, g \in Gen, set \in SUBSET stale :
                /\ \A x \in ripe \ stale : ~Precedes(x, k)
                /\ \A x \in stale : /\ Precedes(x, k) => x \in set
                                    /\ Precedes(k, x) => x \notin set
                /\ Fresh(g)
                /\ job' = [failing(set) EXCEPT ![k] = [@ EXCEPT !.state = "running", !.gen = g,
                                                             !.attempts = job[k].attempts + 1]]
                /\ work' = [work EXCEPT !.at = [pc |-> "prepare", key |-> k, gen |-> g,
                                                attempts |-> job[k].attempts + 1]]
     /\ UNCHANGED <<recipe, art, demand, modeVars, lockVars, req, siteVars>>

\* run_once removes what an earlier generation left ...
Prepare ==
  LET k == work.at.key
  IN /\ WorkerAt("prepare") /\ art[k] # NoArt
     /\ art' = [art EXCEPT ![k] = IF @.whole THEN [@ EXCEPT !.whole = FALSE] ELSE NoArt]
     /\ UNCHANGED <<recipe, job, demand, modeVars, lockVars, req, work, siteVars>>

\* ... collects ...
Prepared == WorkerAt("prepare") /\ art[work.at.key] = NoArt /\ Collects("collect")

Collected ==
  /\ WorkerAt("collect") /\ doomed = {}
  /\ Unlock /\ Step("generate")
  /\ UNCHANGED <<recipe, job, art, demand, modeVars, req, siteVars>>

\* ... and generates; the generator may fail, and so may each step up to here.
Generate ==
  /\ WorkerAt("generate")
  /\ Step("publish")
  /\ UNCHANGED <<recipe, job, art, demand, modeVars, lockVars, req, siteVars>>

Raises ==
  /\ work.at.pc \in {"prepare", "collect", "generate", "publish"} /\ holder # Worker
  /\ work' = [at |-> [work.at EXCEPT !.pc = "fail"], due |-> TRUE]
  /\ UNCHANGED <<recipe, job, art, demand, modeVars, lockVars, req, siteVars>>

\* Mutant of Claimed: the job is there, whatever has become of it.
ClaimedOnce == job[work.at.key] # NoJob

\* The job is still the one that was claimed.
Claimed ==
  LET j == job[work.at.key]
  IN /\ j # NoJob
     /\ j.state = "running" /\ j.attempts = work.at.attempts /\ j.gen = work.at.gen

\* publish: the check, the rename of the directory and the write of the job.
Publish ==
  /\ WorkerAt("publish") /\ holder = Nobody
  /\ Claimed /\ Fits(work.at.key)
  /\ holder' = Worker /\ Step("rename")
  /\ UNCHANGED <<recipe, job, art, demand, modeVars, doomed, retiring, req, siteVars>>

Rename ==
  /\ WorkerAt("rename")
  /\ art' = [art EXCEPT ![work.at.key] = [gen |-> work.at.gen, whole |-> TRUE]]
  /\ Step("ready")
  /\ UNCHANGED <<recipe, job, demand, modeVars, lockVars, req, siteVars>>

Ready ==
  /\ WorkerAt("ready")
  /\ job' = [job EXCEPT ![work.at.key].state = "ready", ![work.at.key].changed = FALSE]
  /\ Unlock /\ Rest
  /\ UNCHANGED <<recipe, art, demand, modeVars, req, siteVars>>

\* store.fail
Fail ==
  /\ WorkerAt("fail") /\ holder = Nobody
  /\ job' = IF Claimed THEN Failed(work.at.key) ELSE job
  /\ Rest
  /\ UNCHANGED <<recipe, art, demand, modeVars, lockVars, req, siteVars>>

\* The lock is busy: run_once ends, and a job that was claimed is recovered.
GivesUp ==
  /\ work.at.pc \in {"recover", "claim", "fail"} /\ holder # Nobody
  /\ IF WorkerAt("fail") THEN RestAndDue ELSE Rest
  /\ UNCHANGED <<recipe, job, art, demand, modeVars, lockVars, req, siteVars>>

\* The process dies, or is killed by its alarm, and is started again.
WorkerDies ==
  /\ ~WorkerAt("off")
  /\ RestAndDue
  /\ IF holder = Worker THEN holder' = Nobody /\ doomed' = {} ELSE UNCHANGED <<holder, doomed>>
  /\ UNCHANGED <<recipe, job, art, demand, modeVars, retiring, req, siteVars>>

Works ==
  \/ Begin \/ Recover \/ Tidy \/ Tidied \/ Claim \/ Prepare \/ Prepared \/ Collected
  \/ Generate \/ Publish \/ Rename \/ Ready \/ Fail

\* Time passes: a failed attempt may be made again.
Ripen(k) ==
  /\ k \in In({"queued"}) /\ ~job[k].due
  /\ job' = [job EXCEPT ![k].due = TRUE]
  /\ UNCHANGED <<recipe, art, demand, modeVars, lockVars, req, work, siteVars>>

\* The disk fills up, or has room again.
SpaceChanges ==
  /\ space' = ~space
  /\ UNCHANGED <<recipe, job, art, demand, modeVars, lockVars, req, work, setting>>

----------------------------------------------------------------------------
Erases == \E k \in doomed : EraseFiles(k) \/ EraseJob(k)

Administers ==
  \/ \E c \in Challenge : RetireObsolete(c) \/ \E new \in Offered : SetRecipe(c, new)
  \/ AdminDone \/ AdminDies \/ RetryFailed \/ ChangeSetting

Next ==
  \/ \E r \in Request : Requests(r) \/ Dies(r)
  \/ Erases \/ Administers
  \/ Works \/ Raises \/ GivesUp \/ Unanswered \/ WorkerDies
  \/ \E k \in Key : Ripen(k)
  \/ SpaceChanges

Spec == Init /\ [][Next]_vars

\* A run of the worker is cut short by its death or by Docker, not by a lock.
CutShort == (Unanswered \/ WorkerDies) /\ ~(Works \/ GivesUp)

\* From some time on the worker does not die and Docker answers its maintenance,
\* without which it claims nothing; no admin dies, changes a recipe or retries,
\* and the disk has room.  Generations may fail for ever, and locks may be busy.
Steady ==
  /\ space' /\ recipe' = recipe
  /\ ~CutShort /\ ~AdminDies /\ ~RetryFailed

\* Each process goes on, whatever the locks it meets let it do.
FairSpec ==
  /\ Spec /\ <>[][Steady]_vars
  /\ WF_vars(Works \/ Raises \/ GivesUp)
  /\ WF_vars(Erases)
  /\ WF_vars(AdminDone \/ \E c \in Challenge : RetireObsolete(c))
  /\ \A r \in Request : WF_vars(Requests(r))
  /\ \A k \in Key : WF_vars(Ripen(k))

(***************************************************************************)
(* Properties                                                              *)
(***************************************************************************)

\* The state has its type.
TypeOK ==
  /\ recipe \in [Challenge -> Recipe \cup {NoRecipe}]
  /\ job \in [Key -> JobRow \cup {NoJob}]
  /\ art \in [Key -> Files \cup {NoArt}]
  /\ demand \in Nat
  /\ mode \in [kind : Kind \cup {"none"}, at : Nat]
  /\ cache \in [Process -> [kind : Kind \cup {"none"}, at : Nat]]
  /\ holder \in Request \cup {Nobody, Admin, Worker}
  /\ doomed \subseteq Key /\ retiring \subseteq Challenge
  /\ req \in [Request -> ReqState]
  /\ work \in [at : Run, due : BOOLEAN]
  /\ setting \in Kind /\ space \in BOOLEAN

\* What downloads see: a key is published while its job is ready, and a request
\* has its file once it has read the job a second time.
Abstract == INSTANCE Downloads WITH
  published <- [k \in Key |-> IF job[k] # NoJob /\ job[k].state = "ready" THEN job[k].gen ELSE NoGen],
  handle    <- [r \in Request |-> IF req[r].pc = "confirm"
                                    THEN <<req[r].key, req[r].file>> ELSE <<>>]

\* A download without the lock gets the very generation that is published under
\* its key, whole, although open_file reads the job, opens a file and reads the
\* job again while the worker, admins and other requests replace and remove it.
ImplementsDownloads == Abstract!DownloadSpec

\* The files under a key have a job, which _collect and _retire_matching go by
\* to find them: whoever dies between two writes, none stay on the disk unseen.
NoOrphans == \A k \in Key : art[k] # NoArt => job[k] # NoJob

\* A job that is running is the one the worker is at, or the worker is about to
\* look for interrupted ones without waiting for its next minute.
NoneForgotten ==
  \A k \in In({"running"}) :
    \/ work.due
    \/ work.at.key = k /\ work.at.gen = job[k].gen

\* request and retry_failed keep the queue within max_pending, and what was
\* asked for in advance within half of it.
QueueBounded ==
  /\ Cardinality(Pending) <= MaxPending
  /\ Cardinality({k \in Pending : job[k].background}) <= MaxPending \div 2

\* A job of the owner mode that is over has failed for good: no request that
\* was on its way when the mode changed, no retry and no generation under way
\* when it did brings it back.
OneMode ==
  \A k \in Alien(mode.kind) : job[k].state = "failed" /\ job[k].obsolete

\* The store follows the site from one owner mode to the other once: a request
\* that found its owner before the change does not take it back, whatever it
\* was doing meanwhile.
ModeSettles == [][mode.kind = "team" => mode'.kind = "team"]_vars

\* A download asked for what this request in advance has not seen.
Wanted(k, r) ==
  /\ k \in In({"queued", "running", "ready"}) /\ Reusable(k)
  /\ ~job[k].background /\ ~job[k].obsolete /\ Fits(k) /\ k \notin doomed
  /\ job[k].order > req[r].observed

\* A request made in advance, which may have read its owner long ago, neither
\* retires nor removes what a download asked for since.
BackgroundYields ==
  [][\A r \in Background : holder = r =>
       \A k \in Jobs : Wanted(k, r) =>
         job'[k] # NoJob /\ job'[k].state = job[k].state /\ k \notin doomed']_vars

\* A job that is queued is made, fails or is removed in the end, once Docker
\* answers the worker's maintenance: while it does not, no attempt is counted.
Resolves == \A k \in Key : (k \in Pending) ~> (k \notin Pending)

=============================================================================
