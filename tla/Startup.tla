------------------------------- MODULE Startup -------------------------------
(***************************************************************************)
(* How the worker processes of a site come up (load): each prepares the    *)
(* schema under a lock of the database server, seeds the settings and the  *)
(* local Docker context without one, and then serves.  A worker that fails *)
(* to boot, or dies, is started again.                                     *)
(*                                                                         *)
(* The servers with a lock are modelled, MySQL with its timeout and        *)
(* PostgreSQL; SQLite is for a single process.  Whether the worker is the  *)
(* first to see the host's Docker socket is left out: the socket is there. *)
(***************************************************************************)
EXTENDS FiniteSets

CONSTANTS
  Worker, Nobody,
  Setting          \* keys of container_settings, the freshness secret among them

\* What a composition assumes of the constants.
StartupAssumption == Nobody \notin Worker

VARIABLES
  schemaLock,  \* the session that holds the schema lock
  schema,      \* the tables: none, without ssh_password, or current
  stored,      \* keys in container_settings
  context,     \* docker_contexts has a row
  boot         \* where each worker is

startupVars == <<schemaLock, schema, stored, context, boot>>

\* An empty database, one of an earlier version, or one that is complete.
StartupInit ==
  /\ schemaLock = Nobody
  /\ schema \in {"none", "old", "current"}
  /\ stored \in SUBSET Setting
  /\ context \in BOOLEAN
  /\ schema = "none" => stored = {} /\ ~context
  /\ boot = [w \in Worker |-> [pc |-> "off"]]

BootAt(w, pc) == boot[w].pc = pc
Boots(w, pc)  == boot' = [boot EXCEPT ![w] = [pc |-> pc]]

\* load raises: the process ends, and the server starts another.
BootFails(w) == Boots(w, "off")

\* The session of the worker ends, or releases the lock.
LeavesLock(w) == schemaLock' = IF schemaLock = w THEN Nobody ELSE schemaLock

Serving == {w \in Worker : BootAt(w, "serving")}

(***************************************************************************)
(* prepare_database                                                        *)
(***************************************************************************)
WaitsForLock(w) ==
  /\ BootAt(w, "off") /\ Boots(w, "lock")
  /\ UNCHANGED <<schemaLock, schema, stored, context>>

GetsLock(w) ==
  /\ BootAt(w, "lock") /\ schemaLock = Nobody
  /\ schemaLock' = w /\ Boots(w, "tables")
  /\ UNCHANGED <<schema, stored, context>>

\* MySQL gives up after _SCHEMA_BOOTSTRAP_LOCK_TIMEOUT.
LockTimesOut(w) ==
  /\ BootAt(w, "lock") /\ schemaLock # Nobody
  /\ BootFails(w)
  /\ UNCHANGED <<schemaLock, schema, stored, context>>

\* create_all asks which tables there are ...
LookAtTables(w) ==
  /\ BootAt(w, "tables")
  /\ Boots(w, IF schema = "none" THEN "create" ELSE "columns")
  /\ UNCHANGED <<schemaLock, schema, stored, context>>

\* The server refuses a table or a column that is there already.
Refused(w) == BootFails(w) /\ LeavesLock(w) /\ UNCHANGED schema

\* ... and creates them as they are to be.
CreateTables(w) ==
  /\ BootAt(w, "create")
  /\ IF schema = "none" THEN schema' = "current" /\ Boots(w, "columns") /\ UNCHANGED schemaLock
                        ELSE Refused(w)
  /\ UNCHANGED <<stored, context>>

\* _add_instance_password_column: the columns are read ...
LookAtColumns(w) ==
  /\ BootAt(w, "columns")
  /\ Boots(w, IF schema = "current" THEN "unlock" ELSE "alter")
  /\ UNCHANGED <<schemaLock, schema, stored, context>>

\* ... and the column is added if it is missing.
Alter(w) ==
  /\ BootAt(w, "alter")
  /\ IF schema = "old" THEN schema' = "current" /\ Boots(w, "unlock") /\ UNCHANGED schemaLock
                       ELSE Refused(w)
  /\ UNCHANGED <<stored, context>>

\* Mutant of Unlock: the session goes back to the pool with the lock.
UnlockNever(w) ==
  /\ BootAt(w, "unlock") /\ Boots(w, "settings")
  /\ UNCHANGED <<schemaLock, schema, stored, context>>

\* The lock is released; if that fails the session is given up, and load raises.
Unlock(w) ==
  /\ BootAt(w, "unlock")
  /\ LeavesLock(w) /\ Boots(w, "settings")
  /\ UNCHANGED <<schema, stored, context>>

UnlockFails(w) ==
  /\ BootAt(w, "unlock")
  /\ LeavesLock(w) /\ BootFails(w)
  /\ UNCHANGED <<schema, stored, context>>

(***************************************************************************)
(* _seed_defaults and _seed_local_context                                  *)
(***************************************************************************)

ReadSettings(w) ==
  /\ BootAt(w, "settings")
  /\ boot' = [boot EXCEPT ![w] = [pc |-> "seed", missing |-> Setting \ stored]]
  /\ UNCHANGED <<schemaLock, schema, stored, context>>

\* One transaction writes what was missing: all of it, or nothing if another
\* worker has meanwhile written any of it.
SeedSettings(w) ==
  /\ BootAt(w, "seed")
  /\ IF boot[w].missing \cap stored = {}
       THEN stored' = stored \cup boot[w].missing /\ Boots(w, "contexts")
       ELSE BootFails(w) /\ UNCHANGED stored
  /\ UNCHANGED <<schemaLock, schema, context>>

CountContexts(w) ==
  /\ BootAt(w, "contexts")
  /\ Boots(w, IF context THEN "load" ELSE "local")
  /\ UNCHANGED <<schemaLock, schema, stored, context>>

\* The name of the local context is unique.
SeedLocal(w) ==
  /\ BootAt(w, "local")
  /\ IF context THEN BootFails(w) /\ UNCHANGED context
                ELSE context' = TRUE /\ Boots(w, "load")
  /\ UNCHANGED <<schemaLock, schema, stored>>

\* ContainerManager loads the contexts and starts its scheduler.
Serve(w) ==
  /\ BootAt(w, "load") /\ Boots(w, "serving")
  /\ UNCHANGED <<schemaLock, schema, stored, context>>

\* The worker dies, and its session with it.
Dies(w) ==
  /\ ~BootAt(w, "off") /\ BootFails(w)
  /\ LeavesLock(w)
  /\ UNCHANGED <<schema, stored, context>>

\* The steps of a worker on its way.
BootStep(w) ==
  \/ WaitsForLock(w) \/ GetsLock(w)
  \/ LookAtTables(w) \/ CreateTables(w) \/ LookAtColumns(w) \/ Alter(w) \/ Unlock(w)
  \/ ReadSettings(w) \/ SeedSettings(w) \/ CountContexts(w) \/ SeedLocal(w) \/ Serve(w)

BootError(w) == LockTimesOut(w) \/ UnlockFails(w) \/ Dies(w)

Next == \E w \in Worker : BootStep(w) \/ BootError(w)

Spec == StartupInit /\ [][Next]_startupVars

\* The server process starts its workers, and these go on.
Fairness == \A w \in Worker : WF_startupVars(BootStep(w))

(***************************************************************************)
(* Properties                                                              *)
(***************************************************************************)

\* From some time on the server answers, no worker dies, and none waits for the
\* lock for longer than others boot.
Steady == <>[][\A w \in Worker : ~BootError(w)]_startupVars

\* Every worker comes to serve: what one that boots trips over, another one has
\* written for it, and it succeeds when it is started again.
EveryoneServes == Steady => <>[](Serving = Worker)

=============================================================================
