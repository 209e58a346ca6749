-------------------------------- MODULE Health --------------------------------
(***************************************************************************)
(* Whether a Docker context can be used: the verdict in its database row,  *)
(* kept by the health check of a maintenance worker (health_check) and by  *)
(* admins who change the context (_probe_context), next to the catalogs of *)
(* the processes, from which both take the endpoint they probe.            *)
(*                                                                         *)
(* One context.  Its endpoints are numbered in the order in which admins   *)
(* set them; one that is set again counts as another, which may answer     *)
(* while the earlier one does not.                                         *)
(*                                                                         *)
(* Probes compare their own start with the time of the verdict.  Of these  *)
(* times the model keeps the order: which checks under way began after the *)
(* time that is in the row.  The clocks of processes are those of one      *)
(* machine, and no two events have the same time.                          *)
(***************************************************************************)
EXTENDS Integers

CONSTANTS
  Worker,         \* processes, each with one health check at most
  Admin, ProcOf,  \* admin requests, and the process that serves each
  MaxMoves,       \* changes of the endpoint
  NoConfig, NoLoad

Endpoint == 0 .. MaxMoves

\* What a composition assumes of the constants.
HealthAssumption ==
  /\ ProcOf \in [Admin -> Worker] /\ Worker \cap Admin = {} /\ MaxMoves \in Nat
  /\ NoConfig \notin Endpoint /\ NoLoad \notin Endpoint

Prober   == Worker \cup Admin
Home(x)  == IF x \in Admin THEN ProcOf[x] ELSE x

VARIABLES
  row,      \* docker_contexts: the endpoint and health_state
  newer,    \* health checks that began after health_checked_at
  config,   \* the endpoint as each process has it
  load,     \* what a load of the catalog has read
  probe,    \* a probe, of a health check or an admin
  up,       \* endpoints that answer
  outdated, \* probes under way when an endpoint, a host or a catalog changed
  solid     \* a check that began after the last such change gave the verdict

healthVars == <<row, newer, config, load, probe, up, outdated, solid>>

NoProbe == [pc |-> "idle"]

HealthInit ==
  /\ row \in [endpoint : {0}, health : {"unknown", "healthy", "unhealthy"}]
  /\ newer = {}
  /\ config = [w \in Worker |-> NoConfig]
  /\ load = [x \in Prober |-> NoLoad]
  /\ probe = [x \in Prober |-> NoProbe]
  /\ up \in SUBSET Endpoint
  /\ outdated = {} /\ solid = FALSE

Verdict(ok) == IF ok THEN "healthy" ELSE "unhealthy"
Probing     == {x \in Prober : probe[x].pc # "idle"}
ProbeAt(x, pc) == probe[x].pc = pc
Current     == \A w \in Worker : config[w] \in {row.endpoint, NoConfig}

\* Something changed that a probe under way may not have seen.
Changes == outdated' = Probing /\ solid' = FALSE

(***************************************************************************)
(* The catalog of a process                                                *)
(***************************************************************************)

\* Mutant of CatalogFree: loads of a process overlap.
CatalogFreeAlways(x) == load[x] = NoLoad

CatalogFree(x) == \A y \in Prober : Home(y) = Home(x) => load[y] = NoLoad

\* load_from_db, with the lock of the catalog: the row is read ...
ReadsCatalog(x) ==
  /\ CatalogFree(x) /\ config[Home(x)] # NoConfig
  /\ x \in Admin => ProbeAt(x, "reload")
  /\ load' = [load EXCEPT ![x] = row.endpoint]
  /\ UNCHANGED <<row, newer, config, probe, up, outdated, solid>>

\* ... and installed; an admin then probes what the process has.
InstallsCatalog(x) ==
  /\ load[x] # NoLoad
  /\ config' = [config EXCEPT ![Home(x)] = load[x]]
  /\ load' = [load EXCEPT ![x] = NoLoad]
  /\ probe' = IF x \in Admin THEN [probe EXCEPT ![x].pc = "begin"] ELSE probe
  /\ IF load[x] = config[Home(x)] THEN UNCHANGED <<outdated, solid>> ELSE Changes
  /\ UNCHANGED <<row, newer, up>>

\* A worker that boots loads its first catalog.
FirstCatalog(w) ==
  /\ config' = [config EXCEPT ![w] = row.endpoint]
  /\ UNCHANGED <<row, newer, load, probe, up, outdated, solid>>

(***************************************************************************)
(* health_check                                                            *)
(***************************************************************************)
Checks == Worker \cap Probing

\* probe_started is taken, and the endpoint read.
CheckBegins(w) ==
  /\ ProbeAt(w, "idle") /\ config[w] # NoConfig
  /\ probe' = [probe EXCEPT ![w] = [pc |-> "ping", endpoint |-> config[w], earlier |-> Checks]]
  /\ newer' = newer \cup {w}
  /\ UNCHANGED <<row, config, load, up, outdated, solid>>

\* The endpoint answers, or does not.
Answers(x) ==
  /\ ProbeAt(x, "ping")
  /\ probe' = [probe EXCEPT ![x] = [pc |-> "record", ok |-> probe[x].endpoint \in up,
                                    earlier |-> probe[x].earlier]]
  /\ UNCHANGED <<row, newer, config, load, up, outdated, solid>>

\* The probe of x is over, and with it what others have noted of it.
ProbeOver(xs) ==
  /\ probe' = [y \in Prober |-> IF y \in xs THEN NoProbe
                                ELSE IF "earlier" \in DOMAIN probe[y]
                                       THEN [probe[y] EXCEPT !.earlier = @ \ xs] ELSE probe[y]]
  /\ outdated' = outdated \ xs

\* Mutant of Wins: whoever comes last is believed.
WinsAlways(w) == w \in Checks

\* The check began after the time in the row: the guard of the update.
Wins(w) == w \in newer

\* The verdict is written with the time the check began, unless a newer one is there.
Records(w) ==
  /\ w \in Checks /\ ProbeAt(w, "record")
  /\ IF Wins(w)
       THEN /\ row' = [row EXCEPT !.health = Verdict(probe[w].ok)]
            /\ newer' = {v \in newer \cap Checks : v # w /\ w \in probe[v].earlier}
            /\ solid' = (solid \/ (w \notin outdated /\ Current))
       ELSE UNCHANGED <<row, solid>> /\ newer' = newer \ {w}
  /\ ProbeOver({w})
  /\ UNCHANGED <<config, load, up>>

\* No verdict: the check was of a context that is gone, or an exception ends it.
GivesUp(w) ==
  /\ w \in Checks
  /\ newer' = newer \ {w}
  /\ ProbeOver({w})
  /\ UNCHANGED <<row, config, load, up, solid>>

(***************************************************************************)
(* An admin changes the context                                            *)
(***************************************************************************)

\* The row is updated, with another endpoint or the same ...
Updates(a) ==
  /\ a \in Admin /\ ProbeAt(a, "idle") /\ config[ProcOf[a]] # NoConfig
  /\ probe' = [probe EXCEPT ![a] = [pc |-> "reload"]]
  /\ \/ row.endpoint < MaxMoves /\ row' = [row EXCEPT !.endpoint = @ + 1] /\ Changes
     \/ UNCHANGED <<row, outdated, solid>>
  /\ UNCHANGED <<newer, config, load, up>>

\* ... the catalog is loaded again, and the endpoint that is in it probed ...
Pings(a) ==
  /\ ProbeAt(a, "begin")
  /\ probe' = [probe EXCEPT ![a] = [pc |-> "ping", endpoint |-> config[ProcOf[a]], earlier |-> {}]]
  /\ outdated' = outdated \ {a}
  /\ UNCHANGED <<row, newer, config, load, up, solid>>

\* ... mark_healthy or mark_unhealthy reads the row ...
Reads(a) ==
  /\ a \in Admin /\ ProbeAt(a, "record")
  /\ probe' = [probe EXCEPT ![a] = [pc |-> "mark", ok |-> probe[a].ok, saw |-> row.health]]
  /\ UNCHANGED <<row, newer, config, load, up, outdated, solid>>

\* ... and writes the time of this moment, and the verdict only if it differs
\* from the one that was read.
Marks(a) ==
  LET verdict == Verdict(probe[a].ok)
  IN /\ ProbeAt(a, "mark")
     /\ row' = IF verdict = probe[a].saw THEN row ELSE [row EXCEPT !.health = verdict]
     /\ newer' = {}
     /\ solid' = (solid /\ a \notin outdated)
     /\ ProbeOver({a})
     /\ UNCHANGED <<config, load, up>>

(***************************************************************************)
(* Hosts and deaths                                                        *)
(***************************************************************************)
HostFlips(e) ==
  /\ up' = IF e \in up THEN up \ {e} ELSE up \cup {e}
  /\ Changes
  /\ UNCHANGED <<row, newer, config, load, probe>>

\* A process dies, with all that goes on in it.
ProcessDies(w) ==
  LET mine == {x \in Prober : Home(x) = w}
  IN /\ config' = [config EXCEPT ![w] = NoConfig]
     /\ load' = [x \in Prober |-> IF x \in mine THEN NoLoad ELSE load[x]]
     /\ newer' = newer \ mine
     /\ ProbeOver(mine)
     /\ UNCHANGED <<row, up, solid>>

AdminStep(a) ==
  \/ ReadsCatalog(a) \/ InstallsCatalog(a) \/ Pings(a) \/ Answers(a) \/ Reads(a) \/ Marks(a)

(***************************************************************************)
(* Properties                                                              *)
(***************************************************************************)
Right == row.health = Verdict(row.endpoint \in up)

\* Once a check that began after the last change has given its verdict, no check
\* that began before it does away with it, however late it comes.  (An admin's
\* own probe is always believed; the next check corrects it.)
StaleProbeLoses == solid /\ Current => Right

\* A process never goes back to a catalog older than the one it has.
CatalogForward ==
  [][\A w \in Worker : NoConfig \notin {config[w], config'[w]} => config[w] <= config'[w]]_healthVars

=============================================================================
