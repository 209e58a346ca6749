------------------------------- MODULE MCParts -------------------------------
\* Small instances of the parts that share no state: how workers come up, their
\* maintenance locks, the clients and the cached tokens of a process, the streams
\* of events, and a player's page.  A behaviour is one of one part; the others rest.
EXTENDS Integers, Sequences, FiniteSets

CONSTANTS
  Context, Url, NoUrl, Thread, Op, ThreadOf, Pinger, PingerThread,
  Client, NoClient, Closed, Concurrency, MaxLoads,
  Worker, Nobody, Setting, Job,
  Process, Logger, LoggerAt, Stream, StreamAt, NoEvent,
  Kept, Recent, QueueSize, MaxStreams, MaxLogged,
  Owner, Submitter, Request, NoEntry,
  Challenge, NoView, CallId, NoCall, Patience, MaxLeases

CONSTANTS t1, l1, p1, p2

OpThread   == [o \in Op |-> t1]
PingThread == [p \in Pinger |-> t1]
LoggedAt   == [l \in Logger |-> IF l = l1 THEN p1 ELSE p2]
StreamedAt == [s \in Stream |-> p1]

VARIABLES
  part,
  config, generation, connected, cooling, leased, idle, url, op, pinger,
  schemaLock, schema, stored, context, boot,
  lock, due, lost, run,
  nextId, events, listeners, inbox, subscribed, teller, slots, stream,
  owners, deleted, cache, request, shares,
  server, call, view, pending, page, known

Clients     == INSTANCE HostClients
Boots       == INSTANCE Startup
Maintenance == INSTANCE Maintenance
Streams     == INSTANCE EventStreams
Sharing     == INSTANCE FlagShare
Pages       == INSTANCE PlayerPage

ASSUME PartsAssumption ==
  /\ Clients!ClientsAssumption /\ Boots!StartupAssumption /\ Streams!StreamsAssumption
  /\ Sharing!SharesAssumption /\ Pages!PageAssumption

clientVars == <<config, generation, connected, cooling, leased, idle, url, op, pinger>>
bootVars   == <<schemaLock, schema, stored, context, boot>>
jobVars    == <<lock, due, lost, run>>
eventVars  == <<nextId, events, listeners, inbox, subscribed, teller, slots, stream>>
shareVars  == <<owners, deleted, cache, request, shares>>
pageVars   == <<server, call, view, pending, page, known>>

vars == <<part, clientVars, bootVars, jobVars, eventVars, shareVars, pageVars>>

Init ==
  /\ part \in {"clients", "startup", "maintenance", "streams", "sharing", "page"}
  /\ Clients!Init /\ Boots!StartupInit /\ Maintenance!MaintenanceInit
  /\ Streams!StreamsInit /\ Sharing!SharesInit /\ Pages!PageInit
  /\ part # "clients" => config = [c \in Context |-> NoUrl]
  /\ part # "startup" => schema = "none"
  /\ part # "maintenance" => due = [j \in Job |-> FALSE]
  /\ part # "sharing" => owners = {}

Next ==
  /\ part' = part
  /\ \/ /\ part = "clients" /\ Clients!Next
        /\ UNCHANGED <<bootVars, jobVars, eventVars, shareVars, pageVars>>
     \/ /\ part = "startup" /\ Boots!Next
        /\ UNCHANGED <<clientVars, jobVars, eventVars, shareVars, pageVars>>
     \/ /\ part = "maintenance" /\ Maintenance!MaintenanceNext
        /\ UNCHANGED <<clientVars, bootVars, eventVars, shareVars, pageVars>>
     \/ /\ part = "streams" /\ Streams!StreamsNext
        /\ UNCHANGED <<clientVars, bootVars, jobVars, shareVars, pageVars>>
     \/ /\ part = "sharing" /\ Sharing!SharesNext
        /\ UNCHANGED <<clientVars, bootVars, jobVars, eventVars, pageVars>>
     \/ /\ part = "page" /\ Pages!PageNext
        /\ UNCHANGED <<clientVars, bootVars, jobVars, eventVars, shareVars>>

Spec == Init /\ [][Next]_vars

(***************************************************************************)
(* What each part promises, under the fairness of that part                *)
(***************************************************************************)

\* A context that stays configured, on hosts that answer, is connected again and
\* again.
Reconnects == part = "clients" /\ Clients!Fairness => Clients!Reconnects

\* Every worker comes to serve.
EveryoneServes == part = "startup" /\ Boots!Fairness => Boots!EveryoneServes

\* Every job is done again and again.
JobsGoOn == part = "maintenance" /\ Maintenance!MaintenanceFairness => Maintenance!JobsGoOn

\* Clients have one holder, and operations clients of an endpoint of their time.
OwnClient == Clients!OwnClient

\* Streams and kept events are complete, with nothing twice.
NoGap == Streams!NoGap

\* The count of streams is that of the streams.
SlotsAccounted == Streams!SlotsAccounted

\* Shared flags of owners who are there are on record.
ShareRecorded == Sharing!ShareRecorded

\* The page of a player follows what it is told, and nothing on it stays locked.
KeepsUp == Pages!KeepsUp

=============================================================================
