----------------------------- MODULE HostClients -----------------------------
(***************************************************************************)
(* The Docker clients of one process (DockerHostManager): operations lease *)
(* a client of a context from a pool, while the endpoints of contexts      *)
(* change, hosts come and go, and pings probe them.                        *)
(*                                                                         *)
(* An operation is a greenlet of an OS thread; the pool of a context and   *)
(* thread lets a bounded number of them run.  Whatever the code does while *)
(* it holds the lock of the manager is one step, the creation of a client  *)
(* included; what it does outside, on the network, is not.                 *)
(*                                                                         *)
(* What an operation asks of the daemon is left out: only how it ends      *)
(* matters to the clients.  The process runs under gevent, without which   *)
(* operations have no pool to wait for.                                    *)
(***************************************************************************)
EXTENDS Integers, FiniteSets

CONSTANTS
  Context, Url,
  NoUrl,            \* the context is not configured
  Thread,           \* native threads
  Op, ThreadOf,     \* greenlets that run operations, and the thread of each
  Pinger, PingerThread,
  Client, NoClient, \* those that may be open at once: a bound of the model
  Closed,           \* the endpoint of a client that is not open
  Concurrency,      \* HOST_CONCURRENCY
  MaxLoads          \* changes of the configuration

\* What a composition assumes of the constants.
ClientsAssumption ==
  /\ ThreadOf \in [Op -> Thread] /\ PingerThread \in [Pinger -> Thread]
  /\ NoUrl \notin Url /\ Closed \notin Url /\ NoClient \notin Client
  /\ Concurrency \in Nat \ {0} /\ MaxLoads \in Nat

VARIABLES
  config,      \* _context_configs
  generation,  \* _config_generation
  connected,   \* _connected_contexts
  cooling,     \* contexts whose last failure is within CLIENT_FAILURE_COOLDOWN
  leased,      \* _clients
  idle,        \* _idle_clients
  url,         \* the endpoint that each open client was made for
  op,          \* an operation
  pinger       \* a ping, or a round of them

vars == <<config, generation, connected, cooling, leased, idle, url, op, pinger>>

poolVars == <<leased, idle, url>>
hostVars == <<config, generation>>

Quiet == [pc |-> "idle"]

Init ==
  /\ config \in [Context -> Url \cup {NoUrl}] /\ generation = 0
  /\ connected = {} /\ cooling = {}
  /\ leased = [o \in Op |-> NoClient]
  /\ idle = [c \in Context |-> [t \in Thread |-> {}]]
  /\ url = [x \in Client |-> Closed]
  /\ op = [o \in Op |-> Quiet]
  /\ pinger = [p \in Pinger |-> Quiet]

(***************************************************************************)
(* Operations                                                              *)
(***************************************************************************)
At(o, pc)   == op[o].pc = pc
Goto(o, pc) == op' = [op EXCEPT ![o].pc = pc]
Leaves(o)   == op' = [op EXCEPT ![o] = [pc |-> "release", ctx |-> op[o].ctx, gen |-> op[o].gen]]
Pool(o)     == idle[op[o].ctx][ThreadOf[o]]
SetPool(o, set) == idle' = [idle EXCEPT ![op[o].ctx][ThreadOf[o]] = set]
Close(set)  == url' = [x \in Client |-> IF x \in set THEN Closed ELSE url[x]]

MarkConnected(c)     == connected' = connected \cup {c} /\ cooling' = cooling \ {c}
MarkConnectFailed(c) == cooling' = cooling \cup {c}

Peers(o, c) ==
  {x \in Op : op[x].pc \notin {"idle", "waiting"} /\ op[x].ctx = c /\ ThreadOf[x] = ThreadOf[o]}

\* The pool of the context and thread lets another operation run.
HasRoom(o, c) == Cardinality(Peers(o, c)) < Concurrency

\* _call, unless the context is cooling down.  A pull has read the endpoint, and
\* does not use a client of the pool.
Call(o, c, pulls) ==
  /\ At(o, "idle") /\ c \notin cooling
  /\ pulls => config[c] # NoUrl
  /\ op' = [op EXCEPT ![o] = [pc |-> "waiting", ctx |-> c, gen |-> 0,
                              since |-> IF pulls THEN {config[c]} ELSE {},
                              pulls |-> IF pulls THEN config[c] ELSE NoUrl]]
  /\ UNCHANGED <<connected, cooling, poolVars, hostVars, pinger>>

Pulls(o) == op[o].pulls # NoUrl

\* leased_call: the operation runs, and the generation is read without the lock.
Begin(o) ==
  /\ At(o, "waiting") /\ HasRoom(o, op[o].ctx)
  /\ op' = [op EXCEPT ![o] = IF Pulls(o) THEN [@ EXCEPT !.pc = "using"]
                             ELSE [@ EXCEPT !.pc = "sweep", !.gen = generation,
                                            !.since = {config[op[o].ctx]}]]
  /\ UNCHANGED <<connected, cooling, poolVars, hostVars, pinger>>

\* Mutant of Sweep: clients of earlier generations stay in the pool.
SweepNothing(o) ==
  /\ At(o, "sweep")
  /\ Goto(o, "take")
  /\ UNCHANGED <<connected, cooling, poolVars, hostVars, pinger>>

\* _get_client, first part: clients of other generations leave the pool.
Sweep(o) ==
  LET old == {e \in Pool(o) : e[1] # generation}
  IN /\ At(o, "sweep")
     /\ SetPool(o, Pool(o) \ old) /\ Close({e[2] : e \in old})
     /\ Goto(o, "take")
     /\ UNCHANGED <<connected, cooling, leased, hostVars, pinger>>

\* Second part: a client of the pool, whose generation is not looked at again ...
Reuse(o) ==
  /\ At(o, "take")
  /\ \E e \in Pool(o) : /\ SetPool(o, Pool(o) \ {e})
                        /\ leased' = [leased EXCEPT ![o] = e[2]]
  /\ MarkConnected(op[o].ctx) /\ Goto(o, "using")
  /\ UNCHANGED <<url, hostVars, pinger>>

Spare == {x \in Client : url[x] = Closed}

\* ... or a new one for the endpoint of this moment.
Create(o) ==
  LET c == op[o].ctx
      x == CHOOSE x \in Spare : TRUE
  IN /\ At(o, "take") /\ Pool(o) = {} /\ config[c] # NoUrl /\ Spare # {}
     /\ leased' = [leased EXCEPT ![o] = x] /\ url' = [url EXCEPT ![x] = config[c]]
     /\ MarkConnected(c) /\ Goto(o, "using")
     /\ UNCHANGED <<idle, hostVars, pinger>>

\* It cannot be made, or there is no endpoint: an exception in the operation.
CreateFails(o) ==
  /\ At(o, "take") /\ Pool(o) = {}
  /\ IF config[op[o].ctx] # NoUrl THEN MarkConnectFailed(op[o].ctx) ELSE UNCHANGED cooling
  /\ Goto(o, "raised")
  /\ UNCHANGED <<connected, poolVars, hostVars, pinger>>

\* _clear_client, in the thread t: the client leased by the greenlets o, and the
\* pool, which other greenlets of the thread may have filled meanwhile.
Clear(os, c, t) ==
  LET mine == {leased[o] : o \in os} \ {NoClient}
  IN /\ connected' = connected \ {c}
     /\ Close(mine \cup {e[2] : e \in idle[c][t]})
     /\ leased' = [o \in Op |-> IF o \in os THEN NoClient ELSE leased[o]]
     /\ idle' = [idle EXCEPT ![c][t] = {}]

\* _invoke_client_op: the daemon answered, be it with an error.
Answered(o) ==
  /\ At(o, "using") /\ ~Pulls(o)
  /\ MarkConnected(op[o].ctx)
  /\ Leaves(o)
  /\ UNCHANGED <<poolVars, hostVars, pinger>>

\* The transport failed, a container did not start in time or found no port, or
\* an operation that makes no difference between errors got one.
Failed(o) ==
  /\ op[o].pc \in {"using", "raised"}
  /\ Clear({o}, op[o].ctx, ThreadOf[o])
  /\ Leaves(o)
  /\ UNCHANGED <<cooling, hostVars, pinger>>

\* Operations that do not go through _invoke_client_op: they end without telling,
\* and if an exception escapes them the client goes back to the pool as it is.
Ends(o) ==
  /\ op[o].pc \in {"using", "raised"}
  /\ Leaves(o)
  /\ UNCHANGED <<connected, cooling, poolVars, hostVars, pinger>>

\* _release_client: to the pool, if no endpoint changed since the operation began.
Release(o) ==
  /\ At(o, "release")
  /\ IF leased[o] # NoClient /\ op[o].gen = generation
       THEN SetPool(o, Pool(o) \cup {<<generation, leased[o]>>}) /\ UNCHANGED url
       ELSE Close({leased[o]}) /\ UNCHANGED idle
  /\ leased' = [leased EXCEPT ![o] = NoClient]
  /\ op' = [op EXCEPT ![o] = Quiet]
  /\ UNCHANGED <<connected, cooling, hostVars, pinger>>

(***************************************************************************)
(* Endpoints and pings                                                     *)
(***************************************************************************)

\* load_contexts: contexts whose endpoint changed are to be connected again.
LoadContexts(new) ==
  LET unchanged == {c \in Context : new[c] # NoUrl /\ new[c] = config[c]}
  IN /\ new # config /\ generation < MaxLoads
     /\ config' = new /\ generation' = generation + 1
     /\ connected' = connected \cap unchanged /\ cooling' = cooling \cap unchanged
     /\ op' = [o \in Op |-> IF "since" \in DOMAIN op[o] /\ op[o].since # {}
                              THEN [op[o] EXCEPT !.since = @ \cup {new[op[o].ctx]}] ELSE op[o]]
     /\ UNCHANGED <<poolVars, pinger>>

\* warm_up, of the contexts that are neither connected nor cooling down; an
\* admin and the health check ping any.
Targets == {c \in Context : config[c] # NoUrl} \ (connected \cup cooling)

Round(p, targets) ==
  /\ pinger[p].pc = "idle"
  /\ pinger' = [pinger EXCEPT ![p] = [pc |-> "next", left |-> targets]]
  /\ UNCHANGED <<connected, cooling, poolVars, hostVars, op>>

WarmUp(p) == Targets # {} /\ Round(p, Targets)

Check(p) == \E c \in Context : Round(p, {c})

\* What is left of a round after a ping.
Rest(p, left) == pinger' = [pinger EXCEPT ![p] = IF left = {} THEN Quiet ELSE [pc |-> "next", left |-> left]]

\* ping reads the endpoint, and is over if there is none ...
Ping(p) ==
  /\ pinger[p].pc = "next"
  /\ \E c \in pinger[p].left :
       LET left == pinger[p].left \ {c}
       IN IF config[c] = NoUrl THEN Rest(p, left)
          ELSE pinger' = [pinger EXCEPT ![p] = [pc |-> "wait", ctx |-> c, left |-> left]]
  /\ UNCHANGED <<connected, cooling, poolVars, hostVars, op>>

\* Mutant of Pong: the failure is forgotten, no more.
PongForgiving(p) ==
  /\ pinger[p].pc = "wait"
  /\ cooling' = cooling \ {pinger[p].ctx}
  /\ Rest(p, pinger[p].left)
  /\ UNCHANGED <<connected, poolVars, hostVars, op>>

\* ... waits for an answer with a client of its own ...
Pong(p) ==
  /\ pinger[p].pc = "wait"
  /\ MarkConnected(pinger[p].ctx)
  /\ Rest(p, pinger[p].left)
  /\ UNCHANGED <<poolVars, hostVars, op>>

\* ... and if none comes empties the pool of its thread, and then records the
\* failure.
Timeout(p) ==
  /\ pinger[p].pc = "wait"
  /\ Clear({}, pinger[p].ctx, PingerThread[p])
  /\ pinger' = [pinger EXCEPT ![p].pc = "failed"]
  /\ UNCHANGED <<cooling, hostVars, op>>

Unreachable(p) ==
  /\ pinger[p].pc = "failed"
  /\ MarkConnectFailed(pinger[p].ctx)
  /\ Rest(p, pinger[p].left)
  /\ UNCHANGED <<connected, poolVars, hostVars, op>>

\* Time passes: the last failure is CLIENT_FAILURE_COOLDOWN ago.
CoolDown(c) ==
  /\ c \in cooling /\ cooling' = cooling \ {c}
  /\ UNCHANGED <<connected, poolVars, hostVars, op, pinger>>

----------------------------------------------------------------------------
Operates(o) ==
  \/ \E c \in Context, pulls \in BOOLEAN : Call(o, c, pulls)
  \/ Begin(o) \/ Sweep(o) \/ Reuse(o) \/ Create(o) \/ CreateFails(o)
  \/ Answered(o) \/ Failed(o) \/ Ends(o) \/ Release(o)

Pings(p) == Ping(p) \/ Pong(p) \/ Timeout(p) \/ Unreachable(p)

Next ==
  \/ \E o \in Op : Operates(o)
  \/ \E p \in Pinger : WarmUp(p) \/ Check(p) \/ Pings(p)
  \/ \E new \in [Context -> Url \cup {NoUrl}] : LoadContexts(new)
  \/ \E c \in Context : CoolDown(c)

Spec == Init /\ [][Next]_vars

\* The scheduler starts a round of pings every five seconds, a ping ends with an
\* answer or a timeout, and the cooldown ends.
Fairness ==
  /\ \A p \in Pinger : WF_vars(WarmUp(p)) /\ WF_vars(Pings(p))
  /\ \A c \in Context : WF_vars(CoolDown(c))

(***************************************************************************)
(* Properties                                                              *)
(***************************************************************************)
Lessees(x)  == {o \in Op : leased[o] = x}
Waiting(x)  == {e \in Context \X Thread : \E n \in 0 .. generation : <<n, x>> \in idle[e[1]][e[2]]}

\* An open client is leased by one operation or waits in one pool: none is shared,
\* and none is left open when it is out of date, when its operation fails or when
\* a ping empties the pool of operations that run.  And an operation works on an
\* endpoint that its context had while it ran, never on one that was replaced
\* before it began, although others give clients back at any moment.
OwnClient ==
  /\ \A x \in Client :
       Cardinality(Lessees(x)) + Cardinality(Waiting(x)) = IF url[x] = Closed THEN 0 ELSE 1
  /\ \A o \in Op : At(o, "using") =>
       (IF Pulls(o) THEN op[o].pulls ELSE url[leased[o]]) \in op[o].since

\* From some time on every endpoint answers whoever connects to it.
Reachable == <>[][\A p \in Pinger, o \in Op : ~Timeout(p) /\ ~CreateFails(o)]_vars

\* A context that stays configured, on hosts that answer, is connected again and
\* again, whatever operations and pings of its earlier state still fail.
Reconnects ==
  Reachable => \A c \in Context : <>[](config[c] # NoUrl) => []<>(c \in connected)

=============================================================================
