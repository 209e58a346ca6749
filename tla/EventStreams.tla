----------------------------- MODULE EventStreams -----------------------------
(***************************************************************************)
(* The event log of the admin dashboard.  Each process keeps its latest    *)
(* events (EventLogger), tells them to the others over a channel of Redis  *)
(* (event_bus), and streams them to dashboards (route_events_stream): a    *)
(* stream listens, sends what is kept, and then what comes.                *)
(*                                                                         *)
(* The channel keeps nothing for a process that does not listen.  An event *)
(* is its process and number there; what it says is left out.              *)
(***************************************************************************)
EXTENDS Integers, Sequences, FiniteSets, SequencesExt

CONSTANTS
  Process,
  Logger, LoggerAt,   \* threads that log events, and the process of each
  Stream, StreamAt,   \* requests for the stream of events, and their process
  NoEvent,
  Kept,               \* EventLogger.max_events
  Recent,             \* events a stream begins with
  QueueSize,          \* events a stream may be behind
  MaxStreams,         \* _MAX_SSE_CONNECTIONS
  MaxLogged           \* events logged: a bound of the model

\* What a composition assumes of the constants.
StreamsAssumption ==
  /\ LoggerAt \in [Logger -> Process] /\ StreamAt \in [Stream -> Process]
  /\ Logger \cap Process = {}
  /\ {Kept, Recent, QueueSize, MaxStreams, MaxLogged} \subseteq Nat \ {0} /\ Recent <= Kept

VARIABLES
  nextId,      \* _next_id
  events,      \* the events a process keeps
  listeners,   \* streams that listen to a process
  inbox,       \* what the channel has for each subscriber
  subscribed,  \* processes that listen to the channel
  teller,      \* loggers and subscribers: the event in hand, and whom to tell
  slots,       \* _sse_connection_count
  stream

streamVars == <<nextId, events, listeners, inbox, subscribed, teller, slots, stream>>

Event  == Process \X (1 .. MaxLogged)
Teller == Logger \cup Process   \* the subscriber of a process goes by its name
At(t)  == IF t \in Logger THEN LoggerAt[t] ELSE t

Resting == [pc |-> "idle", event |-> NoEvent, left |-> {}]
NoStream  == [pc |-> "idle", left |-> <<>>, queue |-> <<>>, sent |-> {}, fell |-> FALSE]

StreamsInit ==
  /\ nextId = [p \in Process |-> 1]
  /\ events = [p \in Process |-> <<>>]
  /\ listeners = [p \in Process |-> {}]
  /\ inbox = [p \in Process |-> <<>>]
  /\ subscribed = {}
  /\ teller = [t \in Teller |-> Resting]
  /\ slots = [p \in Process |-> 0]
  /\ stream = [s \in Stream |-> NoStream]

Logged == {e \in Event : e[2] < nextId[e[1]]}

LastOf(seq, n) == SubSeq(seq, IF Len(seq) > n THEN Len(seq) - n + 1 ELSE 1, Len(seq))

StreamAtPc(s, pc) == stream[s].pc = pc
StreamTo(s, pc)   == stream' = [stream EXCEPT ![s].pc = pc]

(***************************************************************************)
(* log_event and _deliver_local                                            *)
(***************************************************************************)

\* The event gets its number.
Logs(l) ==
  LET p == LoggerAt[l]
  IN /\ teller[l].pc = "idle" /\ Cardinality(Logged) < MaxLogged
     /\ teller' = [teller EXCEPT ![l] = [pc |-> "deliver", event |-> <<p, nextId[p]>>, left |-> {}]]
     /\ nextId' = [nextId EXCEPT ![p] = @ + 1]
     /\ UNCHANGED <<events, listeners, inbox, subscribed, slots, stream>>

\* It is kept, and the listeners of this moment are to be told.
Keeps(t) ==
  LET p == At(t)
  IN /\ teller[t].pc = "deliver"
     /\ events' = [events EXCEPT ![p] = LastOf(Append(@, teller[t].event), Kept)]
     /\ teller' = [teller EXCEPT ![t].pc = "tell", ![t].left = listeners[p]]
     /\ UNCHANGED <<nextId, listeners, inbox, subscribed, slots, stream>>

\* listener: the oldest event of a full queue gives way.
Tells(t) ==
  /\ teller[t].pc = "tell"
  /\ \E s \in teller[t].left :
       /\ teller' = [teller EXCEPT ![t].left = @ \ {s}]
       /\ stream' = [stream EXCEPT ![s].queue = LastOf(Append(@, teller[t].event), QueueSize),
                                   ![s].fell = @ \/ Len(stream[s].queue) = QueueSize]
  /\ UNCHANGED <<nextId, events, listeners, inbox, subscribed, slots>>

\* publish, to all that listen to the channel, the own process among them; or
\* Redis cannot be reached.
Publishes(l) ==
  /\ l \in Logger /\ teller[l].pc = "tell" /\ teller[l].left = {}
  /\ \/ inbox' = [p \in Process |-> IF p \in subscribed THEN Append(inbox[p], teller[l].event)
                                                        ELSE inbox[p]]
     \/ UNCHANGED inbox
  /\ teller' = [teller EXCEPT ![l] = Resting]
  /\ UNCHANGED <<nextId, events, listeners, subscribed, slots, stream>>

(***************************************************************************)
(* _subscriber_loop                                                        *)
(***************************************************************************)
Subscribes(p) ==
  /\ p \notin subscribed /\ subscribed' = subscribed \cup {p}
  /\ UNCHANGED <<nextId, events, listeners, inbox, teller, slots, stream>>

\* The connection is lost, and with it what it had.
Crashes(p) ==
  /\ p \in subscribed /\ teller[p] = Resting
  /\ subscribed' = subscribed \ {p} /\ inbox' = [inbox EXCEPT ![p] = <<>>]
  /\ UNCHANGED <<nextId, events, listeners, teller, slots, stream>>

\* _dispatch_message leaves out what the process has sent itself.
Hears(p) ==
  /\ teller[p].pc = "idle" /\ inbox[p] # <<>>
  /\ inbox' = [inbox EXCEPT ![p] = Tail(@)]
  /\ teller' = IF Head(inbox[p])[1] = p THEN teller
               ELSE [teller EXCEPT ![p] = [pc |-> "deliver", event |-> Head(inbox[p]), left |-> {}]]
  /\ UNCHANGED <<nextId, events, listeners, subscribed, slots, stream>>

\* The subscriber has told all listeners.
Ceases(p) ==
  /\ teller[p].pc = "tell" /\ teller[p].left = {}
  /\ teller' = [teller EXCEPT ![p] = Resting]
  /\ UNCHANGED <<nextId, events, listeners, inbox, subscribed, slots, stream>>

(***************************************************************************)
(* route_events_stream                                                     *)
(***************************************************************************)

\* Mutant of Asks: the slot is claimed before the answer starts.
AsksAndClaims(s) ==
  /\ StreamAtPc(s, "idle") /\ slots[StreamAt[s]] < MaxStreams
  /\ slots' = [slots EXCEPT ![StreamAt[s]] = @ + 1]
  /\ StreamTo(s, "asked")
  /\ UNCHANGED <<nextId, events, listeners, inbox, subscribed, teller>>

\* The request finds room; else it is refused at once.
Asks(s) ==
  /\ StreamAtPc(s, "idle") /\ slots[StreamAt[s]] < MaxStreams
  /\ StreamTo(s, "asked")
  /\ UNCHANGED <<nextId, events, listeners, inbox, subscribed, teller, slots>>

\* The client is gone before the answer starts: the generator never runs.
Abandons(s) ==
  /\ StreamAtPc(s, "asked") /\ StreamTo(s, "idle")
  /\ UNCHANGED <<nextId, events, listeners, inbox, subscribed, teller, slots>>

\* _sse_connection_slot, when the answer starts: with a slot, or empty.
Claims(s) ==
  LET p == StreamAt[s]
  IN /\ StreamAtPc(s, "asked")
     /\ IF slots[p] < MaxStreams
          THEN slots' = [slots EXCEPT ![p] = @ + 1] /\ StreamTo(s, "claimed")
          ELSE UNCHANGED slots /\ StreamTo(s, "idle")
     /\ UNCHANGED <<nextId, events, listeners, inbox, subscribed, teller>>

\* Mutant of Listens: the stream looks at what is kept before it listens.
ListensLater(s) ==
  LET p == StreamAt[s]
  IN \/ /\ StreamAtPc(s, "claimed")
        /\ stream' = [stream EXCEPT ![s].pc = "late", ![s].left = LastOf(events[p], Recent)]
        /\ UNCHANGED <<nextId, events, listeners, inbox, subscribed, teller, slots>>
     \/ /\ StreamAtPc(s, "late") /\ StreamTo(s, "sends")
        /\ listeners' = [listeners EXCEPT ![p] = @ \cup {s}]
        /\ UNCHANGED <<nextId, events, inbox, subscribed, teller, slots>>

Listens(s) ==
  /\ StreamAtPc(s, "claimed")
  /\ listeners' = [listeners EXCEPT ![StreamAt[s]] = @ \cup {s}]
  /\ StreamTo(s, "listens")
  /\ UNCHANGED <<nextId, events, inbox, subscribed, teller, slots>>

LooksBack(s) ==
  /\ StreamAtPc(s, "listens")
  /\ stream' = [stream EXCEPT ![s].pc = "sends", ![s].left = LastOf(events[StreamAt[s]], Recent)]
  /\ UNCHANGED <<nextId, events, listeners, inbox, subscribed, teller, slots>>

\* What was kept is sent first, then what came since.
Sends(s) ==
  /\ StreamAtPc(s, "sends")
  /\ \/ /\ stream[s].left # <<>>
        /\ stream' = [stream EXCEPT ![s].left = Tail(@), ![s].sent = @ \cup {Head(stream[s].left)}]
     \/ /\ stream[s].left = <<>> /\ stream[s].queue # <<>>
        /\ stream' = [stream EXCEPT ![s].queue = Tail(@), ![s].sent = @ \cup {Head(stream[s].queue)}]
  /\ UNCHANGED <<nextId, events, listeners, inbox, subscribed, teller, slots>>

\* The client is gone: the generator ends where it has sent something ...
Aborts(s) ==
  /\ StreamAtPc(s, "sends")
  /\ stream' = [stream EXCEPT ![s] = [NoStream EXCEPT !.pc = "ends"]]
  /\ UNCHANGED <<nextId, events, listeners, inbox, subscribed, teller, slots>>

\* ... listens no more ...
Unlistens(s) ==
  /\ StreamAtPc(s, "ends")
  /\ stream' = [stream EXCEPT ![s] = [NoStream EXCEPT !.pc = "release"]]
  /\ listeners' = [listeners EXCEPT ![StreamAt[s]] = @ \ {s}]
  /\ UNCHANGED <<nextId, events, inbox, subscribed, teller, slots>>

\* ... and gives its slot back.  Who still has it in hand tells nobody.
Releases(s) ==
  /\ StreamAtPc(s, "release")
  /\ stream' = [stream EXCEPT ![s] = NoStream]
  /\ slots' = [slots EXCEPT ![StreamAt[s]] = @ - 1]
  /\ teller' = [t \in Teller |-> [teller[t] EXCEPT !.left = @ \ {s}]]
  /\ UNCHANGED <<nextId, events, listeners, inbox, subscribed>>

----------------------------------------------------------------------------
StreamsNext ==
  \/ \E l \in Logger : Logs(l) \/ Publishes(l)
  \/ \E t \in Teller : Keeps(t) \/ Tells(t)
  \/ \E p \in Process : Subscribes(p) \/ Crashes(p) \/ Hears(p) \/ Ceases(p)
  \/ \E s \in Stream :
       \/ Asks(s) \/ Abandons(s) \/ Claims(s) \/ Listens(s) \/ LooksBack(s)
       \/ Sends(s) \/ Aborts(s) \/ Unlistens(s) \/ Releases(s)

StreamsSpec == StreamsInit /\ [][StreamsNext]_streamVars

(***************************************************************************)
(* Properties                                                              *)
(***************************************************************************)

\* What a stream has sent, has to send, or is about to be told.
Known(s) ==
  stream[s].sent \cup ToSet(stream[s].left) \cup ToSet(stream[s].queue)
    \cup {teller[t].event : t \in {t \in Teller : s \in teller[t].left}}

\* A process keeps an event once, although its own come back to it; and a stream
\* has no gap: from the first event it knows on, it knows all that its process
\* kept later, unless it fell behind by more than its queue.
NoGap ==
  /\ \A p \in Process : IsInjective(events[p])
  /\ \A s \in Stream : StreamAtPc(s, "sends") /\ ~stream[s].fell =>
       LET kept == events[StreamAt[s]]
       IN \A i, j \in DOMAIN kept : i < j /\ kept[i] \in Known(s) => kept[j] \in Known(s)

\* The count of connections is that of the streams that run, within its limit, and
\* those listen: no way to end or not to start a stream leaves anything behind.
SlotsAccounted ==
  \A p \in Process :
    LET running == {s \in Stream : StreamAt[s] = p /\ stream[s].pc \notin {"idle", "asked"}}
    IN /\ slots[p] = Cardinality(running) /\ slots[p] <= MaxStreams
       /\ listeners[p] = {s \in running : stream[s].pc \in {"listens", "sends", "ends"}}

=============================================================================
