----------------------------- MODULE PlayerPage -----------------------------
(***************************************************************************)
(* The page of a player (view.js): it shows the instance of the challenge  *)
(* that is open, counts down to its end, asks for it every ten seconds,    *)
(* and starts, renews and stops it.  At most one call is pending: a new    *)
(* one aborts it, and its answer must then go unseen, whatever the server  *)
(* makes of it.  The instance changes by itself too: its time runs out, a  *)
(* team mate stops it and starts another.                                  *)
(*                                                                         *)
(* An instance is known by the lease it began with, and has a later lease  *)
(* after each renewal.  What the server says is reduced to what the page   *)
(* makes of it: the instance, that there is none, no, or to come back      *)
(* later where that is not the same as no.  The clipboard, and renewals    *)
(* that are used up, are left out.                                         *)
(***************************************************************************)
EXTENDS Integers

CONSTANTS
  Challenge, NoView,
  CallId, NoCall,
  Patience,    \* attempts there are before retryDeadline
  MaxLeases    \* leases of a challenge: a bound of the model

\* What a composition assumes of the constants.
PageAssumption ==
  NoView \notin Challenge /\ NoCall \notin CallId /\ {Patience, MaxLeases} \subseteq Nat

VARIABLES
  server,   \* per challenge: the instance, its lease, leases given, leases run out
  call,
  view,     \* _containerView
  pending,  \* view.pending
  page,     \* what is on it, its timers and flags
  known     \* per challenge: no older lease can be there, by what was accepted

pageVars == <<server, call, view, pending, page, known>>

Free    == [pc |-> "free"]
Nothing == <<>>

\* The page of a challenge that was just opened.  start is _requestInFlight
\* ("asking") or _retryPending ("again"); off has the buttons that are disabled.
Blank ==
  [bar |-> "hidden", shown |-> Nothing, expires |-> 0, synced |-> FALSE, off |-> {},
   start |-> "free", patience |-> 0, timer |-> "none"]

PageInit ==
  /\ server = [c \in Challenge |-> [id |-> 0, lease |-> 0, given |-> 0, over |-> 0]]
  /\ call = [k \in CallId |-> Free]
  /\ view = NoView /\ pending = NoCall /\ page = Blank
  /\ known = [c \in Challenge |-> 0]

(***************************************************************************)
(* The server, and the way to it                                           *)
(***************************************************************************)
Serves(c, id, lease) ==
  server' = [server EXCEPT ![c].id = id, ![c].lease = lease,
                           ![c].given = IF lease > @ THEN lease ELSE @]

Up(c)      == server[c].lease # 0
NextLease(c) == server[c].given + 1
Creates(c) == ~Up(c) /\ NextLease(c) <= MaxLeases /\ Serves(c, NextLease(c), NextLease(c))
Renews(c)  == Up(c) /\ NextLease(c) <= MaxLeases /\ Serves(c, server[c].id, NextLease(c))
Stops(c)   == Up(c) /\ Serves(c, 0, 0)

\* Team mates, maintenance and the clock.
Elsewhere(c) == (Creates(c) \/ Renews(c) \/ Stops(c)) /\ UNCHANGED <<call, view, pending, page, known>>

TimePasses(c) ==
  /\ server[c].over < server[c].given
  /\ server' = [server EXCEPT ![c].over = @ + 1]
  /\ UNCHANGED <<call, view, pending, page, known>>

\* What the server says of the instance when it is asked: none, after so many
\* leases, or this one.
There(s) ==
  IF s.lease = 0 THEN [what |-> "absent", id |-> 0, lease |-> s.given]
                 ELSE [what |-> "up", id |-> s.id, lease |-> s.lease]

\* The server does what it was asked to, if it can, or turns it down.
Answers(k) ==
  LET c == call[k].of
      says(a) == call' = [call EXCEPT ![k].pc = "answered", ![k].says = a]
  IN /\ call[k].pc = "asked"
     /\ \/ call[k].path \in {"first", "poll", "check", "outcome"} /\ UNCHANGED server /\ says(There(server[c]))
        \/ call[k].path = "start" /\ Creates(c) /\ says(There(server'[c]))
        \/ call[k].path = "start" /\ Up(c) /\ UNCHANGED server /\ says(There(server[c]))
        \/ call[k].path = "renew" /\ Renews(c) /\ says(There(server'[c]))
        \/ call[k].path = "stop" /\ Stops(c) /\ says(There(server'[c]))
        \/ UNCHANGED server /\ says([what |-> "no", id |-> 0, lease |-> 0])
        \/ call[k].path \in {"start", "check"} /\ UNCHANGED server
           /\ says([what |-> "later", id |-> 0, lease |-> 0])
     /\ UNCHANGED <<view, pending, page, known>>

\* What nobody waits for any more is not heard, or never comes.
Unheard(k) ==
  /\ call[k] # Free /\ k # pending
  /\ call' = [call EXCEPT ![k] = Free]
  /\ UNCHANGED <<server, view, pending, page, known>>

(***************************************************************************)
(* What the page shows: functions from a page to the next                  *)
(***************************************************************************)

\* tick, when the time is up.
Expired(p) == [p EXCEPT !.bar = "start", !.shown = Nothing, !.expires = 0, !.synced = FALSE]

RunOut(c, lease) == lease <= server[c].over

\* A countdown that is over at once takes back what was shown, and then the bar
\* comes up all the same, and synchronization goes on.
ShowConnection(p, c, a) ==
  LET over == RunOut(c, a.lease)
  IN [p EXCEPT !.bar = "running", !.synced = TRUE, !.off = {},
               !.shown = IF over THEN Nothing ELSE <<c, a.id>>,
               !.expires = IF over THEN 0 ELSE a.lease]

InstanceAbsent(p) == [Expired(p) EXCEPT !.off = {"renew"}]

Tells(a) == a.what \in {"up", "absent"}

\* A connection that is shown stays as it is: only its buttons and time change.
ApplyStatus(p, c, a) ==
  IF a.what = "absent" THEN InstanceAbsent(p)
  ELSE IF p.shown = Nothing \/ ~p.synced THEN ShowConnection(p, c, a)
  ELSE IF a.lease # p.expires /\ RunOut(c, a.lease) THEN [Expired(p) EXCEPT !.off = {}]
  ELSE [p EXCEPT !.off = {}, !.expires = a.lease]

\* _resetStartButton and _requestInFlight = false.
StartOver(p) == [p EXCEPT !.start = "free", !.patience = 0]

MutationUnknown(p) == [p EXCEPT !.off = {"renew", "stop"}, !.shown = Nothing]

(***************************************************************************)
(* _fetchContainer                                                         *)
(***************************************************************************)

\* The pending call is aborted, its deadline and any retry with it.
Fetch(c, path, calls, p) ==
  \E k \in CallId :
    /\ calls[k] = Free
    /\ call' = [calls EXCEPT ![k] = [pc |-> "asked", path |-> path, of |-> c,
                                     timer |-> IF path = "poll" THEN p.expires ELSE 0,
                                     says |-> Nothing]]
    /\ pending' = k
    /\ page' = [p EXCEPT !.timer = IF path = "first" THEN "none" ELSE "deadline"]

Rests(calls, p) == call' = calls /\ pending' = NoCall /\ page' = p

\* Mutant: any call of the view that is open is current.
CurrentView(k) == view # NoView /\ call[k].of = view

\* current: the call is the pending one of the view that is open.
Current(k) == k = pending

\* The answer to such a call is accepted.
Hears(k, path) == call[k].pc = "answered" /\ call[k].path = path /\ Current(k)
Without(k)     == [call EXCEPT ![k] = Free]
Heard          == [page EXCEPT !.timer = "none"]

Learns(c, a) ==
  LET least == IF a.what = "absent" THEN a.lease + 1 ELSE a.lease
  IN known' = [known EXCEPT ![c] = IF least > @ THEN least ELSE @]

\* The pending call fails or is aborted at its deadline; the server may get to it.
Fails(path) == pending # NoCall /\ call[pending].path = path

(***************************************************************************)
(* view_container_info, _endContainerView, submit                          *)
(***************************************************************************)
Opens(c) ==
  /\ view' = c /\ Fetch(c, "first", call, Blank)
  /\ UNCHANGED <<server, known>>

Closes ==
  /\ view # NoView /\ view' = NoView
  /\ pending' = NoCall /\ page' = Blank
  /\ UNCHANGED <<server, call, known>>

OpensTo(k) ==
  LET a == call[k].says
  IN /\ Hears(k, "first")
     /\ Rests(Without(k), CASE a.what = "up"     -> ShowConnection(Heard, view, a)
                            [] a.what = "absent" -> [Heard EXCEPT !.bar = "start"]
                            [] OTHER             -> Heard)
     /\ (IF Tells(a) THEN Learns(view, a) ELSE UNCHANGED known)
     /\ UNCHANGED <<server, view>>

\* submit clears what the page shows; the next status shows it again.
Submits ==
  /\ page.shown # Nothing /\ page' = [page EXCEPT !.shown = Nothing]
  /\ UNCHANGED <<server, call, view, pending, known>>

OpensToNothing ==
  /\ Fails("first") /\ Rests(call, page)
  /\ UNCHANGED <<server, view, known>>

(***************************************************************************)
(* startTimer, _syncNow                                                    *)
(***************************************************************************)
Tick ==
  /\ view # NoView /\ page.expires # 0 /\ RunOut(view, page.expires)
  /\ page' = Expired(page)
  /\ UNCHANGED <<server, call, view, pending, known>>

SyncNow ==
  /\ view # NoView /\ page.synced /\ pending = NoCall
  /\ Fetch(view, "poll", call, page)
  /\ UNCHANGED <<server, view, known>>

\* An answer from before the countdown ended is not for the page of now.
Synced(k) ==
  LET a == call[k].says
  IN /\ Hears(k, "poll")
     /\ IF call[k].timer = page.expires /\ Tells(a)
          THEN Rests(Without(k), ApplyStatus(Heard, view, a)) /\ Learns(view, a)
          ELSE Rests(Without(k), Heard) /\ UNCHANGED known
     /\ UNCHANGED <<server, view>>

SyncFails ==
  /\ Fails("poll") /\ Rests(call, Heard)
  /\ UNCHANGED <<server, view, known>>

(***************************************************************************)
(* container_request, _doContainerRequest                                  *)
(***************************************************************************)
DoRequest(p) ==
  Fetch(view, "start", call, [p EXCEPT !.start = "asking", !.shown = Nothing])

ContainerRequest ==
  /\ view # NoView /\ page.bar = "start" /\ page.start = "free"
  /\ DoRequest([page EXCEPT !.patience = Patience])
  /\ UNCHANGED <<server, view, known>>

\* Up; no; or later, with another try if there is time for it.
Started(k) ==
  LET a == call[k].says
  IN /\ Hears(k, "start")
     /\ \/ a.what = "up" /\ Learns(view, a)
           /\ Rests(Without(k), StartOver(ShowConnection(Heard, view, a)))
        \/ a.what = "no" /\ UNCHANGED known
           /\ \E bar \in {page.bar, "hidden"} : Rests(Without(k), StartOver([Heard EXCEPT !.bar = bar]))
        \/ a.what = "later" /\ UNCHANGED known /\ Rests(Without(k), StartOver(Heard))
        \/ a.what = "later" /\ UNCHANGED known /\ page.patience > 0
           /\ Rests(Without(k), [Heard EXCEPT !.start = "again", !.timer = "again"])
     /\ UNCHANGED <<server, view>>

\* The timer of the retry, which may find that the time is up.
TriesAgain ==
  /\ page.timer = "again"
  /\ \/ DoRequest([page EXCEPT !.timer = "none", !.patience = @ - 1])
     \/ page' = StartOver(Heard) /\ UNCHANGED <<call, pending>>
  /\ UNCHANGED <<server, view, known>>

\* _reconcileContainer: nobody knows whether there is an instance, so it asks.
Reconcile(p) ==
  IF p.patience = 0
    THEN Rests(call, StartOver(p))
    ELSE Fetch(view, "check", call, [p EXCEPT !.patience = @ - 1])

StartFails ==
  /\ Fails("start") /\ Reconcile(Heard)
  /\ UNCHANGED <<server, view, known>>

Polls ==
  /\ page.timer = "poll" /\ Reconcile(Heard)
  /\ UNCHANGED <<server, view, known>>

Checked(k) ==
  LET a == call[k].says
  IN /\ Hears(k, "check")
     /\ \/ a.what = "up" /\ Learns(view, a)
           /\ Rests(Without(k), StartOver(ShowConnection(Heard, view, a)))
        \/ a.what = "no" /\ UNCHANGED known
           /\ \E bar \in {page.bar, "hidden"} : Rests(Without(k), StartOver([Heard EXCEPT !.bar = bar]))
        \/ a.what = "absent" /\ Learns(view, a) /\ Rests(Without(k), [Heard EXCEPT !.timer = "poll"])
        \/ a.what = "later" /\ UNCHANGED known /\ Rests(Without(k), [Heard EXCEPT !.timer = "poll"])
     /\ UNCHANGED <<server, view>>

CheckFails ==
  /\ Fails("check") /\ Rests(call, [page EXCEPT !.timer = "poll"])
  /\ UNCHANGED <<server, view, known>>

(***************************************************************************)
(* container_renew, container_stop, _reconcileMutation                     *)
(***************************************************************************)
ContainerRenew ==
  /\ page.bar = "running" /\ "renew" \notin page.off
  /\ Fetch(view, "renew", call, [page EXCEPT !.off = @ \cup {"renew"}])
  /\ UNCHANGED <<server, view, known>>

ContainerStop ==
  /\ page.bar = "running" /\ "stop" \notin page.off
  /\ Fetch(view, "stop", call, [page EXCEPT !.off = {"renew", "stop"}, !.shown = Nothing])
  /\ UNCHANGED <<server, view, known>>

Outcome(calls) == Fetch(view, "outcome", calls, [page EXCEPT !.off = {"renew", "stop"}])

Renewed(k) ==
  LET a == call[k].says
  IN /\ Hears(k, "renew")
     /\ IF a.what = "up" THEN Rests(Without(k), ShowConnection(Heard, view, a)) /\ Learns(view, a)
                         ELSE Outcome(Without(k)) /\ UNCHANGED known
     /\ UNCHANGED <<server, view>>

Stopped(k) ==
  LET a == call[k].says
  IN /\ Hears(k, "stop")
     /\ IF a.what = "absent" THEN Rests(Without(k), InstanceAbsent(Heard)) /\ Learns(view, a)
                             ELSE Outcome(Without(k)) /\ UNCHANGED known
     /\ UNCHANGED <<server, view>>

MutationFails ==
  /\ Fails("renew") \/ Fails("stop")
  /\ Outcome(call)
  /\ UNCHANGED <<server, view, known>>

\* A message that is added makes the next status show the connection again.
Settled(k) ==
  LET a == call[k].says
      p == ApplyStatus(Heard, view, a)
  IN /\ Hears(k, "outcome")
     /\ IF Tells(a)
          THEN Learns(view, a) /\ \E s \in {p.shown, Nothing} : Rests(Without(k), [p EXCEPT !.shown = s])
          ELSE UNCHANGED known /\ Rests(Without(k), MutationUnknown(Heard))
     /\ UNCHANGED <<server, view>>

NeverSettled ==
  /\ Fails("outcome") /\ Rests(call, MutationUnknown(Heard))
  /\ UNCHANGED <<server, view, known>>

PageNext ==
  \/ \E c \in Challenge : Elsewhere(c) \/ TimePasses(c) \/ Opens(c)
  \/ \E k \in CallId :
       \/ Answers(k) \/ Unheard(k)
       \/ OpensTo(k) \/ Synced(k) \/ Started(k) \/ Checked(k) \/ Renewed(k) \/ Stopped(k) \/ Settled(k)
  \/ Closes \/ OpensToNothing \/ Submits \/ Tick
  \/ SyncNow \/ SyncFails
  \/ ContainerRequest \/ TriesAgain \/ StartFails \/ Polls \/ CheckFails
  \/ ContainerRenew \/ ContainerStop \/ MutationFails \/ NeverSettled

PageSpec == PageInit /\ [][PageNext]_pageVars

(***************************************************************************)
(* Properties                                                              *)
(***************************************************************************)

\* The page shows the challenge that is open, and counts down no lease that is
\* older than what it was told before, in whatever order calls are answered; what
\* is disabled has a call or a timer that will see to it, and a bar of buttons
\* that the page has is kept up to date.
KeepsUp ==
  /\ page.shown # Nothing => page.shown[1] = view
  /\ page.expires # 0 => page.expires >= known[view]
  /\ page.start # "free" => pending # NoCall \/ page.timer # "none"
  /\ page.bar = "running" => page.synced

=============================================================================
