----------------------------- MODULE PartsProofs -----------------------------
(***************************************************************************)
(* What holds of the parts of a process for any values of their constants: *)
(* shared flags are on record, streams of events are counted and have no   *)
(* gap, the page of a player keeps up with what it is told, and operations *)
(* own the Docker clients they use.                                        *)
(***************************************************************************)
EXTENDS MCParts, FiniteSetTheorems, SequenceTheorems, TLAPS

(***************************************************************************)
(* Shared flags                                                            *)
(***************************************************************************)
Attempt ==
  [pc : {"look", "load", "store", "record", "over"}, by : Owner, of : Owner,
   seen : SUBSET Owner, present : BOOLEAN, fresh : BOOLEAN]

Entry == [count : Int, map : SUBSET Owner, fresh : BOOLEAN]

ShareType ==
  /\ owners \subseteq Owner
  /\ cache \in Entry \cup {NoEntry}
  /\ request \in [Request -> Attempt \cup {Sharing!Idle}]

UnderWay(r) == request[r] # Sharing!Idle
Reading(r)  == UnderWay(r) /\ request[r].pc \in {"look", "load", "store"}

\* Who is there all along is there, and in the list of owners that was read.
Presence ==
  \A r \in Request : UnderWay(r) /\ request[r].present =>
    /\ {request[r].by, request[r].of} \subseteq owners
    /\ Reading(r) => request[r].of \in request[r].seen
    /\ request[r].pc = "over" /\ request[r].fresh => <<request[r].by, request[r].of>> \in shares

\* An attempt that has counted the owners, next to a list of them from which nobody
\* was deleted: it was there when they were counted, or has who is there since.
Agrees(r, list) ==
  UnderWay(r) /\ request[r].pc = "look" =>
    \/ list \subseteq request[r].seen
    \/ request[r].present => request[r].of \in list

Lists ==
  /\ cache # NoEntry =>
       /\ cache.count = Cardinality(cache.map)
       /\ cache.fresh => cache.map \subseteq owners /\ \A r \in Request : Agrees(r, cache.map)
  /\ \A q \in Request : Reading(q) /\ request[q].fresh =>
       request[q].seen \subseteq owners /\ \A r \in Request : Agrees(r, request[q].seen)

ShareInv == ShareType /\ Presence /\ Lists

\* The parts count as this module does.
LEMMA SharesCount == \A S : Sharing!Cardinality(S) = Cardinality(S)
  BY Zenon DEF Sharing!Cardinality, Cardinality

\* And finite sets are the same to them.
LEMMA SharesFinite == \A S : Sharing!IsFiniteSet(S) <=> IsFiniteSet(S)
  BY DEF Sharing!IsFiniteSet, IsFiniteSet

\* What is known of an attempt that is under way.
LEMMA AttemptIs ==
  ASSUME ShareType, NEW r \in Request
  PROVE  /\ UnderWay(r) <=> request[r] \in Attempt
         /\ \A pc : Sharing!AtPc(r, pc) /\ pc # "idle" => UnderWay(r)
<1>1. request[r] \in Attempt \cup {Sharing!Idle}
  BY DEF ShareType
<1>2. Sharing!Idle.pc = "idle"
  BY DEF Sharing!Idle
<1>3. Sharing!Idle \notin Attempt
  BY <1>2 DEF Attempt
<1> QED
  BY <1>1, <1>2, <1>3 DEF UnderWay, Sharing!AtPc

\* An attempt goes on, with another list of owners.
Goes(r, pc, list, fresh) ==
  /\ request'[r] = [pc |-> pc, by |-> request[r].by, of |-> request[r].of,
                    seen |-> list, present |-> request[r].present, fresh |-> fresh]
  /\ \A q \in Request \ {r} : request'[q] = request[q]
  /\ request' = [q \in Request |-> request'[q]]

\* Where each action takes an attempt.
LEMMA AttemptGoesOn ==
  ASSUME ShareType, NEW r \in Request
  PROVE  /\ Sharing!Looks(r) =>
              LET hit == cache # NoEntry /\ cache.count = Cardinality(request[r].seen)
              IN IF hit THEN Goes(r, IF request[r].of \in cache.map THEN "record" ELSE "over", {}, cache.fresh)
                        ELSE Goes(r, "load", request[r].seen, request[r].fresh)
         /\ Sharing!Loads(r) => \/ Goes(r, "store", owners, TRUE)
                                \/ Goes(r, "store", request[r].seen, request[r].fresh)
         /\ Sharing!Stores(r) =>
              Goes(r, IF request[r].of \in request[r].seen THEN "record" ELSE "over", {}, request[r].fresh)
         /\ Sharing!Records(r) => Goes(r, "over", request[r].seen, request[r].fresh)
<1> DEFINE hit == cache # NoEntry /\ cache.count = Cardinality(request[r].seen)
<1> SUFFICES ASSUME request[r] \in Attempt
             PROVE  /\ Sharing!Looks(r) =>
                         IF hit THEN Goes(r, IF request[r].of \in cache.map THEN "record" ELSE "over", {}, cache.fresh)
                                ELSE Goes(r, "load", request[r].seen, request[r].fresh)
                    /\ Sharing!Loads(r) => \/ Goes(r, "store", owners, TRUE)
                                           \/ Goes(r, "store", request[r].seen, request[r].fresh)
                    /\ Sharing!Stores(r) =>
                         Goes(r, IF request[r].of \in request[r].seen THEN "record" ELSE "over", {}, request[r].fresh)
                    /\ Sharing!Records(r) => Goes(r, "over", request[r].seen, request[r].fresh)
  BY AttemptIs DEF Sharing!Looks, Sharing!Loads, Sharing!Stores, Sharing!Records
<1>2. PICK p, b, o, list, there, f :
        request[r] = [pc |-> p, by |-> b, of |-> o, seen |-> list, present |-> there, fresh |-> f]
  BY DEF Attempt
<1>3. DOMAIN request = Request
  BY DEF ShareType
<1>4. ASSUME NEW pc, Sharing!To(r, pc)
      PROVE  Goes(r, pc, request[r].seen, request[r].fresh)
  BY <1>2, <1>3, <1>4 DEF Goes, Sharing!To
<1>6. ASSUME Sharing!Looks(r)
      PROVE  IF hit THEN Goes(r, IF request[r].of \in cache.map THEN "record" ELSE "over", {}, cache.fresh)
                    ELSE Goes(r, "load", request[r].seen, request[r].fresh)
  <2> DEFINE next == IF request[r].of \in cache.map THEN "record" ELSE "over"
  <2>1. request' = [request EXCEPT ![r] =
          IF hit THEN [request[r] EXCEPT !.pc = next, !.fresh = cache.fresh, !.seen = {}]
                 ELSE [request[r] EXCEPT !.pc = "load"]]
    BY <1>6, SharesCount DEF Sharing!Looks
  <2> HIDE DEF next, hit
  <2>2. IF hit THEN Goes(r, next, {}, cache.fresh) ELSE Goes(r, "load", request[r].seen, request[r].fresh)
    BY <1>2, <1>3, <2>1 DEF Goes
  <2> QED
    BY <2>2 DEF next
<1>8. ASSUME Sharing!Loads(r)
      PROVE  Goes(r, "store", owners, TRUE) \/ Goes(r, "store", request[r].seen, request[r].fresh)
  <2>1. CASE Sharing!To(r, "store")
    BY <1>4, <2>1
  <2>2. CASE request' = [request EXCEPT ![r].pc = "store", ![r].seen = owners, ![r].fresh = TRUE]
    BY <1>2, <1>3, <2>2 DEF Goes
  <2> QED
    BY <1>8, <2>1, <2>2 DEF Sharing!Loads
<1>9. ASSUME Sharing!Stores(r)
      PROVE  Goes(r, IF request[r].of \in request[r].seen THEN "record" ELSE "over", {}, request[r].fresh)
  <2> DEFINE next == IF request[r].of \in request[r].seen THEN "record" ELSE "over"
  <2>1. request' = [request EXCEPT ![r].pc = next, ![r].seen = {}]
    BY <1>9 DEF Sharing!Stores, Sharing!Found
  <2> HIDE DEF next
  <2>2. Goes(r, next, {}, request[r].fresh)
    BY <1>2, <1>3, <2>1 DEF Goes
  <2> QED
    BY <2>2 DEF next
<1>10. ASSUME Sharing!Records(r)
       PROVE  Goes(r, "over", request[r].seen, request[r].fresh)
  BY <1>4, <1>10 DEF Sharing!Records
<1> HIDE DEF hit
<1> QED
  BY <1>6, <1>8, <1>9, <1>10

\* Where an attempt that goes on is, and that the others stay.
Moved(r, pc, list, fresh) ==
  /\ request' \in [Request -> Attempt \cup {Sharing!Idle}]
  /\ UnderWay(r)' /\ request'[r].pc = pc /\ request'[r].seen = list /\ request'[r].fresh = fresh
  /\ request'[r].by = request[r].by /\ request'[r].of = request[r].of
  /\ request'[r].present = request[r].present
  /\ \A q \in Request \ {r} : request'[q] = request[q]

\* Goes takes it there.
LEMMA GoesIs ==
  ASSUME ShareType, NEW r \in Request, UnderWay(r), NEW pc \in {"look", "load", "store", "record", "over"},
         NEW list \in SUBSET Owner, NEW fresh \in BOOLEAN, Goes(r, pc, list, fresh)
  PROVE  Moved(r, pc, list, fresh)
<1>1. request[r] \in Attempt
  BY AttemptIs
<1>2. request'[r] \in Attempt
  BY <1>1 DEF Goes, Attempt
<1>3. request' \in [Request -> Attempt \cup {Sharing!Idle}]
  BY <1>2 DEF Goes, ShareType
<1>4. request'[r] # Sharing!Idle
  <2>1. request'[r].pc = pc /\ Sharing!Idle.pc = "idle"
    BY DEF Goes, Sharing!Idle
  <2> QED
    BY <2>1
<1> QED
  BY <1>3, <1>4 DEF Goes, UnderWay, Moved

\* Everything that an attempt does next to the others.
LEMMA AttemptStep ==
  ASSUME ShareInv, NEW r \in Request, Sharing!Looks(r) \/ Sharing!Loads(r) \/ Sharing!Stores(r) \/ Sharing!Records(r)
  PROVE  ShareInv'
<1> USE DEF ShareInv
<1>h. ShareType /\ UNCHANGED <<owners, deleted>>
  BY DEF Sharing!Looks, Sharing!Loads, Sharing!Stores, Sharing!Records
<1>r. UnderWay(r) /\ request[r] \in Attempt
  BY <1>h, AttemptIs DEF Sharing!Looks, Sharing!Loads, Sharing!Stores, Sharing!Records
<1>t. request[r].seen \subseteq Owner /\ request[r].fresh \in BOOLEAN
  BY <1>r DEF Attempt
<1>1. CASE Sharing!Looks(r)
  <2>1. request[r].pc = "look" /\ UNCHANGED <<cache, shares>>
    BY <1>1 DEF Sharing!Looks, Sharing!AtPc
  <2>2. CASE cache # NoEntry /\ cache.count = Cardinality(request[r].seen)
    <3> DEFINE next == IF request[r].of \in cache.map THEN "record" ELSE "over"
    <3>1. Goes(r, next, {}, cache.fresh) /\ cache.fresh \in BOOLEAN
      BY <1>h, <1>1, <2>2, AttemptGoesOn DEF ShareType, Entry
    <3>2. /\ request' \in [Request -> Attempt \cup {Sharing!Idle}]
          /\ UnderWay(r)' /\ request'[r].pc = next /\ request'[r].seen = {} /\ request'[r].fresh = cache.fresh
          /\ request'[r].by = request[r].by /\ request'[r].of = request[r].of
          /\ request'[r].present = request[r].present
          /\ \A q \in Request \ {r} : request'[q] = request[q]
      <4>1. Moved(r, next, {}, cache.fresh)
        BY <1>h, <1>r, <3>1, GoesIs
      <4> QED
        BY <4>1 DEF Moved
    <3>3. ASSUME request[r].present, cache.fresh
          PROVE  request[r].of \in cache.map
      <4>1. request[r].of \in request[r].seen
        BY <1>r, <2>1, <3>3 DEF Presence, Reading
      <4>2. CASE request[r].of \notin cache.map
        <5>1. cache.map \subseteq request[r].seen
          BY <1>r, <2>1, <2>2, <3>3, <4>2 DEF Lists, Agrees
        <5>2. IsFiniteSet(request[r].seen)
          BY <1>t, PartsAssumption, SharesFinite, FS_Subset DEF Sharing!SharesAssumption
        <5>3. Cardinality(cache.map) = Cardinality(request[r].seen)
          BY <2>2 DEF Lists
        <5> QED
          BY <4>1, <4>2, <5>1, <5>2, <5>3, FS_Subset
      <4> QED
        BY <4>2
    <3>4. ShareType'
      BY <1>h, <2>1, <3>2 DEF ShareType
    <3>5. Presence'
      <4>1. next \in {"record", "over"} /\ (next = "over" => request[r].of \notin cache.map)
        OBVIOUS
      <4> HIDE DEF next
      <4> QED
        BY <1>h, <1>r, <2>1, <3>2, <3>3, <4>1 DEF Presence, Reading, UnderWay
    <3>6. Lists'
      BY <1>h, <2>1, <3>2 DEF Lists, Agrees, Reading, UnderWay
    <3> QED
      BY <3>4, <3>5, <3>6
  <2>3. CASE ~(cache # NoEntry /\ cache.count = Cardinality(request[r].seen))
    <3>1. Goes(r, "load", request[r].seen, request[r].fresh)
      BY <1>h, <1>1, <2>3, AttemptGoesOn
    <3>2. /\ request' \in [Request -> Attempt \cup {Sharing!Idle}]
          /\ UnderWay(r)' /\ request'[r].pc = "load" /\ request'[r].seen = request[r].seen
          /\ request'[r].fresh = request[r].fresh
          /\ request'[r].by = request[r].by /\ request'[r].of = request[r].of
          /\ request'[r].present = request[r].present
          /\ \A q \in Request \ {r} : request'[q] = request[q]
      <4>1. Moved(r, "load", request[r].seen, request[r].fresh)
        BY <1>h, <1>r, <1>t, <3>1, GoesIs
      <4> QED
        BY <4>1 DEF Moved
    <3>4. ShareType'
      BY <1>h, <2>1, <3>2 DEF ShareType
    <3>5. Presence'
      BY <1>h, <1>r, <2>1, <3>2 DEF Presence, Reading, UnderWay
    <3>6. Lists'
      BY <1>h, <1>r, <2>1, <3>2 DEF Lists, Agrees, Reading, UnderWay
    <3> QED
      BY <3>4, <3>5, <3>6
  <2> QED
    BY <2>2, <2>3
<1>2. CASE Sharing!Loads(r)
  <2>1. request[r].pc = "load" /\ UNCHANGED <<cache, shares>>
    BY <1>2 DEF Sharing!Loads, Sharing!AtPc
  <2>2. PICK list \in {owners, request[r].seen}, fresh \in BOOLEAN :
          Goes(r, "store", list, fresh) /\ (list # owners => fresh = request[r].fresh)
    BY <1>h, <1>2, <1>t, AttemptGoesOn
  <2>3. list \in SUBSET Owner
    BY <1>h, <1>t DEF ShareType
  <2>4. /\ request' \in [Request -> Attempt \cup {Sharing!Idle}]
        /\ UnderWay(r)' /\ request'[r].pc = "store" /\ request'[r].seen = list /\ request'[r].fresh = fresh
        /\ request'[r].by = request[r].by /\ request'[r].of = request[r].of
        /\ request'[r].present = request[r].present
        /\ \A q \in Request \ {r} : request'[q] = request[q]
    <3>1. Moved(r, "store", list, fresh)
      BY <1>h, <1>r, <2>2, <2>3, GoesIs
    <3> QED
      BY <3>1 DEF Moved
  <2>5. ShareType'
    BY <1>h, <2>1, <2>4 DEF ShareType
  <2>6. Presence'
    BY <1>h, <1>r, <2>1, <2>4 DEF Presence, Reading, UnderWay
  <2>7. \A q \in Request : Agrees(q, owners)
    BY DEF Presence, Agrees
  <2>8. fresh => list \subseteq owners /\ \A q \in Request : Agrees(q, list)
    BY <1>r, <2>1, <2>2, <2>7 DEF Lists, Reading
  <2>9. Lists'
    BY <1>h, <1>r, <2>1, <2>4, <2>8 DEF Lists, Agrees, Reading, UnderWay
  <2> QED
    BY <2>5, <2>6, <2>9
<1>3. CASE Sharing!Stores(r)
  <2>1. /\ request[r].pc = "store" /\ shares' = shares
        /\ cache' = [count |-> Cardinality(request[r].seen), map |-> request[r].seen, fresh |-> request[r].fresh]
    BY <1>3, SharesCount DEF Sharing!Stores, Sharing!AtPc
  <2>2. Goes(r, IF request[r].of \in request[r].seen THEN "record" ELSE "over", {}, request[r].fresh)
    BY <1>h, <1>3, AttemptGoesOn
  <2>3. PICK next \in {"look", "load", "store", "record", "over"}, none \in SUBSET Owner, fresh \in BOOLEAN :
          /\ Goes(r, next, none, fresh) /\ next \in {"record", "over"}
          /\ next = "over" => request[r].of \notin request[r].seen
    BY <1>t, <2>2
  <2>4. /\ request' \in [Request -> Attempt \cup {Sharing!Idle}]
        /\ UnderWay(r)' /\ request'[r].pc = next /\ request'[r].seen = none /\ request'[r].fresh = fresh
        /\ request'[r].by = request[r].by /\ request'[r].of = request[r].of
        /\ request'[r].present = request[r].present
        /\ \A q \in Request \ {r} : request'[q] = request[q]
    <3>1. Moved(r, next, none, fresh)
      BY <1>h, <1>r, <2>3, GoesIs
    <3> QED
      BY <3>1 DEF Moved
  <2>5. Cardinality(request[r].seen) \in Int
    BY <1>t, PartsAssumption, SharesFinite, FS_Subset, FS_CardinalityType DEF Sharing!SharesAssumption
  <2>6. ShareType'
    BY <1>h, <1>t, <2>1, <2>4, <2>5 DEF ShareType, Entry
  <2>7. Presence'
    BY <1>h, <1>r, <2>1, <2>3, <2>4 DEF Presence, Reading, UnderWay
  <2>8. request[r].fresh =>
          request[r].seen \subseteq owners /\ \A q \in Request : Agrees(q, request[r].seen)
    BY <1>r, <2>1 DEF Lists, Reading
  <2>9. Lists'
    BY <1>h, <2>1, <2>3, <2>4, <2>8 DEF Lists, Agrees, Reading, UnderWay
  <2> QED
    BY <2>6, <2>7, <2>9
<1>4. CASE Sharing!Records(r)
  <2>1. /\ request[r].pc = "record" /\ cache' = cache /\ shares \subseteq shares'
        /\ {request[r].by, request[r].of} \subseteq owners => <<request[r].by, request[r].of>> \in shares'
    BY <1>4 DEF Sharing!Records, Sharing!AtPc
  <2>2. Goes(r, "over", request[r].seen, request[r].fresh)
    BY <1>h, <1>4, AttemptGoesOn
  <2>3. /\ request' \in [Request -> Attempt \cup {Sharing!Idle}]
        /\ UnderWay(r)' /\ request'[r].pc = "over" /\ request'[r].seen = request[r].seen
        /\ request'[r].fresh = request[r].fresh
        /\ request'[r].by = request[r].by /\ request'[r].of = request[r].of
        /\ request'[r].present = request[r].present
        /\ \A q \in Request \ {r} : request'[q] = request[q]
    <3>1. Moved(r, "over", request[r].seen, request[r].fresh)
      BY <1>h, <1>r, <1>t, <2>2, GoesIs
    <3> QED
      BY <3>1 DEF Moved
  <2>4. ShareType'
    BY <1>h, <2>1, <2>3 DEF ShareType
  <2>5. Presence'
    BY <1>h, <1>r, <2>1, <2>3 DEF Presence, Reading, UnderWay
  <2>6. Lists'
    BY <1>h, <2>1, <2>3 DEF Lists, Agrees, Reading, UnderWay
  <2> QED
    BY <2>4, <2>5, <2>6
<1> QED
  BY <1>1, <1>2, <1>3, <1>4

\* Sign-ups, deletions, and the beginning and end of attempts.
LEMMA ShareStep ==
  ASSUME ShareInv, Sharing!SharesNext
  PROVE  ShareInv'
<1> USE DEF ShareInv
<1>h. ShareType
  OBVIOUS
<1>1. ASSUME NEW o \in Owner, Sharing!SignsUp(o)
      PROVE  ShareInv'
  <2>1. owners' = owners \cup {o} /\ UNCHANGED <<cache, request, shares>>
    BY <1>1 DEF Sharing!SignsUp
  <2>2. ShareType'
    BY <1>h, <2>1 DEF ShareType
  <2>3. Presence'
    BY <2>1 DEF Presence, Reading, UnderWay
  <2>4. Lists'
    BY <2>1 DEF Lists, Agrees, Reading, UnderWay
  <2> QED
    BY <2>2, <2>3, <2>4
<1>2. ASSUME NEW o \in Owner, Sharing!IsDeleted(o)
      PROVE  ShareInv'
  <2>1. owners' = owners \ {o} /\ shares' = shares
    BY <1>2 DEF Sharing!IsDeleted
  <2>2. cache' \in Entry \cup {NoEntry} /\ (cache' # NoEntry => cache # NoEntry)
    BY <1>h, <1>2 DEF Sharing!IsDeleted, ShareType, Entry
  <2>3. cache' # NoEntry => cache'.count = cache.count /\ cache'.map = cache.map /\ cache'.fresh = FALSE
    BY <1>h, <1>2 DEF Sharing!IsDeleted, ShareType, Entry
  <2>4. ASSUME NEW r \in Request
        PROVE  /\ request'[r] \in Attempt \cup {Sharing!Idle}
               /\ UnderWay(r)' => /\ UnderWay(r) /\ request'[r].pc = request[r].pc
                                  /\ request'[r].by = request[r].by /\ request'[r].of = request[r].of
                                  /\ request'[r].seen = request[r].seen
                                  /\ request'[r].fresh = FALSE
                                  /\ request'[r].present =>
                                       request[r].present /\ o \notin {request[r].by, request[r].of}
    <3>1. CASE ~UnderWay(r)
      BY <1>2, <3>1 DEF Sharing!IsDeleted, UnderWay
    <3>2. CASE UnderWay(r)
      <4>1. request[r] \in Attempt
        BY <1>h, <3>2, AttemptIs
      <4>2. request'[r] = [request[r] EXCEPT !.fresh = FALSE,
                             !.present = request[r].present /\ o \notin {request[r].by, request[r].of}]
        BY <1>2, <3>2, <4>1 DEF Sharing!IsDeleted, UnderWay, Attempt
      <4> QED
        BY <3>2, <4>1, <4>2 DEF Attempt
    <3> QED
      BY <3>1, <3>2
  <2>5. request' = [r \in Request |-> request'[r]]
    BY <1>2 DEF Sharing!IsDeleted
  <2>6. ShareType'
    BY <1>h, <2>1, <2>2, <2>4, <2>5 DEF ShareType
  <2>7. Presence'
    <3> SUFFICES ASSUME NEW r \in Request, UnderWay(r)', request'[r].present
                 PROVE  /\ {request'[r].by, request'[r].of} \subseteq owners'
                        /\ Reading(r)' => request'[r].of \in request'[r].seen
                        /\ request'[r].pc = "over" /\ request'[r].fresh => <<request'[r].by, request'[r].of>> \in shares'
      BY DEF Presence
    <3>1. UnderWay(r) /\ request[r].present /\ o \notin {request[r].by, request[r].of}
      BY <2>4
    <3>2. {request[r].by, request[r].of} \subseteq owners /\ (Reading(r) => request[r].of \in request[r].seen)
      BY <3>1 DEF Presence
    <3>3. /\ request'[r].by = request[r].by /\ request'[r].of = request[r].of
          /\ request'[r].seen = request[r].seen /\ request'[r].pc = request[r].pc /\ request'[r].fresh = FALSE
      BY <2>4
    <3>4. Reading(r)' => Reading(r)
      BY <3>1, <3>3 DEF Reading
    <3> QED
      BY <2>1, <3>1, <3>2, <3>3, <3>4
  <2>8. Lists'
    BY <2>2, <2>3, <2>4 DEF Lists, Reading
  <2> QED
    BY <2>6, <2>7, <2>8
<1>3. ASSUME NEW r \in Request, NEW s \in Submitter, NEW o \in Owner, Sharing!Attempts(r, s, o)
      PROVE  ShareInv'
  <2> DEFINE a == [pc |-> "look", by |-> s, of |-> o, seen |-> owners, present |-> o \in owners, fresh |-> TRUE]
  <2>1. /\ s \in owners /\ UNCHANGED <<owners, cache, shares>> /\ request' = [request EXCEPT ![r] = a]
    BY <1>3 DEF Sharing!Attempts
  <2>2. a \in Attempt /\ a # Sharing!Idle
    <3>1. a.pc # Sharing!Idle.pc
      BY DEF Sharing!Idle
    <3> QED
      BY <1>h, <2>1, <3>1 DEF Attempt, ShareType
  <2>3. /\ UnderWay(r)' /\ request'[r].pc = "look" /\ request'[r].seen = owners
        /\ request'[r].by = s /\ request'[r].of = o /\ (request'[r].present <=> o \in owners)
        /\ \A q \in Request \ {r} : request'[q] = request[q]
    BY <1>h, <2>1, <2>2 DEF ShareType, UnderWay
  <2>4. ShareType'
    BY <1>h, <2>1, <2>2 DEF ShareType
  <2>5. Presence'
    BY <2>1, <2>3 DEF Presence, Reading, UnderWay
  <2>6. \A q \in Request : Agrees(q, owners)'
    BY <2>1, <2>3 DEF Presence, Agrees, UnderWay
  <2>7. Lists'
    BY <2>1, <2>3, <2>6 DEF Lists, Agrees, Reading, UnderWay
  <2> QED
    BY <2>4, <2>5, <2>7
<1>4. ASSUME NEW r \in Request, Sharing!Answers(r)
      PROVE  ShareInv'
  <2>1. UNCHANGED <<owners, cache, shares>> /\ request' = [request EXCEPT ![r] = Sharing!Idle]
    BY <1>4 DEF Sharing!Answers
  <2>2. ~UnderWay(r)' /\ \A q \in Request \ {r} : request'[q] = request[q]
    BY <1>h, <2>1 DEF ShareType, UnderWay
  <2>3. ShareType'
    BY <1>h, <2>1 DEF ShareType
  <2>4. Presence'
    BY <2>1, <2>2 DEF Presence, Reading, UnderWay
  <2>5. Lists'
    BY <2>1, <2>2 DEF Lists, Agrees, Reading, UnderWay
  <2> QED
    BY <2>3, <2>4, <2>5
<1> QED
  BY <1>1, <1>2, <1>3, <1>4, AttemptStep DEF Sharing!SharesNext

\* No share goes unseen while nobody is deleted: an answer with the token of somebody
\* who was there all along is refused with a record of it, or there was one.
THEOREM SharesAreRecorded == Sharing!SharesSpec => []ShareRecorded
<1>1. Sharing!SharesInit => ShareInv
  BY DEF Sharing!SharesInit, ShareInv, ShareType, Presence, Lists, Reading, UnderWay
<1>2. ShareInv /\ [Sharing!SharesNext]_(Sharing!shareVars) => ShareInv'
  <2>1. ShareInv /\ UNCHANGED Sharing!shareVars => ShareInv'
    BY DEF Sharing!shareVars, ShareInv, ShareType, Presence, Lists, Agrees, Reading, UnderWay
  <2> QED
    BY <2>1, ShareStep
<1>3. ShareInv => ShareRecorded
  BY AttemptIs DEF ShareInv, Presence, ShareRecorded, Sharing!ShareRecorded, Sharing!AtPc
<1> QED
  BY <1>1, <1>2, <1>3, PTL DEF Sharing!SharesSpec

(***************************************************************************)
(* Streams of events                                                       *)
(***************************************************************************)
Numbered == Process \X (Nat \ {0})

InHand ==
  [pc : {"idle", "deliver", "tell"}, event : Numbered \cup {NoEvent}, left : SUBSET Stream]

OnAir ==
  [pc : {"idle", "asked", "claimed", "listens", "sends", "ends", "release"},
   left : Seq(Numbered), queue : Seq(Numbered), sent : SUBSET Numbered, fell : BOOLEAN]

Busy(t) == teller[t].pc # "idle"

StreamsType ==
  /\ nextId \in [Process -> Nat \ {0}]
  /\ events \in [Process -> Seq(Numbered)]
  /\ inbox \in [Process -> Seq(Numbered)]
  /\ teller \in [Streams!Teller -> InHand]
  /\ stream \in [Stream -> OnAir]
  /\ \A t \in Streams!Teller : Busy(t) => teller[t].event \in Numbered

\* A teller, or a stream, goes on, and the others rest.
Turns(t, pc, event, left) ==
  /\ teller'[t] = [pc |-> pc, event |-> event, left |-> left]
  /\ \A u \in Streams!Teller \ {t} : teller'[u] = teller[u]
  /\ teller' = [u \in Streams!Teller |-> teller'[u]]

Airs(s, pc, left, queue, sent, fell) ==
  /\ stream'[s] = [pc |-> pc, left |-> left, queue |-> queue, sent |-> sent, fell |-> fell]
  /\ \A q \in Stream \ {s} : stream'[q] = stream[q]
  /\ stream' = [q \in Stream |-> stream'[q]]

\* A stream that only moves on.
Moves(s, pc) == Airs(s, pc, stream[s].left, stream[s].queue, stream[s].sent, stream[s].fell)

\* What the assumption says of the processes, their loggers and their streams.
LEMMA StreamsConstants ==
  /\ LoggerAt \in [Logger -> Process] /\ StreamAt \in [Stream -> Process] /\ Logger \cap Process = {}
  /\ Kept \in Nat \ {0} /\ Recent \in Nat \ {0} /\ QueueSize \in Nat \ {0} /\ MaxStreams \in Nat \ {0}
  /\ Streams!Teller = Logger \cup Process
  /\ \A t \in Streams!Teller : Streams!At(t) \in Process
  /\ \A l \in Logger : Streams!At(l) = LoggerAt[l]
  /\ \A p \in Process : Streams!At(p) = p
<1>1. Streams!StreamsAssumption
  BY PartsAssumption
<1> QED
  BY <1>1 DEF Streams!StreamsAssumption, Streams!Teller, Streams!At

\* The last elements of a sequence, and where in it they are.
LastPart(S, seq, n, last) ==
  \E k \in Nat :
    /\ last \in Seq(S)
    /\ Len(last) = Len(seq) - k /\ Len(seq) - k <= n
    /\ (k = 0 \/ k = Len(seq) - n)
    /\ \A i \in 1 .. Len(seq) - k : last[i] = seq[k + i]
    /\ Len(seq) <= n => k = 0

\* LastOf returns the last elements, and all of them where they are few.
LEMMA LastOfIs ==
  ASSUME NEW S, NEW seq \in Seq(S), NEW n \in Nat \ {0}
  PROVE  LastPart(S, seq, n, Streams!LastOf(seq, n)) /\ Streams!LastOf(seq, n) \in Seq(S)
<1>0. Len(seq) \in Nat
  BY LenProperties
<1>2. PICK k \in Nat : k = IF Len(seq) > n THEN Len(seq) - n ELSE 0
  BY <1>0
<1>a. /\ Len(seq) - k <= n /\ k <= Len(seq)
      /\ Len(seq) <= n => k = 0
      /\ Len(seq) > n => k = Len(seq) - n
  BY <1>0, <1>2
<1>3. Streams!LastOf(seq, n) = SubSeq(seq, k + 1, Len(seq))
  BY <1>0, <1>2, <1>a DEF Streams!LastOf
<1>4. SubSeq(seq, k + 1, Len(seq)) \in Seq(S)
  BY <1>0, <1>2, <1>a
<1>5. /\ Len(SubSeq(seq, k + 1, Len(seq))) = Len(seq) - k
      /\ \A i \in 1 .. Len(seq) - k : SubSeq(seq, k + 1, Len(seq))[i] = seq[k + i]
  <2>1. Len(SubSeq(seq, k + 1, Len(seq))) = IF k + 1 <= Len(seq) THEN Len(seq) - (k + 1) + 1 ELSE 0
    <3>1. k + 1 \in Int /\ Len(seq) \in Int /\ k + 1 >= 1
      BY <1>0
    <3> DEFINE m == k + 1
    <3>2. m \in Int /\ m >= 1
      BY <3>1
    <3> HIDE DEF m
    <3>3. Len(SubSeq(seq, m, Len(seq))) = IF m <= Len(seq) THEN Len(seq) - m + 1 ELSE 0
      BY <3>1, <3>2
    <3> QED
      BY <3>3 DEF m
  <2>2. ASSUME NEW i \in 1 .. Len(seq) - k
        PROVE  SubSeq(seq, k + 1, Len(seq))[i] = seq[k + i]
    <3>1. i \in 1 .. Len(seq) - (k + 1) + 1 /\ k + 1 + i - 1 = k + i
      BY <1>0, <1>a
    <3>2. SubSeq(seq, k + 1, Len(seq))[i] = seq[k + 1 + i - 1]
      BY <1>0, <1>a, <3>1
    <3> QED
      BY <3>1, <3>2
  <2> QED
    BY <1>0, <1>a, <2>1, <2>2
<1>6. /\ Streams!LastOf(seq, n) \in Seq(S)
      /\ Len(Streams!LastOf(seq, n)) = Len(seq) - k
      /\ \A i \in 1 .. Len(seq) - k : Streams!LastOf(seq, n)[i] = seq[k + i]
  BY <1>3, <1>4, <1>5
<1>7. /\ Len(seq) - k <= n
      /\ (k = 0 \/ k = Len(seq) - n)
      /\ Len(seq) <= n => k = 0
  BY <1>0, <1>2, <1>a
<1> QED
  BY <1>6, <1>7 DEF LastPart

\* An event that is kept, or queued, is the last, and the others keep their order.
KeptLast(S, seq, e, n, last) ==
  \E k, m \in Nat :
    /\ last \in Seq(S) /\ Len(last) = m /\ DOMAIN last = 1 .. m /\ last[m] = e
    /\ 0 < m /\ m <= n /\ k + m = Len(seq) + 1
    /\ \A i \in 1 .. m - 1 : k + i \in DOMAIN seq /\ last[i] = seq[k + i]
    /\ Len(seq) < n => k = 0

\* That is what LastOf makes of a sequence and one more.
LEMMA KeepsLast ==
  ASSUME NEW S, NEW seq \in Seq(S), NEW e \in S, NEW n \in Nat \ {0}
  PROVE  /\ KeptLast(S, seq, e, n, Streams!LastOf(Append(seq, e), n))
         /\ Streams!LastOf(Append(seq, e), n) \in Seq(S)
<1> DEFINE long == Append(seq, e)
<1>1. /\ long \in Seq(S) /\ Len(long) = Len(seq) + 1 /\ Len(seq) \in Nat /\ DOMAIN seq = 1 .. Len(seq)
      /\ long[Len(seq) + 1] = e /\ \A i \in 1 .. Len(seq) : long[i] = seq[i]
  BY AppendProperties, LenProperties
<1> HIDE DEF long
<1> DEFINE last == Streams!LastOf(long, n)
<1>2. PICK k \in Nat :
           /\ last \in Seq(S)
           /\ Len(last) = Len(long) - k /\ Len(long) - k <= n
           /\ (k = 0 \/ k = Len(long) - n)
           /\ \A i \in 1 .. Len(long) - k : last[i] = long[k + i]
           /\ Len(long) <= n => k = 0
  <2>1. LastPart(S, long, n, last)
    BY <1>1, LastOfIs
  <2> QED
    BY <2>1 DEF LastPart
<1>3. Len(last) \in Nat /\ DOMAIN last = 1 .. Len(last)
  BY <1>2, LenProperties
<1> HIDE DEF last
<1>4. PICK m \in Nat : m = Len(last)
  BY <1>3
<1>5. k + m = Len(seq) + 1 /\ 0 < m /\ m <= n /\ (Len(seq) < n => k = 0)
  BY <1>1, <1>2, <1>4
<1>6. last[m] = e
  BY <1>1, <1>2, <1>4, <1>5
<1>7. \A i \in 1 .. m - 1 : k + i \in DOMAIN seq /\ last[i] = seq[k + i]
  BY <1>1, <1>2, <1>4, <1>5
<1>8. /\ last \in Seq(S) /\ Len(last) = m /\ DOMAIN last = 1 .. m /\ last[m] = e
      /\ 0 < m /\ m <= n /\ k + m = Len(seq) + 1
      /\ \A i \in 1 .. m - 1 : k + i \in DOMAIN seq /\ last[i] = seq[k + i]
      /\ Len(seq) < n => k = 0
  BY <1>2, <1>3, <1>4, <1>5, <1>6, <1>7
<1> QED
  BY <1>8 DEF last, long, KeptLast

\* A teller that goes on, and a stream, as the actions write it.
LEMMA TurnsOn ==
  ASSUME StreamsType, NEW t \in Streams!Teller
  PROVE  /\ \A pc, e, left : teller' = [teller EXCEPT ![t] = [pc |-> pc, event |-> e, left |-> left]] =>
              Turns(t, pc, e, left)
         /\ \A left : teller' = [teller EXCEPT ![t].left = left] =>
              Turns(t, teller[t].pc, teller[t].event, left)
         /\ \A pc, left : teller' = [teller EXCEPT ![t].pc = pc, ![t].left = left] =>
              Turns(t, pc, teller[t].event, left)
         /\ teller' = [teller EXCEPT ![t] = Streams!Resting] => Turns(t, "idle", NoEvent, {})
<1>1. /\ DOMAIN teller = Streams!Teller /\ teller[t] \in InHand
  BY DEF StreamsType
<1>2. PICK p \in {"idle", "deliver", "tell"}, e \in Numbered \cup {NoEvent}, l \in SUBSET Stream :
        teller[t] = [pc |-> p, event |-> e, left |-> l]
  BY <1>1 DEF InHand
<1> QED
  BY <1>1, <1>2 DEF Turns, Streams!Resting

\* A stream that goes on, as the actions write it.
LEMMA AirsOn ==
  ASSUME StreamsType, NEW s \in Stream
  PROVE  /\ stream[s] \in OnAir
         /\ \A pc : Streams!StreamTo(s, pc) => Moves(s, pc)
         /\ \A pc, left : stream' = [stream EXCEPT ![s].pc = pc, ![s].left = left] =>
              Airs(s, pc, left, stream[s].queue, stream[s].sent, stream[s].fell)
         /\ \A left, sent : stream' = [stream EXCEPT ![s].left = left, ![s].sent = sent] =>
              Airs(s, stream[s].pc, left, stream[s].queue, sent, stream[s].fell)
         /\ \A queue, sent : stream' = [stream EXCEPT ![s].queue = queue, ![s].sent = sent] =>
              Airs(s, stream[s].pc, stream[s].left, queue, sent, stream[s].fell)
         /\ \A queue, fell : stream' = [stream EXCEPT ![s].queue = queue, ![s].fell = fell] =>
              Airs(s, stream[s].pc, stream[s].left, queue, stream[s].sent, fell)
         /\ \A pc : stream' = [stream EXCEPT ![s] = [Streams!NoStream EXCEPT !.pc = pc]] =>
              Airs(s, pc, <<>>, <<>>, {}, FALSE)
         /\ stream' = [stream EXCEPT ![s] = Streams!NoStream] => Airs(s, "idle", <<>>, <<>>, {}, FALSE)
<1>1. /\ DOMAIN stream = Stream /\ stream[s] \in OnAir
  BY DEF StreamsType
<1>2. PICK p, l, q, k, f : stream[s] = [pc |-> p, left |-> l, queue |-> q, sent |-> k, fell |-> f]
  BY <1>1 DEF OnAir
<1> QED
  BY <1>1, <1>2 DEF Airs, Moves, Streams!StreamTo, Streams!NoStream

\* A teller that goes on is still a teller, with an event in hand while it is busy.
LEMMA TurnsType ==
  ASSUME StreamsType, NEW t \in Streams!Teller, NEW pc \in {"idle", "deliver", "tell"},
         NEW e \in Numbered \cup {NoEvent}, NEW left \in SUBSET Stream, Turns(t, pc, e, left),
         pc # "idle" => e \in Numbered
  PROVE  /\ teller' \in [Streams!Teller -> InHand]
         /\ \A u \in Streams!Teller : Busy(u)' => teller'[u].event \in Numbered
<1>1. teller'[t] \in InHand /\ (Busy(t)' => teller'[t].event \in Numbered)
  BY DEF Turns, InHand, Busy
<1>2. \A u \in Streams!Teller \ {t} :
        teller'[u] \in InHand /\ (Busy(u)' => teller'[u].event \in Numbered)
  BY DEF Turns, StreamsType, Busy
<1>3. \A u \in Streams!Teller : teller'[u] \in InHand /\ (Busy(u)' => teller'[u].event \in Numbered)
  BY <1>1, <1>2
<1> QED
  BY <1>3 DEF Turns

\* What is put on the air.
Airable(pc, left, queue, sent, fell) ==
  /\ pc \in {"idle", "asked", "claimed", "listens", "sends", "ends", "release"}
  /\ left \in Seq(Numbered) /\ queue \in Seq(Numbered) /\ sent \in SUBSET Numbered /\ fell \in BOOLEAN

\* A stream that goes on is still a stream.
LEMMA AirsType ==
  ASSUME StreamsType, NEW s \in Stream, NEW pc, NEW left, NEW queue, NEW sent, NEW fell,
         Airs(s, pc, left, queue, sent, fell), Airable(pc, left, queue, sent, fell)
  PROVE  stream' \in [Stream -> OnAir]
<1>1. stream'[s] \in OnAir
  BY DEF Airs, OnAir, Airable
<1>2. \A q \in Stream \ {s} : stream'[q] \in OnAir
  BY DEF Airs, StreamsType
<1> QED
  BY <1>1, <1>2 DEF Airs

\* The parts of a stream, and of what a teller has in hand.
LEMMA PartsOf ==
  ASSUME StreamsType
  PROVE  /\ \A s \in Stream :
              /\ stream[s].pc \in {"idle", "asked", "claimed", "listens", "sends", "ends", "release"}
              /\ stream[s].left \in Seq(Numbered) /\ stream[s].queue \in Seq(Numbered)
              /\ stream[s].sent \in SUBSET Numbered /\ stream[s].fell \in BOOLEAN
         /\ \A t \in Streams!Teller :
              /\ teller[t].pc \in {"idle", "deliver", "tell"}
              /\ teller[t].event \in Numbered \cup {NoEvent} /\ teller[t].left \in SUBSET Stream
              /\ Busy(t) => teller[t].event \in Numbered
         /\ \A p \in Process : /\ nextId[p] \in Nat \ {0} /\ <<p, nextId[p]>> \in Numbered
                               /\ events[p] \in Seq(Numbered) /\ inbox[p] \in Seq(Numbered)
<1>1. \A s \in Stream : stream[s] \in OnAir
  BY DEF StreamsType
<1>2. \A t \in Streams!Teller : teller[t] \in InHand
  BY DEF StreamsType
<1> QED
  BY <1>1, <1>2 DEF StreamsType, OnAir, InHand, Numbered

\* The head and the tail of a sequence that has one.
LEMMA HeadTailOf ==
  ASSUME NEW S, NEW seq \in Seq(S), seq # <<>>
  PROVE  /\ Head(seq) \in S /\ Tail(seq) \in Seq(S)
         /\ Len(seq) \in Nat \ {0} /\ Head(seq) = seq[1]
         /\ Len(Tail(seq)) = Len(seq) - 1
         /\ \A i \in 1 .. Len(seq) - 1 : Tail(seq)[i] = seq[i + 1]
         /\ DOMAIN seq = 1 .. Len(seq) /\ DOMAIN Tail(seq) = 1 .. Len(seq) - 1
<1>1. Head(seq) \in S /\ Tail(seq) \in Seq(S) /\ Len(Tail(seq)) = Len(seq) - 1
  BY HeadTailProperties
<1>2. \A i \in 1 .. Len(Tail(seq)) : Tail(seq)[i] = seq[i + 1]
  BY HeadTailProperties
<1>3. Len(seq) \in Nat \ {0}
  BY EmptySeq
<1>4. DOMAIN seq = 1 .. Len(seq) /\ DOMAIN Tail(seq) = 1 .. Len(Tail(seq))
  BY <1>1, LenProperties
<1>5. Head(seq) = seq[1]
  OBVIOUS
<1> QED
  BY <1>1, <1>2, <1>3, <1>4, <1>5

\* What a stream sends: of what was kept, or what came since.
LEMMA SendsIs ==
  ASSUME StreamsType, NEW s \in Stream, Streams!Sends(s)
  PROVE  \/ /\ stream[s].left # <<>>
            /\ Airs(s, "sends", Tail(stream[s].left), stream[s].queue,
                    stream[s].sent \cup {Head(stream[s].left)}, stream[s].fell)
         \/ /\ stream[s].left = <<>> /\ stream[s].queue # <<>>
            /\ Airs(s, "sends", stream[s].left, Tail(stream[s].queue),
                    stream[s].sent \cup {Head(stream[s].queue)}, stream[s].fell)
<1> DEFINE l == stream[s].left
           q == stream[s].queue
           fromLeft  == stream[s].sent \cup {Head(l)}
           fromQueue == stream[s].sent \cup {Head(q)}
<1>1. \/ l # <<>> /\ stream' = [stream EXCEPT ![s].left = Tail(l), ![s].sent = fromLeft]
      \/ l = <<>> /\ q # <<>> /\ stream' = [stream EXCEPT ![s].queue = Tail(q), ![s].sent = fromQueue]
  BY DEF Streams!Sends
<1>2. stream[s].pc = "sends"
  BY DEF Streams!Sends, Streams!StreamAtPc
<1> HIDE DEF fromLeft, fromQueue
<1>3. \/ l # <<>> /\ Airs(s, stream[s].pc, Tail(l), stream[s].queue, fromLeft, stream[s].fell)
      \/ l = <<>> /\ q # <<>> /\ Airs(s, stream[s].pc, stream[s].left, Tail(q), fromQueue, stream[s].fell)
  BY <1>1, AirsOn
<1> QED
  BY <1>2, <1>3 DEF fromLeft, fromQueue

\* Every step keeps the types.
LEMMA StreamsTypeStep ==
  ASSUME StreamsType, listeners \in [Process -> SUBSET Stream], [Streams!StreamsNext]_(Streams!streamVars)
  PROVE  StreamsType' /\ listeners' \in [Process -> SUBSET Stream]
<1> USE StreamsConstants
<1>1. ASSUME NEW l \in Logger, Streams!Logs(l)
      PROVE  StreamsType' /\ listeners' \in [Process -> SUBSET Stream]
  <2> DEFINE e == <<LoggerAt[l], nextId[LoggerAt[l]]>>
  <2>1. e \in Numbered
    <3>1. LoggerAt[l] \in Process
      OBVIOUS
    <3> QED
      BY <3>1, PartsOf
  <2>2. Turns(l, "deliver", e, {})
    <3>1. l \in Streams!Teller /\ teller' = [teller EXCEPT ![l] = [pc |-> "deliver", event |-> e, left |-> {}]]
      BY <1>1 DEF Streams!Logs
    <3> QED
      BY <3>1, TurnsOn
  <2>3. /\ teller' \in [Streams!Teller -> InHand]
        /\ \A u \in Streams!Teller : Busy(u)' => teller'[u].event \in Numbered
    BY <2>1, <2>2, TurnsType
  <2>4. nextId' \in [Process -> Nat \ {0}]
    BY <1>1 DEF Streams!Logs, StreamsType
  <2> QED
    BY <1>1, <2>3, <2>4 DEF Streams!Logs, StreamsType
<1>2. ASSUME NEW l \in Logger, Streams!Publishes(l)
      PROVE  StreamsType' /\ listeners' \in [Process -> SUBSET Stream]
  <2>1. Turns(l, "idle", NoEvent, {})
    BY <1>2, TurnsOn DEF Streams!Publishes
  <2>2. /\ teller' \in [Streams!Teller -> InHand]
        /\ \A u \in Streams!Teller : Busy(u)' => teller'[u].event \in Numbered
    BY <2>1, TurnsType
  <2>3. teller[l].event \in Numbered
    BY <1>2, PartsOf DEF Streams!Publishes, Busy
  <2>4. inbox' \in [Process -> Seq(Numbered)]
    <3>1. \A p \in Process : Append(inbox[p], teller[l].event) \in Seq(Numbered)
      BY <2>3, PartsOf, AppendProperties
    <3>2. CASE UNCHANGED inbox
      BY <3>2 DEF StreamsType
    <3>3. CASE inbox' = [p \in Process |-> IF p \in subscribed THEN Append(inbox[p], teller[l].event)
                                                              ELSE inbox[p]]
      BY <3>1, <3>3, PartsOf
    <3> QED
      BY <1>2, <3>2, <3>3 DEF Streams!Publishes
  <2> QED
    BY <1>2, <2>2, <2>4 DEF Streams!Publishes, StreamsType
<1>3. ASSUME NEW t \in Streams!Teller, Streams!Keeps(t)
      PROVE  StreamsType' /\ listeners' \in [Process -> SUBSET Stream]
  <2> DEFINE p == Streams!At(t)
  <2>1. Turns(t, "tell", teller[t].event, listeners[p])
    BY <1>3, TurnsOn DEF Streams!Keeps
  <2>2. teller[t].event \in Numbered /\ listeners[p] \in SUBSET Stream
    BY <1>3, PartsOf DEF Streams!Keeps, Busy
  <2>3. /\ teller' \in [Streams!Teller -> InHand]
        /\ \A u \in Streams!Teller : Busy(u)' => teller'[u].event \in Numbered
    BY <2>1, <2>2, TurnsType
  <2>4. events' \in [Process -> Seq(Numbered)]
    <3>1. Streams!LastOf(Append(events[p], teller[t].event), Kept) \in Seq(Numbered)
      BY <2>2, PartsOf, KeepsLast
    <3> QED
      BY <1>3, <3>1 DEF Streams!Keeps, StreamsType
  <2> QED
    BY <1>3, <2>3, <2>4 DEF Streams!Keeps, StreamsType
<1>4. ASSUME NEW t \in Streams!Teller, Streams!Tells(t)
      PROVE  StreamsType' /\ listeners' \in [Process -> SUBSET Stream]
  <2>1. PICK s \in teller[t].left :
          /\ teller' = [teller EXCEPT ![t].left = @ \ {s}]
          /\ stream' = [stream EXCEPT ![s].queue = Streams!LastOf(Append(@, teller[t].event), QueueSize),
                                      ![s].fell = @ \/ Len(stream[s].queue) = QueueSize]
    BY <1>4 DEF Streams!Tells
  <2> DEFINE q == Streams!LastOf(Append(stream[s].queue, teller[t].event), QueueSize)
             f == stream[s].fell \/ Len(stream[s].queue) = QueueSize
             l == teller[t].left \ {s}
  <2>2. s \in Stream /\ teller[t].event \in Numbered /\ teller[t].pc = "tell"
    BY <1>4, PartsOf DEF Streams!Tells, Busy
  <2>3. q \in Seq(Numbered)
    BY <2>2, PartsOf, KeepsLast
  <2>4. f \in BOOLEAN /\ l \in SUBSET Stream
    BY <2>2, PartsOf
  <2>5. teller' = [teller EXCEPT ![t].left = l] /\ stream' = [stream EXCEPT ![s].queue = q, ![s].fell = f]
    BY <2>1
  <2> HIDE DEF q, f, l
  <2>6. Turns(t, "tell", teller[t].event, l)
    <3>1. Turns(t, teller[t].pc, teller[t].event, l)
      BY <2>5, TurnsOn
    <3> QED
      BY <2>2, <3>1
  <2>7. Airs(s, stream[s].pc, stream[s].left, q, stream[s].sent, f)
    BY <2>2, <2>5, AirsOn
  <2>8. /\ teller' \in [Streams!Teller -> InHand]
        /\ \A u \in Streams!Teller : Busy(u)' => teller'[u].event \in Numbered
    BY <2>2, <2>4, <2>6, TurnsType
  <2>9. stream' \in [Stream -> OnAir]
    <3>1. Airable(stream[s].pc, stream[s].left, q, stream[s].sent, f)
      BY <2>2, <2>3, <2>4, PartsOf DEF Airable
    <3> QED
      BY <2>2, <2>7, <3>1, AirsType
  <2> QED
    BY <1>4, <2>8, <2>9 DEF Streams!Tells, StreamsType
<1>5. ASSUME NEW p \in Process, Streams!Subscribes(p) \/ Streams!Crashes(p)
      PROVE  StreamsType' /\ listeners' \in [Process -> SUBSET Stream]
  <2>1. UNCHANGED <<nextId, events, listeners, teller, stream>>
    BY <1>5 DEF Streams!Subscribes, Streams!Crashes
  <2>2. inbox' \in [Process -> Seq(Numbered)]
    <3>1. <<>> \in Seq(Numbered)
      BY EmptySeq
    <3>2. inbox' = inbox \/ inbox' = [inbox EXCEPT ![p] = <<>>]
      BY <1>5 DEF Streams!Subscribes, Streams!Crashes
    <3>3. \A q \in Process : inbox'[q] \in Seq(Numbered)
      <4> DEFINE none == <<>>
      <4>1. none \in Seq(Numbered) /\ (inbox' = inbox \/ inbox' = [inbox EXCEPT ![p] = none])
        BY <3>1, <3>2
      <4> HIDE DEF none
      <4> QED
        BY <4>1 DEF StreamsType
    <3>4. inbox' = [q \in Process |-> inbox'[q]]
      BY <3>2 DEF StreamsType
    <3> QED
      BY <3>3, <3>4
  <2> QED
    BY <2>1, <2>2 DEF StreamsType, Busy
<1>6. ASSUME NEW p \in Process, Streams!Hears(p)
      PROVE  StreamsType' /\ listeners' \in [Process -> SUBSET Stream]
  <2> DEFINE e == Head(inbox[p])
  <2>1. e \in Numbered /\ Tail(inbox[p]) \in Seq(Numbered)
    BY <1>6, PartsOf, HeadTailOf DEF Streams!Hears
  <2>2. inbox' \in [Process -> Seq(Numbered)]
    BY <1>6, <2>1 DEF Streams!Hears, StreamsType
  <2> HIDE DEF e
  <2>3. CASE teller' = teller
    BY <1>6, <2>2, <2>3 DEF Streams!Hears, StreamsType, Busy
  <2>4. CASE teller' = [teller EXCEPT ![p] = [pc |-> "deliver", event |-> e, left |-> {}]]
    <3>1. Turns(p, "deliver", e, {})
      BY <2>4, TurnsOn
    <3>2. /\ teller' \in [Streams!Teller -> InHand]
          /\ \A u \in Streams!Teller : Busy(u)' => teller'[u].event \in Numbered
      BY <2>1, <3>1, TurnsType
    <3> QED
      BY <1>6, <2>2, <3>2 DEF Streams!Hears, StreamsType
  <2> QED
    BY <1>6, <2>3, <2>4 DEF Streams!Hears, e
<1>7. ASSUME NEW p \in Process, Streams!Ceases(p)
      PROVE  StreamsType' /\ listeners' \in [Process -> SUBSET Stream]
  <2>1. Turns(p, "idle", NoEvent, {})
    BY <1>7, TurnsOn DEF Streams!Ceases
  <2>2. /\ teller' \in [Streams!Teller -> InHand]
        /\ \A u \in Streams!Teller : Busy(u)' => teller'[u].event \in Numbered
    BY <2>1, TurnsType
  <2> QED
    BY <1>7, <2>2 DEF Streams!Ceases, StreamsType
<1>8. ASSUME NEW s \in Stream, NEW pc \in {"idle", "asked", "claimed", "listens"}, Streams!StreamTo(s, pc),
             UNCHANGED <<nextId, events, inbox, teller>>, listeners' \in [Process -> SUBSET Stream]
      PROVE  StreamsType' /\ listeners' \in [Process -> SUBSET Stream]
  <2>1. Moves(s, pc)
    BY <1>8, AirsOn
  <2>2. stream' \in [Stream -> OnAir]
    <3>1. Airable(pc, stream[s].left, stream[s].queue, stream[s].sent, stream[s].fell)
      BY <1>8, PartsOf DEF Airable
    <3> QED
      BY <2>1, <3>1, AirsType DEF Moves
  <2> QED
    BY <1>8, <2>2 DEF StreamsType, Busy
<1>9. ASSUME NEW s \in Stream, Streams!Asks(s) \/ Streams!Abandons(s) \/ Streams!Claims(s) \/ Streams!Listens(s)
      PROVE  StreamsType' /\ listeners' \in [Process -> SUBSET Stream]
  <2>1. CASE Streams!Asks(s)
    BY <1>8, <2>1 DEF Streams!Asks
  <2>2. CASE Streams!Abandons(s)
    BY <1>8, <2>2 DEF Streams!Abandons
  <2>3. CASE Streams!Claims(s)
    BY <1>8, <2>3 DEF Streams!Claims
  <2>4. CASE Streams!Listens(s)
    <3>1. listeners' \in [Process -> SUBSET Stream]
      BY <2>4 DEF Streams!Listens
    <3> QED
      BY <1>8, <2>4, <3>1 DEF Streams!Listens
  <2> QED
    BY <1>9, <2>1, <2>2, <2>3, <2>4
<1>10. ASSUME NEW s \in Stream, Streams!LooksBack(s)
       PROVE  StreamsType' /\ listeners' \in [Process -> SUBSET Stream]
  <2> DEFINE last == Streams!LastOf(events[StreamAt[s]], Recent)
  <2>1. last \in Seq(Numbered)
    BY PartsOf, LastOfIs
  <2>2. stream' = [stream EXCEPT ![s].pc = "sends", ![s].left = last]
    BY <1>10 DEF Streams!LooksBack
  <2> HIDE DEF last
  <2>3. Airs(s, "sends", last, stream[s].queue, stream[s].sent, stream[s].fell)
    BY <2>2, AirsOn
  <2>4. stream' \in [Stream -> OnAir]
    <3>1. Airable("sends", last, stream[s].queue, stream[s].sent, stream[s].fell)
      BY <2>1, PartsOf DEF Airable
    <3> QED
      BY <2>3, <3>1, AirsType
  <2> QED
    BY <1>10, <2>4 DEF Streams!LooksBack, StreamsType, Busy
<1>11. ASSUME NEW s \in Stream, Streams!Sends(s)
       PROVE  StreamsType' /\ listeners' \in [Process -> SUBSET Stream]
  <2> DEFINE l == stream[s].left
             q == stream[s].queue
             fromLeft  == stream[s].sent \cup {Head(l)}
             fromQueue == stream[s].sent \cup {Head(q)}
  <2>1. l \in Seq(Numbered) /\ q \in Seq(Numbered)
    BY PartsOf
  <2>2. /\ l # <<>> => Tail(l) \in Seq(Numbered) /\ fromLeft \in SUBSET Numbered
        /\ q # <<>> => Tail(q) \in Seq(Numbered) /\ fromQueue \in SUBSET Numbered
    <3> HIDE DEF l, q
    <3>1. /\ l # <<>> => Tail(l) \in Seq(Numbered) /\ Head(l) \in Numbered
          /\ q # <<>> => Tail(q) \in Seq(Numbered) /\ Head(q) \in Numbered
      BY <2>1, HeadTailOf
    <3> QED
      BY <3>1, PartsOf
  <2>4. \/ l # <<>> /\ Airs(s, "sends", Tail(l), stream[s].queue, fromLeft, stream[s].fell)
        \/ q # <<>> /\ Airs(s, "sends", stream[s].left, Tail(q), fromQueue, stream[s].fell)
    BY <1>11, SendsIs
  <2> HIDE DEF fromLeft, fromQueue
  <2>5. stream' \in [Stream -> OnAir]
    <3>1. l # <<>> => Airable("sends", Tail(l), stream[s].queue, fromLeft, stream[s].fell)
      BY <2>2, PartsOf DEF Airable
    <3>2. q # <<>> => Airable("sends", stream[s].left, Tail(q), fromQueue, stream[s].fell)
      BY <2>2, PartsOf DEF Airable
    <3> HIDE DEF l, q
    <3> QED
      BY <2>4, <3>1, <3>2, AirsType
  <2> QED
    BY <1>11, <2>5 DEF Streams!Sends, StreamsType, Busy
<1>12. ASSUME NEW s \in Stream, Streams!Aborts(s) \/ Streams!Unlistens(s) \/ Streams!Releases(s)
       PROVE  StreamsType' /\ listeners' \in [Process -> SUBSET Stream]
  <2>1. \E pc \in {"idle", "ends", "release"} : Airs(s, pc, <<>>, <<>>, {}, FALSE)
    BY <1>12, AirsOn DEF Streams!Aborts, Streams!Unlistens, Streams!Releases
  <2>2. stream' \in [Stream -> OnAir]
    <3>1. \A pc \in {"idle", "ends", "release"} : Airable(pc, <<>>, <<>>, {}, FALSE)
      BY EmptySeq DEF Airable
    <3> QED
      BY <2>1, <3>1, AirsType
  <2>3. listeners' \in [Process -> SUBSET Stream]
    BY <1>12 DEF Streams!Aborts, Streams!Unlistens, Streams!Releases
  <2>4. CASE UNCHANGED teller
    BY <1>12, <2>2, <2>3, <2>4 DEF Streams!Aborts, Streams!Unlistens, Streams!Releases, StreamsType, Busy
  <2>5. CASE teller' = [t \in Streams!Teller |-> [teller[t] EXCEPT !.left = @ \ {s}]]
    <3>1. ASSUME NEW t \in Streams!Teller
          PROVE  teller'[t] \in InHand /\ teller'[t].pc = teller[t].pc /\ teller'[t].event = teller[t].event
      <4>1. teller[t] \in InHand
        BY DEF StreamsType
      <4> QED
        BY <2>5, <4>1 DEF InHand
    <3>2. teller' \in [Streams!Teller -> InHand]
      BY <2>5, <3>1
    <3>3. \A t \in Streams!Teller : Busy(t)' => teller'[t].event \in Numbered
      BY <3>1 DEF StreamsType, Busy
    <3> QED
      BY <1>12, <2>2, <2>3, <3>2, <3>3 DEF Streams!Aborts, Streams!Unlistens, Streams!Releases, StreamsType
  <2> QED
    BY <1>12, <2>4, <2>5 DEF Streams!Aborts, Streams!Unlistens, Streams!Releases
<1>13. CASE UNCHANGED Streams!streamVars
  BY <1>13 DEF Streams!streamVars, StreamsType, Busy
<1> QED
  BY <1>1, <1>2, <1>3, <1>4, <1>5, <1>6, <1>7, <1>9, <1>10, <1>11, <1>12, <1>13 DEF Streams!StreamsNext

(***************************************************************************)
(* The count of streams: those that run are finitely many, and the count   *)
(* is theirs.                                                              *)
(***************************************************************************)
Running(p)   == {s \in Stream : StreamAt[s] = p /\ stream[s].pc \notin {"idle", "asked"}}
Listening(s) == stream[s].pc \in {"listens", "sends", "ends"}

Accounted(p) ==
  /\ IsFiniteSet(Running(p))
  /\ slots[p] = Cardinality(Running(p)) /\ slots[p] <= MaxStreams
  /\ listeners[p] = {s \in Running(p) : Listening(s)}

SlotInv ==
  /\ StreamsType /\ listeners \in [Process -> SUBSET Stream] /\ slots \in [Process -> Nat]
  /\ \A p \in Process : Accounted(p)

\* The parts count as this module does.
LEMMA StreamsCount == \A S : Streams!Cardinality(S) = Cardinality(S)
  BY Zenon DEF Streams!Cardinality, Cardinality

\* A step that neither starts nor ends a stream leaves the count alone.
LEMMA SlotsStay ==
  ASSUME SlotInv, UNCHANGED <<slots, listeners>>,
         \A s \in Stream : /\ stream'[s].pc \in {"idle", "asked"} <=> stream[s].pc \in {"idle", "asked"}
                           /\ Listening(s)' <=> Listening(s)
  PROVE  slots' \in [Process -> Nat] /\ \A p \in Process : Accounted(p)'
<1>a. slots' \in [Process -> Nat]
  BY DEF SlotInv
<1> SUFFICES ASSUME NEW p \in Process
             PROVE  Accounted(p)'
  BY <1>a
<1>1. Running(p)' = Running(p)
  BY DEF Running
<1>2. {s \in Running(p) : Listening(s)}' = {s \in Running(p) : Listening(s)}
  BY <1>1 DEF Running
<1> QED
  BY <1>1, <1>2 DEF SlotInv, Accounted

\* Every step keeps the count: a slot is taken, and given back, in the step in which
\* the stream starts, or is done.
LEMMA SlotStep == SlotInv /\ [Streams!StreamsNext]_(Streams!streamVars) => SlotInv'
<1> SUFFICES ASSUME SlotInv, [Streams!StreamsNext]_(Streams!streamVars)
             PROVE  SlotInv'
  OBVIOUS
<1> USE StreamsConstants
<1>t. StreamsType /\ StreamsType' /\ listeners' \in [Process -> SUBSET Stream]
  BY StreamsTypeStep DEF SlotInv
<1> SUFFICES slots' \in [Process -> Nat] /\ \A p \in Process : Accounted(p)'
  BY <1>t DEF SlotInv
<1>1. CASE UNCHANGED <<stream, slots, listeners>>
  BY <1>1, SlotsStay DEF Listening
<1>2. ASSUME NEW s \in Stream, NEW pc, NEW left, NEW queue, NEW sent, NEW fell,
             Airs(s, pc, left, queue, sent, fell), UNCHANGED <<slots, listeners>>,
             pc \in {"idle", "asked"} <=> stream[s].pc \in {"idle", "asked"},
             pc \in {"listens", "sends", "ends"} <=> Listening(s)
      PROVE  slots' \in [Process -> Nat] /\ \A p \in Process : Accounted(p)'
  <2>1. \A q \in Stream : /\ stream'[q].pc \in {"idle", "asked"} <=> stream[q].pc \in {"idle", "asked"}
                          /\ Listening(q)' <=> Listening(q)
    BY <1>2 DEF Airs, Listening
  <2> QED
    BY <1>2, <2>1, SlotsStay
<1>3. ASSUME NEW t \in Streams!Teller, Streams!Tells(t)
      PROVE  slots' \in [Process -> Nat] /\ \A p \in Process : Accounted(p)'
  <2>1. PICK s \in teller[t].left :
          stream' = [stream EXCEPT ![s].queue = Streams!LastOf(Append(@, teller[t].event), QueueSize),
                                   ![s].fell = @ \/ Len(stream[s].queue) = QueueSize]
    BY <1>3 DEF Streams!Tells
  <2>2. s \in Stream /\ UNCHANGED <<slots, listeners>>
    BY <1>3, <1>t, PartsOf DEF Streams!Tells
  <2> DEFINE q == Streams!LastOf(Append(stream[s].queue, teller[t].event), QueueSize)
             f == stream[s].fell \/ Len(stream[s].queue) = QueueSize
  <2>3. PICK fell \in BOOLEAN : fell = f
    OBVIOUS
  <2>4. stream' = [stream EXCEPT ![s].queue = q, ![s].fell = fell]
    BY <2>1, <2>3
  <2> HIDE DEF q, f
  <2>5. Airs(s, stream[s].pc, stream[s].left, q, stream[s].sent, fell)
    BY <1>t, <2>2, <2>4, AirsOn
  <2> QED
    BY <1>2, <2>2, <2>5 DEF Listening
<1>4. ASSUME NEW s \in Stream, Streams!Asks(s) \/ Streams!Abandons(s)
      PROVE  slots' \in [Process -> Nat] /\ \A p \in Process : Accounted(p)'
  <2>1. \E pc \in {"idle", "asked"} : Moves(s, pc)
    BY <1>4, <1>t, AirsOn DEF Streams!Asks, Streams!Abandons
  <2>2. stream[s].pc \in {"idle", "asked"} /\ UNCHANGED <<slots, listeners>>
    BY <1>4 DEF Streams!Asks, Streams!Abandons, Streams!StreamAtPc
  <2>3. \A q \in Stream : /\ stream'[q].pc \in {"idle", "asked"} <=> stream[q].pc \in {"idle", "asked"}
                          /\ Listening(q)' <=> Listening(q)
    BY <2>1, <2>2 DEF Moves, Airs, Listening
  <2> QED
    BY <2>2, <2>3, SlotsStay
<1>5. ASSUME NEW s \in Stream, Streams!Claims(s)
      PROVE  slots' \in [Process -> Nat] /\ \A p \in Process : Accounted(p)'
  <2>1. stream[s].pc = "asked" /\ listeners' = listeners /\ StreamAt[s] \in Process
    BY <1>5 DEF Streams!Claims, Streams!StreamAtPc
  <2>2. CASE slots' = slots /\ Streams!StreamTo(s, "idle")
    <3>1. Moves(s, "idle")
      BY <1>t, <2>2, AirsOn
    <3>2. \A q \in Stream : /\ stream'[q].pc \in {"idle", "asked"} <=> stream[q].pc \in {"idle", "asked"}
                            /\ Listening(q)' <=> Listening(q)
      BY <2>1, <3>1 DEF Moves, Airs, Listening
    <3> QED
      BY <2>1, <2>2, <3>2, SlotsStay
  <2>3. CASE /\ slots[StreamAt[s]] < MaxStreams /\ slots' = [slots EXCEPT ![StreamAt[s]] = @ + 1]
             /\ Streams!StreamTo(s, "claimed")
    <3>1. /\ stream'[s].pc = "claimed" /\ \A q \in Stream \ {s} : stream'[q] = stream[q]
      <4>1. Moves(s, "claimed")
        BY <1>t, <2>3, AirsOn
      <4> QED
        BY <4>1 DEF Moves, Airs
    <3>2. slots' \in [Process -> Nat]
      BY <2>3 DEF SlotInv
    <3>3. ASSUME NEW p \in Process
          PROVE  Accounted(p)'
      <4>1. CASE p # StreamAt[s]
        <5>1. Running(p)' = Running(p) /\ \A q \in Running(p) : Listening(q)' <=> Listening(q)
          BY <3>1, <4>1 DEF Running, Listening
        <5>2. slots'[p] = slots[p] /\ {q \in Running(p) : Listening(q)}' = {q \in Running(p) : Listening(q)}
          BY <2>3, <4>1, <5>1 DEF SlotInv
        <5> QED
          BY <2>1, <5>1, <5>2 DEF SlotInv, Accounted
      <4>2. CASE p = StreamAt[s]
        <5>1. Running(p)' = Running(p) \cup {s} /\ s \notin Running(p)
          BY <2>1, <3>1, <4>2 DEF Running
        <5>2. {q \in Running(p) : Listening(q)}' = {q \in Running(p) : Listening(q)}
          BY <2>1, <3>1, <5>1 DEF Listening, Running
        <5>3. IsFiniteSet(Running(p)) /\ slots[p] = Cardinality(Running(p))
          BY DEF SlotInv, Accounted
        <5>4. /\ IsFiniteSet(Running(p) \cup {s})
              /\ Cardinality(Running(p) \cup {s}) = Cardinality(Running(p)) + 1
          BY <5>1, <5>3, FS_AddElement
        <5>5. slots'[p] = slots[p] + 1 /\ slots[p] + 1 <= MaxStreams
          BY <2>3, <4>2 DEF SlotInv
        <5> QED
          BY <2>1, <5>1, <5>2, <5>3, <5>4, <5>5 DEF SlotInv, Accounted
      <4> QED
        BY <4>1, <4>2
    <3> QED
      BY <3>2, <3>3
  <2> QED
    BY <1>5, <2>2, <2>3 DEF Streams!Claims
<1>6. ASSUME NEW s \in Stream, Streams!Listens(s) \/ Streams!Unlistens(s)
      PROVE  slots' \in [Process -> Nat] /\ \A p \in Process : Accounted(p)'
  <2> DEFINE starts == Streams!Listens(s)
  <2>1. PICK pc \in {"listens", "release"} :
          /\ stream'[s].pc = pc /\ \A q \in Stream \ {s} : stream'[q] = stream[q]
          /\ listeners' = [listeners EXCEPT ![StreamAt[s]] = IF pc = "listens" THEN @ \cup {s} ELSE @ \ {s}]
    <3>1. CASE Streams!Listens(s)
      <4>1. Moves(s, "listens") /\ listeners' = [listeners EXCEPT ![StreamAt[s]] = @ \cup {s}]
        BY <1>t, <3>1, AirsOn DEF Streams!Listens
      <4> QED
        BY <4>1 DEF Moves, Airs
    <3>2. CASE Streams!Unlistens(s)
      <4>1. /\ Airs(s, "release", <<>>, <<>>, {}, FALSE)
            /\ listeners' = [listeners EXCEPT ![StreamAt[s]] = @ \ {s}]
        BY <1>t, <3>2, AirsOn DEF Streams!Unlistens
      <4> QED
        BY <4>1 DEF Airs
    <3> QED
      BY <1>6, <3>1, <3>2
  <2>2. stream[s].pc \in {"claimed", "ends"} /\ UNCHANGED slots /\ StreamAt[s] \in Process
    BY <1>6 DEF Streams!Listens, Streams!Unlistens, Streams!StreamAtPc
  <2>3. ASSUME NEW p \in Process
        PROVE  Accounted(p)'
    <3>1. Running(p)' = Running(p)
      BY <2>1, <2>2 DEF Running
    <3>2. listeners[p] = {q \in Running(p) : Listening(q)} /\ listeners \in [Process -> SUBSET Stream]
      BY DEF SlotInv, Accounted
    <3>3. listeners'[p] = {q \in Running(p) : Listening(q)}'
      <4>1. CASE p # StreamAt[s]
        BY <2>1, <3>1, <3>2, <4>1 DEF Running, Listening
      <4>2. CASE p = StreamAt[s]
        <5>1. listeners'[p] = IF pc = "listens" THEN listeners[p] \cup {s} ELSE listeners[p] \ {s}
          BY <2>1, <3>2, <4>2
        <5>2. s \in Running(p)
          BY <2>2, <4>2 DEF Running
        <5>3. Listening(s)' <=> pc = "listens"
          BY <2>1 DEF Listening
        <5>4. \A q \in Running(p) \ {s} : Listening(q)' <=> Listening(q)
          BY <2>1 DEF Listening, Running
        <5> QED
          BY <3>1, <3>2, <5>1, <5>2, <5>3, <5>4
      <4> QED
        BY <4>1, <4>2
    <3> QED
      BY <2>2, <3>1, <3>3 DEF SlotInv, Accounted
  <2> QED
    BY <2>2, <2>3 DEF SlotInv
<1>7. ASSUME NEW s \in Stream, Streams!LooksBack(s) \/ Streams!Sends(s) \/ Streams!Aborts(s)
      PROVE  slots' \in [Process -> Nat] /\ \A p \in Process : Accounted(p)'
  <2>1. stream[s].pc \in {"listens", "sends"} /\ UNCHANGED <<slots, listeners>>
    BY <1>7 DEF Streams!LooksBack, Streams!Sends, Streams!Aborts, Streams!StreamAtPc
  <2>2. \E pc \in {"sends", "ends"} : \E left, queue, sent, fell : Airs(s, pc, left, queue, sent, fell)
    <3>1. CASE Streams!LooksBack(s)
      BY <1>t, <3>1, AirsOn DEF Streams!LooksBack
    <3>2. CASE Streams!Aborts(s)
      BY <1>t, <3>2, AirsOn DEF Streams!Aborts
    <3>3. CASE Streams!Sends(s)
      BY <1>t, <3>3, SendsIs
    <3> QED
      BY <1>7, <3>1, <3>2, <3>3
  <2>3. \A q \in Stream : /\ stream'[q].pc \in {"idle", "asked"} <=> stream[q].pc \in {"idle", "asked"}
                          /\ Listening(q)' <=> Listening(q)
    BY <2>1, <2>2 DEF Airs, Listening
  <2> QED
    BY <2>1, <2>3, SlotsStay
<1>8. ASSUME NEW s \in Stream, Streams!Releases(s)
      PROVE  slots' \in [Process -> Nat] /\ \A p \in Process : Accounted(p)'
  <2>1. /\ stream[s].pc = "release" /\ listeners' = listeners /\ StreamAt[s] \in Process
        /\ slots' = [slots EXCEPT ![StreamAt[s]] = @ - 1]
    BY <1>8 DEF Streams!Releases, Streams!StreamAtPc
  <2>2. stream'[s].pc = "idle" /\ \A q \in Stream \ {s} : stream'[q] = stream[q]
    <3>1. Airs(s, "idle", <<>>, <<>>, {}, FALSE)
      BY <1>8, <1>t, AirsOn DEF Streams!Releases
    <3> QED
      BY <3>1 DEF Airs
  <2>3. ASSUME NEW p \in Process
        PROVE  Accounted(p)' /\ slots'[p] \in Nat
    <3>1. CASE p # StreamAt[s]
      <4>1. Running(p)' = Running(p) /\ \A q \in Running(p) : Listening(q)' <=> Listening(q)
        BY <2>2, <3>1 DEF Running, Listening
      <4>2. slots'[p] = slots[p] /\ {q \in Running(p) : Listening(q)}' = {q \in Running(p) : Listening(q)}
        BY <2>1, <3>1, <4>1 DEF SlotInv
      <4> QED
        BY <2>1, <4>1, <4>2 DEF SlotInv, Accounted
    <3>2. CASE p = StreamAt[s]
      <4>1. Running(p)' = Running(p) \ {s} /\ s \in Running(p) /\ ~Listening(s)
        BY <2>1, <2>2, <3>2 DEF Running, Listening
      <4>2. {q \in Running(p) : Listening(q)}' = {q \in Running(p) : Listening(q)}
        BY <2>1, <2>2, <4>1 DEF Listening, Running
      <4>3. IsFiniteSet(Running(p)) /\ slots[p] = Cardinality(Running(p)) /\ slots[p] \in Nat
        BY DEF SlotInv, Accounted
      <4>4. /\ IsFiniteSet(Running(p) \ {s})
            /\ Cardinality(Running(p) \ {s}) = Cardinality(Running(p)) - 1
        BY <4>1, <4>3, FS_RemoveElement
      <4>5. Cardinality(Running(p) \ {s}) \in Nat
        BY <4>4, FS_CardinalityType
      <4>6. slots'[p] = slots[p] - 1 /\ slots[p] - 1 <= MaxStreams
        BY <2>1, <3>2, <4>3 DEF SlotInv, Accounted
      <4> QED
        BY <2>1, <4>1, <4>2, <4>3, <4>4, <4>5, <4>6 DEF SlotInv, Accounted
    <3> QED
      BY <3>1, <3>2
  <2> QED
    BY <2>1, <2>3 DEF SlotInv
<1>9. CASE UNCHANGED Streams!streamVars
  BY <1>1, <1>9 DEF Streams!streamVars
<1>10. ASSUME NEW t \in Streams!Teller,
              \/ Streams!Keeps(t) \/ Streams!Logs(t) \/ Streams!Publishes(t) \/ Streams!Subscribes(t)
              \/ Streams!Crashes(t) \/ Streams!Hears(t) \/ Streams!Ceases(t)
       PROVE  UNCHANGED <<stream, slots, listeners>>
  BY <1>10 DEF Streams!Keeps, Streams!Logs, Streams!Publishes, Streams!Subscribes, Streams!Crashes,
               Streams!Hears, Streams!Ceases
<1> QED
  BY <1>1, <1>3, <1>4, <1>5, <1>6, <1>7, <1>8, <1>9, <1>10 DEF Streams!StreamsNext

(***************************************************************************)
(* No event is kept twice: wherever an event is, it is there once, and who *)
(* has it in hand to keep it is the only one who will.                     *)
(***************************************************************************)
Elements(seq) == {seq[i] : i \in DOMAIN seq}
Once(seq)     == \A i, j \in DOMAIN seq : seq[i] = seq[j] => i = j
Past(e)       == e[2] < nextId[e[1]]

\* Events have had their numbers.
AllPast ==
  /\ \A p \in Process : \A e \in Elements(events[p]) \cup Elements(inbox[p]) : Past(e)
  /\ \A t \in Streams!Teller : Busy(t) => Past(teller[t].event)

\* An event that a logger has in hand is its own, and nobody else has heard of it.
Original(l) ==
  LET e == teller[l].event
  IN Busy(l) =>
       /\ e[1] = LoggerAt[l]
       /\ teller[l].pc = "deliver" => e \notin Elements(events[LoggerAt[l]])
       /\ \A t \in Streams!Teller \ {l} : Busy(t) => teller[t].event # e
       /\ \A p \in Process : /\ e \notin Elements(inbox[p])
                             /\ p # LoggerAt[l] => e \notin Elements(events[p])

\* What a process hears comes once, and is kept once.
HeardOnce(p) ==
  /\ Once(events[p]) /\ Once(inbox[p])
  /\ \A e \in Elements(inbox[p]) : e[1] # p => e \notin Elements(events[p])
  /\ Busy(p) => /\ teller[p].event[1] # p
                /\ teller[p].event \notin Elements(inbox[p])
                /\ teller[p].pc = "deliver" => teller[p].event \notin Elements(events[p])

OnceInv == AllPast /\ (\A l \in Logger : Original(l)) /\ (\A p \in Process : HeardOnce(p))


\* The elements of sequences.
\* There is nothing in an empty sequence.
LEMMA NoElements == Elements(<<>>) = {} /\ Once(<<>>)
  BY DEF Elements, Once

\* One more element, that was not there before.
LEMMA AppendElements ==
  ASSUME NEW S, NEW seq \in Seq(S), NEW e \in S
  PROVE  /\ Elements(Append(seq, e)) = Elements(seq) \cup {e}
         /\ Once(seq) /\ e \notin Elements(seq) => Once(Append(seq, e))
<1> DEFINE long == Append(seq, e)
           n == Len(seq)
<1>1. /\ DOMAIN seq = 1 .. n /\ DOMAIN long = 1 .. n + 1 /\ n \in Nat
      /\ long[n + 1] = e /\ \A i \in 1 .. n : long[i] = seq[i]
  BY AppendProperties, LenProperties
<1> HIDE DEF long, n
<1>2. \A i \in 1 .. n + 1 : i = n + 1 \/ i \in 1 .. n
  BY <1>1
<1>3. n + 1 \in 1 .. n + 1 /\ 1 .. n \subseteq 1 .. n + 1
  BY <1>1
<1>4. Elements(long) = Elements(seq) \cup {e}
  BY <1>1, <1>2, <1>3 DEF Elements
<1>5. ASSUME Once(seq), e \notin Elements(seq)
      PROVE  Once(long)
  BY <1>1, <1>2, <1>3, <1>5 DEF Once, Elements
<1> QED
  BY <1>4, <1>5 DEF long

\* One element less.
LEMMA TailElements ==
  ASSUME NEW S, NEW seq \in Seq(S), seq # <<>>
  PROVE  /\ Elements(seq) = Elements(Tail(seq)) \cup {Head(seq)}
         /\ Once(seq) => Once(Tail(seq)) /\ Head(seq) \notin Elements(Tail(seq))
<1> DEFINE rest == Tail(seq)
<1>1. PICK n \in Nat \ {0} :
        /\ DOMAIN seq = 1 .. n /\ DOMAIN rest = 1 .. n - 1 /\ Head(seq) = seq[1]
        /\ \A i \in 1 .. n - 1 : rest[i] = seq[i + 1]
  <2>1. Len(seq) \in Nat \ {0} /\ DOMAIN seq = 1 .. Len(seq) /\ DOMAIN rest = 1 .. Len(seq) - 1 /\ Head(seq) = seq[1]
    BY HeadTailOf
  <2>2. \A i \in 1 .. Len(seq) - 1 : rest[i] = seq[i + 1]
    BY HeadTailOf
  <2> QED
    BY <2>1, <2>2
<1> HIDE DEF rest
<1>2. /\ \A i \in 1 .. n : i = 1 \/ (i - 1 \in 1 .. n - 1 /\ (i - 1) + 1 = i)
      /\ \A i \in 1 .. n - 1 : i + 1 \in 1 .. n /\ i + 1 # 1
      /\ 1 \in 1 .. n
  OBVIOUS
<1>a. \A i \in 1 .. n : i = 1 \/ (i - 1 \in 1 .. n - 1 /\ rest[i - 1] = seq[i])
  BY <1>1, <1>2
<1>3. Elements(seq) = Elements(rest) \cup {seq[1]}
  <2>1. Elements(seq) \subseteq Elements(rest) \cup {seq[1]}
    BY <1>1, <1>a DEF Elements
  <2>2. Elements(rest) \cup {seq[1]} \subseteq Elements(seq)
    BY <1>1, <1>2 DEF Elements
  <2> QED
    BY <2>1, <2>2
<1>4. ASSUME Once(seq)
      PROVE  Once(rest) /\ seq[1] \notin Elements(rest)
  <2>1. ASSUME NEW i \in 1 .. n - 1, NEW j \in 1 .. n - 1, rest[i] = rest[j]
        PROVE  i = j
    <3>1. i + 1 \in DOMAIN seq /\ j + 1 \in DOMAIN seq /\ seq[i + 1] = seq[j + 1]
      BY <1>1, <1>2, <2>1
    <3>2. i + 1 = j + 1
      BY <1>4, <3>1 DEF Once
    <3> QED
      BY <3>2
  <2>2. ASSUME NEW i \in 1 .. n - 1
        PROVE  rest[i] # seq[1]
    <3>1. i + 1 \in DOMAIN seq /\ 1 \in DOMAIN seq /\ i + 1 # 1 /\ rest[i] = seq[i + 1]
      BY <1>1, <1>2
    <3> QED
      BY <1>4, <3>1 DEF Once
  <2> QED
    BY <1>1, <2>1, <2>2 DEF Once, Elements
<1> QED
  BY <1>1, <1>3, <1>4 DEF rest

\* The last elements, one more included: none is new but that one, and none goes
\* where there is room.
LEMMA KeptElements ==
  ASSUME NEW S, NEW seq \in Seq(S), NEW e \in S, NEW n \in Nat \ {0}
  PROVE  LET last == Streams!LastOf(Append(seq, e), n)
         IN /\ Elements(last) \subseteq Elements(seq) \cup {e}
            /\ Once(seq) /\ e \notin Elements(seq) => Once(last)
            /\ Len(seq) < n => Elements(last) = Elements(seq) \cup {e}
<1> DEFINE last == Streams!LastOf(Append(seq, e), n)
<1>1. KeptLast(S, seq, e, n, last)
  BY KeepsLast
<1> HIDE DEF last
<1>0. PICK k, m \in Nat :
        /\ last \in Seq(S) /\ Len(last) = m /\ DOMAIN last = 1 .. m /\ last[m] = e
        /\ 0 < m /\ m <= n /\ k + m = Len(seq) + 1
        /\ \A i \in 1 .. m - 1 : k + i \in DOMAIN seq /\ last[i] = seq[k + i]
        /\ Len(seq) < n => k = 0
  BY <1>1 DEF KeptLast
<1>2. PICK l \in Nat : DOMAIN seq = 1 .. l /\ Len(seq) = l
  BY LenProperties
<1>5. \A i \in 1 .. m : i = m \/ i \in 1 .. m - 1
  OBVIOUS
<1>6. Elements(last) \subseteq Elements(seq) \cup {e}
  BY <1>0, <1>5 DEF Elements
<1>7. ASSUME Once(seq), e \notin Elements(seq)
      PROVE  Once(last)
  <2> SUFFICES ASSUME NEW i \in 1 .. m, NEW j \in 1 .. m, last[i] = last[j]
               PROVE  i = j
    BY <1>0 DEF Once
  <2>1. \A h \in 1 .. m - 1 : last[h] # e
    BY <1>0, <1>7 DEF Elements
  <2>2. CASE i \in 1 .. m - 1 /\ j \in 1 .. m - 1
    <3>1. k + i = k + j
      BY <1>0, <1>7, <2>2 DEF Once
    <3> QED
      BY <2>2, <3>1
  <2> QED
    BY <1>0, <1>5, <2>1, <2>2
<1>8. ASSUME Len(seq) < n
      PROVE  Elements(seq) \cup {e} \subseteq Elements(last)
  <2>1. k = 0 /\ m = l + 1
    BY <1>0, <1>2, <1>8
  <2>2. \A i \in 1 .. l : i \in 1 .. m /\ i \in 1 .. m - 1 /\ k + i = i
    BY <2>1
  <2>3. \A i \in 1 .. l : last[i] = seq[i]
    BY <1>0, <2>2
  <2>4. m \in DOMAIN last
    BY <1>0
  <2> QED
    BY <1>0, <1>2, <2>2, <2>3, <2>4 DEF Elements
<1> QED
  BY <1>6, <1>7, <1>8 DEF last

\* The elements of a sequence over a set are of that set.
LEMMA ElementsIn ==
  ASSUME NEW S, NEW seq \in Seq(S)
  PROVE  Elements(seq) \subseteq S
<1>1. seq \in [1 .. Len(seq) -> S]
  BY LenProperties
<1> QED
  BY <1>1 DEF Elements

\* The events that are around.
LEMMA EventsAround ==
  ASSUME StreamsType
  PROVE  \A p \in Process : Elements(events[p]) \subseteq Numbered /\ Elements(inbox[p]) \subseteq Numbered
  BY PartsOf, ElementsIn

\* A step that only moves streams, or takes one off the lists of who is to be told.
LEMMA OnceStays ==
  ASSUME StreamsType, OnceInv, UNCHANGED <<nextId, events, inbox>>,
         \A t \in Streams!Teller : teller'[t].pc = teller[t].pc /\ teller'[t].event = teller[t].event
  PROVE  OnceInv'
<1> USE StreamsConstants
<1>1. AllPast'
  BY DEF OnceInv, AllPast, Past, Busy
<1>2. ASSUME NEW l \in Logger
      PROVE  Original(l)'
  BY DEF OnceInv, Original, Busy
<1>3. ASSUME NEW p \in Process
      PROVE  HeardOnce(p)'
  BY DEF OnceInv, HeardOnce, Busy
<1> QED
  BY <1>1, <1>2, <1>3 DEF OnceInv

\* An event that is logged is new everywhere.
LEMMA OnceLogs ==
  ASSUME StreamsType, OnceInv, NEW l \in Logger, Streams!Logs(l)
  PROVE  OnceInv'
<1> USE StreamsConstants
<1> DEFINE p == LoggerAt[l]
           later(e) == e[2] < nextId'[e[1]]
<1>0. PICK new : new = <<p, nextId[p]>>
  OBVIOUS
<1>1. /\ teller' = [teller EXCEPT ![l] = [pc |-> "deliver", event |-> new, left |-> {}]]
      /\ nextId' = [nextId EXCEPT ![p] = @ + 1] /\ UNCHANGED <<events, inbox>>
  BY <1>0 DEF Streams!Logs
<1>2. p \in Process /\ nextId[p] \in Nat
  BY PartsOf
<1>3. Turns(l, "deliver", new, {})
  BY <1>1, TurnsOn
<1>4. /\ teller'[l].pc = "deliver" /\ teller'[l].event = new
      /\ \A t \in Streams!Teller \ {l} : teller'[t] = teller[t]
  BY <1>3 DEF Turns
<1>5. new[1] = p /\ new[2] = nextId[p] /\ nextId'[p] = nextId[p] + 1
  BY <1>0, <1>1, <1>2 DEF StreamsType
<1>6. \A e \in Numbered : Past(e) => later(e) /\ e # new
  <2> SUFFICES ASSUME NEW e \in Numbered, Past(e)
               PROVE  later(e) /\ e # new
    OBVIOUS
  <2>1. e[1] \in Process /\ e[2] \in Nat /\ e[2] < nextId[e[1]] /\ nextId[e[1]] \in Nat
    BY PartsOf DEF Numbered, Past
  <2>2. e # new
    BY <1>5, <2>1
  <2>3. nextId'[e[1]] = IF e[1] = p THEN nextId[p] + 1 ELSE nextId[e[1]]
    BY <1>1, <2>1 DEF StreamsType
  <2> QED
    BY <2>1, <2>2, <2>3
<1>7. later(new)
  BY <1>2, <1>5
<1> HIDE DEF later
<1>8. \A q \in Process : \A e \in Elements(events[q]) \cup Elements(inbox[q]) : later(e) /\ e # new
  BY <1>6, EventsAround DEF OnceInv, AllPast
<1>9. \A t \in Streams!Teller : Busy(t) => later(teller[t].event) /\ teller[t].event # new
  BY <1>6, PartsOf DEF OnceInv, AllPast
<1>10. AllPast'
  BY <1>1, <1>4, <1>7, <1>8, <1>9 DEF AllPast, Past, Busy, later
<1>11. Original(l)'
  BY <1>1, <1>4, <1>5, <1>8, <1>9 DEF Original, Busy
<1>12. ASSUME NEW m \in Logger \ {l}
       PROVE  Original(m)'
  BY <1>1, <1>4, <1>9 DEF OnceInv, Original, Busy
<1>13. ASSUME NEW q \in Process
       PROVE  HeardOnce(q)'
  <2>1. teller'[q] = teller[q]
    BY <1>4
  <2> QED
    BY <1>1, <2>1 DEF OnceInv, HeardOnce, Busy
<1> QED
  BY <1>10, <1>11, <1>12, <1>13 DEF OnceInv

\* An event that is kept is no longer to be delivered.
LEMMA OnceKeeps ==
  ASSUME StreamsType, OnceInv, NEW t \in Streams!Teller, Streams!Keeps(t)
  PROVE  OnceInv'
<1> USE StreamsConstants
<1> DEFINE p == Streams!At(t)
           e == teller[t].event
           last == Streams!LastOf(Append(events[p], e), Kept)
<1>1. /\ events' = [events EXCEPT ![p] = last] /\ UNCHANGED <<nextId, inbox>> /\ teller[t].pc = "deliver"
      /\ teller' = [teller EXCEPT ![t].pc = "tell", ![t].left = listeners[p]]
  BY DEF Streams!Keeps
<1>2. Busy(t) /\ e \in Numbered /\ p \in Process /\ events[p] \in Seq(Numbered)
  BY <1>1, PartsOf DEF Busy
<1>3. Turns(t, "tell", e, listeners[p])
  BY <1>1, TurnsOn
<1>4. /\ teller'[t].pc = "tell" /\ teller'[t].event = e
      /\ \A u \in Streams!Teller \ {t} : teller'[u] = teller[u]
  BY <1>3 DEF Turns
<1>5. e \notin Elements(events[p])
  <2>1. CASE t \in Logger
    BY <1>1, <1>2, <2>1 DEF OnceInv, Original
  <2>2. CASE t \in Process
    BY <1>1, <1>2, <2>2 DEF OnceInv, HeardOnce
  <2> QED
    BY <2>1, <2>2
<1>6. Elements(last) \subseteq Elements(events[p]) \cup {e} /\ Once(last)
  BY <1>2, <1>5, KeptElements DEF OnceInv, HeardOnce
<1> HIDE DEF last
<1>7. events'[p] = last /\ \A q \in Process \ {p} : events'[q] = events[q]
  BY <1>1, <1>2 DEF StreamsType
<1> HIDE DEF p, e
<1>8. AllPast'
  <2>1. \A q \in Process : \A f \in Elements(events'[q]) : Past(f)
    BY <1>2, <1>6, <1>7 DEF OnceInv, AllPast, e
  <2>2. \A q \in Process : \A f \in Elements(inbox[q]) : Past(f)
    BY DEF OnceInv, AllPast
  <2>3. \A u \in Streams!Teller : Busy(u)' => Past(teller'[u].event)
    BY <1>2, <1>4 DEF OnceInv, AllPast, Busy, e
  <2> QED
    BY <1>1, <2>1, <2>2, <2>3 DEF AllPast, Past
<1>9. ASSUME NEW m \in Logger
      PROVE  Original(m)'
  <2> SUFFICES ASSUME Busy(m)'
               PROVE  Original(m)'
    BY DEF Original
  <2>1. Busy(m) /\ Original(m)
    BY <1>2, <1>4 DEF OnceInv, Busy
  <2>2. /\ teller'[m].event = teller[m].event
        /\ \A u \in Streams!Teller : (Busy(u)' <=> Busy(u)) /\ teller'[u].event = teller[u].event
    BY <1>2, <1>4 DEF Busy, e
  <2>3. CASE m = t
    <3>1. p = LoggerAt[m] /\ teller'[m].pc = "tell"
      BY <1>4, <2>3 DEF p
    <3> QED
      BY <1>1, <1>7, <2>1, <2>2, <3>1 DEF Original
  <2>4. CASE m # t
    <3>1. teller[m].event # e /\ teller'[m].pc = teller[m].pc
      BY <1>2, <1>4, <2>1, <2>4 DEF Original, e
    <3>2. \A q \in Process : teller[m].event \in Elements(events'[q]) => teller[m].event \in Elements(events[q])
      BY <1>6, <1>7, <3>1
    <3> QED
      BY <1>1, <2>1, <2>2, <3>1, <3>2 DEF Original
  <2> QED
    BY <2>3, <2>4
<1>10. ASSUME NEW q \in Process
       PROVE  HeardOnce(q)'
  <2>1. HeardOnce(q) /\ (Busy(q)' <=> Busy(q)) /\ teller'[q].event = teller[q].event
    BY <1>2, <1>4 DEF OnceInv, Busy, e
  <2>2. CASE q # p
    <3>1. q # t
      BY <2>2 DEF p
    <3> QED
      BY <1>1, <1>4, <1>7, <2>1, <2>2, <3>1 DEF HeardOnce
  <2>3. CASE q = p /\ t = q
    <3>1. e \notin Elements(inbox[q]) /\ teller'[q].pc = "tell"
      BY <1>2, <1>4, <2>1, <2>3 DEF HeardOnce, e
    <3> QED
      BY <1>1, <1>6, <1>7, <2>1, <2>3, <3>1 DEF HeardOnce
  <2>4. CASE q = p /\ t # q
    <3>1. t \in Logger /\ e[1] = q
      BY <1>2, <2>4 DEF OnceInv, Original, e, p
    <3>2. teller'[q] = teller[q]
      BY <1>4, <2>4
    <3> QED
      BY <1>1, <1>6, <1>7, <2>1, <2>4, <3>1, <3>2 DEF HeardOnce
  <2> QED
    BY <2>2, <2>3, <2>4
<1> QED
  BY <1>8, <1>9, <1>10 DEF OnceInv

\* An event reaches the processes that get it once, and its own not from outside.
LEMMA OncePublishes ==
  ASSUME StreamsType, OnceInv, NEW l \in Logger, Streams!Publishes(l)
  PROVE  OnceInv'
<1> USE StreamsConstants
<1> DEFINE e == teller[l].event
<1>1. /\ UNCHANGED <<nextId, events>> /\ teller[l].pc = "tell"
      /\ teller' = [teller EXCEPT ![l] = Streams!Resting]
      /\ \A p \in Process : inbox'[p] = Append(inbox[p], e) \/ inbox'[p] = inbox[p]
  BY DEF Streams!Publishes
<1>2. Busy(l) /\ e \in Numbered /\ Original(l)
  BY <1>1, PartsOf DEF Busy, OnceInv
<1>3. Turns(l, "idle", NoEvent, {})
  BY <1>1, TurnsOn
<1>4. ~Busy(l)' /\ \A u \in Streams!Teller \ {l} : teller'[u] = teller[u]
  BY <1>3 DEF Turns, Busy
<1>5. ASSUME NEW p \in Process
      PROVE  Elements(inbox'[p]) \subseteq Elements(inbox[p]) \cup {e} /\ Once(inbox'[p])
  <2>1. Once(inbox[p]) /\ e \notin Elements(inbox[p]) /\ inbox[p] \in Seq(Numbered)
    BY <1>2, PartsOf DEF OnceInv, Original, HeardOnce
  <2>2. /\ Elements(Append(inbox[p], e)) = Elements(inbox[p]) \cup {e}
        /\ Once(Append(inbox[p], e))
    BY <1>2, <2>1, AppendElements
  <2> QED
    BY <1>1, <2>1, <2>2
<1>6. AllPast'
  <2>1. \A p \in Process : \A f \in Elements(inbox'[p]) : Past(f)
    BY <1>2, <1>5 DEF OnceInv, AllPast
  <2> QED
    BY <1>1, <1>4, <2>1 DEF OnceInv, AllPast, Busy, Past
<1>7. ASSUME NEW m \in Logger
      PROVE  Original(m)'
  <2> SUFFICES ASSUME m # l, Busy(m)
               PROVE  Original(m)'
    BY <1>4 DEF Original, Busy
  <2>1. Original(m) /\ teller[m].event # e /\ teller'[m] = teller[m]
    BY <1>2, <1>4 DEF OnceInv, Original
  <2>2. \A u \in Streams!Teller : Busy(u)' => Busy(u) /\ teller'[u].event = teller[u].event
    BY <1>4 DEF Busy
  <2>3. \A p \in Process : teller[m].event \notin Elements(inbox'[p])
    BY <1>5, <2>1 DEF Original
  <2> QED
    BY <1>1, <2>1, <2>2, <2>3 DEF Original
<1>8. ASSUME NEW p \in Process
      PROVE  HeardOnce(p)'
  <2>1. HeardOnce(p) /\ teller'[p] = teller[p] /\ (Busy(p) => teller[p].event # e)
    BY <1>2, <1>4 DEF OnceInv, Original
  <2>2. e[1] # p => e \notin Elements(events[p])
    BY <1>2 DEF Original
  <2> QED
    BY <1>1, <1>5, <2>1, <2>2 DEF HeardOnce, Busy
<1> QED
  BY <1>6, <1>7, <1>8 DEF OnceInv

\* An event that a process hears was not heard there before.
LEMMA OnceHears ==
  ASSUME StreamsType, OnceInv, NEW p \in Process, Streams!Hears(p)
  PROVE  OnceInv'
<1> USE StreamsConstants
<1> DEFINE e == Head(inbox[p])
<1>1. /\ UNCHANGED <<nextId, events>> /\ teller[p].pc = "idle" /\ inbox[p] # <<>>
      /\ inbox' = [inbox EXCEPT ![p] = Tail(inbox[p])]
      /\ \/ e[1] = p /\ teller' = teller
         \/ e[1] # p /\ teller' = [teller EXCEPT ![p] = [pc |-> "deliver", event |-> e, left |-> {}]]
  BY DEF Streams!Hears
<1>2. inbox'[p] = Tail(inbox[p]) /\ \A q \in Process \ {p} : inbox'[q] = inbox[q]
  BY <1>1 DEF StreamsType
<1>3. /\ Elements(inbox[p]) = Elements(inbox'[p]) \cup {e}
      /\ Once(inbox'[p]) /\ e \notin Elements(inbox'[p])
  <2>1. inbox[p] \in Seq(Numbered) /\ inbox[p] # <<>> /\ Once(inbox[p])
    BY <1>1, PartsOf DEF OnceInv, HeardOnce
  <2>2. /\ Elements(inbox[p]) = Elements(Tail(inbox[p])) \cup {Head(inbox[p])}
        /\ Once(Tail(inbox[p])) /\ Head(inbox[p]) \notin Elements(Tail(inbox[p]))
    BY <2>1, TailElements
  <2> QED
    BY <1>2, <2>2
<1> HIDE DEF e
<1>4. ~Busy(p) /\ \A u \in Streams!Teller \ {p} : teller'[u] = teller[u]
  BY <1>1 DEF Busy, StreamsType
<1>5. \/ ~Busy(p)'
      \/ e[1] # p /\ Busy(p)' /\ teller'[p].event = e
  <2>1. CASE e[1] # p /\ teller' = [teller EXCEPT ![p] = [pc |-> "deliver", event |-> e, left |-> {}]]
    <3>1. Turns(p, "deliver", e, {})
      BY <2>1, TurnsOn
    <3> QED
      BY <2>1, <3>1 DEF Turns, Busy
  <2>2. CASE teller' = teller
    BY <1>4, <2>2 DEF Busy
  <2> QED
    BY <1>1, <2>1, <2>2
<1>6. \A q \in Process : Elements(inbox'[q]) \subseteq Elements(inbox[q])
  BY <1>2, <1>3
<1>7. AllPast'
  <2>1. Past(e)
    BY <1>3 DEF OnceInv, AllPast
  <2> QED
    BY <1>1, <1>4, <1>5, <1>6, <2>1 DEF OnceInv, AllPast, Busy, Past
<1>8. ASSUME NEW m \in Logger
      PROVE  Original(m)'
  <2> SUFFICES ASSUME Busy(m)
               PROVE  Original(m)'
    BY <1>4 DEF Original, Busy
  <2>1. Original(m) /\ teller'[m] = teller[m] /\ teller[m].event # e
    BY <1>3, <1>4 DEF OnceInv, Original
  <2>2. \A u \in Streams!Teller \ {m} : Busy(u)' => teller'[u].event # teller[m].event
    BY <1>4, <1>5, <2>1 DEF Original, Busy
  <2>3. \A q \in Process : teller[m].event \notin Elements(inbox'[q])
    BY <1>6, <2>1 DEF Original
  <2> QED
    BY <1>1, <2>1, <2>2, <2>3 DEF Original
<1>9. ASSUME NEW q \in Process
      PROVE  HeardOnce(q)'
  <2>1. CASE q = p
    <3>1. HeardOnce(p) /\ e \in Elements(inbox[p])
      BY <1>3 DEF OnceInv
    <3> QED
      BY <1>1, <1>3, <1>5, <2>1, <3>1 DEF HeardOnce
  <2>2. CASE q # p
    BY <1>1, <1>2, <1>4, <2>2 DEF OnceInv, HeardOnce, Busy
  <2> QED
    BY <2>1, <2>2
<1> QED
  BY <1>7, <1>8, <1>9 DEF OnceInv

\* Every step leaves each event at one place of each process at most.
LEMMA OnceStep ==
  ASSUME StreamsType, OnceInv, [Streams!StreamsNext]_(Streams!streamVars)
  PROVE  OnceInv'
<1> USE StreamsConstants
<1>1. ASSUME UNCHANGED <<nextId, events, inbox, teller>>
      PROVE  OnceInv'
  BY <1>1, OnceStays
<1>2. ASSUME NEW t \in Streams!Teller, Streams!Tells(t)
      PROVE  OnceInv'
  <2>1. /\ UNCHANGED <<nextId, events, inbox>>
        /\ \E s \in teller[t].left : teller' = [teller EXCEPT ![t].left = teller[t].left \ {s}]
    BY <1>2 DEF Streams!Tells
  <2>2. \E left : Turns(t, teller[t].pc, teller[t].event, left)
    BY <2>1, TurnsOn
  <2>3. \A u \in Streams!Teller : teller'[u].pc = teller[u].pc /\ teller'[u].event = teller[u].event
    BY <2>2 DEF Turns
  <2> QED
    BY <2>1, <2>3, OnceStays
<1>3. ASSUME NEW s \in Stream, Streams!Releases(s)
      PROVE  OnceInv'
  <2>1. /\ UNCHANGED <<nextId, events, inbox>>
        /\ teller' = [t \in Streams!Teller |-> [teller[t] EXCEPT !.left = @ \ {s}]]
    BY <1>3 DEF Streams!Releases
  <2>2. ASSUME NEW t \in Streams!Teller
        PROVE  teller'[t].pc = teller[t].pc /\ teller'[t].event = teller[t].event
    <3>1. teller[t] \in InHand
      BY DEF StreamsType
    <3> QED
      BY <2>1, <3>1 DEF InHand
  <2> QED
    BY <2>1, <2>2, OnceStays
<1>4. ASSUME NEW p \in Process, Streams!Crashes(p)
      PROVE  OnceInv'
  <2>1. UNCHANGED <<nextId, events, teller>> /\ inbox' = [inbox EXCEPT ![p] = <<>>]
    BY <1>4 DEF Streams!Crashes
  <2>2. inbox'[p] = <<>> /\ \A q \in Process \ {p} : inbox'[q] = inbox[q]
    BY <2>1 DEF StreamsType
  <2>3. \A q \in Process : Elements(inbox'[q]) \subseteq Elements(inbox[q]) /\ (Once(inbox[q]) => Once(inbox'[q]))
    BY <2>2, NoElements
  <2>4. AllPast'
    BY <2>1, <2>3 DEF OnceInv, AllPast, Busy, Past
  <2>5. ASSUME NEW m \in Logger
        PROVE  Original(m)'
    BY <2>1, <2>3 DEF OnceInv, Original, Busy
  <2>6. ASSUME NEW q \in Process
        PROVE  HeardOnce(q)'
    BY <2>1, <2>3 DEF OnceInv, HeardOnce, Busy
  <2> QED
    BY <2>4, <2>5, <2>6 DEF OnceInv
<1>5. ASSUME NEW p \in Process, Streams!Ceases(p)
      PROVE  OnceInv'
  <2>1. UNCHANGED <<nextId, events, inbox>> /\ Turns(p, "idle", NoEvent, {})
    BY <1>5, TurnsOn DEF Streams!Ceases
  <2>2. ~Busy(p)' /\ \A u \in Streams!Teller \ {p} : teller'[u] = teller[u]
    BY <2>1 DEF Turns, Busy
  <2>4. AllPast'
    BY <2>1, <2>2 DEF OnceInv, AllPast, Busy, Past
  <2>5. ASSUME NEW m \in Logger
        PROVE  Original(m)'
    BY <2>1, <2>2 DEF OnceInv, Original, Busy
  <2>6. ASSUME NEW q \in Process
        PROVE  HeardOnce(q)'
    BY <2>1, <2>2 DEF OnceInv, HeardOnce, Busy
  <2> QED
    BY <2>4, <2>5, <2>6 DEF OnceInv
<1>6. ASSUME NEW s \in Stream,
             \/ Streams!Asks(s) \/ Streams!Abandons(s) \/ Streams!Claims(s) \/ Streams!Listens(s)
             \/ Streams!LooksBack(s) \/ Streams!Sends(s) \/ Streams!Aborts(s) \/ Streams!Unlistens(s)
      PROVE  OnceInv'
  BY <1>1, <1>6 DEF Streams!Asks, Streams!Abandons, Streams!Claims, Streams!Listens, Streams!LooksBack,
                    Streams!Sends, Streams!Aborts, Streams!Unlistens
<1>7. ASSUME NEW p \in Process, Streams!Subscribes(p)
      PROVE  OnceInv'
  BY <1>1, <1>7 DEF Streams!Subscribes
<1>8. CASE UNCHANGED Streams!streamVars
  BY <1>1, <1>8 DEF Streams!streamVars
<1> QED
  BY <1>2, <1>3, <1>4, <1>5, <1>6, <1>7, <1>8, OnceLogs, OnceKeeps, OncePublishes, OnceHears
     DEF Streams!StreamsNext

(***************************************************************************)
(* No stream has a gap: from what it knows on, it knows all that is kept,  *)
(* from when it listens; who is told has begun, and who has not begun has  *)
(* nothing.                                                                *)
(***************************************************************************)
Knows(s, e) ==
  \/ e \in stream[s].sent \/ e \in Elements(stream[s].left) \/ e \in Elements(stream[s].queue)
  \/ \E t \in Streams!Teller : s \in teller[t].left /\ e = teller[t].event

Complete(s) ==
  LET kept == events[StreamAt[s]]
  IN \A i, j \in DOMAIN kept : i < j /\ Knows(s, kept[i]) => Knows(s, kept[j])

Begun(s)   == stream[s].pc \in {"listens", "sends", "ends", "release"}
Gapless(s) == stream[s].pc \in {"listens", "sends"} /\ ~stream[s].fell => Complete(s)

\* Only streams that have begun are told.
Told(t) ==
  /\ teller[t].pc # "tell" => teller[t].left = {}
  /\ \A s \in teller[t].left : Begun(s)

\* What a stream has where it is.
Tidy(s) ==
  /\ ~Begun(s) => stream[s].left = <<>> /\ stream[s].queue = <<>> /\ stream[s].sent = {}
  /\ stream[s].pc = "listens" => stream[s].left = <<>>
  /\ Len(stream[s].queue) <= QueueSize

GapInv ==
  /\ SlotInv /\ OnceInv
  /\ \A t \in Streams!Teller : Told(t)
  /\ \A s \in Stream : Tidy(s) /\ Gapless(s)

\* What a stream knows, as the model writes it.
LEMMA KnownIs == \A s : \A e : e \in Streams!Known(s) <=> Knows(s, e)
  BY DEF Streams!Known, Streams!ToSet, Knows, Elements

\* A step that does not concern a stream.
LEMMA OthersStay ==
  ASSUME NEW s \in Stream, Tidy(s), Gapless(s), stream'[s] = stream[s],
         events'[StreamAt[s]] = events[StreamAt[s]],
         \A t \in Streams!Teller : /\ s \in teller'[t].left <=> s \in teller[t].left
                                   /\ s \in teller[t].left => teller'[t].event = teller[t].event
  PROVE  Tidy(s)' /\ Gapless(s)'
<1>1. \A e : Knows(s, e)' <=> Knows(s, e)
  BY DEF Knows
<1>2. Tidy(s)'
  BY DEF Tidy, Begun
<1>3. Gapless(s)'
  BY <1>1 DEF Gapless, Complete
<1> QED
  BY <1>2, <1>3

\* The tellers go on, and none has anybody to tell who did not have before.
LEMMA GapTellers ==
  ASSUME StreamsType, GapInv, UNCHANGED <<stream, events>>,
         \A t \in Streams!Teller : \/ teller'[t] = teller[t]
                                   \/ teller[t].left = {} /\ teller'[t].left = {}
  PROVE  (\A t \in Streams!Teller : Told(t)') /\ (\A s \in Stream : Tidy(s)' /\ Gapless(s)')
<1>1. \A t \in Streams!Teller : Told(t)'
  BY DEF GapInv, Told, Begun
<1>2. ASSUME NEW s \in Stream
      PROVE  Tidy(s)' /\ Gapless(s)'
  BY OthersStay DEF GapInv
<1> QED
  BY <1>1, <1>2

\* A stream goes on, where no teller does.
LEMMA GapStreams ==
  ASSUME StreamsType, GapInv, UNCHANGED <<teller, events>>, NEW s \in Stream, NEW pc, NEW left, NEW queue,
         NEW sent, NEW fell, Airs(s, pc, left, queue, sent, fell),
         Begun(s) => pc \in {"listens", "sends", "ends", "release"}, Tidy(s)', Gapless(s)'
  PROVE  (\A t \in Streams!Teller : Told(t)') /\ (\A q \in Stream : Tidy(q)' /\ Gapless(q)')
<1>1. /\ stream'[s].pc = pc
      /\ \A q \in Stream \ {s} : stream'[q] = stream[q]
  BY DEF Airs
<1>2. \A q \in Stream : Begun(q) => Begun(q)'
  BY <1>1 DEF Begun
<1>3. ASSUME NEW t \in Streams!Teller
      PROVE  Told(t)'
  <2>1. teller[t].left \subseteq Stream
    BY PartsOf
  <2> QED
    BY <1>2, <2>1 DEF GapInv, Told
<1>4. ASSUME NEW q \in Stream \ {s}
      PROVE  Tidy(q)' /\ Gapless(q)'
  BY <1>1, OthersStay DEF GapInv
<1> QED
  BY <1>3, <1>4

\* An event that is kept is to be told to all who listen, and who looks back finds it.
LEMMA GapKeeps ==
  ASSUME StreamsType, GapInv, NEW t \in Streams!Teller, Streams!Keeps(t)
  PROVE  (\A u \in Streams!Teller : Told(u)') /\ (\A s \in Stream : Tidy(s)' /\ Gapless(s)')
<1> USE StreamsConstants
<1> DEFINE p == Streams!At(t)
           last == Streams!LastOf(Append(events[p], teller[t].event), Kept)
<1>1. /\ events' = [events EXCEPT ![p] = last] /\ UNCHANGED <<stream, listeners>> /\ teller[t].pc = "deliver"
      /\ teller' = [teller EXCEPT ![t].pc = "tell", ![t].left = listeners[p]]
  BY DEF Streams!Keeps
<1>2. PICK e \in Numbered : e = teller[t].event
  BY <1>1, PartsOf DEF Busy
<1>3. Turns(t, "tell", e, listeners[p])
  BY <1>1, <1>2, TurnsOn
<1>4. /\ teller'[t].left = listeners[p] /\ teller'[t].event = e /\ teller'[t].pc = "tell"
      /\ \A u \in Streams!Teller \ {t} : teller'[u] = teller[u]
  BY <1>3 DEF Turns
<1>5. p \in Process /\ events[p] \in Seq(Numbered) /\ teller[t].left = {}
  BY <1>1, PartsOf DEF GapInv, Told
<1>6. events'[p] = last /\ \A q \in Process \ {p} : events'[q] = events[q]
  BY <1>1, <1>5 DEF StreamsType
<1>7. listeners[p] = {s \in Stream : StreamAt[s] = p /\ Listening(s)}
  BY <1>5 DEF GapInv, SlotInv, Accounted, Running, Listening
<1>8. ASSUME NEW u \in Streams!Teller
      PROVE  Told(u)'
  <2>1. \A s \in Stream : Begun(s)' <=> Begun(s)
    BY <1>1 DEF Begun
  <2>2. CASE u = t
    BY <1>4, <1>7, <2>1, <2>2 DEF Told, Listening, Begun
  <2>3. CASE u # t
    <3>1. teller[u].left \subseteq Stream /\ Told(u) /\ teller'[u] = teller[u]
      BY <1>4, <2>3, PartsOf DEF GapInv
    <3> QED
      BY <2>1, <3>1 DEF Told
  <2> QED
    BY <2>2, <2>3
<1>9. ASSUME NEW s \in Stream, StreamAt[s] # p
      PROVE  Tidy(s)' /\ Gapless(s)'
  <2>1. events'[StreamAt[s]] = events[StreamAt[s]] /\ stream'[s] = stream[s] /\ Tidy(s) /\ Gapless(s)
    BY <1>1, <1>6, <1>9 DEF GapInv
  <2>2. \A u \in Streams!Teller : /\ s \in teller'[u].left <=> s \in teller[u].left
                                  /\ s \in teller[u].left => teller'[u].event = teller[u].event
    BY <1>4, <1>5, <1>7, <1>9
  <2> QED
    BY <2>1, <2>2, OthersStay
<1>10. ASSUME NEW s \in Stream, StreamAt[s] = p
       PROVE  Tidy(s)' /\ Gapless(s)'
  <2>1. Tidy(s)'
    BY <1>1 DEF GapInv, Tidy, Begun
  <2>2. ASSUME stream[s].pc \in {"listens", "sends"}, ~stream[s].fell
        PROVE  Complete(s)'
    <3>1. s \in listeners[p] /\ Complete(s)
      BY <1>7, <1>10, <2>2 DEF Listening, GapInv, Gapless
    <3>2. \A f : Knows(s, f)' <=> Knows(s, f) \/ f = e
      <4>1. \A u \in Streams!Teller \ {t} : teller'[u].left = teller[u].left /\ teller'[u].event = teller[u].event
        BY <1>4
      <4>2. \A u \in Streams!Teller \ {t} : s \in teller'[u].left <=> s \in teller[u].left
        BY <4>1
      <4>3. s \in teller'[t].left /\ s \notin teller[t].left /\ teller'[t].event = e
        BY <1>4, <1>5, <3>1
      <4>4. ASSUME NEW f
            PROVE  (\E u \in Streams!Teller : s \in teller'[u].left /\ f = teller'[u].event)
                     <=> f = e \/ (\E u \in Streams!Teller : s \in teller[u].left /\ f = teller[u].event)
        BY <4>1, <4>3
      <4> QED
        BY <1>1, <4>4 DEF Knows
    <3>3. KeptLast(Numbered, events[p], e, Kept, last)
      BY <1>2, <1>5, KeepsLast
    <3>7. PICK kept : kept = last
      OBVIOUS
    <3> HIDE DEF last
    <3>4. PICK k, m \in Nat :
            /\ kept \in Seq(Numbered) /\ Len(kept) = m /\ DOMAIN kept = 1 .. m /\ kept[m] = e
            /\ 0 < m /\ m <= Kept /\ k + m = Len(events[p]) + 1
            /\ \A i \in 1 .. m - 1 : k + i \in DOMAIN events[p] /\ kept[i] = events[p][k + i]
            /\ Len(events[p]) < Kept => k = 0
      BY <3>3, <3>7 DEF KeptLast
    <3>5. e \notin Elements(events[p])
      <4>1. CASE t \in Logger
        BY <1>1, <1>2, <4>1 DEF GapInv, OnceInv, Original, Busy
      <4>2. CASE t \in Process
        BY <1>1, <1>2, <4>2 DEF GapInv, OnceInv, HeardOnce, Busy
      <4> QED
        BY <4>1, <4>2
    <3>6. ASSUME NEW i \in 1 .. m, NEW j \in 1 .. m, i < j, Knows(s, kept[i])'
          PROVE  Knows(s, kept[j])'
      <4>1. CASE j = m
        BY <3>2, <3>4, <4>1
      <4>2. CASE j # m
        <5>1. i \in 1 .. m - 1 /\ j \in 1 .. m - 1 /\ k + i < k + j
          BY <3>4, <3>6, <4>2
        <5>2. /\ k + i \in DOMAIN events[p] /\ kept[i] = events[p][k + i]
              /\ k + j \in DOMAIN events[p] /\ kept[j] = events[p][k + j]
          BY <3>4, <5>1
        <5>3. kept[i] # e
          BY <3>5, <5>2 DEF Elements
        <5>4. Knows(s, events[p][k + i])
          BY <3>2, <3>6, <5>2, <5>3
        <5>5. Knows(s, events[p][k + j])
          BY <1>10, <3>1, <5>1, <5>2, <5>4 DEF Complete
        <5> QED
          BY <3>2, <5>2, <5>5
      <4> QED
        BY <4>1, <4>2
    <3> QED
      BY <1>6, <1>10, <3>4, <3>6, <3>7 DEF Complete
  <2> QED
    BY <1>1, <2>1, <2>2 DEF Gapless
<1> QED
  BY <1>8, <1>9, <1>10

\* A stream that is told has the event in its queue, or fell behind.
LEMMA GapTells ==
  ASSUME StreamsType, GapInv, NEW t \in Streams!Teller, Streams!Tells(t)
  PROVE  (\A u \in Streams!Teller : Told(u)') /\ (\A s \in Stream : Tidy(s)' /\ Gapless(s)')
<1> USE StreamsConstants
<1>1. PICK s \in teller[t].left :
        /\ teller' = [teller EXCEPT ![t].left = @ \ {s}] /\ UNCHANGED events /\ teller[t].pc = "tell"
        /\ stream' = [stream EXCEPT ![s].queue = Streams!LastOf(Append(@, teller[t].event), QueueSize),
                                    ![s].fell = @ \/ Len(stream[s].queue) = QueueSize]
  BY DEF Streams!Tells
<1>2. PICK e \in Numbered : e = teller[t].event
  BY <1>1, PartsOf DEF Busy
<1>3. s \in Stream /\ Begun(s) /\ stream[s].queue \in Seq(Numbered)
  BY <1>1, PartsOf DEF GapInv, Told
<1> DEFINE more == Streams!LastOf(Append(stream[s].queue, teller[t].event), QueueSize)
           full == stream[s].fell \/ Len(stream[s].queue) = QueueSize
           rest == teller[t].left \ {s}
<1>4. PICK queue, fell, left : queue = more /\ fell = full /\ left = rest
  OBVIOUS
<1>5. /\ teller' = [teller EXCEPT ![t].left = left]
      /\ stream' = [stream EXCEPT ![s].queue = queue, ![s].fell = fell]
  BY <1>1, <1>4
<1> HIDE DEF more, full, rest
<1>6. Turns(t, teller[t].pc, teller[t].event, left)
  BY <1>5, TurnsOn
<1>7. Airs(s, stream[s].pc, stream[s].left, queue, stream[s].sent, fell)
  BY <1>3, <1>5, AirsOn
<1>8. /\ teller'[t].pc = "tell" /\ teller'[t].event = e /\ teller'[t].left = left
      /\ \A u \in Streams!Teller \ {t} : teller'[u] = teller[u]
  BY <1>1, <1>2, <1>6 DEF Turns
<1>9. /\ stream'[s].pc = stream[s].pc /\ stream'[s].left = stream[s].left /\ stream'[s].queue = queue
      /\ stream'[s].sent = stream[s].sent /\ stream'[s].fell = fell
      /\ \A q \in Stream \ {s} : stream'[q] = stream[q]
  BY <1>7 DEF Airs
<1>10. ASSUME NEW u \in Streams!Teller
       PROVE  Told(u)'
  <2>1. \A q \in Stream : Begun(q)' <=> Begun(q)
    BY <1>9 DEF Begun
  <2>2. teller[u].left \subseteq Stream /\ teller'[u].left \subseteq teller[u].left /\ Told(u)
    BY <1>4, <1>8, PartsOf DEF GapInv, rest
  <2>3. teller'[u].pc = teller[u].pc
    BY <1>1, <1>8
  <2> QED
    BY <2>1, <2>2, <2>3 DEF Told
<1>11. ASSUME NEW q \in Stream \ {s}
       PROVE  Tidy(q)' /\ Gapless(q)'
  <2>1. \A u \in Streams!Teller : /\ q \in teller'[u].left <=> q \in teller[u].left
                                  /\ q \in teller[u].left => teller'[u].event = teller[u].event
    BY <1>2, <1>4, <1>8 DEF rest
  <2>2. events'[StreamAt[q]] = events[StreamAt[q]] /\ stream'[q] = stream[q] /\ Tidy(q) /\ Gapless(q)
    BY <1>1, <1>9 DEF GapInv
  <2> QED
    BY <2>1, <2>2, OthersStay
<1>12. Tidy(s) /\ Gapless(s)
  BY <1>3 DEF GapInv
<1>13. queue \in Seq(Numbered) /\ Len(queue) <= QueueSize
  <2>1. KeptLast(Numbered, stream[s].queue, e, QueueSize, queue)
    BY <1>2, <1>3, <1>4, KeepsLast DEF more
  <2> QED
    BY <2>1 DEF KeptLast
<1>14. Tidy(s)'
  BY <1>3, <1>9, <1>12, <1>13 DEF Tidy, Begun
<1>15. ASSUME stream[s].pc \in {"listens", "sends"}, ~fell
       PROVE  Complete(s)'
  <2>1. ~stream[s].fell /\ Len(stream[s].queue) # QueueSize
    BY <1>4, <1>15 DEF full
  <2>2. Len(stream[s].queue) < QueueSize
    <3>1. Len(stream[s].queue) \in Nat
      BY <1>3, LenProperties
    <3> QED
      BY <1>12, <2>1, <3>1 DEF Tidy
  <2>3. Elements(queue) = Elements(stream[s].queue) \cup {e}
    BY <1>2, <1>3, <1>4, <2>2, KeptElements DEF more
  <2>4. ASSUME NEW f
        PROVE  (\E u \in Streams!Teller : s \in teller[u].left /\ f = teller[u].event)
                 <=> f = e \/ (\E u \in Streams!Teller : s \in teller'[u].left /\ f = teller'[u].event)
    <3>1. s \in teller[t].left /\ s \notin teller'[t].left /\ teller[t].event = e
      BY <1>1, <1>2, <1>4, <1>8 DEF rest
    <3>2. \A u \in Streams!Teller \ {t} : teller'[u].left = teller[u].left /\ teller'[u].event = teller[u].event
      BY <1>8
    <3> QED
      BY <3>1, <3>2
  <2>5. ASSUME NEW f
        PROVE  Knows(s, f)' <=> Knows(s, f)
    <3>1. /\ f \in Elements(stream'[s].queue) <=> f \in Elements(stream[s].queue) \/ f = e
          /\ f \in Elements(stream'[s].left) <=> f \in Elements(stream[s].left)
          /\ f \in stream'[s].sent <=> f \in stream[s].sent
      BY <1>9, <2>3
    <3> QED
      BY <2>4, <3>1 DEF Knows
  <2>6. Complete(s)
    BY <1>12, <1>15, <2>1 DEF Gapless
  <2> QED
    BY <1>1, <2>5, <2>6 DEF Complete
<1>16. Gapless(s)'
  BY <1>9, <1>15 DEF Gapless
<1> QED
  BY <1>10, <1>11, <1>14, <1>16

\* A stream that looks back has what is kept, and what comes is in its queue.
LEMMA GapLooksBack ==
  ASSUME StreamsType, GapInv, NEW s \in Stream, Streams!LooksBack(s)
  PROVE  (\A t \in Streams!Teller : Told(t)') /\ (\A q \in Stream : Tidy(q)' /\ Gapless(q)')
<1> USE StreamsConstants
<1>1. /\ stream[s].pc = "listens" /\ UNCHANGED <<teller, events>>
      /\ stream' = [stream EXCEPT ![s].pc = "sends", ![s].left = Streams!LastOf(events[StreamAt[s]], Recent)]
  BY DEF Streams!LooksBack, Streams!StreamAtPc
<1>2. PICK kept : kept = events[StreamAt[s]] /\ kept \in Seq(Numbered) /\ Once(kept)
  BY PartsOf DEF GapInv, OnceInv, HeardOnce
<1>3. PICK last : last = Streams!LastOf(kept, Recent)
  OBVIOUS
<1>4. Airs(s, "sends", last, stream[s].queue, stream[s].sent, stream[s].fell)
  BY <1>1, <1>2, <1>3, AirsOn
<1>5. Tidy(s) /\ Gapless(s) /\ Begun(s)
  BY <1>1 DEF GapInv, Begun
<1>6. /\ stream'[s].pc = "sends" /\ stream'[s].left = last /\ stream'[s].queue = stream[s].queue
      /\ stream'[s].sent = stream[s].sent /\ stream'[s].fell = stream[s].fell
  BY <1>4 DEF Airs
<1>7. Tidy(s)'
  BY <1>5, <1>6 DEF Tidy, Begun
<1>8. ASSUME ~stream[s].fell
      PROVE  Complete(s)'
  <2>1. PICK n \in Nat : n = Len(kept) /\ DOMAIN kept = 1 .. n
    BY <1>2, LenProperties
  <2>2. PICK k \in Nat :
          /\ last \in Seq(Numbered)
          /\ Len(last) = Len(kept) - k /\ Len(kept) - k <= Recent
          /\ (k = 0 \/ k = Len(kept) - Recent)
          /\ \A i \in 1 .. Len(kept) - k : last[i] = kept[k + i]
          /\ Len(kept) <= Recent => k = 0
    <3>1. LastPart(Numbered, kept, Recent, last)
      BY <1>2, <1>3, LastOfIs
    <3> QED
      BY <3>1 DEF LastPart
  <2>3. DOMAIN last = 1 .. n - k /\ \A i \in 1 .. n - k : last[i] = kept[k + i]
    BY <2>1, <2>2, LenProperties
  <2>4. Complete(s) /\ stream[s].left = <<>>
    BY <1>1, <1>5, <1>8 DEF Gapless, Tidy
  <2>5. \A f : Knows(s, f)' <=> Knows(s, f) \/ f \in Elements(last)
    BY <1>1, <1>6, <2>4, NoElements DEF Knows
  <2>6. ASSUME NEW i \in 1 .. n, NEW j \in 1 .. n, i < j, Knows(s, kept[i])'
        PROVE  Knows(s, kept[j])'
    <3>1. CASE Knows(s, kept[i])
      BY <1>2, <2>1, <2>4, <2>5, <2>6, <3>1 DEF Complete
    <3>2. CASE kept[i] \in Elements(last)
      <4>1. PICK h \in 1 .. n - k : kept[i] = kept[k + h]
        BY <2>3, <3>2 DEF Elements
      <4>2. k + h \in 1 .. n
        BY <2>1, <4>1
      <4>3. i = k + h
        BY <1>2, <2>1, <4>1, <4>2 DEF Once
      <4>4. j - k \in 1 .. n - k /\ k + (j - k) = j
        BY <2>1, <2>6, <4>1, <4>3
      <4>5. last[j - k] = kept[j]
        BY <2>3, <4>4
      <4>6. kept[j] \in Elements(last)
        BY <2>3, <4>4, <4>5 DEF Elements
      <4> QED
        BY <2>5, <4>6
    <3> QED
      BY <2>5, <2>6, <3>1, <3>2
  <2> QED
    BY <1>1, <1>2, <2>1, <2>6 DEF Complete
<1>9. Gapless(s)'
  BY <1>6, <1>8 DEF Gapless
<1> QED
  BY <1>1, <1>4, <1>7, <1>9, GapStreams

\* What a stream sends it knows.
LEMMA GapSends ==
  ASSUME StreamsType, GapInv, NEW s \in Stream, Streams!Sends(s)
  PROVE  (\A t \in Streams!Teller : Told(t)') /\ (\A q \in Stream : Tidy(q)' /\ Gapless(q)')
<1> USE StreamsConstants
<1>1. stream[s].pc = "sends" /\ UNCHANGED <<teller, events>>
  BY DEF Streams!Sends, Streams!StreamAtPc
<1>2. PICK left, queue, sent :
        /\ Airs(s, "sends", left, queue, sent, stream[s].fell)
        /\ queue = stream[s].queue \/ (stream[s].queue # <<>> /\ queue = Tail(stream[s].queue))
        /\ sent \cup Elements(left) \cup Elements(queue)
             = stream[s].sent \cup Elements(stream[s].left) \cup Elements(stream[s].queue)
  <2>1. stream[s].left \in Seq(Numbered) /\ stream[s].queue \in Seq(Numbered)
    BY PartsOf
  <2>2. CASE /\ stream[s].left # <<>>
             /\ Airs(s, "sends", Tail(stream[s].left), stream[s].queue,
                     stream[s].sent \cup {Head(stream[s].left)}, stream[s].fell)
    <3>1. Elements(stream[s].left) = Elements(Tail(stream[s].left)) \cup {Head(stream[s].left)}
      BY <2>1, <2>2, TailElements
    <3> QED
      BY <2>2, <3>1
  <2>3. CASE /\ stream[s].left = <<>> /\ stream[s].queue # <<>>
             /\ Airs(s, "sends", stream[s].left, Tail(stream[s].queue),
                     stream[s].sent \cup {Head(stream[s].queue)}, stream[s].fell)
    <3>1. Elements(stream[s].queue) = Elements(Tail(stream[s].queue)) \cup {Head(stream[s].queue)}
      BY <2>1, <2>3, TailElements
    <3>2. stream[s].sent \cup {Head(stream[s].queue)} \cup Elements(stream[s].left)
                \cup Elements(Tail(stream[s].queue))
            = stream[s].sent \cup Elements(stream[s].left) \cup Elements(stream[s].queue)
      BY <3>1
    <3> QED
      BY <2>3, <3>2
  <2> QED
    BY <2>2, <2>3, SendsIs
<1>3. /\ stream'[s].pc = "sends" /\ stream'[s].left = left /\ stream'[s].queue = queue
      /\ stream'[s].sent = sent /\ stream'[s].fell = stream[s].fell
  BY <1>2 DEF Airs
<1>4. Tidy(s) /\ Gapless(s) /\ Begun(s)
  BY <1>1 DEF GapInv, Begun
<1>5. Len(queue) <= QueueSize
  <2>1. CASE queue = stream[s].queue
    BY <1>4, <2>1 DEF Tidy
  <2>2. CASE stream[s].queue # <<>> /\ queue = Tail(stream[s].queue)
    <3>1. Len(queue) = Len(stream[s].queue) - 1 /\ Len(stream[s].queue) \in Nat
      BY <2>2, PartsOf, HeadTailOf
    <3> QED
      BY <1>4, <3>1 DEF Tidy
  <2> QED
    BY <1>2, <2>1, <2>2
<1>6. Tidy(s)'
  BY <1>3, <1>5 DEF Tidy, Begun
<1>7. Gapless(s)'
  <2>1. \A f : Knows(s, f)' <=> Knows(s, f)
    BY <1>1, <1>2, <1>3 DEF Knows
  <2> QED
    BY <1>1, <1>3, <1>4, <2>1 DEF Gapless, Complete
<1> QED
  BY <1>1, <1>2, <1>4, <1>6, <1>7, GapStreams

\* Every step leaves a stream without a gap.
LEMMA GapStep == GapInv /\ [Streams!StreamsNext]_(Streams!streamVars) => GapInv'
<1> SUFFICES ASSUME GapInv, [Streams!StreamsNext]_(Streams!streamVars)
             PROVE  GapInv'
  OBVIOUS
<1> USE StreamsConstants
<1>t. StreamsType
  BY DEF GapInv, SlotInv
<1>i. SlotInv' /\ OnceInv'
  BY <1>t, SlotStep, OnceStep DEF GapInv
<1> DEFINE Rest == (\A t \in Streams!Teller : Told(t)') /\ (\A s \in Stream : Tidy(s)' /\ Gapless(s)')
<1> SUFFICES Rest
  BY <1>i DEF GapInv
<1> HIDE DEF Rest
<1>1. ASSUME UNCHANGED <<stream, events, teller>>
      PROVE  Rest
  BY <1>t, <1>1, GapTellers DEF Rest
<1>2. ASSUME NEW t \in Streams!Teller, NEW pc, NEW e, UNCHANGED <<stream, events>>, teller[t].left = {},
             Turns(t, pc, e, {})
      PROVE  Rest
  <2>1. \A u \in Streams!Teller : \/ teller'[u] = teller[u]
                                  \/ teller[u].left = {} /\ teller'[u].left = {}
    BY <1>2 DEF Turns
  <2> QED
    BY <1>t, <1>2, <2>1, GapTellers DEF Rest
<1>3. ASSUME NEW l \in Logger, Streams!Logs(l)
      PROVE  Rest
  <2>1. teller[l].left = {}
    BY <1>3 DEF Streams!Logs, GapInv, Told
  <2>2. Turns(l, "deliver", <<LoggerAt[l], nextId[LoggerAt[l]]>>, {})
    BY <1>t, <1>3, TurnsOn DEF Streams!Logs
  <2> QED
    BY <1>2, <1>3, <2>1, <2>2 DEF Streams!Logs
<1>4. ASSUME NEW l \in Logger, Streams!Publishes(l)
      PROVE  Rest
  <2>1. Turns(l, "idle", NoEvent, {})
    BY <1>t, <1>4, TurnsOn DEF Streams!Publishes
  <2> QED
    BY <1>2, <1>4, <2>1 DEF Streams!Publishes
<1>5. ASSUME NEW p \in Process, Streams!Ceases(p)
      PROVE  Rest
  <2>1. Turns(p, "idle", NoEvent, {})
    BY <1>t, <1>5, TurnsOn DEF Streams!Ceases
  <2> QED
    BY <1>2, <1>5, <2>1 DEF Streams!Ceases
<1>6. ASSUME NEW p \in Process, Streams!Hears(p)
      PROVE  Rest
  <2>1. CASE teller' = teller
    BY <1>1, <1>6, <2>1 DEF Streams!Hears
  <2>2. CASE teller' = [teller EXCEPT ![p] = [pc |-> "deliver", event |-> Head(inbox[p]), left |-> {}]]
    <3>1. Turns(p, "deliver", Head(inbox[p]), {})
      BY <1>t, <2>2, TurnsOn
    <3>2. teller[p].left = {}
      BY <1>6 DEF Streams!Hears, GapInv, Told
    <3> QED
      BY <1>2, <1>6, <3>1, <3>2 DEF Streams!Hears
  <2> QED
    BY <1>6, <2>1, <2>2 DEF Streams!Hears
<1>7. ASSUME NEW p \in Process, Streams!Subscribes(p) \/ Streams!Crashes(p)
      PROVE  Rest
  BY <1>1, <1>7 DEF Streams!Subscribes, Streams!Crashes
<1>8. ASSUME NEW s \in Stream, NEW pc, Moves(s, pc), UNCHANGED <<teller, events>>,
             pc \in {"idle", "asked", "claimed", "listens"}, ~Begun(s)
      PROVE  Rest
  <2>1. Airs(s, pc, stream[s].left, stream[s].queue, stream[s].sent, stream[s].fell)
    BY <1>8 DEF Moves
  <2>2. /\ stream'[s].pc = pc /\ stream'[s].left = stream[s].left /\ stream'[s].queue = stream[s].queue
        /\ stream'[s].sent = stream[s].sent
    BY <2>1 DEF Airs
  <2>3. Tidy(s) /\ stream[s].left = <<>> /\ stream[s].queue = <<>> /\ stream[s].sent = {}
    BY <1>8 DEF GapInv, Tidy
  <2>4. Tidy(s)'
    BY <2>2, <2>3 DEF Tidy
  <2>5. \A t \in Streams!Teller : s \notin teller'[t].left
    BY <1>8 DEF GapInv, Told
  <2>6. \A f : ~Knows(s, f)'
    BY <2>2, <2>3, <2>5, NoElements DEF Knows
  <2>7. Gapless(s)'
    BY <2>6 DEF Gapless, Complete
  <2> QED
    BY <1>t, <1>8, <2>1, <2>4, <2>7, GapStreams DEF Rest
<1>9. ASSUME NEW s \in Stream,
             Streams!Asks(s) \/ Streams!Abandons(s) \/ Streams!Claims(s) \/ Streams!Listens(s)
      PROVE  Rest
  <2>1. ~Begun(s) /\ UNCHANGED <<teller, events>>
    BY <1>9 DEF Streams!Asks, Streams!Abandons, Streams!Claims, Streams!Listens, Streams!StreamAtPc, Begun
  <2>2. \E pc \in {"idle", "asked", "claimed", "listens"} : Moves(s, pc)
    <3>1. \E pc \in {"idle", "asked", "claimed", "listens"} : Streams!StreamTo(s, pc)
      BY <1>9 DEF Streams!Asks, Streams!Abandons, Streams!Claims, Streams!Listens
    <3> QED
      BY <1>t, <3>1, AirsOn
  <2> QED
    BY <1>8, <2>1, <2>2
<1>10. ASSUME NEW s \in Stream, Streams!Aborts(s) \/ Streams!Unlistens(s)
       PROVE  Rest
  <2>1. UNCHANGED <<teller, events>>
    BY <1>10 DEF Streams!Aborts, Streams!Unlistens
  <2>2. PICK pc \in {"ends", "release"} : Airs(s, pc, <<>>, <<>>, {}, FALSE)
    BY <1>t, <1>10, AirsOn DEF Streams!Aborts, Streams!Unlistens
  <2>3. stream'[s].pc = pc /\ stream'[s].left = <<>> /\ stream'[s].queue = <<>> /\ stream'[s].sent = {}
    BY <2>2 DEF Airs
  <2>4. Tidy(s)' /\ Gapless(s)'
    BY <2>3, EmptySeq DEF Tidy, Gapless
  <2> QED
    BY <1>t, <2>1, <2>2, <2>4, GapStreams DEF Rest
<1>11. ASSUME NEW s \in Stream, Streams!Releases(s)
       PROVE  Rest
  <2>1. /\ UNCHANGED events /\ stream' = [stream EXCEPT ![s] = Streams!NoStream]
        /\ teller' = [t \in Streams!Teller |-> [teller[t] EXCEPT !.left = @ \ {s}]]
    BY <1>11 DEF Streams!Releases
  <2>2. Airs(s, "idle", <<>>, <<>>, {}, FALSE)
    BY <1>t, <2>1, AirsOn
  <2>3. /\ stream'[s].pc = "idle" /\ stream'[s].left = <<>> /\ stream'[s].queue = <<>> /\ stream'[s].sent = {}
        /\ \A q \in Stream \ {s} : stream'[q] = stream[q]
    BY <2>2 DEF Airs
  <2>4. ASSUME NEW t \in Streams!Teller
        PROVE  /\ teller'[t].pc = teller[t].pc /\ teller'[t].event = teller[t].event
               /\ teller'[t].left = teller[t].left \ {s}
    <3>1. teller[t] \in InHand
      BY <1>t DEF StreamsType
    <3> QED
      BY <2>1, <3>1 DEF InHand
  <2>5. ASSUME NEW t \in Streams!Teller
        PROVE  Told(t)'
    <3>1. Told(t) /\ teller[t].left \subseteq Stream
      BY <1>t, PartsOf DEF GapInv
    <3> QED
      BY <2>3, <2>4, <3>1 DEF Told, Begun
  <2>6. Tidy(s)' /\ Gapless(s)'
    BY <2>3, EmptySeq DEF Tidy, Gapless
  <2>7. ASSUME NEW q \in Stream \ {s}
        PROVE  Tidy(q)' /\ Gapless(q)'
    <3>1. Tidy(q) /\ Gapless(q) /\ stream'[q] = stream[q] /\ events'[StreamAt[q]] = events[StreamAt[q]]
      BY <2>1, <2>3 DEF GapInv
    <3>2. \A t \in Streams!Teller : /\ q \in teller'[t].left <=> q \in teller[t].left
                                    /\ q \in teller[t].left => teller'[t].event = teller[t].event
      BY <2>4
    <3> QED
      BY <3>1, <3>2, OthersStay
  <2> QED
    BY <2>5, <2>6, <2>7 DEF Rest
<1>12. ASSUME NEW t \in Streams!Teller, Streams!Keeps(t) \/ Streams!Tells(t)
       PROVE  Rest
  BY <1>t, <1>12, GapKeeps, GapTells DEF Rest
<1>13. ASSUME NEW s \in Stream, Streams!LooksBack(s) \/ Streams!Sends(s)
       PROVE  Rest
  BY <1>t, <1>13, GapLooksBack, GapSends DEF Rest
<1>14. CASE UNCHANGED Streams!streamVars
  BY <1>1, <1>14 DEF Streams!streamVars
<1> QED
  BY <1>3, <1>4, <1>5, <1>6, <1>7, <1>9, <1>10, <1>11, <1>12, <1>13, <1>14 DEF Streams!StreamsNext

\* Nothing is kept, nobody listens, and no slot is taken.
LEMMA StreamsStart == Streams!StreamsInit => GapInv
<1> SUFFICES ASSUME Streams!StreamsInit
             PROVE  GapInv
  OBVIOUS
<1> USE StreamsConstants
<1>1. <<>> \in Seq(Numbered) /\ Len(<<>>) = 0
  BY EmptySeq
<1>2. StreamsType
  <2>1. /\ nextId \in [Process -> Nat \ {0}] /\ events \in [Process -> Seq(Numbered)]
        /\ inbox \in [Process -> Seq(Numbered)]
    BY <1>1 DEF Streams!StreamsInit
  <2>2. Streams!Resting \in InHand /\ Streams!Resting.pc = "idle"
    BY DEF Streams!Resting, InHand
  <2>3. Streams!NoStream \in OnAir
    BY <1>1 DEF Streams!NoStream, OnAir
  <2> QED
    BY <2>1, <2>2, <2>3 DEF Streams!StreamsInit, StreamsType, Busy
<1>3. \A p \in Process : Running(p) = {}
  BY DEF Streams!StreamsInit, Streams!NoStream, Running
<1>4. \A p \in Process : Accounted(p)
  <2>1. \A p \in Process : slots[p] = 0 /\ listeners[p] = {}
    BY DEF Streams!StreamsInit
  <2>2. 0 <= MaxStreams
    OBVIOUS
  <2> QED
    BY <1>3, <2>1, <2>2, FS_EmptySet DEF Accounted
<1>5. SlotInv
  BY <1>2, <1>4 DEF Streams!StreamsInit, SlotInv
<1>6. \A t \in Streams!Teller : teller[t].pc = "idle" /\ teller[t].left = {}
  BY DEF Streams!StreamsInit, Streams!Resting
<1>7. \A p \in Process : events[p] = <<>> /\ inbox[p] = <<>>
  BY DEF Streams!StreamsInit
<1>8. \A s \in Stream : /\ stream[s].pc = "idle" /\ stream[s].left = <<>>
                        /\ stream[s].queue = <<>> /\ stream[s].sent = {}
  BY DEF Streams!StreamsInit, Streams!NoStream
<1>9. OnceInv
  BY <1>6, <1>7, NoElements DEF OnceInv, AllPast, Original, HeardOnce, Busy
<1>10. ASSUME NEW s \in Stream
       PROVE  Tidy(s) /\ Gapless(s)
  <2>1. QueueSize >= 0
    OBVIOUS
  <2> QED
    BY <1>1, <1>8, <2>1 DEF Tidy, Gapless, Begun
<1> QED
  BY <1>5, <1>6, <1>9, <1>10 DEF GapInv, Told

\* The count of connections is that of the streams that run, within its limit, and
\* those listen: no way to end or not to start a stream leaves anything behind.
THEOREM StreamsAreCounted == Streams!StreamsSpec => []SlotsAccounted
<1>1. Streams!StreamsInit => SlotInv
  BY StreamsStart DEF GapInv
<1>2. SlotInv => SlotsAccounted
  BY StreamsCount DEF SlotInv, Accounted, Running, Listening, SlotsAccounted, Streams!SlotsAccounted
<1> QED
  BY <1>1, <1>2, SlotStep, PTL DEF Streams!StreamsSpec

\* A process keeps an event once, although its own come back to it; and a stream has
\* no gap: from the first event it knows on, it knows all that its process kept
\* later, unless it fell behind by more than its queue.
THEOREM StreamsHaveNoGap == Streams!StreamsSpec => []NoGap
<1>1. GapInv => NoGap
  <2> SUFFICES ASSUME GapInv
               PROVE  NoGap
    OBVIOUS
  <2>1. \A p \in Process : Streams!IsInjective(events[p])
    BY DEF GapInv, OnceInv, HeardOnce, Once, Streams!IsInjective
  <2>2. ASSUME NEW s \in Stream, Streams!StreamAtPc(s, "sends"), ~stream[s].fell,
               NEW i \in DOMAIN events[StreamAt[s]], NEW j \in DOMAIN events[StreamAt[s]], i < j,
               events[StreamAt[s]][i] \in Streams!Known(s)
        PROVE  events[StreamAt[s]][j] \in Streams!Known(s)
    <3>1. Complete(s)
      BY <2>2 DEF GapInv, Gapless, Streams!StreamAtPc
    <3>2. Knows(s, events[StreamAt[s]][i])
      BY <2>2, KnownIs
    <3>3. Knows(s, events[StreamAt[s]][j])
      BY <2>2, <3>1, <3>2 DEF Complete
    <3> QED
      BY <3>3, KnownIs
  <2> QED
    BY <2>1, <2>2 DEF NoGap, Streams!NoGap
<1> QED
  BY <1>1, StreamsStart, GapStep, PTL DEF Streams!StreamsSpec

(***************************************************************************)
(* The page of a player                                                    *)
(*                                                                         *)
(* Leases are given one after the other, an answer speaks of one there was *)
(* by then, and the answer of the call that is pending is never older than *)
(* what the page knows: known changes with accepted answers only, and such *)
(* a call ends with its answer.                                            *)
(***************************************************************************)
Answer == [what : {"up", "absent", "no", "later"}, id : Nat, lease : Nat]

Asked ==
  [pc : {"asked", "answered"}, path : {"first", "poll", "start", "check", "renew", "stop", "outcome"},
   of : Challenge, timer : Nat, says : Answer \cup {Pages!Nothing}]

Paged ==
  [bar : {"hidden", "start", "running"}, shown : (Challenge \X Nat) \cup {Pages!Nothing}, expires : Nat,
   synced : BOOLEAN, off : SUBSET {"renew", "stop"}, start : {"free", "asking", "again"},
   patience : Int, timer : {"none", "deadline", "again", "poll"}]

PageType ==
  /\ server \in [Challenge -> [id : Nat, lease : Nat, given : Nat, over : Nat]]
  /\ call \in [CallId -> Asked \cup {Pages!Free}]
  /\ view \in Challenge \cup {NoView} /\ pending \in CallId \cup {NoCall}
  /\ page \in Paged /\ known \in [Challenge -> Nat]

\* What the page knows of an instance is no more than what there is, or was.
Behind(c) ==
  /\ known[c] <= server[c].given + 1
  /\ Pages!Up(c) => server[c].lease = server[c].given /\ known[c] <= server[c].given

\* An answer is of a lease that there was by then.
Truthful(k) ==
  LET a == call[k].says
      s == server[call[k].of]
  IN call[k].pc = "answered" =>
       /\ a \in Answer
       /\ Pages!Tells(a) => a.lease <= s.given
       /\ a.what = "absent" /\ s.lease # 0 => a.lease < s.given

\* The call that is pending is of the view that is open, and nothing that the page
\* knows is newer than its answer.
Waits ==
  pending # NoCall =>
    /\ call[pending] # Pages!Free /\ call[pending].of = view
    /\ call[pending].pc = "answered" /\ call[pending].says.what = "up" =>
         call[pending].says.lease >= known[view]
    /\ call[pending].path = "first" => page = Pages!Blank
    /\ call[pending].path \in {"start", "check"} <=> page.start # "free"

\* What is on a page is of its view, and no older than what is known of it.
Shows(p, v, least) ==
  /\ p.shown # Pages!Nothing => p.shown[1] = v
  /\ p.expires # 0 => p.bar = "running" /\ p.expires >= least
  /\ p.synced <=> p.bar = "running"

\* So it is of a page that is waited for, or of none.
Fits(p, v, least) ==
  /\ Shows(p, v, least)
  /\ p.start # "free" => p.bar # "running"
  /\ p.timer \in {"again", "poll"} => p.start # "free"
  /\ v = NoView => p = Pages!Blank

\* The invariant: with it, whoever waits has a call or a timer.
PageInv ==
  /\ PageType
  /\ \A c \in Challenge : Behind(c)
  /\ \A k \in CallId : Truthful(k)
  /\ Waits /\ Fits(page, view, known[view])
  /\ pending = NoCall /\ page.start # "free" => page.timer # "none"
  /\ view = NoView \/ page.timer \in {"again", "poll"} => pending = NoCall

\* What the assumption says of the constants.
LEMMA PagesConstants == NoView \notin Challenge /\ NoCall \notin CallId /\ MaxLeases \in Nat /\ Patience \in Nat
<1>1. Pages!PageAssumption
  BY PartsAssumption
<1> QED
  BY <1>1 DEF Pages!PageAssumption

\* A call that is new, and one that is over.
CallsBut(calls) ==
  /\ calls \in [CallId -> Asked \cup {Pages!Free}]
  /\ \A k \in CallId : calls[k] = call[k] \/ calls[k] = Pages!Free

\* What is not pending any more is free, and the others stay as they are.
LEMMA CallsWithout ==
  ASSUME PageType, NEW k \in CallId
  PROVE  CallsBut(Pages!Without(k)) /\ CallsBut(call)
BY DEF PageType, CallsBut, Pages!Without

\* An answer stays true while the server rests, and a call that is free has none.
LEMMA TruthStays ==
  ASSUME PageType, NEW k \in CallId, Truthful(k), server' = server,
         call'[k] = call[k] \/ call'[k].pc # "answered"
  PROVE  Truthful(k)'
BY DEF Truthful

\* The next call of a page that has nothing of another view.
LEMMA PageFetches ==
  ASSUME PageInv, NEW c \in Challenge, NEW calls, CallsBut(calls), NEW p \in Paged,
         NEW path \in {"first", "poll", "start", "check", "renew", "stop", "outcome"},
         Pages!Fetch(c, path, calls, p), view' = c, UNCHANGED <<server, known>>,
         Shows(p, c, known[c]), p.start # "free" => p.bar # "running",
         path = "first" => p = Pages!Blank, path \in {"start", "check"} <=> p.start # "free"
  PROVE  PageInv'
<1> USE PagesConstants
<1>1. PICK k \in CallId :
        /\ calls[k] = Pages!Free
        /\ call' = [calls EXCEPT ![k] = [pc |-> "asked", path |-> path, of |-> c,
                                         timer |-> IF path = "poll" THEN p.expires ELSE 0,
                                         says |-> Pages!Nothing]]
        /\ pending' = k
        /\ page' = [p EXCEPT !.timer = IF path = "first" THEN "none" ELSE "deadline"]
  BY DEF Pages!Fetch
<1>2. PICK timer, nothing : /\ timer = IF path = "poll" THEN p.expires ELSE 0
                            /\ nothing = Pages!Nothing
  OBVIOUS
<1>3. PICK new : /\ new = [pc |-> "asked", path |-> path, of |-> c, timer |-> timer, says |-> nothing]
                 /\ new \in Asked
  <2>1. timer \in Nat /\ nothing \in Answer \cup {Pages!Nothing}
    BY <1>2 DEF Paged
  <2>2. [pc |-> "asked", path |-> path, of |-> c, timer |-> timer, says |-> nothing] \in Asked
    BY <2>1 DEF Asked
  <2> QED
    BY <2>2
<1>4. /\ call' \in [CallId -> Asked \cup {Pages!Free}] /\ call'[k] = new
      /\ \A j \in CallId \ {k} : call'[j] = call[j] \/ call'[j] = Pages!Free
  BY <1>1, <1>2, <1>3 DEF CallsBut
<1>5. PICK q \in Paged : /\ page' = q /\ q.bar = p.bar /\ q.shown = p.shown /\ q.expires = p.expires
                         /\ q.synced = p.synced /\ q.start = p.start /\ q.timer \in {"none", "deadline"}
  BY <1>1 DEF Paged
<1>6. PageType'
  BY <1>1, <1>4, <1>5 DEF PageInv, PageType
<1>7. \A x \in Challenge : Behind(x)'
  BY DEF PageInv, Behind, Pages!Up
<1>8. \A j \in CallId : Truthful(j)'
  <2> SUFFICES ASSUME NEW j \in CallId
               PROVE  Truthful(j)'
    OBVIOUS
  <2>1. call'[j] = call[j] \/ call'[j].pc # "answered"
    BY <1>3, <1>4 DEF Pages!Free
  <2> QED
    BY <2>1, TruthStays DEF PageInv
<1>9. Waits'
  <2>1. call'[k] # Pages!Free /\ call'[k].of = c /\ call'[k].pc = "asked" /\ call'[k].path = path
    BY <1>3, <1>4 DEF Pages!Free
  <2>2. path = "first" => page' = Pages!Blank
    <3>1. p.timer = "none" => [p EXCEPT !.timer = "none"] = p
      BY DEF Paged
    <3>2. Pages!Blank.timer = "none"
      BY DEF Pages!Blank
    <3> QED
      BY <1>1, <3>1, <3>2
  <2> QED
    BY <2>1, <2>2, <1>1, <1>5 DEF Waits
<1>10. Fits(page, view, known[view])'
  BY <1>5 DEF Fits, Shows
<1>11. pending' # NoCall /\ view' # NoView /\ page'.timer \notin {"again", "poll"}
  BY <1>1, <1>5
<1> QED
  BY <1>6, <1>7, <1>8, <1>9, <1>10, <1>11 DEF PageInv

\* A page that waits for no call any more.
LEMMA PageRests ==
  ASSUME PageInv, NEW calls, CallsBut(calls), NEW p \in Paged, Pages!Rests(calls, p),
         NEW v \in Challenge \cup {NoView}, view' = v, server' = server,
         known' \in [Challenge -> Nat], \A c \in Challenge : Behind(c)', Fits(p, v, known'[v]),
         p.start # "free" => p.timer # "none"
  PROVE  PageInv'
<1>1. call' = calls /\ pending' = NoCall /\ page' = p
  BY DEF Pages!Rests
<1>2. PageType'
  BY <1>1 DEF PageInv, PageType, CallsBut
<1>3. \A j \in CallId : Truthful(j)'
  <2> SUFFICES ASSUME NEW j \in CallId
               PROVE  Truthful(j)'
    OBVIOUS
  <2>1. call'[j] = call[j] \/ call'[j].pc # "answered"
    BY <1>1 DEF Pages!Free, CallsBut
  <2> QED
    BY <2>1, TruthStays DEF PageInv
<1>4. Waits' /\ Fits(page, view, known[view])'
  BY <1>1 DEF Waits
<1> QED
  BY <1>1, <1>2, <1>3, <1>4 DEF PageInv

\* An instance that is shown is that of the view, with the lease of the answer.
LEMMA PageShows ==
  ASSUME NEW p \in Paged, NEW c \in Challenge, NEW a \in Answer
  PROVE  \E q \in Paged :
           /\ Pages!ShowConnection(p, c, a) = q
           /\ q.start = p.start /\ q.timer = p.timer /\ q.bar = "running"
           /\ Shows(q, c, a.lease)
<1>1. PICK q : q = Pages!ShowConnection(p, c, a)
  OBVIOUS
<1>2. PICK shown, expires :
        /\ shown \in (Challenge \X Nat) \cup {Pages!Nothing} /\ expires \in {0, a.lease} /\ expires \in Nat
        /\ shown # Pages!Nothing => shown = <<c, a.id>>
        /\ q = [p EXCEPT !.bar = "running", !.synced = TRUE, !.off = {}, !.shown = shown, !.expires = expires]
  <2>1. a.id \in Nat /\ a.lease \in Nat /\ <<c, a.id>> \in Challenge \X Nat
    BY DEF Answer
  <2>2. CASE Pages!RunOut(c, a.lease)
    BY <1>1, <2>1, <2>2 DEF Pages!ShowConnection
  <2>3. CASE ~Pages!RunOut(c, a.lease)
    BY <1>1, <2>1, <2>3 DEF Pages!ShowConnection
  <2> QED
    BY <2>2, <2>3
<1>3. /\ q \in Paged /\ q.start = p.start /\ q.timer = p.timer /\ q.bar = "running" /\ q.synced = TRUE
      /\ q.shown = shown /\ q.expires = expires
  BY <1>2 DEF Paged
<1>4. a.lease \in Nat
  BY DEF Answer
<1>5. Shows(q, c, a.lease)
  BY <1>2, <1>3, <1>4 DEF Shows
<1> QED
  BY <1>1, <1>3, <1>5

\* A countdown that is over takes back what is shown.
LEMMA PageExpires ==
  ASSUME NEW p \in Paged, NEW c, NEW least
  PROVE  \A off \in SUBSET {"renew", "stop"} :
           \E q \in Paged : /\ [Pages!Expired(p) EXCEPT !.off = off] = q
                            /\ q.start = p.start /\ q.timer = p.timer /\ q.bar = "start"
                            /\ q.shown = Pages!Nothing /\ q.expires = 0 /\ q.synced = FALSE
                            /\ Shows(q, c, least)
<1> SUFFICES ASSUME NEW off \in SUBSET {"renew", "stop"}
             PROVE  \E q \in Paged : /\ [Pages!Expired(p) EXCEPT !.off = off] = q
                                     /\ q.start = p.start /\ q.timer = p.timer /\ q.bar = "start"
                                     /\ q.shown = Pages!Nothing /\ q.expires = 0 /\ q.synced = FALSE
                                     /\ Shows(q, c, least)
  OBVIOUS
<1>1. PICK q : q = [Pages!Expired(p) EXCEPT !.off = off]
  OBVIOUS
<1>2. PICK nothing : nothing = Pages!Nothing
  OBVIOUS
<1>3. /\ q \in Paged /\ q.start = p.start /\ q.timer = p.timer /\ q.bar = "start"
      /\ q.shown = nothing /\ q.expires = 0 /\ q.synced = FALSE
  BY <1>1, <1>2 DEF Paged, Pages!Expired
<1> QED
  BY <1>1, <1>2, <1>3 DEF Shows

\* A status that is applied leaves nothing that is older than it, and a page that
\* shows no instance without the answer.
LEMMA PageApplies ==
  ASSUME NEW p \in Paged, NEW c \in Challenge, NEW a \in Answer, Pages!Tells(a),
         NEW least \in Nat, Shows(p, c, least), a.what = "up" => a.lease >= least
  PROVE  \E q \in Paged :
           /\ Pages!ApplyStatus(p, c, a) = q
           /\ q.start = p.start /\ q.timer = p.timer
           /\ a.what = "up" => Shows(q, c, a.lease)
           /\ a.what # "up" => \A later : Shows(q, c, later)
<1>1. CASE a.what = "absent"
  <2>1. Pages!ApplyStatus(p, c, a) = [Pages!Expired(p) EXCEPT !.off = {"renew"}]
    BY <1>1 DEF Pages!ApplyStatus, Pages!InstanceAbsent
  <2>2. PICK q \in Paged : /\ [Pages!Expired(p) EXCEPT !.off = {"renew"}] = q
                           /\ q.start = p.start /\ q.timer = p.timer /\ q.bar = "start"
                           /\ q.shown = Pages!Nothing /\ q.expires = 0 /\ q.synced = FALSE
    <3>1. {"renew"} \in SUBSET {"renew", "stop"}
      OBVIOUS
    <3> QED
      BY <3>1, PageExpires
  <2>3. \A later : Shows(q, c, later)
    BY <2>2 DEF Shows
  <2> QED
    BY <1>1, <2>1, <2>2, <2>3
<1>2. CASE a.what = "up" /\ (p.shown = Pages!Nothing \/ ~p.synced)
  <2>1. Pages!ApplyStatus(p, c, a) = Pages!ShowConnection(p, c, a)
    BY <1>2 DEF Pages!ApplyStatus
  <2>2. PICK q \in Paged :
          /\ Pages!ShowConnection(p, c, a) = q
          /\ q.start = p.start /\ q.timer = p.timer /\ Shows(q, c, a.lease)
    BY PageShows
  <2> QED
    BY <1>2, <2>1, <2>2
<1>3. CASE a.what = "up" /\ ~(p.shown = Pages!Nothing \/ ~p.synced)
  <2>1. p.synced /\ p.bar = "running" /\ a.lease \in Nat /\ p.expires \in Nat /\ p.shown[1] = c
    BY <1>3 DEF Shows, Paged, Answer
  <2>2. CASE a.lease # p.expires /\ Pages!RunOut(c, a.lease)
    <3>1. Pages!ApplyStatus(p, c, a) = [Pages!Expired(p) EXCEPT !.off = {}]
      BY <1>3, <2>2 DEF Pages!ApplyStatus
    <3>2. PICK q \in Paged : /\ [Pages!Expired(p) EXCEPT !.off = {}] = q
                             /\ q.start = p.start /\ q.timer = p.timer /\ Shows(q, c, a.lease)
      <4>1. {} \in SUBSET {"renew", "stop"}
        OBVIOUS
      <4> QED
        BY <4>1, PageExpires
    <3> QED
      BY <1>3, <3>1, <3>2
  <2>3. CASE a.lease = p.expires \/ ~Pages!RunOut(c, a.lease)
    <3>1. Pages!ApplyStatus(p, c, a) = [p EXCEPT !.off = {}, !.expires = a.lease]
      BY <1>3, <2>1, <2>3 DEF Pages!ApplyStatus, Paged
    <3>2. PICK q : q = [p EXCEPT !.off = {}, !.expires = a.lease]
      OBVIOUS
    <3>3. /\ q \in Paged /\ q.start = p.start /\ q.timer = p.timer /\ q.bar = p.bar /\ q.shown = p.shown
          /\ q.expires = a.lease /\ q.synced = p.synced
      BY <2>1, <3>2 DEF Paged
    <3>4. Shows(q, c, a.lease)
      BY <2>1, <3>3 DEF Shows
    <3> QED
      BY <1>3, <3>1, <3>2, <3>3, <3>4
  <2> QED
    BY <2>2, <2>3
<1> QED
  BY <1>1, <1>2, <1>3 DEF Pages!Tells

\* The answer of the call that is pending, and what the page learns from it.
LEMMA PageLearns ==
  ASSUME PageInv, NEW k \in CallId, k = pending, call[k].pc = "answered"
  PROVE  LET a == call[k].says
         IN /\ a \in Answer /\ view \in Challenge
            /\ a.what = "up" => a.lease >= known[view]
            /\ Pages!Tells(a) /\ Pages!Learns(view, a) /\ server' = server =>
                 /\ known' \in [Challenge -> Nat] /\ \A c \in Challenge : Behind(c)'
                 /\ a.what = "up" => known'[view] = a.lease
<1> USE PagesConstants
<1>1. PICK a : a = call[k].says
  OBVIOUS
<1>2. call[k].of = view /\ call[k] # Pages!Free /\ call[k] \in Asked
  BY DEF PageInv, Waits, PageType
<1>3. view \in Challenge
  BY <1>2 DEF Asked
<1>4. a \in Answer /\ Truthful(k) /\ (a.what = "up" => a.lease >= known[view])
  BY <1>1 DEF PageInv, Truthful, Waits
<1>5. ASSUME Pages!Tells(a), Pages!Learns(view, a), server' = server
      PROVE  /\ known' \in [Challenge -> Nat] /\ \A c \in Challenge : Behind(c)'
             /\ a.what = "up" => known'[view] = a.lease
  <2>1. PICK s : s = server[view] /\ s \in [id : Nat, lease : Nat, given : Nat, over : Nat]
    BY <1>3 DEF PageInv, PageType
  <2>2. /\ a.lease \in Nat /\ known[view] \in Nat /\ a.lease <= s.given
        /\ a.what = "absent" /\ s.lease # 0 => a.lease < s.given
    BY <1>1, <1>2, <1>3, <1>4, <1>5, <2>1 DEF Truthful, Answer, PageInv, PageType
  <2>3. known[view] <= s.given + 1 /\ (s.lease # 0 => s.lease = s.given /\ known[view] <= s.given)
    BY <1>3, <2>1 DEF PageInv, Behind, Pages!Up
  <2>4. PICK least \in Nat :
          /\ known' = [known EXCEPT ![view] = least]
          /\ least <= s.given + 1 /\ (s.lease # 0 => least <= s.given)
          /\ a.what = "up" => least = a.lease
    <3>1. PICK next \in Nat : next = IF a.what = "absent" THEN a.lease + 1 ELSE a.lease
      BY <2>2
    <3>2. PICK least \in Nat : least = IF next > known[view] THEN next ELSE known[view]
      BY <2>2
    <3>3. known' = [known EXCEPT ![view] = least]
      BY <1>5, <3>1, <3>2 DEF Pages!Learns
    <3>4. least <= s.given + 1 /\ (s.lease # 0 => least <= s.given)
      BY <2>1, <2>2, <2>3, <3>1, <3>2
    <3>5. a.what = "up" => least = a.lease
      BY <1>4, <2>2, <3>1, <3>2
    <3> QED
      BY <3>3, <3>4, <3>5
  <2>5. known' \in [Challenge -> Nat] /\ known'[view] = least
    BY <1>3, <2>4 DEF PageInv, PageType
  <2>6. ASSUME NEW c \in Challenge
        PROVE  Behind(c)'
    <3>1. CASE c = view
      BY <1>5, <2>1, <2>3, <2>4, <2>5, <3>1 DEF Behind, Pages!Up
    <3>2. CASE c # view
      BY <1>5, <2>4, <3>2 DEF Behind, Pages!Up, PageInv, PageType
    <3> QED
      BY <3>1, <3>2
  <2> QED
    BY <2>4, <2>5, <2>6
<1> QED
  BY <1>1, <1>3, <1>4, <1>5

\* Leases are given one after the other, and an instance has the last.
GoesOn(c) ==
  /\ server'[c].given >= server[c].given
  /\ server[c].lease = 0 /\ server'[c].lease # 0 => server'[c].given > server[c].given

\* What the server says of an instance is true then, and not older than what the page knows.
Fresh(a, c, s) ==
  /\ a \in Answer /\ a.lease <= s.given
  /\ a.what = "absent" => s.lease = 0
  /\ a.what = "up" => a.lease >= known[c]

\* An answer stays true while leases are given one after the other.
LEMMA TruthGoesOn ==
  ASSUME PageType, NEW k \in CallId, Truthful(k), server' \in [Challenge -> [id : Nat, lease : Nat, given : Nat, over : Nat]],
         \A c \in Challenge : GoesOn(c), call'[k] = call[k]
  PROVE  Truthful(k)'
<1> SUFFICES ASSUME call[k].pc = "answered"
             PROVE  Truthful(k)'
  BY DEF Truthful
<1>1. PICK a, s, t : a = call[k].says /\ s = server[call[k].of] /\ t = server'[call[k].of]
  OBVIOUS
<1>2. call[k].of \in Challenge
  BY DEF PageType, Asked, Pages!Free
<1>3. /\ s \in [id : Nat, lease : Nat, given : Nat, over : Nat]
      /\ t \in [id : Nat, lease : Nat, given : Nat, over : Nat]
      /\ t.given >= s.given
      /\ s.lease = 0 /\ t.lease # 0 => t.given > s.given
  BY <1>1, <1>2 DEF GoesOn, PageType
<1>4. /\ a \in Answer
      /\ Pages!Tells(a) => a.lease <= s.given
      /\ a.what = "absent" /\ s.lease # 0 => a.lease < s.given
  BY <1>1 DEF Truthful
<1>5. a.lease \in Nat /\ s.given \in Nat /\ t.given \in Nat
  BY <1>3, <1>4 DEF Answer
<1>6. /\ Pages!Tells(a) => a.lease <= t.given
      /\ a.what = "absent" /\ t.lease # 0 => a.lease < t.given
  BY <1>3, <1>4, <1>5 DEF Pages!Tells
<1> QED
  BY <1>1, <1>4, <1>6 DEF Truthful

\* The instance there is, its lease and the leases given.
Serving(c, id, lease, given) ==
  server' = [server EXCEPT ![c].id = id, ![c].lease = lease, ![c].given = given]

\* An instance that begins, is renewed or stops.
LEMMA PageServes ==
  ASSUME PageInv, NEW c \in Challenge, Pages!Creates(c) \/ Pages!Renews(c) \/ Pages!Stops(c), known' = known
  PROVE  /\ server' \in [Challenge -> [id : Nat, lease : Nat, given : Nat, over : Nat]]
         /\ \A x \in Challenge : Behind(x)' /\ GoesOn(x)
         /\ Fresh(Pages!There(server'[c]), c, server'[c])
<1>1. PICK s : /\ s = server[c] /\ s \in [id : Nat, lease : Nat, given : Nat, over : Nat]
               /\ s.given \in Nat /\ s.lease \in Nat
  BY DEF PageInv, PageType
<1>2. known[c] \in Nat /\ known[c] <= s.given + 1 /\ (s.lease # 0 => s.lease = s.given /\ known[c] <= s.given)
  BY <1>1 DEF PageInv, PageType, Behind, Pages!Up
<1>3. PICK id, lease, given \in Nat :
        /\ Serving(c, id, lease, given)
        /\ \/ lease = s.given + 1 /\ given = lease
           \/ lease = 0 /\ given = s.given /\ s.lease # 0
  <2>1. /\ Pages!NextLease(c) = s.given + 1 /\ s.given + 1 \in Nat /\ s.id \in Nat
        /\ s.given + 1 > s.given /\ ~(0 > s.given)
    BY <1>1 DEF Pages!NextLease
  <2>2. ASSUME NEW i \in Nat, Pages!Serves(c, i, s.given + 1)
        PROVE  Serving(c, i, s.given + 1, s.given + 1)
    BY <1>1, <2>1, <2>2 DEF Pages!Serves, Serving, PageInv, PageType
  <2>3. Pages!Serves(c, 0, 0) => Serving(c, 0, 0, s.given)
    BY <1>1, <2>1 DEF Pages!Serves, Serving, PageInv, PageType
  <2>4. CASE Pages!Creates(c)
    <3>1. Serving(c, s.given + 1, s.given + 1, s.given + 1)
      BY <2>1, <2>2, <2>4 DEF Pages!Creates
    <3> QED
      BY <2>1, <3>1
  <2>5. CASE Pages!Renews(c)
    <3>1. Serving(c, s.id, s.given + 1, s.given + 1)
      BY <1>1, <2>1, <2>2, <2>5 DEF Pages!Renews
    <3> QED
      BY <2>1, <3>1
  <2>6. CASE Pages!Stops(c)
    <3>1. Serving(c, 0, 0, s.given) /\ s.lease # 0
      BY <1>1, <2>3, <2>6 DEF Pages!Stops, Pages!Up
    <3> QED
      BY <1>1, <3>1
  <2> QED
    BY <2>4, <2>5, <2>6
<1>4. PICK t : /\ t = server'[c] /\ t \in [id : Nat, lease : Nat, given : Nat, over : Nat]
               /\ t.id = id /\ t.lease = lease /\ t.given = given
  <2>1. PICK t : t = [s EXCEPT !.id = id, !.lease = lease, !.given = given]
    OBVIOUS
  <2>2. /\ t \in [id : Nat, lease : Nat, given : Nat, over : Nat]
        /\ t.id = id /\ t.lease = lease /\ t.given = given
    BY <1>1, <2>1
  <2>3. server' = [server EXCEPT ![c] = t]
    BY <1>1, <1>3, <2>1 DEF Serving, PageInv, PageType
  <2> QED
    BY <2>2, <2>3 DEF PageInv, PageType
<1>5. /\ server' \in [Challenge -> [id : Nat, lease : Nat, given : Nat, over : Nat]]
      /\ \A x \in Challenge \ {c} : server'[x] = server[x]
  BY <1>3, <1>4 DEF Serving, PageInv, PageType
<1>6. ASSUME NEW x \in Challenge
      PROVE  Behind(x)' /\ GoesOn(x)
  <2>1. CASE x = c
    BY <1>1, <1>2, <1>3, <1>4, <2>1 DEF Behind, GoesOn, Pages!Up
  <2>2. CASE x # c
    BY <1>5, <2>2 DEF Behind, GoesOn, Pages!Up, PageInv, PageType
  <2> QED
    BY <2>1, <2>2
<1>7. Fresh(Pages!There(t), c, t)
  <2>1. CASE t.lease = 0
    BY <1>4, <2>1 DEF Fresh, Pages!There, Answer
  <2>2. CASE t.lease # 0
    BY <1>1, <1>2, <1>3, <1>4, <2>2 DEF Fresh, Pages!There, Answer
  <2> QED
    BY <2>1, <2>2
<1> QED
  BY <1>4, <1>5, <1>6, <1>7

\* What changes at the server alone.
LEMMA PageElsewhere ==
  ASSUME PageInv, server' \in [Challenge -> [id : Nat, lease : Nat, given : Nat, over : Nat]],
         \A c \in Challenge : Behind(c)' /\ GoesOn(c), UNCHANGED <<call, view, pending, page, known>>
  PROVE  PageInv'
<1>1. \A k \in CallId : Truthful(k)'
  BY TruthGoesOn DEF PageInv
<1>2. PageType'
  BY DEF PageInv, PageType
<1>3. Waits' /\ Fits(page, view, known[view])'
  BY DEF PageInv, Waits
<1> QED
  BY <1>1, <1>2, <1>3 DEF PageInv

\* A call is answered, with what the server makes of it or with no.
LEMMA PageAnswers ==
  ASSUME PageInv, NEW k \in CallId, Pages!Answers(k)
  PROVE  PageInv'
<1> USE PagesConstants
<1>1. PICK c : c = call[k].of
  OBVIOUS
<1>2. /\ call[k].pc = "asked" /\ UNCHANGED <<view, pending, page, known>>
      /\ call[k] \in Asked /\ c \in Challenge
  BY <1>1 DEF Pages!Answers, PageInv, PageType, Pages!Free, Asked
<1>3. PICK a : /\ call' = [call EXCEPT ![k].pc = "answered", ![k].says = a]
               /\ \/ /\ server' = server \/ Pages!Creates(c) \/ Pages!Renews(c) \/ Pages!Stops(c)
                     /\ a = Pages!There(server'[c])
                  \/ server' = server /\ a \in Answer /\ a.what \in {"no", "later"} /\ a.lease = 0
  <2> DEFINE says(a) == call' = [call EXCEPT ![k].pc = "answered", ![k].says = a]
             no    == [what |-> "no", id |-> 0, lease |-> 0]
             later == [what |-> "later", id |-> 0, lease |-> 0]
  <2>1. \/ UNCHANGED server /\ says(Pages!There(server[c]))
        \/ (Pages!Creates(c) \/ Pages!Renews(c) \/ Pages!Stops(c)) /\ says(Pages!There(server'[c]))
        \/ UNCHANGED server /\ says(no)
        \/ UNCHANGED server /\ says(later)
    BY <1>1 DEF Pages!Answers
  <2>2. /\ no \in Answer /\ no.what = "no" /\ no.lease = 0
        /\ later \in Answer /\ later.what = "later" /\ later.lease = 0
    BY DEF Answer
  <2> QED
    BY <2>1, <2>2
<1>4. /\ server' \in [Challenge -> [id : Nat, lease : Nat, given : Nat, over : Nat]]
      /\ \A x \in Challenge : Behind(x)' /\ GoesOn(x)
      /\ Fresh(a, c, server'[c])
  <2>1. CASE server' = server
    <3>1. /\ server' \in [Challenge -> [id : Nat, lease : Nat, given : Nat, over : Nat]]
          /\ \A x \in Challenge : Behind(x)' /\ GoesOn(x)
      BY <1>2, <2>1 DEF PageInv, PageType, Behind, GoesOn, Pages!Up
    <3>2. PICK s : /\ s = server[c] /\ s \in [id : Nat, lease : Nat, given : Nat, over : Nat]
                   /\ s.lease # 0 => s.lease = s.given /\ known[c] <= s.given
      BY <1>2 DEF PageInv, PageType, Behind, Pages!Up
    <3>3. Fresh(Pages!There(s), c, s)
      <4>1. CASE s.lease = 0
        BY <3>2, <4>1 DEF Fresh, Pages!There, Answer
      <4>2. CASE s.lease # 0
        BY <1>2, <3>2, <4>2 DEF Fresh, Pages!There, Answer, PageInv, PageType
      <4> QED
        BY <4>1, <4>2
    <3>4. a \in Answer /\ a.what \in {"no", "later"} /\ a.lease = 0 => Fresh(a, c, s)
      BY <3>2 DEF Fresh
    <3>5. Fresh(a, c, s)
      <4>1. CASE a = Pages!There(s)
        BY <3>3, <4>1
      <4>2. CASE a \in Answer /\ a.what \in {"no", "later"} /\ a.lease = 0
        BY <3>4, <4>2
      <4> QED
        BY <1>3, <2>1, <3>2, <4>1, <4>2
    <3> QED
      BY <2>1, <3>1, <3>2, <3>5
  <2>2. CASE server' # server
    <3>1. (Pages!Creates(c) \/ Pages!Renews(c) \/ Pages!Stops(c)) /\ a = Pages!There(server'[c])
      BY <1>3, <2>2
    <3> QED
      BY <1>2, <3>1, PageServes
  <2> QED
    BY <2>1, <2>2
<1>5. a \in Answer
  BY <1>4 DEF Fresh
<1>6. /\ call' \in [CallId -> Asked \cup {Pages!Free}]
      /\ call'[k] \in Asked /\ call'[k].pc = "answered" /\ call'[k].says = a
      /\ call'[k].of = c /\ call'[k].path = call[k].path
      /\ \A j \in CallId \ {k} : call'[j] = call[j]
  <2>1. PICK new : new = [call[k] EXCEPT !.pc = "answered", !.says = a]
    OBVIOUS
  <2>2. /\ new \in Asked /\ new.pc = "answered" /\ new.says = a /\ new.of = c /\ new.path = call[k].path
    BY <1>1, <1>2, <1>5, <2>1 DEF Asked
  <2>3. call' = [call EXCEPT ![k] = new]
    BY <1>2, <1>3, <2>1 DEF PageInv, PageType
  <2> QED
    BY <2>2, <2>3 DEF PageInv, PageType
<1>7. PageType'
  BY <1>2, <1>4, <1>6 DEF PageInv, PageType
<1>8. ASSUME NEW j \in CallId
      PROVE  Truthful(j)'
  <2>1. CASE j = k
    BY <1>4, <1>5, <1>6, <2>1 DEF Truthful, Fresh
  <2>2. CASE j # k
    BY <1>4, <1>6, <2>2, TruthGoesOn DEF PageInv
  <2> QED
    BY <2>1, <2>2
<1>9. Waits'
  <2>1. CASE pending = k
    <3>1. c = view /\ call'[k] # Pages!Free
      BY <1>1, <1>6, <2>1 DEF PageInv, Waits, Pages!Free
    <3>2. a.what = "up" => a.lease >= known[view]
      BY <1>4, <3>1 DEF Fresh
    <3> QED
      BY <1>2, <1>6, <2>1, <3>1, <3>2 DEF PageInv, Waits
  <2>2. CASE pending # k
    BY <1>2, <1>6, <2>2 DEF PageInv, Waits, PageType
  <2> QED
    BY <2>1, <2>2
<1>10. Fits(page, view, known[view])'
  BY <1>2 DEF PageInv
<1> QED
  BY <1>2, <1>4, <1>7, <1>8, <1>9, <1>10 DEF PageInv

\* The page when the deadline of its call is over.
LEMMA PageHeard ==
  ASSUME PageInv
  PROVE  \E h \in Paged :
           /\ h = Pages!Heard
           /\ h.bar = page.bar /\ h.shown = page.shown /\ h.expires = page.expires
           /\ h.synced = page.synced /\ h.start = page.start /\ h.timer = "none"
           /\ Shows(h, view, known[view]) /\ Shows(page, view, known[view])
           /\ h.start # "free" => h.bar # "running"
           /\ page = Pages!Blank => h = Pages!Blank
<1>1. page \in Paged
  BY DEF PageInv, PageType
<1>2. PICK h : h = Pages!Heard
  OBVIOUS
<1>3. /\ h \in Paged /\ h.bar = page.bar /\ h.shown = page.shown /\ h.expires = page.expires
      /\ h.synced = page.synced /\ h.start = page.start /\ h.timer = "none"
  BY <1>1, <1>2 DEF Pages!Heard, Paged
<1>4. Shows(h, view, known[view]) /\ Shows(page, view, known[view]) /\ (h.start # "free" => h.bar # "running")
  BY <1>3 DEF PageInv, Fits, Shows
<1>5. page = Pages!Blank => h = Pages!Blank
  <2>1. page.timer = "none" => [page EXCEPT !.timer = "none"] = page
    BY <1>1 DEF Paged
  <2>2. Pages!Blank.timer = "none"
    BY DEF Pages!Blank
  <2> QED
    BY <1>2, <2>1, <2>2 DEF Pages!Heard
<1> QED
  BY <1>2, <1>3, <1>4, <1>5

\* The call that is pending, and its answer.
LEMMA PageHears ==
  ASSUME PageInv, NEW k \in CallId, NEW path, Pages!Hears(k, path)
  PROVE  /\ k = pending /\ call[k].pc = "answered" /\ call[k].path = path
         /\ CallsBut(Pages!Without(k)) /\ view \in Challenge /\ call[k].says \in Answer
         /\ path = "first" => page = Pages!Blank
         /\ path \in {"start", "check"} <=> page.start # "free"
<1> USE PagesConstants
<1>1. k = pending /\ call[k].pc = "answered" /\ call[k].path = path
  BY DEF Pages!Hears, Pages!Current
<1>2. CallsBut(Pages!Without(k))
  BY CallsWithout DEF PageInv
<1>3. view \in Challenge /\ call[k].says \in Answer
  BY <1>1, PageLearns
<1> QED
  BY <1>1, <1>2, <1>3 DEF PageInv, Waits

\* A call that fails is of the view that is open.
LEMMA PageFails ==
  ASSUME PageInv, NEW path, Pages!Fails(path)
  PROVE  /\ view \in Challenge /\ CallsBut(call)
         /\ path = "first" => page = Pages!Blank
         /\ path \in {"start", "check"} <=> page.start # "free"
<1> USE PagesConstants
<1>1. pending \in CallId /\ call[pending] # Pages!Free /\ call[pending] \in Asked /\ call[pending].path = path
  BY DEF Pages!Fails, PageInv, PageType, Waits
<1>2. view \in Challenge
  BY <1>1 DEF Asked, PageInv, Waits
<1>3. CallsBut(call)
  BY <1>1, CallsWithout DEF PageInv
<1> QED
  BY <1>1, <1>2, <1>3 DEF PageInv, Waits

\* A page that has a bar of buttons is that of a view.
LEMMA PageOfView ==
  ASSUME PageInv, page.bar # "hidden" \/ page.synced \/ page.timer \in {"again", "poll"} \/ page.shown # Pages!Nothing
  PROVE  view \in Challenge /\ page # Pages!Blank
<1>1. page # Pages!Blank
  BY DEF Pages!Blank
<1> QED
  BY <1>1 DEF PageInv, PageType, Fits

\* The page of a challenge that was just opened.
LEMMA BlankIs ==
  /\ Pages!Blank \in Paged /\ Pages!Blank.start = "free" /\ Pages!Blank.timer = "none"
  /\ \A v, least : Fits(Pages!Blank, v, least) /\ Shows(Pages!Blank, v, least)
<1>1. PICK nothing : nothing = Pages!Nothing
  OBVIOUS
<1>2. PICK b : b = Pages!Blank
  OBVIOUS
<1>3. {} \in SUBSET {"renew", "stop"}
  OBVIOUS
<1>4. /\ b \in Paged /\ b.start = "free" /\ b.timer = "none" /\ b.bar = "hidden" /\ b.shown = nothing
      /\ b.expires = 0 /\ b.synced = FALSE
  BY <1>1, <1>2, <1>3 DEF Paged, Pages!Blank
<1>5. \A v, least : Shows(b, v, least)
  BY <1>1, <1>4 DEF Shows
<1>6. \A v, least : Fits(b, v, least)
  BY <1>2, <1>4, <1>5 DEF Fits
<1> QED
  BY <1>2, <1>4, <1>5, <1>6

\* What the page does by itself, without a call.
LEMMA PageTurns ==
  ASSUME PageInv, NEW p \in Paged, page' = p, UNCHANGED <<server, call, view, pending, known>>,
         page # Pages!Blank, view \in Challenge, Shows(p, view, known[view]),
         p.start = page.start, p.timer = page.timer, p.start # "free" => p.bar # "running"
  PROVE  PageInv'
<1> USE PagesConstants
<1>1. PageType'
  BY DEF PageInv, PageType
<1>2. \A c \in Challenge : Behind(c)'
  BY DEF PageInv, Behind, Pages!Up
<1>3. \A k \in CallId : Truthful(k)'
  BY DEF PageInv, Truthful
<1>4. Waits'
  BY DEF PageInv, Waits
<1>5. Fits(page, view, known[view])'
  BY DEF PageInv, Fits
<1> QED
  BY <1>1, <1>2, <1>3, <1>4, <1>5 DEF PageInv

\* An answer that is not heard, and is forgotten.
LEMMA PageForgets ==
  ASSUME PageInv, NEW k \in CallId, Pages!Unheard(k)
  PROVE  PageInv'
<1>1. /\ k # pending /\ call' = [call EXCEPT ![k] = Pages!Free] /\ UNCHANGED <<server, view, pending, page, known>>
  BY DEF Pages!Unheard
<1>2. PageType'
  BY <1>1 DEF PageInv, PageType
<1>3. \A c \in Challenge : Behind(c)'
  BY <1>1 DEF PageInv, Behind, Pages!Up
<1>4. ASSUME NEW j \in CallId
      PROVE  Truthful(j)'
  <2>1. call'[j] = call[j] \/ call'[j].pc # "answered"
    BY <1>1 DEF PageInv, PageType, Pages!Free
  <2> QED
    BY <1>1, <2>1, TruthStays DEF PageInv
<1>5. Waits'
  <2>1. pending # NoCall => call'[pending] = call[pending]
    BY <1>1 DEF PageInv, PageType
  <2> QED
    BY <1>1, <2>1 DEF PageInv, Waits
<1>6. Fits(page, view, known[view])'
  BY <1>1 DEF PageInv
<1> QED
  BY <1>1, <1>2, <1>3, <1>4, <1>5, <1>6 DEF PageInv

\* A page that waits for no call any more, of the same view: what is known of it may
\* have changed with the answer.
LEMMA PageSettles ==
  ASSUME PageInv, NEW calls, CallsBut(calls), NEW p \in Paged, Pages!Rests(calls, p),
         view \in Challenge, UNCHANGED <<server, view>>,
         known' = known \/ (known' \in [Challenge -> Nat] /\ \A c \in Challenge : Behind(c)'),
         Shows(p, view, known'[view]),
         p.start # "free" => p.timer # "none" /\ p.bar # "running",
         p.timer \in {"again", "poll"} => p.start # "free"
  PROVE  PageInv'
<1> USE PagesConstants
<1>1. known' \in [Challenge -> Nat] /\ \A c \in Challenge : Behind(c)'
  BY DEF PageInv, PageType, Behind, Pages!Up
<1>2. Fits(p, view, known'[view])
  BY DEF Fits
<1>3. PICK v \in Challenge \cup {NoView} : v = view
  OBVIOUS
<1> QED
  BY <1>1, <1>2, <1>3, PageRests

\* A start that is over, and the page is as before.
LEMMA PageStartsOver ==
  ASSUME NEW p \in Paged
  PROVE  \E r \in Paged : /\ r = Pages!StartOver(p) /\ r.start = "free" /\ r.timer = p.timer
                          /\ r.bar = p.bar /\ r.shown = p.shown /\ r.expires = p.expires /\ r.synced = p.synced
<1>1. PICK r : r = Pages!StartOver(p)
  OBVIOUS
<1>2. PICK zero \in Int : zero = 0
  OBVIOUS
<1>3. r \in Paged
  <2>1. r = [p EXCEPT !.start = "free", !.patience = zero]
    BY <1>1, <1>2 DEF Pages!StartOver
  <2> QED
    BY <2>1 DEF Paged
<1>4. /\ r.start = "free" /\ r.timer = p.timer
      /\ r.bar = p.bar /\ r.shown = p.shown /\ r.expires = p.expires /\ r.synced = p.synced
  BY <1>1 DEF Pages!StartOver, Paged
<1> QED
  BY <1>1, <1>3, <1>4

\* An answer that is shown: the instance, with its lease.
LEMMA PageShown ==
  ASSUME PageInv, NEW k \in CallId, NEW path, Pages!Hears(k, path), NEW h \in Paged, h.timer = "none",
         call[k].says.what = "up", Pages!Learns(view, call[k].says), UNCHANGED <<server, view>>,
         \/ Pages!Rests(Pages!Without(k), Pages!StartOver(Pages!ShowConnection(h, view, call[k].says)))
         \/ h.start = "free" /\ Pages!Rests(Pages!Without(k), Pages!ShowConnection(h, view, call[k].says))
  PROVE  PageInv'
<1>1. PICK a \in Answer : a = call[k].says
  BY PageHears
<1>2. view \in Challenge /\ CallsBut(Pages!Without(k)) /\ k = pending /\ call[k].pc = "answered"
  BY PageHears
<1>3. known' \in [Challenge -> Nat] /\ (\A c \in Challenge : Behind(c)') /\ known'[view] = a.lease
  BY <1>1, <1>2, PageLearns DEF Pages!Tells
<1>4. PICK q \in Paged : /\ Pages!ShowConnection(h, view, a) = q
                         /\ q.start = h.start /\ q.timer = "none" /\ q.bar = "running"
                         /\ Shows(q, view, a.lease)
  BY <1>2, PageShows
<1>5. CASE Pages!Rests(Pages!Without(k), q) /\ h.start = "free"
  BY <1>2, <1>3, <1>4, <1>5, PageSettles
<1>6. CASE Pages!Rests(Pages!Without(k), Pages!StartOver(q))
  <2>1. PICK r \in Paged : /\ r = Pages!StartOver(q) /\ r.start = "free" /\ r.timer = q.timer
                           /\ r.bar = q.bar /\ r.shown = q.shown /\ r.expires = q.expires /\ r.synced = q.synced
    BY PageStartsOver
  <2>2. r.timer = "none"
    BY <1>4, <2>1
  <2>3. Shows(r, view, a.lease)
    BY <1>4, <2>1 DEF Shows
  <2> QED
    BY <1>2, <1>3, <1>6, <2>1, <2>2, <2>3, PageSettles
<1> QED
  BY <1>1, <1>4, <1>5, <1>6

\* A challenge is opened, and its page told of the instance, or not.
LEMMA PageOpens ==
  ASSUME PageInv,
         \/ \E c \in Challenge : Pages!Opens(c)
         \/ Pages!Closes \/ Pages!OpensToNothing
         \/ \E k \in CallId : Pages!OpensTo(k)
  PROVE  PageInv'
<1> USE PagesConstants, BlankIs
<1>1. ASSUME NEW c \in Challenge, Pages!Opens(c)
      PROVE  PageInv'
  <2>1. view' = c /\ Pages!Fetch(c, "first", call, Pages!Blank) /\ UNCHANGED <<server, known>>
    BY <1>1 DEF Pages!Opens
  <2>2. CallsBut(call)
    BY DEF CallsBut, PageInv, PageType
  <2> QED
    BY <2>1, <2>2, PageFetches
<1>2. CASE Pages!Closes
  <2>1. view' = NoView /\ Pages!Rests(call, Pages!Blank) /\ UNCHANGED <<server, known>>
    BY <1>2 DEF Pages!Closes, Pages!Rests
  <2>2. CallsBut(call) /\ known' \in [Challenge -> Nat] /\ \A c \in Challenge : Behind(c)'
    BY <2>1 DEF CallsBut, PageInv, PageType, Behind, Pages!Up
  <2>3. NoView \in Challenge \cup {NoView}
    OBVIOUS
  <2> QED
    BY <2>1, <2>2, <2>3, PageRests
<1>3. CASE Pages!OpensToNothing
  <2>1. Pages!Fails("first") /\ Pages!Rests(call, page) /\ UNCHANGED <<server, view, known>>
    BY <1>3 DEF Pages!OpensToNothing
  <2>2. view \in Challenge /\ CallsBut(call) /\ page = Pages!Blank
    BY <2>1, PageFails
  <2> QED
    BY <2>1, <2>2, PageSettles
<1>4. ASSUME NEW k \in CallId, Pages!OpensTo(k)
      PROVE  PageInv'
  <2>1. Pages!Hears(k, "first") /\ UNCHANGED <<server, view>>
    BY <1>4 DEF Pages!OpensTo
  <2>2. PICK a \in Answer : a = call[k].says
    BY <2>1, PageHears
  <2>3. /\ view \in Challenge /\ CallsBut(Pages!Without(k)) /\ k = pending /\ call[k].pc = "answered"
        /\ page = Pages!Blank
    BY <2>1, PageHears
  <2>4. Pages!Heard = Pages!Blank
    BY <2>3, PageHeard
  <2>5. CASE a.what = "up"
    <3>1. Pages!Rests(Pages!Without(k), Pages!ShowConnection(Pages!Blank, view, a)) /\ Pages!Learns(view, a)
      BY <1>4, <2>2, <2>4, <2>5 DEF Pages!OpensTo, Pages!Tells
    <3> QED
      BY <2>1, <2>2, <2>5, <3>1, PageShown
  <2>6. CASE a.what = "absent"
    <3>1. /\ Pages!Rests(Pages!Without(k), [Pages!Blank EXCEPT !.bar = "start"]) /\ Pages!Learns(view, a)
      BY <1>4, <2>2, <2>4, <2>6 DEF Pages!OpensTo, Pages!Tells
    <3>2. known' \in [Challenge -> Nat] /\ (\A c \in Challenge : Behind(c)')
      BY <2>1, <2>2, <2>3, <2>6, <3>1, PageLearns DEF Pages!Tells
    <3>3. PICK q : q = [Pages!Blank EXCEPT !.bar = "start"]
      OBVIOUS
    <3>4. /\ q \in Paged /\ q.bar = "start" /\ q.start = "free" /\ q.timer = "none" /\ q.shown = Pages!Blank.shown
          /\ q.expires = Pages!Blank.expires /\ q.synced = Pages!Blank.synced
      BY <3>3 DEF Paged
    <3>5. Pages!Blank.expires = 0 /\ Pages!Blank.synced = FALSE /\ Pages!Blank.shown = Pages!Nothing
      BY DEF Pages!Blank
    <3>6. Shows(q, view, known'[view])
      BY <3>4, <3>5 DEF Shows
    <3> QED
      BY <2>1, <2>3, <3>1, <3>2, <3>3, <3>4, <3>6, PageSettles
  <2>7. CASE a.what \notin {"up", "absent"}
    <3>1. Pages!Rests(Pages!Without(k), Pages!Blank) /\ known' = known
      BY <1>4, <2>2, <2>4, <2>7 DEF Pages!OpensTo, Pages!Tells
    <3> QED
      BY <2>1, <2>3, <3>1, PageSettles
  <2> QED
    BY <2>5, <2>6, <2>7
<1> QED
  BY <1>1, <1>2, <1>3, <1>4

\* The page is kept up to date while an instance is shown.
LEMMA PageSyncs ==
  ASSUME PageInv,
         \/ Pages!Submits \/ Pages!Tick \/ Pages!SyncNow \/ Pages!SyncFails
         \/ \E k \in CallId : Pages!Synced(k)
  PROVE  PageInv'
<1> USE PagesConstants
<1>0. page \in Paged /\ Fits(page, view, known[view]) /\ Shows(page, view, known[view]) /\ CallsBut(call)
  BY DEF PageInv, PageType, Fits, CallsBut
<1>1. CASE Pages!Submits
  <2>1. PICK p : p = [page EXCEPT !.shown = Pages!Nothing]
    OBVIOUS
  <2>2. PICK nothing : nothing = Pages!Nothing
    OBVIOUS
  <2>3. /\ p \in Paged /\ p.bar = page.bar /\ p.shown = nothing /\ p.expires = page.expires
        /\ p.synced = page.synced /\ p.start = page.start /\ p.timer = page.timer
    BY <1>0, <2>1, <2>2 DEF Paged
  <2>4. page.shown # Pages!Nothing /\ page' = p /\ UNCHANGED <<server, call, view, pending, known>>
    BY <1>1, <2>1 DEF Pages!Submits
  <2>5. Shows(p, view, known[view]) /\ (p.start # "free" => p.bar # "running")
    BY <1>0, <2>2, <2>3 DEF Shows, Fits
  <2>6. view \in Challenge /\ page # Pages!Blank
    BY <2>4, PageOfView
  <2> QED
    BY <2>3, <2>4, <2>5, <2>6, PageTurns
<1>2. CASE Pages!Tick
  <2>1. page.expires # 0 /\ page' = Pages!Expired(page) /\ UNCHANGED <<server, call, view, pending, known>>
    BY <1>2 DEF Pages!Tick
  <2>2. page.bar = "running"
    BY <1>0, <2>1 DEF Shows
  <2>3. PICK q \in Paged : /\ Pages!Expired(page) = q /\ q.start = page.start /\ q.timer = page.timer
                           /\ q.bar = "start" /\ Shows(q, view, known[view])
    <3>1. PICK q : q = Pages!Expired(page)
      OBVIOUS
    <3>2. PICK nothing : nothing = Pages!Nothing
      OBVIOUS
    <3>3. /\ q \in Paged /\ q.start = page.start /\ q.timer = page.timer /\ q.bar = "start"
          /\ q.shown = nothing /\ q.expires = 0 /\ q.synced = FALSE
      BY <1>0, <3>1, <3>2 DEF Paged, Pages!Expired
    <3> QED
      BY <3>1, <3>2, <3>3 DEF Shows
  <2>4. view \in Challenge /\ page # Pages!Blank
    BY <2>2, PageOfView
  <2> QED
    BY <2>1, <2>3, <2>4, PageTurns
<1>3. CASE Pages!SyncNow
  <2>1. page.synced /\ Pages!Fetch(view, "poll", call, page) /\ UNCHANGED <<server, view, known>>
    BY <1>3 DEF Pages!SyncNow
  <2>2. page.bar = "running" /\ page.start = "free"
    BY <1>0, <2>1 DEF Fits, Shows
  <2>3. view \in Challenge
    BY <2>2, PageOfView
  <2>4. PICK c \in Challenge : c = view
    BY <2>3
  <2> QED
    BY <1>0, <2>1, <2>2, <2>4, PageFetches
<1>4. CASE Pages!SyncFails
  <2>1. Pages!Fails("poll") /\ Pages!Rests(call, Pages!Heard) /\ UNCHANGED <<server, view, known>>
    BY <1>4 DEF Pages!SyncFails
  <2>2. view \in Challenge /\ page.start = "free"
    BY <2>1, PageFails
  <2> QED
    BY <1>0, <2>1, <2>2, PageHeard, PageSettles
<1>5. ASSUME NEW k \in CallId, Pages!Synced(k)
      PROVE  PageInv'
  <2>1. Pages!Hears(k, "poll") /\ UNCHANGED <<server, view>>
    BY <1>5 DEF Pages!Synced
  <2>2. PICK a \in Answer : a = call[k].says
    BY <2>1, PageHears
  <2>3. /\ view \in Challenge /\ CallsBut(Pages!Without(k)) /\ k = pending /\ call[k].pc = "answered"
        /\ page.start = "free"
    BY <2>1, PageHears
  <2>4. PICK h \in Paged : /\ h = Pages!Heard /\ h.start = "free" /\ h.timer = "none"
                           /\ Shows(h, view, known[view])
    BY <2>3, PageHeard
  <2>5. CASE known' = known /\ Pages!Rests(Pages!Without(k), h)
    BY <2>1, <2>3, <2>4, <2>5, PageSettles
  <2>6. CASE Pages!Tells(a) /\ Pages!Learns(view, a) /\ Pages!Rests(Pages!Without(k), Pages!ApplyStatus(h, view, a))
    <3>1. /\ known' \in [Challenge -> Nat] /\ \A c \in Challenge : Behind(c)'
          /\ a.what = "up" => a.lease >= known[view] /\ known'[view] = a.lease
      BY <2>1, <2>2, <2>3, <2>6, PageLearns
    <3>2. known[view] \in Nat
      BY <2>3 DEF PageInv, PageType
    <3>3. PICK q \in Paged : /\ Pages!ApplyStatus(h, view, a) = q
                             /\ q.start = h.start /\ q.timer = h.timer
                             /\ a.what = "up" => Shows(q, view, a.lease)
                             /\ a.what # "up" => \A later : Shows(q, view, later)
      BY <2>3, <2>4, <2>6, <3>1, <3>2, PageApplies
    <3>4. Shows(q, view, known'[view])
      BY <3>1, <3>3
    <3> QED
      BY <2>1, <2>3, <2>4, <2>6, <3>1, <3>3, <3>4, PageSettles
  <2> QED
    BY <1>5, <2>2, <2>4, <2>5, <2>6 DEF Pages!Synced
<1> QED
  BY <1>1, <1>2, <1>3, <1>4, <1>5

\* An attempt goes on with a page that only waits otherwise, or shows no bar.
LEMMA PageRemains ==
  ASSUME PageInv, NEW k \in CallId, NEW path, Pages!Hears(k, path), NEW p \in Paged,
         Pages!Rests(Pages!Without(k), p), UNCHANGED <<server, view>>, page.start # "free",
         known' = known \/ (known' \in [Challenge -> Nat] /\ \A c \in Challenge : Behind(c)'),
         p.bar \in {page.bar, "hidden"}, p.shown = page.shown, p.expires = page.expires, p.synced = page.synced,
         \/ p.start = "free" /\ p.timer = "none"
         \/ p.start # "free" /\ p.timer \in {"again", "poll"}
  PROVE  PageInv'
<1>1. view \in Challenge /\ CallsBut(Pages!Without(k))
  BY PageHears
<1>2. page.bar # "running" /\ page.expires = 0 /\ page.synced = FALSE
  BY DEF PageInv, Fits, Shows, PageType, Paged
<1>3. Shows(p, view, known'[view]) /\ p.bar # "running"
  BY <1>2 DEF PageInv, Fits, Shows
<1> QED
  BY <1>1, <1>3, PageSettles

\* The call for an instance, and the checks of what came of it.
LEMMA PageRequests ==
  ASSUME PageInv, view \in Challenge, page.bar # "running",
         NEW calls, CallsBut(calls), NEW p \in Paged, UNCHANGED <<server, view, known>>,
         p.bar = page.bar, p.shown \in {page.shown, Pages!Nothing}, p.expires = page.expires,
         p.synced = page.synced, p.start # "free",
         Pages!Fetch(view, "start", calls, p) \/ Pages!Fetch(view, "check", calls, p)
  PROVE  PageInv'
<1>1. PICK c \in Challenge : c = view
  OBVIOUS
<1>2. Shows(p, c, known[c])
  BY <1>1 DEF PageInv, Fits, Shows
<1> QED
  BY <1>1, <1>2, PageFetches

\* DoRequest, from a page that has no instance.
LEMMA PageAsks ==
  ASSUME PageInv, view \in Challenge, page.bar # "running", UNCHANGED <<server, view, known>>,
         NEW n \in Int, NEW timer \in {"none", "deadline", "again", "poll"},
         Pages!DoRequest([page EXCEPT !.timer = timer, !.patience = n])
  PROVE  PageInv'
<1>1. page \in Paged /\ CallsBut(call)
  BY DEF PageInv, PageType, CallsBut
<1>2. PICK nothing : nothing = Pages!Nothing
  OBVIOUS
<1>3. PICK p : p = [[page EXCEPT !.timer = timer, !.patience = n] EXCEPT !.start = "asking", !.shown = nothing]
  OBVIOUS
<1>4. /\ p \in Paged /\ p.bar = page.bar /\ p.shown = nothing /\ p.expires = page.expires
      /\ p.synced = page.synced /\ p.start = "asking"
  BY <1>1, <1>2, <1>3 DEF Paged
<1>5. Pages!Fetch(view, "start", call, p)
  BY <1>2, <1>3 DEF Pages!DoRequest
<1> QED
  BY <1>1, <1>2, <1>4, <1>5, PageRequests

\* Reconcile, from a page that has asked for an instance.
LEMMA PageReconciles ==
  ASSUME PageInv, view \in Challenge, page.start # "free", UNCHANGED <<server, view, known>>,
         Pages!Reconcile(Pages!Heard)
  PROVE  PageInv'
<1>1. page.bar # "running" /\ CallsBut(call)
  BY DEF PageInv, Fits, PageType, CallsBut
<1>2. PICK h \in Paged :
        /\ h = Pages!Heard
        /\ h.bar = page.bar /\ h.shown = page.shown /\ h.expires = page.expires
        /\ h.synced = page.synced /\ h.start = page.start /\ h.timer = "none"
        /\ Shows(h, view, known[view])
  BY PageHeard
<1>3. CASE h.patience = 0
  <2>1. PICK r \in Paged : /\ r = Pages!StartOver(h) /\ r.start = "free" /\ r.timer = h.timer
                           /\ r.bar = h.bar /\ r.shown = h.shown /\ r.expires = h.expires /\ r.synced = h.synced
    BY PageStartsOver
  <2>2. Pages!Rests(call, r)
    BY <1>2, <1>3, <2>1 DEF Pages!Reconcile
  <2>3. Shows(r, view, known[view])
    BY <1>2, <2>1 DEF Shows
  <2> QED
    BY <1>1, <1>2, <2>1, <2>2, <2>3, PageSettles
<1>4. CASE h.patience # 0
  <2>1. PICK n \in Int : n = h.patience - 1
    BY DEF Paged
  <2>2. PICK p : p = [h EXCEPT !.patience = n]
    OBVIOUS
  <2>3. Pages!Fetch(view, "check", call, p)
    BY <1>2, <1>4, <2>1, <2>2 DEF Pages!Reconcile
  <2>4. /\ p \in Paged /\ p.bar = h.bar /\ p.shown = h.shown /\ p.expires = h.expires
        /\ p.synced = h.synced /\ p.start = h.start
    BY <2>2 DEF Paged
  <2> QED
    BY <1>1, <1>2, <2>3, <2>4, PageRequests
<1> QED
  BY <1>3, <1>4

\* An instance is asked for, until there is one, or no more time.
LEMMA PageStarts ==
  ASSUME PageInv,
         \/ Pages!ContainerRequest \/ Pages!TriesAgain \/ Pages!StartFails \/ Pages!Polls \/ Pages!CheckFails
         \/ \E k \in CallId : Pages!Started(k) \/ Pages!Checked(k)
  PROVE  PageInv'
<1> USE PagesConstants
<1>0. PICK h \in Paged :
        /\ h = Pages!Heard
        /\ h.bar = page.bar /\ h.shown = page.shown /\ h.expires = page.expires
        /\ h.synced = page.synced /\ h.start = page.start /\ h.timer = "none"
        /\ Shows(h, view, known[view])
  BY PageHeard
<1>a. page \in Paged /\ Fits(page, view, known[view]) /\ CallsBut(call)
  BY DEF PageInv, PageType, CallsBut
<1>1. CASE Pages!ContainerRequest
  <2>1. /\ page.bar = "start" /\ UNCHANGED <<server, view, known>>
        /\ Pages!DoRequest([page EXCEPT !.patience = Patience])
    BY <1>1 DEF Pages!ContainerRequest
  <2>2. view \in Challenge
    BY <2>1, PageOfView
  <2>3. PICK timer \in {"none", "deadline", "again", "poll"} : timer = page.timer
    BY <1>a DEF Paged
  <2>4. [page EXCEPT !.patience = Patience] = [page EXCEPT !.timer = timer, !.patience = Patience]
    BY <1>a, <2>3 DEF Paged
  <2>5. PICK n \in Int : n = Patience
    OBVIOUS
  <2> QED
    BY <2>1, <2>2, <2>4, <2>5, PageAsks
<1>2. CASE Pages!TriesAgain
  <2>1. /\ page.timer = "again" /\ UNCHANGED <<server, view, known>>
        /\ \/ Pages!DoRequest([page EXCEPT !.timer = "none", !.patience = @ - 1])
           \/ page' = Pages!StartOver(Pages!Heard) /\ UNCHANGED <<call, pending>>
    BY <1>2 DEF Pages!TriesAgain
  <2>2. view \in Challenge /\ page.bar # "running" /\ pending = NoCall
    BY <1>a, <2>1, PageOfView DEF Fits, PageInv
  <2>3. CASE Pages!DoRequest([page EXCEPT !.timer = "none", !.patience = @ - 1])
    <3>1. PICK n \in Int : n = page.patience - 1
      BY <1>a DEF Paged
    <3>2. Pages!DoRequest([page EXCEPT !.timer = "none", !.patience = n])
      BY <1>a, <2>3, <3>1 DEF Paged
    <3> QED
      BY <2>1, <2>2, <3>2, PageAsks
  <2>4. CASE page' = Pages!StartOver(Pages!Heard) /\ UNCHANGED <<call, pending>>
    <3>1. PICK r \in Paged : /\ r = Pages!StartOver(h) /\ r.start = "free" /\ r.timer = h.timer
                             /\ r.bar = h.bar /\ r.shown = h.shown /\ r.expires = h.expires /\ r.synced = h.synced
      BY PageStartsOver
    <3>2. Pages!Rests(call, r)
      BY <1>0, <2>2, <2>4, <3>1 DEF Pages!Rests
    <3>3. Shows(r, view, known[view])
      BY <1>0, <3>1 DEF Shows
    <3> QED
      BY <1>0, <1>a, <2>1, <2>2, <3>1, <3>2, <3>3, PageSettles
  <2> QED
    BY <2>1, <2>3, <2>4
<1>3. CASE Pages!StartFails
  <2>1. Pages!Fails("start") /\ Pages!Reconcile(Pages!Heard) /\ UNCHANGED <<server, view, known>>
    BY <1>3 DEF Pages!StartFails
  <2>2. view \in Challenge /\ page.start # "free"
    BY <2>1, PageFails
  <2> QED
    BY <2>1, <2>2, PageReconciles
<1>4. CASE Pages!Polls
  <2>1. page.timer = "poll" /\ Pages!Reconcile(Pages!Heard) /\ UNCHANGED <<server, view, known>>
    BY <1>4 DEF Pages!Polls
  <2>2. view \in Challenge /\ page.start # "free"
    BY <1>a, <2>1, PageOfView DEF Fits
  <2> QED
    BY <2>1, <2>2, PageReconciles
<1>5. CASE Pages!CheckFails
  <2>1. Pages!Fails("check") /\ Pages!Rests(call, [page EXCEPT !.timer = "poll"]) /\ UNCHANGED <<server, view, known>>
    BY <1>5 DEF Pages!CheckFails
  <2>2. view \in Challenge /\ page.start # "free"
    BY <2>1, PageFails
  <2>3. PICK p : p = [page EXCEPT !.timer = "poll"]
    OBVIOUS
  <2>4. /\ p \in Paged /\ p.bar = page.bar /\ p.shown = page.shown /\ p.expires = page.expires
        /\ p.synced = page.synced /\ p.start = page.start /\ p.timer = "poll"
    BY <1>a, <2>3 DEF Paged
  <2>5. Shows(p, view, known[view]) /\ p.bar # "running"
    BY <1>a, <2>2, <2>4 DEF Fits, Shows
  <2> QED
    BY <1>a, <2>1, <2>2, <2>3, <2>4, <2>5, PageSettles
<1>6. ASSUME NEW k \in CallId, NEW path \in {"start", "check"}, Pages!Hears(k, path), UNCHANGED <<server, view>>,
             NEW a \in Answer, a = call[k].says
      PROVE  /\ \/ /\ a.what = "up" /\ Pages!Learns(view, a)
                   /\ Pages!Rests(Pages!Without(k), Pages!StartOver(Pages!ShowConnection(Pages!Heard, view, a)))
                \/ /\ UNCHANGED known
                   /\ \E bar \in {page.bar, "hidden"} :
                        Pages!Rests(Pages!Without(k), Pages!StartOver([Pages!Heard EXCEPT !.bar = bar]))
                \/ /\ UNCHANGED known /\ Pages!Rests(Pages!Without(k), Pages!StartOver(Pages!Heard))
                \/ /\ UNCHANGED known
                   /\ Pages!Rests(Pages!Without(k), [Pages!Heard EXCEPT !.start = "again", !.timer = "again"])
                \/ /\ UNCHANGED known \/ (Pages!Tells(a) /\ Pages!Learns(view, a))
                   /\ Pages!Rests(Pages!Without(k), [Pages!Heard EXCEPT !.timer = "poll"])
             => PageInv'
  <2>1. page.start # "free" /\ k = pending /\ call[k].pc = "answered"
    BY <1>6, PageHears
  <2>2. CASE /\ a.what = "up" /\ Pages!Learns(view, a)
             /\ Pages!Rests(Pages!Without(k), Pages!StartOver(Pages!ShowConnection(h, view, a)))
    BY <1>0, <1>6, <2>2, PageShown
  <2>3. ASSUME UNCHANGED known, NEW bar \in {page.bar, "hidden"},
               Pages!Rests(Pages!Without(k), Pages!StartOver([h EXCEPT !.bar = bar]))
        PROVE  PageInv'
    <3>1. PICK p : p = [h EXCEPT !.bar = bar]
      OBVIOUS
    <3>2. /\ p \in Paged /\ p.bar = bar /\ p.shown = h.shown /\ p.expires = h.expires
          /\ p.synced = h.synced /\ p.timer = h.timer
      BY <1>0, <1>a, <2>3, <3>1 DEF Paged
    <3>3. PICK r \in Paged : /\ r = Pages!StartOver(p) /\ r.start = "free" /\ r.timer = p.timer
                             /\ r.bar = p.bar /\ r.shown = p.shown /\ r.expires = p.expires /\ r.synced = p.synced
      BY <3>2, PageStartsOver
    <3> QED
      BY <1>0, <1>6, <2>1, <2>3, <3>1, <3>2, <3>3, PageRemains
  <2>4. CASE UNCHANGED known /\ Pages!Rests(Pages!Without(k), Pages!StartOver(h))
    <3>1. [h EXCEPT !.bar = page.bar] = h
      BY <1>0 DEF Paged
    <3> QED
      BY <2>3, <2>4, <3>1
  <2>5. CASE UNCHANGED known /\ Pages!Rests(Pages!Without(k), [h EXCEPT !.start = "again", !.timer = "again"])
    <3>1. PICK p : p = [h EXCEPT !.start = "again", !.timer = "again"]
      OBVIOUS
    <3>2. /\ p \in Paged /\ p.bar = h.bar /\ p.shown = h.shown /\ p.expires = h.expires
          /\ p.synced = h.synced /\ p.timer = "again" /\ p.start = "again"
      BY <3>1 DEF Paged
    <3> QED
      BY <1>0, <1>6, <2>1, <2>5, <3>1, <3>2, PageRemains
  <2>6. CASE /\ UNCHANGED known \/ (Pages!Tells(a) /\ Pages!Learns(view, a))
             /\ Pages!Rests(Pages!Without(k), [h EXCEPT !.timer = "poll"])
    <3>1. PICK p : p = [h EXCEPT !.timer = "poll"]
      OBVIOUS
    <3>2. /\ p \in Paged /\ p.bar = h.bar /\ p.shown = h.shown /\ p.expires = h.expires
          /\ p.synced = h.synced /\ p.timer = "poll" /\ p.start = h.start
      BY <3>1 DEF Paged
    <3>3. known' = known \/ (known' \in [Challenge -> Nat] /\ \A c \in Challenge : Behind(c)')
      BY <1>6, <2>1, <2>6, PageLearns
    <3> QED
      BY <1>0, <1>6, <2>1, <2>6, <3>1, <3>2, <3>3, PageRemains
  <2> QED
    BY <1>0, <2>2, <2>3, <2>4, <2>5, <2>6
<1>7. ASSUME NEW k \in CallId, Pages!Started(k)
      PROVE  PageInv'
  <2>1. Pages!Hears(k, "start") /\ UNCHANGED <<server, view>>
    BY <1>7 DEF Pages!Started
  <2>2. PICK a \in Answer : a = call[k].says
    BY <2>1, PageHears
  <2> QED
    BY <1>6, <1>7, <2>1, <2>2 DEF Pages!Started
<1>8. ASSUME NEW k \in CallId, Pages!Checked(k)
      PROVE  PageInv'
  <2>1. Pages!Hears(k, "check") /\ UNCHANGED <<server, view>>
    BY <1>8 DEF Pages!Checked
  <2>2. PICK a \in Answer : a = call[k].says
    BY <2>1, PageHears
  <2> QED
    BY <1>6, <1>8, <2>1, <2>2 DEF Pages!Checked, Pages!Tells
<1> QED
  BY <1>1, <1>2, <1>3, <1>4, <1>5, <1>7, <1>8

\* A call that may change the instance, and the one that asks what came of it.
LEMMA PageChanges ==
  ASSUME PageInv, view \in Challenge, page.start = "free", UNCHANGED <<server, view, known>>,
         NEW calls, CallsBut(calls), NEW off \in SUBSET {"renew", "stop"},
         \/ \E path \in {"renew", "outcome"} : Pages!Fetch(view, path, calls, [page EXCEPT !.off = off])
         \/ Pages!Fetch(view, "stop", calls, [page EXCEPT !.off = off, !.shown = Pages!Nothing])
  PROVE  PageInv'
<1>1. page \in Paged
  BY DEF PageInv, PageType
<1>2. PICK c \in Challenge : c = view
  OBVIOUS
<1>3. PICK nothing : nothing = Pages!Nothing
  OBVIOUS
<1>4. ASSUME NEW shown \in {page.shown, nothing},
             NEW path \in {"renew", "outcome", "stop"},
             Pages!Fetch(view, path, calls, [page EXCEPT !.off = off, !.shown = shown])
      PROVE  PageInv'
  <2>1. PICK p : p = [page EXCEPT !.off = off, !.shown = shown]
    OBVIOUS
  <2>2. p \in Paged
    BY <1>1, <1>3, <1>4, <2>1 DEF Paged
  <2>3. /\ p.bar = page.bar /\ p.shown = shown /\ p.expires = page.expires
        /\ p.synced = page.synced /\ p.start = "free"
    BY <1>1, <2>1 DEF Paged
  <2>4. Shows(p, c, known[c])
    BY <1>2, <1>3, <1>4, <2>3 DEF PageInv, Fits, Shows
  <2> QED
    BY <1>2, <1>4, <2>1, <2>2, <2>3, <2>4, PageFetches
<1>5. [page EXCEPT !.off = off] = [page EXCEPT !.off = off, !.shown = page.shown]
  BY <1>1 DEF Paged
<1> QED
  BY <1>3, <1>4, <1>5

\* An instance is renewed or stopped, or what came of that is asked for.
LEMMA PageMutates ==
  ASSUME PageInv,
         \/ Pages!ContainerRenew \/ Pages!ContainerStop \/ Pages!MutationFails \/ Pages!NeverSettled
         \/ \E k \in CallId : Pages!Renewed(k) \/ Pages!Stopped(k) \/ Pages!Settled(k)
  PROVE  PageInv'
<1> USE PagesConstants
<1>0. PICK h \in Paged :
        /\ h = Pages!Heard
        /\ h.bar = page.bar /\ h.shown = page.shown /\ h.expires = page.expires
        /\ h.synced = page.synced /\ h.start = page.start /\ h.timer = "none"
        /\ Shows(h, view, known[view])
  BY PageHeard
<1>a. /\ page \in Paged /\ page.off \in SUBSET {"renew", "stop"} /\ Fits(page, view, known[view])
      /\ CallsBut(call) /\ {"renew", "stop"} \in SUBSET {"renew", "stop"}
  BY DEF PageInv, PageType, CallsBut, Paged
<1>b. ASSUME NEW p \in Paged, p.bar = h.bar, p.shown \in {h.shown, Pages!Nothing}, p.expires = h.expires,
             p.synced = h.synced, p.start = "free", p.timer = "none", NEW calls, CallsBut(calls),
             Pages!Rests(calls, p), view \in Challenge, UNCHANGED <<server, view, known>>
      PROVE  PageInv'
  <2>1. Shows(p, view, known[view])
    BY <1>0, <1>b DEF Shows
  <2> QED
    BY <1>b, <2>1, PageSettles
<1>c. ASSUME NEW calls, CallsBut(calls), page.start = "free", view \in Challenge, UNCHANGED <<server, view, known>>,
             Pages!Rests(calls, Pages!MutationUnknown(h))
      PROVE  PageInv'
  <2>1. PICK nothing : nothing = Pages!Nothing
    OBVIOUS
  <2>2. PICK p : p = [h EXCEPT !.off = {"renew", "stop"}, !.shown = nothing]
    OBVIOUS
  <2>3. /\ p \in Paged /\ p.bar = h.bar /\ p.shown = nothing /\ p.expires = h.expires
        /\ p.synced = h.synced /\ p.start = h.start /\ p.timer = h.timer
    BY <1>a, <2>1, <2>2 DEF Paged
  <2>4. p = Pages!MutationUnknown(h)
    BY <2>1, <2>2 DEF Pages!MutationUnknown
  <2> QED
    BY <1>0, <1>b, <1>c, <2>1, <2>3, <2>4
<1>1. CASE Pages!ContainerRenew
  <2>1. /\ page.bar = "running" /\ UNCHANGED <<server, view, known>>
        /\ Pages!Fetch(view, "renew", call, [page EXCEPT !.off = @ \cup {"renew"}])
    BY <1>1 DEF Pages!ContainerRenew
  <2>2. view \in Challenge /\ page.start = "free"
    BY <1>a, <2>1, PageOfView DEF Fits
  <2>3. PICK off \in SUBSET {"renew", "stop"} : off = page.off \cup {"renew"}
    BY <1>a
  <2>4. Pages!Fetch(view, "renew", call, [page EXCEPT !.off = off])
    BY <1>a, <2>1, <2>3 DEF Paged
  <2> QED
    BY <1>a, <2>1, <2>2, <2>4, PageChanges
<1>2. CASE Pages!ContainerStop
  <2>1. /\ page.bar = "running" /\ UNCHANGED <<server, view, known>>
        /\ Pages!Fetch(view, "stop", call, [page EXCEPT !.off = {"renew", "stop"}, !.shown = Pages!Nothing])
    BY <1>2 DEF Pages!ContainerStop
  <2>2. view \in Challenge /\ page.start = "free"
    BY <1>a, <2>1, PageOfView DEF Fits
  <2> QED
    BY <1>a, <2>1, <2>2, PageChanges
<1>3. CASE Pages!MutationFails
  <2>1. (Pages!Fails("renew") \/ Pages!Fails("stop")) /\ Pages!Outcome(call) /\ UNCHANGED <<server, view, known>>
    BY <1>3 DEF Pages!MutationFails
  <2>2. view \in Challenge /\ page.start = "free"
    BY <2>1, PageFails
  <2> QED
    BY <1>a, <2>1, <2>2, PageChanges DEF Pages!Outcome
<1>4. CASE Pages!NeverSettled
  <2>1. Pages!Fails("outcome") /\ Pages!Rests(call, Pages!MutationUnknown(h)) /\ UNCHANGED <<server, view, known>>
    BY <1>0, <1>4 DEF Pages!NeverSettled
  <2>2. view \in Challenge /\ page.start = "free"
    BY <2>1, PageFails
  <2> QED
    BY <1>a, <1>c, <2>1, <2>2
<1>5. ASSUME NEW k \in CallId, Pages!Renewed(k)
      PROVE  PageInv'
  <2>1. Pages!Hears(k, "renew") /\ UNCHANGED <<server, view>>
    BY <1>5 DEF Pages!Renewed
  <2>2. PICK a \in Answer : a = call[k].says
    BY <2>1, PageHears
  <2>3. view \in Challenge /\ CallsBut(Pages!Without(k)) /\ page.start = "free"
    BY <2>1, PageHears
  <2>4. CASE a.what = "up"
    <3>1. Pages!Rests(Pages!Without(k), Pages!ShowConnection(h, view, a)) /\ Pages!Learns(view, a)
      BY <1>0, <1>5, <2>2, <2>4 DEF Pages!Renewed
    <3> QED
      BY <1>0, <2>1, <2>2, <2>3, <2>4, <3>1, PageShown
  <2>5. CASE a.what # "up"
    <3>1. Pages!Outcome(Pages!Without(k)) /\ UNCHANGED known
      BY <1>5, <2>2, <2>5 DEF Pages!Renewed
    <3> QED
      BY <1>a, <2>1, <2>3, <3>1, PageChanges DEF Pages!Outcome
  <2> QED
    BY <2>4, <2>5
<1>6. ASSUME NEW k \in CallId, Pages!Stopped(k)
      PROVE  PageInv'
  <2>1. Pages!Hears(k, "stop") /\ UNCHANGED <<server, view>>
    BY <1>6 DEF Pages!Stopped
  <2>2. PICK a \in Answer : a = call[k].says
    BY <2>1, PageHears
  <2>3. /\ view \in Challenge /\ CallsBut(Pages!Without(k)) /\ page.start = "free"
        /\ k = pending /\ call[k].pc = "answered"
    BY <2>1, PageHears
  <2>4. CASE a.what = "absent"
    <3>1. Pages!Rests(Pages!Without(k), [Pages!Expired(h) EXCEPT !.off = {"renew"}]) /\ Pages!Learns(view, a)
      BY <1>0, <1>6, <2>2, <2>4 DEF Pages!Stopped, Pages!InstanceAbsent
    <3>2. {"renew"} \in SUBSET {"renew", "stop"}
      OBVIOUS
    <3>3. PICK q \in Paged : /\ [Pages!Expired(h) EXCEPT !.off = {"renew"}] = q
                             /\ q.start = h.start /\ q.timer = h.timer /\ Shows(q, view, known'[view])
      BY <3>2, PageExpires
    <3>4. known' \in [Challenge -> Nat] /\ \A c \in Challenge : Behind(c)'
      BY <2>1, <2>2, <2>3, <2>4, <3>1, PageLearns DEF Pages!Tells
    <3> QED
      BY <1>0, <2>1, <2>3, <3>1, <3>3, <3>4, PageSettles
  <2>5. CASE a.what # "absent"
    <3>1. Pages!Outcome(Pages!Without(k)) /\ UNCHANGED known
      BY <1>6, <2>2, <2>5 DEF Pages!Stopped
    <3> QED
      BY <1>a, <2>1, <2>3, <3>1, PageChanges DEF Pages!Outcome
  <2> QED
    BY <2>4, <2>5
<1>7. ASSUME NEW k \in CallId, Pages!Settled(k)
      PROVE  PageInv'
  <2>1. Pages!Hears(k, "outcome") /\ UNCHANGED <<server, view>>
    BY <1>7 DEF Pages!Settled
  <2>2. PICK a \in Answer : a = call[k].says
    BY <2>1, PageHears
  <2>3. /\ view \in Challenge /\ CallsBut(Pages!Without(k)) /\ page.start = "free"
        /\ k = pending /\ call[k].pc = "answered"
    BY <2>1, PageHears
  <2>4. CASE Pages!Tells(a)
    <3>1. PICK q : q = Pages!ApplyStatus(h, view, a)
      OBVIOUS
    <3>2. PICK s \in {q.shown, Pages!Nothing} : Pages!Rests(Pages!Without(k), [q EXCEPT !.shown = s])
      BY <1>0, <1>7, <2>2, <2>4, <3>1 DEF Pages!Settled
    <3>3. Pages!Learns(view, a)
      BY <1>7, <2>2, <2>4 DEF Pages!Settled
    <3>4. /\ known' \in [Challenge -> Nat] /\ \A c \in Challenge : Behind(c)'
          /\ a.what = "up" => a.lease >= known[view] /\ known'[view] = a.lease
      BY <2>1, <2>2, <2>3, <2>4, <3>3, PageLearns
    <3>5. known[view] \in Nat
      BY <2>3 DEF PageInv, PageType
    <3>6. /\ q \in Paged /\ q.start = h.start /\ q.timer = h.timer
          /\ a.what = "up" => Shows(q, view, a.lease)
          /\ a.what # "up" => \A later : Shows(q, view, later)
      BY <1>0, <2>3, <2>4, <3>1, <3>4, <3>5, PageApplies
    <3>7. Shows(q, view, known'[view])
      BY <3>4, <3>6
    <3>8. PICK nothing, p : nothing = Pages!Nothing /\ p = [q EXCEPT !.shown = s]
      OBVIOUS
    <3>9. /\ p \in Paged /\ p.bar = q.bar /\ p.shown = s /\ p.expires = q.expires
          /\ p.synced = q.synced /\ p.start = q.start /\ p.timer = q.timer
      BY <3>2, <3>6, <3>8 DEF Paged
    <3>10. Shows(p, view, known'[view])
      BY <3>2, <3>7, <3>9 DEF Shows
    <3> QED
      BY <1>0, <2>1, <2>3, <3>2, <3>4, <3>6, <3>8, <3>9, <3>10, PageSettles
  <2>5. CASE ~Pages!Tells(a)
    <3>1. Pages!Rests(Pages!Without(k), Pages!MutationUnknown(h)) /\ UNCHANGED known
      BY <1>0, <1>7, <2>2, <2>5 DEF Pages!Settled
    <3> QED
      BY <1>c, <2>1, <2>3, <3>1
  <2> QED
    BY <2>4, <2>5
<1> QED
  BY <1>1, <1>2, <1>3, <1>4, <1>5, <1>6, <1>7

\* Every step of the page, of its calls and of the server keeps all that.
LEMMA PageStep == PageInv /\ [Pages!PageNext]_(Pages!pageVars) => PageInv'
<1> SUFFICES ASSUME PageInv, [Pages!PageNext]_(Pages!pageVars)
             PROVE  PageInv'
  OBVIOUS
<1>1. CASE UNCHANGED Pages!pageVars
  BY <1>1 DEF Pages!pageVars, PageInv, PageType, Behind, Truthful, Waits, Fits, Shows, Pages!Up
<1>2. ASSUME NEW c \in Challenge, Pages!Elsewhere(c)
      PROVE  PageInv'
  <2>1. (Pages!Creates(c) \/ Pages!Renews(c) \/ Pages!Stops(c)) /\ UNCHANGED <<call, view, pending, page, known>>
    BY <1>2 DEF Pages!Elsewhere
  <2> QED
    BY <2>1, PageServes, PageElsewhere
<1>3. ASSUME NEW c \in Challenge, Pages!TimePasses(c)
      PROVE  PageInv'
  <2>1. server' = [server EXCEPT ![c].over = @ + 1] /\ UNCHANGED <<call, view, pending, page, known>>
    BY <1>3 DEF Pages!TimePasses
  <2>2. /\ server' \in [Challenge -> [id : Nat, lease : Nat, given : Nat, over : Nat]]
        /\ \A x \in Challenge : server'[x].lease = server[x].lease /\ server'[x].given = server[x].given
    <3>1. PICK t : t = [server[c] EXCEPT !.over = @ + 1]
      OBVIOUS
    <3>2. t \in [id : Nat, lease : Nat, given : Nat, over : Nat] /\ t.lease = server[c].lease /\ t.given = server[c].given
      BY <3>1 DEF PageInv, PageType
    <3>3. server' = [server EXCEPT ![c] = t]
      BY <2>1, <3>1 DEF PageInv, PageType
    <3> QED
      BY <3>2, <3>3 DEF PageInv, PageType
  <2>3. \A x \in Challenge : Behind(x)' /\ GoesOn(x)
    BY <2>1, <2>2 DEF PageInv, PageType, Behind, GoesOn, Pages!Up
  <2> QED
    BY <2>1, <2>2, <2>3, PageElsewhere
<1>4. ASSUME NEW k \in CallId, Pages!Answers(k) \/ Pages!Unheard(k)
      PROVE  PageInv'
  BY <1>4, PageAnswers, PageForgets
<1>5. ASSUME NEW k \in CallId,
             \/ Pages!OpensTo(k) \/ Pages!Synced(k) \/ Pages!Started(k) \/ Pages!Checked(k)
             \/ Pages!Renewed(k) \/ Pages!Stopped(k) \/ Pages!Settled(k)
      PROVE  PageInv'
  BY <1>5, PageOpens, PageSyncs, PageStarts, PageMutates
<1>6. CASE \/ \E c \in Challenge : Pages!Opens(c)
           \/ Pages!Closes \/ Pages!OpensToNothing
  BY <1>6, PageOpens
<1>7. CASE Pages!Submits \/ Pages!Tick \/ Pages!SyncNow \/ Pages!SyncFails
  BY <1>7, PageSyncs
<1>8. CASE Pages!ContainerRequest \/ Pages!TriesAgain \/ Pages!StartFails \/ Pages!Polls \/ Pages!CheckFails
  BY <1>8, PageStarts
<1>9. CASE Pages!ContainerRenew \/ Pages!ContainerStop \/ Pages!MutationFails \/ Pages!NeverSettled
  BY <1>9, PageMutates
<1> QED
  BY <1>1, <1>2, <1>3, <1>4, <1>5, <1>6, <1>7, <1>8, <1>9 DEF Pages!PageNext

\* The page shows the challenge that is open, and counts down no lease that is older
\* than what it was told before, in whatever order calls are answered; what is
\* disabled has a call or a timer that will see to it, and a bar is kept up to date.
THEOREM PageKeepsUp == Pages!PageSpec => []KeepsUp
<1>1. Pages!PageInit => PageInv
  <2> SUFFICES ASSUME Pages!PageInit
               PROVE  PageInv
    OBVIOUS
  <2> USE PagesConstants
  <2>1. /\ server = [c \in Challenge |-> [id |-> 0, lease |-> 0, given |-> 0, over |-> 0]]
        /\ call = [k \in CallId |-> Pages!Free] /\ view = NoView /\ pending = NoCall /\ page = Pages!Blank
        /\ known = [c \in Challenge |-> 0]
    BY DEF Pages!PageInit
  <2>2. PageType
    BY <2>1, BlankIs DEF PageType
  <2>3. \A c \in Challenge : Behind(c)
    BY <2>1 DEF Behind, Pages!Up
  <2>4. \A k \in CallId : Truthful(k)
    BY <2>1 DEF Truthful, Pages!Free
  <2>5. Waits /\ Fits(page, view, known[view])
    BY <2>1, BlankIs DEF Waits
  <2> QED
    BY <2>1, <2>2, <2>3, <2>4, <2>5, BlankIs DEF PageInv
<1>2. PageInv => KeepsUp
  <2> SUFFICES ASSUME PageInv
               PROVE  KeepsUp
    OBVIOUS
  <2>1. Fits(page, view, known[view]) /\ (pending = NoCall /\ page.start # "free" => page.timer # "none")
    BY DEF PageInv
  <2> QED
    BY <2>1 DEF Fits, Shows, KeepsUp, Pages!KeepsUp
<1> QED
  BY <1>1, <1>2, PageStep, PTL DEF Pages!PageSpec

(***************************************************************************)
(* Docker clients                                                          *)
(*                                                                         *)
(* An open client is held once, by an operation or by a pool; what a pool  *)
(* holds under the present generation is for the present endpoint; and an  *)
(* operation has noted every endpoint of its context since it began, which *)
(* is why what it takes from a pool that was swept then is no older.       *)
(***************************************************************************)
\* An operation on its way, one that is to release its client, and what they are
\* about.
Endpoints == Url \cup {NoUrl}

Operating ==
  [pc : {"waiting", "sweep", "take", "using", "raised"}, ctx : Context, gen : Nat,
   since : SUBSET Endpoints, pulls : Endpoints]

Leaving == [pc : {"release"}, ctx : Context, gen : Nat]

ClientsType ==
  /\ config \in [Context -> Endpoints] /\ generation \in Nat
  /\ leased \in [Op -> Client \cup {NoClient}]
  /\ idle \in [Context -> [Thread -> SUBSET (Nat \X Client)]]
  /\ url \in [Client -> Url \cup {Closed}]
  /\ op \in [Op -> Operating \cup Leaving \cup {Clients!Quiet}]

\* A round of pings, and one that waits for an answer.
Rounds == [pc : {"next"}, left : SUBSET Context]
Probes == [pc : {"wait", "failed"}, ctx : Context, left : SUBSET Context]

PingsType == pinger \in [Pinger -> Rounds \cup Probes \cup {Clients!Quiet}]

\* Who has a client has it alone, and it is open.
OneHolder ==
  /\ \A o \in Op : leased[o] # NoClient => url[leased[o]] # Closed
  /\ \A o, q \in Op : leased[o] # NoClient /\ leased[o] = leased[q] => o = q
  /\ \A c \in Context, t \in Thread : \A e \in idle[c][t] :
       /\ url[e[2]] # Closed
       /\ \A o \in Op : leased[o] # e[2]
       /\ \A d \in Context, s \in Thread : \A f \in idle[d][s] :
            e[2] = f[2] => c = d /\ t = s /\ e = f

\* Somebody has a client that is open.
SomeHolder ==
  \A x \in Client : url[x] # Closed =>
    \/ \E o \in Op : leased[o] = x
    \/ \E c \in Context, t \in Thread : \E e \in idle[c][t] : e[2] = x

\* What waits under the generation of now is for the endpoint of now.
Current ==
  \A c \in Context, t \in Thread : \A e \in idle[c][t] :
    e[1] <= generation /\ (e[1] = generation => url[e[2]] = config[c])

\* What an operation knows of endpoints, and may take from its pool.
Works(o) ==
  LET v == op[o]
  IN /\ leased[o] # NoClient =>
          v.pc \in {"using", "release"} /\ (v.gen = generation => url[leased[o]] = config[v.ctx])
     /\ v.pc # "idle" => v.gen <= generation
     /\ v.pc \in {"waiting", "sweep", "take", "using"} =>
          /\ v.since # {} => config[v.ctx] \in v.since
          /\ v.since = {} => v.pc = "waiting" /\ ~Clients!Pulls(o)
          /\ Clients!Pulls(o) => v.pc \in {"waiting", "using"} /\ v.pulls \in v.since
     /\ v.pc = "using" /\ ~Clients!Pulls(o) => leased[o] \in Client /\ url[leased[o]] \in v.since
     /\ v.pc = "take" => \A e \in idle[v.ctx][ThreadOf[o]] : e[1] >= v.gen /\ url[e[2]] \in v.since

\* The invariant.
ClientInv ==
  /\ ClientsType /\ OneHolder /\ SomeHolder /\ Current
  /\ \A o \in Op : Works(o)

\* An operation has a context and a memory until it releases its client.
Phases == {"waiting", "sweep", "take", "using", "raised"}

\* What the assumption says of the constants of the clients.
LEMMA ClientsConstants ==
  /\ ThreadOf \in [Op -> Thread] /\ PingerThread \in [Pinger -> Thread]
  /\ NoUrl \notin Url /\ Closed \notin Url /\ NoClient \notin Client
<1>1. Clients!ClientsAssumption
  BY PartsAssumption
<1> QED
  BY <1>1 DEF Clients!ClientsAssumption

\* The parts of an operation.
LEMMA OpIs ==
  ASSUME ClientsType, NEW o \in Op
  PROVE  /\ op[o].pc \in Phases \cup {"release", "idle"}
         /\ op[o].pc \in Phases => op[o] \in Operating
         /\ op[o].pc = "release" => op[o] \in Leaving
         /\ op[o].pc = "idle" <=> op[o] = Clients!Quiet
         /\ op[o].pc # "idle" => op[o].ctx \in Context /\ op[o].gen \in Nat
         /\ op[o].pc \in Phases => op[o].since \in SUBSET Endpoints /\ op[o].pulls \in Endpoints
<1>1. op[o] \in Operating \cup Leaving \cup {Clients!Quiet}
  BY DEF ClientsType
<1> QED
  BY <1>1 DEF Operating, Leaving, Clients!Quiet, Phases

\* An operation that goes on, and one that is to release its client.
LEMMA OpGoes ==
  ASSUME ClientsType, NEW o \in Op
  PROVE  /\ \A pc \in Phases : op[o].pc \in Phases /\ Clients!Goto(o, pc) =>
              /\ op' \in [Op -> Operating \cup Leaving \cup {Clients!Quiet}]
              /\ op'[o].pc = pc /\ op'[o].ctx = op[o].ctx /\ op'[o].gen = op[o].gen
              /\ op'[o].since = op[o].since /\ op'[o].pulls = op[o].pulls
              /\ \A q \in Op \ {o} : op'[q] = op[q]
         /\ op[o].pc \in Phases /\ Clients!Leaves(o) =>
              /\ op' \in [Op -> Operating \cup Leaving \cup {Clients!Quiet}]
              /\ op'[o].pc = "release" /\ op'[o].ctx = op[o].ctx /\ op'[o].gen = op[o].gen
              /\ \A q \in Op \ {o} : op'[q] = op[q]
<1>1. ASSUME NEW pc \in Phases, op[o].pc \in Phases, Clients!Goto(o, pc)
      PROVE  /\ op' \in [Op -> Operating \cup Leaving \cup {Clients!Quiet}]
             /\ op'[o].pc = pc /\ op'[o].ctx = op[o].ctx /\ op'[o].gen = op[o].gen
             /\ op'[o].since = op[o].since /\ op'[o].pulls = op[o].pulls
             /\ \A q \in Op \ {o} : op'[q] = op[q]
  <2>1. PICK v : v = [op[o] EXCEPT !.pc = pc]
    OBVIOUS
  <2>2. op[o] \in Operating
    BY <1>1, OpIs
  <2>3. /\ v \in Operating /\ v.pc = pc /\ v.ctx = op[o].ctx /\ v.gen = op[o].gen
        /\ v.since = op[o].since /\ v.pulls = op[o].pulls
    BY <1>1, <2>1, <2>2 DEF Operating, Phases
  <2>4. op' = [op EXCEPT ![o] = v]
    BY <1>1, <2>1 DEF Clients!Goto, ClientsType
  <2> QED
    BY <2>3, <2>4 DEF ClientsType
<1>2. ASSUME op[o].pc \in Phases, Clients!Leaves(o)
      PROVE  /\ op' \in [Op -> Operating \cup Leaving \cup {Clients!Quiet}]
             /\ op'[o].pc = "release" /\ op'[o].ctx = op[o].ctx /\ op'[o].gen = op[o].gen
             /\ \A q \in Op \ {o} : op'[q] = op[q]
  <2>1. PICK v : v = [pc |-> "release", ctx |-> op[o].ctx, gen |-> op[o].gen]
    OBVIOUS
  <2>2. op[o].ctx \in Context /\ op[o].gen \in Nat
    BY <1>2, OpIs DEF Phases
  <2>3. v \in Leaving /\ v.pc = "release" /\ v.ctx = op[o].ctx /\ v.gen = op[o].gen
    BY <2>1, <2>2 DEF Leaving
  <2>4. op' = [op EXCEPT ![o] = v]
    BY <1>2, <2>1 DEF Clients!Leaves
  <2> QED
    BY <2>3, <2>4 DEF ClientsType
<1> QED
  BY <1>1, <1>2

\* An operation at rest while others change their clients and the pool they share.
LEMMA WorksOn ==
  ASSUME ClientsType, NEW o \in Op, Works(o), op'[o] = op[o], UNCHANGED <<config, generation>>,
         leased'[o] = leased[o], leased[o] # NoClient => url'[leased[o]] = url[leased[o]],
         op[o].pc = "take" =>
           \A e \in idle'[op[o].ctx][ThreadOf[o]] :
             \/ e \in idle[op[o].ctx][ThreadOf[o]] /\ url'[e[2]] = url[e[2]]
             \/ e[1] = generation /\ url'[e[2]] = config[op[o].ctx]
  PROVE  Works(o)'
<1> USE ClientsConstants
<1>1. Clients!Pulls(o)' <=> Clients!Pulls(o)
  BY DEF Clients!Pulls
<1>2. PICK v : v = op[o]
  OBVIOUS
<1>3. v.pc # "idle" => v.gen \in Nat /\ generation \in Nat
  BY <1>2, OpIs DEF ClientsType
<1>4. ASSUME v.pc = "take", NEW e \in idle'[v.ctx][ThreadOf[o]]
      PROVE  e[1] >= v.gen /\ url'[e[2]] \in v.since
  BY <1>2, <1>3, <1>4 DEF Works
<1>5. v.pc = "using" /\ ~Clients!Pulls(o) => leased[o] \in Client /\ url'[leased[o]] \in v.since
  BY <1>2 DEF Works
<1> QED
  BY <1>1, <1>2, <1>4, <1>5 DEF Works

\* Clients that are closed, and nobody has any more.
Drops(gone) ==
  /\ url' = [x \in Client |-> IF x \in gone THEN Closed ELSE url[x]]
  /\ \A o \in Op : leased'[o] = IF leased[o] \in gone THEN NoClient ELSE leased[o]
  /\ \A c \in Context, t \in Thread : idle'[c][t] = {e \in idle[c][t] : e[2] \notin gone}

\* That leaves each of the others with who has it.
LEMMA Dropped ==
  ASSUME ClientsType, OneHolder, SomeHolder, Current, NEW gone \in SUBSET Client, Drops(gone),
         UNCHANGED <<config, generation>>
  PROVE  /\ OneHolder' /\ SomeHolder' /\ Current'
         /\ url' \in [Client -> Url \cup {Closed}]
         /\ \A o \in Op : Works(o) /\ op'[o] = op[o] /\ leased[o] \notin gone => Works(o)'
<1> USE ClientsConstants
<1>1. url' \in [Client -> Url \cup {Closed}] /\ \A x \in Client \ gone : url'[x] = url[x]
  BY DEF Drops, ClientsType
<1>2. \A o \in Op : leased'[o] # NoClient => leased'[o] = leased[o] /\ leased[o] \in Client \ gone
  BY DEF Drops, ClientsType
<1>3. \A c \in Context, t \in Thread : \A e \in idle'[c][t] :
        e \in idle[c][t] /\ e[2] \in Client \ gone /\ url'[e[2]] = url[e[2]]
  <2> SUFFICES ASSUME NEW c \in Context, NEW t \in Thread, NEW e \in idle'[c][t]
               PROVE  e \in idle[c][t] /\ e[2] \in Client \ gone /\ url'[e[2]] = url[e[2]]
    OBVIOUS
  <2>1. e \in idle[c][t] /\ e[2] \notin gone
    BY DEF Drops
  <2>2. e[2] \in Client
    BY <2>1 DEF ClientsType
  <2> QED
    BY <1>1, <2>1, <2>2
<1>4. OneHolder'
  <2>1. \A o \in Op : leased'[o] # NoClient => url'[leased'[o]] # Closed
    BY <1>1, <1>2 DEF OneHolder
  <2>2. \A o, q \in Op : leased'[o] # NoClient /\ leased'[o] = leased'[q] => o = q
    BY <1>2 DEF OneHolder
  <2>3. ASSUME NEW c \in Context, NEW t \in Thread, NEW e \in idle'[c][t]
        PROVE  /\ url'[e[2]] # Closed
               /\ \A o \in Op : leased'[o] # e[2]
               /\ \A d \in Context, s \in Thread : \A f \in idle'[d][s] :
                    e[2] = f[2] => c = d /\ t = s /\ e = f
    <3>1. url'[e[2]] # Closed
      BY <1>3, <2>3 DEF OneHolder
    <3>2. \A o \in Op : leased'[o] # e[2]
      BY <1>2, <1>3, <2>3 DEF OneHolder
    <3> QED
      BY <1>3, <2>3, <3>1, <3>2 DEF OneHolder
  <2> QED
    BY <2>1, <2>2, <2>3 DEF OneHolder
<1>5. SomeHolder'
  <2> SUFFICES ASSUME NEW x \in Client, url'[x] # Closed
               PROVE  \/ \E o \in Op : leased'[o] = x
                      \/ \E c \in Context, t \in Thread : \E e \in idle'[c][t] : e[2] = x
    BY DEF SomeHolder
  <2>1. x \notin gone /\ url[x] # Closed
    BY DEF Drops
  <2>2. CASE \E o \in Op : leased[o] = x
    BY <2>1, <2>2 DEF Drops
  <2>3. CASE \E c \in Context, t \in Thread : \E e \in idle[c][t] : e[2] = x
    BY <2>1, <2>3 DEF Drops
  <2> QED
    BY <2>1, <2>2, <2>3 DEF SomeHolder
<1>6. Current'
  BY <1>3 DEF Current
<1>7. ASSUME NEW o \in Op, Works(o), op'[o] = op[o], leased[o] \notin gone
      PROVE  Works(o)'
  <2>1. leased'[o] = leased[o] /\ (leased[o] # NoClient => url'[leased[o]] = url[leased[o]])
    BY <1>1, <1>7 DEF Drops, ClientsType
  <2>2. op[o].pc = "take" =>
          \A e \in idle'[op[o].ctx][ThreadOf[o]] : e \in idle[op[o].ctx][ThreadOf[o]] /\ url'[e[2]] = url[e[2]]
    BY <1>3, OpIs
  <2> QED
    BY <1>7, <2>1, <2>2, WorksOn
<1> QED
  BY <1>1, <1>4, <1>5, <1>6, <1>7

\* The pool of one context and thread becomes a set, and the others stay.
PoolTo(c, t, set) ==
  /\ idle' \in [Context -> [Thread -> SUBSET (Nat \X Client)]]
  /\ idle'[c][t] = set
  /\ \A d \in Context, s \in Thread : d # c \/ s # t => idle'[d][s] = idle[d][s]

\* As the actions write it.
LEMMA PoolIs ==
  ASSUME ClientsType, NEW c \in Context, NEW t \in Thread, NEW set \in SUBSET (Nat \X Client),
         idle' = [idle EXCEPT ![c][t] = set]
  PROVE  PoolTo(c, t, set)
<1>1. PICK row : row = [idle[c] EXCEPT ![t] = set]
  OBVIOUS
<1>2. idle[c] \in [Thread -> SUBSET (Nat \X Client)]
  BY DEF ClientsType
<1>3. row \in [Thread -> SUBSET (Nat \X Client)] /\ row[t] = set /\ \A s \in Thread \ {t} : row[s] = idle[c][s]
  BY <1>1, <1>2
<1>4. idle' = [idle EXCEPT ![c] = row]
  BY <1>1
<1>5. idle'[c] = row /\ \A d \in Context \ {c} : idle'[d] = idle[d]
  BY <1>4 DEF ClientsType
<1>6. idle' \in [Context -> [Thread -> SUBSET (Nat \X Client)]]
  BY <1>3, <1>4 DEF ClientsType
<1> QED
  BY <1>3, <1>5, <1>6 DEF PoolTo

\* An entry of a pool is a generation and a client.
LEMMA EntryIs ==
  ASSUME ClientsType, NEW c \in Context, NEW t \in Thread
  PROVE  /\ idle[c][t] \in SUBSET (Nat \X Client)
         /\ \A e \in idle[c][t] : e[1] \in Nat /\ e[2] \in Client /\ e = <<e[1], e[2]>>
BY DEF ClientsType

\* A step of an operation that leaves clients and endpoints alone.
LEMMA ClientsRest ==
  ASSUME ClientInv, NEW o \in Op, UNCHANGED <<config, generation, leased, idle, url>>,
         op' \in [Op -> Operating \cup Leaving \cup {Clients!Quiet}],
         \A q \in Op \ {o} : op'[q] = op[q], Works(o)'
  PROVE  ClientInv'
<1>1. ClientsType'
  BY DEF ClientInv, ClientsType
<1>2. OneHolder' /\ SomeHolder' /\ Current'
  BY DEF ClientInv, OneHolder, SomeHolder, Current
<1>3. ASSUME NEW q \in Op
      PROVE  Works(q)'
  <2>1. CASE q = o
    BY <2>1
  <2>2. CASE q # o
    BY <2>2, WorksOn DEF ClientInv
  <2> QED
    BY <2>1, <2>2
<1> QED
  BY <1>1, <1>2, <1>3 DEF ClientInv

\* Operations that begin, fail to get a client, or are over.
LEMMA ClientsGoOn ==
  ASSUME ClientInv, NEW o \in Op,
         \/ \E c \in Context, pulls \in BOOLEAN : Clients!Call(o, c, pulls)
         \/ Clients!Begin(o) \/ Clients!CreateFails(o) \/ Clients!Answered(o) \/ Clients!Ends(o)
  PROVE  ClientInv'
<1> USE ClientsConstants
<1>t. ClientsType /\ Works(o) /\ op[o].pc \in Phases \cup {"release", "idle"}
  BY OpIs DEF ClientInv
<1>1. ASSUME NEW c \in Context, NEW pulls \in BOOLEAN, Clients!Call(o, c, pulls)
      PROVE  ClientInv'
  <2>1. PICK since, pull : /\ since = IF pulls THEN {config[c]} ELSE {}
                           /\ pull = IF pulls THEN config[c] ELSE NoUrl
    OBVIOUS
  <2>2. PICK v : v = [pc |-> "waiting", ctx |-> c, gen |-> 0, since |-> since, pulls |-> pull]
    OBVIOUS
  <2>3. since \in SUBSET Endpoints /\ pull \in Endpoints
    BY <1>t, <2>1 DEF ClientsType, Endpoints
  <2>4. /\ v \in Operating /\ v.pc = "waiting" /\ v.ctx = c /\ v.gen = 0 /\ v.since = since /\ v.pulls = pull
    BY <2>2, <2>3 DEF Operating
  <2>5. /\ op[o].pc = "idle" /\ op' = [op EXCEPT ![o] = v] /\ (pulls => config[c] # NoUrl)
        /\ UNCHANGED <<config, generation, leased, idle, url>>
    BY <1>1, <2>1, <2>2 DEF Clients!Call, Clients!At, Clients!poolVars, Clients!hostVars
  <2>6. /\ op' \in [Op -> Operating \cup Leaving \cup {Clients!Quiet}] /\ op'[o] = v
        /\ \A q \in Op \ {o} : op'[q] = op[q]
    BY <1>t, <2>4, <2>5 DEF ClientsType
  <2>7. leased[o] = NoClient /\ 0 <= generation
    BY <1>t, <2>5 DEF Works, ClientsType
  <2>8. Works(o)'
    BY <2>1, <2>4, <2>5, <2>6, <2>7 DEF Works, Clients!Pulls
  <2> QED
    BY <2>5, <2>6, <2>8, ClientsRest
<1>2. CASE Clients!Begin(o)
  <2>1. op[o].pc = "waiting" /\ op[o] \in Operating /\ op[o].ctx \in Context
    BY <1>2, OpIs DEF Clients!Begin, Clients!At, ClientInv, Phases
  <2>2. CASE Clients!Pulls(o)
    <3>1. Clients!Goto(o, "using") /\ UNCHANGED <<config, generation, leased, idle, url>>
      BY <1>2, <1>t, <2>2 DEF Clients!Begin, Clients!Goto, ClientsType, Clients!poolVars, Clients!hostVars
    <3>2. /\ op' \in [Op -> Operating \cup Leaving \cup {Clients!Quiet}]
          /\ op'[o].pc = "using" /\ op'[o].ctx = op[o].ctx /\ op'[o].gen = op[o].gen
          /\ op'[o].since = op[o].since /\ op'[o].pulls = op[o].pulls
          /\ \A q \in Op \ {o} : op'[q] = op[q]
      BY <1>t, <2>1, <3>1, OpGoes DEF Phases
    <3>3. Works(o)'
      BY <1>t, <2>1, <2>2, <3>1, <3>2 DEF Works, Clients!Pulls
    <3> QED
      BY <3>1, <3>2, <3>3, ClientsRest
  <2>3. CASE ~Clients!Pulls(o)
    <3>1. PICK v : v = [op[o] EXCEPT !.pc = "sweep", !.gen = generation, !.since = {config[op[o].ctx]}]
      OBVIOUS
    <3>2. op' = [op EXCEPT ![o] = v] /\ UNCHANGED <<config, generation, leased, idle, url>>
      BY <1>2, <2>3, <3>1 DEF Clients!Begin, Clients!poolVars, Clients!hostVars
    <3>3. config[op[o].ctx] \in Endpoints /\ generation \in Nat
      BY <1>t, <2>1 DEF ClientsType
    <3>4. /\ v \in Operating /\ v.pc = "sweep" /\ v.ctx = op[o].ctx /\ v.gen = generation
          /\ v.since = {config[op[o].ctx]} /\ v.pulls = op[o].pulls
      BY <2>1, <3>1, <3>3 DEF Operating
    <3>5. /\ op' \in [Op -> Operating \cup Leaving \cup {Clients!Quiet}] /\ op'[o] = v
          /\ \A q \in Op \ {o} : op'[q] = op[q]
      BY <1>t, <3>2, <3>4 DEF ClientsType
    <3>6. Works(o)'
      BY <1>t, <2>1, <2>3, <3>2, <3>3, <3>4, <3>5 DEF Works, Clients!Pulls
    <3> QED
      BY <3>2, <3>5, <3>6, ClientsRest
  <2> QED
    BY <2>2, <2>3
<1>3. CASE Clients!CreateFails(o)
  <2>1. op[o].pc = "take" /\ Clients!Goto(o, "raised") /\ UNCHANGED <<config, generation, leased, idle, url>>
    BY <1>3 DEF Clients!CreateFails, Clients!At, Clients!poolVars, Clients!hostVars
  <2>2. /\ op' \in [Op -> Operating \cup Leaving \cup {Clients!Quiet}]
        /\ op'[o].pc = "raised" /\ op'[o].ctx = op[o].ctx /\ op'[o].gen = op[o].gen
        /\ op'[o].since = op[o].since /\ op'[o].pulls = op[o].pulls
        /\ \A q \in Op \ {o} : op'[q] = op[q]
    BY <1>t, <2>1, OpGoes DEF Phases
  <2>3. Works(o)'
    BY <1>t, <2>1, <2>2 DEF Works
  <2> QED
    BY <2>1, <2>2, <2>3, ClientsRest
<1>4. CASE Clients!Answered(o) \/ Clients!Ends(o)
  <2>1. /\ op[o].pc \in {"using", "raised"} /\ Clients!Leaves(o)
        /\ UNCHANGED <<config, generation, leased, idle, url>>
    BY <1>4 DEF Clients!Answered, Clients!Ends, Clients!At, Clients!poolVars, Clients!hostVars
  <2>2. /\ op' \in [Op -> Operating \cup Leaving \cup {Clients!Quiet}]
        /\ op'[o].pc = "release" /\ op'[o].ctx = op[o].ctx /\ op'[o].gen = op[o].gen
        /\ \A q \in Op \ {o} : op'[q] = op[q]
    BY <1>t, <2>1, OpGoes DEF Phases
  <2>3. Works(o)'
    BY <1>t, <2>1, <2>2 DEF Works
  <2> QED
    BY <2>1, <2>2, <2>3, ClientsRest
<1> QED
  BY <1>1, <1>2, <1>3, <1>4

\* Clients of other generations leave the pool, and are closed.
LEMMA ClientsSweep ==
  ASSUME ClientInv, NEW o \in Op, Clients!Sweep(o)
  PROVE  ClientInv'
<1> USE ClientsConstants
<1>t. /\ ClientsType /\ OneHolder /\ SomeHolder /\ Current /\ Works(o)
      /\ op[o].pc = "sweep" /\ op[o] \in Operating /\ op[o].ctx \in Context /\ ThreadOf[o] \in Thread
  BY OpIs DEF ClientInv, Clients!Sweep, Clients!At, Phases
<1>1. PICK c \in Context, t \in Thread : c = op[o].ctx /\ t = ThreadOf[o]
  BY <1>t
<1>2. PICK old : old = {e \in idle[c][t] : e[1] # generation}
  OBVIOUS
<1>3. PICK gone : gone = {e[2] : e \in old}
  OBVIOUS
<1>4. /\ idle' = [idle EXCEPT ![c][t] = idle[c][t] \ old]
      /\ url' = [x \in Client |-> IF x \in gone THEN Closed ELSE url[x]]
      /\ Clients!Goto(o, "take") /\ UNCHANGED <<leased, config, generation>>
  BY <1>1, <1>2, <1>3 DEF Clients!Sweep, Clients!SetPool, Clients!Pool, Clients!Close, Clients!hostVars
<1>5. gone \in SUBSET Client /\ idle[c][t] \ old \in SUBSET (Nat \X Client)
  BY <1>t, <1>2, <1>3, EntryIs
<1>6. PoolTo(c, t, idle[c][t] \ old)
  BY <1>t, <1>4, <1>5, PoolIs
<1>7. \A q \in Op : leased[q] \notin gone
  BY <1>t, <1>2, <1>3 DEF OneHolder
<1>8. Drops(gone)
  <2>1. ASSUME NEW d \in Context, NEW s \in Thread
        PROVE  idle'[d][s] = {e \in idle[d][s] : e[2] \notin gone}
    <3>1. CASE d = c /\ s = t
      <4>1. \A e \in idle[c][t] : e[2] \in gone <=> e \in old
        BY <1>t, <1>2, <1>3 DEF OneHolder
      <4> QED
        BY <1>6, <3>1, <4>1 DEF PoolTo
    <3>2. CASE d # c \/ s # t
      <4>1. \A e \in idle[d][s] : e[2] \notin gone
        BY <1>t, <1>2, <1>3, <3>2 DEF OneHolder
      <4> QED
        BY <1>6, <3>2, <4>1 DEF PoolTo
    <3> QED
      BY <3>1, <3>2
  <2> QED
    BY <1>4, <1>7, <2>1 DEF Drops
<1>9. /\ OneHolder' /\ SomeHolder' /\ Current' /\ url' \in [Client -> Url \cup {Closed}]
      /\ \A q \in Op : Works(q) /\ op'[q] = op[q] => Works(q)'
  BY <1>t, <1>4, <1>5, <1>7, <1>8, Dropped
<1>10. /\ op' \in [Op -> Operating \cup Leaving \cup {Clients!Quiet}]
       /\ op'[o].pc = "take" /\ op'[o].ctx = op[o].ctx /\ op'[o].gen = op[o].gen
       /\ op'[o].since = op[o].since /\ op'[o].pulls = op[o].pulls
       /\ \A q \in Op \ {o} : op'[q] = op[q]
  BY <1>t, <1>4, OpGoes DEF Phases
<1>11. ClientsType'
  BY <1>t, <1>4, <1>6, <1>9, <1>10 DEF ClientsType, PoolTo
<1>12. \A e \in idle'[c][t] : e[1] >= op[o].gen /\ url'[e[2]] \in op[o].since
  <2> SUFFICES ASSUME NEW e \in idle'[c][t]
               PROVE  e[1] >= op[o].gen /\ url'[e[2]] \in op[o].since
    OBVIOUS
  <2>1. e \in idle[c][t] /\ e \notin old
    BY <1>6 DEF PoolTo
  <2>2. e[1] = generation /\ e[2] \in Client
    BY <1>t, <1>2, <2>1, EntryIs
  <2>3. url[e[2]] = config[c] /\ config[c] \in op[o].since /\ op[o].gen <= generation
    BY <1>t, <1>1, <2>1, <2>2 DEF Current, Works
  <2>4. url'[e[2]] = url[e[2]]
    <3>1. e[2] \notin gone
      BY <1>t, <1>2, <1>3, <2>1 DEF OneHolder
    <3> QED
      BY <1>4, <2>2, <3>1
  <2>5. op[o].gen \in Nat /\ generation \in Nat
    BY <1>t, OpIs DEF ClientsType, Phases
  <2> QED
    BY <2>2, <2>3, <2>4, <2>5
<1>13. Works(o)'
  BY <1>t, <1>1, <1>4, <1>10, <1>12 DEF Works, Clients!Pulls
<1> QED
  BY <1>9, <1>10, <1>11, <1>13 DEF ClientInv

\* A client of the pool, for the endpoint of the time at which the pool was swept or later.
LEMMA ClientsReuse ==
  ASSUME ClientInv, NEW o \in Op, Clients!Reuse(o)
  PROVE  ClientInv'
<1> USE ClientsConstants
<1>t. /\ ClientsType /\ OneHolder /\ SomeHolder /\ Current /\ Works(o)
      /\ op[o].pc = "take" /\ op[o] \in Operating /\ op[o].ctx \in Context /\ op[o].gen \in Nat /\ generation \in Nat
      /\ leased[o] = NoClient
  BY OpIs DEF ClientInv, Clients!Reuse, Clients!At, Phases, Works, ClientsType
<1>1. PICK c \in Context, t \in Thread : c = op[o].ctx /\ t = ThreadOf[o]
  BY <1>t
<1>2. PICK e \in idle[c][t] :
        /\ idle' = [idle EXCEPT ![c][t] = idle[c][t] \ {e}] /\ leased' = [leased EXCEPT ![o] = e[2]]
        /\ Clients!Goto(o, "using") /\ UNCHANGED <<url, config, generation>>
  BY <1>1 DEF Clients!Reuse, Clients!SetPool, Clients!Pool, Clients!hostVars
<1>3. PICK x \in Client : x = e[2] /\ idle[c][t] \ {e} \in SUBSET (Nat \X Client)
  BY <1>t, <1>2, EntryIs
<1>4. PoolTo(c, t, idle[c][t] \ {e})
  BY <1>t, <1>2, <1>3, PoolIs
<1>5. /\ leased' \in [Op -> Client \cup {NoClient}] /\ leased'[o] = x
      /\ \A q \in Op \ {o} : leased'[q] = leased[q] /\ leased[q] # x
  BY <1>t, <1>2, <1>3 DEF ClientsType, OneHolder
<1>6. \A d \in Context, s \in Thread : \A f \in idle'[d][s] : f \in idle[d][s] /\ f # e /\ f[2] # x
  <2> SUFFICES ASSUME NEW d \in Context, NEW s \in Thread, NEW f \in idle'[d][s]
               PROVE  f \in idle[d][s] /\ f # e /\ f[2] # x
    OBVIOUS
  <2>1. f \in idle[d][s] /\ (d = c /\ s = t => f # e)
    BY <1>4 DEF PoolTo
  <2> QED
    BY <1>t, <1>2, <1>3, <2>1 DEF OneHolder
<1>7. OneHolder'
  <2>1. url[x] # Closed
    BY <1>t, <1>2, <1>3 DEF OneHolder
  <2>2. \A q \in Op : leased'[q] # NoClient => url'[leased'[q]] # Closed
    BY <1>t, <1>2, <1>5, <2>1 DEF OneHolder
  <2>3. \A p, q \in Op : leased'[p] # NoClient /\ leased'[p] = leased'[q] => p = q
    BY <1>t, <1>5 DEF OneHolder
  <2>4. ASSUME NEW d \in Context, NEW s \in Thread, NEW f \in idle'[d][s]
        PROVE  /\ url'[f[2]] # Closed
               /\ \A q \in Op : leased'[q] # f[2]
               /\ \A b \in Context, r \in Thread : \A g \in idle'[b][r] :
                    f[2] = g[2] => d = b /\ s = r /\ f = g
    BY <1>t, <1>2, <1>5, <1>6, <2>4 DEF OneHolder
  <2> QED
    BY <2>2, <2>3, <2>4 DEF OneHolder
<1>8. SomeHolder'
  <2> SUFFICES ASSUME NEW y \in Client, url'[y] # Closed
               PROVE  \/ \E q \in Op : leased'[q] = y
                      \/ \E d \in Context, s \in Thread : \E f \in idle'[d][s] : f[2] = y
    BY DEF SomeHolder
  <2>1. CASE y = x
    BY <1>5, <2>1
  <2>2. CASE \E q \in Op : leased[q] = y
    <3>1. PICK q \in Op : leased[q] = y
      BY <2>2
    <3>2. q # o
      BY <1>t, <3>1
    <3> QED
      BY <1>5, <3>1, <3>2
  <2>3. CASE y # x /\ \E d \in Context, s \in Thread : \E f \in idle[d][s] : f[2] = y
    <3>1. PICK d \in Context, s \in Thread : \E f \in idle[d][s] : f[2] = y
      BY <2>3
    <3>2. PICK f \in idle[d][s] : f[2] = y
      BY <3>1
    <3>3. f \in idle'[d][s]
      BY <1>3, <1>4, <2>3, <3>2 DEF PoolTo
    <3> QED
      BY <3>2, <3>3
  <2> QED
    BY <1>t, <1>2, <2>1, <2>2, <2>3 DEF SomeHolder
<1>9. Current'
  BY <1>t, <1>2, <1>6 DEF Current
<1>10. /\ op' \in [Op -> Operating \cup Leaving \cup {Clients!Quiet}]
       /\ op'[o].pc = "using" /\ op'[o].ctx = op[o].ctx /\ op'[o].gen = op[o].gen
       /\ op'[o].since = op[o].since /\ op'[o].pulls = op[o].pulls
       /\ \A q \in Op \ {o} : op'[q] = op[q]
  BY <1>t, <1>2, OpGoes DEF Phases
<1>11. ClientsType'
  BY <1>t, <1>2, <1>4, <1>5, <1>10 DEF ClientsType, PoolTo
<1>12. Works(o)'
  <2>1. e[1] \in Nat /\ e[1] <= generation /\ e[1] >= op[o].gen /\ url[x] \in op[o].since
        /\ (e[1] = generation => url[x] = config[c])
    BY <1>t, <1>1, <1>2, <1>3, EntryIs DEF Current, Works
  <2>2. op[o].gen = generation => url[x] = config[c]
    BY <1>t, <2>1
  <2> QED
    BY <1>t, <1>1, <1>2, <1>5, <1>10, <2>1, <2>2 DEF Works, Clients!Pulls
<1>13. ASSUME NEW q \in Op \ {o}
       PROVE  Works(q)'
  <2>1. Works(q) /\ op'[q] = op[q] /\ leased'[q] = leased[q]
    BY <1>5, <1>10 DEF ClientInv
  <2>2. op[q].pc = "take" => \A f \in idle'[op[q].ctx][ThreadOf[q]] : f \in idle[op[q].ctx][ThreadOf[q]]
    BY <1>t, <1>6, OpIs
  <2> QED
    BY <1>t, <1>2, <2>1, <2>2, WorksOn
<1> QED
  BY <1>7, <1>8, <1>9, <1>11, <1>12, <1>13 DEF ClientInv

\* A new client, for the endpoint of now.
LEMMA ClientsCreate ==
  ASSUME ClientInv, NEW o \in Op, Clients!Create(o)
  PROVE  ClientInv'
<1> USE ClientsConstants
<1>t. /\ ClientsType /\ OneHolder /\ SomeHolder /\ Current /\ Works(o)
      /\ op[o].pc = "take" /\ op[o] \in Operating /\ op[o].ctx \in Context /\ leased[o] = NoClient
  BY OpIs DEF ClientInv, Clients!Create, Clients!At, Phases, Works
<1>1. PICK c \in Context : c = op[o].ctx
  BY <1>t
<1>2. PICK x \in Client :
        /\ url[x] = Closed /\ config[c] \in Url
        /\ leased' = [leased EXCEPT ![o] = x] /\ url' = [url EXCEPT ![x] = config[c]]
        /\ Clients!Goto(o, "using") /\ UNCHANGED <<idle, config, generation>>
  <2>1. (CHOOSE x \in Clients!Spare : TRUE) \in Clients!Spare
    BY DEF Clients!Create
  <2>2. config[c] \in Url
    BY <1>t, <1>1 DEF Clients!Create, ClientsType, Endpoints
  <2> QED
    BY <1>1, <2>1, <2>2 DEF Clients!Create, Clients!Spare, Clients!hostVars
<1>3. /\ leased' \in [Op -> Client \cup {NoClient}] /\ leased'[o] = x
      /\ \A q \in Op \ {o} : leased'[q] = leased[q] /\ leased[q] # x
  BY <1>t, <1>2 DEF ClientsType, OneHolder
<1>4. /\ url' \in [Client -> Url \cup {Closed}] /\ url'[x] = config[c] /\ url'[x] # Closed
      /\ \A y \in Client \ {x} : url'[y] = url[y]
  BY <1>t, <1>2 DEF ClientsType
<1>5. \A d \in Context, s \in Thread : \A f \in idle[d][s] : f[2] \in Client \ {x} /\ url'[f[2]] = url[f[2]]
  <2> SUFFICES ASSUME NEW d \in Context, NEW s \in Thread, NEW f \in idle[d][s]
               PROVE  f[2] \in Client \ {x} /\ url'[f[2]] = url[f[2]]
    OBVIOUS
  <2>1. f[2] \in Client
    BY <1>t, EntryIs
  <2>2. url[f[2]] # Closed
    BY <1>t DEF OneHolder
  <2> QED
    BY <1>2, <1>4, <2>1, <2>2
<1>6. OneHolder'
  <2>1. \A q \in Op : leased'[q] # NoClient => url'[leased'[q]] # Closed
    <3> SUFFICES ASSUME NEW q \in Op, leased'[q] # NoClient
                 PROVE  url'[leased'[q]] # Closed
      OBVIOUS
    <3>1. CASE q = o
      BY <1>3, <1>4, <3>1
    <3>2. CASE q # o
      <4>1. leased'[q] = leased[q] /\ leased[q] \in Client \ {x} /\ url[leased[q]] # Closed
        BY <1>t, <1>3, <3>2 DEF OneHolder, ClientsType
      <4> QED
        BY <1>4, <4>1
    <3> QED
      BY <3>1, <3>2
  <2>2. \A p, q \in Op : leased'[p] # NoClient /\ leased'[p] = leased'[q] => p = q
    BY <1>t, <1>3 DEF OneHolder
  <2>3. ASSUME NEW d \in Context, NEW s \in Thread, NEW f \in idle[d][s]
        PROVE  /\ url'[f[2]] # Closed
               /\ \A q \in Op : leased'[q] # f[2]
               /\ \A b \in Context, r \in Thread : \A g \in idle[b][r] :
                    f[2] = g[2] => d = b /\ s = r /\ f = g
    BY <1>t, <1>3, <1>5, <2>3 DEF OneHolder
  <2> QED
    BY <1>2, <2>1, <2>2, <2>3 DEF OneHolder
<1>7. SomeHolder'
  <2> SUFFICES ASSUME NEW y \in Client, url'[y] # Closed
               PROVE  \/ \E q \in Op : leased'[q] = y
                      \/ \E d \in Context, s \in Thread : \E f \in idle[d][s] : f[2] = y
    BY <1>2 DEF SomeHolder
  <2>1. CASE y = x
    BY <1>3, <2>1
  <2>2. CASE y # x
    <3>1. CASE \E q \in Op : leased[q] = y
      <4>1. PICK q \in Op : leased[q] = y
        BY <3>1
      <4>2. q # o
        BY <1>t, <4>1
      <4> QED
        BY <1>3, <4>1, <4>2
    <3> QED
      BY <1>t, <1>4, <2>2, <3>1 DEF SomeHolder
  <2> QED
    BY <2>1, <2>2
<1>8. Current'
  BY <1>t, <1>2, <1>5 DEF Current
<1>9. /\ op' \in [Op -> Operating \cup Leaving \cup {Clients!Quiet}]
      /\ op'[o].pc = "using" /\ op'[o].ctx = op[o].ctx /\ op'[o].gen = op[o].gen
      /\ op'[o].since = op[o].since /\ op'[o].pulls = op[o].pulls
      /\ \A q \in Op \ {o} : op'[q] = op[q]
  BY <1>t, <1>2, OpGoes DEF Phases
<1>10. ClientsType'
  BY <1>t, <1>2, <1>3, <1>4, <1>9 DEF ClientsType
<1>11. Works(o)'
  BY <1>t, <1>1, <1>2, <1>3, <1>4, <1>9 DEF Works, Clients!Pulls
<1>12. ASSUME NEW q \in Op \ {o}
       PROVE  Works(q)'
  <2>1. Works(q) /\ op'[q] = op[q] /\ leased'[q] = leased[q]
    BY <1>3, <1>9 DEF ClientInv
  <2>2. leased[q] # NoClient => url'[leased[q]] = url[leased[q]]
    BY <1>t, <1>3, <1>4 DEF ClientsType
  <2>3. op[q].pc = "take" => \A f \in idle[op[q].ctx][ThreadOf[q]] : url'[f[2]] = url[f[2]]
    BY <1>t, <1>5, OpIs
  <2> QED
    BY <1>t, <1>2, <2>1, <2>2, <2>3, WorksOn
<1> QED
  BY <1>6, <1>7, <1>8, <1>10, <1>11, <1>12 DEF ClientInv

\* _clear_client closes what the greenlets have, and what waits in the pool.
LEMMA ClearDrops ==
  ASSUME ClientsType, OneHolder, NEW os \in SUBSET Op, NEW c \in Context, NEW t \in Thread, Clients!Clear(os, c, t)
  PROVE  \E gone \in SUBSET Client :
           /\ Drops(gone) /\ \A q \in Op \ os : leased[q] \notin gone
           /\ \A q \in os : leased'[q] = NoClient
           /\ leased' \in [Op -> Client \cup {NoClient}]
           /\ idle' \in [Context -> [Thread -> SUBSET (Nat \X Client)]]
<1> USE ClientsConstants
<1>1. PICK gone : gone = ({leased[q] : q \in os} \ {NoClient}) \cup {e[2] : e \in idle[c][t]}
  OBVIOUS
<1>2. /\ url' = [x \in Client |-> IF x \in gone THEN Closed ELSE url[x]]
      /\ leased' = [q \in Op |-> IF q \in os THEN NoClient ELSE leased[q]]
      /\ idle' = [idle EXCEPT ![c][t] = {}]
  BY <1>1 DEF Clients!Clear, Clients!Close
<1>3. gone \in SUBSET Client
  BY <1>1, EntryIs DEF ClientsType
<1>4. PoolTo(c, t, {})
  <2>1. {} \in SUBSET (Nat \X Client)
    OBVIOUS
  <2> QED
    BY <1>2, <2>1, PoolIs
<1>5. \A q \in Op \ os : leased[q] \notin gone
  <2> SUFFICES ASSUME NEW q \in Op \ os, leased[q] \in gone
               PROVE  FALSE
    OBVIOUS
  <2>1. CASE \E p \in os : leased[q] = leased[p] /\ leased[p] # NoClient
    BY <2>1 DEF OneHolder
  <2>2. CASE \E e \in idle[c][t] : leased[q] = e[2]
    BY <2>2 DEF OneHolder
  <2> QED
    BY <1>1, <2>1, <2>2
<1>6. \A q \in Op : leased'[q] = IF leased[q] \in gone THEN NoClient ELSE leased[q]
  BY <1>1, <1>2, <1>5
<1>7. ASSUME NEW d \in Context, NEW s \in Thread
      PROVE  idle'[d][s] = {e \in idle[d][s] : e[2] \notin gone}
  <2>1. CASE d = c /\ s = t
    <3>1. \A e \in idle[c][t] : e[2] \in gone
      BY <1>1
    <3> QED
      BY <1>4, <2>1, <3>1 DEF PoolTo
  <2>2. CASE d # c \/ s # t
    <3>1. ASSUME NEW e \in idle[d][s], e[2] \in gone
          PROVE  FALSE
      <4>1. CASE \E q \in os : e[2] = leased[q]
        BY <3>1, <4>1 DEF OneHolder
      <4>2. CASE \E f \in idle[c][t] : e[2] = f[2]
        BY <2>2, <3>1, <4>2 DEF OneHolder
      <4> QED
        BY <1>1, <3>1, <4>1, <4>2
    <3> QED
      BY <1>4, <2>2, <3>1 DEF PoolTo
  <2> QED
    BY <2>1, <2>2
<1>8. Drops(gone)
  BY <1>2, <1>6, <1>7 DEF Drops
<1>9. leased' \in [Op -> Client \cup {NoClient}] /\ \A q \in os : leased'[q] = NoClient
  BY <1>2 DEF ClientsType
<1> QED
  BY <1>3, <1>4, <1>5, <1>8, <1>9 DEF PoolTo

\* An operation whose client is of no use any more.
LEMMA ClientsFail ==
  ASSUME ClientInv, NEW o \in Op, Clients!Failed(o)
  PROVE  ClientInv'
<1> USE ClientsConstants
<1>t. /\ ClientsType /\ OneHolder /\ SomeHolder /\ Current /\ Works(o)
      /\ op[o].pc \in {"using", "raised"} /\ op[o].ctx \in Context /\ ThreadOf[o] \in Thread
  BY OpIs DEF ClientInv, Clients!Failed
<1>1. Clients!Clear({o}, op[o].ctx, ThreadOf[o]) /\ Clients!Leaves(o) /\ UNCHANGED <<config, generation>>
  BY DEF Clients!Failed, Clients!hostVars
<1>2. PICK gone \in SUBSET Client :
        /\ Drops(gone) /\ \A q \in Op \ {o} : leased[q] \notin gone
        /\ leased'[o] = NoClient
        /\ leased' \in [Op -> Client \cup {NoClient}]
        /\ idle' \in [Context -> [Thread -> SUBSET (Nat \X Client)]]
  <2>1. {o} \in SUBSET Op
    OBVIOUS
  <2> QED
    BY <1>t, <1>1, <2>1, ClearDrops
<1>3. /\ op' \in [Op -> Operating \cup Leaving \cup {Clients!Quiet}]
      /\ op'[o].pc = "release" /\ op'[o].ctx = op[o].ctx /\ op'[o].gen = op[o].gen
      /\ \A q \in Op \ {o} : op'[q] = op[q]
  BY <1>t, <1>1, OpGoes DEF Phases
<1>4. /\ OneHolder' /\ SomeHolder' /\ Current' /\ url' \in [Client -> Url \cup {Closed}]
      /\ \A q \in Op \ {o} : Works(q)'
  BY <1>t, <1>1, <1>2, <1>3, Dropped DEF ClientInv
<1>5. ClientsType'
  BY <1>t, <1>1, <1>2, <1>3, <1>4 DEF ClientsType
<1>6. Works(o)'
  BY <1>t, <1>1, <1>2, <1>3 DEF Works
<1> QED
  BY <1>4, <1>5, <1>6 DEF ClientInv

\* A ping that times out empties a pool, and lets operations go on with their clients.
LEMMA ClientsTimeout ==
  ASSUME ClientInv, NEW c \in Context, NEW t \in Thread, Clients!Clear({}, c, t),
         UNCHANGED <<config, generation, op>>
  PROVE  ClientInv'
<1> USE ClientsConstants
<1>t. ClientsType /\ OneHolder /\ SomeHolder /\ Current
  BY DEF ClientInv
<1>1. PICK gone \in SUBSET Client :
        /\ Drops(gone) /\ \A q \in Op : leased[q] \notin gone
        /\ leased' \in [Op -> Client \cup {NoClient}]
        /\ idle' \in [Context -> [Thread -> SUBSET (Nat \X Client)]]
  <2>1. {} \in SUBSET Op
    OBVIOUS
  <2> QED
    BY <1>t, <2>1, ClearDrops
<1>2. /\ OneHolder' /\ SomeHolder' /\ Current' /\ url' \in [Client -> Url \cup {Closed}]
      /\ \A q \in Op : Works(q)'
  BY <1>t, <1>1, Dropped DEF ClientInv
<1>3. ClientsType'
  BY <1>t, <1>1, <1>2 DEF ClientsType
<1> QED
  BY <1>2, <1>3 DEF ClientInv

\* A client goes back to the pool if no endpoint changed since its operation began.
LEMMA ClientsRelease ==
  ASSUME ClientInv, NEW o \in Op, Clients!Release(o)
  PROVE  ClientInv'
<1> USE ClientsConstants
<1>t. /\ ClientsType /\ OneHolder /\ SomeHolder /\ Current /\ Works(o)
      /\ op[o].pc = "release" /\ op[o].ctx \in Context /\ ThreadOf[o] \in Thread /\ generation \in Nat
      /\ op' = [op EXCEPT ![o] = Clients!Quiet] /\ leased' = [leased EXCEPT ![o] = NoClient]
      /\ UNCHANGED <<config, generation>>
  BY OpIs DEF ClientInv, Clients!Release, Clients!At, Clients!hostVars, ClientsType
<1>1. PICK c \in Context, t \in Thread : c = op[o].ctx /\ t = ThreadOf[o]
  BY <1>t
<1>2. /\ op' \in [Op -> Operating \cup Leaving \cup {Clients!Quiet}] /\ op'[o].pc = "idle"
      /\ \A q \in Op \ {o} : op'[q] = op[q]
  <2>1. Clients!Quiet.pc = "idle"
    BY DEF Clients!Quiet
  <2> QED
    BY <1>t, <2>1 DEF ClientsType
<1>3. /\ leased' \in [Op -> Client \cup {NoClient}] /\ leased'[o] = NoClient
      /\ \A q \in Op \ {o} : leased'[q] = leased[q] /\ (leased[q] = NoClient \/ leased[q] # leased[o])
  BY <1>t DEF ClientsType, OneHolder
<1>4. Works(o)'
  BY <1>2, <1>3 DEF Works
<1>5. CASE leased[o] # NoClient /\ op[o].gen = generation
  <2>a. PICK x, e : x = leased[o] /\ e = <<generation, leased[o]>>
    OBVIOUS
  <2>1. x \in Client /\ e \in Nat \X Client /\ e[1] = generation /\ e[2] = x /\ x = leased[o]
    BY <1>t, <1>5, <2>a DEF ClientsType
  <2>b. Clients!SetPool(o, Clients!Pool(o) \cup {<<generation, leased[o]>>}) /\ url' = url
    BY <1>5 DEF Clients!Release
  <2>c. idle' = [idle EXCEPT ![c][t] = idle[c][t] \cup {e}]
    BY <1>1, <2>a, <2>b DEF Clients!SetPool, Clients!Pool
  <2>d. idle[c][t] \cup {e} \in SUBSET (Nat \X Client)
    BY <1>t, <2>1, EntryIs
  <2>2. /\ idle' = [idle EXCEPT ![c][t] = idle[c][t] \cup {e}] /\ url' = url
        /\ idle[c][t] \cup {e} \in SUBSET (Nat \X Client)
    BY <2>b, <2>c, <2>d
  <2>3. PoolTo(c, t, idle[c][t] \cup {e})
    BY <1>t, <2>2, PoolIs
  <2>4. /\ url[x] # Closed /\ url[x] = config[c]
        /\ \A d \in Context, s \in Thread : \A f \in idle[d][s] : f[2] # x
    BY <1>t, <1>1, <1>5, <2>1 DEF OneHolder, Works
  <2>5. \A d \in Context, s \in Thread : \A f \in idle'[d][s] :
          \/ f \in idle[d][s] /\ f[2] # x
          \/ d = c /\ s = t /\ f = e
    BY <2>3, <2>4 DEF PoolTo
  <2>6. OneHolder'
    <3>1. \A q \in Op : leased'[q] # NoClient => url'[leased'[q]] # Closed
      BY <1>t, <1>3, <2>2 DEF OneHolder
    <3>2. \A p, q \in Op : leased'[p] # NoClient /\ leased'[p] = leased'[q] => p = q
      BY <1>t, <1>3 DEF OneHolder
    <3>3. ASSUME NEW d \in Context, NEW s \in Thread, NEW f \in idle'[d][s]
          PROVE  /\ url'[f[2]] # Closed
                 /\ \A q \in Op : leased'[q] # f[2]
                 /\ \A b \in Context, r \in Thread : \A g \in idle'[b][r] :
                      f[2] = g[2] => d = b /\ s = r /\ f = g
      <4>1. CASE d = c /\ s = t /\ f = e
        <5>1. url'[f[2]] # Closed /\ \A q \in Op : leased'[q] # f[2]
          BY <1>3, <2>1, <2>2, <2>4, <4>1
        <5>2. \A b \in Context, r \in Thread : \A g \in idle'[b][r] : f[2] = g[2] => c = b /\ t = r /\ f = g
          BY <2>1, <2>5, <4>1
        <5> QED
          BY <4>1, <5>1, <5>2
      <4>2. CASE f \in idle[d][s] /\ f[2] # x
        <5>1. url'[f[2]] # Closed /\ \A q \in Op : leased[q] # f[2]
          BY <1>t, <2>2, <4>2 DEF OneHolder
        <5>2. \A q \in Op : leased'[q] # f[2]
          <6>1. f[2] # NoClient
            BY <1>t, <4>2, EntryIs
          <6> QED
            BY <1>3, <5>1, <6>1
        <5>3. \A b \in Context, r \in Thread : \A g \in idle'[b][r] : f[2] = g[2] => d = b /\ s = r /\ f = g
          <6> SUFFICES ASSUME NEW b \in Context, NEW r \in Thread, NEW g \in idle'[b][r], f[2] = g[2]
                       PROVE  d = b /\ s = r /\ f = g
            OBVIOUS
          <6>1. g \in idle[b][r]
            BY <2>1, <2>5, <4>2
          <6> QED
            BY <1>t, <4>2, <6>1 DEF OneHolder
        <5> QED
          BY <5>1, <5>2, <5>3
      <4> QED
        BY <2>5, <3>3, <4>1, <4>2
    <3> QED
      BY <3>1, <3>2, <3>3 DEF OneHolder
  <2>7. SomeHolder'
    <3> SUFFICES ASSUME NEW y \in Client, url'[y] # Closed
                 PROVE  \/ \E q \in Op : leased'[q] = y
                        \/ \E d \in Context, s \in Thread : \E f \in idle'[d][s] : f[2] = y
      BY DEF SomeHolder
    <3>1. CASE y = x
      BY <2>1, <2>3, <3>1 DEF PoolTo
    <3>2. CASE y # x /\ \E q \in Op : leased[q] = y
      BY <1>3, <2>1, <3>2
    <3>3. CASE \E d \in Context, s \in Thread : \E f \in idle[d][s] : f[2] = y
      <4>1. PICK d \in Context, s \in Thread : \E f \in idle[d][s] : f[2] = y
        BY <3>3
      <4>2. PICK f \in idle[d][s] : f[2] = y
        BY <4>1
      <4>3. f \in idle'[d][s]
        BY <2>3 DEF PoolTo
      <4> QED
        BY <4>2, <4>3
    <3> QED
      BY <1>t, <2>2, <3>1, <3>2, <3>3 DEF SomeHolder
  <2>8. Current'
    <3> SUFFICES ASSUME NEW d \in Context, NEW s \in Thread, NEW f \in idle'[d][s]
                 PROVE  f[1] <= generation /\ (f[1] = generation => url[f[2]] = config[d])
      BY <1>t, <2>2 DEF Current
    <3>1. CASE f \in idle[d][s]
      BY <1>t, <3>1 DEF Current
    <3>2. CASE d = c /\ f = e
      BY <1>t, <2>1, <2>4, <3>2
    <3> QED
      BY <2>5, <3>1, <3>2
  <2>9. ClientsType'
    BY <1>t, <1>2, <1>3, <2>2, <2>3 DEF ClientsType, PoolTo
  <2>10. ASSUME NEW q \in Op \ {o}
         PROVE  Works(q)'
    <3>1. Works(q) /\ op'[q] = op[q] /\ leased'[q] = leased[q]
      BY <1>2, <1>3 DEF ClientInv
    <3>2. op[q].pc = "take" =>
            \A f \in idle'[op[q].ctx][ThreadOf[q]] :
              \/ f \in idle[op[q].ctx][ThreadOf[q]] /\ url'[f[2]] = url[f[2]]
              \/ f[1] = generation /\ url'[f[2]] = config[op[q].ctx]
      <4> SUFFICES ASSUME op[q].pc = "take", NEW f \in idle'[op[q].ctx][ThreadOf[q]]
                   PROVE  \/ f \in idle[op[q].ctx][ThreadOf[q]] /\ url'[f[2]] = url[f[2]]
                          \/ f[1] = generation /\ url'[f[2]] = config[op[q].ctx]
        OBVIOUS
      <4>1. op[q].ctx \in Context /\ ThreadOf[q] \in Thread
        BY <1>t, OpIs
      <4>2. CASE op[q].ctx = c /\ f = e
        BY <2>1, <2>2, <2>4, <4>2
      <4>3. CASE f \in idle[op[q].ctx][ThreadOf[q]]
        BY <2>2, <4>3
      <4> QED
        BY <2>5, <4>1, <4>2, <4>3
    <3> QED
      BY <1>t, <2>2, <3>1, <3>2, WorksOn
  <2> QED
    BY <1>4, <2>6, <2>7, <2>8, <2>9, <2>10 DEF ClientInv
<1>6. CASE ~(leased[o] # NoClient /\ op[o].gen = generation)
  <2>1. url' = [x \in Client |-> IF x \in {leased[o]} THEN Closed ELSE url[x]] /\ idle' = idle
    BY <1>6 DEF Clients!Release, Clients!Close
  <2>2. PICK gone \in SUBSET Client : gone = {leased[o]} \cap Client
    OBVIOUS
  <2>3. Drops(gone)
    <3>1. url' = [x \in Client |-> IF x \in gone THEN Closed ELSE url[x]]
      BY <2>1, <2>2
    <3>2. \A q \in Op : leased'[q] = IF leased[q] \in gone THEN NoClient ELSE leased[q]
      BY <1>t, <1>3, <2>2 DEF ClientsType
    <3>3. \A d \in Context, s \in Thread : idle'[d][s] = {e \in idle[d][s] : e[2] \notin gone}
      BY <1>t, <2>1, <2>2 DEF OneHolder
    <3> QED
      BY <3>1, <3>2, <3>3 DEF Drops
  <2>4. \A q \in Op \ {o} : leased[q] \notin gone
    BY <1>3, <2>2
  <2>5. /\ OneHolder' /\ SomeHolder' /\ Current' /\ url' \in [Client -> Url \cup {Closed}]
        /\ \A q \in Op \ {o} : Works(q)'
    BY <1>t, <1>2, <2>3, <2>4, Dropped DEF ClientInv
  <2>6. ClientsType'
    BY <1>t, <1>2, <1>3, <2>1, <2>5 DEF ClientsType
  <2> QED
    BY <1>4, <2>5, <2>6 DEF ClientInv
<1> QED
  BY <1>5, <1>6

\* What an operation knows after a change of the configuration.
LEMMA LoadKnows ==
  ASSUME ClientsType, NEW new \in [Context -> Endpoints], Clients!LoadContexts(new), NEW q \in Op
  PROVE  /\ op'[q] \in Operating \cup Leaving \cup {Clients!Quiet}
         /\ op'[q].pc = op[q].pc
         /\ op[q].pc # "idle" => op'[q].ctx = op[q].ctx /\ op'[q].gen = op[q].gen
         /\ op[q].pc \in Phases =>
              /\ op'[q].pulls = op[q].pulls
              /\ op'[q].since = IF op[q].since = {} THEN {} ELSE op[q].since \cup {new[op[q].ctx]}
<1> DEFINE more == "since" \in DOMAIN op[q] /\ op[q].since # {}
<1>2. PICK w : w = op[q].since \cup {new[op[q].ctx]}
  OBVIOUS
<1>3. PICK v : v = [op[q] EXCEPT !.since = w]
  OBVIOUS
<1>4. op'[q] = IF more THEN v ELSE op[q]
  BY <1>2, <1>3 DEF Clients!LoadContexts
<1>5. CASE op[q].pc \in Phases
  <2>1. op[q] \in Operating /\ op[q].ctx \in Context /\ op[q].since \in SUBSET Endpoints
    BY <1>5, OpIs DEF Phases
  <2>2. "since" \in DOMAIN op[q] /\ w \in SUBSET Endpoints
    BY <1>2, <2>1 DEF Operating
  <2>3. /\ v \in Operating /\ v.pc = op[q].pc /\ v.ctx = op[q].ctx /\ v.gen = op[q].gen
        /\ v.pulls = op[q].pulls /\ v.since = w
    BY <1>3, <2>1, <2>2 DEF Operating
  <2> QED
    BY <1>2, <1>4, <2>1, <2>2, <2>3
<1>6. CASE op[q].pc = "release"
  <2>1. op[q] \in Leaving
    BY <1>6, OpIs
  <2>2. "since" \notin DOMAIN op[q]
    BY <2>1 DEF Leaving
  <2> QED
    BY <1>4, <1>6, <2>1, <2>2 DEF Phases
<1>7. CASE op[q].pc = "idle"
  <2>1. op[q] = Clients!Quiet
    BY <1>7, OpIs
  <2>2. "since" \notin DOMAIN op[q]
    BY <2>1 DEF Clients!Quiet
  <2> QED
    BY <1>4, <1>7, <2>1, <2>2 DEF Phases
<1> QED
  BY <1>5, <1>6, <1>7, OpIs

\* A change of the configuration puts every client that is open out of date.
LEMMA ClientsLoad ==
  ASSUME ClientInv, NEW new \in [Context -> Endpoints], Clients!LoadContexts(new)
  PROVE  ClientInv'
<1> USE ClientsConstants
<1>t. /\ ClientsType /\ generation \in Nat
      /\ config' = new /\ generation' = generation + 1 /\ UNCHANGED <<leased, idle, url, pinger>>
      /\ DOMAIN op' = Op
  BY DEF ClientInv, ClientsType, Clients!LoadContexts, Clients!poolVars
<1>1. ClientsType'
  <2>1. op' = [q \in Op |-> op'[q]]
    BY DEF Clients!LoadContexts
  <2>2. \A q \in Op : op'[q] \in Operating \cup Leaving \cup {Clients!Quiet}
    BY <1>t, LoadKnows
  <2> QED
    BY <1>t, <2>1, <2>2 DEF ClientsType
<1>2. OneHolder' /\ SomeHolder'
  BY <1>t DEF ClientInv, OneHolder, SomeHolder
<1>3. Current'
  <2> SUFFICES ASSUME NEW c \in Context, NEW t \in Thread, NEW e \in idle[c][t]
               PROVE  e[1] <= generation + 1 /\ e[1] # generation + 1
    BY <1>t DEF Current
  <2>1. e[1] \in Nat /\ e[1] <= generation
    BY <1>t, EntryIs DEF ClientInv, Current
  <2> QED
    BY <1>t, <2>1
<1>4. ASSUME NEW o \in Op
      PROVE  Works(o)'
  <2>1. PICK v, w : v = op[o] /\ w = op'[o]
    OBVIOUS
  <2>2. /\ w.pc = v.pc
        /\ v.pc # "idle" => w.ctx = v.ctx /\ w.gen = v.gen
        /\ v.pc \in Phases =>
             w.pulls = v.pulls /\ w.since = IF v.since = {} THEN {} ELSE v.since \cup {new[v.ctx]}
    BY <1>t, <2>1, LoadKnows
  <2>3. v.pc # "idle" => v.gen \in Nat /\ v.gen <= generation
    BY <1>t, <2>1, OpIs DEF ClientInv, Works
  <2>4. Works(o) /\ op'[o] = w /\ op[o] = v
    BY <2>1 DEF ClientInv
  <2>5. leased[o] # NoClient => w.pc \in {"using", "release"} /\ w.gen # generation + 1
    BY <1>t, <2>2, <2>3, <2>4 DEF Works
  <2>6. w.pc # "idle" => w.gen <= generation + 1
    BY <1>t, <2>2, <2>3
  <2>7. w.pc \in {"waiting", "sweep", "take", "using"} =>
          /\ w.since # {} => new[w.ctx] \in w.since
          /\ w.since = {} => w.pc = "waiting" /\ w.pulls = NoUrl
          /\ w.pulls # NoUrl => w.pc \in {"waiting", "using"} /\ w.pulls \in w.since
    BY <2>2, <2>4 DEF Works, Phases, Clients!Pulls
  <2>8. w.pc = "using" /\ w.pulls = NoUrl => leased[o] \in Client /\ url[leased[o]] \in w.since
    BY <2>2, <2>4 DEF Works, Phases, Clients!Pulls
  <2>9. w.pc = "take" => \A e \in idle[w.ctx][ThreadOf[o]] : e[1] >= w.gen /\ url[e[2]] \in w.since
    BY <2>2, <2>4 DEF Works, Phases
  <2> QED
    BY <1>t, <2>4, <2>5, <2>6, <2>7, <2>8, <2>9 DEF Works, Clients!Pulls
<1> QED
  BY <1>1, <1>2, <1>3, <1>4 DEF ClientInv

\* What is left of a round.
LEMMA RestIs ==
  ASSUME PingsType, NEW p \in Pinger, NEW left \in SUBSET Context, Clients!Rest(p, left)
  PROVE  PingsType'
<1>1. PICK v : v = [pc |-> "next", left |-> left]
  OBVIOUS
<1>2. v \in Rounds
  BY <1>1 DEF Rounds
<1>3. pinger' = [pinger EXCEPT ![p] = IF left = {} THEN Clients!Quiet ELSE v]
  BY <1>1 DEF Clients!Rest
<1> QED
  BY <1>2, <1>3 DEF PingsType

\* Pings change no pool, except that one that times out empties it.
LEMMA ClientsPing ==
  ASSUME ClientInv, PingsType, NEW p \in Pinger, Clients!WarmUp(p) \/ Clients!Check(p) \/ Clients!Pings(p)
  PROVE  ClientInv' /\ PingsType'
<1> USE ClientsConstants
<1>t. /\ pinger[p] \in Rounds \cup Probes \cup {Clients!Quiet}
      /\ pinger[p].pc = "next" => pinger[p].left \in SUBSET Context
      /\ pinger[p].pc \in {"wait", "failed"} => pinger[p] \in Probes
      /\ pinger[p].pc \in {"wait", "failed"} => pinger[p].ctx \in Context /\ pinger[p].left \in SUBSET Context
  <2>1. pinger[p] \in Rounds \cup Probes \cup {Clients!Quiet}
    BY DEF PingsType
  <2> QED
    BY <2>1 DEF Rounds, Probes, Clients!Quiet
<1>1. ASSUME UNCHANGED <<config, generation, leased, idle, url, op>>
      PROVE  ClientInv'
  BY <1>1 DEF ClientInv, ClientsType, OneHolder, SomeHolder, Current, Works, Clients!Pulls
<1>2. ASSUME NEW targets \in SUBSET Context, Clients!Round(p, targets)
      PROVE  ClientInv' /\ PingsType'
  <2>1. PICK v : v = [pc |-> "next", left |-> targets]
    OBVIOUS
  <2>2. v \in Rounds
    BY <2>1 DEF Rounds
  <2>3. pinger' = [pinger EXCEPT ![p] = v] /\ UNCHANGED <<config, generation, leased, idle, url, op>>
    BY <1>2, <2>1 DEF Clients!Round, Clients!poolVars, Clients!hostVars
  <2>4. PingsType'
    BY <2>2, <2>3 DEF PingsType
  <2> QED
    BY <1>1, <2>3, <2>4
<1>3. CASE Clients!WarmUp(p)
  <2>1. Clients!Targets \in SUBSET Context /\ Clients!Round(p, Clients!Targets)
    BY <1>3 DEF Clients!WarmUp, Clients!Targets
  <2> QED
    BY <1>2, <2>1
<1>4. CASE Clients!Check(p)
  <2>1. PICK c \in Context : Clients!Round(p, {c})
    BY <1>4 DEF Clients!Check
  <2>2. {c} \in SUBSET Context
    OBVIOUS
  <2> QED
    BY <1>2, <2>1, <2>2
<1>5. CASE Clients!Ping(p)
  <2>1. pinger[p].pc = "next" /\ UNCHANGED <<config, generation, leased, idle, url, op>>
    BY <1>5 DEF Clients!Ping, Clients!poolVars, Clients!hostVars
  <2>2. PICK c \in pinger[p].left :
          IF config[c] = NoUrl THEN Clients!Rest(p, pinger[p].left \ {c})
          ELSE pinger' = [pinger EXCEPT ![p] = [pc |-> "wait", ctx |-> c, left |-> pinger[p].left \ {c}]]
    BY <1>5 DEF Clients!Ping
  <2>3. PICK left : left = pinger[p].left \ {c}
    OBVIOUS
  <2>4. left \in SUBSET Context /\ c \in Context
    BY <1>t, <2>1, <2>3
  <2>5. CASE Clients!Rest(p, left)
    BY <1>1, <2>1, <2>4, <2>5, RestIs
  <2>6. CASE pinger' = [pinger EXCEPT ![p] = [pc |-> "wait", ctx |-> c, left |-> left]]
    <3>1. PICK v : v = [pc |-> "wait", ctx |-> c, left |-> left]
      OBVIOUS
    <3>2. v \in Probes
      BY <2>4, <3>1 DEF Probes
    <3>3. pinger' = [pinger EXCEPT ![p] = v]
      BY <2>6, <3>1
    <3>4. PingsType'
      BY <3>2, <3>3 DEF PingsType
    <3> QED
      BY <1>1, <2>1, <3>4
  <2> QED
    BY <2>2, <2>3, <2>5, <2>6
<1>6. CASE Clients!Pong(p) \/ Clients!Unreachable(p)
  <2>1. /\ pinger[p].pc \in {"wait", "failed"} /\ Clients!Rest(p, pinger[p].left)
        /\ UNCHANGED <<config, generation, leased, idle, url, op>>
    BY <1>6 DEF Clients!Pong, Clients!Unreachable, Clients!poolVars, Clients!hostVars
  <2> QED
    BY <1>t, <1>1, <2>1, RestIs
<1>7. CASE Clients!Timeout(p)
  <2>1. /\ pinger[p].pc = "wait" /\ Clients!Clear({}, pinger[p].ctx, PingerThread[p])
        /\ pinger' = [pinger EXCEPT ![p].pc = "failed"]
        /\ UNCHANGED <<config, generation, op>>
    BY <1>7 DEF Clients!Timeout, Clients!hostVars
  <2>2. PICK v : v = [pinger[p] EXCEPT !.pc = "failed"]
    OBVIOUS
  <2>3. v \in Probes
    BY <1>t, <2>1, <2>2 DEF Probes
  <2>4. pinger' = [pinger EXCEPT ![p] = v]
    BY <2>1, <2>2
  <2>5. PingsType'
    BY <2>3, <2>4 DEF PingsType
  <2>6. ClientInv'
    BY <1>t, <2>1, ClientsTimeout
  <2> QED
    BY <2>5, <2>6
<1> QED
  BY <1>3, <1>4, <1>5, <1>6, <1>7 DEF Clients!Pings

\* Every step of the clients keeps the invariant.
LEMMA ClientStep ==
  ASSUME ClientInv, PingsType, [Clients!Next]_(Clients!vars)
  PROVE  ClientInv' /\ PingsType'
<1>1. ASSUME NEW o \in Op, Clients!Operates(o)
      PROVE  ClientInv' /\ PingsType'
  <2>1. UNCHANGED pinger
    BY <1>1 DEF Clients!Operates, Clients!Call, Clients!Begin, Clients!Sweep, Clients!Reuse, Clients!Create,
                Clients!CreateFails, Clients!Answered, Clients!Failed, Clients!Ends, Clients!Release
  <2>2. PingsType'
    BY <2>1 DEF PingsType
  <2>3. CASE \/ \E c \in Context, pulls \in BOOLEAN : Clients!Call(o, c, pulls)
             \/ Clients!Begin(o) \/ Clients!CreateFails(o) \/ Clients!Answered(o) \/ Clients!Ends(o)
    BY <2>2, <2>3, ClientsGoOn
  <2>4. CASE Clients!Sweep(o) \/ Clients!Reuse(o) \/ Clients!Create(o)
    BY <2>2, <2>4, ClientsSweep, ClientsReuse, ClientsCreate
  <2>5. CASE Clients!Failed(o) \/ Clients!Release(o)
    BY <2>2, <2>5, ClientsFail, ClientsRelease
  <2> QED
    BY <1>1, <2>3, <2>4, <2>5 DEF Clients!Operates
<1>2. ASSUME NEW p \in Pinger, Clients!WarmUp(p) \/ Clients!Check(p) \/ Clients!Pings(p)
      PROVE  ClientInv' /\ PingsType'
  BY <1>2, ClientsPing
<1>3. ASSUME NEW new \in [Context -> Url \cup {NoUrl}], Clients!LoadContexts(new)
      PROVE  ClientInv' /\ PingsType'
  <2>1. UNCHANGED pinger
    BY <1>3 DEF Clients!LoadContexts
  <2> QED
    BY <1>3, <2>1, ClientsLoad DEF Endpoints, PingsType
<1>4. CASE UNCHANGED <<config, generation, leased, idle, url, op, pinger>>
  BY <1>4 DEF ClientInv, ClientsType, OneHolder, SomeHolder, Current, Works, Clients!Pulls, PingsType
<1>5. ASSUME NEW c \in Context, Clients!CoolDown(c)
      PROVE  ClientInv' /\ PingsType'
  BY <1>4, <1>5 DEF Clients!CoolDown, Clients!poolVars, Clients!hostVars
<1> QED
  BY <1>1, <1>2, <1>3, <1>4, <1>5 DEF Clients!Next, Clients!vars

\* Nobody has a client in the beginning.
LEMMA ClientStart ==
  ASSUME Clients!Init
  PROVE  ClientInv /\ PingsType
<1> USE ClientsConstants
<1>1. /\ config \in [Context -> Endpoints] /\ generation = 0
      /\ leased = [o \in Op |-> NoClient]
      /\ idle = [c \in Context |-> [t \in Thread |-> {}]]
      /\ url = [x \in Client |-> Closed]
      /\ op = [o \in Op |-> Clients!Quiet]
      /\ pinger = [p \in Pinger |-> Clients!Quiet]
  BY DEF Clients!Init, Endpoints
<1>2. /\ \A o \in Op : leased[o] = NoClient /\ op[o] = Clients!Quiet /\ op[o].pc = "idle"
      /\ \A c \in Context, t \in Thread : idle[c][t] = {}
      /\ \A x \in Client : url[x] = Closed
  BY <1>1 DEF Clients!Quiet
<1>3. ClientsType /\ PingsType
  BY <1>1 DEF ClientsType, PingsType
<1>4. OneHolder /\ SomeHolder /\ Current
  BY <1>2 DEF OneHolder, SomeHolder, Current
<1>5. \A o \in Op : Works(o)
  BY <1>2 DEF Works
<1> QED
  BY <1>3, <1>4, <1>5 DEF ClientInv

\* The library's cardinality is that of the clients.
LEMMA ClientsCount == \A S : Clients!Cardinality(S) = Cardinality(S)
  BY Zenon DEF Clients!Cardinality, Cardinality

\* An open client has exactly one holder, and a closed one none.
LEMMA HoldersAreOne ==
  ASSUME ClientInv, NEW x \in Client
  PROVE  Clients!Cardinality(Clients!Lessees(x)) + Clients!Cardinality(Clients!Waiting(x)) = IF url[x] = Closed THEN 0 ELSE 1
<1> USE ClientsConstants
<1>t. ClientsType /\ OneHolder /\ SomeHolder /\ Current /\ generation \in Nat
  BY DEF ClientInv, ClientsType
<1>1. \A o : o \in Clients!Lessees(x) <=> o \in Op /\ leased[o] = x
  BY DEF Clients!Lessees
<1>2. \A w \in Clients!Waiting(x) :
        w \in Context \X Thread /\ \E n \in 0 .. generation : <<n, x>> \in idle[w[1]][w[2]]
  BY DEF Clients!Waiting
<1>3. ASSUME NEW c \in Context, NEW t \in Thread, NEW e \in idle[c][t], e[2] = x
      PROVE  <<c, t>> \in Clients!Waiting(x)
  <2>1. e[1] \in 0 .. generation /\ <<e[1], x>> \in idle[c][t]
    BY <1>t, <1>3, EntryIs DEF Current
  <2>2. PICK w : w = <<c, t>>
    OBVIOUS
  <2>3. w \in Context \X Thread /\ w[1] = c /\ w[2] = t
    BY <2>2
  <2> QED
    BY <2>1, <2>2, <2>3 DEF Clients!Waiting
<1>4. CASE url[x] = Closed
  <2>1. Clients!Lessees(x) = {}
    BY <1>t, <1>1, <1>4 DEF OneHolder
  <2>2. Clients!Waiting(x) = {}
    <3> SUFFICES ASSUME NEW w \in Clients!Waiting(x)
                 PROVE  FALSE
      OBVIOUS
    <3>1. PICK n \in 0 .. generation : <<n, x>> \in idle[w[1]][w[2]]
      BY <1>2
    <3>2. w[1] \in Context /\ w[2] \in Thread
      BY <1>2
    <3>3. url[x] # Closed
      BY <1>t, <3>1, <3>2 DEF OneHolder
    <3> QED
      BY <1>4, <3>3
  <2> QED
    BY <1>4, <2>1, <2>2, ClientsCount, FS_EmptySet
<1>5. CASE url[x] # Closed /\ \E o \in Op : leased[o] = x
  <2>1. PICK o \in Op : leased[o] = x
    BY <1>5
  <2>2. Clients!Lessees(x) = {o}
    BY <1>t, <1>1, <2>1 DEF OneHolder
  <2>3. Clients!Waiting(x) = {}
    <3> SUFFICES ASSUME NEW w \in Clients!Waiting(x)
                 PROVE  FALSE
      OBVIOUS
    <3>1. PICK n \in 0 .. generation : <<n, x>> \in idle[w[1]][w[2]]
      BY <1>2
    <3>2. w[1] \in Context /\ w[2] \in Thread
      BY <1>2
    <3>3. leased[o] # x
      BY <1>t, <2>1, <3>1, <3>2 DEF OneHolder
    <3> QED
      BY <2>1, <3>3
  <2>4. Cardinality({o}) = 1 /\ Cardinality({}) = 0
    BY FS_EmptySet, FS_Singleton
  <2> QED
    BY <1>5, <2>2, <2>3, <2>4, ClientsCount
<1>6. CASE url[x] # Closed /\ ~\E o \in Op : leased[o] = x
  <2>1. PICK c \in Context, t \in Thread : \E e \in idle[c][t] : e[2] = x
    BY <1>t, <1>6 DEF SomeHolder
  <2>2. PICK e \in idle[c][t] : e[2] = x
    BY <2>1
  <2>3. <<c, t>> \in Clients!Waiting(x)
    BY <1>3, <2>2
  <2>4. Clients!Lessees(x) = {}
    BY <1>1, <1>6
  <2>5. ASSUME NEW w \in Clients!Waiting(x)
        PROVE  w = <<c, t>>
    <3>1. PICK n \in 0 .. generation : <<n, x>> \in idle[w[1]][w[2]]
      BY <1>2
    <3>2. w \in Context \X Thread /\ w[1] \in Context /\ w[2] \in Thread
      BY <1>2
    <3>3. PICK f : f = <<n, x>>
      OBVIOUS
    <3>4. f \in idle[w[1]][w[2]] /\ f[2] = x
      BY <3>1, <3>3
    <3>5. w[1] = c /\ w[2] = t
      BY <1>t, <2>2, <3>2, <3>4 DEF OneHolder
    <3> QED
      BY <3>2, <3>5
  <2>6. Clients!Waiting(x) = {<<c, t>>}
    BY <2>3, <2>5
  <2>7. Cardinality({<<c, t>>}) = 1 /\ Cardinality({}) = 0
    BY FS_EmptySet, FS_Singleton
  <2> QED
    BY <1>6, <2>4, <2>6, <2>7, ClientsCount
<1> QED
  BY <1>4, <1>5, <1>6

\* An open client is leased by one operation or waits in one pool, so none is shared
\* and none is left open when it is out of date, when its operation fails or when a
\* ping empties the pool; and an operation works on an endpoint that its context had
\* while it ran, however often the configuration changes meanwhile.
THEOREM OperationsOwnClients == Clients!Spec => []OwnClient
<1>1. ClientInv => OwnClient
  <2> SUFFICES ASSUME ClientInv
               PROVE  OwnClient
    OBVIOUS
  <2>1. \A x \in Client :
          Clients!Cardinality(Clients!Lessees(x)) + Clients!Cardinality(Clients!Waiting(x)) =
            IF url[x] = Closed THEN 0 ELSE 1
    BY HoldersAreOne
  <2>2. \A o \in Op : Clients!At(o, "using") =>
          (IF Clients!Pulls(o) THEN op[o].pulls ELSE url[leased[o]]) \in op[o].since
    BY DEF ClientInv, Works, Clients!At
  <2> QED
    BY <2>1, <2>2 DEF OwnClient, Clients!OwnClient
<1> QED
  BY <1>1, ClientStart, ClientStep, PTL DEF Clients!Spec

(***************************************************************************)
(* The parts together                                                      *)
(***************************************************************************)

\* A behaviour of one part is one of every part, of which the others rest.
LEMMA PartsRest ==
  /\ Spec => Clients!Spec
  /\ Spec => Streams!StreamsSpec
  /\ Spec => Sharing!SharesSpec
  /\ Spec => Pages!PageSpec
<1>1. Init => Clients!Init /\ Streams!StreamsInit /\ Sharing!SharesInit /\ Pages!PageInit
  BY DEF Init
<1>2. [Next]_vars => [Clients!Next]_(Clients!vars)
  BY DEF Next, vars, clientVars, Clients!vars
<1>3. [Next]_vars => [Streams!StreamsNext]_(Streams!streamVars)
  BY DEF Next, vars, eventVars, Streams!streamVars
<1>4. [Next]_vars => [Sharing!SharesNext]_(Sharing!shareVars)
  BY DEF Next, vars, shareVars, Sharing!shareVars
<1>5. [Next]_vars => [Pages!PageNext]_(Pages!pageVars)
  BY DEF Next, vars, pageVars, Pages!pageVars
<1> QED
  BY <1>1, <1>2, <1>3, <1>4, <1>5, PTL
     DEF Spec, Clients!Spec, Streams!StreamsSpec, Sharing!SharesSpec, Pages!PageSpec

\* What the parts promise alone they promise in MCParts: clients have one holder,
\* streams have no gap and are counted, shared flags are on record, and the page
\* keeps up.
THEOREM PartsKeepTheirWord == Spec => [](OwnClient /\ NoGap /\ SlotsAccounted /\ ShareRecorded /\ KeepsUp)
  BY PartsRest, OperationsOwnClients, StreamsHaveNoGap, StreamsAreCounted, SharesAreRecorded, PageKeepsUp, PTL

=============================================================================
