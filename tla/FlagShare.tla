------------------------------- MODULE FlagShare -------------------------------
(***************************************************************************)
(* The detection of shared flags (attempt of the challenge type): a wrong  *)
(* answer that holds the token of another user or team of the challenge is *)
(* put on record.  Which token belongs to whom is cached in the process,   *)
(* and the number of users tells whether the cache is out of date, while   *)
(* users sign up and are deleted (_find_token_owner).                      *)
(*                                                                         *)
(* One challenge, one secret and one mode, for which there is one entry of *)
(* the cache.  Each owner has a token of its own, and goes by the token;   *)
(* an owner that was deleted never comes back.  The server of the database *)
(* may show a request what there is now, or what there was at an earlier   *)
(* look of the same transaction: both are modelled.                        *)
(***************************************************************************)
EXTENDS Integers, FiniteSets

CONSTANTS
  Owner,
  Submitter,   \* those of them who submit tokens of others
  Request, NoEntry

\* What a composition assumes of the constants.
SharesAssumption == Submitter \subseteq Owner /\ IsFiniteSet(Owner)

VARIABLES
  owners,    \* users or teams
  deleted,
  cache,     \* _token_map_cache: the number of owners, and those with a token
  request,   \* an attempt that is not correct
  shares     \* container_flag_shares: who submitted whose token

shareVars == <<owners, deleted, cache, request, shares>>

Idle == [pc |-> "idle"]

SharesInit ==
  /\ owners \in SUBSET Owner /\ deleted = {}
  /\ cache = NoEntry
  /\ request = [r \in Request |-> Idle]
  /\ shares = {}

AtPc(r, pc) == request[r].pc = pc
To(r, pc)   == request' = [request EXCEPT ![r].pc = pc]

(***************************************************************************)
(* Owners                                                                  *)
(***************************************************************************)
SignsUp(o) ==
  /\ o \notin owners \cup deleted /\ owners' = owners \cup {o}
  /\ UNCHANGED <<deleted, cache, request, shares>>

\* Records keep the submitter by name and forget who owned the token.  Lists that
\* were read before are from now on out of date.
IsDeleted(o) ==
  /\ o \in owners /\ owners' = owners \ {o} /\ deleted' = deleted \cup {o}
  /\ cache' = IF cache = NoEntry THEN cache ELSE [cache EXCEPT !.fresh = FALSE]
  /\ request' = [r \in Request |-> IF request[r] = Idle THEN Idle
                                   ELSE [request[r] EXCEPT !.fresh = FALSE,
                                           !.present = @ /\ o \notin {request[r].by, request[r].of}]]
  /\ UNCHANGED shares

(***************************************************************************)
(* attempt, _find_token_owner                                              *)
(***************************************************************************)

\* An answer is not correct, and has the token of somebody else, of now or of
\* whenever; the owners are counted.
Attempts(r, s, o) ==
  /\ AtPc(r, "idle") /\ s \in owners /\ s # o
  /\ request' = [request EXCEPT ![r] =
       [pc |-> "look", by |-> s, of |-> o, seen |-> owners, present |-> o \in owners, fresh |-> TRUE]]
  /\ UNCHANGED <<owners, deleted, cache, shares>>

\* With the lock: an entry with that number of owners decides.
Looks(r) ==
  LET hit == cache # NoEntry /\ cache.count = Cardinality(request[r].seen)
  IN /\ AtPc(r, "look")
     /\ request' = [request EXCEPT ![r] =
          IF hit THEN [@ EXCEPT !.pc = IF request[r].of \in cache.map THEN "record" ELSE "over",
                                !.fresh = cache.fresh, !.seen = {}]
                 ELSE [@ EXCEPT !.pc = "load"]]
     /\ UNCHANGED <<owners, deleted, cache, shares>>

\* All owners are read, as they are now or as they were for the count ...
Loads(r) ==
  /\ AtPc(r, "load")
  /\ \/ request' = [request EXCEPT ![r].pc = "store", ![r].seen = owners, ![r].fresh = TRUE]
     \/ To(r, "store")
  /\ UNCHANGED <<owners, deleted, cache, shares>>

\* The owner of the token was found, or not.
Found(r, yes) ==
  request' = [request EXCEPT ![r].pc = IF yes THEN "record" ELSE "over", ![r].seen = {}]

\* Mutant of Stores: the owners are counted again for the entry.
StoresCount(r) ==
  /\ AtPc(r, "store")
  /\ cache' = [count |-> Cardinality(owners), map |-> request[r].seen, fresh |-> request[r].fresh]
  /\ Found(r, request[r].of \in request[r].seen)
  /\ UNCHANGED <<owners, deleted, shares>>

\* ... and their tokens stored with their own number.
Stores(r) ==
  LET seen == request[r].seen
  IN /\ AtPc(r, "store")
     /\ cache' = [count |-> Cardinality(seen), map |-> seen, fresh |-> request[r].fresh]
     /\ Found(r, request[r].of \in seen)
     /\ UNCHANGED <<owners, deleted, shares>>

\* The record is written, unless there is one of this submitter and token, or one
\* of the two was deleted: then the transaction is rolled back, and no more.
Records(r) ==
  LET a == request[r]
  IN /\ AtPc(r, "record")
     /\ IF {a.by, a.of} \subseteq owners THEN shares' = shares \cup {<<a.by, a.of>>} ELSE UNCHANGED shares
     /\ To(r, "over")
     /\ UNCHANGED <<owners, deleted, cache>>

\* The answer is given.
Answers(r) ==
  /\ AtPc(r, "over") /\ request' = [request EXCEPT ![r] = Idle]
  /\ UNCHANGED <<owners, deleted, cache, shares>>

----------------------------------------------------------------------------
SharesNext ==
  \/ \E o \in Owner : SignsUp(o) \/ IsDeleted(o)
  \/ \E r \in Request :
       \/ \E s \in Submitter, o \in Owner : Attempts(r, s, o)
       \/ Looks(r) \/ Loads(r) \/ Stores(r) \/ Records(r) \/ Answers(r)

SharesSpec == SharesInit /\ [][SharesNext]_shareVars

(***************************************************************************)
(* Properties                                                              *)
(***************************************************************************)

\* No share goes unseen: when an answer with the token of somebody who was there
\* all along is refused, it is on record, however signups, deletions and other
\* answers came in between; except that nobody was deleted since the list of
\* owners was read, as the number cannot tell a deletion and a signup from none.
ShareRecorded ==
  \A r \in Request :
    AtPc(r, "over") /\ request[r].present /\ request[r].fresh => <<request[r].by, request[r].of>> \in shares

=============================================================================
