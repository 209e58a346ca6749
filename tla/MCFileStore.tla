---------------------------- MODULE MCFileStore ----------------------------
(***************************************************************************)
(* Instances of FileStore.  A player u1, of team t1, makes requests, or    *)
(* three teams do; some are made in advance for them.                      *)
(***************************************************************************)
EXTENDS FileStore, TLC

CONSTANTS c1, r1, r2, f1, f2, u1, t1, t2, t3, q1, q2, q3, p1, p2

Ask(print) == [challenge |-> c1, print |-> print, as |-> [user |-> u1, team |-> t1]]

KindOfOwner == [o \in Owner |-> IF o = u1 THEN "user" ELSE "team"]

\* All of them for the same file, in one process.
SameAsks == [r \in Request |-> Ask(f1)]
OneProc  == [r \in Request |-> p1]

\* The flags of the challenge change after the first request, and the others come
\* to another process.
ChangedAsks == [r \in Request |-> IF r = q1 THEN Ask(f1) ELSE Ask(f2)]
TwoProcs    == [r \in Request |-> IF r = q1 THEN p1 ELSE p2]

\* Three teams.
OwnAsks ==
  [r \in Request |-> [Ask(f1) EXCEPT !.as.team = CASE r = q1 -> t1 [] r = q2 -> t2 [] r = q3 -> t3]]

Tokens == Permutations(Gen)
TokensAndRequests == Tokens \cup Permutations(Request)

=============================================================================
