---------------------------- MODULE MCPlacement ----------------------------
\* Small instances of Placement: who asks for what, and where it may go.
EXTENDS Placement

CONSTANTS r1, r2, r3, c1, c2

\* One owner: two requests for one challenge and one for another.
OneOwner      == [r \in Request |-> "owner"]
TwoChallenges == [r \in Request |-> IF r = r3 THEN "other" ELSE "same"]

\* A second owner competes for create slots.
TwoOwners     == [r \in Request |-> IF r = r3 THEN "rival" ELSE "owner"]
EachItsOwn    == [r \in Request |-> r]

Everywhere    == [r \in Request |-> Context]
=============================================================================
