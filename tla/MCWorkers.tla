------------------------------ MODULE MCWorkers ------------------------------
\* A small instance of Workers: an admin request is served by one of two workers.
EXTENDS Workers

CONSTANTS w1, w2, a1

ServedByFirst == [a \in Admin |-> w1]
=============================================================================
