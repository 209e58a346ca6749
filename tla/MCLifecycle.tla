---------------------------- MODULE MCLifecycle ----------------------------
(* Lifecycle as TLC checks it: MCLifecycle_safety.cfg, MCLifecycle_live.cfg   *)
(* and MCLifecycle_admission.cfg give its constants small values.             *)
EXTENDS Lifecycle

\* Current reads with a host whose clock is as far behind as the safety age, where
\* only the second lookup saves a young instance; and repeatable reads with a
\* host that is less behind, where only the age does.
AnySite == {[isolation |-> "committed", skew |-> 2], [isolation |-> "repeatable", skew |-> 1]}

\* Current reads, synchronous clocks.
GoodSite == {[isolation |-> "committed", skew |-> 0]}
=============================================================================
