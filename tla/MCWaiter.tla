------------------------------ MODULE MCWaiter ------------------------------
(* Waiter for TLC: every slice of at most N waiters, both functions. *)
EXTENDS Waiter
=============================================================================
