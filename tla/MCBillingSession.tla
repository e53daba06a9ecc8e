-------------------------- MODULE MCBillingSession --------------------------
(* BillingSession for TLC: the requests are interchangeable.               *)
EXTENDS BillingSession, TLC

Symmetry == Permutations(Requests)
=============================================================================
