------------------------------ MODULE QuotaHold -----------------------------
(***************************************************************************)
(* What a billing session promises to the account it draws on.  While it   *)
(* is open it may hold any amount.  It closes once: with its cost charged, *)
(* with everything released, or, when the settlement was refused, with the *)
(* hold kept as it is.  After that the amount never moves again.           *)
(***************************************************************************)
EXTENDS Naturals

CONSTANTS Requests, Costs

VARIABLES phase, held

holdVars == <<phase, held>>

HoldInit ==
    /\ phase = [r \in Requests |-> "open"]
    /\ held = [r \in Requests |-> 0]

Hold(r) ==
    /\ phase[r] = "open"
    /\ held'[r] \in Nat
    /\ held' = [held EXCEPT ![r] = held'[r]]
    /\ UNCHANGED phase

Charge(r, cost) ==
    /\ phase[r] = "open"
    /\ phase' = [phase EXCEPT ![r] = "charged"]
    /\ held' = [held EXCEPT ![r] = cost]

Release(r) ==
    /\ phase[r] = "open"
    /\ phase' = [phase EXCEPT ![r] = "released"]
    /\ held' = [held EXCEPT ![r] = 0]

Keep(r) ==
    /\ phase[r] = "open"
    /\ phase' = [phase EXCEPT ![r] = "kept"]
    /\ UNCHANGED held

HoldNext ==
    \E r \in Requests :
        \/ Hold(r)
        \/ \E cost \in Costs : Charge(r, cost)
        \/ Release(r)
        \/ Keep(r)

HoldSpec == HoldInit /\ [][HoldNext]_holdVars

=============================================================================
