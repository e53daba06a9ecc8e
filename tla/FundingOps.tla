----------------------------- MODULE FundingOps -----------------------------
(***************************************************************************)
(* The arithmetic of a user_subscriptions row (model/subscription.go),     *)
(* shared by the modules in which requests draw on a subscription.  A row  *)
(* counts consumption upwards ("used") against a ceiling ("total"); a      *)
(* ceiling of 0 means unlimited.  The quota columns (amount_used,          *)
(* amount_total) and the tokens columns (tokens_used, tokens_limit) follow *)
(* the same rules.                                                         *)
(***************************************************************************)
EXTENDS Integers

\* Mutant of CanPreConsume: asks whether anything is left, not whether enough.
CanPreConsumeAnyLeft(total, used, amount) == total > 0 => used < total

\* The check a pre-consumption makes before it creates its record.
CanPreConsume(total, used, amount) == total > 0 => total - used >= amount

\* Mutant of ClampedUsed: no clamp.
UnclampedUsed(used, delta) == used + delta

\* used + delta, clamped at zero: what a settlement or a refund leaves behind.
ClampedUsed(used, delta) == IF used + delta < 0 THEN 0 ELSE used + delta

\* A settlement that would pass the ceiling is refused as a whole.
CanPostConsume(total, used, delta) ==
    total > 0 => ClampedUsed(used, delta) <= total

\* trySubscription raises an estimate of 0 to 1, so that a record exists.
SubConsume(estimate) == IF estimate <= 0 THEN 1 ELSE estimate

=============================================================================
